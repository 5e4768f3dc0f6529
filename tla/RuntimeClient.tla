--------------------------- MODULE RuntimeClient ---------------------------
(***************************************************************************)
(* How hosts find, start and stop the runtime: the discovery of            *)
(* runtimeClient.ts over the calls of adapter-http, the start, stop and    *)
(* restart of the command line (apps/cli), and the daemon's life as they   *)
(* see it (daemon.ts, runtime.ts).  All daemons listen on the one default  *)
(* port, so that a caller may reach another one than it read about.  The   *)
(* claim of the owner lock is one step: RuntimeOwnership has its detail.   *)
(***************************************************************************)
EXTENDS Naturals, FiniteSets

CONSTANTS
    Daemons,        \* runs of the daemon
    Hosts,          \* invocations of the command line or of the desktop
    Nobody,         \* no daemon: no lock, no runtime.json, no answer
    Versions,       \* release versions
    MaxFaults       \* bound: crashes, failed starts and lost calls

ASSUME ClientAssumption == Nobody \notin Daemons /\ Versions # {} /\ MaxFaults \in Nat

VARIABLES
    daemon,     \* each daemon: its step, its release, whether its API is bound, and
                \* whether it was asked to stop before it could
    owner,      \* the daemon runtime.lock names
    listed,     \* the daemon runtime.json names
    token,      \* the control token can be read by this user
    host,       \* each host: its step, aim, release, the daemon it read of, its deadline, its result
    excused,    \* hosts that waited beside a daemon which closed, died or failed
    clientFaults

clientVars == <<daemon, owner, listed, token, host, excused, clientFaults>>

Aims == {"start", "stop", "restart"}
Alive(d) == d # Nobody /\ daemon[d].at \notin {"unborn", "gone", "dead"}
Answers(d) == daemon[d].at \in {"bound", "serving", "asked"} /\ daemon[d].api
\* Daemons nobody will be able to connect to any more.
Useless(d) == \/ daemon[d].at \in {"asked", "closed", "unlisted"}
              \/ daemon[d].at \in {"bound", "serving"} /\ (~daemon[d].api \/ daemon[d].stop)

\* Hosts that have started a daemon and poll for it.
Waiting(h) == host[h].aim = "poll" /\ host[h].at \in {"look", "call"}

Goto(d, step) == daemon' = [daemon EXCEPT ![d].at = step]
Excuse == excused' = excused \cup {h \in Hosts : Waiting(h)}
Fault == clientFaults < MaxFaults /\ clientFaults' = clientFaults + 1

Idle == [at |-> "idle", aim |-> "none", version |-> CHOOSE v \in Versions : TRUE,
         of |-> Nobody, late |-> FALSE, result |-> "none"]

ClientInit ==
    /\ daemon = [d \in Daemons |-> [at |-> "unborn", version |-> Idle.version, api |-> FALSE, stop |-> FALSE]]
    /\ owner = Nobody /\ listed = Nobody
    /\ token \in BOOLEAN
    /\ host \in [Hosts -> {[Idle EXCEPT !.version = v] : v \in Versions}]
    /\ excused = {}
    /\ clientFaults = 0

-----------------------------------------------------------------------------
(* The daemon.                                                              *)

\* A lock is respected even when its owner is dead.
ClaimUnlessLocked(d) ==
    /\ daemon[d].at = "claiming"
    /\ IF owner # Nobody THEN Goto(d, "gone") /\ UNCHANGED owner ELSE Goto(d, "starting") /\ owner' = d
    /\ UNCHANGED <<listed, token, host, excused, clientFaults>>

\* claimRuntimeOwnership; the loser exits with status 2 (already running).
ClaimLock(d) ==
    /\ daemon[d].at = "claiming"
    /\ IF Alive(owner)
         THEN Goto(d, "gone") /\ UNCHANGED <<owner, listed>>
         ELSE /\ Goto(d, "starting")
              /\ owner' = d
              /\ listed' = IF listed = owner THEN Nobody ELSE listed
    /\ UNCHANGED <<token, host, excused, clientFaults>>

\* The listeners: an API that cannot bind leaves the runtime up without it.
Bind(d) ==
    /\ daemon[d].at = "starting"
    /\ \E ok \in BOOLEAN :
         /\ daemon' = [daemon EXCEPT ![d].at = "bound", ![d].api = ok]
         /\ IF ok THEN UNCHANGED <<excused, clientFaults>> ELSE Fault /\ Excuse
    /\ UNCHANGED <<owner, listed, token, host>>

\* runDaemon: what asked it to stop since it was bound stops it now.
PublishState(d) ==
    /\ daemon[d].at = "bound"
    /\ Goto(d, IF daemon[d].stop THEN "asked" ELSE "serving")
    /\ listed' = d
    /\ UNCHANGED <<owner, token, host, excused, clientFaults>>

\* Startup fails (status 1): everything is stopped and the lock released.
StartupFails(d) ==
    /\ daemon[d].at = "starting"
    /\ Fault /\ Excuse
    /\ Goto(d, "gone")
    /\ owner' = Nobody
    /\ UNCHANGED <<listed, token, host>>

\* close: stop listening, remove runtime.json, release the lock, in that order.
StopListening(d) ==
    /\ daemon[d].at = "asked"
    /\ Goto(d, "closed")
    /\ UNCHANGED <<owner, listed, token, host, excused, clientFaults>>

Unlist(d) ==
    /\ daemon[d].at = "closed"
    /\ Goto(d, "unlisted")
    /\ listed' = IF listed = d THEN Nobody ELSE listed
    /\ UNCHANGED <<owner, token, host, excused, clientFaults>>

\* Status 0.
ReleaseLock(d) ==
    /\ daemon[d].at = "unlisted"
    /\ Goto(d, "gone")
    /\ owner' = IF owner = d THEN Nobody ELSE owner
    /\ UNCHANGED <<listed, token, host, excused, clientFaults>>

\* SIGINT or SIGTERM.
Terminate(d) ==
    /\ daemon[d].at = "serving"
    /\ Fault /\ Excuse
    /\ Goto(d, "asked")
    /\ UNCHANGED <<owner, listed, token, host>>

Die(d) ==
    /\ Alive(d)
    /\ Fault /\ Excuse
    /\ Goto(d, "dead")
    /\ UNCHANGED <<owner, listed, token, host>>

-----------------------------------------------------------------------------
(* Discovery.  A connection attempt ends as one of three things, and each   *)
(* aim goes on from them in its own way.                                    *)

Step(h, at) == host' = [host EXCEPT ![h].at = at]
EndWith(h, result) == host' = [host EXCEPT ![h].at = "done", ![h].result = result]

\* An error of connectRuntimeClient: only a poll goes on, and only from `unavailable`.
Fails(h, code) ==
    /\ IF host[h].aim = "poll" /\ code = "unavailable" THEN Step(h, "look") ELSE EndWith(h, code)
    /\ UNCHANGED daemon

\* No owner is published: start one, once, with this host's release.
NotFound(h) ==
    CASE host[h].aim = "start" ->
           \E d \in {e \in Daemons : daemon[e].at = "unborn"} :
             /\ daemon' = [daemon EXCEPT ![d].at = "claiming", ![d].version = host[h].version]
             /\ host' = [host EXCEPT ![h].aim = "poll", ![h].at = "look"]
      [] host[h].aim = "poll" -> Step(h, "look") /\ UNCHANGED daemon
      [] host[h].aim = "stop" -> EndWith(h, "not-running") /\ UNCHANGED daemon
      [] host[h].aim = "restart" -> host' = [host EXCEPT ![h].aim = "start", ![h].at = "look"] /\ UNCHANGED daemon

Found(h) ==
    /\ IF host[h].aim \in {"start", "poll"} THEN EndWith(h, "connected") ELSE Step(h, "shut")
    /\ UNCHANGED daemon

Invoke(h) ==
    /\ host[h].at = "idle"
    /\ \E aim \in Aims : host' = [host EXCEPT ![h].at = "look", ![h].aim = aim]
    /\ UNCHANGED <<daemon, owner, listed, token, excused, clientFaults>>

\* readDiscoveryState and the checks that need no call.
Look(h) ==
    /\ host[h].at = "look" /\ ~host[h].late
    /\ \/ /\ ~Alive(listed)
          /\ NotFound(h)
          \* The daemon started here may find the lock held by one that serves nobody.
          /\ excused' = IF host[h].aim = "start" /\ \E d \in Daemons : Useless(d)
                          THEN excused \cup {h} ELSE excused
       \/ /\ Alive(listed)
          /\ CASE ~daemon[listed].api -> Fails(h, "unavailable")
               [] daemon[listed].api /\ ~token -> Fails(h, "authentication")
               [] OTHER -> host' = [host EXCEPT ![h].at = "call", ![h].of = listed] /\ UNCHANGED daemon
          /\ UNCHANGED excused
    /\ UNCHANGED <<owner, listed, token, clientFaults>>

\* Whoever answers on the port is taken for the daemon read about.
VerdictOfAny(h, d) ==
    IF daemon[d].version # host[h].version THEN "incompatible-version" ELSE "found"

\* What the initialize and getStatus calls say of the daemon that answers.
Verdict(h, d) ==
    CASE d # host[h].of -> "invalid-state"
      [] d = host[h].of /\ daemon[d].version # host[h].version -> "incompatible-version"
      [] OTHER -> "found"

CallRuntime(h) ==
    /\ host[h].at = "call"
    /\ \/ \E d \in Daemons :
            /\ Answers(d)
            /\ IF Verdict(h, d) = "found" THEN Found(h) ELSE Fails(h, Verdict(h, d))
       \/ (\A d \in Daemons : ~Answers(d)) /\ Fails(h, "unavailable")
    /\ UNCHANGED <<owner, listed, token, excused, clientFaults>>

\* The call times out, or the runtime is overloaded.
CallIsLost(h) ==
    /\ host[h].at = "call"
    /\ Fault
    /\ Fails(h, "unavailable")
    /\ UNCHANGED <<owner, listed, token, excused>>

\* runtime/shutdown: answered, then close() runs in a microtask.
ShutDown(h) ==
    /\ host[h].at = "shut"
    /\ \/ \E d \in Daemons :
            /\ Answers(d)
            /\ CASE daemon[d].at = "serving" -> Goto(d, "asked") /\ Excuse
                 [] daemon[d].at = "bound" -> daemon' = [daemon EXCEPT ![d].stop = TRUE] /\ Excuse
                 [] daemon[d].at = "asked" -> UNCHANGED <<daemon, excused>>
            /\ Step(h, "wait")
       \/ /\ \A d \in Daemons : ~Answers(d)
          /\ EndWith(h, "internal")
          /\ UNCHANGED <<daemon, excused>>
    /\ UNCHANGED <<owner, listed, token, clientFaults>>

\* waitForStopped: runtime.json is gone or names another.
Stopped(h) ==
    /\ host[h].at = "wait" /\ ~host[h].late
    /\ listed # host[h].of
    /\ IF host[h].aim = "stop" THEN EndWith(h, "stopped")
       ELSE host' = [host EXCEPT ![h].aim = "start", ![h].at = "look"]
    /\ UNCHANGED <<daemon, owner, listed, token, excused, clientFaults>>

\* The deadlines of ensureRuntimeClient and of waitForStopped: each round looks
\* at the clock first, a call in progress is left to end.
DeadlinePasses(h) ==
    /\ host[h].at = "wait" \/ Waiting(h)
    /\ ~host[h].late
    /\ host' = [host EXCEPT ![h].late = TRUE]
    /\ UNCHANGED <<daemon, owner, listed, token, excused, clientFaults>>

TimesOut(h) ==
    /\ host[h].late /\ host[h].at \in {"look", "wait"}
    /\ EndWith(h, "timeout")
    /\ UNCHANGED <<daemon, owner, listed, token, excused, clientFaults>>

\* The command line's exit status.
ExitStatus(result) ==
    CASE result \in {"connected", "stopped"} -> 0
      [] result = "not-running" -> 2
      [] result = "incompatible-version" -> 3
      [] OTHER -> 1

Progress(d) == ClaimLock(d) \/ Bind(d) \/ PublishState(d) \/ StopListening(d) \/ Unlist(d) \/ ReleaseLock(d)
Attempt(h) == Look(h) \/ CallRuntime(h) \/ ShutDown(h) \/ Stopped(h) \/ TimesOut(h)

ClientNext ==
    \/ \E d \in Daemons : Progress(d) \/ StartupFails(d) \/ Terminate(d) \/ Die(d)
    \/ \E h \in Hosts : Invoke(h) \/ Attempt(h) \/ CallIsLost(h) \/ DeadlinePasses(h)

-----------------------------------------------------------------------------
(* Whoever else starts a daemon, and however their daemons and polls        *)
(* interleave, a host that waits has one to wait for: the loser of the lock *)
(* exits only beside a winner.  A host is excused when it started its daemon *)
(* beside one that was closing or had no API (the new one may have found the *)
(* lock held), or when a daemon closed, failed or died during the wait.      *)
NeverHopeless ==
    \A h \in Hosts \ excused :
        Waiting(h) => \E d \in Daemons : Alive(d) /\ ~Useless(d)

(* What the exit status tells: success of start means that the daemon it    *)
(* names answered for itself with the host's release; success of stop means *)
(* that the daemon it had found no longer listens, although others may      *)
(* have been started since.                                                 *)
ExitTells ==
    \A h \in Hosts :
        host[h].at = "done" /\ ExitStatus(host[h].result) = 0 =>
            /\ host[h].result = "connected" => daemon[host[h].of].version = host[h].version
            /\ host[h].result = "stopped" => ~Answers(host[h].of)

(* As the hosts see it, a claim is one step.  It is so by OwnerFiles, which  *)
(* both this module and the detailed RuntimeOwnership implement.             *)
SeenFiles == INSTANCE OwnerFiles WITH
    Processes <- Daemons, None <- Nobody,
    owner <- owner, listed <- listed,
    live <- {d \in Daemons : Alive(d)},
    replaced <- FALSE
=============================================================================
