------------------------ MODULE RuntimeEdges_proofs ------------------------
(* Theorems about RuntimeEdges, for every number of hosts, daemons and       *)
(* requests, and every limit.  A step belongs to one scene and leaves the    *)
(* variables of the others as they are.                                      *)
EXTENDS RuntimeEdges, FiniteSetTheorems, SequenceTheorems, TLAPS

-----------------------------------------------------------------------------
(* The discovery file.                                                      *)

PublishStages == {"starting", "writing", "running", "closing", "closed"}

PublishTypeOK ==
    /\ publishing \in PublishStages
    /\ statuses \in Nat
    /\ writes \in Seq(Nat)
    /\ behind \in BOOLEAN

\* While snapshots wait to be written, the last of them is of now: a change
\* adds its own.  Before the first is written, there is just that one.
PublishInv ==
    /\ PublishTypeOK
    /\ publishing \in {"starting", "writing", "closed"} => runtimeFile = NoState
    /\ publishing = "writing" => Len(writes) = 1 /\ (~behind => writes[1] = statuses)
    /\ publishing = "running" =>
         /\ writes # <<>> => writes[Len(writes)] = statuses
         /\ writes = <<>> /\ ~behind => runtimeFile = statuses

LEMMA FirstOfSeq ==
    ASSUME NEW s \in Seq(Nat), s # <<>>
    PROVE  /\ Head(s) \in Nat /\ Head(s) = s[1]
           /\ Tail(s) \in Seq(Nat)
           /\ Tail(s) # <<>> => Tail(s)[Len(Tail(s))] = s[Len(s)]
           /\ Tail(s) = <<>> => Len(s) = 1
<1>1. Len(s) \in Nat /\ Len(s) # 0
  BY EmptySeq, LenProperties
<1>2. Head(s) = s[1] /\ Head(s) \in Nat
  BY HeadTailProperties
<1>3. /\ Tail(s) \in Seq(Nat) /\ Len(Tail(s)) = Len(s) - 1
      /\ \A i \in 1..Len(Tail(s)) : Tail(s)[i] = s[i + 1]
  BY HeadTailProperties
<1>4. Tail(s) = <<>> <=> Len(s) = 1
  <2>1. \A t \in Seq(Nat) : t = <<>> <=> Len(t) = 0
    BY EmptySeq, LenProperties
  <2>2. Tail(s) = <<>> <=> Len(Tail(s)) = 0
    BY <1>3, <2>1
  <2>3. Len(Tail(s)) = Len(s) - 1
    BY <1>3
  <2>4. Len(Tail(s)) = 0 <=> Len(s) = 1
    BY <1>1, <2>3
  <2> QED BY <2>2, <2>4
<1>5. Tail(s) # <<>> => Len(Tail(s)) \in 1..Len(Tail(s))
  BY <1>1, <1>3, <1>4
<1> QED BY <1>1, <1>2, <1>3, <1>4, <1>5

LEMMA LastOfAppend ==
    ASSUME NEW s \in Seq(Nat), NEW n \in Nat
    PROVE  /\ Append(s, n) \in Seq(Nat) /\ Append(s, n) # <<>>
           /\ Append(s, n)[Len(Append(s, n))] = n
<1>1. /\ Append(s, n) \in Seq(Nat) /\ Len(Append(s, n)) = Len(s) + 1
      /\ Append(s, n)[Len(s) + 1] = n
  BY AppendProperties
<1>2. Len(s) \in Nat
  BY LenProperties
<1> QED BY <1>1, <1>2, EmptySeq

LEMMA PublishStep == PublishInv /\ PublishNext => PublishInv'
<1> SUFFICES ASSUME PublishInv, PublishNext PROVE PublishInv'
  OBVIOUS
<1> USE DEF PublishInv, PublishTypeOK, PublishStages
<1>1. ASSUME writes # <<>>
      PROVE  /\ Head(writes) \in Nat /\ Head(writes) = writes[1]
             /\ Tail(writes) \in Seq(Nat)
             /\ Tail(writes) # <<>> => Tail(writes)[Len(Tail(writes))] = writes[Len(writes)]
             /\ Tail(writes) = <<>> => Len(writes) = 1
  BY <1>1, FirstOfSeq
<1>2. CASE StatusChanges
  <2>1. /\ Append(writes, statuses + 1) \in Seq(Nat)
        /\ Append(writes, statuses + 1) # <<>>
        /\ Append(writes, statuses + 1)[Len(Append(writes, statuses + 1))] = statuses + 1
    BY LastOfAppend
  <2>2. behind' \in BOOLEAN /\ (publishing = "writing" => behind') /\ (behind => behind')
    BY <1>2 DEF StatusChanges
  <2>3. /\ publishing' = publishing /\ publishing # "closed" /\ runtimeFile' = runtimeFile
        /\ statuses' = statuses + 1
        /\ writes' = IF publishing = "running" THEN Append(writes, statuses + 1) ELSE writes
    BY <1>2 DEF StatusChanges
  <2>4. publishing = "running" => writes' # <<>> /\ writes'[Len(writes')] = statuses'
    BY <2>1, <2>3
  <2>5. statuses' \in Nat /\ writes' \in Seq(Nat)
    BY <2>1, <2>3
  <2> QED BY <2>2, <2>3, <2>4, <2>5
<1>3. CASE FirstSnapshot
  BY <1>3 DEF FirstSnapshot
<1>4. CASE FirstWrite
  BY <1>1, <1>4 DEF FirstWrite
<1>5. CASE StartIsUndone
  BY <1>5 DEF StartIsUndone
<1>6. CASE WriteSnapshot
  BY <1>1, <1>6 DEF WriteSnapshot
<1>7. CASE BeginClosing
  BY <1>7 DEF BeginClosing
<1>8. CASE RemoveState
  BY <1>8 DEF RemoveState
<1> QED BY <1>2, <1>3, <1>4, <1>5, <1>6, <1>7, <1>8 DEF PublishNext

(* For any number of status changes, and whichever writes fail: once no     *)
(* write is left, runtime.json shows the listeners as they are, but for the  *)
(* changes that PublishedCurrent excepts, and a closed runtime has none.     *)
THEOREM PublishedCorrect == Spec => []PublishedCurrent
<1>1. Init => PublishInv
  <2>1. <<>> \in Seq(Nat)
    BY EmptySeq
  <2>2. Init => PublishInit
    BY DEF Init
  <2>3. PublishInit => PublishTypeOK
    <3>1. PublishInit => writes \in Seq(Nat)
      BY <2>1, Zenon DEF PublishInit
    <3>2. PublishInit => behind \in BOOLEAN
      BY Zenon DEF PublishInit
    <3>3. PublishInit => publishing \in PublishStages /\ statuses \in Nat
      BY SMT DEF PublishInit, PublishStages
    <3> QED BY <3>1, <3>2, <3>3 DEF PublishTypeOK
  <2> QED BY <2>2, <2>3 DEF PublishInit, PublishInv
<1>2. PublishInv /\ [Next]_vars => PublishInv'
  <2>1. PublishInv /\ UNCHANGED publishVars => PublishInv'
    BY DEF publishVars, PublishInv, PublishTypeOK
  <2> QED BY <2>1, PublishStep
       DEF Next, vars, OnClients, OnServers, OnPublishing, OnDesktop, OnPassage
<1>3. PublishInv => PublishedCurrent
  BY DEF PublishInv, PublishedCurrent
<1> QED BY <1>1, <1>2, <1>3, PTL DEF Spec

-----------------------------------------------------------------------------
(* Hosts and daemons.                                                       *)

DaemonSteps == {"unborn", "claiming", "starting", "bound", "serving", "asked", "closed",
                "unlisted", "gone", "dead"}
HostSteps == {"idle", "look", "call", "shut", "wait", "done"}
Results == {"none", "connected", "stopped", "not-running", "unavailable", "authentication",
            "incompatible-version", "invalid-state", "internal", "timeout"}

HostRecords == [at : HostSteps, aim : Aims \cup {"none", "poll"}, version : Versions,
                of : Daemons \cup {Nobody}, late : BOOLEAN, result : Results]

ClientTypeOK ==
    /\ daemon \in [Daemons -> [at : DaemonSteps, version : Versions, api : BOOLEAN, stop : BOOLEAN]]
    /\ owner \in Daemons \cup {Nobody} /\ listed \in Daemons \cup {Nobody}
    /\ host \in [Hosts -> HostRecords]

\* A daemon between its claim and the release of the lock is the owner, and
\* one that serves is the one that is published.
OneDaemonInv ==
    /\ \A d \in Daemons :
         /\ daemon[d].at \in {"starting", "bound", "serving", "asked", "closed", "unlisted"} => owner = d
         /\ daemon[d].at \in {"serving", "asked"} => listed = d
         /\ daemon[d].stop => daemon[d].at \notin {"unborn", "claiming", "starting"}
    /\ owner # Nobody => daemon[owner].at \notin {"unborn", "claiming", "gone"}
    /\ listed # Nobody => daemon[listed].at \in {"serving", "asked", "closed", "dead"}

\* A daemon that a host has read about has been published, and never is again.
ReadAbout(x) ==
    /\ x.at \in {"call", "shut", "wait"} => x.of # Nobody
    /\ x.result \in {"connected", "stopped"} => x.of # Nobody
    /\ x.of # Nobody => daemon[x.of].at \in {"serving", "asked", "closed", "unlisted", "gone", "dead"}
    /\ x.result = "connected" => daemon[x.of].version = x.version
    /\ x.result = "stopped" => daemon[x.of].at \in {"closed", "unlisted", "gone", "dead"}
    /\ x.at # "done" => x.result = "none"
    /\ x.at # "idle" => x.aim # "none"

ReadAboutInv == \A h \in Hosts : ReadAbout(host[h])

\* A daemon that becomes useless excuses those who wait.
HopeInv ==
    \A h \in Hosts \ excused :
        Waiting(h) => (\A d \in Daemons : ~Useless(d)) /\ \E d \in Daemons : Alive(d)

ClientInv == ClientTypeOK /\ OneDaemonInv /\ ReadAboutInv /\ HopeInv

DaemonStep(d) == Progress(d) \/ StartupFails(d) \/ Terminate(d) \/ Die(d)
HostStep(h) == Invoke(h) \/ Attempt(h) \/ CallIsLost(h) \/ DeadlinePasses(h)

\* What a step of a daemon does.
LEMMA DaemonMoves ==
    ASSUME ClientInv, NEW d \in Daemons, DaemonStep(d)
    PROVE  ClientInv'
<1> USE DEF ClientInv, ClientTypeOK, OneDaemonInv, ReadAboutInv, ReadAbout, HopeInv, Waiting, Useless, Alive,
        DaemonSteps, HostSteps, HostRecords, Results, Aims, Goto
<1> USE ClientAssumption
<1>1. CASE ClaimLock(d)
  <2>1. CASE Alive(owner)
    <3>1. /\ daemon' = [daemon EXCEPT ![d].at = "gone"]
          /\ UNCHANGED <<owner, listed, token, host, excused, clientFaults>>
      BY <1>1, <2>1 DEF ClaimLock
    <3>2. owner \in Daemons /\ owner # d
      BY <1>1, <2>1 DEF ClaimLock
    <3> QED BY <1>1, <2>1, <3>1, <3>2 DEF ClaimLock
  <2>2. CASE ~Alive(owner)
    <3>1. /\ daemon' = [daemon EXCEPT ![d].at = "starting"]
          /\ owner' = d
          /\ listed' = IF listed = owner THEN Nobody ELSE listed
          /\ UNCHANGED <<token, host, excused, clientFaults>>
      BY <1>1, <2>2 DEF ClaimLock
    <3> QED BY <1>1, <2>2, <3>1 DEF ClaimLock
  <2> QED BY <2>1, <2>2
<1>2. CASE Bind(d)
  <2> PICK ok \in BOOLEAN :
           /\ daemon' = [daemon EXCEPT ![d].at = "bound", ![d].api = ok]
           /\ IF ok THEN UNCHANGED <<excused, clientFaults>> ELSE Fault /\ Excuse
    BY <1>2 DEF Bind
  <2>1. daemon[d].at = "starting" /\ UNCHANGED <<owner, listed, token, host>>
    BY <1>2 DEF Bind
  <2>2. /\ daemon' \in [Daemons -> [at : DaemonSteps, version : Versions, api : BOOLEAN, stop : BOOLEAN]]
        /\ daemon'[d].at = "bound" /\ daemon'[d].api = ok /\ daemon'[d].stop = daemon[d].stop
        /\ \A e \in Daemons : /\ e # d => daemon'[e] = daemon[e]
                              /\ daemon'[e].version = daemon[e].version
    <3>1. daemon[d] \in [at : DaemonSteps, version : Versions, api : BOOLEAN, stop : BOOLEAN]
      OBVIOUS
    <3>2. daemon'[d] = [at |-> "bound", version |-> daemon[d].version, api |-> ok,
                       stop |-> daemon[d].stop]
      BY <3>1
    <3>3. DOMAIN daemon' = Daemons /\ \A e \in Daemons : e # d => daemon'[e] = daemon[e]
      OBVIOUS
    <3>4. daemon' = [e \in Daemons |-> daemon'[e]]
      BY <3>3
    <3>5. \A e \in Daemons : daemon'[e] \in [at : DaemonSteps, version : Versions, api : BOOLEAN, stop : BOOLEAN]
      BY <3>1, <3>2, <3>3
    <3> QED BY <3>2, <3>3, <3>4, <3>5
  <2>3. ClientTypeOK'
    BY <2>1, <2>2
  <2>4. OneDaemonInv'
    BY <2>1, <2>2
  <2>5. ReadAboutInv'
    BY <2>1, <2>2
  <2>6. HopeInv'
    <3>1. CASE ok
      BY <2>1, <2>2, <3>1
    <3>2. CASE ~ok
      <4>1. excused' = excused \cup {h \in Hosts : Waiting(h)}
        BY <3>2 DEF Excuse
      <4> QED BY <2>1, <4>1
    <3> QED BY <3>1, <3>2
  <2> QED BY <2>3, <2>4, <2>5, <2>6
<1>3. CASE PublishState(d)
  BY <1>3 DEF PublishState
<1>4. CASE StopListening(d)
  BY <1>4 DEF StopListening
<1>5. CASE Unlist(d)
  BY <1>5 DEF Unlist
<1>6. CASE ReleaseLock(d)
  BY <1>6 DEF ReleaseLock
<1>7. CASE StartupFails(d)
  BY <1>7 DEF StartupFails, Fault, Excuse
<1>8. CASE Terminate(d)
  BY <1>8 DEF Terminate, Fault, Excuse
<1>9. CASE Die(d)
  BY <1>9 DEF Die, Fault, Excuse
<1> QED BY <1>1, <1>2, <1>3, <1>4, <1>5, <1>6, <1>7, <1>8, <1>9 DEF DaemonStep, Progress

\* What has to hold of the new state of a host whose step changes nothing else.
LEMMA HostBecomes ==
    ASSUME ClientInv, NEW h \in Hosts, NEW x \in HostRecords, host' = [host EXCEPT ![h] = x],
           UNCHANGED <<daemon, owner, listed>>, excused' = excused,
           ReadAbout(x), x.aim = "poll" /\ x.at \in {"look", "call"} => Waiting(h)
    PROVE  ClientInv'
<1>1. ClientTypeOK'
  BY DEF ClientInv, ClientTypeOK
<1>2. OneDaemonInv'
  BY DEF ClientInv, OneDaemonInv
<1>3. ReadAboutInv'
  BY DEF ClientInv, ClientTypeOK, ReadAboutInv, ReadAbout
<1>4. HopeInv'
  <2>1. \A g \in Hosts : Waiting(g)' => Waiting(g)
    BY DEF ClientInv, ClientTypeOK, Waiting
  <2> QED BY <2>1 DEF ClientInv, HopeInv, Useless, Alive
<1> QED BY <1>1, <1>2, <1>3, <1>4 DEF ClientInv

\* An error of a connection attempt ends it, or sends a poll back to look.
LEMMA FailureMoves ==
    ASSUME ClientInv, NEW h \in Hosts, host[h].at \in {"look", "call"},
           NEW code \in {"unavailable", "authentication", "invalid-state", "incompatible-version"},
           Fails(h, code), UNCHANGED <<owner, listed, token, excused>>
    PROVE  ClientInv'
<1>1. host[h] \in HostRecords /\ ReadAbout(host[h]) /\ UNCHANGED daemon
  BY DEF ClientInv, ClientTypeOK, ReadAboutInv, Fails
<1>2. CASE host[h].aim = "poll" /\ code = "unavailable"
  <2> DEFINE x == [host[h] EXCEPT !.at = "look"]
  <2>1. x \in HostRecords /\ ReadAbout(x) /\ Waiting(h)
    BY <1>1, <1>2 DEF HostRecords, HostSteps, ReadAbout, Waiting
  <2>2. host' = [host EXCEPT ![h] = x]
    BY <1>2 DEF Fails, Step
  <2> QED BY <1>1, <2>1, <2>2, HostBecomes
<1>3. CASE ~(host[h].aim = "poll" /\ code = "unavailable")
  <2> DEFINE x == [host[h] EXCEPT !.at = "done", !.result = code]
  <2>1. x \in HostRecords /\ ReadAbout(x) /\ x.at = "done"
    BY <1>1 DEF HostRecords, HostSteps, Results, ReadAbout
  <2>2. host' = [host EXCEPT ![h] = x]
    BY <1>3 DEF Fails, EndWith
  <2> QED BY <1>1, <2>1, <2>2, HostBecomes
<1> QED BY <1>2, <1>3

\* No owner is published: the host starts a daemon.
LEMMA StartMoves ==
    ASSUME ClientInv, NEW h \in Hosts, host[h].at = "look", host[h].aim = "start", NotFound(h),
           excused' = IF \E d \in Daemons : Useless(d) THEN excused \cup {h} ELSE excused,
           UNCHANGED <<owner, listed, token>>
    PROVE  ClientInv'
<1> PICK d \in Daemons :
       /\ daemon[d].at = "unborn"
       /\ daemon' = [daemon EXCEPT ![d].at = "claiming", ![d].version = host[h].version]
       /\ host' = [host EXCEPT ![h].aim = "poll", ![h].at = "look"]
  BY DEF NotFound
<1>1. host[h] \in HostRecords /\ daemon[d] \in [at : DaemonSteps, version : Versions, api : BOOLEAN, stop : BOOLEAN]
  BY DEF ClientInv, ClientTypeOK
<1>2. daemon'[d] = [at |-> "claiming", version |-> host[h].version, api |-> daemon[d].api,
                 stop |-> daemon[d].stop]
  BY <1>1 DEF ClientInv, ClientTypeOK
<1>3. DOMAIN daemon' = Daemons /\ \A e \in Daemons : e # d => daemon'[e] = daemon[e]
  BY DEF ClientInv, ClientTypeOK
<1>4. host'[h] = [host[h] EXCEPT !.aim = "poll", !.at = "look"]
  BY <1>1 DEF ClientInv, ClientTypeOK
<1>5. DOMAIN host' = Hosts /\ \A g \in Hosts : g # h => host'[g] = host[g]
  BY DEF ClientInv, ClientTypeOK
<1>6. ClientTypeOK'
  <2>1. \A e \in Daemons : daemon'[e] \in [at : DaemonSteps, version : Versions, api : BOOLEAN, stop : BOOLEAN]
    BY <1>1, <1>2, <1>3 DEF ClientInv, ClientTypeOK, HostRecords, DaemonSteps
  <2>2. \A g \in Hosts : host'[g] \in HostRecords
    BY <1>1, <1>4, <1>5 DEF ClientInv, ClientTypeOK, HostRecords, HostSteps
  <2>3. daemon' = [e \in Daemons |-> daemon'[e]] /\ host' = [g \in Hosts |-> host'[g]]
    BY <1>3, <1>5 DEF ClientInv, ClientTypeOK
  <2> QED BY <2>1, <2>2, <2>3 DEF ClientInv, ClientTypeOK
<1>7. OneDaemonInv'
  BY <1>2, <1>3 DEF ClientInv, ClientTypeOK, OneDaemonInv
<1>8. ReadAboutInv'
  <2>1. \A g \in Hosts : host[g].of # Nobody => host[g].of # d /\ host[g].of \in Daemons
    BY DEF ClientInv, ClientTypeOK, HostRecords, ReadAboutInv, ReadAbout
  <2>2. \A g \in Hosts : /\ host'[g].of = host[g].of /\ host'[g].result = host[g].result
                         /\ host'[g].version = host[g].version
                         /\ g # h => host'[g].at = host[g].at /\ host'[g].aim = host[g].aim
    BY <1>1, <1>4, <1>5 DEF HostRecords
  <2>3. host'[h].at = "look" /\ host'[h].aim = "poll"
    BY <1>1, <1>4 DEF HostRecords
  <2>4. ASSUME NEW g \in Hosts PROVE ReadAbout(host[g])'
    <3>1. ReadAbout(host[g]) /\ (host[g].of # Nobody => daemon'[host[g].of] = daemon[host[g].of])
      BY <1>3, <2>1 DEF ClientInv, ReadAboutInv
    <3>2. CASE g # h
      BY <2>2, <3>1, <3>2 DEF ReadAbout
    <3>3. CASE g = h
      BY <2>2, <2>3, <3>1, <3>3 DEF ReadAbout, ClientInv, ClientTypeOK, HostRecords, Results
    <3> QED BY <3>2, <3>3
  <2> QED BY <2>4 DEF ReadAboutInv
<1>9. HopeInv'
  <2>1. \A e \in Daemons : Useless(e)' => Useless(e)
    BY <1>2, <1>3 DEF Useless
  <2>2. d # Nobody /\ Alive(d)'
    BY <1>2, ClientAssumption DEF Alive
  <2>3. \A g \in Hosts : g # h => (Waiting(g)' <=> Waiting(g))
    BY <1>5 DEF Waiting
  <2> QED BY <2>1, <2>2, <2>3 DEF ClientInv, HopeInv
<1> QED BY <1>6, <1>7, <1>8, <1>9 DEF ClientInv

LEMMA HostMoves ==
    ASSUME ClientInv, NEW h \in Hosts, HostStep(h)
    PROVE  ClientInv'
<1>0. host[h] \in HostRecords /\ ReadAbout(host[h])
  BY DEF ClientInv, ClientTypeOK, ReadAboutInv
<1> USE DEF HostRecords, HostSteps, Results, Aims, ReadAbout
<1>1. CASE Invoke(h)
  <2> PICK aim \in Aims : host' = [host EXCEPT ![h].at = "look", ![h].aim = aim]
    BY <1>1 DEF Invoke
  <2> DEFINE x == [host[h] EXCEPT !.at = "look", !.aim = aim]
  <2>1. x \in HostRecords /\ ReadAbout(x) /\ x.aim # "poll"
    BY <1>0, <1>1 DEF Invoke
  <2>2. host' = [host EXCEPT ![h] = x]
    OBVIOUS
  <2>3. UNCHANGED <<daemon, owner, listed, excused>>
    BY <1>1 DEF Invoke
  <2> QED BY <2>1, <2>2, <2>3, HostBecomes
<1>2. CASE Look(h)
  <2>1. CASE ~Alive(listed) /\ NotFound(h) /\ host[h].aim = "start"
    BY <1>2, <2>1, StartMoves DEF Look, Alive
  <2>2. CASE ~Alive(listed) /\ NotFound(h) /\ host[h].aim # "start"
    <3>1. host[h].at = "look" /\ UNCHANGED <<daemon, owner, listed, excused>>
      BY <1>0, <1>2, <2>2 DEF Look, NotFound
    <3>2. CASE host[h].aim = "poll"
      <4> DEFINE x == [host[h] EXCEPT !.at = "look"]
      <4>1. x \in HostRecords /\ ReadAbout(x) /\ Waiting(h)
        BY <1>0, <3>1, <3>2 DEF Waiting
      <4>2. host' = [host EXCEPT ![h] = x]
        BY <2>2, <3>2 DEF NotFound, Step
      <4> QED BY <3>1, <4>1, <4>2, HostBecomes
    <3>3. CASE host[h].aim = "stop"
      <4> DEFINE x == [host[h] EXCEPT !.at = "done", !.result = "not-running"]
      <4>1. x \in HostRecords /\ ReadAbout(x) /\ x.at = "done"
        BY <1>0, <3>1
      <4>2. host' = [host EXCEPT ![h] = x]
        BY <2>2, <3>3 DEF NotFound, EndWith
      <4> QED BY <3>1, <4>1, <4>2, HostBecomes
    <3>4. CASE host[h].aim = "restart"
      <4> DEFINE x == [host[h] EXCEPT !.aim = "start", !.at = "look"]
      <4>1. x \in HostRecords /\ ReadAbout(x) /\ x.aim = "start"
        BY <1>0, <3>1
      <4>2. host' = [host EXCEPT ![h] = x]
        BY <2>2, <3>4 DEF NotFound
      <4> QED BY <3>1, <4>1, <4>2, HostBecomes
    <3> QED BY <1>0, <2>2, <3>1, <3>2, <3>3, <3>4
  <2>3. CASE Alive(listed)
    <3>1. CASE ~daemon[listed].api
      BY <1>2, <2>3, <3>1, FailureMoves DEF Look
    <3>2. CASE daemon[listed].api /\ ~token
      BY <1>2, <2>3, <3>2, FailureMoves DEF Look
    <3>3. CASE daemon[listed].api /\ token
      <4> DEFINE x == [host[h] EXCEPT !.at = "call", !.of = listed]
      <4>1. /\ host[h].at = "look"
            /\ host' = [host EXCEPT ![h] = x]
            /\ UNCHANGED <<daemon, owner, listed, excused>>
        BY <1>2, <2>3, <3>3 DEF Look
      <4>2. x \in HostRecords /\ ReadAbout(x)
        BY <1>0, <2>3, <4>1 DEF Alive, ClientInv, ClientTypeOK, OneDaemonInv
      <4>3. x.aim = "poll" => Waiting(h)
        BY <1>0, <4>1 DEF Waiting
      <4> QED BY <4>1, <4>2, <4>3, HostBecomes
    <3> QED BY <3>1, <3>2, <3>3
  <2> QED BY <1>2, <2>1, <2>2, <2>3 DEF Look
<1>3. CASE CallRuntime(h)
  <2>1. host[h].at = "call" /\ UNCHANGED <<owner, listed, token, excused>>
    BY <1>3 DEF CallRuntime
  <2>2. CASE \E code \in {"unavailable", "invalid-state", "incompatible-version"} : Fails(h, code)
    BY <2>1, <2>2, FailureMoves
  <2>3. CASE \E d \in Daemons : Verdict(h, d) = "found" /\ Found(h)
    <3>1. daemon[host[h].of].version = host[h].version /\ UNCHANGED daemon
      BY <2>3 DEF Verdict, Found
    <3>2. CASE host[h].aim \in {"start", "poll"}
      <4> DEFINE x == [host[h] EXCEPT !.at = "done", !.result = "connected"]
      <4>1. x \in HostRecords /\ ReadAbout(x) /\ x.at = "done"
        BY <1>0, <2>1, <3>1
      <4>2. host' = [host EXCEPT ![h] = x]
        BY <2>3, <3>2 DEF Found, EndWith
      <4> QED BY <2>1, <3>1, <4>1, <4>2, HostBecomes
    <3>3. CASE host[h].aim \notin {"start", "poll"}
      <4> DEFINE x == [host[h] EXCEPT !.at = "shut"]
      <4>1. x \in HostRecords /\ ReadAbout(x) /\ x.at = "shut"
        BY <1>0, <2>1
      <4>2. host' = [host EXCEPT ![h] = x]
        BY <2>3, <3>3 DEF Found, Step
      <4> QED BY <2>1, <3>1, <4>1, <4>2, HostBecomes
    <3> QED BY <3>2, <3>3
  <2> QED BY <1>3, <2>2, <2>3 DEF CallRuntime, Verdict
<1>4. CASE CallIsLost(h)
  BY <1>4, FailureMoves DEF CallIsLost
<1>5. CASE ShutDown(h)
  <2>1. ASSUME NEW d \in Daemons, Excuse, Step(h, "wait"),
               \/ daemon[d].at = "serving" /\ Goto(d, "asked")
               \/ daemon[d].at = "bound" /\ daemon' = [daemon EXCEPT ![d].stop = TRUE]
        PROVE  ClientInv'
    <3>1. /\ host[h].at = "shut" /\ UNCHANGED <<owner, listed>>
          /\ host' = [host EXCEPT ![h].at = "wait"]
          /\ excused' = excused \cup {g \in Hosts : Waiting(g)}
      BY <1>5, <2>1 DEF ShutDown, Step, Excuse
    <3>2. /\ daemon' \in [Daemons -> [at : DaemonSteps, version : Versions, api : BOOLEAN, stop : BOOLEAN]]
          /\ \A e \in Daemons : e # d => daemon'[e] = daemon[e]
          /\ daemon'[d].version = daemon[d].version
          /\ \/ daemon[d].at = "serving" /\ daemon'[d].at = "asked" /\ daemon'[d].stop = daemon[d].stop
             \/ daemon[d].at = "bound" /\ daemon'[d].at = "bound"
      <4>1. daemon[d] \in [at : DaemonSteps, version : Versions, api : BOOLEAN, stop : BOOLEAN]
        BY DEF ClientInv, ClientTypeOK
      <4>2. CASE daemon[d].at = "serving" /\ Goto(d, "asked")
        BY <4>1, <4>2 DEF Goto, DaemonSteps, ClientInv, ClientTypeOK
      <4>3. CASE daemon[d].at = "bound" /\ daemon' = [daemon EXCEPT ![d].stop = TRUE]
        BY <4>1, <4>3 DEF ClientInv, ClientTypeOK
      <4> QED BY <2>1, <4>2, <4>3
    <3>3. ClientTypeOK'
      BY <1>0, <3>1, <3>2 DEF ClientInv, ClientTypeOK
    <3>4. OneDaemonInv'
      BY <3>1, <3>2 DEF ClientInv, ClientTypeOK, OneDaemonInv
    <3>5. ReadAboutInv'
      BY <1>0, <3>1, <3>2, ClientAssumption DEF ClientInv, ClientTypeOK, OneDaemonInv, ReadAboutInv
    <3>6. HopeInv'
      <4>1. \A g \in Hosts : Waiting(g)' => Waiting(g)
        BY <3>1 DEF Waiting, ClientInv, ClientTypeOK
      <4> QED BY <3>1, <4>1 DEF HopeInv
    <3> QED BY <3>3, <3>4, <3>5, <3>6 DEF ClientInv
  <2>2. CASE UNCHANGED <<daemon, excused>> /\ Step(h, "wait")
    <3> DEFINE x == [host[h] EXCEPT !.at = "wait"]
    <3>1. host[h].at = "shut" /\ UNCHANGED <<owner, listed>>
      BY <1>5 DEF ShutDown
    <3>2. x \in HostRecords /\ ReadAbout(x) /\ x.at = "wait"
      BY <1>0, <3>1
    <3> QED BY <2>2, <3>1, <3>2, HostBecomes DEF Step
  <2>3. CASE UNCHANGED <<daemon, excused>> /\ EndWith(h, "internal")
    <3> DEFINE x == [host[h] EXCEPT !.at = "done", !.result = "internal"]
    <3>1. host[h].at = "shut" /\ UNCHANGED <<owner, listed>>
      BY <1>5 DEF ShutDown
    <3>2. x \in HostRecords /\ ReadAbout(x) /\ x.at = "done"
      BY <1>0, <3>1
    <3>3. host' = [host EXCEPT ![h] = x]
      BY <2>3 DEF EndWith
    <3> QED BY <2>3, <3>1, <3>2, <3>3, HostBecomes
  <2> QED BY <1>5, <2>1, <2>2, <2>3 DEF ShutDown, Answers
<1>6. CASE Stopped(h)
  <2>1. /\ host[h].at = "wait" /\ listed # host[h].of
        /\ UNCHANGED <<daemon, owner, listed, excused>>
    BY <1>6 DEF Stopped
  <2>2. CASE host[h].aim = "stop"
    <3> DEFINE x == [host[h] EXCEPT !.at = "done", !.result = "stopped"]
    <3>1. x \in HostRecords /\ x.at = "done"
      BY <1>0
    <3>2. ReadAbout(x)
      BY <1>0, <2>1 DEF ClientInv, OneDaemonInv
    <3>3. host' = [host EXCEPT ![h] = x]
      BY <1>6, <2>2 DEF Stopped, EndWith
    <3> QED BY <2>1, <3>1, <3>2, <3>3, HostBecomes
  <2>3. CASE host[h].aim # "stop"
    <3> DEFINE x == [host[h] EXCEPT !.aim = "start", !.at = "look"]
    <3>1. x \in HostRecords /\ x.aim = "start" /\ ReadAbout(x)
      BY <1>0, <2>1
    <3>2. host' = [host EXCEPT ![h] = x]
      BY <1>6, <2>3 DEF Stopped
    <3> QED BY <2>1, <3>1, <3>2, HostBecomes
  <2> QED BY <2>2, <2>3
<1>7. CASE TimesOut(h)
  <2> DEFINE x == [host[h] EXCEPT !.at = "done", !.result = "timeout"]
  <2>1. x \in HostRecords /\ ReadAbout(x) /\ x.at = "done"
    BY <1>0, <1>7 DEF TimesOut
  <2>2. host' = [host EXCEPT ![h] = x] /\ UNCHANGED <<daemon, owner, listed, excused>>
    BY <1>7 DEF TimesOut, EndWith
  <2> QED BY <2>1, <2>2, HostBecomes
<1>8. CASE DeadlinePasses(h)
  <2> DEFINE x == [host[h] EXCEPT !.late = TRUE]
  <2>1. x \in HostRecords /\ ReadAbout(x) /\ x.at = host[h].at /\ x.aim = host[h].aim
    BY <1>0
  <2>2. host' = [host EXCEPT ![h] = x] /\ UNCHANGED <<daemon, owner, listed, excused>>
    BY <1>8 DEF DeadlinePasses
  <2> QED BY <2>1, <2>2, HostBecomes DEF Waiting
<1> QED BY <1>1, <1>2, <1>3, <1>4, <1>5, <1>6, <1>7, <1>8 DEF HostStep, Attempt

THEOREM ClientInvariant == Spec => []ClientInv
<1>1. Init => ClientInv
  <2> SUFFICES ASSUME ClientInit PROVE ClientInv
    BY DEF Init
  <2>1. Idle.version \in Versions
    BY ClientAssumption DEF Idle
  <2>2. ASSUME NEW h \in Hosts
        PROVE  host[h] \in HostRecords /\ ReadAbout(host[h]) /\ host[h].at = "idle"
    <3> PICK v \in Versions : host[h] = [Idle EXCEPT !.version = v]
      BY DEF ClientInit
    <3>1. host[h] = [at |-> "idle", aim |-> "none", version |-> v, of |-> Nobody,
                     late |-> FALSE, result |-> "none"]
      BY DEF Idle
    <3>2. FALSE \in BOOLEAN
      OBVIOUS
    <3>3. host[h] \in HostRecords
      <4> PICK b \in BOOLEAN :
             host[h] = [at |-> "idle", aim |-> "none", version |-> v, of |-> Nobody,
                        late |-> b, result |-> "none"]
        BY <3>1, <3>2, Zenon
      <4> QED BY SMT DEF HostRecords, HostSteps, Results
    <3>4. ReadAbout(host[h]) /\ host[h].at = "idle"
      BY <3>1 DEF ReadAbout
    <3> QED BY <3>3, <3>4
  <2>3. host \in [Hosts -> HostRecords]
    BY <2>2 DEF ClientInit
  <2>4. ClientTypeOK
    BY <2>1, <2>3 DEF ClientInit, ClientTypeOK, DaemonSteps
  <2>5. OneDaemonInv
    BY DEF ClientInit, OneDaemonInv
  <2>6. ReadAboutInv /\ HopeInv
    BY <2>2 DEF ReadAboutInv, HopeInv, Waiting
  <2> QED BY <2>4, <2>5, <2>6 DEF ClientInv
<1>2. ClientInv /\ [Next]_vars => ClientInv'
  <2> SUFFICES ASSUME ClientInv, [Next]_vars PROVE ClientInv'
    OBVIOUS
  <2>1. CASE UNCHANGED clientVars
    BY <2>1 DEF clientVars, ClientInv, ClientTypeOK, OneDaemonInv, ReadAboutInv, ReadAbout,
                HopeInv, Waiting, Useless, Alive
  <2>2. CASE ClientNext
    <3>1. \/ \E d \in Daemons : DaemonStep(d)
          \/ \E h \in Hosts : HostStep(h)
      BY <2>2 DEF ClientNext, DaemonStep, HostStep
    <3> QED BY <3>1, DaemonMoves, HostMoves
  <2> QED BY <2>1, <2>2
       DEF Next, vars, OnClients, OnServers, OnPublishing, OnDesktop, OnPassage
<1> QED BY <1>1, <1>2, PTL DEF Spec

(* For any number of hosts, daemons and releases, and any number of crashes *)
(* and lost calls: a host that polls for a runtime, and is not excused, has *)
(* a daemon that is alive and can still be connected to.                    *)
THEOREM NeverHopelessCorrect == Spec => []NeverHopeless
<1>1. ClientInv => NeverHopeless
  BY DEF ClientInv, HopeInv, NeverHopeless
<1> QED BY <1>1, ClientInvariant, PTL

(* Success of start names a daemon of the host's own release, and success of *)
(* stop one that no longer listens, whatever else was started and stopped.   *)
THEOREM ExitTellsCorrect == Spec => []ExitTells
<1>1. ClientInv => ExitTells
  BY DEF ClientInv, ReadAboutInv, ReadAbout, ExitTells, Answers
<1> QED BY <1>1, ClientInvariant, PTL

-----------------------------------------------------------------------------
(* Daemons as OwnerFiles sees them.                                         *)

Up == {d \in Daemons : Alive(d)}

\* A step that leaves both files alone and changes the life of one daemon at most.
LEMMA OneLife ==
    ASSUME UNCHANGED <<owner, listed>>, NEW d \in Daemons,
           \A e \in Daemons : e # d => daemon'[e].at = daemon[e].at
    PROVE  [SeenFiles!Next]_(SeenFiles!vars)
<1> USE ClientAssumption
<1>1. CASE Alive(d) <=> Alive(d)'
  <2>1. Up' = Up
    BY <1>1 DEF Up, Alive
  <2> QED BY <2>1 DEF SeenFiles!vars, Up
<1>2. CASE Alive(d) /\ ~Alive(d)'
  <2>1. Up' = Up \ {d} /\ d \in Up
    BY <1>2 DEF Up, Alive
  <2>2. SeenFiles!End(d)
    BY <2>1 DEF SeenFiles!End, Up
  <2> QED BY <2>2 DEF SeenFiles!Next
<1>3. CASE ~Alive(d) /\ Alive(d)'
  <2>1. Up' = Up \cup {d} /\ d \notin Up
    BY <1>3 DEF Up, Alive
  <2>2. SeenFiles!Launch(d)
    BY <2>1 DEF SeenFiles!Launch, Up
  <2> QED BY <2>2 DEF SeenFiles!Next
<1> QED BY <1>1, <1>2, <1>3

LEMMA DaemonFiles ==
    ASSUME ClientInv, NEW d \in Daemons, DaemonStep(d)
    PROVE  [SeenFiles!Next]_(SeenFiles!vars)
<1> USE ClientAssumption DEF ClientInv, ClientTypeOK
<1>1. CASE ClaimLock(d)
  <2>1. CASE Alive(owner)
    <3>1. UNCHANGED <<owner, listed>> /\ \A e \in Daemons : e # d => daemon'[e].at = daemon[e].at
      BY <1>1, <2>1 DEF ClaimLock, Goto
    <3> QED BY <3>1, OneLife
  <2>2. CASE ~Alive(owner)
    <3>1. /\ daemon[d].at = "claiming" /\ daemon' = [daemon EXCEPT ![d].at = "starting"]
          /\ owner' = d /\ listed' = IF listed = owner THEN Nobody ELSE listed
      BY <1>1, <2>2 DEF ClaimLock, Goto
    <3>2. Up' = Up /\ d \in Up /\ owner \notin Up
      BY <2>2, <3>1 DEF Up, Alive
    <3>3. SeenFiles!Claim(d)
      BY <3>1, <3>2 DEF SeenFiles!Claim, Up
    <3> QED BY <3>3 DEF SeenFiles!Next
  <2> QED BY <2>1, <2>2
<1>2. CASE Bind(d) \/ StopListening(d) \/ Terminate(d) \/ Die(d)
  <2>1. UNCHANGED <<owner, listed>> /\ \A e \in Daemons : e # d => daemon'[e].at = daemon[e].at
    BY <1>2 DEF Bind, StopListening, Terminate, Die, Goto
  <2> QED BY <2>1, OneLife
<1>3. CASE PublishState(d)
  <2>1. /\ daemon[d].at = "bound"
        /\ daemon' = [daemon EXCEPT ![d].at = IF daemon[d].stop THEN "asked" ELSE "serving"]
        /\ owner = d /\ UNCHANGED owner /\ listed' = d
    BY <1>3 DEF PublishState, Goto, OneDaemonInv
  <2>2. Up' = Up /\ d \in Up
    BY <2>1 DEF Up, Alive
  <2>3. SeenFiles!Publish(d)
    BY <2>1, <2>2 DEF SeenFiles!Publish, Up
  <2> QED BY <2>3 DEF SeenFiles!Next
<1>4. CASE Unlist(d)
  <2>1. /\ daemon[d].at = "closed" /\ daemon' = [daemon EXCEPT ![d].at = "unlisted"]
        /\ UNCHANGED owner /\ listed' = IF listed = d THEN Nobody ELSE listed
    BY <1>4 DEF Unlist, Goto
  <2>2. Up' = Up /\ d \in Up
    BY <2>1 DEF Up, Alive
  <2>3. CASE listed = d
    <3>1. SeenFiles!Unlist(d)
      BY <2>1, <2>2, <2>3 DEF SeenFiles!Unlist, Up
    <3> QED BY <3>1 DEF SeenFiles!Next
  <2>4. CASE listed # d
    BY <2>1, <2>2, <2>4 DEF SeenFiles!vars, Up
  <2> QED BY <2>3, <2>4
<1>5. CASE ReleaseLock(d) \/ StartupFails(d)
  <2>1. /\ daemon[d].at \in {"unlisted", "starting"} /\ daemon' = [daemon EXCEPT ![d].at = "gone"]
        /\ owner = d /\ owner' = Nobody /\ UNCHANGED listed /\ listed # d
    BY <1>5 DEF ReleaseLock, StartupFails, Goto, OneDaemonInv
  <2>2. Up' = Up \ {d} /\ d \in Up
    BY <2>1 DEF Up, Alive
  <2>3. SeenFiles!Release(d)
    BY <2>1, <2>2 DEF SeenFiles!Release, Up
  <2> QED BY <2>3 DEF SeenFiles!Next
<1> QED BY <1>1, <1>2, <1>3, <1>4, <1>5 DEF DaemonStep, Progress

LEMMA HostFiles ==
    ASSUME ClientInv, NEW h \in Hosts, HostStep(h)
    PROVE  [SeenFiles!Next]_(SeenFiles!vars)
<1> USE ClientAssumption DEF ClientInv, ClientTypeOK
<1>1. UNCHANGED <<owner, listed>>
  BY DEF HostStep, Attempt, Invoke, Look, CallRuntime, CallIsLost, ShutDown, Stopped, DeadlinePasses,
         TimesOut
<1>2. CASE UNCHANGED daemon
  BY <1>1, <1>2 DEF SeenFiles!vars, Alive
<1>3. CASE Look(h) /\ NotFound(h)
  <2>1. UNCHANGED daemon \/ \E d \in Daemons : \A e \in Daemons : e # d => daemon'[e].at = daemon[e].at
    <3>1. host[h].aim \in {"start", "stop", "restart", "poll"}
      BY <1>3 DEF Look, ReadAboutInv, ReadAbout, HostRecords, Aims
    <3>2. CASE host[h].aim = "start"
      BY <1>3, <3>2 DEF NotFound
    <3>3. CASE host[h].aim # "start"
      BY <1>3, <3>1, <3>3 DEF NotFound
    <3> QED BY <3>2, <3>3
  <2> QED BY <1>1, <1>2, <2>1, OneLife
<1>4. CASE ShutDown(h)
  <2>1. UNCHANGED daemon \/ \E d \in Daemons : \A e \in Daemons : e # d => daemon'[e].at = daemon[e].at
    BY <1>4 DEF ShutDown, Answers, Goto
  <2> QED BY <1>1, <1>2, <2>1, OneLife
<1> QED BY <1>2, <1>3, <1>4
     DEF HostStep, Attempt, Invoke, Look, CallRuntime, CallIsLost, Stopped, DeadlinePasses,
         TimesOut, Fails, Found

\* For any number of daemons and hosts, crashes and lost calls, the files that
\* hosts find change as OwnerFiles promises, which the claims of several steps
\* of RuntimeOwnership implement too: what hosts rely on is what claimants,
\* interleaved as they are, keep until one removes a replaced file.
THEOREM SeenFilesKept == Spec => SeenFiles!Spec
<1>1. Init => SeenFiles!Init
  BY DEF Init, ClientInit, SeenFiles!Init, Alive
<1>2. ClientInv /\ [Next]_vars => [SeenFiles!Next]_(SeenFiles!vars)
  <2> SUFFICES ASSUME ClientInv, [Next]_vars PROVE [SeenFiles!Next]_(SeenFiles!vars)
    OBVIOUS
  <2>1. CASE UNCHANGED clientVars
    BY <2>1 DEF clientVars, SeenFiles!vars, Alive
  <2>2. CASE ClientNext
    <3>1. \/ \E d \in Daemons : DaemonStep(d)
          \/ \E h \in Hosts : HostStep(h)
      BY <2>2 DEF ClientNext, DaemonStep, HostStep
    <3> QED BY <3>1, DaemonFiles, HostFiles
  <2> QED BY <2>1, <2>2
       DEF Next, vars, OnClients, OnServers, OnPublishing, OnDesktop, OnPassage
<1> QED BY <1>1, <1>2, ClientInvariant, PTL DEF Spec, SeenFiles!Spec

-----------------------------------------------------------------------------
(* Requests.                                                                *)

IsRequest(x) ==
    /\ x \in [at : {"none", "answered", "reading", "handling", "streaming"}, to : Listeners,
              body : {x.body}, left : {x.left}, replies : {x.replies}, status : {x.status},
              gone : BOOLEAN]
    /\ x.at = "streaming" => x.to = "events"
    /\ x.at \in {"reading", "handling"} => x.to # "events"
    /\ x.gone => x.at = "handling"

IsRpc(x) == x.to = "rpc" /\ x.at \in {"reading", "handling"}
IsExport(x) == x.to = "otlp" /\ x.at = "handling"
IsStream(x) == x.at = "streaming"
IsRefused(x) == x.at = "answered" /\ x.to = "otlp" /\ x.status = 503
IsLive(x) == x.at \in {"reading", "handling", "streaming"}
IsAwaited(x) == IsLive(x) /\ ~x.gone

RpcCalls == {r \in Requests : IsRpc(request[r])}
Exporting == {r \in Requests : IsExport(request[r])}
Streaming == {r \in Requests : IsStream(request[r])}
Refused == {r \in Requests : IsRefused(request[r])}

ServerTypeOK ==
    /\ request = [r \in Requests |-> request[r]]
    /\ \A r \in Requests : IsRequest(request[r])
    /\ activeRpc \in Nat /\ exports \in Nat /\ pressure \in Nat
    /\ closing \in {"open", "api", "receiver", "mcp", "engine", "closed"}

CountInv ==
    /\ activeRpc = Cardinality(RpcCalls) /\ activeRpc <= MaxRpc
    /\ exports = Cardinality(Exporting) /\ exports <= MaxExports
    /\ Cardinality(Streaming) <= MaxStreams
    /\ pressure >= Cardinality(Refused)

\* A listener that close() has not left behind.
StillServed(to) ==
    \/ closing \in {"open", "api"}
    \/ to = "otlp" /\ closing = "receiver"
    \/ to = "mcp" /\ closing \in {"receiver", "mcp"}

\* Nobody awaits an answer of a listener that close() has left behind.
DrainInv == \A r \in Requests : IsAwaited(request[r]) => StillServed(request[r].to)

ServerInv == ServerTypeOK /\ CountInv /\ DrainInv

N(b) == IF b THEN 1 ELSE 0

\* The size of a set of requests that one of them enters or leaves.
LEMMA SizeChange ==
    ASSUME NEW S \in SUBSET Requests, NEW T \in SUBSET Requests, NEW r \in Requests,
           \A q \in Requests \ {r} : q \in T <=> q \in S
    PROVE  /\ Cardinality(S) \in Nat /\ Cardinality(T) \in Nat
           /\ Cardinality(T) = Cardinality(S) + N(r \in T) - N(r \in S)
<1>1. IsFiniteSet(S) /\ IsFiniteSet(T) /\ Cardinality(S) \in Nat /\ Cardinality(T) \in Nat
  BY ServersAssumption, FS_Subset, FS_CardinalityType
<1>2. CASE r \in T /\ r \notin S
  <2>1. T = S \cup {r}
    BY <1>2
  <2>2. Cardinality(T) = Cardinality(S) + 1
    BY <1>1, <1>2, <2>1, FS_AddElement
  <2> QED BY <1>1, <1>2, <2>2 DEF N
<1>3. CASE r \in S /\ r \notin T
  <2>1. T = S \ {r}
    BY <1>3
  <2>2. Cardinality(T) = Cardinality(S) - 1
    BY <1>1, <1>3, <2>1, FS_RemoveElement
  <2> QED BY <1>1, <1>3, <2>2 DEF N
<1>4. CASE r \in S <=> r \in T
  <2>1. T = S
    BY <1>4
  <2> QED BY <1>1, <1>4, <2>1 DEF N
<1> QED BY <1>2, <1>3, <1>4

\* What has to be counted when one request changes.
LEMMA RequestBecomes ==
    ASSUME ServerInv, NEW r \in Requests, NEW x, IsRequest(x), request' = [request EXCEPT ![r] = x],
           activeRpc' = activeRpc + N(IsRpc(x)) - N(IsRpc(request[r])), activeRpc' <= MaxRpc,
           exports' = exports + N(IsExport(x)) - N(IsExport(request[r])), exports' <= MaxExports,
           pressure' \in Nat, pressure' >= pressure + N(IsRefused(x)) - N(IsRefused(request[r])),
           IsStream(x) => IsStream(request[r]) \/ Cardinality(Streaming) < MaxStreams,
           IsAwaited(x) => StillServed(x.to),
           closing' = closing
    PROVE  ServerInv'
<1>1. /\ request' = [q \in Requests |-> request'[q]] /\ request'[r] = x
      /\ \A q \in Requests \ {r} : request'[q] = request[q]
  BY DEF ServerInv, ServerTypeOK
<1>2. /\ Cardinality(RpcCalls') = Cardinality(RpcCalls) + N(IsRpc(x)) - N(IsRpc(request[r]))
      /\ Cardinality(RpcCalls) \in Nat /\ Cardinality(RpcCalls') \in Nat
  <2>1. /\ RpcCalls \in SUBSET Requests /\ RpcCalls' \in SUBSET Requests
        /\ \A q \in Requests \ {r} : q \in RpcCalls' <=> q \in RpcCalls
        /\ r \in RpcCalls <=> IsRpc(request[r])
        /\ r \in RpcCalls' <=> IsRpc(x)
    BY <1>1 DEF RpcCalls, IsRpc
  <2> QED BY <2>1, SizeChange DEF N
<1>3. /\ Cardinality(Exporting') = Cardinality(Exporting) + N(IsExport(x)) - N(IsExport(request[r]))
      /\ Cardinality(Exporting) \in Nat /\ Cardinality(Exporting') \in Nat
  <2>1. /\ Exporting \in SUBSET Requests /\ Exporting' \in SUBSET Requests
        /\ \A q \in Requests \ {r} : q \in Exporting' <=> q \in Exporting
        /\ r \in Exporting <=> IsExport(request[r])
        /\ r \in Exporting' <=> IsExport(x)
    BY <1>1 DEF Exporting, IsExport
  <2> QED BY <2>1, SizeChange DEF N
<1>4. /\ Cardinality(Streaming') = Cardinality(Streaming) + N(IsStream(x)) - N(IsStream(request[r]))
      /\ Cardinality(Streaming) \in Nat /\ Cardinality(Streaming') \in Nat
  <2>1. /\ Streaming \in SUBSET Requests /\ Streaming' \in SUBSET Requests
        /\ \A q \in Requests \ {r} : q \in Streaming' <=> q \in Streaming
        /\ r \in Streaming <=> IsStream(request[r])
        /\ r \in Streaming' <=> IsStream(x)
    BY <1>1 DEF Streaming, IsStream
  <2> QED BY <2>1, SizeChange DEF N
<1>5. /\ Cardinality(Refused') = Cardinality(Refused) + N(IsRefused(x)) - N(IsRefused(request[r]))
      /\ Cardinality(Refused) \in Nat /\ Cardinality(Refused') \in Nat
  <2>1. /\ Refused \in SUBSET Requests /\ Refused' \in SUBSET Requests
        /\ \A q \in Requests \ {r} : q \in Refused' <=> q \in Refused
        /\ r \in Refused <=> IsRefused(request[r])
        /\ r \in Refused' <=> IsRefused(x)
    BY <1>1 DEF Refused, IsRefused
  <2> QED BY <2>1, SizeChange DEF N
<1>6. CountInv'
  BY <1>2, <1>3, <1>4, <1>5, ServersAssumption DEF ServerInv, ServerTypeOK, CountInv, N
<1>7. ServerTypeOK'
  <2>1. activeRpc' \in Nat /\ exports' \in Nat
    BY <1>2, <1>3, <1>6 DEF CountInv
  <2>2. \A q \in Requests : IsRequest(request'[q])
    BY <1>1 DEF ServerInv, ServerTypeOK
  <2>3. \A q \in Requests : IsRequest(request[q])'
    BY <2>2 DEF IsRequest
  <2> QED BY <1>1, <2>1, <2>3 DEF ServerInv, ServerTypeOK
<1>8. DrainInv'
  BY <1>1 DEF ServerInv, DrainInv, IsAwaited, IsLive, StillServed
<1> QED BY <1>6, <1>7, <1>8 DEF ServerInv

LEMMA AnswerIs ==
    ASSUME ServerInv, NEW r \in Requests, ~request[r].gone, NEW status, Answer(r, status)
    PROVE  \E x : /\ IsRequest(x) /\ request' = [request EXCEPT ![r] = x]
                  /\ x.at = "answered" /\ x.to = request[r].to /\ x.status = status
<1> DEFINE x == [request[r] EXCEPT !.at = "answered", !.status = status]
<1>1. IsRequest(request[r])
  BY DEF ServerInv, ServerTypeOK
<1>2. x \in [at : {"answered"}, to : Listeners, body : {request[r].body}, left : {request[r].left},
             replies : {request[r].replies}, status : {status}, gone : {FALSE}]
  BY <1>1 DEF IsRequest
<1>3. IsRequest(x) /\ x.at = "answered" /\ x.to = request[r].to /\ x.status = status
  BY <1>1, <1>2 DEF IsRequest
<1>4. request' = [request EXCEPT ![r] = x]
  BY DEF Answer
<1> QED BY <1>3, <1>4

\* A request that is being worked on ends, or is dropped, and leaves its slots.
LEMMA RequestEnds ==
    ASSUME ServerInv, NEW r \in Requests, IsLive(request[r]), NEW x, IsRequest(x),
           x.at \in {"none", "answered"}, x.at = "answered" => x.to = request[r].to,
           request' = [request EXCEPT ![r] = x],
           activeRpc' = activeRpc - N(IsRpc(request[r])),
           exports' = exports - N(IsExport(request[r])),
           pressure' \in Nat, pressure' >= pressure,
           x.at = "answered" /\ request[r].to = "otlp" /\ x.status = 503 => pressure' >= pressure + 1,
           closing' = closing
    PROVE  ServerInv'
<1>1. /\ N(IsRpc(x)) = 0 /\ N(IsExport(x)) = 0 /\ ~IsStream(x) /\ ~IsAwaited(x)
      /\ N(IsRefused(x)) =
           (IF x.at = "answered" /\ request[r].to = "otlp" /\ x.status = 503 THEN 1 ELSE 0)
      /\ N(IsRefused(request[r])) = 0
  BY DEF N, IsRpc, IsExport, IsStream, IsAwaited, IsLive, IsRefused
<1>2. /\ activeRpc \in Nat /\ exports \in Nat /\ pressure \in Nat
      /\ activeRpc <= MaxRpc /\ exports <= MaxExports /\ MaxRpc \in Nat /\ MaxExports \in Nat
  BY ServersAssumption DEF ServerInv, ServerTypeOK, CountInv
<1>3. N(IsRpc(request[r])) \in {0, 1} /\ N(IsExport(request[r])) \in {0, 1}
      /\ N(IsRefused(x)) \in {0, 1}
  BY DEF N
<1>4. /\ activeRpc' = activeRpc + N(IsRpc(x)) - N(IsRpc(request[r])) /\ activeRpc' <= MaxRpc
      /\ exports' = exports + N(IsExport(x)) - N(IsExport(request[r])) /\ exports' <= MaxExports
      /\ pressure' >= pressure + N(IsRefused(x)) - N(IsRefused(request[r]))
  BY <1>1, <1>2, <1>3
<1> QED BY <1>1, <1>4, RequestBecomes

\* The same, when only its place and its status change.
LEMMA RequestAnswered ==
    ASSUME ServerInv, NEW r \in Requests, IsAwaited(request[r]), NEW status, Answer(r, status),
           activeRpc' = activeRpc - N(IsRpc(request[r])),
           exports' = exports - N(IsExport(request[r])),
           pressure' \in Nat, pressure' >= pressure,
           request[r].to = "otlp" /\ status = 503 => pressure' >= pressure + 1,
           closing' = closing
    PROVE  ServerInv'
<1> PICK x : /\ IsRequest(x) /\ request' = [request EXCEPT ![r] = x]
             /\ x.at = "answered" /\ x.to = request[r].to /\ x.status = status
  BY AnswerIs DEF IsAwaited
<1> QED BY RequestEnds DEF IsAwaited

\* A request that is not let in holds no slot.
LEMMA TurnedAway ==
    ASSUME ServerInv, NEW r \in Requests, request[r].at \in {"none", "answered"},
           NEW to \in Listeners, NEW status, to = "otlp" => status # 503,
           request' = [request EXCEPT ![r] = Fresh(to, <<>>, "answered", status)],
           UNCHANGED <<activeRpc, exports, pressure, closing>>
    PROVE  ServerInv'
<1> DEFINE x == Fresh(to, <<>>, "answered", status)
<1>1. IsRequest(x) /\ ~IsStream(x) /\ ~IsAwaited(x)
  BY DEF IsRequest, IsStream, IsAwaited, IsLive, Fresh
<1>2. /\ N(IsRpc(x)) = 0 /\ N(IsExport(x)) = 0 /\ N(IsRefused(x)) = 0
      /\ N(IsRpc(request[r])) = 0 /\ N(IsExport(request[r])) = 0 /\ N(IsRefused(request[r])) \in {0, 1}
  BY DEF N, IsRpc, IsExport, IsRefused, Fresh
<1>3. /\ activeRpc \in Nat /\ exports \in Nat /\ pressure \in Nat
      /\ activeRpc <= MaxRpc /\ exports <= MaxExports
  BY DEF ServerInv, ServerTypeOK, CountInv
<1> HIDE DEF x
<1>4. request' = [request EXCEPT ![r] = x]
  BY DEF x
<1>5. /\ activeRpc' = activeRpc + N(IsRpc(x)) - N(IsRpc(request[r])) /\ activeRpc' <= MaxRpc
      /\ exports' = exports + N(IsExport(x)) - N(IsExport(request[r])) /\ exports' <= MaxExports
      /\ pressure' \in Nat /\ pressure' >= pressure + N(IsRefused(x)) - N(IsRefused(request[r]))
  BY <1>2, <1>3
<1> QED BY <1>1, <1>4, <1>5, RequestBecomes

\* A request that is let in by the API holds a slot.
LEMMA LetInMoves ==
    ASSUME ServerInv, NEW r \in Requests, request[r].at \in {"none", "answered"},
           NEW to \in Listeners, Accepting(to), NEW body, LetIn(r, to, body),
           UNCHANGED <<exports, pressure, closing>>
    PROVE  ServerInv'
<1> DEFINE x == Fresh(to, body, IF to = "events" THEN "streaming" ELSE "reading", 0)
<1>1. IsRequest(x) /\ x.to = to /\ (IsStream(x) <=> to = "events")
  BY DEF IsRequest, IsStream, Fresh
<1>2. /\ N(IsRpc(x)) = (IF to = "rpc" THEN 1 ELSE 0) /\ N(IsExport(x)) = 0 /\ N(IsRefused(x)) = 0
      /\ N(IsRpc(request[r])) = 0 /\ N(IsExport(request[r])) = 0 /\ N(IsRefused(request[r])) \in {0, 1}
  BY DEF N, IsRpc, IsExport, IsRefused, Fresh
<1>3. /\ activeRpc \in Nat /\ exports \in Nat /\ pressure \in Nat
      /\ activeRpc <= MaxRpc /\ exports <= MaxExports /\ MaxRpc \in Nat
  BY ServersAssumption DEF ServerInv, ServerTypeOK, CountInv
<1>4. Cardinality(Streaming) \in Nat /\ MaxStreams \in Nat /\ Streaming = Streams
  BY SizeChange, ServersAssumption DEF Streams, Streaming, IsStream
<1>5. to = "events" => Cardinality(Streaming) < MaxStreams
  BY <1>4 DEF LetIn, Full
<1>6. to = "rpc" => activeRpc < MaxRpc
  BY <1>3 DEF LetIn, Full
<1>7. StillServed(to)
  BY DEF Accepting, Listeners, StillServed
<1>8. request' = [request EXCEPT ![r] = x]
  BY DEF LetIn
<1>9. activeRpc' = IF to = "rpc" THEN activeRpc + 1 ELSE activeRpc
  BY DEF LetIn
<1> HIDE DEF x
<1>10. /\ activeRpc' = activeRpc + N(IsRpc(x)) - N(IsRpc(request[r])) /\ activeRpc' <= MaxRpc
       /\ exports' = exports + N(IsExport(x)) - N(IsExport(request[r])) /\ exports' <= MaxExports
       /\ pressure' \in Nat /\ pressure' >= pressure + N(IsRefused(x)) - N(IsRefused(request[r]))
  BY <1>2, <1>3, <1>6, <1>9
<1> QED BY <1>1, <1>5, <1>7, <1>8, <1>10, RequestBecomes

LEMMA ArriveMoves ==
    ASSUME ServerInv, NEW r \in Requests, Arrive(r)
    PROVE  ServerInv'
<1> PICK to \in Listeners :
       Accepting(to) /\ (TurnAway(r, to) \/ \E body \in Bodies(to) : LetIn(r, to, body))
  BY DEF Arrive
<1>1. request[r].at \in {"none", "answered"} /\ UNCHANGED <<exports, pressure, closing>>
  BY DEF Arrive, Free
<1>2. CASE \E body \in Bodies(to) : LetIn(r, to, body)
  BY <1>1, <1>2, LetInMoves
<1>3. CASE TurnAway(r, to)
  <2>1. ASSUME NEW flaw \in ToSet(Flaws(to)), to = "otlp" PROVE Refusal(flaw) # 503
    <3>1. Flaws(to) = <<"host", "origin", "media">>
      BY <2>1 DEF Flaws
    <3>2. flaw \in {"host", "origin", "media"}
      BY <2>1, <3>1 DEF ToSet
    <3> QED BY <3>2 DEF Refusal
  <2>2. to = "otlp" => ~Full(to)
    BY DEF Full
  <2>3. \E status : /\ to = "otlp" => status # 503
                    /\ request' = [request EXCEPT ![r] = Fresh(to, <<>>, "answered", status)]
    BY <1>3, <2>1, <2>2 DEF TurnAway
  <2> PICK status : /\ to = "otlp" => status # 503
                    /\ request' = [request EXCEPT ![r] = Fresh(to, <<>>, "answered", status)]
    BY <2>3
  <2>4. UNCHANGED activeRpc
    BY <1>3 DEF TurnAway
  <2> QED BY <1>1, <2>4, TurnedAway
<1> QED BY <1>2, <1>3

\* What the steps of a request in progress have in common.
LEMMA InProgress ==
    ASSUME ServerInv, NEW r \in Requests, request[r].at \in {"reading", "handling"}
    PROVE  /\ IsRequest(request[r]) /\ IsLive(request[r]) /\ ~IsStream(request[r])
           /\ IsAwaited(request[r]) <=> ~request[r].gone
           /\ request[r].at = "reading" => IsAwaited(request[r])
           /\ IsAwaited(request[r]) => StillServed(request[r].to)
           /\ N(IsRpc(request[r])) = (IF request[r].to = "rpc" THEN 1 ELSE 0)
           /\ N(IsExport(request[r])) =
                (IF request[r].to = "otlp" /\ request[r].at = "handling" THEN 1 ELSE 0)
           /\ N(IsRefused(request[r])) = 0
           /\ activeRpc \in Nat /\ exports \in Nat /\ pressure \in Nat
           /\ activeRpc <= MaxRpc /\ exports <= MaxExports /\ MaxRpc \in Nat /\ MaxExports \in Nat
<1>1. /\ IsRequest(request[r]) /\ IsLive(request[r])
      /\ IsAwaited(request[r]) <=> ~request[r].gone
      /\ request[r].at = "reading" => IsAwaited(request[r])
      /\ IsAwaited(request[r]) => StillServed(request[r].to)
  BY DEF ServerInv, ServerTypeOK, DrainInv, IsAwaited, IsLive, IsRequest
<1>2. ~IsStream(request[r]) /\ N(IsRefused(request[r])) = 0
  BY DEF IsStream, IsRefused, N
<1>3. /\ N(IsRpc(request[r])) = (IF request[r].to = "rpc" THEN 1 ELSE 0)
      /\ N(IsExport(request[r])) =
           (IF request[r].to = "otlp" /\ request[r].at = "handling" THEN 1 ELSE 0)
  BY DEF IsRpc, IsExport, N
<1>4. /\ activeRpc \in Nat /\ exports \in Nat /\ pressure \in Nat
      /\ activeRpc <= MaxRpc /\ exports <= MaxExports /\ MaxRpc \in Nat /\ MaxExports \in Nat
  BY ServersAssumption DEF ServerInv, ServerTypeOK, CountInv
<1> QED BY <1>1, <1>2, <1>3, <1>4

LEMMA ReadBodyMoves ==
    ASSUME ServerInv, NEW r \in Requests, ReadBody(r)
    PROVE  ServerInv'
<1>1. request[r].at = "reading" /\ UNCHANGED closing
  BY DEF ReadBody
<1>3. CASE Unread(request[r].body) /\ FreeSlot(r) /\ UNCHANGED <<exports, pressure>>
           /\ \E status \in {200, 400, 413} : Answer(r, status)
  <2> PICK status \in {200, 400, 413} : Answer(r, status)
    BY <1>3
  <2>1. /\ activeRpc' = activeRpc - N(IsRpc(request[r])) /\ exports' = exports - N(IsExport(request[r]))
        /\ pressure' \in Nat /\ pressure' >= pressure
    BY <1>1, <1>3, InProgress DEF FreeSlot
  <2> QED BY <1>1, <2>1, InProgress, RequestAnswered
<1>4. CASE Overloaded(r) /\ Answer(r, 503) /\ pressure' = pressure + 1 /\ UNCHANGED <<exports, activeRpc>>
  <2>1. request[r].to = "otlp"
    BY <1>4 DEF Overloaded
  <2>2. /\ activeRpc' = activeRpc - N(IsRpc(request[r])) /\ exports' = exports - N(IsExport(request[r]))
        /\ pressure' \in Nat /\ pressure' >= pressure /\ pressure' >= pressure + 1
    BY <1>1, <1>4, <2>1, InProgress
  <2> QED BY <1>1, <1>4, <2>2, InProgress, RequestAnswered
<1>5. CASE NoRpcCall(r) /\ Answer(r, 400) /\ UNCHANGED <<exports, pressure, activeRpc>>
  <2>1. request[r].to = "mcp"
    BY <1>5 DEF NoRpcCall
  <2>2. /\ activeRpc' = activeRpc - N(IsRpc(request[r])) /\ exports' = exports - N(IsExport(request[r]))
        /\ pressure' \in Nat /\ pressure' >= pressure
    BY <1>1, <1>5, <2>1, InProgress
  <2> QED BY <1>1, <1>5, <2>2, InProgress, RequestAnswered
<1>6. CASE /\ ~Overloaded(r) /\ request' = [request EXCEPT ![r].at = "handling"]
           /\ exports' = IF request[r].to = "otlp" THEN exports + 1 ELSE exports
           /\ UNCHANGED <<pressure, activeRpc>>
  <2> DEFINE x == [request[r] EXCEPT !.at = "handling"]
  <2>1. IsRequest(x) /\ x.at = "handling" /\ x.to = request[r].to
    BY <1>1, InProgress DEF IsRequest
  <2>2. /\ IsLive(x) /\ ~IsStream(x)
        /\ N(IsRpc(x)) = (IF request[r].to = "rpc" THEN 1 ELSE 0)
        /\ N(IsExport(x)) = (IF request[r].to = "otlp" THEN 1 ELSE 0)
        /\ N(IsRefused(x)) = 0
    BY <2>1 DEF IsLive, IsStream, IsRpc, IsExport, IsRefused, N
  <2>3. request' = [request EXCEPT ![r] = x]
    BY <1>6
  <2> HIDE DEF x
  <2>4. request[r].to = "otlp" => exports < MaxExports
    BY <1>1, <1>6, InProgress DEF Overloaded
  <2>5. /\ activeRpc' = activeRpc + N(IsRpc(x)) - N(IsRpc(request[r])) /\ activeRpc' <= MaxRpc
        /\ exports' = exports + N(IsExport(x)) - N(IsExport(request[r])) /\ exports' <= MaxExports
        /\ pressure' \in Nat /\ pressure' >= pressure + N(IsRefused(x)) - N(IsRefused(request[r]))
    BY <1>1, <1>6, <2>2, <2>4, InProgress
  <2> QED BY <1>1, <2>1, <2>2, <2>3, <2>5, InProgress, RequestBecomes
<1> QED BY <1>3, <1>4, <1>5, <1>6 DEF ReadBody

LEMMA HandleCallMoves ==
    ASSUME ServerInv, NEW r \in Requests, HandleCall(r)
    PROVE  ServerInv'
<1>1. request[r].at = "handling" /\ UNCHANGED <<activeRpc, exports, pressure, closing>>
  BY DEF HandleCall
<1> PICK replies : request' = [request EXCEPT ![r].left = Tail(@), ![r].replies = replies]
  BY DEF HandleCall
<1> DEFINE x == [request[r] EXCEPT !.left = Tail(@), !.replies = replies]
<1>2. IsRequest(x) /\ x.at = "handling" /\ x.to = request[r].to /\ (x.gone <=> request[r].gone)
  BY <1>1, InProgress DEF IsRequest
<1>3. /\ IsAwaited(x) => IsAwaited(request[r])
      /\ ~IsStream(x)
      /\ N(IsRpc(x)) = (IF request[r].to = "rpc" THEN 1 ELSE 0)
      /\ N(IsExport(x)) = (IF request[r].to = "otlp" THEN 1 ELSE 0)
      /\ N(IsRefused(x)) = 0
  BY <1>1, <1>2 DEF IsAwaited, IsLive, IsStream, IsRpc, IsExport, IsRefused, N
<1>4. request' = [request EXCEPT ![r] = x]
  OBVIOUS
<1> HIDE DEF x
<1>5. /\ activeRpc' = activeRpc + N(IsRpc(x)) - N(IsRpc(request[r])) /\ activeRpc' <= MaxRpc
      /\ exports' = exports + N(IsExport(x)) - N(IsExport(request[r])) /\ exports' <= MaxExports
      /\ pressure' \in Nat /\ pressure' >= pressure + N(IsRefused(x)) - N(IsRefused(request[r]))
  BY <1>1, <1>3, InProgress
<1> QED BY <1>1, <1>2, <1>3, <1>4, <1>5, InProgress, RequestBecomes

LEMMA RespondMoves ==
    ASSUME ServerInv, NEW r \in Requests, Respond(r)
    PROVE  ServerInv'
<1>1. request[r].at = "handling" /\ UNCHANGED <<pressure, closing>>
  BY DEF Respond
<1>2. /\ activeRpc' = activeRpc - N(IsRpc(request[r])) /\ exports' = exports - N(IsExport(request[r]))
      /\ pressure' \in Nat /\ pressure' >= pressure
  BY <1>1, InProgress DEF Respond, FreeSlot
<1>3. CASE ~request[r].gone /\ \E status \in {200, 204, 500} : Answer(r, status)
  <2> PICK status \in {200, 204, 500} : Answer(r, status)
    BY <1>3
  <2> QED BY <1>1, <1>2, <1>3, InProgress, RequestAnswered
<1>4. CASE /\ ~request[r].gone
           /\ request' = [request EXCEPT ![r].at = "answered", ![r].status = 200,
                                         ![r].replies = <<"response-too-large">>]
  <2> DEFINE x == [request[r] EXCEPT !.at = "answered", !.status = 200,
                                     !.replies = <<"response-too-large">>]
  <2>1. IsRequest(x) /\ x.at = "answered" /\ x.to = request[r].to /\ x.status = 200
    <3>1. IsRequest(request[r])
      BY <1>1, InProgress
    <3>2. x \in [at : {"answered"}, to : {request[r].to}, body : {request[r].body},
                 left : {request[r].left}, replies : {x.replies}, status : {200}, gone : BOOLEAN]
      BY <3>1 DEF IsRequest
    <3>3. x.gone <=> request[r].gone
      BY <3>1 DEF IsRequest
    <3> QED BY <1>4, <3>1, <3>2, <3>3 DEF IsRequest
  <2>2. request' = [request EXCEPT ![r] = x]
    BY <1>4
  <2>3. x.status # 503
    <3>1. \A n : n = 200 => n # 503
      OBVIOUS
    <3> QED BY <2>1, <3>1, Zenon
  <2> HIDE DEF x
  <2>4. IsRequest(x) /\ x.at = "answered" /\ x.to = request[r].to
    BY <2>1
  <2> QED BY <1>1, <1>2, <2>2, <2>3, <2>4, InProgress, RequestEnds
<1>5. CASE request' = [request EXCEPT ![r] = NoRequest]
  <2>1. IsRequest(NoRequest) /\ NoRequest.at = "none"
    BY DEF IsRequest, NoRequest, Fresh, Listeners
  <2> QED BY <1>1, <1>2, <1>5, <2>1, InProgress, RequestEnds
<1> QED BY <1>3, <1>4, <1>5 DEF Respond

\* A client that goes away changes no count, and is no longer awaited for.
LEMMA HangUpMoves ==
    ASSUME ServerInv, NEW r \in Requests, HangUp(r)
    PROVE  ServerInv'
<1> DEFINE x == [request[r] EXCEPT !.gone = TRUE]
<1>1. /\ request[r].at = "handling" /\ request' = [request EXCEPT ![r] = x]
      /\ UNCHANGED <<activeRpc, exports, pressure, closing>>
  BY DEF HangUp
<1>2. IsRequest(x) /\ x.at = "handling" /\ x.to = request[r].to /\ x.gone
  BY <1>1, InProgress DEF IsRequest
<1>3. /\ ~IsAwaited(x) /\ ~IsStream(x)
      /\ N(IsRpc(x)) = N(IsRpc(request[r])) /\ N(IsExport(x)) = N(IsExport(request[r]))
      /\ N(IsRefused(x)) = 0
  BY <1>1, <1>2 DEF IsAwaited, IsStream, IsRpc, IsExport, IsRefused, N
<1> HIDE DEF x
<1>4. /\ activeRpc' = activeRpc + N(IsRpc(x)) - N(IsRpc(request[r])) /\ activeRpc' <= MaxRpc
      /\ exports' = exports + N(IsExport(x)) - N(IsExport(request[r])) /\ exports' <= MaxExports
      /\ pressure' \in Nat /\ pressure' >= pressure + N(IsRefused(x)) - N(IsRefused(request[r]))
  BY <1>1, <1>3, InProgress
<1> QED BY <1>1, <1>2, <1>3, <1>4, RequestBecomes

LEMMA AbortMoves ==
    ASSUME ServerInv, NEW r \in Requests, Abort(r)
    PROVE  ServerInv'
<1>1. request[r].at = "reading" /\ Answer(r, 500) /\ FreeSlot(r) /\ UNCHANGED <<exports, pressure, closing>>
  BY DEF Abort
<1>2. /\ activeRpc' = activeRpc - N(IsRpc(request[r])) /\ exports' = exports - N(IsExport(request[r]))
      /\ pressure' \in Nat /\ pressure' >= pressure
  BY <1>1, InProgress DEF FreeSlot
<1> QED BY <1>1, <1>2, InProgress, RequestAnswered

LEMMA EndStreamMoves ==
    ASSUME ServerInv, NEW r \in Requests, EndStream(r)
    PROVE  ServerInv'
<1>1. /\ request[r].at = "streaming" /\ Answer(r, 200)
      /\ UNCHANGED <<activeRpc, exports, pressure, closing>>
  BY DEF EndStream
<1>2. activeRpc \in Nat /\ exports \in Nat /\ pressure \in Nat
  BY DEF ServerInv, ServerTypeOK
<1>3. N(IsRpc(request[r])) = 0 /\ N(IsExport(request[r])) = 0
  BY <1>1 DEF N, IsRpc, IsExport
<1>4. /\ activeRpc' = activeRpc - N(IsRpc(request[r])) /\ exports' = exports - N(IsExport(request[r]))
      /\ pressure' \in Nat /\ pressure' >= pressure
  BY <1>1, <1>2, <1>3
<1>5. IsAwaited(request[r])
  BY <1>1 DEF IsAwaited, IsLive, ServerInv, ServerTypeOK, IsRequest
<1> QED BY <1>1, <1>3, <1>4, <1>5, RequestAnswered

\* The close of the API ends every stream at once.
LEMMA BeginCloseMoves ==
    ASSUME ServerInv, BeginClose
    PROVE  ServerInv'
<1>1. ASSUME NEW r \in Requests
      PROVE  \/ request[r].at # "streaming" /\ request'[r] = request[r]
             \/ /\ request[r].at = "streaming" /\ request[r].to = "events"
                /\ request'[r] = [request[r] EXCEPT !.at = "answered", !.status = 200]
  BY DEF BeginClose, Streams, ServerInv, ServerTypeOK, IsRequest
<1>2. ASSUME NEW r \in Requests
      PROVE  /\ IsRequest(request'[r]) /\ ~IsStream(request'[r])
             /\ IsRpc(request'[r]) <=> IsRpc(request[r])
             /\ IsExport(request'[r]) <=> IsExport(request[r])
             /\ IsRefused(request'[r]) <=> IsRefused(request[r])
  <2>1. IsRequest(request[r])
    BY DEF ServerInv, ServerTypeOK
  <2>2. CASE request[r].at # "streaming" /\ request'[r] = request[r]
    BY <2>1, <2>2 DEF IsStream
  <2>3. CASE /\ request[r].at = "streaming" /\ request[r].to = "events"
             /\ request'[r] = [request[r] EXCEPT !.at = "answered", !.status = 200]
    <3> DEFINE x == [request[r] EXCEPT !.at = "answered", !.status = 200]
    <3>1. IsRequest(x) /\ x.at = "answered" /\ x.to = "events"
      BY <2>1, <2>3 DEF IsRequest
    <3>2. request'[r] = x
      BY <2>3
    <3> HIDE DEF x
    <3> QED BY <2>3, <3>1, <3>2 DEF IsStream, IsRpc, IsExport, IsRefused
  <2> QED BY <1>1, <2>2, <2>3
<1>3. RpcCalls' = RpcCalls /\ Exporting' = Exporting /\ Refused' = Refused /\ Streaming' = {}
  BY <1>2 DEF RpcCalls, Exporting, Refused, Streaming, IsRpc, IsExport, IsRefused, IsStream
<1>4. UNCHANGED <<activeRpc, exports, pressure>> /\ closing' = "api"
  BY DEF BeginClose
<1>5. CountInv'
  <2>1. Cardinality({}) = 0 /\ MaxStreams \in Nat
    BY FS_EmptySet, ServersAssumption
  <2> QED BY <1>3, <1>4, <2>1 DEF ServerInv, CountInv
<1>6. ServerTypeOK'
  <2>1. request' = [r \in Requests |-> request'[r]]
    BY DEF BeginClose
  <2>2. \A r \in Requests : IsRequest(request[r])'
    BY <1>2 DEF IsRequest
  <2> QED BY <1>4, <2>1, <2>2 DEF ServerInv, ServerTypeOK
<1>7. DrainInv'
  BY <1>4 DEF DrainInv, StillServed
<1> QED BY <1>5, <1>6, <1>7 DEF ServerInv

LEMMA StopNextMoves ==
    ASSUME ServerInv, StopNext
    PROVE  ServerInv'
<1>1. UNCHANGED <<request, activeRpc, exports, pressure>>
  BY DEF StopNext
<1>2. CountInv'
  BY <1>1 DEF ServerInv, CountInv, RpcCalls, Exporting, Streaming, Refused
<1>3. ServerTypeOK'
  BY <1>1 DEF ServerInv, ServerTypeOK, StopNext, IsRequest
<1>4. DrainInv'
  <2> SUFFICES ASSUME NEW r \in Requests, IsAwaited(request[r]) PROVE StillServed(request[r].to)'
    BY <1>1 DEF DrainInv
  <2>1. /\ request[r].to \in Listeners /\ StillServed(request[r].to)
        /\ request[r].at = "streaming" => request[r].to = "events" /\ r \in Streams
        /\ request[r].at # "streaming" => request[r].to # "events" /\ r \in Connected(request[r].to)
    BY DEF ServerInv, ServerTypeOK, IsRequest, DrainInv, IsAwaited, IsLive, Streams, Busy, Connected
  <2> QED BY <1>1, <2>1 DEF StopNext, StillServed, Listeners
<1> QED BY <1>2, <1>3, <1>4 DEF ServerInv

THEOREM ServerInvariant == Spec => []ServerInv
<1>1. Init => ServerInv
  <2> SUFFICES ASSUME ServerInit PROVE ServerInv
    BY DEF Init
  <2>1. /\ request = [r \in Requests |-> NoRequest]
        /\ activeRpc = 0 /\ exports = 0 /\ pressure = 0 /\ closing = "open"
    BY DEF ServerInit
  <2>2. \A r \in Requests : request[r] = NoRequest
    BY <2>1
  <2>3. IsRequest(NoRequest) /\ NoRequest.at = "none"
    BY DEF IsRequest, NoRequest, Fresh, Listeners
  <2>4. RpcCalls = {} /\ Exporting = {} /\ Streaming = {} /\ Refused = {}
    BY <2>2, <2>3 DEF RpcCalls, Exporting, Streaming, Refused, IsRpc, IsExport, IsStream, IsRefused
  <2>5. CountInv
    BY <2>1, <2>4, FS_EmptySet, ServersAssumption DEF CountInv
  <2>6. ServerTypeOK /\ DrainInv
    BY <2>1, <2>2, <2>3 DEF ServerTypeOK, DrainInv, IsAwaited, IsLive
  <2> QED BY <2>5, <2>6 DEF ServerInv
<1>2. ServerInv /\ [Next]_vars => ServerInv'
  <2> SUFFICES ASSUME ServerInv, [Next]_vars PROVE ServerInv'
    OBVIOUS
  <2>1. CASE UNCHANGED serverVars
    BY <2>1 DEF serverVars, ServerInv, ServerTypeOK, CountInv, DrainInv, IsRequest, IsAwaited, StillServed,
                RpcCalls, Exporting, Streaming, Refused
  <2>2. CASE ServerNext
    BY <2>2, ArriveMoves, ReadBodyMoves, HandleCallMoves, RespondMoves, AbortMoves, HangUpMoves,
       EndStreamMoves, BeginCloseMoves, StopNextMoves DEF ServerNext, Serve, Handle, GoAway
  <2> QED BY <2>1, <2>2
       DEF Next, vars, OnClients, OnServers, OnPublishing, OnDesktop, OnPassage
<1> QED BY <1>1, <1>2, PTL DEF Spec

(* For any number of requests and any limits, however requests interleave,  *)
(* fail or are abandoned: the slots in use are those of the requests being  *)
(* worked on, never more than allowed.                                      *)
THEOREM SlotsExactCorrect == Spec => []SlotsExact
<1>1. ServerInv => SlotsExact
  <2> SUFFICES ASSUME ServerInv PROVE SlotsExact
    OBVIOUS
  <2>1. Busy("rpc") = RpcCalls
    BY DEF Busy, RpcCalls, IsRpc
  <2>2. {r \in Busy("otlp") : request[r].at = "handling"} = Exporting
    BY DEF Busy, Exporting, IsExport
  <2>3. Streams = Streaming
    BY DEF Streams, Streaming, IsStream
  <2>4. {r \in Requests : request[r].at = "answered" /\ request[r].to = "otlp" /\ request[r].status = 503}
          = Refused
    BY DEF Refused, IsRefused
  <2> QED BY <2>1, <2>2, <2>3, <2>4 DEF ServerInv, CountInv, SlotsExact
<1> QED BY <1>1, ServerInvariant, PTL

(* For any number of requests and any batches: when close() comes to the    *)
(* engine nobody awaits an answer of any listener; a handler that is still  *)
(* at work then is one whose client has gone.                               *)
THEOREM DrainedCorrect == Spec => []Drained
<1>1. ServerInv => Drained
  <2> SUFFICES ASSUME ServerInv, Past("mcp"), NEW r \in Requests, IsAwaited(request[r]) PROVE FALSE
    BY DEF Drained, IsAwaited, IsLive, ServerInv, ServerTypeOK, IsRequest
  <2>1. DOMAIN Stages = 1 .. 6
    BY DEF Stages
  <2>2. \E i, j \in 1 .. 6 : Stages[i] = "mcp" /\ Stages[j] = closing /\ i < j
    BY <2>1 DEF Past
  <2>3. closing \in {"engine", "closed"}
    BY <2>2 DEF Stages
  <2> QED BY <2>3 DEF ServerInv, DrainInv, StillServed
<1> QED BY <1>1, ServerInvariant, PTL

-----------------------------------------------------------------------------
(* The desktop application.                                                 *)

Revisions == Nat \cup {NoAnswer}
Readings == Nat \cup {NoAnswer, Asked}

AppRecords == [at : {"starting", "ready", "stopping", "exited"}, settings : Nat,
               pendingShow : BOOLEAN, quitting : BOOLEAN, full : BOOLEAN, shutdown : BOOLEAN]

WindowRecords == [load : {"none", "loading", "loaded"}, mounted : BOOLEAN, shows : Revisions,
                  read : Readings, reloads : Nat]

DeskTypeOK ==
    /\ backend \in [up : BOOLEAN, settings : Nat]
    /\ app \in AppRecords
    /\ signal \in BOOLEAN
    /\ refresh \in [answer : Readings, again : BOOLEAN]
    /\ saved \in Revisions
    /\ window \in WindowRecords
    /\ overtaken \in [app : BOOLEAN, window : BOOLEAN]
    /\ newest \in Nat /\ untold \in Nat

\* Nothing is newer than what the runtime has.
NoneNewer ==
    /\ newest <= backend.settings /\ app.settings <= backend.settings /\ untold <= backend.settings
    /\ \A s \in {refresh.answer, saved, window.shows, window.read} \cap Nat : s <= backend.settings

\* While the runtime runs, its newest settings have been broadcast, or will be,
\* or were those of a refresh that failed.
NewsComes ==
    /\ refresh.answer = NoAnswer => refresh.again = FALSE
    /\ backend.up = TRUE /\ app.at # "exited" =>
         \/ untold = backend.settings
         \/ signal = TRUE \/ refresh.again = TRUE
         \/ refresh.answer \in {Asked, backend.settings} \/ newest = backend.settings

\* What the window shows, or is the first to be shown.
First(w) == IF w.shows = NoAnswer THEN w.read ELSE w.shows

\* What was not overtaken is as new as any broadcast: what the app goes by,
\* and what the window shows or is going to show first.
NotOvertaken ==
    /\ overtaken.app = FALSE => app.settings >= newest
    /\ overtaken.window = FALSE /\ First(window) \in Nat => First(window) >= newest
    /\ window.load = "none" => window.mounted = FALSE
    /\ window.mounted = FALSE => window.shows = NoAnswer /\ window.read = NoAnswer

DeskInv == DeskTypeOK /\ NoneNewer /\ NewsComes /\ NotOvertaken

\* A broadcast of an answer the runtime has given.
LEMMA BroadcastMoves ==
    ASSUME DeskInv, NEW s \in Nat, s <= backend.settings, Broadcast(s)
    PROVE  /\ app' = [app EXCEPT !.settings = s]
           /\ window' \in WindowRecords
           /\ overtaken' \in [app : BOOLEAN, window : BOOLEAN]
           /\ newest' \in Nat /\ newest' <= backend.settings
           /\ s = backend.settings \/ newest = backend.settings => newest' = backend.settings
           /\ window'.shows \in {s, window.shows} /\ window'.read = window.read
           /\ NotOvertaken'
<1> USE DEF DeskInv, DeskTypeOK, AppRecords, WindowRecords, NoneNewer, Revisions, Readings
<1> USE DeskAssumption
<1>1. /\ newest \in Nat /\ backend.settings \in Nat /\ newest <= backend.settings
      /\ newest' = IF s > newest THEN s ELSE newest
  BY DEF Broadcast
<1>2. newest' \in Nat /\ newest' <= backend.settings /\ newest' >= newest /\ newest' >= s
  BY <1>1
<1>3. app' = [app EXCEPT !.settings = s] /\ app'.settings = s
  BY DEF Broadcast
<1>4. overtaken' = [app |-> s < newest, window |-> s < newest \/ window.load = "loading"]
  BY DEF Broadcast
<1>5. overtaken' \in [app : BOOLEAN, window : BOOLEAN]
  BY <1>4
<1>6. /\ overtaken'.app = FALSE => newest' = s
      /\ overtaken'.window = FALSE => newest' = s /\ window.load # "loading"
  <2>1. overtaken'.app = (s < newest) /\ overtaken'.window = (s < newest \/ window.load = "loading")
    BY <1>4, Zenon
  <2>2. ~(s < newest) => newest' = s
    BY <1>1
  <2> QED BY <2>1, <2>2
<1>7. window' = IF window.load = "loaded" /\ window.mounted THEN [window EXCEPT !.shows = s] ELSE window
  BY DEF Broadcast
<1>8. /\ window' \in WindowRecords
      /\ window'.shows \in {s, window.shows} /\ window'.read = window.read
      /\ window'.load = window.load /\ window'.mounted = window.mounted
      /\ window.load = "loaded" /\ window.mounted = TRUE => window'.shows = s
      /\ window.mounted = FALSE => window' = window
  <2>1. CASE window.load = "loaded" /\ window.mounted
    <3>1. window' = [window EXCEPT !.shows = s]
      BY <1>7, <2>1, Zenon
    <3>2. ~(window.mounted = FALSE)
      BY <2>1, Zenon
    <3> QED BY <3>1, <3>2
  <2>2. CASE ~(window.load = "loaded" /\ window.mounted)
    <3>1. window' = window
      BY <1>7, <2>2, Zenon
    <3>2. ~(window.load = "loaded" /\ window.mounted = TRUE)
      BY <2>2, Zenon
    <3> QED BY <3>1, <3>2
  <2> QED BY <2>1, <2>2
<1>9. window.load \in {"none", "loading", "loaded"}
  OBVIOUS
<1>10. NotOvertaken'
  <2>1. overtaken'.app = FALSE => app'.settings >= newest'
    BY <1>3, <1>6
  <2>2. /\ window'.load = "none" => window'.mounted = FALSE
        /\ window'.mounted = FALSE => window'.shows = NoAnswer /\ window'.read = NoAnswer
    BY <1>8 DEF NotOvertaken
  <2>3. ASSUME overtaken'.window = FALSE, First(window)' \in Nat PROVE First(window)' >= newest'
    <3>1. window.load = "loaded" /\ window.mounted = TRUE
      BY <1>6, <1>9, <2>2, <2>3, <1>8 DEF First
    <3> QED BY <1>6, <1>8, <2>3, <3>1 DEF First
  <2> QED BY <2>1, <2>2, <2>3 DEF NotOvertaken
<1> QED BY <1>1, <1>2, <1>3, <1>5, <1>8, <1>10

LEMMA DeskStep == DeskInv /\ [DeskNext]_deskVars => DeskInv'
<1> SUFFICES ASSUME DeskInv, [DeskNext]_deskVars PROVE DeskInv'
  OBVIOUS
<1> USE DEF DeskInv, DeskTypeOK, AppRecords, WindowRecords, NoneNewer, NewsComes, NotOvertaken, First, Revisions, Readings
<1> USE DeskAssumption
<1>0. /\ Loading(window).load = "loading" /\ Loading(window).mounted = FALSE /\ Loading(window).shows = NoAnswer
      /\ Loading(window).read = NoAnswer /\ Loading(window).reloads = window.reloads
      /\ Loading(window) \in WindowRecords
  <2>1. FALSE \in BOOLEAN
    BY Zenon
  <2> PICK b \in BOOLEAN : b = FALSE
    BY <2>1, Zenon
  <2>2. NoWindow = [load |-> "none", mounted |-> b, shows |-> NoAnswer, read |-> NoAnswer, reloads |-> 0]
    BY Zenon DEF NoWindow
  <2>3. window.reloads \in Nat
    OBVIOUS
  <2> DEFINE n == NoWindow
             w == [n EXCEPT !.load = "loading", !.reloads = window.reloads]
  <2>4. n \in WindowRecords /\ n.mounted = b /\ n.shows = NoAnswer /\ n.read = NoAnswer
    BY <2>2
  <2> HIDE DEF n
  <2>5. /\ w \in WindowRecords /\ w.mounted = b /\ w.shows = NoAnswer /\ w.read = NoAnswer
        /\ w.reloads = window.reloads /\ w.load = "loading"
    BY <2>3, <2>4
  <2>6. Loading(window) = w
    BY Zenon DEF Loading, n
  <2> HIDE DEF w
  <2> QED BY <2>5, <2>6, Zenon
<1>1. CASE ChangeSettings
  <2>1. /\ backend' \in [up : BOOLEAN, settings : Nat] /\ backend'.settings = backend.settings + 1
        /\ signal' = TRUE /\ UNCHANGED <<app, refresh, saved, window, overtaken, newest, untold>>
    BY <1>1 DEF ChangeSettings
  <2> QED BY <2>1
<1>2. CASE Signal
  <2>1. /\ signal' = FALSE /\ UNCHANGED <<backend, app, saved, window, overtaken, newest, untold>>
        /\ refresh' \in [answer : Readings, again : BOOLEAN]
        /\ refresh'.again = TRUE \/ refresh'.answer = Asked
        /\ refresh'.answer = NoAnswer => refresh'.again = FALSE
        /\ refresh'.answer \in {refresh.answer, Asked}
    BY <1>2 DEF Signal
  <2>2. DeskTypeOK'
    <3>1. signal' \in BOOLEAN
      BY <2>1, Zenon
    <3> QED BY <2>1, <3>1
  <2>3. NoneNewer'
    BY <2>1
  <2>4. NewsComes' /\ NotOvertaken'
    BY <2>1
  <2> QED BY <2>2, <2>3, <2>4
<1>3. CASE RefreshRead
  <2>1. /\ UNCHANGED <<backend, app, signal, saved, window, overtaken, newest, untold>>
        /\ refresh' \in [answer : Readings, again : BOOLEAN]
        /\ refresh'.answer = backend.settings
    BY <1>3 DEF RefreshRead
  <2> QED BY <2>1
<1>4. CASE RefreshEnds
  <2>1. /\ UNCHANGED <<backend, signal, saved, untold>>
        /\ refresh' \in [answer : Readings, again : BOOLEAN]
        /\ refresh'.again = FALSE /\ refresh'.answer \in {Asked, NoAnswer}
        /\ refresh.again = TRUE => refresh'.answer = Asked
    BY <1>4 DEF RefreshEnds, RefreshOver
  <2>3. refresh.answer \notin {NoAnswer, Asked} /\ Broadcast(refresh.answer)
    BY <1>4 DEF RefreshEnds
  <2>4. DeskInv'
    <3>1. refresh.answer \in Nat /\ refresh.answer <= backend.settings
      BY <2>3
    <3> DEFINE s == refresh.answer
    <3>2. /\ app' = [app EXCEPT !.settings = s]
          /\ window' \in WindowRecords
          /\ overtaken' \in [app : BOOLEAN, window : BOOLEAN]
          /\ newest' \in Nat /\ newest' <= backend.settings
          /\ s = backend.settings \/ newest = backend.settings => newest' = backend.settings
          /\ window'.shows \in {s, window.shows} /\ window'.read = window.read
          /\ NotOvertaken'
      BY <2>3, <3>1, BroadcastMoves
    <3>3. DeskTypeOK'
      BY <2>1, <3>1, <3>2
    <3>4. NoneNewer'
      BY <2>1, <3>1, <3>2
    <3>5. NewsComes'
      BY <2>1, <3>1, <3>2
    <3> QED BY <3>2, <3>3, <3>4, <3>5
  <2> QED BY <2>4
<1>5. CASE SaveAnswered
  <2>1. /\ UNCHANGED <<backend, signal, refresh, untold>> /\ saved' = NoAnswer /\ saved # NoAnswer
        /\ Broadcast(saved)
    BY <1>5 DEF SaveAnswered
  <2>2. saved \in Nat /\ saved <= backend.settings
    BY <2>1
  <2>3. /\ app' = [app EXCEPT !.settings = saved]
        /\ window' \in WindowRecords
        /\ overtaken' \in [app : BOOLEAN, window : BOOLEAN]
        /\ newest' \in Nat /\ newest' <= backend.settings
        /\ saved = backend.settings \/ newest = backend.settings => newest' = backend.settings
        /\ window'.shows \in {saved, window.shows} /\ window'.read = window.read
        /\ NotOvertaken'
    BY <2>1, <2>2, BroadcastMoves
  <2>4. DeskTypeOK'
    BY <2>1, <2>2, <2>3
  <2>5. NoneNewer'
    BY <2>1, <2>2, <2>3
  <2>6. NewsComes'
    BY <2>1, <2>3
  <2> QED BY <2>3, <2>4, <2>5, <2>6
<1>6. CASE SaveSettings
  <2>1. /\ backend' \in [up : BOOLEAN, settings : Nat] /\ backend'.settings = backend.settings + 1
        /\ saved' = backend.settings + 1
        /\ signal' = TRUE /\ UNCHANGED <<app, refresh, window, overtaken, newest, untold>>
    BY <1>6 DEF SaveSettings
  <2> QED BY <2>1
<1>7. CASE Mount
  <2>1. /\ UNCHANGED <<backend, app, signal, refresh, saved, newest, untold>>
        /\ window' = [window EXCEPT !.mounted = TRUE, !.read = Asked] /\ window.load # "none"
        /\ window.mounted = FALSE
        /\ overtaken' \in [app : BOOLEAN, window : BOOLEAN] /\ overtaken'.app = overtaken.app
    <3>1. window.mounted = FALSE
      BY <1>7, Zenon DEF Mount
    <3> QED BY <1>7, <3>1 DEF Mount
  <2>2. window'.mounted # FALSE
    <3>1. window'.mounted = TRUE
      BY <2>1
    <3> QED BY <3>1, Zenon
  <2>3. /\ window' \in WindowRecords /\ window'.read = Asked /\ window'.shows = NoAnswer
        /\ window'.load = window.load
    BY <2>1
  <2> QED BY <2>1, <2>2, <2>3
<1>8. CASE OpeningRead
  <2>1. /\ UNCHANGED <<backend, app, signal, refresh, saved, overtaken, newest, untold>>
        /\ window' = [window EXCEPT !.read = backend.settings] /\ window.read = Asked
    BY <1>8 DEF OpeningRead
  <2> QED BY <2>1
<1>9. CASE OpeningReadArrives
  <2>1. /\ UNCHANGED <<backend, app, signal, refresh, saved, newest, untold>>
        /\ window' = [window EXCEPT !.shows = window.read, !.read = NoAnswer]
        /\ window.read \in Nat
        /\ overtaken' = [overtaken EXCEPT !.window =
               overtaken.window \/ (window.shows # NoAnswer /\ window.shows > window.read)]
    BY <1>9 DEF OpeningReadArrives
  <2>2. /\ overtaken' \in [app : BOOLEAN, window : BOOLEAN] /\ overtaken'.app = overtaken.app
        /\ overtaken'.window = FALSE =>
             overtaken.window = FALSE /\ ~(window.shows # NoAnswer /\ window.shows > window.read)
    <3>1. /\ overtaken'.app = overtaken.app
          /\ overtaken'.window = (overtaken.window \/ (window.shows # NoAnswer /\ window.shows > window.read))
      BY <2>1
    <3>2. overtaken' \in [app : BOOLEAN, window : BOOLEAN]
      BY <2>1
    <3>3. overtaken.window \in BOOLEAN
      OBVIOUS
    <3> QED BY <3>1, <3>2, <3>3
  <2>3. /\ window'.shows = window.read /\ window'.read = NoAnswer /\ window'.load = window.load
        /\ window'.mounted = window.mounted /\ window' \in WindowRecords
    BY <2>1
  <2>4. window.mounted # FALSE
    BY <2>1
  <2> QED BY <2>1, <2>2, <2>3, <2>4
<1>10. CASE FinishLoad
  BY <1>10 DEF FinishLoad
<1>11. ASSUME NEW a \in AppRecords,
              ShowWindow(a)
       PROVE  /\ app' \in AppRecords
              /\ app'.settings = a.settings /\ app'.at = a.at
              /\ window' \in WindowRecords
              /\ window'.shows = window.shows /\ window'.read = window.read
              /\ window'.mounted = window.mounted
              /\ window'.load = "none" => window.load = "none"
  <2>1. app' \in {a, [a EXCEPT !.pendingShow = TRUE]}
    BY <1>11 DEF ShowWindow
  <2>2. \/ window' = window
        \/ window.load = "none" /\ window' = Loading(window)
    BY <1>11 DEF ShowWindow
  <2>3. /\ app' \in AppRecords
        /\ app'.settings = a.settings /\ app'.at = a.at
    BY <1>11, <2>1
  <2>4. /\ window' \in WindowRecords
        /\ window'.shows = window.shows /\ window'.read = window.read
        /\ window'.mounted = window.mounted
        /\ window'.load = "none" => window.load = "none"
    <3>1. CASE window.load = "none" /\ window' = Loading(window)
      BY <1>0, <3>1
    <3>2. CASE window' = window
      BY <3>2
    <3> QED BY <2>2, <3>1, <3>2
  <2> QED BY <2>3, <2>4
<1>12. CASE Show
  <2>1. ShowWindow(app) /\ UNCHANGED <<backend, signal, refresh, saved, overtaken, newest, untold>>
    BY <1>12 DEF Show
  <2> QED BY <1>11, <2>1
<1>13. CASE StartUp
  <2> DEFINE ready == [app EXCEPT !.at = "ready", !.shutdown = TRUE, !.pendingShow = FALSE,
                                  !.settings = backend.settings]
  <2>1. /\ ShowWindow(ready) /\ signal' = TRUE
        /\ UNCHANGED <<backend, refresh, saved, overtaken, newest, untold>>
    BY <1>13 DEF StartUp
  <2>2. /\ ready \in AppRecords
        /\ ready.settings = backend.settings /\ ready.at = "ready"
    OBVIOUS
  <2> HIDE DEF ready
  <2> QED BY <1>11, <2>1, <2>2
<1>14. CASE Reload
  <2>1. UNCHANGED <<backend, app, signal, refresh, saved, overtaken, newest, untold>>
    BY <1>14 DEF Reload
  <2>2. /\ window'.shows = NoAnswer /\ window'.read = NoAnswer
        /\ window' \in WindowRecords /\ window'.load = "loading" /\ window'.mounted = FALSE
    <3> DEFINE w == Loading(window)
    <3>1. window' = [w EXCEPT !.reloads = w.reloads + 1]
      BY <1>14 DEF Reload
    <3> HIDE DEF w
    <3> QED BY <1>0, <3>1 DEF w
  <2> QED BY <2>1, <2>2
\* What leaves the settings, and the answers, as they are.
<1>15. ASSUME UNCHANGED <<signal, refresh, saved, overtaken, newest, untold>>,
              backend' \in [up : BOOLEAN, settings : Nat], backend'.settings = backend.settings,
              backend' = backend \/ backend'.up = FALSE,
              app' \in AppRecords,
              app'.settings = app.settings, app'.at = "exited" \/ app.at # "exited",
              window' = window
       PROVE  DeskInv'
  BY <1>15
<1>16. CASE StartUpFails
  BY <1>15, <1>16 DEF StartUpFails, Quit
<1>17. CASE ShutdownAnswered
  <2>1. UNCHANGED <<signal, refresh, saved, window, overtaken, newest, untold>>
    BY <1>17 DEF ShutdownAnswered
  <2>2. /\ backend' \in [up : BOOLEAN, settings : Nat] /\ backend'.settings = backend.settings
        /\ backend' = backend \/ backend'.up = FALSE
    BY <1>17 DEF ShutdownAnswered
  <2>3. /\ app' \in AppRecords
        /\ app'.settings = app.settings /\ app'.at = app.at
    BY <1>17 DEF ShutdownAnswered, Quit
  <2>4. app.at # "exited" \/ app'.at = "exited"
    BY <2>3
  <2> QED BY <1>15, <2>1, <2>2, <2>3, <2>4
<1>18. CASE WillQuit
  BY <1>15, <1>18 DEF WillQuit
<1>19. CASE Exit
  <2>1. /\ UNCHANGED <<backend, refresh, overtaken, newest, untold>>
        /\ app' = [app EXCEPT !.at = "exited"] /\ window' = NoWindow
        /\ saved' = NoAnswer /\ signal' = FALSE
    BY <1>19 DEF Exit
  <2>2. signal' \in BOOLEAN
    BY <2>1, Zenon
  <2>3. /\ window' \in WindowRecords /\ window'.load = "none" /\ window'.mounted = FALSE
        /\ window'.shows = NoAnswer /\ window'.read = NoAnswer
    BY <2>1 DEF NoWindow
  <2> QED BY <2>1, <2>2, <2>3
<1>20. /\ FullQuit(app) \in AppRecords
       /\ FullQuit(app).settings = app.settings /\ FullQuit(app).at = app.at
  BY DEF FullQuit, Quit
<1>21. CASE Leave
  <2>1. UNCHANGED <<backend, signal, refresh, saved, overtaken, newest, untold>>
    BY <1>21 DEF Leave
  <2>2. CASE app' = FullQuit(app) /\ UNCHANGED window
    BY <1>15, <1>20, <2>1, <2>2
  <2>3. CASE Hide
    BY <1>15, <2>1, <2>3 DEF Hide
  <2> QED BY <1>21, <2>2, <2>3 DEF Leave
<1>22. CASE TrayQuit
  BY <1>15, <1>20, <1>22 DEF TrayQuit
<1>23. CASE Terminated
  BY <1>15, <1>23 DEF Terminated, Quit
<1>24. CASE RuntimeDies
  BY <1>15, <1>24 DEF RuntimeDies
<1>25. CASE UNCHANGED deskVars
  BY <1>25 DEF deskVars
<1>26. CASE RefreshFails
  <2>1. /\ UNCHANGED <<backend, app, signal, saved, window, overtaken, newest>>
        /\ untold' = backend.settings
        /\ refresh' \in [answer : Readings, again : BOOLEAN]
        /\ refresh'.again = FALSE /\ refresh'.answer \in {Asked, NoAnswer}
    BY <1>26 DEF RefreshFails, RefreshOver
  <2> QED BY <2>1
<1>27. CASE SaveLost
  BY <1>27 DEF SaveLost
<1>28. CASE OpeningReadFails
  <2>1. /\ UNCHANGED <<backend, app, signal, refresh, saved, overtaken, newest, untold>>
        /\ window' = [window EXCEPT !.read = NoAnswer]
    BY <1>28 DEF OpeningReadFails
  <2>2. /\ window' \in WindowRecords /\ window'.read = NoAnswer /\ window'.shows = window.shows
        /\ window'.load = window.load /\ window'.mounted = window.mounted
    BY <2>1
  <2> QED BY <2>1, <2>2
<1> QED BY <1>1, <1>2, <1>3, <1>4, <1>5, <1>6, <1>7, <1>8, <1>9, <1>10, <1>12, <1>13, <1>14,
           <1>16, <1>17, <1>18, <1>19, <1>21, <1>22, <1>23, <1>24, <1>25, <1>26, <1>27, <1>28
        DEF DeskNext, Arrivals, Leaving

(* The desktop application, for any number of changes, updates and reloads, *)
(* and whenever it is left: when nothing is on its way it goes by, and its   *)
(* window shows, the settings the runtime has, but for what an older answer  *)
(* has overwritten and for what a refresh that failed has not brought        *)
(* (main/index.ts, renderer/hooks.ts).                                       *)
THEOREM WindowCurrentCorrect == Spec => []WindowCurrent
<1>1. Init => DeskInv
  <2> SUFFICES ASSUME DeskInit PROVE DeskInv
    BY DEF Init
  <2> USE DeskAssumption
  <2>1. DeskTypeOK
    <3>1. signal \in BOOLEAN
      BY Zenon DEF DeskInit
    <3> QED BY <3>1 DEF DeskInit, DeskTypeOK, AppRecords, WindowRecords, Revisions, Readings, NoWindow
  <2>2. NoneNewer
    BY DEF DeskInit, NoneNewer, NoWindow
  <2>3. NewsComes
    BY DEF DeskInit, NewsComes
  <2>4. NotOvertaken
    BY DEF DeskInit, NotOvertaken, First, NoWindow
  <2> QED BY <2>1, <2>2, <2>3, <2>4 DEF DeskInv
<1>2. DeskInv /\ [Next]_vars => DeskInv'
  <2>1. [Next]_vars => [DeskNext]_deskVars
    BY DEF Next, vars, OnClients, OnServers, OnPublishing, OnDesktop, OnPassage, deskVars
  <2> QED BY <2>1, DeskStep
<1>3. DeskInv => WindowCurrent
  <2> SUFFICES ASSUME DeskInv, AtRest, newest >= untold PROVE
        /\ ~overtaken.app => app.settings = backend.settings
        /\ ~overtaken.window /\ window.read = NoAnswer /\ window.shows # NoAnswer
             => window.shows = backend.settings
    BY DEF WindowCurrent
  <2> USE DeskAssumption DEF DeskInv, DeskTypeOK, AppRecords, WindowRecords, NoneNewer, NotOvertaken, First, Revisions
  <2>1. newest = backend.settings
    BY DEF AtRest, NewsComes
  <2>2. ~overtaken.app => app.settings = backend.settings
    <3>1. overtaken.app \in BOOLEAN
      OBVIOUS
    <3> QED BY <2>1, <3>1
  <2>3. ~overtaken.window /\ window.read = NoAnswer /\ window.shows # NoAnswer
             => window.shows = backend.settings
    <3>1. overtaken.window \in BOOLEAN
      OBVIOUS
    <3> QED BY <2>1, <3>1
  <2> QED BY <2>2, <2>3
<1> QED BY <1>1, <1>2, <1>3, PTL DEF Spec

-----------------------------------------------------------------------------
(* Pages.                                                                   *)

Listings == {"traces", "logs", "points", "instruments", "facets"}

\* A listing that answers has a limit its validator admits; one that has
\* ended has handed out all its rows, if there are more pages to ask for.
BookOK(b) ==
    /\ b.listing \in Listings
    /\ b.answer \in {"invalid", "more", "end"}
    /\ b.answer # "invalid" =>
         /\ Admits(b.listing, b.limit)
         /\ b.total \in Nat /\ b.got \in 0..b.total
         /\ b.listing \in Chained /\ b.answer = "end" => b.got = b.total

BookRecords == [listing : Listings, limit : Int \cup {Unasked}, total : Int, got : Int,
                answer : {"invalid", "more", "end"}]

BookInv == book # Unasked => book \in BookRecords /\ BookOK(book)

LEMMA LimitFits ==
    ASSUME NEW l \in Listings, NEW n \in Int \cup {Unasked}, Admits(l, n)
    PROVE  RowLimit(l, n) \in 1..MaxRows[l]
<1> USE DEF Listings, MaxRows, MaxLimit, DefaultLimit, RowLimit, Admits
<1>1. DefaultLimit[l] \in 1..MaxRows[l] /\ MaxLimit[l] = MaxRows[l]
  BY SMT
<1> HIDE DEF MaxRows, MaxLimit, DefaultLimit
<1> QED BY <1>1

LEMMA PageMoves ==
    ASSUME NEW b \in [listing : Listings, limit : Int \cup {Unasked}, total : Int, got : Int,
                      answer : {"invalid", "more", "end"}],
           Admits(b.listing, b.limit), b.total \in Nat, b.got \in 0..b.total
    PROVE  Page(b) \in BookRecords /\ BookOK(Page(b))
<1> DEFINE left == b.total - b.got
           limit == RowLimit(b.listing, b.limit)
           rows == IF left > limit THEN limit ELSE left
           answer == IF rows > MaxRows[b.listing] THEN "refused"
                     ELSE IF b.listing \in Chained /\ left > limit THEN "more" ELSE "end"
<1>1. limit \in 1..MaxRows[b.listing] /\ MaxRows[b.listing] \in Nat
  <2>1. MaxRows[b.listing] \in Nat
    BY DEF MaxRows, Listings
  <2> QED BY <2>1, LimitFits
<1>2. Page(b) = [b EXCEPT !.got = b.got + rows, !.answer = answer]
  BY Zenon DEF Page
<1> HIDE DEF limit
<1>3. left \in Nat /\ rows \in 0..left /\ rows <= limit
  BY <1>1
<1>4. /\ answer \in {"more", "end"}
      /\ b.listing \in Chained /\ answer = "end" => rows = left
  BY <1>1, <1>3
<1> HIDE DEF answer, rows
<1>5. /\ Page(b).listing = b.listing /\ Page(b).limit = b.limit /\ Page(b).total = b.total
      /\ Page(b).got = b.got + rows /\ Page(b).answer = answer
      /\ Page(b) \in BookRecords
  <2> DEFINE n == b.got + rows
             c == [b EXCEPT !.got = n]
  <2>1. n \in Int
    BY <1>3
  <2> HIDE DEF n
  <2>2. c \in BookRecords /\ c.listing = b.listing /\ c.limit = b.limit /\ c.total = b.total /\ c.got = n
    BY <2>1 DEF BookRecords
  <2>3. Page(b) = [c EXCEPT !.answer = answer]
    BY <1>2, Zenon DEF n
  <2> HIDE DEF c
  <2> QED BY <1>4, <2>2, <2>3 DEF BookRecords, n
<1> QED BY <1>3, <1>4, <1>5 DEF BookOK

LEMMA BookStep == BookInv /\ [PassageNext]_passageVars => BookInv'
<1> SUFFICES ASSUME BookInv, [PassageNext]_passageVars PROVE BookInv'
  OBVIOUS
<1>1. CASE UNCHANGED book
  BY <1>1 DEF BookInv, BookOK, Admits
<1>2. ASSUME NEW listing \in DOMAIN MaxLimit, NEW total \in Int,
             NEW limit \in {Unasked, 0, 1, 2} \cup {MaxLimit[listing] + d : d \in {-1, 0, 1}},
             total \in Totals(listing, limit),
             Open(listing, limit, total)
      PROVE  BookInv'
  <2> DEFINE b == [listing |-> listing, limit |-> limit, total |-> total, got |-> 0,
                   answer |-> "invalid"]
  <2>1. listing \in Listings /\ limit \in Int \cup {Unasked}
    BY DEF MaxLimit, Listings
  <2>2. b \in BookRecords /\ b.listing = listing /\ b.limit = limit /\ b.total = total /\ b.got = 0
        /\ b.answer = "invalid"
    BY <2>1 DEF BookRecords
  <2>3. book' = IF Admits(listing, limit) THEN Page(b) ELSE b
    BY <1>2, Zenon DEF Open
  <2> HIDE DEF b
  <2>4. CASE ~Admits(listing, limit)
    BY <2>1, <2>2, <2>3, <2>4 DEF BookInv, BookOK
  <2>5. CASE Admits(listing, limit)
    <3>1. RowLimit(listing, limit) \in Nat \ {0}
      <4>1. RowLimit(listing, limit) \in 1..MaxRows[listing] /\ MaxRows[listing] \in Nat
        BY <2>1, <2>5, LimitFits DEF MaxRows, Listings
      <4> QED BY <4>1
    <3>2. total \in Nat
      BY <1>2, <3>1 DEF Totals
    <3>3. Page(b) \in BookRecords /\ BookOK(Page(b))
      BY <2>2, <2>5, <3>2, PageMoves DEF BookRecords
    <3> QED BY <2>3, <2>5, <3>3 DEF BookInv
  <2> QED BY <2>4, <2>5
<1>3. CASE Turn
  <2>1. book # Unasked /\ book.answer = "more" /\ book' = Page(book)
    BY <1>3 DEF Turn
  <2>2. Page(book) \in BookRecords /\ BookOK(Page(book))
    BY <2>1, PageMoves DEF BookInv, BookOK, BookRecords
  <2> QED BY <2>1, <2>2 DEF BookInv
<1>4. CASE Pages
  <2>1. ASSUME NEW listing \in DOMAIN MaxLimit,
               NEW limit \in {Unasked, 0, 1, 2} \cup {MaxLimit[listing] + d : d \in {-1, 0, 1}},
               NEW total \in Totals(listing, limit), Open(listing, limit, total)
        PROVE  BookInv'
    <3>1. RowLimit(listing, limit) \in Int
      BY DEF RowLimit, MaxLimit, DefaultLimit
    <3>2. total \in Int
      BY <3>1 DEF Totals
    <3> QED BY <1>2, <2>1, <3>2
  <2> QED BY <1>3, <1>4, <2>1 DEF Pages
<1>5. PassageNext => Pages \/ UNCHANGED book
  BY DEF PassageNext, Send, HandleExport, Views, Ask
<1> QED BY <1>1, <1>4, <1>5 DEF passageVars

LEMMA PassageMoves == [Next]_vars => [PassageNext]_passageVars
  BY DEF Next, vars, OnClients, OnServers, OnPublishing, OnDesktop, OnPassage, passageVars

(* Pages of every length: no page that a validator admits is refused by the *)
(* client that asked for it, and one that follows the cursors to the end    *)
(* has seen every row (spans.ts, logs.ts, metrics.ts, validation.ts,        *)
(* resultValidation.ts).                                                    *)
THEOREM PagesWholeCorrect == Spec => []PagesWhole
<1>1. Init => BookInv
  BY DEF Init, PassageInit, BookInv
<1>2. BookInv /\ [Next]_vars => BookInv'
  BY BookStep, PassageMoves
<1>3. BookInv => PagesWhole
  BY DEF BookInv, BookOK, PagesWhole
<1> QED BY <1>1, <1>2, <1>3, PTL DEF Spec

-----------------------------------------------------------------------------
(* Telemetry on its way.  A record has the same fields in all its forms.    *)

Fields == {"id", "name", "service", "time", "other", "code", "value", "amount"}
IsForm(r) == r = [f \in Fields |-> r[f]]

\* What an exporter sends: a span or a log has no amount of its own.
Genuine(kind, r) ==
    IsForm(r) /\ r.id # "nothing" /\ (kind \in {"span", "log"} => r.amount = "exact")

LEMMA PlainForm == IsForm(Plain) /\ Plain.id = "hex" /\ Plain.amount = "exact"
  BY DEF IsForm, Fields, Plain

LEMMA RecordsGenuine ==
    ASSUME NEW s \in Signals, NEW r \in Records(s)
    PROVE  Genuine(s, r)
<1>1. IsForm(Plain) /\ Plain.id = "hex" /\ Plain.amount = "exact"
  BY PlainForm
<1>2. ASSUME NEW f \in Has(s), NEW c \in Classes[f], r = [Plain EXCEPT ![f] = c]
      PROVE  Genuine(s, r)
  <2>1. f \in Fields /\ (s \in {"span", "log"} => f # "amount")
    BY DEF Has, Plain, Fields
  <2>2. f = "id" => c # "nothing"
    BY DEF Classes
  <2> QED BY <1>1, <1>2, <2>1, <2>2 DEF IsForm, Genuine, Fields
<1>3. ASSUME NEW w \in Times \X Times, r = [Plain EXCEPT !.time = w[1], !.other = w[2]]
      PROVE  Genuine(s, r)
  BY <1>1, <1>3 DEF IsForm, Genuine, Fields
<1>4. CASE r \in UNION {{[Plain EXCEPT ![f] = c] : c \in Classes[f]} : f \in Has(s)}
  <2> PICK f \in Has(s) : r \in {[Plain EXCEPT ![f] = c] : c \in Classes[f]}
    BY <1>4
  <2> QED BY <1>2
<1>5. CASE r \in {[Plain EXCEPT !.time = w[1], !.other = w[2]] : w \in Times \X Times}
  BY <1>3, <1>5
<1> QED BY <1>4, <1>5 DEF Records

LEMMA ShipmentsGenuine ==
    ASSUME NEW s \in Signals, NEW b \in Shipments(s)
    PROVE  \A i \in DOMAIN b : Genuine(s, b[i])
<1>1. Genuine(s, Plain)
  BY PlainForm DEF Genuine
<1>2. \A r \in Records(s) : Genuine(s, r)
  BY RecordsGenuine
<1>3. ASSUME NEW r \in Records(s), b = <<r>> PROVE \A i \in DOMAIN b : b[i] = r
  BY <1>3
<1>4. ASSUME NEW r \in Records(s), b = <<Plain, r>> PROVE \A i \in DOMAIN b : b[i] \in {Plain, r}
  BY <1>4
<1> QED BY <1>1, <1>2, <1>3, <1>4 DEF Shipments

\* What the receiver is handed, field by field.
LEMMA JsonFields ==
    ASSUME NEW r, IsForm(r)
    PROVE  /\ IsForm(JsonForm(r))
           /\ \A f \in Fields \ {"value", "amount"} : JsonForm(r)[f] = r[f]
           /\ JsonForm(r).value = IF r.value = "nonfinite" THEN "quoted" ELSE r.value
           /\ JsonForm(r).amount = IF r.amount \in {"nan", "infinite"} THEN "quoted" ELSE r.amount
  BY DEF JsonForm, IsForm, Fields

LEMMA ReadFields ==
    ASSUME NEW s \in Signals, s # "summary", NEW r, IsForm(r)
    PROVE  LET y == Incoming("protobuf", s, r)
           IN  /\ IsForm(y)
               /\ \A f \in {"name", "service", "code", "amount"} : y[f] = r[f]
               /\ y.id = IF s \in {"span", "log"} THEN ReadId(r.id) ELSE r.id
               /\ y.time = ReadTime(r.time) /\ y.other = ReadTime(r.other)
               /\ y.value = ReadAnyValue(r.value)
<1> USE DEF IsForm, Fields, Incoming, Signals
<1>1. CASE s = "span"
  BY <1>1 DEF ReadSpan
<1>2. CASE s = "log"
  BY <1>2 DEF ReadLogRecord
<1>3. CASE s = "number"
  BY <1>3 DEF ReadMetric, ReadPoint
<1>4. CASE s = "histogram"
  BY <1>4 DEF ReadMetric, ReadHistogramPoint
<1> QED BY <1>1, <1>2, <1>3, <1>4

\* What the decoders make of a record that they do not drop.
Dropped(s, r) ==
    CASE s = "span" -> "absent" \in {r.id, r.time, r.other}
      [] s = "log" -> {r.time, r.other} \subseteq {"zero", "absent"}
      [] OTHER -> s = "summary" \/ r.name = "absent"

DecodedTime(s, r) ==
    CASE s = "span" -> r.time
      [] s = "log" -> IF r.time \in {"zero", "absent"} THEN r.other ELSE r.time
      [] OTHER -> PointTime(r)

DecodedAmount(s, c) ==
    CASE s \in {"span", "log"} -> c
      [] s = "number" /\ c = "beyond" -> "rounded"
      [] s # "span" /\ s # "log" /\ c \in {"quoted", "absent"} -> "none"
      [] OTHER -> c

LEMMA DecodeFields ==
    ASSUME NEW s \in Signals, NEW r, IsForm(r), r.id # "nothing"
    PROVE  LET k == Decode(s, r)
           IN  /\ Dropped(s, r) => k = Nothing
               /\ ~Dropped(s, r) =>
                    /\ IsForm(k) /\ k # Nothing
                    /\ \A f \in {"id", "name", "service", "other", "code"} : k[f] = r[f]
                    /\ k.time = DecodedTime(s, r)
                    /\ k.value = DecodeAnyValue(r.value)
                    /\ k.amount = DecodedAmount(s, r.amount)
<1> USE DEF IsForm, Fields, Decode, Signals, Dropped, DecodedTime, DecodedAmount
<1>0. Nothing.id = "nothing"
  BY DEF Nothing, Plain
<1>1. CASE s = "span"
  BY <1>0, <1>1 DEF DecodeSpan
<1>2. CASE s = "log"
  BY <1>0, <1>2 DEF DecodeLogRecord
<1>3. CASE s = "number"
  BY <1>0, <1>3 DEF DecodeMetric, DecodePoint
<1>4. CASE s = "histogram"
  BY <1>0, <1>4 DEF DecodeMetric, DecodeHistogramPoint
<1>5. CASE s = "summary"
  BY <1>5 DEF DecodeMetric
<1> QED BY <1>1, <1>2, <1>3, <1>4, <1>5

LEMMA KeptFields ==
    ASSUME NEW k, IsForm(k)
    PROVE  /\ IsForm(Kept(k))
           /\ \A f \in Fields \ {"value", "amount"} : Kept(k)[f] = k[f]
           /\ Kept(k).value = KeptValue(k.value) /\ Kept(k).amount = KeptAmount(k.amount)
  BY DEF Kept, IsForm, Fields

\* Both encodings of a record that both can express come to the same.
LEMMA EncodingsMeet ==
    ASSUME NEW s \in Signals, NEW r, Genuine(s, r), Portable(s, r)
    PROVE  LET x == Incoming("json", s, r)
               y == Incoming("protobuf", s, r)
           IN  /\ Unreadable(s, x) <=> Unreadable(s, y)
               /\ Decode(s, x) = Nothing <=> Decode(s, y) = Nothing
               /\ Kept(Decode(s, x)) = Kept(Decode(s, y))
               /\ Unwritable(Decode(s, x)) <=> Unwritable(Decode(s, y))
<1> DEFINE x == Incoming("json", s, r)
           y == Incoming("protobuf", s, r)
           j == Decode(s, x)
           k == Decode(s, y)
<1>1. x = JsonForm(r)
  BY DEF Incoming
<1>2. /\ IsForm(x) /\ \A f \in Fields \ {"value", "amount"} : x[f] = r[f]
      /\ x.value = IF r.value = "nonfinite" THEN "quoted" ELSE r.value
      /\ x.amount = IF r.amount \in {"nan", "infinite"} THEN "quoted" ELSE r.amount
  BY <1>1, JsonFields DEF Genuine
<1>3. CASE s = "summary"
  <2>1. j = Nothing /\ k = Nothing
    BY <1>3 DEF Decode, DecodeMetric
  <2> QED BY <1>3, <2>1 DEF Unreadable
<1>4. CASE s # "summary"
  <2>1. /\ IsForm(y) /\ \A f \in {"name", "service", "code", "amount"} : y[f] = r[f]
        /\ y.id = IF s \in {"span", "log"} THEN ReadId(r.id) ELSE r.id
        /\ y.time = ReadTime(r.time) /\ y.other = ReadTime(r.other)
        /\ y.value = ReadAnyValue(r.value)
    BY <1>4, ReadFields DEF Genuine
  <2> HIDE DEF x, y
  <2>2. \A f \in {"id", "name", "service", "other", "code"} : x[f] = y[f]
    BY <1>2, <2>1 DEF Portable, ReadId, ReadTime, Fields
  <2>3. s = "span" => x.time = y.time
    BY <1>2, <2>1 DEF Portable, ReadTime, Fields
  <2>4. r.id # "nothing" /\ x.id = r.id /\ y.id = r.id
    BY <1>2, <2>1, <2>2 DEF Genuine, Fields
  <2>5. Dropped(s, x) <=> Dropped(s, y)
    <3>1. x.time \in {"zero", "absent"} <=> y.time \in {"zero", "absent"}
      BY <1>2, <2>1 DEF ReadTime, Fields
    <3> QED BY <1>4, <2>2, <2>3, <3>1 DEF Dropped, Signals
  <2>6. DecodedTime(s, x) = DecodedTime(s, y)
    BY <1>2, <1>4, <2>1, <2>2, <2>3 DEF DecodedTime, PointTime, ReadTime, Signals, Fields
  <2>7. DecodeAnyValue(x.value) = DecodeAnyValue(y.value)
    BY <1>2, <2>1 DEF Portable, ReadAnyValue, DecodeAnyValue
  <2>8. KeptAmount(DecodedAmount(s, x.amount)) = KeptAmount(DecodedAmount(s, y.amount))
    BY <1>2, <1>4, <2>1 DEF Genuine, Portable, DecodedAmount, KeptAmount, Signals
  <2>9. Unreadable(s, x) <=> Unreadable(s, y)
    BY <1>2, <2>1 DEF Unreadable, ReadAnyValue
  <2>10. CASE Dropped(s, x)
    <3>1. j = Nothing /\ k = Nothing
      BY <1>2, <2>1, <2>4, <2>5, <2>10, DecodeFields
    <3> QED BY <2>9, <3>1 DEF x, y
  <2>11. CASE ~Dropped(s, x)
    <3>1. /\ IsForm(j) /\ j # Nothing
          /\ \A f \in {"id", "name", "service", "other", "code"} : j[f] = x[f]
          /\ j.time = DecodedTime(s, x) /\ j.value = DecodeAnyValue(x.value)
          /\ j.amount = DecodedAmount(s, x.amount)
      BY <1>2, <2>4, <2>11, DecodeFields
    <3>2. /\ IsForm(k) /\ k # Nothing
          /\ \A f \in {"id", "name", "service", "other", "code"} : k[f] = y[f]
          /\ k.time = DecodedTime(s, y) /\ k.value = DecodeAnyValue(y.value)
          /\ k.amount = DecodedAmount(s, y.amount)
      BY <2>1, <2>4, <2>5, <2>11, DecodeFields
    <3> HIDE DEF j, k
    <3>3. Kept(j) = Kept(k)
      <4>1. /\ IsForm(Kept(j)) /\ IsForm(Kept(k))
            /\ \A f \in Fields \ {"value", "amount"} : Kept(j)[f] = j[f] /\ Kept(k)[f] = k[f]
            /\ Kept(j).value = KeptValue(j.value) /\ Kept(j).amount = KeptAmount(j.amount)
            /\ Kept(k).value = KeptValue(k.value) /\ Kept(k).amount = KeptAmount(k.amount)
        BY <3>1, <3>2, KeptFields
      <4>2. \A f \in Fields : Kept(j)[f] = Kept(k)[f]
        <5>1. Kept(j).value = Kept(k).value /\ Kept(j).amount = Kept(k).amount
          BY <2>7, <2>8, <3>1, <3>2, <4>1
        <5>2. \A f \in {"id", "name", "service", "other", "code", "time"} : j[f] = k[f]
          BY <2>2, <2>6, <3>1, <3>2
        <5> QED BY <4>1, <5>1, <5>2 DEF Fields
      <4> QED BY <4>1, <4>2 DEF IsForm
    <3>4. Unwritable(j) <=> Unwritable(k)
      BY <2>2, <2>6, <3>1, <3>2 DEF Unwritable
    <3> QED BY <2>9, <3>1, <3>2, <3>3, <3>4 DEF x, y, j, k
  <2> QED BY <2>10, <2>11
<1> QED BY <1>3, <1>4

\* A record that conforms is kept as it is, but for its time.
LEMMA ConformingKept ==
    ASSUME NEW e \in Encodings, NEW s \in Signals, NEW r, Genuine(s, r), Conforming(s, r)
    PROVE  LET k == Decode(s, Incoming(e, s, r))
           IN  k # Nothing /\ Kept(k) \in {r, [r EXCEPT !.time = "set"]}
<1> DEFINE x == Incoming(e, s, r)
           k == Decode(s, x)
<1>1. /\ IsForm(x) /\ \A f \in Fields \ {"time", "other"} : x[f] = r[f]
      /\ x.time \in {r.time, ReadTime(r.time)} /\ x.other \in {r.other, ReadTime(r.other)}
  <2>1. CASE e = "json"
    <3>1. x = JsonForm(r)
      BY <2>1 DEF Incoming
    <3>2. /\ IsForm(x) /\ \A f \in Fields \ {"value", "amount"} : x[f] = r[f]
          /\ x.value = IF r.value = "nonfinite" THEN "quoted" ELSE r.value
          /\ x.amount = IF r.amount \in {"nan", "infinite"} THEN "quoted" ELSE r.amount
      BY <3>1, JsonFields DEF Genuine
    <3>3. x.value = r.value /\ x.amount = r.amount
      BY <3>2 DEF Conforming
    <3> HIDE DEF x
    <3> QED BY <3>2, <3>3 DEF Fields
  <2>2. CASE e = "protobuf"
    <3>1. /\ IsForm(x) /\ \A f \in {"name", "service", "code", "amount"} : x[f] = r[f]
          /\ x.id = IF s \in {"span", "log"} THEN ReadId(r.id) ELSE r.id
          /\ x.time = ReadTime(r.time) /\ x.other = ReadTime(r.other)
          /\ x.value = ReadAnyValue(r.value)
      BY <2>2, ReadFields DEF Genuine, Conforming
    <3>2. x.id = r.id /\ x.value = r.value
      BY <3>1 DEF Conforming, ReadId, ReadAnyValue
    <3> HIDE DEF x
    <3> QED BY <3>1, <3>2 DEF Fields
  <2> QED BY <2>1, <2>2 DEF Encodings
<1> HIDE DEF x
<1>2. x.id # "nothing" /\ s # "summary"
  BY <1>1 DEF Genuine, Conforming, Fields
<1>3. x.other = r.other
  <2>1. r.other # "zero"
    BY DEF Conforming
  <2> QED BY <1>1, <2>1 DEF ReadTime
<1>4. /\ ~Dropped(s, x) /\ DecodedTime(s, x) \in {r.time, "set"}
  <2>1. CASE s = "span"
    BY <1>1, <1>3, <2>1 DEF Conforming, Dropped, DecodedTime, ReadTime, Fields
  <2>2. CASE s = "log"
    BY <1>1, <1>3, <2>2 DEF Conforming, Dropped, DecodedTime, ReadTime, Fields
  <2>3. CASE s \in Metrics
    BY <1>1, <1>3, <2>3 DEF Conforming, Dropped, DecodedTime, PointTime, ReadTime, Fields, Metrics
  <2> QED BY <1>2, <2>1, <2>2, <2>3 DEF Signals, Metrics
<1>5. DecodeAnyValue(x.value) = r.value /\ DecodedAmount(s, x.amount) = r.amount
      /\ KeptValue(r.value) = r.value /\ KeptAmount(r.amount) = r.amount
  BY <1>1, <1>2 DEF Conforming, DecodeAnyValue, DecodedAmount, KeptValue, KeptAmount, Signals, Fields
<1>6. /\ IsForm(k) /\ k # Nothing
      /\ \A f \in {"id", "name", "service", "other", "code"} : k[f] = x[f]
      /\ k.time = DecodedTime(s, x) /\ k.value = DecodeAnyValue(x.value)
      /\ k.amount = DecodedAmount(s, x.amount)
  BY <1>1, <1>2, <1>4, DecodeFields
<1> HIDE DEF k
<1>7. IsForm(Kept(k)) /\ \A f \in Fields \ {"time"} : Kept(k)[f] = r[f]
  <2>1. /\ IsForm(Kept(k)) /\ \A f \in Fields \ {"value", "amount"} : Kept(k)[f] = k[f]
        /\ Kept(k).value = KeptValue(k.value) /\ Kept(k).amount = KeptAmount(k.amount)
    BY <1>6, KeptFields
  <2>2. Kept(k).value = r.value /\ Kept(k).amount = r.amount
    BY <1>5, <1>6, <2>1
  <2> QED BY <1>1, <1>3, <1>6, <2>1, <2>2 DEF Fields
<1>8. Kept(k).time \in {r.time, "set"}
  BY <1>4, <1>6, KeptFields DEF Fields
<1>9. Kept(k) \in {r, [r EXCEPT !.time = "set"]}
  BY <1>7, <1>8 DEF IsForm, Genuine, Fields
<1> QED BY <1>6, <1>9 DEF x, k

\* No view of a record that conforms, and was kept as it is, is refused.
LEMMA ConformingShown ==
    ASSUME NEW s \in Signals, NEW r, Genuine(s, r), Conforming(s, r),
           NEW row, row.signal = s, row.kept \in {r, [r EXCEPT !.time = "set"]},
           NEW kind \in {"list", "facets", "details"}
    PROVE  /\ Encodable(Outgoing(row))
           /\ Takes(kind, s, IF kind = "facets" THEN row.kept ELSE Outgoing(row))
<1> DEFINE k == row.kept
           o == Outgoing(row)
<1>1. IsForm(k) /\ \A f \in Fields \ {"time"} : k[f] = r[f]
  BY DEF Genuine, IsForm, Fields
<1> HIDE DEF k
<1>2. /\ \A f \in Fields \ {"name", "service"} : o[f] = k[f]
      /\ s \notin Metrics => o = k
      /\ s \in Metrics => /\ o.name = IF k.name \in {"wide", "long"} THEN "cut" ELSE k.name
                          /\ o.service = IF k.service \in {"wide", "long"} THEN "cut" ELSE k.service
  <2>1. o = IF s \in Metrics THEN Bound(k) ELSE k
    BY DEF Outgoing, k
  <2> HIDE DEF o
  <2> QED BY <1>1, <2>1 DEF Bound, IsForm, Fields
<1> HIDE DEF o
<1>3. o.amount = "exact" /\ o.code = "known" /\ o.id = r.id /\ o.value = r.value
      /\ k.service = r.service
  BY <1>1, <1>2 DEF Conforming, Fields
<1>4. o.name \in {"short", "absent", "wide"} /\ o.service \in {"absent", "short"}
  BY <1>1, <1>2 DEF Conforming, Fields
<1>5. Takes(kind, s, IF kind = "facets" THEN k ELSE o)
  <2>1. r.id = "hex" \/ (s = "log" /\ r.id = "absent")
    BY DEF Conforming
  <2>2. r.value # "null" /\ r.service \in {"absent", "short"}
    BY DEF Conforming
  <2> QED BY <1>3, <1>4, <2>1, <2>2
         DEF Takes, TakesFacet, TakesTraceRow, TakesSpan, TakesLogRow, TakesLog, TakesInstrument,
             TakesPoints, IsText, IsId, IsCount, IsAttribute
<1>6. Encodable(o)
  BY <1>3 DEF Encodable
<1> QED BY <1>5, <1>6 DEF k, o

\* What an answered export was handed, and made of, and left behind.
IncomingOf(x) == [i \in DOMAIN x.batch |-> Incoming(x.encoding, x.signal, x.batch[i])]
DecodedOf(x) == [i \in DOMAIN x.batch |-> Decode(x.signal, IncomingOf(x)[i])]
RowsOf(n, x) == IF x.answer = "invalid" THEN {} ELSE Write(n, x.signal, x.batch, DecodedOf(x))

Sendings == [encoding : Encodings, signal : Signals, batch : UNION {Shipments(s) : s \in Signals},
             answer : {"invalid", "failed", "accepted"}]

\* Every answered export is of one batch, was answered as it had to be, and
\* its rows are what that answer means.  A view is of stored rows.
SentInv ==
    /\ sent \in Seq(Sendings)
    /\ \A n \in DOMAIN sent :
         /\ sent[n].batch \in Shipments(sent[n].signal)
         /\ sent[n].answer = ExportAnswer(IncomingOf(sent[n]), sent[n].signal, DecodedOf(sent[n]))
         /\ {t \in tables : t.export = n} = RowsOf(n, sent[n])
    /\ \A m, n \in DOMAIN sent :
         sent[m].signal = sent[n].signal /\ sent[m].batch = sent[n].batch
    /\ \A t \in tables : t.export \in DOMAIN sent

ViewInv ==
    view # Unasked =>
      /\ view.rows \subseteq tables
      /\ (\A t \in view.rows : Conforming(t.signal, t.of)) => view.answer = "shown"

LEMMA RowFields ==
    ASSUME NEW n \in Nat, NEW x \in Sendings, NEW t
    PROVE  t \in RowsOf(n, x) <=>
             /\ x.answer # "invalid"
             /\ \A i \in DOMAIN x.batch : ~Unwritable(DecodedOf(x)[i])
             /\ \E i \in DOMAIN x.batch :
                  /\ DecodedOf(x)[i] # Nothing
                  /\ t = StoredRow(n, i, x.signal, x.batch[i], DecodedOf(x)[i])
<1> DEFINE d == DecodedOf(x)
<1>1. DOMAIN d = DOMAIN x.batch
  BY DEF DecodedOf
<1> HIDE DEF d
<1>2. RowsOf(n, x) = IF x.answer = "invalid" THEN {} ELSE Write(n, x.signal, x.batch, d)
  BY DEF RowsOf, d
<1>3. Write(n, x.signal, x.batch, d) =
        IF \E i \in DOMAIN x.batch : Unwritable(d[i]) THEN {}
        ELSE {StoredRow(n, i, x.signal, x.batch[i], d[i]) : i \in {j \in DOMAIN x.batch : d[j] # Nothing}}
  BY <1>1 DEF Write
<1> QED BY <1>2, <1>3 DEF d

LEMMA RowExport ==
    ASSUME NEW n \in Nat, NEW x \in Sendings, NEW t \in RowsOf(n, x)
    PROVE  t.export = n
<1> PICK i \in DOMAIN x.batch : t = StoredRow(n, i, x.signal, x.batch[i], DecodedOf(x)[i])
  BY RowFields
<1> QED BY DEF StoredRow

\* Another export.
LEMMA ExportMoves ==
    ASSUME SentInv, view = Unasked, NEW e \in Encodings, NEW s \in Signals, NEW b \in Shipments(s),
           Send(e, s, b)
    PROVE  SentInv' /\ view' = Unasked
<1> DEFINE incoming == [i \in DOMAIN b |-> Incoming(e, s, b[i])]
           decoded == [i \in DOMAIN b |-> Decode(s, incoming[i])]
           answer == ExportAnswer(incoming, s, decoded)
           x == [encoding |-> e, signal |-> s, batch |-> b, answer |-> answer]
           n == Len(sent) + 1
<1>1. answer \in {"invalid", "failed", "accepted"}
  BY DEF ExportAnswer
<1>2. x \in Sendings /\ x.signal = s /\ x.batch = b /\ x.encoding = e /\ x.answer = answer
  <2> HIDE DEF answer
  <2>1. b \in UNION {Shipments(z) : z \in Signals}
    OBVIOUS
  <2> QED BY <1>1, <2>1 DEF Sendings
<1>3. IncomingOf(x) = incoming /\ DecodedOf(x) = decoded
  <2>1. IncomingOf(x) = incoming
    BY <1>2 DEF IncomingOf
  <2>2. DecodedOf(x) = [i \in DOMAIN b |-> Decode(s, IncomingOf(x)[i])]
    BY <1>2 DEF DecodedOf
  <2> HIDE DEF x, incoming
  <2> QED BY <2>1, <2>2
<1>4. /\ sent' = Append(sent, x) /\ UNCHANGED view
      /\ tables' = tables \cup IF answer = "invalid" THEN {} ELSE Write(n, s, b, decoded)
      /\ \A i \in DOMAIN sent : s = sent[i].signal /\ b = sent[i].batch
  BY Zenon DEF Send, HandleExport
<1>5. tables' = tables \cup RowsOf(n, x)
  <2> HIDE DEF x, answer, decoded, n
  <2> QED BY <1>2, <1>3, <1>4 DEF RowsOf
<1>6. x.answer = ExportAnswer(IncomingOf(x), s, DecodedOf(x))
  BY <1>2, <1>3 DEF answer
<1> HIDE DEF x, answer, decoded, incoming
<1>7. /\ sent' \in Seq(Sendings) /\ n \in Nat
      /\ DOMAIN sent = 1..Len(sent) /\ DOMAIN sent' = DOMAIN sent \cup {n} /\ n \notin DOMAIN sent
      /\ sent'[n] = x /\ \A i \in DOMAIN sent : sent'[i] = sent[i]
  <2>1. /\ Append(sent, x) \in Seq(Sendings) /\ Len(Append(sent, x)) = n
        /\ Append(sent, x)[n] = x /\ \A i \in 1..Len(sent) : Append(sent, x)[i] = sent[i]
    BY <1>2, AppendProperties DEF SentInv
  <2>2. /\ DOMAIN sent = 1..Len(sent) /\ Len(sent) \in Nat
        /\ DOMAIN Append(sent, x) = 1..Len(Append(sent, x))
    BY <2>1, LenProperties DEF SentInv
  <2>3. 1..n = 1..Len(sent) \cup {n} /\ n \notin 1..Len(sent) /\ n \in Nat
    BY <2>2
  <2> HIDE DEF n
  <2> QED BY <1>4, <2>1, <2>2, <2>3
<1>8. \A m \in Nat : \A t \in RowsOf(m, x) : t.export = m
  BY <1>2, RowExport
<1> HIDE DEF n
<1>9. ASSUME NEW m \in DOMAIN sent'
      PROVE  /\ sent'[m].batch \in Shipments(sent'[m].signal)
             /\ sent'[m].answer = ExportAnswer(IncomingOf(sent'[m]), sent'[m].signal, DecodedOf(sent'[m]))
             /\ {t \in tables' : t.export = m} = RowsOf(m, sent'[m])
             /\ sent'[m].signal = s /\ sent'[m].batch = b
  <2>1. CASE m = n
    <3>1. {t \in tables : t.export = n} = {}
      BY <1>7 DEF SentInv
    <3>2. {t \in tables' : t.export = n} = RowsOf(n, x)
      BY <1>5, <1>7, <1>8, <3>1
    <3> QED BY <1>2, <1>6, <1>7, <2>1, <3>2
  <2>2. CASE m \in DOMAIN sent
    <3>1. {t \in tables : t.export = m} = RowsOf(m, sent[m])
      BY <2>2 DEF SentInv
    <3>2. {t \in tables' : t.export = m} = {t \in tables : t.export = m}
      BY <1>5, <1>7, <1>8, <2>2
    <3> QED BY <1>4, <1>7, <2>2, <3>1, <3>2 DEF SentInv
  <2> QED BY <1>7, <2>1, <2>2
<1>10. \A t \in tables' : t.export \in DOMAIN sent'
  BY <1>5, <1>7, <1>8 DEF SentInv
<1> QED BY <1>4, <1>7, <1>9, <1>10 DEF SentInv

\* A stored row of a record that conforms keeps it as it is.
LEMMA RowKept ==
    ASSUME SentInv, NEW t \in tables
    PROVE  /\ t.signal \in Signals /\ Genuine(t.signal, t.of)
           /\ Conforming(t.signal, t.of) => t.kept \in {t.of, [t.of EXCEPT !.time = "set"]}
<1> DEFINE n == t.export
           x == sent[n]
<1>1. /\ n \in DOMAIN sent /\ n \in Nat /\ x \in Sendings /\ x.batch \in Shipments(x.signal)
      /\ t \in RowsOf(n, x)
  <2>1. n \in DOMAIN sent /\ t \in {u \in tables : u.export = n}
    BY DEF SentInv
  <2>2. DOMAIN sent = 1..Len(sent) /\ Len(sent) \in Nat /\ \A i \in 1..Len(sent) : sent[i] \in Sendings
    BY LenProperties, ElementOfSeq DEF SentInv
  <2> HIDE DEF n
  <2>3. x.batch \in Shipments(x.signal) /\ {u \in tables : u.export = n} = RowsOf(n, x)
    BY <2>1 DEF SentInv
  <2> QED BY <2>1, <2>2, <2>3
<1> HIDE DEF x, n
<1> PICK i \in DOMAIN x.batch :
      DecodedOf(x)[i] # Nothing /\ t = StoredRow(n, i, x.signal, x.batch[i], DecodedOf(x)[i])
  BY <1>1, RowFields
<1>2. t.signal = x.signal /\ t.of = x.batch[i] /\ t.kept = Kept(DecodedOf(x)[i])
  BY DEF StoredRow
<1>3. x.signal \in Signals /\ x.encoding \in Encodings
  BY <1>1 DEF Sendings
<1>4. Genuine(x.signal, x.batch[i])
  BY <1>1, <1>3, ShipmentsGenuine
<1>5. DecodedOf(x)[i] = Decode(x.signal, Incoming(x.encoding, x.signal, x.batch[i]))
  BY DEF DecodedOf, IncomingOf
<1>6. Conforming(x.signal, x.batch[i]) =>
        Kept(DecodedOf(x)[i]) \in {x.batch[i], [x.batch[i] EXCEPT !.time = "set"]}
  BY <1>3, <1>4, <1>5, ConformingKept
<1> QED BY <1>2, <1>3, <1>4, <1>6

LEMMA ViewMoves ==
    ASSUME SentInv, NEW kind \in {"list", "facets", "details"}, NEW rows \in SUBSET tables,
           Ask(kind, rows)
    PROVE  ViewInv'
<1> DEFINE refuses(r) == ~Takes(kind, r.signal, IF kind = "facets" THEN r.kept ELSE Outgoing(r))
           answer == IF kind # "facets" /\ \E r \in rows : ~Encodable(Outgoing(r)) THEN "failed"
                     ELSE IF \E r \in rows : refuses(r) THEN "refused" ELSE "shown"
<1>1. UNCHANGED tables /\ view' = [kind |-> kind, rows |-> rows, answer |-> answer]
  BY Zenon DEF Ask
<1>2. ASSUME \A t \in rows : Conforming(t.signal, t.of) PROVE answer = "shown"
  <2>1. ASSUME NEW r \in rows PROVE Encodable(Outgoing(r)) /\ ~refuses(r)
    <3>1. r \in tables /\ Conforming(r.signal, r.of)
      BY <1>2
    <3>2. r.signal \in Signals /\ Genuine(r.signal, r.of)
          /\ r.kept \in {r.of, [r.of EXCEPT !.time = "set"]}
      BY <3>1, RowKept
    <3> QED BY <3>1, <3>2, ConformingShown
  <2> HIDE DEF refuses
  <2> QED BY <2>1
<1> HIDE DEF answer
<1>3. view'.rows = rows /\ view'.answer = answer
  BY <1>1
<1> QED BY <1>1, <1>2, <1>3 DEF ViewInv

LEMMA SentStep == SentInv /\ ViewInv /\ [PassageNext]_passageVars => SentInv' /\ ViewInv'
<1> SUFFICES ASSUME SentInv, ViewInv, [PassageNext]_passageVars PROVE SentInv' /\ ViewInv'
  OBVIOUS
<1>1. CASE UNCHANGED <<sent, tables, view>>
  BY <1>1 DEF SentInv, ViewInv
<1>2. ASSUME NEW e \in Encodings, NEW s \in Signals, NEW b \in Shipments(s), Send(e, s, b)
      PROVE  SentInv' /\ ViewInv'
  <2>1. view = Unasked
    BY <1>2 DEF Send
  <2> QED BY <1>2, <2>1, ExportMoves DEF ViewInv
<1>3. ASSUME NEW kind \in {"list", "facets", "details"}, NEW rows \in SUBSET tables, Ask(kind, rows)
      PROVE  SentInv' /\ ViewInv'
  <2>1. UNCHANGED <<sent, tables>>
    BY <1>3 DEF Ask
  <2> QED BY <1>3, <2>1, ViewMoves DEF SentInv
<1>4. CASE Views
  BY <1>3, <1>4 DEF Views
<1>5. CASE Pages
  BY <1>1, <1>5 DEF Pages, Open, Turn
<1> QED BY <1>1, <1>2, <1>4, <1>5 DEF PassageNext, passageVars

LEMMA SentInvariant == Spec => [](SentInv /\ ViewInv)
<1>1. Init => SentInv /\ ViewInv
  <2>1. <<>> \in Seq(Sendings) /\ DOMAIN <<>> = {}
    BY EmptySeq
  <2> QED BY <2>1 DEF Init, PassageInit, SentInv, ViewInv
<1>2. (SentInv /\ ViewInv) /\ [Next]_vars => (SentInv /\ ViewInv)'
  BY SentStep, PassageMoves
<1> QED BY <1>1, <1>2, PTL DEF Spec

(* For any number of exports, in either encoding: a record that conforms    *)
(* arrives, an export that is refused or fails leaves nothing behind, and no *)
(* view of conforming records fails or is refused (otlp*.ts, the stores,     *)
(* resultValidation.ts).                                                     *)
THEOREM ArrivesCorrect == Spec => []Arrives
<1>1. ASSUME SentInv, NEW n \in DOMAIN sent
      PROVE  LET x == sent[n]
                 stored == {t \in tables : t.export = n}
             IN  IF x.answer # "accepted" THEN stored = {}
                 ELSE \A i \in DOMAIN x.batch : Conforming(x.signal, x.batch[i]) =>
                        \E t \in stored :
                          /\ t.place = i
                          /\ t.kept \in {x.batch[i], [x.batch[i] EXCEPT !.time = "set"]}
  <2> DEFINE x == sent[n]
             stored == {t \in tables : t.export = n}
  <2>1. /\ n \in Nat /\ x \in Sendings /\ x.batch \in Shipments(x.signal)
        /\ x.answer = ExportAnswer(IncomingOf(x), x.signal, DecodedOf(x))
        /\ stored = RowsOf(n, x)
    <3>1. DOMAIN sent = 1..Len(sent) /\ Len(sent) \in Nat /\ \A i \in 1..Len(sent) : sent[i] \in Sendings
      BY <1>1, LenProperties, ElementOfSeq DEF SentInv
    <3> QED BY <1>1, <3>1 DEF SentInv
  <2> HIDE DEF x, stored
  <2>2. x.signal \in Signals /\ x.encoding \in Encodings
    BY <2>1 DEF Sendings
  <2>3. DOMAIN DecodedOf(x) = DOMAIN x.batch
    BY DEF DecodedOf
  <2>4. CASE x.answer # "accepted"
    <3>1. x.answer = "invalid" \/ \E i \in DOMAIN x.batch : Unwritable(DecodedOf(x)[i])
      BY <2>1, <2>3, <2>4 DEF ExportAnswer
    <3>2. stored = {}
      BY <2>1, <3>1, RowFields
    <3> QED BY <2>4, <3>2 DEF x, stored
  <2>5. CASE x.answer = "accepted"
    <3>1. \A i \in DOMAIN x.batch : ~Unwritable(DecodedOf(x)[i])
      BY <2>1, <2>3, <2>5 DEF ExportAnswer
    <3>2. ASSUME NEW i \in DOMAIN x.batch, Conforming(x.signal, x.batch[i])
          PROVE  \E t \in stored : /\ t.place = i
                                   /\ t.kept \in {x.batch[i], [x.batch[i] EXCEPT !.time = "set"]}
      <4> DEFINE k == DecodedOf(x)[i]
                 t == StoredRow(n, i, x.signal, x.batch[i], k)
      <4>1. Genuine(x.signal, x.batch[i])
        BY <2>1, <2>2, ShipmentsGenuine
      <4>2. k = Decode(x.signal, Incoming(x.encoding, x.signal, x.batch[i]))
        BY DEF DecodedOf, IncomingOf
      <4>3. k # Nothing /\ Kept(k) \in {x.batch[i], [x.batch[i] EXCEPT !.time = "set"]}
        BY <2>2, <3>2, <4>1, <4>2, ConformingKept
      <4>4. t \in stored
        BY <2>1, <2>5, <3>1, <4>3, RowFields
      <4>5. t.place = i /\ t.kept = Kept(k)
        BY DEF StoredRow
      <4> HIDE DEF t, k
      <4> QED BY <4>3, <4>4, <4>5
    <3> QED BY <2>5, <3>2 DEF x, stored
  <2> QED BY <2>4, <2>5
<1>2. SentInv /\ ViewInv => Arrives
  BY <1>1 DEF ViewInv, Arrives
<1> QED BY <1>2, SentInvariant, PTL

\* Two exports of a batch that have come to the same.
Alike(a, b) ==
    /\ a.signal = b.signal /\ a.batch = b.batch /\ a.answer = b.answer
    /\ \A i \in DOMAIN a.batch :
         /\ DecodedOf(a)[i] = Nothing <=> DecodedOf(b)[i] = Nothing
         /\ Kept(DecodedOf(a)[i]) = Kept(DecodedOf(b)[i])
         /\ Unwritable(DecodedOf(a)[i]) <=> Unwritable(DecodedOf(b)[i])

\* What one of two exports of a batch has stored, the other has stored too.
LEMMA RowsAgree ==
    ASSUME NEW k \in Nat, NEW l \in Nat, NEW a \in Sendings, NEW b \in Sendings,
           Alike(a, b)
    PROVE  \A t \in RowsOf(k, a) : \E u \in RowsOf(l, b) : u.place = t.place /\ u.kept = t.kept
<1> USE DEF Alike
<1> TAKE t \in RowsOf(k, a)
<1>1. a.answer # "invalid" /\ \A i \in DOMAIN a.batch : ~Unwritable(DecodedOf(a)[i])
  BY RowFields
<1> PICK i \in DOMAIN a.batch :
      DecodedOf(a)[i] # Nothing /\ t = StoredRow(k, i, a.signal, a.batch[i], DecodedOf(a)[i])
  BY RowFields
<1> DEFINE u == StoredRow(l, i, b.signal, b.batch[i], DecodedOf(b)[i])
<1>2. u \in RowsOf(l, b)
  BY <1>1, RowFields
<1>3. u.place = i /\ u.kept = Kept(DecodedOf(b)[i]) /\ t.place = i /\ t.kept = Kept(DecodedOf(a)[i])
  BY DEF StoredRow
<1> HIDE DEF u
<1> QED BY <1>2, <1>3

(* A batch that both encodings can express, whatever is wrong with its      *)
(* records, is answered alike and stored alike (otlpProtobuf.ts:11-21).      *)
THEOREM EncodingsAgreeCorrect == Spec => []EncodingsAgree
<1> SUFFICES SentInv => EncodingsAgree
  BY SentInvariant, PTL
<1> SUFFICES ASSUME SentInv, NEW m \in DOMAIN sent, NEW n \in DOMAIN sent,
                    \A i \in DOMAIN sent[m].batch : Portable(sent[m].signal, sent[m].batch[i])
             PROVE  /\ sent[m].answer = sent[n].answer
                    /\ {<<t.place, t.kept>> : t \in {u \in tables : u.export = m}}
                         = {<<t.place, t.kept>> : t \in {u \in tables : u.export = n}}
  BY DEF EncodingsAgree
<1> DEFINE x == sent[m]
           y == sent[n]
<1>1. /\ m \in Nat /\ n \in Nat /\ x \in Sendings /\ y \in Sendings
      /\ x.signal = y.signal /\ x.batch = y.batch /\ x.batch \in Shipments(x.signal)
      /\ x.answer = ExportAnswer(IncomingOf(x), x.signal, DecodedOf(x))
      /\ y.answer = ExportAnswer(IncomingOf(y), y.signal, DecodedOf(y))
      /\ {u \in tables : u.export = m} = RowsOf(m, x)
      /\ {u \in tables : u.export = n} = RowsOf(n, y)
      /\ \A i \in DOMAIN x.batch : Portable(x.signal, x.batch[i])
  <2>1. DOMAIN sent = 1..Len(sent) /\ Len(sent) \in Nat /\ \A i \in 1..Len(sent) : sent[i] \in Sendings
    BY LenProperties, ElementOfSeq DEF SentInv
  <2> QED BY <2>1 DEF SentInv
<1> HIDE DEF x, y
<1>2. x.signal \in Signals /\ x.encoding \in Encodings /\ y.encoding \in Encodings
  BY <1>1 DEF Sendings
<1>3. ASSUME NEW i \in DOMAIN x.batch
      PROVE  /\ Unreadable(x.signal, IncomingOf(x)[i]) <=> Unreadable(x.signal, IncomingOf(y)[i])
             /\ DecodedOf(x)[i] = Nothing <=> DecodedOf(y)[i] = Nothing
             /\ Kept(DecodedOf(x)[i]) = Kept(DecodedOf(y)[i])
             /\ Unwritable(DecodedOf(x)[i]) <=> Unwritable(DecodedOf(y)[i])
  <2> DEFINE j == Incoming("json", x.signal, x.batch[i])
             p == Incoming("protobuf", x.signal, x.batch[i])
  <2>1. Genuine(x.signal, x.batch[i]) /\ Portable(x.signal, x.batch[i])
    BY <1>1, <1>2, ShipmentsGenuine
  <2>2. /\ Unreadable(x.signal, j) <=> Unreadable(x.signal, p)
        /\ Decode(x.signal, j) = Nothing <=> Decode(x.signal, p) = Nothing
        /\ Kept(Decode(x.signal, j)) = Kept(Decode(x.signal, p))
        /\ Unwritable(Decode(x.signal, j)) <=> Unwritable(Decode(x.signal, p))
    BY <1>2, <2>1, EncodingsMeet
  <2>3. /\ IncomingOf(x)[i] = Incoming(x.encoding, x.signal, x.batch[i])
        /\ IncomingOf(y)[i] = Incoming(y.encoding, x.signal, x.batch[i])
    BY <1>1 DEF IncomingOf
  <2>4. IncomingOf(x)[i] \in {j, p} /\ IncomingOf(y)[i] \in {j, p}
    BY <1>2, <2>3 DEF Encodings
  <2>5. /\ DecodedOf(x)[i] = Decode(x.signal, IncomingOf(x)[i])
        /\ DecodedOf(y)[i] = Decode(x.signal, IncomingOf(y)[i])
    BY <1>1 DEF DecodedOf
  <2> HIDE DEF j, p
  <2> QED BY <2>2, <2>4, <2>5
<1>4. x.answer = y.answer
  <2>1. /\ DOMAIN IncomingOf(x) = DOMAIN x.batch /\ DOMAIN IncomingOf(y) = DOMAIN x.batch
        /\ DOMAIN DecodedOf(x) = DOMAIN x.batch /\ DOMAIN DecodedOf(y) = DOMAIN x.batch
    BY <1>1 DEF IncomingOf, DecodedOf
  <2>2. (\E i \in DOMAIN x.batch : Unreadable(x.signal, IncomingOf(x)[i]))
          <=> \E i \in DOMAIN x.batch : Unreadable(x.signal, IncomingOf(y)[i])
    BY <1>3
  <2>3. (\E i \in DOMAIN x.batch : Unwritable(DecodedOf(x)[i]))
          <=> \E i \in DOMAIN x.batch : Unwritable(DecodedOf(y)[i])
    BY <1>3
  <2> QED BY <1>1, <2>1, <2>2, <2>3 DEF ExportAnswer
<1>5. Alike(x, y) /\ Alike(y, x)
  BY <1>1, <1>3, <1>4 DEF Alike
<1>6. \A t \in RowsOf(m, x) : \E u \in RowsOf(n, y) : u.place = t.place /\ u.kept = t.kept
  BY <1>1, <1>5, RowsAgree
<1>7. \A u \in RowsOf(n, y) : \E t \in RowsOf(m, x) : t.place = u.place /\ t.kept = u.kept
  BY <1>1, <1>5, RowsAgree
<1>8. {<<t.place, t.kept>> : t \in RowsOf(m, x)} = {<<u.place, u.kept>> : u \in RowsOf(n, y)}
  BY <1>6, <1>7
<1> QED BY <1>1, <1>4, <1>8 DEF x, y

-----------------------------------------------------------------------------
(* The close of the listeners waits for its clients, and for nobody else.   *)

InWork(r) == request[r].at \in {"reading", "handling"}

\* Requests that the stage of the close waits for: those of clients that stay.
Awaited(r) ==
    InWork(r) /\ ~request[r].gone
              /\ \/ closing = "api" /\ request[r].to = "rpc"
                 \/ closing = "receiver" /\ request[r].to = "otlp"
                 \/ closing = "mcp" /\ request[r].to = "mcp"

\* The guard of StopNext.
MayStop ==
    \/ closing = "api" /\ Connected("rpc") = {} /\ Streams = {}
    \/ closing = "receiver" /\ Connected("otlp") = {}
    \/ closing = "mcp" /\ Connected("mcp") = {}
    \/ closing = "engine"

\* The steps that are left to the answer of a request, at most.
StepsOf(r) ==
    CASE request[r].at = "reading" -> 2 + Len(request[r].left)
      [] request[r].at = "handling" -> 1 + Len(request[r].left)
      [] OTHER -> 0

AnyCall == [kind : CallKinds \cup {"large", "unparsable", "empty"}, id : BOOLEAN]

\* What is left of a body is a list of calls, and no stream outlives the start
\* of the close.
LeftInv ==
    /\ \A r \in Requests : request[r].left \in Seq(AnyCall)
    /\ closing # "open" => \A r \in Requests : request[r].at # "streaming"

LEMMA BodiesAreCalls ==
    ASSUME NEW to \in Listeners, NEW body \in Bodies(to)
    PROVE  body \in Seq(AnyCall)
<1>1. /\ Calls \subseteq AnyCall /\ GoodCall \in AnyCall
      /\ \A kind \in CallKinds \cup {"large", "unparsable", "empty"} : Call(kind) \in AnyCall
  BY DEF Calls, AnyCall, Call, GoodCall, CallKinds
<1>2. \A c, d \in AnyCall : <<c>> \in Seq(AnyCall) /\ <<c, d>> \in Seq(AnyCall)
  OBVIOUS
<1>3. \A kind \in CallKinds \cup {"large", "unparsable", "empty"} : Only(kind) \in Seq(AnyCall)
  BY <1>1, <1>2 DEF Only
<1>4. [kind |-> "good", id |-> FALSE] \in AnyCall
  BY DEF AnyCall, CallKinds
<1>5. Batches \subseteq Seq(AnyCall)
  <2>1. {<<c>> : c \in Calls} \subseteq Seq(AnyCall)
    BY <1>1, <1>2
  <2>2. \A c \in {[kind |-> "good", id |-> FALSE], Call("fails"), Call("malformed")} : c \in AnyCall
    BY <1>1, <1>4 DEF CallKinds
  <2>3. \A c \in {[kind |-> "good", id |-> FALSE], Call("fails"), Call("malformed")} :
          <<c, GoodCall>> \in Seq(AnyCall)
    BY <1>1, <1>2, <2>2
  <2> QED BY <2>1, <2>3 DEF Batches
<1>6. {<<c>> : c \in Calls} \subseteq Seq(AnyCall) /\ <<>> \in Seq(AnyCall)
  <2>1. \A c \in Calls : <<c>> \in Seq(AnyCall)
    BY <1>1, <1>2
  <2>2. <<>> \in Seq(AnyCall)
    OBVIOUS
  <2> QED BY <2>1, <2>2
<1>7. /\ Only("large") \in Seq(AnyCall) /\ Only("unparsable") \in Seq(AnyCall)
      /\ Only("empty") \in Seq(AnyCall) /\ Only("good") \in Seq(AnyCall)
      /\ Only("fails") \in Seq(AnyCall)
  BY <1>3 DEF CallKinds
<1>8. CASE to = "rpc"
  BY <1>5, <1>7, <1>8 DEF Bodies
<1>9. CASE to = "events"
  BY <1>6, <1>9 DEF Bodies
<1>10. CASE to = "otlp"
  BY <1>7, <1>10 DEF Bodies
<1>11. CASE to = "mcp"
  BY <1>6, <1>7, <1>11 DEF Bodies
<1> QED BY <1>8, <1>9, <1>10, <1>11 DEF Listeners

\* A step that changes one request, and how.
LEMMA OneRequest ==
    ASSUME ServerInv, LeftInv, NEW r \in Requests, Arrive(r) \/ Serve(r) \/ GoAway(r)
    PROVE  /\ closing' = closing /\ \A q \in Requests \ {r} : request'[q] = request[q]
           /\ request'[r].left \in Seq(AnyCall)
           /\ closing # "open" => request'[r].at # "streaming"
           /\ ~Awaited(r) => ~Awaited(r)'
           /\ Arrive(r) \/ EndStream(r) => ~Awaited(r)
           /\ HangUp(r) => ~Awaited(r)' /\ StepsOf(r)' = StepsOf(r)
           /\ Serve(r) \/ Abort(r) => /\ InWork(r) /\ StepsOf(r) \in Nat \ {0}
                                      /\ StepsOf(r)' \in Nat /\ StepsOf(r)' < StepsOf(r)
<1>0. /\ request = [q \in Requests |-> request[q]] /\ request[r].left \in Seq(AnyCall)
      /\ IsRequest(request[r]) /\ Len(request[r].left) \in Nat
  BY DEF ServerInv, ServerTypeOK, LeftInv
<1>1. ASSUME Arrive(r)
      PROVE  \E x :
               /\ request' = [request EXCEPT ![r] = x] /\ closing' = closing
               /\ request[r].at \in {"none", "answered"}
               /\ x.left \in Seq(AnyCall) /\ x.to \in Listeners
               /\ x.at \in {"answered", "streaming", "reading"}
               /\ x.at \in {"streaming", "reading"} => Accepting(x.to)
               /\ x.at = "streaming" => x.to = "events"
  <2> PICK to \in Listeners :
         Accepting(to) /\ (TurnAway(r, to) \/ \E body \in Bodies(to) : LetIn(r, to, body))
    BY <1>1 DEF Arrive
  <2>1. request[r].at \in {"none", "answered"} /\ closing' = closing
    BY <1>1 DEF Arrive, Free
  <2>2. CASE TurnAway(r, to)
    <3>1. PICK status : request' = [request EXCEPT ![r] = Fresh(to, <<>>, "answered", status)]
      BY <2>2 DEF TurnAway
    <3>2. /\ Fresh(to, <<>>, "answered", status).left = <<>> /\ <<>> \in Seq(AnyCall)
          /\ Fresh(to, <<>>, "answered", status).at = "answered"
          /\ Fresh(to, <<>>, "answered", status).to = to
      BY DEF Fresh
    <3> QED BY <2>1, <3>1, <3>2
  <2>3. CASE \E body \in Bodies(to) : LetIn(r, to, body)
    <3> DEFINE at == IF to = "events" THEN "streaming" ELSE "reading"
    <3>1. PICK body \in Bodies(to) : request' = [request EXCEPT ![r] = Fresh(to, body, at, 0)]
      BY <2>3 DEF LetIn
    <3>2. body \in Seq(AnyCall)
      BY BodiesAreCalls
    <3>3. /\ Fresh(to, body, at, 0).left = body /\ Fresh(to, body, at, 0).at = at
          /\ Fresh(to, body, at, 0).to = to
      BY DEF Fresh
    <3> QED BY <2>1, <3>1, <3>2, <3>3
  <2> QED BY <2>2, <2>3
<1>2. CASE Arrive(r)
  <2> PICK x :
               /\ request' = [request EXCEPT ![r] = x] /\ closing' = closing
               /\ request[r].at \in {"none", "answered"}
               /\ x.left \in Seq(AnyCall) /\ x.to \in Listeners
               /\ x.at \in {"answered", "streaming", "reading"}
               /\ x.at \in {"streaming", "reading"} => Accepting(x.to)
               /\ x.at = "streaming" => x.to = "events"
    BY <1>1, <1>2
  <2>1. request'[r] = x /\ \A q \in Requests \ {r} : request'[q] = request[q]
    BY <1>0
  <2>2. closing # "open" => x.at # "streaming"
    BY DEF Accepting
  <2>3. ~Awaited(r) /\ ~Awaited(r)'
    BY <2>1 DEF Awaited, InWork, Accepting
  <2>4. ~Serve(r) /\ ~Abort(r) /\ ~HangUp(r)
    BY DEF Serve, Handle, Abort, HangUp, ReadBody, HandleCall, Respond
  <2> QED BY <2>1, <2>2, <2>3, <2>4
\* An answer, whatever its status and replies, or none for a client that has gone.
<1>3. ASSUME NEW x, request' = [request EXCEPT ![r] = x], x.at \in {"none", "answered"},
             x.left \in Seq(AnyCall),
             request[r].at \in {"reading", "handling", "streaming"}, closing' = closing
      PROVE  /\ \A q \in Requests \ {r} : request'[q] = request[q]
             /\ request'[r].left \in Seq(AnyCall) /\ request'[r].at # "streaming"
             /\ ~Awaited(r)' /\ StepsOf(r)' = 0
             /\ InWork(r) => StepsOf(r) \in Nat \ {0}
  <2>1. request'[r] = x /\ \A q \in Requests \ {r} : request'[q] = request[q]
    BY <1>0, <1>3
  <2>2. ~Awaited(r)' /\ StepsOf(r)' = 0
    BY <1>3, <2>1 DEF Awaited, InWork, StepsOf
  <2>3. InWork(r) => StepsOf(r) \in Nat \ {0}
    BY <1>0 DEF InWork, StepsOf
  <2> QED BY <1>0, <1>3, <2>1, <2>2, <2>3
<1>4. ASSUME NEW status, Answer(r, status)
      PROVE  LET x == [request[r] EXCEPT !.at = "answered", !.status = status]
             IN /\ request' = [request EXCEPT ![r] = x]
                /\ x.at \in {"none", "answered"} /\ x.left \in Seq(AnyCall)
  BY <1>0, <1>4 DEF Answer, IsRequest
<1>5. ASSUME NEW x, request' = [request EXCEPT ![r] = x], x.at \in {"none", "answered"},
              x.left \in Seq(AnyCall),
              InWork(r), closing' = closing
       PROVE  /\ \A q \in Requests \ {r} : request'[q] = request[q]
              /\ request'[r].left \in Seq(AnyCall) /\ request'[r].at # "streaming"
              /\ ~Awaited(r)' /\ StepsOf(r) \in Nat \ {0}
              /\ StepsOf(r)' \in Nat /\ StepsOf(r)' < StepsOf(r)
  <2>0. request[r].at \in {"reading", "handling", "streaming"}
    BY <1>5 DEF InWork
  <2>1. /\ \A q \in Requests \ {r} : request'[q] = request[q]
        /\ request'[r].left \in Seq(AnyCall) /\ request'[r].at # "streaming"
        /\ ~Awaited(r)' /\ StepsOf(r)' = 0 /\ StepsOf(r) \in Nat \ {0}
    BY <1>3, <1>5, <2>0
  <2> DEFINE n == StepsOf(r)
             m == StepsOf(r)'
  <2>2. m = 0 /\ n \in Nat \ {0}
    BY <2>1
  <2> HIDE DEF n, m
  <2>3. m \in Nat /\ m < n
    BY <2>2
  <2> QED BY <2>1, <2>3 DEF n, m
<1>6. ASSUME NEW status, Answer(r, status), InWork(r), closing' = closing
       PROVE  /\ \A q \in Requests \ {r} : request'[q] = request[q]
              /\ request'[r].left \in Seq(AnyCall) /\ request'[r].at # "streaming"
              /\ ~Awaited(r)' /\ StepsOf(r) \in Nat \ {0}
              /\ StepsOf(r)' \in Nat /\ StepsOf(r)' < StepsOf(r)
  <2> DEFINE x == [request[r] EXCEPT !.at = "answered", !.status = status]
  <2>1. /\ request' = [request EXCEPT ![r] = x]
        /\ x.at \in {"none", "answered"} /\ x.left \in Seq(AnyCall)
    BY <1>4, <1>6
  <2> HIDE DEF x
  <2> QED BY <1>5, <1>6, <2>1
<1>7. CASE EndStream(r)
  <2>1. Answer(r, 200) /\ request[r].at = "streaming" /\ closing' = closing
    BY <1>7 DEF EndStream
  <2>2. ~Serve(r) /\ ~Abort(r) /\ ~HangUp(r) /\ ~Awaited(r)
    BY <2>1 DEF Serve, Handle, Abort, HangUp, ReadBody, HandleCall, Respond, Awaited, InWork
  <2> QED BY <1>3, <1>4, <2>1, <2>2
<1>8. CASE Abort(r)
  <2>1. Answer(r, 500) /\ request[r].at = "reading" /\ closing' = closing
    BY <1>8 DEF Abort
  <2>2. ~Arrive(r) /\ ~EndStream(r) /\ ~HangUp(r) /\ InWork(r)
    BY <2>1 DEF Arrive, Free, EndStream, HangUp, InWork
  <2> QED BY <1>6, <2>1, <2>2
<1>13. CASE HangUp(r)
  <2>1. request[r].at = "handling" /\ closing' = closing /\ ~Abort(r)
    BY <1>13 DEF HangUp, Abort
  <2>2. /\ request'[r].at = "handling" /\ request'[r].left = request[r].left /\ request'[r].gone
        /\ \A q \in Requests \ {r} : request'[q] = request[q]
    BY <1>0, <1>13, <2>1 DEF HangUp, IsRequest
  <2>3. ~Awaited(r)' /\ StepsOf(r)' = StepsOf(r)
    BY <2>1, <2>2 DEF Awaited, InWork, StepsOf
  <2>4. ~Arrive(r) /\ ~EndStream(r)
    BY <2>1 DEF Arrive, Free, EndStream
  <2>5. ~Serve(r)
    <3>1. ASSUME Serve(r) PROVE request'[r] # [request[r] EXCEPT !.gone = TRUE]
      <4>1. ~ReadBody(r)
        BY <2>1 DEF ReadBody
      <4>2. CASE HandleCall(r)
        <5>1. request[r].left # <<>> /\ request'[r].left = Tail(request[r].left)
          BY <1>0, <4>2 DEF HandleCall, IsRequest
        <5>2. Tail(request[r].left) # request[r].left
          <6> DEFINE t == Tail(request[r].left)
                     b == request[r].left
          <6>1. Len(t) = Len(b) - 1 /\ Len(b) \in Nat
            BY <1>0, <5>1, HeadTailProperties, EmptySeq
          <6> HIDE DEF t, b
          <6>2. t # b
            BY <6>1
          <6> QED BY <6>2 DEF t, b
        <5> QED BY <2>2, <5>1, <5>2
      <4>3. CASE Respond(r)
        <5>1. request'[r].at \in {"none", "answered"}
          BY <1>0, <4>3 DEF Respond, Answer, NoRequest, Fresh, IsRequest
        <5> QED BY <2>2, <5>1
      <4> QED BY <3>1, <4>1, <4>2, <4>3 DEF Serve, Handle
    <3> QED BY <1>0, <1>13, <3>1 DEF HangUp
  <2> QED BY <1>0, <2>1, <2>2, <2>3, <2>4, <2>5
<1>9. ASSUME request[r].at = "reading", request' = [request EXCEPT ![r].at = "handling"], closing' = closing
      PROVE  /\ \A q \in Requests \ {r} : request'[q] = request[q]
             /\ request'[r].left \in Seq(AnyCall) /\ request'[r].at # "streaming"
             /\ Awaited(r)' <=> Awaited(r)
             /\ InWork(r) /\ StepsOf(r) \in Nat \ {0} /\ StepsOf(r)' \in Nat /\ StepsOf(r)' < StepsOf(r)
  <2>1. /\ request'[r].at = "handling" /\ request'[r].left = request[r].left
        /\ request'[r].gone = request[r].gone
        /\ request'[r].to = request[r].to /\ \A q \in Requests \ {r} : request'[q] = request[q]
    BY <1>0, <1>9 DEF IsRequest
  <2>2. Awaited(r)' <=> Awaited(r)
    BY <1>9, <2>1 DEF Awaited, InWork
  <2> DEFINE n == Len(request[r].left)
  <2>3. n \in Nat /\ StepsOf(r) = 2 + n /\ StepsOf(r)' = 1 + n
    BY <1>0, <1>9, <2>1 DEF StepsOf
  <2>4. InWork(r)
    BY <1>9 DEF InWork
  <2> HIDE DEF n
  <2> QED BY <1>0, <2>1, <2>2, <2>3, <2>4
<1>10. CASE ReadBody(r)
  <2>1. request[r].at = "reading" /\ closing' = closing
    BY <1>10 DEF ReadBody
  <2>2. ~Arrive(r) /\ ~EndStream(r) /\ ~HangUp(r) /\ InWork(r)
    BY <2>1 DEF Arrive, Free, EndStream, HangUp, InWork
  <2>3. (\E status : Answer(r, status)) \/ request' = [request EXCEPT ![r].at = "handling"]
    BY <1>10 DEF ReadBody
  <2>4. CASE \E status : Answer(r, status)
    BY <1>6, <2>1, <2>2, <2>4
  <2>5. CASE request' = [request EXCEPT ![r].at = "handling"]
    BY <1>9, <2>1, <2>2, <2>5
  <2> QED BY <2>3, <2>4, <2>5
<1>11. CASE HandleCall(r)
  <2>1. request[r].at = "handling" /\ request[r].left # <<>> /\ closing' = closing
    BY <1>11 DEF HandleCall
  <2>2. ~Arrive(r) /\ ~EndStream(r) /\ InWork(r)
    BY <2>1 DEF Arrive, Free, EndStream, InWork
  <2> PICK replies : request' = [request EXCEPT ![r].left = Tail(@), ![r].replies = replies]
    BY <1>11 DEF HandleCall
  <2>3. /\ request'[r].at = "handling" /\ request'[r].left = Tail(request[r].left)
        /\ request'[r].gone = request[r].gone
        /\ request'[r].to = request[r].to /\ \A q \in Requests \ {r} : request'[q] = request[q]
    BY <1>0, <2>1 DEF IsRequest
  <2>4. Awaited(r)' <=> Awaited(r)
    BY <2>1, <2>3 DEF Awaited, InWork
  <2>5. Tail(request[r].left) \in Seq(AnyCall) /\ Len(Tail(request[r].left)) = Len(request[r].left) - 1
        /\ Len(request[r].left) > 0
    BY <1>0, <2>1, HeadTailProperties, EmptySeq
  <2> DEFINE n == Len(request[r].left)
  <2>6. n \in Nat /\ n > 0 /\ StepsOf(r) = 1 + n /\ StepsOf(r)' = 1 + (n - 1)
    BY <1>0, <2>1, <2>3, <2>5 DEF StepsOf
  <2> HIDE DEF n
  <2>7. StepsOf(r) \in Nat \ {0} /\ StepsOf(r)' \in Nat /\ StepsOf(r)' < StepsOf(r)
    BY <2>6
  <2>8. ~HangUp(r)
    <3>1. HangUp(r) => request'[r].left = request[r].left
      BY <1>0 DEF HangUp, IsRequest
    <3> DEFINE t == Tail(request[r].left)
               b == request[r].left
    <3>2. Len(t) = Len(b) - 1 /\ Len(b) \in Nat
      BY <1>0, <2>5
    <3> HIDE DEF t, b
    <3>3. t # b
      BY <3>2
    <3> QED BY <2>3, <3>1, <3>3 DEF t, b
  <2> QED BY <2>1, <2>2, <2>3, <2>4, <2>5, <2>7, <2>8
<1>12. CASE Respond(r)
  <2>1. request[r].at = "handling" /\ closing' = closing
    BY <1>12 DEF Respond
  <2>2. ~Arrive(r) /\ ~EndStream(r) /\ ~HangUp(r) /\ InWork(r)
    <3>1. HangUp(r) => request'[r].at = "handling"
      BY <1>0 DEF HangUp, IsRequest
    <3>2. request'[r].at \in {"none", "answered"}
      BY <1>0, <1>12 DEF Respond, Answer, NoRequest, Fresh, IsRequest
    <3> QED BY <2>1, <3>1, <3>2 DEF Arrive, Free, EndStream, InWork
  <2>3. \/ \E status : Answer(r, status)
        \/ request' = [request EXCEPT ![r] = NoRequest]
        \/ request' = [request EXCEPT ![r].at = "answered", ![r].status = 200,
                                      ![r].replies = <<"response-too-large">>]
    BY <1>12 DEF Respond
  <2>4. CASE \E status : Answer(r, status)
    BY <1>6, <2>1, <2>2, <2>4
  <2>5. CASE request' = [request EXCEPT ![r].at = "answered", ![r].status = 200,
                                        ![r].replies = <<"response-too-large">>]
    <3> DEFINE x == [request[r] EXCEPT !.at = "answered", !.status = 200,
                                       !.replies = <<"response-too-large">>]
    <3>1. /\ request' = [request EXCEPT ![r] = x]
          /\ x.at \in {"none", "answered"} /\ x.left \in Seq(AnyCall)
      BY <1>0, <2>5 DEF IsRequest
    <3> HIDE DEF x
    <3> QED BY <1>5, <2>1, <2>2, <3>1
  <2>6. CASE request' = [request EXCEPT ![r] = NoRequest]
    <3>1. NoRequest.at \in {"none", "answered"} /\ NoRequest.left \in Seq(AnyCall)
      <4>1. NoRequest.left = <<>> /\ <<>> \in Seq(AnyCall) /\ NoRequest.at = "none"
        BY DEF NoRequest, Fresh
      <4> QED BY <4>1
    <3> QED BY <1>5, <2>1, <2>2, <2>6, <3>1
  <2> QED BY <2>3, <2>4, <2>5, <2>6
<1> QED BY <1>2, <1>7, <1>8, <1>10, <1>11, <1>12, <1>13 DEF Serve, Handle, GoAway

\* Its beginning and its stages leave every request as it is but the streams.
LEMMA OneStage ==
    ASSUME ServerInv, LeftInv, BeginClose \/ StopNext
    PROVE  /\ LeftInv' /\ closing' # closing
           /\ \A r \in Requests : Awaited(r) => request'[r] = request[r]
<1>1. CASE BeginClose
  <2>1. \A r \in Requests :
          IF request[r].at = "streaming"
          THEN request'[r] = [request[r] EXCEPT !.at = "answered", !.status = 200]
          ELSE request'[r] = request[r]
    BY <1>1 DEF BeginClose, Streams
  <2>2. \A r \in Requests : IsRequest(request[r])
    BY DEF ServerInv, ServerTypeOK
  <2>3. \A r \in Requests : request'[r].left = request[r].left /\ request'[r].at # "streaming"
    BY <2>1, <2>2 DEF IsRequest
  <2> QED BY <1>1, <2>1, <2>3 DEF LeftInv, BeginClose, Awaited, InWork
<1>2. CASE StopNext
  BY <1>2 DEF StopNext, LeftInv
<1> QED BY <1>1, <1>2

\* What the close of the listeners can hang on (runtime.ts, and the close() of
\* runtimeApiHost.ts, receiver and mcpHost.ts).  At each stage the next one can
\* begin, unless a client that has stayed still waits for an answer of that
\* listener: no handler whose client has gone, and no request of another
\* listener, holds it up.  The clients that a stage waits for only become fewer,
\* and each has its answer after finitely many steps of its own request, which
\* nothing adds to.  The first of these, that of a body not yet sent, is its
\* client's to make: a client that neither sends it nor goes away holds up the
\* close for good.
THEOREM CloseEnds ==
    Spec => /\ [](closing \notin {"open", "closed"} => MayStop \/ \E r \in Requests : Awaited(r))
            /\ [][closing' = closing => \A r \in Requests : Awaited(r)' => Awaited(r)]_vars
            /\ [][\A r \in Requests : Awaited(r) =>
                    /\ StepsOf(r) \in Nat \ {0} /\ StepsOf(r)' <= StepsOf(r)
                    /\ Serve(r) \/ Abort(r) => StepsOf(r)' < StepsOf(r)]_vars
<1>1. Init => LeftInv
  <2> SUFFICES ASSUME ServerInit PROVE LeftInv
    BY DEF Init
  <2>1. \A r \in Requests : request[r] = NoRequest
    BY DEF ServerInit
  <2>2. NoRequest.left = <<>> /\ <<>> \in Seq(AnyCall) /\ NoRequest.at = "none"
    BY DEF NoRequest, Fresh
  <2> QED BY <2>1, <2>2 DEF LeftInv
<1>2. ServerInv /\ LeftInv /\ [Next]_vars =>
        \/ UNCHANGED serverVars
        \/ BeginClose \/ StopNext
        \/ \E r \in Requests : Arrive(r) \/ Serve(r) \/ GoAway(r)
  BY DEF Next, vars, OnClients, OnServers, OnPublishing, OnDesktop, OnPassage, ServerNext
<1>3. LeftInv /\ ServerInv /\ [Next]_vars => LeftInv'
  <2> SUFFICES ASSUME ServerInv, LeftInv, [Next]_vars PROVE LeftInv'
    OBVIOUS
  <2>1. CASE UNCHANGED serverVars
    BY <2>1 DEF serverVars, LeftInv
  <2>2. CASE BeginClose \/ StopNext
    BY <2>2, OneStage
  <2>3. CASE \E r \in Requests : Arrive(r) \/ Serve(r) \/ GoAway(r)
    <3> PICK r \in Requests : Arrive(r) \/ Serve(r) \/ GoAway(r)
      BY <2>3
    <3>1. /\ closing' = closing /\ \A q \in Requests \ {r} : request'[q] = request[q]
          /\ request'[r].left \in Seq(AnyCall) /\ (closing # "open" => request'[r].at # "streaming")
      BY OneRequest
    <3> QED BY <3>1 DEF LeftInv
  <2> QED BY <1>2, <2>1, <2>2, <2>3
<1>4. ServerInv /\ LeftInv =>
        (closing \notin {"open", "closed"} => MayStop \/ \E r \in Requests : Awaited(r))
  <2> SUFFICES ASSUME ServerInv, LeftInv, closing \notin {"open", "closed"},
                      \A r \in Requests : ~Awaited(r)
               PROVE  MayStop
    OBVIOUS
  <2>1. closing \in {"api", "receiver", "mcp", "engine"} /\ Streams = {}
    BY DEF ServerInv, ServerTypeOK, LeftInv, Streams
  <2>2. /\ closing = "api" => Connected("rpc") = {}
        /\ closing = "receiver" => Connected("otlp") = {}
        /\ closing = "mcp" => Connected("mcp") = {}
    BY DEF Busy, Connected, Awaited, InWork
  <2> QED BY <2>1, <2>2 DEF MayStop
<1>5. ServerInv /\ LeftInv /\ [Next]_vars =>
        [closing' = closing => \A r \in Requests : Awaited(r)' => Awaited(r)]_vars
  <2> SUFFICES ASSUME ServerInv, LeftInv, [Next]_vars, closing' = closing, NEW q \in Requests,
                      ~Awaited(q)
               PROVE  ~Awaited(q)'
    OBVIOUS
  <2>1. CASE UNCHANGED serverVars
    BY <2>1 DEF serverVars, Awaited, InWork
  <2>2. CASE BeginClose \/ StopNext
    BY <2>2, OneStage
  <2>3. CASE \E r \in Requests : Arrive(r) \/ Serve(r) \/ GoAway(r)
    <3> PICK r \in Requests : Arrive(r) \/ Serve(r) \/ GoAway(r)
      BY <2>3
    <3>1. CASE q = r
      BY <3>1, OneRequest
    <3>2. CASE q # r
      <4>1. request'[q] = request[q]
        BY <3>2, OneRequest
      <4> QED BY <4>1 DEF Awaited, InWork
    <3> QED BY <3>1, <3>2
  <2> QED BY <1>2, <2>1, <2>2, <2>3
<1>6. ServerInv /\ LeftInv /\ [Next]_vars =>
        [\A r \in Requests : Awaited(r) =>
           /\ StepsOf(r) \in Nat \ {0} /\ StepsOf(r)' <= StepsOf(r)
           /\ Serve(r) \/ Abort(r) => StepsOf(r)' < StepsOf(r)]_vars
  <2> SUFFICES ASSUME ServerInv, LeftInv, [Next]_vars, NEW q \in Requests, Awaited(q)
               PROVE  /\ StepsOf(q) \in Nat \ {0} /\ StepsOf(q)' <= StepsOf(q)
                      /\ Serve(q) \/ Abort(q) => StepsOf(q)' < StepsOf(q)
    OBVIOUS
  <2>1. StepsOf(q) \in Nat \ {0}
    <3>1. Len(request[q].left) \in Nat
      BY DEF LeftInv
    <3> QED BY <3>1 DEF Awaited, InWork, StepsOf
  <2>2. request'[q] = request[q] => StepsOf(q)' = StepsOf(q)
    BY DEF StepsOf
  <2>3. Serve(q) \/ Abort(q) => StepsOf(q)' \in Nat /\ StepsOf(q)' < StepsOf(q)
    BY OneRequest DEF GoAway
  <2>4. StepsOf(q)' <= StepsOf(q)
    <3>1. CASE Serve(q) \/ Abort(q)
      <4> DEFINE n == StepsOf(q)
                 m == StepsOf(q)'
      <4>1. n \in Nat /\ m \in Nat /\ m < n
        BY <2>1, <2>3, <3>1
      <4>2. m <= n
        <5> HIDE DEF n, m
        <5> QED BY <4>1
      <4> QED BY <4>2
    <3>2. CASE request'[q] = request[q] \/ HangUp(q)
      <4>1. StepsOf(q)' = StepsOf(q)
        BY <2>2, <3>2, OneRequest DEF GoAway
      <4> QED BY <2>1, <4>1
    <3>3. ASSUME ~Serve(q), ~Abort(q) PROVE request'[q] = request[q] \/ HangUp(q)
      <4>1. CASE UNCHANGED serverVars
        BY <4>1 DEF serverVars
      <4>2. CASE BeginClose \/ StopNext
        BY <4>2, OneStage
      <4>3. CASE \E r \in Requests : Arrive(r) \/ Serve(r) \/ GoAway(r)
        <5> PICK r \in Requests : Arrive(r) \/ Serve(r) \/ GoAway(r)
          BY <4>3
        <5>1. r # q \/ HangUp(q)
          BY <3>3, OneRequest DEF GoAway
        <5> QED BY <5>1, OneRequest
      <4> QED BY <1>2, <4>1, <4>2, <4>3
    <3> QED BY <3>1, <3>2, <3>3
  <2> QED BY <2>1, <2>3, <2>4
<1> QED BY <1>1, <1>3, <1>4, <1>5, <1>6, ServerInvariant, PTL DEF Spec
=============================================================================
