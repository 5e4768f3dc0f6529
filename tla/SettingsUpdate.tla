--------------------------- MODULE SettingsUpdate ---------------------------
(***************************************************************************)
(* Changing the settings of a running runtime (packages/local-runtime:     *)
(* updateSettings.ts, settings.ts, receiverHost.ts, mcpHost.ts and the     *)
(* mutation queue and close() of runtime.ts): a checked revision, two      *)
(* listeners that may have to move, a file to rename into place, and the   *)
(* way back when a step fails.                                             *)
(*                                                                         *)
(* Every await is a step boundary.  Other programs of the machine take and *)
(* free ports.  Settings that move no listener (retention, database path,  *)
(* desktop) are patches that keep everything.                              *)
(***************************************************************************)
EXTENDS Naturals, Sequences, FiniteSets

CONSTANTS
    Ports,          \* ports the settings can name
    Defaults,       \* DEFAULT_SETTINGS
    Files,          \* what settings.json may hold when the runtime first starts
    NoFile,         \* no file, or nothing that is settings of this version
    Junk,           \* in a file: a value of another type
    Calls,          \* updateSettings calls
    Patches,        \* what callers ask for
    Keep,           \* a patch leaves a setting alone
    NoPort,         \* no port; as a target: the MCP server is to be disabled
    Overrides,      \* ports otlpPortOverride may name
    Occupied,       \* ports other programs may have at the start
    MaxCloses,      \* bound on close()
    MaxTaken,       \* bound on ports taken by other programs after the start
    MaxReboots      \* bound on restarts

Hosts == {"receiver", "mcp"}
Patch == [otlp : Ports \cup {Keep}, enabled : BOOLEAN \cup {Keep},
          mcpPort : Ports \cup {Keep}]

NoPatch == [otlp |-> Keep, enabled |-> Keep, mcpPort |-> Keep]

ASSUME PatchAssumption == Patches \subseteq Patch
ASSUME PortAssumption == NoPort \notin Ports /\ Keep \notin Ports \cup BOOLEAN

\* validate: two listeners cannot share a port.
Valid(s) == {s.otlp, s.mcpPort} \subseteq Ports /\ ~(s.enabled /\ s.otlp = s.mcpPort)

Settings == [revision : Nat, otlp : Ports, enabled : BOOLEAN, mcpPort : Ports]

ASSUME StartAssumption ==
    /\ Defaults \in Settings /\ Valid(Defaults) /\ Defaults.revision = 0
    /\ Overrides \subseteq Ports /\ Occupied \subseteq Ports

ASSUME FileAssumption ==
    /\ Junk \notin Nat \cup Ports \cup BOOLEAN /\ NoFile \notin Settings
    /\ \A f \in Files \ {NoFile} :
          f.revision \in Nat \cup {Junk} /\ f.enabled \in BOOLEAN \cup {Junk}

\* A bug: the revision of the file is not read back.
CoerceUnnumbered(file) ==
    LET Or(value, default) == IF value = Junk THEN default ELSE value
        read == [revision |-> 0, otlp |-> Or(file.otlp, Defaults.otlp),
                 enabled |-> Or(file.enabled, Defaults.enabled),
                 mcpPort |-> Or(file.mcpPort, Defaults.mcpPort)]
    IN  IF file # NoFile /\ Valid(read) THEN read ELSE Defaults

\* coerce: a value of the wrong type is the default one; settings that are
\* not valid then are the defaults altogether.
Coerce(file) ==
    LET Or(value, default) == IF value = Junk THEN default ELSE value
        read == [revision |-> Or(file.revision, 0), otlp |-> Or(file.otlp, Defaults.otlp),
                 enabled |-> Or(file.enabled, Defaults.enabled),
                 mcpPort |-> Or(file.mcpPort, Defaults.mcpPort)]
    IN  IF file # NoFile /\ Valid(read) THEN read ELSE Defaults

VARIABLES
    settings,   \* the store's settings
    disk,       \* settings.json
    status,     \* status of each host
    socket,     \* the port of the listener each host knows it has
    held,       \* who listens on each port
    queue,      \* mutationQueue, the running call first
    phase,      \* where each call is ...
    step,       \* ... and where in the restart of a listener
    asked,      \* patch and expectedRevision of each call
    next,       \* the settings a call wants to commit
    before,     \* the statuses a call found
    mutated,    \* receiverMutated, mcpMutated
    reply,      \* the result of each call
    gone,       \* calls whose client has disconnected
    closing,    \* where close() is
    awaited,    \* the mutations close() waits for
    taken,      \* ports taken by other programs so far
    reboots     \* restarts so far

listeners == <<status, socket, held>>
progress == <<phase, step>>
request == <<asked, next, before, mutated>>
shutdown == <<closing, awaited>>
bounds == <<taken, reboots>>
vars == <<settings, disk, listeners, queue, progress, request, reply, gone, shutdown, bounds>>

Running(p) == [kind |-> "running", port |-> p]
Failed(p) == [kind |-> "error", port |-> p]
Starting == [kind |-> "starting", port |-> NoPort]
Disabled == [kind |-> "disabled", port |-> NoPort]
IsRunning(st) == st.kind = "running"

-----------------------------------------------------------------------------
\* The runtime starts: the receiver at the port of the settings or of
\* otlpPortOverride, then the MCP server if it is enabled; a port that is
\* taken is an error status and nothing more.
Started(s, others, p) ==
    LET up == p \notin others
        mcp == s.enabled /\ s.mcpPort \notin others /\ ~(up /\ s.mcpPort = p)
    IN  [status |-> [h \in Hosts |->
              IF h = "receiver" THEN IF up THEN Running(p) ELSE Failed(p)
              ELSE IF mcp THEN Running(s.mcpPort)
              ELSE IF s.enabled THEN Failed(s.mcpPort) ELSE Disabled],
         socket |-> [h \in Hosts |->
              IF h = "receiver" THEN IF up THEN p ELSE NoPort
              ELSE IF mcp THEN s.mcpPort ELSE NoPort],
         held |-> [q \in Ports |->
              IF q \in others THEN "other"
              ELSE IF up /\ q = p THEN "receiver"
              ELSE IF mcp /\ q = s.mcpPort THEN "mcp" ELSE "free"]]

Init ==
    /\ disk \in Files
    /\ settings = Coerce(disk)
    /\ \E others \in SUBSET Occupied, p \in {settings.otlp} \cup Overrides :
        LET now == Started(settings, others, p)
        IN  status = now.status /\ socket = now.socket /\ held = now.held
    /\ queue = <<>>
    /\ phase = [c \in Calls |-> "idle"]
    /\ step = [c \in Calls |-> "stop"]
    /\ asked = [c \in Calls |-> [patch |-> NoPatch, expected |-> 0]]
    /\ next = [c \in Calls |-> settings]
    /\ before = [c \in Calls |-> status]
    /\ mutated = [c \in Calls |-> {}]
    /\ reply = [c \in Calls |-> "none"]
    /\ gone = {}
    /\ closing = "no"
    /\ awaited = {}
    /\ taken = 0 /\ reboots = 0

-----------------------------------------------------------------------------
(* Requests and the mutation queue.                                         *)

\* A call arrives with the revision its client read.
Submit(c) ==
    /\ phase[c] = "idle"
    /\ closing \in {"no", "mutations"}
    /\ \E patch \in Patches, r \in 0..settings.revision :
          asked' = [asked EXCEPT ![c] = [patch |-> patch, expected |-> r]]
    /\ phase' = [phase EXCEPT ![c] = "queued"]
    /\ queue' = Append(queue, c)
    /\ UNCHANGED <<settings, disk, listeners, step, next, before, mutated, reply, gone,
                   shutdown, bounds>>

\* The client goes away (it waits 10 s for an answer); the call runs on.  Only
\* close() ever notices.
Abandon(c) ==
    /\ closing = "api"
    /\ phase[c] \notin {"idle", "done", "lost"}
    /\ c \notin gone
    /\ gone' = gone \cup {c}
    /\ UNCHANGED <<settings, disk, listeners, queue, progress, request, reply, shutdown, bounds>>

\* A bug: a call that fails stays at the head of the queue.
DequeueAnswered(c, result) ==
    /\ phase' = [phase EXCEPT ![c] = "done"]
    /\ reply' = [reply EXCEPT ![c] = result]
    /\ queue' = IF result = "ok" THEN Tail(queue) ELSE queue

\* A call, the first of the queue, ends, and the next one may begin.
Finish(c, result) ==
    /\ phase' = [phase EXCEPT ![c] = "done"]
    /\ reply' = [reply EXCEPT ![c] = result]
    /\ queue' = Tail(queue)

Pick(asks, has) == IF asks = Keep THEN has ELSE asks

\* merge
Merge(base, patch) == [revision |-> base.revision,
                       otlp |-> Pick(patch.otlp, base.otlp),
                       enabled |-> Pick(patch.enabled, base.enabled),
                       mcpPort |-> Pick(patch.mcpPort, base.mcpPort)]

\* serializeMutation
MyTurn(c) == Head(queue) = c

Current(c) == asked[c].expected = settings.revision

\* preview does not throw.
Previews(c) == Valid(Merge(settings, asked[c].patch))

Refuse(c) ==
    /\ phase[c] = "queued" /\ MyTurn(c)
    /\ ~(Current(c) /\ Previews(c))
    /\ Finish(c, IF Current(c) THEN "refused" ELSE "conflict")
    /\ UNCHANGED <<settings, disk, listeners, step, request, gone, shutdown, bounds>>

Begin(c) ==
    /\ phase[c] = "queued" /\ MyTurn(c)
    /\ Current(c) /\ Previews(c)
    /\ next' = [next EXCEPT ![c] = Merge(settings, asked[c].patch)]
    /\ before' = [before EXCEPT ![c] = status]
    /\ phase' = [phase EXCEPT ![c] = "receiver"]
    /\ UNCHANGED <<settings, disk, listeners, queue, step, asked, mutated, reply, gone,
                   shutdown, bounds>>

-----------------------------------------------------------------------------
(* Moving a listener: ReceiverHost.start, McpHost.start and disable.        *)

Host(c) == IF phase[c] \in {"receiver", "undoReceiver"} THEN "receiver" ELSE "mcp"
Undoing(c) == phase[c] \in {"undoMcp", "undoReceiver"}
Moving(c) == phase[c] \in {"receiver", "mcp"} \/ Undoing(c)

\* Where the call wants the listener.
Target(c) ==
    IF Undoing(c) THEN IF IsRunning(before[c][Host(c)]) THEN before[c][Host(c)].port ELSE NoPort
    ELSE IF phase[c] = "receiver" THEN next[c].otlp
    ELSE IF next[c].enabled THEN next[c].mcpPort ELSE NoPort

\* Whether the listener has to be touched at all.
Needed(c) ==
    IF Undoing(c)
    THEN Host(c) \in mutated[c] /\ (Host(c) = "receiver" => IsRunning(before[c]["receiver"]))
    ELSE IF Target(c) = NoPort THEN IsRunning(before[c]["mcp"])
    ELSE before[c][Host(c)] # Running(Target(c))

\* What comes after a listener: a failure leads to the rollback, unless it is
\* one of the rollback.
Following(c, ok) ==
    CASE phase[c] = "receiver" -> IF ok THEN "mcp" ELSE "undoMcp"
      [] phase[c] = "mcp" -> IF ok THEN "commit" ELSE "undoMcp"
      [] phase[c] = "undoMcp" -> "undoReceiver"
      [] phase[c] = "undoReceiver" -> "end"

Advance(c, ok) ==
    /\ phase' = [phase EXCEPT ![c] = Following(c, ok)]
    /\ step' = [step EXCEPT ![c] = "stop"]
    /\ reply' = [reply EXCEPT ![c] = IF ok \/ Undoing(c) THEN @ ELSE "refused"]

Skip(c) ==
    /\ Moving(c) /\ step[c] = "stop"
    /\ ~Needed(c)
    /\ Advance(c, TRUE)
    /\ UNCHANGED <<settings, disk, listeners, queue, request, gone, shutdown, bounds>>

\* stop(): the listener the host knows of is given up.
Released(h) ==
    /\ held' = [p \in Ports |-> IF p = socket[h] THEN "free" ELSE held[p]]
    /\ socket' = [socket EXCEPT ![h] = NoPort]

StopListener(c) ==
    /\ Moving(c) /\ step[c] = "stop"
    /\ Needed(c)
    /\ Released(Host(c))
    /\ step' = [step EXCEPT ![c] = IF Target(c) = NoPort THEN "disable" ELSE "listen"]
    /\ UNCHANGED <<settings, disk, status, queue, phase, request, reply, gone, shutdown, bounds>>

\* A bug: a host counts as touched only once it runs again.
TouchedWhenRunning(c, ok) ==
    mutated' = IF ok THEN [mutated EXCEPT ![c] = @ \cup {Host(c)}] ELSE mutated

Touched(c, ok) == mutated' = [mutated EXCEPT ![c] = @ \cup {Host(c)}]

Disable(c) ==
    /\ step[c] = "disable"
    /\ status' = [status EXCEPT ![Host(c)] = Disabled]
    /\ Touched(c, TRUE)
    /\ Advance(c, TRUE)
    /\ UNCHANGED <<settings, disk, socket, held, queue, asked, next, before, gone, shutdown, bounds>>

Listen(c) ==
    /\ step[c] = "listen"
    /\ status' = [status EXCEPT ![Host(c)] = Starting]
    /\ IF held[Target(c)] = "free"
       THEN /\ held' = [held EXCEPT ![Target(c)] = Host(c)]
            /\ step' = [step EXCEPT ![c] = "bound"]
       ELSE /\ step' = [step EXCEPT ![c] = "failed"]
            /\ UNCHANGED held
    /\ UNCHANGED <<settings, disk, socket, queue, phase, request, reply, gone, shutdown, bounds>>

Settle(c) ==
    /\ step[c] \in {"bound", "failed"}
    /\ LET ok == step[c] = "bound" IN
        /\ status' = [status EXCEPT ![Host(c)] = IF ok THEN Running(Target(c))
                                                     ELSE Failed(Target(c))]
        /\ socket' = IF ok THEN [socket EXCEPT ![Host(c)] = Target(c)] ELSE socket
        /\ Touched(c, ok)
        /\ Advance(c, ok)
    /\ UNCHANGED <<settings, disk, held, queue, asked, next, before, gone, shutdown, bounds>>

-----------------------------------------------------------------------------
(* SettingsStore.commit.                                                    *)

\* The revision is checked again before the file is written.
CheckRevision(c) ==
    /\ phase[c] = "commit"
    /\ LET stale == asked[c].expected # settings.revision IN
        /\ phase' = [phase EXCEPT ![c] = IF stale THEN "undoMcp" ELSE "write"]
        /\ reply' = [reply EXCEPT ![c] = IF stale THEN "conflict" ELSE @]
    /\ UNCHANGED <<settings, disk, listeners, queue, step, request, gone, shutdown, bounds>>

Committed(c) == [next[c] EXCEPT !.revision = asked[c].expected + 1]

\* persist: a temporary file is written and renamed ...
Rename(c) ==
    /\ phase[c] = "write"
    /\ disk' = Committed(c)
    /\ phase' = [phase EXCEPT ![c] = "renamed"]
    /\ UNCHANGED <<settings, listeners, queue, step, request, reply, gone, shutdown, bounds>>

\* ... unless writing it fails, or the chmod after the rename does.
PersistFails(c) ==
    /\ phase[c] \in {"write", "renamed"}
    /\ phase' = [phase EXCEPT ![c] = "undoMcp"]
    /\ reply' = [reply EXCEPT ![c] = "refused"]
    /\ UNCHANGED <<settings, disk, listeners, queue, step, request, gone, shutdown, bounds>>

Apply(c) ==
    /\ phase[c] = "renamed"
    /\ settings' = Committed(c)
    /\ Finish(c, "ok")
    /\ UNCHANGED <<disk, listeners, step, request, gone, shutdown, bounds>>

\* The rollback is over.
GiveUp(c) ==
    /\ phase[c] = "end"
    /\ Finish(c, reply[c])
    /\ UNCHANGED <<settings, disk, listeners, step, request, gone, shutdown, bounds>>

-----------------------------------------------------------------------------
(* close(), as far as mutations and listeners go.                           *)

Queued == {queue[i] : i \in DOMAIN queue}

Close ==
    /\ closing = "no"
    /\ MaxCloses > 0
    /\ closing' = "mutations"
    /\ awaited' = Queued
    /\ UNCHANGED <<settings, disk, listeners, queue, progress, request, reply, gone, bounds>>

\* The mutations that were queued are done; the API takes no more requests.
StopApi ==
    /\ closing = "mutations"
    /\ awaited \cap Queued = {}
    /\ closing' = "api"
    /\ UNCHANGED <<settings, disk, listeners, queue, progress, request, reply, gone, awaited, bounds>>

\* A bug: the API server is not closed before the listeners.
ApiNotDrained ==
    /\ closing = "api"
    /\ closing' = "receiver"
    /\ UNCHANGED <<settings, disk, listeners, queue, progress, request, reply, gone, awaited, bounds>>

\* Every connection of the API has ended: those of the calls that still run
\* were closed by their clients.
ApiStopped ==
    /\ closing = "api"
    /\ Queued \subseteq gone
    /\ closing' = "receiver"
    /\ UNCHANGED <<settings, disk, listeners, queue, progress, request, reply, gone, awaited, bounds>>

CloseListener(h) ==
    /\ closing = h
    /\ Released(h)
    /\ closing' = IF h = "receiver" THEN "mcp" ELSE "closed"
    /\ UNCHANGED <<settings, disk, status, queue, progress, request, reply, gone, awaited, bounds>>

-----------------------------------------------------------------------------
OtherTakes(p) ==
    /\ taken < MaxTaken
    /\ held[p] = "free"
    /\ held' = [held EXCEPT ![p] = "other"]
    /\ taken' = taken + 1
    /\ UNCHANGED <<settings, disk, status, socket, queue, progress, request, reply, gone,
                   shutdown, reboots>>

OtherFrees(p) ==
    /\ held[p] = "other"
    /\ held' = [held EXCEPT ![p] = "free"]
    /\ UNCHANGED <<settings, disk, status, socket, queue, progress, request, reply, gone,
                   shutdown, bounds>>

\* The runtime ends, at any moment, and is started again: the operating system
\* frees its ports, the calls in progress are lost, the settings are read.
Restart ==
    /\ reboots < MaxReboots
    /\ reboots' = reboots + 1
    /\ settings' = Coerce(disk)
    /\ \E p \in {settings'.otlp} \cup Overrides :
        LET now == Started(settings', {q \in Ports : held[q] = "other"}, p)
        IN  status' = now.status /\ socket' = now.socket /\ held' = now.held
    /\ queue' = <<>>
    /\ phase' = [c \in Calls |-> IF phase[c] \in {"idle", "done"} THEN phase[c] ELSE "lost"]
    /\ step' = [c \in Calls |-> "stop"]
    /\ gone' = {} /\ closing' = "no" /\ awaited' = {}
    /\ UNCHANGED <<disk, request, reply, taken>>

\* What the event loop does for a call that has been submitted.
Run(c) ==
    \/ Refuse(c) \/ Begin(c) \/ Skip(c) \/ StopListener(c) \/ Disable(c) \/ Listen(c)
    \/ Settle(c) \/ CheckRevision(c) \/ Rename(c) \/ PersistFails(c) \/ Apply(c) \/ GiveUp(c)

Next ==
    \/ \E c \in Calls : Submit(c) \/ Abandon(c) \/ Run(c)
    \/ Restart
    \/ Close \/ StopApi \/ ApiStopped \/ \E h \in Hosts : CloseListener(h)
    \/ \E p \in Ports : OtherTakes(p) \/ OtherFrees(p)

Spec == Init /\ [][Next]_vars

-----------------------------------------------------------------------------
Idle(c) == phase[c] \in {"idle", "queued", "done", "lost"}

\* Two clients that read the same revision cannot both change the settings,
\* however their calls overlap with file operations and restarting listeners,
\* and neither can they when the runtime ends between any two steps and is
\* started again: what a client was told is in the file by then.
OneWinner == \A c, d \in Calls :
    c # d /\ reply[c] = "ok" /\ reply[d] = "ok" => asked[c].expected # asked[d].expected

\* Success, and a refusal, leave the listeners where the settings of then say.
Arrived(S, st) ==
    /\ st["receiver"] = Running(S.otlp)
    /\ IF S.enabled THEN st["mcp"] = Running(S.mcpPort) ELSE ~IsRunning(st["mcp"])
Restored(c) ==
    \A h \in Hosts : IsRunning(before[c][h]) =>
        status[h] \in {Running(before[c][h].port), Failed(before[c][h].port)}

\* An update is all or nothing for the listeners that ran, whatever else is
\* updated, fails or is closed meanwhile: a successful one leaves them where the
\* settings say, a refused one leaves none at another port or off, one that is
\* told of a conflict has touched none (docs/protocol.md:143, "Revision checks
\* happen before rebinding"), and the rollback never stands in its own way: it
\* fails to get a port back only if another program has it by now.
AllOrNothing == [][\A c \in Calls :
    /\ reply[c] # "ok" /\ reply'[c] = "ok" => Arrived(settings', status)
    /\ reply'[c] = "conflict" => mutated'[c] = {}
    /\ phase[c] = "end" /\ phase'[c] = "done" => Restored(c)
    /\ closing = "no" /\ Undoing(c) /\ step[c] = "listen" /\ step'[c] = "failed"
         => held[Target(c)] = "other"]_vars

\* No listener is forgotten: between mutations a host listens where its status
\* says and on no other port, and close() leaves none behind, as long as every
\* client with a call in progress stays to hear its answer.
PortsAccounted ==
    /\ closing = "no" /\ (\A c \in Calls : Idle(c)) =>
         \A p \in Ports, h \in Hosts : held[p] = h <=> status[h] = Running(p)
    /\ closing = "closed" /\ gone = {} => \A p \in Ports : held[p] \notin Hosts

\* No call waits for ever: as long as one is in the queue, some call can go on,
\* whatever failed before it and whatever close() is doing.
QueueMoves == Queued # {} => ENABLED (\E c \in Calls : Run(c))

\* A settings update is atomic across listener rebind and settings persistence
\* (docs/release-sprint.md:124), for the listeners: a refused update leaves no
\* listener running that did not run before.
RefusalAtomic == [][\A c \in Calls :
    phase[c] = "end" /\ phase'[c] = "done" =>
        \A h \in Hosts : IsRunning(status[h]) => status[h] = before[c][h]]_vars
=============================================================================
