--------------------------- MODULE RuntimeEvents ---------------------------
(***************************************************************************)
(* How a client hears that telemetry, settings or status have changed: the *)
(* event projector of the runtime (packages/local-runtime,                 *)
(* runtimeEvents.ts), the SSE endpoint in front of it (runtimeApiHost.ts)  *)
(* and the reconnecting reader of a client (packages/adapter-http).        *)
(*                                                                         *)
(* An event is a hint, so a signal is settled by any hint for it that is   *)
(* delivered after the change.  What a client does with a hint (refetch)   *)
(* is not modelled here, nor are the optional trace ids.                   *)
(***************************************************************************)
EXTENDS Naturals, Sequences

CONSTANTS
    Signals,        \* what can change: traces, logs, metrics, settings, status
    HistoryLimit,   \* historyLimit
    NoId,           \* the client has no lastEventId
    MaxChanges,     \* bound on changes
    MaxDrops,       \* bound on lost, refused and abandoned connections
    MaxRestarts     \* bound on runtime restarts

ASSUME LimitAssumption == HistoryLimit \in Nat \ {0}
ASSUME NoIdAssumption == NoId \notin Nat

VARIABLES
    up,             \* the runtime process is running
    pending,        \* pendingSignals: accepted and not yet flushed
    revision,       \* revision of this runtime process
    history,        \* the last envelopes, oldest first
    link,           \* the client's event loop
    initialized,    \* the client has negotiated the protocol
    stream,         \* envelopes written to the open connection and not yet read
    lastEventId,    \* the revision of the last envelope the client read
    announced,      \* revision at which each signal was last flushed, 0 for never
    idIsCurrent,    \* lastEventId was read from this runtime process
    changes, drops, restarts

server == <<up, pending, revision, history>>
client == <<link, initialized, stream, lastEventId>>
ghosts == <<announced, idIsCurrent>>
counters == <<changes, drops, restarts>>
vars == <<server, client, ghosts, counters>>

Envelope == [revision : Nat, signals : SUBSET Signals]

-----------------------------------------------------------------------------
Init ==
    /\ up = TRUE
    /\ pending = {}
    /\ revision = 0
    /\ history = <<>>
    /\ link = "starting"
    /\ initialized = FALSE
    /\ stream = <<>>
    /\ lastEventId = NoId
    /\ announced = [s \in Signals |-> 0]
    /\ idIsCurrent = FALSE
    /\ changes = 0 /\ drops = 0 /\ restarts = 0

-----------------------------------------------------------------------------
(* The projector.                                                           *)

\* accept(event): remember the signal; a flush is queued as a microtask.
Accept(s) ==
    /\ up
    /\ changes < MaxChanges
    /\ pending' = pending \cup {s}
    /\ changes' = changes + 1
    /\ UNCHANGED <<up, revision, history, client, ghosts, drops, restarts>>

Trimmed(h) == IF Len(h) > HistoryLimit
              THEN SubSeq(h, Len(h) - HistoryLimit + 1, Len(h)) ELSE h

\* flush(): one envelope for all that is pending, to the history and to the
\* connection.
Flush ==
    /\ up
    /\ pending # {}
    /\ revision' = revision + 1
    /\ LET envelope == [revision |-> revision + 1, signals |-> pending] IN
        /\ history' = Trimmed(Append(history, envelope))
        /\ stream' = IF link = "open" THEN Append(stream, envelope) ELSE stream
    /\ pending' = {}
    /\ announced' = [s \in Signals |-> IF s \in pending THEN revision + 1
                                                       ELSE announced[s]]
    /\ UNCHANGED <<up, link, initialized, lastEventId, idIsCurrent, counters>>

Resync == [revision |-> revision, signals |-> Signals]

Position(id) == {i \in DOMAIN history : history[i].revision = id}

\* A mutant of EventsSince: an id the history has lost gets the whole history.
EventsWithoutResync(id) ==
    IF id = NoId \/ id = revision THEN <<>>
    ELSE LET at == IF Position(id) = {} THEN 0 ELSE CHOOSE i \in Position(id) : TRUE
         IN  SubSeq(history, at + 1, Len(history))

\* What a client that reconnects with this Last-Event-ID is sent first.
EventsSince(id) ==
    IF id = NoId \/ id = revision THEN <<>>
    ELSE IF id > revision THEN <<Resync>>
    ELSE IF id = 0 /\ history # <<>> /\ history[1].revision = 1 THEN history
    ELSE IF Position(id) = {} THEN <<Resync>>
    ELSE SubSeq(history, (CHOOSE i \in Position(id) : TRUE) + 1, Len(history))

\* The process exits or dies: projector, history and connections go with it.
\* What was accepted and not flushed is lost too.
Stop ==
    /\ up
    /\ restarts < MaxRestarts
    /\ restarts' = restarts + 1
    /\ up' = FALSE
    /\ pending' = {}
    /\ revision' = 0
    /\ history' = <<>>
    /\ stream' = <<>>
    /\ link' = IF link = "open" THEN "waiting" ELSE link
    /\ announced' = [s \in Signals |-> 0]
    /\ idIsCurrent' = FALSE
    /\ UNCHANGED <<initialized, lastEventId, changes, drops>>

Start ==
    /\ ~up
    /\ up' = TRUE
    /\ UNCHANGED <<pending, revision, history, client, ghosts, counters>>

-----------------------------------------------------------------------------
(* The client: startEvents and runEvents.                                   *)

\* initialize() resolves, at once when it did before.
Initialize ==
    /\ link = "starting"
    /\ up \/ initialized
    /\ link' = "connecting"
    /\ initialized' = TRUE
    /\ UNCHANGED <<server, stream, lastEventId, ghosts, counters>>

\* initialize() rejects (no runtime, an overloaded one, a timeout): the loop is
\* not entered, and nothing retries it until someone subscribes again.
InitializeFails ==
    /\ link = "starting"
    /\ ~initialized
    /\ link' = "stopped"
    /\ UNCHANGED <<server, initialized, stream, lastEventId, ghosts, counters>>

\* A handler is added while no loop runs.
Subscribe ==
    /\ link = "stopped"
    /\ link' = "starting"
    /\ UNCHANGED <<server, initialized, stream, lastEventId, ghosts, counters>>

\* A mutant of Connect: the endpoint subscribes and does not replay.
ConnectWithoutReplay ==
    /\ link = "connecting"
    /\ up
    /\ pending = {}
    /\ stream' = <<>>
    /\ link' = "open"
    /\ UNCHANGED <<server, initialized, lastEventId, announced, idIsCurrent, counters>>

\* openSse: replay, then subscribe.  The request is handled in an event loop
\* turn of its own, after the microtasks of the turns before it.
Connect ==
    /\ link = "connecting"
    /\ up
    /\ pending = {}
    /\ stream' = EventsSince(lastEventId)
    /\ link' = "open"
    /\ UNCHANGED <<server, initialized, lastEventId, announced, idIsCurrent, counters>>

\* No runtime listens, or it refuses the connection (maxSseClients, a timeout).
ConnectFails ==
    /\ link = "connecting"
    /\ IF up THEN drops < MaxDrops /\ drops' = drops + 1 ELSE UNCHANGED drops
    /\ link' = "waiting"
    /\ UNCHANGED <<server, initialized, stream, lastEventId, ghosts, changes, restarts>>

\* An envelope arrives: remember its revision, hand its signals to the handlers.
Deliver ==
    /\ link = "open"
    /\ stream # <<>>
    /\ lastEventId' = Head(stream).revision
    /\ idIsCurrent' = TRUE
    /\ stream' = Tail(stream)
    /\ UNCHANGED <<server, link, initialized, announced, counters>>

\* The connection breaks: the network, a full socket buffer (the server destroys
\* the response), a frame the client rejects.
Drop ==
    /\ link = "open"
    /\ drops < MaxDrops
    /\ drops' = drops + 1
    /\ link' = "waiting"
    /\ stream' = <<>>
    /\ UNCHANGED <<server, initialized, lastEventId, ghosts, changes, restarts>>

\* The last handler is disposed: the loop and its connection are aborted.
Unsubscribe ==
    /\ link # "stopped"
    /\ drops < MaxDrops
    /\ drops' = drops + 1
    /\ link' = "stopped"
    /\ stream' = <<>>
    /\ UNCHANGED <<server, initialized, lastEventId, ghosts, changes, restarts>>

\* The reconnect delay has passed.
Retry ==
    /\ link = "waiting"
    /\ link' = "connecting"
    /\ UNCHANGED <<server, initialized, stream, lastEventId, ghosts, counters>>

Next ==
    \/ \E s \in Signals : Accept(s)
    \/ Flush \/ Stop \/ Start
    \/ Initialize \/ InitializeFails \/ Subscribe
    \/ Connect \/ ConnectFails \/ Deliver \/ Drop \/ Unsubscribe \/ Retry

Spec == Init /\ [][Next]_vars

\* Microtasks and requests run, the client's loop goes on, a runtime that went
\* down is started again.  Nobody is obliged to subscribe again.
Fairness ==
    /\ WF_vars(Flush) /\ WF_vars(Start) /\ WF_vars(Initialize) /\ WF_vars(Connect)
    /\ WF_vars(Deliver) /\ WF_vars(Retry)

FairSpec == Spec /\ Fairness

-----------------------------------------------------------------------------
\* Every variable has its type, and the history is bounded.
TypeOK ==
    /\ up \in BOOLEAN
    /\ pending \subseteq Signals
    /\ revision \in Nat
    /\ history \in Seq(Envelope)
    /\ Len(history) <= HistoryLimit
    /\ link \in {"starting", "stopped", "connecting", "open", "waiting"}
    /\ initialized \in BOOLEAN
    /\ stream \in Seq(Envelope)
    /\ lastEventId \in Nat \cup {NoId}
    /\ announced \in [Signals -> Nat]
    /\ idIsCurrent \in BOOLEAN
    /\ changes \in Nat /\ drops \in Nat /\ restarts \in Nat

InStream(s, from) == \E i \in DOMAIN stream :
                        s \in stream[i].signals /\ stream[i].revision >= from

\* Once a client has read an event of this runtime process, no drop of the
\* connection and no expired history loses it a change: whatever was flushed
\* after the event it read last is on its way to it, as itself or as a resync.
NothingMissed ==
    link = "open" /\ idIsCurrent =>
        \A s \in Signals : announced[s] > lastEventId => InStream(s, announced[s])

\* ... and so is read in the end, unless the runtime restarts first or the
\* client gives up listening.
HintsArrive ==
    \A s \in Signals, r \in 1..MaxChanges :
        idIsCurrent /\ announced[s] = r
            ~> ~idIsCurrent \/ link = "stopped" \/ (idIsCurrent /\ lastEventId >= r)

-----------------------------------------------------------------------------
(* Inductive strengthening of NothingMissed.                                *)

\* The history holds the last revisions without a gap.
Contiguous == \A i \in DOMAIN history :
                 history[i].revision = revision - Len(history) + i

\* A flush that the history still reaches back to is in it.
Recorded == \A s \in Signals :
    /\ announced[s] <= revision
    /\ announced[s] > revision - Len(history) =>
          \E i \in DOMAIN history :
             history[i].revision = announced[s] /\ s \in history[i].signals

\* What was flushed after an envelope of the stream comes after it in the stream.
InOrder == link = "open" =>
    \A s \in Signals, i \in DOMAIN stream : announced[s] > stream[i].revision =>
        \E j \in DOMAIN stream :
            j > i /\ s \in stream[j].signals /\ stream[j].revision >= announced[s]

\* No envelope is from the future.
Sent == \A i \in DOMAIN stream : stream[i].revision <= revision

EventsInv ==
    /\ Len(history) <= revision
    /\ Contiguous
    /\ Recorded
    /\ Sent
    /\ InOrder
    /\ idIsCurrent => lastEventId # NoId /\ lastEventId <= revision
    /\ NothingMissed
=============================================================================
