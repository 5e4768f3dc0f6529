---------------------------- MODULE StorageWorker ----------------------------
(***************************************************************************)
(* The SQLite worker thread and the facade in front of it                  *)
(* (packages/local-runtime/src/workerStorage.ts): a map of pending calls   *)
(* and two message channels on the owner's side, two queues with a         *)
(* priority and a flag that a step is scheduled on the worker's.           *)
(*                                                                         *)
(* Of the storage itself (packages/engine-node) only this much is modelled:*)
(* a call can throw, close() closes the database, and the timer that       *)
(* prunes it can throw where nobody catches, which ends the worker.        *)
(***************************************************************************)
EXTENDS Naturals, Sequences, FiniteSets

CONSTANTS
    QueueLimit,     \* 512
    MaxCalls        \* bound on the calls made

ASSUME LimitAssumption == QueueLimit \in Nat \ {0} /\ MaxCalls \in Nat

Calls == 1..MaxCalls
Ids == {0} \cup Calls       \* 0 is the start of the worker

VARIABLES
    nextId,     \* owner: number of the next call (a refused one has one too)
    method,     \* owner: what each call asks for
    pending,    \* owner: calls whose promises are not settled
    closed,     \* owner: close() is done
    outcome,    \* owner: how each promise was settled
    requests,   \* channel to the worker
    replies,    \* channel from the worker
    worker,     \* the life of the thread
    high,       \* worker: queue of reads
    normal,     \* worker: queue of everything else
    scheduled,  \* worker: processNext is scheduled
    shut,       \* storage: close() has closed the database
    rows,       \* storage: the writes in it
    found,      \* what each read has returned
    late        \* calls made after close() was called or the worker had exited

owner == <<nextId, method, pending, closed, outcome, late>>
channels == <<requests, replies>>
queues == <<high, normal, scheduled>>
storage == <<shut, rows, found>>
vars == <<owner, channels, worker, queues, storage>>

Methods == {"read", "write", "close"}
highMethods == {"read"}

Reply(id, result) == [id |-> id, result |-> result]

Init ==
    /\ nextId = 1
    /\ method = [id \in Ids |-> "none"]
    /\ pending = {0}
    /\ closed = FALSE
    /\ outcome = [id \in Ids |-> "none"]
    /\ requests = <<>> /\ replies = <<>>
    /\ worker = "loading"
    /\ high = <<>> /\ normal = <<>> /\ scheduled = FALSE
    /\ shut = FALSE
    /\ rows = <<>>
    /\ found = [id \in Ids |-> <<>>]
    /\ late = {}

-----------------------------------------------------------------------------
(* The worker thread.                                                       *)

\* The module is loaded and the database opened, or not.
Load ==
    /\ worker = "loading"
    /\ \E opened \in BOOLEAN :
          /\ worker' = IF opened THEN "running" ELSE "idle"
          /\ replies' = Append(replies, Reply(0, IF opened THEN "value" ELSE "error"))
    /\ UNCHANGED <<owner, requests, queues, storage>>

\* A bug: the request being read counts as queued.
CountsItself == Len(high) + Len(normal) + 1 >= QueueLimit

WorkerFull == Len(high) + Len(normal) >= QueueLimit

\* A bug: close() overtakes the writes before it.
CloseIsHigh(id) == method[id] # "write"

IsHigh(id) == method[id] \in highMethods

\* The worker's message handler.
Receive ==
    /\ worker = "running"
    /\ requests # <<>>
    /\ LET id == Head(requests) IN
        /\ requests' = Tail(requests)
        /\ IF WorkerFull
           THEN /\ replies' = Append(replies, Reply(id, "workerFull"))
                /\ UNCHANGED queues
           ELSE /\ high' = IF IsHigh(id) THEN Append(high, id) ELSE high
                /\ normal' = IF IsHigh(id) THEN normal ELSE Append(normal, id)
                /\ scheduled' = TRUE
                /\ UNCHANGED replies
    /\ UNCHANGED <<owner, worker, storage>>

\* A bug: the requests of the normal queue are taken from its end.
TakeNewest(id) ==
    IF high # <<>>
    THEN id = Head(high) /\ high' = Tail(high) /\ UNCHANGED normal
    ELSE /\ id = normal[Len(normal)]
         /\ normal' = SubSeq(normal, 1, Len(normal) - 1) /\ UNCHANGED high

\* high.shift() || normal.shift()
Take(id) ==
    IF high # <<>>
    THEN id = Head(high) /\ high' = Tail(high) /\ UNCHANGED normal
    ELSE id = Head(normal) /\ normal' = Tail(normal) /\ UNCHANGED high

\* storage[method](...args): it returns, or throws.  A write that throws has
\* been rolled back, or was committed before the step that failed.
Execute(id, returned) ==
    /\ returned => ~shut
    /\ shut' = (shut \/ (method[id] = "close" /\ returned))
    /\ rows' \in IF method[id] # "write" \/ shut THEN {rows}
                 ELSE IF returned THEN {Append(rows, id)} ELSE {rows, Append(rows, id)}
    /\ found' = IF method[id] = "read" /\ returned THEN [found EXCEPT ![id] = rows] ELSE found

\* A bug: only a waiting read has the next step scheduled.
RescheduleForReads == scheduled' = (high' # <<>>)

Reschedule == scheduled' = (high' # <<>> \/ normal' # <<>>)

processNext ==
    /\ worker = "running"
    /\ scheduled
    /\ high # <<>> \/ normal # <<>>
    /\ \E id \in Calls, returned \in BOOLEAN :
          /\ Take(id)
          /\ Execute(id, returned)
          /\ replies' = Append(replies, Reply(id, IF returned THEN "value" ELSE "error"))
    /\ Reschedule
    /\ UNCHANGED <<owner, requests, worker>>

\* The thread is gone, and what it had not done yet with it.
Ends(how) ==
    /\ worker' = how
    /\ requests' = <<>> /\ high' = <<>> /\ normal' = <<>> /\ scheduled' = FALSE

\* prune() throws in the timer, which close() clears.
PruneThrows ==
    /\ worker = "running" /\ ~shut
    /\ Ends("crashed")
    /\ UNCHANGED <<owner, replies, storage>>

-----------------------------------------------------------------------------
(* The owner.                                                               *)

Full == Cardinality(pending) >= QueueLimit

CloseCalled == \E id \in Calls : method[id] = "close"

\* The runtime calls close() once (runtime.ts:294).
call(m) ==
    /\ outcome[0] = "value"
    /\ nextId \in Calls
    /\ m = "close" => ~CloseCalled
    /\ nextId' = nextId + 1
    /\ method' = [method EXCEPT ![nextId] = m]
    /\ late' = IF CloseCalled \/ worker = "gone" THEN late \cup {nextId} ELSE late
    /\ IF closed \/ Full
       THEN /\ outcome' = [outcome EXCEPT ![nextId] = IF closed THEN "closed" ELSE "full"]
            /\ UNCHANGED <<pending, requests>>
       ELSE /\ pending' = pending \cup {nextId}
            /\ requests' = IF worker = "running" THEN Append(requests, nextId) ELSE requests
            /\ UNCHANGED outcome
    /\ UNCHANGED <<closed, replies, worker, queues, storage>>

\* A reply settles its call; that of close() closes the facade, and the
\* continuation of close() runs before anything else.
Deliver ==
    /\ replies # <<>>
    /\ LET reply == Head(replies) IN
        /\ pending' = pending \ {reply.id}
        /\ outcome' = IF reply.id \in pending
                      THEN [outcome EXCEPT ![reply.id] = reply.result] ELSE outcome
        /\ closed' = (closed \/ (/\ reply.id \in pending
                                 /\ method[reply.id] = "close" /\ reply.result = "value"))
    /\ replies' = Tail(replies)
    /\ UNCHANGED <<nextId, method, late, requests, worker, queues, storage>>

\* fail
Fail ==
    /\ pending' = {}
    /\ outcome' = [id \in Ids |-> IF id \in pending THEN "died" ELSE outcome[id]]

\* The worker's 'error' event.
OnError ==
    /\ worker = "crashed"
    /\ Fail
    /\ worker' = "failed"
    /\ UNCHANGED <<nextId, method, closed, late, channels, queues, storage>>

\* close(): worker.terminate()
Terminate ==
    /\ closed /\ worker = "running"
    /\ Ends("terminated")
    /\ UNCHANGED <<owner, replies, storage>>

\* The worker's 'exit' event, after the last of its messages.
OnExit ==
    /\ worker \in {"failed", "terminated"}
    /\ replies = <<>>
    /\ IF closed THEN UNCHANGED <<pending, outcome>> ELSE Fail
    /\ worker' = "gone"
    /\ UNCHANGED <<nextId, method, closed, late, channels, queues, storage>>

Next ==
    \/ Load \/ Receive \/ processNext \/ PruneThrows
    \/ \E m \in Methods : call(m)
    \/ Deliver \/ OnError \/ Terminate \/ OnExit

Spec == Init /\ [][Next]_vars

\* Both threads keep running their event loops; nobody has to call, and the
\* timer need not fail.
FairSpec ==
    /\ Spec
    /\ WF_vars(Load) /\ WF_vars(Receive) /\ WF_vars(processNext)
    /\ WF_vars(Deliver) /\ WF_vars(OnError) /\ WF_vars(Terminate) /\ WF_vars(OnExit)

-----------------------------------------------------------------------------
IdSeq == Seq(Calls)

\* Every variable has its type, and no more calls are pending than the limit.
TypeOK ==
    /\ nextId \in 1..MaxCalls + 1
    /\ method \in [Ids -> Methods \cup {"none"}]
    /\ pending \subseteq Ids
    /\ Cardinality(pending) <= QueueLimit
    /\ closed \in BOOLEAN
    /\ outcome \in [Ids -> {"none", "value", "error", "workerFull", "closed", "full", "died"}]
    /\ requests \in IdSeq
    /\ replies \in Seq([id : Ids, result : {"value", "error", "workerFull"}])
    /\ worker \in {"loading", "idle", "running", "crashed", "failed", "terminated", "gone"}
    /\ high \in IdSeq /\ normal \in IdSeq
    /\ scheduled \in BOOLEAN
    /\ shut \in BOOLEAN
    /\ rows \in IdSeq
    /\ found \in [Ids -> IdSeq]
    /\ late \subseteq Calls

\* The owner's limit is the one that counts: a call that it lets in is never
\* turned away by the worker, whatever is on its way between them.
OwnerLimits == \A id \in Ids : outcome[id] # "workerFull"

\* When close() is done, every call made before it has been answered: nothing
\* that was asked for is cut off by terminate().
CloseDrains == closed => pending \subseteq late

\* Every call is settled, whether it succeeds, throws or dies with the worker;
\* only one made after close() was called or the worker had exited may not be.
EveryCallSettles ==
    \A id \in Ids : id \in pending ~> id \notin pending \/ id \in late

-----------------------------------------------------------------------------
(* The facade implements the service that the runtime counts on.            *)

InReplies(id) == \E i \in DOMAIN replies : replies[i].id = id

stageOf(id) ==
    CASE outcome[id] \in {"closed", "full"} -> "refused"
      [] outcome[id] = "died" -> "lost"
      [] outcome[id] \in {"value", "error", "workerFull"} -> "answered"
      [] outcome[id] = "none" -> IF id \notin pending THEN "new"
                                 ELSE IF InReplies(id) THEN "done" ELSE "called"

Service == INSTANCE StorageService WITH
    stage <- [id \in Calls |-> stageOf(id)],
    method <- [id \in Calls |-> method[id]],
    found <- [id \in Calls |-> found[id]]

\* Each call takes effect once, at one instant between being made and being
\* answered, writes in the order they were made in and close() after all that
\* came before it, although reads overtake writes in the queues.
Serves == Service!Spec
=============================================================================
