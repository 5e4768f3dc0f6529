------------------------ MODULE StorageWorker_proofs ------------------------
(* Theorems about StorageWorker, for every queue limit and number of calls.  *)
EXTENDS StorageWorker, FiniteSetTheorems, SequenceTheorems, TLAPS

\* What is on its way between the owner and a running worker.
OnTheWay == Len(high) + Len(normal) + Len(requests) + Len(replies)

\* Before the worker has loaded, nothing but its start is pending.
LoadingInv ==
    worker = "loading" =>
        /\ pending = {0} /\ outcome[0] = "none"
        /\ high = <<>> /\ normal = <<>> /\ requests = <<>> /\ replies = <<>>

\* Each request and each reply on its way is that of a pending call, so that
\* there are never more of them than the owner's limit lets in.
CountInv == worker = "running" => OnTheWay <= Cardinality(pending)

\* Pending calls have been made.
MadeInv == \A id \in pending : id < nextId

\* The worker has turned nothing away.
AcceptedInv == OwnerLimits /\ \A i \in DOMAIN replies : replies[i].result # "workerFull"

Results == {"value", "error", "workerFull"}
ReplySet == [id : Ids, result : Results]

LEMMA CallsFinite == IsFiniteSet(Ids)
<1>1. IsFiniteSet(Calls)
  BY LimitAssumption, FS_Interval DEF Calls
<1>2. Ids = Calls \cup {0}
  BY DEF Ids
<1> QED BY <1>1, <1>2, FS_AddElement

\* Sets of calls have sizes, and one element more or less changes them by at
\* most one.
LEMMA PendingSize ==
    ASSUME NEW S \in SUBSET Ids, NEW id \in Ids
    PROVE  /\ Cardinality(S) \in Nat
           /\ Cardinality(S \cup {id}) = IF id \in S THEN Cardinality(S) ELSE Cardinality(S) + 1
           /\ Cardinality(S \ {id}) = IF id \in S THEN Cardinality(S) - 1 ELSE Cardinality(S)
<1>1. IsFiniteSet(S)
  BY CallsFinite, FS_Subset
<1>2. /\ Cardinality(S \cup {id}) = IF id \in S THEN Cardinality(S) ELSE Cardinality(S) + 1
      /\ Cardinality(S) \in Nat
  BY <1>1, FS_AddElement, FS_CardinalityType
<1>3. Cardinality(S \ {id}) = IF id \in S THEN Cardinality(S) - 1 ELSE Cardinality(S)
  BY <1>1, FS_RemoveElement
<1> QED BY <1>2, <1>3

\* The request that is taken was the first of its queue.
LEMMA TakeProperties ==
    ASSUME TypeOK, NEW id \in Calls, high # <<>> \/ normal # <<>>, Take(id)
    PROVE  /\ high' \in IdSeq /\ normal' \in IdSeq
           /\ Len(high') + Len(normal') = Len(high) + Len(normal) - 1
<1>1. high \in Seq(Calls) /\ normal \in Seq(Calls)
  BY DEF TypeOK, IdSeq
<1>2. ASSUME NEW s \in Seq(Calls), s # <<>>
      PROVE  Tail(s) \in Seq(Calls) /\ Len(Tail(s)) = Len(s) - 1
  BY <1>2, HeadTailProperties
<1>3. CASE high # <<>>
  <2>1. high' = Tail(high) /\ normal' = normal
    BY <1>3 DEF Take
  <2> QED BY <1>1, <1>2, <1>3, <2>1 DEF IdSeq
<1>4. CASE high = <<>>
  <2>1. normal' = Tail(normal) /\ high' = high /\ normal # <<>>
    BY <1>4 DEF Take
  <2> QED BY <1>1, <1>2, <1>4, <2>1 DEF IdSeq
<1> QED BY <1>3, <1>4

LEMMA TypeInit == Init => TypeOK
<1> SUFFICES ASSUME Init PROVE TypeOK
  OBVIOUS
<1>1. Cardinality({0}) = 1
  BY FS_Singleton
<1>2. pending \subseteq Ids /\ Cardinality(pending) <= QueueLimit
  BY <1>1, LimitAssumption DEF Init, Ids
<1>3. /\ nextId \in 1..MaxCalls + 1
      /\ replies \in Seq(ReplySet)
      /\ found \in [Ids -> IdSeq]
  BY LimitAssumption DEF Init, IdSeq
<1> QED BY <1>2, <1>3 DEF Init, TypeOK, IdSeq, ReplySet, Results

LEMMA TypeStep == TypeOK /\ [Next]_vars => TypeOK'
<1> SUFFICES ASSUME TypeOK, [Next]_vars PROVE TypeOK'
  OBVIOUS
<1> USE DEF IdSeq
<1>1. CASE Load
  <2>1. \E opened \in BOOLEAN : replies' = Append(replies, Reply(0, IF opened THEN "value" ELSE "error"))
    BY <1>1 DEF Load
  <2>2. replies' \in Seq(ReplySet)
    BY <2>1 DEF TypeOK, Reply, Ids, ReplySet, Results
  <2> QED BY <1>1, <2>2 DEF Load, TypeOK, owner, queues, storage, ReplySet, Results
<1>2. CASE Receive
  <2> DEFINE id == Head(requests)
  <2>1. id \in Calls /\ id \in Ids /\ requests' = Tail(requests) /\ requests' \in Seq(Calls)
    BY <1>2 DEF Receive, TypeOK, Ids
  <2>2. replies' \in Seq(ReplySet)
    <3>1. replies \in Seq(ReplySet)
      BY DEF TypeOK, ReplySet, Results
    <3>2. Reply(id, "workerFull") \in ReplySet
      BY <2>1 DEF Reply, ReplySet, Results
    <3>3. replies' = replies \/ replies' = Append(replies, Reply(id, "workerFull"))
      BY <1>2 DEF Receive
    <3> QED BY <3>1, <3>2, <3>3
  <2>3. high' \in Seq(Calls) /\ normal' \in Seq(Calls) /\ scheduled' \in BOOLEAN
    <3>1. high \in Seq(Calls) /\ normal \in Seq(Calls) /\ scheduled \in BOOLEAN
      BY DEF TypeOK
    <3>2. Append(high, id) \in Seq(Calls) /\ Append(normal, id) \in Seq(Calls)
      BY <2>1, <3>1, AppendProperties
    <3>3. CASE WorkerFull
      BY <1>2, <3>1, <3>3 DEF Receive, queues
    <3>4. CASE ~WorkerFull
      BY <1>2, <3>1, <3>2, <3>4 DEF Receive
    <3> QED BY <3>3, <3>4
  <2> QED BY <1>2, <2>1, <2>2, <2>3 DEF Receive, TypeOK, owner, storage, ReplySet, Results
<1>3. CASE processNext
  <2>1. PICK id \in Calls, returned \in BOOLEAN :
           /\ Take(id)
           /\ Execute(id, returned)
           /\ replies' = Append(replies, Reply(id, IF returned THEN "value" ELSE "error"))
    BY <1>3 DEF processNext
  <2>2. high' \in Seq(Calls) /\ normal' \in Seq(Calls)
    BY <1>3, <2>1, TakeProperties DEF processNext
  <2>3. replies' \in Seq(ReplySet)
    <3>1. Reply(id, IF returned THEN "value" ELSE "error") \in ReplySet
      BY DEF Reply, Ids, ReplySet, Results
    <3> QED BY <2>1, <3>1 DEF TypeOK, ReplySet, Results
  <2>4. rows' \in Seq(Calls)
    <3>1. rows \in Seq(Calls) /\ Append(rows, id) \in Seq(Calls)
      BY AppendProperties DEF TypeOK
    <3>2. rows' = rows \/ rows' = Append(rows, id)
      BY <2>1 DEF Execute
    <3> QED BY <3>1, <3>2
  <2>5. shut' \in BOOLEAN
    BY <2>1 DEF Execute, TypeOK
  <2>6. found' \in [Ids -> Seq(Calls)]
    BY <2>1 DEF Execute, TypeOK
  <2>7. scheduled' \in BOOLEAN
    BY <1>3 DEF processNext, Reschedule
  <2> QED
    BY <1>3, <2>2, <2>3, <2>4, <2>5, <2>6, <2>7
    DEF processNext, TypeOK, owner, ReplySet, Results
<1>4. CASE PruneThrows
  <2>1. <<>> \in Seq(Calls)
    BY EmptySeq
  <2> QED BY <1>4, <2>1 DEF PruneThrows, Ends, TypeOK, owner, storage
<1>5. ASSUME NEW m \in Methods, call(m) PROVE TypeOK'
  <2>1. nextId \in Calls /\ nextId \in Ids /\ nextId' = nextId + 1 /\ nextId' \in 1..MaxCalls + 1
    BY <1>5, LimitAssumption DEF call, Calls, Ids
  <2>2. method' \in [Ids -> Methods \cup {"none"}] /\ late' \subseteq Calls
    BY <1>5, <2>1 DEF call, TypeOK
  <2>3. CASE closed \/ Full
    BY <1>5, <2>1, <2>2, <2>3 DEF call, TypeOK, queues, storage
  <2>4. CASE ~(closed \/ Full)
    <3>1. /\ pending' = pending \cup {nextId}
          /\ requests' = IF worker = "running" THEN Append(requests, nextId) ELSE requests
          /\ UNCHANGED outcome
      BY <1>5, <2>4 DEF call
    <3>2. Cardinality(pending) < QueueLimit /\ pending \in SUBSET Ids
      <4>1. pending \in SUBSET Ids /\ Cardinality(pending) <= QueueLimit
        BY DEF TypeOK
      <4>2. Cardinality(pending) \in Nat
        BY <2>1, <4>1, PendingSize
      <4> QED BY <2>4, <4>1, <4>2, LimitAssumption DEF Full
    <3>3. Cardinality(pending') <= QueueLimit /\ pending' \subseteq Ids
      <4>1. /\ Cardinality(pending) \in Nat
            /\ \/ Cardinality(pending \cup {nextId}) = Cardinality(pending)
               \/ Cardinality(pending \cup {nextId}) = Cardinality(pending) + 1
        BY <2>1, <3>2, PendingSize
      <4>2. Cardinality(pending') <= QueueLimit
        BY <3>1, <3>2, <4>1, LimitAssumption
      <4> QED BY <2>1, <3>1, <3>2, <4>2
    <3>4. requests' \in Seq(Calls)
      BY <2>1, <3>1 DEF TypeOK
    <3> QED BY <1>5, <2>1, <2>2, <3>1, <3>3, <3>4 DEF call, TypeOK, queues, storage
  <2> QED BY <2>3, <2>4
<1>6. CASE Deliver
  <2> DEFINE reply == Head(replies)
  <2>1. reply \in ReplySet /\ replies' = Tail(replies) /\ replies' \in Seq(ReplySet)
    <3>1. replies \in Seq(ReplySet) /\ replies # <<>> /\ replies' = Tail(replies)
      BY <1>6 DEF Deliver, TypeOK, ReplySet, Results
    <3> QED BY <3>1, HeadTailProperties
  <2>2. reply.id \in Ids /\ reply.result \in Results
    BY <2>1 DEF ReplySet
  <2>3. pending' = pending \ {reply.id} /\ pending \in SUBSET Ids
    BY <1>6 DEF Deliver, TypeOK
  <2>4. pending' \subseteq Ids /\ Cardinality(pending') <= QueueLimit
    <3>1. Cardinality(pending) <= QueueLimit
      BY DEF TypeOK
    <3>2. /\ Cardinality(pending) \in Nat
          /\ \/ Cardinality(pending \ {reply.id}) = Cardinality(pending)
             \/ Cardinality(pending \ {reply.id}) = Cardinality(pending) - 1
      BY <2>2, <2>3, PendingSize
    <3>3. Cardinality(pending') <= QueueLimit
      BY <2>3, <3>1, <3>2, LimitAssumption
    <3> QED BY <2>3, <3>3
  <2>5. outcome' \in [Ids -> {"none", "value", "error", "workerFull", "closed", "full", "died"}]
    BY <1>6, <2>2 DEF Deliver, TypeOK, Results
  <2>6. closed' \in BOOLEAN
    BY <1>6 DEF Deliver, TypeOK
  <2> QED
    BY <1>6, <2>1, <2>4, <2>5, <2>6 DEF Deliver, TypeOK, queues, storage, ReplySet, Results
<1>7. ASSUME Fail PROVE /\ pending' \subseteq Ids /\ Cardinality(pending') <= QueueLimit
                        /\ outcome' \in [Ids -> {"none", "value", "error", "workerFull", "closed", "full", "died"}]
  BY <1>7, FS_EmptySet, LimitAssumption DEF Fail, TypeOK
<1>8. CASE OnError
  BY <1>7, <1>8 DEF OnError, TypeOK, channels, queues, storage
<1>9. CASE Terminate
  <2>1. <<>> \in Seq(Calls)
    BY EmptySeq
  <2> QED BY <1>9, <2>1 DEF Terminate, Ends, TypeOK, owner, storage
<1>10. CASE OnExit
  <2>1. CASE closed
    BY <1>10, <2>1 DEF OnExit, TypeOK, channels, queues, storage
  <2>2. CASE ~closed
    BY <1>7, <1>10, <2>2 DEF OnExit, TypeOK, channels, queues, storage
  <2> QED BY <2>1, <2>2
<1>11. CASE UNCHANGED vars
  BY <1>11 DEF TypeOK, vars, owner, channels, queues, storage
<1> QED
  BY <1>1, <1>2, <1>3, <1>4, <1>5, <1>6, <1>8, <1>9, <1>10, <1>11 DEF Next

\* Every variable of the facade and of its worker keeps its type, and the owner
\* never has more calls pending than its limit, whatever the limit is.
THEOREM TypeCorrect == Spec => []TypeOK
BY TypeInit, TypeStep, PTL DEF Spec

-----------------------------------------------------------------------------
(* The two limits.  The owner counts calls that are not settled, the worker  *)
(* requests in its queues; each request in a queue is that of a call that is *)
(* not settled, and so is the one that the worker is reading.                *)

LimitInv == TypeOK /\ LoadingInv /\ CountInv /\ MadeInv /\ AcceptedInv

LEMMA Lengths ==
    ASSUME TypeOK
    PROVE  /\ Len(high) \in Nat /\ Len(normal) \in Nat
           /\ Len(requests) \in Nat /\ Len(replies) \in Nat
           /\ Cardinality(pending) \in Nat
           /\ Cardinality(pending) <= QueueLimit
<1>1. pending \in SUBSET Ids /\ 0 \in Ids
  BY DEF TypeOK, Ids
<1>2. Cardinality(pending) \in Nat
  BY <1>1, PendingSize
<1> QED BY <1>2, LenProperties DEF TypeOK, IdSeq

\* A running worker that reads a request has room for it.
LEMMA NeverFull ==
    ASSUME TypeOK, CountInv, worker = "running", requests # <<>>
    PROVE  ~WorkerFull
<1>1. Len(requests) \in Nat \ {0}
  BY EmptySeq DEF TypeOK, IdSeq
<1> QED BY <1>1, Lengths, LimitAssumption DEF CountInv, OnTheWay, WorkerFull

\* A reply that is not a refusal does not make one.
LEMMA AppendAccepted ==
    ASSUME TypeOK, AcceptedInv, NEW reply \in ReplySet, reply.result # "workerFull"
    PROVE  \A i \in DOMAIN Append(replies, reply) :
              Append(replies, reply)[i].result # "workerFull"
<1>1. replies \in Seq(ReplySet)
  BY DEF TypeOK, ReplySet, Results
<1>2. DOMAIN Append(replies, reply) = 1..Len(replies) + 1 /\ DOMAIN replies = 1..Len(replies)
  BY <1>1, AppendProperties, LenProperties
<1>3. ASSUME NEW i \in 1..Len(replies) + 1
      PROVE  Append(replies, reply)[i].result # "workerFull"
  <2>1. Len(replies) \in Nat
    BY <1>1, LenProperties
  <2>2. CASE i = Len(replies) + 1
    BY <1>1, <2>2, AppendProperties
  <2>3. CASE i \in 1..Len(replies)
    BY <1>1, <1>2, <2>3, AppendProperties DEF AcceptedInv
  <2> QED BY <2>1, <2>2, <2>3
<1> QED BY <1>2, <1>3

LEMMA LimitInit == Init => LimitInv
<1> SUFFICES ASSUME Init PROVE LimitInv
  OBVIOUS
<1>1. TypeOK
  BY TypeInit
<1>2. LoadingInv /\ CountInv /\ MadeInv
  BY DEF Init, LoadingInv, CountInv, MadeInv, Ids
<1>3. AcceptedInv
  BY DEF Init, AcceptedInv, OwnerLimits
<1> QED BY <1>1, <1>2, <1>3 DEF LimitInv

LEMMA LimitStep == LimitInv /\ [Next]_vars => LimitInv'
<1> SUFFICES ASSUME LimitInv, [Next]_vars PROVE LimitInv'
  OBVIOUS
<1> USE DEF IdSeq
<1>0. TypeOK /\ LoadingInv /\ CountInv /\ MadeInv /\ AcceptedInv /\ TypeOK'
  BY TypeStep DEF LimitInv
<1>a. replies \in Seq(ReplySet)
  BY <1>0 DEF TypeOK, ReplySet, Results
<1>1. CASE Load
  <2>1. PICK opened \in BOOLEAN :
           /\ worker' = IF opened THEN "running" ELSE "idle"
           /\ replies' = Append(replies, Reply(0, IF opened THEN "value" ELSE "error"))
    BY <1>1 DEF Load
  <2> DEFINE reply == Reply(0, IF opened THEN "value" ELSE "error")
  <2>2. reply \in ReplySet /\ reply.result # "workerFull"
    BY DEF Reply, ReplySet, Results, Ids
  <2>3. Len(replies') = 1
    BY <1>0, <1>1, <2>1, <2>2 DEF Load, LoadingInv
  <2>4. CountInv'
    <3>1. Cardinality({0}) = 1
      BY FS_Singleton
    <3>2. /\ pending' = {0}
          /\ high' = <<>> /\ normal' = <<>> /\ requests' = <<>>
      BY <1>0, <1>1 DEF Load, LoadingInv, owner, queues
    <3>3. Len(high') = 0 /\ Len(normal') = 0 /\ Len(requests') = 0
      BY <3>2
    <3>4. OnTheWay' = 1
      BY <2>3, <3>3 DEF OnTheWay
    <3> QED BY <3>1, <3>2, <3>4 DEF CountInv
  <2>5. AcceptedInv'
    BY <1>0, <1>1, <2>1, <2>2, AppendAccepted DEF Load, AcceptedInv, OwnerLimits, owner
  <2> QED BY <1>0, <1>1, <2>1, <2>4, <2>5 DEF LimitInv, Load, LoadingInv, MadeInv, owner
<1>2. CASE Receive
  <2> DEFINE id == Head(requests)
  <2>1. ~WorkerFull
    BY <1>0, <1>2, NeverFull DEF Receive
  <2>2. id \in Calls /\ Len(requests') = Len(requests) - 1
    BY <1>0, <1>2, HeadTailProperties DEF Receive, TypeOK
  <2>3. Len(high') + Len(normal') = Len(high) + Len(normal) + 1
    <3>1. high \in Seq(Calls) /\ normal \in Seq(Calls)
      BY <1>0 DEF TypeOK
    <3>2. \/ high' = Append(high, id) /\ normal' = normal
          \/ high' = high /\ normal' = Append(normal, id)
      BY <1>2, <2>1 DEF Receive
    <3>3. Len(Append(high, id)) = Len(high) + 1 /\ Len(Append(normal, id)) = Len(normal) + 1
      BY <2>2, <3>1, AppendProperties
    <3> QED BY <1>0, <3>2, <3>3, Lengths
  <2>4. UNCHANGED <<replies, owner>> /\ worker = "running" /\ worker' = worker
    BY <1>2, <2>1 DEF Receive
  <2>5. CountInv'
    BY <1>0, <2>2, <2>3, <2>4, Lengths DEF CountInv, OnTheWay, owner
  <2> QED
    BY <1>0, <2>4, <2>5 DEF LimitInv, LoadingInv, MadeInv, AcceptedInv, OwnerLimits, owner
<1>3. CASE processNext
  <2>1. PICK id \in Calls, returned \in BOOLEAN :
           /\ Take(id)
           /\ replies' = Append(replies, Reply(id, IF returned THEN "value" ELSE "error"))
    BY <1>3 DEF processNext
  <2> DEFINE reply == Reply(id, IF returned THEN "value" ELSE "error")
  <2>2. reply \in ReplySet /\ reply.result # "workerFull"
    BY DEF Reply, ReplySet, Results, Ids
  <2>3. Len(replies') = Len(replies) + 1
    BY <1>a, <2>1, <2>2, AppendProperties
  <2>4. Len(high') + Len(normal') = Len(high) + Len(normal) - 1
    BY <1>0, <1>3, <2>1, TakeProperties DEF processNext
  <2>5. UNCHANGED <<owner, requests, worker>> /\ worker = "running"
    BY <1>3 DEF processNext
  <2>6. CountInv'
    <3>1. Len(high') \in Nat /\ Len(normal') \in Nat
      BY <1>0, LenProperties DEF TypeOK
    <3> QED BY <1>0, <2>3, <2>4, <2>5, <3>1, Lengths DEF CountInv, OnTheWay, owner
  <2>7. AcceptedInv'
    BY <1>0, <2>1, <2>2, <2>5, AppendAccepted DEF AcceptedInv, OwnerLimits, owner
  <2> QED BY <1>0, <2>5, <2>6, <2>7 DEF LimitInv, LoadingInv, MadeInv, owner
<1>4. CASE PruneThrows
  BY <1>0, <1>4
  DEF PruneThrows, Ends, LimitInv, LoadingInv, CountInv, MadeInv, AcceptedInv, OwnerLimits, owner
<1>5. ASSUME NEW m \in Methods, call(m) PROVE LimitInv'
  <2>1. nextId \in Ids /\ nextId \in Calls /\ nextId' = nextId + 1 /\ nextId \in Nat
    BY <1>5, LimitAssumption DEF call, Calls, Ids
  <2>2. worker # "loading" /\ UNCHANGED <<replies, worker, high, normal>>
    BY <1>0, <1>5 DEF call, LoadingInv, queues
  <2>3. pending' \subseteq pending \cup {nextId} /\ pending \subseteq Ids
    BY <1>0, <1>5 DEF call, TypeOK
  <2>4. MadeInv'
    <3>1. \A i \in Ids : i \in Nat
      BY LimitAssumption DEF Ids, Calls
    <3> QED BY <1>0, <2>1, <2>3, <3>1 DEF MadeInv
  <2>5. AcceptedInv'
    <3>1. \/ UNCHANGED outcome
          \/ \E o \in {"closed", "full"} : outcome' = [outcome EXCEPT ![nextId] = o]
      BY <1>5 DEF call
    <3>2. outcome \in [Ids -> {"none", "value", "error", "workerFull", "closed", "full", "died"}]
      BY <1>0 DEF TypeOK
    <3>3. OwnerLimits'
      BY <1>0, <2>1, <3>1, <3>2 DEF AcceptedInv, OwnerLimits
    <3> QED BY <1>0, <2>2, <3>3 DEF AcceptedInv
  <2>6. CountInv'
    <3>1. CASE closed \/ Full
      BY <1>0, <1>5, <2>2, <3>1 DEF call, CountInv, OnTheWay
    <3>2. CASE ~(closed \/ Full) /\ worker = "running"
      <4>1. pending' = pending \cup {nextId} /\ requests' = Append(requests, nextId)
        BY <1>5, <3>2 DEF call
      <4>2. nextId \notin pending
        BY <1>0, <2>1 DEF MadeInv
      <4>3. Cardinality(pending') = Cardinality(pending) + 1
        BY <2>1, <2>3, <4>1, <4>2, PendingSize
      <4>4. Len(requests') = Len(requests) + 1
        BY <1>0, <2>1, <4>1, AppendProperties DEF TypeOK
      <4> QED BY <1>0, <2>2, <4>3, <4>4, Lengths DEF CountInv, OnTheWay
    <3> QED BY <2>2, <3>1, <3>2 DEF CountInv
  <2> QED BY <1>0, <2>2, <2>4, <2>5, <2>6 DEF LimitInv, LoadingInv
<1>6. CASE Deliver
  <2> DEFINE reply == Head(replies)
  <2>1. /\ reply \in ReplySet /\ reply.id \in Ids
        /\ replies' = Tail(replies) /\ Len(replies') = Len(replies) - 1
        /\ \A i \in 1..Len(replies') : replies'[i] = replies[i + 1]
        /\ replies' \in Seq(ReplySet)
    <3>1. replies # <<>> /\ replies' = Tail(replies)
      BY <1>6 DEF Deliver
    <3>2. /\ reply \in ReplySet /\ Tail(replies) \in Seq(ReplySet)
          /\ Len(Tail(replies)) = Len(replies) - 1
          /\ \A i \in 1..Len(Tail(replies)) : Tail(replies)[i] = replies[i + 1]
      BY <1>a, <3>1, HeadTailProperties
    <3>3. reply.id \in Ids
      BY <3>2 DEF ReplySet
    <3> QED BY <3>1, <3>2, <3>3
  <2>2. /\ pending' = pending \ {reply.id} /\ pending \in SUBSET Ids
        /\ UNCHANGED <<nextId, requests, worker, high, normal>>
    BY <1>0, <1>6 DEF Deliver, TypeOK, queues
  <2>3. worker # "loading"
    BY <1>0, <1>6 DEF Deliver, LoadingInv
  <2>4. CountInv'
    <3>1. Cardinality(pending') >= Cardinality(pending) - 1 /\ Cardinality(pending') \in Nat
      <4>1. Cardinality(pending) \in Nat
        BY <1>0, Lengths
      <4>2. Cardinality(pending \ {reply.id}) =
               IF reply.id \in pending THEN Cardinality(pending) - 1 ELSE Cardinality(pending)
        BY <2>1, <2>2, PendingSize
      <4>3. Cardinality(pending') \in Nat
        BY <1>0, <2>1, PendingSize DEF TypeOK
      <4> QED BY <2>2, <4>1, <4>2, <4>3
    <3> QED BY <1>0, <2>1, <2>2, <3>1, Lengths DEF CountInv, OnTheWay
  <2>5. AcceptedInv'
    <3>1. DOMAIN replies = 1..Len(replies) /\ DOMAIN replies' = 1..Len(replies')
      BY <1>a, <2>1, LenProperties
    <3>2. Len(replies) \in Nat \ {0}
      BY <1>a, <1>6, EmptySeq DEF Deliver
    <3>3. reply = replies[1]
      BY <1>a, <1>6 DEF Deliver
    <3>4. reply.result # "workerFull"
      BY <1>0, <3>1, <3>2, <3>3 DEF AcceptedInv
    <3>5. outcome' = outcome \/ outcome' = [outcome EXCEPT ![reply.id] = reply.result]
      BY <1>6 DEF Deliver
    <3>6. outcome \in [Ids -> {"none", "value", "error", "workerFull", "closed", "full", "died"}]
      BY <1>0 DEF TypeOK
    <3>7. OwnerLimits'
      BY <1>0, <2>1, <3>4, <3>5, <3>6 DEF AcceptedInv, OwnerLimits
    <3>8. ASSUME NEW i \in 1..Len(replies') PROVE replies'[i].result # "workerFull"
      <4>1. i + 1 \in 1..Len(replies)
        BY <2>1, <3>2
      <4> QED BY <1>0, <2>1, <3>1, <4>1 DEF AcceptedInv
    <3> QED BY <3>1, <3>7, <3>8 DEF AcceptedInv
  <2> QED BY <1>0, <2>2, <2>3, <2>4, <2>5 DEF LimitInv, LoadingInv, MadeInv
<1>7. ASSUME Fail, UNCHANGED replies PROVE AcceptedInv' /\ pending' = {}
  BY <1>0, <1>7 DEF Fail, AcceptedInv, OwnerLimits
<1>8. CASE OnError
  BY <1>0, <1>7, <1>8
  DEF OnError, LimitInv, LoadingInv, CountInv, MadeInv, channels
<1>9. CASE Terminate
  BY <1>0, <1>9
  DEF Terminate, Ends, LimitInv, LoadingInv, CountInv, MadeInv, AcceptedInv, OwnerLimits, owner
<1>10. CASE OnExit
  <2>1. CASE closed
    BY <1>0, <1>10, <2>1
    DEF OnExit, LimitInv, LoadingInv, CountInv, MadeInv, AcceptedInv, OwnerLimits, channels
  <2>2. CASE ~closed
    BY <1>0, <1>7, <1>10, <2>2
    DEF OnExit, LimitInv, LoadingInv, CountInv, MadeInv, channels
  <2> QED BY <2>1, <2>2
<1>11. CASE UNCHANGED vars
  BY <1>0, <1>11
  DEF LimitInv, LoadingInv, CountInv, OnTheWay, MadeInv, AcceptedInv, OwnerLimits,
      vars, owner, channels, queues
<1> QED
  BY <1>1, <1>2, <1>3, <1>4, <1>5, <1>6, <1>8, <1>9, <1>10, <1>11 DEF Next

\* A call that the owner lets in is never turned away by the worker, however
\* the two limits, which count different things, and the messages on their way
\* between the threads stand.
THEOREM OwnerLimitsCorrect == Spec => []OwnerLimits
<1>1. LimitInv => OwnerLimits
  BY DEF LimitInv, AcceptedInv
<1> QED BY LimitInit, LimitStep, <1>1, PTL DEF Spec

-----------------------------------------------------------------------------
(* What close() waits for.                                                  *)

In(x, s) == \E i \in 1..Len(s) : s[i] = x
Increasing(s) == \A i, j \in 1..Len(s) : i < j => s[i] < s[j]

\* Requests are in the order of their calls, wherever they are, but for reads
\* that have overtaken.
OrderInv ==
    /\ Increasing(requests) /\ Increasing(normal)
    /\ \A id, later \in Calls : In(id, normal) /\ In(later, requests) => id < later
    /\ \A id \in Calls : In(id, high) \/ In(id, normal) \/ In(id, requests) => id < nextId
    /\ \A id \in Calls : In(id, high) => method[id] = "read"
    /\ \A i \in 1..Len(replies) : replies[i].id < nextId

\* A running worker has not lost a call: it is on one of the channels or in one
\* of the queues.
PlaceInv ==
    worker = "running" =>
        \A id \in pending : id = 0 \/ InReplies(id) \/ In(id, high) \/ In(id, normal) \/ In(id, requests)

\* Calls are made after the start has been answered, and calls after close()
\* are late.
StartInv ==
    /\ method[0] = "none"
    /\ CloseCalled => outcome[0] = "value"
    /\ outcome[0] = "value" => 0 \notin pending
    /\ \A c, id \in Calls : method[c] = "close" /\ c < id /\ id < nextId => id \in late

\* The answer to close() comes after those to all calls before it.
AnsweredInv ==
    \A i \in 1..Len(replies) :
        replies[i].result = "value" /\ method[replies[i].id] = "close" =>
            \A id \in pending : id < replies[i].id => \E j \in 1..i - 1 : replies[j].id = id

DrainInv == LimitInv /\ OrderInv /\ PlaceInv /\ StartInv /\ AnsweredInv /\ CloseDrains

\* What is in a sequence when one element is added at its end or taken from its
\* front.
LEMMA InAppend ==
    ASSUME NEW S, NEW s \in Seq(S), NEW y \in S
    PROVE  \A x : In(x, Append(s, y)) <=> x = y \/ In(x, s)
<1>1. /\ Len(Append(s, y)) = Len(s) + 1 /\ Append(s, y)[Len(s) + 1] = y
      /\ \A i \in 1..Len(s) : Append(s, y)[i] = s[i]
  OBVIOUS
<1>2. Len(s) \in Nat
  BY LenProperties
<1> QED BY <1>1, <1>2 DEF In

LEMMA InTail ==
    ASSUME NEW S, NEW s \in Seq(S), s # <<>>
    PROVE  /\ \A x : In(x, s) => x = Head(s) \/ In(x, Tail(s))
           /\ \A x : In(x, Tail(s)) => In(x, s)
           /\ In(Head(s), s) /\ Head(s) \in S
<1>1. /\ Len(s) \in Nat \ {0} /\ Head(s) = s[1] /\ Len(Tail(s)) = Len(s) - 1
      /\ \A i \in 1..Len(s) - 1 : Tail(s)[i] = s[i + 1]
      /\ Head(s) \in S
  BY HeadTailProperties, EmptySeq
<1>2. ASSUME NEW i \in 1..Len(s), i # 1 PROVE i - 1 \in 1..Len(s) - 1 /\ Tail(s)[i - 1] = s[i]
  BY <1>1, <1>2
<1>3. ASSUME NEW x, In(x, s), x # Head(s) PROVE In(x, Tail(s))
  <2>1. PICK i \in 1..Len(s) : s[i] = x
    BY <1>3 DEF In
  <2>2. i # 1
    BY <1>1, <1>3, <2>1
  <2> QED BY <1>1, <1>2, <2>1, <2>2 DEF In
<1>4. ASSUME NEW x, In(x, Tail(s)) PROVE In(x, s)
  <2>1. PICK i \in 1..Len(s) - 1 : Tail(s)[i] = x
    BY <1>1, <1>4 DEF In
  <2>2. i + 1 \in 1..Len(s) /\ s[i + 1] = x
    BY <1>1, <2>1
  <2> QED BY <2>2 DEF In
<1> QED BY <1>1, <1>3, <1>4 DEF In

\* An increasing sequence stays so without its first element, which is less
\* than all that are left, and with one that is greater than all.
LEMMA IncreasingTail ==
    ASSUME NEW s \in Seq(Calls), s # <<>>, Increasing(s)
    PROVE  Increasing(Tail(s)) /\ \A x : In(x, Tail(s)) => Head(s) < x
<1>1. /\ Len(s) \in Nat \ {0} /\ Head(s) = s[1] /\ Len(Tail(s)) = Len(s) - 1
      /\ \A i \in 1..Len(s) - 1 : Tail(s)[i] = s[i + 1]
  BY HeadTailProperties, EmptySeq
<1>2. \A i \in 1..Len(s) - 1 : i + 1 \in 1..Len(s) /\ 1 \in 1..Len(s) /\ 1 < i + 1
  BY <1>1
<1>3. Increasing(Tail(s))
  BY <1>1, <1>2 DEF Increasing
<1>4. \A i \in 1..Len(s) - 1 : s[1] < s[i + 1]
  BY <1>2 DEF Increasing
<1> QED BY <1>1, <1>3, <1>4 DEF In

LEMMA IncreasingAppend ==
    ASSUME NEW s \in Seq(Calls), NEW y \in Calls, Increasing(s), \A x \in Calls : In(x, s) => x < y
    PROVE  Increasing(Append(s, y))
<1>1. /\ Len(Append(s, y)) = Len(s) + 1 /\ Append(s, y)[Len(s) + 1] = y
      /\ \A i \in 1..Len(s) : Append(s, y)[i] = s[i] /\ s[i] \in Calls
  OBVIOUS
<1>2. Len(s) \in Nat
  BY LenProperties
<1>3. \A i \in 1..Len(s) : s[i] < y
  BY <1>1 DEF In
<1> QED BY <1>1, <1>2, <1>3 DEF Increasing

\* A reply more: every answer that was there is there, at its place.
LEMMA ReplyAdded ==
    ASSUME TypeOK, NEW r \in ReplySet, replies' = Append(replies, r)
    PROVE  /\ \A id : InReplies(id) => InReplies(id)'
           /\ InReplies(r.id)'
           /\ Len(replies) \in Nat /\ Len(replies') = Len(replies) + 1
           /\ replies'[Len(replies) + 1] = r
           /\ \A i \in 1..Len(replies) : replies'[i] = replies[i]
<1>1. replies \in Seq(ReplySet)
  BY DEF TypeOK, ReplySet, Results
<1>2. /\ Len(replies) \in Nat /\ Len(replies') = Len(replies) + 1
      /\ replies'[Len(replies) + 1] = r
      /\ \A i \in 1..Len(replies) : replies'[i] = replies[i]
  BY <1>1
<1>3. replies' \in Seq(ReplySet)
  BY <1>1
<1>4. DOMAIN replies = 1..Len(replies) /\ DOMAIN replies' = 1..Len(replies')
  BY <1>1, <1>3, LenProperties
<1> QED BY <1>2, <1>4 DEF InReplies


LEMMA DrainInit == Init => DrainInv
<1> SUFFICES ASSUME Init PROVE DrainInv
  OBVIOUS
<1>1. LimitInv
  BY LimitInit
<1>2. ~closed /\ Len(requests) = 0 /\ Len(high) = 0 /\ Len(normal) = 0 /\ Len(replies) = 0
      /\ worker = "loading" /\ outcome[0] = "none" /\ ~CloseCalled
      /\ \A id \in Ids : method[id] = "none"
  BY DEF Init, CloseCalled, Ids
<1>3. OrderInv
  BY <1>2 DEF OrderInv, Increasing, In
<1>4. StartInv
  <2>1. method[0] = "none" /\ \A c \in Calls : method[c] # "close"
    BY <1>2 DEF Ids
  <2> QED BY <1>2, <2>1 DEF StartInv
<1>5. AnsweredInv
  BY <1>2 DEF AnsweredInv
<1> QED BY <1>1, <1>2, <1>3, <1>4, <1>5 DEF DrainInv, PlaceInv, CloseDrains

\* A step of the worker that leaves the owner alone keeps what is about it.
LEMMA OwnerAlone ==
    ASSUME StartInv, CloseDrains, UNCHANGED owner
    PROVE  StartInv' /\ CloseDrains'
BY DEF StartInv, CloseDrains, CloseCalled, owner

LEMMA LoadDrains == DrainInv /\ Load => (OrderInv /\ PlaceInv /\ StartInv /\ AnsweredInv /\ CloseDrains)'
<1> SUFFICES ASSUME DrainInv, Load PROVE (OrderInv /\ PlaceInv /\ StartInv /\ AnsweredInv /\ CloseDrains)'
  OBVIOUS
<1>1. TypeOK /\ LoadingInv /\ OrderInv /\ StartInv /\ CloseDrains
  BY DEF DrainInv, LimitInv
<1>2. pending = {0} /\ Len(high) = 0 /\ Len(normal) = 0 /\ Len(requests) = 0 /\ replies = <<>>
  BY <1>1 DEF Load, LoadingInv
<1>3. PICK result \in {"value", "error"} : replies' = Append(replies, Reply(0, result))
  BY DEF Load
<1>4. Reply(0, result) \in ReplySet /\ Reply(0, result).id = 0
  BY DEF Reply, ReplySet, Results, Ids
<1>5. Len(replies') = 1 /\ replies'[1].id = 0
  BY <1>2, <1>3, <1>4
<1>6. UNCHANGED <<owner, requests, high, normal>>
  BY DEF Load, queues
<1>7. OrderInv'
  <2>1. 0 < nextId
    BY <1>1 DEF TypeOK, LimitAssumption
  <2> QED BY <1>1, <1>5, <1>6, <2>1 DEF OrderInv, owner
<1>8. PlaceInv'
  BY <1>2, <1>6 DEF PlaceInv, owner
<1>9. AnsweredInv'
  BY <1>2, <1>5, <1>6 DEF AnsweredInv, owner
<1> QED BY <1>1, <1>6, <1>7, <1>8, <1>9, OwnerAlone

LEMMA ReceiveDrains == DrainInv /\ Receive => (OrderInv /\ PlaceInv /\ StartInv /\ AnsweredInv /\ CloseDrains)'
<1> SUFFICES ASSUME DrainInv, Receive PROVE (OrderInv /\ PlaceInv /\ StartInv /\ AnsweredInv /\ CloseDrains)'
  OBVIOUS
<1>1. TypeOK /\ CountInv /\ OrderInv /\ PlaceInv /\ StartInv /\ AnsweredInv /\ CloseDrains
  BY DEF DrainInv, LimitInv
<1>2. requests \in Seq(Calls) /\ high \in Seq(Calls) /\ normal \in Seq(Calls)
  BY <1>1 DEF TypeOK, IdSeq
<1>3. ~WorkerFull /\ worker = "running" /\ requests # <<>>
  BY <1>1, NeverFull DEF Receive
<1> DEFINE id == Head(requests)
<1>4. /\ requests' = Tail(requests)
      /\ high' = IF IsHigh(id) THEN Append(high, id) ELSE high
      /\ normal' = IF IsHigh(id) THEN normal ELSE Append(normal, id)
      /\ UNCHANGED <<owner, replies, worker>>
  BY <1>3 DEF Receive
<1>5. /\ \A x : In(x, requests) => x = id \/ In(x, Tail(requests))
      /\ \A x : In(x, Tail(requests)) => In(x, requests)
      /\ In(id, requests) /\ id \in Calls
  BY <1>2, <1>3, InTail
<1>6. Increasing(Tail(requests)) /\ \A x : In(x, Tail(requests)) => id < x
  BY <1>1, <1>2, <1>3, IncreasingTail DEF OrderInv
<1> HIDE DEF id
<1>7. /\ \A x : In(x, Append(high, id)) <=> x = id \/ In(x, high)
      /\ \A x : In(x, Append(normal, id)) <=> x = id \/ In(x, normal)
  BY <1>2, <1>5, InAppend
<1>8. Increasing(normal')
  <2>1. \A x \in Calls : In(x, normal) => x < id
    BY <1>1, <1>5 DEF OrderInv
  <2>2. Increasing(Append(normal, id)) /\ Increasing(normal)
    BY <1>1, <1>2, <1>5, <2>1, IncreasingAppend DEF OrderInv
  <2> QED BY <1>4, <2>2
<1>9. OrderInv'
  <2>1. \A x, later \in Calls : In(x, normal') /\ In(later, requests') => x < later
    BY <1>1, <1>4, <1>5, <1>6, <1>7 DEF OrderInv
  <2>2. \A x \in Calls : In(x, high') \/ In(x, normal') \/ In(x, requests') => x < nextId'
    BY <1>1, <1>4, <1>5, <1>7 DEF OrderInv, owner
  <2>3. \A i \in 1..Len(replies') : replies'[i].id < nextId'
    BY <1>1, <1>4 DEF OrderInv, owner
  <2>4. \A x \in Calls : In(x, high') => method'[x] = "read"
    BY <1>1, <1>4, <1>7 DEF OrderInv, owner, IsHigh, highMethods
  <2> QED BY <1>4, <1>6, <1>8, <2>1, <2>2, <2>3, <2>4 DEF OrderInv
<1>10. PlaceInv'
  <2>1. \A x : InReplies(x) <=> InReplies(x)'
    BY <1>4 DEF InReplies
  <2> QED BY <1>1, <1>3, <1>4, <1>5, <1>7, <2>1 DEF PlaceInv, owner
<1>11. AnsweredInv'
  BY <1>1, <1>4 DEF AnsweredInv, owner
<1> QED BY <1>1, <1>4, <1>9, <1>10, <1>11, OwnerAlone

\* Before close() is executed, all that came before it has been.
LEMMA ProcessDrains == DrainInv /\ processNext => (OrderInv /\ PlaceInv /\ StartInv /\ AnsweredInv /\ CloseDrains)'
<1> SUFFICES ASSUME DrainInv, processNext PROVE (OrderInv /\ PlaceInv /\ StartInv /\ AnsweredInv /\ CloseDrains)'
  OBVIOUS
<1>1. TypeOK /\ OrderInv /\ PlaceInv /\ StartInv /\ AnsweredInv /\ CloseDrains
      /\ worker = "running" /\ pending \subseteq Ids
  BY DEF DrainInv, LimitInv, TypeOK, processNext
<1>2. high \in Seq(Calls) /\ normal \in Seq(Calls)
  BY <1>1 DEF TypeOK, IdSeq
<1>3. PICK id \in Calls, result \in {"value", "error"} :
        Take(id) /\ replies' = Append(replies, Reply(id, result))
  BY DEF processNext
<1>4. UNCHANGED <<owner, requests, worker>> /\ (high # <<>> \/ normal # <<>>)
  BY DEF processNext
<1> DEFINE r == Reply(id, result)
<1>5. r \in ReplySet /\ r.id = id /\ r.result = result
  BY DEF Reply, ReplySet, Results, Ids
<1> HIDE DEF r
<1>6. /\ \A x : InReplies(x) => InReplies(x)'
      /\ InReplies(id)'
      /\ Len(replies) \in Nat /\ Len(replies') = Len(replies) + 1
      /\ replies'[Len(replies) + 1] = r
      /\ \A i \in 1..Len(replies) : replies'[i] = replies[i]
  <2>1. replies' = Append(replies, r)
    BY <1>3 DEF r
  <2> QED BY <1>1, <1>5, <2>1, ReplyAdded
<1>7. ASSUME NEW s \in Seq(Calls), s # <<>>
      PROVE  /\ \A x : In(x, s) => x = Head(s) \/ In(x, Tail(s))
             /\ \A x : In(x, Tail(s)) => In(x, s)
             /\ In(Head(s), s)
  BY <1>7, InTail
<1>8. /\ \A x : In(x, high) => x = id \/ In(x, high')
      /\ \A x : In(x, high') => In(x, high)
      /\ \A x : In(x, normal) => x = id \/ In(x, normal')
      /\ \A x : In(x, normal') => In(x, normal)
      /\ In(id, high) \/ In(id, normal)
  <2>1. CASE high # <<>>
    <3>1. id = Head(high) /\ high' = Tail(high) /\ normal' = normal
      BY <1>3, <2>1 DEF Take
    <3>2. /\ \A x : In(x, high) => x = Head(high) \/ In(x, Tail(high))
          /\ \A x : In(x, Tail(high)) => In(x, high)
          /\ In(Head(high), high)
      BY <1>2, <1>7, <2>1
    <3> QED BY <3>1, <3>2
  <2>2. CASE high = <<>>
    <3>1. id = Head(normal) /\ normal' = Tail(normal) /\ high' = high /\ normal # <<>>
      BY <1>3, <1>4, <2>2 DEF Take
    <3>2. /\ \A x : In(x, normal) => x = Head(normal) \/ In(x, Tail(normal))
          /\ \A x : In(x, Tail(normal)) => In(x, normal)
          /\ In(Head(normal), normal)
      BY <1>2, <1>7, <3>1
    <3> QED BY <3>1, <3>2
  <2> QED BY <2>1, <2>2
<1>9. Increasing(normal')
  <2>1. CASE high # <<>>
    BY <1>1, <1>3, <2>1 DEF Take, OrderInv
  <2>2. CASE high = <<>>
    BY <1>1, <1>2, <1>3, <1>4, <2>2, IncreasingTail DEF Take, OrderInv
  <2> QED BY <2>1, <2>2
<1>10. OrderInv'
  <2>1. \A x, later \in Calls : In(x, normal') /\ In(later, requests') => x < later
    BY <1>1, <1>4, <1>8 DEF OrderInv
  <2>2. \A x \in Calls : In(x, high') \/ In(x, normal') \/ In(x, requests') => x < nextId'
    BY <1>1, <1>4, <1>8 DEF OrderInv, owner
  <2>3. id < nextId
    BY <1>1, <1>8 DEF OrderInv
  <2>4. \A i \in 1..Len(replies') : replies'[i].id < nextId'
    BY <1>1, <1>4, <1>5, <1>6, <2>3 DEF OrderInv, owner
  <2>5. \A x \in Calls : In(x, high') => method'[x] = "read"
    BY <1>1, <1>4, <1>8 DEF OrderInv, owner
  <2> QED BY <1>1, <1>4, <1>9, <2>1, <2>2, <2>4, <2>5 DEF OrderInv
<1>11. PlaceInv'
  BY <1>1, <1>4, <1>6, <1>8 DEF PlaceInv, owner
<1>12. ASSUME method[id] = "close", NEW x \in pending, x < id
       PROVE  InReplies(x)
  <2>1. x # 0 /\ x \in Calls
    BY <1>1, <1>12 DEF StartInv, CloseCalled, Ids
  <2>2. high = <<>>
    <3>1. ~In(id, high)
      BY <1>1, <1>12 DEF OrderInv
    <3>2. ASSUME high # <<>> PROVE In(Head(high), high)
      BY <1>2, <1>7, <3>2
    <3> QED BY <1>3, <3>1, <3>2 DEF Take
  <2>3. id = Head(normal) /\ \A y : In(y, Tail(normal)) => id < y
    BY <1>1, <1>2, <1>3, <1>4, <2>2, IncreasingTail DEF Take, OrderInv
  <2>4. ~In(x, normal)
    BY <1>2, <1>4, <1>7, <1>12, <2>1, <2>2, <2>3 DEF Calls
  <2>5. ~In(x, requests)
    BY <1>1, <1>8, <1>12, <2>1, <2>2 DEF OrderInv, In, Calls
  <2>6. ~In(x, high)
    BY <2>2 DEF In
  <2> QED BY <1>1, <2>1, <2>4, <2>5, <2>6 DEF PlaceInv
<1>13. AnsweredInv'
  <2> SUFFICES ASSUME NEW i \in 1..Len(replies'), replies'[i].result = "value",
                      method[replies'[i].id] = "close", NEW x \in pending, x < replies'[i].id
               PROVE  \E j \in 1..i - 1 : replies'[j].id = x
    BY <1>4 DEF AnsweredInv, owner
  <2>1. CASE i \in 1..Len(replies)
    <3>1. \E j \in 1..i - 1 : replies[j].id = x
      BY <1>1, <1>6, <2>1 DEF AnsweredInv
    <3> QED BY <1>6, <2>1, <3>1
  <2>2. CASE i = Len(replies) + 1
    <3>1. InReplies(x)
      BY <1>5, <1>6, <1>12, <2>2
    <3>2. DOMAIN replies = 1..Len(replies)
      BY <1>1, LenProperties DEF TypeOK
    <3> QED BY <1>6, <2>2, <3>1, <3>2 DEF InReplies
  <2> QED BY <1>6, <2>1, <2>2
<1> QED BY <1>1, <1>4, <1>10, <1>11, <1>13, OwnerAlone

\* A call comes after all that are on their way, and after close() it is late.
LEMMA CallDrains ==
    ASSUME DrainInv, NEW m \in Methods, call(m)
    PROVE  (OrderInv /\ PlaceInv /\ StartInv /\ AnsweredInv /\ CloseDrains)'
<1>1. TypeOK /\ OrderInv /\ PlaceInv /\ StartInv /\ AnsweredInv /\ CloseDrains /\ MadeInv
      /\ pending \subseteq Ids
  BY DEF DrainInv, LimitInv, TypeOK
<1>2. /\ outcome[0] = "value" /\ nextId \in Calls /\ nextId' = nextId + 1
      /\ method' = [method EXCEPT ![nextId] = m]
      /\ late' = IF CloseCalled \/ worker = "gone" THEN late \cup {nextId} ELSE late
      /\ UNCHANGED <<closed, replies, worker, high, normal>>
  BY DEF call, queues
<1>3. /\ nextId \in Nat \ {0} /\ method \in [Ids -> Methods \cup {"none"}]
      /\ Calls \subseteq Nat \ {0} /\ Calls \subseteq Ids /\ 0 \in Ids /\ Ids \subseteq Nat
  BY <1>1, <1>2, LimitAssumption DEF TypeOK, Calls, Ids
<1>4. /\ pending' = pending \/ (~closed /\ pending' = pending \cup {nextId})
      /\ requests' = requests \/ requests' = Append(requests, nextId)
      /\ worker = "running" /\ pending' # pending => requests' = Append(requests, nextId)
  BY DEF call
<1>5. requests \in Seq(Calls) /\ replies \in Seq(ReplySet)
  BY <1>1 DEF TypeOK, IdSeq, ReplySet, Results
<1>6. \A x : In(x, Append(requests, nextId)) <=> x = nextId \/ In(x, requests)
  BY <1>2, <1>5, InAppend
<1>7. \A x \in Calls : x < nextId => x # nextId /\ x < nextId' /\ method'[x] = method[x]
  BY <1>2, <1>3
<1>8. OrderInv'
  <2>1. Increasing(requests') /\ Increasing(normal')
    <3>1. Increasing(requests) /\ \A x \in Calls : In(x, requests) => x < nextId
      BY <1>1 DEF OrderInv
    <3>2. Increasing(Append(requests, nextId))
      BY <1>2, <1>5, <3>1, IncreasingAppend
    <3> QED BY <1>1, <1>2, <1>4, <3>1, <3>2 DEF OrderInv
  <2>2. \A x, later \in Calls : In(x, normal') /\ In(later, requests') => x < later
    BY <1>1, <1>2, <1>4, <1>6 DEF OrderInv
  <2>3. \A x \in Calls : In(x, high') \/ In(x, normal') \/ In(x, requests') => x < nextId'
    <3>1. \A x : In(x, requests') => x = nextId \/ In(x, requests)
      BY <1>4, <1>6
    <3>2. nextId < nextId'
      BY <1>2, <1>3
    <3> QED BY <1>1, <1>2, <1>7, <3>1, <3>2 DEF OrderInv
  <2>4. \A x \in Calls : In(x, high') => method'[x] = "read"
    BY <1>1, <1>2, <1>7 DEF OrderInv
  <2>5. ASSUME NEW i \in 1..Len(replies') PROVE replies'[i].id < nextId'
    <3>1. i \in 1..Len(replies) /\ replies'[i] = replies[i]
      BY <1>2
    <3>2. replies[i] \in ReplySet
      BY <1>5, <3>1, ElementOfSeq
    <3>3. replies[i].id \in Nat /\ replies[i].id < nextId
      BY <1>1, <1>3, <3>1, <3>2 DEF OrderInv, ReplySet
    <3> QED BY <1>2, <1>3, <3>1, <3>3
  <2> QED BY <2>1, <2>2, <2>3, <2>4, <2>5 DEF OrderInv
<1>9. PlaceInv'
  <2>1. \A x : InReplies(x) <=> InReplies(x)'
    BY <1>2 DEF InReplies
  <2> QED BY <1>1, <1>2, <1>4, <1>6, <2>1 DEF PlaceInv
<1>10. StartInv'
  <2>1. outcome'[0] = outcome[0]
    BY <1>1, <1>2, <1>3 DEF call, TypeOK
  <2>2. 0 \notin pending'
    BY <1>1, <1>2, <1>3, <1>4 DEF StartInv
  <2>3. ASSUME NEW c \in Calls, NEW id \in Calls, method'[c] = "close", c < id, id < nextId'
        PROVE  id \in late'
    <3>1. c < nextId /\ method[c] = "close"
      BY <1>2, <1>3, <1>7, <2>3
    <3>2. CloseCalled
      BY <3>1 DEF CloseCalled
    <3>3. id < nextId \/ id = nextId
      BY <1>2, <1>3, <2>3
    <3> QED BY <1>1, <1>2, <2>3, <3>1, <3>2, <3>3 DEF StartInv
  <2>4. method'[0] = "none"
    BY <1>1, <1>2, <1>3 DEF StartInv
  <2> QED BY <1>2, <2>1, <2>2, <2>3, <2>4 DEF StartInv
<1>11. AnsweredInv'
  <2> SUFFICES ASSUME NEW i \in 1..Len(replies), replies[i].result = "value",
                      method'[replies[i].id] = "close", NEW x \in pending', x < replies[i].id
               PROVE  \E j \in 1..i - 1 : replies[j].id = x
    BY <1>2 DEF AnsweredInv
  <2> DEFINE c == replies[i].id
  <2>1. c \in Ids /\ c < nextId
    <3>1. replies[i] \in ReplySet
      BY <1>5, ElementOfSeq
    <3> QED BY <1>1, <3>1 DEF OrderInv, ReplySet
  <2>2. method[c] = "close" /\ x # nextId
    <3> HIDE DEF c
    <3>1. c # nextId /\ ~(nextId < c)
      BY <1>3, <2>1
    <3>2. method'[c] = method[c]
      BY <1>2, <1>3, <2>1, <3>1
    <3>3. method'[c] = "close" /\ x < c
      BY DEF c
    <3> QED BY <3>1, <3>2, <3>3
  <2> QED BY <1>1, <1>4, <2>2 DEF AnsweredInv
<1>12. CloseDrains'
  BY <1>1, <1>2, <1>4 DEF CloseDrains
<1> QED BY <1>8, <1>9, <1>10, <1>11, <1>12

\* When the answer to close() is delivered, those to all calls before it have
\* been.
LEMMA DeliverDrains == DrainInv /\ Deliver => (OrderInv /\ PlaceInv /\ StartInv /\ AnsweredInv /\ CloseDrains)'
<1> SUFFICES ASSUME DrainInv, Deliver PROVE (OrderInv /\ PlaceInv /\ StartInv /\ AnsweredInv /\ CloseDrains)'
  OBVIOUS
<1>1. TypeOK /\ OrderInv /\ PlaceInv /\ StartInv /\ AnsweredInv /\ CloseDrains /\ MadeInv
      /\ pending \subseteq Ids
  BY DEF DrainInv, LimitInv, TypeOK
<1>2. replies \in Seq(ReplySet) /\ replies # <<>>
  BY <1>1 DEF TypeOK, Deliver, ReplySet, Results
<1> DEFINE reply == Head(replies)
<1>3. /\ pending' = pending \ {reply.id}
      /\ outcome' = IF reply.id \in pending
                    THEN [outcome EXCEPT ![reply.id] = reply.result] ELSE outcome
      /\ closed' = (closed \/ (/\ reply.id \in pending
                               /\ method[reply.id] = "close" /\ reply.result = "value"))
      /\ replies' = Tail(replies)
      /\ UNCHANGED <<nextId, method, late, requests, worker, high, normal>>
  BY DEF Deliver, queues
<1>4. /\ Len(replies) \in Nat \ {0} /\ reply = replies[1] /\ Len(replies') = Len(replies) - 1
      /\ \A i \in 1..Len(replies) - 1 : replies'[i] = replies[i + 1]
      /\ reply \in ReplySet /\ replies' \in Seq(ReplySet)
  BY <1>2, <1>3, HeadTailProperties, EmptySeq
<1> HIDE DEF reply
<1>5. ASSUME NEW i \in 1..Len(replies), i # 1
      PROVE  i - 1 \in 1..Len(replies') /\ replies'[i - 1] = replies[i]
  BY <1>4, <1>5
<1>6. \A i \in 1..Len(replies') : i + 1 \in 1..Len(replies) /\ replies'[i] = replies[i + 1]
  BY <1>4
<1>7. OrderInv'
  BY <1>1, <1>3, <1>6 DEF OrderInv
<1>8. PlaceInv'
  <2>1. ASSUME NEW x \in pending', InReplies(x) PROVE InReplies(x)'
    <3>1. PICK i \in 1..Len(replies) : replies[i].id = x
      BY <1>2, <2>1, LenProperties DEF InReplies
    <3>2. i # 1
      BY <1>3, <1>4, <2>1, <3>1
    <3>3. DOMAIN replies' = 1..Len(replies')
      BY <1>4, LenProperties
    <3> QED BY <1>5, <3>1, <3>2, <3>3 DEF InReplies
  <2> QED BY <1>1, <1>3, <2>1 DEF PlaceInv
<1>9. StartInv'
  <2>1. reply.id \in Ids /\ outcome \in [Ids -> {"none", "value", "error", "workerFull", "closed", "full", "died"}]
    BY <1>1, <1>4 DEF TypeOK, ReplySet
  <2>2. CloseCalled' <=> CloseCalled
    BY <1>3 DEF CloseCalled
  <2>3. CloseCalled => outcome'[0] = "value"
    BY <1>1, <1>3, <2>1 DEF StartInv, Ids
  <2>4. outcome'[0] = "value" => 0 \notin pending'
    BY <1>1, <1>3, <2>1 DEF StartInv, Ids
  <2> QED BY <1>1, <1>3, <2>2, <2>3, <2>4 DEF StartInv
<1>10. AnsweredInv'
  <2> SUFFICES ASSUME NEW i \in 1..Len(replies'), replies'[i].result = "value",
                      method[replies'[i].id] = "close", NEW x \in pending', x < replies'[i].id
               PROVE  \E j \in 1..i - 1 : replies'[j].id = x
    BY <1>3 DEF AnsweredInv
  <2>1. PICK j \in 1..(i + 1) - 1 : replies[j].id = x
    BY <1>1, <1>3, <1>6 DEF AnsweredInv
  <2>2. j # 1
    BY <1>3, <1>4, <2>1
  <2>3. j \in 1..Len(replies) /\ j - 1 \in 1..i - 1
    BY <1>4, <2>1, <2>2
  <2> QED BY <1>5, <2>1, <2>2, <2>3
<1>11. CloseDrains'
  <2>1. CASE closed' = closed
    BY <1>1, <1>3, <2>1 DEF CloseDrains
  <2>2. CASE closed' # closed
    <3>1. reply.id \in pending /\ method[reply.id] = "close" /\ reply.result = "value"
      BY <1>1, <1>3, <2>2 DEF TypeOK
    <3>2. ASSUME NEW x \in pending' PROVE x \in late'
      <4>1. ~(x < reply.id)
        BY <1>1, <1>3, <1>4, <3>1 DEF AnsweredInv
      <4>2. x \in Ids /\ reply.id \in Ids /\ Ids \subseteq Nat /\ x # reply.id
        <5>1. x \in Ids /\ x # reply.id
          BY <1>1, <1>3
        <5>2. reply.id \in Ids
          BY <1>4 DEF ReplySet
        <5>3. Ids \subseteq Nat
          BY LimitAssumption DEF Ids, Calls
        <5> QED BY <5>1, <5>2, <5>3
      <4>3. reply.id # 0
        BY <1>1, <3>1 DEF StartInv
      <4>4. x < nextId /\ reply.id < x /\ x \in Calls /\ reply.id \in Calls
        BY <1>1, <1>3, <4>1, <4>2, <4>3 DEF MadeInv, Ids
      <4> QED BY <1>1, <1>3, <3>1, <4>4 DEF StartInv
    <3> QED BY <3>2 DEF CloseDrains
  <2> QED BY <2>1, <2>2
<1> QED BY <1>7, <1>8, <1>9, <1>10, <1>11

\* The end of the worker, expected or not, takes pending calls away or leaves
\* them as they are.
LEMMA EndDrains ==
    DrainInv /\ (PruneThrows \/ OnError \/ Terminate \/ OnExit)
        => (OrderInv /\ PlaceInv /\ StartInv /\ AnsweredInv /\ CloseDrains)'
<1> SUFFICES ASSUME DrainInv, PruneThrows \/ OnError \/ Terminate \/ OnExit
             PROVE  (OrderInv /\ PlaceInv /\ StartInv /\ AnsweredInv /\ CloseDrains)'
  OBVIOUS
<1>1. TypeOK /\ OrderInv /\ PlaceInv /\ StartInv /\ AnsweredInv /\ CloseDrains
  BY DEF DrainInv, LimitInv
<1>2. /\ worker' # "running" /\ UNCHANGED <<nextId, method, closed, late, replies>>
      /\ UNCHANGED <<pending, outcome>> \/ Fail
  BY DEF PruneThrows, OnError, Terminate, OnExit, Ends, owner, channels
<1>3. /\ UNCHANGED requests \/ requests' = <<>>
      /\ UNCHANGED high \/ high' = <<>>
      /\ UNCHANGED normal \/ normal' = <<>>
  BY DEF PruneThrows, OnError, Terminate, OnExit, Ends, channels, queues
<1>4. Len(<<>>) = 0 /\ (\A x : ~In(x, <<>>)) /\ Increasing(<<>>)
  BY DEF In, Increasing
<1>5. OrderInv'
  BY <1>1, <1>2, <1>3, <1>4 DEF OrderInv
<1>6. pending' \subseteq pending
  BY <1>2 DEF Fail
<1>7. StartInv'
  <2>1. CloseCalled' <=> CloseCalled
    BY <1>2 DEF CloseCalled
  <2>2. outcome[0] = "value" => outcome'[0] = "value"
    BY <1>1, <1>2 DEF StartInv, Fail, Ids
  <2>3. outcome'[0] = "value" => 0 \notin pending'
    BY <1>1, <1>2 DEF StartInv, Fail
  <2> QED BY <1>1, <1>2, <2>1, <2>2, <2>3 DEF StartInv
<1> QED BY <1>1, <1>2, <1>5, <1>6, <1>7 DEF PlaceInv, AnsweredInv, CloseDrains

LEMMA DrainStep == DrainInv /\ [Next]_vars => DrainInv'
<1> SUFFICES ASSUME DrainInv, [Next]_vars PROVE DrainInv'
  OBVIOUS
<1>1. LimitInv'
  BY LimitStep DEF DrainInv
<1>2. (OrderInv /\ PlaceInv /\ StartInv /\ AnsweredInv /\ CloseDrains)'
  <2>1. CASE Load
    BY <2>1, LoadDrains
  <2>2. CASE Receive
    BY <2>2, ReceiveDrains
  <2>3. CASE processNext
    BY <2>3, ProcessDrains
  <2>4. CASE \E m \in Methods : call(m)
    BY <2>4, CallDrains
  <2>5. CASE Deliver
    BY <2>5, DeliverDrains
  <2>6. CASE PruneThrows \/ OnError \/ Terminate \/ OnExit
    BY <2>6, EndDrains
  <2>7. CASE UNCHANGED vars
    BY <2>7
    DEF DrainInv, OrderInv, PlaceInv, StartInv, AnsweredInv, CloseDrains, CloseCalled,
        InReplies, vars, owner, channels, queues
  <2> QED BY <2>1, <2>2, <2>3, <2>4, <2>5, <2>6, <2>7 DEF Next
<1> QED BY <1>1, <1>2 DEF DrainInv

\* When close() is done, every call made before it has been answered, although
\* reads overtake it, for any queue limit and any number of calls.
THEOREM CloseDrainsCorrect == Spec => []CloseDrains
<1>1. DrainInv => CloseDrains
  BY DEF DrainInv
<1> QED BY DrainInit, DrainStep, <1>1, PTL DEF Spec

-----------------------------------------------------------------------------
(* The facade implements the service.                                       *)

Queued(id) == In(id, high) \/ In(id, normal) \/ In(id, requests)

\* Reads are in the order of their calls too, and each request that waits is
\* that of a pending call whose answer is not on its way.
QueueInv ==
    worker = "running" =>
        /\ Increasing(high)
        /\ \A id, later \in Calls : In(id, high) /\ In(later, requests) => id < later
        /\ \A id \in Calls : In(id, normal) => method[id] # "read"
        /\ \A id \in Calls : Queued(id) => id \in pending /\ ~InReplies(id)

\* A pending promise is not settled, nor is one that has not been made.
OutcomeInv ==
    /\ \A id \in pending : outcome[id] = "none"
    /\ \A id \in Calls : id >= nextId => outcome[id] = "none"

ServeInv == DrainInv /\ QueueInv /\ OutcomeInv

LEMMA ServeInit == Init => ServeInv
<1> SUFFICES ASSUME Init PROVE ServeInv
  OBVIOUS
<1>1. DrainInv
  BY DrainInit
<1>2. QueueInv /\ OutcomeInv
  BY DEF Init, QueueInv, OutcomeInv, Ids
<1> QED BY <1>1, <1>2 DEF ServeInv

\* The outcomes of pending calls are written once.
LEMMA OutcomeStep == DrainInv /\ OutcomeInv /\ [Next]_vars => OutcomeInv'
<1> SUFFICES ASSUME DrainInv, OutcomeInv, [Next]_vars PROVE OutcomeInv'
  OBVIOUS
<1>1. TypeOK /\ MadeInv /\ OrderInv /\ pending \subseteq Ids /\ nextId \in Nat
      /\ outcome \in [Ids -> {"none", "value", "error", "workerFull", "closed", "full", "died"}]
      /\ Ids \subseteq Nat /\ Calls \subseteq Ids
  BY LimitAssumption DEF DrainInv, LimitInv, TypeOK, Ids, Calls
<1>2. CASE UNCHANGED owner
  BY <1>2 DEF OutcomeInv, owner
<1>3. ASSUME NEW m \in Methods, call(m) PROVE OutcomeInv'
  <2>1. nextId \in Calls /\ nextId' = nextId + 1 /\ nextId \notin pending
    BY <1>1, <1>3 DEF call, MadeInv
  <2>2. CASE UNCHANGED outcome
    <3>1. pending' \subseteq pending \cup {nextId} /\ outcome[nextId] = "none"
      BY <1>1, <1>3, <2>1 DEF call, OutcomeInv
    <3> QED BY <1>1, <2>1, <2>2, <3>1 DEF OutcomeInv
  <2>3. CASE ~UNCHANGED outcome
    <3>1. pending' = pending /\ \E to \in {"closed", "full"} : outcome' = [outcome EXCEPT ![nextId] = to]
      BY <1>3, <2>3 DEF call
    <3> QED BY <1>1, <2>1, <3>1 DEF OutcomeInv
  <2> QED BY <2>2, <2>3
<1>4. CASE Deliver
  <2> DEFINE reply == Head(replies)
  <2>1. /\ pending' = pending \ {reply.id} /\ UNCHANGED nextId
        /\ outcome' = outcome \/ (/\ reply.id \in pending
                                  /\ outcome' = [outcome EXCEPT ![reply.id] = reply.result])
    BY <1>4 DEF Deliver
  <2> HIDE DEF reply
  <2>2. \A id \in Calls : id >= nextId => id \notin pending
    BY <1>1 DEF MadeInv
  <2> QED BY <1>1, <2>1, <2>2 DEF OutcomeInv
<1>5. CASE OnError \/ OnExit
  <2>1. UNCHANGED nextId /\ (UNCHANGED <<pending, outcome>> \/ Fail)
    BY <1>5 DEF OnError, OnExit
  <2>2. \A id \in Calls : id >= nextId => id \notin pending
    BY <1>1 DEF MadeInv
  <2> QED BY <1>1, <2>1, <2>2 DEF OutcomeInv, Fail
<1>6. CASE Load \/ Receive \/ processNext \/ PruneThrows \/ Terminate \/ UNCHANGED vars
  BY <1>2, <1>6 DEF Load, Receive, processNext, PruneThrows, Terminate, vars
<1> QED BY <1>3, <1>4, <1>5, <1>6 DEF Next

\* The request that the worker takes is the first of its queue, and it is in no
\* other place.
LEMMA TakenOnce ==
    ASSUME ServeInv, worker = "running", high # <<>> \/ normal # <<>>,
           NEW id \in Calls, Take(id)
    PROVE  /\ Queued(id)
           /\ ~In(id, high') /\ ~In(id, normal') /\ ~In(id, requests)
           /\ \A x : In(x, high') => In(x, high)
           /\ \A x : In(x, normal') => In(x, normal)
           /\ \A x : In(x, high) \/ In(x, normal) => x = id \/ In(x, high') \/ In(x, normal')
           /\ Increasing(high')
<1>1. high \in Seq(Calls) /\ normal \in Seq(Calls) /\ OrderInv /\ QueueInv /\ Calls \subseteq Nat
  BY LimitAssumption DEF ServeInv, DrainInv, LimitInv, TypeOK, IdSeq, Calls
<1>2. ASSUME NEW s \in Seq(Calls), s # <<>>, Increasing(s)
      PROVE  /\ \A x : In(x, s) => x = Head(s) \/ In(x, Tail(s))
             /\ \A x : In(x, Tail(s)) => In(x, s)
             /\ In(Head(s), s) /\ ~In(Head(s), Tail(s)) /\ Increasing(Tail(s))
  <2>1. /\ \A x : In(x, s) => x = Head(s) \/ In(x, Tail(s))
        /\ \A x : In(x, Tail(s)) => In(x, s)
        /\ In(Head(s), s) /\ Head(s) \in Calls
    BY <1>2, InTail
  <2>2. Increasing(Tail(s)) /\ \A x : In(x, Tail(s)) => Head(s) < x
    BY <1>2, IncreasingTail
  <2>3. ~(Head(s) < Head(s))
    <3>1. \A n \in Nat : ~(n < n)
      OBVIOUS
    <3>2. Head(s) \in Nat
      BY <1>1, <2>1, Zenon
    <3> QED BY <3>1, <3>2, Zenon
  <2> QED BY <2>1, <2>2, <2>3
<1>3. CASE high # <<>>
  <2>1. id = Head(high) /\ high' = Tail(high) /\ normal' = normal
    BY <1>3 DEF Take
  <2>2. Increasing(high)
    BY <1>1 DEF QueueInv
  <2>3. /\ \A x : In(x, high) => x = id \/ In(x, high')
        /\ \A x : In(x, high') => In(x, high)
        /\ In(id, high) /\ ~In(id, high') /\ Increasing(high')
    BY <1>1, <1>2, <1>3, <2>1, <2>2
  <2>4. ~In(id, normal)
    BY <1>1, <2>3 DEF QueueInv, OrderInv
  <2>5. ~In(id, requests)
    BY <1>1, <2>3 DEF QueueInv
  <2> QED BY <2>1, <2>3, <2>4, <2>5 DEF Queued
<1>4. CASE high = <<>>
  <2>1. id = Head(normal) /\ normal' = Tail(normal) /\ high' = high /\ normal # <<>>
    BY <1>4 DEF Take
  <2>2. Increasing(normal) /\ Increasing(high)
    BY <1>1 DEF QueueInv, OrderInv
  <2>3. /\ \A x : In(x, normal) => x = id \/ In(x, normal')
        /\ \A x : In(x, normal') => In(x, normal)
        /\ In(id, normal) /\ ~In(id, normal')
    BY <1>1, <1>2, <2>1, <2>2
  <2>4. ~In(id, high)
    BY <1>1, <2>3 DEF QueueInv, OrderInv
  <2>5. ~In(id, requests)
    BY <1>1, <2>3 DEF OrderInv
  <2> QED BY <2>1, <2>2, <2>3, <2>4, <2>5 DEF Queued
<1> QED BY <1>3, <1>4

LEMMA QueueStep == ServeInv /\ [Next]_vars => QueueInv'
<1> SUFFICES ASSUME ServeInv, [Next]_vars, worker' = "running" PROVE QueueInv'
  BY DEF QueueInv
<1>1. TypeOK /\ MadeInv /\ LoadingInv /\ CountInv /\ OrderInv /\ QueueInv
      /\ pending \subseteq Ids /\ nextId \in Nat
      /\ Ids \subseteq Nat /\ Calls \subseteq Ids /\ 0 \notin Calls
  BY LimitAssumption DEF ServeInv, DrainInv, LimitInv, TypeOK, Ids, Calls
<1>2. high \in Seq(Calls) /\ normal \in Seq(Calls) /\ requests \in Seq(Calls)
      /\ replies \in Seq(ReplySet)
  BY <1>1 DEF TypeOK, IdSeq, ReplySet, Results
<1>3. CASE Load
  <2>1. Len(high') = 0 /\ Len(normal') = 0 /\ Len(requests') = 0
    BY <1>1, <1>3 DEF Load, LoadingInv, queues
  <2> QED BY <2>1 DEF QueueInv, Queued, In, Increasing
<1>4. CASE Receive
  <2>1. worker = "running" /\ requests # <<>> /\ ~WorkerFull
    BY <1>1, <1>4, NeverFull DEF Receive
  <2> DEFINE id == Head(requests)
  <2>2. /\ requests' = Tail(requests)
        /\ high' = IF IsHigh(id) THEN Append(high, id) ELSE high
        /\ normal' = IF IsHigh(id) THEN normal ELSE Append(normal, id)
        /\ UNCHANGED <<owner, replies, worker>>
    BY <1>4, <2>1 DEF Receive
  <2>3. /\ \A x : In(x, Tail(requests)) => In(x, requests)
        /\ In(id, requests) /\ id \in Calls
        /\ \A x : In(x, Tail(requests)) => id < x
    BY <1>1, <1>2, <2>1, InTail, IncreasingTail DEF OrderInv
  <2> HIDE DEF id
  <2>4. /\ \A x : In(x, Append(high, id)) <=> x = id \/ In(x, high)
        /\ \A x : In(x, Append(normal, id)) <=> x = id \/ In(x, normal)
    BY <1>2, <2>3, InAppend
  <2>5. Increasing(high')
    <3>1. Increasing(high) /\ \A x \in Calls : In(x, high) => x < id
      BY <1>1, <2>1, <2>3 DEF QueueInv
    <3>2. Increasing(Append(high, id))
      BY <1>2, <2>3, <3>1, IncreasingAppend
    <3> QED BY <2>2, <3>1, <3>2
  <2>6. \A x, later \in Calls : In(x, high') /\ In(later, requests') => x < later
    BY <1>1, <2>1, <2>2, <2>3, <2>4 DEF QueueInv
  <2>7. \A x \in Calls : In(x, normal') => method'[x] # "read"
    BY <1>1, <2>1, <2>2, <2>4 DEF QueueInv, IsHigh, highMethods, owner
  <2>8. \A x : InReplies(x)' <=> InReplies(x)
    BY <2>2 DEF InReplies
  <2>9. \A x \in Calls : Queued(x)' => Queued(x)
    BY <2>2, <2>3, <2>4 DEF Queued
  <2>10. \A x \in Calls : Queued(x)' => x \in pending' /\ ~InReplies(x)'
    BY <1>1, <2>1, <2>2, <2>8, <2>9 DEF QueueInv, owner
  <2> QED BY <2>5, <2>6, <2>7, <2>10 DEF QueueInv
<1>5. CASE processNext
  <2>1. PICK id \in Calls, result \in {"value", "error"} :
          Take(id) /\ replies' = Append(replies, Reply(id, result))
    BY <1>5 DEF processNext
  <2>2. UNCHANGED <<owner, requests, worker>> /\ worker = "running" /\ (high # <<>> \/ normal # <<>>)
    BY <1>5 DEF processNext
  <2>3. /\ ~In(id, high') /\ ~In(id, normal') /\ ~In(id, requests)
        /\ \A x : In(x, high') => In(x, high)
        /\ \A x : In(x, normal') => In(x, normal)
        /\ Increasing(high')
    BY <2>1, <2>2, TakenOnce
  <2>4. \A x : InReplies(x)' => x = id \/ InReplies(x)
    <3>1. Reply(id, result) \in ReplySet /\ Reply(id, result).id = id
      BY DEF Reply, ReplySet, Results, Ids
    <3>2. /\ Len(replies) \in Nat /\ DOMAIN replies' = 1..Len(replies) + 1 /\ DOMAIN replies = 1..Len(replies)
          /\ \A i \in 1..Len(replies) : replies'[i] = replies[i]
          /\ replies'[Len(replies) + 1] = Reply(id, result)
      BY <1>2, <2>1, <3>1, AppendProperties, LenProperties
    <3> QED BY <3>1, <3>2 DEF InReplies
  <2>5. \A x \in Calls : Queued(x)' => x # id /\ Queued(x)
    BY <2>2, <2>3 DEF Queued
  <2>6. \A x \in Calls : Queued(x)' => x \in pending' /\ ~InReplies(x)'
    BY <1>1, <2>2, <2>4, <2>5 DEF QueueInv, owner
  <2>7. \A x, later \in Calls : In(x, high') /\ In(later, requests') => x < later
    BY <1>1, <2>2, <2>3 DEF QueueInv
  <2>8. \A x \in Calls : In(x, normal') => method'[x] # "read"
    BY <1>1, <2>2, <2>3 DEF QueueInv, owner
  <2> QED BY <2>3, <2>6, <2>7, <2>8 DEF QueueInv
<1>6. ASSUME NEW m \in Methods, call(m) PROVE QueueInv'
  <2>1. /\ nextId \in Calls /\ UNCHANGED <<replies, worker, high, normal>>
        /\ method' = [method EXCEPT ![nextId] = m] /\ pending \subseteq pending'
        /\ requests' = requests \/ (requests' = Append(requests, nextId) /\ nextId \in pending')
    BY <1>6 DEF call, queues
  <2>2. \A x : In(x, Append(requests, nextId)) <=> x = nextId \/ In(x, requests)
    BY <1>2, <2>1, InAppend
  <2>3. \A x \in Calls : In(x, high) \/ In(x, normal) => x < nextId
    BY <1>1 DEF OrderInv
  <2>4. \A x, later \in Calls : In(x, high') /\ In(later, requests') => x < later
    BY <1>1, <2>1, <2>2, <2>3 DEF QueueInv
  <2>5. \A x \in Calls : In(x, normal') => method'[x] # "read"
    <3>1. \A x \in Calls : x < nextId => method'[x] = method[x]
      BY <1>1, <2>1 DEF TypeOK
    <3> QED BY <1>1, <2>1, <2>3, <3>1 DEF QueueInv
  <2>6. \A x : InReplies(x)' <=> InReplies(x)
    BY <2>1 DEF InReplies
  <2>7. ~InReplies(nextId)
    <3>1. DOMAIN replies = 1..Len(replies)
      BY <1>2, LenProperties
    <3> QED BY <1>1, <3>1 DEF OrderInv, InReplies
  <2>8. \A x \in Calls : Queued(x)' => Queued(x) \/ (x = nextId /\ x \in pending')
    BY <2>1, <2>2 DEF Queued
  <2>9. \A x \in Calls : Queued(x)' => x \in pending' /\ ~InReplies(x)'
    BY <1>1, <2>1, <2>6, <2>7, <2>8 DEF QueueInv
  <2> QED BY <1>1, <2>1, <2>4, <2>5, <2>9 DEF QueueInv
<1>7. CASE Deliver
  <2>1. /\ UNCHANGED <<method, requests, worker, high, normal>>
        /\ pending' = pending \ {Head(replies).id} /\ replies' = Tail(replies) /\ replies # <<>>
    BY <1>7 DEF Deliver, queues
  <2>2. /\ Len(replies) \in Nat \ {0} /\ DOMAIN replies' = 1..Len(replies) - 1
        /\ DOMAIN replies = 1..Len(replies) /\ Head(replies) = replies[1]
        /\ \A i \in 1..Len(replies) - 1 : replies'[i] = replies[i + 1]
    BY <1>2, <2>1, HeadTailProperties, EmptySeq, LenProperties
  <2>3. InReplies(Head(replies).id) /\ \A x : InReplies(x)' => InReplies(x)
    <3>1. \A i \in 1..Len(replies) - 1 : i + 1 \in 1..Len(replies)
      BY <2>2
    <3> QED BY <2>2, <3>1 DEF InReplies
  <2>4. \A x \in Calls : Queued(x)' <=> Queued(x)
    BY <2>1 DEF Queued
  <2>5. \A x \in Calls : Queued(x)' => x \in pending' /\ ~InReplies(x)'
    BY <1>1, <2>1, <2>3, <2>4 DEF QueueInv
  <2> QED BY <1>1, <2>1, <2>5 DEF QueueInv
<1>8. CASE PruneThrows \/ OnError \/ Terminate \/ OnExit
  BY <1>8 DEF PruneThrows, OnError, Terminate, OnExit, Ends
<1>9. CASE UNCHANGED vars
  BY <1>1, <1>9 DEF QueueInv, Queued, InReplies, vars, owner, channels, queues
<1> QED BY <1>3, <1>4, <1>5, <1>6, <1>7, <1>8, <1>9 DEF Next

LEMMA ServeStep == ServeInv /\ [Next]_vars => ServeInv'
BY DrainStep, QueueStep, OutcomeStep DEF ServeInv

-----------------------------------------------------------------------------

\* Where a call is for the service.
LEMMA Stages ==
    ASSUME TypeOK, NEW id \in Calls
    PROVE  /\ outcome[id] \in {"closed", "full"} => stageOf(id) = "refused"
           /\ outcome[id] = "died" => stageOf(id) = "lost"
           /\ outcome[id] \in {"value", "error", "workerFull"} => stageOf(id) = "answered"
           /\ outcome[id] = "none" => stageOf(id) = IF id \notin pending THEN "new"
                                                    ELSE IF InReplies(id) THEN "done" ELSE "called"
BY DEF stageOf

\* The stages after a step, seen from the variables after it.
LEMMA StagesAfter ==
    ASSUME TypeOK', NEW id \in Calls
    PROVE  /\ outcome'[id] \in {"closed", "full"} => stageOf(id)' = "refused"
           /\ outcome'[id] = "died" => stageOf(id)' = "lost"
           /\ outcome'[id] \in {"value", "error", "workerFull"} => stageOf(id)' = "answered"
           /\ outcome'[id] = "none" => stageOf(id)' = IF id \notin pending' THEN "new"
                                                      ELSE IF InReplies(id)' THEN "done" ELSE "called"
BY DEF stageOf

\* What the service is told of a state; the prime of each is what it is told of
\* the next.
Stage == [id \in Calls |-> stageOf(id)]
Asked == [id \in Calls |-> method[id]]
Seen == [id \in Calls |-> found[id]]
serviceVars == <<Stage, Asked, shut, rows, Seen>>

\* A step that settles nothing and answers nothing is none of the service's.
LEMMA Unseen ==
    ASSUME UNCHANGED <<pending, outcome, method, storage>>,
           \A id \in Calls : InReplies(id)' <=> InReplies(id)
    PROVE  UNCHANGED serviceVars
<1>1. \A id \in Calls : stageOf(id)' = stageOf(id)
  BY DEF stageOf
<1>2. UNCHANGED Stage
  BY <1>1 DEF Stage
<1> QED BY <1>2 DEF serviceVars, Asked, Seen, storage

\* processNext: the call takes effect, after every write or every call that had
\* to come before it.
LEMMA Takes ==
    ASSUME ServeInv, TypeOK', processNext
    PROVE  \E c \in Calls : Service!Do(c)
<1>1. TypeOK /\ OrderInv /\ QueueInv /\ OutcomeInv /\ PlaceInv /\ StartInv
      /\ pending \subseteq Ids /\ worker = "running" /\ (high # <<>> \/ normal # <<>>)
      /\ Calls \subseteq Nat /\ Calls \subseteq Ids /\ 0 \notin Calls
  BY LimitAssumption DEF ServeInv, DrainInv, LimitInv, TypeOK, processNext, Ids, Calls
<1>2. PICK id \in Calls, returned \in BOOLEAN :
        /\ Take(id) /\ Execute(id, returned)
        /\ replies' = Append(replies, Reply(id, IF returned THEN "value" ELSE "error"))
  BY DEF processNext
<1>3. UNCHANGED owner /\ method \in [Ids -> Methods \cup {"none"}]
      /\ outcome \in [Ids -> {"none", "value", "error", "workerFull", "closed", "full", "died"}]
  BY <1>1 DEF processNext, TypeOK
<1>4. /\ Queued(id)
      /\ \A x : In(x, high) \/ In(x, normal) => x = id \/ In(x, high') \/ In(x, normal')
  BY <1>1, <1>2, TakenOnce
<1>5. id \in pending /\ ~InReplies(id) /\ outcome[id] = "none"
  BY <1>1, <1>4 DEF QueueInv, OutcomeInv
<1>6. \A x \in Calls : InReplies(x)' <=> x = id \/ InReplies(x)
  <2> DEFINE r == Reply(id, IF returned THEN "value" ELSE "error")
  <2>1. r \in ReplySet /\ r.id = id
    BY <1>1 DEF Reply, ReplySet, Results
  <2> HIDE DEF r
  <2>2. replies \in Seq(ReplySet)
    BY <1>1 DEF TypeOK, ReplySet, Results
  <2>3. replies' = Append(replies, r)
    BY <1>2 DEF r
  <2>4. /\ Len(replies) \in Nat /\ DOMAIN replies' = 1..Len(replies) + 1 /\ DOMAIN replies = 1..Len(replies)
        /\ \A i \in 1..Len(replies) : replies'[i] = replies[i]
        /\ replies'[Len(replies) + 1] = r
    BY <2>1, <2>2, <2>3, AppendProperties, LenProperties
  <2> QED BY <2>1, <2>4 DEF InReplies
<1>7. Stage[id] = "called" /\ Stage' = [Stage EXCEPT ![id] = "done"]
  <2>1. stageOf(id) = "called"
    BY <1>1, <1>5, Stages
  <2>2. UNCHANGED <<outcome, pending>>
    BY <1>3 DEF owner
  <2>3. stageOf(id)' = "done"
    BY <1>5, <1>6, <2>2, StagesAfter
  <2>4. \A x \in Calls : x # id => stageOf(x)' = stageOf(x)
    BY <1>6, <2>2 DEF stageOf
  <2> QED BY <2>1, <2>3, <2>4 DEF Stage
<1>8. ASSUME NEW x \in Calls, x < id, Stage[x] = "called"
      PROVE  x \in pending /\ ~InReplies(x)
  <2>1. stageOf(x) = "called"
    BY <1>8 DEF Stage
  <2>2. outcome[x] \in {"none", "value", "error", "workerFull", "closed", "full", "died"}
    BY <1>1, <1>3
  <2>3. outcome[x] = "none"
    BY <1>1, <2>1, <2>2, Stages
  <2> QED BY <1>1, <2>1, <2>3, Stages
<1>9. ASSUME method[id] # "read", NEW x \in Calls, x < id, Stage[x] = "called"
      PROVE  In(x, high) /\ high = <<>>
  <2>1. high = <<>>
    <3>1. ~In(id, high)
      BY <1>1, <1>9 DEF OrderInv
    <3>2. ASSUME high # <<>> PROVE In(Head(high), high)
      BY <1>1, <3>2, InTail DEF TypeOK, IdSeq
    <3> QED BY <1>2, <3>1, <3>2 DEF Take
  <2>2. id = Head(normal) /\ normal # <<>> /\ normal \in Seq(Calls) /\ Increasing(normal)
    BY <1>1, <1>2, <2>1 DEF Take, TypeOK, IdSeq, OrderInv
  <2>3. ~In(x, normal)
    <3>1. \A y : In(y, normal) => y = id \/ id < y
      BY <2>2, InTail, IncreasingTail
    <3> QED BY <1>1, <1>9, <3>1
  <2>4. ~In(x, requests)
    <3>1. In(id, normal)
      BY <2>2, InTail
    <3>2. In(x, requests) => id < x
      BY <1>1, <3>1 DEF OrderInv
    <3> QED BY <1>1, <1>9, <3>2
  <2>5. x \in pending /\ ~InReplies(x)
    BY <1>8, <1>9
  <2> QED BY <1>1, <2>1, <2>3, <2>4, <2>5 DEF PlaceInv
<1>10. ASSUME method[id] # "read", NEW x \in Calls, x < id PROVE Stage[x] # "called"
  BY <1>9, <1>10 DEF In
<1>11. Asked[id] = method[id] /\ UNCHANGED Asked
  BY <1>3 DEF Asked, owner
<1>12. shut' \in IF Asked[id] = "close" THEN {shut, TRUE} ELSE {shut}
  <2>1. shut \in BOOLEAN
    BY <1>1 DEF TypeOK
  <2> QED BY <1>2, <1>11, <2>1 DEF Execute
<1>13. rows' \in IF Asked[id] = "write" /\ ~shut THEN {rows, Append(rows, id)} ELSE {rows}
  BY <1>2, <1>11 DEF Execute
<1>14. Seen' \in IF Asked[id] = "read" THEN {Seen, [Seen EXCEPT ![id] = rows]} ELSE {Seen}
  <2>1. found \in [Ids -> IdSeq]
    BY <1>1 DEF TypeOK
  <2>2. CASE method[id] = "read" /\ returned
    <3>1. found' = [found EXCEPT ![id] = rows]
      BY <1>2, <2>2 DEF Execute
    <3>2. \A x \in Calls : found'[x] = IF x = id THEN rows ELSE found[x]
      BY <1>1, <2>1, <3>1
    <3>3. Seen' = [Seen EXCEPT ![id] = rows]
      BY <3>2 DEF Seen
    <3> QED BY <1>11, <2>2, <3>3
  <2>3. CASE ~(method[id] = "read" /\ returned)
    <3>1. UNCHANGED found
      BY <1>2, <2>3 DEF Execute
    <3> QED BY <3>1 DEF Seen
  <2> QED BY <2>2, <2>3
<1>15. Service!Do(id)
  <2>1. /\ Stage[id] = "called"
        /\ Asked[id] = "write" => \A d \in Calls : d < id /\ Asked[d] = "write" => Stage[d] # "called"
        /\ Asked[id] = "close" => \A d \in Calls : d < id => Stage[d] # "called"
    BY <1>7, <1>10, <1>11
  <2> QED BY <1>7, <1>11, <1>12, <1>13, <1>14, <2>1 DEF Service!Do, Stage, Asked, Seen
<1> QED BY <1>15

\* call: the service is asked, and refuses at once or not.
LEMMA Asks ==
    ASSUME ServeInv, TypeOK', NEW m \in Methods, call(m)
    PROVE  \E id \in Calls : Service!Ask(id)
<1>1. TypeOK /\ OrderInv /\ OutcomeInv /\ MadeInv /\ pending \subseteq Ids
      /\ Calls \subseteq Nat /\ Calls \subseteq Ids /\ nextId \in Nat
  BY LimitAssumption DEF ServeInv, DrainInv, LimitInv, TypeOK, Ids, Calls
<1>2. /\ nextId \in Calls /\ method' = [method EXCEPT ![nextId] = m]
      /\ UNCHANGED <<replies, shut, rows, found>>
  BY DEF call, storage
<1>a. PICK id \in Calls : id = nextId
  BY <1>2
<1>3. method \in [Ids -> Methods \cup {"none"}]
      /\ outcome \in [Ids -> {"none", "value", "error", "workerFull", "closed", "full", "died"}]
  BY <1>1 DEF TypeOK
<1>4. id \notin pending /\ outcome[id] = "none"
  BY <1>1, <1>2, <1>a DEF MadeInv, OutcomeInv
<1>5. ~InReplies(id) /\ \A x : InReplies(x)' <=> InReplies(x)
  <2>1. DOMAIN replies = 1..Len(replies)
    BY <1>1, LenProperties DEF TypeOK
  <2> QED BY <1>1, <1>2, <1>a, <2>1 DEF OrderInv, InReplies
<1>6. Stage[id] = "new"
  BY <1>1, <1>2, <1>a, <1>4, Stages DEF Stage
<1>7. \E to \in {"called", "refused"} : Stage' = [Stage EXCEPT ![id] = to]
  <2>1. CASE closed \/ Full
    <3>1. pending' = pending /\ \E to \in {"closed", "full"} : outcome' = [outcome EXCEPT ![id] = to]
      BY <1>a, <2>1 DEF call
    <3>2. outcome'[id] \in {"closed", "full"} /\ \A x \in Calls : x # id => outcome'[x] = outcome[x]
      BY <1>1, <1>2, <1>a, <1>3, <3>1
    <3>3. stageOf(id)' = "refused"
      BY <1>2, <1>a, <3>2, StagesAfter
    <3>4. \A x \in Calls : x # id => stageOf(x)' = stageOf(x)
      BY <1>5, <3>1, <3>2 DEF stageOf
    <3> QED BY <3>3, <3>4 DEF Stage
  <2>2. CASE ~(closed \/ Full)
    <3>1. pending' = pending \cup {id} /\ outcome' = outcome
      BY <1>a, <2>2 DEF call
    <3>2. stageOf(id)' = "called"
      BY <1>2, <1>a, <1>4, <1>5, <3>1, StagesAfter
    <3>3. \A x \in Calls : x # id => stageOf(x)' = stageOf(x)
      BY <1>5, <3>1 DEF stageOf
    <3> QED BY <3>2, <3>3 DEF Stage
  <2> QED BY <2>1, <2>2
<1>8. Asked' = [Asked EXCEPT ![id] = m]
  BY <1>1, <1>2, <1>a, <1>3 DEF Asked
<1>9. UNCHANGED <<shut, rows, Seen>>
  BY <1>2, <1>a DEF Seen
<1>10. m \in Service!Methods
  BY DEF Service!Methods, Methods
<1> QED BY <1>2, <1>a, <1>6, <1>7, <1>8, <1>9, <1>10 DEF Service!Ask, Stage, Asked, Seen

\* Deliver: a call whose promise is not settled is answered.
LEMMA Answers ==
    ASSUME ServeInv, TypeOK', Deliver
    PROVE  (\E c \in Calls : Service!Answer(c)) \/ UNCHANGED serviceVars
<1>1. TypeOK /\ OutcomeInv /\ pending \subseteq Ids /\ replies # <<>>
      /\ outcome \in [Ids -> {"none", "value", "error", "workerFull", "closed", "full", "died"}]
      /\ Calls \subseteq Ids /\ Ids = Calls \cup {0}
  BY DEF ServeInv, DrainInv, LimitInv, TypeOK, Deliver, Ids
<1> DEFINE reply == Head(replies)
<1>2. replies \in Seq(ReplySet)
  BY <1>1 DEF TypeOK, ReplySet, Results
<1>3. /\ pending' = pending \ {reply.id}
      /\ outcome' = IF reply.id \in pending THEN [outcome EXCEPT ![reply.id] = reply.result] ELSE outcome
      /\ replies' = Tail(replies)
      /\ UNCHANGED <<method, storage>>
  BY DEF Deliver
<1>4. /\ Len(replies) \in Nat \ {0} /\ DOMAIN replies' = 1..Len(replies) - 1
      /\ DOMAIN replies = 1..Len(replies) /\ reply = replies[1]
      /\ \A i \in 1..Len(replies) - 1 : replies'[i] = replies[i + 1]
      /\ reply \in ReplySet
  BY <1>1, <1>2, <1>3, HeadTailProperties, EmptySeq, LenProperties
<1>5. reply.id \in Ids /\ reply.result \in Results
  BY <1>4 DEF ReplySet
<1>a. PICK id \in Ids, result \in Results : id = reply.id /\ result = reply.result
  BY <1>5
<1>b. /\ pending' = pending \ {id}
      /\ outcome' = IF id \in pending THEN [outcome EXCEPT ![id] = result] ELSE outcome
      /\ replies[1].id = id
  BY <1>3, <1>4, <1>a
<1> HIDE DEF reply
<1>6. InReplies(id) /\ \A x : x # id => (InReplies(x)' <=> InReplies(x))
  <2>1. \A i \in 1..Len(replies) - 1 : i + 1 \in 1..Len(replies)
    BY <1>4
  <2>2. \A i \in 1..Len(replies) : i # 1 => i - 1 \in 1..Len(replies) - 1 /\ replies'[i - 1] = replies[i]
    BY <1>4
  <2>3. 1 \in DOMAIN replies
    BY <1>4
  <2>4. ASSUME NEW x, x # id, InReplies(x) PROVE InReplies(x)'
    <3>1. PICK i \in 1..Len(replies) : replies[i].id = x
      BY <1>4, <2>4 DEF InReplies
    <3>2. i - 1 \in 1..Len(replies) - 1 /\ replies'[i - 1].id = x
      BY <1>b, <2>2, <2>4, <3>1
    <3> QED BY <1>4, <3>2 DEF InReplies
  <2>5. ASSUME NEW x, InReplies(x)' PROVE InReplies(x)
    <3>1. PICK i \in 1..Len(replies) - 1 : replies'[i].id = x
      BY <1>4, <2>5 DEF InReplies
    <3> QED BY <1>4, <2>1, <3>1 DEF InReplies
  <2> QED BY <1>b, <2>3, <2>4, <2>5 DEF InReplies
<1>7. \A x \in Calls : x # id => stageOf(x)' = stageOf(x)
  BY <1>1, <1>b, <1>6 DEF stageOf
<1>8. UNCHANGED <<Asked, shut, rows, Seen>>
  BY <1>3 DEF Asked, Seen, storage
<1>9. CASE id \in pending /\ id # 0
  <2>1. id \in Calls /\ outcome[id] = "none" /\ outcome'[id] = result
    BY <1>1, <1>b, <1>9 DEF OutcomeInv
  <2>2. stageOf(id) = "done"
    BY <1>1, <1>6, <1>9, <2>1, Stages
  <2>3. stageOf(id)' = "answered"
    BY <2>1, StagesAfter DEF Results
  <2>4. Stage[id] = "done" /\ Stage' = [Stage EXCEPT ![id] = "answered"]
    BY <1>7, <2>1, <2>2, <2>3 DEF Stage
  <2>5. Service!Answer(id)
    BY <1>8, <2>1, <2>4 DEF Service!Answer, Stage, Asked, Seen
  <2> QED BY <2>1, <2>5
<1>10. CASE ~(id \in pending /\ id # 0)
  <2>1. \A x \in Calls : stageOf(x)' = stageOf(x)
    <3>1. CASE id = 0
      BY <1>1, <1>7, <3>1 DEF Calls
    <3>2. CASE id \in Calls
      <4>1. id \notin pending /\ UNCHANGED <<pending, outcome>>
        BY <1>b, <1>10, <3>2 DEF Calls
      <4>2. stageOf(id)' = stageOf(id)
        BY <4>1 DEF stageOf
      <4> QED BY <1>7, <4>2
    <3> QED BY <1>1, <3>1, <3>2
  <2>2. UNCHANGED Stage
    BY <2>1 DEF Stage
  <2> QED BY <1>8, <2>2 DEF serviceVars
<1> QED BY <1>9, <1>10

\* fail: whoever waits for an answer is told that there is none.
LEMMA Loses ==
    ASSUME ServeInv, TypeOK', Fail, UNCHANGED <<method, replies, storage>>
    PROVE  \E lost \in SUBSET Calls : Service!Lose(lost)
<1>1. TypeOK /\ OutcomeInv /\ pending \subseteq Ids /\ Calls \subseteq Ids
      /\ outcome \in [Ids -> {"none", "value", "error", "workerFull", "closed", "full", "died"}]
  BY DEF ServeInv, DrainInv, LimitInv, TypeOK, Ids
<1> DEFINE lost == pending \cap Calls
<1>2. \A x \in lost : Stage[x] \in {"called", "done"}
  BY <1>1, Stages DEF OutcomeInv, Stage
<1>3. ASSUME NEW x \in Calls
      PROVE  stageOf(x)' = IF x \in lost THEN "lost" ELSE stageOf(x)
  <2>1. pending' = {} /\ outcome'[x] = IF x \in pending THEN "died" ELSE outcome[x]
    BY <1>1 DEF Fail
  <2>2. CASE x \in lost
    BY <2>1, <2>2, StagesAfter
  <2>3. CASE x \notin lost
    <3>1. x \notin pending /\ x \notin pending' /\ outcome'[x] = outcome[x]
      BY <2>1, <2>3
    <3>2. InReplies(x)' <=> InReplies(x)
      BY DEF InReplies
    <3>3. stageOf(x)' = stageOf(x)
      BY <3>1, <3>2 DEF stageOf
    <3> QED BY <2>3, <3>3
  <2> QED BY <2>2, <2>3
<1>4. Stage' = [c \in Calls |-> IF c \in lost THEN "lost" ELSE Stage[c]]
  BY <1>3 DEF Stage
<1>5. UNCHANGED <<Asked, shut, rows, Seen>>
  BY DEF Asked, Seen, storage
<1>6. Service!Lose(lost)
  <2> HIDE DEF lost
  <2> QED BY <1>2, <1>4, <1>5 DEF Service!Lose, Stage, Asked, Seen
<1> QED BY <1>6

LEMMA ServiceInit == Init => Service!Init
<1> SUFFICES ASSUME Init PROVE Service!Init
  OBVIOUS
<1>1. \A x \in Calls : outcome[x] = "none" /\ x \notin pending /\ method[x] = "none" /\ found[x] = <<>>
  BY DEF Init, Ids, Calls
<1>2. TypeOK
  BY TypeInit
<1>3. \A x \in Calls : stageOf(x) = "new"
  BY <1>1, <1>2, Stages
<1> QED BY <1>1, <1>3 DEF Init, Service!Init

\* Every step of the facade and its worker is one of the service, or none.
LEMMA ServiceStep == ServeInv /\ TypeOK' /\ [Next]_vars => [Service!Next]_serviceVars
<1> SUFFICES ASSUME ServeInv, TypeOK', [Next]_vars PROVE [Service!Next]_serviceVars
  OBVIOUS
<1>1. TypeOK /\ LoadingInv /\ CountInv
  BY DEF ServeInv, DrainInv, LimitInv
<1>2. replies \in Seq(ReplySet)
  BY <1>1 DEF TypeOK, ReplySet, Results
<1>3. CASE Load
  <2>1. PICK opened \in BOOLEAN :
          replies' = Append(replies, Reply(0, IF opened THEN "value" ELSE "error"))
    BY <1>3 DEF Load
  <2> DEFINE r == Reply(0, IF opened THEN "value" ELSE "error")
  <2>2. r \in ReplySet /\ r.id = 0
    BY DEF Reply, ReplySet, Results, Ids
  <2>3. replies' = Append(replies, r)
    BY <2>1
  <2> HIDE DEF r
  <2>4. replies = <<>> /\ Len(replies') = 1 /\ replies'[1] = r /\ DOMAIN replies' = 1..1
    BY <1>1, <1>2, <1>3, <2>2, <2>3, AppendProperties, LenProperties DEF Load, LoadingInv
  <2>5. \A id \in Calls : InReplies(id)' <=> InReplies(id)
    BY <2>2, <2>4 DEF InReplies, Calls
  <2> QED BY <1>3, <2>5, Unseen DEF Load, owner
<1>4. CASE Receive
  <2>1. ~WorkerFull
    BY <1>1, <1>4, NeverFull DEF Receive
  <2>2. UNCHANGED <<owner, replies, storage>>
    BY <1>4, <2>1 DEF Receive
  <2> QED BY <2>2, Unseen DEF owner, InReplies
<1>5. CASE processNext
  BY <1>5, Takes DEF Service!Next
<1>6. CASE \E m \in Methods : call(m)
  BY <1>6, Asks DEF Service!Next
<1>7. CASE Deliver
  BY <1>7, Answers DEF Service!Next
<1>8. CASE PruneThrows \/ Terminate \/ (OnExit /\ closed) \/ UNCHANGED vars
  <2>1. UNCHANGED <<pending, outcome, method, storage, replies>>
    BY <1>8 DEF PruneThrows, Terminate, OnExit, vars, owner, channels
  <2> QED BY <2>1, Unseen DEF InReplies
<1>9. CASE OnError \/ (OnExit /\ ~closed)
  <2>1. Fail /\ UNCHANGED <<method, replies, storage>>
    BY <1>9 DEF OnError, OnExit, channels
  <2> QED BY <2>1, Loses DEF Service!Next
<1> QED BY <1>3, <1>4, <1>5, <1>6, <1>7, <1>8, <1>9 DEF Next

\* The facade and its worker implement the service, for any queue limit and any
\* number of calls: each call takes effect once, between being made and being
\* answered, writes in the order in which they were made and close() after all
\* that came before it.
THEOREM ServesCorrect == Spec => Serves
<1>1. Init => ServeInv /\ TypeOK
  BY ServeInit, TypeInit
<1>2. ServeInv /\ TypeOK /\ [Next]_vars => ServeInv' /\ TypeOK'
  BY ServeStep, TypeStep
<1>3. ServeInv /\ TypeOK' /\ [Next]_vars => [Service!Next]_Service!vars
  BY ServiceStep DEF Service!vars, serviceVars, Stage, Asked, Seen
<1> QED BY <1>1, <1>2, <1>3, ServiceInit, PTL DEF Spec, Serves, Service!Spec

-----------------------------------------------------------------------------
(* Nothing stalls, and nothing goes on for ever.                            *)

\* What the two threads do of themselves, once calls are made.
Moves == Load \/ Receive \/ processNext \/ Deliver \/ OnError \/ Terminate \/ OnExit

\* The guards of these steps.
MayMove ==
    \/ worker \in {"loading", "crashed"}
    \/ worker = "running" /\ requests # <<>>
    \/ worker = "running" /\ scheduled /\ (high # <<>> \/ normal # <<>>)
    \/ worker = "running" /\ closed
    \/ worker \in {"failed", "terminated"} /\ replies = <<>>
    \/ replies # <<>>

\* A running worker is scheduled as long as it has something queued; one that
\* could not start, or has gone, leaves nobody waiting but late callers.
StallInv ==
    /\ 0 \in pending => worker = "loading" \/ InReplies(0)
    /\ worker = "idle" => /\ pending \subseteq {0} /\ outcome[0] # "value"
                          /\ \A i \in 1..Len(replies) : replies[i].result # "value"
    /\ worker = "gone" => pending \subseteq late
    /\ worker \in {"loading", "running"} => (scheduled <=> high # <<>> \/ normal # <<>>)

LEMMA StallInit == Init => StallInv
BY DEF Init, StallInv

LEMMA StallStep == DrainInv /\ StallInv /\ [Next]_vars => StallInv'
<1> SUFFICES ASSUME DrainInv, StallInv, [Next]_vars PROVE StallInv'
  OBVIOUS
<1>0. TypeOK /\ LoadingInv /\ CloseDrains /\ replies \in Seq(ReplySet) /\ Len(replies) \in Nat
      /\ high \in Seq(Calls) /\ normal \in Seq(Calls)
  BY DEF DrainInv, LimitInv, TypeOK, IdSeq, ReplySet, Results
<1>1. CASE Load
  <2>1. PICK opened \in BOOLEAN :
           /\ worker' = IF opened THEN "running" ELSE "idle"
           /\ replies' = Append(replies, Reply(0, IF opened THEN "value" ELSE "error"))
    BY <1>1 DEF Load
  <2>2. Reply(0, IF opened THEN "value" ELSE "error") \in ReplySet
    BY DEF Reply, ReplySet, Results, Ids
  <2>3. InReplies(0)'
    BY <1>0, <2>1, <2>2, ReplyAdded DEF Reply
  <2>4. UNCHANGED <<pending, outcome, late, high, normal, scheduled>>
    BY <1>1 DEF Load, owner, queues
  <2>5. pending = {0} /\ outcome[0] = "none" /\ high = <<>> /\ normal = <<>> /\ replies = <<>>
    BY <1>0, <1>1 DEF Load, LoadingInv
  <2>6. worker' = "idle" => replies' = <<[id |-> 0, result |-> "error"]>>
    BY <2>1, <2>5 DEF Reply
  <2>7. ~scheduled
    BY <1>0, <1>1, <2>5 DEF StallInv, Load
  <2> QED BY <2>1, <2>3, <2>4, <2>5, <2>6, <2>7 DEF StallInv
<1>2. CASE Receive
  <2>1. UNCHANGED <<pending, outcome, late, worker>> /\ worker = "running"
    BY <1>2 DEF Receive, owner
  <2>2. \/ high' = Append(high, Head(requests)) /\ normal' = normal
        \/ normal' = Append(normal, Head(requests)) /\ high' = high
    BY <1>0, <1>2, <2>1, NeverFull DEF Receive, DrainInv, LimitInv
  <2>3. Head(requests) \in Calls /\ scheduled' = TRUE /\ UNCHANGED replies
    BY <1>0, <1>2, <2>1, NeverFull DEF Receive, DrainInv, LimitInv, TypeOK, IdSeq
  <2>4. high' # <<>> \/ normal' # <<>>
    BY <1>0, <2>2, <2>3
  <2>5. InReplies(0)' <=> InReplies(0)
    BY <2>3 DEF InReplies
  <2> QED BY <2>1, <2>3, <2>4, <2>5 DEF StallInv
<1>3. CASE processNext
  <2>1. UNCHANGED <<pending, outcome, late, worker>> /\ worker = "running"
        /\ scheduled' = (high' # <<>> \/ normal' # <<>>)
    BY <1>3 DEF processNext, owner, Reschedule
  <2>2. PICK id \in Calls, result \in {"value", "error"} : replies' = Append(replies, Reply(id, result))
    BY <1>3 DEF processNext
  <2>3. Reply(id, result) \in ReplySet
    BY DEF Reply, ReplySet, Results, Ids
  <2>4. InReplies(0) => InReplies(0)'
    BY <1>0, <2>2, <2>3, ReplyAdded
  <2> QED BY <2>1, <2>4 DEF StallInv
<1>4. ASSUME NEW m \in Methods, call(m) PROVE StallInv'
  <2>1. /\ outcome[0] = "value" /\ nextId # 0 /\ UNCHANGED <<replies, worker, high, normal, scheduled>>
        /\ pending' \subseteq pending \cup {nextId}
        /\ worker = "gone" => late' = late \cup {nextId}
    BY <1>4, LimitAssumption DEF call, queues, Calls
  <2>2. InReplies(0)' <=> InReplies(0)
    BY <2>1 DEF InReplies
  <2>3. worker # "idle"
    BY <2>1 DEF StallInv
  <2> QED BY <2>1, <2>2, <2>3 DEF StallInv
<1>5. CASE Deliver
  <2> DEFINE reply == Head(replies)
  <2>1. /\ pending' = pending \ {reply.id} /\ replies' = Tail(replies) /\ replies # <<>>
        /\ outcome' = outcome \/ outcome' = [outcome EXCEPT ![reply.id] = reply.result]
        /\ UNCHANGED <<late, worker, high, normal, scheduled>>
    BY <1>5 DEF Deliver, queues
  <2>2. /\ Len(replies) >= 1 /\ Len(replies') = Len(replies) - 1 /\ reply = replies[1]
        /\ \A i \in 1..Len(replies') : replies'[i] = replies[i + 1] /\ i + 1 \in 1..Len(replies)
        /\ DOMAIN replies = 1..Len(replies) /\ DOMAIN replies' = 1..Len(replies')
    BY <1>0, <2>1
  <2> HIDE DEF reply
  <2>3. ASSUME 0 \in pending' PROVE worker' = "loading" \/ InReplies(0)'
    <3>1. CASE worker = "loading"
      BY <2>1, <3>1
    <3>2. CASE worker # "loading"
      <4>1. 0 \in pending /\ reply.id # 0
        BY <2>1, <2>3
      <4>2. PICK i \in 1..Len(replies) : replies[i].id = 0
        BY <2>2, <3>2, <4>1 DEF StallInv, InReplies
      <4>3. i # 1 /\ i - 1 \in 1..Len(replies')
        BY <1>0, <2>2, <4>1, <4>2
      <4>4. replies'[i - 1] = replies[i]
        BY <2>2, <4>3
      <4> QED BY <2>2, <4>2, <4>3, <4>4 DEF InReplies
    <3> QED BY <3>1, <3>2
  <2>4. ASSUME worker' = "idle"
        PROVE  outcome'[0] # "value" /\ \A i \in 1..Len(replies') : replies'[i].result # "value"
    <3>1. 1 \in 1..Len(replies) /\ 0 \in DOMAIN outcome
      BY <1>0, <2>2 DEF TypeOK, Ids
    <3>2. reply.result # "value" /\ outcome[0] # "value"
      BY <2>1, <2>2, <2>4, <3>1 DEF StallInv
    <3>3. outcome'[0] # "value"
      BY <2>1, <3>1, <3>2
    <3> QED BY <2>1, <2>2, <2>4, <3>3 DEF StallInv
  <2> QED BY <2>1, <2>3, <2>4 DEF StallInv
<1>6. CASE OnError \/ OnExit
  <2>1. worker' \in {"failed", "gone"} /\ UNCHANGED <<late, replies>>
        /\ (pending' = {} \/ (closed /\ UNCHANGED pending))
    BY <1>6 DEF OnError, OnExit, Fail, channels
  <2>2. closed => pending \subseteq late
    BY <1>0 DEF CloseDrains
  <2>3. pending' \subseteq late'
    BY <2>1, <2>2
  <2>4. 0 \notin late
    BY <1>0, LimitAssumption DEF TypeOK, Calls
  <2>5. 0 \notin pending' /\ worker' \notin {"loading", "idle", "running"}
    BY <2>1, <2>3, <2>4
  <2> QED BY <2>3, <2>5 DEF StallInv
<1>7. CASE PruneThrows \/ Terminate
  <2>1. worker' \in {"crashed", "terminated"} /\ worker # "loading" /\ UNCHANGED <<pending, replies>>
    BY <1>7 DEF PruneThrows, Terminate, Ends, owner
  <2>2. InReplies(0)' <=> InReplies(0)
    BY <2>1 DEF InReplies
  <2> QED BY <2>1, <2>2 DEF StallInv
<1>8. CASE UNCHANGED vars
  BY <1>8 DEF vars, owner, channels, queues, StallInv, InReplies
<1> QED BY <1>1, <1>2, <1>3, <1>4, <1>5, <1>6, <1>7, <1>8 DEF Next

\* As long as a call waits that was made in time, some guard holds of the steps
\* that the threads take of themselves: no wakeup is lost between the flag and
\* the queues, and no promise is forgotten in a start that fails, a crash or a
\* close.  It is what EveryCallSettles needs besides fairness, and WorkFalls.
THEOREM NoStall == Spec => [](pending \subseteq late \/ MayMove)
<1>1. DrainInv /\ StallInv => pending \subseteq late \/ MayMove
  <2> SUFFICES ASSUME DrainInv, StallInv, NEW id \in pending, id \notin late, ~MayMove
               PROVE  FALSE
    OBVIOUS
  <2>1. /\ id \in Ids /\ replies = <<>> /\ ~InReplies(0) /\ ~InReplies(id)
        /\ worker \in {"loading", "idle", "running", "crashed", "failed", "terminated", "gone"}
    BY DEF DrainInv, LimitInv, TypeOK, MayMove, InReplies
  <2>2. worker \in {"idle", "running", "gone"}
    BY <2>1 DEF MayMove
  <2>3. id # 0 /\ worker = "running"
    BY <2>1, <2>2 DEF StallInv
  <2>4. In(id, high) \/ In(id, normal) \/ In(id, requests)
    BY <2>1, <2>3 DEF DrainInv, PlaceInv
  <2>5. high = <<>> /\ normal = <<>> /\ requests = <<>>
    BY <2>3 DEF StallInv, MayMove
  <2> QED BY <2>4, <2>5 DEF In
<1> QED BY DrainInit, DrainStep, StallInit, StallStep, <1>1, PTL DEF Spec

\* What is left for the threads to do: a request is received, then taken, then
\* its reply delivered; and the life of the worker takes its course.
Life == CASE worker = "loading" -> 5
          [] worker = "running" -> 3
          [] worker = "crashed" -> 2
          [] worker \in {"failed", "terminated"} -> 1
          [] OTHER -> 0
Work == 3 * Len(requests) + 2 * (Len(high) + Len(normal)) + Len(replies) + Life

\* Every step of the threads leaves less to do, the failure of the timer
\* included, and a call adds the three steps it takes itself: between calls the
\* threads come to rest, and by NoStall with every call settled.
THEOREM WorkFalls ==
    Spec => [][/\ Work \in Nat
               /\ Moves \/ PruneThrows => Work' < Work
               /\ (\E m \in Methods : call(m)) => Work' <= Work + 3]_vars
<1>1. ASSUME DrainInv, TypeOK', [Next]_vars
      PROVE  /\ Work \in Nat
             /\ Moves \/ PruneThrows => Work' < Work
             /\ (\E m \in Methods : call(m)) => Work' <= Work + 3
  <2>0. /\ Len(high) \in Nat /\ Len(normal) \in Nat /\ Len(requests) \in Nat /\ Len(replies) \in Nat
        /\ Len(high)' \in Nat /\ Len(normal)' \in Nat /\ Len(requests)' \in Nat /\ Len(replies)' \in Nat
        /\ high \in Seq(Calls) /\ normal \in Seq(Calls) /\ requests \in Seq(Calls)
        /\ replies \in Seq(ReplySet) /\ TypeOK
    BY <1>1 DEF DrainInv, LimitInv, TypeOK, IdSeq, ReplySet, Results
  <2>1. Life \in Nat /\ Life' \in Nat
    BY DEF Life
  <2>2. Work \in Nat
    BY <2>0, <2>1 DEF Work
  <2>3. CASE Load
    <3>1. PICK r \in ReplySet : replies' = Append(replies, r)
      <4>1. \A s \in {"value", "error"} : Reply(0, s) \in ReplySet
        BY DEF Reply, ReplySet, Results, Ids
      <4> QED BY <2>3, <4>1 DEF Load
    <3>2. Len(replies') = Len(replies) + 1
      <4>1. replies \in Seq(ReplySet) /\ r \in ReplySet
        BY <2>0, <3>1
      <4> QED BY <3>1, <4>1, AppendProperties
    <3>3. Life = 5 /\ Life' <= 3 /\ UNCHANGED <<requests, high, normal>>
      BY <2>3 DEF Load, Life, queues
    <3> QED BY <2>0, <2>1, <3>2, <3>3 DEF Work
  <2>4. CASE Receive
    <3>1. /\ worker = "running" /\ requests # <<>> /\ requests' = Tail(requests) /\ UNCHANGED <<replies, worker>>
          /\ Head(requests) \in Calls
          /\ \/ high' = Append(high, Head(requests)) /\ normal' = normal
             \/ normal' = Append(normal, Head(requests)) /\ high' = high
      BY <1>1, <2>0, <2>4, NeverFull DEF Receive, DrainInv, LimitInv
    <3>2. Len(requests') = Len(requests) - 1
      BY <2>0, <3>1, HeadTailProperties
    <3>4. Len(high') + Len(normal') = Len(high) + Len(normal) + 1
      <4> DEFINE id == Head(requests)
      <4>1. id \in Calls /\ high \in Seq(Calls) /\ normal \in Seq(Calls)
            /\ Len(high) \in Nat /\ Len(normal) \in Nat
        BY <2>0, <3>1
      <4>2. (high' = Append(high, id) /\ normal' = normal) \/ (normal' = Append(normal, id) /\ high' = high)
        BY <3>1
      <4> HIDE DEF id
      <4>3. Len(Append(high, id)) = Len(high) + 1 /\ Len(Append(normal, id)) = Len(normal) + 1
        BY <4>1
      <4>4. CASE high' = Append(high, id) /\ normal' = normal
        <5>1. Len(high') = Len(high) + 1 /\ Len(normal') = Len(normal)
          BY <4>3, <4>4
        <5> QED BY <2>0, <5>1
      <4>5. CASE normal' = Append(normal, id) /\ high' = high
        <5>1. Len(normal') = Len(normal) + 1 /\ Len(high') = Len(high)
          BY <4>3, <4>5
        <5> QED BY <2>0, <5>1
      <4> QED BY <4>2, <4>4, <4>5
    <3>3. Life' = Life
      BY <3>1 DEF Life
    <3> QED BY <2>0, <2>1, <3>1, <3>2, <3>3, <3>4 DEF Work
  <2>5. CASE processNext
    <3>1. PICK id \in Calls, s \in {"value", "error"} : Take(id) /\ replies' = Append(replies, Reply(id, s))
      BY <2>5 DEF processNext
    <3>2. Reply(id, s) \in ReplySet
      BY DEF Reply, ReplySet, Results, Ids
    <3>3. Len(replies') = Len(replies) + 1
      BY <2>0, <3>1, <3>2
    <3>4. Len(high') + Len(normal') = Len(high) + Len(normal) - 1
      BY <2>0, <2>5, <3>1, TakeProperties DEF processNext
    <3>5. Life' = Life /\ UNCHANGED requests
      BY <2>5 DEF processNext, Life
    <3> QED BY <2>0, <2>1, <3>3, <3>4, <3>5 DEF Work
  <2>6. CASE Deliver
    <3>1. replies # <<>> /\ replies' = Tail(replies) /\ UNCHANGED <<requests, high, normal, worker>>
      BY <2>6 DEF Deliver, queues
    <3>2. Len(replies') = Len(replies) - 1 /\ Life' = Life
      BY <2>0, <3>1 DEF Life
    <3> QED BY <2>0, <2>1, <3>1, <3>2 DEF Work
  <2>7. CASE OnError \/ OnExit
    <3>1. UNCHANGED <<requests, replies, high, normal>>
      BY <2>7 DEF OnError, OnExit, channels, queues
    <3>2. Life' < Life
      BY <2>7 DEF OnError, OnExit, Life
    <3> QED BY <2>0, <2>1, <3>1, <3>2 DEF Work
  <2>8. CASE Terminate \/ PruneThrows
    <3>1. /\ UNCHANGED replies /\ requests' = <<>> /\ high' = <<>> /\ normal' = <<>>
          /\ worker = "running" /\ worker' \in {"crashed", "terminated"}
      BY <2>8 DEF Terminate, PruneThrows, Ends
    <3>2. Len(requests') = 0 /\ Len(high') = 0 /\ Len(normal') = 0 /\ Life' < Life
      BY <3>1 DEF Life
    <3> QED BY <2>0, <2>1, <3>1, <3>2 DEF Work
  <2>9. ASSUME NEW m \in Methods, call(m) PROVE Work' <= Work + 3
    <3>1. /\ UNCHANGED <<replies, high, normal, worker>> /\ nextId \in Calls
          /\ requests' = requests \/ requests' = Append(requests, nextId)
      BY <2>9 DEF call, queues
    <3>2. Len(requests') <= Len(requests) + 1 /\ Life' = Life
      BY <2>0, <3>1 DEF Life
    <3> QED BY <2>0, <2>1, <3>1, <3>2 DEF Work
  <2> QED BY <2>2, <2>3, <2>4, <2>5, <2>6, <2>7, <2>8, <2>9 DEF Moves
<1>2. DrainInv => TypeOK
  BY DEF DrainInv, LimitInv
<1>3. DrainInv /\ TypeOK' /\ [Next]_vars
        => [/\ Work \in Nat
            /\ Moves \/ PruneThrows => Work' < Work
            /\ (\E m \in Methods : call(m)) => Work' <= Work + 3]_vars
  BY <1>1
<1> QED BY DrainInit, DrainStep, <1>2, <1>3, PTL DEF Spec
=============================================================================
