----------------------- MODULE RuntimeOwnership_proofs -----------------------
(* Theorems about RuntimeOwnership, for any number of processes. *)
EXTENDS RuntimeOwnership, TLAPS

LEMMA TypeInit == Init => TypeOK
<1> SUFFICES ASSUME Init PROVE TypeOK
  OBVIOUS
<1>1. pc \in [Processes -> Labels]
  BY DEF Init, Labels
<1>2. attempt \in [Processes -> 0..MaxAttempts]
  BY AttemptAssumption DEF Init
<1>3. seen \in [Processes -> Lock \cup {NoLock}]
  BY DEF Init
<1> QED BY <1>1, <1>2, <1>3 DEF Init, TypeOK

\* Every step keeps the types.
LEMMA TypeStep == TypeOK /\ [Next]_vars => TypeOK'
<1> SUFFICES ASSUME TypeOK, [Next]_vars PROVE TypeOK'
  OBVIOUS
<1> USE AttemptAssumption DEF TypeOK, Lock, files, history
<1>2. ASSUME NEW p \in Processes, Claim(p) PROVE TypeOK'
  <2>1. CASE Launch(p)
    BY <1>2, <2>1 DEF Launch, Goto, Labels, Swaps
  <2>2. CASE CreateLock(p)
    BY <1>2, <2>2 DEF CreateLock, Goto, Labels, Swaps
  <2>3. CASE LockExists(p)
    BY <1>2, <2>3 DEF LockExists, Goto, Labels, Swaps
  <2>4. CASE FillLock(p)
    <3>1. lock' \in Lock \cup {NoLock}
      <4>1. [by |-> p, filled |-> TRUE] \in Lock
        OBVIOUS
      <4> HIDE DEF Lock
      <4> QED BY <2>4, <4>1 DEF FillLock
    <3>2. recent' \in BOOLEAN
      <4>1. CASE lock # NoLock /\ lock.by = p
        BY <2>4, <4>1 DEF FillLock
      <4>2. CASE ~(lock # NoLock /\ lock.by = p)
        BY <2>4, <4>2 DEF FillLock
      <4> QED BY <4>1, <4>2
    <3>3. pc' \in [Processes -> Labels]
      BY <2>4 DEF FillLock, Goto, Labels
    <3> QED BY <2>4, <3>1, <3>2, <3>3 DEF FillLock
  <2>5. CASE FillFails(p)
    BY <1>2, <2>5 DEF FillFails, Goto, Labels, Swaps
  <2>6. CASE ReadLock(p)
    BY <1>2, <2>6 DEF ReadLock, Goto, Labels, Swaps
  <2>7. CASE OwnerAlive(p)
    BY <1>2, <2>7 DEF OwnerAlive, Goto, Labels, Swaps
  <2>8. CASE CreatorBusy(p)
    BY <1>2, <2>8 DEF CreatorBusy, Goto, Labels, Swaps
  <2>9. CASE LockAbandoned(p)
    BY <1>2, <2>9 DEF LockAbandoned, Goto, Labels, Swaps
  <2>10. CASE OwnerDead(p)
    BY <1>2, <2>10 DEF OwnerDead, Goto, Labels, Swaps
  <2>11. CASE ReadState(p)
    BY <1>2, <2>11 DEF ReadState, Goto, Labels, Swaps
  <2>12. CASE RemoveState(p)
    BY <1>2, <2>12 DEF RemoveState, Goto, Labels, Swaps
  <2>13. CASE RemoveLock(p)
    BY <1>2, <2>13 DEF RemoveLock, Goto, Labels, Swaps
  <2> QED BY <1>2, <2>1, <2>2, <2>3, <2>4, <2>5, <2>6, <2>7, <2>8, <2>9, <2>10, <2>11, <2>12, <2>13 DEF Claim
<1>3. ASSUME NEW p \in Processes, Serve(p) PROVE TypeOK'
  <2>1. CASE Publish(p)
    BY <1>3, <2>1 DEF Publish, Goto, Labels, Swaps
  <2>2. CASE StartFails(p)
    BY <1>3, <2>2 DEF StartFails, Goto, Labels, Swaps
  <2>3. CASE ScheduleStateWrite(p)
    BY <1>3, <2>3 DEF ScheduleStateWrite, Goto, Labels, Swaps
  <2>4. CASE WriteState(p)
    BY <1>3, <2>4 DEF WriteState, Goto, Labels, Swaps
  <2>5. CASE Close(p)
    BY <1>3, <2>5 DEF Close, Goto, Labels, Swaps
  <2>6. CASE ReadOwnState(p)
    BY <1>3, <2>6 DEF ReadOwnState, Goto, Labels, Swaps
  <2>7. CASE RemoveOwnState(p)
    BY <1>3, <2>7 DEF RemoveOwnState, Goto, Labels, Swaps
  <2>8. CASE ReadOwnLock(p)
    BY <1>3, <2>8 DEF ReadOwnLock, Goto, Labels, Swaps
  <2>9. CASE RemoveOwnLock(p)
    BY <1>3, <2>9 DEF RemoveOwnLock, Goto, Labels, Swaps
  <2> QED BY <1>3, <2>1, <2>2, <2>3, <2>4, <2>5, <2>6, <2>7, <2>8, <2>9 DEF Serve
<1>4. ASSUME NEW p \in Processes, Crash(p) PROVE TypeOK'
  BY <1>4 DEF Crash, Goto, Labels
<1>5. CASE Age
  BY <1>5 DEF Age
<1>6. CASE UNCHANGED vars
  BY <1>6 DEF vars
<1> QED BY <1>2, <1>3, <1>4, <1>5, <1>6 DEF Next

\* The ownership variables keep their types.
THEOREM TypeCorrect == Spec => []TypeOK
<1> QED BY TypeInit, TypeStep, PTL DEF Spec

-----------------------------------------------------------------------------
LEMMA OwnershipInit == Init => OwnershipInv
BY DEF Init, OwnershipInv, CreatedOnce, FillingRecent, WritersRun, JudgedEnded, HeldInv,
   Ended, Holds

\* Whoever holds or is filling the lock, the lock file is its own.
LEMMA HolderOfLock ==
    ASSUME TypeOK, HeldInv, NEW p \in Processes, Holds(p) \/ pc[p] = "fill"
    PROVE  lock # NoLock /\ lock.by = p
<1>1. [by |-> p, filled |-> FALSE] \in Lock /\ [by |-> p, filled |-> TRUE] \in Lock
  BY DEF Lock
<1>2. lock = [by |-> p, filled |-> FALSE] \/ lock = [by |-> p, filled |-> TRUE]
  BY DEF HeldInv
<1>3. CASE lock = [by |-> p, filled |-> FALSE]
  BY <1>1, <1>3, LockAssumption
<1>4. CASE lock = [by |-> p, filled |-> TRUE]
  BY <1>1, <1>4, LockAssumption
<1> QED BY <1>2, <1>3, <1>4

\* Every step keeps the lock with its holder, unless it removes a file that has
\* been replaced since it was read.
LEMMA OwnershipStep == TypeOK /\ OwnershipInv /\ [Next]_vars => OwnershipInv'
<1> SUFFICES ASSUME TypeOK, OwnershipInv, [Next]_vars PROVE OwnershipInv'
  OBVIOUS
<1> USE DEF TypeOK
<1>1. ASSUME NEW p \in Processes, Launch(p) PROVE OwnershipInv'
  <2>1. CreatedOnce'
    BY <1>1 DEF Launch, files, Goto, OwnershipInv, CreatedOnce, Contends
  <2>2. FillingRecent'
    BY <1>1 DEF Launch, files, Goto, OwnershipInv, FillingRecent
  <2>3. WritersRun'
    BY <1>1 DEF Launch, files, Goto, OwnershipInv, WritersRun
  <2>4. ASSUME ~swapped' PROVE JudgedEnded'
    BY <1>1, <2>4 DEF Launch, files, Goto, OwnershipInv, JudgedEnded, Ended
  <2>5. ASSUME ~swapped' PROVE HeldInv'
    BY <1>1, <2>5 DEF Launch, files, Goto, OwnershipInv, HeldInv, Holds
  <2> QED BY <2>1, <2>2, <2>3, <2>4, <2>5 DEF OwnershipInv
<1>2. ASSUME NEW p \in Processes, CreateLock(p) PROVE OwnershipInv'
  <2>1. CreatedOnce'
    BY <1>2 DEF CreateLock, history, Goto, OwnershipInv, CreatedOnce, Contends
  <2>2. FillingRecent'
    BY <1>2 DEF CreateLock, history, Goto, OwnershipInv, FillingRecent
  <2>3. WritersRun'
    BY <1>2 DEF CreateLock, history, Goto, OwnershipInv, WritersRun
  <2>4. ASSUME ~swapped' PROVE JudgedEnded'
    BY <1>2, <2>4
       DEF CreateLock, history, Goto, OwnershipInv, Lock, CreatedOnce, JudgedEnded, Contends, Ended
  <2>5. ASSUME ~swapped' PROVE HeldInv'
    <3>1. \A q \in Processes : ~Holds(q) /\ pc[q] # "fill"
      BY <1>2, <2>5, HolderOfLock DEF CreateLock, history, OwnershipInv
    <3>2. \A q \in Processes : pc'[q] # pc[q] => q = p
      BY <1>2 DEF CreateLock, Goto
    <3> QED BY <1>2, <2>5, <3>1, <3>2 DEF CreateLock, Goto, history, OwnershipInv, HeldInv, Holds
  <2> QED BY <2>1, <2>2, <2>3, <2>4, <2>5 DEF OwnershipInv
<1>3. ASSUME NEW p \in Processes, LockExists(p) PROVE OwnershipInv'
  <2>1. CreatedOnce'
    BY <1>3 DEF LockExists, files, history, Goto, OwnershipInv, CreatedOnce, Contends
  <2>2. FillingRecent'
    BY <1>3 DEF LockExists, files, history, Goto, OwnershipInv, FillingRecent
  <2>3. WritersRun'
    BY <1>3 DEF LockExists, files, history, Goto, OwnershipInv, WritersRun
  <2>4. ASSUME ~swapped' PROVE JudgedEnded'
    BY <1>3, <2>4 DEF LockExists, files, history, Goto, OwnershipInv, JudgedEnded, Ended
  <2>5. ASSUME ~swapped' PROVE HeldInv'
    BY <1>3, <2>5 DEF LockExists, files, history, Goto, OwnershipInv, HeldInv, Holds
  <2> QED BY <2>1, <2>2, <2>3, <2>4, <2>5 DEF OwnershipInv
<1>4. ASSUME NEW p \in Processes, FillLock(p) PROVE OwnershipInv'
  <2>1. CreatedOnce'
    BY <1>4 DEF FillLock, history, Goto, OwnershipInv, CreatedOnce, Contends
  <2>2. FillingRecent'
    BY <1>4 DEF FillLock, history, Goto, OwnershipInv, FillingRecent
  <2>3. WritersRun'
    BY <1>4 DEF FillLock, history, Goto, OwnershipInv, WritersRun
  <2>4. ASSUME ~swapped' PROVE JudgedEnded'
    BY <1>4, <2>4 DEF FillLock, history, Goto, OwnershipInv, JudgedEnded, Ended
  <2>5. ASSUME ~swapped' PROVE HeldInv'
    <3>1. HeldInv /\ pc[p] = "fill"
      BY <1>4, <2>5 DEF FillLock, history, OwnershipInv
    <3>2. lock # NoLock /\ lock.by = p
      BY <3>1, HolderOfLock
    <3>3. \A q \in Processes : q # p => ~Holds(q) /\ pc[q] # "fill"
      BY <3>1, <3>2, HolderOfLock
    <3>4. lock' = [by |-> p, filled |-> TRUE] /\ UNCHANGED state
      BY <1>4, <3>2 DEF FillLock
    <3>5. pc' = [pc EXCEPT ![p] = "starting"]
      BY <1>4 DEF FillLock, Goto
    <3> QED BY <3>1, <3>3, <3>4, <3>5 DEF HeldInv, Holds
  <2> QED BY <2>1, <2>2, <2>3, <2>4, <2>5 DEF OwnershipInv
<1>5. ASSUME NEW p \in Processes, FillFails(p) PROVE OwnershipInv'
  <2>1. CreatedOnce'
    BY <1>5 DEF FillFails, Goto, Swaps, OwnershipInv, CreatedOnce, Contends
  <2>2. FillingRecent'
    BY <1>5 DEF FillFails, Goto, Swaps, OwnershipInv, FillingRecent
  <2>3. WritersRun'
    BY <1>5 DEF FillFails, Goto, Swaps, OwnershipInv, WritersRun
  <2>4. ASSUME ~swapped' PROVE JudgedEnded'
    BY <1>5, <2>4 DEF FillFails, Goto, Swaps, OwnershipInv, JudgedEnded, Ended
  <2>5. ASSUME ~swapped' PROVE HeldInv'
    BY <1>5, <2>5 DEF FillFails, Goto, Swaps, OwnershipInv, HeldInv, Holds
  <2> QED BY <2>1, <2>2, <2>3, <2>4, <2>5 DEF OwnershipInv
<1>6. ASSUME NEW p \in Processes, ReadLock(p) PROVE OwnershipInv'
  <2>1. CreatedOnce'
    BY <1>6 DEF ReadLock, files, history, Goto, OwnershipInv, CreatedOnce, Contends
  <2>2. FillingRecent'
    BY <1>6 DEF ReadLock, files, history, Goto, OwnershipInv, FillingRecent
  <2>3. WritersRun'
    BY <1>6 DEF ReadLock, files, history, Goto, OwnershipInv, WritersRun
  <2>4. ASSUME ~swapped' PROVE JudgedEnded'
    BY <1>6, <2>4 DEF ReadLock, files, history, Goto, OwnershipInv, JudgedEnded, Ended
  <2>5. ASSUME ~swapped' PROVE HeldInv'
    BY <1>6, <2>5 DEF ReadLock, files, history, Goto, OwnershipInv, HeldInv, Holds
  <2> QED BY <2>1, <2>2, <2>3, <2>4, <2>5 DEF OwnershipInv
<1>7. ASSUME NEW p \in Processes, OwnerAlive(p) PROVE OwnershipInv'
  <2>1. CreatedOnce'
    BY <1>7 DEF OwnerAlive, files, history, Goto, OwnershipInv, CreatedOnce, Contends
  <2>2. FillingRecent'
    BY <1>7 DEF OwnerAlive, files, history, Goto, OwnershipInv, FillingRecent
  <2>3. WritersRun'
    BY <1>7 DEF OwnerAlive, files, history, Goto, OwnershipInv, WritersRun
  <2>4. ASSUME ~swapped' PROVE JudgedEnded'
    BY <1>7, <2>4
       DEF OwnerAlive, files, history, Goto, Readable, OwnershipInv, JudgedEnded, Ended
  <2>5. ASSUME ~swapped' PROVE HeldInv'
    BY <1>7, <2>5 DEF OwnerAlive, files, history, Goto, OwnershipInv, HeldInv, Holds
  <2> QED BY <2>1, <2>2, <2>3, <2>4, <2>5 DEF OwnershipInv
<1>8. ASSUME NEW p \in Processes, CreatorBusy(p) PROVE OwnershipInv'
  <2>1. CreatedOnce'
    BY <1>8 DEF CreatorBusy, files, history, Goto, OwnershipInv, CreatedOnce, Contends
  <2>2. FillingRecent'
    BY <1>8 DEF CreatorBusy, files, history, Goto, OwnershipInv, FillingRecent
  <2>3. WritersRun'
    BY <1>8 DEF CreatorBusy, files, history, Goto, OwnershipInv, WritersRun
  <2>4. ASSUME ~swapped' PROVE JudgedEnded'
    BY <1>8, <2>4
       DEF CreatorBusy, files, history, Goto, Readable, OwnershipInv, JudgedEnded, Ended
  <2>5. ASSUME ~swapped' PROVE HeldInv'
    BY <1>8, <2>5 DEF CreatorBusy, files, history, Goto, OwnershipInv, HeldInv, Holds
  <2> QED BY <2>1, <2>2, <2>3, <2>4, <2>5 DEF OwnershipInv
<1>9. ASSUME NEW p \in Processes, LockAbandoned(p) PROVE OwnershipInv'
  <2>1. CreatedOnce'
    BY <1>9 DEF LockAbandoned, files, history, Goto, OwnershipInv, CreatedOnce, Contends
  <2>2. FillingRecent'
    BY <1>9 DEF LockAbandoned, files, history, Goto, OwnershipInv, FillingRecent
  <2>3. WritersRun'
    BY <1>9 DEF LockAbandoned, files, history, Goto, OwnershipInv, WritersRun
  <2>4. ASSUME ~swapped' PROVE JudgedEnded'
    <3>1. /\ JudgedEnded /\ HeldInv /\ CreatedOnce /\ FillingRecent
          /\ pc[p] = "judge" /\ ~Readable(seen[p]) /\ ~(lock # NoLock /\ recent)
          /\ UNCHANGED <<lock, seen>> /\ pc' = [pc EXCEPT ![p] = "removeLock"]
      BY <1>9, <2>4 DEF LockAbandoned, files, history, Goto, OwnershipInv
    <3>2. \A q \in Processes : Ended(q) => Ended(q)'
      BY <3>1 DEF Ended
    \* the file just judged: its creator neither holds it nor is filling it
    <3>3. ASSUME seen[p] # NoLock, lock = seen[p] PROVE Ended(lock.by)
      <4>1. lock \in Lock /\ ~lock.filled /\ ~recent
        BY <3>1, <3>3 DEF Readable
      <4>2. lock.by \in Processes /\ pc[lock.by] \in Labels /\ pc[lock.by] # "fill"
        BY <3>1, <3>3, <4>1 DEF Lock, FillingRecent
      <4>3. ~Holds(lock.by)
        BY <4>1, <4>2, <3>1 DEF HeldInv
      <4>4. ~Contends(lock.by)
        BY <3>1, <3>3, <4>2 DEF CreatedOnce
      <4> QED BY <4>2, <4>3, <4>4 DEF Labels, Holds, Contends, Ended
    <3>4. seen[p] # NoLock => ~seen[p].filled
      BY <3>1 DEF Readable
    <3>5. ASSUME NEW q \in Processes, q # p, pc'[q] \in {"readState", "removeState"}
          PROVE  seen'[q] # NoLock /\ Ended(seen[q].by)'
      <4>1. seen[q] # NoLock /\ Ended(seen[q].by) /\ seen[q].by \in Processes
        BY <3>1, <3>5 DEF JudgedEnded, Lock
      <4> QED BY <3>1, <3>2, <4>1 DEF Ended
    <3>6. ASSUME NEW q \in Processes, q # p, pc'[q] = "removeLock", seen'[q] # NoLock,
                 seen'[q].filled \/ lock' = seen'[q]
          PROVE  Ended(seen[q].by)'
      <4>1. Ended(seen[q].by) /\ seen[q].by \in Processes
        BY <3>1, <3>6 DEF JudgedEnded, Lock
      <4> QED BY <3>1, <3>2, <4>1 DEF Ended
    <3>7. ASSUME pc'[p] = "removeLock", seen'[p] # NoLock,
                 seen'[p].filled \/ lock' = seen'[p]
          PROVE  Ended(seen[p].by)'
      <4>1. Ended(seen[p].by) /\ seen[p].by \in Processes
        BY <3>1, <3>3, <3>4, <3>7 DEF Lock
      <4> QED BY <3>1, <3>2, <4>1 DEF Ended
    <3>8. pc'[p] = "removeLock"
      BY <3>1
    <3> QED BY <3>5, <3>6, <3>7, <3>8 DEF JudgedEnded
  <2>5. ASSUME ~swapped' PROVE HeldInv'
    BY <1>9, <2>5 DEF LockAbandoned, files, history, Goto, OwnershipInv, HeldInv, Holds
  <2> QED BY <2>1, <2>2, <2>3, <2>4, <2>5 DEF OwnershipInv
<1>10. ASSUME NEW p \in Processes, OwnerDead(p) PROVE OwnershipInv'
  <2>1. CreatedOnce'
    BY <1>10 DEF OwnerDead, files, history, Goto, OwnershipInv, CreatedOnce, Contends
  <2>2. FillingRecent'
    BY <1>10 DEF OwnerDead, files, history, Goto, OwnershipInv, FillingRecent
  <2>3. WritersRun'
    BY <1>10 DEF OwnerDead, files, history, Goto, OwnershipInv, WritersRun
  <2>4. ASSUME ~swapped' PROVE JudgedEnded'
    BY <1>10, <2>4
       DEF OwnerDead, files, history, Goto, Readable, OwnershipInv, Lock, CreatedOnce, JudgedEnded, HeldInv, Contends, Ended, Alive, Holds
  <2>5. ASSUME ~swapped' PROVE HeldInv'
    BY <1>10, <2>5 DEF OwnerDead, files, history, Goto, OwnershipInv, HeldInv, Holds
  <2> QED BY <2>1, <2>2, <2>3, <2>4, <2>5 DEF OwnershipInv
<1>11. ASSUME NEW p \in Processes, ReadState(p) PROVE OwnershipInv'
  <2>1. CreatedOnce'
    BY <1>11 DEF ReadState, files, history, Goto, OwnershipInv, CreatedOnce, Contends
  <2>2. FillingRecent'
    BY <1>11 DEF ReadState, files, history, Goto, OwnershipInv, FillingRecent
  <2>3. WritersRun'
    BY <1>11 DEF ReadState, files, history, Goto, OwnershipInv, WritersRun
  <2>4. ASSUME ~swapped' PROVE JudgedEnded'
    BY <1>11, <2>4 DEF ReadState, files, history, Goto, OwnershipInv, JudgedEnded, Ended
  <2>5. ASSUME ~swapped' PROVE HeldInv'
    BY <1>11, <2>5 DEF ReadState, files, history, Goto, OwnershipInv, HeldInv, Holds
  <2> QED BY <2>1, <2>2, <2>3, <2>4, <2>5 DEF OwnershipInv
<1>12. ASSUME NEW p \in Processes, RemoveState(p) PROVE OwnershipInv'
  <2>1. CreatedOnce'
    BY <1>12 DEF RemoveState, Goto, Swaps, OwnershipInv, CreatedOnce, Contends
  <2>2. FillingRecent'
    BY <1>12 DEF RemoveState, Goto, Swaps, OwnershipInv, FillingRecent
  <2>3. WritersRun'
    BY <1>12 DEF RemoveState, Goto, Swaps, OwnershipInv, WritersRun
  <2>4. ASSUME ~swapped' PROVE JudgedEnded'
    BY <1>12, <2>4 DEF RemoveState, Goto, Swaps, OwnershipInv, JudgedEnded, Ended
  <2>5. ASSUME ~swapped' PROVE HeldInv'
    BY <1>12, <2>5
       DEF RemoveState, Goto, Swaps, OwnershipInv, JudgedEnded, HeldInv, Holds, Ended
  <2> QED BY <2>1, <2>2, <2>3, <2>4, <2>5 DEF OwnershipInv
<1>13. ASSUME NEW p \in Processes, RemoveLock(p) PROVE OwnershipInv'
  <2>1. CreatedOnce'
    BY <1>13 DEF RemoveLock, Goto, Swaps, OwnershipInv, CreatedOnce, Contends
  <2>2. FillingRecent'
    BY <1>13 DEF RemoveLock, Goto, Swaps, OwnershipInv, FillingRecent
  <2>3. WritersRun'
    BY <1>13 DEF RemoveLock, Goto, Swaps, OwnershipInv, WritersRun
  <2>4. ASSUME ~swapped' PROVE JudgedEnded'
    BY <1>13, <2>4 DEF RemoveLock, Goto, Swaps, OwnershipInv, Lock, JudgedEnded, Ended
  <2>5. ASSUME ~swapped' PROVE HeldInv'
    <3>1. /\ HeldInv /\ JudgedEnded /\ pc[p] = "removeLock"
          /\ lock = NoLock \/ (seen[p] # NoLock /\ lock = seen[p])
      BY <1>13, <2>5 DEF RemoveLock, Swaps, OwnershipInv
    <3>2. lock = NoLock \/ Ended(lock.by)
      BY <3>1 DEF JudgedEnded
    <3>3. \A q \in Processes : ~Holds(q) /\ pc[q] # "fill"
      BY <3>1, <3>2, HolderOfLock DEF Holds, Ended
    <3>4. UNCHANGED state /\ \A q \in Processes : pc'[q] # pc[q] => pc'[q] \in {"create", "failed"}
      BY <1>13 DEF RemoveLock, Goto
    <3> QED BY <3>1, <3>3, <3>4 DEF HeldInv, Holds
  <2> QED BY <2>1, <2>2, <2>3, <2>4, <2>5 DEF OwnershipInv
<1>14. ASSUME NEW p \in Processes, Publish(p) PROVE OwnershipInv'
  <2>1. CreatedOnce'
    BY <1>14 DEF Publish, history, Goto, OwnershipInv, CreatedOnce, Contends
  <2>2. FillingRecent'
    BY <1>14 DEF Publish, history, Goto, OwnershipInv, FillingRecent
  <2>3. WritersRun'
    BY <1>14 DEF Publish, history, Goto, OwnershipInv, WritersRun
  <2>4. ASSUME ~swapped' PROVE JudgedEnded'
    BY <1>14, <2>4 DEF Publish, history, Goto, OwnershipInv, JudgedEnded, Ended
  <2>5. ASSUME ~swapped' PROVE HeldInv'
    BY <1>14, <2>5 DEF Publish, history, Goto, OwnershipInv, HeldInv, Holds
  <2> QED BY <2>1, <2>2, <2>3, <2>4, <2>5 DEF OwnershipInv
<1>15. ASSUME NEW p \in Processes, StartFails(p) PROVE OwnershipInv'
  <2>1. CreatedOnce'
    BY <1>15 DEF StartFails, files, history, Goto, OwnershipInv, CreatedOnce, Contends
  <2>2. FillingRecent'
    BY <1>15 DEF StartFails, files, history, Goto, OwnershipInv, FillingRecent
  <2>3. WritersRun'
    BY <1>15 DEF StartFails, files, history, Goto, OwnershipInv, WritersRun
  <2>4. ASSUME ~swapped' PROVE JudgedEnded'
    BY <1>15, <2>4 DEF StartFails, files, history, Goto, OwnershipInv, JudgedEnded, Ended
  <2>5. ASSUME ~swapped' PROVE HeldInv'
    BY <1>15, <2>5 DEF StartFails, files, history, Goto, OwnershipInv, HeldInv, Holds
  <2> QED BY <2>1, <2>2, <2>3, <2>4, <2>5 DEF OwnershipInv
<1>16. ASSUME NEW p \in Processes, ScheduleStateWrite(p) PROVE OwnershipInv'
  <2>1. CreatedOnce'
    BY <1>16 DEF ScheduleStateWrite, files, history, OwnershipInv, CreatedOnce, Contends
  <2>2. FillingRecent'
    BY <1>16 DEF ScheduleStateWrite, files, history, OwnershipInv, FillingRecent
  <2>3. WritersRun'
    BY <1>16 DEF ScheduleStateWrite, files, history, OwnershipInv, WritersRun
  <2>4. ASSUME ~swapped' PROVE JudgedEnded'
    BY <1>16, <2>4 DEF ScheduleStateWrite, files, history, OwnershipInv, JudgedEnded, Ended
  <2>5. ASSUME ~swapped' PROVE HeldInv'
    BY <1>16, <2>5 DEF ScheduleStateWrite, files, history, OwnershipInv, HeldInv, Holds
  <2> QED BY <2>1, <2>2, <2>3, <2>4, <2>5 DEF OwnershipInv
<1>17. ASSUME NEW p \in Processes, WriteState(p) PROVE OwnershipInv'
  <2>1. CreatedOnce'
    BY <1>17 DEF WriteState, history, OwnershipInv, CreatedOnce, Contends
  <2>2. FillingRecent'
    BY <1>17 DEF WriteState, history, OwnershipInv, FillingRecent
  <2>3. WritersRun'
    BY <1>17 DEF WriteState, history, OwnershipInv, WritersRun
  <2>4. ASSUME ~swapped' PROVE JudgedEnded'
    BY <1>17, <2>4 DEF WriteState, history, OwnershipInv, JudgedEnded, Ended
  <2>5. ASSUME ~swapped' PROVE HeldInv'
    BY <1>17, <2>5 DEF WriteState, history, OwnershipInv, WritersRun, HeldInv, Holds
  <2> QED BY <2>1, <2>2, <2>3, <2>4, <2>5 DEF OwnershipInv
<1>18. ASSUME NEW p \in Processes, Close(p) PROVE OwnershipInv'
  <2>1. CreatedOnce'
    BY <1>18 DEF Close, files, history, Goto, OwnershipInv, CreatedOnce, Contends
  <2>2. FillingRecent'
    BY <1>18 DEF Close, files, history, Goto, OwnershipInv, FillingRecent
  <2>3. WritersRun'
    BY <1>18 DEF Close, files, history, Goto, OwnershipInv, WritersRun
  <2>4. ASSUME ~swapped' PROVE JudgedEnded'
    BY <1>18, <2>4 DEF Close, files, history, Goto, OwnershipInv, JudgedEnded, Ended
  <2>5. ASSUME ~swapped' PROVE HeldInv'
    BY <1>18, <2>5 DEF Close, files, history, Goto, OwnershipInv, HeldInv, Holds
  <2> QED BY <2>1, <2>2, <2>3, <2>4, <2>5 DEF OwnershipInv
<1>19. ASSUME NEW p \in Processes, ReadOwnState(p) PROVE OwnershipInv'
  <2>1. CreatedOnce'
    BY <1>19 DEF ReadOwnState, files, history, Goto, OwnershipInv, CreatedOnce, Contends
  <2>2. FillingRecent'
    BY <1>19 DEF ReadOwnState, files, history, Goto, OwnershipInv, FillingRecent
  <2>3. WritersRun'
    BY <1>19 DEF ReadOwnState, files, history, Goto, OwnershipInv, WritersRun
  <2>4. ASSUME ~swapped' PROVE JudgedEnded'
    BY <1>19, <2>4 DEF ReadOwnState, files, history, Goto, OwnershipInv, JudgedEnded, Ended
  <2>5. ASSUME ~swapped' PROVE HeldInv'
    BY <1>19, <2>5 DEF ReadOwnState, files, history, Goto, OwnershipInv, HeldInv, Holds
  <2> QED BY <2>1, <2>2, <2>3, <2>4, <2>5 DEF OwnershipInv
<1>20. ASSUME NEW p \in Processes, RemoveOwnState(p) PROVE OwnershipInv'
  <2>1. CreatedOnce'
    BY <1>20 DEF RemoveOwnState, Goto, Swaps, OwnershipInv, CreatedOnce, Contends
  <2>2. FillingRecent'
    BY <1>20 DEF RemoveOwnState, Goto, Swaps, OwnershipInv, FillingRecent
  <2>3. WritersRun'
    BY <1>20 DEF RemoveOwnState, Goto, Swaps, OwnershipInv, WritersRun
  <2>4. ASSUME ~swapped' PROVE JudgedEnded'
    BY <1>20, <2>4 DEF RemoveOwnState, Goto, Swaps, OwnershipInv, JudgedEnded, Ended
  <2>5. ASSUME ~swapped' PROVE HeldInv'
    BY <1>20, <2>5 DEF RemoveOwnState, Goto, Swaps, OwnershipInv, HeldInv, Holds
  <2> QED BY <2>1, <2>2, <2>3, <2>4, <2>5 DEF OwnershipInv
<1>21. ASSUME NEW p \in Processes, ReadOwnLock(p) PROVE OwnershipInv'
  <2>1. CreatedOnce'
    BY <1>21 DEF ReadOwnLock, files, history, Goto, OwnershipInv, CreatedOnce, Contends
  <2>2. FillingRecent'
    BY <1>21 DEF ReadOwnLock, files, history, Goto, OwnershipInv, FillingRecent
  <2>3. WritersRun'
    BY <1>21 DEF ReadOwnLock, files, history, Goto, OwnershipInv, WritersRun
  <2>4. ASSUME ~swapped' PROVE JudgedEnded'
    BY <1>21, <2>4 DEF ReadOwnLock, files, history, Goto, OwnershipInv, JudgedEnded, Ended
  <2>5. ASSUME ~swapped' PROVE HeldInv'
    BY <1>21, <2>5 DEF ReadOwnLock, files, history, Goto, OwnershipInv, HeldInv, Holds
  <2> QED BY <2>1, <2>2, <2>3, <2>4, <2>5 DEF OwnershipInv
<1>22. ASSUME NEW p \in Processes, RemoveOwnLock(p) PROVE OwnershipInv'
  <2>1. CreatedOnce'
    BY <1>22 DEF RemoveOwnLock, Goto, Swaps, OwnershipInv, CreatedOnce, Contends
  <2>2. FillingRecent'
    BY <1>22 DEF RemoveOwnLock, Goto, Swaps, OwnershipInv, FillingRecent
  <2>3. WritersRun'
    BY <1>22 DEF RemoveOwnLock, Goto, Swaps, OwnershipInv, WritersRun
  <2>4. ASSUME ~swapped' PROVE JudgedEnded'
    BY <1>22, <2>4 DEF RemoveOwnLock, Goto, Swaps, OwnershipInv, JudgedEnded, Ended
  <2>5. ASSUME ~swapped' PROVE HeldInv'
    BY <1>22, <2>5 DEF RemoveOwnLock, Goto, Swaps, OwnershipInv, HeldInv, Holds
  <2> QED BY <2>1, <2>2, <2>3, <2>4, <2>5 DEF OwnershipInv
<1>23. ASSUME NEW p \in Processes, Crash(p) PROVE OwnershipInv'
  <2>1. CreatedOnce'
    BY <1>23 DEF Crash, files, history, Goto, OwnershipInv, CreatedOnce, Contends
  <2>2. FillingRecent'
    BY <1>23 DEF Crash, files, history, Goto, OwnershipInv, FillingRecent
  <2>3. WritersRun'
    BY <1>23 DEF Crash, files, history, Goto, OwnershipInv, WritersRun
  <2>4. ASSUME ~swapped' PROVE JudgedEnded'
    BY <1>23, <2>4 DEF Crash, files, history, Goto, OwnershipInv, JudgedEnded, Ended
  <2>5. ASSUME ~swapped' PROVE HeldInv'
    BY <1>23, <2>5 DEF Crash, files, history, Goto, OwnershipInv, HeldInv, Holds
  <2> QED BY <2>1, <2>2, <2>3, <2>4, <2>5 DEF OwnershipInv
<1>24. CASE Age
  <2>1. CreatedOnce'
    BY <1>24 DEF Age, history, OwnershipInv, CreatedOnce, Contends
  <2>2. FillingRecent'
    BY <1>24 DEF Age, history, OwnershipInv, Lock, FillingRecent
  <2>3. WritersRun'
    BY <1>24 DEF Age, history, OwnershipInv, WritersRun
  <2>4. ASSUME ~swapped' PROVE JudgedEnded'
    BY <1>24, <2>4 DEF Age, history, OwnershipInv, JudgedEnded, Ended
  <2>5. ASSUME ~swapped' PROVE HeldInv'
    BY <1>24, <2>5 DEF Age, history, OwnershipInv, HeldInv, Holds
  <2> QED BY <2>1, <2>2, <2>3, <2>4, <2>5 DEF OwnershipInv
<1>25. CASE UNCHANGED vars
  BY <1>25 DEF vars, OwnershipInv, CreatedOnce, FillingRecent, WritersRun, JudgedEnded,
     HeldInv, Contends, Ended, Holds
<1> QED
  BY <1>1, <1>2, <1>3, <1>4, <1>5, <1>6, <1>7, <1>8, <1>9, <1>10, <1>11, <1>12, <1>13, <1>14, <1>15, <1>16, <1>17, <1>18, <1>19, <1>20, <1>21, <1>22, <1>23, <1>24, <1>25 DEF Next, Claim, Serve

\* For any number of processes, any interleaving of their claims, crashes and
\* closings: an owner loses the lock, and a running owner its discovery file,
\* only after some process removed a file replaced since it had read it.
THEOREM LockKeptCorrect == Spec => [](LockKept /\ OwnerListed)
<1>1. Init => TypeOK /\ OwnershipInv
  BY TypeInit, OwnershipInit
<1>2. TypeOK /\ OwnershipInv /\ [Next]_vars => (TypeOK /\ OwnershipInv)'
  BY TypeStep, OwnershipStep
<1>3. OwnershipInv => LockKept /\ OwnerListed
  BY DEF OwnershipInv, LockKept, OwnerListed, HeldInv, Holds, Owns
<1> QED BY <1>1, <1>2, <1>3, PTL DEF Spec

-----------------------------------------------------------------------------
(* What a process leaves behind when it closes, and one that has no other   *)
(* beside it.                                                               *)

\* A process that has looked for its discovery file leaves none, and a lock
\* file of its own that is there when it looks is filled.
CleanInv == \A p \in Processes :
    /\ pc[p] \in {"readOwnLock", "removeOwnLock", "closed"} => state # p
    /\ Holds(p) /\ lock # NoLock /\ lock.by = p => lock.filled
    /\ pc[p] = "closed" => ~(lock # NoLock /\ lock.by = p)

\* A process that has been alone finds the lock as it has read it, and after it
\* has removed one there is none.
AloneInv == \A p \in alone :
    /\ pc[p] # "new"
    /\ \A q \in Processes \ {p} : ~Alive(q)
    /\ pc[p] \in {"read", "judge", "readState", "removeState", "removeLock"} => attempt[p] = 1
    /\ pc[p] = "create" /\ attempt[p] # 1 => lock = NoLock
    /\ pc[p] = "judge" => seen[p] = lock

LEMMA CleanInit == Init => CleanInv /\ AloneInv
BY DEF Init, CleanInv, AloneInv, Holds

\* Whoever closes removes its files, and nobody writes them again.
LEMMA CleanStep == TypeOK /\ OwnershipInv /\ CleanInv /\ [Next]_vars => CleanInv'
<1> SUFFICES ASSUME TypeOK, OwnershipInv, CleanInv, [Next]_vars PROVE CleanInv'
  OBVIOUS
<1> USE DEF TypeOK
<1>1. ASSUME NEW p \in Processes,
             \/ Launch(p) \/ LockExists(p) \/ ReadLock(p) \/ OwnerAlive(p) \/ CreatorBusy(p)
             \/ LockAbandoned(p) \/ OwnerDead(p) \/ ReadState(p) \/ StartFails(p)
             \/ ScheduleStateWrite(p) \/ Close(p) \/ Crash(p)
      PROVE  CleanInv'
  <2>1. /\ UNCHANGED <<lock, state>>
        /\ \A q \in Processes : q # p => pc'[q] = pc[q]
        /\ pc'[p] \notin {"readOwnLock", "removeOwnLock", "closed"}
        /\ pc'[p] \in {"starting", "running", "draining", "removeOwnState"} => Holds(p)
    BY <1>1 DEF Launch, LockExists, ReadLock, OwnerAlive, CreatorBusy, LockAbandoned, OwnerDead,
                ReadState, StartFails, ScheduleStateWrite, Close, Crash, Goto, files, Holds
  <2> QED BY <2>1 DEF CleanInv, Holds
<1>2. ASSUME NEW p \in Processes, CreateLock(p) PROVE CleanInv'
  <2>1. /\ UNCHANGED state /\ lock'.by = p /\ pc'[p] = "fill"
        /\ \A q \in Processes : q # p => pc'[q] = pc[q]
    BY <1>2 DEF CreateLock, Goto
  <2> QED BY <2>1 DEF CleanInv, Holds
<1>3. ASSUME NEW p \in Processes, FillLock(p) PROVE CleanInv'
  <2>1. /\ UNCHANGED state /\ pc'[p] = "starting"
        /\ \A q \in Processes : q # p => pc'[q] = pc[q]
        /\ \/ lock'.by = p /\ lock'.filled
           \/ UNCHANGED lock /\ ~(lock # NoLock /\ lock.by = p)
    BY <1>3 DEF FillLock, Goto
  <2> QED BY <2>1 DEF CleanInv, Holds
<1>4. ASSUME NEW p \in Processes, FillFails(p) \/ RemoveLock(p) PROVE CleanInv'
  <2>1. /\ UNCHANGED state /\ lock' = NoLock /\ pc'[p] \in {"failed", "create"}
        /\ \A q \in Processes : q # p => pc'[q] = pc[q]
    BY <1>4 DEF FillFails, RemoveLock, Goto
  <2> QED BY <2>1 DEF CleanInv, Holds
<1>5. ASSUME NEW p \in Processes, RemoveState(p) \/ RemoveOwnState(p) PROVE CleanInv'
  <2>1. /\ UNCHANGED lock /\ state' = None /\ pc'[p] \in {"removeLock", "readOwnLock"}
        /\ pc'[p] = "readOwnLock" => Holds(p)
        /\ \A q \in Processes : q # p => pc'[q] = pc[q]
    BY <1>5 DEF RemoveState, RemoveOwnState, Goto, Holds
  <2> QED BY <2>1, ProcessAssumption DEF CleanInv, Holds
<1>6. ASSUME NEW p \in Processes, Publish(p) \/ WriteState(p) PROVE CleanInv'
  <2>1. /\ UNCHANGED lock /\ state' = p /\ pc'[p] \in {"running", "draining"} /\ Holds(p)
        /\ \A q \in Processes : q # p => pc'[q] = pc[q]
    BY <1>6 DEF Publish, WriteState, Goto, Holds, OwnershipInv, WritersRun
  <2> QED BY <2>1 DEF CleanInv, Holds
<1>7. ASSUME NEW p \in Processes, ReadOwnState(p) PROVE CleanInv'
  <2>1. /\ UNCHANGED <<lock, state>> /\ Holds(p)
        /\ pc'[p] = IF state = p THEN "removeOwnState" ELSE "readOwnLock"
        /\ \A q \in Processes : q # p => pc'[q] = pc[q]
    BY <1>7 DEF ReadOwnState, Goto, Holds, files
  <2> QED BY <2>1 DEF CleanInv, Holds
<1>8. ASSUME NEW p \in Processes, ReadOwnLock(p) PROVE CleanInv'
  <2>1. /\ UNCHANGED <<lock, state>> /\ Holds(p) /\ state # p
        /\ pc'[p] = IF lock = [by |-> p, filled |-> TRUE] THEN "removeOwnLock" ELSE "closed"
        /\ \A q \in Processes : q # p => pc'[q] = pc[q]
    BY <1>8 DEF ReadOwnLock, Goto, Holds, files, CleanInv
  <2>2. lock # NoLock /\ lock.by = p => lock = [by |-> p, filled |-> TRUE]
    BY <2>1 DEF CleanInv, Lock
  <2> QED BY <2>1, <2>2 DEF CleanInv, Holds
<1>9. ASSUME NEW p \in Processes, RemoveOwnLock(p) PROVE CleanInv'
  <2>1. /\ UNCHANGED state /\ lock' = NoLock /\ pc'[p] = "closed" /\ state # p
        /\ \A q \in Processes : q # p => pc'[q] = pc[q]
    BY <1>9 DEF RemoveOwnLock, Goto, CleanInv
  <2> QED BY <2>1 DEF CleanInv, Holds
<1>10. CASE Age \/ UNCHANGED vars
  <2>1. UNCHANGED <<lock, state, pc>>
    BY <1>10 DEF Age, vars
  <2> QED BY <2>1 DEF CleanInv, Holds
<1> QED BY <1>1, <1>2, <1>3, <1>4, <1>5, <1>6, <1>7, <1>8, <1>9, <1>10 DEF Next, Claim, Serve

\* Nobody but a process that is alone takes a step beside it, before another is
\* launched.
LEMMA OnlyAlone ==
    ASSUME TypeOK, OwnershipInv, AloneInv, NEW p \in Processes,
           Claim(p) \/ Serve(p) \/ Crash(p), ~Launch(p)
    PROVE  /\ Alive(p) /\ alone \subseteq {p} /\ UNCHANGED alone
           /\ \A q \in Processes : q # p => pc'[q] = pc[q]
<1>1. Alive(p)
  <2>1. CASE Claim(p)
    BY <2>1 DEF Claim, Alive, CreateLock, LockExists, FillLock, FillFails, ReadLock, OwnerAlive,
                CreatorBusy, LockAbandoned, OwnerDead, ReadState, RemoveState, RemoveLock
  <2>2. CASE Serve(p)
    BY <2>2 DEF Serve, Alive, Publish, StartFails, ScheduleStateWrite, WriteState, Close,
                ReadOwnState, RemoveOwnState, ReadOwnLock, RemoveOwnLock, OwnershipInv, WritersRun
  <2>3. CASE Crash(p)
    BY <2>3 DEF Crash
  <2> QED BY <2>1, <2>2, <2>3
<1>2. UNCHANGED alone /\ \A q \in Processes : q # p => pc'[q] = pc[q]
  <2>1. CASE Claim(p)
    BY <2>1 DEF Claim, TypeOK, Goto, history, CreateLock, LockExists, FillLock, FillFails, ReadLock,
                OwnerAlive, CreatorBusy, LockAbandoned, OwnerDead, ReadState, RemoveState, RemoveLock
  <2>2. CASE Serve(p)
    BY <2>2 DEF Serve, TypeOK, Goto, history, Publish, StartFails, ScheduleStateWrite, WriteState,
                Close, ReadOwnState, RemoveOwnState, ReadOwnLock, RemoveOwnLock
  <2>3. CASE Crash(p)
    BY <2>3 DEF Crash, TypeOK, Goto, history
  <2> QED BY <2>1, <2>2, <2>3
<1> QED BY <1>1, <1>2 DEF AloneInv, TypeOK

LEMMA AloneStep == TypeOK /\ OwnershipInv /\ AloneInv /\ [Next]_vars => AloneInv'
<1> SUFFICES ASSUME TypeOK, OwnershipInv, AloneInv, [Next]_vars PROVE AloneInv'
  OBVIOUS
<1>1. ASSUME NEW p \in Processes, Launch(p) PROVE AloneInv'
  <2>1. /\ pc[p] = "new" /\ pc' = [pc EXCEPT ![p] = "create"]
        /\ attempt' = [attempt EXCEPT ![p] = 1]
        /\ alone' = IF \E q \in Processes : Alive(q) THEN {} ELSE {p}
    BY <1>1 DEF Launch, Goto
  <2> QED BY <2>1 DEF AloneInv, Alive, TypeOK
<1>2. ASSUME NEW p \in Processes, Claim(p) \/ Serve(p) \/ Crash(p), ~Launch(p) PROVE AloneInv'
  <2>1. /\ Alive(p) /\ alone \subseteq {p} /\ alone' = alone
        /\ \A q \in Processes : q # p => pc'[q] = pc[q]
    BY <1>2, OnlyAlone
  <2>2. ASSUME p \in alone
        PROVE  /\ pc'[p] # "new"
               /\ pc'[p] \in {"read", "judge", "readState", "removeState", "removeLock"} => attempt'[p] = 1
               /\ pc'[p] = "create" /\ attempt'[p] # 1 => lock' = NoLock
               /\ pc'[p] = "judge" => seen'[p] = lock'
    <3>1. /\ pc[p] # "new"
          /\ pc[p] \in {"read", "judge", "readState", "removeState", "removeLock"} => attempt[p] = 1
          /\ pc[p] = "create" /\ attempt[p] # 1 => lock = NoLock
          /\ pc[p] = "judge" => seen[p] = lock
          /\ pc \in [Processes -> Labels] /\ seen \in [Processes -> Lock \cup {NoLock}]
          /\ attempt \in [Processes -> 0..MaxAttempts]
          /\ \A q \in pending : pc[q] \in {"running", "draining"}
      BY <2>2 DEF AloneInv, TypeOK, OwnershipInv, WritersRun
    <3>2. CASE CreateLock(p) \/ LockExists(p) \/ FillLock(p) \/ FillFails(p) \/ ReadLock(p)
      BY <3>1, <3>2 DEF CreateLock, LockExists, FillLock, FillFails, ReadLock, Goto, files
    <3>3. CASE \/ OwnerAlive(p) \/ CreatorBusy(p) \/ LockAbandoned(p) \/ OwnerDead(p)
               \/ ReadState(p) \/ RemoveState(p) \/ RemoveLock(p)
      BY <3>1, <3>3
      DEF OwnerAlive, CreatorBusy, LockAbandoned, OwnerDead, ReadState, RemoveState, RemoveLock,
          Goto, files
    <3>4. CASE Serve(p) \/ Crash(p)
      BY <3>1, <3>4
      DEF Serve, Crash, Publish, StartFails, ScheduleStateWrite, WriteState, Close, ReadOwnState,
          RemoveOwnState, ReadOwnLock, RemoveOwnLock, Goto, files
    <3> QED BY <1>2, <3>2, <3>3, <3>4 DEF Claim
  <2> QED BY <2>1, <2>2 DEF AloneInv, Alive
<1>3. CASE Age \/ UNCHANGED vars
  BY <1>3 DEF Age, vars, history, AloneInv, Alive
<1> QED BY <1>1, <1>2, <1>3 DEF Next

\* The discovery file names a running owner, unless some process has removed a
\* file that was replaced since it had read it, and no process that has closed;
\* nor does the lock, not even after a queued rewrite.
THEOREM DiscoverableCorrect == Spec => []Discoverable
<1>1. Init => TypeOK /\ OwnershipInv /\ CleanInv
  BY TypeInit, OwnershipInit, CleanInit
<1>2. (TypeOK /\ OwnershipInv /\ CleanInv) /\ [Next]_vars => (TypeOK /\ OwnershipInv /\ CleanInv)'
  BY TypeStep, OwnershipStep, CleanStep
<1>3. OwnershipInv /\ CleanInv => Discoverable
  BY DEF OwnershipInv, HeldInv, Owns, Holds, CleanInv, Discoverable, LockKept, OwnerListed, CleanExit
<1> QED BY <1>1, <1>2, <1>3, PTL DEF Spec

\* A step of a process that has had no other beside it.
LEMMA AloneTakes ==
    ASSUME MaxAttempts > 1, TypeOK, OwnershipInv, AloneInv, [Next]_vars,
           NEW p \in alone, pc'[p] # pc[p]
    PROVE  /\ pc'[p] = "client" => lock # NoLock /\ recent /\ ~lock.filled
           /\ pc'[p] = "failed" => pc[p] = "fill"
<1>1. PICK q \in Processes : Claim(q) \/ Serve(q) \/ Crash(q)
  BY DEF Next, Age, vars
<1>2. p \in Processes /\ pc[p] # "new" /\ attempt \in [Processes -> 0..MaxAttempts]
      /\ pc \in [Processes -> Labels] /\ lock \in Lock \cup {NoLock}
      /\ \A r \in pending : pc[r] \in {"running", "draining"}
  BY DEF AloneInv, TypeOK, OwnershipInv, WritersRun
<1>3. q = p
  <2>1. CASE Launch(q)
    BY <1>2, <2>1 DEF Launch, Goto
  <2>2. CASE ~Launch(q)
    BY <1>1, <2>2, OnlyAlone
  <2> QED BY <2>1, <2>2
<1>4. ~OwnerAlive(p)
  <2>1. ASSUME OwnerAlive(p) PROVE FALSE
    <3>1. pc[p] = "judge" /\ Readable(seen[p]) /\ Alive(seen[p].by) /\ seen[p] \in Lock
      BY <1>2, <2>1 DEF OwnerAlive, Readable, TypeOK
    <3>2. seen[p].by # p /\ seen[p].by \in Processes
      BY <1>2, <3>1 DEF OwnershipInv, CreatedOnce, Contends, Readable, Lock
    <3> QED BY <3>1, <3>2 DEF AloneInv
  <2> QED BY <2>1
<1>5. CASE CreatorBusy(p)
  <2>1. pc[p] = "judge" /\ ~Readable(seen[p]) /\ lock # NoLock /\ recent /\ seen[p] = lock
        /\ pc' = [pc EXCEPT ![p] = "client"]
    BY <1>5 DEF CreatorBusy, AloneInv, Goto
  <2> QED BY <1>2, <2>1 DEF Readable
<1>6. CASE RemoveLock(p)
  <2>1. attempt[p] = 1
    BY <1>6 DEF RemoveLock, AloneInv
  <2> QED BY <1>2, <1>6, <2>1 DEF RemoveLock, Goto
<1>7. CASE FillFails(p)
  BY <1>2, <1>7 DEF FillFails, Goto
<1>8. CASE \/ Launch(p) \/ CreateLock(p) \/ LockExists(p) \/ FillLock(p) \/ ReadLock(p)
           \/ LockAbandoned(p) \/ OwnerDead(p) \/ ReadState(p) \/ RemoveState(p)
  BY <1>2, <1>8 DEF Launch, CreateLock, LockExists, FillLock, ReadLock, LockAbandoned, OwnerDead,
                    ReadState, RemoveState, Goto
<1>9. CASE Serve(p) \/ Crash(p)
  BY <1>2, <1>9
  DEF Serve, Crash, Publish, StartFails, ScheduleStateWrite, WriteState, Close, ReadOwnState,
      RemoveOwnState, ReadOwnLock, RemoveOwnLock, Goto
<1> QED BY <1>1, <1>3, <1>4, <1>5, <1>6, <1>7, <1>8, <1>9 DEF Claim

\* Whatever crashed processes leave, a process that starts on its own becomes
\* the owner, unless one died within the last 30 s while it was writing the lock
\* file or writing the file fails.  It takes a second attempt; the code makes
\* three.
THEOREM AloneOwnsCorrect == ASSUME MaxAttempts > 1 PROVE Spec => AloneOwns
<1>1. Init => TypeOK /\ OwnershipInv /\ AloneInv
  BY TypeInit, OwnershipInit, CleanInit
<1>2. (TypeOK /\ OwnershipInv /\ AloneInv) /\ [Next]_vars => (TypeOK /\ OwnershipInv /\ AloneInv)'
  BY TypeStep, OwnershipStep, AloneStep
<1>3. (TypeOK /\ OwnershipInv /\ AloneInv) /\ [Next]_vars
        => [\A p \in alone : pc'[p] # pc[p] =>
               /\ pc'[p] = "client" => lock # NoLock /\ recent /\ ~lock.filled
               /\ pc'[p] = "failed" => pc[p] = "fill"]_vars
  BY AloneTakes
<1> QED BY <1>1, <1>2, <1>3, PTL DEF Spec, AloneOwns

-----------------------------------------------------------------------------
(* The files keep what OwnerFiles promises of them.                         *)

\* A claimant about to remove the lock of an owner that has ended has seen that
\* owner's discovery file gone.
ListingGone == \A p \in Processes :
    pc[p] = "removeLock" /\ Readable(seen[p]) => state # seen[p].by

\* ListingGone for as long as no process has removed a replaced file.
ListingInv == swapped \/ ListingGone

LEMMA ListingInit == Init => ListingInv
BY DEF Init, ListingInv, ListingGone

\* Nobody publishes itself once it has ended, and only a claimant that has read
\* or removed the discovery file gets to the lock.
LEMMA ListingStep == TypeOK /\ OwnershipInv /\ ListingInv /\ [Next]_vars => ListingInv'
<1> SUFFICES ASSUME TypeOK, OwnershipInv, ListingInv, [Next]_vars, ~swapped'
             PROVE  ListingGone'
  BY DEF ListingInv
<1> USE DEF TypeOK
<1>0. ~swapped
  BY DEF Next, Claim, Serve, Launch, CreateLock, LockExists, FillLock, FillFails, ReadLock,
         OwnerAlive, CreatorBusy, LockAbandoned, OwnerDead, ReadState, RemoveState, RemoveLock,
         Publish, StartFails, ScheduleStateWrite, WriteState, Close, ReadOwnState, RemoveOwnState,
         ReadOwnLock, RemoveOwnLock, Crash, Age, Swaps, history, vars
<1>1. ListingGone /\ JudgedEnded /\ WritersRun
  BY <1>0 DEF ListingInv, OwnershipInv
<1>2. ASSUME NEW p \in Processes,
             \/ Launch(p) \/ CreateLock(p) \/ LockExists(p) \/ FillLock(p) \/ FillFails(p)
             \/ OwnerAlive(p) \/ CreatorBusy(p) \/ OwnerDead(p) \/ RemoveLock(p) \/ StartFails(p)
             \/ ScheduleStateWrite(p) \/ Close(p) \/ ReadOwnState(p) \/ ReadOwnLock(p)
             \/ RemoveOwnLock(p) \/ Crash(p)
      PROVE  ListingGone'
  <2>1. /\ UNCHANGED <<state, seen>>
        /\ \A q \in Processes : q # p => pc'[q] = pc[q]
        /\ pc'[p] # pc[p] => pc'[p] # "removeLock"
    BY <1>2 DEF Launch, CreateLock, LockExists, FillLock, FillFails, OwnerAlive, CreatorBusy,
                OwnerDead, RemoveLock, StartFails, ScheduleStateWrite, Close, ReadOwnState,
                ReadOwnLock, RemoveOwnLock, Crash, Goto, files
  <2> QED BY <1>1, <2>1 DEF ListingGone, Readable
<1>3. ASSUME NEW p \in Processes, ReadLock(p) PROVE ListingGone'
  <2>1. /\ UNCHANGED state
        /\ \A q \in Processes : q # p => pc'[q] = pc[q] /\ seen'[q] = seen[q]
        /\ pc'[p] = "judge"
    BY <1>3 DEF ReadLock, Goto, files
  <2> QED BY <1>1, <2>1 DEF ListingGone, Readable
<1>4. ASSUME NEW p \in Processes, LockAbandoned(p) \/ ReadState(p) PROVE ListingGone'
  <2>1. /\ UNCHANGED <<state, seen>>
        /\ \A q \in Processes : q # p => pc'[q] = pc[q]
        /\ pc'[p] = "removeLock" => ~Readable(seen[p]) \/ state # seen[p].by
    BY <1>4 DEF LockAbandoned, ReadState, Goto, files
  <2> QED BY <1>1, <2>1 DEF ListingGone, Readable
<1>5. ASSUME NEW p \in Processes, RemoveState(p) \/ RemoveOwnState(p) PROVE ListingGone'
  <2>1. UNCHANGED seen /\ state' = None
    BY <1>5 DEF RemoveState, RemoveOwnState
  <2>2. ASSUME NEW q \in Processes, Readable(seen[q]) PROVE seen[q].by # None
    BY <2>2, ProcessAssumption DEF Readable, Lock
  <2> QED BY <2>1, <2>2 DEF ListingGone, Readable
<1>6. ASSUME NEW p \in Processes, Publish(p) \/ WriteState(p) PROVE ListingGone'
  <2>1. /\ UNCHANGED seen /\ state' = p
        /\ \A q \in Processes : q # p => pc'[q] = pc[q]
        /\ pc'[p] # "removeLock" /\ ~Ended(p)
    BY <1>1, <1>6 DEF Publish, WriteState, Goto, WritersRun, Ended
  <2>2. ASSUME NEW q \in Processes, pc[q] = "removeLock", Readable(seen[q])
        PROVE  Ended(seen[q].by)
    BY <1>1, <2>2 DEF JudgedEnded, Readable
  <2>3. ASSUME NEW q \in Processes, pc'[q] = "removeLock", Readable(seen'[q])
        PROVE  state' # seen'[q].by
    BY <2>1, <2>2, <2>3 DEF Readable
  <2> QED BY <2>3 DEF ListingGone, Readable
<1>7. CASE Age \/ UNCHANGED vars
  BY <1>1, <1>7 DEF Age, vars, history, ListingGone, Readable
<1> QED BY <1>2, <1>3, <1>4, <1>5, <1>6, <1>7 DEF Next, Claim, Serve

-----------------------------------------------------------------------------
\* What OwnerFiles calls live.
Living == {p \in Processes : Alive(p)}

LEMMA FilesInit == Init => Files!Init
BY DEF Init, Files!Init, OwnerOf, Readable, Alive

\* A step that leaves the lock's owner and the discovery file alone.
LEMMA OnlyLiving ==
    ASSUME TypeOK, NEW p \in Processes, OwnerOf(lock') = OwnerOf(lock), state' = state, swapped' = swapped,
           \A q \in Processes : q # p => pc'[q] = pc[q]
    PROVE  [Files!Next]_(Files!vars)
<1>1. CASE Alive(p) <=> Alive(p)'
  <2>1. Living' = Living
    BY <1>1 DEF Living, Alive
  <2> QED BY <2>1 DEF Files!vars, Living, OwnerOf, Readable
<1>2. CASE Alive(p) /\ ~Alive(p)'
  <2>1. Living' = Living \ {p} /\ p \in Living
    BY <1>2 DEF Living, Alive
  <2>2. Files!End(p)
    BY <2>1 DEF Files!End, Living, OwnerOf, Readable
  <2> QED BY <2>2 DEF Files!Next
<1>3. CASE ~Alive(p) /\ Alive(p)'
  <2>1. Living' = Living \cup {p} /\ p \notin Living
    BY <1>3 DEF Living, Alive
  <2>2. Files!Launch(p)
    BY <2>1 DEF Files!Launch, Living, OwnerOf, Readable
  <2> QED BY <2>2 DEF Files!Next
<1> QED BY <1>1, <1>2, <1>3

\* A step after, or by which, a replaced file has been removed.
LEMMA AnythingGoes ==
    ASSUME TypeOK, TypeOK', swapped' PROVE Files!Next
<1>1. OwnerOf(lock') \in Processes \cup {None} /\ state' \in Processes \cup {None}
  BY DEF TypeOK, OwnerOf, Readable, Lock
<1>2. Living' \in SUBSET Processes /\ swapped' = TRUE
  BY DEF Living, TypeOK
<1>3. Files!RemoveReplaced
  BY <1>1, <1>2 DEF Files!RemoveReplaced, Living, OwnerOf, Readable
<1> QED BY <1>3 DEF Files!Next

\* A lock that names a process is one.
LEMMA NamedLock ==
    ASSUME NEW p \in Processes, NEW f \in BOOLEAN PROVE [by |-> p, filled |-> f] # NoLock
<1>1. [by |-> p, filled |-> f] \in Lock
  BY DEF Lock
<1> QED BY <1>1, LockAssumption

\* A claim takes effect when the lock file is filled in.
LEMMA ClaimStep ==
    ASSUME TypeOK, OwnershipInv, ListingInv, CleanInv, ~swapped, ~swapped',
           NEW p \in Processes, Claim(p)
    PROVE  [Files!Next]_(Files!vars)
<1> USE DEF TypeOK
<1>1. JudgedEnded /\ HeldInv /\ ListingGone
  BY DEF OwnershipInv, ListingInv
<1>2. CASE \/ Launch(p) \/ CreateLock(p) \/ LockExists(p) \/ ReadLock(p) \/ OwnerAlive(p)
           \/ CreatorBusy(p) \/ LockAbandoned(p) \/ OwnerDead(p) \/ ReadState(p)
  <2>1. /\ OwnerOf(lock') = OwnerOf(lock) /\ UNCHANGED <<state, swapped>>
        /\ \A q \in Processes : q # p => pc'[q] = pc[q]
    BY <1>2 DEF Launch, CreateLock, LockExists, ReadLock, OwnerAlive, CreatorBusy, LockAbandoned,
                OwnerDead, ReadState, Goto, files, history, OwnerOf, Readable
  <2> QED BY <2>1, OnlyLiving
<1>3. CASE FillLock(p)
  <2>1. lock = [by |-> p, filled |-> FALSE] /\ lock # NoLock /\ pc[p] = "fill"
    BY <1>1, <1>3, NamedLock DEF FillLock, HeldInv
  <2>2. lock' = [by |-> p, filled |-> TRUE] /\ lock' # NoLock /\ pc' = [pc EXCEPT ![p] = "starting"]
    BY <1>3, <2>1, NamedLock DEF FillLock, Goto
  <2>3. OwnerOf(lock) = None /\ OwnerOf(lock') = p
    BY <2>1, <2>2 DEF OwnerOf, Readable
  <2>4. Living' = Living /\ p \in Living /\ None \notin Living
    BY <2>1, <2>2, ProcessAssumption DEF Living, Alive
  <2>5. UNCHANGED <<state, swapped>>
    BY <1>3 DEF FillLock, history
  <2>6. Files!Claim(p)
    BY <2>3, <2>4, <2>5 DEF Files!Claim, Living, OwnerOf, Readable
  <2> QED BY <2>6 DEF Files!Next
<1>4. CASE FillFails(p)
  <2>1. lock = [by |-> p, filled |-> FALSE]
    BY <1>1, <1>4 DEF FillFails, HeldInv
  <2>2. OwnerOf(lock) = None
    BY <2>1 DEF OwnerOf, Readable
  <2>3. lock' = NoLock /\ UNCHANGED <<state, swapped>> /\ \A q \in Processes : q # p => pc'[q] = pc[q]
    BY <1>4 DEF FillFails, Swaps, Goto
  <2>4. OwnerOf(lock') = None
    BY <2>3 DEF OwnerOf, Readable
  <2> QED BY <2>2, <2>3, <2>4, OnlyLiving
<1>5. CASE RemoveState(p)
  <2>1. /\ pc[p] = "removeState" /\ state' = None /\ state \in {None, seen[p].by}
        /\ pc' = [pc EXCEPT ![p] = "removeLock"] /\ UNCHANGED <<lock, swapped>>
    BY <1>5 DEF RemoveState, Swaps, Goto
  <2>2. Ended(seen[p].by)
    BY <1>1, <2>1 DEF JudgedEnded
  <2>3. Living' = Living /\ p \in Living /\ state \notin Living
    BY <2>1, <2>2, ProcessAssumption DEF Living, Alive, Ended
  <2>4. Files!Unlist(p)
    BY <2>1, <2>3 DEF Files!Unlist, Living, OwnerOf, Readable
  <2> QED BY <2>4 DEF Files!Next
<1>6. CASE RemoveLock(p)
  <2>1. /\ pc[p] = "removeLock" /\ lock' = NoLock /\ lock \in {NoLock, seen[p]} /\ UNCHANGED <<state, swapped>>
        /\ pc' = [pc EXCEPT ![p] = pc'[p]] /\ pc'[p] \in {"create", "failed"}
        /\ \A q \in Processes : q # p => pc'[q] = pc[q]
    BY <1>6 DEF RemoveLock, Swaps, Goto
  <2>2. OwnerOf(lock') = None
    BY <2>1 DEF OwnerOf, Readable
  <2>3. CASE ~Readable(lock)
    BY <2>1, <2>2, <2>3, OnlyLiving DEF OwnerOf
  <2>4. CASE Readable(lock)
    <3>1. lock = seen[p] /\ OwnerOf(lock) = seen[p].by
      BY <2>1, <2>4 DEF Readable, OwnerOf
    <3>2. Ended(seen[p].by) /\ state # seen[p].by
      BY <1>1, <2>1, <2>4, <3>1 DEF JudgedEnded, ListingGone, Readable
    <3>3. p \in Living /\ OwnerOf(lock) \notin Living
      BY <2>1, <3>1, <3>2 DEF Living, Alive, Ended
    <3>4. Living' \in {Living, Living \ {p}}
      BY <2>1 DEF Living, Alive
    <3>5. Files!Release(p)
      BY <2>1, <2>2, <3>1, <3>2, <3>3, <3>4 DEF Files!Release, Living, OwnerOf, Readable
    <3> QED BY <3>5 DEF Files!Next
  <2> QED BY <2>3, <2>4
<1> QED BY <1>2, <1>3, <1>4, <1>5, <1>6 DEF Claim

\* An owner publishes and removes nothing but its own.
LEMMA ServeStep ==
    ASSUME TypeOK, OwnershipInv, CleanInv, ~swapped, ~swapped', NEW p \in Processes, Serve(p)
    PROVE  [Files!Next]_(Files!vars)
<1> USE DEF TypeOK
<1>1. HeldInv /\ WritersRun
  BY DEF OwnershipInv
<1>2. CASE \/ StartFails(p) \/ ScheduleStateWrite(p) \/ Close(p) \/ ReadOwnState(p) \/ ReadOwnLock(p)
  <2>1. /\ UNCHANGED <<lock, state, swapped>>
        /\ \A q \in Processes : q # p => pc'[q] = pc[q]
    BY <1>2 DEF StartFails, ScheduleStateWrite, Close, ReadOwnState, ReadOwnLock, Goto, files, history
  <2>2. OwnerOf(lock') = OwnerOf(lock)
    BY <2>1 DEF OwnerOf, Readable
  <2> QED BY <2>1, <2>2, OnlyLiving
<1>3. CASE Publish(p) \/ WriteState(p)
  <2>1. /\ pc[p] \in {"starting", "running", "draining"} /\ state' = p /\ UNCHANGED <<lock, swapped>>
        /\ pc' = [pc EXCEPT ![p] = pc'[p]] /\ pc'[p] \in {"running", "draining"}
    BY <1>1, <1>3 DEF Publish, WriteState, WritersRun, Goto, history
  <2>2. lock = [by |-> p, filled |-> TRUE] /\ lock # NoLock
    BY <1>1, <2>1, NamedLock DEF HeldInv, Holds
  <2>3. OwnerOf(lock) = p /\ OwnerOf(lock') = p
    BY <2>1, <2>2 DEF OwnerOf, Readable
  <2>4. Living' = Living /\ p \in Living
    BY <2>1 DEF Living, Alive
  <2>5. Files!Publish(p)
    BY <2>1, <2>3, <2>4 DEF Files!Publish, Living, OwnerOf, Readable
  <2> QED BY <2>5 DEF Files!Next
<1>4. CASE RemoveOwnState(p)
  <2>1. /\ pc[p] = "removeOwnState" /\ state' = None /\ state \in {None, p} /\ UNCHANGED <<lock, swapped>>
        /\ pc' = [pc EXCEPT ![p] = "readOwnLock"]
    BY <1>4 DEF RemoveOwnState, Swaps, Goto
  <2>2. Living' = Living /\ p \in Living /\ state \notin Living \ {p}
    BY <2>1, ProcessAssumption DEF Living, Alive
  <2>3. Files!Unlist(p)
    BY <2>1, <2>2 DEF Files!Unlist, Living, OwnerOf, Readable
  <2> QED BY <2>3 DEF Files!Next
<1>5. CASE RemoveOwnLock(p)
  <2>1. /\ pc[p] = "removeOwnLock" /\ lock' = NoLock /\ UNCHANGED <<state, swapped>>
        /\ pc' = [pc EXCEPT ![p] = "closed"]
    BY <1>5 DEF RemoveOwnLock, Swaps, Goto
  <2>2. lock = [by |-> p, filled |-> TRUE] /\ lock # NoLock /\ state # p
    BY <1>1, <2>1, NamedLock DEF HeldInv, Holds, CleanInv
  <2>3. OwnerOf(lock) = p /\ OwnerOf(lock') = None
    BY <2>1, <2>2 DEF OwnerOf, Readable
  <2>4. Living' = Living \ {p} /\ p \in Living
    BY <2>1 DEF Living, Alive
  <2>5. Files!Release(p)
    BY <2>1, <2>2, <2>3, <2>4 DEF Files!Release, Living, OwnerOf, Readable
  <2> QED BY <2>5 DEF Files!Next
<1> QED BY <1>2, <1>3, <1>4, <1>5 DEF Serve

LEMMA FilesStep ==
    ASSUME TypeOK, TypeOK', OwnershipInv, ListingInv, CleanInv, [Next]_vars
    PROVE  [Files!Next]_(Files!vars)
<1>1. CASE swapped'
  BY <1>1, AnythingGoes
<1>2. CASE ~swapped'
  <2>1. ~swapped
    BY <1>2 DEF Next, Claim, Serve, Launch, CreateLock, LockExists, FillLock, FillFails, ReadLock,
         OwnerAlive, CreatorBusy, LockAbandoned, OwnerDead, ReadState, RemoveState, RemoveLock,
         Publish, StartFails, ScheduleStateWrite, WriteState, Close, ReadOwnState, RemoveOwnState,
         ReadOwnLock, RemoveOwnLock, Crash, Age, Swaps, history, vars, TypeOK
  <2>2. ASSUME NEW p \in Processes, Claim(p) PROVE [Files!Next]_(Files!vars)
    BY <1>2, <2>1, <2>2, ClaimStep
  <2>3. ASSUME NEW p \in Processes, Serve(p) PROVE [Files!Next]_(Files!vars)
    BY <1>2, <2>1, <2>3, ServeStep
  <2>4. ASSUME NEW p \in Processes, Crash(p) PROVE [Files!Next]_(Files!vars)
    <3>1. /\ UNCHANGED <<lock, state, swapped>>
          /\ \A q \in Processes : q # p => pc'[q] = pc[q]
      BY <2>4 DEF Crash, Goto, files, history, TypeOK
    <3>2. OwnerOf(lock') = OwnerOf(lock)
      BY <3>1 DEF OwnerOf, Readable
    <3> QED BY <3>1, <3>2, OnlyLiving
  <2>5. CASE Age \/ UNCHANGED vars
    <3>1. UNCHANGED <<lock, state, pc, swapped>>
      BY <2>5 DEF Age, vars, history
    <3> QED BY <3>1 DEF Files!vars, OwnerOf, Readable, Alive
  <2> QED BY <2>2, <2>3, <2>4, <2>5 DEF Next
<1> QED BY <1>1, <1>2

\* For any number of processes and attempts, the lock file and the discovery
\* file change as OwnerFiles promises: a claim of many steps takes the
\* directory over in one, no file is taken from a live process, and a lock is
\* removed only after its owner's discovery file.
THEOREM FilesKeptCorrect == Spec => FilesKept
<1>1. Init => TypeOK /\ OwnershipInv /\ CleanInv /\ ListingInv
  BY TypeInit, OwnershipInit, CleanInit, ListingInit
<1>2. (TypeOK /\ OwnershipInv /\ CleanInv /\ ListingInv) /\ [Next]_vars
        => (TypeOK /\ OwnershipInv /\ CleanInv /\ ListingInv)'
  BY TypeStep, OwnershipStep, CleanStep, ListingStep
<1>3. (TypeOK /\ OwnershipInv /\ CleanInv /\ ListingInv)
        /\ (TypeOK /\ OwnershipInv /\ CleanInv /\ ListingInv)' /\ [Next]_vars
        => [Files!Next]_(Files!vars)
  BY FilesStep
<1> QED BY <1>1, <1>2, <1>3, FilesInit, PTL DEF Spec, FilesKept, Files!Spec

\* The discovery file names nobody but whom the lock names.
Agreed == swapped \/ state \in {None, OwnerOf(lock)}

\* As long as no replaced file has been removed, a client that finds a runtime
\* in the discovery file has found the owner of the lock, and no file of an
\* owner that has ended is left behind a new lock.
THEOREM FilesAgree == Spec => []Agreed
<1>1. Files!Init => Agreed
  BY DEF Files!Init, Agreed
<1>2. Agreed /\ [Files!Next]_(Files!vars) => Agreed'
  BY DEF Agreed, Files!Next, Files!vars, Files!Launch, Files!End, Files!Claim, Files!Publish,
         Files!Unlist, Files!Release, Files!RemoveReplaced, OwnerOf, Readable
<1> QED BY <1>1, <1>2, FilesKeptCorrect, PTL DEF FilesKept, Files!Spec
=============================================================================
