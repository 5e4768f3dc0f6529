-------------------------- MODULE RuntimeOwnership --------------------------
(***************************************************************************)
(* How runtime processes agree on one owner of a data directory            *)
(* (packages/local-runtime, runtimeState.ts and the start and close of     *)
(* runtime.ts): the lock file runtime.lock, created exclusively, and the   *)
(* discovery file runtime.json, renamed into place.                        *)
(*                                                                         *)
(* Each member of Processes is one run of a runtime process, with its own  *)
(* instance id and process id.  Every await on a file operation is a step  *)
(* of its own, so that other processes may act before the next one; a      *)
(* process may die at any step.                                            *)
(***************************************************************************)
EXTENDS Naturals, FiniteSets

CONSTANTS
    Processes,      \* runs of runtime processes
    None,           \* no process: runtime.json is missing
    NoLock,         \* runtime.lock is missing
    MaxAttempts     \* maxAttempts

ASSUME ProcessAssumption == None \notin Processes
ASSUME AttemptAssumption == MaxAttempts \in Nat \ {0}

\* A lock file: the process that created it, and whether that process has
\* written its owner record into it yet.
Lock == [by : Processes, filled : BOOLEAN]
ASSUME LockAssumption == NoLock \notin Lock

VARIABLES
    lock,       \* runtime.lock
    recent,     \* runtime.lock was modified less than 30 s ago
    state,      \* runtime.json: the instance it names
    pc,         \* where each process is
    attempt,    \* rounds of the claim loop each process has begun
    seen,       \* what each process last read runtime.lock to be
    pending,    \* runs with a queued rewrite of runtime.json
    alone,      \* runs that have had no other live process beside them
    swapped     \* some process has removed a file other than the one it had read

vars == <<lock, recent, state, pc, attempt, seen, pending, alone, swapped>>
files == <<lock, recent, state>>
history == <<alone, swapped>>

\* process.kill(pid, 0) succeeds.
Alive(p) == pc[p] \notin {"new", "client", "failed", "closed", "dead"}

\* Between winning the lock and the end of stopResources: the database is
\* open and the listeners are bound.
Owns(p) == pc[p] \in {"starting", "running", "draining"}

Goto(p, label) == pc' = [pc EXCEPT ![p] = label]

\* Removing the file `old` when the process had read `expected`.
Swaps(old, missing, expected) == swapped' = (swapped \/ old \notin {missing, expected})

-----------------------------------------------------------------------------
Init ==
    /\ lock = NoLock
    /\ recent = FALSE
    /\ state = None
    /\ pc = [p \in Processes |-> "new"]
    /\ attempt = [p \in Processes |-> 0]
    /\ seen = [p \in Processes |-> NoLock]
    /\ pending = {}
    /\ alone = {}
    /\ swapped = FALSE

Launch(p) ==
    /\ pc[p] = "new"
    /\ Goto(p, "create")
    /\ attempt' = [attempt EXCEPT ![p] = 1]
    /\ alone' = IF \E q \in Processes : Alive(q) THEN {} ELSE {p}
    /\ UNCHANGED <<files, seen, pending, swapped>>

-----------------------------------------------------------------------------
(* tryCreateLock: open(path, 'wx'), then write the owner record through the *)
(* handle, which reaches the file created even if the path has changed.     *)

CreateLock(p) ==
    /\ pc[p] = "create"
    /\ lock = NoLock
    /\ lock' = [by |-> p, filled |-> FALSE]
    /\ recent' = TRUE
    /\ Goto(p, "fill")
    /\ UNCHANGED <<state, attempt, seen, pending, history>>

LockExists(p) ==
    /\ pc[p] = "create"
    /\ lock # NoLock
    /\ Goto(p, "read")
    /\ UNCHANGED <<files, attempt, seen, pending, history>>

FillLock(p) ==
    /\ pc[p] = "fill"
    /\ IF lock # NoLock /\ lock.by = p
       THEN lock' = [by |-> p, filled |-> TRUE] /\ recent' = TRUE
       ELSE UNCHANGED <<lock, recent>>
    /\ Goto(p, "starting")
    /\ UNCHANGED <<state, attempt, seen, pending, history>>

\* The write or sync throws: the path is removed and the claim fails.
FillFails(p) ==
    /\ pc[p] = "fill"
    /\ lock' = NoLock
    /\ Swaps(lock, NoLock, [by |-> p, filled |-> FALSE])
    /\ Goto(p, "failed")
    /\ UNCHANGED <<recent, state, attempt, seen, pending, alone>>

-----------------------------------------------------------------------------
(* The rest of the claim loop: who holds the lock, and may it be taken?     *)

ReadLock(p) ==
    /\ pc[p] = "read"
    /\ seen' = [seen EXCEPT ![p] = lock]
    /\ Goto(p, "judge")
    /\ UNCHANGED <<files, attempt, pending, history>>

Readable(l) == l # NoLock /\ l.filled

\* The process a lock names, if it names one.
OwnerOf(l) == IF Readable(l) THEN l.by ELSE None

\* The owner is alive: this process is a client of it.
OwnerAlive(p) ==
    /\ pc[p] = "judge"
    /\ Readable(seen[p]) /\ Alive(seen[p].by)
    /\ Goto(p, "client")
    /\ UNCHANGED <<files, attempt, seen, pending, history>>

\* A bug: an unreadable lock file is respected whatever its age.
CreatorBusyForever(p) ==
    /\ pc[p] = "judge"
    /\ ~Readable(seen[p])
    /\ lock # NoLock
    /\ Goto(p, "client")
    /\ UNCHANGED <<files, attempt, seen, pending, history>>

\* The file says nothing but is recent: its creator is about to fill it in.
CreatorBusy(p) ==
    /\ pc[p] = "judge"
    /\ ~Readable(seen[p])
    /\ lock # NoLock /\ recent
    /\ Goto(p, "client")
    /\ UNCHANGED <<files, attempt, seen, pending, history>>

\* The file says nothing and is old, or is gone by now.
LockAbandoned(p) ==
    /\ pc[p] = "judge"
    /\ ~Readable(seen[p])
    /\ ~(lock # NoLock /\ recent)
    /\ Goto(p, "removeLock")
    /\ UNCHANGED <<files, attempt, seen, pending, history>>

\* A bug: whoever holds the lock is taken for dead.
LivenessUnchecked(p) ==
    /\ pc[p] = "judge"
    /\ Readable(seen[p])
    /\ Goto(p, "readState")
    /\ UNCHANGED <<files, attempt, seen, pending, history>>

\* A bug: the dead owner's lock is removed and its discovery file stays.
StateLeft(p) ==
    /\ pc[p] = "judge"
    /\ Readable(seen[p]) /\ ~Alive(seen[p].by)
    /\ Goto(p, "removeLock")
    /\ UNCHANGED <<files, attempt, seen, pending, history>>

\* The owner is dead: its discovery file goes first.  removeOwnedFile reads
\* the file and removes it when it names the dead owner.
OwnerDead(p) ==
    /\ pc[p] = "judge"
    /\ Readable(seen[p]) /\ ~Alive(seen[p].by)
    /\ Goto(p, "readState")
    /\ UNCHANGED <<files, attempt, seen, pending, history>>

ReadState(p) ==
    /\ pc[p] = "readState"
    /\ Goto(p, IF state = seen[p].by THEN "removeState" ELSE "removeLock")
    /\ UNCHANGED <<files, attempt, seen, pending, history>>

RemoveState(p) ==
    /\ pc[p] = "removeState"
    /\ state' = None
    /\ Swaps(state, None, seen[p].by)
    /\ Goto(p, "removeLock")
    /\ UNCHANGED <<lock, recent, attempt, seen, pending, alone>>

RemoveLock(p) ==
    /\ pc[p] = "removeLock"
    /\ lock' = NoLock
    /\ Swaps(lock, NoLock, seen[p])
    /\ IF attempt[p] < MaxAttempts
       THEN Goto(p, "create") /\ attempt' = [attempt EXCEPT ![p] = @ + 1]
       ELSE Goto(p, "failed") /\ UNCHANGED attempt
    /\ UNCHANGED <<recent, state, seen, pending, alone>>

-----------------------------------------------------------------------------
(* The owner: publish, republish on a change of status, close.              *)

Publish(p) ==
    /\ pc[p] = "starting"
    /\ state' = p
    /\ Goto(p, "running")
    /\ UNCHANGED <<lock, recent, attempt, seen, pending, history>>

\* createOwnedRuntime throws: resources are stopped and the files removed.
StartFails(p) ==
    /\ pc[p] = "starting"
    /\ Goto(p, "draining")
    /\ UNCHANGED <<files, attempt, seen, pending, history>>

ScheduleStateWrite(p) ==
    /\ pc[p] = "running"
    /\ pending' = pending \cup {p}
    /\ UNCHANGED <<files, pc, attempt, seen, history>>

WriteState(p) ==
    /\ p \in pending
    /\ state' = p
    /\ pending' = pending \ {p}
    /\ UNCHANGED <<lock, recent, pc, attempt, seen, history>>

Close(p) ==
    /\ pc[p] = "running"
    /\ Goto(p, "draining")
    /\ UNCHANGED <<files, attempt, seen, pending, history>>

\* A bug: close() does not wait for the queued rewrites.
WritesNotAwaited(p) ==
    /\ pc[p] = "draining"
    /\ Goto(p, IF state = p THEN "removeOwnState" ELSE "readOwnLock")
    /\ UNCHANGED <<files, attempt, seen, pending, history>>

\* close() awaits the queued writes, stops the resources, then reads the
\* discovery file to see whether it is still its own.
ReadOwnState(p) ==
    /\ pc[p] = "draining"
    /\ p \notin pending
    /\ Goto(p, IF state = p THEN "removeOwnState" ELSE "readOwnLock")
    /\ UNCHANGED <<files, attempt, seen, pending, history>>

RemoveOwnState(p) ==
    /\ pc[p] = "removeOwnState"
    /\ state' = None
    /\ Swaps(state, None, p)
    /\ Goto(p, "readOwnLock")
    /\ UNCHANGED <<lock, recent, attempt, seen, pending, alone>>

ReadOwnLock(p) ==
    /\ pc[p] = "readOwnLock"
    /\ Goto(p, IF lock = [by |-> p, filled |-> TRUE] THEN "removeOwnLock" ELSE "closed")
    /\ UNCHANGED <<files, attempt, seen, pending, history>>

RemoveOwnLock(p) ==
    /\ pc[p] = "removeOwnLock"
    /\ lock' = NoLock
    /\ Swaps(lock, NoLock, [by |-> p, filled |-> TRUE])
    /\ Goto(p, "closed")
    /\ UNCHANGED <<recent, state, attempt, seen, pending, alone>>

-----------------------------------------------------------------------------
Crash(p) ==
    /\ Alive(p)
    /\ Goto(p, "dead")
    /\ pending' = pending \ {p}
    /\ UNCHANGED <<files, attempt, seen, history>>

\* The lock file's modification time falls 30 s behind.  A live process is
\* taken to get from open to write, and from read to stat, in less than that.
Age ==
    /\ lock # NoLock
    /\ recent
    /\ \A p \in Processes : pc[p] \notin {"fill", "judge"}
    /\ recent' = FALSE
    /\ UNCHANGED <<lock, state, pc, attempt, seen, pending, history>>

Claim(p) ==
    \/ Launch(p) \/ CreateLock(p) \/ LockExists(p) \/ FillLock(p) \/ FillFails(p)
    \/ ReadLock(p) \/ OwnerAlive(p) \/ CreatorBusy(p) \/ LockAbandoned(p)
    \/ OwnerDead(p) \/ ReadState(p) \/ RemoveState(p) \/ RemoveLock(p)

Serve(p) ==
    \/ Publish(p) \/ StartFails(p) \/ ScheduleStateWrite(p) \/ WriteState(p)
    \/ Close(p) \/ ReadOwnState(p) \/ RemoveOwnState(p) \/ ReadOwnLock(p)
    \/ RemoveOwnLock(p)

Next == (\E p \in Processes : Claim(p) \/ Serve(p) \/ Crash(p)) \/ Age

Spec == Init /\ [][Next]_vars

-----------------------------------------------------------------------------
Labels == {"new", "create", "fill", "read", "judge", "client", "readState",
           "removeState", "removeLock", "failed", "starting", "running", "draining",
           "removeOwnState", "readOwnLock", "removeOwnLock", "closed", "dead"}

\* Every variable has its type.
TypeOK ==
    /\ lock \in Lock \cup {NoLock}
    /\ recent \in BOOLEAN
    /\ state \in Processes \cup {None}
    /\ pc \in [Processes -> Labels]
    /\ attempt \in [Processes -> 0..MaxAttempts]
    /\ seen \in [Processes -> Lock \cup {NoLock}]
    /\ pending \subseteq Processes
    /\ alone \subseteq Processes
    /\ swapped \in BOOLEAN

\* The runtime is a single-instance process that alone owns the database and
\* the listeners (docs/arch.md:86).
AtMostOneOwner == \A p, q \in Processes : Owns(p) /\ Owns(q) => p = q

\* There is one way to get two owners: a process removes a file that has been
\* replaced since it read it.  Short of that, an owner holds the lock from the
\* moment it has it to the moment it releases it, whoever crashes, claims,
\* steals or closes meanwhile.
LockKept ==
    swapped \/ \A p \in Processes :
        Owns(p) => lock = [by |-> p, filled |-> TRUE]

\* ... and a running owner can be discovered.
OwnerListed == swapped \/ \A p \in Processes : pc[p] = "running" => state = p

\* A process that has closed leaves neither file behind, not even through a
\* rewrite of the discovery file queued before it closed.
CleanExit == \A p \in Processes :
    pc[p] = "closed" => state # p /\ (lock # NoLock => lock.by # p)

\* Both files name the owner, until a replaced file is removed, and neither ever
\* names a process that has closed.
Discoverable == LockKept /\ OwnerListed /\ CleanExit

\* Whatever crashed processes leave, a process that starts on its own becomes
\* the owner, unless a process died within the last 30 s while it was writing
\* the lock file or writing the file fails.
AloneOwns ==
    [][\A p \in alone : pc'[p] # pc[p] =>
          /\ pc'[p] = "client" => lock # NoLock /\ recent /\ ~lock.filled
          /\ pc'[p] = "failed" => pc[p] = "fill"]_vars

-----------------------------------------------------------------------------
(* The files keep what OwnerFiles promises of them.                         *)

Files == INSTANCE OwnerFiles WITH
    owner <- OwnerOf(lock),
    listed <- state,
    live <- {p \in Processes : Alive(p)},
    replaced <- swapped

\* Claims of several steps, of processes that contend, crash and close, have
\* the effect of one step each: no file is taken from a live process, and a
\* lock goes only after the discovery file of its owner, so that no client
\* finds a dead owner behind a new lock.
FilesKept == Files!Spec

-----------------------------------------------------------------------------
(* Inductive strengthening of LockKept and OwnerListed.                     *)

\* Past the point of holding a lock, for good.
Ended(p) == pc[p] \in {"client", "failed", "closed", "dead"}

Holds(p) == pc[p] \in {"starting", "running", "draining", "removeOwnState",
                       "readOwnLock", "removeOwnLock"}

Contends(p) == pc[p] \in {"new", "create", "read", "judge", "readState",
                          "removeState", "removeLock"}

\* A lock file's creator has got past creating it.
CreatedOnce == \A p \in Processes : Contends(p) =>
    /\ lock # NoLock => lock.by # p
    /\ \A q \in Processes : seen[q] # NoLock => seen[q].by # p

\* A lock file that is still to be filled is recent.
FillingRecent == lock # NoLock /\ ~recent => pc[lock.by] # "fill"

\* Only a process that runs or drains has a write queued.
WritersRun == \A p \in pending : pc[p] \in {"running", "draining"}

\* A claimant about to remove a file has read it as that of a process that has
\* ended; for a file it could not read, that holds as long as it is still there.
JudgedEnded == \A p \in Processes :
    /\ pc[p] \in {"readState", "removeState"} =>
          seen[p] # NoLock /\ Ended(seen[p].by)
    /\ pc[p] = "removeLock" /\ seen[p] # NoLock /\ (seen[p].filled \/ lock = seen[p])
          => Ended(seen[p].by)

HeldInv == \A p \in Processes :
    /\ pc[p] = "fill" => lock = [by |-> p, filled |-> FALSE]
    /\ Holds(p) => lock = [by |-> p, filled |-> TRUE]
    /\ pc[p] = "running" => state = p

OwnershipInv ==
    /\ CreatedOnce
    /\ FillingRecent
    /\ WritersRun
    /\ swapped \/ (JudgedEnded /\ HeldInv)
=============================================================================
