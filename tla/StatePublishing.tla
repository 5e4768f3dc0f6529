-------------------------- MODULE StatePublishing --------------------------
(***************************************************************************)
(* How the running daemon keeps runtime.json up to date (createOwnedRuntime*)
(* in runtime.ts).  The state of the three listeners is one number, the    *)
(* count of their status changes; a snapshot of it is taken when a change  *)
(* is heard of and written when its turn comes.                            *)
(***************************************************************************)
EXTENDS Naturals, Sequences

CONSTANTS
    NoState,        \* runtime.json is missing
    MaxChanges      \* bound: status changes

VARIABLES
    publishing,     \* the stage of the runtime
    statuses,       \* status changes so far
    writes,         \* stateWriteQueue: the snapshots to be written
    runtimeFile,    \* the snapshot in runtime.json
    behind          \* a change was made before publishing began, or its write has failed

publishVars == <<publishing, statuses, writes, runtimeFile, behind>>

PublishInit ==
    /\ publishing = "starting"
    /\ statuses = 0
    /\ writes = <<>>
    /\ runtimeFile = NoState
    /\ behind = FALSE

\* A listener starts, fails, stops or counts an overload: scheduleStateWrite
\* does nothing before publishing is enabled, and is not called during close().
StatusChanges ==
    /\ publishing # "closed" /\ statuses < MaxChanges
    /\ statuses' = statuses + 1
    /\ writes' = IF publishing = "running" THEN Append(writes, statuses + 1) ELSE writes
    /\ behind' = (behind \/ publishing = "writing")
    /\ UNCHANGED <<publishing, runtimeFile>>

\* The listeners are up: the first snapshot is taken, then written.
FirstSnapshot ==
    /\ publishing = "starting"
    /\ publishing' = "writing"
    /\ writes' = <<statuses>>
    /\ UNCHANGED <<statuses, runtimeFile, behind>>

FirstWrite ==
    /\ publishing = "writing"
    /\ runtimeFile' = Head(writes)
    /\ writes' = <<>>
    /\ publishing' = "running"
    /\ UNCHANGED <<statuses, behind>>

\* The first write fails, or a listener's start throws: all is undone.
StartIsUndone ==
    /\ publishing \in {"starting", "writing"}
    /\ publishing' = "closed"
    /\ writes' = <<>>
    /\ UNCHANGED <<statuses, runtimeFile, behind>>

\* Whichever queued write gets to the file first is made.
WriteAnySnapshot ==
    /\ publishing \in {"running", "closing"}
    /\ \E i \in DOMAIN writes :
         /\ runtimeFile' = writes[i]
         /\ writes' = SubSeq(writes, 1, i - 1) \o SubSeq(writes, i + 1, Len(writes))
    /\ behind' = FALSE
    /\ UNCHANGED <<publishing, statuses>>

\* A queued write is made, in its turn; one that fails is only logged.
WriteSnapshot ==
    /\ publishing \in {"running", "closing"} /\ writes # <<>>
    /\ \/ runtimeFile' = Head(writes) /\ behind' = FALSE
       \/ behind' = TRUE /\ UNCHANGED runtimeFile
    /\ writes' = Tail(writes)
    /\ UNCHANGED <<publishing, statuses>>

BeginClosing ==
    /\ publishing = "running"
    /\ publishing' = "closing"
    /\ UNCHANGED <<statuses, writes, runtimeFile, behind>>

\* After the queue of writes has been awaited.
RemoveState ==
    /\ publishing = "closing" /\ writes = <<>>
    /\ runtimeFile' = NoState
    /\ publishing' = "closed"
    /\ UNCHANGED <<statuses, writes, behind>>

PublishNext == StatusChanges \/ FirstSnapshot \/ FirstWrite \/ StartIsUndone
               \/ WriteSnapshot \/ BeginClosing \/ RemoveState

-----------------------------------------------------------------------------
(* When no write is left, runtime.json shows the listeners as they are; a   *)
(* change between the first snapshot and the end of its write is excepted   *)
(* until the next one, and so is a write that failed.  Once the runtime has *)
(* closed, nothing is left behind for another to find.                      *)
PublishedCurrent ==
    /\ publishing = "running" /\ writes = <<>> /\ ~behind => runtimeFile = statuses
    /\ publishing = "closed" => runtimeFile = NoState
=============================================================================
