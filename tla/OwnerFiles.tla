------------------------------ MODULE OwnerFiles ------------------------------
(***************************************************************************)
(* What the two files of a data directory promise (packages/local-runtime, *)
(* runtimeState.ts): runtime.lock names the one process that owns the      *)
(* directory, runtime.json the process that clients may connect to.  Each  *)
(* is removed by the process it names, or by another once that has ended,  *)
(* and the lock never before the discovery file.  Nothing is promised once *)
(* a process has removed a file that was replaced after it had read it.    *)
(***************************************************************************)
CONSTANTS
    Processes,      \* runs of runtime processes
    None            \* no process

VARIABLES
    owner,      \* the process runtime.lock names
    listed,     \* the process runtime.json names
    live,       \* processes that run
    replaced    \* a replaced file has been removed

vars == <<owner, listed, live, replaced>>

Init == owner = None /\ listed = None /\ live = {} /\ replaced = FALSE

Launch(p) ==
    /\ p \notin live
    /\ live' = live \cup {p}
    /\ UNCHANGED <<owner, listed, replaced>>

\* A process ends, in order or not, and leaves the files as they are.
End(p) ==
    /\ p \in live
    /\ live' = live \ {p}
    /\ UNCHANGED <<owner, listed, replaced>>

\* Nobody owns the directory, or somebody who has ended.
Claim(p) ==
    /\ p \in live /\ owner \notin live
    /\ owner' = p
    /\ listed' = IF listed = owner THEN None ELSE listed
    /\ UNCHANGED <<live, replaced>>

Publish(p) ==
    /\ p \in live /\ owner = p
    /\ listed' = p
    /\ UNCHANGED <<owner, live, replaced>>

\* What is published is one's own, or that of a process that has ended.
Unlist(p) ==
    /\ p \in live /\ listed \notin live \ {p}
    /\ listed' = None
    /\ UNCHANGED <<owner, live, replaced>>

\* The same of the lock, when its owner is not published any more.
Release(p) ==
    /\ p \in live /\ owner \notin live \ {p}
    /\ listed # owner
    /\ owner' = None
    /\ live' \in {live, live \ {p}}
    /\ UNCHANGED <<listed, replaced>>

RemoveReplaced ==
    /\ replaced' = TRUE
    /\ owner' \in Processes \cup {None} /\ listed' \in Processes \cup {None}
    /\ live' \in SUBSET Processes

Next ==
    \/ \E p \in Processes :
         Launch(p) \/ End(p) \/ Claim(p) \/ Publish(p) \/ Unlist(p) \/ Release(p)
    \/ RemoveReplaced

Spec == Init /\ [][Next]_vars
=============================================================================
