--------------------------- MODULE StorageService ---------------------------
(***************************************************************************)
(* What the runtime counts on when it calls its storage through promises   *)
(* (packages/local-runtime/src/workerStorage.ts, WorkerSqliteStorage):     *)
(* every call takes effect at one instant after it was made and before it  *)
(* is answered; writes take effect in the order in which they were made;   *)
(* close() takes effect after everything that was asked for before it; a   *)
(* call can be refused, without effect, or lost with the worker.           *)
(***************************************************************************)
EXTENDS Naturals, Sequences

CONSTANTS Calls     \* numbers of the calls, in the order in which they are made

VARIABLES
    stage,      \* where each call is
    method,     \* what it asks for
    shut,       \* close() has taken effect
    rows,       \* the writes that have taken effect, in order
    found       \* what each read has seen of them

vars == <<stage, method, shut, rows, found>>

Methods == {"read", "write", "close"}

Init ==
    /\ stage = [c \in Calls |-> "new"]
    /\ method = [c \in Calls |-> "none"]
    /\ shut = FALSE
    /\ rows = <<>>
    /\ found = [c \in Calls |-> <<>>]

\* A call is made, or refused at once.
Ask(c) ==
    /\ stage[c] = "new"
    /\ \E to \in {"called", "refused"}, m \in Methods :
          /\ stage' = [stage EXCEPT ![c] = to]
          /\ method' = [method EXCEPT ![c] = m]
    /\ UNCHANGED <<shut, rows, found>>

\* The call takes effect.  One that fails may have had its effect.
Do(c) ==
    /\ stage[c] = "called"
    /\ method[c] = "write" => \A d \in Calls : d < c /\ method[d] = "write" => stage[d] # "called"
    /\ method[c] = "close" => \A d \in Calls : d < c => stage[d] # "called"
    /\ stage' = [stage EXCEPT ![c] = "done"]
    /\ shut' \in IF method[c] = "close" THEN {shut, TRUE} ELSE {shut}
    /\ rows' \in IF method[c] = "write" /\ ~shut THEN {rows, Append(rows, c)} ELSE {rows}
    /\ found' \in IF method[c] = "read" THEN {found, [found EXCEPT ![c] = rows]} ELSE {found}
    /\ UNCHANGED method

Answer(c) ==
    /\ stage[c] = "done"
    /\ stage' = [stage EXCEPT ![c] = "answered"]
    /\ UNCHANGED <<method, shut, rows, found>>

\* The callers of these calls are told that the worker has died; whether the
\* calls have had their effect they do not learn.
Lose(lost) ==
    /\ \A c \in lost : stage[c] \in {"called", "done"}
    /\ stage' = [c \in Calls |-> IF c \in lost THEN "lost" ELSE stage[c]]
    /\ UNCHANGED <<method, shut, rows, found>>

Next ==
    \/ \E c \in Calls : Ask(c) \/ Do(c) \/ Answer(c)
    \/ \E lost \in SUBSET Calls : Lose(lost)

Spec == Init /\ [][Next]_vars
=============================================================================
