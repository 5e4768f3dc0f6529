----------------------------- MODULE MCWorkbench -----------------------------
(* The workbench over three rows, two traces, two instruments, two logs.    *)
EXTENDS Workbench

NewestFirst == [ids |-> Ids, desc |-> TRUE]
OddFirst == [ids |-> {1, 3}, desc |-> FALSE]
TheQueries == {NewestFirst, OddFirst}
TheStores == {<<1, 1, 0>>}
TheArrivals == {[id |-> 3, key |-> 2], [id |-> 1, key |-> 2]}
TheMeters == [w \in Identities |-> w]
=============================================================================
