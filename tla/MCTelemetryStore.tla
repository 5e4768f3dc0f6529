-------------------------- MODULE MCTelemetryStore --------------------------
(* Small instances of TelemetryStore: two traces, two resources of different *)
(* services, and a handful of exports that split, retry and complete traces. *)
EXTENDS TelemetryStore, TLC

CONSTANTS t1, t2, a, b, rA, rB, svcA, svcB

MCServiceOf == (rA :> svcA) @@ (rB :> svcB)

Exported(t, s, p, at, err, r) ==
    [trace |-> t, span |-> s, parent |-> p, start |-> at, error |-> err,
     resource |-> r, bindable |-> TRUE]

\* t1 has a child that may come before its root, and a later version of the
\* child whose parent makes a cycle; t2 is another application's trace.
GoodExports == {Exported(t1, a, NoParent, 1, FALSE, rA),
                Exported(t1, b, a, 2, FALSE, rB),
                Exported(t1, b, b, 1, TRUE, rA),
                Exported(t2, a, NoParent, 1, FALSE, rB)}

\* A span with a timestamp SQLite cannot bind.
Unbindable == [Exported(t2, b, a, 1, FALSE, rA) EXCEPT !.bindable = FALSE]

MixedExports == GoodExports \cup {Unbindable}

PoisonedExports == {Exported(t1, a, NoParent, 1, FALSE, rA),
                    Exported(t2, a, NoParent, 1, FALSE, rB),
                    Unbindable}

AgeOnly == {[maxAge |-> 1, sizeLimited |-> FALSE]}
AgeOrSize == AgeOnly \cup {[maxAge |-> 0, sizeLimited |-> TRUE]}
=============================================================================
