------------------------------ MODULE Listing ------------------------------
(***************************************************************************)
(* One page of a listing, as the two storage backends cut it: listTraces   *)
(* and listLogs of the SQLite stores (engine-node, keyset pagination in    *)
(* SQL) and of the in-memory store (engine/storage.ts, an index into the   *)
(* sorted rows).                                                           *)
(*                                                                         *)
(* A row is an id and the value of its sort column; a store maps every id  *)
(* to that value, or to Gone.  What a query filters by (time, errors,      *)
(* sources, services, severity, search) is the set of ids that match.      *)
(***************************************************************************)
EXTENDS Naturals, Sequences, FiniteSets, SequencesExt

CONSTANTS
    PageSize,   \* limit
    Gone        \* the sort value of a row that is not stored

\* The cursor of a first page, and the nextCursor of a last one.
NoCursor == 0

\* A mutant of Before: equal values of the sort column are not ordered.
UntiedBefore(a, b, desc) == IF desc THEN a.key > b.key ELSE a.key < b.key

\* ORDER BY column direction, id direction.
Before(a, b, desc) ==
    IF desc THEN a.key > b.key \/ (a.key = b.key /\ a.id > b.id)
            ELSE a.key < b.key \/ (a.key = b.key /\ a.id < b.id)

\* The rows in an order in which none is before an earlier one.
InOrder(rows, desc) ==
    CHOOSE s \in [1..Cardinality(rows) -> rows] :
        /\ \A r \in rows : \E n \in DOMAIN s : s[n] = r
        /\ \A m, n \in DOMAIN s : m < n => ~Before(s[n], s[m], desc)

Matching(store, query) ==
    {[id |-> i, key |-> store[i]] : i \in {j \in query.ids : store[j] # Gone}}

\* LIMIT limit + 1: one row too many says that there is another page.
Cut(rows) ==
    IF Len(rows) <= PageSize THEN [rows |-> rows, next |-> NoCursor]
    ELSE [rows |-> SubSeq(rows, 1, PageSize), next |-> rows[PageSize].id]

\* The cursor's row is looked up again by a subselect, in the whole table:
\* when it is gone the comparison is with NULL, and no row is left.
SqlPage(store, query, cursor) ==
    Cut(InOrder({r \in Matching(store, query) :
                    \/ cursor = NoCursor
                    \/ /\ store[cursor] # Gone
                       /\ Before([id |-> cursor, key |-> store[cursor]], r, query.desc)},
                query.desc))

\* findIndex among the rows that match; -1 starts over.
MemoryPage(store, query, cursor) ==
    LET all == InOrder(Matching(store, query), query.desc)
        at == {n \in DOMAIN all : all[n].id = cursor}
        offset == IF at = {} THEN 0 ELSE CHOOSE n \in at : TRUE
    IN Cut(SubSeq(all, offset + 1, Len(all)))

PageFrom(backend, store, query, cursor) ==
    IF backend = "sqlite" THEN SqlPage(store, query, cursor)
                          ELSE MemoryPage(store, query, cursor)
=============================================================================
