------------------------ MODULE TelemetryStore_proofs ------------------------
(* Theorems about TelemetryStore, for every value of its constants. *)
EXTENDS TelemetryStore, FiniteSetTheorems, SequenceTheorems, TLAPS

\* Interning returns a row id and keeps the table and the cache well-typed.
LEMMA InternType ==
    ASSUME TypeOK, NEW r \in Resources
    PROVE  /\ ResourceId(r) \in Nat \ {0}
           /\ InternedTable(r) \in Seq(Resources)
           /\ DOMAIN InternedCache(r) \subseteq Resources
           /\ InternedCache(r) \in [DOMAIN InternedCache(r) -> Nat \ {0}]
<1>1. db.resources \in Seq(Resources)
  BY DEF TypeOK, Tables
<1>2. ResourceId(r) \in Nat \ {0}
  <2>1. CASE r \in DOMAIN cache
    BY <2>1 DEF TypeOK, ResourceId
  <2>2. CASE r \notin DOMAIN cache /\ Rows(r) # {}
    <3>1. (CHOOSE i \in Rows(r) : TRUE) \in Rows(r)
      BY <2>2
    <3>2. Rows(r) \subseteq Nat \ {0}
      BY <1>1 DEF Rows
    <3> QED BY <2>2, <3>1, <3>2 DEF ResourceId
  <2>3. CASE r \notin DOMAIN cache /\ Rows(r) = {}
    BY <1>1, <2>3 DEF ResourceId
  <2> QED BY <2>1, <2>2, <2>3
<1>3. InternedTable(r) \in Seq(Resources)
  BY <1>1 DEF InternedTable
<1>4. DOMAIN InternedCache(r) = DOMAIN cache \cup {r}
  BY DEF InternedCache
<1>5. \A x \in DOMAIN InternedCache(r) : InternedCache(r)[x] \in Nat \ {0}
  BY <1>2 DEF InternedCache, TypeOK
<1>6. InternedCache(r) \in [DOMAIN InternedCache(r) -> Nat \ {0}]
  BY <1>5 DEF InternedCache
<1> QED BY <1>2, <1>3, <1>4, <1>6 DEF TypeOK

\* A rollup of a finite set of spans of one trace is a row of the traces table.
LEMMA RollupType ==
    ASSUME NEW S \in SUBSET SpanRow, IsFiniteSet(S), NEW t \in Traces,
           NEW at \in Nat, NEW row \in Rollups(S, t, at)
    PROVE  row \in TraceRow
<1>1. PICK r \in RootCandidates(S), e \in Earliest(S) :
        row = [trace |-> t, root |-> r.span, start |-> e.start,
               count |-> Cardinality(S),
               errors |-> Cardinality({s \in S : s.error}),
               services |-> {s.service : s \in S} \ {Unnamed},
               ingested |-> at]
  BY DEF Rollups
<1>2. r \in SpanRow /\ e \in SpanRow
  BY <1>1 DEF RootCandidates, Roots, Earliest
<1>3. Cardinality(S) \in Nat
  BY FS_CardinalityType
<1>4. Cardinality({s \in S : s.error}) \in Nat
  <2>1. {s \in S : s.error} \subseteq S
    OBVIOUS
  <2> QED BY <2>1, FS_Subset, FS_CardinalityType
<1>5. {s.service : s \in S} \ {Unnamed} \in SUBSET Services
  BY DEF SpanRow
<1> QED BY <1>1, <1>2, <1>3, <1>4, <1>5 DEF TraceRow, SpanRow

\* Deleting spans and rollup rows keeps the tables well-typed.
LEMMA ShrinkType ==
    ASSUME db \in Tables, IsFiniteSet(db.spans),
           NEW S \in SUBSET db.spans, NEW R \in SUBSET db.traces
    PROVE  LET d == DB(db.resources, S, R)
           IN  d \in Tables /\ IsFiniteSet(d.spans)
<1>1. IsFiniteSet(S)
  BY FS_Subset
<1> QED BY <1>1 DEF Tables, DB

LEMMA EmptyType == EmptyTables \in Tables /\ IsFiniteSet(EmptyTables.spans)
<1>1. <<>> \in Seq(Resources)
  OBVIOUS
<1> QED BY <1>1, FS_EmptySet DEF EmptyTables, DB, Tables

LEMMA TablesFields ==
    ASSUME NEW d \in Tables
    PROVE  d.resources \in Seq(Resources) /\ d.spans \subseteq SpanRow /\ d.traces \subseteq TraceRow
BY DEF Tables

\* The type invariant holds initially.
LEMMA TypeInit == Init => TypeOK
<1> SUFFICES ASSUME Init PROVE TypeOK
  OBVIOUS
<1>1. db \in Tables /\ IsFiniteSet(db.spans) /\ saved \in Tables /\ IsFiniteSet(saved.spans)
  BY EmptyType DEF Init
<1>2. DOMAIN cache \subseteq Resources /\ cache \in [DOMAIN cache -> Nat \ {0}]
  BY DEF Init, NoCache
<1>3. todo \in Seq(Exports)
  BY DEF Init
<1>4. now \in 0..MaxClock
  BY BoundAssumption DEF Init
<1> QED BY <1>1, <1>2, <1>3, <1>4 DEF Init, TypeOK

\* Every step of the store keeps the type invariant.
LEMMA TypeStep == TypeOK /\ [Next]_vars => TypeOK'
<1> SUFFICES ASSUME TypeOK, [Next]_vars PROVE TypeOK'
  OBVIOUS
<1> USE DEF control
<1>0. now \in Nat
  BY BoundAssumption DEF TypeOK
<1>1. CASE BeginWrite
  <2>1. todo' \in Seq(Exports)
    <3>1. PICK n \in 1..MaxBatch : todo' \in [1..n -> Exports]
      BY <1>1 DEF BeginWrite
    <3> QED BY <3>1, BoundAssumption
  <2> QED BY <1>1, <2>1 DEF BeginWrite, TypeOK
<1>2. CASE InsertSpan
  <2> DEFINE x == Head(todo)
  <2>1. x \in Exports /\ Tail(todo) \in Seq(Exports)
    BY <1>2 DEF InsertSpan, TypeOK
  <2>2. x \in Export
    BY <2>1, ExportAssumption
  <2>3. /\ ResourceId(x.resource) \in Nat \ {0}
        /\ InternedTable(x.resource) \in Seq(Resources)
        /\ DOMAIN InternedCache(x.resource) \subseteq Resources
        /\ InternedCache(x.resource) \in [DOMAIN InternedCache(x.resource) -> Nat \ {0}]
    BY <2>2, InternType DEF Export
  <2>4. StoredSpan(x) \in SpanRow
    BY <1>0, <2>2, <2>3, ResourceAssumption DEF StoredSpan, SpanRow, Export
  <2> DEFINE kept == {s \in db.spans : <<s.trace, s.span>> # <<x.trace, x.span>>}
  <2>5. db' = DB(InternedTable(x.resource), kept \cup {StoredSpan(x)}, db.traces)
    BY <1>2 DEF InsertSpan, TypeOK
  <2>6. IsFiniteSet(kept \cup {StoredSpan(x)})
    <3>1. IsFiniteSet(kept)
      BY FS_Subset DEF TypeOK
    <3> QED BY <3>1, FS_AddElement
  <2>7. db' \in Tables /\ IsFiniteSet(db'.spans)
    <3> HIDE DEF kept
    <3>1. kept \subseteq SpanRow /\ db.traces \subseteq TraceRow
      BY TablesFields DEF TypeOK, kept
    <3> QED BY <2>3, <2>4, <2>5, <2>6, <3>1 DEF Tables, DB
  <2>8. touched' \subseteq Traces
    BY <1>2, <2>2 DEF InsertSpan, TypeOK, Export
  <2> QED BY <1>2, <2>1, <2>3, <2>7, <2>8 DEF InsertSpan, TypeOK
<1>3. CASE InsertFails
  <2>1. Head(todo) \in Export
    BY <1>3, ExportAssumption DEF InsertFails, TypeOK
  <2>2. /\ DOMAIN cache' \subseteq Resources
        /\ cache' \in [DOMAIN cache' -> Nat \ {0}]
    BY <1>3, <2>1, InternType DEF InsertFails, Export
  <2>3. todo' \in Seq(Exports)
    BY <1>3 DEF InsertFails
  <2> QED BY <1>3, <2>2, <2>3, EmptyType DEF InsertFails, TypeOK
<1>4. ASSUME NEW t \in Traces, RecomputeTrace(t) PROVE TypeOK'
  <2> DEFINE S == SpansOf(db.spans, t)
             others == {r \in db.traces : r.trace # t}
  <2>1. S \subseteq SpanRow /\ IsFiniteSet(S) /\ others \subseteq TraceRow
    <3>1. S \subseteq db.spans
      BY DEF SpansOf
    <3> QED BY <3>1, TablesFields, FS_Subset DEF TypeOK
  <2>2. db' \in Tables /\ IsFiniteSet(db'.spans)
    <3>1. CASE S = {}
      <4>1. db' = DB(db.resources, db.spans, others)
        BY <1>4, <3>1 DEF RecomputeTrace, TypeOK
      <4> QED BY <4>1, ShrinkType DEF TypeOK
    <3>2. CASE S # {}
      <4>1. PICK row \in Rollups(S, t, now) : db' = DB(db.resources, db.spans, others \cup {row})
        BY <1>4, <3>2 DEF RecomputeTrace
      <4>2. row \in TraceRow
        <5> HIDE DEF S
        <5> QED BY <1>0, <2>1, RollupType
      <4> HIDE DEF others
      <4> QED BY <2>1, <4>1, <4>2 DEF Tables, DB, TypeOK
    <3> QED BY <3>1, <3>2
  <2> QED BY <1>4, <2>2 DEF RecomputeTrace, TypeOK
<1>5. CASE Commit
  BY <1>5, EmptyType DEF Commit, TypeOK
<1>6. ASSUME NEW c \in Retentions, BeginPrune(c) PROVE TypeOK'
  <2>1. cutoff' \in Int
    BY <1>0, <1>6, RetentionAssumption DEF BeginPrune, Retention
  <2>2. db' \in Tables /\ IsFiniteSet(db'.spans)
    <3>1. CASE c.maxAge > 0
      <4> DEFINE S == db.spans \ AgedSpans(c)
      <4>1. db' = DB(db.resources, S, db.traces)
        BY <1>6, <3>1 DEF BeginPrune, TypeOK
      <4> QED BY <4>1, ShrinkType DEF TypeOK
    <3>2. CASE ~(c.maxAge > 0)
      BY <1>6, <3>2 DEF BeginPrune, TypeOK
    <3> QED BY <3>1, <3>2
  <2>3. pc' \in {"ageTraces", "size"}
    BY <1>6 DEF BeginPrune
  <2> QED BY <1>6, <2>1, <2>2, <2>3 DEF BeginPrune, TypeOK
<1>7. CASE DeleteAgedTraces
  <2> DEFINE R == {r \in db.traces : r.ingested >= cutoff}
  <2>1. db' = DB(db.resources, db.spans, R)
    BY <1>7 DEF DeleteAgedTraces, TypeOK
  <2>2. db' \in Tables /\ IsFiniteSet(db'.spans)
    BY <2>1, ShrinkType DEF TypeOK
  <2> QED BY <1>7, <2>2 DEF DeleteAgedTraces, TypeOK
<1>8. CASE DeleteOldestSpans
  <2>1. victims' \subseteq Traces
    <3>1. PICK V \in SUBSET db.traces : victims' = {v.trace : v \in V}
      BY <1>8 DEF DeleteOldestSpans
    <3>2. \A v \in V : v.trace \in Traces
      BY TablesFields DEF TypeOK, TraceRow
    <3> QED BY <3>1, <3>2
  <2> DEFINE S == {s \in db.spans : s.trace \notin victims'}
  <2>2. db' = DB(db.resources, S, db.traces)
    BY <1>8 DEF DeleteOldestSpans, TypeOK
  <2>3. db' \in Tables /\ IsFiniteSet(db'.spans)
    BY <2>2, ShrinkType DEF TypeOK
  <2> QED BY <1>8, <2>1, <2>3 DEF DeleteOldestSpans, TypeOK
<1>9. CASE DeleteOldestTraces
  <2> DEFINE R == {r \in db.traces : r.trace \notin victims}
  <2>1. db' = DB(db.resources, db.spans, R)
    BY <1>9 DEF DeleteOldestTraces, TypeOK
  <2>2. db' \in Tables /\ IsFiniteSet(db'.spans)
    BY <2>1, ShrinkType DEF TypeOK
  <2> QED BY <1>9, <2>2 DEF DeleteOldestTraces, TypeOK
<1>10. CASE EndPrune
  BY <1>10 DEF EndPrune, TypeOK
<1>11. CASE Clear
  <2>1. DOMAIN cache' \subseteq Resources /\ cache' \in [DOMAIN cache' -> Nat \ {0}]
    BY <1>11 DEF Clear, ClearedCache, NoCache
  <2> QED BY <1>11, <2>1, EmptyType DEF Clear, TypeOK
<1>12. CASE Tick
  BY <1>0, <1>12, BoundAssumption DEF Tick, TypeOK
<1>13. CASE Crash
  <2>1. DOMAIN cache' \subseteq Resources /\ cache' \in [DOMAIN cache' -> Nat \ {0}]
    BY <1>13 DEF Crash, NoCache
  <2>2. db' \in Tables /\ IsFiniteSet(db'.spans)
    BY <1>13 DEF Crash, TypeOK
  <2>3. todo' \in Seq(Exports)
    BY <1>13 DEF Crash
  <2> QED BY <1>13, <2>1, <2>2, <2>3, EmptyType DEF Crash, TypeOK
<1>14. CASE UNCHANGED vars
  BY <1>14 DEF vars, TypeOK
<1>15. retention \in Retentions
  BY DEF TypeOK
<1> QED
  BY <1>1, <1>2, <1>3, <1>4, <1>5, <1>6, <1>7, <1>8, <1>9, <1>10, <1>11, <1>12, <1>13,
     <1>14, <1>15 DEF Next, Continue, Prune, ApplyRetention

\* The store's variables keep their types: rows well-formed, cached ids row ids.
THEOREM TypeCorrect == Spec => []TypeOK
<1>1. Init => TypeOK
  BY TypeInit
<1>2. TypeOK /\ [Next]_vars => TypeOK'
  BY TypeStep
<1> QED BY <1>1, <1>2, PTL DEF Spec

-----------------------------------------------------------------------------
\* What recomputing a trace writes agrees with the spans it was computed from.
LEMMA RollupAgrees ==
    ASSUME NEW S, NEW t, NEW at, NEW row \in Rollups(S, t, at)
    PROVE  row.trace = t /\ row.ingested = at /\ Agrees(row, S)
BY DEF Rollups, Agrees

LEMMA RollupInit == Init => RollupInv
BY DEF Init, RollupInv, EmptyTables, DB

\* Every step keeps the rollup in agreement with the spans, except for the
\* traces the open transaction has touched.
LEMMA RollupStep == TypeOK /\ RollupInv /\ [Next]_vars => RollupInv'
<1> SUFFICES ASSUME TypeOK, RollupInv, [Next]_vars PROVE RollupInv'
  OBVIOUS
<1> USE DEF control
<1>1. CASE BeginWrite
  <2>1. AllListed(db)
    BY <1>1 DEF BeginWrite, RollupInv, AllListed
  <2>2. AllExact(db)
    BY <1>1 DEF BeginWrite, RollupInv, AllExact
  <2> QED BY <1>1, <2>1, <2>2 DEF BeginWrite, RollupInv
<1>2. CASE InsertSpan
  <2> DEFINE x == Head(todo)
             kept == {s \in db.spans : <<s.trace, s.span>> # <<x.trace, x.span>>}
  <2>1. /\ db'.spans = kept \cup {StoredSpan(x)}
        /\ db'.traces = db.traces
        /\ touched' = touched \cup {x.trace}
        /\ pc = "write" /\ UNCHANGED <<pc, saved>>
    BY <1>2 DEF InsertSpan, DB
  <2>2. StoredSpan(x).trace = x.trace
    BY DEF StoredSpan
  <2>3. ASSUME NEW u, u # x.trace PROVE SpansOf(db'.spans, u) = SpansOf(db.spans, u)
    BY <2>1, <2>2, <2>3 DEF SpansOf
  <2>4. ASSUME NEW s \in db'.spans
        PROVE  s.trace \in touched' \/ \E r \in db'.traces : r.trace = s.trace
    BY <2>1, <2>2 DEF RollupInv
  <2>5. ASSUME NEW r \in db'.traces
        PROVE  \/ r.trace \in touched'
               \/ SpansOf(db'.spans, r.trace) = {}
               \/ Agrees(r, SpansOf(db'.spans, r.trace))
    <3>1. CASE r.trace = x.trace
      BY <2>1, <3>1
    <3>2. CASE r.trace # x.trace
      BY <2>1, <2>3, <3>2 DEF RollupInv
    <3> QED BY <3>1, <3>2
  <2> QED BY <2>1, <2>4, <2>5 DEF RollupInv
<1>3. CASE InsertFails
  <2>1. /\ db' = saved /\ pc' = "idle" /\ touched' = {}
        /\ AllListed(saved) /\ AllExact(saved)
    BY <1>3 DEF InsertFails, RollupInv
  <2> QED BY <2>1 DEF RollupInv, AllListed, AllExact
<1>4. ASSUME NEW t \in Traces, RecomputeTrace(t) PROVE RollupInv'
  <2> DEFINE S == SpansOf(db.spans, t)
             others == {r \in db.traces : r.trace # t}
  <2>1. /\ pc = "write" /\ UNCHANGED <<pc, saved>>
        /\ db'.spans = db.spans
        /\ touched' = touched \ {t}
    BY <1>4 DEF RecomputeTrace, DB
  <2>2. CASE S = {}
    <3>1. db'.traces = others
      BY <1>4, <2>2 DEF RecomputeTrace, DB
    <3>2. ASSUME NEW s \in db.spans PROVE s.trace # t
      BY <2>2 DEF SpansOf
    <3>3. \A s \in db'.spans :
             s.trace \in touched' \/ \E r \in db'.traces : r.trace = s.trace
      BY <2>1, <3>1, <3>2 DEF RollupInv
    <3>4. \A r \in db'.traces :
             \/ r.trace \in touched'
             \/ SpansOf(db'.spans, r.trace) = {}
             \/ Agrees(r, SpansOf(db'.spans, r.trace))
      BY <2>1, <3>1 DEF RollupInv
    <3> QED BY <2>1, <3>3, <3>4 DEF RollupInv
  <2>3. CASE S # {}
    <3>1. PICK row \in Rollups(S, t, now) : db'.traces = others \cup {row}
      BY <1>4, <2>3 DEF RecomputeTrace, DB
    <3>2. row.trace = t /\ Agrees(row, S)
      BY RollupAgrees
    <3>3. \A s \in db'.spans :
             s.trace \in touched' \/ \E r \in db'.traces : r.trace = s.trace
      BY <2>1, <3>1, <3>2 DEF RollupInv
    <3>4. ASSUME NEW r \in db'.traces
          PROVE  \/ r.trace \in touched'
                 \/ SpansOf(db'.spans, r.trace) = {}
                 \/ Agrees(r, SpansOf(db'.spans, r.trace))
      <4>1. CASE r = row
        BY <2>1, <3>2, <4>1
      <4>2. CASE r \in others
        BY <2>1, <4>2 DEF RollupInv
      <4> QED BY <3>1, <4>1, <4>2
    <3> QED BY <2>1, <3>3, <3>4 DEF RollupInv
  <2> QED BY <2>2, <2>3
<1>5. CASE Commit
  BY <1>5 DEF Commit, RollupInv
<1>6. ASSUME NEW c \in Retentions, BeginPrune(c) PROVE RollupInv'
  <2>1. /\ db'.traces = db.traces /\ db'.spans \subseteq db.spans
        /\ touched = {} /\ touched' = {} /\ pc' \in {"ageTraces", "size"}
    BY <1>6 DEF BeginPrune, AgedSpans, RollupInv, DB
  <2>2. ASSUME pc' = "ageTraces", NEW s \in db'.spans, NEW r \in db'.traces,
               r.trace = s.trace
        PROVE  r.ingested >= cutoff'
    <3>1. c.maxAge > 0
      BY <1>6, <2>2 DEF BeginPrune
    <3>2. cutoff' = now - c.maxAge /\ ~(r.ingested < now - c.maxAge)
      BY <1>6, <2>1, <2>2, <3>1 DEF BeginPrune, AgedSpans, DB
    <3>3. r.ingested \in Nat
      BY <2>1, <2>2, TablesFields DEF TypeOK, TraceRow
    <3>4. now \in Nat
      BY BoundAssumption DEF TypeOK
    <3>5. c.maxAge \in Nat
      BY RetentionAssumption DEF Retention
    <3> QED BY <3>2, <3>3, <3>4, <3>5
  \* a pass deletes all the spans of a trace or none of them
  <2>3. ASSUME NEW r \in db.traces
        PROVE  SpansOf(db'.spans, r.trace) = {}
                \/ SpansOf(db'.spans, r.trace) = SpansOf(db.spans, r.trace)
    BY <1>6 DEF BeginPrune, AgedSpans, SpansOf, DB
  <2> QED BY <2>1, <2>2, <2>3 DEF RollupInv
<1>7. CASE DeleteAgedTraces
  <2>1. /\ db'.spans = db.spans
        /\ db'.traces = {r \in db.traces : r.ingested >= cutoff}
        /\ pc = "ageTraces" /\ pc' = "size" /\ touched' = touched
    BY <1>7 DEF DeleteAgedTraces, DB
  <2> QED BY <2>1 DEF RollupInv
<1>8. CASE DeleteOldestSpans
  <2>1. /\ db'.spans = {s \in db.spans : s.trace \notin victims'}
        /\ db'.traces = db.traces
        /\ pc' = "sizeTraces" /\ touched = {} /\ touched' = {}
    BY <1>8 DEF DeleteOldestSpans, DB, RollupInv
  <2>2. ASSUME NEW r \in db.traces
        PROVE  SpansOf(db'.spans, r.trace) = {}
                \/ SpansOf(db'.spans, r.trace) = SpansOf(db.spans, r.trace)
    BY <2>1 DEF SpansOf
  <2> QED BY <2>1, <2>2 DEF RollupInv
<1>9. CASE DeleteOldestTraces
  <2>1. /\ db'.spans = db.spans
        /\ db'.traces = {r \in db.traces : r.trace \notin victims}
        /\ pc = "sizeTraces" /\ pc' = "size" /\ touched' = touched
    BY <1>9 DEF DeleteOldestTraces, DB
  <2> QED BY <2>1 DEF RollupInv
<1>10. CASE EndPrune
  BY <1>10 DEF EndPrune, RollupInv
<1>11. CASE Clear
  BY <1>11 DEF Clear, RollupInv, EmptyTables, DB
<1>12. CASE Tick
  BY <1>12 DEF Tick, RollupInv
<1>13. CASE Crash
  <2>1. pc' = "idle" /\ touched' = {}
    BY <1>13 DEF Crash
  <2>2. AllListed(db') /\ AllExact(db')
    <3>1. CASE pc = "write"
      BY <1>13, <3>1 DEF Crash, RollupInv
    <3>2. CASE pc # "write"
      BY <1>13, <3>2 DEF Crash, RollupInv, AllListed, AllExact
    <3> QED BY <3>1, <3>2
  <2> QED BY <2>1, <2>2 DEF RollupInv, AllListed, AllExact
<1>14. CASE UNCHANGED vars
  BY <1>14 DEF vars, RollupInv
<1>15. retention \in Retentions
  BY DEF TypeOK
<1> QED
  BY <1>1, <1>2, <1>3, <1>4, <1>5, <1>6, <1>7, <1>8, <1>9, <1>10, <1>11, <1>12, <1>13,
     <1>14, <1>15 DEF Next, Continue, Prune, ApplyRetention

\* For every set of traces, exports and settings: what a reader or a restarted
\* process finds never has an orphaned span, nor a rollup row that differs
\* from what its spans say.
THEOREM RollupCorrect == Spec => []RollupExact
<1>1. Init => TypeOK /\ RollupInv
  BY TypeInit, RollupInit
<1>2. TypeOK /\ RollupInv /\ [Next]_vars => (TypeOK /\ RollupInv)'
  BY TypeStep, RollupStep
<1>3. RollupInv => RollupExact
  <2> SUFFICES ASSUME RollupInv PROVE AllListed(Durable) /\ AllExact(Durable)
    BY DEF SpansListed, RollupExact
  <2>1. CASE pc = "write"
    BY <2>1 DEF RollupInv, Durable
  <2>2. CASE pc # "write"
    BY <2>2 DEF RollupInv, Durable, AllListed, AllExact
  <2> QED BY <2>1, <2>2
<1> QED BY <1>1, <1>2, <1>3, PTL DEF Spec

-----------------------------------------------------------------------------
\* With a cache that agrees with the table, interning yields the row of the bag,
\* keeps every other row, and leaves a cache that agrees with the new table.
LEMMA InternCorrect ==
    ASSUME TypeOK, CacheInv, NEW r \in Resources
    PROVE  /\ \A i \in DOMAIN db.resources :
                 i \in DOMAIN InternedTable(r) /\ InternedTable(r)[i] = db.resources[i]
           /\ ResourceId(r) \in DOMAIN InternedTable(r)
           /\ InternedTable(r)[ResourceId(r)] = r
           /\ \A x \in DOMAIN InternedCache(r) :
                 /\ InternedCache(r)[x] \in DOMAIN InternedTable(r)
                 /\ InternedTable(r)[InternedCache(r)[x]] = x
<1>1. db.resources \in Seq(Resources)
  BY DEF TypeOK, Tables
<1>2. \A i \in DOMAIN db.resources :
         i \in DOMAIN InternedTable(r) /\ InternedTable(r)[i] = db.resources[i]
  BY <1>1 DEF InternedTable
<1>3. ResourceId(r) \in DOMAIN InternedTable(r) /\ InternedTable(r)[ResourceId(r)] = r
  <2>1. CASE r \in DOMAIN cache
    BY <2>1 DEF CacheInv, ResourceId, InternedTable
  <2>2. CASE r \notin DOMAIN cache /\ Rows(r) # {}
    <3>1. ResourceId(r) \in Rows(r)
      BY <2>2 DEF ResourceId
    <3> QED BY <2>2, <3>1 DEF Rows, InternedTable
  <2>3. CASE r \notin DOMAIN cache /\ Rows(r) = {}
    <3>1. InternedTable(r) = Append(db.resources, r)
      BY <2>3 DEF InternedTable
    <3>2. ResourceId(r) = Len(db.resources) + 1
      BY <2>3 DEF ResourceId
    <3> QED BY <1>1, <3>1, <3>2
  <2> QED BY <2>1, <2>2, <2>3
<1>4. ASSUME NEW x \in DOMAIN InternedCache(r)
      PROVE  /\ InternedCache(r)[x] \in DOMAIN InternedTable(r)
             /\ InternedTable(r)[InternedCache(r)[x]] = x
  <2>1. CASE x = r
    BY <1>3, <2>1 DEF InternedCache
  <2>2. CASE x # r
    <3>1. x \in DOMAIN cache /\ InternedCache(r)[x] = cache[x]
      BY <2>2 DEF InternedCache
    <3> QED BY <1>2, <3>1 DEF CacheInv
  <2> QED BY <2>1, <2>2
<1> QED BY <1>2, <1>3, <1>4

LEMMA AttributionInit == Init => AttributionInv
BY DEF Init, AttributionInv, CacheInv, Attributed, NoCache, EmptyTables, DB

\* A step other than a failing insert keeps cache, rows and spans in agreement.
LEMMA AttributionStep ==
    TypeOK /\ AttributionInv /\ (\A e \in Exports : e.bindable) /\ [Next]_vars
        => AttributionInv'
<1> SUFFICES ASSUME TypeOK, AttributionInv, \A e \in Exports : e.bindable, [Next]_vars
             PROVE  AttributionInv'
  OBVIOUS
<1> USE DEF control
<1>1. CASE BeginWrite
  BY <1>1 DEF BeginWrite, AttributionInv, CacheInv, Attributed
<1>2. CASE InsertSpan
  <2> DEFINE x == Head(todo)
             T == InternedTable(x.resource)
             kept == {s \in db.spans : <<s.trace, s.span>> # <<x.trace, x.span>>}
  <2>1. x \in Exports
    BY <1>2 DEF InsertSpan, TypeOK
  <2>2. x.resource \in Resources
    BY <2>1, ExportAssumption DEF Export
  <2>3. /\ db'.resources = T
        /\ db'.spans = kept \cup {StoredSpan(x)}
        /\ cache' = InternedCache(x.resource)
        /\ pc = "write" /\ UNCHANGED <<pc, saved>>
    BY <1>2 DEF InsertSpan, DB
  <2>4. CacheInv'
    BY <2>2, <2>3, InternCorrect DEF AttributionInv, CacheInv
  <2>5. ASSUME NEW s \in kept
        PROVE  s.resource \in DOMAIN T /\ ServiceOf[T[s.resource]] = s.service
    <3>1. s.resource \in DOMAIN db.resources
          /\ ServiceOf[db.resources[s.resource]] = s.service
      BY DEF AttributionInv, Attributed
    <3> QED BY <2>2, <3>1, InternCorrect DEF AttributionInv
  <2>6. /\ StoredSpan(x).resource \in DOMAIN T
        /\ ServiceOf[T[StoredSpan(x).resource]] = StoredSpan(x).service
    BY <2>2, InternCorrect DEF AttributionInv, StoredSpan
  <2>7. Attributed(db')
    BY <2>3, <2>5, <2>6 DEF Attributed
  <2> QED BY <2>3, <2>4, <2>7 DEF AttributionInv
<1>3. CASE InsertFails
  <2>1. Head(todo) \in Exports
    BY <1>3 DEF InsertFails, TypeOK
  <2>2. Head(todo).resource \in Resources
    BY <2>1, ExportAssumption DEF Export
  <2>3. Insertable(Head(todo))
    BY <2>1, <2>2, InternCorrect DEF Insertable, AttributionInv
  <2> QED BY <1>3, <2>3 DEF InsertFails
<1>4. ASSUME NEW t \in Traces, RecomputeTrace(t) PROVE AttributionInv'
  <2>1. /\ db'.resources = db.resources /\ db'.spans = db.spans
        /\ UNCHANGED <<pc, saved, cache>>
    BY <1>4 DEF RecomputeTrace, DB
  <2> QED BY <2>1 DEF AttributionInv, CacheInv, Attributed
<1>5. CASE Commit
  BY <1>5 DEF Commit, AttributionInv, CacheInv, Attributed
<1>6. ASSUME NEW c \in Retentions, BeginPrune(c) PROVE AttributionInv'
  <2>1. /\ db'.resources = db.resources /\ db'.spans \subseteq db.spans
        /\ UNCHANGED cache /\ pc' # "write"
    BY <1>6 DEF BeginPrune, AgedSpans, DB
  <2> QED BY <2>1 DEF AttributionInv, CacheInv, Attributed
<1>7. CASE DeleteAgedTraces
  BY <1>7 DEF DeleteAgedTraces, DB, AttributionInv, CacheInv, Attributed
<1>8. CASE DeleteOldestSpans
  <2>1. /\ db'.resources = db.resources /\ db'.spans \subseteq db.spans
        /\ UNCHANGED cache /\ pc' # "write"
    BY <1>8 DEF DeleteOldestSpans, DB
  <2> QED BY <2>1 DEF AttributionInv, CacheInv, Attributed
<1>9. CASE DeleteOldestTraces
  BY <1>9 DEF DeleteOldestTraces, DB, AttributionInv, CacheInv, Attributed
<1>10. CASE EndPrune
  BY <1>10 DEF EndPrune, AttributionInv, CacheInv, Attributed
<1>11. CASE Clear
  BY <1>11 DEF Clear, ClearedCache, NoCache, EmptyTables, DB, AttributionInv, CacheInv,
     Attributed
<1>12. CASE Tick
  BY <1>12 DEF Tick, AttributionInv, CacheInv, Attributed
<1>13. CASE Crash
  BY <1>13 DEF Crash, NoCache, AttributionInv, CacheInv, Attributed
<1>14. CASE UNCHANGED vars
  BY <1>14 DEF vars, AttributionInv, CacheInv, Attributed
<1>15. retention \in Retentions
  BY DEF TypeOK
<1> QED
  BY <1>1, <1>2, <1>3, <1>4, <1>5, <1>6, <1>7, <1>8, <1>9, <1>10, <1>11, <1>12, <1>13,
     <1>14, <1>15 DEF Next, Continue, Prune, ApplyRetention

\* As long as SQLite accepts every exported value, so that no write is rolled
\* back, a stored span names the resource it was exported with, across clears,
\* retention and crashes.  A rolled-back write breaks it (run StorePoisoned).
THEOREM AttributionCorrect ==
    ASSUME \A e \in Exports : e.bindable
    PROVE  Spec => []SpanAttribution
<1>1. Init => TypeOK /\ AttributionInv
  BY TypeInit, AttributionInit
<1>2. TypeOK /\ AttributionInv /\ [Next]_vars => (TypeOK /\ AttributionInv)'
  BY TypeStep, AttributionStep
<1>3. AttributionInv => SpanAttribution
  BY DEF AttributionInv, SpanAttribution, Durable
<1> QED BY <1>1, <1>2, <1>3, PTL DEF Spec

-----------------------------------------------------------------------------
\* Deleting spans and rollup rows keeps the remaining rows advanced.
LEMMA AdvancedShrinks ==
    ASSUME NEW A, NEW B, NEW C, AllAdvanced(A, C),
           B.spans \subseteq A.spans, B.traces \subseteq A.traces
    PROVE  AllAdvanced(B, C)
BY DEF AllAdvanced

LEMMA IngestInit == Init => IngestInv
BY DEF Init, IngestInv, AllAdvanced, EmptyTables, DB

\* Every step keeps each rollup row as recent as the spans of its trace, except
\* for the traces the open transaction has touched.
LEMMA IngestStep == TypeOK /\ RollupInv /\ IngestInv /\ [Next]_vars => IngestInv'
<1> SUFFICES ASSUME TypeOK, RollupInv, IngestInv, [Next]_vars PROVE IngestInv'
  OBVIOUS
<1> USE DEF control
<1>0. now \in Nat
  BY BoundAssumption DEF TypeOK
<1>1. CASE BeginWrite
  BY <1>1 DEF BeginWrite, IngestInv, RollupInv, AllAdvanced
<1>2. CASE InsertSpan
  <2> DEFINE x == Head(todo)
             kept == {s \in db.spans : <<s.trace, s.span>> # <<x.trace, x.span>>}
  <2>1. /\ db'.spans = kept \cup {StoredSpan(x)}
        /\ db'.traces = db.traces
        /\ touched' = touched \cup {x.trace}
        /\ pc = "write" /\ UNCHANGED <<pc, saved, now>>
    BY <1>2 DEF InsertSpan, DB
  <2>2. StoredSpan(x).trace = x.trace /\ StoredSpan(x).ingested = now
    BY DEF StoredSpan
  <2>3. AllAdvanced(db', touched')
    BY <2>1, <2>2 DEF IngestInv, AllAdvanced
  <2>4. \A s \in db'.spans : s.ingested <= now'
    BY <1>0, <2>1, <2>2 DEF IngestInv
  <2> QED BY <2>1, <2>3, <2>4 DEF IngestInv
<1>3. CASE InsertFails
  BY <1>3 DEF InsertFails, IngestInv
<1>4. ASSUME NEW t \in Traces, RecomputeTrace(t) PROVE IngestInv'
  <2> DEFINE S == SpansOf(db.spans, t)
             others == {r \in db.traces : r.trace # t}
  <2>1. /\ pc = "write" /\ UNCHANGED <<pc, saved, now>>
        /\ db'.spans = db.spans /\ touched' = touched \ {t}
    BY <1>4 DEF RecomputeTrace, DB
  <2>2. ASSUME NEW r \in db'.traces
        PROVE  r \in others \/ (r.trace = t /\ r.ingested = now)
    <3>1. CASE S = {}
      BY <1>4, <3>1 DEF RecomputeTrace, DB
    <3>2. CASE S # {}
      <4>1. PICK row \in Rollups(S, t, now) : db'.traces = others \cup {row}
        BY <1>4, <3>2 DEF RecomputeTrace, DB
      <4>2. row.trace = t /\ row.ingested = now
        BY RollupAgrees
      <4> QED BY <4>1, <4>2
    <3> QED BY <3>1, <3>2
  <2>3. AllAdvanced(db', touched')
    <3> SUFFICES ASSUME NEW s \in db'.spans, NEW r \in db'.traces, r.trace = s.trace
                 PROVE  s.trace \in touched' \/ r.ingested >= s.ingested
      BY DEF AllAdvanced
    <3>1. CASE r \in others
      BY <2>1, <3>1 DEF IngestInv, AllAdvanced
    <3>2. CASE r.ingested = now
      <4>1. s \in db.spans /\ s.ingested <= now
        BY <2>1 DEF IngestInv
      <4>2. s.ingested \in Nat
        BY <4>1, TablesFields DEF TypeOK, SpanRow
      <4> QED BY <1>0, <3>2, <4>1, <4>2
    <3> QED BY <2>2, <3>1, <3>2
  <2> QED BY <2>1, <2>3 DEF IngestInv
<1>5. CASE Commit
  BY <1>5 DEF Commit, IngestInv
<1>6. ASSUME NEW c \in Retentions, BeginPrune(c) PROVE IngestInv'
  <2>1. /\ db'.traces = db.traces /\ db'.spans \subseteq db.spans
        /\ UNCHANGED <<touched, now>> /\ pc' # "write"
        /\ cutoff' = now - c.maxAge /\ retention' = c
    BY <1>6 DEF BeginPrune, AgedSpans, DB
  <2>2. AllAdvanced(db', touched')
    BY <2>1 DEF IngestInv, AllAdvanced
  <2> QED BY <2>1, <2>2 DEF IngestInv
<1>7. CASE DeleteAgedTraces
  <2>1. /\ db'.spans = db.spans /\ db'.traces \subseteq db.traces
        /\ UNCHANGED <<touched, now>> /\ pc' = "size"
    BY <1>7 DEF DeleteAgedTraces, DB
  <2> QED BY <2>1 DEF IngestInv, AllAdvanced
<1>8. CASE DeleteOldestSpans
  <2>1. /\ db'.spans \subseteq db.spans /\ db'.traces = db.traces
        /\ UNCHANGED <<touched, now>> /\ pc' = "sizeTraces"
    BY <1>8 DEF DeleteOldestSpans, DB
  <2> QED BY <2>1 DEF IngestInv, AllAdvanced
<1>9. CASE DeleteOldestTraces
  <2>1. /\ db'.spans = db.spans /\ db'.traces \subseteq db.traces
        /\ UNCHANGED <<touched, now>> /\ pc' = "size"
    BY <1>9 DEF DeleteOldestTraces, DB
  <2> QED BY <2>1 DEF IngestInv, AllAdvanced
<1>10. CASE EndPrune
  BY <1>10 DEF EndPrune, IngestInv
<1>11. CASE Clear
  BY <1>11 DEF Clear, EmptyTables, DB, IngestInv, AllAdvanced
<1>12. CASE Tick
  <2>1. /\ now' = now + 1 /\ UNCHANGED <<db, pc, touched>> /\ pc = "idle"
    BY <1>12 DEF Tick
  <2>2. ASSUME NEW s \in db.spans PROVE s.ingested <= now'
    <3>1. s.ingested \in Nat
      BY TablesFields DEF TypeOK, SpanRow
    <3> QED BY <1>0, <2>1, <3>1 DEF IngestInv
  <2> QED BY <2>1, <2>2 DEF IngestInv
<1>13. CASE Crash
  <2>1. pc' = "idle" /\ touched' = {} /\ UNCHANGED now
    BY <1>13 DEF Crash
  <2>2. CASE pc = "write"
    BY <1>13, <2>1, <2>2 DEF Crash, IngestInv
  <2>3. CASE pc # "write"
    BY <1>13, <2>1, <2>3 DEF Crash, IngestInv, RollupInv
  <2> QED BY <2>2, <2>3
<1>14. CASE UNCHANGED vars
  BY <1>14 DEF vars, IngestInv
<1>15. retention \in Retentions
  BY DEF TypeOK
<1> QED
  BY <1>1, <1>2, <1>3, <1>4, <1>5, <1>6, <1>7, <1>8, <1>9, <1>10, <1>11, <1>12, <1>13,
     <1>14, <1>15 DEF Next, Continue, Prune, ApplyRetention

\* What FreshSpansKept says of one step.
FreshKept ==
    AgePass => \A s \in db.spans :
        s.ingested >= now - retention'.maxAge
            => s \in db'.spans /\ \E r \in db'.traces : r.trace = s.trace

\* A step of an age pass keeps every span younger than the bound.
LEMMA FreshStep == TypeOK /\ RollupInv /\ IngestInv /\ [Next]_vars => [FreshKept]_vars
<1> SUFFICES ASSUME TypeOK, RollupInv, IngestInv, Next, AgePass, NEW s \in db.spans,
                    s.ingested >= now - retention'.maxAge
             PROVE  s \in db'.spans /\ \E r \in db'.traces : r.trace = s.trace
  BY DEF FreshKept
<1> USE DEF control
<1>1. now \in Nat /\ s.ingested \in Nat
  BY BoundAssumption, TablesFields DEF TypeOK, SpanRow
<1>2. ASSUME NEW r \in db.traces, r.trace = s.trace, touched = {}
      PROVE  r.ingested \in Nat /\ r.ingested >= s.ingested
  BY <1>2, TablesFields DEF TypeOK, TraceRow, IngestInv, AllAdvanced
<1>3. ASSUME NEW c \in Retentions, BeginPrune(c)
      PROVE  s \in db'.spans /\ \E r \in db'.traces : r.trace = s.trace
  <2>1. c.maxAge \in Nat
    BY RetentionAssumption DEF Retention
  <2>2. /\ pc = "idle" /\ touched = {} /\ retention' = c
        /\ db'.traces = db.traces
        /\ db' = db \/ db'.spans = {x \in db.spans : ~\E r \in db.traces :
                          r.trace = x.trace /\ r.ingested < now - c.maxAge}
    BY <1>3 DEF BeginPrune, AgedSpans, RollupInv, DB
  <2>3. ~\E r \in db.traces : r.trace = s.trace /\ r.ingested < now - c.maxAge
    BY <1>1, <1>2, <2>1, <2>2
  <2>4. s \in db'.spans
    BY <2>2, <2>3
  <2>5. \E r \in db.traces : r.trace = s.trace
    BY <2>2 DEF RollupInv
  <2> QED BY <2>2, <2>4, <2>5
<1>4. CASE DeleteAgedTraces
  <2>1. retention.maxAge \in Nat
    BY RetentionAssumption DEF TypeOK, Retention
  <2>2. /\ pc = "ageTraces" /\ touched = {} /\ cutoff = now - retention.maxAge
        /\ UNCHANGED retention /\ db'.spans = db.spans
        /\ db'.traces = {r \in db.traces : r.ingested >= cutoff}
    BY <1>4 DEF DeleteAgedTraces, RollupInv, IngestInv, DB
  <2>3. PICK r \in db.traces : r.trace = s.trace
    BY <2>2 DEF RollupInv
  <2>4. r.ingested >= cutoff
    BY <1>1, <1>2, <2>1, <2>2, <2>3
  <2> QED BY <2>2, <2>3, <2>4
<1>5. retention \in Retentions
  BY DEF TypeOK
<1>6. CASE BeginWrite
  BY <1>6 DEF BeginWrite, AgePass
<1>7. CASE InsertSpan
  BY <1>7 DEF InsertSpan, AgePass
<1>8. CASE InsertFails
  BY <1>8 DEF InsertFails, AgePass
<1>9. ASSUME NEW t \in Traces, RecomputeTrace(t) PROVE FALSE
  BY <1>9 DEF RecomputeTrace, AgePass
<1>10. ~(Commit \/ DeleteOldestSpans \/ DeleteOldestTraces \/ EndPrune)
  BY DEF Commit, DeleteOldestSpans, DeleteOldestTraces, EndPrune, AgePass
<1>11. ~(Clear \/ Tick \/ Crash)
  BY DEF Clear, Tick, Crash, AgePass
<1> QED
  BY <1>3, <1>4, <1>5, <1>6, <1>7, <1>8, <1>9, <1>10, <1>11
     DEF Next, Continue, Prune, ApplyRetention

\* For every retention setting and every interleaving of writes, passes and
\* crashes, age retention deletes no span younger than the bound.
THEOREM FreshCorrect == Spec => FreshSpansKept
<1>1. Init => TypeOK /\ RollupInv /\ IngestInv
  BY TypeInit, RollupInit, IngestInit
<1>2. TypeOK /\ RollupInv /\ IngestInv /\ [Next]_vars
        => (TypeOK /\ RollupInv /\ IngestInv)'
  BY TypeStep, RollupStep, IngestStep
<1>3. TypeOK /\ RollupInv /\ IngestInv /\ [Next]_vars => [FreshKept]_vars
  BY FreshStep
<1>4. Spec => [][FreshKept]_vars
  BY <1>1, <1>2, <1>3, PTL DEF Spec
<1> QED BY <1>4 DEF FreshSpansKept, FreshKept
=============================================================================
