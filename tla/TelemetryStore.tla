--------------------------- MODULE TelemetryStore ---------------------------
(***************************************************************************)
(* The trace side of the SQLite store (packages/engine-node): the spans    *)
(* table, the materialised traces rollup, the interned resources table     *)
(* with the in-memory hash-to-id cache in front of it, the write           *)
(* transaction, retention and clear.                                       *)
(*                                                                         *)
(* The store is synchronous code in one worker thread, so operations never *)
(* overlap; what can happen between two SQL statements is that one of them *)
(* throws, or that the process dies.  A write is one transaction; the      *)
(* statements of a retention pass commit one by one.                       *)
(***************************************************************************)
EXTENDS Integers, Sequences, FiniteSets

CONSTANTS
    Traces,         \* trace ids
    SpanIds,        \* span ids
    NoParent,       \* a span without a parent
    Resources,      \* resource attribute bags, one per canonical hash
    ServiceOf,      \* Resources -> service.name
    Unnamed,        \* the service name of a resource that carries none ('')
    Exports,        \* the spans an exporter may send
    MaxBatch,       \* spans in one write
    Retentions,     \* retention settings the user may choose
    PruneFloor,     \* SIZE_PRUNE_FLOOR
    PruneDivisor,   \* 1 / SIZE_PRUNE_FRACTION
    MaxRounds,      \* MAX_SIZE_PRUNE_ROUNDS
    MaxClock,       \* bound on the clock
    MaxCrashes      \* bound on process deaths

Services == {ServiceOf[r] : r \in Resources}

\* `bindable` is FALSE for a span with a value SQLite refuses to bind, such as
\* a timestamp of 2^63 or more: insert.run throws on it.
Export == [trace : Traces, span : SpanIds, parent : SpanIds \cup {NoParent},
           start : Nat, error : BOOLEAN, resource : Resources, bindable : BOOLEAN]

Retention == [maxAge : Nat, sizeLimited : BOOLEAN]

ASSUME ResourceAssumption == ServiceOf \in [Resources -> Services]
ASSUME ExportAssumption == Exports \subseteq Export
ASSUME RetentionAssumption == Retentions \subseteq Retention /\ Retentions # {}
ASSUME BoundAssumption ==
    /\ MaxBatch \in Nat \ {0} /\ MaxRounds \in Nat
    /\ MaxClock \in Nat /\ MaxCrashes \in Nat
    /\ PruneFloor \in Nat \ {0} /\ PruneDivisor \in Nat \ {0}

VARIABLES
    db,         \* the tables, as the open transaction sees them
    saved,      \* the tables at BEGIN, which ROLLBACK and recovery restore
    cache,      \* Interner.resourceCache
    retention,  \* the retention settings in force
    now,        \* wall clock
    pc,         \* what the worker is in the middle of
    todo,       \* spans of the batch still to insert
    touched,    \* traces whose rollup the transaction still has to recompute
    cutoff,     \* age cutoff of the current retention pass
    victims,    \* traces of the current size-pruning round
    rounds,     \* size-pruning rounds done in this pass
    crashes     \* process deaths so far

control == <<pc, todo, touched, cutoff, victims, rounds>>
vars == <<db, saved, cache, retention, now, pc, todo, touched, cutoff,
          victims, rounds, crashes>>

-----------------------------------------------------------------------------
(* Tables.  Rows of `resources` are deleted only all together (clear), so   *)
(* the table is the sequence of its bags in rowid order: INTEGER PRIMARY    *)
(* KEY without AUTOINCREMENT gives the next row the largest id plus one.    *)

SpanRow == [trace : Traces, span : SpanIds, parent : SpanIds \cup {NoParent},
            start : Nat, error : BOOLEAN, service : Services,
            resource : Nat \ {0}, ingested : Nat]

TraceRow == [trace : Traces, root : SpanIds, start : Nat, count : Nat,
             errors : Nat, services : SUBSET Services, ingested : Nat]

\* The three tables as one value.
DB(r, s, t) == [resources |-> r, spans |-> s, traces |-> t]
EmptyTables == DB(<<>>, {}, {})

SpansOf(spans, t) == {s \in spans : s.trace = t}

\* The row a resource is interned as: the cached id, else the row with the
\* same hash, else a new row.
Rows(r) == {i \in DOMAIN db.resources : db.resources[i] = r}

ResourceId(r) == IF r \in DOMAIN cache THEN cache[r]
                 ELSE IF Rows(r) # {} THEN CHOOSE i \in Rows(r) : TRUE
                 ELSE Len(db.resources) + 1

InternedTable(r) == IF r \in DOMAIN cache \/ Rows(r) # {} THEN db.resources
                    ELSE Append(db.resources, r)

InternedCache(r) == [x \in DOMAIN cache \cup {r} |->
                        IF x = r THEN ResourceId(r) ELSE cache[x]]

NoCache == [x \in {} |-> 0]

\* Spans whose parent is not among the trace's own spans; the earliest spans
\* when a cycle leaves none.  The statement has no ORDER BY: any may be first.
Roots(S) == {s \in S : s.parent \notin {x.span : x \in S}}
Earliest(S) == {s \in S : \A x \in S : s.start <= x.start}
RootCandidates(S) == IF Roots(S) # {} THEN Roots(S) ELSE Earliest(S)

\* A bug: an upsert that keeps the ingest time the trace started with.
FirstIngestKept(S, t, at) ==
    {[trace |-> t, root |-> r.span, start |-> e.start,
      count |-> Cardinality(S),
      errors |-> Cardinality({s \in S : s.error}),
      services |-> {s.service : s \in S} \ {Unnamed},
      ingested |-> CHOOSE i \in {s.ingested : s \in S} :
                      \A s \in S : i <= s.ingested]
        : r \in RootCandidates(S), e \in Earliest(S)}

\* Rollup rows recomputeTrace may write for the spans S of trace t.
Rollups(S, t, at) ==
    {[trace |-> t, root |-> r.span, start |-> e.start,
      count |-> Cardinality(S),
      errors |-> Cardinality({s \in S : s.error}),
      services |-> {s.service : s \in S} \ {Unnamed},
      ingested |-> at] : r \in RootCandidates(S), e \in Earliest(S)}

\* How many traces one size-pruning round drops.
BatchSize(n) ==
    LET fraction == (n + PruneDivisor - 1) \div PruneDivisor
        wanted == IF fraction > PruneFloor THEN fraction ELSE PruneFloor
    IN  IF wanted < n THEN wanted ELSE n

-----------------------------------------------------------------------------
Init ==
    /\ db = EmptyTables
    /\ saved = EmptyTables
    /\ cache = NoCache
    /\ retention \in Retentions
    /\ now = 0
    /\ pc = "idle"
    /\ todo = <<>>
    /\ touched = {}
    /\ cutoff = 0
    /\ victims = {}
    /\ rounds = 0
    /\ crashes = 0

-----------------------------------------------------------------------------
(* SpanStore.write: BEGIN, one insert per span, one recompute per affected  *)
(* trace, COMMIT; ROLLBACK when any of them throws.                         *)

BeginWrite ==
    /\ pc = "idle"
    /\ \E n \in 1..MaxBatch : todo' \in [1..n -> Exports]
    /\ pc' = "write"
    /\ saved' = db
    /\ UNCHANGED <<db, cache, retention, now, touched, cutoff, victims, rounds,
                   crashes>>

\* The INSERT goes through: every value binds and the foreign key resolves.
Insertable(x) == /\ x.bindable
                 /\ ResourceId(x.resource) \in DOMAIN InternedTable(x.resource)

StoredSpan(x) == [trace |-> x.trace, span |-> x.span, parent |-> x.parent,
                  start |-> x.start, error |-> x.error,
                  service |-> ServiceOf[x.resource],
                  resource |-> ResourceId(x.resource), ingested |-> now]

InsertSpan ==
    /\ pc = "write"
    /\ todo # <<>>
    /\ LET x == Head(todo) IN
        /\ Insertable(x)
        /\ db' = DB(InternedTable(x.resource),
                    {s \in db.spans : <<s.trace, s.span>> # <<x.trace, x.span>>}
                        \cup {StoredSpan(x)},
                    db.traces)
        /\ cache' = InternedCache(x.resource)
        /\ touched' = touched \cup {x.trace}
    /\ todo' = Tail(todo)
    /\ UNCHANGED <<saved, retention, now, pc, cutoff, victims, rounds, crashes>>

\* The INSERT throws: the catch block rolls the transaction back.  The cache
\* entry made for this span, and those made for earlier ones, stay.
InsertFails ==
    /\ pc = "write"
    /\ todo # <<>>
    /\ ~Insertable(Head(todo))
    /\ db' = saved
    /\ saved' = EmptyTables
    /\ cache' = InternedCache(Head(todo).resource)
    /\ pc' = "idle"
    /\ todo' = <<>>
    /\ touched' = {}
    /\ UNCHANGED <<retention, now, cutoff, victims, rounds, crashes>>

RecomputeTrace(t) ==
    /\ pc = "write"
    /\ todo = <<>>
    /\ t \in touched
    /\ LET S == SpansOf(db.spans, t)
           others == {r \in db.traces : r.trace # t} IN
        IF S = {} THEN db' = DB(db.resources, db.spans, others)
        ELSE \E row \in Rollups(S, t, now) :
                db' = DB(db.resources, db.spans, others \cup {row})
    /\ touched' = touched \ {t}
    /\ UNCHANGED <<saved, cache, retention, now, pc, todo, cutoff, victims,
                   rounds, crashes>>

Commit ==
    /\ pc = "write"
    /\ todo = <<>>
    /\ touched = {}
    /\ pc' = "idle"
    /\ saved' = EmptyTables
    /\ UNCHANGED <<db, cache, retention, now, todo, touched, cutoff, victims,
                   rounds, crashes>>

-----------------------------------------------------------------------------
(* pruneRetention.  Its statements are not in a transaction: each DELETE is *)
(* durable when it returns.  Spans go before the rollup rows they belong to.*)

\* A bug: spans age out one by one instead of with their whole trace.
AgedOneByOne(config) == {s \in db.spans : s.ingested < now - config.maxAge}

\* The spans of the traces that have received no span since the cutoff.
AgedSpans(config) ==
    {s \in db.spans : \E r \in db.traces :
        r.trace = s.trace /\ r.ingested < now - config.maxAge}

BeginPrune(config) ==
    /\ pc = "idle"
    /\ retention' = config
    /\ cutoff' = now - config.maxAge
    /\ rounds' = 0
    /\ IF config.maxAge > 0
       THEN /\ db' = DB(db.resources, db.spans \ AgedSpans(config), db.traces)
            /\ pc' = "ageTraces"
       ELSE /\ pc' = "size"
            /\ UNCHANGED db
    /\ UNCHANGED <<saved, cache, now, todo, touched, victims, crashes>>

\* A bug: the timer takes an empty spans table for an empty database.
PruneUnlessNoSpans == db.spans # {} /\ BeginPrune(retention)

\* The background timer, every pruneIntervalMs.
Prune == BeginPrune(retention)

\* The settings changed: the new bounds apply at once.
ApplyRetention(config) == BeginPrune(config)

DeleteAgedTraces ==
    /\ pc = "ageTraces"
    /\ db' = DB(db.resources, db.spans, {r \in db.traces : r.ingested >= cutoff})
    /\ pc' = "size"
    /\ UNCHANGED <<saved, cache, retention, now, todo, touched, cutoff, victims,
                   rounds, crashes>>

\* The database is over its size: the spans of the oldest traces go.  How many
\* bytes the rows take is not modelled, so any round may be the last.
DeleteOldestSpans ==
    /\ pc = "size"
    /\ retention.sizeLimited
    /\ rounds < MaxRounds
    /\ db.traces # {}
    /\ \E V \in SUBSET db.traces :
        /\ Cardinality(V) = BatchSize(Cardinality(db.traces))
        /\ \A v \in V, k \in db.traces \ V : v.ingested <= k.ingested
        /\ victims' = {v.trace : v \in V}
    /\ db' = DB(db.resources, {s \in db.spans : s.trace \notin victims'}, db.traces)
    /\ pc' = "sizeTraces"
    /\ UNCHANGED <<saved, cache, retention, now, todo, touched, cutoff, rounds,
                   crashes>>

DeleteOldestTraces ==
    /\ pc = "sizeTraces"
    /\ db' = DB(db.resources, db.spans, {r \in db.traces : r.trace \notin victims})
    /\ victims' = {}
    /\ rounds' = rounds + 1
    /\ pc' = "size"
    /\ UNCHANGED <<saved, cache, retention, now, todo, touched, cutoff, crashes>>

\* No size bound, under it, nothing left to drop, or out of rounds.
EndPrune ==
    /\ pc = "size"
    /\ pc' = "idle"
    /\ cutoff' = 0
    /\ rounds' = 0
    /\ UNCHANGED <<db, saved, cache, retention, now, todo, touched, victims, crashes>>

-----------------------------------------------------------------------------
\* A bug: clear() without interner.reset().
CacheKept == cache

\* clear(): every table in one transaction, then the interner's cache.
ClearedCache == NoCache

Clear ==
    /\ pc = "idle"
    /\ db' = EmptyTables
    /\ cache' = ClearedCache
    /\ UNCHANGED <<saved, retention, now, control, crashes>>

\* Time passes.  An operation reads the clock once, when it starts, so time
\* that passes during it is time that passes after it.
Tick ==
    /\ pc = "idle"
    /\ now < MaxClock
    /\ now' = now + 1
    /\ UNCHANGED <<db, saved, cache, retention, control, crashes>>

\* The process dies and a new one opens the file: SQLite rolls an open
\* transaction back, the cache starts empty, the settings file is read again.
Crash ==
    /\ crashes < MaxCrashes
    /\ crashes' = crashes + 1
    /\ db' = IF pc = "write" THEN saved ELSE db
    /\ saved' = EmptyTables
    /\ cache' = NoCache
    /\ retention' \in Retentions
    /\ pc' = "idle"
    /\ todo' = <<>>
    /\ touched' = {}
    /\ cutoff' = 0
    /\ victims' = {}
    /\ rounds' = 0
    /\ UNCHANGED now

\* What the worker does once it has started an operation.
Continue ==
    \/ InsertSpan \/ InsertFails
    \/ \E t \in Traces : RecomputeTrace(t)
    \/ Commit
    \/ DeleteAgedTraces \/ DeleteOldestSpans \/ DeleteOldestTraces \/ EndPrune

Next ==
    \/ BeginWrite
    \/ Continue
    \/ Prune
    \/ \E c \in Retentions : ApplyRetention(c)
    \/ Clear
    \/ Tick
    \/ Crash

Spec == Init /\ [][Next]_vars

\* The worker's code runs to its end, and the retention timer gets its turn:
\* Node's event loop visits the timer phase between two setImmediate callbacks.
FairSpec == Spec /\ WF_vars(Continue) /\ SF_vars(Prune)

-----------------------------------------------------------------------------
\* The tables a reader, or a restarted process, finds.
Durable == IF pc = "write" THEN saved ELSE db

Tables == [resources : Seq(Resources), spans : SUBSET SpanRow, traces : SUBSET TraceRow]

\* Every variable has its type: tables of well-formed rows, a cache from bags to row ids.
TypeOK ==
    /\ db \in Tables /\ IsFiniteSet(db.spans)
    /\ saved \in Tables /\ IsFiniteSet(saved.spans)
    /\ DOMAIN cache \subseteq Resources
    /\ cache \in [DOMAIN cache -> Nat \ {0}]
    /\ retention \in Retentions
    /\ now \in 0..MaxClock
    /\ pc \in {"idle", "write", "ageTraces", "size", "sizeTraces"}
    /\ todo \in Seq(Exports)
    /\ touched \subseteq Traces
    /\ cutoff \in Int
    /\ victims \subseteq Traces
    /\ rounds \in Nat
    /\ crashes \in Nat

AllListed(T) == \A s \in T.spans : \E r \in T.traces : r.trace = s.trace

\* No span is ever orphaned: at any instant, a crash in the middle of a
\* retention pass included, a stored span has its trace in the traces table.
\* A span without one is in no list, and retention, which finds spans through
\* the traces table, would never delete it.
SpansListed == AllListed(Durable)

\* Row r says of the spans S of its trace what recomputing them would say.
Agrees(r, S) ==
    /\ r.count = Cardinality(S)
    /\ r.errors = Cardinality({s \in S : s.error})
    /\ r.services = {s.service : s \in S} \ {Unnamed}
    /\ \E s \in RootCandidates(S) : r.root = s.span
    /\ \E s \in Earliest(S) : r.start = s.start

AllExact(T) == \A r \in T.traces :
                  SpansOf(T.spans, r.trace) # {} => Agrees(r, SpansOf(T.spans, r.trace))

\* No span is orphaned, and the materialised rollup never drifts from the spans
\* it summarises, however exports of one trace are split, retried, failed,
\* pruned or cut short by a crash; in particular retention never leaves part of
\* a trace behind.
RollupExact == SpansListed /\ AllExact(Durable)

\* Age retention never drops a span younger than the bound, even in a trace
\* that began before it: each write moves its whole trace to its own time
\* (retention.ts:59, a trace goes once it has received no spans since the cutoff).
AgePass == pc' = "ageTraces" \/ (pc = "ageTraces" /\ pc' = "size")

FreshSpansKept ==
    [][AgePass => \A s \in db.spans :
         s.ingested >= now - retention'.maxAge
            => s \in db'.spans /\ \E r \in db'.traces : r.trace = s.trace]_vars

Attributed(T) == \A s \in T.spans :
                    /\ s.resource \in DOMAIN T.resources
                    /\ ServiceOf[T.resources[s.resource]] = s.service

\* A span's resource is the resource it was exported with (intern.ts:7): the
\* row its resource_id names has the service the span carried.
SpanAttribution == Attributed(Durable)

Hollow(t) == /\ \E r \in Durable.traces : r.trace = t
             /\ SpansOf(Durable.spans, t) = {}

\* A rollup row that a crash in the middle of a retention pass left without
\* spans does not stay: a later pass removes it, or the trace gets spans again.
HollowHealed == \A t \in Traces : Hollow(t) ~> ~Hollow(t)

-----------------------------------------------------------------------------
(* Inductive strengthenings, for the proofs.  Inside a transaction the       *)
(* touched traces are the exception; inside a retention pass, the spans      *)
(* that are left are known to belong to rows that stay.                      *)

RollupInv ==
    /\ pc = "write" => AllListed(saved) /\ AllExact(saved)
    /\ pc # "write" => touched = {}
    /\ \A s \in db.spans :
          s.trace \in touched \/ \E r \in db.traces : r.trace = s.trace
    /\ \A r \in db.traces :
          \/ r.trace \in touched
          \/ SpansOf(db.spans, r.trace) = {}
          \/ Agrees(r, SpansOf(db.spans, r.trace))
    /\ pc = "ageTraces" =>
          \A s \in db.spans, r \in db.traces : r.trace = s.trace => r.ingested >= cutoff
    /\ pc = "sizeTraces" => \A s \in db.spans : s.trace \notin victims

AllAdvanced(T, except) ==
    \A s \in T.spans, r \in T.traces :
        r.trace = s.trace => s.trace \in except \/ r.ingested >= s.ingested

\* A rollup row is at least as recent as every span of its trace, and an age
\* pass works with the cutoff of its start.
IngestInv ==
    /\ pc = "ageTraces" => cutoff = now - retention.maxAge
    /\ AllAdvanced(db, touched)
    /\ \A s \in db.spans : s.ingested <= now
    /\ pc = "write" => AllAdvanced(saved, {}) /\ \A s \in saved.spans : s.ingested <= now

\* Every cached id names the row of the bag it is cached for.
CacheInv == \A x \in DOMAIN cache :
                cache[x] \in DOMAIN db.resources /\ db.resources[cache[x]] = x

AttributionInv ==
    /\ CacheInv
    /\ Attributed(db)
    /\ pc = "write" => Attributed(saved)
=============================================================================
