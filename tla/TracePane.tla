----------------------------- MODULE TracePane -----------------------------
(***************************************************************************)
(* The selected trace of the workbench (useSelectedTrace, packages/ui): a  *)
(* latest-only loader with a least recently used cache.  The hook listens  *)
(* to changes of the selected trace, and only of that one.                 *)
(*                                                                         *)
(* A reading of a trace is the number of announced changes that it has in  *)
(* it.  "seen" and "missed" are history.                                   *)
(***************************************************************************)
EXTENDS Naturals, Sequences

CONSTANTS
    Traces,
    NoTrace,        \* nothing selected, nothing shown
    CacheLimit,     \* MAX_CACHE_ENTRIES
    MaxTraceEvents  \* bound on changes, on the user's actions and on failures

ASSUME TracePaneAssumption == NoTrace \notin Traces /\ CacheLimit \in Nat \ {0}

VARIABLES
    edition,        \* announced changes of every trace
    hints,          \* traces with a tracesChanged event on its way
    selection,      \* traceId and enabled
    cache,          \* readings, oldest first
    pane,           \* shown (a reading or NoTrace), loading, failed, displayedTraceId
    rerender,       \* setRevision has been called and the effect has not run since
    fetch,          \* the effect's own load: its phase and what it has read
    outrun,         \* requests of earlier generations that have not settled
    missed,         \* cached traces of which the cache lacks a change that nothing will bring
    traceEvents

traceVars == <<edition, hints, selection, cache, pane, rerender, fetch, outrun, missed, traceEvents>>

Idle == [phase |-> "idle", seen |-> 0]
Empty == [shown |-> NoTrace, loading |-> FALSE, failed |-> FALSE, displayed |-> NoTrace]

TraceInit ==
    /\ edition = [t \in Traces |-> 0]
    /\ hints = {}
    /\ selection = [trace |-> NoTrace, enabled |-> TRUE]
    /\ cache = <<>>
    /\ pane = Empty
    /\ rerender = FALSE
    /\ fetch = Idle
    /\ outrun = {}
    /\ missed = {}
    /\ traceEvents = 0

TraceEvent == traceEvents < MaxTraceEvents /\ traceEvents' = traceEvents + 1

Listening(t) == selection.enabled /\ selection.trace = t
Cached(t) == \E n \in DOMAIN cache : cache[n].trace = t

\* Map.delete: a trace has at most one entry.
Without(entries, t) ==
    LET at == {n \in DOMAIN entries : entries[n].trace = t}
        n == CHOOSE m \in at : TRUE
    IN  IF at = {} THEN entries
        ELSE SubSeq(entries, 1, n - 1) \o SubSeq(entries, n + 1, Len(entries))

\* Spans of a trace are stored, or all are cleared: the event names the
\* trace, or no trace, which concerns every one.
Export == \E changed \in {{t} : t \in Traces} \cup {Traces} :
    /\ TraceEvent
    /\ edition' = [t \in Traces |-> IF t \in changed THEN edition[t] + 1 ELSE edition[t]]
    /\ hints' = hints \cup changed
    /\ UNCHANGED <<selection, cache, pane, rerender, fetch, outrun, missed>>

\* The second effect runs for a selection; a load that was under way has
\* another generation from now on, and its timer is cleared.
Effect(sel) ==
    LET t == sel.trace
        hit == {n \in DOMAIN cache : cache[n].trace = t}
    IN  /\ selection' = sel
        /\ rerender' = FALSE
        /\ outrun' = IF fetch.phase \in {"sent", "read"} THEN outrun \cup {selection.trace} ELSE outrun
        /\ \/ /\ ~sel.enabled \/ t = NoTrace
              /\ pane' = Empty /\ fetch' = Idle /\ UNCHANGED cache
           \/ /\ sel.enabled /\ t # NoTrace /\ hit # {}
              /\ LET entry == cache[CHOOSE n \in hit : TRUE]
                 IN /\ pane' = [Empty EXCEPT !.shown = entry, !.displayed = t]
                    /\ cache' = Append(Without(cache, t), entry)
              /\ fetch' = Idle
           \/ /\ sel.enabled /\ t # NoTrace /\ hit = {}
              /\ pane' = [pane EXCEPT !.shown = IF pane.displayed = t THEN @ ELSE NoTrace,
                                      !.loading = pane.displayed # t, !.failed = FALSE]
              /\ fetch' = [Idle EXCEPT !.phase = "timer"]
              /\ UNCHANGED cache

\* The user selects, closes, or turns to another view and back.
Select == \E t \in Traces \cup {NoTrace}, on \in BOOLEAN :
    /\ TraceEvent
    /\ [trace |-> t, enabled |-> on] # selection
    /\ Effect([trace |-> t, enabled |-> on])
    /\ UNCHANGED <<edition, hints, missed>>

\* An event arrives: the first effect's subscriber hears of its own trace.  The
\* entry goes at once, the generation only when React has rendered.
Hear == \E t \in hints :
    /\ hints' = hints \ {t}
    /\ \/ /\ Listening(t)
          /\ cache' = Without(cache, t) /\ rerender' = TRUE /\ missed' = missed \ {t}
       \/ /\ ~Listening(t)
          /\ missed' = IF Cached(t) THEN missed \cup {t} ELSE missed
          /\ UNCHANGED <<cache, rerender>>
    /\ UNCHANGED <<edition, selection, pane, fetch, outrun, traceEvents>>

Rerender ==
    /\ rerender
    /\ Effect(selection)
    /\ UNCHANGED <<edition, hints, missed, traceEvents>>

\* The timer of 0 ms sends the request.
StartLoad ==
    /\ fetch.phase = "timer"
    /\ fetch' = [fetch EXCEPT !.phase = "sent"]
    /\ UNCHANGED <<edition, hints, selection, cache, pane, rerender, outrun, missed, traceEvents>>

ReadTrace ==
    /\ fetch.phase = "sent"
    /\ fetch' = [phase |-> "read", seen |-> edition[selection.trace]]
    /\ UNCHANGED <<edition, hints, selection, cache, pane, rerender, outrun, missed, traceEvents>>

\* insertCache(): the oldest go, by number and by their spans, which may be
\* so many that the new entry goes too.
InsertCache(entries, entry) ==
    LET all == Append(entries, entry)
    IN {SubSeq(all, n, Len(all)) : n \in {m \in 1..Len(all) + 1 : Len(all) - m < CacheLimit}}

\* then(): of the current generation, also after an event that has not changed it
\* yet: the reading of before the event is then back in the cache.
Loaded ==
    /\ fetch.phase = "read"
    /\ LET t == selection.trace
           entry == [trace |-> t, seen |-> fetch.seen]
       IN /\ pane' = [pane EXCEPT !.shown = entry, !.loading = FALSE, !.displayed = t]
          /\ cache' \in InsertCache(cache, entry)
          /\ missed' = IF rerender /\ t \notin hints /\ fetch.seen # edition[t]
                      THEN missed \cup {t} ELSE missed \ {t}
    /\ fetch' = Idle
    /\ UNCHANGED <<edition, hints, selection, rerender, outrun, traceEvents>>

LoadFails ==
    /\ TraceEvent
    /\ fetch.phase \in {"sent", "read"}
    /\ pane' = [pane EXCEPT !.failed = TRUE, !.loading = FALSE]
    /\ fetch' = Idle
    /\ UNCHANGED <<edition, hints, selection, cache, rerender, outrun, missed>>

\* A mutant of LateSettles: the generation is not compared.
LateCommits == \E t \in outrun :
    /\ outrun' = outrun \ {t}
    /\ pane' = [pane EXCEPT !.shown = [trace |-> t, seen |-> edition[t]]]
    /\ UNCHANGED <<edition, hints, selection, cache, rerender, fetch, missed, traceEvents>>

\* then() or catch() of an earlier generation.
LateSettles == \E t \in outrun :
    /\ outrun' = outrun \ {t}
    /\ UNCHANGED <<edition, hints, selection, cache, pane, rerender, fetch, missed, traceEvents>>

TraceNext == Export \/ Select \/ Hear \/ Rerender \/ StartLoad \/ ReadTrace \/ Loaded \/ LoadFails \/ LateSettles

Shows(t) == pane.shown = [trace |-> t, seen |-> edition[t]]

\* docs/spec.md, "no stale waterfall commit": a pane that is not loading, has
\* not failed and has no event of its trace under way shows the selected trace
\* as it was last announced, whatever was selected and cached in between.
\* Excepted: a change that was announced while the trace was only in the cache,
\* and one that was heard during a load whose answer came before the effect ran,
\* which takes that answer for a hit.
TraceCurrent ==
    \A t \in Traces :
        (Listening(t) /\ fetch = Idle /\ ~rerender /\ ~pane.failed /\ t \notin hints \cup missed)
            => Shows(t)
=============================================================================
