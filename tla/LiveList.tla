------------------------------ MODULE LiveList ------------------------------
(***************************************************************************)
(* A list of the workbench (TraceList, LogsView): a store that changes, a  *)
(* hook that follows it (LiveQuery), and the pages that "Load more"        *)
(* appends (useCursorPages).  A change is announced by the engine          *)
(* (engine.ts, notify) unless retention made it.  Hints reach the          *)
(* subscriber in the end (module RuntimeEvents) and may be merged.         *)
(*                                                                         *)
(* A reading of the store carries, for the properties, how many            *)
(* announcements it includes and which rows have not changed since.        *)
(***************************************************************************)
EXTENDS Listing, LiveQuery

CONSTANTS
    Ids,            \* ids of rows: numbers, since ids break ties
    Keys,           \* values of the sort column
    InitialStores,  \* what may be stored at the start
    Arrivals,       \* rows that an export may write or move
    Expiring,       \* rows that retention may delete
    Queries,        \* records of the ids that match and of the direction
    MaxEvents,      \* bound on changes, user actions and failures together
    MaxMore         \* bound on pages in flight

ASSUME ListAssumption ==
    /\ Ids \subseteq Nat \ {NoCursor} /\ IsFiniteSet(Ids)
    /\ Keys \subseteq Nat
    /\ Gone \notin Keys
    /\ PageSize \in Nat \ {0}
    /\ InitialStores \subseteq [Ids -> Keys \cup {Gone}]
    /\ Arrivals \subseteq [id : Ids, key : Keys]
    /\ Expiring \subseteq Ids
    /\ \A q \in Queries : q.ids \subseteq Ids /\ q.desc \in BOOLEAN

VARIABLES
    backend,        \* which store answers
    stored,         \* sort value of every row, or Gone
    announced,      \* changes that the engine has announced
    hint,           \* an announcement is on its way to the subscriber
    hook,           \* useDataSourceQuery
    late,           \* queries of cancelled runs whose fetch has not settled
    pages,          \* useCursorPages: rows, next, loadingMore
    more,           \* fetches of further pages in flight
    events

storeVars == <<backend, stored, announced, hint>>
viewVars == <<hook, late, pages, more>>
listVars == <<storeVars, viewVars, events>>

FirstPage(value) ==
    [rows |-> IF value = None THEN <<>> ELSE value.rows,
     next |-> IF value = None THEN NoCursor ELSE value.next,
     loadingMore |-> FALSE, astray |-> FALSE]

ListInit ==
    /\ backend \in {"sqlite", "memory"}
    /\ stored \in InitialStores
    /\ announced = 0
    /\ hint = FALSE
    /\ \E q \in Queries : hook = Restart(Mounted(q), q, "live")
    /\ late = {}
    /\ pages = FirstPage(None)
    /\ more = {}
    /\ events = 0

-----------------------------------------------------------------------------
\* Something that need not happen happens.
Event == events < MaxEvents /\ events' = events + 1

(* The store.                                                               *)

\* Rows in ids are no longer as any earlier reading saw them.
Touched(reading, ids) ==
    IF reading = None THEN None ELSE [reading EXCEPT !.steady = @ \ ids]

Change(ids, store, announce) ==
    /\ Event
    /\ stored' = store
    /\ announced' = IF announce THEN announced + 1 ELSE announced
    /\ hint' = (hint \/ announce)
    /\ hook' = [hook EXCEPT !.reply = Touched(@, ids), !.value = Touched(@, ids)]
    /\ UNCHANGED <<backend, late, pages, more>>

\* ingestSpans, ingestLogs: write, then notify.
Ingest == \E r \in Arrivals :
    stored[r.id] # r.key /\ Change({r.id}, [stored EXCEPT ![r.id] = r.key], TRUE)

\* clear(): every table, then an event for every signal.
ClearAll == Change(Ids, [i \in Ids |-> Gone], TRUE)

\* pruneRetention: nobody is told.
Prune == \E i \in Expiring :
    stored[i] # Gone /\ Change({i}, [stored EXCEPT ![i] = Gone], FALSE)

Reading(query) ==
    LET page == PageFrom(backend, stored, query, NoCursor)
    IN [query |-> query, seen |-> announced, rows |-> page.rows, next |-> page.next, steady |-> Ids]

\* useCursorPages starts over; a page that was asked for before is "stale".
StartOver(value) ==
    /\ pages' = FirstPage(value)
    /\ more' = {[f EXCEPT !.stale = TRUE] : f \in more}

-----------------------------------------------------------------------------
(* The hook.                                                                *)

\* The effect runs again; a fetch that it leaves behind is cancelled.
Rerun(query, mode) ==
    /\ hook' = Restart(hook, query, mode)
    /\ late' = IF hook.running THEN late \cup {hook.key} ELSE late

\* The user edits a filter or the sort order: useCursorPages starts over from
\* what the hook has, which is still the value of the old query.
ChangeQuery == \E q \in Queries \ {hook.key} :
    /\ Event
    /\ Rerun(q, hook.mode)
    /\ StartOver(hook.value)
    /\ UNCHANGED <<storeVars>>

\* Pause, or resume, which catches up.
TogglePause ==
    /\ Event
    /\ Rerun(hook.key, IF hook.mode = "live" THEN "paused" ELSE "live")
    /\ UNCHANGED <<storeVars, pages, more>>

Hint == \E wait \in BOOLEAN :
    /\ hint
    /\ hint' = FALSE
    /\ hook' = Notified(hook, wait)
    /\ UNCHANGED <<backend, stored, announced, late, pages, more, events>>

Timer ==
    /\ hook.timer
    /\ hook' = TimerFires(hook)
    /\ UNCHANGED <<storeVars, late, pages, more, events>>

\* The store answers the fetch of the current run.
Answer ==
    /\ hook.running /\ hook.reply = None
    /\ hook' = [hook EXCEPT !.reply = Reading(hook.key)]
    /\ UNCHANGED <<storeVars, late, pages, more, events>>

Deliver == \E wait \in BOOLEAN :
    /\ hook.running /\ hook.reply # None
    /\ hook' = Finished(hook, TRUE, wait)
    /\ StartOver(hook.reply)
    /\ UNCHANGED <<storeVars, late, events>>

Fail == \E wait \in BOOLEAN :
    /\ Event
    /\ hook.running
    /\ hook' = Finished(hook, FALSE, wait)
    /\ UNCHANGED <<storeVars, late, pages, more>>

\* A mutant of Settle: the answer of a cancelled run is shown.
SettleShown == \E q \in late :
    /\ late' = late \ {q}
    /\ hook' = [hook EXCEPT !.value = Reading(q)]
    /\ StartOver(Reading(q))
    /\ UNCHANGED <<storeVars, events>>

\* A cancelled run settles: "cancelled" and latestKey keep it from the state.
Settle == \E q \in late :
    /\ late' = late \ {q}
    /\ UNCHANGED <<storeVars, hook, pages, more, events>>

-----------------------------------------------------------------------------
(* Further pages.                                                           *)

\* loadMore(): with the cursor of the rows on screen and the current query.
LoadMore ==
    /\ pages.next # NoCursor
    /\ ~pages.loadingMore
    /\ \E n \in 1..MaxMore :
          /\ \A f \in more : f.n # n
          /\ more' = more \cup {[n |-> n, cursor |-> Last(pages.rows), query |-> hook.key,
                                stale |-> hook.key # hook.value.query, reply |-> None]}
    /\ pages' = [pages EXCEPT !.loadingMore = TRUE]
    /\ UNCHANGED <<storeVars, hook, late, events>>

\* "still": the cursor's row is where it was when it was shown.
AnswerMore == \E f \in more :
    /\ f.reply = None
    /\ LET page == PageFrom(backend, stored, f.query, f.cursor.id)
           still == stored[f.cursor.id] = f.cursor.key /\ f.cursor.id \in f.query.ids
       IN more' = (more \ {f}) \cup
                  {[f EXCEPT !.reply = [rows |-> page.rows, next |-> page.next, still |-> still]]}
    /\ UNCHANGED <<storeVars, hook, late, pages, events>>

\* The page is appended to whatever is on screen by now.
DeliverMore == \E f \in more :
    /\ f.reply # None
    /\ more' = more \ {f}
    /\ pages' = [rows |-> pages.rows \o f.reply.rows, next |-> f.reply.next,
                 loadingMore |-> FALSE,
                 astray |-> pages.astray \/ f.stale \/ ~f.reply.still]
    /\ UNCHANGED <<storeVars, hook, late, events>>

FailMore == \E f \in more :
    /\ Event
    /\ more' = more \ {f}
    /\ pages' = [pages EXCEPT !.loadingMore = FALSE, !.astray = @ \/ f.stale]
    /\ UNCHANGED <<storeVars, hook, late>>

-----------------------------------------------------------------------------
ListNext ==
    \/ Ingest \/ ClearAll \/ Prune
    \/ ChangeQuery \/ TogglePause \/ Hint \/ Timer
    \/ Answer \/ Deliver \/ Fail \/ Settle
    \/ LoadMore \/ AnswerMore \/ DeliverMore \/ FailMore

-----------------------------------------------------------------------------
(* Properties.                                                              *)

\* useDataSourceQuery.ts, "coalesced to one active plus one trailing fetch":
\* when a live view has nothing left to do (no run, no timer, no hint under
\* way) and its last fetch did not fail, it shows its own query, with every
\* announced change in it.
QuietIsCurrent ==
    (/\ hook.mode = "live"
     /\ ~hook.running /\ ~hook.timer /\ ~hint
     /\ ~hook.failed)
        => hook.value # None /\ hook.value.query = hook.key /\ hook.value.seen = announced

\* "out-of-order fetch resolutions are dropped": unless it says that it is
\* loading, or has failed, a view shows the answer to the query it was given
\* last, paused or not.
ShownIsAsked ==
    ~hook.loading /\ ~hook.failed => hook.value # None /\ hook.value.query = hook.key

\* useCursorPages: as long as each page followed the one before it, the rows
\* on screen are in order, and no row that stayed where it was is missing
\* among them, nor after them once there is no further page.
PagesFit ==
    (hook.value # None /\ ~pages.astray) =>
        LET q == hook.value.query
            shown == pages.rows
            missing == {i \in q.ids \cap hook.value.steady :
                            stored[i] # Gone /\ \A n \in DOMAIN shown : shown[n].id # i}
        IN /\ \A m, n \in DOMAIN shown : m < n => Before(shown[m], shown[n], q.desc)
           /\ \A i \in missing :
                 /\ shown # <<>> => ~Before([id |-> i, key |-> stored[i]], Last(shown), q.desc)
                 /\ pages.next # NoCursor

\* A view that lags behind what was announced, though the user has not paused
\* it and its last fetch has not failed.
Lags == hook.mode = "live" /\ ~hook.failed /\ (hook.value = None \/ hook.value.seen # announced)
=============================================================================
