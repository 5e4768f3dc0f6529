----------------------------- MODULE MetricPane -----------------------------
(***************************************************************************)
(* The metrics view of the workbench (MetricsView, packages/ui): the list  *)
(* of instruments and the points of the selected one, each kept by a       *)
(* useDataSourceQuery (LiveQuery), over the two metric stores.             *)
(*                                                                         *)
(* An instrument has an identity (source, service, meter, name, type) and  *)
(* the row id that the view refers to it by.  SQLite gives the highest id  *)
(* in use plus one, so that the id of a deleted instrument comes back; the *)
(* memory store counts on.  Retention tells nobody.  Of the fetches that a *)
(* restarted hook leaves behind nothing is kept (see LiveList, Settle).    *)
(***************************************************************************)
EXTENDS Naturals, FiniteSets, FiniteSetsExt, LiveQuery

CONSTANTS
    Identities,     \* numbers, in the order of the list
    MeterOf,        \* the meter of an identity
    MaxId,          \* bound on row ids
    MaxMetricEvents \* bound on changes, on the user's actions and on failures

ASSUME MetricPaneAssumption ==
    Identities \subseteq Nat /\ DOMAIN MeterOf = Identities /\ MaxId \in Nat

VARIABLES
    metricStore,    \* which store answers
    instruments,    \* the stored rows: id and identity ("who")
    owners,         \* every identity that an id has had
    metricChanges,  \* [announced, hint]
    listQuery, pointsQuery,
    choice,         \* selectedMeter and selectedMetricKey
    metricEvents

metricVars == <<metricStore, instruments, owners, metricChanges,
                listQuery, pointsQuery, choice, metricEvents>>

NoRow == [id |-> 0, who |-> 0]
RowIds == 1..MaxId

MetricInit ==
    /\ metricStore \in {"sqlite", "memory"}
    /\ instruments = {}
    /\ owners = [i \in RowIds |-> {}]
    /\ metricChanges = [announced |-> 0, hint |-> FALSE]
    /\ listQuery = Restart(Mounted(0), 0, "live")
    /\ pointsQuery = Restart(Mounted(0), 0, "off")
    /\ choice = [meter |-> None, id |-> 0]
    /\ metricEvents = 0

MetricEvent == metricEvents < MaxMetricEvents /\ metricEvents' = metricEvents + 1

-----------------------------------------------------------------------------
NextId ==
    IF metricStore = "sqlite" THEN 1 + Max({0} \cup {r.id : r \in instruments})
    ELSE 1 + Cardinality({i \in RowIds : owners[i] # {}})

Announce(rows) ==
    /\ instruments' = rows
    /\ metricChanges' = [announced |-> metricChanges.announced + 1, hint |-> TRUE]

\* MetricStore.write: a new row for a new identity.
WriteMetric == \E w \in Identities :
    /\ MetricEvent
    /\ \/ /\ \E r \in instruments : r.who = w
          /\ Announce(instruments) /\ UNCHANGED owners
       \/ /\ \A r \in instruments : r.who # w
          /\ NextId \in RowIds
          /\ Announce(instruments \cup {[id |-> NextId, who |-> w]})
          /\ owners' = [owners EXCEPT ![NextId] = @ \cup {w}]
    /\ UNCHANGED <<metricStore, listQuery, pointsQuery, choice>>

ClearMetrics ==
    /\ MetricEvent
    /\ Announce({})
    /\ UNCHANGED <<metricStore, owners, listQuery, pointsQuery, choice>>

\* pruneByAge, deleteOldestFraction: of the SQLite store alone.
PruneMetric == \E r \in instruments :
    /\ MetricEvent
    /\ metricStore = "sqlite"
    /\ instruments' = instruments \ {r}
    /\ UNCHANGED <<metricStore, owners, metricChanges, listQuery, pointsQuery, choice>>

-----------------------------------------------------------------------------
\* resolveMetricSelection: the chosen row, else the chosen meter and no row,
\* else the first row of the list.
Selected(list, chosen) ==
    LET rows == IF list.value = None THEN {} ELSE list.value.rows
        chosenRows == {r \in rows : r.id = chosen.id}
    IN CASE chosenRows # {} -> CHOOSE r \in chosenRows : TRUE
         [] chosenRows = {} /\ \E r \in rows : MeterOf[r.who] = chosen.meter -> NoRow
         [] rows = {} -> NoRow
         [] OTHER -> CHOOSE r \in rows : \A s \in rows : r.who <= s.who

\* A render: the effect of the points hook runs again for another row.
Render(list, points, chosen) ==
    LET id == Selected(list, chosen).id
        mode == IF id = 0 THEN "off" ELSE list.mode
    IN /\ listQuery' = list
       /\ choice' = chosen
       /\ pointsQuery' = IF points.key = id /\ points.mode = mode THEN points
                         ELSE Restart(points, id, mode)

storeUnchanged == UNCHANGED <<metricStore, instruments, owners, metricChanges>>

\* The user selects a row, or a meter.
Choose == \E r \in (IF listQuery.value = None THEN {} ELSE listQuery.value.rows) :
    /\ MetricEvent
    /\ \E id \in {0, r.id} :
          Render(listQuery, pointsQuery, [meter |-> MeterOf[r.who], id |-> id])
    /\ storeUnchanged

\* "Refresh instruments", which a failed points query offers.
RefreshInstruments ==
    /\ MetricEvent
    /\ pointsQuery.failed
    /\ Render(Restart(listQuery, listQuery.key + 1, listQuery.mode), pointsQuery,
              [choice EXCEPT !.id = 0])
    /\ storeUnchanged

PauseMetrics ==
    /\ MetricEvent
    /\ Render(Restart(listQuery, listQuery.key, IF listQuery.mode = "live" THEN "paused" ELSE "live"),
              pointsQuery, choice)
    /\ storeUnchanged

\* A mutant of HearMetrics: the points are taken to be as new as the list.
HearListOnly == \E wait \in BOOLEAN :
    /\ metricChanges.hint
    /\ metricChanges' = [metricChanges EXCEPT !.hint = FALSE]
    /\ listQuery' = Notified(listQuery, wait)
    /\ UNCHANGED <<metricStore, instruments, owners, pointsQuery, choice, metricEvents>>

\* metricsChanged reaches both subscribers.
HearMetrics == \E wait1, wait2 \in BOOLEAN :
    /\ metricChanges.hint
    /\ metricChanges' = [metricChanges EXCEPT !.hint = FALSE]
    /\ listQuery' = Notified(listQuery, wait1)
    /\ pointsQuery' = Notified(pointsQuery, wait2)
    /\ UNCHANGED <<metricStore, instruments, owners, choice, metricEvents>>

MetricTimer ==
    /\ \/ listQuery.timer /\ Render(TimerFires(listQuery), pointsQuery, choice)
       \/ pointsQuery.timer /\ Render(listQuery, TimerFires(pointsQuery), choice)
    /\ storeUnchanged /\ UNCHANGED metricEvents

\* getMetricPoints of an id: its row's points, of whatever identity it has.
Points(id) == {[id |-> id, who |-> r.who, seen |-> metricChanges.announced] :
                    r \in {s \in instruments : s.id = id}}

AnswerList ==
    /\ listQuery.running /\ listQuery.reply = None
    /\ Render([listQuery EXCEPT !.reply = [rows |-> instruments, seen |-> metricChanges.announced]],
              pointsQuery, choice)
    /\ storeUnchanged /\ UNCHANGED metricEvents

AnswerPoints == \E answer \in Points(pointsQuery.key) :
    /\ pointsQuery.running /\ pointsQuery.reply = None
    /\ Render(listQuery, [pointsQuery EXCEPT !.reply = answer], choice)
    /\ storeUnchanged /\ UNCHANGED metricEvents

DeliverMetrics == \E wait \in BOOLEAN :
    /\ \/ /\ listQuery.running /\ listQuery.reply # None
          /\ Render(Finished(listQuery, TRUE, wait), pointsQuery, choice)
       \/ /\ pointsQuery.running /\ pointsQuery.reply # None
          /\ Render(listQuery, Finished(pointsQuery, TRUE, wait), choice)
    /\ storeUnchanged /\ UNCHANGED metricEvents

\* The id has no row: a stale reference.
StaleReference == \E wait \in BOOLEAN :
    /\ pointsQuery.running /\ pointsQuery.reply = None /\ Points(pointsQuery.key) = {}
    /\ Render(listQuery, Finished(pointsQuery, FALSE, wait), choice)
    /\ storeUnchanged /\ UNCHANGED metricEvents

FailMetrics == \E wait \in BOOLEAN :
    /\ MetricEvent
    /\ listQuery.running
    /\ Render(Finished(listQuery, FALSE, wait), pointsQuery, choice)
    /\ storeUnchanged

MetricNext ==
    \/ WriteMetric \/ ClearMetrics \/ PruneMetric
    \/ Choose \/ RefreshInstruments \/ PauseMetrics
    \/ HearMetrics \/ MetricTimer
    \/ AnswerList \/ AnswerPoints \/ DeliverMetrics \/ StaleReference \/ FailMetrics

-----------------------------------------------------------------------------
\* A mutant of Active: points of another row are not told apart.
AnyActive(row) == IF pointsQuery.value = None THEN NoRow ELSE pointsQuery.value

\* activeMetric: the points that the hook has, if they are of the selected row.
Active(row) ==
    IF pointsQuery.value # None /\ pointsQuery.value.id = row.id THEN pointsQuery.value ELSE NoRow

\* The chart is of the instrument whose row is selected, though the hook keeps
\* the points of the row before until it has those of this one.  An id that has
\* had two identities is outside: there the view does mix them up.
PointsOfRow ==
    LET row == Selected(listQuery, choice)
        points == Active(row)
    IN (row # NoRow /\ points # NoRow /\ owners[row.id] = {row.who}) => points.who = row.who

Settled(hook) == hook.mode = "live" /\ ~hook.running /\ ~hook.timer /\ ~hook.failed

\* When neither query of a live view has anything left to do, the list and the
\* points of the selected row both include every announced change: one hint
\* served two hooks, of which the second may have restarted for another row.
MetricsCurrent ==
    (Settled(listQuery) /\ ~metricChanges.hint) =>
        /\ listQuery.value # None /\ listQuery.value.seen = metricChanges.announced
        /\ LET row == Selected(listQuery, choice)
           IN (row # NoRow /\ Settled(pointsQuery)) => Active(row) # NoRow
                                              /\ Active(row).seen = metricChanges.announced
=============================================================================
