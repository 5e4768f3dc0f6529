-------------------------- MODULE Workbench_proofs --------------------------
(***************************************************************************)
(* Proofs about module Workbench, one part for each hook or view: a list   *)
(* shows the answer to what it was asked, in whole pages and, when it is   *)
(* quiet, with every announced change; the details of a log, the points of *)
(* a metric and the cached traces are of what they are shown for; the      *)
(* waterfall has every span in its place.                                  *)
(***************************************************************************)
EXTENDS Workbench, TLAPS, SequenceTheorems, FiniteSetTheorems, WellFoundedInduction

(***************************************************************************)
(* The hook of a list.                                                     *)
(***************************************************************************)

IsReading(r) ==
    r \in [query : {r.query}, seen : {r.seen}, rows : {r.rows}, next : {r.next}, steady : {r.steady}]

\* What a hook has before its first answer is none of its readings.
NoneIsNoReading == ~IsReading(None)

IsHook(h) ==
    h \in [key : {h.key}, mode : {"live", "paused"}, running : {h.running}, trailing : {h.trailing},
           timer : {h.timer}, loading : {h.loading}, failed : {h.failed}, reply : {h.reply},
           value : {h.value}]

\* Of the key, and of the changes announced by now.
Asked(h, r) == r # None /\ IsReading(r) /\ r.query = h.key

HookInv(h, lag, count) ==
    /\ IsHook(h)
    /\ h.reply # None => Asked(h, h.reply)
    /\ h.value # None => IsReading(h.value)
    /\ ~h.loading /\ ~h.failed => Asked(h, h.value)
    /\ (h.mode = "live" /\ h.running /\ ~h.trailing /\ ~lag /\ h.reply # None) => h.reply.seen = count
    /\ (h.mode = "live" /\ ~h.running /\ ~h.timer /\ ~lag /\ ~h.failed) =>
           Asked(h, h.value) /\ h.value.seen = count

ListInv == HookInv(hook, hint, announced)

LEMMA BeginHolds ==
    ASSUME NEW h, NEW lag, NEW count, NEW lag2, NEW count2, HookInv(h, lag, count)
    PROVE  HookInv(Begin(h), lag2, count2)
BY DEF HookInv, IsHook, Asked, Begin

LEMMA RestartHolds ==
    ASSUME NEW h, NEW key, NEW mode \in {"live", "paused"}, NEW lag, NEW count, IsHook(h),
           h.value # None => IsReading(h.value)
    PROVE  HookInv(Restart(h, key, mode), lag, count)
BY DEF HookInv, IsHook, Asked, Restart, Begin

LEMMA ScheduleHolds ==
    ASSUME NEW h, NEW wait, NEW lag, NEW count, NEW lag2, HookInv(h, lag, count)
    PROVE  HookInv(Schedule(h, wait), lag2, count)
BY DEF HookInv, IsHook, Asked, Schedule, Begin

LEMMA FinishedHolds ==
    ASSUME NEW h, NEW ok \in BOOLEAN, NEW wait, NEW lag, NEW count, HookInv(h, lag, count),
           h.running, ok => h.reply # None
    PROVE  HookInv(Finished(h, ok, wait), lag, count)
<1> DEFINE done == [h EXCEPT !.running = FALSE, !.reply = None, !.failed = ~ok,
                             !.value = IF ok THEN h.reply ELSE @]
<1>1. CASE h.trailing
  <2>1. HookInv(done, TRUE, count)
    BY <1>1 DEF HookInv, IsHook, Asked
  <2>2. HookInv(Schedule(done, wait), lag, count)
    BY <2>1, ScheduleHolds
  <2> QED BY <1>1, <2>2 DEF Finished
<1>2. CASE ~h.trailing
  <2>1. HookInv([done EXCEPT !.loading = FALSE], lag, count)
    BY <1>2 DEF HookInv, IsHook, Asked
  <2> QED BY <1>2, <2>1 DEF Finished
<1> QED BY <1>1, <1>2

\* A change of the store leaves of a reading its query and what it has seen.
LEMMA TouchedHolds ==
    ASSUME NoneIsNoReading, NEW h, NEW lag, NEW count, HookInv(h, lag, count), NEW ids,
           NEW lag2, NEW count2, lag2 \/ (lag2 = lag /\ count2 = count)
    PROVE  HookInv([h EXCEPT !.reply = Touched(@, ids), !.value = Touched(@, ids)], lag2, count2)
<1>1. ASSUME NEW r, r # None => IsReading(r)
      PROVE  /\ r # None <=> Touched(r, ids) # None
             /\ r # None => /\ IsReading(Touched(r, ids))
                            /\ Touched(r, ids).query = r.query /\ Touched(r, ids).seen = r.seen
  <2>1. CASE r = None
    BY <2>1 DEF Touched
  <2>2. CASE r # None
    <3> DEFINE t == [r EXCEPT !.steady = @ \ ids]
    <3>1. IsReading(t) /\ t.query = r.query /\ t.seen = r.seen
      BY <1>1, <2>2 DEF IsReading
    <3> QED BY <2>2, <3>1 DEF Touched, NoneIsNoReading
  <2> QED BY <2>1, <2>2
<1> DEFINE g == [h EXCEPT !.reply = Touched(@, ids), !.value = Touched(@, ids)]
<1>2. /\ h.reply # None => IsReading(h.reply)
      /\ h.value # None => IsReading(h.value)
  BY DEF HookInv, Asked
<1>3. /\ IsHook(g) /\ g.key = h.key /\ g.mode = h.mode /\ g.running = h.running
      /\ g.trailing = h.trailing /\ g.timer = h.timer /\ g.loading = h.loading /\ g.failed = h.failed
      /\ g.reply = Touched(h.reply, ids) /\ g.value = Touched(h.value, ids)
  BY DEF HookInv, IsHook
<1> HIDE DEF g
<1>4. HookInv(g, lag2, count2)
  BY <1>1, <1>2, <1>3 DEF HookInv, Asked
<1> QED BY <1>4 DEF g

LEMMA ReadingIs ==
    ASSUME NoneIsNoReading, NEW query
    PROVE  /\ IsReading(Reading(query)) /\ Reading(query) # None
           /\ Reading(query).query = query /\ Reading(query).seen = announced
<1> DEFINE page == PageFrom(backend, stored, query, NoCursor)
<1>1. Reading(query) = [query |-> query, seen |-> announced, rows |-> page.rows, next |-> page.next,
                        steady |-> Ids]
  BY DEF Reading
<1> HIDE DEF page
<1> QED BY <1>1 DEF IsReading, NoneIsNoReading

LEMMA ListMoves ==
    ASSUME NoneIsNoReading, ListInv, ListNext
    PROVE  ListInv'
<1> USE DEF ListInv
<1>1. ASSUME NEW ids, NEW store, NEW announce \in BOOLEAN, Change(ids, store, announce)
      PROVE  ListInv'
  <2>1. /\ hook' = [hook EXCEPT !.reply = Touched(@, ids), !.value = Touched(@, ids)]
        /\ hint' = (hint \/ announce)
        /\ announced' = IF announce THEN announced + 1 ELSE announced
    BY <1>1, SMT DEF Change
  <2>2. CASE announce
    <3>1. hint'
      BY <2>1, <2>2, Zenon
    <3> QED BY <2>1, <3>1, TouchedHolds
  <2>3. CASE ~announce
    <3>1. announced' = announced
      BY <2>1, <2>3, Zenon
    <3>2. hint' <=> hint
      BY <2>1, <2>3, Zenon
    <3>3. HookInv([hook EXCEPT !.reply = Touched(@, ids), !.value = Touched(@, ids)], hint, announced)
      BY TouchedHolds
    <3> QED BY <2>1, <3>1, <3>2, <3>3 DEF HookInv
  <2> QED BY <2>2, <2>3
<1>2. CASE Ingest \/ ClearAll \/ Prune
  BY <1>1, <1>2 DEF Ingest, ClearAll, Prune
<1>3. ASSUME NEW query, NEW mode \in {"live", "paused"}, Rerun(query, mode) PROVE ListInv'
  <2>1. hook' = Restart(hook, query, mode)
    BY <1>3 DEF Rerun
  <2>2. IsHook(hook) /\ (hook.value # None => IsReading(hook.value))
    BY DEF HookInv
  <2> QED BY <2>1, <2>2, RestartHolds
<1>4. CASE ChangeQuery \/ TogglePause
  <2>1. hook.mode \in {"live", "paused"}
    BY DEF HookInv, IsHook
  <2> QED BY <1>3, <1>4, <2>1 DEF ChangeQuery, TogglePause
<1>5. CASE Hint
  <2> PICK wait \in BOOLEAN : hook' = Notified(hook, wait)
    BY <1>5 DEF Hint
  <2>1. hint /\ announced' = announced
    BY <1>5 DEF Hint
  <2>2. CASE hook.mode = "live"
    BY <2>1, <2>2, ScheduleHolds DEF Notified
  <2>3. CASE hook.mode # "live"
    BY <2>1, <2>3 DEF Notified, HookInv
  <2> QED BY <2>2, <2>3
<1>6. CASE Timer
  <2>1. hook' = Begin([hook EXCEPT !.timer = FALSE]) /\ UNCHANGED <<hint, announced>>
    BY <1>6 DEF Timer, TimerFires, storeVars
  <2>2. HookInv([hook EXCEPT !.timer = FALSE, !.running = TRUE, !.reply = None], hint, announced)
    BY DEF HookInv, IsHook, Asked
  <2>3. hook' = [hook EXCEPT !.timer = FALSE, !.running = TRUE, !.trailing = FALSE, !.reply = None]
    BY <2>1 DEF Begin, HookInv, IsHook
  <2> QED BY <2>1, <2>3 DEF HookInv, IsHook, Asked
<1>7. CASE Answer
  <2>1. hook' = [hook EXCEPT !.reply = Reading(hook.key)] /\ UNCHANGED <<hint, announced>>
    BY <1>7 DEF Answer, storeVars
  <2>2. Asked(hook, Reading(hook.key)) /\ Reading(hook.key).seen = announced
    BY ReadingIs DEF Asked
  <2> QED BY <2>1, <2>2 DEF HookInv, IsHook, Asked
<1>8. CASE Deliver
  BY <1>8, FinishedHolds DEF Deliver, storeVars
<1>9. CASE Fail
  BY <1>9, FinishedHolds DEF Fail, storeVars
<1>10. CASE UNCHANGED <<storeVars, hook>>
  BY <1>10 DEF storeVars
<1>11. CASE Settle \/ LoadMore \/ AnswerMore \/ DeliverMore \/ FailMore
  BY <1>10, <1>11 DEF Settle, LoadMore, AnswerMore, DeliverMore, FailMore
<1> QED BY <1>2, <1>4, <1>5, <1>6, <1>7, <1>8, <1>9, <1>11 DEF ListNext

THEOREM ListInvariant == ASSUME NoneIsNoReading PROVE Spec => []ListInv
<1>1. Init => ListInv
  <2> SUFFICES ASSUME ListInit PROVE ListInv
    BY DEF Init
  <2> PICK q \in Queries : hook = Restart(Mounted(q), q, "live")
    BY DEF ListInit
  <2>1. IsHook([Mounted(q) EXCEPT !.mode = "live"]) /\ Mounted(q).value = None
    BY DEF IsHook, Mounted
  <2>2. HookInv(Restart([Mounted(q) EXCEPT !.mode = "live"], q, "live"), hint, announced)
    BY <2>1, RestartHolds DEF Mounted
  <2>3. Restart([Mounted(q) EXCEPT !.mode = "live"], q, "live") = Restart(Mounted(q), q, "live")
    BY DEF Restart, Mounted
  <2> QED BY <2>2, <2>3 DEF ListInv
<1>2. ListInv /\ [Next]_vars => ListInv'
  <2> SUFFICES ASSUME ListInv, [Next]_vars PROVE ListInv'
    OBVIOUS
  <2>1. CASE ListNext
    BY <2>1, ListMoves
  <2>2. CASE UNCHANGED listVars
    BY <2>2 DEF listVars, storeVars, viewVars, ListInv
  <2> QED BY <2>1, <2>2
       DEF Next, vars, OnList, OnTrace, OnMetrics, OnLog, OnWaterfall
<1> QED BY <1>1, <1>2, PTL DEF Spec

(* A list that is not loading and has not failed shows the answer to the    *)
(* query it was given last (useDataSourceQuery.ts), for any store, queries  *)
(* and page size, and whichever order answers come in.                      *)
THEOREM ShownIsAskedCorrect == ASSUME NoneIsNoReading PROVE Spec => []ShownIsAsked
<1>1. ListInv => ShownIsAsked
  BY DEF ListInv, HookInv, Asked, ShownIsAsked
<1> QED BY <1>1, ListInvariant, PTL

(* A live list with no run, no timer and no hint under way shows every      *)
(* announced change, however hints were folded into runs.                   *)
THEOREM QuietIsCurrentCorrect == ASSUME NoneIsNoReading PROVE Spec => []QuietIsCurrent
<1>1. ListInv => QuietIsCurrent
  BY DEF ListInv, HookInv, Asked, QuietIsCurrent
<1> QED BY <1>1, ListInvariant, PTL

(***************************************************************************)
(* The details of a log.                                                   *)
(***************************************************************************)

IsLogRequest(r) == r \in [n : Nat, log : Logs, answer : {r.answer}]

LogInv ==
    /\ detailRequest \in Nat
    /\ selectedLog \in Logs \cup {NoLog} /\ details \in Logs \cup {NoLog}
    /\ \A r \in requests :
         /\ IsLogRequest(r) /\ r.n <= detailRequest
         /\ r.n = detailRequest => r.log = selectedLog /\ details = NoLog /\ ~detailError
    /\ \A r, s \in requests : r.n = s.n => r = s
    /\ DetailsOfSelected

LEMMA LogMoves ==
    ASSUME LogInv, LogNext
    PROVE  LogInv'
<1> USE LogPaneAssumption DEF LogInv, DetailsOfSelected
<1>1. CASE DropLog
  BY <1>1 DEF DropLog
<1>2. CASE SelectLog
  <2> PICK l \in Logs :
         /\ NewRequest(l)
         /\ requests' = requests \cup {[n |-> detailRequest + 1, log |-> l, answer |-> "none"]}
    BY <1>2 DEF SelectLog
  <2> DEFINE new == [n |-> detailRequest + 1, log |-> l, answer |-> "none"]
  <2>1. IsLogRequest(new) /\ new.n = detailRequest + 1 /\ new.log = l
    BY DEF IsLogRequest
  <2>2. requests' = requests \cup {new}
    OBVIOUS
  <2>3. /\ detailRequest' = detailRequest + 1 /\ selectedLog' = l /\ details' = NoLog
        /\ detailError' = FALSE
    BY DEF NewRequest
  <2> HIDE DEF new
  <2>4. \A r \in requests : r.n < detailRequest' /\ r.n # new.n
    BY <2>1, <2>3 DEF IsLogRequest
  <2>5. \A r \in requests' :
          /\ IsLogRequest(r) /\ r.n <= detailRequest'
          /\ r.n = detailRequest' => r.log = selectedLog' /\ details' = NoLog /\ ~detailError'
    <3> SUFFICES ASSUME NEW r \in requests'
                 PROVE  /\ IsLogRequest(r) /\ r.n <= detailRequest'
                        /\ r.n = detailRequest' =>
                             r.log = selectedLog' /\ details' = NoLog /\ ~detailError'
      OBVIOUS
    <3>1. CASE r = new
      <4>1. ~detailError'
        BY <2>3, Zenon
      <4>2. r.n = detailRequest' /\ r.log = selectedLog' /\ details' = NoLog /\ IsLogRequest(r)
        BY <2>1, <2>3, <3>1, Zenon
      <4>3. detailRequest' <= detailRequest'
        BY <2>3
      <4>4. r.n <= detailRequest'
        BY <4>2, <4>3, Zenon
      <4> QED BY <4>1, <4>2, <4>4, Zenon
    <3>2. CASE r \in requests
      <4>1. r.n < detailRequest' /\ IsLogRequest(r) /\ r.n \in Nat /\ detailRequest' \in Nat
        BY <2>3, <2>4, <3>2 DEF IsLogRequest
      <4>2. r.n <= detailRequest' /\ r.n # detailRequest'
        BY <4>1
      <4> QED BY <4>1, <4>2, Zenon
    <3> QED BY <2>2, <3>1, <3>2
  <2>6. \A r, s \in requests' : r.n = s.n => r = s
    BY <2>2, <2>4
  <2>7. DetailsOfSelected'
    BY <2>1, <2>2, <2>3
  <2> QED BY <2>3, <2>5, <2>6, <2>7
<1>3. CASE CloseDetails
  <2>1. /\ detailRequest' = detailRequest + 1 /\ selectedLog' = NoLog /\ details' = NoLog
        /\ detailError' = FALSE /\ requests' = requests
    BY <1>3 DEF CloseDetails, NewRequest
  <2>2. \A r \in requests : r.n < detailRequest'
    BY <2>1 DEF IsLogRequest
  <2> QED BY <2>1, <2>2 DEF IsLogRequest
<1>4. CASE AnswerDetails
  <2> PICK r \in requests, answer \in {"found", "gone", "failed"} :
         requests' = (requests \ {r}) \cup {[r EXCEPT !.answer = answer]}
    BY <1>4 DEF AnswerDetails
  <2> DEFINE a == [r EXCEPT !.answer = answer]
  <2>1. IsLogRequest(a) /\ a.n = r.n /\ a.log = r.log
    BY DEF IsLogRequest
  <2>2. requests' = (requests \ {r}) \cup {a}
    OBVIOUS
  <2>3. UNCHANGED <<selectedLog, details, detailError, detailRequest>>
    BY <1>4 DEF AnswerDetails
  <2> HIDE DEF a
  <2> QED BY <2>1, <2>2, <2>3
<1>5. CASE ShowDetails
  <2> PICK r \in requests :
         /\ requests' = requests \ {r}
         /\ details' = IF r.n = detailRequest /\ r.answer = "found" THEN r.log ELSE details
         /\ detailError' = (detailError \/ (r.n = detailRequest /\ r.answer # "found"))
    BY <1>5 DEF ShowDetails
  <2>1. UNCHANGED <<selectedLog, detailRequest>>
    BY <1>5 DEF ShowDetails
  <2> QED BY <2>1 DEF IsLogRequest
<1> QED BY <1>1, <1>2, <1>3, <1>4, <1>5 DEF LogNext

(* The details on screen, and the error in their place, are those of the    *)
(* selected log (LogsView.tsx), for any number of logs and requests that    *)
(* are answered in any order.                                               *)
THEOREM DetailsOfSelectedCorrect == Spec => []DetailsOfSelected
<1>1. Init => LogInv
  BY LogPaneAssumption DEF Init, LogInit, LogInv, DetailsOfSelected
<1>2. LogInv /\ [Next]_vars => LogInv'
  <2> SUFFICES ASSUME LogInv, [Next]_vars PROVE LogInv'
    OBVIOUS
  <2>1. CASE LogNext
    BY <2>1, LogMoves
  <2>2. CASE UNCHANGED logVars
    BY <2>2 DEF logVars, LogInv, DetailsOfSelected
  <2> QED BY <2>1, <2>2
       DEF Next, vars, OnList, OnTrace, OnMetrics, OnLog, OnWaterfall
<1>3. LogInv => DetailsOfSelected
  BY DEF LogInv
<1> QED BY <1>1, <1>2, <1>3, PTL DEF Spec

-----------------------------------------------------------------------------
(***************************************************************************)
(* The metrics view: two hooks, of which the second follows the first.     *)
(***************************************************************************)

IsQuery(h) ==
    h \in [key : {h.key}, mode : {h.mode}, running : {h.running}, trailing : {h.trailing},
           timer : {h.timer}, loading : {h.loading}, failed : {h.failed}, reply : {h.reply},
           value : {h.value}]

Held(h) == {h.reply, h.value} \ {None}

\* What the points hook reads is of an id; what the list reads is of none.
OfKey(h, kind, r) == kind = "points" => r.id = h.key

\* As HookInv, for a hook that may be off.
QueryInv(h, kind, lag, count) ==
    /\ IsQuery(h)
    /\ h.reply # None => OfKey(h, kind, h.reply)
    /\ (h.mode = "live" /\ h.running /\ ~h.trailing /\ ~lag /\ h.reply # None) => h.reply.seen = count
    /\ (h.mode = "live" /\ ~h.running /\ ~h.timer /\ ~lag /\ ~h.failed) =>
           h.value # None /\ OfKey(h, kind, h.value) /\ h.value.seen = count

\* The points are asked of the row selected now, in the mode of the list.
Follows(list, points, chosen) ==
    LET id == Selected(list, chosen).id
    IN  points.key = id /\ points.mode = IF id = 0 THEN "off" ELSE list.mode

\* Who had an id once is remembered as an owner of it.
OwnersInv ==
    /\ owners \in [RowIds -> SUBSET Identities]
    /\ \A r \in instruments : r.id \in RowIds /\ r.who \in owners[r.id]
    /\ \A r \in Held(pointsQuery) : r.id \in RowIds /\ r.who \in owners[r.id]

MetricInv ==
    /\ DOMAIN metricChanges = {"announced", "hint"}
    /\ QueryInv(listQuery, "list", metricChanges.hint, metricChanges.announced)
    /\ QueryInv(pointsQuery, "points", metricChanges.hint, metricChanges.announced)
    /\ Follows(listQuery, pointsQuery, choice)
    /\ OwnersInv

LEMMA QueryBegins ==
    ASSUME NEW h, NEW kind, NEW lag, NEW count, QueryInv(h, kind, lag, count)
    PROVE  /\ QueryInv(TimerFires(h), kind, lag, count)
           /\ TimerFires(h).value = h.value /\ Held(TimerFires(h)) \subseteq Held(h)
  BY DEF QueryInv, IsQuery, OfKey, Begin, TimerFires, Held

LEMMA QueryRestarts ==
    ASSUME NEW h, NEW kind, NEW lag, NEW count, QueryInv(h, kind, lag, count), NEW key, NEW mode
    PROVE  /\ QueryInv(Restart(h, key, mode), kind, lag, count)
           /\ Restart(h, key, mode).key = key /\ Restart(h, key, mode).mode = mode
           /\ Restart(h, key, mode).value = h.value
           /\ Held(Restart(h, key, mode)) \subseteq Held(h)
  BY DEF QueryInv, IsQuery, OfKey, Restart, Begin, Held

LEMMA QuerySchedules ==
    ASSUME NEW h, NEW kind, NEW lag, NEW count, NEW lag2, QueryInv(h, kind, lag, count), NEW wait
    PROVE  /\ QueryInv(Schedule(h, wait), kind, lag2, count)
           /\ Schedule(h, wait).key = h.key /\ Schedule(h, wait).mode = h.mode
           /\ Schedule(h, wait).value = h.value /\ Held(Schedule(h, wait)) \subseteq Held(h)
  BY DEF QueryInv, IsQuery, OfKey, Schedule, Begin, Held

LEMMA QueryNotified ==
    ASSUME NEW h, NEW kind, NEW count, QueryInv(h, kind, TRUE, count), NEW wait
    PROVE  /\ QueryInv(Notified(h, wait), kind, FALSE, count)
           /\ Notified(h, wait).key = h.key /\ Notified(h, wait).mode = h.mode
           /\ Notified(h, wait).value = h.value /\ Held(Notified(h, wait)) \subseteq Held(h)
<1>1. CASE h.mode = "live"
  BY <1>1, QuerySchedules DEF Notified
<1>2. CASE h.mode # "live"
  BY <1>2 DEF Notified, QueryInv
<1> QED BY <1>1, <1>2

LEMMA QueryFinishes ==
    ASSUME NEW h, NEW kind, NEW lag, NEW count, QueryInv(h, kind, lag, count), h.running,
           NEW ok \in BOOLEAN, ok => h.reply # None, NEW wait
    PROVE  /\ QueryInv(Finished(h, ok, wait), kind, lag, count)
           /\ Held(Finished(h, ok, wait)) \subseteq Held(h)
<1> DEFINE done == [h EXCEPT !.running = FALSE, !.reply = None, !.failed = ~ok,
                             !.value = IF ok THEN h.reply ELSE @]
<1>1. CASE h.trailing
  <2>1. QueryInv(done, kind, TRUE, count) /\ Held(done) \subseteq Held(h)
    BY <1>1 DEF QueryInv, IsQuery, OfKey, Held
  <2>2. QueryInv(Schedule(done, wait), kind, lag, count) /\ Held(Schedule(done, wait)) \subseteq Held(done)
    BY <2>1, QuerySchedules
  <2> QED BY <1>1, <2>1, <2>2 DEF Finished
<1>2. CASE ~h.trailing
  <2>1. /\ QueryInv([done EXCEPT !.loading = FALSE], kind, lag, count)
        /\ Held([done EXCEPT !.loading = FALSE]) \subseteq Held(h)
    BY <1>2 DEF QueryInv, IsQuery, OfKey, Held
  <2> QED BY <1>2, <2>1 DEF Finished
<1> QED BY <1>1, <1>2

\* A render, of hooks that have moved.
LEMMA RenderMoves ==
    ASSUME NEW list, NEW points, NEW chosen, Render(list, points, chosen),
           NEW lag, NEW count, QueryInv(list, "list", lag, count), QueryInv(points, "points", lag, count)
    PROVE  /\ QueryInv(listQuery', "list", lag, count) /\ QueryInv(pointsQuery', "points", lag, count)
           /\ Follows(listQuery', pointsQuery', choice')
           /\ Held(pointsQuery') \subseteq Held(points)
<1> DEFINE id == Selected(list, chosen).id
           mode == IF id = 0 THEN "off" ELSE list.mode
<1>1. /\ listQuery' = list /\ choice' = chosen
      /\ pointsQuery' = IF points.key = id /\ points.mode = mode THEN points
                        ELSE Restart(points, id, mode)
  BY DEF Render
<1>2. /\ QueryInv(Restart(points, id, mode), "points", lag, count)
      /\ Restart(points, id, mode).key = id /\ Restart(points, id, mode).mode = mode
      /\ Held(Restart(points, id, mode)) \subseteq Held(points)
  BY QueryRestarts
<1>3. QueryInv(pointsQuery', "points", lag, count) /\ Held(pointsQuery') \subseteq Held(points)
      /\ pointsQuery'.key = id /\ pointsQuery'.mode = mode
  BY <1>1, <1>2
<1> QED BY <1>1, <1>3 DEF Follows

LEMMA MetricStays ==
    ASSUME MetricInv, UNCHANGED metricVars
    PROVE  MetricInv'
<1>1. UNCHANGED <<listQuery, pointsQuery, choice, metricChanges, owners, instruments>>
  BY DEF metricVars
<1>2. /\ QueryInv(listQuery, "list", metricChanges.hint, metricChanges.announced)'
      /\ QueryInv(pointsQuery, "points", metricChanges.hint, metricChanges.announced)'
  BY <1>1 DEF MetricInv
<1> QED BY <1>1, <1>2 DEF MetricInv, OwnersInv, Follows, Selected

LEMMA MetricMoves ==
    ASSUME MetricInv, MetricNext
    PROVE  MetricInv'
<1> DEFINE lag == metricChanges.hint
           count == metricChanges.announced
<1>0. /\ QueryInv(listQuery, "list", lag, count) /\ QueryInv(pointsQuery, "points", lag, count)
      /\ Follows(listQuery, pointsQuery, choice) /\ OwnersInv
      /\ DOMAIN metricChanges = {"announced", "hint"}
  BY DEF MetricInv
\* A render of a hook that has moved; nothing is stored or announced.
<1>1. ASSUME NEW list, NEW points, NEW chosen, Render(list, points, chosen), storeUnchanged,
             QueryInv(list, "list", lag, count), QueryInv(points, "points", lag, count),
             \A r \in Held(points) : r.id \in RowIds /\ r.who \in owners[r.id]
      PROVE  MetricInv'
  <2>1. /\ QueryInv(listQuery', "list", lag, count) /\ QueryInv(pointsQuery', "points", lag, count)
        /\ Follows(listQuery', pointsQuery', choice') /\ Held(pointsQuery') \subseteq Held(points)
    BY <1>1, RenderMoves
  <2>2. UNCHANGED <<instruments, owners, metricChanges>>
    BY <1>1 DEF storeUnchanged
  <2>3. lag' = lag /\ count' = count
    BY <2>2
  <2>4. OwnersInv'
    BY <1>0, <1>1, <2>1, <2>2 DEF OwnersInv
  <2>5. QueryInv(listQuery, "list", lag, count)' /\ QueryInv(pointsQuery, "points", lag, count)'
    BY <2>1, <2>3 DEF QueryInv, IsQuery, OfKey
  <2>6. Follows(listQuery, pointsQuery, choice)'
    BY <2>1 DEF Follows, Selected
  <2> QED BY <1>0, <2>2, <2>4, <2>5, <2>6 DEF MetricInv
\* What is announced is on its way to both hooks.
<1>2. ASSUME metricChanges' = [announced |-> count + 1, hint |-> TRUE],
             UNCHANGED <<listQuery, pointsQuery, choice>>, OwnersInv'
      PROVE  MetricInv'
  <2>1. metricChanges'.hint /\ metricChanges'.announced = count + 1
    BY <1>2, Zenon
  <2>2. /\ QueryInv(listQuery, "list", metricChanges'.hint, count + 1)
        /\ QueryInv(pointsQuery, "points", metricChanges'.hint, count + 1)
    BY <1>0, <2>1 DEF QueryInv, IsQuery, OfKey
  <2>3. QueryInv(listQuery, "list", lag, count)' /\ QueryInv(pointsQuery, "points", lag, count)'
    BY <1>2, <2>1, <2>2
  <2>4. Follows(listQuery, pointsQuery, choice)'
    BY <1>0, <1>2 DEF Follows, Selected
  <2>5. DOMAIN metricChanges' = {"announced", "hint"}
    BY <1>2
  <2> QED BY <1>2, <2>3, <2>4, <2>5 DEF MetricInv
<1>3. CASE WriteMetric
  <2> PICK w \in Identities :
        \/ /\ \E r \in instruments : r.who = w
           /\ Announce(instruments) /\ UNCHANGED owners
        \/ /\ \A r \in instruments : r.who # w
           /\ NextId \in RowIds
           /\ Announce(instruments \cup {[id |-> NextId, who |-> w]})
           /\ owners' = [owners EXCEPT ![NextId] = @ \cup {w}]
    BY <1>3 DEF WriteMetric
  <2>1. UNCHANGED <<listQuery, pointsQuery, choice>>
    BY <1>3 DEF WriteMetric
  <2>2. metricChanges' = [announced |-> count + 1, hint |-> TRUE]
    BY Zenon DEF Announce
  <2>3. CASE Announce(instruments) /\ UNCHANGED owners
    BY <1>0, <1>2, <2>1, <2>2, <2>3 DEF Announce, OwnersInv
  <2>4. ASSUME NEW i \in RowIds, Announce(instruments \cup {[id |-> i, who |-> w]}),
               owners' = [owners EXCEPT ![i] = @ \cup {w}]
        PROVE  OwnersInv'
    <3>1. /\ owners' \in [RowIds -> SUBSET Identities]
          /\ \A j \in RowIds : owners[j] \subseteq owners'[j]
          /\ w \in owners'[i]
      BY <1>0, <2>4 DEF OwnersInv
    <3>2. instruments' = instruments \cup {[id |-> i, who |-> w]}
      BY <2>4 DEF Announce
    <3> QED BY <1>0, <2>1, <3>1, <3>2 DEF OwnersInv
  <2> QED BY <1>2, <2>1, <2>2, <2>3, <2>4
<1>4. CASE ClearMetrics
  <2>1. /\ metricChanges' = [announced |-> count + 1, hint |-> TRUE]
        /\ UNCHANGED <<listQuery, pointsQuery, choice>> /\ instruments' = {} /\ owners' = owners
    BY <1>4, Zenon DEF ClearMetrics, Announce
  <2>2. OwnersInv'
    BY <1>0, <2>1 DEF OwnersInv
  <2> QED BY <1>2, <2>1, <2>2
<1>5. CASE PruneMetric
  <2>1. /\ UNCHANGED <<listQuery, pointsQuery, choice, metricChanges, owners>>
        /\ instruments' \subseteq instruments
    BY <1>5 DEF PruneMetric
  <2>2. QueryInv(listQuery, "list", lag, count)' /\ QueryInv(pointsQuery, "points", lag, count)'
    BY <1>0, <2>1
  <2> QED BY <1>0, <2>1, <2>2 DEF MetricInv, OwnersInv, Follows, Selected
<1>6. \A r \in Held(pointsQuery) : r.id \in RowIds /\ r.who \in owners[r.id]
  BY <1>0 DEF OwnersInv
<1>7. CASE Choose
  <2> PICK r, id : Render(listQuery, pointsQuery, [meter |-> MeterOf[r.who], id |-> id])
    BY <1>7 DEF Choose
  <2> QED BY <1>0, <1>1, <1>6, <1>7 DEF Choose
<1>8. CASE RefreshInstruments
  <2>1. QueryInv(Restart(listQuery, listQuery.key + 1, listQuery.mode), "list", lag, count)
    BY <1>0, QueryRestarts
  <2> QED BY <1>0, <1>1, <1>6, <1>8, <2>1 DEF RefreshInstruments
<1>9. CASE PauseMetrics
  <2> DEFINE mode == IF listQuery.mode = "live" THEN "paused" ELSE "live"
  <2>1. QueryInv(Restart(listQuery, listQuery.key, mode), "list", lag, count)
    BY <1>0, QueryRestarts
  <2>2. Render(Restart(listQuery, listQuery.key, mode), pointsQuery, choice) /\ storeUnchanged
    BY <1>9 DEF PauseMetrics
  <2> QED BY <1>0, <1>1, <1>6, <2>1, <2>2
<1>10. CASE HearMetrics
  <2> PICK wait1 \in BOOLEAN, wait2 \in BOOLEAN :
        listQuery' = Notified(listQuery, wait1) /\ pointsQuery' = Notified(pointsQuery, wait2)
    BY <1>10 DEF HearMetrics
  <2>1. /\ metricChanges' = [metricChanges EXCEPT !.hint = FALSE] /\ lag
        /\ UNCHANGED <<instruments, owners, choice>>
    BY <1>10 DEF HearMetrics
  <2>2. metricChanges'.announced = count /\ metricChanges'.hint = FALSE
    BY <1>0, <2>1
  <2>3. QueryInv(listQuery, "list", TRUE, count) /\ QueryInv(pointsQuery, "points", TRUE, count)
    BY <1>0 DEF QueryInv
  <2>4. /\ QueryInv(listQuery', "list", FALSE, count) /\ QueryInv(pointsQuery', "points", FALSE, count)
        /\ listQuery'.mode = listQuery.mode /\ listQuery'.value = listQuery.value
        /\ pointsQuery'.key = pointsQuery.key /\ pointsQuery'.mode = pointsQuery.mode
        /\ Held(pointsQuery') \subseteq Held(pointsQuery)
    BY <2>3, QueryNotified
  <2>5. QueryInv(listQuery, "list", lag, count)' /\ QueryInv(pointsQuery, "points", lag, count)'
    BY <2>2, <2>4, Zenon
  <2>6. Follows(listQuery, pointsQuery, choice)'
    BY <1>0, <2>1, <2>4 DEF Follows, Selected
  <2>7. OwnersInv'
    BY <1>0, <2>1, <2>4 DEF OwnersInv
  <2>8. DOMAIN metricChanges' = {"announced", "hint"}
    BY <1>0, <2>1
  <2> QED BY <2>5, <2>6, <2>7, <2>8 DEF MetricInv
<1>11. CASE MetricTimer
  <2>1. /\ QueryInv(TimerFires(listQuery), "list", lag, count)
        /\ QueryInv(TimerFires(pointsQuery), "points", lag, count)
        /\ Held(TimerFires(pointsQuery)) \subseteq Held(pointsQuery)
    BY <1>0, QueryBegins
  <2> QED BY <1>0, <1>1, <1>6, <1>11, <2>1 DEF MetricTimer
<1>12. CASE AnswerList
  <2> DEFINE list == [listQuery EXCEPT !.reply = [rows |-> instruments, seen |-> metricChanges.announced]]
  <2>1. QueryInv(list, "list", lag, count)
    BY <1>0, <1>12 DEF AnswerList, QueryInv, IsQuery, OfKey
  <2>2. Render(list, pointsQuery, choice) /\ storeUnchanged
    BY <1>12 DEF AnswerList
  <2> HIDE DEF list
  <2> QED BY <1>0, <1>1, <1>6, <2>1, <2>2
<1>13. CASE AnswerPoints
  <2> PICK answer \in Points(pointsQuery.key) :
        /\ pointsQuery.running
        /\ Render(listQuery, [pointsQuery EXCEPT !.reply = answer], choice)
    BY <1>13 DEF AnswerPoints
  <2> DEFINE points == [pointsQuery EXCEPT !.reply = answer]
  <2>1. answer.id = pointsQuery.key /\ answer.seen = count
        /\ answer.id \in RowIds /\ answer.who \in owners[answer.id]
    <3> PICK r \in instruments :
           r.id = pointsQuery.key /\ answer = [id |-> pointsQuery.key, who |-> r.who, seen |-> count]
      BY DEF Points
    <3> QED BY <1>0 DEF OwnersInv
  <2>2. QueryInv(points, "points", lag, count) /\ Held(points) \subseteq Held(pointsQuery) \cup {answer}
    BY <1>0, <2>1 DEF QueryInv, IsQuery, OfKey, Held
  <2>3. Render(listQuery, points, choice) /\ storeUnchanged
    BY <1>13 DEF AnswerPoints
  <2> HIDE DEF points
  <2>4. \A r \in Held(points) : r.id \in RowIds /\ r.who \in owners[r.id]
    BY <1>6, <2>1, <2>2
  <2> QED BY <1>0, <1>1, <2>2, <2>3, <2>4
<1>14. ASSUME NEW h, NEW ok \in BOOLEAN, NEW wait, storeUnchanged,
              \/ /\ h = listQuery /\ h.running /\ (ok => h.reply # None)
                 /\ Render(Finished(listQuery, ok, wait), pointsQuery, choice)
              \/ /\ h = pointsQuery /\ h.running /\ (ok => h.reply # None)
                 /\ Render(listQuery, Finished(pointsQuery, ok, wait), choice)
       PROVE  MetricInv'
  <2>1. CASE h = listQuery /\ h.running /\ (ok => h.reply # None)
             /\ Render(Finished(listQuery, ok, wait), pointsQuery, choice)
    <3>1. QueryInv(Finished(listQuery, ok, wait), "list", lag, count)
      BY <1>0, <2>1, QueryFinishes
    <3> QED BY <1>0, <1>1, <1>6, <1>14, <2>1, <3>1
  <2>2. CASE h = pointsQuery /\ h.running /\ (ok => h.reply # None)
             /\ Render(listQuery, Finished(pointsQuery, ok, wait), choice)
    <3>1. /\ QueryInv(Finished(pointsQuery, ok, wait), "points", lag, count)
          /\ Held(Finished(pointsQuery, ok, wait)) \subseteq Held(pointsQuery)
      BY <1>0, <2>2, QueryFinishes
    <3>2. \A r \in Held(Finished(pointsQuery, ok, wait)) : r.id \in RowIds /\ r.who \in owners[r.id]
      BY <1>6, <3>1
    <3> QED BY <1>0, <1>1, <1>14, <2>2, <3>1, <3>2
  <2> QED BY <1>14, <2>1, <2>2
<1>15. CASE DeliverMetrics
  BY <1>14, <1>15 DEF DeliverMetrics
<1>16. CASE StaleReference
  BY <1>14, <1>16 DEF StaleReference
<1>17. CASE FailMetrics
  BY <1>14, <1>17 DEF FailMetrics
<1> QED BY <1>3, <1>4, <1>5, <1>7, <1>8, <1>9, <1>10, <1>11, <1>12, <1>13, <1>15, <1>16, <1>17
        DEF MetricNext

LEMMA MetricInvariant == Spec => []MetricInv
<1>1. Init => MetricInv
  <2> SUFFICES ASSUME MetricInit PROVE MetricInv
    BY DEF Init
  <2> DEFINE h(mode) == Restart(Mounted(0), 0, mode)
  <2>2. /\ listQuery = h("live") /\ pointsQuery = h("off") /\ instruments = {}
        /\ owners = [i \in RowIds |-> {}] /\ metricChanges.announced = 0 /\ metricChanges.hint = FALSE
    BY DEF MetricInit
  <2>3. QueryInv(listQuery, "list", FALSE, 0) /\ QueryInv(pointsQuery, "points", FALSE, 0)
    BY <2>2 DEF Mounted, QueryInv, IsQuery, OfKey, Restart, Begin
  <2>4. /\ listQuery.value = None /\ pointsQuery.key = 0 /\ pointsQuery.mode = "off"
        /\ Held(pointsQuery) = {}
    BY <2>2 DEF Mounted, Restart, Begin, Held
  <2>5. Selected(listQuery, choice) = NoRow /\ NoRow.id = 0
    BY <2>4 DEF Selected, NoRow
  <2>6. Follows(listQuery, pointsQuery, choice)
    BY <2>4, <2>5 DEF Follows
  <2>7. OwnersInv
    BY <2>2, <2>4 DEF OwnersInv
  <2>8. DOMAIN metricChanges = {"announced", "hint"}
    BY DEF MetricInit
  <2> QED BY <2>2, <2>3, <2>6, <2>7, <2>8, Zenon DEF MetricInv
<1>2. MetricInv /\ [Next]_vars => MetricInv'
  <2> SUFFICES ASSUME MetricInv, [Next]_vars PROVE MetricInv'
    OBVIOUS
  <2>1. CASE MetricNext
    BY <2>1, MetricMoves
  <2>2. CASE UNCHANGED metricVars
    BY <2>2, MetricStays
  <2> QED BY <2>1, <2>2
       DEF Next, vars, OnList, OnTrace, OnMetrics, OnLog, OnWaterfall
<1> QED BY <1>1, <1>2, PTL DEF Spec

(* A live metrics view with nothing left to do includes every announced     *)
(* change, in the list and in the points of the selected row               *)
(* (useDataSourceQuery under MetricsView.tsx), for any instruments and any  *)
(* number of changes.                                                       *)
THEOREM MetricsCurrentCorrect == Spec => []MetricsCurrent
<1>1. MetricInv => MetricsCurrent
  <2> SUFFICES ASSUME MetricInv, Settled(listQuery), ~metricChanges.hint
               PROVE  /\ listQuery.value # None /\ listQuery.value.seen = metricChanges.announced
                      /\ (Selected(listQuery, choice) # NoRow /\ Settled(pointsQuery)) =>
                            /\ Active(Selected(listQuery, choice)) # NoRow
                            /\ Active(Selected(listQuery, choice)).seen = metricChanges.announced
    BY DEF MetricsCurrent
  <2> DEFINE row == Selected(listQuery, choice)
  <2>1. listQuery.value # None /\ listQuery.value.seen = metricChanges.announced
    BY DEF MetricInv, QueryInv, Settled
  <2>2. ASSUME row # NoRow, Settled(pointsQuery)
        PROVE  Active(row) # NoRow /\ Active(row).seen = metricChanges.announced
    <3>1. /\ pointsQuery.value # None /\ pointsQuery.value.id = pointsQuery.key
          /\ pointsQuery.value.seen = metricChanges.announced
      BY <2>2 DEF MetricInv, QueryInv, OfKey, Settled
    <3>2. pointsQuery.key = row.id /\ row.id # 0
      BY <2>2 DEF MetricInv, Follows, Settled
    <3>3. Active(row) = pointsQuery.value
      BY <3>1, <3>2 DEF Active
    <3> QED BY <3>1, <3>2, <3>3 DEF NoRow
  <2> QED BY <2>1, <2>2
<1> QED BY <1>1, MetricInvariant, PTL

(* The chart is of the instrument whose row is selected, as long as the     *)
(* row's id has had no other instrument (MetricsView.tsx, activeMetric),    *)
(* for any instruments, stored and deleted in any order.                    *)
THEOREM PointsOfRowCorrect == Spec => []PointsOfRow
<1>1. MetricInv => PointsOfRow
  <2> SUFFICES ASSUME MetricInv, NEW row, NEW points, row = Selected(listQuery, choice),
                      points = Active(row), points # NoRow, owners[row.id] = {row.who}
               PROVE  points.who = row.who
    BY DEF PointsOfRow
  <2>1. pointsQuery.value # None /\ points = pointsQuery.value /\ points.id = row.id
    BY DEF Active
  <2>2. points.who \in owners[points.id]
    BY <2>1 DEF MetricInv, OwnersInv, Held
  <2> QED BY <2>1, <2>2
<1> QED BY <1>1, MetricInvariant, PTL

-----------------------------------------------------------------------------
(***************************************************************************)
(* The selected trace: its cache, and the load that is under way.          *)
(***************************************************************************)

Readings == [trace : Traces, seen : Nat]

\* A trace has at most one entry.
OneEach(entries) ==
    /\ entries \in Seq(Readings)
    /\ \A m, n \in 1..Len(entries) : entries[m].trace = entries[n].trace => m = n

\* An entry is as its trace was last announced, unless that change was missed
\* or is still to be heard.
AsAnnounced(entries, behind) ==
    \A n \in 1..Len(entries) :
        entries[n].trace \notin behind => entries[n].seen = edition[entries[n].trace]

Outside(entries, t) == \A n \in 1..Len(entries) : entries[n].trace # t

PaneFields == {"shown", "loading", "failed", "displayed"}

\* A load that has read nothing of the last change is one whose trace has an
\* event under way, or one that the effect is about to replace.
TraceInv ==
    /\ edition \in [Traces -> Nat] /\ hints \subseteq Traces
    /\ DOMAIN pane = PaneFields
    /\ selection.trace \in Traces \cup {NoTrace}
    /\ OneEach(cache) /\ AsAnnounced(cache, hints \cup missed)
    /\ fetch \in [phase : {"idle", "timer", "sent", "read"}, seen : Nat]
    /\ fetch.phase # "idle" =>
          selection.enabled /\ selection.trace \in Traces /\ Outside(cache, selection.trace)
    /\ fetch.phase = "read" /\ selection.trace \notin hints /\ ~rerender
          => fetch.seen = edition[selection.trace]
    /\ TraceCurrent

LEMMA WithoutLeaves ==
    ASSUME NEW entries, NEW t, OneEach(entries)
    PROVE  /\ OneEach(Without(entries, t)) /\ Outside(Without(entries, t), t)
           /\ \A behind : AsAnnounced(entries, behind) => AsAnnounced(Without(entries, t), behind)
<1> DEFINE at == {n \in DOMAIN entries : entries[n].trace = t}
           k == CHOOSE m \in at : TRUE
<1>0. entries \in Seq(Readings) /\ DOMAIN entries = 1..Len(entries) /\ Len(entries) \in Nat
      /\ \A n \in 1..Len(entries) : entries[n] \in Readings
  BY LenProperties, ElementOfSeq DEF OneEach
<1>1. CASE at = {}
  BY <1>0, <1>1 DEF Without, Outside
<1>2. CASE at # {}
  <2> DEFINE left == SubSeq(entries, 1, k - 1)
             right == SubSeq(entries, k + 1, Len(entries))
  <2>1. k \in 1..Len(entries) /\ entries[k].trace = t
    BY <1>0, <1>2
  <2>2. Without(entries, t) = left \o right
    BY <1>2 DEF Without
  <2> HIDE DEF k, at
  <2>3. /\ left \in Seq(Readings) /\ Len(left) = k - 1
        /\ \A n \in 1..k - 1 : left[n] = entries[n]
    <3>1. \A i \in 1..k - 1 : entries[i] \in Readings
      BY <1>0, <2>1
    <3>2. k - 1 \in Int /\ 1 \in Int /\ k - 1 >= 0
      BY <1>0, <2>1
    <3>3. /\ left \in Seq(Readings) /\ Len(left) = IF 1 <= k - 1 THEN k - 1 - 1 + 1 ELSE 0
          /\ \A i \in 1 .. k - 1 - 1 + 1 : left[i] = entries[1 + i - 1]
      BY <3>1, <3>2, SubSeqProperties
    <3> QED BY <3>2, <3>3
  <2>4. /\ right \in Seq(Readings) /\ Len(right) = Len(entries) - k
        /\ \A n \in 1..Len(entries) - k : right[n] = entries[k + n]
    <3>1. \A i \in k + 1..Len(entries) : entries[i] \in Readings
      BY <1>0, <2>1
    <3>2. k \in Int /\ Len(entries) \in Int /\ k + 1 \in Int /\ Len(entries) >= k
      BY <1>0, <2>1
    <3>3. /\ right \in Seq(Readings)
          /\ Len(right) = IF k + 1 <= Len(entries) THEN Len(entries) - (k + 1) + 1 ELSE 0
          /\ \A i \in 1..Len(entries) - (k + 1) + 1 : right[i] = entries[k + 1 + i - 1]
      BY <3>1, <3>2, SubSeqProperties
    <3> QED BY <3>2, <3>3
  <2> DEFINE rest == left \o right
             from(n) == IF n < k THEN n ELSE n + 1
  <2> HIDE DEF left, right
  <2>5. /\ rest \in Seq(Readings) /\ Len(rest) = Len(entries) - 1
        /\ \A n \in 1..Len(rest) : /\ from(n) \in 1..Len(entries) /\ from(n) # k
                                   /\ rest[n] = entries[from(n)]
    <3>1. /\ rest \in Seq(Readings) /\ Len(rest) = Len(left) + Len(right)
          /\ \A i \in 1..Len(left) + Len(right) :
                rest[i] = IF i <= Len(left) THEN left[i] ELSE right[i - Len(left)]
      BY <2>3, <2>4, ConcatProperties
    <3> HIDE DEF rest
    <3>2. Len(rest) = Len(entries) - 1
      BY <1>0, <2>1, <2>3, <2>4, <3>1
    <3>3. ASSUME NEW n \in 1..Len(rest)
          PROVE  from(n) \in 1..Len(entries) /\ from(n) # k /\ rest[n] = entries[from(n)]
      <4>0. n \in Nat /\ k \in Nat /\ n >= 1 /\ n <= Len(entries) - 1 /\ k <= Len(entries)
        BY <1>0, <2>1, <3>2
      <4>1. rest[n] = IF n <= Len(left) THEN left[n] ELSE right[n - Len(left)]
        BY <2>3, <2>4, <3>1
      <4>2. CASE n < k
        <5>1. n \in 1..k - 1 /\ from(n) = n /\ n <= Len(left)
          BY <1>0, <2>3, <4>0, <4>2
        <5> QED BY <1>0, <2>3, <4>0, <4>1, <4>2, <5>1
      <4>3. CASE n >= k
        <5>1. /\ from(n) = n + 1 /\ ~(n <= Len(left)) /\ n - Len(left) = n + 1 - k
              /\ n + 1 - k \in 1..Len(entries) - k
          BY <1>0, <2>3, <4>0, <4>3
        <5>2. rest[n] = right[n + 1 - k] /\ right[n + 1 - k] = entries[k + (n + 1 - k)]
          BY <2>4, <4>1, <5>1
        <5>3. k + (n + 1 - k) = n + 1 /\ n + 1 \in 1..Len(entries) /\ n + 1 # k
          BY <1>0, <4>0, <4>3
        <5> QED BY <5>1, <5>2, <5>3
      <4> QED BY <4>0, <4>2, <4>3
    <3> QED BY <3>1, <3>2, <3>3
  <2>6. \A m, n \in 1..Len(rest) : from(m) = from(n) => m = n
    BY <2>1, <2>5, <1>0
  <2> HIDE DEF rest, from
  <2>7. OneEach(rest) /\ Outside(rest, t)
    BY <2>1, <2>5, <2>6 DEF OneEach, Outside
  <2>8. \A behind : AsAnnounced(entries, behind) => AsAnnounced(rest, behind)
    BY <2>5 DEF AsAnnounced
  <2> QED BY <2>2, <2>7, <2>8 DEF rest
<1> QED BY <1>1, <1>2

LEMMA AppendKeeps ==
    ASSUME NEW entries, NEW entry \in Readings, OneEach(entries), Outside(entries, entry.trace)
    PROVE  /\ OneEach(Append(entries, entry))
           /\ \A behind : AsAnnounced(entries, behind) /\ AsAnnounced(<<entry>>, behind)
                           => AsAnnounced(Append(entries, entry), behind)
<1> DEFINE all == Append(entries, entry)
<1>1. /\ all \in Seq(Readings) /\ Len(all) = Len(entries) + 1 /\ all[Len(entries) + 1] = entry
      /\ \A n \in 1..Len(entries) : all[n] = entries[n]
  BY AppendProperties DEF OneEach
<1>2. Len(entries) \in Nat /\ Len(<<entry>>) = 1 /\ <<entry>>[1] = entry
  BY LenProperties DEF OneEach
<1>3. \A n \in 1..Len(all) : n \in 1..Len(entries) \/ n = Len(entries) + 1
  BY <1>1, <1>2
<1> HIDE DEF all
<1>4. OneEach(all)
  BY <1>1, <1>3 DEF OneEach, Outside
<1>5. ASSUME NEW behind, AsAnnounced(entries, behind), AsAnnounced(<<entry>>, behind)
      PROVE  AsAnnounced(all, behind)
  <2>1. entry.trace \notin behind => entry.seen = edition[entry.trace]
    BY <1>2, <1>5 DEF AsAnnounced
  <2> QED BY <1>1, <1>3, <1>5, <2>1 DEF AsAnnounced
<1> QED BY <1>4, <1>5 DEF all

LEMMA SuffixKeeps ==
    ASSUME NEW entries, OneEach(entries), NEW k \in 1..Len(entries) + 1
    PROVE  /\ OneEach(SubSeq(entries, k, Len(entries)))
           /\ \A behind : AsAnnounced(entries, behind)
                           => AsAnnounced(SubSeq(entries, k, Len(entries)), behind)
<1> DEFINE left == SubSeq(entries, k, Len(entries))
<1>1. Len(entries) \in Nat /\ \A n \in 1..Len(entries) : entries[n] \in Readings
  BY LenProperties, ElementOfSeq DEF OneEach
<1>2. \A i \in k..Len(entries) : entries[i] \in Readings
  BY <1>1
<1>3. k \in Int /\ Len(entries) \in Int /\ k <= Len(entries) + 1
  BY <1>1
<1>4. /\ left \in Seq(Readings)
      /\ Len(left) = IF k <= Len(entries) THEN Len(entries) - k + 1 ELSE 0
      /\ \A i \in 1..Len(entries) - k + 1 : left[i] = entries[k + i - 1]
  BY <1>2, <1>3, SubSeqProperties
<1> HIDE DEF left
<1>5. \A n \in 1..Len(left) : k + n - 1 \in 1..Len(entries) /\ left[n] = entries[k + n - 1]
  <2>1. k >= 1 /\ Len(left) = Len(entries) - k + 1
    BY <1>1, <1>3, <1>4
  <2>2. \A n \in 1..Len(entries) - k + 1 : k + n - 1 \in 1..Len(entries)
    BY <1>1, <1>3, <2>1
  <2> QED BY <1>4, <2>1, <2>2
<1>6. \A m, n \in 1..Len(left) : k + m - 1 = k + n - 1 => m = n
  BY <1>3, <1>4
<1>7. OneEach(left)
  <2> SUFFICES ASSUME NEW m \in 1..Len(left), NEW n \in 1..Len(left),
                      left[m].trace = left[n].trace
               PROVE  m = n
    BY <1>4 DEF OneEach
  <2>1. k + m - 1 = k + n - 1
    BY <1>5 DEF OneEach
  <2> QED BY <1>6, <2>1
<1>8. \A behind : AsAnnounced(entries, behind) => AsAnnounced(left, behind)
  BY <1>5 DEF AsAnnounced
<1> QED BY <1>7, <1>8 DEF left

\* The second effect, while a change is still to reach some of the cache.
LEMMA EffectMoves ==
    ASSUME NEW sel, NEW behind, Effect(sel),
           OneEach(cache), AsAnnounced(cache, behind), DOMAIN pane = PaneFields,
           sel.trace \in Traces \cup {NoTrace}
    PROVE  /\ selection' = sel /\ ~rerender'
           /\ DOMAIN pane' = PaneFields
           /\ OneEach(cache') /\ AsAnnounced(cache', behind)
           /\ fetch' \in [phase : {"idle", "timer"}, seen : Nat]
           /\ fetch'.phase # "idle" => sel.enabled /\ sel.trace \in Traces /\ Outside(cache', sel.trace)
           /\ (sel.enabled /\ sel.trace \in Traces /\ fetch' = Idle /\ sel.trace \notin behind)
                 => pane'.shown = [trace |-> sel.trace, seen |-> edition[sel.trace]]
<1> DEFINE t == sel.trace
           hit == {n \in DOMAIN cache : cache[n].trace = t}
           entry == cache[CHOOSE n \in hit : TRUE]
<1>0. /\ selection' = sel /\ ~rerender' /\ DOMAIN cache = 1..Len(cache)
      /\ \A n \in 1..Len(cache) : cache[n] \in Readings
      /\ \/ /\ ~sel.enabled \/ t = NoTrace
            /\ pane' = Empty /\ cache' = cache /\ fetch' = Idle
         \/ /\ sel.enabled /\ t # NoTrace /\ hit # {}
            /\ pane' = [Empty EXCEPT !.shown = entry, !.displayed = t]
            /\ cache' = Append(Without(cache, t), entry)
            /\ fetch' = Idle
         \/ /\ sel.enabled /\ t # NoTrace /\ hit = {}
            /\ pane' = [pane EXCEPT !.shown = IF pane.displayed = t THEN @ ELSE NoTrace,
                                    !.loading = pane.displayed # t, !.failed = FALSE]
            /\ cache' = cache
            /\ fetch' = [Idle EXCEPT !.phase = "timer"]
  BY LenProperties, ElementOfSeq DEF Effect, OneEach
<1>1. CASE (~sel.enabled \/ t = NoTrace) /\ pane' = Empty /\ cache' = cache /\ fetch' = Idle
  BY <1>0, <1>1, TracePaneAssumption DEF Empty, Idle, PaneFields
<1>2. CASE /\ sel.enabled /\ t # NoTrace /\ hit # {}
           /\ pane' = [Empty EXCEPT !.shown = entry, !.displayed = t]
           /\ cache' = Append(Without(cache, t), entry)
           /\ fetch' = Idle
  <2>1. PICK k \in 1..Len(cache) : entry = cache[k] /\ entry.trace = t
    BY <1>0, <1>2
  <2>2. entry \in Readings
    BY <1>0, <2>1
  <2> HIDE DEF entry, hit
  <2>3. OneEach(Without(cache, t)) /\ Outside(Without(cache, t), entry.trace)
        /\ AsAnnounced(Without(cache, t), behind)
    BY <2>1, WithoutLeaves
  <2>4. Len(<<entry>>) = 1 /\ <<entry>>[1] = entry
    OBVIOUS
  <2>5. t \notin behind => entry.seen = edition[t]
    BY <2>1 DEF AsAnnounced
  <2>6. AsAnnounced(<<entry>>, behind)
    BY <2>1, <2>4, <2>5 DEF AsAnnounced
  <2>7. OneEach(cache') /\ AsAnnounced(cache', behind)
    BY <1>2, <2>2, <2>3, <2>6, AppendKeeps
  <2>8. pane'.shown = entry /\ DOMAIN pane' = PaneFields
    BY <1>2 DEF Empty, PaneFields
  <2>9. t \notin behind => entry = [trace |-> t, seen |-> edition[t]]
    BY <2>1, <2>2, <2>5 DEF Readings
  <2>10. fetch'.phase = "idle" /\ fetch' \in [phase : {"idle", "timer"}, seen : Nat]
    BY <1>2 DEF Idle
  <2> QED BY <1>0, <2>7, <2>8, <2>9, <2>10
<1>3. CASE /\ sel.enabled /\ t # NoTrace /\ hit = {}
           /\ pane' = [pane EXCEPT !.shown = IF pane.displayed = t THEN @ ELSE NoTrace,
                                   !.loading = pane.displayed # t, !.failed = FALSE]
           /\ cache' = cache
           /\ fetch' = [Idle EXCEPT !.phase = "timer"]
  <2>1. DOMAIN pane' = PaneFields
    BY <1>3
  <2>2. fetch'.phase = "timer" /\ fetch' # Idle /\ fetch' \in [phase : {"idle", "timer"}, seen : Nat]
    BY <1>3 DEF Idle
  <2>3. Outside(cache', t)
    BY <1>0, <1>3 DEF Outside
  <2> QED BY <1>0, <1>3, <2>1, <2>2, <2>3
<1> QED BY <1>0, <1>1, <1>2, <1>3

LEMMA TraceMoves ==
    ASSUME TraceInv, TraceNext
    PROVE  TraceInv'
<1> USE TracePaneAssumption
<1>0. /\ edition \in [Traces -> Nat] /\ hints \subseteq Traces
      /\ DOMAIN pane = PaneFields
      /\ selection.trace \in Traces \cup {NoTrace}
      /\ OneEach(cache) /\ AsAnnounced(cache, hints \cup missed)
      /\ fetch \in [phase : {"idle", "timer", "sent", "read"}, seen : Nat]
      /\ fetch.phase # "idle" =>
            selection.enabled /\ selection.trace \in Traces /\ Outside(cache, selection.trace)
      /\ fetch.phase = "read" /\ selection.trace \notin hints /\ ~rerender
            => fetch.seen = edition[selection.trace]
      /\ TraceCurrent
  BY DEF TraceInv
\* The effect has run, of this selection.
<1>1. ASSUME NEW sel, Effect(sel), AsAnnounced(cache, hints' \cup missed'), sel.trace \in Traces \cup {NoTrace},
             edition' = edition, hints' \subseteq Traces
      PROVE  TraceInv'
  <2> DEFINE behind == hints' \cup missed'
  <2>1. /\ selection' = sel /\ ~rerender'
        /\ DOMAIN pane' = PaneFields
        /\ OneEach(cache') /\ AsAnnounced(cache', behind)
        /\ fetch' \in [phase : {"idle", "timer"}, seen : Nat]
        /\ fetch'.phase # "idle" => sel.enabled /\ sel.trace \in Traces /\ Outside(cache', sel.trace)
        /\ (sel.enabled /\ sel.trace \in Traces /\ fetch' = Idle /\ sel.trace \notin behind)
              => pane'.shown = [trace |-> sel.trace, seen |-> edition[sel.trace]]
    BY <1>0, <1>1, EffectMoves
  <2>2. AsAnnounced(cache, hints \cup missed)' /\ OneEach(cache)' /\ Outside(cache, selection.trace)'
           = Outside(cache', sel.trace)
    BY <1>1, <2>1 DEF AsAnnounced, OneEach, Outside
  <2>3. TraceCurrent'
    BY <1>1, <2>1 DEF TraceCurrent, Listening, Shows, Idle
  <2> QED BY <1>0, <1>1, <2>1, <2>2, <2>3 DEF TraceInv
<1>2. CASE Export
  <2> PICK changed \in {{t} : t \in Traces} \cup {Traces} :
        /\ edition' = [t \in Traces |-> IF t \in changed THEN edition[t] + 1 ELSE edition[t]]
        /\ hints' = hints \cup changed
        /\ UNCHANGED <<selection, cache, pane, rerender, fetch, outrun, missed>>
    BY <1>2 DEF Export
  <2>1. edition' \in [Traces -> Nat] /\ hints' \subseteq Traces
        /\ \A t \in Traces \ hints' : edition'[t] = edition[t]
    BY <1>0
  <2>2. \A n \in 1..Len(cache) : cache[n].trace \in Traces
    <3>1. \A n \in 1..Len(cache) : cache[n] \in Readings
      BY <1>0, ElementOfSeq DEF OneEach
    <3> QED BY <3>1 DEF Readings
  <2>3. AsAnnounced(cache, hints \cup missed)'
    BY <1>0, <2>1, <2>2 DEF AsAnnounced
  <2>4. TraceCurrent'
    BY <1>0, <2>1 DEF TraceCurrent, Listening, Shows, Idle
  <2> QED BY <1>0, <2>1, <2>3, <2>4 DEF TraceInv, OneEach, Outside
<1>3. CASE Select
  <2> PICK t \in Traces \cup {NoTrace}, on \in BOOLEAN :
        Effect([trace |-> t, enabled |-> on]) /\ UNCHANGED <<edition, hints, missed>>
    BY <1>3 DEF Select
  <2> DEFINE sel == [trace |-> t, enabled |-> on]
  <2>1. sel.trace \in Traces \cup {NoTrace} /\ Effect(sel)
    OBVIOUS
  <2> HIDE DEF sel
  <2> QED BY <1>0, <1>1, <2>1
<1>4. CASE Hear
  <2> PICK t \in hints :
        /\ hints' = hints \ {t}
        /\ \/ Listening(t) /\ cache' = Without(cache, t) /\ rerender' = TRUE /\ missed' = missed \ {t}
           \/ ~Listening(t) /\ missed' = (IF Cached(t) THEN missed \cup {t} ELSE missed)
                            /\ UNCHANGED <<cache, rerender>>
        /\ UNCHANGED <<edition, selection, pane, fetch, outrun, traceEvents>>
    BY <1>4 DEF Hear
  <2>1. CASE Listening(t) /\ cache' = Without(cache, t) /\ rerender' = TRUE /\ missed' = missed \ {t}
    <3>1. /\ OneEach(Without(cache, t)) /\ Outside(Without(cache, t), t)
          /\ AsAnnounced(Without(cache, t), hints \cup missed)
      BY <1>0, WithoutLeaves
    <3>2. AsAnnounced(Without(cache, t), hints' \cup missed')
      BY <2>1, <3>1 DEF AsAnnounced, Outside
    <3>3. /\ OneEach(cache)' /\ AsAnnounced(cache, hints \cup missed)'
          /\ Outside(cache, selection.trace)'
      BY <2>1, <3>1, <3>2 DEF OneEach, AsAnnounced, Outside, Listening
    <3>4. rerender' /\ TraceCurrent'
      BY <2>1 DEF TraceCurrent
    <3> QED BY <1>0, <3>3, <3>4 DEF TraceInv
  <2>2. CASE ~Listening(t) /\ missed' = (IF Cached(t) THEN missed \cup {t} ELSE missed)
             /\ UNCHANGED <<cache, rerender>>
    <3>1. DOMAIN cache = 1..Len(cache)
      BY <1>0, LenProperties DEF OneEach
    <3>2. \A n \in 1..Len(cache) : cache[n].trace = t => t \in missed'
      BY <2>2, <3>1 DEF Cached
    <3>3. AsAnnounced(cache, hints \cup missed)'
      BY <1>0, <2>2, <3>2 DEF AsAnnounced
    <3>4. fetch.phase = "read" => selection.trace # t
      BY <1>0, <2>2 DEF Listening
    <3>5. TraceCurrent'
      BY <1>0, <2>2 DEF TraceCurrent, Listening, Shows, Idle
    <3>6. hints' \subseteq Traces /\ OneEach(cache)' /\ UNCHANGED edition
      BY <1>0, <2>2 DEF OneEach
    <3>7. Outside(cache, selection.trace)' = Outside(cache, selection.trace)
      BY <2>2 DEF Outside
    <3> QED BY <1>0, <2>2, <3>3, <3>4, <3>5, <3>6, <3>7 DEF TraceInv
  <2> QED BY <2>1, <2>2
<1>5. CASE StartLoad \/ ReadTrace
  <2>1. UNCHANGED <<edition, hints, selection, cache, pane, rerender, missed>>
    BY <1>5 DEF StartLoad, ReadTrace
  <2>2. /\ fetch.phase \in {"timer", "sent"} /\ fetch'.phase \in {"sent", "read"}
        /\ fetch' \in [phase : {"idle", "timer", "sent", "read"}, seen : Nat]
        /\ fetch'.phase = "read" => fetch'.seen = edition[selection.trace]
    BY <1>0, <1>5 DEF StartLoad, ReadTrace
  <2>3. TraceCurrent'
    BY <2>2 DEF TraceCurrent, Idle
  <2>4. AsAnnounced(cache, hints \cup missed)' /\ OneEach(cache)' /\ Outside(cache, selection.trace)'
    BY <1>0, <2>1, <2>2 DEF AsAnnounced, OneEach, Outside
  <2> QED BY <1>0, <2>1, <2>2, <2>3, <2>4 DEF TraceInv
<1>6. CASE Loaded
  <2> DEFINE entry == [trace |-> selection.trace, seen |-> fetch.seen]
             all == Append(cache, entry)
  <2>1. /\ fetch.phase = "read" /\ fetch' = Idle
        /\ missed' = IF rerender /\ selection.trace \notin hints /\ fetch.seen # edition[selection.trace]
                      THEN missed \cup {selection.trace} ELSE missed \ {selection.trace}
        /\ pane' = [pane EXCEPT !.shown = entry, !.loading = FALSE, !.displayed = selection.trace]
        /\ cache' \in InsertCache(cache, entry)
        /\ UNCHANGED <<edition, hints, selection, rerender>>
    BY <1>6 DEF Loaded
  <2>2. PICK k \in 1..Len(all) + 1 : cache' = SubSeq(all, k, Len(all))
    BY <2>1 DEF InsertCache
  <2>3. /\ selection.trace \in Traces /\ Outside(cache, entry.trace) /\ entry \in Readings
        /\ entry.trace = selection.trace /\ entry.seen = fetch.seen
    BY <1>0, <2>1 DEF Readings
  <2>4. pane'.shown = entry /\ DOMAIN pane' = PaneFields
    BY <1>0, <2>1
  <2> HIDE DEF entry
  <2>5. Len(<<entry>>) = 1 /\ <<entry>>[1] = entry
    OBVIOUS
  <2>6. AsAnnounced(<<entry>>, hints' \cup missed') /\ AsAnnounced(cache, hints' \cup missed')
    <3>1. selection.trace \notin hints' \cup missed' => fetch.seen = edition[selection.trace]
      BY <1>0, <2>1
    <3>2. \A u : u \notin hints' \cup missed' /\ u # selection.trace => u \notin hints \cup missed
      BY <2>1
    <3> QED BY <1>0, <2>3, <2>5, <3>1, <3>2 DEF AsAnnounced, Outside
  <2>7. OneEach(all) /\ AsAnnounced(all, hints' \cup missed')
    BY <1>0, <2>3, <2>6, AppendKeeps
  <2> HIDE DEF all
  <2>8. OneEach(cache') /\ AsAnnounced(cache', hints' \cup missed')
    BY <2>2, <2>7, SuffixKeeps
  <2>9. AsAnnounced(cache, hints \cup missed)' /\ OneEach(cache)'
    BY <2>1, <2>8 DEF AsAnnounced, OneEach
  <2>10. selection.trace \notin hints /\ ~rerender => entry = [trace |-> selection.trace, seen |-> edition[selection.trace]]
    BY <1>0, <2>1, <2>3 DEF Readings
  <2>11. TraceCurrent'
    BY <2>1, <2>4, <2>10 DEF TraceCurrent, Listening, Shows
  <2>12. fetch'.phase = "idle" /\ fetch' \in [phase : {"idle", "timer", "sent", "read"}, seen : Nat]
    BY <2>1 DEF Idle
  <2> QED BY <1>0, <2>1, <2>4, <2>9, <2>11, <2>12 DEF TraceInv
<1>7. CASE LoadFails
  <2>1. /\ pane' = [pane EXCEPT !.failed = TRUE, !.loading = FALSE] /\ fetch' = Idle
        /\ UNCHANGED <<edition, hints, selection, cache, rerender, missed>>
    BY <1>7 DEF LoadFails
  <2>2. pane'.failed /\ DOMAIN pane' = PaneFields
    BY <1>0, <2>1
  <2>3. TraceCurrent'
    BY <2>2 DEF TraceCurrent
  <2>4. fetch'.phase = "idle" /\ fetch' \in [phase : {"idle", "timer", "sent", "read"}, seen : Nat]
    BY <2>1 DEF Idle
  <2>5. AsAnnounced(cache, hints \cup missed)' /\ OneEach(cache)'
    BY <1>0, <2>1 DEF AsAnnounced, OneEach
  <2> QED BY <1>0, <2>1, <2>2, <2>3, <2>4, <2>5 DEF TraceInv
<1>8. CASE LateSettles
  BY <1>0, <1>8 DEF LateSettles, TraceInv, AsAnnounced, OneEach, Outside, TraceCurrent, Listening, Shows
<1>9. CASE Rerender
  <2>1. Effect(selection) /\ UNCHANGED <<edition, hints, missed>>
    BY <1>9 DEF Rerender
  <2> QED BY <1>0, <1>1, <2>1
<1> QED BY <1>2, <1>3, <1>4, <1>5, <1>6, <1>7, <1>8, <1>9 DEF TraceNext

(* A selected trace that is not loading, has not failed and has no event    *)
(* and no effect under way is shown as it was last announced (docs/spec.md, *)
(* "no stale waterfall commit"; useSelectedTrace.ts), for any number of     *)
(* traces, of cache entries and of loads that settle late in any order, but *)
(* for the two kinds of change that TraceCurrent excepts.                   *)
THEOREM TraceCurrentCorrect == Spec => []TraceCurrent
<1>1. Init => TraceInv
  <2> SUFFICES ASSUME TraceInit PROVE TraceInv
    BY DEF Init
  <2>1. /\ selection.trace = NoTrace /\ fetch.phase = "idle" /\ cache = <<>> /\ hints = {}
        /\ fetch \in [phase : {"idle", "timer", "sent", "read"}, seen : Nat]
        /\ edition \in [Traces -> Nat] /\ DOMAIN pane = PaneFields
    BY DEF TraceInit, Idle, Empty, PaneFields
  <2>2. OneEach(cache) /\ AsAnnounced(cache, hints \cup missed)
    BY <2>1, EmptySeq DEF OneEach, AsAnnounced
  <2>3. TraceCurrent
    BY <2>1, TracePaneAssumption DEF TraceCurrent, Listening
  <2> QED BY <2>1, <2>2, <2>3 DEF TraceInv
<1>2. TraceInv /\ [Next]_vars => TraceInv'
  <2> SUFFICES ASSUME TraceInv, [Next]_vars PROVE TraceInv'
    OBVIOUS
  <2>1. CASE TraceNext
    BY <2>1, TraceMoves
  <2>2. CASE UNCHANGED traceVars
    BY <2>2 DEF traceVars, TraceInv, AsAnnounced, OneEach, Outside, TraceCurrent, Listening, Shows
  <2> QED BY <2>1, <2>2
       DEF Next, vars, OnList, OnTrace, OnMetrics, OnLog, OnWaterfall
<1>3. TraceInv => TraceCurrent
  BY DEF TraceInv
<1> QED BY <1>1, <1>2, <1>3, PTL DEF Spec

-----------------------------------------------------------------------------
(***************************************************************************)
(* The pages of a list.                                                    *)
(***************************************************************************)

ListRows == [id : Ids, key : Keys]
RowOf(store, i) == [id |-> i, key |-> store[i]]
Stores == [Ids -> Keys \cup {Gone}]

InSequence(list, desc) == \A m, n \in 1..Len(list) : m < n => Before(list[m], list[n], desc)

Lists(list, i) == \E n \in 1..Len(list) : list[n].id = i

\* A row is listed, or is left to a further page.
Reached(list, next, desc, row) ==
    \/ Lists(list, row.id)
    \/ next # NoCursor /\ list # <<>> /\ ~Before(row, list[Len(list)], desc)

\* What a reader of a list may rely on: the rows in order, and none of these
\* ids missing.
Complete(store, list, next, query, ids) ==
    /\ list \in Seq(ListRows) /\ InSequence(list, query.desc)
    /\ next # NoCursor => list # <<>>
    /\ \A i \in query.ids \cap ids :
          store[i] # Gone => Reached(list, next, query.desc, RowOf(store, i))

CompleteReading(store, v) ==
    /\ v = [query |-> v.query, seen |-> v.seen, rows |-> v.rows, next |-> v.next, steady |-> v.steady]
    /\ v.query \in Queries /\ v.steady \subseteq Ids
    /\ Complete(store, v.rows, v.next, v.query, v.steady)

\* The page after a cursor, whose row had not moved.
CompleteAfter(store, r, cursor, query, ids) ==
    /\ r.rows \in Seq(ListRows) /\ InSequence(r.rows, query.desc)
    /\ r.next # NoCursor => r.rows # <<>>
    /\ \A n \in 1..Len(r.rows) : Before(cursor, r.rows[n], query.desc)
    /\ \A i \in query.ids \cap ids :
          (store[i] # Gone /\ Before(cursor, RowOf(store, i), query.desc))
              => Reached(r.rows, r.next, query.desc, RowOf(store, i))

\* A fetch of the page after the rows on screen.
FetchInv(store, page, value, f) ==
    /\ page.loadingMore /\ page.rows # <<>>
    /\ f.cursor = page.rows[Len(page.rows)]
    /\ f.query = value.query
    /\ (f.reply # None /\ f.reply.still)
          => CompleteAfter(store, f.reply, f.cursor, f.query, value.steady)

IsFetch(f) == f \in [n : {f.n}, cursor : {f.cursor}, query : {f.query}, stale : BOOLEAN, reply : {f.reply}]

\* The pages on screen, and the only fetch of a further one.
OnScreen(store, page, value, fetches) ==
    (value # None /\ ~page.astray) =>
        /\ Complete(store, page.rows, page.next, value.query, value.steady)
        /\ \A f \in fetches : ~f.stale => FetchInv(store, page, value, f)
        /\ \A f, g \in fetches : ~f.stale /\ ~g.stale => f = g

PagesInv ==
    /\ stored \in Stores /\ backend \in {"sqlite", "memory"} /\ hook.key \in Queries /\ IsQuery(hook)
    /\ hook.reply # None => CompleteReading(stored, hook.reply)
    /\ hook.value # None => CompleteReading(stored, hook.value)
    /\ \A f \in more : IsFetch(f)
    /\ DOMAIN pages = {"rows", "next", "loadingMore", "astray"}
    /\ OnScreen(stored, pages, hook.value, more)

(* Induction over finite sets: there is a smallest among some of them.      *)
LEMMA SmallestPart ==
    ASSUME NEW S, IsFiniteSet(S), NEW C, C \subseteq SUBSET S, C # {}
    PROVE  \E T \in C : \A U \in C : U \subseteq T => U = T
<1> DEFINE R == StrictSubsetOrdering(S)
<1>1. \E x \in C : \A y \in C : ~ (<<y, x>> \in R)
  <2>1. IsWellFoundedOn(R, FiniteSubsetsOf(S))
    BY FS_StrictSubsetOrderingWellFounded
  <2>2. C \subseteq FiniteSubsetsOf(S)
    <3>1. \A T \in SUBSET S : IsFiniteSet(T)
      BY FS_Subset
    <3> QED BY <3>1 DEF FiniteSubsetsOf
  <2> HIDE DEF R
  <2> QED BY <2>1, <2>2, WFMin
<1>2. \A y, x \in C : y \subseteq x /\ y # x => <<y, x>> \in R
  BY DEF StrictSubsetOrdering
<1> QED BY <1>1, <1>2

(* Before orders the rows strictly and totally.                             *)
LEMMA BeforeOrders ==
    ASSUME NEW a \in ListRows, NEW b \in ListRows, NEW c \in ListRows, NEW desc \in BOOLEAN
    PROVE  /\ ~Before(a, a, desc)
           /\ Before(a, b, desc) \/ Before(b, a, desc) \/ a = b
           /\ Before(a, b, desc) /\ Before(b, c, desc) => Before(a, c, desc)
<1>1. \A r \in ListRows : r.id \in Nat /\ r.key \in Nat
  BY ListAssumption DEF ListRows
<1>2. a.id = b.id /\ a.key = b.key => a = b
  BY DEF ListRows
<1>3. /\ a.id \in Nat /\ a.key \in Nat /\ b.id \in Nat /\ b.key \in Nat
      /\ c.id \in Nat /\ c.key \in Nat
  BY <1>1
<1> QED BY <1>2, <1>3 DEF Before

(* A finite set that a relation orders can be listed in that order.         *)
Orders(R, S) ==
    /\ \A a \in S : <<a, a>> \notin R
    /\ \A a, b \in S : <<a, b>> \in R \/ <<b, a>> \in R \/ a = b
    /\ \A a, b, c \in S : <<a, b>> \in R /\ <<b, c>> \in R => <<a, c>> \in R

LEMMA OrdersPart ==
    ASSUME NEW S, NEW R, Orders(R, S), NEW T, T \subseteq S
    PROVE  Orders(R, T)
BY DEF Orders

LEMMA SomeLast ==
    ASSUME NEW S, IsFiniteSet(S), S # {}, NEW R, Orders(R, S)
    PROVE  \E r \in S : \A q \in S : q = r \/ <<q, r>> \in R
<1> DEFINE HasLast(T) == \E r \in T : \A q \in T : q = r \/ <<q, r>> \in R
           C == {T \in SUBSET S : T # {} /\ ~HasLast(T)}
<1>1. SUFFICES ASSUME C # {} PROVE FALSE
  OBVIOUS
<1>2. PICK T \in C : \A U \in C : U \subseteq T => U = T
  <2>1. C \subseteq SUBSET S
    OBVIOUS
  <2> HIDE DEF C
  <2> QED BY <1>1, <2>1, SmallestPart
<1>3. PICK x \in T : TRUE
  BY <1>2
<1>4. T \ {x} \notin C /\ T \ {x} \subseteq S
  BY <1>2, <1>3
<1>5. CASE T \ {x} = {}
  BY <1>2, <1>3, <1>5
<1>6. CASE HasLast(T \ {x})
  <2>1. PICK r \in T \ {x} : \A q \in T \ {x} : q = r \/ <<q, r>> \in R
    BY <1>6
  <2>2. x \in S /\ r \in S /\ T \subseteq S
    BY <1>2, <1>3
  <2>3. CASE <<x, r>> \in R
    BY <1>2, <2>1, <2>3
  <2>4. CASE <<r, x>> \in R
    <3>1. \A q \in T : q = x \/ <<q, x>> \in R
      BY <2>1, <2>2, <2>4 DEF Orders
    <3> QED BY <1>2, <1>3, <3>1
  <2> QED BY <2>1, <2>2, <2>3, <2>4 DEF Orders
<1> QED BY <1>4, <1>5, <1>6

IsOrdering(s, S, R) ==
    /\ s \in [1..Cardinality(S) -> S]
    /\ \A r \in S : \E n \in DOMAIN s : s[n] = r
    /\ \A m, n \in DOMAIN s : m < n => <<s[n], s[m]>> \notin R

LEMMA OrderingExists ==
    ASSUME NEW S, IsFiniteSet(S), NEW R, Orders(R, S)
    PROVE  \E s : IsOrdering(s, S, R)
<1> DEFINE C == {T \in SUBSET S : ~ \E s : IsOrdering(s, T, R)}
<1>1. SUFFICES ASSUME C # {} PROVE FALSE
  OBVIOUS
<1>2. PICK T \in C : \A U \in C : U \subseteq T => U = T
  <2>1. C \subseteq SUBSET S
    OBVIOUS
  <2> HIDE DEF C
  <2> QED BY <1>1, <2>1, SmallestPart
<1>3. IsFiniteSet(T) /\ Orders(R, T) /\ ~ \E s : IsOrdering(s, T, R)
  BY <1>2, FS_Subset, OrdersPart
<1>4. CASE T = {}
  <2>1. IsOrdering([n \in 1..0 |-> 0], T, R)
    BY <1>4, FS_EmptySet DEF IsOrdering
  <2> QED BY <1>3, <2>1
<1>5. CASE T # {}
  <2>1. PICK r \in T : \A q \in T : q = r \/ <<q, r>> \in R
    BY <1>3, <1>5, SomeLast
  <2> DEFINE U == T \ {r}
             k == Cardinality(T)
  <2>2. U \notin C /\ U \subseteq T /\ U # T
    BY <1>2, <2>1
  <2>3. PICK s : IsOrdering(s, U, R)
    BY <1>2, <2>2
  <2>4. IsFiniteSet(U) /\ Cardinality(U) = k - 1 /\ k \in Nat /\ k - 1 \in Nat
    <3>1. IsFiniteSet(U) /\ Cardinality(U) = Cardinality(T) - 1
      BY <1>3, <2>1, FS_RemoveElement
    <3>2. Cardinality(U) \in Nat /\ Cardinality(T) \in Nat
      BY <1>3, <3>1, FS_CardinalityType
    <3> QED BY <3>1, <3>2
  <2> DEFINE all == [n \in 1..k |-> IF n = k THEN r ELSE s[n]]
  <2>5. s \in [1..k - 1 -> U] /\ DOMAIN s = 1..k - 1
    BY <2>3, <2>4 DEF IsOrdering
  <2>6. all \in [1..k -> T]
    BY <2>1, <2>4, <2>5
  <2>7. \A q \in T : \E n \in 1..k : all[n] = q
    <3>1. \A q \in U : \E n \in 1..k - 1 : s[n] = q
      BY <2>3, <2>5 DEF IsOrdering
    <3>2. \A n \in 1..k - 1 : n \in 1..k /\ all[n] = s[n]
      BY <2>4
    <3>3. k \in 1..k /\ all[k] = r
      BY <2>4
    <3> HIDE DEF all, k
    <3> QED BY <3>1, <3>2, <3>3
  <2>8. \A m, n \in 1..k : m < n => <<all[n], all[m]>> \notin R
    <3> SUFFICES ASSUME NEW m \in 1..k, NEW n \in 1..k, m < n
                 PROVE  <<all[n], all[m]>> \notin R
      OBVIOUS
    <3>1. m \in 1..k - 1 /\ all[m] = s[m] /\ s[m] \in U
      BY <2>4, <2>5
    <3>2. CASE n = k
      <4>1. all[n] = r /\ <<s[m], r>> \in R
        BY <2>1, <3>1, <3>2
      <4> HIDE DEF all
      <4> QED BY <1>3, <2>1, <3>1, <4>1 DEF Orders
    <3>3. CASE n # k
      <4>1. n \in 1..k - 1 /\ all[n] = s[n]
        BY <2>4, <3>3
      <4> QED BY <2>3, <2>5, <3>1, <4>1 DEF IsOrdering
    <3> QED BY <3>2, <3>3
  <2>9. IsOrdering(all, T, R)
    BY <2>6, <2>7, <2>8 DEF IsOrdering
  <2> QED BY <1>3, <2>9
<1> QED BY <1>4, <1>5

LEMMA OrderingLists ==
    ASSUME NEW S, IsFiniteSet(S), NEW R, Orders(R, S), NEW s, IsOrdering(s, S, R)
    PROVE  /\ s \in Seq(S) /\ Len(s) = Cardinality(S)
           /\ \A r \in S : \E n \in 1..Len(s) : s[n] = r
           /\ \A m, n \in 1..Len(s) : m < n => s[m] # s[n] /\ <<s[m], s[n]>> \in R
<1> DEFINE k == Cardinality(S)
<1>2. k \in Nat
  BY FS_CardinalityType
<1>3. s \in [1..k -> S] /\ DOMAIN s = 1..k
  BY DEF IsOrdering
<1>4. s \in Seq(S) /\ Len(s) = k
  BY <1>2, <1>3, IsASeq, LenProperties
<1>5. \A m, n \in 1..k : s[m] = s[n] => m = n
  <2>1. s \in Surjection(1..k, S)
    BY <1>3 DEF IsOrdering, Surjection
  <2>2. IsFiniteSet(1..k) /\ Cardinality(1..k) = k
    BY <1>2, FS_Interval
  <2>3. s \in Injection(1..k, S)
    BY <2>1, <2>2, FS_Surjection
  <2> QED BY <2>3 DEF Injection, IsInjective
<1>6. \A m, n \in 1..k : m < n => s[m] # s[n] /\ <<s[m], s[n]>> \in R
  <2> SUFFICES ASSUME NEW m \in 1..k, NEW n \in 1..k, m < n
               PROVE  s[m] # s[n] /\ <<s[m], s[n]>> \in R
    OBVIOUS
  <2>1. s[m] # s[n] /\ s[m] \in S /\ s[n] \in S
    BY <1>3, <1>5
  <2>2. <<s[n], s[m]>> \notin R
    BY <1>3 DEF IsOrdering
  <2> QED BY <2>1, <2>2 DEF Orders
<1> QED BY <1>3, <1>4, <1>6 DEF IsOrdering

(* ORDER BY lists every row once, in order.                                 *)
LEMMA InOrderLists ==
    ASSUME NEW S \in SUBSET ListRows, IsFiniteSet(S), NEW desc \in BOOLEAN
    PROVE  LET s == InOrder(S, desc)
           IN  /\ s \in Seq(S) /\ InSequence(s, desc)
               /\ \A r \in S : \E n \in 1..Len(s) : s[n] = r
<1> DEFINE s == InOrder(S, desc)
           R == {p \in S \X S : Before(p[1], p[2], desc)}
<1>1. \A a, b \in S : <<a, b>> \in R <=> Before(a, b, desc)
  OBVIOUS
<1> HIDE DEF R
<1>2. Orders(R, S)
  BY <1>1, BeforeOrders DEF Orders
<1>3. \A t : IsOrdering(t, S, R) <=>
               /\ t \in [1..Cardinality(S) -> S]
               /\ \A r \in S : \E n \in DOMAIN t : t[n] = r
               /\ \A m, n \in DOMAIN t : m < n => ~Before(t[n], t[m], desc)
  BY <1>1 DEF IsOrdering
<1>4. IsOrdering(s, S, R)
  <2>1. \E t : IsOrdering(t, S, R)
    BY <1>2, OrderingExists
  <2> QED BY <1>3, <2>1 DEF InOrder
<1> HIDE DEF s
<1>5. /\ s \in Seq(S)
      /\ \A r \in S : \E n \in 1..Len(s) : s[n] = r
      /\ \A m, n \in 1..Len(s) : m < n => s[m] # s[n] /\ <<s[m], s[n]>> \in R
  BY <1>2, <1>4, OrderingLists
<1>6. InSequence(s, desc)
  <2>1. \A n \in 1..Len(s) : s[n] \in S
    BY <1>5
  <2> QED BY <1>1, <1>5, <2>1 DEF InSequence
<1> QED BY <1>5, <1>6 DEF s

(* A page is the beginning of the rows, and says whether there are more.    *)
LEMMA CutLists ==
    ASSUME NEW s \in Seq(ListRows), NEW desc \in BOOLEAN, InSequence(s, desc),
           \A n \in 1..Len(s) : s[n].id # NoCursor
    PROVE  LET page == Cut(s)
           IN  /\ page.rows \in Seq(ListRows) /\ InSequence(page.rows, desc)
               /\ page.next # NoCursor => page.rows # <<>>
               /\ Len(page.rows) <= Len(s) /\ \A n \in 1..Len(page.rows) : page.rows[n] = s[n]
               /\ \A n \in 1..Len(s) : Reached(page.rows, page.next, desc, s[n])
<1> DEFINE page == Cut(s)
           first == SubSeq(s, 1, PageSize)
<1>1. Len(s) \in Nat /\ PageSize \in Nat \ {0} /\ \A n \in 1..Len(s) : s[n] \in ListRows
  BY ListAssumption, ElementOfSeq, LenProperties
<1>2. CASE Len(s) <= PageSize
  <2>1. page.rows = s /\ page.next = NoCursor
    BY <1>2 DEF Cut
  <2> QED BY <1>1, <2>1 DEF Reached, Lists
<1>3. CASE Len(s) > PageSize
  <2>1. page.rows = first /\ page.next = s[PageSize].id
    BY <1>1, <1>3 DEF Cut
  <2>2. first \in Seq(ListRows) /\ Len(first) = PageSize /\ \A n \in 1..PageSize : first[n] = s[n]
    <3>1. \A i \in 1..PageSize : s[i] \in ListRows
      BY <1>1, <1>3
    <3>2. 1 \in Int /\ PageSize \in Int /\ PageSize >= 1
      BY <1>1
    <3>3. /\ first \in Seq(ListRows) /\ Len(first) = IF 1 <= PageSize THEN PageSize - 1 + 1 ELSE 0
          /\ \A i \in 1..PageSize - 1 + 1 : first[i] = s[1 + i - 1]
      BY <3>1, <3>2, SubSeqProperties
    <3> QED BY <3>2, <3>3
  <2> HIDE DEF first, page
  <2>3. PageSize \in 1..Len(s) /\ 1..PageSize \subseteq 1..Len(s)
    BY <1>1, <1>3
  <2>4. InSequence(first, desc)
    BY <2>2, <2>3 DEF InSequence
  <2>5. page.next # NoCursor /\ first # <<>> /\ first[Len(first)] = s[PageSize]
    BY <1>1, <2>1, <2>2, <2>3
  <2>6. \A n \in 1..Len(s) : Reached(first, page.next, desc, s[n])
    <3> SUFFICES ASSUME NEW n \in 1..Len(s) PROVE Reached(first, page.next, desc, s[n])
      OBVIOUS
    <3>1. CASE n \in 1..PageSize
      BY <2>2, <3>1 DEF Reached, Lists
    <3>2. CASE n \notin 1..PageSize
      <4>1. PageSize < n
        BY <1>1, <3>2
      <4>2. Before(s[PageSize], s[n], desc)
        BY <2>3, <4>1 DEF InSequence
      <4>3. ~Before(s[n], s[PageSize], desc)
        BY <1>1, <2>3, <4>2, BeforeOrders
      <4> QED BY <2>5, <4>3 DEF Reached
    <3> QED BY <3>1, <3>2
  <2>7. Len(first) <= Len(s)
    BY <1>1, <1>3, <2>2
  <2> QED BY <2>1, <2>2, <2>4, <2>5, <2>6, <2>7 DEF page
<1> QED BY <1>1, <1>2, <1>3

\* The rows that a page after the cursor may have.
Rest(store, query, cursor) ==
    {r \in Matching(store, query) : cursor = NoCursor \/ Before(RowOf(store, cursor), r, query.desc)}

LEMMA MatchingRows ==
    ASSUME NEW store \in Stores, NEW query \in Queries
    PROVE  /\ Matching(store, query) \subseteq ListRows /\ IsFiniteSet(Matching(store, query))
           /\ \A r \in Matching(store, query) :
                 r.id \in query.ids /\ r.id # NoCursor /\ r = RowOf(store, r.id) /\ store[r.id] # Gone
           /\ \A i \in query.ids : store[i] # Gone => RowOf(store, i) \in Matching(store, query)
           /\ query.desc \in BOOLEAN /\ query.ids \subseteq Ids
<1> DEFINE kept == {j \in query.ids : store[j] # Gone}
           M == Matching(store, query)
<1>1. query.desc \in BOOLEAN /\ query.ids \subseteq Ids /\ Ids \subseteq Nat \ {NoCursor} /\ Keys \subseteq Nat
  BY ListAssumption
<1>2. M = {RowOf(store, i) : i \in kept}
  BY DEF Matching, RowOf
<1>3. \A i \in kept : RowOf(store, i) \in ListRows /\ RowOf(store, i).id = i
  BY <1>1 DEF ListRows, RowOf, Stores
<1>4. IsFiniteSet(M)
  <2>1. IsFiniteSet(kept)
    BY <1>1, ListAssumption, FS_Subset
  <2> DEFINE f == [i \in kept |-> RowOf(store, i)]
  <2>2. f \in Surjection(kept, M)
    BY <1>2 DEF Surjection
  <2> QED BY <2>1, <2>2, FS_Surjection
<1> QED BY <1>1, <1>2, <1>3, <1>4

IsCut(s, place, store, query, cursor) ==
    /\ PageFrom(place, store, query, cursor) = Cut(s)
    /\ InSequence(s, query.desc)
    /\ \A n \in 1..Len(s) : s[n] \in Rest(store, query, cursor)
    /\ \A r \in Rest(store, query, cursor) : \E n \in 1..Len(s) : s[n] = r

\* Both stores cut the page from the rows after the cursor, in order.
LEMMA PageIsCut ==
    ASSUME NEW store \in Stores, NEW query \in Queries, NEW place \in {"sqlite", "memory"}, NEW cursor,
           cursor = NoCursor \/ (cursor \in query.ids /\ store[cursor] # Gone)
    PROVE  \E s \in Seq(ListRows) : IsCut(s, place, store, query, cursor)
<1> DEFINE M == Matching(store, query)
           desc == query.desc
<1>0. /\ M \subseteq ListRows /\ IsFiniteSet(M) /\ desc \in BOOLEAN
      /\ \A r \in M : r.id # NoCursor /\ r = RowOf(store, r.id)
      /\ cursor # NoCursor => RowOf(store, cursor) \in M
  BY MatchingRows
<1>1. CASE place = "sqlite"
  <2> DEFINE S == Rest(store, query, cursor)
             s == InOrder(S, desc)
  <2>1. PageFrom(place, store, query, cursor) = Cut(s)
    <3>1. {r \in M : \/ cursor = NoCursor
                     \/ /\ store[cursor] # Gone
                        /\ Before([id |-> cursor, key |-> store[cursor]], r, desc)} = S
      BY DEF Rest, RowOf
    <3> HIDE DEF S, M
    <3> QED BY <1>1, <3>1 DEF PageFrom, SqlPage, M
  <2>2. S \subseteq M /\ IsFiniteSet(S) /\ S \in SUBSET ListRows
    BY <1>0, FS_Subset DEF Rest
  <2>3. /\ s \in Seq(S) /\ InSequence(s, desc)
        /\ \A r \in S : \E n \in 1..Len(s) : s[n] = r
    <3> HIDE DEF S
    <3> QED BY <1>0, <2>2, InOrderLists
  <2>4. s \in Seq(ListRows) /\ \A n \in 1..Len(s) : s[n] \in S
    BY <2>2, <2>3, SeqMonotonic, ElementOfSeq
  <2> QED BY <2>1, <2>3, <2>4 DEF IsCut
<1>2. CASE place = "memory"
  <2> DEFINE all == InOrder(M, desc)
             at == {n \in DOMAIN all : all[n].id = cursor}
             offset == IF at = {} THEN 0 ELSE CHOOSE n \in at : TRUE
             s == SubSeq(all, offset + 1, Len(all))
  <2>1. PageFrom(place, store, query, cursor) = Cut(s)
    BY <1>2 DEF PageFrom, MemoryPage
  <2>2. /\ all \in Seq(M) /\ InSequence(all, desc)
        /\ \A r \in M : \E n \in 1..Len(all) : all[n] = r
    <3> HIDE DEF M
    <3> QED BY <1>0, InOrderLists
  <2>3. /\ DOMAIN all = 1..Len(all) /\ Len(all) \in Nat
        /\ \A n \in 1..Len(all) : all[n] \in M /\ all[n] \in ListRows
    BY <1>0, <2>2, LenProperties, ElementOfSeq
  <2> HIDE DEF all, M
  <2>4. /\ offset \in 0..Len(all)
        /\ cursor = NoCursor => offset = 0
        /\ cursor # NoCursor => offset # 0 /\ all[offset] = RowOf(store, cursor)
    <3>1. CASE cursor = NoCursor
      <4>1. at = {}
        BY <1>0, <2>3, <3>1
      <4> QED BY <2>3, <3>1, <4>1
    <3>2. CASE cursor # NoCursor
      <4>1. PICK n \in 1..Len(all) : all[n] = RowOf(store, cursor)
        BY <1>0, <2>2, <3>2
      <4>2. n \in at
        BY <2>3, <4>1 DEF RowOf
      <4>3. offset \in at
        BY <4>2
      <4> HIDE DEF offset
      <4>4. offset \in 1..Len(all) /\ all[offset].id = cursor /\ all[offset] \in M
        BY <2>3, <4>3
      <4>5. all[offset] = RowOf(store, cursor)
        BY <1>0, <4>4
      <4> QED BY <2>3, <3>2, <4>4, <4>5
    <3> QED BY <3>1, <3>2
  <2> HIDE DEF offset
  <2>5. /\ s \in Seq(ListRows) /\ Len(s) = Len(all) - offset
        /\ \A n \in 1..Len(all) - offset : offset + n \in 1..Len(all) /\ s[n] = all[offset + n]
    <3>1. offset + 1 \in Int /\ Len(all) \in Int /\ offset <= Len(all) /\ offset >= 0
      BY <2>3, <2>4
    <3>2. \A i \in offset + 1..Len(all) : all[i] \in ListRows
      <4>1. \A i \in offset + 1..Len(all) : i \in 1..Len(all)
        BY <2>4, <3>1
      <4> QED BY <2>3, <4>1
    <3>3. /\ s \in Seq(ListRows)
          /\ Len(s) = IF offset + 1 <= Len(all) THEN Len(all) - (offset + 1) + 1 ELSE 0
          /\ \A i \in 1..Len(all) - (offset + 1) + 1 : s[i] = all[offset + 1 + i - 1]
      BY <3>1, <3>2, SubSeqProperties
    <3>0. offset \in Int
      BY <2>4
    <3>4. Len(all) - (offset + 1) + 1 = Len(all) - offset
      BY <3>0, <3>1
    <3>5. Len(s) = Len(all) - offset
      BY <3>0, <3>1, <3>3
    <3>6. ASSUME NEW n \in 1..Len(all) - offset
          PROVE  offset + n \in 1..Len(all) /\ s[n] = all[offset + n]
      <4>1. offset + 1 + n - 1 = offset + n /\ offset + n \in 1..Len(all)
        BY <3>0, <3>1
      <4>2. s[n] = all[offset + 1 + n - 1]
        BY <3>3, <3>4
      <4> QED BY <4>1, <4>2
    <3> QED BY <3>3, <3>5, <3>6
  <2> HIDE DEF s
  <2>6. InSequence(s, desc)
    <3> SUFFICES ASSUME NEW m \in 1..Len(s), NEW n \in 1..Len(s), m < n
                 PROVE  Before(s[m], s[n], desc)
      BY DEF InSequence
    <3>1. offset + m < offset + n
      BY <2>4
    <3> QED BY <2>2, <2>5, <3>1 DEF InSequence
  <2>7. \A n \in 1..Len(s) : s[n] \in Rest(store, query, cursor)
    <3> SUFFICES ASSUME NEW n \in 1..Len(s) PROVE s[n] \in Rest(store, query, cursor)
      OBVIOUS
    <3>1. offset + n \in 1..Len(all) /\ s[n] = all[offset + n] /\ s[n] \in M
      BY <2>3, <2>5
    <3>2. cursor # NoCursor => Before(RowOf(store, cursor), s[n], desc)
      <4> HAVE cursor # NoCursor
      <4>1. offset \in 1..Len(all) /\ offset < offset + n /\ all[offset] = RowOf(store, cursor)
        BY <2>3, <2>4
      <4> QED BY <2>2, <3>1, <4>1 DEF InSequence
    <3> QED BY <3>1, <3>2 DEF Rest, M
  <2>8. \A r \in Rest(store, query, cursor) : \E n \in 1..Len(s) : s[n] = r
    <3> SUFFICES ASSUME NEW r \in Rest(store, query, cursor) PROVE \E n \in 1..Len(s) : s[n] = r
      OBVIOUS
    <3>1. r \in M /\ (cursor # NoCursor => Before(RowOf(store, cursor), r, desc))
      BY DEF Rest, M
    <3>2. PICK k \in 1..Len(all) : all[k] = r
      BY <2>2, <3>1
    <3>3. offset < k
      <4>1. CASE cursor = NoCursor
        BY <2>4, <4>1
      <4>2. CASE cursor # NoCursor
        <5>1. offset \in 1..Len(all) /\ all[offset] = RowOf(store, cursor) /\ Before(all[offset], all[k], desc)
          BY <2>3, <2>4, <3>1, <3>2, <4>2
        <5>2. ~(k < offset) /\ k # offset
          <6>1. ~Before(all[k], all[offset], desc) /\ ~Before(all[k], all[k], desc)
            BY <1>0, <2>3, <5>1, BeforeOrders
          <6> QED BY <2>2, <5>1, <6>1 DEF InSequence
        <5> QED BY <2>3, <5>1, <5>2
      <4> QED BY <4>1, <4>2
    <3>4. k - offset \in 1..Len(s) /\ k - offset \in 1..Len(all) - offset /\ offset + (k - offset) = k
      BY <2>3, <2>4, <2>5, <3>3
    <3>5. s[k - offset] = r
      BY <2>5, <3>2, <3>4
    <3> QED BY <3>4, <3>5
  <2> QED BY <2>1, <2>5, <2>6, <2>7, <2>8 DEF IsCut
<1> QED BY <1>1, <1>2

LEMMA PageFits ==
    ASSUME NEW store \in Stores, NEW query \in Queries, NEW place \in {"sqlite", "memory"}, NEW cursor,
           cursor = NoCursor \/ (cursor \in query.ids /\ store[cursor] # Gone)
    PROVE  LET page == PageFrom(place, store, query, cursor)
           IN  /\ page.rows \in Seq(ListRows) /\ InSequence(page.rows, query.desc)
               /\ page.next # NoCursor => page.rows # <<>>
               /\ \A n \in 1..Len(page.rows) : page.rows[n] \in Rest(store, query, cursor)
               /\ \A r \in Rest(store, query, cursor) : Reached(page.rows, page.next, query.desc, r)
<1>0. PICK s \in Seq(ListRows) : IsCut(s, place, store, query, cursor)
  BY PageIsCut
<1>1. /\ PageFrom(place, store, query, cursor) = Cut(s)
      /\ InSequence(s, query.desc)
      /\ \A n \in 1..Len(s) : s[n] \in Rest(store, query, cursor)
      /\ \A r \in Rest(store, query, cursor) : \E n \in 1..Len(s) : s[n] = r
  BY <1>0 DEF IsCut
<1>2. query.desc \in BOOLEAN /\ \A r \in Rest(store, query, cursor) : r.id # NoCursor
  BY MatchingRows DEF Rest
<1> DEFINE page == Cut(s)
<1>3. /\ page.rows \in Seq(ListRows) /\ InSequence(page.rows, query.desc)
      /\ page.next # NoCursor => page.rows # <<>>
      /\ Len(page.rows) <= Len(s) /\ \A n \in 1..Len(page.rows) : page.rows[n] = s[n]
      /\ \A n \in 1..Len(s) : Reached(page.rows, page.next, query.desc, s[n])
  BY <1>1, <1>2, CutLists
<1>4. Len(page.rows) \in Nat /\ Len(s) \in Nat
  BY <1>1, <1>3, LenProperties
<1> HIDE DEF page
<1>5. \A n \in 1..Len(page.rows) : page.rows[n] \in Rest(store, query, cursor)
  BY <1>1, <1>3, <1>4
<1>6. \A r \in Rest(store, query, cursor) : Reached(page.rows, page.next, query.desc, r)
  BY <1>1, <1>3
<1> QED BY <1>1, <1>3, <1>5, <1>6 DEF page

LEMMA ReadingFits ==
    ASSUME NEW query \in Queries, stored \in Stores, backend \in {"sqlite", "memory"}
    PROVE  CompleteReading(stored, Reading(query))
<1> DEFINE page == PageFrom(backend, stored, query, NoCursor)
           v == Reading(query)
<1>1. v = [query |-> query, seen |-> announced, rows |-> page.rows, next |-> page.next, steady |-> Ids]
  BY DEF Reading
<1>2. /\ page.rows \in Seq(ListRows) /\ InSequence(page.rows, query.desc)
      /\ page.next # NoCursor => page.rows # <<>>
      /\ \A r \in Rest(stored, query, NoCursor) : Reached(page.rows, page.next, query.desc, r)
  BY PageFits
<1>3. \A i \in query.ids : stored[i] # Gone => RowOf(stored, i) \in Rest(stored, query, NoCursor)
  BY MatchingRows DEF Rest
<1> HIDE DEF page, v
<1>4. v.query = query /\ v.steady = Ids /\ v.rows = page.rows /\ v.next = page.next
      /\ v = [query |-> v.query, seen |-> v.seen, rows |-> v.rows, next |-> v.next, steady |-> v.steady]
  BY <1>1
<1>5. Complete(stored, v.rows, v.next, v.query, v.steady)
  BY <1>2, <1>3, <1>4 DEF Complete
<1> QED BY <1>4, <1>5 DEF CompleteReading, v

\* What a fetch reads after a cursor whose row is where it was.
LEMMA AfterFits ==
    ASSUME NEW query \in Queries, stored \in Stores, backend \in {"sqlite", "memory"},
           NEW cursor \in ListRows, stored[cursor.id] = cursor.key, cursor.id \in query.ids, NEW ids, NEW r,
           LET page == PageFrom(backend, stored, query, cursor.id)
           IN  r.rows = page.rows /\ r.next = page.next
    PROVE  CompleteAfter(stored, r, cursor, query, ids)
<1> DEFINE page == PageFrom(backend, stored, query, cursor.id)
<1>1. stored[cursor.id] # Gone /\ RowOf(stored, cursor.id) = cursor /\ cursor.id # NoCursor
  BY ListAssumption DEF ListRows, RowOf
<1>2. /\ page.rows \in Seq(ListRows) /\ InSequence(page.rows, query.desc)
      /\ page.next # NoCursor => page.rows # <<>>
      /\ \A n \in 1..Len(page.rows) : page.rows[n] \in Rest(stored, query, cursor.id)
      /\ \A q \in Rest(stored, query, cursor.id) : Reached(page.rows, page.next, query.desc, q)
  BY <1>1, PageFits
<1>3. \A i \in query.ids : stored[i] # Gone /\ Before(cursor, RowOf(stored, i), query.desc)
                              => RowOf(stored, i) \in Rest(stored, query, cursor.id)
  BY <1>1, MatchingRows DEF Rest
<1>4. \A q \in Rest(stored, query, cursor.id) : Before(cursor, q, query.desc)
  BY <1>1 DEF Rest
<1> HIDE DEF page
<1>5. r.rows = page.rows /\ r.next = page.next
  BY DEF page
<1> QED BY <1>2, <1>3, <1>4, <1>5 DEF CompleteAfter

\* The page is appended to the list that ends with its cursor.
LEMMA PagesJoin ==
    ASSUME NEW store \in Stores, NEW query \in Queries, NEW ids, NEW list, NEW next, NEW r,
           Complete(store, list, next, query, ids), list # <<>>,
           CompleteAfter(store, r, list[Len(list)], query, ids)
    PROVE  Complete(store, list \o r.rows, r.next, query, ids)
<1> DEFINE l == Len(list)
           k == Len(r.rows)
           all == list \o r.rows
           c == list[l]
<1>1. /\ l \in Nat \ {0} /\ k \in Nat /\ query.desc \in BOOLEAN /\ query.ids \subseteq Ids
      /\ list \in Seq(ListRows) /\ r.rows \in Seq(ListRows)
      /\ \A n \in 1..l : list[n] \in ListRows
      /\ \A n \in 1..k : r.rows[n] \in ListRows
  BY ListAssumption, LenProperties, ElementOfSeq, EmptySeq DEF Complete, CompleteAfter
<1>2. /\ all \in Seq(ListRows) /\ Len(all) = l + k
      /\ \A n \in 1..l : all[n] = list[n]
      /\ \A n \in 1..k : all[l + n] = r.rows[n]
  <2>1. /\ all \in Seq(ListRows) /\ Len(all) = l + k
        /\ \A i \in 1..l + k : all[i] = IF i <= l THEN list[i] ELSE r.rows[i - l]
    BY <1>1, ConcatProperties
  <2> HIDE DEF all
  <2>2. ASSUME NEW n \in 1..l PROVE all[n] = list[n]
    <3>1. n \in 1..l + k /\ n <= l
      BY <1>1
    <3> QED BY <2>1, <3>1
  <2>3. ASSUME NEW n \in 1..k PROVE all[l + n] = r.rows[n]
    <3>1. l + n \in 1..l + k /\ ~(l + n <= l) /\ l + n - l = n
      BY <1>1
    <3> QED BY <2>1, <3>1
  <2> QED BY <2>1, <2>2, <2>3
<1> HIDE DEF all
<1>3. /\ \A m, n \in 1..l : m < n => Before(list[m], list[n], query.desc)
      /\ \A m, n \in 1..k : m < n => Before(r.rows[m], r.rows[n], query.desc)
      /\ \A n \in 1..k : Before(c, r.rows[n], query.desc)
  BY DEF Complete, CompleteAfter, InSequence
<1>4. c \in ListRows /\ l \in 1..l
  BY <1>1
<1>5. InSequence(all, query.desc)
  <2> SUFFICES ASSUME NEW m \in 1..l + k, NEW n \in 1..l + k, m < n
               PROVE  Before(all[m], all[n], query.desc)
    BY <1>2 DEF InSequence
  <2>1. CASE n <= l
    <3>1. m \in 1..l /\ n \in 1..l
      BY <1>1, <2>1
    <3> QED BY <1>2, <1>3, <3>1
  <2>2. CASE m > l
    <3>1. m - l \in 1..k /\ n - l \in 1..k /\ m - l < n - l /\ l + (m - l) = m /\ l + (n - l) = n
      BY <1>1, <2>2
    <3>2. all[m] = r.rows[m - l] /\ all[n] = r.rows[n - l]
      BY <1>2, <3>1
    <3> QED BY <1>3, <3>1, <3>2
  <2>3. CASE m <= l /\ n > l
    <3>1. m \in 1..l /\ n - l \in 1..k /\ l + (n - l) = n /\ (m = l \/ m < l)
      BY <1>1, <2>3
    <3>2. all[m] = list[m] /\ all[n] = r.rows[n - l]
      BY <1>2, <3>1
    <3>3. all[m] = c \/ Before(all[m], c, query.desc)
      BY <1>3, <1>4, <3>1, <3>2
    <3>4. Before(c, all[n], query.desc) /\ all[m] \in ListRows /\ all[n] \in ListRows
      BY <1>1, <1>3, <3>1, <3>2
    <3> QED BY <1>1, <1>4, <3>3, <3>4, BeforeOrders
  <2> QED BY <1>1, <2>1, <2>2, <2>3
<1>6. all # <<>> /\ (k # 0 => all[Len(all)] = r.rows[k])
  <2>1. Len(all) # 0
    BY <1>1, <1>2
  <2>2. k # 0 => k \in 1..k
    BY <1>1
  <2> QED BY <1>2, <2>1, <2>2, EmptySeq
<1>7. ASSUME NEW i \in query.ids \cap ids, store[i] # Gone
      PROVE  Reached(all, r.next, query.desc, RowOf(store, i))
  <2> DEFINE row == RowOf(store, i)
  <2>1. row \in ListRows /\ row.id = i
    BY <1>1, <1>7 DEF RowOf, ListRows, Stores
  <2>2. Reached(list, next, query.desc, row)
    BY <1>7 DEF Complete
  <2> HIDE DEF row
  <2>3. CASE Lists(list, i)
    <3>1. PICK n \in 1..l : list[n].id = i
      BY <2>3 DEF Lists
    <3>2. n \in 1..Len(all) /\ all[n].id = i
      BY <1>1, <1>2, <3>1
    <3> QED BY <2>1, <3>2 DEF Reached, Lists, row
  <2>4. CASE ~Lists(list, i)
    <3>1. ~Before(row, c, query.desc)
      BY <2>1, <2>2, <2>4 DEF Reached
    <3>2. c.id # i
      BY <1>4, <2>4 DEF Lists
    <3>3. Before(c, row, query.desc)
      BY <1>1, <1>4, <2>1, <3>1, <3>2, BeforeOrders
    <3>4. Reached(r.rows, r.next, query.desc, row)
      BY <1>7, <3>3 DEF CompleteAfter, row
    <3>5. CASE Lists(r.rows, i)
      <4>1. PICK n \in 1..k : r.rows[n].id = i
        BY <3>5 DEF Lists
      <4>2. l + n \in 1..Len(all) /\ all[l + n].id = i
        BY <1>1, <1>2, <4>1
      <4> QED BY <2>1, <4>2 DEF Reached, Lists, row
    <3>6. CASE r.next # NoCursor /\ r.rows # <<>> /\ ~Before(row, r.rows[k], query.desc)
      <4>1. k # 0
        BY <1>1, <3>6, EmptySeq
      <4> QED BY <1>6, <3>6, <4>1 DEF Reached, row
    <3> QED BY <2>1, <3>4, <3>5, <3>6 DEF Reached
  <2> QED BY <2>3, <2>4
<1> QED BY <1>2, <1>5, <1>6, <1>7 DEF Complete, all

SameBut(store, store2, ids) == \A i \in Ids \ ids : store2[i] = store[i]

Shrunk(v, ids) == [v EXCEPT !.steady = @ \ ids]

\* Rows in ids may have changed: the others are as they were.
LEMMA ChangeKeeps ==
    ASSUME NEW store, NEW store2, NEW ids, \A i \in Ids \ ids : store2[i] = store[i]
    PROVE  /\ \A list, next, steady : \A query \in Queries :
                 Complete(store, list, next, query, steady)
                     => Complete(store2, list, next, query, steady \ ids)
           /\ \A r, cursor, steady : \A query \in Queries :
                 CompleteAfter(store, r, cursor, query, steady)
                     => CompleteAfter(store2, r, cursor, query, steady \ ids)
<1>1. \A query \in Queries : query.ids \subseteq Ids
  BY ListAssumption
<1>2. \A i \in Ids \ ids : RowOf(store2, i) = RowOf(store, i)
  BY DEF RowOf
<1>3. ASSUME NEW list, NEW next, NEW steady, NEW query \in Queries,
             Complete(store, list, next, query, steady)
      PROVE  Complete(store2, list, next, query, steady \ ids)
  BY <1>1, <1>2, <1>3 DEF Complete
<1>4. ASSUME NEW r, NEW cursor, NEW steady, NEW query \in Queries,
             CompleteAfter(store, r, cursor, query, steady)
      PROVE  CompleteAfter(store2, r, cursor, query, steady \ ids)
  BY <1>1, <1>2, <1>4 DEF CompleteAfter
<1> QED BY <1>3, <1>4

LEMMA ShrunkKeeps ==
    ASSUME NEW store, NEW store2, NEW ids, SameBut(store, store2, ids),
           NEW v, CompleteReading(store, v)
    PROVE  /\ CompleteReading(store2, Shrunk(v, ids))
           /\ Shrunk(v, ids).query = v.query /\ Shrunk(v, ids).steady = v.steady \ ids
<1> DEFINE w == Shrunk(v, ids)
<1>1. /\ w.query = v.query /\ w.rows = v.rows /\ w.next = v.next /\ w.steady = v.steady \ ids
      /\ w = [query |-> w.query, seen |-> w.seen, rows |-> w.rows, next |-> w.next, steady |-> w.steady]
  BY DEF CompleteReading, Shrunk
<1>2. /\ Complete(store2, v.rows, v.next, v.query, v.steady \ ids) /\ v.query \in Queries
      /\ v.steady \subseteq Ids
  BY ChangeKeeps DEF CompleteReading, SameBut
<1> HIDE DEF w
<1>3. CompleteReading(store2, w)
  BY <1>1, <1>2 DEF CompleteReading
<1> QED BY <1>1, <1>3 DEF w

\* What a hook has, when its value stays.
Keeps(g, h) == IsQuery(g) /\ g.value = h.value /\ g.reply \in {h.reply, None} /\ g.key = h.key

LEMMA ScheduleKeeps ==
    ASSUME NEW h, IsQuery(h), NEW wait
    PROVE  Keeps(Schedule(h, wait), h) /\ Keeps(Notified(h, wait), h) /\ Keeps(TimerFires(h), h)
  BY DEF Schedule, Begin, Notified, TimerFires, IsQuery, Keeps

LEMMA RestartKeeps ==
    ASSUME NEW h, IsQuery(h), NEW q, NEW mode
    PROVE  /\ IsQuery(Restart(h, q, mode)) /\ Restart(h, q, mode).value = h.value
           /\ Restart(h, q, mode).key = q /\ Restart(h, q, mode).reply = None
  BY DEF Restart, Begin, IsQuery

LEMMA FinishKeeps ==
    ASSUME NEW h, IsQuery(h), NEW ok \in BOOLEAN, NEW wait
    PROVE  /\ IsQuery(Finished(h, ok, wait)) /\ Finished(h, ok, wait).key = h.key
           /\ Finished(h, ok, wait).reply = None
           /\ Finished(h, ok, wait).value = IF ok THEN h.reply ELSE h.value
<1> DEFINE done == [h EXCEPT !.running = FALSE, !.reply = None, !.failed = ~ok,
                             !.value = IF ok THEN h.reply ELSE @]
<1>1. /\ IsQuery(done) /\ done.value = (IF ok THEN h.reply ELSE h.value) /\ done.key = h.key
      /\ done.reply = None
  BY DEF IsQuery
<1>2. Finished(h, ok, wait) = IF h.trailing THEN Schedule(done, wait) ELSE [done EXCEPT !.loading = FALSE]
  BY DEF Finished
<1> HIDE DEF done
<1>3. Keeps(Schedule(done, wait), done)
  BY <1>1, ScheduleKeeps
<1>4. Keeps([done EXCEPT !.loading = FALSE], done)
  BY <1>1 DEF IsQuery, Keeps
<1>5. CASE h.trailing
  BY <1>1, <1>2, <1>3, <1>5 DEF Keeps
<1>6. CASE ~h.trailing
  BY <1>1, <1>2, <1>4, <1>6 DEF Keeps
<1> QED BY <1>5, <1>6

\* useCursorPages starts over from a reading.
LEMMA StartsOver ==
    ASSUME NEW v, v # None => CompleteReading(stored, v), StartOver(v), \A f \in more : IsFetch(f)
    PROVE  /\ \A f \in more' : IsFetch(f)
           /\ DOMAIN pages' = {"rows", "next", "loadingMore", "astray"}
           /\ OnScreen(stored, pages', v, more')
<1>1. more' = {[f EXCEPT !.stale = TRUE] : f \in more} /\ pages' = FirstPage(v)
  BY DEF StartOver
<1>2. ASSUME NEW g \in more' PROVE IsFetch(g) /\ g.stale
  <2>1. PICK f \in more : g = [f EXCEPT !.stale = TRUE]
    BY <1>1
  <2> QED BY <2>1 DEF IsFetch
<1>3. v # None => pages'.rows = v.rows /\ pages'.next = v.next
  BY <1>1 DEF FirstPage
<1>4. DOMAIN pages' = {"rows", "next", "loadingMore", "astray"}
  BY <1>1 DEF FirstPage
<1>5. v # None => Complete(stored, pages'.rows, pages'.next, v.query, v.steady)
  BY <1>3 DEF CompleteReading
<1> QED BY <1>2, <1>4, <1>5 DEF OnScreen

\* The hook has moved, and its value, the store and the pages have stayed.
LEMMA PagesStay ==
    ASSUME PagesInv, IsQuery(hook'), hook'.value = hook.value, hook'.key \in Queries,
           hook'.reply # None => CompleteReading(stored, hook'.reply),
           UNCHANGED <<backend, stored, pages, more>>
    PROVE  PagesInv'
<1>1. hook'.value # None => CompleteReading(stored, hook'.value)
  BY DEF PagesInv
<1>2. OnScreen(stored, pages, hook'.value, more)
  BY DEF PagesInv
<1>3. stored' = stored /\ backend' = backend /\ pages' = pages /\ more' = more
  OBVIOUS
<1>4. (hook.reply # None => CompleteReading(stored, hook.reply))'
  BY <1>3
<1>5. (hook.value # None => CompleteReading(stored, hook.value))'
  BY <1>1, <1>3
<1>6. OnScreen(stored, pages, hook.value, more)'
  BY <1>2, <1>3
<1>7. (\A f \in more : IsFetch(f))'
  BY <1>3 DEF PagesInv, IsFetch
<1> QED BY <1>3, <1>4, <1>5, <1>6, <1>7 DEF PagesInv, Stores, IsQuery

\* Rows change; the readings remember which did not.
LEMMA PagesChange ==
    ASSUME PagesInv, NEW ids, NEW store \in Stores, NEW announce,
           \A i \in Ids \ ids : store[i] = stored[i], Change(ids, store, announce)
    PROVE  PagesInv'
<1>1. /\ stored' = store /\ UNCHANGED <<backend, pages, more>>
      /\ hook'.value = Touched(hook.value, ids) /\ hook'.reply = Touched(hook.reply, ids)
      /\ hook'.key = hook.key /\ IsQuery(hook')
  BY DEF Change, PagesInv, IsQuery
<1>2. /\ \A v : v # None /\ CompleteReading(stored, v)
                   => /\ CompleteReading(store, Touched(v, ids))
                      /\ Touched(v, ids).query = v.query /\ Touched(v, ids).steady = v.steady \ ids
      /\ Touched(None, ids) = None
  <2>1. ASSUME NEW v, v # None, CompleteReading(stored, v)
        PROVE  /\ CompleteReading(store, Touched(v, ids))
               /\ Touched(v, ids).query = v.query /\ Touched(v, ids).steady = v.steady \ ids
    <3>1. Touched(v, ids) = Shrunk(v, ids)
      BY <2>1 DEF Touched, Shrunk
    <3>2. /\ CompleteReading(store, Shrunk(v, ids))
          /\ Shrunk(v, ids).query = v.query /\ Shrunk(v, ids).steady = v.steady \ ids
      <4>1. SameBut(stored, store, ids)
        BY DEF SameBut
      <4> QED BY <2>1, <4>1, ShrunkKeeps
    <3> QED BY <3>1, <3>2
  <2> QED BY <2>1 DEF Touched
<1>3. hook'.value # None => hook.value # None /\ CompleteReading(store, hook'.value)
                            /\ hook'.value.query = hook.value.query
                            /\ hook'.value.steady = hook.value.steady \ ids
  BY <1>1, <1>2 DEF PagesInv
<1>4. hook'.reply # None => CompleteReading(store, hook'.reply)
  BY <1>1, <1>2 DEF PagesInv
<1>5. ASSUME hook'.value # None, ~pages.astray
      PROVE  /\ Complete(store, pages.rows, pages.next, hook'.value.query, hook'.value.steady)
             /\ \A f \in more : ~f.stale => FetchInv(store, pages, hook'.value, f)
             /\ \A f, g \in more : ~f.stale /\ ~g.stale => f = g
  <2>1. /\ Complete(stored, pages.rows, pages.next, hook.value.query, hook.value.steady)
        /\ \A f \in more : ~f.stale => FetchInv(stored, pages, hook.value, f)
        /\ \A f, g \in more : ~f.stale /\ ~g.stale => f = g
        /\ hook.value.query \in Queries
    BY <1>3, <1>5 DEF PagesInv, OnScreen, CompleteReading
  <2>2. ASSUME NEW f \in more, ~f.stale PROVE FetchInv(store, pages, hook'.value, f)
    <3>1. FetchInv(stored, pages, hook.value, f)
      BY <2>1, <2>2
    <3>2. (f.reply # None /\ f.reply.still)
             => CompleteAfter(store, f.reply, f.cursor, f.query, hook.value.steady \ ids)
      BY <2>1, <3>1, ChangeKeeps DEF FetchInv
    <3> QED BY <1>3, <1>5, <3>1, <3>2 DEF FetchInv
  <2>3. Complete(store, pages.rows, pages.next, hook.value.query, hook.value.steady \ ids)
    BY <2>1, ChangeKeeps
  <2> QED BY <1>3, <1>5, <2>1, <2>2, <2>3
<1>6. OnScreen(store, pages, hook'.value, more)
  BY <1>5 DEF OnScreen
<1>7. OnScreen(stored, pages, hook.value, more)'
  BY <1>1, <1>6
<1>8. (hook.reply # None => CompleteReading(stored, hook.reply))'
      /\ (hook.value # None => CompleteReading(stored, hook.value))'
  BY <1>1, <1>3, <1>4
<1>9. (\A f \in more : IsFetch(f))'
  BY <1>1 DEF PagesInv, IsFetch
<1> QED BY <1>1, <1>7, <1>8, <1>9 DEF PagesInv, Stores, IsQuery

LEMMA PagesMove ==
    ASSUME PagesInv, ListNext
    PROVE  PagesInv'
<1>0. /\ stored \in Stores /\ backend \in {"sqlite", "memory"} /\ hook.key \in Queries /\ IsQuery(hook)
      /\ hook.reply # None => CompleteReading(stored, hook.reply)
      /\ hook.value # None => CompleteReading(stored, hook.value)
      /\ \A f \in more : IsFetch(f)
      /\ DOMAIN pages = {"rows", "next", "loadingMore", "astray"}
      /\ OnScreen(stored, pages, hook.value, more)
  BY DEF PagesInv
<1>1. CASE Ingest
  <2> PICK r \in Arrivals : Change({r.id}, [stored EXCEPT ![r.id] = r.key], TRUE)
    BY <1>1 DEF Ingest
  <2> DEFINE store == [stored EXCEPT ![r.id] = r.key]
  <2>1. store \in Stores /\ \A i \in Ids \ {r.id} : store[i] = stored[i]
    BY <1>0, ListAssumption DEF Stores
  <2> HIDE DEF store
  <2>2. Change({r.id}, store, TRUE)
    BY DEF store
  <2> QED BY <1>0, <2>1, <2>2, PagesChange
<1>2. CASE ClearAll
  <2> DEFINE store == [i \in Ids |-> Gone]
  <2>1. store \in Stores /\ \A i \in Ids \ Ids : store[i] = stored[i]
    BY DEF Stores
  <2> HIDE DEF store
  <2>2. Change(Ids, store, TRUE)
    BY <1>2 DEF ClearAll, store
  <2> QED BY <1>0, <2>1, <2>2, PagesChange
<1>3. CASE Prune
  <2> PICK i \in Expiring : Change({i}, [stored EXCEPT ![i] = Gone], FALSE)
    BY <1>3 DEF Prune
  <2> DEFINE store == [stored EXCEPT ![i] = Gone]
  <2>1. store \in Stores /\ \A j \in Ids \ {i} : store[j] = stored[j]
    BY <1>0 DEF Stores
  <2> HIDE DEF store
  <2>2. Change({i}, store, FALSE)
    BY DEF store
  <2> QED BY <1>0, <2>1, <2>2, PagesChange
<1>4. ASSUME NEW g, hook' = g, Keeps(g, hook), UNCHANGED <<backend, stored, pages, more>>
      PROVE  PagesInv'
  BY <1>0, <1>4, PagesStay DEF Keeps
<1>5. CASE ChangeQuery
  <2> PICK q \in Queries : Rerun(q, hook.mode) /\ StartOver(hook.value) /\ UNCHANGED storeVars
    BY <1>5 DEF ChangeQuery
  <2>1. /\ hook'.value = hook.value /\ hook'.key = q /\ hook'.reply = None /\ IsQuery(hook')
        /\ stored' = stored /\ backend' = backend
    <3>1. hook' = Restart(hook, q, hook.mode) /\ stored' = stored /\ backend' = backend
      BY DEF Rerun, storeVars
    <3> QED BY <1>0, <3>1, RestartKeeps
  <2>2. /\ \A f \in more' : IsFetch(f)
        /\ DOMAIN pages' = {"rows", "next", "loadingMore", "astray"}
        /\ OnScreen(stored, pages', hook.value, more')
    BY <1>0, StartsOver
  <2>3. OnScreen(stored, pages, hook.value, more)' /\ (\A f \in more : IsFetch(f))'
    BY <2>1, <2>2 DEF IsFetch
  <2>4. (hook.value # None => CompleteReading(stored, hook.value))'
    BY <1>0, <2>1
  <2> QED BY <1>0, <2>1, <2>2, <2>3, <2>4 DEF PagesInv, Stores, IsQuery
<1>6. CASE TogglePause
  <2> DEFINE g == Restart(hook, hook.key, IF hook.mode = "live" THEN "paused" ELSE "live")
  <2>1. hook' = g /\ UNCHANGED <<backend, stored, pages, more>>
    BY <1>6 DEF TogglePause, Rerun, storeVars
  <2>2. Keeps(g, hook)
    BY <1>0, RestartKeeps DEF Keeps
  <2> QED BY <1>4, <2>1, <2>2
<1>7. CASE Hint \/ Timer \/ Fail \/ Settle
  <2>1. UNCHANGED <<backend, stored, pages, more>>
    BY <1>7 DEF Hint, Timer, Fail, Settle, storeVars
  <2>2. Keeps(hook', hook)
    <3>1. CASE Hint
      BY <1>0, <3>1, ScheduleKeeps DEF Hint
    <3>2. CASE Timer
      BY <1>0, <3>2, ScheduleKeeps DEF Timer
    <3>3. CASE Fail
      <4> PICK wait \in BOOLEAN : hook' = Finished(hook, FALSE, wait)
        BY <3>3 DEF Fail
      <4> QED BY <1>0, FinishKeeps DEF Keeps
    <3>4. CASE Settle
      BY <1>0, <3>4 DEF Settle, Keeps
    <3> QED BY <1>7, <3>1, <3>2, <3>3, <3>4
  <2> QED BY <1>4, <2>1, <2>2
<1>8. CASE Answer
  <2>1. /\ hook' = [hook EXCEPT !.reply = Reading(hook.key)]
        /\ UNCHANGED <<backend, stored, pages, more>>
    BY <1>8 DEF Answer, storeVars
  <2>2. /\ hook'.reply = Reading(hook.key) /\ hook'.value = hook.value /\ hook'.key = hook.key
        /\ IsQuery(hook')
    BY <1>0, <2>1 DEF IsQuery
  <2>3. CompleteReading(stored, hook'.reply)
    BY <1>0, <2>2, ReadingFits
  <2> QED BY <1>0, <2>1, <2>2, <2>3, PagesStay
<1>9. CASE Deliver
  <2> PICK wait \in BOOLEAN : /\ hook.reply # None /\ hook' = Finished(hook, TRUE, wait)
                              /\ StartOver(hook.reply) /\ UNCHANGED storeVars
    BY <1>9 DEF Deliver
  <2>1. /\ hook'.value = hook.reply /\ hook'.key = hook.key /\ hook'.reply = None /\ IsQuery(hook')
        /\ stored' = stored /\ backend' = backend
    BY <1>0, FinishKeeps DEF storeVars
  <2>2. /\ \A f \in more' : IsFetch(f)
        /\ DOMAIN pages' = {"rows", "next", "loadingMore", "astray"}
        /\ OnScreen(stored, pages', hook.reply, more')
    BY <1>0, StartsOver
  <2>3. OnScreen(stored, pages, hook.value, more)' /\ (\A f \in more : IsFetch(f))'
    BY <2>1, <2>2 DEF IsFetch
  <2>4. (hook.value # None => CompleteReading(stored, hook.value))'
    BY <1>0, <2>1
  <2> QED BY <1>0, <2>1, <2>2, <2>3, <2>4 DEF PagesInv, Stores, IsQuery
\* A fetch of a further page: the hook and the store have stayed.
<1>10. ASSUME UNCHANGED <<backend, stored, hook>>, \A f \in more' : IsFetch(f),
              DOMAIN pages' = {"rows", "next", "loadingMore", "astray"},
              OnScreen(stored, pages', hook.value, more')
       PROVE  PagesInv'
  <2>1. OnScreen(stored, pages, hook.value, more)' /\ (\A f \in more : IsFetch(f))'
    BY <1>10 DEF IsFetch
  <2>2. (hook.value # None => CompleteReading(stored, hook.value))'
        /\ (hook.reply # None => CompleteReading(stored, hook.reply))'
    BY <1>0, <1>10
  <2> QED BY <1>0, <1>10, <2>1, <2>2 DEF PagesInv, Stores, IsQuery
<1>11. CASE LoadMore
  <2> PICK n \in 1..MaxMore :
        more' = more \cup {[n |-> n, cursor |-> Last(pages.rows), query |-> hook.key,
                            stale |-> hook.key # hook.value.query, reply |-> None]}
    BY <1>11 DEF LoadMore
  <2> DEFINE new == [n |-> n, cursor |-> Last(pages.rows), query |-> hook.key,
                     stale |-> hook.key # hook.value.query, reply |-> None]
  <2>1. /\ pages.next # NoCursor /\ ~pages.loadingMore
        /\ pages' = [pages EXCEPT !.loadingMore = TRUE]
        /\ UNCHANGED <<backend, stored, hook>>
    BY <1>11 DEF LoadMore, storeVars
  <2>2. IsFetch(new) /\ new.cursor = pages.rows[Len(pages.rows)] /\ new.query = hook.key
        /\ new.reply = None
    BY DEF IsFetch, Last
  <2>3. ~new.stale => hook.key = hook.value.query
    OBVIOUS
  <2>4. more' = more \cup {new}
    OBVIOUS
  <2> HIDE DEF new
  <2>5. /\ pages'.rows = pages.rows /\ pages'.next = pages.next /\ pages'.loadingMore = TRUE
        /\ pages'.astray = pages.astray
        /\ DOMAIN pages' = {"rows", "next", "loadingMore", "astray"}
    BY <1>0, <2>1
  <2>6. ASSUME hook.value # None, ~pages.astray
        PROVE  /\ Complete(stored, pages'.rows, pages'.next, hook.value.query, hook.value.steady)
               /\ \A f \in more' : ~f.stale => FetchInv(stored, pages', hook.value, f)
               /\ \A f, g \in more' : ~f.stale /\ ~g.stale => f = g
    <3>1. /\ Complete(stored, pages.rows, pages.next, hook.value.query, hook.value.steady)
          /\ \A f \in more : f.stale
          /\ pages.rows # <<>>
      BY <1>0, <2>1, <2>6 DEF OnScreen, FetchInv, Complete
    <3>2. ~new.stale => FetchInv(stored, pages', hook.value, new)
      BY <2>2, <2>3, <2>5, <3>1 DEF FetchInv
    <3> QED BY <2>4, <2>5, <3>1, <3>2
  <2>7. OnScreen(stored, pages', hook.value, more')
    BY <2>5, <2>6 DEF OnScreen
  <2>8. \A f \in more' : IsFetch(f)
    BY <1>0, <2>2, <2>4
  <2> QED BY <1>10, <2>1, <2>5, <2>7, <2>8
<1>12. CASE AnswerMore
  <2> PICK f \in more :
        LET page == PageFrom(backend, stored, f.query, f.cursor.id)
            still == stored[f.cursor.id] = f.cursor.key /\ f.cursor.id \in f.query.ids
        IN more' = (more \ {f}) \cup
                   {[f EXCEPT !.reply = [rows |-> page.rows, next |-> page.next, still |-> still]]}
    BY <1>12 DEF AnswerMore
  <2> DEFINE page == PageFrom(backend, stored, f.query, f.cursor.id)
             still == stored[f.cursor.id] = f.cursor.key /\ f.cursor.id \in f.query.ids
             r == [rows |-> page.rows, next |-> page.next, still |-> still]
             new == [f EXCEPT !.reply = r]
  <2>1. r.rows = page.rows /\ r.next = page.next /\ (r.still => still)
    OBVIOUS
  <2>2. more' = (more \ {f}) \cup {new}
    OBVIOUS
  <2> HIDE DEF r, page, still
  <2>3. IsFetch(new) /\ new.cursor = f.cursor /\ new.query = f.query /\ new.stale = f.stale /\ new.reply = r
    BY <1>0 DEF IsFetch
  <2> HIDE DEF new
  <2>4. UNCHANGED <<backend, stored, hook, pages>>
    BY <1>12 DEF AnswerMore, storeVars
  <2>5. ASSUME hook.value # None, ~pages.astray, ~new.stale
        PROVE  FetchInv(stored, pages, hook.value, new)
    <3>1. /\ FetchInv(stored, pages, hook.value, f) /\ hook.value.query \in Queries
          /\ pages.rows \in Seq(ListRows)
      BY <1>0, <2>3, <2>5 DEF OnScreen, Complete, CompleteReading
    <3>2. f.cursor \in ListRows
      BY <3>1, EmptySeq, ElementOfSeq, LenProperties DEF FetchInv
    <3>3. r.still => CompleteAfter(stored, r, f.cursor, f.query, hook.value.steady)
      BY <1>0, <2>1, <3>1, <3>2, AfterFits DEF FetchInv, page, still
    <3> QED BY <2>3, <3>1, <3>3 DEF FetchInv
  <2>6. ASSUME hook.value # None, ~pages.astray
        PROVE  \A g, k \in more' : ~g.stale /\ ~k.stale => g = k
    BY <1>0, <2>2, <2>3, <2>6 DEF OnScreen
  <2>7. OnScreen(stored, pages, hook.value, more')
    BY <1>0, <2>2, <2>5, <2>6 DEF OnScreen
  <2>8. \A g \in more' : IsFetch(g)
    BY <1>0, <2>2, <2>3
  <2> QED BY <1>0, <1>10, <2>4, <2>7, <2>8
<1>13. CASE DeliverMore
  <2> PICK f \in more :
        /\ f.reply # None
        /\ more' = more \ {f}
        /\ pages' = [rows |-> pages.rows \o f.reply.rows, next |-> f.reply.next,
                     loadingMore |-> FALSE,
                     astray |-> pages.astray \/ f.stale \/ ~f.reply.still]
    BY <1>13 DEF DeliverMore
  <2>1. /\ pages'.rows = pages.rows \o f.reply.rows /\ pages'.next = f.reply.next
        /\ ~pages'.astray => ~pages.astray /\ ~f.stale /\ f.reply.still
        /\ DOMAIN pages' = {"rows", "next", "loadingMore", "astray"}
    OBVIOUS
  <2>2. UNCHANGED <<backend, stored, hook>>
    BY <1>13 DEF DeliverMore, storeVars
  <2>3. ASSUME hook.value # None, ~pages'.astray
        PROVE  /\ Complete(stored, pages'.rows, pages'.next, hook.value.query, hook.value.steady)
               /\ \A g \in more' : g.stale
    <3>1. /\ FetchInv(stored, pages, hook.value, f) /\ hook.value.query \in Queries
          /\ Complete(stored, pages.rows, pages.next, hook.value.query, hook.value.steady)
          /\ \A g \in more : ~g.stale => g = f
      BY <1>0, <2>1, <2>3 DEF OnScreen, CompleteReading
    <3>2. pages.rows # <<>>
          /\ CompleteAfter(stored, f.reply, pages.rows[Len(pages.rows)], hook.value.query, hook.value.steady)
      BY <2>1, <2>3, <3>1 DEF FetchInv
    <3>3. Complete(stored, pages.rows \o f.reply.rows, f.reply.next, hook.value.query, hook.value.steady)
      BY <1>0, <3>1, <3>2, PagesJoin
    <3> QED BY <2>1, <3>1, <3>3
  <2>4. OnScreen(stored, pages', hook.value, more')
    BY <2>3 DEF OnScreen
  <2> QED BY <1>0, <1>10, <2>1, <2>2, <2>4
<1>14. CASE FailMore
  <2> PICK f \in more :
        /\ more' = more \ {f}
        /\ pages' = [pages EXCEPT !.loadingMore = FALSE, !.astray = @ \/ f.stale]
    BY <1>14 DEF FailMore
  <2>1. /\ pages'.rows = pages.rows /\ pages'.next = pages.next
        /\ ~pages'.astray => ~pages.astray /\ ~f.stale
        /\ DOMAIN pages' = {"rows", "next", "loadingMore", "astray"}
    BY <1>0
  <2>2. UNCHANGED <<backend, stored, hook>>
    BY <1>14 DEF FailMore, storeVars
  <2>3. OnScreen(stored, pages', hook.value, more')
    BY <1>0, <2>1 DEF OnScreen
  <2> QED BY <1>0, <1>10, <2>1, <2>2, <2>3
<1> QED BY <1>1, <1>2, <1>3, <1>5, <1>6, <1>7, <1>8, <1>9, <1>11, <1>12, <1>13, <1>14 DEF ListNext

(* As long as each page followed the one before it, the rows on screen are  *)
(* in order and none that stayed where it was is missing (useCursorPages.ts *)
(* over listTraces and listLogs), for any rows, queries and page size, both *)
(* stores, and changes and fetches in any order.                            *)
THEOREM PagesFitCorrect == Spec => []PagesFit
<1>1. Init => PagesInv
  <2> SUFFICES ASSUME ListInit PROVE PagesInv
    BY DEF Init
  <2>1. /\ stored \in Stores /\ backend \in {"sqlite", "memory"} /\ more = {}
        /\ DOMAIN pages = {"rows", "next", "loadingMore", "astray"}
    BY ListAssumption DEF ListInit, FirstPage, Stores
  <2>2. hook.key \in Queries /\ hook.reply = None /\ hook.value = None /\ IsQuery(hook)
    <3> PICK q \in Queries : hook = Restart(Mounted(q), q, "live")
      BY DEF ListInit
    <3>1. IsQuery(Mounted(q)) /\ Mounted(q).value = None
      BY DEF Mounted, IsQuery
    <3>2. /\ Restart(Mounted(q), q, "live").value = None
          /\ Restart(Mounted(q), q, "live").key = q /\ Restart(Mounted(q), q, "live").reply = None
          /\ IsQuery(Restart(Mounted(q), q, "live"))
      BY <3>1, RestartKeeps
    <3> QED BY <3>2
  <2> QED BY <2>1, <2>2 DEF PagesInv, OnScreen
<1>2. PagesInv /\ [Next]_vars => PagesInv'
  <2> SUFFICES ASSUME PagesInv, [Next]_vars PROVE PagesInv'
    OBVIOUS
  <2>1. CASE ListNext
    BY <2>1, PagesMove
  <2>2. CASE UNCHANGED listVars
    <3>1. UNCHANGED <<backend, stored, hook, pages, more>>
      BY <2>2 DEF listVars, storeVars, viewVars
    <3>2. hook'.key \in Queries /\ (hook'.reply # None => CompleteReading(stored, hook'.reply))
          /\ IsQuery(hook')
      BY <3>1 DEF PagesInv
    <3> QED BY <3>1, <3>2, PagesStay
  <2> QED BY <2>1, <2>2
       DEF Next, vars, OnList, OnTrace, OnMetrics, OnLog, OnWaterfall
<1>3. PagesInv => PagesFit
  <2> SUFFICES ASSUME PagesInv, hook.value # None, ~pages.astray PROVE PagesFit
    BY DEF PagesFit
  <2> DEFINE q == hook.value.query
             shown == pages.rows
             k == Len(shown)
  <2>1. Complete(stored, shown, pages.next, q, hook.value.steady)
    BY DEF PagesInv, OnScreen
  <2>2. DOMAIN shown = 1..k /\ shown \in Seq(ListRows) /\ Last(shown) = shown[k]
    BY <2>1, LenProperties DEF Complete, Last
  <2>3. \A m, n \in DOMAIN shown : m < n => Before(shown[m], shown[n], q.desc)
    BY <2>1, <2>2 DEF Complete, InSequence
  <2>4. ASSUME NEW i \in q.ids \cap hook.value.steady, stored[i] # Gone,
               \A n \in DOMAIN shown : shown[n].id # i
        PROVE  /\ shown # <<>> => ~Before([id |-> i, key |-> stored[i]], Last(shown), q.desc)
               /\ pages.next # NoCursor
    <3>1. Reached(shown, pages.next, q.desc, RowOf(stored, i))
      BY <2>1, <2>4 DEF Complete
    <3> QED BY <2>2, <2>4, <3>1 DEF Reached, Lists, RowOf
  <2> QED BY <2>3, <2>4 DEF PagesFit
<1> QED BY <1>1, <1>2, <1>3, PTL DEF Spec

-----------------------------------------------------------------------------
(***************************************************************************)
(* The waterfall.                                                          *)
(***************************************************************************)

Trees == [spans : (SUBSET Spans) \ {{}}, parent : [Spans -> Spans \cup {NoSpan}], start : [Spans -> Starts]]

LEMMA LeastNumber ==
    ASSUME NEW C \in SUBSET Nat, C # {}
    PROVE  \E n \in C : \A m \in C : n <= m
<1>1. PICK k \in C : k \in Nat
  OBVIOUS
<1> DEFINE D == {0..n : n \in {m \in C : m <= k}}
           W == 0..k
<1>2. PICK T \in D : \A U \in D : U \subseteq T => U = T
  <2>1. D \subseteq SUBSET W
    <3>1. ASSUME NEW m \in C, m <= k PROVE 0..m \subseteq 0..k
      BY <1>1, <3>1
    <3> QED BY <3>1
  <2>2. IsFiniteSet(W)
    BY <1>1, FS_Interval
  <2>3. D # {}
    <3>1. k \in C /\ k <= k
      BY <1>1
    <3>2. 0..k \in D
      BY <3>1
    <3> QED BY <3>2
  <2> HIDE DEF D, W
  <2> QED BY <2>1, <2>2, <2>3, SmallestPart
<1>3. PICK n \in C : n <= k /\ T = 0..n
  BY <1>2
<1>4. ASSUME NEW m \in C PROVE n <= m
  <2>1. SUFFICES ASSUME m <= n PROVE m = n
    BY <1>4
  <2>2. 0..m \in D /\ 0..m \subseteq 0..n
    BY <1>1, <1>3, <2>1
  <2>3. 0..m = 0..n
    BY <1>2, <1>3, <2>2
  <2>4. n \in 0..m
    BY <2>3
  <2> QED BY <2>1, <2>4
<1> QED BY <1>4

LEMMA TreeFacts ==
    ASSUME NEW t \in Trees
    PROVE  /\ t.spans \subseteq Spans /\ t.spans # {} /\ IsFiniteSet(t.spans) /\ t.spans \subseteq Nat
           /\ NoSpan \notin t.spans
           /\ \A s \in t.spans : t.start[s] \in Nat /\ Parent(t, s) \in t.spans \cup {NoSpan}
<1>1. IsFiniteSet(Spans) /\ Spans \subseteq Nat
  <2>1. PICK n \in Nat : Spans = 1..n
    BY WaterfallPaneAssumption
  <2> QED BY <2>1, FS_Interval
<1>2. t.spans \in (SUBSET Spans) \ {{}}
  BY DEF Trees
<1>3. \A s \in t.spans : t.start[s] \in Nat
  BY <1>2, WaterfallPaneAssumption DEF Trees
<1>4. IsFiniteSet(t.spans) /\ t.spans \subseteq Nat
  BY <1>1, <1>2, FS_Subset
<1>5. NoSpan \notin t.spans
  BY <1>2, WaterfallPaneAssumption
<1>6. t.spans \subseteq Spans /\ t.spans # {}
  BY <1>2
<1>7. \A s \in t.spans : Parent(t, s) \in t.spans \cup {NoSpan}
  BY DEF Parent
<1> QED BY <1>3, <1>4, <1>5, <1>6, <1>7

(* The root of a trace is a root of the layout, and starts first where there *)
(* is no other.                                                              *)
LEMMA RootIsRoot ==
    ASSUME NEW t \in Trees
    PROVE  /\ RootSpan(t) \in Roots(t) /\ Roots(t) \subseteq t.spans /\ Roots(t) # {}
           /\ Children(t, NoSpan) = {} =>
                /\ Roots(t) = {RootSpan(t)}
                /\ \A s \in t.spans : t.start[RootSpan(t)] <= t.start[s]
           /\ Children(t, NoSpan) # {} => \A s \in Roots(t) : Parent(t, s) = NoSpan
<1> DEFINE roots == Children(t, NoSpan)
<1>1. roots \subseteq t.spans /\ \A s \in roots : Parent(t, s) = NoSpan
  BY DEF Children
<1>2. CASE roots # {}
  <2>1. \E r \in roots : \A q \in roots : r <= q
    <3>1. roots \in SUBSET Nat
      BY <1>1, TreeFacts
    <3> HIDE DEF roots
    <3> QED BY <1>2, <3>1, LeastNumber
  <2>2. RootSpan(t) = CHOOSE r \in roots : \A q \in roots : r <= q
    BY <1>2 DEF RootSpan
  <2>3. RootSpan(t) \in roots
    BY <2>1, <2>2
  <2> QED BY <1>1, <1>2, <2>3 DEF Roots
<1>3. CASE roots = {}
  <2> DEFINE Earliest(r) ==
               \A q \in t.spans : t.start[r] < t.start[q] \/ (t.start[r] = t.start[q] /\ r <= q)
  <2>1. \E r \in t.spans : Earliest(r)
    <3> DEFINE starts == {t.start[s] : s \in t.spans}
    <3>1. PICK m \in starts : \A n \in starts : m <= n
      <4>1. starts \in SUBSET Nat /\ starts # {}
        BY TreeFacts
      <4> HIDE DEF starts
      <4> QED BY <4>1, LeastNumber
    <3> DEFINE first == {s \in t.spans : t.start[s] = m}
    <3>2. PICK r \in first : \A q \in first : r <= q
      <4>1. first \in SUBSET Nat /\ first # {}
        BY <3>1, TreeFacts
      <4> HIDE DEF first
      <4> QED BY <4>1, LeastNumber
    <3>3. r \in t.spans /\ t.start[r] = m
      BY <3>2
    <3>4. ASSUME NEW q \in t.spans
          PROVE  t.start[r] < t.start[q] \/ (t.start[r] = t.start[q] /\ r <= q)
      <4>1. m <= t.start[q] /\ m \in Nat /\ t.start[q] \in Nat
        BY <3>1, <3>3, TreeFacts
      <4>2. t.start[q] = m => r <= q
        BY <3>2
      <4> QED BY <3>3, <4>1, <4>2
    <3> QED BY <3>3, <3>4
  <2>2. RootSpan(t) = CHOOSE r \in t.spans : Earliest(r)
    BY <1>3 DEF RootSpan
  <2>3. RootSpan(t) \in t.spans /\ Earliest(RootSpan(t))
    <3> HIDE DEF Earliest
    <3> QED BY <2>1, <2>2
  <2>4. \A s \in t.spans : t.start[RootSpan(t)] <= t.start[s]
    BY <2>3, TreeFacts
  <2>5. Roots(t) = {RootSpan(t)}
    BY <1>3 DEF Roots
  <2> QED BY <1>3, <2>3, <2>4, <2>5
<1> QED BY <1>2, <1>3

\* Each of the spans is in the sequence once, by the number it has.
Sorted(q, S, key) ==
    /\ q \in Seq(S)
    /\ \A s \in S : \E n \in 1..Len(q) : q[n] = s
    /\ \A m, n \in 1..Len(q) : m < n => q[m] # q[n] /\ key[q[m]] <= key[q[n]]

(* A stable sort sorts.                                                      *)
LEMMA InTurnSorts ==
    ASSUME NEW S, IsFiniteSet(S), S \subseteq Nat, NEW key, \A s \in S : key[s] \in Nat
    PROVE  Sorted(InTurn(S, key), S, key)
<1> DEFINE R == {p \in S \X S : key[p[1]] < key[p[2]] \/ (key[p[1]] = key[p[2]] /\ p[1] < p[2])}
           q == InTurn(S, key)
<1>1. \A x, y \in S : /\ x \in Nat /\ y \in Nat /\ key[x] \in Nat /\ key[y] \in Nat
                      /\ <<x, y>> \in R <=> key[x] < key[y] \/ (key[x] = key[y] /\ x < y)
  OBVIOUS
<1> HIDE DEF R
<1>2. Orders(R, S)
  BY <1>1 DEF Orders
<1>3. \A x, y \in S : ~(<<y, x>> \in R) <=> key[x] < key[y] \/ (key[x] = key[y] /\ x <= y)
  BY <1>1
<1>4. \A s : IsOrdering(s, S, R) <=>
               /\ s \in [1..Cardinality(S) -> S]
               /\ \A c \in S : \E n \in DOMAIN s : s[n] = c
               /\ \A m, n \in DOMAIN s : m < n =>
                    key[s[m]] < key[s[n]] \/ (key[s[m]] = key[s[n]] /\ s[m] <= s[n])
  BY <1>3 DEF IsOrdering
<1>5. IsOrdering(q, S, R)
  <2>1. \E s : IsOrdering(s, S, R)
    BY <1>2, OrderingExists
  <2> QED BY <1>4, <2>1 DEF InTurn
<1> HIDE DEF q
<1>6. /\ q \in Seq(S)
      /\ \A s \in S : \E n \in 1..Len(q) : q[n] = s
      /\ \A m, n \in 1..Len(q) : m < n => q[m] # q[n] /\ <<q[m], q[n]>> \in R
  BY <1>2, <1>5, OrderingLists
<1>7. ASSUME NEW m \in 1..Len(q), NEW n \in 1..Len(q), m < n
      PROVE  q[m] # q[n] /\ key[q[m]] <= key[q[n]]
  <2>1. q[m] \in S /\ q[n] \in S /\ q[m] # q[n] /\ <<q[m], q[n]>> \in R
    BY <1>6, <1>7
  <2>2. \A x, y \in S : <<x, y>> \in R => key[x] <= key[y]
    BY <1>1
  <2> HIDE DEF q
  <2> QED BY <2>1, <2>2
<1>8. Sorted(q, S, key)
  BY <1>6, <1>7 DEF Sorted
<1> QED BY <1>8 DEF q

(* What is pushed has every one of the spans, the earlier before the later.  *)
LEMMA PushedInTurn ==
    ASSUME NEW t \in Trees, NEW S, S \subseteq t.spans, NEW d \in Nat
    PROVE  LET a == At(ByStart(t, S), d)
           IN  /\ a \in Seq([span : S, depth : {d}])
               /\ \A s \in S : \E n \in 1..Len(a) : a[n].span = s
               /\ \A m, n \in 1..Len(a) :
                    m < n => a[m].span # a[n].span /\ t.start[a[m].span] <= t.start[a[n].span]
<1> DEFINE q == ByStart(t, S)
           a == At(q, d)
<1>1. IsFiniteSet(S) /\ S \subseteq Nat /\ \A s \in S : t.start[s] \in Nat
  BY TreeFacts, FS_Subset
<1>2. /\ q \in Seq(S)
      /\ \A s \in S : \E n \in 1..Len(q) : q[n] = s
      /\ \A m, n \in 1..Len(q) : m < n => q[m] # q[n] /\ t.start[q[m]] <= t.start[q[n]]
  <2>1. Sorted(q, S, t.start)
    BY <1>1, InTurnSorts DEF ByStart
  <2> QED BY <2>1 DEF Sorted
<1> HIDE DEF q
<1>3. /\ DOMAIN q = 1..Len(q) /\ Len(q) \in Nat
      /\ \A n \in 1..Len(q) : q[n] \in S
  BY <1>2
<1>4. a = [n \in 1..Len(q) |-> [span |-> q[n], depth |-> d]]
  BY <1>3 DEF At
<1>5. a \in Seq([span : S, depth : {d}]) /\ Len(a) = Len(q)
  BY <1>3, <1>4, LenProperties
<1>6. \A n \in 1..Len(a) : a[n].span = q[n]
  BY <1>4, <1>5
<1>7. \A m, n \in 1..Len(a) :
         m < n => a[m].span # a[n].span /\ t.start[a[m].span] <= t.start[a[n].span]
  <2> SUFFICES ASSUME NEW m \in 1..Len(a), NEW n \in 1..Len(a), m < n
               PROVE  a[m].span # a[n].span /\ t.start[a[m].span] <= t.start[a[n].span]
    OBVIOUS
  <2>1. q[m] # q[n] /\ t.start[q[m]] <= t.start[q[n]]
    BY <1>2, <1>5
  <2>2. a[m].span = q[m] /\ a[n].span = q[n]
    BY <1>6
  <2> QED BY <2>1, <2>2
<1> QED BY <1>2, <1>5, <1>6, <1>7 DEF q

(***************************************************************************)
(* The walk.  Rows of the walk come first.  A row or an entry of the stack  *)
(* is a root, or comes below the row of its parent with nothing less deep   *)
(* between; what the walk has still to visit is never earlier than what it  *)
(* has visited of the same parent, but for what has its row already.        *)
(***************************************************************************)
Together(t, r, e) == r.depth + e.depth = 0 \/ Parent(t, r.span) = Parent(t, e.span)

HasRow(rs, s) == \E i \in DOMAIN rs : rs[i].span = s

Below(t, rs, j, e, last) ==
    /\ rs[j].span = Parent(t, e.span)
    /\ rs[j].depth + 1 = e.depth
    /\ \A m \in (j + 1)..last : rs[m].depth > rs[j].depth

\* Where a row or an entry belongs, given the rows up to the last.
Belongs(t, rs, e, last) ==
    IF e.depth = 0 THEN e.span \in Roots(t)
    ELSE \E j \in 1..Len(rs) : j <= last /\ Below(t, rs, j, e, last)

RowRecords(t) == [span : t.spans, depth : Nat, hasChildren : BOOLEAN, appended : BOOLEAN]

Laid(t, rs) ==
    /\ rs \in Seq(RowRecords(t))
    /\ \A i, j \in 1..Len(rs) : rs[i].span = rs[j].span => i = j
    /\ \A i \in 1..Len(rs) : rs[i].depth < i
    /\ \A i \in 1..Len(rs) : rs[i].hasChildren <=> ~rs[i].appended /\ Children(t, rs[i].span) # {}
    /\ \A i, j \in 1..Len(rs) : i < j /\ ~rs[j].appended => ~rs[i].appended
    /\ \A i \in 1..Len(rs) : ~rs[i].appended => Belongs(t, rs, rs[i], i)
    /\ \A i, j \in 1..Len(rs) : i < j /\ ~rs[j].appended /\ Together(t, rs[i], rs[j])
                                  => t.start[rs[i].span] <= t.start[rs[j].span]

Waiting(t, st, rs) ==
    /\ st \in Seq([span : t.spans, depth : Nat])
    /\ \A k, l \in 1..Len(st) : k < l => st[k].depth >= st[l].depth
    /\ \A k \in 1..Len(st) : Belongs(t, rs, st[k], Len(rs))
    /\ \A k \in 1..Len(st), i \in 1..Len(rs) :
         ~HasRow(rs, st[k].span) /\ Together(t, rs[i], st[k])
           => t.start[rs[i].span] <= t.start[st[k].span]
    /\ \A k, l \in 1..Len(st) :
         k < l /\ ~HasRow(rs, st[k].span) /\ ~HasRow(rs, st[l].span) /\ Together(t, st[k], st[l])
           => t.start[st[k].span] <= t.start[st[l].span]
    /\ st # <<>> => \A i \in 1..Len(rs) : ~rs[i].appended
    /\ Children(t, NoSpan) = {} =>
         IF rs = <<>> THEN Len(st) = 1 /\ st[1].span = RootSpan(t)
         ELSE \A k \in 1..Len(st) : st[k].depth # 0

RootSeen(t, st, rs) ==
    \/ \E i \in 1..Len(rs) : ~rs[i].appended /\ rs[i].span = RootSpan(t) /\ rs[i].depth = 0
    \/ \E k \in 1..Len(st) : st[k].span = RootSpan(t) /\ st[k].depth = 0

WaterfallInv ==
    /\ tree \in Trees
    /\ collapsed \subseteq {s \in tree.spans : Children(tree, s) # {}}
    /\ Laid(tree, rows) /\ Waiting(tree, stack, rows) /\ RootSeen(tree, stack, rows)


LEMMA ItemsOf ==
    ASSUME NEW T, NEW s \in Seq(T)
    PROVE  Len(s) \in Nat /\ DOMAIN s = 1..Len(s) /\ \A n \in 1..Len(s) : s[n] \in T
OBVIOUS

LEMMA ItemsIn ==
    ASSUME NEW T, NEW s \in Seq(T), NEW U, \A n \in 1..Len(s) : s[n] \in U
    PROVE  s \in Seq(U)
<1>1. Len(s) \in Nat /\ s \in [1..Len(s) -> U]
  OBVIOUS
<1> QED BY <1>1

LEMMA EntryFacts ==
    ASSUME NEW t \in Trees, NEW st, NEW rs, Laid(t, rs), Waiting(t, st, rs)
    PROVE  /\ Len(rs) \in Nat /\ Len(st) \in Nat
           /\ \A i \in 1..Len(rs) : rs[i].span \in t.spans /\ rs[i].depth \in Nat
           /\ \A k \in 1..Len(st) : /\ st[k] \in [span : t.spans, depth : Nat]
                                    /\ st[k].span \in t.spans /\ st[k].depth \in Nat
<1>1. rs \in Seq(RowRecords(t)) /\ st \in Seq([span : t.spans, depth : Nat])
  BY DEF Laid, Waiting
<1>2. \A i \in 1..Len(rs) : rs[i] \in RowRecords(t)
  BY <1>1, ItemsOf
<1>3. \A k \in 1..Len(st) : st[k] \in [span : t.spans, depth : Nat]
  BY <1>1, ItemsOf
<1> QED BY <1>1, <1>2, <1>3, ItemsOf DEF RowRecords

LEMMA WalkStarts ==
    ASSUME NEW t \in Trees
    PROVE  LET st == At(ByStart(t, Roots(t)), 0)
           IN  Laid(t, <<>>) /\ Waiting(t, st, <<>>) /\ RootSeen(t, st, <<>>)
<1> DEFINE st == At(ByStart(t, Roots(t)), 0)
<1>1. /\ Roots(t) \subseteq t.spans /\ RootSpan(t) \in Roots(t)
      /\ Children(t, NoSpan) = {} => Roots(t) = {RootSpan(t)}
  BY RootIsRoot
<1>2. /\ st \in Seq([span : Roots(t), depth : {0}])
      /\ \A s \in Roots(t) : \E n \in 1..Len(st) : st[n].span = s
      /\ \A m, n \in 1..Len(st) :
           m < n => st[m].span # st[n].span /\ t.start[st[m].span] <= t.start[st[n].span]
  BY <1>1, PushedInTurn
<1> HIDE DEF st
<1>3. /\ Len(st) \in Nat /\ DOMAIN st = 1..Len(st)
      /\ \A k \in 1..Len(st) : st[k] \in [span : Roots(t), depth : {0}]
  BY <1>2, ItemsOf
<1>4. /\ \A k \in 1..Len(st) : st[k].span \in Roots(t) /\ st[k].depth = 0
      /\ \A k \in 1..Len(st) : st[k] \in [span : t.spans, depth : Nat]
  BY <1>1, <1>3
<1>9. st \in Seq([span : t.spans, depth : Nat])
  BY <1>2, <1>4, ItemsIn
<1>5. Laid(t, <<>>)
  <2>1. Len(<<>>) = 0 /\ 1..0 = {} /\ <<>> \in Seq(RowRecords(t))
    OBVIOUS
  <2> QED BY <2>1 DEF Laid
<1>6. RootSeen(t, st, <<>>)
  BY <1>1, <1>2, <1>4 DEF RootSeen
<1>7. ASSUME Children(t, NoSpan) = {} PROVE Len(st) = 1 /\ st[1].span = RootSpan(t)
  <2>1. \A k \in 1..Len(st) : st[k].span = RootSpan(t)
    BY <1>1, <1>4, <1>7
  <2>2. Len(st) < 2
    <3>1. SUFFICES ASSUME Len(st) >= 2 PROVE FALSE
      BY <1>3
    <3>2. 1 \in 1..Len(st) /\ 2 \in 1..Len(st) /\ 1 < 2
      BY <1>3, <3>1
    <3>3. st[1].span # st[2].span
      BY <1>2, <3>2
    <3> QED BY <2>1, <3>2, <3>3
  <2>3. Len(st) # 0
    BY <1>1, <1>2
  <2> QED BY <1>3, <2>1, <2>2, <2>3
<1>8. Waiting(t, st, <<>>)
  <2>1. Len(<<>>) = 0 /\ 1..0 = {}
    OBVIOUS
  <2>2. \A k \in 1..Len(st) : Belongs(t, <<>>, st[k], Len(<<>>))
    BY <1>4 DEF Belongs
  <2>3. \A k, l \in 1..Len(st) : k < l => st[k].depth >= st[l].depth
    BY <1>4
  <2>4. \A k, l \in 1..Len(st) : k < l => t.start[st[k].span] <= t.start[st[l].span]
    BY <1>2
  <2> HIDE DEF st
  <2> QED BY <1>9, <1>7, <2>1, <2>2, <2>3, <2>4 DEF Waiting
<1> QED BY <1>5, <1>6, <1>8 DEF st

(* The row of an entry's parent stays where it is when another row follows, *)
(* and is still less deep than what has followed it.                        *)
LEMMA BelongsStays ==
    ASSUME NEW t, NEW rs, NEW r, NEW e, NEW f, NEW last \in Nat, NEW next \in Nat,
           rs \in Seq(RowRecords(t)), f.span = e.span, f.depth = e.depth,
           Belongs(t, rs, e, last), last <= Len(rs),
           next = last \/ (next = last + 1 /\ last = Len(rs) /\ r.depth \in Nat
                           /\ e.depth \in Nat /\ r.depth >= e.depth)
    PROVE  Belongs(t, Append(rs, r), f, next)
<1> DEFINE rs2 == Append(rs, r)
<1>1. Len(rs) \in Nat /\ Len(rs2) = Len(rs) + 1 /\ rs2[Len(rs) + 1] = r
  OBVIOUS
<1>2. \A i \in 1..Len(rs) : rs2[i] = rs[i] /\ rs[i].depth \in Nat
  <2>1. \A i \in 1..Len(rs) : rs[i] \in RowRecords(t)
    BY ItemsOf
  <2>2. \A i \in 1..Len(rs) : rs2[i] = rs[i]
    OBVIOUS
  <2> QED BY <2>1, <2>2 DEF RowRecords
<1> SUFFICES Belongs(t, rs2, f, next)
  OBVIOUS
<1> HIDE DEF rs2
<1>3. CASE e.depth = 0
  BY <1>3 DEF Belongs
<1>4. CASE e.depth # 0
  <2>1. PICK j \in 1..Len(rs) : j <= last /\ Below(t, rs, j, e, last)
    BY <1>4 DEF Belongs
  <2>2. rs2[j] = rs[j] /\ rs[j].depth \in Nat /\ j \in 1..Len(rs2) /\ j <= next
    BY <1>1, <1>2, <2>1
  <2>3. rs[j].span = Parent(t, e.span) /\ rs[j].depth + 1 = e.depth
        /\ \A m \in (j + 1)..last : rs[m].depth > rs[j].depth
    BY <2>1 DEF Below
  <2>4. ASSUME NEW m \in (j + 1)..next PROVE rs2[m].depth > rs2[j].depth
    <3>1. CASE m <= last
      <4>1. m \in (j + 1)..last /\ m \in 1..Len(rs)
        BY <1>1, <2>1, <3>1
      <4> QED BY <1>2, <2>2, <2>3, <4>1
    <3>2. CASE ~(m <= last)
      <4>1. m = Len(rs) + 1 /\ r.depth \in Nat /\ e.depth \in Nat /\ r.depth >= e.depth
        BY <1>1, <2>1, <3>2
      <4> QED BY <1>1, <2>2, <2>3, <4>1
    <3> QED BY <3>1, <3>2
  <2>5. Below(t, rs2, j, f, next)
    BY <2>2, <2>3, <2>4 DEF Below
  <2> QED BY <1>4, <2>2, <2>5 DEF Belongs
<1> QED BY <1>3, <1>4

LEMMA BelongsDeep ==
    ASSUME NEW t, NEW rs, NEW e, NEW last \in Nat, rs \in Seq(RowRecords(t)),
           Belongs(t, rs, e, last), e.depth # 0
    PROVE  HasRow(rs, Parent(t, e.span))
BY ItemsOf DEF Belongs, Below, HasRow

(* A span without a row has children in the rows or on the stack only if it  *)
(* starts first of all.                                                      *)
LEMMA NoChildYet ==
    ASSUME NEW t \in Trees, NEW st, NEW rs, Laid(t, rs), Waiting(t, st, rs),
           NEW x \in t.spans, ~HasRow(rs, x)
    PROVE  /\ \A i \in 1..Len(rs) : ~rs[i].appended /\ Parent(t, rs[i].span) = x =>
                \A s \in t.spans : t.start[rs[i].span] <= t.start[s]
           /\ \A k \in 1..Len(st) : Parent(t, st[k].span) = x =>
                rs = <<>> /\ Len(st) = 1 /\ \A s \in t.spans : t.start[st[k].span] <= t.start[s]
<1>1. rs \in Seq(RowRecords(t)) /\ NoSpan \notin t.spans
  BY TreeFacts DEF Laid
<1>2. /\ \A s \in Roots(t) : Parent(t, s) = x =>
            Children(t, NoSpan) = {} /\ s = RootSpan(t)
      /\ Children(t, NoSpan) = {} => \A s \in t.spans : t.start[RootSpan(t)] <= t.start[s]
  BY <1>1, RootIsRoot
<1>3. ASSUME NEW i \in 1..Len(rs), ~rs[i].appended, Parent(t, rs[i].span) = x
      PROVE  \A s \in t.spans : t.start[rs[i].span] <= t.start[s]
  <2>1. Belongs(t, rs, rs[i], i) /\ i \in Nat
    BY <1>1, <1>3, ItemsOf DEF Laid
  <2>2. rs[i].depth = 0
    BY <1>1, <1>3, <2>1, BelongsDeep
  <2>3. rs[i].span \in Roots(t)
    BY <2>1, <2>2 DEF Belongs
  <2> QED BY <1>2, <1>3, <2>3
<1>4. ASSUME NEW k \in 1..Len(st), Parent(t, st[k].span) = x
      PROVE  rs = <<>> /\ Len(st) = 1 /\ \A s \in t.spans : t.start[st[k].span] <= t.start[s]
  <2>1. Belongs(t, rs, st[k], Len(rs)) /\ Len(rs) \in Nat
    BY <1>1, <1>4, ItemsOf DEF Waiting
  <2>2. st[k].depth = 0
    BY <1>1, <1>4, <2>1, BelongsDeep
  <2>3. st[k].span \in Roots(t)
    BY <2>1, <2>2 DEF Belongs
  <2>4. Children(t, NoSpan) = {} /\ st[k].span = RootSpan(t)
    BY <1>2, <1>4, <2>3
  <2>5. rs = <<>> /\ Len(st) = 1
    BY <2>2, <2>4 DEF Waiting
  <2> QED BY <1>2, <2>4, <2>5
<1> QED BY <1>3, <1>4

(* An entry that has its row is passed over.                                 *)
LEMMA PopPasses ==
    ASSUME NEW t \in Trees, NEW st, NEW rs, Laid(t, rs), Waiting(t, st, rs), RootSeen(t, st, rs),
           st # <<>>, HasRow(rs, st[1].span)
    PROVE  Waiting(t, Tail(st), rs) /\ RootSeen(t, Tail(st), rs)
<1> DEFINE st2 == Tail(st)
<1>1. /\ st \in Seq([span : t.spans, depth : Nat]) /\ rs \in Seq(RowRecords(t))
      /\ Len(st) \in Nat /\ Len(st) # 0 /\ DOMAIN rs = 1..Len(rs) /\ Len(rs) \in Nat
  BY ItemsOf DEF Waiting, Laid
<1>2. /\ st2 \in Seq([span : t.spans, depth : Nat]) /\ Len(st2) = Len(st) - 1
      /\ \A k \in 1..Len(st2) : k + 1 \in 1..Len(st) /\ st2[k] = st[k + 1]
  BY <1>1
<1> HIDE DEF st2
<1>3. rs # <<>>
  BY <1>1 DEF HasRow
<1>4. Waiting(t, st2, rs)
  <2>1. \A k, l \in 1..Len(st2) : k < l => st2[k].depth >= st2[l].depth
    <3> SUFFICES ASSUME NEW k \in 1..Len(st2), NEW l \in 1..Len(st2), k < l
                 PROVE  st2[k].depth >= st2[l].depth
      OBVIOUS
    <3>1. k + 1 \in 1..Len(st) /\ l + 1 \in 1..Len(st) /\ k + 1 < l + 1
      BY <1>1, <1>2
    <3>2. st2[k] = st[k + 1] /\ st2[l] = st[l + 1]
      BY <1>2
    <3> QED BY <3>1, <3>2 DEF Waiting
  <2>2. \A k \in 1..Len(st2) : Belongs(t, rs, st2[k], Len(rs))
    BY <1>2 DEF Waiting
  <2>3. \A k \in 1..Len(st2), i \in 1..Len(rs) :
         ~HasRow(rs, st2[k].span) /\ Together(t, rs[i], st2[k])
           => t.start[rs[i].span] <= t.start[st2[k].span]
    BY <1>2 DEF Waiting
  <2>4. \A k, l \in 1..Len(st2) :
         k < l /\ ~HasRow(rs, st2[k].span) /\ ~HasRow(rs, st2[l].span) /\ Together(t, st2[k], st2[l])
           => t.start[st2[k].span] <= t.start[st2[l].span]
    <3> SUFFICES ASSUME NEW k \in 1..Len(st2), NEW l \in 1..Len(st2), k < l,
                        ~HasRow(rs, st2[k].span), ~HasRow(rs, st2[l].span),
                        Together(t, st2[k], st2[l])
                 PROVE  t.start[st2[k].span] <= t.start[st2[l].span]
      OBVIOUS
    <3>1. k + 1 \in 1..Len(st) /\ l + 1 \in 1..Len(st) /\ k + 1 < l + 1
      BY <1>1, <1>2
    <3>2. st2[k] = st[k + 1] /\ st2[l] = st[l + 1]
      BY <1>2
    <3> QED BY <3>1, <3>2 DEF Waiting
  <2>5. \A i \in 1..Len(rs) : ~rs[i].appended
    BY <1>1 DEF Waiting
  <2>6. Children(t, NoSpan) = {} => \A k \in 1..Len(st2) : st2[k].depth # 0
    BY <1>2, <1>3 DEF Waiting
  <2> QED BY <1>2, <1>3, <2>1, <2>2, <2>3, <2>4, <2>5, <2>6 DEF Waiting
<1>5. RootSeen(t, st2, rs)
  <2>1. CASE \E k \in 1..Len(st) : k # 1 /\ st[k].span = RootSpan(t) /\ st[k].depth = 0
    <3>1. PICK k \in 1..Len(st) : k # 1 /\ st[k].span = RootSpan(t) /\ st[k].depth = 0
      BY <2>1
    <3>2. k - 1 \in 1..Len(st2) /\ st2[k - 1] = st[k]
      <4>1. k - 1 \in 1..Len(st2) /\ (k - 1) + 1 = k
        BY <1>1, <1>2, <3>1
      <4> QED BY <1>2, <4>1
    <3> QED BY <3>1, <3>2 DEF RootSeen
  <2>2. CASE st[1].span = RootSpan(t) /\ st[1].depth = 0
    <3>1. PICK i \in 1..Len(rs) : rs[i].span = RootSpan(t)
      BY <1>1, <2>2 DEF HasRow
    <3>2. ~rs[i].appended /\ 1 \in 1..Len(st)
      BY <1>1 DEF Waiting
    <3>3. Children(t, NoSpan) # {}
      BY <1>3, <2>2, <3>2 DEF Waiting
    <3>4. Parent(t, rs[i].span) = NoSpan
      BY <3>1, <3>3, RootIsRoot
    <3>5. Belongs(t, rs, rs[i], i) /\ i \in Nat
      BY <1>1, <3>2 DEF Laid
    <3>6. ~HasRow(rs, NoSpan)
      BY EntryFacts, TreeFacts, <1>1 DEF HasRow
    <3>7. rs[i].depth = 0
      BY <1>1, <3>4, <3>5, <3>6, BelongsDeep
    <3> QED BY <3>1, <3>2, <3>7 DEF RootSeen
  <2>3. CASE \E i \in 1..Len(rs) : ~rs[i].appended /\ rs[i].span = RootSpan(t) /\ rs[i].depth = 0
    BY <2>3 DEF RootSeen
  <2> QED BY <2>1, <2>2, <2>3 DEF RootSeen
<1> QED BY <1>4, <1>5 DEF st2

(* Any other entry gets a row, and its children go on the stack.             *)
LEMMA PopLays ==
    ASSUME NEW t \in Trees, NEW st, NEW rs, Laid(t, rs), Waiting(t, st, rs), RootSeen(t, st, rs),
           st # <<>>, NEW x, NEW d, x = st[1].span, d = st[1].depth, ~HasRow(rs, x),
           NEW a, a = At(ByStart(t, Children(t, x)), d + 1), NEW r \in RowRecords(t),
           r.span = x, r.depth = d, r.hasChildren <=> Children(t, x) # {}, ~r.appended
    PROVE  /\ Laid(t, Append(rs, r))
           /\ Waiting(t, a \o Tail(st), Append(rs, r))
           /\ RootSeen(t, a \o Tail(st), Append(rs, r))
<1> DEFINE n == Len(rs)
           rs2 == Append(rs, r)
           st2 == a \o Tail(st)
           p == Len(a)
<1>0. /\ rs \in Seq(RowRecords(t)) /\ st \in Seq([span : t.spans, depth : Nat])
      /\ DOMAIN rs = 1..n
  <2>1. rs \in Seq(RowRecords(t)) /\ st \in Seq([span : t.spans, depth : Nat])
    BY DEF Laid, Waiting
  <2> QED BY <2>1, ItemsOf
<1>1. n \in Nat /\ Len(st) \in Nat /\ 1 \in 1..Len(st) /\ x \in t.spans /\ d \in Nat
  <2>1. n \in Nat /\ Len(st) \in Nat /\ 1 \in 1..Len(st)
    BY <1>0
  <2> QED BY <2>1, EntryFacts
<1>b. rs2 \in Seq(RowRecords(t))
  BY <1>0
<1>2. /\ Len(rs2) = n + 1 /\ rs2[n + 1] = r /\ rs2 # <<>>
      /\ DOMAIN rs2 = 1..(n + 1)
      /\ \A i \in 1..n : rs2[i] = rs[i] /\ rs[i].span \in t.spans /\ rs[i].depth \in Nat
      /\ \A i \in 1..n : ~rs[i].appended /\ rs[i].span # x
  <2>1. \A i \in 1..n : rs[i].span \in t.spans /\ rs[i].depth \in Nat
    BY EntryFacts
  <2>2. \A i \in 1..n : ~rs[i].appended /\ rs[i].span # x
    BY <1>0 DEF Waiting, HasRow
  <2>3. Len(rs2) = n + 1 /\ rs2[n + 1] = r /\ rs2 # <<>>
    BY <1>0
  <2>4. DOMAIN rs2 = 1..(n + 1)
    BY <1>0
  <2>5. \A i \in 1..n : rs2[i] = rs[i]
    BY <1>0
  <2> HIDE DEF rs2
  <2> QED BY <2>1, <2>2, <2>3, <2>4, <2>5
<1>c. a \in Seq([span : t.spans, depth : Nat]) /\ Len(a) \in Nat
  <2>1. Children(t, x) \subseteq t.spans /\ d + 1 \in Nat
    BY <1>1 DEF Children
  <2>2. a \in Seq([span : Children(t, x), depth : {d + 1}])
    BY <2>1, PushedInTurn
  <2>3. \A k \in 1..Len(a) : a[k] \in [span : Children(t, x), depth : {d + 1}]
    BY <2>2, ItemsOf
  <2>4. \A k \in 1..Len(a) : a[k] \in [span : t.spans, depth : Nat]
    BY <2>1, <2>3
  <2>5. a \in Seq([span : t.spans, depth : Nat])
    BY <2>2, <2>4, ItemsIn
  <2> QED BY <2>5
<1>3. /\ p \in Nat /\ \A k \in 1..p : a[k].span \in Children(t, x) /\ a[k].depth = d + 1
      /\ \A k \in 1..p : a[k].span \in t.spans /\ Parent(t, a[k].span) = x
      /\ \A k, l \in 1..p : k < l => t.start[a[k].span] <= t.start[a[l].span]
  <2>1. Children(t, x) \subseteq t.spans /\ d + 1 \in Nat
    BY <1>1 DEF Children
  <2>2. /\ a \in Seq([span : Children(t, x), depth : {d + 1}])
        /\ \A k, l \in 1..Len(a) : k < l => t.start[a[k].span] <= t.start[a[l].span]
    BY <2>1, PushedInTurn
  <2>3. \A k \in 1..Len(a) : a[k] \in [span : Children(t, x), depth : {d + 1}]
    BY <2>2, ItemsOf
  <2>4. \A k, l \in 1..Len(a) : k < l => t.start[a[k].span] <= t.start[a[l].span]
    BY <2>2
  <2> QED BY <1>c, <2>3, <2>4 DEF Children
<1>d. st2 \in Seq([span : t.spans, depth : Nat])
  BY <1>0, <1>1, <1>c
<1>4. /\ Len(st2) = p + Len(st) - 1 /\ Len(st2) \in Nat
      /\ \A k \in 1..Len(st2) : \/ k \in 1..p /\ st2[k] = a[k]
                                \/ /\ k > p /\ k - p + 1 \in 2..Len(st)
                                   /\ st2[k] = st[k - p + 1]
      /\ \A k \in 2..Len(st) : k + p - 1 \in 1..Len(st2) /\ st2[k + p - 1] = st[k]
  <2> DEFINE rest == Tail(st)
  <2>1. /\ rest \in Seq([span : t.spans, depth : Nat]) /\ Len(rest) = Len(st) - 1
        /\ \A k \in 1..Len(rest) : rest[k] = st[k + 1]
    BY <1>0, <1>1
  <2> HIDE DEF rest
  <2>2. /\ st2 \in Seq([span : t.spans, depth : Nat]) /\ Len(st2) = p + Len(rest)
        /\ \A k \in 1..p + Len(rest) : st2[k] = IF k <= p THEN a[k] ELSE rest[k - p]
    BY <1>c, <2>1 DEF rest
  <2>a. Len(st) \in Nat \ {0} /\ p \in Nat
    BY <1>1, <1>3
  <2>b. Len(rest) = Len(st) - 1 /\ Len(st2) = p + Len(rest)
    BY <2>1, <2>2
  <2> HIDE DEF st2, p
  <2>3. ASSUME NEW k \in 1..Len(st2)
        PROVE  \/ k \in 1..p /\ st2[k] = a[k]
               \/ k > p /\ k - p + 1 \in 2..Len(st) /\ st2[k] = st[k - p + 1]
    <3>1. CASE k <= p
      <4>1. k \in 1..p /\ k \in 1..p + Len(rest)
        BY <2>a, <2>b, <3>1
      <4> QED BY <2>2, <3>1, <4>1
    <3>2. CASE ~(k <= p)
      <4>1. k - p \in 1..Len(rest) /\ (k - p) + 1 = k - p + 1 /\ k > p
            /\ k - p + 1 \in 2..Len(st) /\ k \in 1..p + Len(rest)
        BY <2>a, <2>b, <3>2
      <4>2. rest[k - p] = st[k - p + 1]
        BY <2>1, <4>1
      <4> QED BY <2>2, <3>2, <4>1, <4>2
    <3> QED BY <3>1, <3>2
  <2>4. ASSUME NEW k \in 2..Len(st)
        PROVE  k + p - 1 \in 1..Len(st2) /\ st2[k + p - 1] = st[k]
    <3>1. /\ k + p - 1 \in 1..Len(st2) /\ ~(k + p - 1 <= p) /\ (k + p - 1) - p = k - 1
          /\ k - 1 \in 1..Len(rest) /\ (k - 1) + 1 = k
          /\ k + p - 1 \in 1..p + Len(rest)
      BY <2>a, <2>b
    <3>2. st2[k + p - 1] = rest[k - 1] /\ rest[k - 1] = st[k]
      BY <2>1, <2>2, <3>1
    <3> QED BY <3>1, <3>2
  <2>5. Len(st2) = p + Len(st) - 1 /\ Len(st2) \in Nat
    BY <2>a, <2>b
  <2> QED BY <2>2, <2>3, <2>4, <2>5
<1> SUFFICES Laid(t, rs2) /\ Waiting(t, st2, rs2) /\ RootSeen(t, st2, rs2)
  OBVIOUS
<1>5. ASSUME NEW k \in 2..Len(st)
      PROVE  /\ st[k].span \in t.spans /\ st[k].depth \in Nat /\ st[k].depth <= d
             /\ Parent(t, st[k].span) # x
             /\ k \in 1..Len(st) /\ (rs # <<>> \/ Children(t, NoSpan) # {})
  <2>1. k \in 1..Len(st) /\ 1 < k /\ k <= Len(st) /\ k \in Nat
    BY <1>1
  <2>2. st[k].span \in t.spans /\ st[k].depth \in Nat /\ st[k].depth <= d
    BY <1>1, <2>1, EntryFacts DEF Waiting
  <2>3. Len(st) # 1
    <3> DEFINE m == Len(st)
    <3>1. m \in Nat /\ k <= m
      BY <1>1, <2>1
    <3> HIDE DEF m
    <3>2. m # 1
      BY <2>1, <3>1
    <3> QED BY <3>2 DEF m
  <2>4. Parent(t, st[k].span) # x
    BY <1>1, <2>1, <2>3, NoChildYet
  <2> QED BY <2>1, <2>2, <2>3, <2>4 DEF Waiting
<1>6. \A y \in t.spans : HasRow(rs2, y) <=> HasRow(rs, y) \/ y = x
  BY <1>0, <1>1, <1>2 DEF HasRow
<1>7. d < n + 1
  <2>1. Belongs(t, rs, st[1], n)
    BY <1>1 DEF Waiting
  <2>2. CASE d = 0
    BY <1>1, <2>2
  <2>3. CASE d # 0
    <3>1. PICK j \in 1..n : rs[j].depth + 1 = d
      BY <2>1, <2>3 DEF Belongs, Below
    <3>2. rs[j].depth < j
      BY DEF Laid
    <3> QED BY <1>1, <1>2, <3>1, <3>2
  <2> QED BY <2>2, <2>3
<1> HIDE DEF rs2, st2, n, p
<1>a. p \in Nat /\ Len(st) \in Nat \ {0} /\ Len(st2) = p + Len(st) - 1
  BY <1>1, <1>3, <1>4
<1>8. /\ Belongs(t, rs2, r, n + 1)
      /\ \A k \in 2..Len(st) : Belongs(t, rs2, st[k], n + 1)
      /\ \A i \in 1..n : Belongs(t, rs2, rs[i], i)
      /\ \A k \in 1..p : Belongs(t, rs2, a[k], n + 1)
  <2>1. \A k \in 1..Len(st) : Belongs(t, rs, st[k], n)
    BY DEF Waiting, n
  <2>2. Belongs(t, rs2, r, n + 1)
    <3>1. Belongs(t, rs, st[1], n) /\ r.depth \in Nat /\ st[1].depth \in Nat
          /\ r.depth >= st[1].depth /\ r.span = st[1].span /\ r.depth = st[1].depth
          /\ n + 1 \in Nat /\ n <= n
      BY <1>1, <2>1
    <3> QED BY <1>0, <1>1, <3>1, BelongsStays DEF rs2, n
  <2>3. ASSUME NEW k \in 2..Len(st) PROVE Belongs(t, rs2, st[k], n + 1)
    <3>1. Belongs(t, rs, st[k], n) /\ st[k].depth \in Nat /\ r.depth >= st[k].depth
          /\ n + 1 \in Nat /\ n <= n /\ r.depth \in Nat
      BY <1>1, <1>5, <2>1
    <3> QED BY <1>0, <1>1, <3>1, BelongsStays DEF rs2, n
  <2>4. ASSUME NEW i \in 1..n PROVE Belongs(t, rs2, rs[i], i)
    <3>1. Belongs(t, rs, rs[i], i) /\ i \in Nat /\ i <= n
      BY <1>1, <1>2 DEF Laid, n
    <3> QED BY <1>0, <1>1, <3>1, BelongsStays DEF rs2, n
  <2>5. ASSUME NEW k \in 1..p PROVE Belongs(t, rs2, a[k], n + 1)
    <3>1. /\ a[k].depth = d + 1 /\ a[k].depth # 0 /\ Parent(t, a[k].span) = x
      BY <1>1, <1>3
    <3>3. n + 1 \in 1..Len(rs2) /\ n + 1 <= n + 1 /\ \A m \in ((n + 1) + 1)..(n + 1) : FALSE
      BY <1>1, <1>2
    <3>2. Below(t, rs2, n + 1, a[k], n + 1)
      BY <1>2, <3>1, <3>3 DEF Below
    <3> QED BY <3>1, <3>2, <3>3 DEF Belongs
  <2>6. \A k \in 2..Len(st) : Belongs(t, rs2, st[k], n + 1)
    BY <2>3
  <2>7. \A i \in 1..n : Belongs(t, rs2, rs[i], i)
    BY <2>4
  <2>8. \A k \in 1..p : Belongs(t, rs2, a[k], n + 1)
    BY <2>5
  <2> QED BY <2>2, <2>6, <2>7, <2>8

<1>9. Laid(t, rs2)
  <2>1. \A i, j \in 1..Len(rs2) : rs2[i].span = rs2[j].span => i = j
    <3> SUFFICES ASSUME NEW i \in 1..Len(rs2), NEW j \in 1..Len(rs2), rs2[i].span = rs2[j].span
                 PROVE  i = j
      OBVIOUS
    <3>1. CASE i \in 1..n /\ j \in 1..n
      BY <1>2, <3>1 DEF Laid, n
    <3>2. CASE ~(i \in 1..n /\ j \in 1..n)
      BY <1>1, <1>2, <3>2
    <3> QED BY <3>1, <3>2
  <2>2. \A i \in 1..Len(rs2) : rs2[i].depth < i
    <3> SUFFICES ASSUME NEW i \in 1..Len(rs2) PROVE rs2[i].depth < i
      OBVIOUS
    <3>1. CASE i \in 1..n
      BY <1>2, <3>1 DEF Laid, n
    <3>2. CASE i \notin 1..n
      BY <1>1, <1>2, <1>7, <3>2
    <3> QED BY <3>1, <3>2
  <2>3. \A i \in 1..Len(rs2) :
          rs2[i].hasChildren <=> ~rs2[i].appended /\ Children(t, rs2[i].span) # {}
    <3> SUFFICES ASSUME NEW i \in 1..Len(rs2)
                 PROVE  rs2[i].hasChildren <=> ~rs2[i].appended /\ Children(t, rs2[i].span) # {}
      OBVIOUS
    <3>1. CASE i \in 1..n
      BY <1>2, <3>1 DEF Laid, n
    <3>2. CASE i \notin 1..n
      <4>1. i = n + 1 /\ rs2[i] = r
        BY <1>1, <1>2, <3>2
      <4> QED BY <4>1
    <3> QED BY <3>1, <3>2
  <2>4. \A i \in 1..Len(rs2) : ~rs2[i].appended
    <3> SUFFICES ASSUME NEW i \in 1..Len(rs2) PROVE ~rs2[i].appended
      OBVIOUS
    <3>1. i \in 1..n \/ i = n + 1
      BY <1>1, <1>2
    <3> QED BY <1>2, <3>1
  <2>5. \A i \in 1..Len(rs2) : Belongs(t, rs2, rs2[i], i)
    <3> SUFFICES ASSUME NEW i \in 1..Len(rs2) PROVE Belongs(t, rs2, rs2[i], i)
      OBVIOUS
    <3>1. CASE i \in 1..n
      BY <1>2, <1>8, <3>1
    <3>2. CASE i = n + 1
      BY <1>2, <1>8, <3>2
    <3> QED BY <1>1, <1>2, <3>1, <3>2
  <2>6. \A i, j \in 1..Len(rs2) : i < j /\ Together(t, rs2[i], rs2[j])
                                  => t.start[rs2[i].span] <= t.start[rs2[j].span]
    <3> SUFFICES ASSUME NEW i \in 1..Len(rs2), NEW j \in 1..Len(rs2), i < j,
                        Together(t, rs2[i], rs2[j])
                 PROVE  t.start[rs2[i].span] <= t.start[rs2[j].span]
      OBVIOUS
    <3>1. i \in 1..n
      BY <1>1, <1>2
    <3>2. CASE j \in 1..n
      BY <1>2, <3>1, <3>2 DEF Laid, n
    <3>3. CASE j = n + 1
      <4>1. Together(t, rs[i], st[1])
        BY <1>2, <3>1, <3>3 DEF Together
      <4>2. t.start[rs[i].span] <= t.start[st[1].span]
        BY <1>1, <3>1, <4>1 DEF Waiting, n
      <4> QED BY <1>2, <3>1, <3>3, <4>2
    <3> QED BY <1>1, <1>2, <3>2, <3>3
  <2> QED BY <1>b, <1>2, <2>1, <2>2, <2>3, <2>4, <2>5, <2>6 DEF Laid

<1>10. Waiting(t, st2, rs2)
  <2>1. \A k, l \in 1..Len(st2) : k < l => st2[k].depth >= st2[l].depth
    <3> SUFFICES ASSUME NEW k \in 1..Len(st2), NEW l \in 1..Len(st2), k < l
                 PROVE  st2[k].depth >= st2[l].depth
      OBVIOUS
    <3>1. CASE l \in 1..p /\ st2[l] = a[l]
      <4>1. k \in 1..p /\ ~(k > p) /\ k \in 1..Len(st2)
        BY <1>a, <3>1
      <4>2. st2[k] = a[k]
        BY <1>4, <4>1
      <4>3. a[k].depth = d + 1 /\ a[l].depth = d + 1 /\ d + 1 >= d + 1
        BY <1>1, <1>3, <3>1, <4>1
      <4> QED BY <3>1, <4>2, <4>3
    <3>2. CASE l > p /\ l - p + 1 \in 2..Len(st) /\ st2[l] = st[l - p + 1]
      <4>1. st2[l].depth \in Nat /\ st2[l].depth <= d
        BY <1>5, <3>2
      <4>2. CASE k \in 1..p /\ st2[k] = a[k]
        <5>1. st2[k].depth = d + 1 /\ d \in Nat
          BY <1>1, <1>3, <4>2
        <5> QED BY <4>1, <5>1
      <4>3. CASE k > p /\ k - p + 1 \in 2..Len(st) /\ st2[k] = st[k - p + 1]
        <5>1. k - p + 1 < l - p + 1 /\ k - p + 1 \in 1..Len(st) /\ l - p + 1 \in 1..Len(st)
          BY <1>3, <3>2, <4>3
        <5> QED BY <3>2, <4>3, <5>1 DEF Waiting
      <4> QED BY <1>4, <4>2, <4>3
    <3> QED BY <1>4, <3>1, <3>2
  <2>2. \A k \in 1..Len(st2) : Belongs(t, rs2, st2[k], Len(rs2))
    <3> SUFFICES ASSUME NEW k \in 1..Len(st2) PROVE Belongs(t, rs2, st2[k], n + 1)
      BY <1>2
    <3> QED BY <1>4, <1>8
  <2>3. \A k \in 1..Len(st2), i \in 1..Len(rs2) :
         ~HasRow(rs2, st2[k].span) /\ Together(t, rs2[i], st2[k])
           => t.start[rs2[i].span] <= t.start[st2[k].span]
    <3> SUFFICES ASSUME NEW k \in 1..Len(st2), NEW i \in 1..Len(rs2),
                        ~HasRow(rs2, st2[k].span), Together(t, rs2[i], st2[k])
                 PROVE  t.start[rs2[i].span] <= t.start[st2[k].span]
      OBVIOUS
    <3>1. i \in 1..n \/ i = n + 1
      BY <1>1, <1>2
    <3>2. CASE k \in 1..p /\ st2[k] = a[k]
      <4>1. /\ a[k].span \in t.spans /\ Parent(t, a[k].span) = x /\ a[k].depth = d + 1
            /\ rs2[i].depth \in Nat
        BY <1>1, <1>2, <1>3, <3>1, <3>2
      <4>2. Parent(t, rs2[i].span) = x
        BY <1>1, <3>2, <4>1 DEF Together
      <4>3. CASE i \in 1..n
        <5>1. ~rs[i].appended /\ Parent(t, rs[i].span) = x /\ i \in 1..Len(rs)
          BY <1>2, <4>2, <4>3 DEF n
        <5>2. \A s \in t.spans : t.start[rs[i].span] <= t.start[s]
          BY <1>1, <5>1, NoChildYet
        <5> QED BY <1>2, <3>2, <4>1, <4>3, <5>2
      <4>4. CASE i = n + 1
        <5>1. Parent(t, st[1].span) = x
          BY <1>2, <4>2, <4>4
        <5>2. \A s \in t.spans : t.start[st[1].span] <= t.start[s]
          BY <1>1, <5>1, NoChildYet
        <5> QED BY <1>2, <3>2, <4>1, <4>4, <5>2
      <4> QED BY <3>1, <4>3, <4>4
    <3>3. CASE k > p /\ k - p + 1 \in 2..Len(st) /\ st2[k] = st[k - p + 1]
      <4> DEFINE m == k - p + 1
      <4>1. m \in 2..Len(st) /\ m \in 1..Len(st) /\ 1 < m /\ st2[k] = st[m]
        BY <1>a, <3>3
      <4> HIDE DEF m
      <4>2. ~HasRow(rs, st[m].span)
        BY <1>5, <1>6, <4>1
      <4>3. CASE i \in 1..n
        <5>1. Together(t, rs[i], st[m]) /\ i \in 1..Len(rs)
          BY <1>2, <4>1, <4>3 DEF n
        <5> QED BY <1>2, <4>1, <4>2, <4>3, <5>1 DEF Waiting
      <4>4. CASE i = n + 1
        <5>1. Together(t, st[1], st[m])
          BY <1>2, <4>1, <4>4 DEF Together
        <5>2. t.start[st[1].span] <= t.start[st[m].span]
          BY <1>1, <4>1, <4>2, <5>1 DEF Waiting
        <5> QED BY <1>2, <4>1, <4>4, <5>2
      <4> QED BY <3>1, <4>3, <4>4
    <3> QED BY <1>4, <3>2, <3>3
  <2>4. \A k, l \in 1..Len(st2) :
         k < l /\ ~HasRow(rs2, st2[k].span) /\ ~HasRow(rs2, st2[l].span) /\ Together(t, st2[k], st2[l])
           => t.start[st2[k].span] <= t.start[st2[l].span]
    <3> SUFFICES ASSUME NEW k \in 1..Len(st2), NEW l \in 1..Len(st2), k < l,
                        ~HasRow(rs2, st2[k].span), ~HasRow(rs2, st2[l].span),
                        Together(t, st2[k], st2[l])
                 PROVE  t.start[st2[k].span] <= t.start[st2[l].span]
      OBVIOUS
    <3>1. CASE l \in 1..p /\ st2[l] = a[l]
      <4>1. k \in 1..p /\ ~(k > p) /\ k \in 1..Len(st2)
        BY <1>a, <3>1
      <4>2. st2[k] = a[k]
        BY <1>4, <4>1
      <4> QED BY <1>3, <3>1, <4>1, <4>2
    <3>2. CASE l > p /\ l - p + 1 \in 2..Len(st) /\ st2[l] = st[l - p + 1]
      <4> DEFINE m == l - p + 1
      <4>1. m \in 2..Len(st) /\ m \in 1..Len(st) /\ st2[l] = st[m]
        BY <1>a, <3>2
      <4>2. ~HasRow(rs, st[m].span) /\ st[m].depth \in Nat
        BY <1>5, <1>6, <4>1
      <4>3. CASE k \in 1..p /\ st2[k] = a[k]
        <5>1. Parent(t, st[m].span) # x /\ Parent(t, a[k].span) = x /\ a[k].depth = d + 1
          BY <1>3, <1>5, <4>1, <4>3
        <5>2. a[k].depth + st[m].depth # 0
          BY <1>1, <4>2, <5>1
        <5> HIDE DEF m
        <5> QED BY <4>1, <4>3, <5>1, <5>2 DEF Together
      <4>4. CASE k > p /\ k - p + 1 \in 2..Len(st) /\ st2[k] = st[k - p + 1]
        <5> DEFINE j == k - p + 1
        <5>1. j \in 2..Len(st) /\ j \in 1..Len(st) /\ st2[k] = st[j] /\ j < m
          BY <1>a, <3>2, <4>4
        <5>2. ~HasRow(rs, st[j].span)
          BY <1>5, <1>6, <5>1
        <5> HIDE DEF j, m
        <5> QED BY <4>1, <4>2, <5>1, <5>2 DEF Waiting
      <4> QED BY <1>4, <4>3, <4>4
    <3> QED BY <1>4, <3>1, <3>2
  <2>5. \A i \in 1..Len(rs2) : ~rs2[i].appended
    <3> SUFFICES ASSUME NEW i \in 1..Len(rs2) PROVE ~rs2[i].appended
      OBVIOUS
    <3>1. i \in 1..n \/ i = n + 1
      BY <1>1, <1>2
    <3> QED BY <1>2, <3>1
  <2>6. ASSUME Children(t, NoSpan) = {}, NEW k \in 1..Len(st2) PROVE st2[k].depth # 0
    <3>1. CASE k \in 1..p /\ st2[k] = a[k]
      BY <1>1, <1>3, <3>1
    <3>2. CASE k > p /\ k - p + 1 \in 2..Len(st) /\ st2[k] = st[k - p + 1]
      <4>1. k - p + 1 \in 1..Len(st) /\ rs # <<>>
        BY <1>5, <2>6, <3>2
      <4> QED BY <2>6, <3>2, <4>1 DEF Waiting
    <3> QED BY <1>4, <3>1, <3>2
  <2> QED BY <1>d, <1>2, <1>4, <2>1, <2>2, <2>3, <2>4, <2>5, <2>6 DEF Waiting
<1>11. RootSeen(t, st2, rs2)
  <2>1. CASE \E i \in 1..Len(rs) : ~rs[i].appended /\ rs[i].span = RootSpan(t) /\ rs[i].depth = 0
    <3>1. PICK i \in 1..n : rs2[i] = rs[i] /\ ~rs[i].appended /\ rs[i].span = RootSpan(t)
                            /\ rs[i].depth = 0
      BY <1>2, <2>1 DEF n
    <3>2. i \in 1..Len(rs2)
      BY <1>1, <1>2
    <3> QED BY <3>1, <3>2 DEF RootSeen
  <2>2. CASE x = RootSpan(t) /\ d = 0
    <3>1. n + 1 \in 1..Len(rs2)
      BY <1>1, <1>2
    <3> QED BY <1>2, <2>2, <3>1 DEF RootSeen
  <2>3. CASE \E k \in 2..Len(st) : st[k].span = RootSpan(t) /\ st[k].depth = 0
    BY <1>4, <2>3 DEF RootSeen
  <2>4. \A k \in 1..Len(st) : k = 1 \/ k \in 2..Len(st)
    BY <1>1
  <2> QED BY <2>1, <2>2, <2>3, <2>4 DEF RootSeen
<1> QED BY <1>9, <1>10, <1>11

(* What is left over is appended, each once.                                 *)
LEMMA LeftInTurn ==
    ASSUME NEW t \in Trees, NEW S, S \subseteq t.spans
    PROVE  LET q == InTurn(S, [s \in t.spans |-> s])
           IN  /\ q \in Seq(S)
               /\ \A s \in S : \E n \in 1..Len(q) : q[n] = s
               /\ \A m, n \in 1..Len(q) : q[m] = q[n] => m = n
<1> DEFINE key == [s \in t.spans |-> s]
           q == InTurn(S, key)
<1>1. IsFiniteSet(S) /\ S \subseteq Nat /\ \A s \in S : key[s] \in Nat
  BY TreeFacts, FS_Subset
<1> HIDE DEF key
<1>2. /\ q \in Seq(S) /\ Len(q) \in Nat
      /\ \A s \in S : \E n \in 1..Len(q) : q[n] = s
      /\ \A m, n \in 1..Len(q) : m < n => q[m] # q[n]
  <2>1. Sorted(q, S, key)
    BY <1>1, InTurnSorts
  <2> HIDE DEF q
  <2> QED BY <2>1 DEF Sorted
<1> HIDE DEF q
<1>3. ASSUME NEW m \in 1..Len(q), NEW n \in 1..Len(q), q[m] = q[n] PROVE m = n
  <2>1. m < n \/ n < m \/ m = n
    BY <1>2
  <2> QED BY <1>2, <1>3, <2>1
<1>4. /\ q \in Seq(S)
      /\ \A s \in S : \E n \in 1..Len(q) : q[n] = s
      /\ \A m, n \in 1..Len(q) : q[m] = q[n] => m = n
  BY <1>2, <1>3
<1> QED BY <1>4 DEF q, key

(* The depth below which rows are hidden, after each row: it is a function, *)
(* and it is the least depth of a folded row that is still open.             *)
HideStep(N, dep, fol, h, m) ==
    IF m = 0 THEN N
    ELSE IF dep[m] > h[m - 1] THEN h[m - 1]
    ELSE IF m \in fol THEN dep[m] ELSE N

LEMMA HideExists ==
    ASSUME NEW N \in Nat, NEW dep, NEW fol
    PROVE  \E h : h = [m \in 0..N |-> HideStep(N, dep, fol, h, m)]
<1> DEFINE Up(k) == \E h : h = [m \in 0..k |-> HideStep(N, dep, fol, h, m)]
           C == {k \in Nat : ~Up(k)}
<1>1. SUFFICES ASSUME C # {} PROVE FALSE
  OBVIOUS
<1>2. PICK k \in C : \A l \in C : k <= l
  <2> HIDE DEF Up
  <2> QED BY <1>1, LeastNumber
<1>3. k \in Nat /\ ~Up(k)
  OBVIOUS
<1>4. CASE k = 0
  <2> DEFINE h == [m \in 0..0 |-> N]
  <2>1. h = [m \in 0..0 |-> HideStep(N, dep, fol, h, m)]
    BY DEF HideStep
  <2> QED BY <1>3, <1>4, <2>1
<1>5. CASE k # 0
  <2>1. k - 1 \in Nat /\ k - 1 \notin C
    BY <1>2, <1>3, <1>5
  <2>2. PICK g : g = [m \in 0..(k - 1) |-> HideStep(N, dep, fol, g, m)]
    BY <2>1
  <2> DEFINE h == [m \in 0..k |-> HideStep(N, dep, fol, g, m)]
  <2>3. ASSUME NEW m \in 0..(k - 1) PROVE h[m] = g[m]
    BY <1>3, <2>2
  <2>4. ASSUME NEW m \in 0..k
        PROVE  HideStep(N, dep, fol, g, m) = HideStep(N, dep, fol, h, m)
    <3>1. CASE m = 0
      BY <3>1 DEF HideStep
    <3>2. CASE m # 0
      <4>1. m - 1 \in 0..(k - 1)
        BY <1>3, <3>2
      <4>2. h[m - 1] = g[m - 1]
        BY <2>3, <4>1
      <4> HIDE DEF h
      <4> QED BY <3>2, <4>2 DEF HideStep
    <3> QED BY <3>1, <3>2
  <2>5. h = [m \in 0..k |-> HideStep(N, dep, fol, h, m)]
    BY <2>4
  <2> QED BY <1>3, <2>5
<1> QED BY <1>4, <1>5

Open(dep, j, m) == \A i \in (j + 1)..m : dep[i] > dep[j]

LeastOpen(N, dep, fol, hm, m) ==
    /\ hm \in Nat
    /\ \A j \in 1..m : j \in fol /\ Open(dep, j, m) => dep[j] >= hm
    /\ hm # N => \E j \in 1..m : j \in fol /\ Open(dep, j, m) /\ dep[j] = hm

LEMMA HideIsLeast ==
    ASSUME NEW N \in Nat, NEW dep \in [1..N -> Nat], \A i \in 1..N : dep[i] < N, NEW fol,
           NEW h, h = [m \in 0..N |-> HideStep(N, dep, fol, h, m)]
    PROVE  \A m \in 0..N : LeastOpen(N, dep, fol, h[m], m)
<1>1. \A m \in 0..N : h[m] = HideStep(N, dep, fol, h, m)
  OBVIOUS
<1> DEFINE C == {m \in 0..N : ~LeastOpen(N, dep, fol, h[m], m)}
<1>2. SUFFICES ASSUME C # {} PROVE FALSE
  OBVIOUS
<1>3. PICK m \in C : \A l \in C : m <= l
  <2>1. C \in SUBSET Nat
    OBVIOUS
  <2> HIDE DEF C
  <2> QED BY <1>2, <2>1, LeastNumber
<1>4. m \in 0..N /\ m \in Nat /\ ~LeastOpen(N, dep, fol, h[m], m)
  BY <1>3
<1>5. CASE m = 0
  <2>1. h[0] = N /\ 1..0 = {}
    BY <1>1 DEF HideStep
  <2> QED BY <1>4, <1>5, <2>1 DEF LeastOpen
<1>6. CASE m # 0
  <2> DEFINE e == dep[m]
             low == h[m - 1]
  <2>1. m - 1 \in 0..N /\ m \in 1..N /\ e \in Nat /\ e < N
    BY <1>4, <1>6
  <2>2. LeastOpen(N, dep, fol, low, m - 1)
    <3>1. m - 1 \notin C
      BY <1>3, <1>4, <1>6
    <3> QED BY <2>1, <3>1
  <2>3. h[m] = IF e > low THEN low ELSE IF m \in fol THEN e ELSE N
    BY <1>1, <1>4, <1>6 DEF HideStep
  <2> HIDE DEF low
  <2>4. low \in Nat
    BY <2>2 DEF LeastOpen
  <2>5. ASSUME NEW j \in 1..m, j \in fol, Open(dep, j, m)
        PROVE  j = m \/ (j \in 1..(m - 1) /\ dep[j] \in Nat /\ dep[j] >= low /\ e > dep[j])
    <3>1. SUFFICES ASSUME j # m
                   PROVE  j \in 1..(m - 1) /\ dep[j] \in Nat /\ dep[j] >= low /\ e > dep[j]
      OBVIOUS
    <3>2. j \in 1..(m - 1) /\ j \in 1..N /\ m \in (j + 1)..m
      BY <1>4, <2>1, <3>1
    <3>3. Open(dep, j, m - 1) /\ e > dep[j]
      <4>1. \A i \in (j + 1)..(m - 1) : i \in (j + 1)..m
        BY <1>4, <3>2
      <4> QED BY <2>5, <3>2, <4>1 DEF Open
    <3> QED BY <2>2, <2>5, <3>2, <3>3 DEF LeastOpen
  <2>6. ASSUME NEW j \in 1..(m - 1), Open(dep, j, m - 1), e > dep[j] PROVE Open(dep, j, m)
    <3>1. \A i \in (j + 1)..m : i = m \/ i \in (j + 1)..(m - 1)
      BY <1>4
    <3> QED BY <2>6, <3>1 DEF Open
  <2>7. CASE e > low
    <3>1. h[m] = low
      BY <2>3, <2>7
    <3>2. \A j \in 1..m : j \in fol /\ Open(dep, j, m) => dep[j] >= low
      BY <2>1, <2>4, <2>5, <2>7
    <3>3. ASSUME low # N PROVE \E j \in 1..m : j \in fol /\ Open(dep, j, m) /\ dep[j] = low
      <4>1. PICK j \in 1..(m - 1) : j \in fol /\ Open(dep, j, m - 1) /\ dep[j] = low
        BY <2>2, <3>3 DEF LeastOpen
      <4>2. j \in 1..m /\ Open(dep, j, m)
        BY <1>4, <2>6, <2>7, <4>1
      <4> QED BY <4>1, <4>2
    <3> QED BY <1>4, <2>4, <3>1, <3>2, <3>3 DEF LeastOpen
  <2>8. CASE ~(e > low) /\ m \in fol
    <3>1. h[m] = e
      BY <2>3, <2>8
    <3>2. \A j \in 1..m : j \in fol /\ Open(dep, j, m) => dep[j] >= e
      BY <2>1, <2>4, <2>5, <2>8
    <3>3. Open(dep, m, m) /\ m \in 1..m
      <4>1. \A i \in (m + 1)..m : FALSE
        BY <1>4
      <4> QED BY <2>1, <4>1 DEF Open
    <3> QED BY <1>4, <2>1, <2>8, <3>1, <3>2, <3>3 DEF LeastOpen
  <2>9. CASE ~(e > low) /\ m \notin fol
    <3>1. h[m] = N
      BY <2>3, <2>9
    <3>2. \A j \in 1..m : ~(j \in fol /\ Open(dep, j, m))
      BY <2>1, <2>4, <2>5, <2>9
    <3> QED BY <1>4, <3>1, <3>2 DEF LeastOpen
  <2> QED BY <2>7, <2>8, <2>9
<1> QED BY <1>5, <1>6

(* A row is deeper than that if and only if it is below a folded row.        *)
LEMMA HideMeans ==
    ASSUME NEW N \in Nat, NEW dep \in [1..N -> Nat], \A i \in 1..N : dep[i] < N, NEW fol,
           NEW h, h = [m \in 0..N |-> HideStep(N, dep, fol, h, m)], NEW k \in 1..N
    PROVE  dep[k] <= h[k - 1] <=> ~ \E j \in 1..N : j \in fol /\ j < k /\ Open(dep, j, k)
<1> DEFINE low == h[k - 1]
<1>1. k \in Nat /\ dep[k] \in Nat /\ dep[k] < N /\ k - 1 \in 0..N
  OBVIOUS
<1>2. LeastOpen(N, dep, fol, low, k - 1)
  BY <1>1, HideIsLeast
<1> HIDE DEF low
<1>3. low \in Nat
  BY <1>2 DEF LeastOpen
<1>4. ASSUME dep[k] > low PROVE \E j \in 1..N : j \in fol /\ j < k /\ Open(dep, j, k)
  <2>1. PICK j \in 1..(k - 1) : j \in fol /\ Open(dep, j, k - 1) /\ dep[j] = low
    BY <1>1, <1>2, <1>3, <1>4 DEF LeastOpen
  <2>2. \A i \in (j + 1)..k : i = k \/ i \in (j + 1)..(k - 1)
    BY <1>1
  <2>3. Open(dep, j, k) /\ j \in 1..N /\ j < k
    BY <1>1, <1>4, <2>1, <2>2 DEF Open
  <2> QED BY <2>1, <2>3
<1>5. ASSUME NEW j \in 1..N, j \in fol, j < k, Open(dep, j, k) PROVE dep[k] > low
  <2>1. j \in 1..(k - 1) /\ k \in (j + 1)..k /\ \A i \in (j + 1)..(k - 1) : i \in (j + 1)..k
    BY <1>1, <1>5
  <2>2. Open(dep, j, k - 1) /\ dep[k] > dep[j] /\ dep[j] \in Nat
    BY <1>5, <2>1 DEF Open
  <2>3. dep[j] >= low
    BY <1>2, <1>5, <2>1, <2>2 DEF LeastOpen
  <2> QED BY <1>1, <1>3, <2>2, <2>3
<1> QED BY <1>1, <1>3, <1>4, <1>5 DEF low

(* What is shown is what has no folded row above it.                         *)
LEMMA VisibleAre ==
    ASSUME NEW t \in Trees, Laid(t, rows)
    PROVE  /\ VisibleRows \subseteq {rows[n] : n \in DOMAIN rows}
           /\ VisibleRows = {rows[n] : n \in {k \in DOMAIN rows : ~Hidden(k)}}
<1> DEFINE N == Len(rows)
           dep == [i \in 1..N |-> rows[i].depth]
           fol == {i \in 1..N : rows[i].span \in collapsed /\ rows[i].hasChildren}
           Hides(h) == [n \in 0..Len(rows) |->
                          IF n = 0 THEN Len(rows)
                          ELSE IF rows[n].depth > h[n - 1] THEN h[n - 1]
                          ELSE IF rows[n].span \in collapsed /\ rows[n].hasChildren
                               THEN rows[n].depth ELSE Len(rows)]
           hide == CHOOSE h : h = Hides(h)
<1>1. /\ N \in Nat /\ DOMAIN rows = 1..N
      /\ \A i \in 1..N : rows[i].depth \in Nat /\ rows[i].depth < i
  <2>1. rows \in Seq(RowRecords(t))
    BY DEF Laid
  <2>2. N \in Nat /\ DOMAIN rows = 1..N /\ \A i \in 1..N : rows[i] \in RowRecords(t)
    BY <2>1, ItemsOf
  <2>3. \A i \in 1..N : rows[i].depth < i
    BY DEF Laid
  <2> QED BY <2>2, <2>3 DEF RowRecords
<1>2. dep \in [1..N -> Nat] /\ \A i \in 1..N : dep[i] < N
  BY <1>1
<1>3. \A h, m : m \in 0..N =>
        HideStep(N, dep, fol, h, m) =
          IF m = 0 THEN Len(rows)
          ELSE IF rows[m].depth > h[m - 1] THEN h[m - 1]
          ELSE IF rows[m].span \in collapsed /\ rows[m].hasChildren
               THEN rows[m].depth ELSE Len(rows)
  <2> SUFFICES ASSUME NEW h, NEW m \in 0..N, m # 0
               PROVE  dep[m] = rows[m].depth
                      /\ (m \in fol <=> rows[m].span \in collapsed /\ rows[m].hasChildren)
    BY DEF HideStep
  <2> QED BY <1>1
<1>4. \A h : Hides(h) = [m \in 0..N |-> HideStep(N, dep, fol, h, m)]
  <2> HIDE DEF dep, fol
  <2> QED BY <1>3
<1>5. hide = [m \in 0..N |-> HideStep(N, dep, fol, hide, m)]
  <2>1. \E h : h = [m \in 0..N |-> HideStep(N, dep, fol, h, m)]
    BY <1>1, HideExists
  <2>2. \E h : h = Hides(h)
    BY <1>4, <2>1
  <2>3. hide = Hides(hide)
    <3> HIDE DEF Hides
    <3> QED BY <2>2
  <2> HIDE DEF Hides, hide
  <2> QED BY <1>4, <2>3
<1>6. VisibleRows = {rows[n] : n \in {k \in DOMAIN rows : rows[k].depth <= hide[k - 1]}}
  BY DEF VisibleRows
<1> HIDE DEF hide, Hides
<1>7. \A k \in 1..N : rows[k].depth <= hide[k - 1] <=> ~Hidden(k)
  <2> SUFFICES ASSUME NEW k \in 1..N PROVE rows[k].depth <= hide[k - 1] <=> ~Hidden(k)
    OBVIOUS
  <2>1. dep[k] <= hide[k - 1] <=> ~ \E j \in 1..N : j \in fol /\ j < k /\ Open(dep, j, k)
    <3> HIDE DEF dep, fol
    <3> QED BY <1>1, <1>2, <1>5, HideMeans
  <2>2. ASSUME NEW j \in 1..N
        PROVE  (j \in fol /\ j < k /\ Open(dep, j, k))
                 <=> (Above(j, k) /\ rows[j].span \in collapsed /\ rows[j].hasChildren)
    <3>1. \A i \in (j + 1)..k : i \in 1..N /\ dep[i] = rows[i].depth
      BY <1>1
    <3>2. dep[j] = rows[j].depth
      OBVIOUS
    <3>3. j < k => (Open(dep, j, k) <=> \A i \in (j + 1)..k : rows[i].depth > rows[j].depth)
      BY <3>1, <3>2 DEF Open
    <3> QED BY <3>3 DEF Above
  <2> QED BY <1>1, <2>1, <2>2 DEF Hidden
<1>8. VisibleRows = {rows[n] : n \in {k \in DOMAIN rows : ~Hidden(k)}}
  BY <1>1, <1>6, <1>7
<1> QED BY <1>8

(* The spans that the walk has not reached are appended behind its rows.     *)
LeftOver(t, rs, q) ==
    /\ q \in Seq({s \in t.spans : ~HasRow(rs, s)})
    /\ \A i, j \in 1..Len(q) : q[i] = q[j] => i = j

LEMMA AppendLays ==
    ASSUME NEW t \in Trees, NEW rs, Laid(t, rs), Waiting(t, <<>>, rs), RootSeen(t, <<>>, rs),
           NEW q, LeftOver(t, rs, q),
           NEW b, b = [i \in DOMAIN q |-> [span |-> q[i], depth |-> 0,
                                           hasChildren |-> FALSE, appended |-> TRUE]]
    PROVE  Laid(t, rs \o b) /\ Waiting(t, <<>>, rs \o b) /\ RootSeen(t, <<>>, rs \o b)
<1> DEFINE S == {s \in t.spans : ~HasRow(rs, s)}
           n == Len(rs)
           p == Len(q)
           rs2 == rs \o b
<1>0. rs \in Seq(RowRecords(t)) /\ q \in Seq(S)
      /\ \A i, j \in 1..p : q[i] = q[j] => i = j
  BY DEF LeftOver, Laid
<1>1. p \in Nat /\ DOMAIN q = 1..p /\ \A i \in 1..p : q[i] \in S
  BY <1>0, ItemsOf
<1>2. n \in Nat /\ DOMAIN rs = 1..n
  BY <1>0, ItemsOf
<1>3. /\ Len(b) = p
      /\ \A i \in 1..p : b[i] = [span |-> q[i], depth |-> 0, hasChildren |-> FALSE, appended |-> TRUE]
  <2>1. b = [i \in 1..p |-> [span |-> q[i], depth |-> 0, hasChildren |-> FALSE, appended |-> TRUE]]
    BY <1>1
  <2> HIDE DEF p
  <2> QED BY <1>1, <2>1, LenProperties
<1>4. \A i \in 1..p : b[i].span = q[i] /\ b[i].depth = 0 /\ b[i].appended /\ ~b[i].hasChildren
  BY <1>3
<1>9. b \in Seq(RowRecords(t))
  <2>1. \A i \in 1..p : b[i] \in RowRecords(t)
    BY <1>1, <1>3 DEF RowRecords
  <2>2. DOMAIN b = 1..p /\ b = [i \in 1..p |-> b[i]]
    BY <1>1
  <2> HIDE DEF p
  <2>3. b \in [1..p -> RowRecords(t)]
    BY <2>1, <2>2
  <2> QED BY <1>1, <2>3
<1>5. /\ Len(rs2) = n + p
      /\ \A i \in 1..n : rs2[i] = rs[i]
      /\ \A i \in 1..(n + p) : i \in 1..n \/ (i > n /\ i - n \in 1..p /\ rs2[i] = b[i - n])
  <2>1. /\ Len(rs2) = n + Len(b)
        /\ \A i \in 1..(n + Len(b)) : rs2[i] = IF i <= n THEN rs[i] ELSE b[i - n]
    BY <1>0, <1>9
  <2> HIDE DEF rs2, n, p
  <2>2. \A i \in 1..n : i \in 1..(n + p) /\ i <= n
    BY <1>1, <1>2
  <2>3. \A i \in 1..(n + p) : i \in 1..n \/ (i > n /\ i - n \in 1..p /\ ~(i <= n))
    BY <1>1, <1>2
  <2> QED BY <1>3, <2>1, <2>2, <2>3
<1>10. rs2 \in Seq(RowRecords(t))
  BY <1>0, <1>9
<1> SUFFICES Laid(t, rs2) /\ Waiting(t, <<>>, rs2) /\ RootSeen(t, <<>>, rs2)
  OBVIOUS
<1> HIDE DEF rs2, n, p, S
<1>6. Laid(t, rs2)
  <2>1. \A i, j \in 1..Len(rs2) : rs2[i].span = rs2[j].span => i = j
    <3> SUFFICES ASSUME NEW i \in 1..(n + p), NEW j \in 1..(n + p), rs2[i].span = rs2[j].span
                 PROVE  i = j
      BY <1>5
    <3>1. ASSUME NEW k \in 1..n, NEW l \in 1..p PROVE rs[k].span # b[l].span
      <4>1. ~HasRow(rs, q[l]) /\ b[l].span = q[l]
        BY <1>1, <1>4 DEF S
      <4> QED BY <1>2, <4>1 DEF HasRow
    <3>2. CASE i \in 1..n /\ j \in 1..n
      BY <1>5, <3>2 DEF Laid, n
    <3>3. CASE i \in 1..n /\ j \notin 1..n
      <4>1. j - n \in 1..p /\ rs2[j] = b[j - n] /\ rs2[i] = rs[i]
        BY <1>5, <3>3
      <4> QED BY <3>1, <3>3, <4>1
    <3>4. CASE i \notin 1..n /\ j \in 1..n
      <4>1. i - n \in 1..p /\ rs2[i] = b[i - n] /\ rs2[j] = rs[j]
        BY <1>5, <3>4
      <4> QED BY <3>1, <3>4, <4>1
    <3>5. CASE i \notin 1..n /\ j \notin 1..n
      <4>1. /\ i - n \in 1..p /\ j - n \in 1..p
            /\ b[i - n].span = b[j - n].span
        BY <1>5, <3>5
      <4>2. i - n = j - n
        BY <1>0, <1>4, <4>1
      <4> QED BY <1>1, <1>2, <4>2
    <3> QED BY <3>2, <3>3, <3>4, <3>5
  <2>2. \A i \in 1..Len(rs2) : i \in 1..n \/ (rs2[i].depth = 0 /\ rs2[i].appended
                                               /\ ~rs2[i].hasChildren /\ i > n /\ i > 0)
    <3> SUFFICES ASSUME NEW i \in 1..(n + p), i \notin 1..n
                 PROVE  rs2[i].depth = 0 /\ rs2[i].appended /\ ~rs2[i].hasChildren /\ i > n /\ i > 0
      BY <1>5
    <3>1. i > n /\ i > 0 /\ i - n \in 1..p /\ rs2[i] = b[i - n]
      BY <1>2, <1>5
    <3> QED BY <1>4, <3>1
  <2>3. \A i \in 1..Len(rs2) : rs2[i].depth < i
    BY <1>5, <2>2 DEF Laid, n
  <2>4. \A i \in 1..Len(rs2) :
          rs2[i].hasChildren <=> ~rs2[i].appended /\ Children(t, rs2[i].span) # {}
    <3> SUFFICES ASSUME NEW i \in 1..Len(rs2)
                 PROVE  rs2[i].hasChildren <=> ~rs2[i].appended /\ Children(t, rs2[i].span) # {}
      OBVIOUS
    <3>1. CASE i \in 1..n
      BY <1>5, <3>1 DEF Laid, n
    <3>2. CASE i \notin 1..n
      BY <2>2, <3>2
    <3> QED BY <3>1, <3>2
  <2>5. \A i \in 1..Len(rs2) : ~rs2[i].appended => i \in 1..n /\ rs2[i] = rs[i]
    BY <1>5, <2>2
  <2>6. \A i, j \in 1..Len(rs2) : i < j /\ ~rs2[j].appended => ~rs2[i].appended
    <3> SUFFICES ASSUME NEW i \in 1..Len(rs2), NEW j \in 1..Len(rs2), i < j, ~rs2[j].appended
                 PROVE  ~rs2[i].appended
      OBVIOUS
    <3>1. j \in 1..n /\ rs2[j] = rs[j]
      BY <2>5
    <3>2. i \in 1..n /\ rs2[i] = rs[i]
      BY <1>2, <1>5, <3>1
    <3> QED BY <3>1, <3>2 DEF Laid, n
  <2>7. ASSUME NEW i \in 1..Len(rs2), ~rs2[i].appended PROVE Belongs(t, rs2, rs2[i], i)
    <3>1. i \in 1..n /\ rs2[i] = rs[i] /\ ~rs[i].appended
      BY <2>5, <2>7
    <3>2. Belongs(t, rs, rs[i], i)
      BY <3>1 DEF Laid, n
    <3>3. CASE rs[i].depth = 0
      BY <3>1, <3>2, <3>3 DEF Belongs
    <3>4. CASE rs[i].depth # 0
      <4>1. PICK j \in 1..n : j <= i /\ Below(t, rs, j, rs[i], i)
        BY <3>2, <3>4 DEF Belongs, n
      <4>2. \A m \in (j + 1)..i : m \in 1..n /\ rs2[m] = rs[m]
        BY <1>2, <1>5, <3>1, <4>1
      <4>3. j \in 1..Len(rs2) /\ rs2[j] = rs[j]
        BY <1>1, <1>2, <1>5, <4>1
      <4>4. Below(t, rs2, j, rs2[i], i)
        BY <3>1, <4>1, <4>2, <4>3 DEF Below
      <4> QED BY <3>1, <3>4, <4>1, <4>3, <4>4 DEF Belongs
    <3> QED BY <3>3, <3>4
  <2>8. \A i, j \in 1..Len(rs2) : i < j /\ ~rs2[j].appended /\ Together(t, rs2[i], rs2[j])
                                  => t.start[rs2[i].span] <= t.start[rs2[j].span]
    <3> SUFFICES ASSUME NEW i \in 1..Len(rs2), NEW j \in 1..Len(rs2), i < j, ~rs2[j].appended,
                        Together(t, rs2[i], rs2[j])
                 PROVE  t.start[rs2[i].span] <= t.start[rs2[j].span]
      OBVIOUS
    <3>1. j \in 1..n /\ rs2[j] = rs[j]
      BY <2>5
    <3>2. i \in 1..n /\ rs2[i] = rs[i]
      BY <1>2, <1>5, <3>1
    <3> QED BY <3>1, <3>2 DEF Laid, n
  <2> QED BY <1>10, <2>1, <2>3, <2>4, <2>6, <2>7, <2>8 DEF Laid
<1>7. RootSeen(t, <<>>, rs2)
  <2>1. Len(<<>>) = 0 /\ 1..0 = {}
    OBVIOUS
  <2>2. PICK i \in 1..n : ~rs[i].appended /\ rs[i].span = RootSpan(t) /\ rs[i].depth = 0
    BY <2>1 DEF RootSeen, n
  <2>3. i \in 1..Len(rs2) /\ rs2[i] = rs[i]
    BY <1>1, <1>2, <1>5
  <2> QED BY <2>2, <2>3 DEF RootSeen
<1>8. Waiting(t, <<>>, rs2)
  <2>1. Len(<<>>) = 0 /\ 1..0 = {} /\ <<>> \in Seq([span : t.spans, depth : Nat])
    OBVIOUS
  <2>2. rs2 # <<>>
    <3>1. \E i \in 1..Len(rs2) : TRUE
      BY <1>7, <2>1 DEF RootSeen
    <3> QED BY <2>1, <3>1
  <2> QED BY <2>1, <2>2 DEF Waiting
<1> QED BY <1>6, <1>7, <1>8

LEMMA TreeGrows ==
    ASSUME NEW t \in Trees, NEW s \in Spans, NEW u, u = [t EXCEPT !.spans = @ \cup {s}]
    PROVE  /\ u \in Trees /\ t.spans \subseteq u.spans
           /\ \A c \in t.spans : Children(t, c) \subseteq Children(u, c)
<1>1. /\ t.spans \in (SUBSET Spans) \ {{}} /\ t.parent \in [Spans -> Spans \cup {NoSpan}]
      /\ t.start \in [Spans -> Starts]
  BY DEF Trees
<1>2. u.spans = t.spans \cup {s} /\ u.parent = t.parent /\ u.start = t.start
      /\ u = [spans |-> u.spans, parent |-> u.parent, start |-> u.start]
  BY DEF Trees
<1>3. u.spans \in (SUBSET Spans) \ {{}}
  BY <1>1, <1>2
<1>4. u \in Trees
  BY <1>1, <1>2, <1>3 DEF Trees
<1>5. ASSUME NEW c \in t.spans, NEW k \in Children(t, c) PROVE k \in Children(u, c)
  <2>1. k \in t.spans /\ c # NoSpan /\ Parent(t, k) = c
    BY <1>5, TreeFacts DEF Children
  <2>2. t.parent[k] = c
    BY <1>5, <2>1 DEF Parent
  <2>3. Parent(u, k) = c
    BY <1>2, <2>2 DEF Parent
  <2> QED BY <1>2, <2>1, <2>3 DEF Children
<1> QED BY <1>2, <1>4, <1>5

LEMMA PopMoves == ASSUME WaterfallInv, Pop PROVE WaterfallInv'
<1>0. /\ tree \in Trees /\ Laid(tree, rows) /\ Waiting(tree, stack, rows)
      /\ RootSeen(tree, stack, rows) /\ UNCHANGED <<tree, collapsed>>
      /\ collapsed \subseteq {s \in tree.spans : Children(tree, s) # {}} /\ stack # <<>>
  BY DEF WaterfallInv, Pop
<1>1. stack \in Seq([span : tree.spans, depth : Nat]) /\ Head(stack) = stack[1]
      /\ 1 \in 1..Len(stack)
  BY <1>0 DEF Waiting
<1> DEFINE x == stack[1].span
           d == stack[1].depth
           a == At(ByStart(tree, Children(tree, x)), d + 1)
           r == [span |-> x, depth |-> d, hasChildren |-> Children(tree, x) # {}, appended |-> FALSE]
<1>2. InRows(x) <=> HasRow(rows, x)
  BY DEF InRows, HasRow
<1>3. CASE HasRow(rows, x)
  <2>1. stack' = Tail(stack) /\ UNCHANGED rows
    BY <1>1, <1>2, <1>3 DEF Pop
  <2>2. Waiting(tree, Tail(stack), rows) /\ RootSeen(tree, Tail(stack), rows)
    BY <1>0, <1>3, PopPasses
  <2>3. Waiting(tree, stack', rows) /\ RootSeen(tree, stack', rows)
    BY <2>1, <2>2
  <2> QED BY <1>0, <2>1, <2>3 DEF WaterfallInv
<1>4. CASE ~HasRow(rows, x)
  <2>1. stack' = a \o Tail(stack) /\ rows' = Append(rows, r)
    BY <1>1, <1>2, <1>4 DEF Pop
  <2>2. r \in RowRecords(tree) /\ r.span = x /\ r.depth = d /\ ~r.appended
        /\ (r.hasChildren <=> Children(tree, x) # {})
    <3>1. x \in tree.spans /\ d \in Nat
      BY <1>0, <1>1, EntryFacts
    <3> QED BY <3>1 DEF RowRecords
  <2> HIDE DEF a, r
  <2>3. Laid(tree, Append(rows, r)) /\ Waiting(tree, a \o Tail(stack), Append(rows, r))
        /\ RootSeen(tree, a \o Tail(stack), Append(rows, r))
    <3>1. a = At(ByStart(tree, Children(tree, x)), d + 1)
      BY DEF a
    <3> QED BY <1>0, <1>4, <2>2, <3>1, PopLays
  <2>4. Laid(tree, rows') /\ Waiting(tree, stack', rows') /\ RootSeen(tree, stack', rows')
    BY <2>1, <2>3
  <2> QED BY <1>0, <2>4 DEF WaterfallInv
<1> QED BY <1>3, <1>4

LEMMA AppendMoves == ASSUME WaterfallInv, AppendLeft PROVE WaterfallInv'
<1>0. /\ tree \in Trees /\ Laid(tree, rows) /\ Waiting(tree, stack, rows)
      /\ RootSeen(tree, stack, rows) /\ UNCHANGED <<tree, collapsed, stack>> /\ stack = <<>>
      /\ collapsed \subseteq {s \in tree.spans : Children(tree, s) # {}}
  BY DEF WaterfallInv, AppendLeft
<1> DEFINE S == {s \in tree.spans : ~InRows(s)}
           q == InTurn(S, [s \in tree.spans |-> s])
           b == [i \in DOMAIN q |-> [span |-> q[i], depth |-> 0,
                                     hasChildren |-> FALSE, appended |-> TRUE]]
<1>1. rows' = rows \o b
  BY DEF AppendLeft
<1>2. LeftOver(tree, rows, q)
  <2>1. S = {s \in tree.spans : ~HasRow(rows, s)} /\ S \subseteq tree.spans
    BY DEF InRows, HasRow
  <2> HIDE DEF S
  <2>2. q \in Seq(S) /\ \A i, j \in 1..Len(q) : q[i] = q[j] => i = j
    BY <1>0, <2>1, LeftInTurn
  <2> HIDE DEF q
  <2> QED BY <2>1, <2>2 DEF LeftOver
<1> HIDE DEF q
<1>3. Laid(tree, rows \o b) /\ Waiting(tree, <<>>, rows \o b) /\ RootSeen(tree, <<>>, rows \o b)
  BY <1>0, <1>2, AppendLays
<1> HIDE DEF b
<1>4. Laid(tree, rows') /\ Waiting(tree, stack', rows') /\ RootSeen(tree, stack', rows')
  BY <1>0, <1>1, <1>3
<1> QED BY <1>0, <1>4 DEF WaterfallInv

LEMMA WaterfallMoves == ASSUME WaterfallInv, WaterfallNext PROVE WaterfallInv'
<1>0. /\ tree \in Trees /\ Laid(tree, rows) /\ Waiting(tree, stack, rows)
      /\ RootSeen(tree, stack, rows)
      /\ collapsed \subseteq {s \in tree.spans : Children(tree, s) # {}}
  BY DEF WaterfallInv
<1>1. \A n \in DOMAIN rows : rows[n].hasChildren =>
        rows[n].span \in {s \in tree.spans : Children(tree, s) # {}}
  <2>1. DOMAIN rows = 1..Len(rows)
    BY <1>0, ItemsOf DEF Laid
  <2> QED BY <1>0, <2>1, EntryFacts DEF Laid
<1>2. ASSUME collapsed' \subseteq {s \in tree.spans : Children(tree, s) # {}},
             UNCHANGED <<tree, stack, rows>>
      PROVE  WaterfallInv'
  BY <1>0, <1>2 DEF WaterfallInv
<1>3. CASE Pop
  BY <1>3, PopMoves
<1>4. CASE AppendLeft
  BY <1>4, AppendMoves
<1>5. CASE ToggleRow
  <2>1. PICK row \in VisibleRows :
          /\ row.hasChildren
          /\ collapsed' = IF row.span \in collapsed THEN collapsed \ {row.span}
                                                    ELSE collapsed \cup {row.span}
          /\ UNCHANGED <<tree, stack, rows>>
    BY <1>5 DEF ToggleRow
  <2>2. row.span \in {s \in tree.spans : Children(tree, s) # {}}
    <3>1. PICK n \in DOMAIN rows : row = rows[n]
      BY <1>0, VisibleAre
    <3> QED BY <1>1, <2>1, <3>1
  <2>3. collapsed' \subseteq {s \in tree.spans : Children(tree, s) # {}}
    BY <1>0, <2>1, <2>2
  <2> QED BY <1>2, <2>1, <2>3
<1>6. CASE ToggleAll
  <2>1. Collapsible \subseteq {s \in tree.spans : Children(tree, s) # {}}
    BY <1>1 DEF Collapsible
  <2> QED BY <1>2, <1>6, <2>1 DEF ToggleAll
<1>7. CASE SpanArrives
  <2>1. PICK s \in Spans \ tree.spans :
          /\ tree' = [tree EXCEPT !.spans = @ \cup {s}]
          /\ stack' = At(ByStart(tree', Roots(tree')), 0) /\ rows' = <<>> /\ collapsed' = collapsed
    BY <1>7 DEF SpanArrives
  <2>2. /\ tree' \in Trees /\ tree.spans \subseteq tree'.spans
        /\ \A c \in tree.spans : Children(tree, c) \subseteq Children(tree', c)
    BY <1>0, <2>1, TreeGrows
  <2>3. Laid(tree', <<>>) /\ Waiting(tree', stack', <<>>) /\ RootSeen(tree', stack', <<>>)
    BY <2>1, <2>2, WalkStarts
  <2>4. Laid(tree', rows') /\ Waiting(tree', stack', rows') /\ RootSeen(tree', stack', rows')
    BY <2>1, <2>3
  <2>5. collapsed' \subseteq {c \in tree'.spans : Children(tree', c) # {}}
    BY <1>0, <2>1, <2>2
  <2> QED BY <2>2, <2>4, <2>5 DEF WaterfallInv
<1> QED BY <1>3, <1>4, <1>5, <1>6, <1>7 DEF WaterfallNext

LEMMA WaterfallBegins == Init => WaterfallInv
<1> SUFFICES ASSUME WaterfallInit PROVE WaterfallInv
  BY DEF Init
<1>1. /\ tree \in [spans : {Spans \ {Cardinality(Spans)}},
                   parent : [Spans -> Spans \cup {NoSpan}], start : [Spans -> Starts]]
      /\ stack = At(ByStart(tree, Roots(tree)), 0) /\ rows = <<>> /\ collapsed = {}
  BY DEF WaterfallInit
<1>2. tree \in Trees
  <2>1. Spans \ {Cardinality(Spans)} \in (SUBSET Spans) \ {{}}
    <3> DEFINE n == Cardinality(Spans)
    <3>1. n \in Nat \ {0, 1} /\ Spans = 1..n
      BY WaterfallPaneAssumption
    <3> HIDE DEF n
    <3>2. 1 \in Spans /\ 1 # n
      BY <3>1
    <3>3. 1 \in Spans \ {n}
      BY <3>2
    <3>4. Spans \ {n} # {} /\ Spans \ {n} \subseteq Spans
      BY <3>3
    <3> QED BY <3>4 DEF n
  <2> QED BY <1>1, <2>1 DEF Trees
<1>3. Laid(tree, <<>>) /\ Waiting(tree, stack, <<>>) /\ RootSeen(tree, stack, <<>>)
  BY <1>1, <1>2, WalkStarts
<1> QED BY <1>1, <1>2, <1>3 DEF WaterfallInv

(* When the layout is made, every span has its row.                          *)
LEMMA AllHaveRows ==
    ASSUME WaterfallInv, LaidOut
    PROVE  \A s \in tree.spans : InRows(s)
<1> DEFINE n == Len(rows)
           I == 1..n
           f == [i \in I |-> rows[i].span]
<1>1. rows \in Seq(RowRecords(tree)) /\ tree \in Trees
  BY DEF WaterfallInv, Laid
<1>2. n \in Nat /\ DOMAIN rows = I /\ n = Cardinality(tree.spans)
  BY <1>1, ItemsOf DEF LaidOut
<1>3. /\ \A i \in I : rows[i].span \in tree.spans
      /\ \A i, j \in I : rows[i].span = rows[j].span => i = j
  BY EntryFacts DEF WaterfallInv, Laid
<1>4. f \in Injection(I, tree.spans)
  BY <1>3 DEF Injection, IsInjective
<1>5. Cardinality(I) = n
  <2>1. n \in Int /\ 1 \in Int /\ n >= 0
    BY <1>2
  <2>2. Cardinality(1..n) = IF 1 > n THEN 0 ELSE n - 1 + 1
    <3> HIDE DEF n
    <3> QED BY <2>1, FS_Interval
  <2> HIDE DEF n
  <2>3. Cardinality(1..n) = n
    BY <2>1, <2>2
  <2> QED BY <2>3
<1>6. f \in Surjection(I, tree.spans)
  <2>1. IsFiniteSet(tree.spans)
    BY <1>1, TreeFacts
  <2> HIDE DEF f, I, n
  <2> QED BY <1>2, <1>4, <1>5, <2>1, FS_Injection
<1>7. ASSUME NEW s \in tree.spans PROVE InRows(s)
  <2>1. \E i \in I : f[i] = s
    <3> HIDE DEF f, I, n
    <3> QED BY <1>6 DEF Surjection
  <2>2. \E i \in I : rows[i].span = s
    BY <2>1
  <2> QED BY <1>2, <2>2 DEF InRows
<1> QED BY <1>7

(* Where every row is reached, what is folded can be folded, so that to      *)
(* count the folded is to compare.                                           *)
LEMMA ButtonFolds ==
    ASSUME WaterfallInv, LaidOut, \A i \in DOMAIN rows : ~rows[i].appended
    PROVE  AllCollapsed <=> Collapsible # {} /\ Collapsible \subseteq collapsed
<1>1. /\ DOMAIN rows = 1..Len(rows) /\ tree \in Trees
      /\ \A i \in 1..Len(rows) : rows[i].span \in tree.spans
      /\ \A i \in 1..Len(rows) :
           rows[i].hasChildren <=> ~rows[i].appended /\ Children(tree, rows[i].span) # {}
      /\ collapsed \subseteq {s \in tree.spans : Children(tree, s) # {}}
  BY EntryFacts, ItemsOf DEF WaterfallInv, Laid
<1>2. \A s \in tree.spans : \E i \in DOMAIN rows : rows[i].span = s
  BY AllHaveRows DEF InRows
<1>3. Collapsible = {s \in tree.spans : Children(tree, s) # {}}
  <2>1. ASSUME NEW s \in Collapsible
        PROVE  s \in tree.spans /\ Children(tree, s) # {}
    <3>1. PICK i \in 1..Len(rows) : rows[i].hasChildren /\ s = rows[i].span
      BY <1>1 DEF Collapsible
    <3> QED BY <1>1, <3>1
  <2>2. ASSUME NEW s \in tree.spans, Children(tree, s) # {} PROVE s \in Collapsible
    <3>1. PICK i \in 1..Len(rows) : rows[i].span = s
      BY <1>1, <1>2
    <3>2. rows[i].hasChildren
      BY <1>1, <2>2, <3>1
    <3> QED BY <3>1, <3>2, <1>1 DEF Collapsible
  <2> QED BY <2>1, <2>2
<1>4. collapsed \subseteq Collapsible /\ IsFiniteSet(Collapsible)
  <2>1. IsFiniteSet(tree.spans) /\ Collapsible \subseteq tree.spans
    BY <1>1, <1>3, TreeFacts
  <2> QED BY <1>1, <1>3, <2>1, FS_Subset
<1>5. /\ Cardinality(collapsed) \in Nat /\ Cardinality(Collapsible) \in Nat
      /\ Cardinality(collapsed) <= Cardinality(Collapsible)
      /\ Cardinality(collapsed) = Cardinality(Collapsible) => collapsed = Collapsible
  BY <1>4, FS_Subset, FS_CardinalityType
<1>6. Collapsible \subseteq collapsed <=> Cardinality(collapsed) >= Cardinality(Collapsible)
  <2>1. Collapsible \subseteq collapsed => collapsed = Collapsible
    BY <1>4
  <2> QED BY <1>5, <2>1
<1> QED BY <1>6 DEF AllCollapsed

LEMMA LayoutIsTrue == WaterfallInv => WaterfallTrue
<1> SUFFICES ASSUME WaterfallInv, LaidOut PROVE WaterfallTrue
  BY DEF WaterfallTrue
<1> DEFINE reached == {i \in DOMAIN rows : ~rows[i].appended}
           Up(i) == Parent(tree, rows[i].span)
<1>0. tree \in Trees /\ Laid(tree, rows) /\ Waiting(tree, stack, rows) /\ RootSeen(tree, stack, rows)
  BY DEF WaterfallInv
<1>1. /\ Len(rows) \in Nat /\ DOMAIN rows = 1..Len(rows)
      /\ \A i \in 1..Len(rows) : rows[i].depth \in Nat /\ rows[i].span \in tree.spans
  BY <1>0, ItemsOf, EntryFacts DEF Laid
<1>2. \A s \in tree.spans : InRows(s)
  BY AllHaveRows
<1>3. \A i \in reached : rows[i].depth > 0 =>
        \E j \in reached : /\ Above(j, i) /\ rows[j].depth = rows[i].depth - 1
                           /\ rows[j].span = Up(i)
  <2> SUFFICES ASSUME NEW i \in 1..Len(rows), ~rows[i].appended, rows[i].depth > 0
               PROVE  \E j \in reached : /\ Above(j, i) /\ rows[j].depth = rows[i].depth - 1
                                         /\ rows[j].span = Up(i)
    BY <1>1
  <2>1. Belongs(tree, rows, rows[i], i)
    BY <1>0 DEF Laid
  <2>2. PICK j \in 1..Len(rows) : j <= i /\ Below(tree, rows, j, rows[i], i)
    BY <1>1, <2>1 DEF Belongs
  <2>3. /\ rows[j].span = Up(i) /\ rows[j].depth + 1 = rows[i].depth
        /\ \A m \in (j + 1)..i : rows[m].depth > rows[j].depth
    BY <2>2 DEF Below
  <2>4. rows[j].depth \in Nat /\ rows[i].depth \in Nat /\ rows[j].depth = rows[i].depth - 1 /\ j # i
    BY <1>1, <2>3
  <2>5. j < i
    BY <1>1, <2>2, <2>4
  <2>6. ~rows[j].appended
    BY <1>0, <2>5 DEF Laid
  <2> QED BY <1>1, <2>3, <2>4, <2>5, <2>6 DEF Above
<1>4. \A i, j \in reached :
        i < j /\ (rows[i].depth + rows[j].depth = 0 \/ Up(i) = Up(j))
          => tree.start[rows[i].span] <= tree.start[rows[j].span]
  BY <1>0, <1>1 DEF Laid, Together
<1>5. \E i \in reached : rows[i].span = RootSpan(tree) /\ rows[i].depth = 0
  <2>1. Len(<<>>) = 0 /\ 1..0 = {}
    OBVIOUS
  <2> QED BY <1>0, <1>1, <2>1 DEF RootSeen, LaidOut
<1>6. VisibleRows = {rows[i] : i \in {k \in DOMAIN rows : ~Hidden(k)}}
  BY <1>0, VisibleAre
<1>7. reached = DOMAIN rows =>
        (AllCollapsed <=> Collapsible # {} /\ Collapsible \subseteq collapsed)
  BY ButtonFolds
<1> QED BY <1>2, <1>3, <1>4, <1>5, <1>6, <1>7 DEF WaterfallTrue

(* Whatever the order in which spans arrive, with missing parents and       *)
(* cycles, and whatever is folded: every span has its row (layout.ts:127),  *)
(* below its parent and after the earlier of its siblings, and what is      *)
(* shown is what is not below a folded row; for any number of spans.        *)
THEOREM WaterfallTrueCorrect == Spec => []WaterfallTrue
<1>1. WaterfallInv /\ [Next]_vars => WaterfallInv'
  <2> SUFFICES ASSUME WaterfallInv, [Next]_vars PROVE WaterfallInv'
    OBVIOUS
  <2>1. CASE WaterfallNext
    BY <2>1, WaterfallMoves
  <2>2. CASE UNCHANGED waterfallVars
    BY <2>2 DEF WaterfallInv, waterfallVars
  <2> QED BY <2>1, <2>2
       DEF Next, vars, OnList, OnTrace, OnMetrics, OnLog, OnWaterfall
<1> QED BY <1>1, WaterfallBegins, LayoutIsTrue, PTL DEF Spec

-----------------------------------------------------------------------------

(***************************************************************************)
(* The walk ends.  A span is laid once, and pushes no more entries than    *)
(* there are spans; a turn that lays none takes an entry away.             *)
(***************************************************************************)
LEMMA OnceEach ==
    ASSUME NEW S, IsFiniteSet(S), NEW n \in Nat, NEW f \in [1..n -> S],
           \A i, j \in 1..n : f[i] = f[j] => i = j
    PROVE  n <= Cardinality(S) /\ Cardinality(S) \in Nat
<1>1. f \in Injection(1..n, S)
  BY DEF Injection, IsInjective
<1>2. Cardinality(1..n) <= Cardinality(S) /\ Cardinality(S) \in Nat
  BY <1>1, FS_Injection, FS_CardinalityType
<1>3. Cardinality(1..n) = IF 1 > n THEN 0 ELSE n - 1 + 1
  BY FS_Interval
<1> QED BY <1>2, <1>3

LEMMA AllOnce ==
    ASSUME NEW S, NEW n \in Nat, NEW f \in [1..n -> S], \A s \in S : \E i \in 1..n : f[i] = s
    PROVE  Cardinality(S) <= n
<1>1. f \in Surjection(1..n, S)
  BY DEF Surjection
<1>2. IsFiniteSet(1..n)
  BY FS_Interval
<1>3. Cardinality(S) <= Cardinality(1..n) /\ IsFiniteSet(S)
  BY <1>1, <1>2, FS_Surjection
<1>4. Cardinality(1..n) = IF 1 > n THEN 0 ELSE n - 1 + 1
  BY FS_Interval
<1> QED BY <1>3, <1>4, FS_CardinalityType

(* What is still to be done: the spans without a row, each of which may push *)
(* as many entries as there are spans, and the entries of the stack.         *)
TurnsLeft(n, laid, waiting) == (n - laid) * (n + 1) + waiting

Turns == TurnsLeft(Cardinality(tree.spans), Len(rows), Len(stack))

LEMMA NoTurns ==
    ASSUME NEW n \in Nat, NEW laid \in Nat, laid <= n, NEW waiting \in Nat
    PROVE  /\ TurnsLeft(n, laid, waiting) \in Nat
           /\ TurnsLeft(n, laid, waiting) = 0 <=> waiting = 0 /\ laid = n
<1> DEFINE a == n - laid
           b == n + 1
<1>1. a \in Nat /\ b \in Nat /\ b > 0 /\ (a = 0 <=> laid = n)
  OBVIOUS
<1>2. a * b \in Nat /\ (a * b = 0 <=> a = 0)
  <2> HIDE DEF a, b
  <2> QED BY <1>1
<1>3. TurnsLeft(n, laid, waiting) = a * b + waiting
  BY DEF TurnsLeft
<1> HIDE DEF a, b
<1> QED BY <1>1, <1>2, <1>3

LEMMA FewerTurns ==
    ASSUME NEW n \in Nat, NEW laid \in Nat, laid <= n, NEW waiting \in Nat
    PROVE  \A l \in Nat, w \in Nat : laid <= l /\ l <= n =>
             /\ l = laid /\ w < waiting => TurnsLeft(n, l, w) < TurnsLeft(n, laid, waiting)
             /\ laid < l /\ w <= waiting + n => TurnsLeft(n, l, w) < TurnsLeft(n, laid, waiting)
<1> DEFINE a == n - laid
           b == n + 1
<1>1. a \in Nat /\ b \in Nat /\ b > 0 /\ (a = 0 <=> laid = n)
  OBVIOUS
<1>2. a * b \in Nat
  BY <1>1
<1>3. TurnsLeft(n, laid, waiting) = a * b + waiting
  BY DEF TurnsLeft
<1>4. ASSUME NEW l \in Nat, NEW w \in Nat, laid < l, l <= n, w <= waiting + n
      PROVE  TurnsLeft(n, l, w) < a * b + waiting
  <2> DEFINE c == n - l
             e == l - laid - 1
  <2>1. c \in Nat /\ e \in Nat /\ a = c + e + 1
    BY <1>4
  <2>2. TurnsLeft(n, l, w) = c * b + w
    BY DEF TurnsLeft
  <2>3. a * b = c * b + e * b + b /\ c * b \in Nat /\ e * b \in Nat
    <3> HIDE DEF a, b, c, e
    <3> QED BY <1>1, <2>1
  <2>4. w < waiting + b
    BY <1>4
  <2> HIDE DEF a, b, c, e
  <2> QED BY <1>1, <2>2, <2>3, <2>4
<1>5. ASSUME NEW w \in Nat, w < waiting PROVE TurnsLeft(n, laid, w) < a * b + waiting
  <2>1. TurnsLeft(n, laid, w) = a * b + w
    BY DEF TurnsLeft
  <2> HIDE DEF a, b
  <2> QED BY <1>2, <1>5, <2>1
<1> HIDE DEF a, b
<1> QED BY <1>3, <1>4, <1>5

(* No more rows than spans.                                                  *)
LEMMA RowsFit ==
    ASSUME NEW t \in Trees, NEW rs, Laid(t, rs)
    PROVE  Len(rs) \in Nat /\ Cardinality(t.spans) \in Nat /\ Len(rs) <= Cardinality(t.spans)
<1>1. rs \in Seq(RowRecords(t)) /\ \A i, j \in 1..Len(rs) : rs[i].span = rs[j].span => i = j
  BY DEF Laid
<1>2. Len(rs) \in Nat /\ \A i \in 1..Len(rs) : rs[i] \in RowRecords(t)
  BY <1>1, ItemsOf
<1> DEFINE f == [i \in 1..Len(rs) |-> rs[i].span]
<1>3. f \in [1..Len(rs) -> t.spans]
  BY <1>2 DEF RowRecords
<1>4. \A i, j \in 1..Len(rs) : f[i] = f[j] => i = j
  BY <1>1
<1>5. IsFiniteSet(t.spans)
  BY TreeFacts
<1> HIDE DEF f
<1> QED BY <1>2, <1>3, <1>4, <1>5, OnceEach

(* Nor are more entries pushed at once.                                      *)
LEMMA PushedFit ==
    ASSUME NEW t \in Trees, NEW S, S \subseteq t.spans, NEW d \in Nat
    PROVE  LET a == At(ByStart(t, S), d)
           IN  /\ a \in Seq([span : t.spans, depth : Nat]) /\ Len(a) \in Nat
               /\ Len(a) <= Cardinality(t.spans)
<1> DEFINE a == At(ByStart(t, S), d)
           f == [i \in 1..Len(a) |-> a[i].span]
<1>1. /\ a \in Seq([span : S, depth : {d}])
      /\ \A s \in S : \E n \in 1..Len(a) : a[n].span = s
      /\ \A m, n \in 1..Len(a) :
           m < n => a[m].span # a[n].span /\ t.start[a[m].span] <= t.start[a[n].span]
  BY PushedInTurn
<1> SUFFICES /\ a \in Seq([span : t.spans, depth : Nat]) /\ Len(a) \in Nat
             /\ Len(a) <= Cardinality(t.spans)
  OBVIOUS
<1> HIDE DEF a
<1>2. Len(a) \in Nat /\ \A i \in 1..Len(a) : a[i] \in [span : S, depth : {d}]
  BY <1>1, ItemsOf
<1>3. f \in [1..Len(a) -> t.spans]
  BY <1>2
<1>4. \A i, j \in 1..Len(a) : f[i] = f[j] => i = j
  <2> SUFFICES ASSUME NEW i \in 1..Len(a), NEW j \in 1..Len(a), a[i].span = a[j].span
               PROVE  i = j
    OBVIOUS
  <2>1. i < j \/ j < i \/ i = j
    BY <1>2
  <2> QED BY <1>1, <2>1
<1>5. Len(a) <= Cardinality(t.spans)
  <2>1. IsFiniteSet(t.spans)
    BY TreeFacts
  <2> HIDE DEF f
  <2> QED BY <1>2, <1>3, <1>4, <2>1, OnceEach
<1>6. \A i \in 1..Len(a) : a[i] \in [span : t.spans, depth : Nat]
  BY <1>2
<1>7. a \in Seq([span : t.spans, depth : Nat])
  BY <1>1, <1>6, ItemsIn
<1> QED BY <1>2, <1>5, <1>7

LEMMA TurnsCount ==
    ASSUME WaterfallInv
    PROVE  /\ Turns \in Nat /\ (Turns = 0 <=> LaidOut)
           /\ Len(rows) <= Cardinality(tree.spans)
<1>1. tree \in Trees /\ Laid(tree, rows) /\ Waiting(tree, stack, rows)
  BY DEF WaterfallInv
<1>2. Len(stack) \in Nat /\ (Len(stack) = 0 <=> stack = <<>>)
  <2>1. stack \in Seq([span : tree.spans, depth : Nat])
    BY <1>1 DEF Waiting
  <2> QED BY <2>1, EmptySeq
<1>3. /\ Len(rows) \in Nat /\ Cardinality(tree.spans) \in Nat
      /\ Len(rows) <= Cardinality(tree.spans)
  BY <1>1, RowsFit
<1>4. /\ TurnsLeft(Cardinality(tree.spans), Len(rows), Len(stack)) \in Nat
      /\ TurnsLeft(Cardinality(tree.spans), Len(rows), Len(stack)) = 0
           <=> Len(stack) = 0 /\ Len(rows) = Cardinality(tree.spans)
  <2> DEFINE n == Cardinality(tree.spans)
             laid == Len(rows)
             waiting == Len(stack)
  <2>1. n \in Nat /\ laid \in Nat /\ laid <= n /\ waiting \in Nat
    BY <1>2, <1>3
  <2> HIDE DEF n, laid, waiting
  <2>2. /\ TurnsLeft(n, laid, waiting) \in Nat
        /\ TurnsLeft(n, laid, waiting) = 0 <=> waiting = 0 /\ laid = n
    BY <2>1, NoTurns
  <2> QED BY <2>2 DEF n, laid, waiting
<1> QED BY <1>2, <1>3, <1>4 DEF Turns, LaidOut

LEMMA PopFalls == ASSUME WaterfallInv, Pop PROVE Turns' < Turns
<1> DEFINE N == Cardinality(tree.spans)
<1>0. /\ tree \in Trees /\ Laid(tree, rows) /\ Waiting(tree, stack, rows)
      /\ tree' = tree /\ stack # <<>>
  BY DEF WaterfallInv, Pop
<1>1. stack \in Seq([span : tree.spans, depth : Nat]) /\ Head(stack) = stack[1]
      /\ 1 \in 1..Len(stack) /\ Len(stack) \in Nat
  BY <1>0 DEF Waiting
<1>2. Tail(stack) \in Seq([span : tree.spans, depth : Nat]) /\ Len(Tail(stack)) = Len(stack) - 1
      /\ Len(Tail(stack)) \in Nat
  BY <1>0, <1>1, HeadTailProperties, LenProperties
<1>3. Len(rows) \in Nat /\ N \in Nat /\ Len(rows) <= N
  BY <1>0, RowsFit
<1> DEFINE x == stack[1].span
           d == stack[1].depth
           a == At(ByStart(tree, Children(tree, x)), d + 1)
           r == [span |-> x, depth |-> d, hasChildren |-> Children(tree, x) # {}, appended |-> FALSE]
<1>4. CASE InRows(x)
  <2>1. stack' = Tail(stack) /\ rows' = rows
    BY <1>1, <1>4 DEF Pop
  <2>2. Len(stack') < Len(stack) /\ Len(stack') \in Nat
    BY <1>1, <1>2, <2>1
  <2>3. TurnsLeft(N, Len(rows), Len(stack')) < TurnsLeft(N, Len(rows), Len(stack))
    <3> HIDE DEF N
    <3> QED BY <1>1, <1>3, <2>2, FewerTurns
  <2> QED BY <1>0, <2>1, <2>3 DEF Turns
<1>5. CASE ~InRows(x)
  <2>1. stack' = a \o Tail(stack) /\ rows' = Append(rows, r)
    BY <1>1, <1>5 DEF Pop
  <2>2. x \in tree.spans /\ d \in Nat /\ d + 1 \in Nat /\ Children(tree, x) \subseteq tree.spans
    BY <1>0, <1>1, EntryFacts DEF Children
  <2>3. Len(rows') = Len(rows) + 1
    <3>1. rows \in Seq(RowRecords(tree))
      BY <1>0 DEF Laid
    <3>2. r \in RowRecords(tree)
      BY <2>2 DEF RowRecords
    <3> HIDE DEF r
    <3> QED BY <2>1, <3>1, <3>2, AppendProperties
  <2>4. /\ a \in Seq([span : tree.spans, depth : Nat]) /\ Len(a) \in Nat
        /\ Len(a) <= N
    BY <1>0, <2>2, PushedFit
  <2>5. Len(stack') = Len(a) + Len(Tail(stack))
    <3> HIDE DEF a
    <3> QED BY <1>2, <2>1, <2>4, ConcatProperties
  <2>6. Len(stack') \in Nat /\ Len(stack') <= Len(stack) + N
    <3> HIDE DEF a
    <3> QED BY <1>1, <1>2, <1>3, <2>4, <2>5
  <2>7. Len(rows') \in Nat /\ Len(rows) < Len(rows') /\ Len(rows') <= N
    <3>1. Laid(tree', rows') /\ tree' \in Trees
      BY PopMoves DEF WaterfallInv
    <3>2. Laid(tree, rows') /\ tree \in Trees
      BY <1>0, <3>1
    <3>3. Len(rows') \in Nat /\ Len(rows') <= N
      BY <3>2, RowsFit
    <3> QED BY <1>3, <2>3, <3>3
  <2>8. Len(rows) <= Len(rows')
    BY <1>3, <2>7
  <2> HIDE DEF N
  <2>9. TurnsLeft(N, Len(rows'), Len(stack')) < TurnsLeft(N, Len(rows), Len(stack))
    BY <1>1, <1>3, <2>6, <2>7, <2>8, FewerTurns
  <2> QED BY <1>0, <2>9 DEF Turns, N
<1> QED BY <1>4, <1>5

LEMMA AppendFalls == ASSUME WaterfallInv, AppendLeft PROVE Turns' < Turns
<1> DEFINE N == Cardinality(tree.spans)
<1>0. /\ tree \in Trees /\ Laid(tree, rows) /\ tree' = tree /\ stack' = stack /\ stack = <<>>
      /\ Len(rows) < Cardinality(tree.spans)
  BY DEF WaterfallInv, AppendLeft
<1>1. Len(rows) \in Nat /\ N \in Nat /\ Len(rows) < N /\ DOMAIN rows = 1..Len(rows)
      /\ rows \in Seq(RowRecords(tree))
  <2>1. rows \in Seq(RowRecords(tree))
    BY <1>0 DEF Laid
  <2>2. DOMAIN rows = 1..Len(rows)
    BY <2>1
  <2> QED BY <1>0, <2>1, <2>2, RowsFit
<1> DEFINE S == {s \in tree.spans : ~InRows(s)}
           q == InTurn(S, [s \in tree.spans |-> s])
           b == [i \in DOMAIN q |-> [span |-> q[i], depth |-> 0,
                                     hasChildren |-> FALSE, appended |-> TRUE]]
<1>2. rows' = rows \o b
  BY DEF AppendLeft
<1>3. PICK s \in tree.spans : ~InRows(s)
  <2> SUFFICES ASSUME \A s \in tree.spans : InRows(s) PROVE FALSE
    OBVIOUS
  <2> DEFINE f == [i \in 1..Len(rows) |-> rows[i].span]
  <2>1. \A i \in 1..Len(rows) : rows[i] \in RowRecords(tree)
    BY <1>1, ItemsOf
  <2>2. f \in [1..Len(rows) -> tree.spans]
    BY <2>1 DEF RowRecords
  <2>3. \A s \in tree.spans : \E i \in 1..Len(rows) : f[i] = s
    BY <1>1 DEF InRows
  <2>4. Cardinality(tree.spans) <= Len(rows)
    <3> HIDE DEF f
    <3> QED BY <1>1, <2>2, <2>3, AllOnce
  <2> QED BY <1>1, <2>4
<1>4. q \in Seq(S) /\ Len(q) \in Nat /\ Len(q) > 0 /\ DOMAIN q = 1..Len(q)
  <2>1. S \subseteq tree.spans /\ s \in S
    BY <1>3
  <2> HIDE DEF S
  <2>2. q \in Seq(S) /\ \A c \in S : \E n \in 1..Len(q) : q[n] = c
    BY <1>0, <2>1, LeftInTurn
  <2> HIDE DEF q
  <2>3. Len(q) \in Nat /\ DOMAIN q = 1..Len(q)
    BY <2>2
  <2>4. PICK n \in 1..Len(q) : q[n] = s
    BY <2>1, <2>2
  <2> QED BY <2>2, <2>3, <2>4
<1> HIDE DEF q
<1>5. Len(rows') > Len(rows)
  <2>1. b \in Seq(RowRecords(tree)) /\ Len(b) = Len(q)
    <3>1. \A i \in 1..Len(q) : q[i] \in tree.spans
      BY <1>4
    <3>2. b \in [1..Len(q) -> RowRecords(tree)]
      BY <1>4, <3>1 DEF RowRecords
    <3> HIDE DEF b
    <3> QED BY <1>4, <3>2
  <2> HIDE DEF b
  <2>2. Len(rows \o b) = Len(rows) + Len(b)
    BY <1>1, <2>1, ConcatProperties
  <2> QED BY <1>1, <1>2, <1>4, <2>1, <2>2
<1>6. Len(rows') \in Nat /\ Len(rows') <= N
  <2>1. Laid(tree', rows') /\ tree' \in Trees
    BY AppendMoves DEF WaterfallInv
  <2>2. Laid(tree, rows')
    BY <1>0, <2>1
  <2> QED BY <1>0, <2>2, RowsFit
<1>7. Len(stack) = 0 /\ Len(stack') = 0
  BY <1>0
<1> HIDE DEF N
<1>8. TurnsLeft(N, Len(rows'), Len(stack')) < TurnsLeft(N, Len(rows), Len(stack))
  BY <1>1, <1>5, <1>6, <1>7, FewerTurns
<1> QED BY <1>0, <1>8 DEF Turns, N

(* A layout that is begun comes to its end, whatever the parents, cycles     *)
(* among them: until every span has its row there is a turn of the walk to   *)
(* do or a span to append, and each of these steps leaves less to be done.   *)
THEOREM LayoutEnds ==
    Spec => /\ [](LaidOut \/ stack # <<>> \/ Len(rows) < Cardinality(tree.spans))
            /\ [](Turns \in Nat /\ (Turns = 0 <=> LaidOut))
            /\ [][~LaidOut => Turns' < Turns \/ UNCHANGED waterfallVars]_vars
<1>1. WaterfallInv /\ [Next]_vars => WaterfallInv'
  <2> SUFFICES ASSUME WaterfallInv, [Next]_vars PROVE WaterfallInv'
    OBVIOUS
  <2>1. CASE WaterfallNext
    BY <2>1, WaterfallMoves
  <2>2. CASE UNCHANGED waterfallVars
    BY <2>2 DEF WaterfallInv, waterfallVars
  <2> QED BY <2>1, <2>2
       DEF Next, vars, OnList, OnTrace, OnMetrics, OnLog, OnWaterfall
<1>2. WaterfallInv => (LaidOut \/ stack # <<>> \/ Len(rows) < Cardinality(tree.spans))
  <2> SUFFICES ASSUME WaterfallInv, Len(rows) # Cardinality(tree.spans)
               PROVE  Len(rows) < Cardinality(tree.spans)
    BY DEF LaidOut
  <2>1. tree \in Trees /\ Laid(tree, rows)
    BY DEF WaterfallInv
  <2> QED BY <2>1, RowsFit
<1>3. WaterfallInv => Turns \in Nat /\ (Turns = 0 <=> LaidOut)
  BY TurnsCount
<1>4. WaterfallInv /\ [Next]_vars => [~LaidOut => Turns' < Turns \/ UNCHANGED waterfallVars]_vars
  <2> SUFFICES ASSUME WaterfallInv, [Next]_vars, ~LaidOut
               PROVE  Turns' < Turns \/ UNCHANGED waterfallVars
    OBVIOUS
  <2>1. CASE WaterfallNext
    BY <2>1, PopFalls, AppendFalls
       DEF WaterfallNext, ToggleRow, ToggleAll, Fold, SpanArrives
  <2>2. CASE UNCHANGED waterfallVars
    BY <2>2
  <2> QED BY <2>1, <2>2
       DEF Next, vars, OnList, OnTrace, OnMetrics, OnLog, OnWaterfall
<1> QED BY <1>1, <1>2, <1>3, <1>4, WaterfallBegins, PTL DEF Spec
=============================================================================
