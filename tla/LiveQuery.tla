----------------------------- MODULE LiveQuery -----------------------------
(***************************************************************************)
(* useDataSourceQuery (packages/ui): the hook that keeps the result of a   *)
(* query in step with a data source.  A hook is a record, and these are    *)
(* its transitions; the modules of the views apply them.                   *)
(*                                                                         *)
(* React runs the cleanup of one effect and the body of the next in one    *)
(* step, and so do Restart's users.  "wait" says whether the minimum       *)
(* refresh interval has not yet passed: the clock is left open.            *)
(***************************************************************************)
CONSTANT None      \* nothing: no value, no reply

HookModes == {"live", "paused", "off"}    \* off: not enabled

\* A component has rendered and its effect has not run.
Mounted(key) ==
    [key |-> key, mode |-> "off", running |-> FALSE, trailing |-> FALSE, timer |-> FALSE,
     loading |-> TRUE, failed |-> FALSE, reply |-> None, value |-> None]

\* run()
Begin(h) == [h EXCEPT !.running = TRUE, !.trailing = FALSE, !.reply = None]

\* A mutant of Schedule: what arrives during a run is dropped.
ForgetfulSchedule(h, wait) ==
    CASE h.running -> h
      [] ~h.running /\ h.timer -> h
      [] ~h.running /\ ~h.timer /\ wait -> [h EXCEPT !.timer = TRUE]
      [] OTHER -> Begin(h)

\* schedule()
Schedule(h, wait) ==
    CASE h.running -> [h EXCEPT !.trailing = TRUE]
      [] ~h.running /\ h.timer -> h
      [] ~h.running /\ ~h.timer /\ wait -> [h EXCEPT !.timer = TRUE]
      [] OTHER -> Begin(h)

\* The effect runs again because its key or its mode has changed.
Restart(h, key, mode) ==
    LET fresh == [h EXCEPT !.key = key, !.mode = mode, !.running = FALSE,
                           !.trailing = FALSE, !.timer = FALSE, !.reply = None]
    IN IF mode = "off" THEN [fresh EXCEPT !.loading = FALSE]
       ELSE Begin([fresh EXCEPT !.loading = TRUE])

\* The subscriber's callback, for an event that concerns the query.
Notified(h, wait) == IF h.mode = "live" THEN Schedule(h, wait) ELSE h

\* The timer of schedule() fires.
TimerFires(h) == Begin([h EXCEPT !.timer = FALSE])

\* A mutant of Finished: the loading flag is cleared before the trailing run.
FinishedTooSoon(h, ok, wait) ==
    LET done == [h EXCEPT !.running = FALSE, !.reply = None, !.failed = ~ok, !.loading = FALSE,
                          !.value = IF ok THEN h.reply ELSE @]
    IN done

\* run() after its await: the value or the error, then the trailing run.
Finished(h, ok, wait) ==
    LET done == [h EXCEPT !.running = FALSE, !.reply = None, !.failed = ~ok,
                          !.value = IF ok THEN h.reply ELSE @]
    IN IF h.trailing THEN Schedule(done, wait) ELSE [done EXCEPT !.loading = FALSE]
=============================================================================
