----------------------------- MODULE Workbench -----------------------------
(***************************************************************************)
(* The surfaces of the workbench that follow live data.  They share the    *)
(* data source and nothing else, so that a behaviour concerns one of them. *)
(***************************************************************************)
EXTENDS LiveList, TracePane, MetricPane, LogPane, WaterfallPane

VARIABLE surface

vars == <<listVars, traceVars, metricVars, logVars, waterfallVars, surface>>

Init ==
    /\ surface \in {"list", "trace", "metrics", "log", "waterfall"}
    /\ ListInit /\ TraceInit /\ MetricInit /\ LogInit /\ WaterfallInit
    /\ surface # "list" => backend = "memory" /\ hook.key = CHOOSE q \in Queries : TRUE
    /\ surface # "metrics" => metricStore = "memory"
    /\ surface # "waterfall" => \A s \in Spans : tree.parent[s] = NoSpan /\ tree.start[s] = 1

OnList(A) == surface = "list" /\ A /\ UNCHANGED <<traceVars, metricVars, logVars, waterfallVars, surface>>
OnTrace(A) == surface = "trace" /\ A /\ UNCHANGED <<listVars, metricVars, logVars, waterfallVars, surface>>
OnMetrics(A) == surface = "metrics" /\ A /\ UNCHANGED <<listVars, traceVars, logVars, waterfallVars, surface>>
OnLog(A) == surface = "log" /\ A /\ UNCHANGED <<listVars, traceVars, metricVars, waterfallVars, surface>>
OnWaterfall(A) ==
    surface = "waterfall" /\ A /\ UNCHANGED <<listVars, traceVars, metricVars, logVars, surface>>

Next ==
    \/ OnList(ListNext) \/ OnTrace(TraceNext) \/ OnMetrics(MetricNext) \/ OnLog(LogNext)
    \/ OnWaterfall(WaterfallNext)

\* Events arrive, timers fire and requests are answered; that a user does
\* anything, or that a request fails, is not assumed.
Fairness ==
    /\ WF_vars(OnList(Hint)) /\ WF_vars(OnList(Timer))
    /\ WF_vars(OnList(Answer)) /\ WF_vars(OnList(Deliver))
    /\ WF_vars(OnTrace(Hear)) /\ WF_vars(OnTrace(Rerender)) /\ WF_vars(OnTrace(StartLoad))
    /\ WF_vars(OnTrace(ReadTrace)) /\ WF_vars(OnTrace(Loaded))

Spec == Init /\ [][Next]_vars /\ Fairness

\* A live view that lags behind what was announced catches up: the last hint is
\* never the one that the folding of hints into one run and one trailing run,
\* or the restart of an effect, has lost.  What TraceCurrent excepts stays out.
CatchesUp ==
    /\ []<>(surface = "list" => ~Lags)
    /\ []<>(surface = "trace" =>
               \A t \in Traces : Listening(t) => Shows(t) \/ pane.failed \/ t \in missed)
=============================================================================
