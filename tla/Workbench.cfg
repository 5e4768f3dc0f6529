SPECIFICATION Spec
CONSTANTS
    Ids = {1, 2, 3}
    Keys = {1, 2}
    Gone = 0
    None = none
    PageSize = 1
    Queries <- TheQueries
    Arrivals <- TheArrivals
    Expiring = {2}
    InitialStores <- TheStores
    MaxEvents = 3
    MaxMore = 1
    Traces = {t1, t2}
    NoTrace = noTrace
    CacheLimit = 1
    MaxTraceEvents = 5
    Identities = {1, 2}
    MeterOf <- TheMeters
    MaxId = 2
    MaxMetricEvents = 3
    Logs = {l1, l2}
    NoLog = noLog
    MaxRequests = 4
    Spans = {1, 2, 3, 4}
    NoSpan = 0
    Starts = {1, 2}
    MaxFolds = 2
INVARIANTS QuietIsCurrent ShownIsAsked PagesFit TraceCurrent PointsOfRow MetricsCurrent DetailsOfSelected WaterfallTrue
PROPERTY CatchesUp
CHECK_DEADLOCK FALSE
