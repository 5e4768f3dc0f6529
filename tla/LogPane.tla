------------------------------ MODULE LogPane ------------------------------
(***************************************************************************)
(* The details of one log record (LogsView, packages/ui): every selection  *)
(* sends a request, and a counter tells the answers apart.  Rows of the    *)
(* list may be gone from the store by the time they are selected; a row id *)
(* is never given twice (AUTOINCREMENT; a counter in memory).              *)
(***************************************************************************)
EXTENDS Naturals

CONSTANTS
    Logs,
    NoLog,
    MaxRequests     \* bound on selections and closings

ASSUME LogPaneAssumption == NoLog \notin Logs /\ MaxRequests \in Nat

VARIABLES
    retained,       \* logs that are stored
    selectedLog,    \* selected
    details,        \* selectedDetails
    detailError,
    detailRequest,  \* the counter
    requests        \* under way: the number, the log, the answer

logVars == <<retained, selectedLog, details, detailError, detailRequest, requests>>

LogInit ==
    /\ retained = Logs
    /\ selectedLog = NoLog /\ details = NoLog /\ detailError = FALSE
    /\ detailRequest = 0
    /\ requests = {}

\* Retention, or clear().
DropLog == \E l \in retained :
    /\ retained' = retained \ {l}
    /\ UNCHANGED <<selectedLog, details, detailError, detailRequest, requests>>

NewRequest(log) ==
    /\ detailRequest < MaxRequests
    /\ detailRequest' = detailRequest + 1
    /\ selectedLog' = log /\ details' = NoLog /\ detailError' = FALSE

\* selectLog()
SelectLog == \E l \in Logs :
    /\ NewRequest(l)
    /\ requests' = requests \cup {[n |-> detailRequest + 1, log |-> l, answer |-> "none"]}
    /\ UNCHANGED retained

\* closeDetails()
CloseDetails == NewRequest(NoLog) /\ UNCHANGED <<retained, requests>>

\* getLogDetails: the record, or a stale reference.
AnswerDetails == \E r \in requests :
    /\ r.answer = "none"
    /\ \E answer \in {IF r.log \in retained THEN "found" ELSE "gone", "failed"} :
          requests' = (requests \ {r}) \cup {[r EXCEPT !.answer = answer]}
    /\ UNCHANGED <<retained, selectedLog, details, detailError, detailRequest>>

\* A mutant of ShowDetails: whichever answer comes last is shown.
ShowAnyDetails == \E r \in requests :
    /\ r.answer # "none"
    /\ requests' = requests \ {r}
    /\ details' = IF r.answer = "found" THEN r.log ELSE details
    /\ detailError' = (detailError \/ r.answer # "found")
    /\ UNCHANGED <<retained, selectedLog, detailRequest>>

\* then(): an answer to the request of the current number.
ShowDetails == \E r \in requests :
    /\ r.answer # "none"
    /\ requests' = requests \ {r}
    /\ LET current == r.n = detailRequest
       IN /\ details' = IF current /\ r.answer = "found" THEN r.log ELSE details
          /\ detailError' = (detailError \/ (current /\ r.answer # "found"))
    /\ UNCHANGED <<retained, selectedLog, detailRequest>>

LogNext == DropLog \/ SelectLog \/ CloseDetails \/ AnswerDetails \/ ShowDetails

\* The drawer never shows one record under the row of another, nor an error
\* that another row's request had: answers come in any order, twice for a row
\* that was left and selected again.
DetailsOfSelected ==
    /\ details # NoLog => details = selectedLog /\ ~detailError
    /\ selectedLog = NoLog => ~detailError
    /\ (selectedLog # NoLog /\ details = NoLog /\ ~detailError) =>
            \E r \in requests : r.n = detailRequest /\ r.log = selectedLog
=============================================================================
