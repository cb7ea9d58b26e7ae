------------------------------- MODULE Triage -------------------------------
(***************************************************************************)
(* What a human does to a finding through the API (api/engagements.py):    *)
(* transition_finding and set_finding_in_report.  Each request loads the    *)
(* row, decides on what it loaded, and commits later with no version check: *)
(* between the two another request may have committed.                      *)
(***************************************************************************)
EXTENDS FindingStore

CONSTANTS
  Reviews,     \* concurrent review requests
  MaxEvents,   \* bound: no review begins once this many events are committed
  ClockTicks   \* bound: FALSE where no property reads created_at, every time then is 0

ASSUME MaxEventsAssumption == MaxEvents \in Nat
ASSUME ReviewsAssumption   == IsFiniteSet(Reviews)
ASSUME ClockAssumption     == ClockTicks \in BOOLEAN

VARIABLE review   \* the request as it stands between its read and its commit

NoReview == [op |-> "none"]

Review ==
  {NoReview}
    \cup
  [op : {"transition"}, finding : FindingIds, created_at : Nat, current : FindingStatus, to : FindingStatus]
    \cup
  [op : {"in_report"}, finding : FindingIds, created_at : Nat, current : FindingStatus,
   loaded : BOOLEAN, to : BOOLEAN]

ReviewTypeOK == review \in [Reviews -> Review]

ReviewInit == review = [r \in Reviews |-> NoReview]

\* The clock, as what a request reads from it: how many requests began before,
\* those that died apart.
_now == IF ClockTicks THEN Len(events) + Cardinality({r \in Reviews : review[r] # NoReview})
        ELSE 0

\* Variant: any edge is accepted.
BeginTransition_unchecked(r, i, to) ==
  /\ review[r] = NoReview
  /\ Len(events) < MaxEvents
  /\ review' = [review EXCEPT ![r] =
       [op |-> "transition", finding |-> i, created_at |-> _now, current |-> findings[i].status, to |-> to]]
  /\ UNCHANGED storeVars

\* transition_finding up to its commit: load the row, refuse an edge that is
\* not allowed from the status loaded (409: nothing changes).
BeginTransition(r, i, to) ==
  /\ review[r] = NoReview
  /\ Len(events) < MaxEvents
  /\ is_allowed(findings[i].status, to)
  /\ review' = [review EXCEPT ![r] =
       [op |-> "transition", finding |-> i, created_at |-> _now, current |-> findings[i].status, to |-> to]]
  /\ UNCHANGED storeVars

\* Variant: a false positive is not marked for its regression test.
CommitTransition_no_intent(r) ==
  /\ review[r].op = "transition"
  /\ LET q == review[r]
     IN  /\ events' = Append(events,
              [type |-> "status_change", finding |-> q.finding, created_at |-> q.created_at,
               from |-> q.current, to |-> q.to])
         /\ findings' = [findings EXCEPT ![q.finding].status = q.to]
  /\ review' = [review EXCEPT ![r] = NoReview]
  /\ UNCHANGED <<evidence, scans>>

\* Its commit: one audit row from the status loaded, and the new status.
CommitTransition(r) ==
  /\ review[r].op = "transition"
  /\ LET q == review[r]
     IN  /\ events' = Append(events,
              [type |-> "status_change", finding |-> q.finding, created_at |-> q.created_at,
               from |-> q.current, to |-> q.to])
         /\ findings' = [findings EXCEPT ![q.finding] =
              IF q.to = "false_positive" THEN [@ EXCEPT !.status = q.to, !.regression_intent = TRUE]
              ELSE [@ EXCEPT !.status = q.to]]
  /\ review' = [review EXCEPT ![r] = NoReview]
  /\ UNCHANGED <<evidence, scans>>

\* set_finding_in_report up to its commit.
BeginInReport(r, i, to) ==
  /\ review[r] = NoReview
  /\ Len(events) < MaxEvents
  /\ review' = [review EXCEPT ![r] =
       [op |-> "in_report", finding |-> i, created_at |-> _now, current |-> findings[i].status,
        loaded |-> findings[i].in_report, to |-> to]]
  /\ UNCHANGED storeVars

\* Variant: the request flips the flag whatever it asked for.
CommitInReport_flips(r) ==
  /\ review[r].op = "in_report"
  /\ LET q == review[r]
     IN  /\ events' = Append(events,
              [type |-> "in_report_toggle", finding |-> q.finding, created_at |-> q.created_at,
               from |-> q.current, in_report |-> q.to])
         /\ findings' = [findings EXCEPT ![q.finding].in_report = ~ q.loaded]
  /\ review' = [review EXCEPT ![r] = NoReview]
  /\ UNCHANGED <<evidence, scans>>

\* Its commit.  The ORM updates a column only when its value differs from the
\* one loaded: asking for the value loaded writes the audit row alone.
CommitInReport(r) ==
  /\ review[r].op = "in_report"
  /\ LET q == review[r]
     IN  /\ events' = Append(events,
              [type |-> "in_report_toggle", finding |-> q.finding, created_at |-> q.created_at,
               from |-> q.current, in_report |-> q.to])
         /\ findings' = IF q.to = q.loaded THEN findings
                        ELSE [findings EXCEPT ![q.finding].in_report = q.to]
  /\ review' = [review EXCEPT ![r] = NoReview]
  /\ UNCHANGED <<evidence, scans>>

\* The request dies before its commit.
AbortReview(r) ==
  /\ review[r] # NoReview
  /\ review' = [review EXCEPT ![r] = NoReview]
  /\ UNCHANGED storeVars

ReviewNext ==
  \E r \in Reviews :
    \/ \E i \in DOMAIN findings :
         \/ \E to \in FindingStatus : BeginTransition(r, i, to)
         \/ \E to \in BOOLEAN : BeginInReport(r, i, to)
    \/ CommitTransition(r)
    \/ CommitInReport(r)
    \/ AbortReview(r)

=============================================================================
