---------------------------- MODULE ScanPersist ----------------------------
(***************************************************************************)
(* Persisting a scan (services/scan_runner.py, _persist_scan).  Several    *)
(* scans of one engagement run at once, each in its own session.  A scan    *)
(* reads every finding, walks its captured drafts against that snapshot -  *)
(* suppressing, collapsing or creating - and commits.  Labels are numbered  *)
(* from the size of the snapshot and nothing is locked: the unique         *)
(* constraint on (engagement, label) is what detects that another scan     *)
(* committed in between, and the scan then starts over.                    *)
(***************************************************************************)
EXTENDS FindingStore

CONSTANTS
  Captures,             \* what a probe phase may have captured: sequences of drafts
  MAX_PERSIST_ATTEMPTS,
  FkEnforced            \* the database checks foreign keys as rows are inserted
                        \* (PostgreSQL does, the SQLite of the tests does not)

ASSUME CapturesAssumption == Captures \subseteq Seq(FindingDraft)
ASSUME AttemptsAssumption == MAX_PERSIST_ATTEMPTS \in Nat \ {0}
ASSUME FkAssumption       == FkEnforced \in BOOLEAN

VARIABLES
  pc,          \* where the scan request is
  captured,    \* its drafts, fixed before the first attempt
  attempt,     \* 1..MAX_PERSIST_ATTEMPTS
  next,        \* index of the draft it looks at
  by_key,      \* its ORM rows by dedup key: those it read and those it created
  high_water,  \* len(by_key) as read
  allocated,   \* last label it numbered
  raised,      \* keys of the rows read whose severity it raised
  appended     \* evidence rows it will insert

scanVars ==
  <<pc, captured, attempt, next, by_key, high_water, allocated, raised, appended>>

InFlight == {"read", "drafts"}
Finished == {"done", "failed", "aborted"}

\* A row held by a session: its primary key and its columns.
OrmRow == [id : FindingIds, row : FindingRow]

ScanTypeOK ==
  /\ pc \in [Scans -> {"idle"} \cup InFlight \cup Finished]
  /\ captured \in [Scans -> Captures \cup {<<>>}]
  /\ attempt \in [Scans -> 1..MAX_PERSIST_ATTEMPTS]
  /\ next \in [Scans -> Nat \ {0}]
  /\ high_water \in [Scans -> Nat]
  /\ allocated \in [Scans -> Nat]
  /\ raised \in [Scans -> SUBSET Keys]
  /\ appended \in [Scans -> SUBSET FindingEvidenceRow]
  /\ DOMAIN by_key = Scans
  /\ \A s \in Scans : /\ DOMAIN by_key[s] \subseteq Keys
                      /\ IsFiniteSet(DOMAIN by_key[s])
                      /\ raised[s] \subseteq DOMAIN by_key[s]
                      /\ \A k \in DOMAIN by_key[s] : by_key[s][k] \in OrmRow

ScanInit ==
  /\ pc = [s \in Scans |-> "idle"]
  /\ captured = [s \in Scans |-> <<>>]
  /\ attempt = [s \in Scans |-> 1]
  /\ next = [s \in Scans |-> 1]
  /\ by_key = [s \in Scans |-> [k \in {} |-> 0]]
  /\ high_water = [s \in Scans |-> 0]
  /\ allocated = [s \in Scans |-> 0]
  /\ raised = [s \in Scans |-> {}]
  /\ appended = [s \in Scans |-> {}]

-----------------------------------------------------------------------------
\* The engagement's findings indexed by dedup key.
existing_findings_by_key ==
  [k \in {findings[i].key : i \in DOMAIN findings} |->
     LET i == CHOOSE j \in DOMAIN findings : findings[j].key = k
     IN  [id |-> i, row |-> findings[i]]]

Draft(s) == captured[s][next[s]]

HasDraft(s) == pc[s] = "drafts" /\ next[s] <= Len(captured[s])

\* Variant: labels are numbered from zero.
from_draft_zero_based(s, label) ==
  [key |-> Draft(s).key, label |-> label - 1, scan |-> s, draft |-> next[s],
   severity |-> Draft(s).severity, status |-> "new",
   in_report |-> TRUE, regression_intent |-> FALSE]

\* The row this scan creates for a draft, under the label it numbered.
from_draft(s, label) ==
  [key |-> Draft(s).key, label |-> label, scan |-> s, draft |-> next[s],
   severity |-> Draft(s).severity, status |-> "new",
   in_report |-> TRUE, regression_intent |-> FALSE]

\* Variants: the first severity wins, or the last.
keep_first_severity(row, draft) == row
keep_last_severity(row, draft)  == [row EXCEPT !.severity = draft.severity]

\* The severity of a collapsed finding: the worse of the two.
keep_worst_severity(row, draft) ==
  [row EXCEPT !.severity = IF draft.severity > @ THEN draft.severity ELSE @]

\* Keys of the rows this scan created itself.
Created(s) == {k \in DOMAIN by_key[s] : by_key[s][k].id = <<s, k>>}

-----------------------------------------------------------------------------
\* The probe phase is over: its drafts are what every attempt persists.
BeginPersist(s, drafts) ==
  /\ pc[s] = "idle"
  /\ pc' = [pc EXCEPT ![s] = "read"]
  /\ captured' = [captured EXCEPT ![s] = drafts]
  /\ UNCHANGED <<storeVars, attempt, next, by_key, high_water, allocated, raised, appended>>

\* Variant: labels are numbered from one past the next.
ReadFindings_gap(s) ==
  /\ pc[s] = "read"
  /\ pc' = [pc EXCEPT ![s] = "drafts"]
  /\ next' = [next EXCEPT ![s] = 1]
  /\ by_key' = [by_key EXCEPT ![s] = existing_findings_by_key]
  /\ high_water' = [high_water EXCEPT ![s] = Cardinality(DOMAIN existing_findings_by_key)]
  /\ allocated' = [allocated EXCEPT ![s] = Cardinality(DOMAIN existing_findings_by_key) + 1]
  /\ raised' = [raised EXCEPT ![s] = {}]
  /\ appended' = [appended EXCEPT ![s] = {}]
  /\ UNCHANGED <<storeVars, captured, attempt>>

\* Top of an attempt: flush the scan row (seen by this session only), read
\* the findings, start numbering from how many there are.
ReadFindings(s) ==
  /\ pc[s] = "read"
  /\ pc' = [pc EXCEPT ![s] = "drafts"]
  /\ next' = [next EXCEPT ![s] = 1]
  /\ by_key' = [by_key EXCEPT ![s] = existing_findings_by_key]
  /\ high_water' = [high_water EXCEPT ![s] = Cardinality(DOMAIN existing_findings_by_key)]
  /\ allocated' = [allocated EXCEPT ![s] = Cardinality(DOMAIN existing_findings_by_key)]
  /\ raised' = [raised EXCEPT ![s] = {}]
  /\ appended' = [appended EXCEPT ![s] = {}]
  /\ UNCHANGED <<storeVars, captured, attempt>>

\* Variant: an accepted risk is skipped as well.
Suppress_accepted_risk(s) ==
  /\ HasDraft(s)
  /\ Draft(s).key \in DOMAIN by_key[s]
  /\ by_key[s][Draft(s).key].row.status \in {"false_positive", "accepted_risk"}
  /\ next' = [next EXCEPT ![s] = @ + 1]
  /\ UNCHANGED <<storeVars, pc, captured, attempt, by_key, high_water, allocated, raised, appended>>

\* The draft's finding was read as a false positive: skip the draft.
Suppress(s) ==
  /\ HasDraft(s)
  /\ Draft(s).key \in DOMAIN by_key[s]
  /\ by_key[s][Draft(s).key].row.status = "false_positive"
  /\ next' = [next EXCEPT ![s] = @ + 1]
  /\ UNCHANGED <<storeVars, pc, captured, attempt, by_key, high_water, allocated, raised, appended>>

\* Variant: a false positive gains evidence like any other finding.
Collapse_unsuppressed(s) ==
  /\ HasDraft(s)
  /\ LET k   == Draft(s).key
         row == keep_worst_severity(by_key[s][k].row, Draft(s))
     IN  /\ k \in DOMAIN by_key[s]
         /\ appended' = [appended EXCEPT ![s] = @ \cup
              {[finding |-> by_key[s][k].id, scan |-> s, draft |-> next[s]]}]
         /\ by_key' = [by_key EXCEPT ![s][k].row = row]
         /\ raised' = IF row = by_key[s][k].row THEN raised
                      ELSE [raised EXCEPT ![s] = @ \cup {k}]
  /\ next' = [next EXCEPT ![s] = @ + 1]
  /\ UNCHANGED <<storeVars, pc, captured, attempt, high_water, allocated>>

\* The draft's finding exists: append the evidence, keep the worst severity.
Collapse(s) ==
  /\ HasDraft(s)
  /\ LET k   == Draft(s).key
         row == keep_worst_severity(by_key[s][k].row, Draft(s))
     IN  /\ k \in DOMAIN by_key[s]
         /\ by_key[s][k].row.status # "false_positive"
         /\ appended' = [appended EXCEPT ![s] = @ \cup
              {[finding |-> by_key[s][k].id, scan |-> s, draft |-> next[s]]}]
         /\ by_key' = [by_key EXCEPT ![s][k].row = row]
         /\ raised' = IF row = by_key[s][k].row THEN raised
                      ELSE [raised EXCEPT ![s] = @ \cup {k}]
  /\ next' = [next EXCEPT ![s] = @ + 1]
  /\ UNCHANGED <<storeVars, pc, captured, attempt, high_water, allocated>>

\* Variant: the number just used is used again.
Create_same_label(s) ==
  /\ HasDraft(s)
  /\ LET k == Draft(s).key
     IN  /\ k \notin DOMAIN by_key[s]
         /\ by_key' = [by_key EXCEPT ![s] =
              [j \in DOMAIN @ \cup {k} |->
                 IF j = k THEN [id |-> <<s, k>>,
                                row |-> from_draft(s, IF allocated[s] = 0 THEN 1 ELSE allocated[s])]
                 ELSE by_key[s][j]]]
  /\ next' = [next EXCEPT ![s] = @ + 1]
  /\ UNCHANGED <<storeVars, pc, captured, attempt, high_water, allocated, raised, appended>>

\* No finding has the draft's key: number a new one.
Create(s) ==
  /\ HasDraft(s)
  /\ LET k == Draft(s).key
     IN  /\ k \notin DOMAIN by_key[s]
         /\ allocated' = [allocated EXCEPT ![s] = @ + 1]
         /\ by_key' = [by_key EXCEPT ![s] =
              [j \in DOMAIN @ \cup {k} |->
                 IF j = k THEN [id |-> <<s, k>>, row |-> from_draft(s, allocated[s] + 1)]
                 ELSE by_key[s][j]]]
  /\ next' = [next EXCEPT ![s] = @ + 1]
  /\ UNCHANGED <<storeVars, pc, captured, attempt, high_water, raised, appended>>

-----------------------------------------------------------------------------
\* Variant: the table has no unique constraint.
LabelTaken_unconstrained(s) == FALSE

\* A label this scan numbered is taken: uq_finding_engagement_display_id.
LabelTaken(s) ==
  \E k \in Created(s), i \in DOMAIN findings :
     findings[i].label = by_key[s][k].row.label

\* One flush writes every row.  The mappers have no relationship() between
\* them, so evidence rows go in before finding rows: an evidence row of a
\* finding created in the same flush names a row that is not there yet.
EvidenceBeforeFinding(s) ==
  FkEnforced /\ \E e \in appended[s] : e.finding \notin DOMAIN findings

AtCommit(s) == pc[s] = "drafts" /\ next[s] > Len(captured[s])

IntegrityError(s) == LabelTaken(s) \/ EvidenceBeforeFinding(s)

\* Variant: every column of a row whose severity was raised is written back.
Written_whole_rows(s) ==
  [i \in DOMAIN findings \cup {<<s, k>> : k \in Created(s)} |->
     IF i \notin DOMAIN findings THEN by_key[s][i[2]].row
     ELSE IF findings[i].key \in raised[s] THEN by_key[s][findings[i].key].row
     ELSE findings[i]]

\* The finding table with the rows it created and the severities it raised,
\* and nothing else of the rows it read.
Written(s) ==
  [i \in DOMAIN findings \cup {<<s, k>> : k \in Created(s)} |->
     IF i \notin DOMAIN findings THEN by_key[s][i[2]].row
     ELSE IF findings[i].key \in raised[s] /\ by_key[s][findings[i].key].id = i
     THEN [findings[i] EXCEPT !.severity = by_key[s][findings[i].key].row.severity]
     ELSE findings[i]]

\* Variant: the newest evidence of a finding replaces the rest.
Commit_replaces_evidence(s) ==
  /\ AtCommit(s)
  /\ ~ IntegrityError(s)
  /\ pc' = [pc EXCEPT ![s] = "done"]
  /\ findings' = Written(s)
  /\ evidence' = {e \in evidence : \A a \in appended[s] : a.finding # e.finding} \cup appended[s]
  /\ scans' = scans \cup {s}
  /\ UNCHANGED <<events, captured, attempt, next, by_key, high_water, allocated, raised, appended>>

\* The commit writes findings, evidence and the scan row, all or none.
Commit(s) ==
  /\ AtCommit(s)
  /\ ~ IntegrityError(s)
  /\ pc' = [pc EXCEPT ![s] = "done"]
  /\ findings' = Written(s)
  /\ evidence' = evidence \cup appended[s]
  /\ scans' = scans \cup {s}
  /\ UNCHANGED <<events, captured, attempt, next, by_key, high_water, allocated, raised, appended>>

\* Variant: what was flushed before the error stays.
Retry_without_rollback(s) ==
  /\ AtCommit(s)
  /\ IntegrityError(s)
  /\ attempt[s] < MAX_PERSIST_ATTEMPTS
  /\ pc' = [pc EXCEPT ![s] = "read"]
  /\ attempt' = [attempt EXCEPT ![s] = @ + 1]
  /\ evidence' = evidence \cup appended[s]
  /\ UNCHANGED <<findings, events, scans, captured, next, by_key, high_water, allocated, raised, appended>>

\* Variant: the commit is tried again, as often as it takes, as it is.
Retry_same_labels(s) ==
  /\ AtCommit(s)
  /\ IntegrityError(s)
  /\ pc' = [pc EXCEPT ![s] = "drafts"]
  /\ next' = [next EXCEPT ![s] = Len(captured[s]) + 1]
  /\ UNCHANGED <<storeVars, captured, attempt, by_key, high_water, allocated, raised, appended>>

\* The database refused the commit: roll back and start over.
Retry(s) ==
  /\ AtCommit(s)
  /\ IntegrityError(s)
  /\ attempt[s] < MAX_PERSIST_ATTEMPTS
  /\ pc' = [pc EXCEPT ![s] = "read"]
  /\ attempt' = [attempt EXCEPT ![s] = @ + 1]
  /\ UNCHANGED <<storeVars, captured, next, by_key, high_water, allocated, raised, appended>>

\* Variant: the last attempt is not made.
GiveUp_early(s) ==
  /\ AtCommit(s)
  /\ IntegrityError(s)
  /\ attempt[s] + 1 >= MAX_PERSIST_ATTEMPTS
  /\ pc' = [pc EXCEPT ![s] = "failed"]
  /\ UNCHANGED <<storeVars, captured, attempt, next, by_key, high_water, allocated, raised, appended>>

\* No attempt is left: ScanPersistError.
GiveUp(s) ==
  /\ AtCommit(s)
  /\ IntegrityError(s)
  /\ attempt[s] = MAX_PERSIST_ATTEMPTS
  /\ pc' = [pc EXCEPT ![s] = "failed"]
  /\ UNCHANGED <<storeVars, captured, attempt, next, by_key, high_water, allocated, raised, appended>>

\* The request dies before its commit (client gone, worker killed): its
\* transaction is rolled back.
Abort(s) ==
  /\ pc[s] \in InFlight
  /\ pc' = [pc EXCEPT ![s] = "aborted"]
  /\ UNCHANGED <<storeVars, captured, attempt, next, by_key, high_water, allocated, raised, appended>>

\* What a scan request does by itself, once begun.
ScanStep(s) ==
  \/ ReadFindings(s)
  \/ Suppress(s)
  \/ Collapse(s)
  \/ Create(s)
  \/ Commit(s)
  \/ Retry(s)
  \/ GiveUp(s)

ScanNext ==
  \E s \in Scans :
    \/ \E drafts \in Captures : BeginPersist(s, drafts)
    \/ ScanStep(s)
    \/ Abort(s)

=============================================================================
