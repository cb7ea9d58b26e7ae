---------------------------- MODULE FindingStore ----------------------------
(***************************************************************************)
(* The tables of one engagement that scans and reviewers share: finding,   *)
(* finding_evidence, finding_event and scan (models/tables.py).  A request *)
(* reads them in one step and writes them in one later step, its commit:   *)
(* what lies between a session's flush and its commit is invisible to every *)
(* other session under READ COMMITTED.                                     *)
(*                                                                         *)
(* A dedup key (rule or title, normalized target, location) is a model     *)
(* value of Keys.  Severity and CVSS are raised each by its own max; the    *)
(* one column here is either of them, not the pair.  A primary key          *)
(* (uuid4) is the scan that created the row and the key it created it for: *)
(* a scan creates at most one row per key.                                 *)
(***************************************************************************)
EXTENDS Lifecycle, Integers, Sequences, FiniteSets

CONSTANTS
  Scans,        \* scan requests against the engagement
  Keys,         \* dedup keys
  MaxSeverity   \* highest severity rank

ASSUME MaxSeverityAssumption == MaxSeverity \in Nat

Severity   == 0..MaxSeverity
FindingIds == Scans \X Keys

FindingDraft == [key : Keys, severity : Severity]

FindingRow ==
  [key               : Keys,
   label             : Nat \ {0},       \* display_id PVX-<label>
   scan              : Scans,           \* scan_id: the scan that created it
   draft             : Nat \ {0},       \* which of its drafts is the inline evidence
   severity          : Severity,
   status            : FindingStatus,
   in_report         : BOOLEAN,
   regression_intent : BOOLEAN]

\* One appended evidence reference: the scan and its draft it came from.
FindingEvidenceRow == [finding : FindingIds, scan : Scans, draft : Nat \ {0}]

\* created_at is the time the request built the row, not that of its commit.
FindingEventRow ==
  [type : {"status_change"}, finding : FindingIds, created_at : Nat,
   from : FindingStatus, to : FindingStatus]
    \cup
  [type : {"in_report_toggle"}, finding : FindingIds, created_at : Nat,
   from : FindingStatus, in_report : BOOLEAN]

VARIABLES
  findings,   \* finding table: primary key -> row
  evidence,   \* finding_evidence table
  events,     \* finding_event table, in commit order
  scans       \* scan table: the scans whose transaction committed

storeVars == <<findings, evidence, events, scans>>

StoreTypeOK ==
  /\ DOMAIN findings \subseteq FindingIds
  /\ IsFiniteSet(DOMAIN findings)
  /\ \A i \in DOMAIN findings : findings[i] \in FindingRow
  /\ evidence \subseteq FindingEvidenceRow
  /\ events \in Seq(FindingEventRow)
  /\ scans \subseteq Scans

StoreInit ==
  /\ findings = [i \in {} |-> 0]
  /\ evidence = {}
  /\ events = <<>>
  /\ scans = {}

=============================================================================
