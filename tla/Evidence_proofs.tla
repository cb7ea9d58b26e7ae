--------------------------- MODULE Evidence_proofs ---------------------------
(***************************************************************************)
(* No evidence is dropped and no severity is made up, whatever scans        *)
(* overlap.  Both are claims about committed rows that only the walk over   *)
(* the drafts can establish, so the invariant says what a walk has done so   *)
(* far (WalkOK).  Last, a list of findings that is read meanwhile shows the   *)
(* evidence there is.                                                      *)
(***************************************************************************)
EXTENDS Audit_proofs, Listing

-----------------------------------------------------------------------------
(***************************************************************************)
(* The invariant of a walk.                                                *)
(***************************************************************************)

\* The drafts the session holds for the row of key k, the inline one and
\* those it will append.
Held(s, k) ==
  {n \in 1..(next[s] - 1) :
     \/ k \in Created(s) /\ by_key[s][k].row.draft = n
     \/ [finding |-> by_key[s][k].id, scan |-> s, draft |-> n] \in appended[s]}

\* Every draft walked past is held for its key, or the finding was read as a
\* false positive.
DraftsHeld(s) ==
  \A n \in 1..(next[s] - 1) :
    LET k == captured[s][n].key
    IN  /\ k \in DOMAIN by_key[s]
        /\ by_key[s][k].row.status = "false_positive" \/ n \in Held(s, k)

\* What it holds for a row is of the row's key.
KeysHeld(s) == \A k \in DOMAIN by_key[s] : \A n \in Held(s, k) : captured[s][n].key = k

\* What it will append is of a draft walked past, for a row that was not read
\* as a false positive, and not the row's inline evidence.
AppendedHeld(s) ==
  \A e \in appended[s] :
    /\ e.draft \in 1..(next[s] - 1)
    /\ \E k \in DOMAIN by_key[s] :
         /\ by_key[s][k].id = e.finding
         /\ by_key[s][k].row.status # "false_positive"
         /\ ~ (k \in Created(s) /\ by_key[s][k].row.draft = e.draft)

\* Rows it created have their inline evidence from a draft walked past.
InlineHeld(s) == \A k \in Created(s) : by_key[s][k].row.draft \in 1..(next[s] - 1)

\* A row read as a false positive was ruled one.
ReadRuled(s) ==
  \A k \in DOMAIN by_key[s] :
    by_key[s][k].row.status = "false_positive" => Ruled(by_key[s][k].id, "false_positive")

\* The severity of a row it created or raised is that of a draft it holds for
\* it; a row it created is as severe as all of those, a row it read as
\* severe as all the evidence of the scan that created that one.
SeverityHeld(s) ==
  /\ \A k \in raised[s] \cup Created(s) :
       \E n \in Held(s, k) : captured[s][n].severity = by_key[s][k].row.severity
  /\ \A k \in Created(s) : \A n \in Held(s, k) :
       captured[s][n].severity <= by_key[s][k].row.severity
  /\ \A k \in DOMAIN by_key[s] \ Created(s) : \A d \in EvidenceOf(by_key[s][k].id) :
       d[1] = findings[by_key[s][k].id].scan => SeverityOf(d) <= by_key[s][k].row.severity

WalkOK(s) ==
  /\ next[s] <= Len(captured[s]) + 1
  /\ DraftsHeld(s)
  /\ KeysHeld(s)
  /\ AppendedHeld(s)
  /\ InlineHeld(s)
  /\ ReadRuled(s)
  /\ SeverityHeld(s)

\* Evidence refers to a draft that its scan captured.
EvidenceIsCaptured ==
  \A i \in DOMAIN findings : \A d \in EvidenceOf(i) : d[2] \in DOMAIN captured[d[1]]

EvidenceInv ==
  /\ \A s \in Scans : pc[s] = "drafts" => WalkOK(s)
  /\ EvidenceIsCaptured
  /\ EveryDraftAccountedFor
  /\ SeverityIsEvidenced

-----------------------------------------------------------------------------
(***************************************************************************)
(* What the steps of a walk do, row by row.                                *)
(***************************************************************************)

\* A collapse raises at most the severity of one row, to that of the draft,
\* and adds the draft to what is held for it.
LEMMA CollapseResult ==
  ASSUME TypeOK, NEW s \in Scans, Collapse(s), NEW k, k = Draft(s).key
  PROVE  /\ HasDraft(s)
         /\ k \in DOMAIN by_key[s]
         /\ by_key[s][k].row.status # "false_positive"
         /\ DOMAIN by_key'[s] = DOMAIN by_key[s]
         /\ \A j \in DOMAIN by_key[s] :
              /\ by_key'[s][j].id = by_key[s][j].id
              /\ by_key'[s][j].row.draft = by_key[s][j].row.draft
              /\ by_key'[s][j].row.status = by_key[s][j].row.status
              /\ j # k => by_key'[s][j] = by_key[s][j]
         /\ by_key'[s][k].row.severity = IF Draft(s).severity > by_key[s][k].row.severity
                                         THEN Draft(s).severity ELSE by_key[s][k].row.severity
         /\ Created(s)' = Created(s)
         /\ raised'[s] = IF Draft(s).severity > by_key[s][k].row.severity
                         THEN raised[s] \cup {k} ELSE raised[s]
         /\ appended'[s] = appended[s] \cup
              {[finding |-> by_key[s][k].id, scan |-> s, draft |-> next[s]]}
         /\ next'[s] = next[s] + 1
         /\ UNCHANGED <<storeVars, captured>>
<1> DEFINE row == keep_worst_severity(by_key[s][k].row, Draft(s))
<1>1. k \in DOMAIN by_key[s] /\ HasDraft(s) /\ by_key[s][k].row.status # "false_positive"
  BY DEF Collapse
<1>2. by_key[s][k] \in OrmRow /\ by_key[s][k].row \in FindingRow
  BY <1>1 DEF TypeOK, ScanTypeOK, OrmRow
<1>3. Draft(s).severity \in Severity
  BY <1>1, DraftTyped
<1>4. /\ row.key = by_key[s][k].row.key
      /\ row.draft = by_key[s][k].row.draft
      /\ row.status = by_key[s][k].row.status
      /\ row.severity = IF Draft(s).severity > by_key[s][k].row.severity
                        THEN Draft(s).severity ELSE by_key[s][k].row.severity
  BY <1>2 DEF keep_worst_severity, FindingRow
<1>5. row = by_key[s][k].row <=> ~ (Draft(s).severity > by_key[s][k].row.severity)
  <2>1. CASE Draft(s).severity > by_key[s][k].row.severity
    <3>1. Draft(s).severity \in Int /\ by_key[s][k].row.severity \in Int
      BY <1>2, <1>3, MaxSeverityAssumption DEF Severity, FindingRow
    <3>2. row.severity # by_key[s][k].row.severity
      BY <1>4, <2>1, <3>1
    <3> QED
      BY <2>1, <3>2
  <2>2. CASE ~ (Draft(s).severity > by_key[s][k].row.severity)
    BY <1>2, <2>2 DEF keep_worst_severity, FindingRow
  <2> QED
    BY <2>1, <2>2
<1>6. /\ by_key' = [by_key EXCEPT ![s][k].row = row]
      /\ appended' = [appended EXCEPT ![s] = @ \cup
           {[finding |-> by_key[s][k].id, scan |-> s, draft |-> next[s]]}]
      /\ raised' = IF row = by_key[s][k].row THEN raised ELSE [raised EXCEPT ![s] = @ \cup {k}]
      /\ next' = [next EXCEPT ![s] = @ + 1]
      /\ UNCHANGED <<storeVars, captured>>
  BY DEF Collapse
<1> HIDE DEF row
<1>7. /\ DOMAIN by_key'[s] = DOMAIN by_key[s]
      /\ \A j \in DOMAIN by_key[s] : j # k => by_key'[s][j] = by_key[s][j]
      /\ by_key'[s][k].id = by_key[s][k].id
      /\ by_key'[s][k].row = row
  BY <1>1, <1>2, <1>6 DEF TypeOK, ScanTypeOK, OrmRow
<1>8. Created(s)' = Created(s)
  BY <1>7 DEF Created
<1>9. /\ appended'[s] = appended[s] \cup
           {[finding |-> by_key[s][k].id, scan |-> s, draft |-> next[s]]}
      /\ next'[s] = next[s] + 1
  BY <1>6 DEF TypeOK, ScanTypeOK
<1>10. raised'[s] = IF Draft(s).severity > by_key[s][k].row.severity
                    THEN raised[s] \cup {k} ELSE raised[s]
  BY <1>5, <1>6 DEF TypeOK, ScanTypeOK
<1> QED
  BY <1>1, <1>4, <1>6, <1>7, <1>8, <1>9, <1>10

\* Creating a row adds it, with the draft as its inline evidence.
LEMMA CreateResult ==
  ASSUME TypeOK, NEW s \in Scans, Create(s), NEW k, k = Draft(s).key
  PROVE  /\ HasDraft(s)
         /\ k \notin DOMAIN by_key[s]
         /\ DOMAIN by_key'[s] = DOMAIN by_key[s] \cup {k}
         /\ \A j \in DOMAIN by_key[s] : by_key'[s][j] = by_key[s][j]
         /\ by_key'[s][k].id = <<s, k>>
         /\ by_key'[s][k].row.draft = next[s]
         /\ by_key'[s][k].row.status = "new"
         /\ by_key'[s][k].row.severity = Draft(s).severity
         /\ Created(s)' = Created(s) \cup {k}
         /\ next'[s] = next[s] + 1
         /\ raised'[s] = raised[s] /\ appended'[s] = appended[s]
         /\ UNCHANGED <<storeVars, captured>>
<1> DEFINE o == [id |-> <<s, k>>, row |-> from_draft(s, allocated[s] + 1)]
<1>1. k \notin DOMAIN by_key[s] /\ HasDraft(s)
  BY DEF Create
<1>2. /\ o.id = <<s, k>>
      /\ o.row.draft = next[s]
      /\ o.row.status = "new"
      /\ o.row.severity = Draft(s).severity
  BY DEF from_draft
<1>3. /\ by_key' = [by_key EXCEPT ![s] =
           [j \in DOMAIN by_key[s] \cup {k} |-> IF j = k THEN o ELSE by_key[s][j]]]
      /\ next' = [next EXCEPT ![s] = @ + 1]
      /\ UNCHANGED <<storeVars, captured, raised, appended>>
  BY DEF Create
<1> HIDE DEF o
<1>4. /\ DOMAIN by_key'[s] = DOMAIN by_key[s] \cup {k}
      /\ by_key'[s][k] = o
      /\ \A j \in DOMAIN by_key[s] : by_key'[s][j] = by_key[s][j]
  BY <1>1, <1>3 DEF TypeOK, ScanTypeOK
<1>5. Created(s)' = Created(s) \cup {k}
  BY <1>1, <1>2, <1>4 DEF Created
<1>6. next'[s] = next[s] + 1
  BY <1>3 DEF TypeOK, ScanTypeOK
<1> QED
  BY <1>1, <1>2, <1>3, <1>4, <1>5, <1>6

\* The rows of a session have different primary keys, and those it read are
\* in the table under their keys.
LEMMA SessionIds ==
  ASSUME IndInv, NEW s \in Scans, pc[s] = "drafts", NEW k \in DOMAIN by_key[s]
  PROVE  /\ by_key[s][k].id[2] = k
         /\ k \notin Created(s) => /\ by_key[s][k].id \in DOMAIN findings
                                   /\ findings[by_key[s][k].id].key = k
         /\ k \in Created(s) => by_key[s][k].id = <<s, k>>
<1>1. SnapshotAgrees(s)
  BY DEF IndInv, SessionInv, SessionOK
<1>2. CASE k \in Created(s)
  BY <1>2 DEF Created
<1>3. CASE k \notin Created(s)
  <2>1. by_key[s][k].id \in DOMAIN findings /\ findings[by_key[s][k].id].key = k
    BY <1>1, <1>3 DEF SnapshotAgrees, Created
  <2> QED
    BY <1>3, <2>1 DEF IndInv, RowsNamed
<1> QED
  BY <1>2, <1>3

\* A scan walks its drafts one by one to the end, and each is well-formed.
LEMMA WalkBound ==
  ASSUME IndInv, NEW s \in Scans
  PROVE  /\ captured[s] \in Seq(FindingDraft) /\ Len(captured[s]) \in Nat
         /\ \A n \in DOMAIN captured[s] : captured[s][n].severity \in Int
         /\ next[s] \in Nat \ {0}
         /\ HasDraft(s) => next[s] + 1 <= Len(captured[s]) + 1
<1>1. captured[s] \in Seq(FindingDraft)
  <2>1. captured[s] \in Captures \cup {<<>>}
    BY DEF IndInv, TypeOK, ScanTypeOK
  <2>2. <<>> \in Seq(FindingDraft)
    OBVIOUS
  <2> QED
    BY <2>1, <2>2, CapturesAssumption
<1>2. next[s] \in Nat \ {0}
  BY DEF IndInv, TypeOK, ScanTypeOK
<1>3. Len(captured[s]) \in Nat
  BY <1>1
<1>4. ASSUME NEW n \in DOMAIN captured[s] PROVE captured[s][n].severity \in Int
  <2>1. captured[s][n] \in FindingDraft
    BY <1>1
  <2> QED
    BY <2>1, MaxSeverityAssumption DEF FindingDraft, Severity
<1> QED
  BY <1>1, <1>2, <1>3, <1>4 DEF HasDraft

\* The severity of a draft that is evidence is a number.
LEMMA CapturedSeverity ==
  ASSUME IndInv, EvidenceIsCaptured, NEW i \in DOMAIN findings, NEW d \in EvidenceOf(i)
  PROVE  SeverityOf(d) \in Int
<1>1. d[1] \in Scans
  BY DEF EvidenceOf, IndInv, TypeOK, StoreTypeOK, FindingRow, FindingEvidenceRow
<1> QED
  BY <1>1, WalkBound DEF EvidenceIsCaptured, SeverityOf

\* What a read returns is accounted for: no draft has been walked past, a
\* false positive was ruled one, and no severity is below its evidence.
LEMMA ReadWalk ==
  ASSUME IndInv, AuditInv, SeverityIsEvidenced, NEW s \in Scans, ReadFindings(s)
  PROVE  WalkOK(s)'
<1> PICK E : E = existing_findings_by_key
  OBVIOUS
<1>1. /\ by_key'[s] = E
      /\ next'[s] = 1
      /\ raised'[s] = {}
      /\ appended'[s] = {}
      /\ UNCHANGED <<storeVars, captured>>
      /\ pc[s] # "done"
  BY DEF ReadFindings, IndInv, TypeOK, ScanTypeOK
<1>2. ASSUME NEW k \in DOMAIN E
      PROVE  /\ E[k].id \in DOMAIN findings
             /\ E[k].id # <<s, k>>
             /\ E[k].row = findings[E[k].id]
  <2>1. E[k].id \in DOMAIN findings /\ E[k].row = findings[E[k].id]
    BY ReadIndexesFindings
  <2>2. <<s, k>> \notin DOMAIN findings
    BY <1>1, UncommittedHasNoRow DEF IndInv
  <2> QED
    BY <2>1, <2>2
<1>3. Created(s)' = {}
  BY <1>1, <1>2 DEF Created
<1>4. DraftsHeld(s)' /\ KeysHeld(s)' /\ AppendedHeld(s)' /\ InlineHeld(s)'
  <2>1. 1..(next'[s] - 1) = {}
    BY <1>1
  <2> QED
    BY <1>1, <1>3, <2>1 DEF DraftsHeld, KeysHeld, Held, AppendedHeld, InlineHeld
<1>7. next'[s] <= Len(captured'[s]) + 1
  <2>1. Len(captured[s]) \in Nat
    BY WalkBound
  <2> QED
    BY <1>1, <2>1
<1>5. ReadRuled(s)'
  <2> SUFFICES ASSUME NEW k \in DOMAIN E, E[k].row.status = "false_positive"
               PROVE  Ruled(E[k].id, "false_positive")'
    BY <1>1 DEF ReadRuled, Ruled, EventsOn
  <2>1. PICK i \in DOMAIN findings : i = E[k].id /\ E[k].row = findings[i]
    BY <1>2
  <2>2. PICK S : S = EventsOn(i, "status_change")
    OBVIOUS
  <2>3. S # {} /\ events[Latest(S)].to = "false_positive"
    BY <2>1, <2>2 DEF AuditInv, AuditExplainsStatus
  <2>4. Len(events) \in Nat /\ S \in SUBSET (1..Len(events))
    BY <2>2 DEF EventsOn, IndInv, TypeOK, StoreTypeOK
  <2>5. Latest(S) \in S
    BY <2>3, <2>4, LatestIsLast
  <2>6. Ruled(i, "false_positive")
    BY <2>2, <2>3, <2>5 DEF Ruled
  <2> QED
    BY <1>1, <2>1, <2>6 DEF storeVars, Ruled, EventsOn
<1>6. SeverityHeld(s)'
  <2>1. ASSUME NEW k \in DOMAIN E, NEW d \in EvidenceOf(E[k].id), d[1] = findings[E[k].id].scan
        PROVE  SeverityOf(d) <= E[k].row.severity
    BY <1>2, <2>1 DEF SeverityIsEvidenced
  <2>2. \A k \in DOMAIN E : \A d \in EvidenceOf(E[k].id)' :
          d[1] = findings'[E[k].id].scan => SeverityOf(d)' <= E[k].row.severity
    BY <1>1, <2>1 DEF storeVars, EvidenceOf, SeverityOf
  <2> QED
    BY <1>1, <1>3, <2>2 DEF SeverityHeld, EvidenceOf, SeverityOf
<1> QED
  BY <1>4, <1>5, <1>6, <1>7 DEF WalkOK

\* Skipping a draft of a finding read as a false positive accounts for it.
LEMMA SuppressWalk ==
  ASSUME IndInv, NEW s \in Scans, WalkOK(s), Suppress(s)
  PROVE  WalkOK(s)'
<1>1. /\ pc[s] = "drafts" /\ HasDraft(s)
      /\ captured[s][next[s]].key \in DOMAIN by_key[s]
      /\ by_key[s][captured[s][next[s]].key].row.status = "false_positive"
      /\ next'[s] = next[s] + 1
      /\ next[s] \in Nat \ {0}
      /\ UNCHANGED <<storeVars, captured, by_key, raised, appended>>
  BY DEF Suppress, HasDraft, Draft, IndInv, TypeOK, ScanTypeOK
<1>2. Created(s)' = Created(s)
  BY <1>1 DEF Created
<1>3. \A k \in DOMAIN by_key[s] : Held(s, k)' = Held(s, k)
  <2> SUFFICES ASSUME NEW k \in DOMAIN by_key[s] PROVE Held(s, k)' = Held(s, k)
    OBVIOUS
  <2>1. ~ (k \in Created(s) /\ by_key[s][k].row.draft = next[s])
    BY <1>1 DEF WalkOK, InlineHeld
  <2>2. [finding |-> by_key[s][k].id, scan |-> s, draft |-> next[s]] \notin appended[s]
    BY <1>1 DEF WalkOK, AppendedHeld
  <2> QED
    BY <1>1, <1>2, <2>1, <2>2 DEF Held
<1>4. DraftsHeld(s)' /\ KeysHeld(s)'
  <2>1. DraftsHeld(s) /\ KeysHeld(s)
    BY DEF WalkOK
  <2>2. DraftsHeld(s)'
    BY <1>1, <1>3, <2>1 DEF DraftsHeld
  <2>3. KeysHeld(s)'
    BY <1>1, <1>3, <2>1 DEF KeysHeld
  <2> QED
    BY <2>2, <2>3
<1>5. AppendedHeld(s)' /\ InlineHeld(s)'
  BY <1>1, <1>2 DEF WalkOK, AppendedHeld, InlineHeld
<1>6. ReadRuled(s)'
  BY <1>1 DEF WalkOK, ReadRuled, storeVars, Ruled, EventsOn
<1>7. SeverityHeld(s)'
  <2>1. raised[s] \subseteq DOMAIN by_key[s] /\ Created(s) \subseteq DOMAIN by_key[s]
    BY DEF IndInv, TypeOK, ScanTypeOK, Created
  <2>2. SeverityHeld(s)
    BY DEF WalkOK
  <2>3. \A i : EvidenceOf(i)' = EvidenceOf(i)
    BY <1>1 DEF storeVars, EvidenceOf
  <2>4. \A d : SeverityOf(d)' = SeverityOf(d)
    BY <1>1 DEF SeverityOf
  <2> QED
    BY <1>1, <1>2, <1>3, <2>1, <2>2, <2>3, <2>4 DEF SeverityHeld, storeVars
<1>8. next'[s] <= Len(captured'[s]) + 1
  BY <1>1, WalkBound
<1> QED
  BY <1>4, <1>5, <1>6, <1>7, <1>8 DEF WalkOK

\* The draft a scan looks at is not held for any row yet.
LEMMA NotHeldYet ==
  ASSUME IndInv, NEW s \in Scans, WalkOK(s), HasDraft(s), NEW k \in DOMAIN by_key[s]
  PROVE  /\ next[s] \in Nat \ {0}
         /\ ~ (k \in Created(s) /\ by_key[s][k].row.draft = next[s])
         /\ [finding |-> by_key[s][k].id, scan |-> s, draft |-> next[s]] \notin appended[s]
<1>1. next[s] \in Nat \ {0}
  BY DEF IndInv, TypeOK, ScanTypeOK
<1>2. ~ (k \in Created(s) /\ by_key[s][k].row.draft = next[s])
  BY <1>1 DEF WalkOK, InlineHeld
<1>3. [finding |-> by_key[s][k].id, scan |-> s, draft |-> next[s]] \notin appended[s]
  BY <1>1 DEF WalkOK, AppendedHeld
<1> QED
  BY <1>1, <1>2, <1>3

\* Collapsing a draft holds it for the row of its key, whose severity stays
\* that of a draft held for it and never falls.
LEMMA CollapseWalk ==
  ASSUME IndInv, EvidenceIsCaptured, NEW s \in Scans, WalkOK(s), Collapse(s)
  PROVE  WalkOK(s)'
<1> PICK k : k = Draft(s).key
  OBVIOUS
<1> PICK n0 : n0 = next[s]
  OBVIOUS
<1> PICK new : new = [finding |-> by_key[s][k].id, scan |-> s, draft |-> n0]
  OBVIOUS
<1>1. /\ HasDraft(s) /\ pc[s] = "drafts"
      /\ k \in DOMAIN by_key[s]
      /\ by_key[s][k].row.status # "false_positive"
      /\ DOMAIN by_key'[s] = DOMAIN by_key[s]
      /\ \A j \in DOMAIN by_key[s] :
           /\ by_key'[s][j].id = by_key[s][j].id
           /\ by_key'[s][j].row.draft = by_key[s][j].row.draft
           /\ by_key'[s][j].row.status = by_key[s][j].row.status
           /\ j # k => by_key'[s][j] = by_key[s][j]
      /\ by_key'[s][k].row.severity = IF Draft(s).severity > by_key[s][k].row.severity
                                      THEN Draft(s).severity ELSE by_key[s][k].row.severity
      /\ Created(s)' = Created(s)
      /\ raised'[s] = IF Draft(s).severity > by_key[s][k].row.severity
                      THEN raised[s] \cup {k} ELSE raised[s]
      /\ appended'[s] = appended[s] \cup {new}
      /\ next'[s] = n0 + 1
      /\ UNCHANGED <<storeVars, captured>>
  <2>1. TypeOK
    BY DEF IndInv
  <2>2. HasDraft(s) => pc[s] = "drafts"
    BY DEF HasDraft
  <2> QED
    BY <2>1, <2>2, CollapseResult
<1>2. /\ n0 \in Nat \ {0}
      /\ captured[s][n0] = Draft(s)
      /\ new.finding = by_key[s][k].id /\ new.scan = s /\ new.draft = n0
      /\ Created(s) \subseteq DOMAIN by_key[s] /\ raised[s] \subseteq DOMAIN by_key[s]
  BY DEF IndInv, TypeOK, ScanTypeOK, Draft, Created
<1>3. \A j \in DOMAIN by_key[s] : by_key[s][j].id = by_key[s][k].id => j = k
  <2> SUFFICES ASSUME NEW j \in DOMAIN by_key[s], by_key[s][j].id = by_key[s][k].id PROVE j = k
    OBVIOUS
  <2>1. by_key[s][j].id[2] = j /\ by_key[s][k].id[2] = k
    BY <1>1, SessionIds
  <2> QED
    BY <2>1
<1>4. \A j \in DOMAIN by_key[s] : Held(s, j)' = IF j = k THEN Held(s, j) \cup {n0} ELSE Held(s, j)
  <2> SUFFICES ASSUME NEW j \in DOMAIN by_key[s]
               PROVE  Held(s, j)' = IF j = k THEN Held(s, j) \cup {n0} ELSE Held(s, j)
    OBVIOUS
  <2>1. /\ ~ (j \in Created(s) /\ by_key[s][j].row.draft = n0)
        /\ [finding |-> by_key[s][j].id, scan |-> s, draft |-> n0] \notin appended[s]
    BY <1>1, NotHeldYet
  <2>2. 1..(next'[s] - 1) = 1..(next[s] - 1) \cup {n0}
    BY <1>1, <1>2
  <2>3. Held(s, j)' = {n \in 1..(next'[s] - 1) :
                         \/ j \in Created(s) /\ by_key[s][j].row.draft = n
                         \/ [finding |-> by_key[s][j].id, scan |-> s, draft |-> n]
                              \in appended[s] \cup {new}}
    <3>1. /\ by_key'[s][j].id = by_key[s][j].id
          /\ by_key'[s][j].row.draft = by_key[s][j].row.draft
          /\ Created(s)' = Created(s)
          /\ appended'[s] = appended[s] \cup {new}
      BY <1>1
    <3> QED
      BY <3>1 DEF Held
  <2>4. \A n : [finding |-> by_key[s][j].id, scan |-> s, draft |-> n] = new <=> (j = k /\ n = n0)
    BY <1>2, <1>3
  <2> QED
    BY <2>1, <2>2, <2>3, <2>4 DEF Held
<1>5. DraftsHeld(s)'
  <2> SUFFICES ASSUME NEW n \in 1..n0, NEW j, j = captured[s][n].key
               PROVE  /\ j \in DOMAIN by_key[s]
                      /\ by_key[s][j].row.status = "false_positive" \/ n \in Held(s, j)'
    BY <1>1, <1>2 DEF DraftsHeld
  <2>1. CASE n = n0
    BY <1>1, <1>2, <1>4, <2>1
  <2>2. CASE n # n0
    <3>1. n \in 1..(next[s] - 1)
      BY <1>2, <2>2
    <3> QED
      BY <1>4, <3>1 DEF WalkOK, DraftsHeld
  <2> QED
    BY <2>1, <2>2
<1>6. AppendedHeld(s)'
  <2>a. /\ DOMAIN by_key'[s] = DOMAIN by_key[s]
        /\ \A j \in DOMAIN by_key[s] :
             /\ by_key'[s][j].id = by_key[s][j].id
             /\ by_key'[s][j].row.draft = by_key[s][j].row.draft
             /\ by_key'[s][j].row.status = by_key[s][j].row.status
        /\ Created(s)' = Created(s)
        /\ appended'[s] = appended[s] \cup {new}
    BY <1>1
  <2>b. next'[s] - 1 = n0
    <3>1. next'[s] = n0 + 1
      BY <1>1
    <3>2. n0 \in Nat
      BY <1>2
    <3> QED
      BY <3>1, <3>2
  <2> SUFFICES ASSUME NEW e \in appended[s] \cup {new}
               PROVE  /\ e.draft \in 1..n0
                      /\ \E j \in DOMAIN by_key[s] :
                           /\ by_key[s][j].id = e.finding
                           /\ by_key[s][j].row.status # "false_positive"
                           /\ ~ (j \in Created(s) /\ by_key[s][j].row.draft = e.draft)
    BY <2>a, <2>b DEF AppendedHeld
  <2>1. CASE e \in appended[s]
    <3>1. AppendedHeld(s)
      BY DEF WalkOK
    <3> QED
      BY <1>2, <2>1, <3>1 DEF AppendedHeld
  <2>2. CASE e = new
    <3>1. ~ (k \in Created(s) /\ by_key[s][k].row.draft = n0)
      BY <1>1, NotHeldYet
    <3>2. e.finding = by_key[s][k].id /\ e.draft = n0 /\ n0 \in 1..n0
      BY <1>2, <2>2
    <3>3. k \in DOMAIN by_key[s] /\ by_key[s][k].row.status # "false_positive"
      BY <1>1
    <3> QED
      BY <3>1, <3>2, <3>3
  <2> QED
    BY <2>1, <2>2
<1>7. InlineHeld(s)'
  <2>1. InlineHeld(s)
    BY DEF WalkOK
  <2>2. /\ Created(s)' = Created(s) /\ Created(s) \subseteq DOMAIN by_key[s]
        /\ \A j \in DOMAIN by_key[s] : by_key'[s][j].row.draft = by_key[s][j].row.draft
        /\ next'[s] = n0 + 1 /\ n0 = next[s] /\ n0 \in Nat \ {0}
    BY <1>1, <1>2
  <2> QED
    BY <2>1, <2>2 DEF InlineHeld
<1>8. ReadRuled(s)'
  BY <1>1 DEF WalkOK, ReadRuled, storeVars, Ruled, EventsOn
<1>9. SeverityHeld(s)'
  <2>1. /\ Draft(s).severity \in Int
        /\ \A j \in DOMAIN by_key[s] : by_key[s][j].row.severity \in Int
    <3>1. \A j \in DOMAIN by_key[s] : by_key[s][j].row \in FindingRow
      BY DEF IndInv, TypeOK, ScanTypeOK, OrmRow
    <3>2. \A j \in DOMAIN by_key[s] : by_key[s][j].row.severity \in Severity
      BY <3>1 DEF FindingRow
    <3>3. Draft(s).severity \in Severity
      BY <1>1, DraftTyped DEF IndInv
    <3> QED
      BY <3>2, <3>3, MaxSeverityAssumption DEF Severity
  <2>2. ASSUME NEW j \in raised'[s] \cup Created(s)
        PROVE  \E n \in Held(s, j)' : captured[s][n].severity = by_key'[s][j].row.severity
    <3>1. j \in DOMAIN by_key[s]
      BY <1>1, <1>2, <2>2
    <3>2. CASE j \in raised[s] \cup Created(s) /\ by_key'[s][j].row.severity = by_key[s][j].row.severity
      <4>1. SeverityHeld(s)
        BY DEF WalkOK
      <4>2. PICK n \in Held(s, j) : captured[s][n].severity = by_key[s][j].row.severity
        BY <3>2, <4>1 DEF SeverityHeld
      <4>3. n \in Held(s, j)'
        BY <1>4, <3>1, <4>2
      <4> QED
        BY <3>2, <4>2, <4>3
    <3>3. CASE j = k /\ Draft(s).severity > by_key[s][k].row.severity
      <4>1. n0 \in Held(s, j)'
        BY <1>1, <1>4, <3>3
      <4>2. by_key'[s][j].row.severity = captured[s][n0].severity
        BY <1>1, <1>2, <3>3
      <4> QED
        BY <4>1, <4>2
    <3>4. j = k \/ by_key'[s][j].row.severity = by_key[s][j].row.severity
      BY <1>1, <3>1
    <3>5. CASE Draft(s).severity > by_key[s][k].row.severity
      <4>1. raised'[s] = raised[s] \cup {k}
        BY <1>1, <3>5
      <4> QED
        BY <2>2, <3>2, <3>3, <3>4, <3>5, <4>1
    <3>6. CASE ~ (Draft(s).severity > by_key[s][k].row.severity)
      <4>1. raised'[s] = raised[s] /\ by_key'[s][k].row.severity = by_key[s][k].row.severity
        BY <1>1, <3>6
      <4> QED
        BY <2>2, <3>2, <3>4, <4>1
    <3> QED
      BY <3>5, <3>6
  <2>3. ASSUME NEW j \in Created(s), NEW n \in Held(s, j)'
        PROVE  captured[s][n].severity <= by_key'[s][j].row.severity
    <3>1. j \in DOMAIN by_key[s]
      BY <1>2
    <3>2. CASE n \in Held(s, j)
      <4>1. captured[s][n].severity <= by_key[s][j].row.severity
        BY <3>2 DEF WalkOK, SeverityHeld
      <4>2. captured[s][n].severity \in Int
        <5>1. n \in 1..(next[s] - 1) /\ next[s] <= Len(captured[s])
          BY <1>1, <3>2 DEF Held, HasDraft
        <5> QED
          BY <5>1, WalkBound
      <4> QED
        BY <1>1, <2>1, <3>1, <4>1, <4>2
    <3>3. CASE j = k /\ n = n0
      BY <1>1, <1>2, <2>1, <3>3
    <3> QED
      BY <1>4, <2>3, <3>1, <3>2, <3>3
  <2>4. ASSUME NEW j \in DOMAIN by_key[s] \ Created(s), NEW d \in EvidenceOf(by_key[s][j].id),
               d[1] = findings[by_key[s][j].id].scan
        PROVE  SeverityOf(d) <= by_key'[s][j].row.severity
    <3>1. SeverityOf(d) <= by_key[s][j].row.severity
      BY <2>4 DEF WalkOK, SeverityHeld
    <3>2. SeverityOf(d) \in Int
      BY <1>1, <2>4, SessionIds, CapturedSeverity
    <3>3. by_key[s][j].row.severity \in Int /\ Draft(s).severity \in Int
      BY <2>1, <2>4
    <3>4. CASE j = k
      BY <1>1, <3>1, <3>2, <3>3, <3>4
    <3>5. CASE j # k
      BY <1>1, <2>4, <3>1, <3>5
    <3> QED
      BY <3>4, <3>5
  <2>5. ASSUME NEW j \in DOMAIN by_key'[s] \ Created(s)', NEW d \in EvidenceOf(by_key[s][j].id)',
               d[1] = findings'[by_key'[s][j].id].scan
        PROVE  SeverityOf(d)' <= by_key'[s][j].row.severity
    <3>1. by_key'[s][j].id = by_key[s][j].id /\ j \in DOMAIN by_key[s] \ Created(s)
      BY <1>1, <2>5
    <3>2. d \in EvidenceOf(by_key[s][j].id) /\ d[1] = findings[by_key[s][j].id].scan
      <4>1. findings' = findings /\ evidence' = evidence
        BY <1>1 DEF storeVars
      <4> QED
        BY <2>5, <3>1, <4>1, SMTT(30) DEF EvidenceOf
    <3>3. SeverityOf(d)' = SeverityOf(d)
      BY <1>1 DEF SeverityOf
    <3> QED
      BY <2>4, <3>1, <3>2, <3>3
  <2> QED
    BY <1>1, <2>2, <2>3, <2>5 DEF SeverityHeld
<1>10. next'[s] <= Len(captured'[s]) + 1
  BY <1>1, WalkBound
<1>11. KeysHeld(s)'
  BY <1>1, <1>2, <1>4 DEF WalkOK, KeysHeld
<1> QED
  BY <1>5, <1>6, <1>7, <1>8, <1>9, <1>10, <1>11 DEF WalkOK

\* Creating a row holds the draft for it, and nothing else.
LEMMA CreateWalk ==
  ASSUME IndInv, NEW s \in Scans, WalkOK(s), Create(s)
  PROVE  WalkOK(s)'
<1> PICK k : k = Draft(s).key
  OBVIOUS
<1> PICK n0 : n0 = next[s]
  OBVIOUS
<1>1. /\ HasDraft(s) /\ pc[s] = "drafts"
      /\ k \notin DOMAIN by_key[s]
      /\ DOMAIN by_key'[s] = DOMAIN by_key[s] \cup {k}
      /\ \A j \in DOMAIN by_key[s] : by_key'[s][j] = by_key[s][j]
      /\ by_key'[s][k].id = <<s, k>>
      /\ by_key'[s][k].row.draft = n0
      /\ by_key'[s][k].row.status = "new"
      /\ by_key'[s][k].row.severity = Draft(s).severity
      /\ Created(s)' = Created(s) \cup {k}
      /\ next'[s] = n0 + 1
      /\ raised'[s] = raised[s] /\ appended'[s] = appended[s]
      /\ UNCHANGED <<storeVars, captured>>
  <2>1. TypeOK
    BY DEF IndInv
  <2>2. HasDraft(s) => pc[s] = "drafts"
    BY DEF HasDraft
  <2> QED
    BY <2>1, <2>2, CreateResult, ZenonT(30)
<1>2. /\ n0 \in Nat \ {0}
      /\ captured[s][n0] = Draft(s)
      /\ Created(s) \subseteq DOMAIN by_key[s] /\ raised[s] \subseteq DOMAIN by_key[s]
  BY DEF IndInv, TypeOK, ScanTypeOK, Draft, Created
<1>3. \A j \in DOMAIN by_key[s] : Held(s, j)' = Held(s, j)
  <2> SUFFICES ASSUME NEW j \in DOMAIN by_key[s] PROVE Held(s, j)' = Held(s, j)
    OBVIOUS
  <2>1. /\ ~ (j \in Created(s) /\ by_key[s][j].row.draft = n0)
        /\ [finding |-> by_key[s][j].id, scan |-> s, draft |-> n0] \notin appended[s]
    BY <1>1, NotHeldYet
  <2>2. 1..(next'[s] - 1) = 1..(next[s] - 1) \cup {n0}
    BY <1>1, <1>2
  <2>3. Held(s, j)' = {n \in 1..(next'[s] - 1) :
                         \/ j \in Created(s) /\ by_key[s][j].row.draft = n
                         \/ [finding |-> by_key[s][j].id, scan |-> s, draft |-> n] \in appended[s]}
    BY <1>1 DEF Held
  <2> QED
    BY <2>1, <2>2, <2>3 DEF Held
<1>4. Held(s, k)' = {n0}
  <2>1. ASSUME NEW n, [finding |-> <<s, k>>, scan |-> s, draft |-> n] \in appended[s] PROVE FALSE
    <3>1. PICK j \in DOMAIN by_key[s] : by_key[s][j].id = <<s, k>>
      BY <2>1 DEF WalkOK, AppendedHeld
    <3>2. j = k
      BY <1>1, <3>1, SessionIds
    <3> QED
      BY <1>1, <3>2
  <2>2. n0 \in 1..(next'[s] - 1)
    BY <1>1, <1>2
  <2> QED
    BY <1>1, <2>1, <2>2 DEF Held
<1>5. DraftsHeld(s)'
  <2> SUFFICES ASSUME NEW n \in 1..n0, NEW j, j = captured[s][n].key
               PROVE  /\ j \in DOMAIN by_key'[s]
                      /\ by_key'[s][j].row.status = "false_positive" \/ n \in Held(s, j)'
    BY <1>1, <1>2 DEF DraftsHeld
  <2>1. CASE n = n0
    BY <1>1, <1>2, <1>4, <2>1
  <2>2. CASE n # n0
    <3>1. n \in 1..(next[s] - 1)
      BY <1>2, <2>2
    <3> QED
      BY <1>1, <1>3, <3>1 DEF WalkOK, DraftsHeld
  <2> QED
    BY <2>1, <2>2
<1>6. AppendedHeld(s)'
  <2> SUFFICES ASSUME NEW e \in appended[s]
               PROVE  /\ e.draft \in 1..n0
                      /\ \E j \in DOMAIN by_key'[s] :
                           /\ by_key'[s][j].id = e.finding
                           /\ by_key'[s][j].row.status # "false_positive"
                           /\ ~ (j \in Created(s)' /\ by_key'[s][j].row.draft = e.draft)
    BY <1>1, <1>2 DEF AppendedHeld
  <2>1. e.draft \in 1..n0
    BY <1>2 DEF WalkOK, AppendedHeld
  <2>2. PICK j \in DOMAIN by_key[s] :
          /\ by_key[s][j].id = e.finding
          /\ by_key[s][j].row.status # "false_positive"
          /\ ~ (j \in Created(s) /\ by_key[s][j].row.draft = e.draft)
    BY DEF WalkOK, AppendedHeld
  <2> QED
    BY <1>1, <2>1, <2>2
<1>7. InlineHeld(s)'
  <2>1. InlineHeld(s)
    BY DEF WalkOK
  <2> QED
    BY <1>1, <1>2, <2>1 DEF InlineHeld
<1>8. ReadRuled(s)'
  BY <1>1 DEF WalkOK, ReadRuled, storeVars, Ruled, EventsOn
<1>9. SeverityHeld(s)'
  <2>1. Draft(s).severity \in Int
    <3>1. Draft(s).severity \in Severity
      BY <1>1, DraftTyped DEF IndInv
    <3> QED
      BY <3>1, MaxSeverityAssumption DEF Severity
  <2>2. ASSUME NEW j \in raised[s] \cup Created(s)'
        PROVE  \E n \in Held(s, j)' : captured[s][n].severity = by_key'[s][j].row.severity
    <3>1. CASE j = k
      BY <1>1, <1>2, <1>4, <3>1
    <3>2. CASE j # k
      <4>1. j \in raised[s] \cup Created(s)
        BY <1>1, <2>2, <3>2
      <4>2. PICK n \in Held(s, j) : captured[s][n].severity = by_key[s][j].row.severity
        BY <4>1 DEF WalkOK, SeverityHeld
      <4> QED
        BY <1>1, <1>2, <1>3, <4>1, <4>2
    <3> QED
      BY <3>1, <3>2
  <2>3. ASSUME NEW j \in Created(s)', NEW n \in Held(s, j)'
        PROVE  captured[s][n].severity <= by_key'[s][j].row.severity
    <3>1. CASE j = k
      BY <1>1, <1>2, <1>4, <2>1, <2>3, <3>1
    <3>2. CASE j # k
      <4>1. j \in Created(s)
        BY <1>1, <2>3, <3>2
      <4> QED
        BY <1>1, <1>2, <1>3, <2>3, <4>1 DEF WalkOK, SeverityHeld
    <3> QED
      BY <3>1, <3>2
  <2>4. ASSUME NEW j \in DOMAIN by_key'[s] \ Created(s)', NEW d \in EvidenceOf(by_key[s][j].id)',
               d[1] = findings'[by_key'[s][j].id].scan
        PROVE  SeverityOf(d)' <= by_key'[s][j].row.severity
    <3>1. by_key'[s][j] = by_key[s][j] /\ j \in DOMAIN by_key[s] \ Created(s)
      BY <1>1, <2>4
    <3>2. d \in EvidenceOf(by_key[s][j].id) /\ d[1] = findings[by_key[s][j].id].scan
      BY <1>1, <2>4, <3>1 DEF storeVars, EvidenceOf
    <3>3. SeverityOf(d)' = SeverityOf(d)
      BY <1>1 DEF SeverityOf
    <3> QED
      BY <3>1, <3>2, <3>3 DEF WalkOK, SeverityHeld
  <2> QED
    BY <1>1, <2>2, <2>3, <2>4 DEF SeverityHeld
<1>10. next'[s] <= Len(captured'[s]) + 1
  BY <1>1, WalkBound
<1>11. KeysHeld(s)'
  BY <1>1, <1>2, <1>3, <1>4 DEF WalkOK, KeysHeld
<1> QED
  BY <1>5, <1>6, <1>7, <1>8, <1>9, <1>10, <1>11 DEF WalkOK

\* What was captured for a scan that has begun never changes.
LEMMA CapturedStays ==
  ASSUME IndInv, [Next]_vars, NEW s \in Scans, pc[s] # "idle"
  PROVE  captured'[s] = captured[s]
<1>1. ASSUME NEW t \in Scans, NEW drafts \in Captures, BeginPersist(t, drafts)
      PROVE  captured'[s] = captured[s]
  BY <1>1 DEF BeginPersist, IndInv, TypeOK, ScanTypeOK
<1>2. ASSUME NEW t \in Scans, ScanStep(t) \/ Abort(t) PROVE captured'[s] = captured[s]
  BY <1>2 DEF ScanStep, ReadFindings, Suppress, Collapse, Create, Commit, Retry, GiveUp, Abort
<1> QED
  BY <1>1, <1>2 DEF Next, ScanNext, vars, scanVars

\* The evidence that the scan which created a finding has for it is complete
\* once that scan has committed, and says the same for ever.
LEMMA CreatorsEvidenceStays ==
  ASSUME IndInv, [Next]_vars, NEW i \in DOMAIN findings
  PROVE  /\ i \in DOMAIN findings'
         /\ findings'[i].scan = findings[i].scan
         /\ EvidenceOf(i) \subseteq EvidenceOf(i)'
         /\ \A d \in EvidenceOf(i) : captured'[d[1]] = captured[d[1]] /\ SeverityOf(d)' = SeverityOf(d)
         /\ \A d \in EvidenceOf(i)' : d[1] = findings[i].scan => d \in EvidenceOf(i)
<1>1. /\ i \in DOMAIN findings'
      /\ findings'[i].scan = findings[i].scan /\ findings'[i].draft = findings[i].draft
      /\ evidence \subseteq evidence'
      /\ \A e \in evidence' \ evidence : e.scan \notin scans
  <2>1. CASE UNCHANGED storeVars
    BY <2>1 DEF storeVars
  <2>2. ASSUME NEW s \in Scans, Commit(s)
        PROVE  /\ i \in DOMAIN findings'
               /\ findings'[i].scan = findings[i].scan /\ findings'[i].draft = findings[i].draft
               /\ evidence \subseteq evidence'
               /\ \A e \in evidence' \ evidence : e.scan \notin scans
    <3>1. evidence' = evidence \cup appended[s] /\ pc[s] = "drafts"
      BY <2>2 DEF Commit, AtCommit
    <3>2. \A e \in appended[s] : e.scan = s
      BY <3>1 DEF IndInv, SessionInv, SessionOK, AppendedNamed
    <3>3. s \notin scans
      BY <3>1 DEF IndInv, RowsNamed
    <3> QED
      BY <2>2, <3>1, <3>2, <3>3, CommitResult
  <2>3. CASE ReviewNext
    BY <2>3, ReviewResult DEF IndInv
  <2> QED
    BY <2>1, <2>2, <2>3, StoreSteps
<1>2. findings[i].scan \in scans /\ \A e \in evidence : e.scan \in scans
  BY DEF IndInv, NothingOrphaned
<1>3. EvidenceOf(i)' = {<<findings[i].scan, findings[i].draft>>}
                         \cup {<<e.scan, e.draft>> : e \in {x \in evidence' : x.finding = i}}
  BY <1>1 DEF EvidenceOf
<1>4. EvidenceOf(i) \subseteq EvidenceOf(i)'
  BY <1>1, <1>3 DEF EvidenceOf
<1>5. \A d \in EvidenceOf(i)' : d[1] = findings[i].scan => d \in EvidenceOf(i)
  BY <1>1, <1>2, <1>3 DEF EvidenceOf
<1>6. ASSUME NEW d \in EvidenceOf(i)
      PROVE  captured'[d[1]] = captured[d[1]] /\ SeverityOf(d)' = SeverityOf(d)
  <2>1. d[1] \in scans
    BY <1>2 DEF EvidenceOf
  <2>2. d[1] \in Scans /\ pc[d[1]] # "idle"
    BY <2>1 DEF IndInv, RowsNamed, TypeOK, StoreTypeOK
  <2>3. captured'[d[1]] = captured[d[1]]
    BY <2>2, CapturedStays
  <2> QED
    BY <2>3 DEF SeverityOf
<1> QED
  BY <1>1, <1>4, <1>5, <1>6

\* A scan that is walking its drafts after a step has taken a step of the
\* walk, or the step was somebody else's.
LEMMA WalkSteps ==
  ASSUME TypeOK, [Next]_vars, NEW s \in Scans, pc'[s] = "drafts"
  PROVE  \/ ReadFindings(s)
         \/ Suppress(s)
         \/ Collapse(s)
         \/ Create(s)
         \/ /\ pc[s] = "drafts"
            /\ UNCHANGED <<by_key[s], next[s], high_water[s], allocated[s], raised[s], appended[s]>>
<1> DEFINE Same == /\ pc[s] = "drafts"
                   /\ UNCHANGED <<by_key[s], next[s], high_water[s], allocated[s], raised[s], appended[s]>>
<1>1. /\ Scans = DOMAIN pc /\ Scans = DOMAIN by_key /\ Scans = DOMAIN next
      /\ Scans = DOMAIN high_water /\ Scans = DOMAIN allocated
      /\ Scans = DOMAIN raised /\ Scans = DOMAIN appended
  BY DEF TypeOK, ScanTypeOK
<1>2. CASE UNCHANGED scanVars
  BY <1>2 DEF scanVars
<1>3. ASSUME NEW t \in Scans, NEW drafts \in Captures, BeginPersist(t, drafts) PROVE Same
  BY <1>1, <1>3 DEF BeginPersist
<1>4. ASSUME NEW t \in Scans, t # s, ReadFindings(t) PROVE Same
  BY <1>1, <1>4 DEF ReadFindings
<1>5. ASSUME NEW t \in Scans, t # s, Suppress(t) PROVE Same
  BY <1>1, <1>5 DEF Suppress
<1>6. ASSUME NEW t \in Scans, t # s, Collapse(t) PROVE Same
  <2>1. /\ pc' = pc /\ UNCHANGED <<high_water, allocated>>
        /\ next'[s] = next[s] /\ by_key'[s] = by_key[s] /\ appended'[s] = appended[s]
    BY <1>1, <1>6 DEF Collapse
  <2>2. raised'[s] = raised[s]
    BY <1>1, <1>6 DEF Collapse
  <2> QED
    BY <2>1, <2>2
<1>7. ASSUME NEW t \in Scans, t # s, Create(t) PROVE Same
  BY <1>1, <1>7 DEF Create
<1>8. ASSUME NEW t \in Scans, Commit(t) \/ Retry(t) \/ GiveUp(t) \/ Abort(t) PROVE Same
  BY <1>1, <1>8 DEF Commit, Retry, GiveUp, Abort
<1> QED
  BY <1>2, <1>3, <1>4, <1>5, <1>6, <1>7, <1>8 DEF Next, ScanNext, ScanStep, vars, scanVars

\* What others do leaves a walk's account as it is: rulings stay, and the
\* evidence a read row is measured against is complete.
LEMMA WalkUndisturbed ==
  ASSUME IndInv, [Next]_vars, NEW s \in Scans, pc[s] = "drafts", WalkOK(s),
         UNCHANGED <<by_key[s], next[s], raised[s], appended[s]>>
  PROVE  WalkOK(s)'
<1> PICK B : B = by_key[s]
  OBVIOUS
<1>1. /\ by_key'[s] = B
      /\ captured'[s] = captured[s]
      /\ Created(s)' = Created(s)
  BY CapturedStays DEF Created
<1>2. \A k : Held(s, k)' = Held(s, k)
  BY <1>1 DEF Held
<1>3. /\ next'[s] <= Len(captured'[s]) + 1
      /\ DraftsHeld(s)' /\ KeysHeld(s)' /\ AppendedHeld(s)' /\ InlineHeld(s)'
  BY <1>1, <1>2 DEF WalkOK, DraftsHeld, KeysHeld, AppendedHeld, InlineHeld
<1>4. ReadRuled(s)'
  <2>1. \A k \in DOMAIN B : B[k].row.status = "false_positive" => Ruled(B[k].id, "false_positive")
    BY DEF WalkOK, ReadRuled
  <2>2. \A k \in DOMAIN B : B[k].row.status = "false_positive" => Ruled(B[k].id, "false_positive")'
    BY <2>1, RulingsStay
  <2> QED
    BY <1>1, <2>2 DEF ReadRuled, Ruled, EventsOn
<1>5. SeverityHeld(s)'
  <2>1. ASSUME NEW k \in DOMAIN B \ Created(s), NEW d \in EvidenceOf(B[k].id)',
               d[1] = findings'[B[k].id].scan
        PROVE  SeverityOf(d)' <= B[k].row.severity
    <3>1. PICK i : i = B[k].id
      OBVIOUS
    <3>2. i \in DOMAIN findings
      BY <2>1, <3>1, SessionIds
    <3>3. d \in EvidenceOf(i) /\ d[1] = findings[i].scan /\ SeverityOf(d)' = SeverityOf(d)
      BY <2>1, <3>1, <3>2, CreatorsEvidenceStays
    <3> QED
      BY <2>1, <3>1, <3>3 DEF WalkOK, SeverityHeld
  <2>2. \A k \in DOMAIN B \ Created(s) : \A d \in EvidenceOf(B[k].id)' :
          d[1] = findings'[B[k].id].scan => SeverityOf(d)' <= B[k].row.severity
    BY <2>1
  <2>3. /\ \A k \in raised[s] \cup Created(s) :
             \E n \in Held(s, k) : captured[s][n].severity = B[k].row.severity
        /\ \A k \in Created(s) : \A n \in Held(s, k) : captured[s][n].severity <= B[k].row.severity
    BY DEF WalkOK, SeverityHeld
  <2> QED
    BY <1>1, <1>2, <2>2, <2>3 DEF SeverityHeld, EvidenceOf, SeverityOf
<1> QED
  BY <1>3, <1>4, <1>5 DEF WalkOK

\* Every step of every walk keeps the account.
LEMMA WalkKeeps ==
  ASSUME IndInv, AuditInv, EvidenceInv, [Next]_vars, NEW s \in Scans, pc'[s] = "drafts"
  PROVE  WalkOK(s)'
<1>1. pc[s] = "drafts" => WalkOK(s)
  BY DEF EvidenceInv
<1>2. CASE ReadFindings(s)
  BY <1>2, ReadWalk DEF EvidenceInv
<1>3. CASE Suppress(s)
  BY <1>1, <1>3, SuppressWalk DEF Suppress, HasDraft
<1>4. CASE Collapse(s)
  BY <1>1, <1>4, CollapseWalk DEF Collapse, HasDraft, EvidenceInv
<1>5. CASE Create(s)
  BY <1>1, <1>5, CreateWalk DEF Create, HasDraft
<1>6. CASE pc[s] = "drafts" /\ UNCHANGED <<by_key[s], next[s], raised[s], appended[s]>>
  BY <1>1, <1>6, WalkUndisturbed
<1> QED
  BY <1>2, <1>3, <1>4, <1>5, <1>6, WalkSteps DEF IndInv

-----------------------------------------------------------------------------
(***************************************************************************)
(* What a commit makes of the account.                                     *)
(***************************************************************************)

\* Finding i accounts for the n-th draft of scan s (cf. EveryDraftAccountedFor).
Accounted(s, n, i) ==
  LET inline == findings[i].scan = s /\ findings[i].draft = n
      added  == [finding |-> i, scan |-> s, draft |-> n] \in evidence
  IN  /\ findings[i].key = captured[s][n].key
      /\ inline \/ added \/ Ruled(i, "false_positive")
      /\ ~ (inline /\ added)

\* A scan that is about to commit has walked past all its drafts, and is not
\* in the tables yet.
LEMMA AtItsCommit ==
  ASSUME IndInv, EvidenceInv, NEW s \in Scans, Commit(s)
  PROVE  /\ pc[s] = "drafts" /\ WalkOK(s) /\ s \notin scans
         /\ DOMAIN captured[s] = 1..(next[s] - 1)
         /\ evidence' = evidence \cup appended[s] /\ scans' = scans \cup {s}
         /\ UNCHANGED <<events, captured>>
         /\ \A i \in DOMAIN findings : findings[i].scan # s
         /\ \A e \in evidence : e.scan # s
         /\ \A e \in appended[s] : e.scan = s
<1>1. /\ pc[s] = "drafts" /\ next[s] > Len(captured[s])
      /\ evidence' = evidence \cup appended[s] /\ scans' = scans \cup {s}
      /\ UNCHANGED <<events, captured>>
  BY DEF Commit, AtCommit
<1>2. WalkOK(s)
  BY <1>1 DEF EvidenceInv
<1>3. DOMAIN captured[s] = 1..(next[s] - 1)
  <2>1. captured[s] \in Seq(FindingDraft) /\ Len(captured[s]) \in Nat /\ next[s] \in Nat \ {0}
    BY WalkBound
  <2>2. next[s] <= Len(captured[s]) + 1
    BY <1>2 DEF WalkOK
  <2>3. next[s] - 1 = Len(captured[s])
    BY <1>1, <2>1, <2>2
  <2> QED
    BY <2>1, <2>3
<1>4. s \notin scans
  BY <1>1 DEF IndInv, RowsNamed
<1>5. /\ \A i \in DOMAIN findings : findings[i].scan # s
      /\ \A e \in evidence : e.scan # s
  BY <1>4 DEF IndInv, NothingOrphaned
<1>6. \A e \in appended[s] : e.scan = s
  BY <1>1 DEF IndInv, SessionInv, SessionOK, AppendedNamed
<1> QED
  BY <1>1, <1>2, <1>3, <1>4, <1>5, <1>6

\* Every draft of a scan that commits is accounted for by the row of its key.
LEMMA CommitAccounts ==
  ASSUME IndInv, EvidenceInv, NEW s \in Scans, Commit(s), NEW n \in DOMAIN captured[s]
  PROVE  \E i \in DOMAIN findings' : Accounted(s, n, i)'
<1>1. /\ pc[s] = "drafts" /\ WalkOK(s) /\ s \notin scans
      /\ n \in 1..(next[s] - 1)
      /\ evidence' = evidence \cup appended[s]
      /\ UNCHANGED <<events, captured>>
      /\ \A i \in DOMAIN findings : findings[i].scan # s
      /\ \A e \in evidence : e.scan # s
  BY AtItsCommit
<1> PICK k : k = captured[s][n].key
  OBVIOUS
<1>2. /\ k \in DOMAIN by_key[s]
      /\ by_key[s][k].row.status = "false_positive" \/ n \in Held(s, k)
  BY <1>1 DEF WalkOK, DraftsHeld
<1> PICK i : i = by_key[s][k].id
  OBVIOUS
<1>3. SnapshotAgrees(s) /\ CreatedNumbered(s)
  BY <1>1 DEF IndInv, SessionInv, SessionOK
<1>4. /\ i \in DOMAIN findings' /\ findings'[i].key = k
      /\ k \in Created(s) => /\ findings'[i].scan = s
                             /\ findings'[i].draft = by_key[s][k].row.draft
                             /\ by_key[s][k].row.status = "new"
      /\ k \notin Created(s) => findings'[i].scan # s
  <2>1. CASE k \in Created(s)
    <3>1. i = <<s, k>> /\ i \in DOMAIN findings' /\ findings'[i] = by_key[s][k].row
      <4>1. i = <<s, k>>
        BY <1>1, <1>2, <2>1, SessionIds
      <4>2. i \in DOMAIN findings'
        BY <2>1, <4>1, CommitResult
      <4> QED
        BY <2>1, <4>1, <4>2, CommitResult
    <3>2. by_key[s][k].row.key = k /\ by_key[s][k].row.scan = s /\ by_key[s][k].row.status = "new"
      BY <1>2, <1>3, <2>1 DEF SnapshotAgrees, CreatedNumbered
    <3> QED
      BY <2>1, <3>1, <3>2
  <2>2. CASE k \notin Created(s)
    <3>1. i \in DOMAIN findings /\ findings[i].key = k
      BY <1>1, <1>2, <2>2, SessionIds
    <3> QED
      BY <1>1, <2>2, <3>1, CommitResult
  <2> QED
    BY <2>1, <2>2
<1>5. \/ findings'[i].scan = s /\ findings'[i].draft = n
      \/ [finding |-> i, scan |-> s, draft |-> n] \in evidence'
      \/ Ruled(i, "false_positive")'
  <2>1. CASE n \in Held(s, k)
    BY <1>1, <1>4, <2>1 DEF Held
  <2>2. CASE by_key[s][k].row.status = "false_positive"
    BY <1>1, <1>2, <2>2 DEF WalkOK, ReadRuled, Ruled, EventsOn
  <2> QED
    BY <1>2, <2>1, <2>2
<1>6. ASSUME findings'[i].scan = s, findings'[i].draft = n,
             [finding |-> i, scan |-> s, draft |-> n] \in evidence'
      PROVE  FALSE
  <2>1. k \in Created(s) /\ by_key[s][k].row.draft = n
    BY <1>4, <1>6
  <2>2. [finding |-> i, scan |-> s, draft |-> n] \in appended[s]
    BY <1>1, <1>6
  <2>3. PICK j \in DOMAIN by_key[s] :
          by_key[s][j].id = i /\ ~ (j \in Created(s) /\ by_key[s][j].row.draft = n)
    BY <1>1, <2>2 DEF WalkOK, AppendedHeld
  <2>4. j = i[2] /\ k = i[2]
    <3>1. \A h \in DOMAIN by_key[s] : by_key[s][h].id[2] = h
      BY <1>1, SessionIds
    <3> QED
      BY <1>2, <2>3, <3>1
  <2> QED
    BY <2>1, <2>3, <2>4
<1>7. Accounted(s, n, i)'
  BY <1>1, <1>4, <1>5, <1>6 DEF Accounted
<1> QED
  BY <1>4, <1>7

\* What accounts for a draft goes on doing so.
LEMMA AccountStays ==
  ASSUME IndInv, [Next]_vars, NEW s \in scans, NEW n, NEW i \in DOMAIN findings, Accounted(s, n, i)
  PROVE  i \in DOMAIN findings' /\ Accounted(s, n, i)'
<1>1. /\ i \in DOMAIN findings'
      /\ findings'[i].key = findings[i].key
      /\ findings'[i].scan = findings[i].scan /\ findings'[i].draft = findings[i].draft
      /\ evidence \subseteq evidence'
      /\ \A e \in evidence' \ evidence : e.scan # s
  <2>1. CASE UNCHANGED storeVars
    BY <2>1 DEF storeVars
  <2>2. ASSUME NEW t \in Scans, Commit(t)
        PROVE  /\ i \in DOMAIN findings'
               /\ findings'[i].key = findings[i].key
               /\ findings'[i].scan = findings[i].scan /\ findings'[i].draft = findings[i].draft
               /\ evidence \subseteq evidence'
               /\ \A e \in evidence' \ evidence : e.scan # s
    <3>1. evidence' = evidence \cup appended[t] /\ pc[t] = "drafts"
      BY <2>2 DEF Commit, AtCommit
    <3>2. \A e \in appended[t] : e.scan = t
      BY <3>1 DEF IndInv, SessionInv, SessionOK, AppendedNamed
    <3>3. t # s
      BY <3>1 DEF IndInv, RowsNamed
    <3> QED
      BY <2>2, <3>1, <3>2, <3>3, CommitResult
  <2>3. CASE ReviewNext
    BY <2>3, ReviewResult DEF IndInv
  <2> QED
    BY <2>1, <2>2, <2>3, StoreSteps
<1>2. captured'[s] = captured[s]
  <2>1. s \in Scans /\ pc[s] # "idle"
    BY DEF IndInv, RowsNamed, TypeOK, StoreTypeOK
  <2> QED
    BY <2>1, CapturedStays
<1>3. Ruled(i, "false_positive") => Ruled(i, "false_positive")'
  BY RulingsStay
<1>4. [finding |-> i, scan |-> s, draft |-> n].scan = s
  OBVIOUS
<1> QED
  BY <1>1, <1>2, <1>3, <1>4 DEF Accounted

\* Every step keeps every draft of every committed scan accounted for.
LEMMA AccountKeeps ==
  ASSUME IndInv, EvidenceInv, [Next]_vars
  PROVE  EveryDraftAccountedFor'
<1> SUFFICES ASSUME NEW s \in scans', NEW n \in DOMAIN captured'[s]
             PROVE  \E i \in DOMAIN findings' : Accounted(s, n, i)'
  BY DEF EveryDraftAccountedFor, Accounted
<1>1. CASE s \in scans
  <2>1. s \in Scans /\ pc[s] # "idle"
    BY <1>1 DEF IndInv, RowsNamed, TypeOK, StoreTypeOK
  <2>2. n \in DOMAIN captured[s]
    BY <2>1, CapturedStays
  <2>3. PICK i \in DOMAIN findings : Accounted(s, n, i)
    BY <1>1, <2>2 DEF EvidenceInv, EveryDraftAccountedFor, Accounted
  <2> QED
    BY <1>1, <2>3, AccountStays
<1>2. CASE s \notin scans
  <2>1. PICK t \in Scans : Commit(t)
    <3>1. ReviewNext => scans' = scans
      BY ReviewResult DEF IndInv
    <3> QED
      BY <1>2, <3>1, StoreSteps DEF storeVars
  <2>2. s = t /\ s \in Scans /\ captured' = captured
    BY <1>2, <2>1 DEF Commit
  <2> QED
    BY <2>1, <2>2, CommitAccounts
<1> QED
  BY <1>1, <1>2

\* The evidence of a row after a commit: of a row the scan created what it
\* holds for it, of another what it had and what the scan holds for it.
LEMMA CommitEvidence ==
  ASSUME IndInv, EvidenceInv, NEW s \in Scans, Commit(s), NEW i \in DOMAIN findings'
  PROVE  /\ \A k \in Created(s) : i = <<s, k>> =>
              EvidenceOf(i)' = {<<s, n>> : n \in Held(s, k)}
         /\ i \in DOMAIN findings =>
              \A d \in EvidenceOf(i)' \ EvidenceOf(i) : \E n \in 1..(next[s] - 1) : d = <<s, n>>
         /\ i \in DOMAIN findings =>
              \A k \in DOMAIN by_key[s] : by_key[s][k].id = i =>
                 \A n \in Held(s, k) : <<s, n>> \in EvidenceOf(i)'
<1>1. /\ pc[s] = "drafts" /\ WalkOK(s)
      /\ evidence' = evidence \cup appended[s]
      /\ \A e \in appended[s] : e.scan = s
  BY AtItsCommit
<1>2. \A e \in appended[s] : /\ e = [finding |-> e.finding, scan |-> s, draft |-> e.draft]
                             /\ e.draft \in 1..(next[s] - 1)
  <2>1. appended[s] \subseteq FindingEvidenceRow
    BY DEF IndInv, TypeOK, ScanTypeOK
  <2>2. \A e \in FindingEvidenceRow : e = [finding |-> e.finding, scan |-> e.scan, draft |-> e.draft]
    BY DEF FindingEvidenceRow
  <2> QED
    BY <1>1, <2>1, <2>2 DEF WalkOK, AppendedHeld
<1>3. ASSUME NEW k \in Created(s), i = <<s, k>>
      PROVE  EvidenceOf(i)' = {<<s, n>> : n \in Held(s, k)}
  <2>1. /\ i \notin DOMAIN findings
        /\ findings'[i] = by_key[s][k].row
        /\ k \in DOMAIN by_key[s] /\ by_key[s][k].id = i
    BY <1>3, CommitResult DEF Created
  <2>2. by_key[s][k].row.scan = s /\ by_key[s][k].row.draft \in 1..(next[s] - 1)
    BY <1>1, <1>3 DEF WalkOK, InlineHeld, IndInv, SessionInv, SessionOK, CreatedNumbered
  <2>3. {x \in evidence' : x.finding = i} = {x \in appended[s] : x.finding = i}
    BY <1>1, <2>1 DEF IndInv, NothingOrphaned
  <2>4. EvidenceOf(i)' = {<<s, by_key[s][k].row.draft>>}
                           \cup {<<e.scan, e.draft>> : e \in {x \in appended[s] : x.finding = i}}
    BY <2>1, <2>2, <2>3 DEF EvidenceOf
  <2>5. ASSUME NEW n \in Held(s, k) PROVE <<s, n>> \in EvidenceOf(i)'
    <3>1. CASE by_key[s][k].row.draft = n
      BY <2>4, <3>1
    <3>2. CASE [finding |-> i, scan |-> s, draft |-> n] \in appended[s]
      BY <2>4, <3>2
    <3> QED
      BY <2>1, <3>1, <3>2 DEF Held
  <2>6. ASSUME NEW d \in EvidenceOf(i)' PROVE \E n \in Held(s, k) : d = <<s, n>>
    <3>1. CASE d = <<s, by_key[s][k].row.draft>>
      BY <1>3, <2>2, <3>1 DEF Held
    <3>2. ASSUME NEW e \in appended[s], e.finding = i, d = <<e.scan, e.draft>>
          PROVE  \E n \in Held(s, k) : d = <<s, n>>
      <4>1. e.draft \in Held(s, k)
        BY <1>2, <2>1, <3>2 DEF Held
      <4> QED
        BY <1>1, <3>2, <4>1
    <3> QED
      BY <2>4, <2>6, <3>1, <3>2
  <2> QED
    BY <2>5, <2>6
<1>4. ASSUME i \in DOMAIN findings
      PROVE  EvidenceOf(i)' = EvidenceOf(i)
                \cup {<<e.scan, e.draft>> : e \in {x \in appended[s] : x.finding = i}}
  <2>1. findings'[i].scan = findings[i].scan /\ findings'[i].draft = findings[i].draft
    BY <1>4, CommitResult
  <2> QED
    BY <1>1, <2>1 DEF EvidenceOf
<1>5. ASSUME i \in DOMAIN findings, NEW d \in EvidenceOf(i)' \ EvidenceOf(i)
      PROVE  \E n \in 1..(next[s] - 1) : d = <<s, n>>
  <2>1. PICK e \in appended[s] : d = <<e.scan, e.draft>>
    BY <1>4, <1>5
  <2> QED
    BY <1>1, <1>2, <2>1
<1>6. ASSUME i \in DOMAIN findings, NEW k \in DOMAIN by_key[s], by_key[s][k].id = i, NEW n \in Held(s, k)
      PROVE  <<s, n>> \in EvidenceOf(i)'
  <2>1. k \notin Created(s)
    BY <1>6, CommitResult DEF Created
  <2>2. [finding |-> i, scan |-> s, draft |-> n] \in appended[s]
    BY <1>6, <2>1 DEF Held
  <2> QED
    BY <1>4, <1>6, <2>2
<1> QED
  BY <1>3, <1>5, <1>6

\* Evidence goes on referring to drafts that were captured.
LEMMA CapturedKeeps ==
  ASSUME IndInv, EvidenceInv, [Next]_vars
  PROVE  EvidenceIsCaptured'
<1> SUFFICES ASSUME NEW i \in DOMAIN findings', NEW d \in EvidenceOf(i)'
             PROVE  d[2] \in DOMAIN captured'[d[1]]
  BY DEF EvidenceIsCaptured
<1>1. CASE i \in DOMAIN findings /\ d \in EvidenceOf(i)
  BY <1>1, CreatorsEvidenceStays DEF EvidenceInv, EvidenceIsCaptured
<1>2. ASSUME NEW s \in Scans, Commit(s), ~ (i \in DOMAIN findings /\ d \in EvidenceOf(i))
      PROVE  d[2] \in DOMAIN captured'[d[1]]
  <2>1. captured' = captured /\ DOMAIN captured[s] = 1..(next[s] - 1)
    BY <1>2, AtItsCommit
  <2>2. \E n \in 1..(next[s] - 1) : d = <<s, n>>
    <3>1. CASE i \in DOMAIN findings
      BY <1>2, <3>1, CommitEvidence
    <3>2. CASE i \notin DOMAIN findings
      <4>1. PICK k \in Created(s) : i = <<s, k>>
        BY <1>2, <3>2, CommitResult
      <4>2. PICK n \in Held(s, k) : d = <<s, n>>
        BY <1>2, <4>1, CommitEvidence
      <4> QED
        BY <4>2 DEF Held
    <3> QED
      BY <3>1, <3>2
  <2>3. d[1] = s /\ d[2] \in 1..(next[s] - 1)
    BY <2>2
  <2> QED
    BY <2>1, <2>3
<1>3. ASSUME UNCHANGED <<findings, evidence>> \/ ReviewNext
      PROVE  i \in DOMAIN findings /\ d \in EvidenceOf(i)
  <2>1. CASE UNCHANGED <<findings, evidence>>
    BY <2>1 DEF EvidenceOf
  <2>2. CASE ReviewNext
    <3>1. i \in DOMAIN findings /\ evidence' = evidence
          /\ findings'[i].scan = findings[i].scan /\ findings'[i].draft = findings[i].draft
      BY <2>2, ReviewResult DEF IndInv
    <3> QED
      BY <3>1 DEF EvidenceOf
  <2> QED
    BY <1>3, <2>1, <2>2
<1> QED
  BY <1>1, <1>2, <1>3, StoreSteps DEF storeVars

\* A commit changes the severity of a row only to what the session that read
\* the row made of it.
LEMMA CommitSeverity ==
  ASSUME IndInv, NEW s \in Scans, Commit(s), NEW i \in DOMAIN findings
  PROVE  \/ findings'[i].severity = findings[i].severity
         \/ \E k \in raised[s] : /\ k \in DOMAIN by_key[s] \ Created(s)
                                 /\ by_key[s][k].id = i
                                 /\ findings'[i].severity = by_key[s][k].row.severity
<1> PICK k : k = findings[i].key
  OBVIOUS
<1>1. /\ findings[i] \in FindingRow
      /\ raised[s] \subseteq DOMAIN by_key[s]
  BY DEF IndInv, TypeOK, StoreTypeOK, ScanTypeOK
<1>2. findings'[i] = IF k \in raised[s] /\ by_key[s][k].id = i
                     THEN [findings[i] EXCEPT !.severity = by_key[s][k].row.severity]
                     ELSE findings[i]
  BY DEF Commit, Written
<1>3. CASE k \in raised[s] /\ by_key[s][k].id = i
  <2>1. findings'[i].severity = by_key[s][k].row.severity
    BY <1>1, <1>2, <1>3 DEF FindingRow
  <2>2. k \notin Created(s)
    BY <1>3, CommitResult, ZenonT(30) DEF Created
  <2> QED
    BY <1>1, <1>3, <2>1, <2>2
<1> QED
  BY <1>2, <1>3

\* Finding i has the severity of some of its evidence, and at least that of
\* all its creator's (cf. SeverityIsEvidenced).
Evidenced(i) ==
  /\ \E d \in EvidenceOf(i) : findings[i].severity = SeverityOf(d)
  /\ \A d \in EvidenceOf(i) : d[1] = findings[i].scan => SeverityOf(d) <= findings[i].severity

\* A commit leaves every finding, those it creates and those it raises, with a
\* severity that is evidenced.
LEMMA CommitEvidenced ==
  ASSUME IndInv, EvidenceInv, [Next]_vars, NEW s \in Scans, Commit(s), NEW i \in DOMAIN findings'
  PROVE  Evidenced(i)'
<1> PICK B : B = by_key[s]
  OBVIOUS
<1> PICK sev : sev = findings'[i].severity
  OBVIOUS
<1>1. /\ pc[s] = "drafts" /\ captured' = captured
      /\ \A k \in raised[s] \cup Created(s) :
           \E n \in Held(s, k) : captured[s][n].severity = B[k].row.severity
      /\ \A k \in Created(s) : \A n \in Held(s, k) : captured[s][n].severity <= B[k].row.severity
      /\ \A k \in DOMAIN B \ Created(s) : \A d \in EvidenceOf(B[k].id) :
           d[1] = findings[B[k].id].scan => SeverityOf(d) <= B[k].row.severity
  BY AtItsCommit DEF WalkOK, SeverityHeld
<1>2. \A n : SeverityOf(<<s, n>>)' = captured[s][n].severity
  BY <1>1 DEF SeverityOf
<1>3. ASSUME NEW k \in Created(s), i = <<s, k>>
      PROVE  Evidenced(i)'
  <2>1. /\ sev = B[k].row.severity
        /\ EvidenceOf(i)' = {<<s, n>> : n \in Held(s, k)}
    BY <1>3, CommitResult, CommitEvidence
  <2>2. PICK n \in Held(s, k) : captured[s][n].severity = sev
    BY <1>1, <1>3, <2>1
  <2>3. \E d \in EvidenceOf(i)' : sev = SeverityOf(d)'
    BY <1>2, <2>1, <2>2
  <2>4. \A d \in EvidenceOf(i)' : SeverityOf(d)' <= sev
    BY <1>1, <1>2, <1>3, <2>1
  <2> QED
    BY <2>3, <2>4 DEF Evidenced
<1>4. ASSUME i \in DOMAIN findings
      PROVE  Evidenced(i)'
  <2>1. /\ findings'[i].scan = findings[i].scan
        /\ EvidenceOf(i) \subseteq EvidenceOf(i)'
        /\ \A d \in EvidenceOf(i) : SeverityOf(d)' = SeverityOf(d)
        /\ \A d \in EvidenceOf(i)' : d[1] = findings[i].scan => d \in EvidenceOf(i)
    BY <1>4, CreatorsEvidenceStays
  <2>2. CASE sev = findings[i].severity
    BY <1>4, <2>1, <2>2 DEF EvidenceInv, SeverityIsEvidenced, Evidenced
  <2>3. ASSUME NEW k \in raised[s], k \in DOMAIN B \ Created(s), B[k].id = i, sev = B[k].row.severity
        PROVE  Evidenced(i)'
    <3>1. PICK n \in Held(s, k) : captured[s][n].severity = sev
      BY <1>1, <2>3
    <3>2. <<s, n>> \in EvidenceOf(i)'
      BY <1>4, <2>3, <3>1, CommitEvidence
    <3>3. \A d \in EvidenceOf(i)' : d[1] = findings'[i].scan => SeverityOf(d)' <= sev
      BY <1>1, <2>1, <2>3
    <3> QED
      BY <1>2, <3>1, <3>2, <3>3 DEF Evidenced
  <2> QED
    BY <1>4, <2>2, <2>3, CommitSeverity
<1>5. i \in DOMAIN findings \/ \E k \in Created(s) : i = <<s, k>>
  BY CommitResult
<1> QED
  BY <1>3, <1>4, <1>5

\* Every step leaves every severity evidenced.
LEMMA SeverityKeeps ==
  ASSUME IndInv, EvidenceInv, [Next]_vars
  PROVE  SeverityIsEvidenced'
<1> SUFFICES ASSUME NEW i \in DOMAIN findings' PROVE Evidenced(i)'
  BY DEF SeverityIsEvidenced, Evidenced
<1>1. ASSUME NEW s \in Scans, Commit(s) PROVE Evidenced(i)'
  BY <1>1, CommitEvidenced
<1>2. ASSUME i \in DOMAIN findings, findings'[i].severity = findings[i].severity
      PROVE  Evidenced(i)'
  BY <1>2, CreatorsEvidenceStays DEF EvidenceInv, SeverityIsEvidenced, Evidenced
<1>3. CASE ReviewNext
  BY <1>2, <1>3, ReviewResult DEF IndInv
<1>4. CASE UNCHANGED storeVars
  BY <1>2, <1>4 DEF storeVars
<1> QED
  BY <1>1, <1>3, <1>4, StoreSteps

-----------------------------------------------------------------------------
(***************************************************************************)
(* The invariant and what follows.                                         *)
(***************************************************************************)

\* The empty database satisfies the account of the walks.
LEMMA InitEvidence == Init => EvidenceInv
BY DEF Init, StoreInit, ScanInit, EvidenceInv, EvidenceIsCaptured, EveryDraftAccountedFor,
       SeverityIsEvidenced

\* The account of the walks, with what the audit trail says of the rulings a
\* read returns, is inductive.
LEMMA EvidenceInvIsInductive == IndInv /\ AuditInv /\ EvidenceInv /\ [Next]_vars => EvidenceInv'
<1> SUFFICES ASSUME IndInv, AuditInv, EvidenceInv, [Next]_vars
             PROVE  EvidenceInv'
  OBVIOUS
<1>1. \A s \in Scans : pc'[s] = "drafts" => WalkOK(s)'
  BY WalkKeeps
<1>2. EvidenceIsCaptured' /\ EveryDraftAccountedFor' /\ SeverityIsEvidenced'
  BY CapturedKeeps, AccountKeeps, SeverityKeeps
<1> QED
  BY <1>1, <1>2 DEF EvidenceInv

\* The account of the walks holds in every reachable state.
LEMMA EvidenceAlways == Spec => []EvidenceInv
BY InitEvidence, EvidenceInvIsInductive, Invariance, AuditAlways, PTL DEF Spec

\* No evidence is dropped: each draft of a committed scan is the inline
\* evidence of the finding of its key or appended to it, never both, or that
\* finding was ruled a false positive (the loop of _persist_scan).
THEOREM NoEvidenceIsDropped == Spec => []EveryDraftAccountedFor
<1>1. EvidenceInv => EveryDraftAccountedFor
  BY DEF EvidenceInv
<1> QED
  BY <1>1, EvidenceAlways, PTL

\* However scans overwrite one another's severity, a finding is as severe as
\* one of its drafts and at least as severe as all those of the scan that
\* created it (keep_worst_severity under lost updates).
THEOREM SeveritiesAreEvidenced == Spec => []SeverityIsEvidenced
<1>1. EvidenceInv => SeverityIsEvidenced
  BY DEF EvidenceInv
<1> QED
  BY <1>1, EvidenceAlways, PTL

\* Evidence of a finding that was in the table is appended only by a scan that
\* had not read it as a false positive (the suppression in _persist_scan).
THEOREM SuppressionFromRead == Spec => SuppressedFromRead
<1> DEFINE A == \A e \in evidence' \ evidence :
                  LET k == findings[e.finding].key
                  IN  e.finding \in DOMAIN findings =>
                        by_key[e.scan][k].row.status # "false_positive"
<1>1. ASSUME IndInv, EvidenceInv, [Next]_vars
      PROVE  [A]_vars
  <2> SUFFICES ASSUME NEW e \in evidence' \ evidence, e.finding \in DOMAIN findings
               PROVE  by_key[e.scan][findings[e.finding].key].row.status # "false_positive"
    OBVIOUS
  <2>1. PICK s \in Scans : Commit(s)
    <3>1. ReviewNext => evidence' = evidence
      BY <1>1, ReviewResult DEF IndInv
    <3> QED
      BY <1>1, <3>1, StoreSteps DEF storeVars
  <2>2. e \in appended[s] /\ e.scan = s /\ WalkOK(s) /\ pc[s] = "drafts"
    BY <1>1, <2>1, AtItsCommit
  <2>3. PICK k \in DOMAIN by_key[s] :
          by_key[s][k].id = e.finding /\ by_key[s][k].row.status # "false_positive"
    BY <2>2 DEF WalkOK, AppendedHeld
  <2>4. k \notin Created(s)
    <3>1. \A j \in Created(s) : <<s, j>> \notin DOMAIN findings
      BY <1>1, <2>1, CommitResult
    <3> QED
      BY <2>3, <3>1 DEF Created
  <2>5. findings[e.finding].key = k
    BY <1>1, <2>2, <2>3, <2>4, SessionIds
  <2> QED
    BY <2>2, <2>3, <2>5
<1> QED
  BY <1>1, Invariance, EvidenceAlways, PTL DEF Spec, SuppressedFromRead

-----------------------------------------------------------------------------
(***************************************************************************)
(* A list read while scans commit (list_findings): its counts are of one     *)
(* state and its findings of a later one.                                  *)
(***************************************************************************)

\* A draft of a scan belongs to a finding when their dedup keys agree.
LEMMA DraftsOfElements ==
  ASSUME NEW i, NEW by, NEW s, NEW n
  PROVE  <<s, n>> \in DraftsOf(i, by) <=>
           s \in by /\ n \in DOMAIN captured[s] /\ captured[s][n].key = findings[i].key
BY DEF DraftsOf

\* A draft is named by its scan and its place in it.
LEMMA DraftsOfPairs ==
  ASSUME NEW i, NEW by, NEW d \in DraftsOf(i, by)
  PROVE  d = <<d[1], d[2]>>
BY DEF DraftsOf

\* The same of the next state.
LEMMA NextDraftsOfElements ==
  ASSUME NEW i, NEW s, NEW n
  PROVE  <<s, n>> \in DraftsOf(i, scans)' <=>
           s \in scans' /\ n \in DOMAIN captured'[s] /\ captured'[s][n].key = findings'[i].key
BY DEF DraftsOf

\* Finitely many scans captured finitely many drafts of an issue.
LEMMA DraftsOfFinite ==
  ASSUME IndInv, NEW i, NEW by \in SUBSET Scans, IsFiniteSet(by)
  PROVE  IsFiniteSet(DraftsOf(i, by)) /\ Cardinality(DraftsOf(i, by)) \in Nat
<1> DEFINE Of(s) == {s} \X {n \in DOMAIN captured[s] : captured[s][n].key = findings[i].key}
           all == {Of(s) : s \in by}
<1>1. ASSUME NEW s \in by PROVE IsFiniteSet(Of(s))
  <2>1. IsFiniteSet(DOMAIN captured[s])
    <3>1. captured[s] \in Seq(FindingDraft)
      BY WalkBound
    <3> PICK N \in Nat : DOMAIN captured[s] = 1..N
      BY <3>1
    <3>2. IsFiniteSet(1..N)
      BY FS_Interval
    <3> QED
      BY <3>2
  <2>2. IsFiniteSet({n \in DOMAIN captured[s] : captured[s][n].key = findings[i].key})
    BY <2>1, FS_Subset
  <2>3. IsFiniteSet({s})
    BY FS_Singleton
  <2> QED
    BY <2>2, <2>3, FS_Product
<1>2. IsFiniteSet(all)
  <2> DEFINE f == [s \in by |-> Of(s)]
  <2>1. f \in Surjection(by, all)
    BY DEF Surjection
  <2> HIDE DEF f, all
  <2> QED
    BY <2>1, FS_Surjection
<1>3. \A T \in all : IsFiniteSet(T)
  BY <1>1
<1>4. DraftsOf(i, by) = UNION all
  BY DEF DraftsOf
<1> HIDE DEF all
<1>5. IsFiniteSet(DraftsOf(i, by))
  BY <1>2, <1>3, <1>4, FS_UNION
<1> QED
  BY <1>5, FS_CardinalityType

\* Evidence of a finding is of drafts that committed scans captured of its
\* issue.
EvidenceNamed ==
  /\ IsFiniteSet(scans)
  /\ \A i \in DOMAIN findings : EvidenceOf(i) \subseteq DraftsOf(i, scans)

\* Evidence that was there goes on being named.
LEMMA NamedStays ==
  ASSUME IndInv, EvidenceInv, EvidenceNamed, [Next]_vars, NEW i \in DOMAIN findings,
         NEW by \in SUBSET scans
  PROVE  /\ i \in DOMAIN findings' /\ findings'[i].key = findings[i].key
         /\ findings'[i].scan = findings[i].scan /\ findings'[i].draft = findings[i].draft
         /\ scans \subseteq scans'
         /\ \A s \in scans : captured'[s] = captured[s]
         /\ DraftsOf(i, by)' = DraftsOf(i, by)
<1>1. /\ i \in DOMAIN findings' /\ findings'[i].key = findings[i].key
      /\ findings'[i].scan = findings[i].scan /\ findings'[i].draft = findings[i].draft
      /\ scans \subseteq scans'
  <2>1. CASE UNCHANGED storeVars
    BY <2>1 DEF storeVars
  <2>2. ASSUME NEW s \in Scans, Commit(s)
        PROVE  /\ i \in DOMAIN findings' /\ findings'[i].key = findings[i].key
               /\ findings'[i].scan = findings[i].scan /\ findings'[i].draft = findings[i].draft
               /\ scans \subseteq scans'
    BY <2>2, CommitResult DEF Commit
  <2>3. CASE ReviewNext
    BY <2>3, ReviewResult DEF IndInv
  <2> QED
    BY <2>1, <2>2, <2>3, StoreSteps
<1>2. \A s \in scans : captured'[s] = captured[s]
  BY CapturedStays DEF IndInv, RowsNamed, TypeOK, StoreTypeOK
<1> QED
  BY <1>1, <1>2 DEF DraftsOf

\* What a commit appends to a finding it had read is of the finding's issue.
LEMMA AppendedNamesIssue ==
  ASSUME IndInv, EvidenceInv, NEW s \in Scans, Commit(s), NEW e \in appended[s],
         e.finding \in DOMAIN findings
  PROVE  /\ e.scan = s /\ e.draft \in DOMAIN captured[s]
         /\ captured[s][e.draft].key = findings[e.finding].key
<1>1. /\ pc[s] = "drafts" /\ WalkOK(s) /\ e.scan = s
      /\ DOMAIN captured[s] = 1..(next[s] - 1)
      /\ \A i \in DOMAIN findings : findings[i].scan # s
  BY AtItsCommit
<1>2. PICK k \in DOMAIN by_key[s] : e.draft \in 1..(next[s] - 1) /\ by_key[s][k].id = e.finding
  BY <1>1 DEF WalkOK, AppendedHeld
<1>3. findings[e.finding].key = k
  <2>1. k \notin Created(s)
    <3> SUFFICES ASSUME k \in Created(s) PROVE FALSE
      OBVIOUS
    <3>1. by_key[s][k].id = <<s, k>>
      BY <1>1, SessionIds
    <3>2. <<s, k>> \notin DOMAIN findings
      BY CommitResult
    <3> QED
      BY <1>2, <3>1, <3>2
  <2> QED
    BY <1>1, <1>2, <2>1, SessionIds
<1>4. e.draft \in Held(s, k)
  <2>1. e \in FindingEvidenceRow
    BY DEF IndInv, TypeOK, ScanTypeOK
  <2>2. e = [finding |-> e.finding, scan |-> e.scan, draft |-> e.draft]
    BY <2>1 DEF FindingEvidenceRow
  <2> QED
    BY <1>1, <1>2, <2>2 DEF Held
<1> QED
  BY <1>1, <1>2, <1>3, <1>4 DEF WalkOK, KeysHeld

\* Evidence of a finding is never taken away.
LEMMA EvidenceStays ==
  ASSUME IndInv, EvidenceInv, EvidenceNamed, [Next]_vars, NEW i \in DOMAIN findings
  PROVE  EvidenceOf(i) \subseteq EvidenceOf(i)'
<1>1. findings'[i].scan = findings[i].scan /\ findings'[i].draft = findings[i].draft
  BY NamedStays
<1>2. evidence \subseteq evidence'
  <2>1. ASSUME NEW s \in Scans, Commit(s) PROVE evidence \subseteq evidence'
    BY <2>1 DEF Commit
  <2>2. ReviewNext => evidence \subseteq evidence'
    BY ReviewResult DEF IndInv
  <2> QED
    BY <2>1, <2>2, StoreSteps DEF storeVars
<1> QED
  BY <1>1, <1>2 DEF EvidenceOf

\* Finitely many scans are committed and all evidence stays named by their drafts.
LEMMA NamedIsInductive ==
  IndInv /\ AuditInv /\ EvidenceInv /\ EvidenceNamed /\ [Next]_vars => EvidenceNamed'
<1> SUFFICES ASSUME IndInv, AuditInv, EvidenceInv, EvidenceNamed, [Next]_vars
             PROVE  EvidenceNamed'
  OBVIOUS
<1>1. CASE UNCHANGED <<findings, evidence, scans>>
  <2>1. \A i \in DOMAIN findings : DraftsOf(i, scans)' = DraftsOf(i, scans)
    <3>1. \A s \in scans : captured'[s] = captured[s]
      BY CapturedStays DEF IndInv, RowsNamed, TypeOK, StoreTypeOK
    <3> QED
      BY <1>1, <3>1 DEF DraftsOf
  <2>2. \A i \in DOMAIN findings : EvidenceOf(i)' = EvidenceOf(i)
    BY <1>1 DEF EvidenceOf
  <2> QED
    BY <1>1, <2>1, <2>2 DEF EvidenceNamed
<1>2. ASSUME NEW s \in Scans, Commit(s) PROVE EvidenceNamed'
  <2>1. /\ pc[s] = "drafts" /\ WalkOK(s) /\ DOMAIN captured[s] = 1..(next[s] - 1)
        /\ evidence' = evidence \cup appended[s] /\ scans' = scans \cup {s}
        /\ UNCHANGED captured
        /\ \A i \in DOMAIN findings : findings[i].scan # s
    BY <1>2, AtItsCommit
  <2>2. IsFiniteSet(scans')
    BY <2>1, FS_AddElement DEF EvidenceNamed
  <2>3. ASSUME NEW i \in DOMAIN findings PROVE EvidenceOf(i)' \subseteq DraftsOf(i, scans)'
    <3>1. /\ findings'[i].key = findings[i].key
          /\ findings'[i].scan = findings[i].scan /\ findings'[i].draft = findings[i].draft
      BY NamedStays
    <3>2. DraftsOf(i, scans) \subseteq DraftsOf(i, scans)'
      BY <2>1, <3>1 DEF DraftsOf
    <3>3. ASSUME NEW e \in appended[s], e.finding = i PROVE <<e.scan, e.draft>> \in DraftsOf(i, scans)'
      <4>1. e.scan = s /\ e.draft \in DOMAIN captured[s] /\ captured[s][e.draft].key = findings[i].key
        BY <1>2, <3>3, AppendedNamesIssue
      <4> QED
        BY <2>1, <3>1, <4>1, NextDraftsOfElements
    <3>4. EvidenceOf(i)' = EvidenceOf(i) \cup {<<e.scan, e.draft>> : e \in {x \in appended[s] : x.finding = i}}
      BY <2>1, <3>1 DEF EvidenceOf
    <3> QED
      BY <3>2, <3>3, <3>4 DEF EvidenceNamed
  <2>4. ASSUME NEW k \in Created(s), NEW i, i = <<s, k>> PROVE EvidenceOf(i)' \subseteq DraftsOf(i, scans)'
    <3>1. i \in DOMAIN findings' /\ findings'[i] = by_key[s][k].row
      BY <1>2, <2>4, CommitResult
    <3>2. EvidenceOf(i)' = {<<s, n>> : n \in Held(s, k)}
      BY <1>2, <2>4, <3>1, CommitEvidence
    <3>3. k \in DOMAIN by_key[s] /\ by_key[s][k].row.key = k
      BY <2>1 DEF Created, IndInv, SessionInv, SessionOK, SnapshotAgrees
    <3>4. \A n \in Held(s, k) : n \in DOMAIN captured[s] /\ captured[s][n].key = k
      BY <2>1, <3>3 DEF WalkOK, KeysHeld, Held
    <3>5. \A n \in Held(s, k) : <<s, n>> \in DraftsOf(i, scans)'
      <4> SUFFICES ASSUME NEW n \in Held(s, k) PROVE <<s, n>> \in DraftsOf(i, scans)'
        OBVIOUS
      <4>1. s \in scans' /\ n \in DOMAIN captured'[s]
        BY <2>1, <3>4
      <4>2. captured'[s][n].key = findings'[i].key
        BY <2>1, <3>1, <3>3, <3>4
      <4> QED
        BY <4>1, <4>2, NextDraftsOfElements
    <3> QED
      BY <3>2, <3>5
  <2>5. \A i \in DOMAIN findings' : EvidenceOf(i)' \subseteq DraftsOf(i, scans)'
    BY <1>2, <2>3, <2>4, CommitResult, ZenonT(30)
  <2> QED
    BY <2>2, <2>5 DEF EvidenceNamed
<1>3. CASE ReviewNext
  <2>1. /\ DOMAIN findings' = DOMAIN findings
        /\ UNCHANGED <<evidence, scans>>
    BY <1>3, ReviewResult DEF IndInv
  <2>2. ASSUME NEW i \in DOMAIN findings PROVE EvidenceOf(i)' \subseteq DraftsOf(i, scans)'
    <3>1. /\ findings'[i].key = findings[i].key
          /\ findings'[i].scan = findings[i].scan /\ findings'[i].draft = findings[i].draft
          /\ \A s \in scans : captured'[s] = captured[s]
      BY NamedStays
    <3>2. EvidenceOf(i)' = EvidenceOf(i)
      BY <2>1, <3>1 DEF EvidenceOf
    <3>3. DraftsOf(i, scans)' = DraftsOf(i, scans)
      BY <2>1, <3>1 DEF DraftsOf
    <3> QED
      BY <3>2, <3>3 DEF EvidenceNamed
  <2> QED
    BY <2>1, <2>2 DEF EvidenceNamed
<1> QED
  BY <1>1, <1>2, <1>3, StoreSteps DEF storeVars

\* The appended rows of a finding.
RowsOf(i) == {e \in evidence : e.finding = i}

\* The inline draft and each appended row are one draft each, so the count of
\* references is that of the drafts the finding holds.
LEMMA ReferencesAreDrafts ==
  ASSUME IndInv, EvidenceInv, EvidenceNamed, NEW i \in DOMAIN findings
  PROVE  /\ IsFiniteSet(RowsOf(i)) /\ Cardinality(RowsOf(i)) \in Nat
         /\ IsFiniteSet(EvidenceOf(i)) /\ Cardinality(EvidenceOf(i)) = 1 + Cardinality(RowsOf(i))
         /\ Cardinality(EvidenceOf(i)) <= Cardinality(DraftsOf(i, scans))
<1> DEFINE inline == <<findings[i].scan, findings[i].draft>>
           added  == {<<e.scan, e.draft>> : e \in RowsOf(i)}
           f      == [e \in RowsOf(i) |-> <<e.scan, e.draft>>]
<1>1. EvidenceOf(i) = added \cup {inline}
  BY DEF EvidenceOf, RowsOf
<1>2. IsFiniteSet(DraftsOf(i, scans)) /\ EvidenceOf(i) \subseteq DraftsOf(i, scans)
  BY DraftsOfFinite DEF EvidenceNamed, IndInv, TypeOK, StoreTypeOK
<1>3. IsFiniteSet(EvidenceOf(i)) /\ Cardinality(EvidenceOf(i)) <= Cardinality(DraftsOf(i, scans))
  BY <1>2, FS_Subset
<1>4. IsFiniteSet(added)
  BY <1>1, <1>3, FS_Subset
<1>5. f \in Bijection(RowsOf(i), added)
  <2>1. \A e \in RowsOf(i) : e = [finding |-> i, scan |-> e.scan, draft |-> e.draft]
    BY DEF RowsOf, IndInv, TypeOK, StoreTypeOK, FindingEvidenceRow
  <2> QED
    BY <2>1 DEF Bijection, Injection, Surjection, IsInjective
<1>6. inline \notin added
  <2> SUFFICES ASSUME NEW e \in RowsOf(i), inline = <<e.scan, e.draft>> PROVE FALSE
    OBVIOUS
  <2>1. [finding |-> i, scan |-> findings[i].scan, draft |-> findings[i].draft] \in evidence
    BY DEF RowsOf, IndInv, TypeOK, StoreTypeOK, FindingEvidenceRow
  <2>2. inline \in DraftsOf(i, scans)
    BY <1>1, <1>2
  <2>3. /\ findings[i].scan \in scans /\ findings[i].draft \in DOMAIN captured[findings[i].scan]
        /\ captured[findings[i].scan][findings[i].draft].key = findings[i].key
    BY <2>2, DraftsOfElements
  <2>4. PICK j \in DOMAIN findings : Accounted(findings[i].scan, findings[i].draft, j)
    BY <2>3 DEF EvidenceInv, EveryDraftAccountedFor, Accounted
  <2>5. j = i
    BY <2>3, <2>4 DEF Accounted, IndInv, OneFindingPerKey
  <2> QED
    BY <2>1, <2>4, <2>5 DEF Accounted
<1> HIDE DEF inline, added, f
<1>7. IsFiniteSet(RowsOf(i)) /\ Cardinality(RowsOf(i)) = Cardinality(added)
  BY <1>4, <1>5, FS_Bijection, Fun_BijInverse, Fun_ExistsBijSymmetric DEF ExistsBijection
<1>8. Cardinality(EvidenceOf(i)) = Cardinality(added) + 1 /\ Cardinality(added) \in Nat
  BY <1>1, <1>4, <1>6, FS_AddElement, FS_CardinalityType
<1> QED
  BY <1>3, <1>7, <1>8

\* Every finding refers to a number of drafts, at least one.
ReferencesCount ==
  \A i \in DOMAIN findings : IsFiniteSet(EvidenceOf(i)) /\ Cardinality(EvidenceOf(i)) \in Nat \ {0}

\* Evidence stays named and counted through every step of scans and reviews.
LEMMA NamedAlways == Spec => [](EvidenceNamed /\ ReferencesCount)
<1>1. Init => EvidenceNamed
  BY FS_EmptySet DEF Init, StoreInit, EvidenceNamed
<1>2. IndInv /\ EvidenceInv /\ EvidenceNamed => ReferencesCount
  <2> SUFFICES ASSUME IndInv, EvidenceInv, EvidenceNamed, NEW i \in DOMAIN findings
               PROVE  IsFiniteSet(EvidenceOf(i)) /\ Cardinality(EvidenceOf(i)) \in Nat \ {0}
    BY DEF ReferencesCount
  <2>1. /\ IsFiniteSet(EvidenceOf(i)) /\ Cardinality(RowsOf(i)) \in Nat
        /\ Cardinality(EvidenceOf(i)) = 1 + Cardinality(RowsOf(i))
    BY ReferencesAreDrafts
  <2> QED
    BY <2>1
<1> QED
  BY <1>1, <1>2, NamedIsInductive, Invariance, AuditAlways, EvidenceAlways, PTL DEF Spec

\* The list request between its queries: it counted evidence that is there,
\* of findings that are there, and missed none that was there then.
ListInv ==
  listing # NoListing =>
    /\ listing.asked \subseteq scans
    /\ DOMAIN listing.counts \subseteq DOMAIN findings
    /\ \A i \in DOMAIN findings :
         /\ \/ Cardinality(DraftsOf(i, listing.asked)) <= evidence_ref_count(i)
            \/ Ruled(i, "false_positive")
         /\ evidence_ref_count(i) \in Nat
         /\ evidence_ref_count(i) <= Cardinality(EvidenceOf(i))

\* It counts the references there are.
LEMMA CountIsExact ==
  ASSUME IndInv, EvidenceInv, EvidenceNamed, NEW i \in DOMAIN findings,
         listing'.counts = appended_evidence_counts
  PROVE  evidence_ref_count(i)' = Cardinality(EvidenceOf(i))
<1> PICK c : c = appended_evidence_counts
  OBVIOUS
<1>1. /\ i \in DOMAIN c <=> RowsOf(i) # {}
      /\ i \in DOMAIN c => c[i] = Cardinality(RowsOf(i))
  BY DEF appended_evidence_counts, RowsOf
<1>2. RowsOf(i) = {} => Cardinality(RowsOf(i)) = 0
  BY FS_EmptySet
<1>3. evidence_ref_count(i)' = 1 + Cardinality(RowsOf(i))
  BY <1>1, <1>2 DEF evidence_ref_count
<1> QED
  BY <1>3, ReferencesAreDrafts

\* What committed scans have of an issue that no human ruled out is evidence
\* of its finding.
LEMMA DraftsAreEvidence ==
  ASSUME IndInv, EvidenceInv, EvidenceNamed, NEW i \in DOMAIN findings, ~ Ruled(i, "false_positive")
  PROVE  DraftsOf(i, scans) \subseteq EvidenceOf(i)
<1> SUFFICES ASSUME NEW d \in DraftsOf(i, scans) PROVE d \in EvidenceOf(i)
  OBVIOUS
<1> PICK s : s = d[1]
  OBVIOUS
<1> PICK n : n = d[2]
  OBVIOUS
<1>1. d = <<s, n>>
  BY DraftsOfPairs
<1>2. s \in scans /\ n \in DOMAIN captured[s] /\ captured[s][n].key = findings[i].key
  BY <1>1, DraftsOfElements
<1>3. PICK j \in DOMAIN findings : Accounted(s, n, j)
  BY <1>2 DEF EvidenceInv, EveryDraftAccountedFor, Accounted
<1>4. j = i
  BY <1>2, <1>3 DEF Accounted, IndInv, OneFindingPerKey
<1>5. CASE findings[i].scan = s /\ findings[i].draft = n
  BY <1>1, <1>5 DEF EvidenceOf
<1>6. CASE [finding |-> i, scan |-> s, draft |-> n] \in evidence
  BY <1>1, <1>6 DEF EvidenceOf
<1> QED
  BY <1>3, <1>4, <1>5, <1>6 DEF Accounted

\* An issue that no finding was of when the request counted has no draft in
\* the scans committed then.
LEMMA NewIssuesWereUnasked ==
  ASSUME IndInv, EvidenceInv, EvidenceNamed, [Next]_vars, IndInv',
         NEW i \in DOMAIN findings' \ DOMAIN findings, NEW by \in SUBSET scans
  PROVE  DraftsOf(i, by)' = {}
<1> SUFFICES ASSUME NEW s \in by, NEW n \in DOMAIN captured'[s], captured'[s][n].key = findings'[i].key
             PROVE  FALSE
  BY DEF DraftsOf
<1>1. captured'[s] = captured[s]
  BY CapturedStays DEF IndInv, RowsNamed, TypeOK, StoreTypeOK
<1>2. PICK j \in DOMAIN findings : Accounted(s, n, j)
  BY <1>1 DEF EvidenceInv, EveryDraftAccountedFor, Accounted
<1>3. j \in DOMAIN findings' /\ findings'[j].key = findings'[i].key
  BY <1>1, <1>2, NamedStays DEF Accounted
<1>4. j = i
  BY <1>3 DEF IndInv, OneFindingPerKey
<1> QED
  BY <1>4

\* Scans and reviews between the two queries: what was asked for stays, and
\* evidence only grows.
LEMMA ListUndisturbed ==
  ASSUME IndInv, AuditInv, EvidenceInv, EvidenceNamed, ListInv, [Next]_vars,
         IndInv', ReferencesCount', UNCHANGED listing
  PROVE  ListInv'
<1> SUFFICES ASSUME listing # NoListing
             PROVE  /\ listing.asked \subseteq scans'
                    /\ DOMAIN listing.counts \subseteq DOMAIN findings'
                    /\ \A i \in DOMAIN findings' :
                         /\ \/ Cardinality(DraftsOf(i, listing.asked)') <= evidence_ref_count(i)
                            \/ Ruled(i, "false_positive")'
                         /\ evidence_ref_count(i) \in Nat
                         /\ evidence_ref_count(i) <= Cardinality(EvidenceOf(i)')
  BY DEF ListInv, evidence_ref_count
<1>1. listing.asked \subseteq scans /\ DOMAIN listing.counts \subseteq DOMAIN findings
  BY DEF ListInv
<1>2. scans \subseteq scans' /\ DOMAIN findings \subseteq DOMAIN findings'
  <2>1. CASE UNCHANGED storeVars
    BY <2>1 DEF storeVars
  <2>2. ASSUME NEW s \in Scans, Commit(s) PROVE scans \subseteq scans' /\ DOMAIN findings \subseteq DOMAIN findings'
    BY <2>2, CommitResult DEF Commit
  <2>3. CASE ReviewNext
    BY <2>3, ReviewResult DEF IndInv
  <2> QED
    BY <2>1, <2>2, <2>3, StoreSteps
<1>3. \A i \in DOMAIN findings' : IsFiniteSet(EvidenceOf(i)') /\ Cardinality(EvidenceOf(i)') \in Nat \ {0}
  BY DEF ReferencesCount
<1>4. ASSUME NEW i \in DOMAIN findings
      PROVE  /\ \/ Cardinality(DraftsOf(i, listing.asked)') <= evidence_ref_count(i)
                \/ Ruled(i, "false_positive")'
             /\ evidence_ref_count(i) \in Nat
             /\ evidence_ref_count(i) <= Cardinality(EvidenceOf(i)')
  <2>1. DraftsOf(i, listing.asked)' = DraftsOf(i, listing.asked)
    BY <1>1, NamedStays
  <2>2. Ruled(i, "false_positive") => Ruled(i, "false_positive")'
    BY RulingsStay
  <2>3. EvidenceOf(i) \subseteq EvidenceOf(i)'
    BY EvidenceStays
  <2>4. Cardinality(EvidenceOf(i)) <= Cardinality(EvidenceOf(i)') /\ Cardinality(EvidenceOf(i)) \in Nat
    BY <1>2, <1>3, <2>3, FS_Subset, FS_CardinalityType
  <2>5. /\ \/ Cardinality(DraftsOf(i, listing.asked)) <= evidence_ref_count(i)
           \/ Ruled(i, "false_positive")
        /\ evidence_ref_count(i) \in Nat
        /\ evidence_ref_count(i) <= Cardinality(EvidenceOf(i))
    BY DEF ListInv
  <2>6. Cardinality(EvidenceOf(i)') \in Nat
    BY <1>2, <1>3
  <2> QED
    BY <2>1, <2>2, <2>4, <2>5, <2>6
<1>5. ASSUME NEW i \in DOMAIN findings' \ DOMAIN findings
      PROVE  /\ Cardinality(DraftsOf(i, listing.asked)') <= evidence_ref_count(i)
             /\ evidence_ref_count(i) \in Nat
             /\ evidence_ref_count(i) <= Cardinality(EvidenceOf(i)')
  <2>1. DraftsOf(i, listing.asked)' = {}
    BY <1>1, NewIssuesWereUnasked
  <2>2. Cardinality({}) = 0
    BY FS_EmptySet
  <2>3. evidence_ref_count(i) = 1
    BY <1>1 DEF evidence_ref_count
  <2> QED
    BY <1>3, <2>1, <2>2, <2>3
<1> QED
  BY <1>1, <1>2, <1>4, <1>5

\* The list request keeps its promise through every step of everybody.
LEMMA ListInvIsInductive ==
  IndInv /\ AuditInv /\ EvidenceInv /\ EvidenceNamed /\ ListInv /\ IndInv' /\ ReferencesCount'
    /\ [ListedNext]_<<vars, listing>> => ListInv'
<1> SUFFICES ASSUME IndInv, AuditInv, EvidenceInv, EvidenceNamed, ListInv,
                    IndInv', ReferencesCount', [ListedNext]_<<vars, listing>>
             PROVE  ListInv'
  OBVIOUS
<1>1. CASE [Next]_vars /\ UNCHANGED listing
  BY <1>1, ListUndisturbed
<1>2. CASE CountEvidence
  <2>1. /\ listing'.asked = scans /\ listing'.counts = appended_evidence_counts
        /\ UNCHANGED vars
    BY <1>2 DEF CountEvidence
  <2>2. UNCHANGED <<findings, evidence, events, scans, captured>>
    BY <2>1 DEF vars, storeVars, scanVars
  <2>3. DOMAIN listing'.counts \subseteq DOMAIN findings
    BY <2>1 DEF appended_evidence_counts, IndInv, NothingOrphaned
  <2>4. ASSUME NEW i \in DOMAIN findings
        PROVE  /\ \/ Cardinality(DraftsOf(i, scans)) <= evidence_ref_count(i)'
                  \/ Ruled(i, "false_positive")
               /\ evidence_ref_count(i)' \in Nat
               /\ evidence_ref_count(i)' <= Cardinality(EvidenceOf(i))
    <3>1. evidence_ref_count(i)' = Cardinality(EvidenceOf(i))
      BY <2>1, CountIsExact
    <3>2. IsFiniteSet(EvidenceOf(i)) /\ Cardinality(EvidenceOf(i)) \in Nat
      BY ReferencesAreDrafts, FS_CardinalityType
    <3>3. ~ Ruled(i, "false_positive") => DraftsOf(i, scans) \subseteq EvidenceOf(i)
      BY DraftsAreEvidence
    <3>4. ~ Ruled(i, "false_positive") => Cardinality(DraftsOf(i, scans)) <= Cardinality(EvidenceOf(i))
      BY <3>2, <3>3, FS_Subset
    <3> QED
      BY <3>1, <3>2, <3>4
  <2>5. \A i : /\ DraftsOf(i, listing.asked)' = DraftsOf(i, scans)
               /\ EvidenceOf(i)' = EvidenceOf(i)
               /\ Ruled(i, "false_positive")' <=> Ruled(i, "false_positive")
    BY <2>1, <2>2 DEF DraftsOf, EvidenceOf, Ruled, EventsOn
  <2> QED
    BY <2>1, <2>2, <2>3, <2>4, <2>5 DEF ListInv
<1>3. CASE ListFindings
  BY <1>3 DEF ListFindings, ListInv, NoListing
<1> QED
  BY <1>1, <1>2, <1>3 DEF ListedNext

\* A list read while scans commit is short of no reference there was when it
\* was asked for, but of findings ruled false positives, and shows none that
\* is not there when it is answered (list_findings).
THEOREM ListsShowWhatIsThere == ListedSpec => []ListingBetween
<1>1. ListingInit => ListInv
  BY DEF ListingInit, ListInv
<1>2. ListedSpec => Spec
  <2>1. [ListedNext]_<<vars, listing>> => [Next]_vars
    BY DEF ListedNext, CountEvidence, ListFindings
  <2> QED
    BY <2>1, PTL DEF ListedSpec, Spec
<1>3. IndInv /\ EvidenceInv /\ EvidenceNamed /\ ListInv => ListingBetween
  <2> SUFFICES ASSUME IndInv, EvidenceInv, EvidenceNamed, ListInv, listing # NoListing,
                      NEW i \in DOMAIN findings
               PROVE  /\ \/ Cardinality(DraftsOf(i, listing.asked)) <= evidence_ref_count(i)
                         \/ Ruled(i, "false_positive")
                      /\ evidence_ref_count(i) <= Cardinality(DraftsOf(i, scans))
    BY DEF ListingBetween
  <2>1. /\ \/ Cardinality(DraftsOf(i, listing.asked)) <= evidence_ref_count(i)
           \/ Ruled(i, "false_positive")
        /\ evidence_ref_count(i) \in Nat
        /\ evidence_ref_count(i) <= Cardinality(EvidenceOf(i))
    BY DEF ListInv
  <2>2. /\ Cardinality(RowsOf(i)) \in Nat /\ Cardinality(EvidenceOf(i)) = 1 + Cardinality(RowsOf(i))
        /\ Cardinality(EvidenceOf(i)) <= Cardinality(DraftsOf(i, scans))
    BY ReferencesAreDrafts
  <2>3. Cardinality(DraftsOf(i, scans)) \in Nat
    BY DraftsOfFinite DEF EvidenceNamed, IndInv, TypeOK, StoreTypeOK
  <2> QED
    BY <2>1, <2>2, <2>3
<1> QED
  BY <1>1, <1>2, <1>3, ListInvIsInductive, Invariance, AuditAlways, EvidenceAlways, NamedAlways, PTL
     DEF ListedSpec

=============================================================================
