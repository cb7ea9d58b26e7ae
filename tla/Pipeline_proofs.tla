-------------------------- MODULE Pipeline_proofs --------------------------
(***************************************************************************)
(* Theorems about Pipeline, for any number of scans and reviewers, any keys *)
(* and whatever drafts the probes captured.                                *)
(***************************************************************************)
EXTENDS Pipeline, FiniteSetTheorems, FunctionTheorems, TLAPS

-----------------------------------------------------------------------------
(***************************************************************************)
(* What a read of the findings returns.                                    *)
(***************************************************************************)

\* existing_findings_by_key indexes the findings by their own key.
LEMMA ReadIndexesFindings ==
  ASSUME NEW k \in DOMAIN existing_findings_by_key
  PROVE  /\ existing_findings_by_key[k].id \in DOMAIN findings
         /\ existing_findings_by_key[k].row = findings[existing_findings_by_key[k].id]
         /\ findings[existing_findings_by_key[k].id].key = k
<1> DEFINE i == CHOOSE j \in DOMAIN findings : findings[j].key = k
<1>1. \E j \in DOMAIN findings : findings[j].key = k
  BY DEF existing_findings_by_key
<1>2. i \in DOMAIN findings /\ findings[i].key = k
  BY <1>1
<1>3. existing_findings_by_key[k] = [id |-> i, row |-> findings[i]]
  BY DEF existing_findings_by_key
<1> QED
  BY <1>2, <1>3

\* Every finding's key is in what was read.
LEMMA ReadIsComplete ==
  ASSUME NEW i \in DOMAIN findings
  PROVE  findings[i].key \in DOMAIN existing_findings_by_key
BY DEF existing_findings_by_key

\* A read holds finitely many well-formed rows.
LEMMA ReadTyped ==
  ASSUME StoreTypeOK
  PROVE  /\ DOMAIN existing_findings_by_key \subseteq Keys
         /\ IsFiniteSet(DOMAIN existing_findings_by_key)
         /\ \A k \in DOMAIN existing_findings_by_key : existing_findings_by_key[k] \in OrmRow
<1> DEFINE K == {findings[i].key : i \in DOMAIN findings}
           f == [i \in DOMAIN findings |-> findings[i].key]
<1>1. DOMAIN existing_findings_by_key = K
  BY DEF existing_findings_by_key
<1>2. K \subseteq Keys
  BY DEF StoreTypeOK, FindingRow
<1>3. f \in Surjection(DOMAIN findings, K)
  BY DEF Surjection
<1>4. IsFiniteSet(K)
  <2>1. IsFiniteSet(DOMAIN findings)
    BY DEF StoreTypeOK
  <2> HIDE DEF f, K
  <2> QED
    BY <1>3, <2>1, FS_Surjection
<1>5. ASSUME NEW k \in DOMAIN existing_findings_by_key
      PROVE  existing_findings_by_key[k] \in OrmRow
  <2> DEFINE i == CHOOSE j \in DOMAIN findings : findings[j].key = k
  <2>1. i \in DOMAIN findings
    BY DEF existing_findings_by_key
  <2>2. existing_findings_by_key[k] = [id |-> i, row |-> findings[i]]
    BY DEF existing_findings_by_key
  <2>3. i \in FindingIds /\ findings[i] \in FindingRow
    BY <2>1 DEF StoreTypeOK
  <2> HIDE DEF i
  <2> QED
    BY <2>2, <2>3 DEF OrmRow
<1> QED
  BY <1>1, <1>2, <1>4, <1>5

-----------------------------------------------------------------------------
(***************************************************************************)
(* Type correctness.                                                       *)
(***************************************************************************)

\* The draft a scan looks at, and the row it would create for it, are typed.
LEMMA DraftTyped ==
  ASSUME TypeOK, NEW s \in Scans, HasDraft(s)
  PROVE  /\ Draft(s) \in FindingDraft
         /\ Draft(s).key \in Keys
         /\ Draft(s).severity \in Severity
         /\ next[s] \in Nat \ {0}
         /\ <<s, Draft(s).key>> \in FindingIds
         /\ from_draft(s, allocated[s] + 1) \in FindingRow
<1>1. captured[s] \in Seq(FindingDraft)
  <2>1. captured[s] \in Captures \cup {<<>>}
    BY DEF TypeOK, ScanTypeOK
  <2>2. <<>> \in Seq(FindingDraft)
    OBVIOUS
  <2> QED
    BY <2>1, <2>2, CapturesAssumption
<1>2. next[s] \in Nat \ {0} /\ next[s] <= Len(captured[s]) /\ allocated[s] \in Nat
  BY DEF TypeOK, ScanTypeOK, HasDraft
<1>3. Draft(s) \in FindingDraft
  BY <1>1, <1>2 DEF Draft
<1>4. Draft(s).key \in Keys /\ Draft(s).severity \in Severity
  BY <1>3 DEF FindingDraft
<1>5. allocated[s] + 1 \in Nat \ {0}
  BY <1>2
<1>6. "new" \in FindingStatus
  BY DEF FindingStatus
<1>7. from_draft(s, allocated[s] + 1) \in FindingRow
  BY <1>2, <1>4, <1>5, <1>6 DEF from_draft, FindingRow
<1> QED
  BY <1>2, <1>3, <1>4, <1>7 DEF FindingIds

\* The empty tables and the idle requests are typed.
LEMMA InitTyped == Init => TypeOK
<1> SUFFICES ASSUME Init PROVE TypeOK
  OBVIOUS
<1> USE DEF Init
<1>1. StoreTypeOK
  BY FS_EmptySet DEF StoreInit, StoreTypeOK
<1>2. ScanTypeOK
  BY FS_EmptySet, AttemptsAssumption DEF ScanInit, ScanTypeOK
<1>3. ReviewTypeOK
  BY DEF ReviewInit, ReviewTypeOK, Review
<1> QED
  BY <1>1, <1>2, <1>3 DEF TypeOK

\* Whatever a scan does next keeps the types.
LEMMA ScanStepTyped ==
  ASSUME TypeOK, NEW s \in Scans, ScanStep(s) \/ Abort(s) \/ \E c \in Captures : BeginPersist(s, c)
  PROVE  StoreTypeOK' /\ ScanTypeOK'
<1> USE DEF TypeOK
<1>1. ASSUME NEW c \in Captures, BeginPersist(s, c) PROVE StoreTypeOK' /\ ScanTypeOK'
  BY <1>1 DEF BeginPersist, StoreTypeOK, ScanTypeOK, storeVars, InFlight, Finished
<1>2. ASSUME ReadFindings(s) PROVE StoreTypeOK' /\ ScanTypeOK'
  <2>1. StoreTypeOK'
    BY <1>2 DEF ReadFindings, StoreTypeOK, storeVars
  <2>2. Cardinality(DOMAIN existing_findings_by_key) \in Nat
    BY ReadTyped, FS_CardinalityType
  <2>3. /\ DOMAIN by_key' = Scans
        /\ \A t \in Scans : by_key'[t] = IF t = s THEN existing_findings_by_key ELSE by_key[t]
    BY <1>2 DEF ReadFindings, ScanTypeOK
  <2>4. \A t \in Scans : /\ DOMAIN by_key'[t] \subseteq Keys
                         /\ IsFiniteSet(DOMAIN by_key'[t])
                         /\ \A k \in DOMAIN by_key'[t] : by_key'[t][k] \in OrmRow
    BY <2>3, ReadTyped DEF ScanTypeOK
  <2> QED
    BY <1>2, <2>1, <2>2, <2>3, <2>4 DEF ReadFindings, ScanTypeOK, InFlight
<1>3. ASSUME Suppress(s) PROVE StoreTypeOK' /\ ScanTypeOK'
  BY <1>3 DEF Suppress, StoreTypeOK, ScanTypeOK, storeVars
<1>4. ASSUME Collapse(s) PROVE StoreTypeOK' /\ ScanTypeOK'
  <2> DEFINE k   == Draft(s).key
             row == keep_worst_severity(by_key[s][k].row, Draft(s))
  <2>1. HasDraft(s) /\ k \in DOMAIN by_key[s] /\ k \in Keys
    BY <1>4, DraftTyped DEF Collapse
  <2>2. by_key[s][k] \in OrmRow
    BY <2>1 DEF ScanTypeOK
  <2>3. by_key[s][k].id \in FindingIds /\ by_key[s][k].row \in FindingRow
    BY <2>2 DEF OrmRow
  <2>4. row \in FindingRow
    <3>1. Draft(s).severity \in Severity
      BY <2>1, DraftTyped
    <3> QED
      BY <2>3, <3>1 DEF keep_worst_severity, FindingRow
  <2>5. [finding |-> by_key[s][k].id, scan |-> s, draft |-> next[s]] \in FindingEvidenceRow
    BY <2>1, <2>3, DraftTyped DEF FindingEvidenceRow
  <2>6. by_key' = [by_key EXCEPT ![s][k].row = row]
    BY <1>4 DEF Collapse
  <2>7. /\ DOMAIN by_key' = Scans
        /\ \A t \in Scans : t # s => by_key'[t] = by_key[t]
        /\ DOMAIN by_key'[s] = DOMAIN by_key[s]
        /\ \A j \in DOMAIN by_key[s] : j # k => by_key'[s][j] = by_key[s][j]
        /\ by_key'[s][k] = [by_key[s][k] EXCEPT !.row = row]
    <3> HIDE DEF k, row
    <3> QED
      BY <2>1, <2>6 DEF ScanTypeOK
  <2>8. by_key'[s][k] \in OrmRow
    <3> HIDE DEF k, row
    <3> QED
      BY <2>2, <2>4, <2>7 DEF OrmRow
  <2>9. \A t \in Scans : /\ DOMAIN by_key'[t] \subseteq Keys
                         /\ IsFiniteSet(DOMAIN by_key'[t])
                         /\ \A j \in DOMAIN by_key'[t] : by_key'[t][j] \in OrmRow
    <3> HIDE DEF k, row
    <3> QED
      BY <2>7, <2>8 DEF ScanTypeOK
  <2>10. /\ raised' \in [Scans -> SUBSET Keys]
         /\ \A t \in Scans : raised'[t] \subseteq DOMAIN by_key'[t]
    <3>1. raised' = raised \/ raised' = [raised EXCEPT ![s] = @ \cup {k}]
      BY <1>4 DEF Collapse
    <3> HIDE DEF k, row
    <3>2. raised' \in [Scans -> SUBSET Keys]
      <4>1. raised \in [Scans -> SUBSET Keys]
        BY DEF ScanTypeOK
      <4>2. raised[s] \cup {k} \in SUBSET Keys
        BY <2>1, <4>1
      <4> QED
        BY <3>1, <4>1, <4>2
    <3>3. ASSUME NEW t \in Scans PROVE raised'[t] \subseteq DOMAIN by_key'[t]
      <4>1. raised[t] \subseteq DOMAIN by_key[t]
        BY DEF ScanTypeOK
      <4>2. DOMAIN by_key'[t] = DOMAIN by_key[t]
        BY <2>7
      <4>3. raised'[t] \subseteq raised[t] \cup (IF t = s THEN {k} ELSE {})
        BY <3>1 DEF ScanTypeOK
      <4> QED
        BY <2>1, <4>1, <4>2, <4>3
    <3> QED
      BY <3>2, <3>3
  <2>11. /\ appended' \in [Scans -> SUBSET FindingEvidenceRow]
         /\ next' \in [Scans -> Nat \ {0}]
    BY <1>4, <2>1, <2>5 DEF Collapse, ScanTypeOK
  <2>12. UNCHANGED <<storeVars, pc, captured, attempt, high_water, allocated>>
    BY <1>4 DEF Collapse
  <2> HIDE DEF k, row
  <2>13. StoreTypeOK'
    BY <2>12 DEF StoreTypeOK, storeVars
  <2> QED
    BY <2>7, <2>9, <2>10, <2>11, <2>12, <2>13 DEF ScanTypeOK
<1>5. ASSUME Create(s) PROVE StoreTypeOK' /\ ScanTypeOK'
  <2> DEFINE k == Draft(s).key
             o == [id |-> <<s, k>>, row |-> from_draft(s, allocated[s] + 1)]
  <2>1. HasDraft(s) /\ k \in Keys
    BY <1>5, DraftTyped DEF Create
  <2>2. o \in OrmRow
    BY <2>1, DraftTyped DEF OrmRow
  <2>3. /\ DOMAIN by_key' = Scans
        /\ \A t \in Scans : t # s => by_key'[t] = by_key[t]
        /\ DOMAIN by_key'[s] = DOMAIN by_key[s] \cup {k}
        /\ by_key'[s][k] = o
        /\ \A j \in DOMAIN by_key[s] : by_key'[s][j] = by_key[s][j]
    <3>1. k \notin DOMAIN by_key[s]
      BY <1>5 DEF Create
    <3>2. by_key' = [by_key EXCEPT ![s] =
            [j \in DOMAIN by_key[s] \cup {k} |-> IF j = k THEN o ELSE by_key[s][j]]]
      BY <1>5 DEF Create
    <3> HIDE DEF k, o
    <3> QED
      BY <3>1, <3>2 DEF ScanTypeOK
  <2>4. IsFiniteSet(DOMAIN by_key[s] \cup {k})
    BY FS_AddElement DEF ScanTypeOK
  <2>5. \A t \in Scans : /\ DOMAIN by_key'[t] \subseteq Keys
                         /\ IsFiniteSet(DOMAIN by_key'[t])
                         /\ raised[t] \subseteq DOMAIN by_key'[t]
                         /\ \A j \in DOMAIN by_key'[t] : by_key'[t][j] \in OrmRow
    <3> HIDE DEF k, o
    <3> SUFFICES ASSUME NEW t \in Scans
                 PROVE  /\ DOMAIN by_key'[t] \subseteq Keys
                        /\ IsFiniteSet(DOMAIN by_key'[t])
                        /\ raised[t] \subseteq DOMAIN by_key'[t]
                        /\ \A j \in DOMAIN by_key'[t] : by_key'[t][j] \in OrmRow
      OBVIOUS
    <3>1. /\ DOMAIN by_key[t] \subseteq Keys
          /\ IsFiniteSet(DOMAIN by_key[t])
          /\ raised[t] \subseteq DOMAIN by_key[t]
          /\ \A j \in DOMAIN by_key[t] : by_key[t][j] \in OrmRow
      BY DEF ScanTypeOK
    <3>2. CASE t = s
      BY <2>1, <2>2, <2>3, <2>4, <3>1, <3>2
    <3>3. CASE t # s
      BY <2>3, <3>1, <3>3
    <3> QED
      BY <3>2, <3>3
  <2>6. allocated' \in [Scans -> Nat] /\ next' \in [Scans -> Nat \ {0}]
    BY <1>5 DEF Create, ScanTypeOK
  <2>7. UNCHANGED <<storeVars, pc, captured, attempt, high_water, raised, appended>>
    BY <1>5 DEF Create
  <2> HIDE DEF k, o
  <2> QED
    BY <2>3, <2>5, <2>6, <2>7 DEF StoreTypeOK, ScanTypeOK, storeVars
<1>6. ASSUME Commit(s) PROVE StoreTypeOK' /\ ScanTypeOK'
  <2> DEFINE N == {<<s, k>> : k \in Created(s)}
  <2>1. Created(s) \subseteq Keys /\ Created(s) \subseteq DOMAIN by_key[s]
    BY DEF Created, ScanTypeOK
  <2>2. N \subseteq FindingIds
    BY <2>1 DEF FindingIds
  <2>3. IsFiniteSet(N)
    <3> DEFINE f == [k \in Created(s) |-> <<s, k>>]
    <3>1. IsFiniteSet(Created(s))
      BY <2>1, FS_Subset DEF ScanTypeOK
    <3>2. f \in Surjection(Created(s), N)
      BY DEF Surjection
    <3> HIDE DEF f, N
    <3> QED
      BY <3>1, <3>2, FS_Surjection
  <2>4. IsFiniteSet(DOMAIN findings \cup N)
    BY <2>3, FS_Union DEF StoreTypeOK
  <2>5. DOMAIN findings' = DOMAIN findings \cup N
    BY <1>6 DEF Commit, Written
  <2>6. \A k \in DOMAIN by_key[s] : by_key[s][k].row \in FindingRow
    BY DEF ScanTypeOK, OrmRow
  <2>7. ASSUME NEW i \in DOMAIN findings' PROVE findings'[i] \in FindingRow
    <3>1. CASE i \notin DOMAIN findings
      <4>1. PICK k \in Created(s) : i = <<s, k>>
        BY <2>5, <2>7, <3>1
      <4>2. findings'[i] = by_key[s][k].row
        BY <1>6, <2>5, <2>7, <3>1, <4>1 DEF Commit, Written
      <4> QED
        BY <2>1, <2>6, <4>2
    <3>2. CASE i \in DOMAIN findings
      <4> DEFINE k == findings[i].key
      <4>1. findings[i] \in FindingRow
        BY <3>2 DEF StoreTypeOK
      <4>2. CASE k \in raised[s] /\ by_key[s][k].id = i
        <5>1. k \in DOMAIN by_key[s]
          BY <4>2 DEF ScanTypeOK
        <5> QED
          BY <1>6, <2>6, <3>2, <4>1, <4>2, <5>1 DEF Commit, Written, FindingRow
      <4>3. CASE ~ (k \in raised[s] /\ by_key[s][k].id = i)
        BY <1>6, <3>2, <4>1, <4>3 DEF Commit, Written
      <4> QED
        BY <4>2, <4>3
    <3> QED
      BY <3>1, <3>2
  <2> HIDE DEF N
  <2>8. StoreTypeOK'
    BY <1>6, <2>2, <2>4, <2>5, <2>7 DEF Commit, Written, StoreTypeOK, ScanTypeOK
  <2>9. ScanTypeOK'
    BY <1>6 DEF Commit, Written, ScanTypeOK, Finished
  <2> QED
    BY <2>8, <2>9
<1>7. ASSUME Retry(s) PROVE StoreTypeOK' /\ ScanTypeOK'
  BY <1>7, AttemptsAssumption DEF Retry, StoreTypeOK, ScanTypeOK, storeVars, InFlight
<1>8. ASSUME GiveUp(s) PROVE StoreTypeOK' /\ ScanTypeOK'
  BY <1>8 DEF GiveUp, StoreTypeOK, ScanTypeOK, storeVars, Finished
<1>9. ASSUME Abort(s) PROVE StoreTypeOK' /\ ScanTypeOK'
  BY <1>9 DEF Abort, StoreTypeOK, ScanTypeOK, storeVars, Finished
<1> QED
  BY <1>1, <1>2, <1>3, <1>4, <1>5, <1>6, <1>7, <1>8, <1>9 DEF ScanStep

\* A pending transition, or toggle, carries what its commit writes.
LEMMA PendingTyped ==
  ASSUME TypeOK, NEW r \in Reviews
  PROVE  /\ review[r].op = "transition" =>
              /\ review[r].finding \in FindingIds
              /\ review[r].created_at \in Nat
              /\ review[r].current \in FindingStatus
              /\ review[r].to \in FindingStatus
         /\ review[r].op = "in_report" =>
              /\ review[r].finding \in FindingIds
              /\ review[r].created_at \in Nat
              /\ review[r].current \in FindingStatus
              /\ review[r].to \in BOOLEAN
<1>1. review[r] \in Review
  BY DEF TypeOK, ReviewTypeOK
<1>2. CASE review[r] = NoReview
  BY <1>2 DEF NoReview
<1>3. CASE review[r] \in [op : {"transition"}, finding : FindingIds, created_at : Nat,
                          current : FindingStatus, to : FindingStatus]
  BY <1>3
<1>4. CASE review[r] \in [op : {"in_report"}, finding : FindingIds, created_at : Nat,
                          current : FindingStatus, loaded : BOOLEAN, to : BOOLEAN]
  BY <1>4
<1> QED
  BY <1>1, <1>2, <1>3, <1>4 DEF Review

\* The clock is a number.
LEMMA NowTyped ==
  ASSUME TypeOK
  PROVE  _now \in Nat
<1>1. Len(events) \in Nat
  BY DEF TypeOK, StoreTypeOK
<1>2. Cardinality({r \in Reviews : review[r] # NoReview}) \in Nat
  BY ReviewsAssumption, FS_Subset, FS_CardinalityType
<1> QED
  BY <1>1, <1>2 DEF _now

\* Whatever a reviewer does next keeps the types.
LEMMA ReviewStepTyped ==
  ASSUME TypeOK, ReviewNext
  PROVE  StoreTypeOK' /\ ReviewTypeOK'
<1> USE DEF TypeOK
<1> PICK r \in Reviews :
       \/ \E i \in DOMAIN findings :
            \/ \E to \in FindingStatus : BeginTransition(r, i, to)
            \/ \E to \in BOOLEAN : BeginInReport(r, i, to)
       \/ CommitTransition(r)
       \/ CommitInReport(r)
       \/ AbortReview(r)
  BY DEF ReviewNext
<1>1. ASSUME NEW i \in DOMAIN findings, NEW to \in FindingStatus, BeginTransition(r, i, to)
      PROVE  StoreTypeOK' /\ ReviewTypeOK'
  <2>1. i \in FindingIds /\ findings[i].status \in FindingStatus
    BY DEF StoreTypeOK, FindingRow
  <2>2. [op |-> "transition", finding |-> i, created_at |-> _now,
         current |-> findings[i].status, to |-> to] \in Review
    BY <2>1, NowTyped DEF Review
  <2>3. ReviewTypeOK'
    BY <1>1, <2>2 DEF BeginTransition, ReviewTypeOK
  <2> QED
    BY <1>1, <2>3 DEF BeginTransition, StoreTypeOK, storeVars
<1>2. ASSUME NEW i \in DOMAIN findings, NEW to \in BOOLEAN, BeginInReport(r, i, to)
      PROVE  StoreTypeOK' /\ ReviewTypeOK'
  <2>1. i \in FindingIds /\ findings[i].status \in FindingStatus /\ findings[i].in_report \in BOOLEAN
    BY DEF StoreTypeOK, FindingRow
  <2>2. [op |-> "in_report", finding |-> i, created_at |-> _now, current |-> findings[i].status,
         loaded |-> findings[i].in_report, to |-> to] \in Review
    BY <2>1, NowTyped DEF Review
  <2>3. ReviewTypeOK'
    BY <1>2, <2>2 DEF BeginInReport, ReviewTypeOK
  <2> QED
    BY <1>2, <2>3 DEF BeginInReport, StoreTypeOK, storeVars
<1>3. NoReview \in Review
  BY DEF Review
<1>4. ASSUME CommitTransition(r) PROVE StoreTypeOK' /\ ReviewTypeOK'
  <2> DEFINE q == review[r]
             event == [type |-> "status_change", finding |-> q.finding, created_at |-> q.created_at,
                       from |-> q.current, to |-> q.to]
  <2>1. event \in FindingEventRow
    BY <1>4, PendingTyped DEF CommitTransition, FindingEventRow
  <2>2. events' \in Seq(FindingEventRow)
    BY <1>4, <2>1 DEF CommitTransition, StoreTypeOK
  <2>3. \A i \in DOMAIN findings : findings[i] \in FindingRow
    BY DEF StoreTypeOK
  <2>4. q.to \in FindingStatus
    BY <1>4, PendingTyped DEF CommitTransition
  <2>5. DOMAIN findings' = DOMAIN findings
    BY <1>4 DEF CommitTransition
  <2>6. ASSUME NEW i \in DOMAIN findings PROVE findings'[i] \in FindingRow
    BY <1>4, <2>3, <2>4, ZenonT(40) DEF CommitTransition, FindingRow
  <2>7. ReviewTypeOK'
    BY <1>3, <1>4 DEF CommitTransition, ReviewTypeOK
  <2> QED
    BY <1>4, <2>2, <2>5, <2>6, <2>7 DEF CommitTransition, StoreTypeOK
<1>5. ASSUME CommitInReport(r) PROVE StoreTypeOK' /\ ReviewTypeOK'
  <2> DEFINE q == review[r]
             event == [type |-> "in_report_toggle", finding |-> q.finding, created_at |-> q.created_at,
                       from |-> q.current, in_report |-> q.to]
  <2>1. event \in FindingEventRow
    BY <1>5, PendingTyped DEF CommitInReport, FindingEventRow
  <2>2. events' \in Seq(FindingEventRow)
    BY <1>5, <2>1 DEF CommitInReport, StoreTypeOK
  <2>3. \A i \in DOMAIN findings : findings[i] \in FindingRow
    BY DEF StoreTypeOK
  <2>4. q.to \in BOOLEAN
    BY <1>5, PendingTyped DEF CommitInReport
  <2>5. DOMAIN findings' = DOMAIN findings
    BY <1>5 DEF CommitInReport
  <2>6. ASSUME NEW i \in DOMAIN findings PROVE findings'[i] \in FindingRow
    BY <1>5, <2>3, <2>4 DEF CommitInReport, FindingRow
  <2>7. ReviewTypeOK'
    BY <1>3, <1>5 DEF CommitInReport, ReviewTypeOK
  <2> QED
    BY <1>5, <2>2, <2>5, <2>6, <2>7 DEF CommitInReport, StoreTypeOK
<1>6. ASSUME AbortReview(r) PROVE StoreTypeOK' /\ ReviewTypeOK'
  BY <1>3, <1>6 DEF AbortReview, ReviewTypeOK, StoreTypeOK, storeVars
<1> QED
  BY <1>1, <1>2, <1>4, <1>5, <1>6

\* One step of any request keeps the types.
LEMMA NextTyped == TypeOK /\ [Next]_vars => TypeOK'
<1> SUFFICES ASSUME TypeOK, [Next]_vars PROVE TypeOK'
  OBVIOUS
<1>1. CASE ScanNext /\ UNCHANGED review
  <2>1. StoreTypeOK' /\ ScanTypeOK'
    BY <1>1, ScanStepTyped DEF ScanNext
  <2>2. ReviewTypeOK'
    BY <1>1 DEF TypeOK, ReviewTypeOK
  <2> QED
    BY <2>1, <2>2 DEF TypeOK
<1>2. CASE ReviewNext /\ UNCHANGED scanVars
  <2>1. StoreTypeOK' /\ ReviewTypeOK'
    BY <1>2, ReviewStepTyped
  <2>2. ScanTypeOK'
    BY <1>2 DEF TypeOK, ScanTypeOK, scanVars
  <2> QED
    BY <2>1, <2>2 DEF TypeOK
<1>3. CASE UNCHANGED vars
  <2>1. StoreTypeOK'
    BY <1>3 DEF TypeOK, StoreTypeOK, vars, storeVars
  <2>2. ScanTypeOK' /\ ReviewTypeOK'
    BY <1>3 DEF TypeOK, ScanTypeOK, ReviewTypeOK, vars, scanVars
  <2> QED
    BY <2>1, <2>2 DEF TypeOK
<1> QED
  BY <1>1, <1>2, <1>3 DEF Next

\* Type correctness: the tables hold well-formed rows, every session holds
\* well-formed rows of its own, for any number of requests.
THEOREM Typing == Spec => []TypeOK
<1>1. Init => TypeOK
  BY InitTyped
<1>2. TypeOK /\ [Next]_vars => TypeOK'
  BY NextTyped
<1> QED
  BY <1>1, <1>2, PTL DEF Spec

-----------------------------------------------------------------------------
(***************************************************************************)
(* Labels, keys and provenance.  The argument: a scan that created a row    *)
(* numbered one of them high_water + 1.  Labels in the table are dense, so  *)
(* if any finding was committed since the scan read, that label is taken    *)
(* and the unique constraint refuses the commit.  A commit that succeeds    *)
(* therefore either creates nothing or works on exactly the findings it     *)
(* read, and its labels and keys extend them.                              *)
(***************************************************************************)

\* A set numbered without repeats 1..n has n members.
LEMMA NumberedCardinality ==
  ASSUME NEW S, NEW n \in Nat, NEW f \in [S -> 1..n],
         \A x, y \in S : f[x] = f[y] => x = y,
         \A m \in 1..n : \E x \in S : f[x] = m
  PROVE  IsFiniteSet(S) /\ Cardinality(S) = n
<1>1. f \in Bijection(S, 1..n)
  BY DEF Bijection, Injection, Surjection, IsInjective
<1>2. ExistsBijection(S, 1..n)
  BY <1>1 DEF ExistsBijection
<1>3. ExistsBijection(1..n, S)
  BY <1>2, Fun_ExistsBijSymmetric
<1> QED
  BY <1>3, FS_CountingElements, FS_NatBijection

\* A read counts every finding once.
LEMMA ReadCount ==
  ASSUME StoreTypeOK, OneFindingPerKey
  PROVE  Cardinality(DOMAIN existing_findings_by_key) = FindingCount
<1> DEFINE K == DOMAIN existing_findings_by_key
           f == [i \in DOMAIN findings |-> findings[i].key]
<1>1. K = {findings[i].key : i \in DOMAIN findings}
  BY DEF existing_findings_by_key
<1>2. f \in Bijection(DOMAIN findings, K)
  BY <1>1 DEF Bijection, Injection, Surjection, IsInjective, OneFindingPerKey
<1>3. ExistsBijection(DOMAIN findings, K)
  BY <1>2 DEF ExistsBijection
<1>4. IsFiniteSet(DOMAIN findings)
  BY DEF StoreTypeOK
<1> HIDE DEF K, f
<1>5. Cardinality(K) = Cardinality(DOMAIN findings)
  BY <1>3, <1>4, FS_Bijection
<1> QED
  BY <1>5 DEF FindingCount, K

\* The number of findings is a natural number.
LEMMA CountTyped ==
  ASSUME StoreTypeOK
  PROVE  FindingCount \in Nat
BY FS_CardinalityType DEF StoreTypeOK, FindingCount

\* A label in the table is one of 1..FindingCount, and each of those is used.
LEMMA LabelsInTable ==
  ASSUME DenseLabels
  PROVE  /\ \A i \in DOMAIN findings : findings[i].label \in 1..FindingCount
         /\ \A n \in 1..FindingCount : \E i \in DOMAIN findings : findings[i].label = n
BY DEF DenseLabels, FindingCount

\* No row in the table was created by a scan that has not committed.
LEMMA UncommittedHasNoRow ==
  ASSUME NothingOrphaned, RowsNamed, NEW s \in Scans, pc[s] # "done", NEW k
  PROVE  <<s, k>> \notin DOMAIN findings
<1> SUFFICES ASSUME <<s, k>> \in DOMAIN findings PROVE FALSE
  OBVIOUS
<1>1. findings[<<s, k>>].scan = s
  BY DEF RowsNamed
<1>2. s \in scans
  BY <1>1 DEF NothingOrphaned
<1> QED
  BY <1>2 DEF RowsNamed

\* The invariant holds of empty tables.
LEMMA InitIndInv == Init => IndInv
<1> SUFFICES ASSUME Init PROVE IndInv
  OBVIOUS
<1>1. TypeOK
  BY InitTyped
<1>2. DOMAIN findings = {} /\ evidence = {} /\ events = <<>> /\ scans = {}
  BY DEF Init, StoreInit
<1>3. OneFindingPerKey /\ NothingOrphaned /\ RowsNamed
  BY <1>2 DEF OneFindingPerKey, NothingOrphaned, RowsNamed
<1>4. DenseLabels
  <2>1. Cardinality(DOMAIN findings) = 0
    BY <1>2, FS_EmptySet
  <2> QED
    BY <1>2, <2>1 DEF DenseLabels
<1>5. SessionInv
  BY DEF Init, ScanInit, SessionInv
<1>6. ReviewsNamed
  BY DEF Init, ReviewInit, ReviewsNamed
<1> QED
  BY <1>1, <1>3, <1>4, <1>5, <1>6 DEF IndInv

\* A session is not disturbed by a step that changes neither it nor the
\* keys, labels and number of the findings it read.
LEMMA SessionUndisturbed ==
  ASSUME NEW s \in Scans, SessionOK(s),
         UNCHANGED <<by_key[s], high_water[s], allocated[s], appended[s]>>,
         DOMAIN findings' = DOMAIN findings,
         \A i \in DOMAIN findings : /\ findings'[i].key = findings[i].key
                                    /\ findings'[i].label = findings[i].label
  PROVE  SessionOK(s)'
<1>1. Created(s)' = Created(s)
  BY DEF Created
<1>2. SnapshotAgrees(s)'
  <2>1. FindingCount' = FindingCount
    BY DEF FindingCount
  <2> QED
    BY <1>1, <2>1 DEF SessionOK, SnapshotAgrees
<1>3. CreatedNumbered(s)'
  BY <1>1 DEF SessionOK, CreatedNumbered
<1>4. AppendedNamed(s)'
  BY <1>1 DEF SessionOK, AppendedNamed
<1> QED
  BY <1>2, <1>3, <1>4 DEF SessionOK

\* What a scan holds right after its read agrees with the table.
LEMMA ReadEstablishes ==
  ASSUME IndInv, NEW s \in Scans, ReadFindings(s)
  PROVE  SessionOK(s)'
<1> USE DEF IndInv
<1> DEFINE E == existing_findings_by_key
<1>1. /\ by_key'[s] = E
      /\ high_water'[s] = FindingCount
      /\ allocated'[s] = FindingCount
      /\ appended'[s] = {}
      /\ findings' = findings
  BY ReadCount DEF ReadFindings, TypeOK, ScanTypeOK, storeVars
<1>2. FindingCount \in Nat /\ FindingCount' = FindingCount
  BY <1>1, CountTyped DEF TypeOK, FindingCount
<1>3. pc[s] # "done"
  BY DEF ReadFindings
<1>4. \A k \in DOMAIN E : E[k].id # <<s, k>>
  <2> SUFFICES ASSUME NEW k \in DOMAIN E PROVE E[k].id # <<s, k>>
    OBVIOUS
  <2>1. E[k].id \in DOMAIN findings
    BY ReadIndexesFindings
  <2>2. <<s, k>> \notin DOMAIN findings
    BY <1>3, UncommittedHasNoRow
  <2> QED
    BY <2>1, <2>2
<1>5. Created(s)' = {}
  BY <1>1, <1>4 DEF Created
<1>6. SnapshotAgrees(s)'
  <2>1. ASSUME NEW k \in DOMAIN E
        PROVE  /\ E[k].row.key = k
               /\ E[k].id \in DOMAIN findings
               /\ findings[E[k].id].key = k
               /\ findings[E[k].id].label = E[k].row.label
               /\ E[k].row.label <= FindingCount
    <3>1. findings[E[k].id].label \in 1..FindingCount
      BY ReadIndexesFindings, LabelsInTable
    <3> QED
      BY <1>2, <3>1, ReadIndexesFindings
  <2>2. \A i \in DOMAIN findings : findings[i].key \in DOMAIN E
    BY ReadIsComplete
  <2> HIDE DEF E
  <2> QED
    BY <1>1, <1>2, <1>5, <2>1, <2>2 DEF SnapshotAgrees
<1>7. CreatedNumbered(s)'
  BY <1>1, <1>2, <1>5 DEF CreatedNumbered
<1>8. AppendedNamed(s)'
  BY <1>1 DEF AppendedNamed
<1> QED
  BY <1>6, <1>7, <1>8 DEF SessionOK

\* Collapsing a draft changes a severity and adds one evidence row.
LEMMA CollapseKeeps ==
  ASSUME TypeOK, NEW s \in Scans, SessionOK(s), Collapse(s)
  PROVE  SessionOK(s)'
<1> DEFINE k   == Draft(s).key
           row == keep_worst_severity(by_key[s][k].row, Draft(s))
           e   == [finding |-> by_key[s][k].id, scan |-> s, draft |-> next[s]]
<1>1. k \in DOMAIN by_key[s]
  BY DEF Collapse
<1>2. /\ row.key = by_key[s][k].row.key
      /\ row.label = by_key[s][k].row.label
      /\ row.scan = by_key[s][k].row.scan
      /\ row.status = by_key[s][k].row.status
  <2>1. by_key[s][k].row \in FindingRow
    BY <1>1 DEF TypeOK, ScanTypeOK, OrmRow
  <2> QED
    BY <2>1 DEF keep_worst_severity, FindingRow
<1>3. by_key[s][k] \in OrmRow
  BY <1>1 DEF TypeOK, ScanTypeOK
<1>4. by_key' = [by_key EXCEPT ![s][k].row = row]
  BY DEF Collapse
<1>5. appended'[s] = appended[s] \cup {e}
  BY DEF Collapse, TypeOK, ScanTypeOK
<1>6. UNCHANGED <<findings, high_water, allocated>>
  BY DEF Collapse, storeVars
<1>7. e.finding = by_key[s][k].id /\ e.scan = s
  OBVIOUS
<1> HIDE DEF k, row, e
<1>8. /\ DOMAIN by_key'[s] = DOMAIN by_key[s]
      /\ \A j \in DOMAIN by_key[s] :
            /\ by_key'[s][j].id = by_key[s][j].id
            /\ by_key'[s][j].row.key = by_key[s][j].row.key
            /\ by_key'[s][j].row.label = by_key[s][j].row.label
            /\ by_key'[s][j].row.scan = by_key[s][j].row.scan
            /\ by_key'[s][j].row.status = by_key[s][j].row.status
  BY <1>1, <1>2, <1>3, <1>4 DEF TypeOK, ScanTypeOK, OrmRow
<1>9. Created(s)' = Created(s)
  BY <1>8 DEF Created
<1>10. SnapshotAgrees(s)'
  BY <1>6, <1>8, <1>9 DEF SessionOK, SnapshotAgrees, FindingCount
<1>11. CreatedNumbered(s)'
  <2>1. Created(s) \subseteq DOMAIN by_key[s]
    BY DEF Created
  <2>2. \A j \in Created(s) : /\ by_key'[s][j].row.label = by_key[s][j].row.label
                              /\ by_key'[s][j].row.scan = by_key[s][j].row.scan
                              /\ by_key'[s][j].row.status = by_key[s][j].row.status
            /\ by_key'[s][j].row.status = by_key[s][j].row.status
    BY <1>8, <2>1
  <2>3. CreatedNumbered(s)
    BY DEF SessionOK
  <2> QED
    BY <1>6, <1>9, <2>2, <2>3 DEF CreatedNumbered
<1>12. AppendedNamed(s)'
  <2>1. e.finding \in DOMAIN findings \cup {<<s, j>> : j \in Created(s)}
    <3>1. CASE by_key[s][k].id = <<s, k>>
      <4>1. k \in Created(s)
        BY <1>1, <3>1 DEF Created
      <4> QED
        BY <1>7, <3>1, <4>1
    <3>2. CASE by_key[s][k].id # <<s, k>>
      BY <1>1, <1>7, <3>2 DEF SessionOK, SnapshotAgrees
    <3> QED
      BY <3>1, <3>2
  <2> QED
    BY <1>5, <1>6, <1>7, <1>9, <2>1 DEF SessionOK, AppendedNamed
<1> QED
  BY <1>10, <1>11, <1>12 DEF SessionOK

\* Creating a row numbers it with the next label.
LEMMA CreateKeeps ==
  ASSUME TypeOK, NEW s \in Scans, SessionOK(s), Create(s)
  PROVE  SessionOK(s)'
<1> DEFINE k == Draft(s).key
           o == [id |-> <<s, k>>, row |-> from_draft(s, allocated[s] + 1)]
<1>1. k \notin DOMAIN by_key[s]
  BY DEF Create
<1>2. /\ o.id = <<s, k>>
      /\ o.row.key = k
      /\ o.row.scan = s
      /\ o.row.label = allocated[s] + 1
      /\ o.row.status = "new"
  BY DEF from_draft
<1>3. by_key' = [by_key EXCEPT ![s] =
         [j \in DOMAIN by_key[s] \cup {k} |-> IF j = k THEN o ELSE by_key[s][j]]]
  BY DEF Create
<1>4. /\ UNCHANGED <<findings, high_water, appended>>
      /\ allocated'[s] = allocated[s] + 1
      /\ allocated[s] \in Nat
      /\ high_water[s] \in Nat
  BY DEF Create, storeVars, TypeOK, ScanTypeOK
<1> HIDE DEF k, o
<1>5. /\ DOMAIN by_key'[s] = DOMAIN by_key[s] \cup {k}
      /\ by_key'[s][k] = o
      /\ \A j \in DOMAIN by_key[s] : by_key'[s][j] = by_key[s][j]
  BY <1>1, <1>3 DEF TypeOK, ScanTypeOK
<1>6. Created(s)' = Created(s) \cup {k}
  BY <1>1, <1>2, <1>5 DEF Created
<1>7. SnapshotAgrees(s)'
  BY <1>1, <1>2, <1>4, <1>5, <1>6 DEF SessionOK, SnapshotAgrees, FindingCount
<1>8. CreatedNumbered(s)'
  <2>1. Created(s) \subseteq DOMAIN by_key[s]
    BY DEF Created
  <2>2. \A j \in Created(s) : by_key'[s][j].row = by_key[s][j].row
    BY <1>5, <2>1
  <2>3. /\ by_key'[s][k].row.label = allocated'[s]
        /\ by_key'[s][k].row.scan = s
        /\ by_key'[s][k].row.status = "new"
    BY <1>2, <1>4, <1>5
  <2>4. CreatedNumbered(s)
    BY DEF SessionOK
  <2> QED
    BY <1>4, <1>6, <2>2, <2>3, <2>4, SMTT(30) DEF CreatedNumbered
<1>9. AppendedNamed(s)'
  BY <1>4, <1>6 DEF SessionOK, AppendedNamed
<1> QED
  BY <1>7, <1>8, <1>9 DEF SessionOK

\* What a commit leaves in the finding table.
LEMMA CommitResult ==
  ASSUME IndInv, NEW s \in Scans, Commit(s)
  PROVE  /\ DOMAIN findings' = DOMAIN findings \cup {<<s, k>> : k \in Created(s)}
         /\ \A i \in DOMAIN findings :
              \A c \in {"key", "label", "scan", "draft", "status", "in_report", "regression_intent"} :
                 findings'[i][c] = findings[i][c]
         /\ \A k \in Created(s) : /\ <<s, k>> \notin DOMAIN findings
                                  /\ findings'[<<s, k>>] = by_key[s][k].row
<1>1. pc[s] = "drafts"
  BY DEF Commit, Written, AtCommit
<1>2. DOMAIN findings' = DOMAIN findings \cup {<<s, k>> : k \in Created(s)}
  BY DEF Commit, Written
<1>3. ASSUME NEW i \in DOMAIN findings
      PROVE  \A c \in {"key", "label", "scan", "draft", "status", "in_report", "regression_intent"} :
                findings'[i][c] = findings[i][c]
  <2>1. findings[i] \in FindingRow
    BY DEF IndInv, TypeOK, StoreTypeOK
  <2>2. \/ findings'[i] = findings[i]
        \/ \E v : findings'[i] = [findings[i] EXCEPT !.severity = v]
    BY DEF Commit, Written
  <2> QED
    BY <2>1, <2>2 DEF FindingRow
<1>4. ASSUME NEW k \in Created(s)
      PROVE  <<s, k>> \notin DOMAIN findings /\ findings'[<<s, k>>] = by_key[s][k].row
  <2>1. <<s, k>> \notin DOMAIN findings
    BY <1>1, UncommittedHasNoRow DEF IndInv
  <2>2. findings' =
          [i \in DOMAIN findings \cup {<<s, j>> : j \in Created(s)} |->
             IF i \notin DOMAIN findings THEN by_key[s][i[2]].row
             ELSE IF findings[i].key \in raised[s] /\ by_key[s][findings[i].key].id = i
             THEN [findings[i] EXCEPT !.severity = by_key[s][findings[i].key].row.severity]
             ELSE findings[i]]
    BY DEF Commit, Written
  <2>3. <<s, k>> \in {<<s, j>> : j \in Created(s)} /\ <<s, k>>[2] = k
    OBVIOUS
  <2> QED
    BY <2>1, <2>2, <2>3
<1> QED
  BY <1>2, <1>3, <1>4

\* A commit that creates rows works on exactly the findings it read.
LEMMA NothingIntervened ==
  ASSUME IndInv, NEW s \in Scans, Commit(s), Created(s) # {}
  PROVE  high_water[s] = FindingCount
<1>1. SnapshotAgrees(s) /\ CreatedNumbered(s)
  BY DEF IndInv, SessionInv, SessionOK, Commit, Written, AtCommit
<1>2. FindingCount \in Nat /\ high_water[s] \in Nat /\ allocated[s] \in Nat
  BY CountTyped DEF IndInv, TypeOK, ScanTypeOK
<1>3. high_water[s] <= FindingCount
  BY <1>1 DEF SnapshotAgrees
<1>4. high_water[s] + 1 \in high_water[s]+1..allocated[s]
  BY <1>1, <1>2 DEF CreatedNumbered
<1>5. PICK k \in Created(s) : by_key[s][k].row.label = high_water[s] + 1
  BY <1>1, <1>4 DEF CreatedNumbered
<1>6. ASSUME high_water[s] < FindingCount PROVE FALSE
  <2>1. high_water[s] + 1 \in 1..FindingCount
    BY <1>2, <1>6
  <2>2. \E i \in DOMAIN findings : findings[i].label = high_water[s] + 1
    BY <2>1, LabelsInTable DEF IndInv
  <2>3. LabelTaken(s)
    BY <1>5, <2>2 DEF LabelTaken
  <2> QED
    BY <2>3 DEF Commit, Written, IntegrityError
<1> QED
  BY <1>2, <1>3, <1>6

\* The new keys are new, the new labels continue the old ones.
LEMMA CommitExtends ==
  ASSUME IndInv, NEW s \in Scans, Commit(s)
  PROVE  /\ OneFindingPerKey'
         /\ DenseLabels'
         /\ FindingCount <= FindingCount'
         /\ \A k \in Created(s) : findings'[<<s, k>>].label > FindingCount
<1> DEFINE C   == Created(s)
           new == {<<s, k>> : k \in C}
<1>1. SnapshotAgrees(s) /\ CreatedNumbered(s)
  BY DEF IndInv, SessionInv, SessionOK, Commit, Written, AtCommit
<1>2. FindingCount \in Nat /\ high_water[s] \in Nat /\ allocated[s] \in Nat
  BY CountTyped DEF IndInv, TypeOK, ScanTypeOK
<1>3. /\ DOMAIN findings' = DOMAIN findings \cup new
      /\ \A i \in DOMAIN findings : /\ findings'[i].key = findings[i].key
                                    /\ findings'[i].label = findings[i].label
  BY CommitResult
<1>4. \A k \in C : /\ findings'[<<s, k>>].key = k
                   /\ findings'[<<s, k>>].label = by_key[s][k].row.label
                   /\ k \in DOMAIN by_key[s]
  BY <1>1, CommitResult DEF SnapshotAgrees, Created
<1>5. \A i \in DOMAIN findings : findings[i].label \in 1..FindingCount
  BY LabelsInTable DEF IndInv
<1>6. \A k \in C : /\ high_water[s] = FindingCount
                   /\ findings'[<<s, k>>].label \in FindingCount+1..allocated[s]
  BY <1>1, <1>4, NothingIntervened DEF CreatedNumbered
<1>7. \A i \in DOMAIN findings, k \in C : findings[i].key # k
  <2> SUFFICES ASSUME NEW i \in DOMAIN findings, NEW k \in C PROVE findings[i].key # k
    OBVIOUS
  <2>1. findings[i].label <= high_water[s]
    <3>1. findings[i].label \in 1..FindingCount
      BY <1>5
    <3>2. high_water[s] = FindingCount
      BY <1>6
    <3> QED
      BY <1>2, <3>1, <3>2
  <2>2. findings[i].key \in DOMAIN by_key[s] \ C
    BY <1>1, <2>1 DEF SnapshotAgrees
  <2> QED
    BY <2>2
<1>8. OneFindingPerKey'
  <2>1. \A i, j \in DOMAIN findings : findings[i].key = findings[j].key => i = j
    BY DEF IndInv, OneFindingPerKey
  <2> QED
    BY <1>3, <1>4, <1>7, <2>1 DEF OneFindingPerKey
<1>9. \A i, j \in DOMAIN findings' : findings'[i].label = findings'[j].label => i = j
  <2>1. \A i, j \in DOMAIN findings : findings[i].label = findings[j].label => i = j
    BY DEF IndInv, DenseLabels
  <2>2. \A j, k \in C : findings'[<<s, j>>].label = findings'[<<s, k>>].label => j = k
    BY <1>1, <1>4 DEF CreatedNumbered
  <2>3. \A i \in DOMAIN findings, k \in C : findings'[i].label # findings'[<<s, k>>].label
    BY <1>2, <1>3, <1>5, <1>6
  <2> QED
    BY <1>3, <2>1, <2>2, <2>3
<1>10. \E n \in Nat : /\ FindingCount <= n
                      /\ \A i \in DOMAIN findings' : findings'[i].label \in 1..n
                      /\ \A m \in 1..n : \E i \in DOMAIN findings' : findings'[i].label = m
  <2>1. \A m \in 1..FindingCount : \E i \in DOMAIN findings : findings[i].label = m
    BY LabelsInTable DEF IndInv
  <2>2. CASE C = {}
    <3>1. DOMAIN findings' = DOMAIN findings
      BY <1>3, <2>2
    <3> QED
      BY <1>2, <1>3, <1>5, <2>1, <3>1
  <2>3. CASE C # {}
    <3>1. high_water[s] = FindingCount /\ FindingCount <= allocated[s]
      BY <1>1, <1>6, <2>3 DEF CreatedNumbered
    <3>2. \A i \in DOMAIN findings' : findings'[i].label \in 1..allocated[s]
      BY <1>2, <1>3, <1>5, <1>6, <3>1
    <3>3. ASSUME NEW m \in 1..allocated[s]
          PROVE  \E i \in DOMAIN findings' : findings'[i].label = m
      <4>1. CASE m \in 1..FindingCount
        BY <1>3, <2>1, <4>1
      <4>2. CASE m \in FindingCount+1..allocated[s]
        <5>1. PICK k \in C : by_key[s][k].row.label = m
          BY <1>1, <3>1, <4>2 DEF CreatedNumbered
        <5> QED
          BY <1>3, <1>4, <5>1
      <4> QED
        BY <1>2, <4>1, <4>2
    <3> QED
      BY <1>2, <3>1, <3>2, <3>3
  <2> QED
    BY <2>2, <2>3
<1>11. PICK n \in Nat : /\ FindingCount <= n
                        /\ \A i \in DOMAIN findings' : findings'[i].label \in 1..n
                        /\ \A m \in 1..n : \E i \in DOMAIN findings' : findings'[i].label = m
  BY <1>10
<1>12. Cardinality(DOMAIN findings') = n
  <2> DEFINE S == DOMAIN findings'
             f == [i \in S |-> findings'[i].label]
  <2>1. f \in [S -> 1..n]
    BY <1>11
  <2>2. \A x, y \in S : f[x] = f[y] => x = y
    BY <1>9
  <2>3. \A m \in 1..n : \E x \in S : f[x] = m
    BY <1>11
  <2> HIDE DEF S, f
  <2>4. Cardinality(S) = n
    BY <2>1, <2>2, <2>3, NumberedCardinality
  <2> QED
    BY <2>4 DEF S
<1>13. DenseLabels'
  <2>1. {findings'[i].label : i \in DOMAIN findings'} = 1..n
    BY <1>11
  <2> QED
    BY <1>9, <1>12, <2>1 DEF DenseLabels
<1>14. FindingCount <= FindingCount'
  BY <1>11, <1>12 DEF FindingCount
<1>15. \A k \in C : findings'[<<s, k>>].label > FindingCount
  BY <1>2, <1>6
<1> QED
  BY <1>8, <1>13, <1>14, <1>15

\* A commit keeps the invariant: the labels it adds continue the table's, and
\* the other sessions still agree with what they read.
LEMMA CommitKeeps ==
  ASSUME IndInv, TypeOK', NEW s \in Scans, Commit(s), UNCHANGED review
  PROVE  IndInv'
<1> DEFINE new == {<<s, k>> : k \in Created(s)}
<1>1. OneFindingPerKey' /\ DenseLabels' /\ FindingCount <= FindingCount'
  BY CommitExtends
<1>2. /\ DOMAIN findings' = DOMAIN findings \cup new
      /\ \A i \in DOMAIN findings : /\ findings'[i].key = findings[i].key
                                    /\ findings'[i].label = findings[i].label
                                    /\ findings'[i].scan = findings[i].scan
      /\ \A k \in Created(s) : findings'[<<s, k>>] = by_key[s][k].row
  BY CommitResult
<1>3. SessionOK(s)
  BY DEF IndInv, SessionInv, Commit, Written, AtCommit
<1>4. \A k \in Created(s) : by_key[s][k].row.scan = s /\ by_key[s][k].row.key = k
  BY <1>3 DEF SessionOK, CreatedNumbered, SnapshotAgrees, Created
<1>5. /\ scans' = scans \cup {s}
      /\ evidence' = evidence \cup appended[s]
      /\ events' = events
      /\ pc' = [pc EXCEPT ![s] = "done"]
      /\ UNCHANGED <<by_key, high_water, allocated, appended>>
  BY DEF Commit, Written
<1>6. NothingOrphaned'
  <2>1. \A i \in DOMAIN findings' : findings'[i].scan \in scans'
    BY <1>2, <1>4, <1>5 DEF IndInv, NothingOrphaned
  <2>2. \A e \in appended[s] : e.scan = s /\ e.finding \in DOMAIN findings'
    BY <1>2, <1>3 DEF SessionOK, AppendedNamed
  <2>3. \A e \in evidence' : e.scan \in scans' /\ e.finding \in DOMAIN findings'
    BY <1>2, <1>5, <2>2 DEF IndInv, NothingOrphaned
  <2>4. \A n \in DOMAIN events' : events'[n].finding \in DOMAIN findings'
    BY <1>2, <1>5 DEF IndInv, NothingOrphaned
  <2> QED
    BY <2>1, <2>3, <2>4 DEF NothingOrphaned
<1>7. RowsNamed'
  <2>1. \A k \in Created(s) : <<s, k>>[1] = s /\ <<s, k>>[2] = k
    OBVIOUS
  <2>2. \A i \in DOMAIN findings' : findings'[i].scan = i[1] /\ findings'[i].key = i[2]
    BY <1>2, <1>4, <2>1 DEF IndInv, RowsNamed
  <2>3. \A t \in scans' : pc'[t] = "done"
    BY <1>5 DEF IndInv, RowsNamed, TypeOK, StoreTypeOK, ScanTypeOK
  <2> QED
    BY <2>2, <2>3 DEF RowsNamed
<1>8. SessionInv'
  <2> SUFFICES ASSUME NEW t \in Scans, pc'[t] = "drafts" PROVE SessionOK(t)'
    BY DEF SessionInv
  <2>1. t # s /\ pc[t] = "drafts"
    BY <1>5 DEF IndInv, TypeOK, ScanTypeOK
  <2>2. SessionOK(t)
    BY <2>1 DEF IndInv, SessionInv
  <2>3. Created(t)' = Created(t)
    BY <1>5 DEF Created
  <2>4. FindingCount \in Nat /\ high_water[t] \in Nat
    BY CountTyped DEF IndInv, TypeOK, ScanTypeOK
  <2>5. FindingCount' \in Nat
    BY FS_CardinalityType DEF TypeOK, StoreTypeOK, FindingCount
  <2>6. SnapshotAgrees(t)'
    <3>1. high_water[t] <= FindingCount
      BY <2>2 DEF SessionOK, SnapshotAgrees
    <3>2. ASSUME NEW i \in DOMAIN findings', findings'[i].label <= high_water[t]
          PROVE  i \in DOMAIN findings
      <4>1. ASSUME NEW k \in Created(s), i = <<s, k>> PROVE FALSE
        <5>1. findings'[i].label > FindingCount
          BY <4>1, CommitExtends
        <5>2. findings'[i].label \in Nat
          BY DEF TypeOK, StoreTypeOK, FindingRow
        <5> QED
          BY <2>4, <3>1, <3>2, <5>1, <5>2
      <4> QED
        BY <1>2, <4>1
    <3>3. \A i \in DOMAIN findings' : findings'[i].label <= high_water[t] =>
             findings'[i].key \in DOMAIN by_key[t] \ Created(t)
      BY <1>2, <2>2, <3>2 DEF SessionOK, SnapshotAgrees
    <3>4. high_water[t] <= FindingCount'
      BY <1>1, <2>4, <2>5, <3>1
    <3> QED
      BY <1>2, <1>5, <2>2, <2>3, <3>3, <3>4 DEF SessionOK, SnapshotAgrees
  <2>7. CreatedNumbered(t)'
    BY <1>5, <2>2, <2>3 DEF SessionOK, CreatedNumbered
  <2>8. AppendedNamed(t)'
    BY <1>2, <1>5, <2>2, <2>3 DEF SessionOK, AppendedNamed
  <2> QED
    BY <2>6, <2>7, <2>8 DEF SessionOK
<1>9. ReviewsNamed'
  BY <1>2 DEF IndInv, ReviewsNamed
<1> QED
  BY <1>1, <1>6, <1>7, <1>8, <1>9 DEF IndInv

\* A step of a scan that does not commit leaves the tables alone, and every
\* session but its own.
LEMMA ScanKeeps ==
  ASSUME IndInv, TypeOK', NEW s \in Scans, UNCHANGED review,
         ScanStep(s) \/ Abort(s) \/ \E c \in Captures : BeginPersist(s, c)
  PROVE  IndInv'
<1>1. CASE Commit(s)
  BY <1>1, CommitKeeps
<1>2. CASE ~ Commit(s)
  <2>1. UNCHANGED storeVars
    BY <1>2 DEF ScanStep, BeginPersist, ReadFindings, Suppress, Collapse, Create, Retry, GiveUp,
                Abort, storeVars
  <2>2. OneFindingPerKey' /\ NothingOrphaned'
    BY <2>1 DEF IndInv, OneFindingPerKey, NothingOrphaned, storeVars
  <2>3. DenseLabels'
    BY <2>1 DEF IndInv, DenseLabels, storeVars
  <2>4. ReviewsNamed'
    BY <2>1 DEF IndInv, ReviewsNamed, storeVars
  <2>5. pc[s] # "done" /\ \A t \in Scans : t # s => pc'[t] = pc[t]
    <3>1. /\ Scans = DOMAIN pc
          /\ pc[s] # "done"
          /\ pc' = pc \/ \E at \in {"read", "drafts", "failed", "aborted"} : pc' = [pc EXCEPT ![s] = at]
      BY <1>2 DEF ScanStep, BeginPersist, ReadFindings, Suppress, Collapse, Create, Retry, GiveUp,
                  Abort, HasDraft, AtCommit, InFlight, IndInv, TypeOK, ScanTypeOK
    <3> QED
      BY <3>1
  <2>6. RowsNamed'
    BY <2>1, <2>5 DEF IndInv, RowsNamed, TypeOK, StoreTypeOK, storeVars
  <2>7. ASSUME NEW t \in Scans, t # s, pc'[t] = "drafts" PROVE SessionOK(t)'
    <3>1. UNCHANGED <<by_key[t], high_water[t], allocated[t], appended[t]>>
      <4>1. /\ Scans = DOMAIN by_key /\ Scans = DOMAIN high_water
            /\ Scans = DOMAIN allocated /\ Scans = DOMAIN appended
        BY DEF IndInv, TypeOK, ScanTypeOK
      <4>2. CASE ReadFindings(s)
        BY <2>7, <4>1, <4>2 DEF ReadFindings
      <4>3. CASE Collapse(s)
        BY <2>7, <4>1, <4>3 DEF Collapse
      <4>4. CASE Create(s)
        BY <2>7, <4>1, <4>4 DEF Create
      <4>5. CASE UNCHANGED <<by_key, high_water, allocated, appended>>
        BY <4>5
      <4> QED
        BY <1>2, <4>2, <4>3, <4>4, <4>5
           DEF ScanStep, BeginPersist, Suppress, Retry, GiveUp, Abort
    <3>2. SessionOK(t)
      BY <2>5, <2>7 DEF IndInv, SessionInv
    <3>3. findings' = findings
      BY <2>1 DEF storeVars
    <3> QED
      BY <3>1, <3>2, <3>3, SessionUndisturbed
  <2>8. ASSUME pc'[s] = "drafts" PROVE SessionOK(s)'
    <3>1. \/ ReadFindings(s)
          \/ Suppress(s)
          \/ Collapse(s)
          \/ Create(s)
      BY <1>2, <2>8 DEF ScanStep, BeginPersist, Retry, GiveUp, Abort, IndInv, TypeOK, ScanTypeOK
    <3>2. CASE ReadFindings(s)
      BY <3>2, ReadEstablishes
    <3>3. CASE ~ ReadFindings(s)
      <4>1. SessionOK(s)
        BY <3>1, <3>3 DEF IndInv, SessionInv, Suppress, Collapse, Create, HasDraft
      <4>2. CASE Suppress(s)
        <5>1. UNCHANGED <<findings, by_key[s], high_water[s], allocated[s], appended[s]>>
          BY <4>2 DEF Suppress, storeVars
        <5> QED
          BY <4>1, <5>1, SessionUndisturbed
      <4>3. CASE Collapse(s)
        BY <4>1, <4>3, CollapseKeeps DEF IndInv
      <4>4. CASE Create(s)
        BY <4>1, <4>4, CreateKeeps DEF IndInv
      <4> QED
        BY <3>1, <3>3, <4>2, <4>3, <4>4
    <3> QED
      BY <3>2, <3>3
  <2>9. SessionInv'
    BY <2>7, <2>8 DEF SessionInv
  <2> QED
    BY <2>2, <2>3, <2>4, <2>6, <2>9 DEF IndInv
<1> QED
  BY <1>1, <1>2

\* What a review step does to the tables: rows keep everything but their
\* status and flags, and an event is added for a row that is there.
LEMMA ReviewResult ==
  ASSUME TypeOK, ReviewsNamed, ReviewNext
  PROVE  /\ DOMAIN findings' = DOMAIN findings
         /\ \A i \in DOMAIN findings :
              \A c \in {"key", "label", "scan", "draft", "severity"} :
                 findings'[i][c] = findings[i][c]
         /\ UNCHANGED <<evidence, scans>>
         /\ \/ events' = events
            \/ \E e \in FindingEventRow : e.finding \in DOMAIN findings /\ events' = Append(events, e)
         /\ ReviewsNamed'
<1> PICK r \in Reviews :
       \/ \E i \in DOMAIN findings :
            \/ \E to \in FindingStatus : BeginTransition(r, i, to)
            \/ \E to \in BOOLEAN : BeginInReport(r, i, to)
       \/ CommitTransition(r)
       \/ CommitInReport(r)
       \/ AbortReview(r)
  BY DEF ReviewNext
<1>1. \A i \in DOMAIN findings : findings[i] \in FindingRow
  BY DEF TypeOK, StoreTypeOK
<1>2. \A t \in Reviews : t # r => review'[t] = review[t]
  BY DEF BeginTransition, BeginInReport, CommitTransition, CommitInReport, AbortReview,
         TypeOK, ReviewTypeOK
<1>3. CASE \E i \in DOMAIN findings : \E to \in FindingStatus : BeginTransition(r, i, to)
  BY <1>2, <1>3 DEF BeginTransition, ReviewsNamed, storeVars, TypeOK, ReviewTypeOK
<1>4. CASE \E i \in DOMAIN findings : \E to \in BOOLEAN : BeginInReport(r, i, to)
  BY <1>2, <1>4 DEF BeginInReport, ReviewsNamed, storeVars, TypeOK, ReviewTypeOK
<1>5. CASE CommitTransition(r)
  <2> DEFINE q == review[r]
             e == [type |-> "status_change", finding |-> q.finding, created_at |-> q.created_at,
                   from |-> q.current, to |-> q.to]
  <2>1. e \in FindingEventRow
    BY <1>5, PendingTyped DEF CommitTransition, FindingEventRow
  <2>2. e.finding \in DOMAIN findings
    BY <1>5 DEF CommitTransition, ReviewsNamed, NoReview
  <2>3. events' = Append(events, e) /\ UNCHANGED <<evidence, scans>>
    BY <1>5 DEF CommitTransition
  <2>4. /\ DOMAIN findings' = DOMAIN findings
        /\ \A i \in DOMAIN findings :
             \A c \in {"key", "label", "scan", "draft", "severity"} :
                findings'[i][c] = findings[i][c]
    BY <1>1, <1>5 DEF CommitTransition, FindingRow
  <2>5. ReviewsNamed'
    BY <1>2, <1>5, <2>4 DEF CommitTransition, ReviewsNamed, TypeOK, ReviewTypeOK
  <2> QED
    BY <2>1, <2>2, <2>3, <2>4, <2>5
<1>6. CASE CommitInReport(r)
  <2> DEFINE q == review[r]
             e == [type |-> "in_report_toggle", finding |-> q.finding, created_at |-> q.created_at,
                   from |-> q.current, in_report |-> q.to]
  <2>1. e \in FindingEventRow
    BY <1>6, PendingTyped DEF CommitInReport, FindingEventRow
  <2>2. e.finding \in DOMAIN findings
    BY <1>6 DEF CommitInReport, ReviewsNamed, NoReview
  <2>3. events' = Append(events, e) /\ UNCHANGED <<evidence, scans>>
    BY <1>6 DEF CommitInReport
  <2>4. /\ DOMAIN findings' = DOMAIN findings
        /\ \A i \in DOMAIN findings :
             \A c \in {"key", "label", "scan", "draft", "severity"} :
                findings'[i][c] = findings[i][c]
    BY <1>1, <1>6 DEF CommitInReport, FindingRow
  <2>5. ReviewsNamed'
    BY <1>2, <1>6, <2>4 DEF CommitInReport, ReviewsNamed, TypeOK, ReviewTypeOK
  <2> QED
    BY <2>1, <2>2, <2>3, <2>4, <2>5
<1>7. CASE AbortReview(r)
  BY <1>2, <1>7 DEF AbortReview, ReviewsNamed, storeVars, TypeOK, ReviewTypeOK
<1> QED
  BY <1>3, <1>4, <1>5, <1>6, <1>7

\* A review keeps the invariant: it touches no key and no label.
LEMMA ReviewKeeps ==
  ASSUME IndInv, TypeOK', ReviewNext, UNCHANGED scanVars
  PROVE  IndInv'
<1>1. /\ DOMAIN findings' = DOMAIN findings
      /\ \A i \in DOMAIN findings : /\ findings'[i].key = findings[i].key
                                    /\ findings'[i].label = findings[i].label
                                    /\ findings'[i].scan = findings[i].scan
      /\ UNCHANGED <<evidence, scans>>
      /\ ReviewsNamed'
  BY ReviewResult DEF IndInv
<1>2. OneFindingPerKey' /\ RowsNamed'
  BY <1>1 DEF IndInv, OneFindingPerKey, RowsNamed, scanVars
<1>3. DenseLabels'
  <2>1. {findings'[i].label : i \in DOMAIN findings'} = {findings[i].label : i \in DOMAIN findings}
    BY <1>1
  <2> QED
    BY <1>1, <2>1 DEF IndInv, DenseLabels
<1>4. NothingOrphaned'
  <2>1. \A n \in DOMAIN events' : events'[n].finding \in DOMAIN findings
    <3>1. \/ events' = events
          \/ \E e \in FindingEventRow : e.finding \in DOMAIN findings /\ events' = Append(events, e)
      BY ReviewResult DEF IndInv
    <3>2. events \in Seq(FindingEventRow)
      BY DEF IndInv, TypeOK, StoreTypeOK
    <3>3. \A n \in DOMAIN events : events[n].finding \in DOMAIN findings
      BY DEF IndInv, NothingOrphaned
    <3> QED
      BY <3>1, <3>2, <3>3
  <2> QED
    BY <1>1, <2>1 DEF IndInv, NothingOrphaned
<1>5. SessionInv'
  <2> SUFFICES ASSUME NEW s \in Scans, pc'[s] = "drafts" PROVE SessionOK(s)'
    BY DEF SessionInv
  <2>1. SessionOK(s) /\ UNCHANGED <<by_key[s], high_water[s], allocated[s], appended[s]>>
    BY DEF IndInv, SessionInv, scanVars
  <2> QED
    BY <1>1, <2>1, SessionUndisturbed
<1> QED
  BY <1>1, <1>2, <1>3, <1>4, <1>5 DEF IndInv

\* Every step of every request keeps the invariant.
LEMMA IndInvIsInductive == IndInv /\ [Next]_vars => IndInv'
<1> SUFFICES ASSUME IndInv, [Next]_vars PROVE IndInv'
  OBVIOUS
<1>1. TypeOK'
  BY NextTyped DEF IndInv
<1>2. CASE ScanNext /\ UNCHANGED review
  BY <1>1, <1>2, ScanKeeps DEF ScanNext
<1>3. CASE ReviewNext /\ UNCHANGED scanVars
  BY <1>1, <1>3, ReviewKeeps
<1>4. CASE UNCHANGED vars
  <2>1. UNCHANGED <<findings, evidence, events, scans, pc, review>>
    BY <1>4 DEF vars, storeVars, scanVars
  <2>2. OneFindingPerKey' /\ DenseLabels' /\ NothingOrphaned' /\ RowsNamed' /\ ReviewsNamed'
    BY <2>1 DEF IndInv, OneFindingPerKey, DenseLabels, NothingOrphaned, RowsNamed, ReviewsNamed
  <2>3. SessionInv'
    <3> SUFFICES ASSUME NEW s \in Scans, pc'[s] = "drafts" PROVE SessionOK(s)'
      BY DEF SessionInv
    <3>1. SessionOK(s) /\ UNCHANGED <<by_key[s], high_water[s], allocated[s], appended[s]>>
      BY <1>4 DEF IndInv, SessionInv, vars, scanVars
    <3> QED
      BY <2>1, <3>1, SessionUndisturbed
  <2> QED
    BY <1>1, <2>2, <2>3 DEF IndInv
<1> QED
  BY <1>2, <1>3, <1>4 DEF Next

\* The inductive invariant holds in every reachable state.
THEOREM Invariance == Spec => []IndInv
<1>1. Init => IndInv
  BY InitIndInv
<1>2. IndInv /\ [Next]_vars => IndInv'
  BY IndInvIsInductive
<1> QED
  BY <1>1, <1>2, PTL DEF Spec

\* No issue is ever reported under two labels, however many scans find it at
\* the same time: the unique constraint on labels protects the keys as well.
THEOREM KeysAreUnique == Spec => []OneFindingPerKey
<1>1. IndInv => OneFindingPerKey
  BY DEF IndInv
<1> QED
  BY <1>1, Invariance, PTL

\* Labels are always PVX-1..PVX-N without gap or repeat.
THEOREM LabelsAreDense == Spec => []DenseLabels
<1>1. IndInv => DenseLabels
  BY DEF IndInv
<1> QED
  BY <1>1, Invariance, PTL

\* Every finding, evidence row and event belongs to rows that committed.
THEOREM RowsHaveProvenance == Spec => []NothingOrphaned
<1>1. IndInv => NothingOrphaned
  BY DEF IndInv
<1> QED
  BY <1>1, Invariance, PTL

-----------------------------------------------------------------------------
(***************************************************************************)
(* What no step does.                                                      *)
(***************************************************************************)

\* Only a commit of a scan or a review changes the tables.
LEMMA StoreSteps ==
  ASSUME [Next]_vars
  PROVE  \/ UNCHANGED storeVars
         \/ \E s \in Scans : Commit(s)
         \/ ReviewNext
<1>1. ASSUME NEW s \in Scans, NEW c \in Captures, BeginPersist(s, c) PROVE UNCHANGED storeVars
  BY <1>1 DEF BeginPersist
<1>2. ASSUME NEW s \in Scans, ScanStep(s), ~ Commit(s) PROVE UNCHANGED storeVars
  BY <1>2 DEF ScanStep, ReadFindings, Suppress, Collapse, Create, Retry, GiveUp
<1>3. ASSUME NEW s \in Scans, Abort(s) PROVE UNCHANGED storeVars
  BY <1>3 DEF Abort
<1>4. UNCHANGED vars => UNCHANGED storeVars
  BY DEF vars
<1> QED
  BY <1>1, <1>2, <1>3, <1>4 DEF Next, ScanNext

\* History is only ever added to: identity and label of a finding, evidence
\* and events outlive every step.
THEOREM HistoryOutlivesSteps == Spec => HistoryIsKept
<1> DEFINE Kept ==
      /\ DOMAIN findings \subseteq DOMAIN findings'
      /\ \A i \in DOMAIN findings :
           \A c \in {"key", "label", "scan", "draft"} : findings'[i][c] = findings[i][c]
      /\ evidence \subseteq evidence'
      /\ Len(events) <= Len(events') /\ SubSeq(events', 1, Len(events)) = events
<1>1. ASSUME IndInv, [Next]_vars PROVE Kept
  <2>1. events \in Seq(FindingEventRow) /\ Len(events) \in Nat
    BY <1>1 DEF IndInv, TypeOK, StoreTypeOK
  <2>2. SubSeq(events, 1, Len(events)) = events
    BY <2>1
  <2>3. CASE UNCHANGED storeVars
    BY <2>1, <2>2, <2>3 DEF storeVars
  <2>4. ASSUME NEW s \in Scans, Commit(s) PROVE Kept
    <3>1. events' = events /\ evidence \subseteq evidence'
      BY <2>4 DEF Commit, Written
    <3>2. /\ DOMAIN findings \subseteq DOMAIN findings'
          /\ \A i \in DOMAIN findings :
               \A c \in {"key", "label", "scan", "draft"} : findings'[i][c] = findings[i][c]
      BY <1>1, <2>4, CommitResult
    <3> QED
      BY <2>1, <2>2, <3>1, <3>2
  <2>5. CASE ReviewNext
    <3>1. /\ DOMAIN findings' = DOMAIN findings
          /\ \A i \in DOMAIN findings :
               \A c \in {"key", "label", "scan", "draft"} : findings'[i][c] = findings[i][c]
          /\ evidence' = evidence
          /\ \/ events' = events
             \/ \E e \in FindingEventRow : events' = Append(events, e)
      BY <1>1, <2>5, ReviewResult DEF IndInv
    <3>2. Len(events) <= Len(events') /\ SubSeq(events', 1, Len(events)) = events
      <4>1. ASSUME NEW e \in FindingEventRow, events' = Append(events, e)
            PROVE  Len(events) <= Len(events') /\ SubSeq(events', 1, Len(events)) = events
        BY <2>1, <4>1
      <4> QED
        BY <2>1, <2>2, <3>1, <4>1
    <3> QED
      BY <3>1, <3>2
  <2> QED
    BY <1>1, <2>3, <2>4, <2>5, StoreSteps
<1>2. IndInv /\ [Next]_vars => [Kept]_vars
  BY <1>1
<1> QED
  BY <1>2, Invariance, PTL DEF Spec, HistoryIsKept

\* No scan moves a status (rule PX-HUMAN): a status differs after a step only
\* if the step added the event of a human's request for it, and a finding a
\* scan creates is new.
THEOREM StatusMovesAreHuman == Spec => OnlyHumansMoveStatus
<1> DEFINE Moved(i) ==
      IF i \notin DOMAIN findings THEN findings'[i].status = "new"
      ELSE findings'[i].status # findings[i].status =>
             /\ Len(events') = Len(events) + 1
             /\ events'[Len(events')].finding = i
             /\ events'[Len(events')].type = "status_change"
             /\ events'[Len(events')].to = findings'[i].status
<1>1. ASSUME IndInv, [Next]_vars, NEW i \in DOMAIN findings' PROVE Moved(i)
  <2>1. CASE UNCHANGED storeVars
    BY <1>1, <2>1 DEF storeVars
  <2>2. ASSUME NEW s \in Scans, Commit(s) PROVE Moved(i)
    <3>1. CASE i \in DOMAIN findings
      BY <1>1, <2>2, <3>1, CommitResult
    <3>2. CASE i \notin DOMAIN findings
      <4>1. PICK k \in Created(s) : i = <<s, k>>
        BY <1>1, <2>2, <3>2, CommitResult
      <4>2. findings'[i] = by_key[s][k].row
        BY <1>1, <2>2, <4>1, CommitResult
      <4>3. by_key[s][k].row.status = "new"
        BY <1>1, <2>2 DEF IndInv, SessionInv, SessionOK, CreatedNumbered, Commit, Written, AtCommit
      <4> QED
        BY <3>2, <4>2, <4>3
    <3> QED
      BY <3>1, <3>2
  <2>3. CASE ReviewNext
    <3> PICK r \in Reviews :
          \/ \E j \in DOMAIN findings :
               \/ \E to \in FindingStatus : BeginTransition(r, j, to)
               \/ \E to \in BOOLEAN : BeginInReport(r, j, to)
          \/ CommitTransition(r)
          \/ CommitInReport(r)
          \/ AbortReview(r)
      BY <2>3 DEF ReviewNext
    <3>1. i \in DOMAIN findings
      BY <1>1, <2>3, ReviewResult DEF IndInv
    <3>2. findings[i] \in FindingRow /\ events \in Seq(FindingEventRow)
      BY <1>1, <3>1 DEF IndInv, TypeOK, StoreTypeOK
    <3>3. CASE CommitTransition(r)
      <4> DEFINE q == review[r]
                 e == [type |-> "status_change", finding |-> q.finding, created_at |-> q.created_at,
                       from |-> q.current, to |-> q.to]
      <4>1. e \in FindingEventRow
        BY <1>1, <3>3, PendingTyped DEF CommitTransition, FindingEventRow, IndInv
      <4>2. events' = Append(events, e)
        BY <3>3 DEF CommitTransition
      <4>3. Len(events') = Len(events) + 1 /\ events'[Len(events')] = e
        <5> HIDE DEF e
        <5> QED
          BY <3>2, <4>1, <4>2
      <4>4. CASE i = q.finding
        <5>1. findings'[i].status = q.to
          BY <3>1, <3>2, <3>3, <4>4 DEF CommitTransition, FindingRow
        <5> QED
          BY <3>1, <4>3, <4>4, <5>1
      <4>5. CASE i # q.finding
        BY <3>1, <3>3, <4>5 DEF CommitTransition
      <4> QED
        BY <4>4, <4>5
    <3>4. CASE CommitInReport(r)
      BY <3>1, <3>2, <3>4 DEF CommitInReport, FindingRow
    <3>5. CASE ~ CommitTransition(r) /\ ~ CommitInReport(r)
      BY <3>1, <3>5 DEF BeginTransition, BeginInReport, AbortReview, storeVars
    <3> QED
      BY <3>3, <3>4, <3>5
  <2> QED
    BY <1>1, <2>1, <2>2, <2>3, StoreSteps
<1>2. IndInv /\ [Next]_vars => [\A i \in DOMAIN findings' : Moved(i)]_vars
  BY <1>1
<1> QED
  BY <1>2, Invariance, PTL DEF Spec, OnlyHumansMoveStatus

\* A walk that ends without a commit or an abort lost its attempt to an
\* integrity error.
LEMMA LostAttempt ==
  ASSUME TypeOK, [Next]_vars, NEW s \in Scans, pc[s] = "drafts", pc'[s] \in {"read", "failed"}
  PROVE  Retry(s) \/ GiveUp(s)
<1>1. pc'[s] # pc[s]
  OBVIOUS
<1>2. ScanNext
  BY <1>1 DEF Next, scanVars, vars
<1>3. PICK t \in Scans : (\E c \in Captures : BeginPersist(t, c)) \/ ScanStep(t) \/ Abort(t)
  BY <1>2 DEF ScanNext
<1>4. pc \in [Scans -> {"idle"} \cup InFlight \cup Finished]
  BY DEF TypeOK, ScanTypeOK
<1>5. t = s
  BY <1>1, <1>3, <1>4 DEF BeginPersist, ScanStep, ReadFindings, Suppress, Collapse, Create,
                          Commit, Written, Retry, GiveUp, Abort
<1> QED
  BY <1>3, <1>4, <1>5 DEF BeginPersist, ScanStep, ReadFindings, Suppress, Collapse, Create,
                          Commit, Written, Abort

\* A label it numbered is taken only if findings were committed since its read.
LEMMA TakenIsContention ==
  ASSUME IndInv, NEW s \in Scans, pc[s] = "drafts", LabelTaken(s)
  PROVE  \E i \in DOMAIN findings : findings[i].label > high_water[s]
<1>1. PICK k \in Created(s), i \in DOMAIN findings : findings[i].label = by_key[s][k].row.label
  BY DEF LabelTaken
<1>2. by_key[s][k].row.label \in high_water[s]+1..allocated[s]
  BY DEF IndInv, SessionInv, SessionOK, CreatedNumbered
<1>3. high_water[s] \in Nat /\ allocated[s] \in Nat
  BY DEF IndInv, TypeOK, ScanTypeOK
<1> QED
  BY <1>1, <1>2, <1>3

\* Where no foreign key can refuse the flush, an attempt is lost only to a
\* scan that committed findings since the attempt read: of the scans that
\* contend, one always gets through.
THEOREM RetriesAreContention ==
  ASSUME ~ FkEnforced
  PROVE  Spec => RetryOnlyOnContention
<1> DEFINE Contended(s) ==
      (pc[s] = "drafts" /\ pc'[s] \in {"read", "failed"}) =>
         \E i \in DOMAIN findings : findings[i].label > high_water[s]
<1>1. ASSUME IndInv, [Next]_vars, NEW s \in Scans, pc[s] = "drafts", pc'[s] \in {"read", "failed"}
      PROVE  \E i \in DOMAIN findings : findings[i].label > high_water[s]
  <2>1. Retry(s) \/ GiveUp(s)
    BY <1>1, LostAttempt DEF IndInv
  <2>2. LabelTaken(s)
    BY <2>1 DEF Retry, GiveUp, IntegrityError, EvidenceBeforeFinding
  <2> QED
    BY <1>1, <2>2, TakenIsContention
<1>2. IndInv /\ [Next]_vars => [\A s \in Scans : Contended(s)]_vars
  BY <1>1
<1> QED
  BY <1>2, Invariance, PTL DEF Spec, RetryOnlyOnContention

=============================================================================
