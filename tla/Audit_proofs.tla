---------------------------- MODULE Audit_proofs ----------------------------
(***************************************************************************)
(* The audit trail, whoever races with whom: it explains every finding,      *)
(* nothing is confirmed that was not triaged before, and the report shows    *)
(* and leaves out what humans recorded.  Last, scans and reviewers implement  *)
(* the ledger: every behaviour of Pipeline is, through its mapping, one of    *)
(* FindingLedger.                                                          *)
(***************************************************************************)
EXTENDS Pipeline_proofs, Readout, Lists_proofs

-----------------------------------------------------------------------------
(***************************************************************************)
(* What a review leaves in the tables.                                     *)
(***************************************************************************)

\* The request whose commit adds event e to the trail: what it carries.
Requested(r, e) ==
  /\ review[r].op = IF e.type = "status_change" THEN "transition" ELSE "in_report"
  /\ review[r].finding = e.finding
  /\ review[r].to = IF e.type = "status_change" THEN e.to ELSE e.in_report
  /\ review[r].current = e.from
  /\ review[r].created_at = e.created_at

\* The commit of a review that adds event e: the finding named has the status
\* the event gives it, and no other status or mark changes.
Recorded(e) ==
  /\ e.finding \in DOMAIN findings
  /\ events' = Append(events, e)
  /\ \E r \in Reviews : Requested(r, e)
  /\ \A i \in DOMAIN findings :
       IF i = e.finding /\ e.type = "status_change"
       THEN /\ findings'[i].status = e.to
            /\ findings'[i].regression_intent <=> (findings[i].regression_intent \/ e.to = "false_positive")
       ELSE /\ findings'[i].status = findings[i].status
            /\ findings'[i].regression_intent <=> findings[i].regression_intent

\* A review commits one event, and its effect, or leaves the tables alone.
LEMMA ReviewRecords ==
  ASSUME TypeOK, ReviewsNamed, ReviewNext
  PROVE  UNCHANGED storeVars \/ \E e \in FindingEventRow : Recorded(e)
<1> PICK r \in Reviews :
       \/ \E i \in DOMAIN findings :
            \/ \E to \in FindingStatus : BeginTransition(r, i, to)
            \/ \E to \in BOOLEAN : BeginInReport(r, i, to)
       \/ CommitTransition(r)
       \/ CommitInReport(r)
       \/ AbortReview(r)
  BY DEF ReviewNext
<1>1. \A i \in DOMAIN findings : findings[i] \in FindingRow
  BY DEF TypeOK, StoreTypeOK
<1>2. CASE CommitTransition(r)
  <2>1. PICK e \in FindingEventRow :
          e = [type |-> "status_change", finding |-> review[r].finding,
               created_at |-> review[r].created_at, from |-> review[r].current, to |-> review[r].to]
    BY <1>2, PendingTyped DEF CommitTransition, FindingEventRow
  <2>2. /\ e.type = "status_change" /\ e.finding = review[r].finding /\ e.to = review[r].to
        /\ e.created_at = review[r].created_at /\ e.from = review[r].current
    BY <2>1
  <2>3. e.finding \in DOMAIN findings
    BY <1>2, <2>2 DEF CommitTransition, ReviewsNamed, NoReview
  <2>4. events' = Append(events, e)
    BY <1>2, <2>1 DEF CommitTransition
  <2>5. Requested(r, e)
    BY <1>2, <2>2 DEF CommitTransition, Requested
  <2>6. findings' = [findings EXCEPT ![e.finding] =
          IF e.to = "false_positive" THEN [@ EXCEPT !.status = e.to, !.regression_intent = TRUE]
          ELSE [@ EXCEPT !.status = e.to]]
    BY <1>2, <2>2 DEF CommitTransition
  <2>7. ASSUME NEW i \in DOMAIN findings, i # e.finding PROVE findings'[i] = findings[i]
    BY <2>6, <2>7
  <2>8. findings'[e.finding].status = e.to
    BY <1>1, <2>3, <2>6 DEF FindingRow
  <2>9. findings'[e.finding].regression_intent <=>
          (findings[e.finding].regression_intent \/ e.to = "false_positive")
    <3>1. CASE e.to = "false_positive"
      BY <1>1, <2>3, <2>6, <3>1 DEF FindingRow
    <3>2. CASE e.to # "false_positive"
      BY <1>1, <2>3, <2>6, <3>2 DEF FindingRow
    <3> QED
      BY <3>1, <3>2
  <2>10. Recorded(e)
    BY <2>2, <2>3, <2>4, <2>5, <2>7, <2>8, <2>9, Zenon DEF Recorded
  <2> QED
    BY <2>10
<1>3. CASE CommitInReport(r)
  <2>1. PICK e \in FindingEventRow :
          e = [type |-> "in_report_toggle", finding |-> review[r].finding,
               created_at |-> review[r].created_at, from |-> review[r].current,
               in_report |-> review[r].to]
    BY <1>3, PendingTyped DEF CommitInReport, FindingEventRow
  <2>2. /\ e.type = "in_report_toggle" /\ e.finding = review[r].finding
        /\ e.in_report = review[r].to
        /\ e.created_at = review[r].created_at /\ e.from = review[r].current
    BY <2>1
  <2>3. e.finding \in DOMAIN findings
    BY <1>3, <2>2 DEF CommitInReport, ReviewsNamed, NoReview
  <2>4. events' = Append(events, e)
    BY <1>3, <2>1 DEF CommitInReport
  <2>5. Requested(r, e)
    BY <1>3, <2>2, Zenon DEF CommitInReport, Requested
  <2>6. findings' = findings \/ findings' = [findings EXCEPT ![e.finding].in_report = review[r].to]
    BY <1>3, <2>2 DEF CommitInReport
  <2>7. ASSUME NEW i \in DOMAIN findings
        PROVE  /\ findings'[i].status = findings[i].status
               /\ findings'[i].regression_intent <=> findings[i].regression_intent
    <3>1. CASE i # e.finding \/ findings' = findings
      BY <2>6, <3>1
    <3>2. CASE findings' = [findings EXCEPT ![e.finding].in_report = review[r].to]
      BY <1>1, <3>2, ZenonT(40) DEF FindingRow
    <3> QED
      BY <2>6, <3>1, <3>2
  <2>8. e.type # "status_change"
    BY <2>2
  <2>9. Recorded(e)
    BY <2>3, <2>4, <2>5, <2>7, <2>8, Zenon DEF Recorded
  <2> QED
    BY <2>9
<1>4. CASE ~ CommitTransition(r) /\ ~ CommitInReport(r)
  BY <1>4 DEF BeginTransition, BeginInReport, AbortReview
<1> QED
  BY <1>2, <1>3, <1>4

\* An event is added behind the others, which stay where they are.
LEMMA AppendKeeps ==
  ASSUME events \in Seq(FindingEventRow), NEW e \in FindingEventRow, events' = Append(events, e)
  PROVE  /\ Len(events) \in Nat
         /\ DOMAIN events = 1..Len(events)
         /\ DOMAIN events' = 1..(Len(events) + 1)
         /\ \A n \in DOMAIN events : events'[n] = events[n]
         /\ events'[Len(events) + 1] = e
OBVIOUS

\* The report flag after the commit of request r: only that of the finding of
\* event e moves, to what e says, and only if r had not loaded it so.
FlagMoved(r, e) ==
  \A i \in DOMAIN findings :
    findings'[i].in_report <=>
      IF i = e.finding /\ e.type = "in_report_toggle" /\ e.in_report # review[r].loaded
      THEN e.in_report ELSE findings[i].in_report

\* A review moves no other flag than the one its event speaks of.
LEMMA ReviewFlags ==
  ASSUME TypeOK, ReviewNext, NEW e \in FindingEventRow, Recorded(e)
  PROVE  \E r \in Reviews : Requested(r, e) /\ FlagMoved(r, e)
<1>1. /\ events \in Seq(FindingEventRow) /\ events' = Append(events, e)
      /\ \A i \in DOMAIN findings : findings[i] \in FindingRow
  BY DEF TypeOK, StoreTypeOK, Recorded
<1>2. /\ Len(events) \in Nat
      /\ events' # events
      /\ events'[Len(events) + 1] = e
  BY <1>1, AppendKeeps
<1>3. PICK r \in Reviews : CommitTransition(r) \/ CommitInReport(r)
  BY <1>2 DEF ReviewNext, BeginTransition, BeginInReport, AbortReview, storeVars
<1> PICK q : q = review[r]
  OBVIOUS
<1>4. CASE CommitTransition(r)
  <2>1. e.type = "status_change" /\ Requested(r, e)
    <3>1. PICK f \in FindingEventRow :
            f = [type |-> "status_change", finding |-> q.finding, created_at |-> q.created_at,
                 from |-> q.current, to |-> q.to]
      BY <1>1, <1>4, PendingTyped DEF CommitTransition, FindingEventRow
    <3>2. events' = Append(events, f)
      BY <1>4, <3>1 DEF CommitTransition
    <3>3. events'[Len(events) + 1] = f
      BY <1>1, <3>2, AppendKeeps
    <3>4. e = f
      BY <1>2, <3>3
    <3> QED
      BY <1>4, <3>1, <3>4 DEF CommitTransition, Requested
  <2>2. findings' = [findings EXCEPT ![q.finding] =
          IF q.to = "false_positive" THEN [@ EXCEPT !.status = q.to, !.regression_intent = TRUE]
          ELSE [@ EXCEPT !.status = q.to]]
    BY <1>4 DEF CommitTransition
  <2>3. ASSUME NEW i \in DOMAIN findings PROVE findings'[i].in_report <=> findings[i].in_report
    <3>1. CASE i # q.finding
      BY <2>2, <3>1
    <3>2. CASE i = q.finding /\ q.to = "false_positive"
      BY <1>1, <2>2, <3>2, ZenonT(40) DEF FindingRow
    <3>3. CASE i = q.finding /\ q.to # "false_positive"
      BY <1>1, <2>2, <3>3, ZenonT(40) DEF FindingRow
    <3> QED
      BY <3>1, <3>2, <3>3
  <2>4. e.type # "in_report_toggle"
    BY <2>1
  <2> QED
    BY <2>1, <2>3, <2>4, Zenon DEF FlagMoved
<1>5. CASE CommitInReport(r)
  <2>1. /\ e.type = "in_report_toggle" /\ e.finding = q.finding /\ e.in_report = q.to
        /\ Requested(r, e)
    <3>1. PICK f \in FindingEventRow :
            f = [type |-> "in_report_toggle", finding |-> q.finding, created_at |-> q.created_at,
                 from |-> q.current, in_report |-> q.to]
      BY <1>1, <1>5, PendingTyped DEF CommitInReport, FindingEventRow
    <3>2. events' = Append(events, f)
      BY <1>5, <3>1 DEF CommitInReport
    <3>3. events'[Len(events) + 1] = f
      BY <1>1, <3>2, AppendKeeps
    <3>4. e = f
      BY <1>2, <3>3
    <3>5. /\ e.type = "in_report_toggle" /\ e.finding = q.finding /\ e.in_report = q.to
          /\ e.from = q.current /\ e.created_at = q.created_at
      BY <3>1, <3>4
    <3> QED
      BY <1>5, <3>5, Zenon DEF CommitInReport, Requested
  <2>2. /\ q.to = q.loaded => findings' = findings
        /\ q.to # q.loaded => findings' = [findings EXCEPT ![q.finding].in_report = q.to]
    BY <1>5 DEF CommitInReport
  <2>5. q.finding \in DOMAIN findings
    BY <2>1 DEF Recorded
  <2>6. q.to # q.loaded => (findings'[q.finding].in_report <=> q.to)
    <3> SUFFICES ASSUME q.to # q.loaded PROVE findings'[q.finding].in_report <=> q.to
      OBVIOUS
    <3>1. findings' = [findings EXCEPT ![q.finding].in_report = q.to]
      BY <2>2
    <3>2. findings[q.finding] \in FindingRow
      BY <1>1, <2>5
    <3> QED
      BY <2>5, <3>1, <3>2, ZenonT(40) DEF FindingRow
  <2>7. \A i \in DOMAIN findings : i # q.finding => findings'[i] = findings[i]
    BY <2>2
  <2>8. ASSUME NEW i \in DOMAIN findings
        PROVE  findings'[i].in_report <=>
                 IF i = e.finding /\ e.type = "in_report_toggle" /\ e.in_report # q.loaded
                 THEN e.in_report ELSE findings[i].in_report
    <3>1. CASE i = q.finding /\ q.to # q.loaded
      BY <2>1, <2>6, <3>1, Zenon
    <3>2. CASE i = q.finding /\ q.to = q.loaded
      BY <2>1, <2>2, <3>2, Zenon
    <3>3. CASE i # q.finding
      BY <2>1, <2>7, <3>3, Zenon
    <3> QED
      BY <3>1, <3>2, <3>3
  <2>9. FlagMoved(r, e)
    BY <2>8, Zenon DEF FlagMoved
  <2> QED
    BY <2>1, <2>9
<1> QED
  BY <1>3, <1>4, <1>5

\* Which events are on a finding after one more.
LEMMA AppendedEvents ==
  ASSUME events \in Seq(FindingEventRow), NEW e \in FindingEventRow, events' = Append(events, e),
         NEW i, NEW type
  PROVE  EventsOn(i, type)' = IF e.finding = i /\ e.type = type
                              THEN EventsOn(i, type) \cup {Len(events) + 1}
                              ELSE EventsOn(i, type)
<1>1. /\ Len(events) \in Nat
      /\ DOMAIN events = 1..Len(events)
      /\ DOMAIN events' = DOMAIN events \cup {Len(events) + 1}
      /\ \A n \in DOMAIN events : events'[n] = events[n]
      /\ events'[Len(events) + 1] = e
  BY AppendKeeps
<1> QED
  BY <1>1 DEF EventsOn

\* A set of numbers that is bounded has a last one.
LEMMA LatestIsLast ==
  ASSUME NEW n \in Nat, NEW S \in SUBSET (1..n), S # {}
  PROVE  Latest(S) \in S /\ \A m \in S : m <= Latest(S)
<1> DEFINE T == {n - m : m \in S}
<1>1. T \subseteq Nat /\ T # {}
  OBVIOUS
<1>2. \E x \in T : \A y \in T : ~ (<<y, x>> \in OpToRel(<, Nat))
  <2> HIDE DEF T
  <2> QED
    BY <1>1, NatLessThanWellFounded, WFMin
<1>3. PICK x \in T : \A y \in T : ~ (y < x)
  BY <1>1, <1>2 DEF OpToRel
<1>4. PICK l \in S : x = n - l
  OBVIOUS
<1>5. ASSUME NEW m \in S PROVE m <= l
  <2>1. ~ (n - m < n - l)
    BY <1>3, <1>4
  <2> QED
    BY <2>1
<1>6. \E k \in S : \A m \in S : m <= k
  BY <1>5
<1> QED
  BY <1>6 DEF Latest

\* The last of a set of events is the one added last.
LEMMA LatestAdded ==
  ASSUME NEW n \in Nat, NEW S \in SUBSET (1..n)
  PROVE  Latest(S \cup {n + 1}) = n + 1
<1> DEFINE P(m) == m \in S \cup {n + 1} /\ \A l \in S \cup {n + 1} : l <= m
<1>1. P(n + 1)
  OBVIOUS
<1>2. \A m : P(m) => m = n + 1
  OBVIOUS
<1>3. Latest(S \cup {n + 1}) = CHOOSE m \in S \cup {n + 1} : \A l \in S \cup {n + 1} : l <= m
  BY DEF Latest
<1> QED
  BY <1>1, <1>2, <1>3

-----------------------------------------------------------------------------
(***************************************************************************)
(* The trail explains the status.                                          *)
(***************************************************************************)

\* A row as a scan adds it: in the report, and not marked for a regression test.
Fresh(row) == row.in_report /\ ~ row.regression_intent

\* The rows a scan is about to add are as nobody has touched them.
CreatedUntouched ==
  \A s \in Scans : pc[s] = "drafts" => \A k \in Created(s) : Fresh(by_key[s][k].row)

AuditInv == CreatedUntouched /\ AuditExplainsStatus

\* What a scan does next leaves the rows it creates untouched.
LEMMA CreatedStayUntouched ==
  ASSUME IndInv, CreatedUntouched, [Next]_vars
  PROVE  CreatedUntouched'
<1> SUFFICES ASSUME NEW s \in Scans, pc'[s] = "drafts", NEW k \in Created(s)'
             PROVE  Fresh(by_key'[s][k].row)
  BY DEF CreatedUntouched
<1> USE DEF IndInv
<1>1. CASE UNCHANGED <<pc, by_key>>
  BY <1>1 DEF CreatedUntouched, Created
<1>2. ASSUME NEW t \in Scans,
             (\E drafts \in Captures : BeginPersist(t, drafts)) \/ ScanStep(t) \/ Abort(t)
      PROVE  Fresh(by_key'[s][k].row)
  <2>1. /\ Scans = DOMAIN pc /\ Scans = DOMAIN by_key
        /\ \A j \in DOMAIN by_key[s] : by_key[s][j] \in OrmRow
    BY DEF TypeOK, ScanTypeOK
  <2>2. CASE UNCHANGED by_key[s] /\ pc[s] = "drafts"
    BY <2>2 DEF CreatedUntouched, Created
  <2>3. CASE ReadFindings(t)
    <3>1. CASE t # s
      BY <2>1, <2>2, <2>3, <3>1 DEF ReadFindings
    <3>2. CASE t = s
      <4>1. by_key'[s] = existing_findings_by_key /\ pc[s] # "done"
        BY <2>1, <2>3, <3>2 DEF ReadFindings
      <4>2. k \in DOMAIN existing_findings_by_key /\ existing_findings_by_key[k].id = <<s, k>>
        BY <4>1 DEF Created
      <4>3. <<s, k>> \in DOMAIN findings
        BY <4>2, ReadIndexesFindings
      <4> QED
        BY <4>1, <4>3, UncommittedHasNoRow
    <3> QED
      BY <3>1, <3>2
  <2>4. CASE Collapse(t)
    <3>1. CASE t # s
      BY <2>1, <2>2, <2>4, <3>1 DEF Collapse
    <3>2. CASE t = s
      <4> DEFINE j   == Draft(s).key
                 row == keep_worst_severity(by_key[s][j].row, Draft(s))
      <4>1. j \in DOMAIN by_key[s] /\ by_key' = [by_key EXCEPT ![s][j].row = row] /\ pc[s] = "drafts"
        BY <2>4, <3>2 DEF Collapse, HasDraft
      <4>2. /\ row.regression_intent <=> by_key[s][j].row.regression_intent
            /\ row.in_report <=> by_key[s][j].row.in_report
        <5>1. by_key[s][j].row \in FindingRow
          BY <2>1, <4>1 DEF OrmRow
        <5> HIDE DEF j
        <5> QED
          BY <5>1, ZenonT(40) DEF keep_worst_severity, FindingRow
      <4> HIDE DEF j, row
      <4>3. /\ DOMAIN by_key'[s] = DOMAIN by_key[s]
            /\ \A l \in DOMAIN by_key[s] : l # j => by_key'[s][l] = by_key[s][l]
            /\ by_key'[s][j] = [by_key[s][j] EXCEPT !.row = row]
        BY <2>1, <4>1
      <4>4. by_key'[s][j].id = by_key[s][j].id /\ by_key'[s][j].row = row
        BY <2>1, <4>1, <4>3 DEF OrmRow
      <4>5. k \in Created(s)
        BY <4>3, <4>4 DEF Created
      <4>6. Fresh(by_key[s][k].row)
        BY <4>1, <4>5 DEF CreatedUntouched
      <4> QED
        BY <4>2, <4>3, <4>4, <4>5, <4>6 DEF Created, Fresh
    <3> QED
      BY <3>1, <3>2
  <2>5. CASE Create(t)
    <3>1. CASE t # s
      BY <2>1, <2>2, <2>5, <3>1 DEF Create
    <3>2. CASE t = s
      <4> DEFINE j == Draft(s).key
                 o == [id |-> <<s, j>>, row |-> from_draft(s, allocated[s] + 1)]
      <4>1. /\ j \notin DOMAIN by_key[s] /\ pc[s] = "drafts"
            /\ by_key' = [by_key EXCEPT ![s] =
                 [l \in DOMAIN by_key[s] \cup {j} |-> IF l = j THEN o ELSE by_key[s][l]]]
        BY <2>5, <3>2 DEF Create, HasDraft
      <4>2. Fresh(o.row)
        BY DEF from_draft, Fresh
      <4> HIDE DEF j, o
      <4>3. /\ by_key'[s][j] = o
            /\ DOMAIN by_key'[s] = DOMAIN by_key[s] \cup {j}
            /\ \A l \in DOMAIN by_key[s] : by_key'[s][l] = by_key[s][l]
        BY <2>1, <4>1
      <4>4. CASE k = j
        BY <4>2, <4>3, <4>4
      <4>5. CASE k # j
        BY <4>1, <4>3, <4>5 DEF CreatedUntouched, Created
      <4> QED
        BY <4>4, <4>5
    <3> QED
      BY <3>1, <3>2
  <2>6. CASE ~ ReadFindings(t) /\ ~ Collapse(t) /\ ~ Create(t)
    <3>1. by_key' = by_key
      BY <1>2, <2>6 DEF BeginPersist, ScanStep, Suppress, Commit, Written, Retry, GiveUp, Abort
    <3>2. pc[s] = "drafts"
      BY <1>2, <2>1, <2>6 DEF BeginPersist, ScanStep, Suppress, Commit, Written, Retry, GiveUp, Abort
    <3> QED
      BY <2>2, <3>1, <3>2
  <2> QED
    BY <2>3, <2>4, <2>5, <2>6
<1> QED
  BY <1>1, <1>2 DEF Next, ScanNext, vars, scanVars

\* The events on finding i explain the status and the mark it has.
Explained(i) ==
  LET E == EventsOn(i, "status_change")
  IN  /\ findings[i].status = IF E = {} THEN "new" ELSE events[Latest(E)].to
      /\ findings[i].regression_intent <=> Ruled(i, "false_positive")

\* A scan's commit leaves the trail, and every status it explains, alone; the
\* rows it adds are new and unmarked, and no event is on them.
LEMMA CommitExplained ==
  ASSUME IndInv, AuditInv, NEW s \in Scans, Commit(s), NEW i \in DOMAIN findings'
  PROVE  Explained(i)'
<1>1. /\ events' = events
      /\ EventsOn(i, "status_change")' = EventsOn(i, "status_change")
      /\ Ruled(i, "false_positive")' <=> Ruled(i, "false_positive")
  BY DEF Commit, EventsOn, Ruled
<1>2. CASE i \in DOMAIN findings
  <2>1. /\ findings'[i].status = findings[i].status
        /\ findings'[i].regression_intent = findings[i].regression_intent
    BY <1>2, CommitResult
  <2>2. Explained(i)
    BY <1>2 DEF AuditInv, AuditExplainsStatus, Explained
  <2> QED
    BY <1>1, <2>1, <2>2 DEF Explained
<1>3. CASE i \notin DOMAIN findings
  <2>1. PICK k \in Created(s) : i = <<s, k>>
    BY <1>3, CommitResult
  <2>2. findings'[i] = by_key[s][k].row
    BY <2>1, CommitResult
  <2>3. by_key[s][k].row.status = "new" /\ ~ by_key[s][k].row.regression_intent
    BY DEF IndInv, SessionInv, SessionOK, CreatedNumbered, Commit, AtCommit, AuditInv,
           CreatedUntouched, Fresh
  <2>4. EventsOn(i, "status_change") = {} /\ ~ Ruled(i, "false_positive")
    BY <1>3 DEF IndInv, NothingOrphaned, EventsOn, Ruled
  <2> QED
    BY <1>1, <2>2, <2>3, <2>4 DEF Explained
<1> QED
  BY <1>2, <1>3

\* An event and its effect belong together.
LEMMA RecordExplained ==
  ASSUME IndInv, AuditInv, NEW e \in FindingEventRow, Recorded(e), NEW i \in DOMAIN findings
  PROVE  Explained(i)'
<1>1. /\ events \in Seq(FindingEventRow)
      /\ events' = Append(events, e)
  BY DEF IndInv, TypeOK, StoreTypeOK, Recorded
<1>2. /\ Len(events) \in Nat
      /\ DOMAIN events = 1..Len(events)
      /\ \A n \in DOMAIN events : events'[n] = events[n]
      /\ events'[Len(events) + 1] = e
  BY <1>1, AppendKeeps
<1>3. Explained(i)
  BY DEF AuditInv, AuditExplainsStatus, Explained
<1> DEFINE E == EventsOn(i, "status_change")
<1>4. E \in SUBSET DOMAIN events
  BY DEF EventsOn
<1>5. CASE e.finding = i /\ e.type = "status_change"
  <2>1. EventsOn(i, "status_change")' = E \cup {Len(events) + 1}
    BY <1>1, <1>5, AppendedEvents
  <2>2. Latest(E \cup {Len(events) + 1}) = Len(events) + 1
    BY <1>2, <1>4, LatestAdded
  <2> HIDE DEF E
  <2>3. findings'[i].status = e.to
    BY <1>5 DEF Recorded
  <2>4. Ruled(i, "false_positive")' <=> (Ruled(i, "false_positive") \/ e.to = "false_positive")
    BY <1>2, <1>4, <2>1 DEF Ruled, E
  <2>5. findings'[i].regression_intent <=> (findings[i].regression_intent \/ e.to = "false_positive")
    BY <1>5 DEF Recorded
  <2>6. findings[i].regression_intent <=> Ruled(i, "false_positive")
    BY <1>3 DEF Explained
  <2>7. findings'[i].regression_intent <=> Ruled(i, "false_positive")'
    BY <2>4, <2>5, <2>6
  <2>8. findings'[i].status = events'[Latest(EventsOn(i, "status_change")')].to
    BY <1>2, <2>1, <2>2, <2>3
  <2> QED
    BY <2>1, <2>7, <2>8 DEF Explained, Latest
<1>6. CASE ~ (e.finding = i /\ e.type = "status_change")
  <2>1. EventsOn(i, "status_change")' = E
    BY <1>1, <1>6, AppendedEvents
  <2>2. Ruled(i, "false_positive")' <=> Ruled(i, "false_positive")
    BY <1>2, <1>4, <2>1 DEF Ruled
  <2>3. /\ findings'[i].status = findings[i].status
        /\ findings'[i].regression_intent <=> findings[i].regression_intent
    BY <1>6 DEF Recorded
  <2>4. findings[i].status = IF E = {} THEN "new" ELSE events[Latest(E)].to
    BY <1>3 DEF Explained
  <2>5. E # {} => events'[Latest(E)] = events[Latest(E)]
    <3>1. E # {} => Latest(E) \in E
      <4> HIDE DEF E
      <4> QED
        BY <1>2, <1>4, LatestIsLast
    <3> QED
      BY <1>2, <1>4, <3>1
  <2> QED
    BY <1>3, <2>1, <2>2, <2>3, <2>4, <2>5 DEF Explained
<1> QED
  BY <1>5, <1>6

\* Every step keeps the trail explaining.
LEMMA AuditInvIsInductive == IndInv /\ AuditInv /\ [Next]_vars => AuditInv'
<1> SUFFICES ASSUME IndInv, AuditInv, [Next]_vars PROVE AuditInv'
  OBVIOUS
<1>1. CreatedUntouched'
  BY CreatedStayUntouched DEF AuditInv
<1>2. ASSUME NEW i \in DOMAIN findings' PROVE Explained(i)'
  <2>1. CASE UNCHANGED storeVars
    BY <1>2, <2>1 DEF storeVars, AuditInv, AuditExplainsStatus, Explained, EventsOn, Ruled
  <2>2. ASSUME NEW s \in Scans, Commit(s) PROVE Explained(i)'
    BY <1>2, <2>2, CommitExplained
  <2>3. ASSUME ReviewNext, ~ UNCHANGED storeVars PROVE Explained(i)'
    <3>1. PICK e \in FindingEventRow : Recorded(e)
      BY <2>3, ReviewRecords DEF IndInv
    <3>2. i \in DOMAIN findings
      BY <1>2, <2>3, ReviewResult DEF IndInv
    <3> QED
      BY <3>1, <3>2, RecordExplained
  <2> QED
    BY <2>1, <2>2, <2>3, StoreSteps
<1>3. AuditExplainsStatus'
  BY <1>2 DEF AuditExplainsStatus, Explained
<1> QED
  BY <1>1, <1>3 DEF AuditInv

\* The audit trail explains the status of every finding in every reachable state.
LEMMA AuditAlways == Spec => []AuditInv
<1>1. Init => AuditInv
  BY DEF Init, StoreInit, ScanInit, AuditInv, CreatedUntouched, AuditExplainsStatus
<1>2. IndInv /\ AuditInv /\ [Next]_vars => AuditInv'
  BY AuditInvIsInductive
<1> QED
  BY <1>1, <1>2, Invariance, PTL DEF Spec

\* The audit trail explains the status and the regression mark of every
\* finding, however many reviews and scans overlap (transition_finding).
THEOREM TrailExplainsStatus == Spec => []AuditExplainsStatus
<1>1. AuditInv => AuditExplainsStatus
  BY DEF AuditInv
<1> QED
  BY <1>1, AuditAlways, PTL

-----------------------------------------------------------------------------
(***************************************************************************)
(* Nothing is confirmed that was not triaged.  It takes more than the last  *)
(* event: a request decides on the status it loaded, and by the time it     *)
(* commits others may have moved the finding.  What saves the claim is that *)
(* the trail only grows: whatever was loaded, if it had been triaged then,  *)
(* it has been triaged now.                                                *)
(***************************************************************************)

\* The statuses a finding reaches only by way of "triaged".
Confirmed   == {"validated", "fixed", "regression"}
PastTriage  == {"triaged"} \cup Confirmed

\* An event before the n-th triaged the finding that is on.
TriagedBefore(n) ==
  \E m \in 1..(n-1) : /\ events[m].finding = events[n].finding
                      /\ events[m].type = "status_change"
                      /\ events[m].to = "triaged"

\* It holds of what a finding is, of what a request is about to make it, and
\* of what every event made it.
TriageInv ==
  /\ \A i \in DOMAIN findings : findings[i].status \in PastTriage => Ruled(i, "triaged")
  /\ \A r \in Reviews :
        review[r].op = "transition" /\ review[r].to \in Confirmed => Ruled(review[r].finding, "triaged")
  /\ \A n \in DOMAIN events :
        events[n].type = "status_change" /\ events[n].to \in Confirmed => TriagedBefore(n)

\* The graph has no way into Confirmed but from past triage.
LEMMA ConfirmedFromPastTriage ==
  ASSUME NEW from \in FindingStatus, NEW to \in Confirmed, is_allowed(from, to)
  PROVE  from \in PastTriage
BY DEF FindingStatus, Confirmed, PastTriage, is_allowed, ALLOWED_TRANSITIONS

\* A ruling once made stays in the trail.
LEMMA RulingsStay ==
  ASSUME IndInv, [Next]_vars, NEW i, NEW to, Ruled(i, to)
  PROVE  Ruled(i, to)'
<1>1. CASE events' = events
  BY <1>1 DEF Ruled, EventsOn
<1>2. ASSUME NEW e \in FindingEventRow, events' = Append(events, e) PROVE Ruled(i, to)'
  <2>1. /\ DOMAIN events \subseteq DOMAIN events'
        /\ \A n \in DOMAIN events : events'[n] = events[n]
    BY <1>2, AppendKeeps DEF IndInv, TypeOK, StoreTypeOK
  <2> QED
    BY <2>1 DEF Ruled, EventsOn
<1>3. CASE UNCHANGED storeVars \/ \E s \in Scans : Commit(s)
  BY <1>1, <1>3 DEF storeVars, Commit
<1>4. CASE ReviewNext
  BY <1>1, <1>2, <1>4, ReviewResult DEF IndInv
<1> QED
  BY <1>3, <1>4, StoreSteps

\* A step that adds no event, moves no status and takes up no request keeps it.
LEMMA TriageUndisturbed ==
  ASSUME IndInv, TriageInv, [Next]_vars, UNCHANGED <<events, review>>,
         \A i \in DOMAIN findings' : \/ findings'[i].status = "new"
                                     \/ i \in DOMAIN findings /\ findings'[i].status = findings[i].status
  PROVE  TriageInv'
BY DEF TriageInv, TriagedBefore, Ruled, EventsOn, PastTriage, Confirmed

\* Every step of a request keeps it.
LEMMA TriageInvIsInductive == IndInv /\ TriageInv /\ [Next]_vars => TriageInv'
<1> SUFFICES ASSUME IndInv, TriageInv, [Next]_vars PROVE TriageInv'
  OBVIOUS
<1>1. CASE UNCHANGED <<findings, events, review>>
  BY <1>1, TriageUndisturbed
<1>2. CASE ScanNext /\ UNCHANGED review
  <2>1. ASSUME NEW s \in Scans, Commit(s) PROVE TriageInv'
    <3>1. ASSUME NEW i \in DOMAIN findings', i \notin DOMAIN findings PROVE findings'[i].status = "new"
      <4>1. PICK k \in Created(s) : i = <<s, k>>
        BY <2>1, <3>1, CommitResult
      <4>2. findings'[i] = by_key[s][k].row
        BY <2>1, <4>1, CommitResult
      <4> QED
        BY <2>1, <4>2 DEF IndInv, SessionInv, SessionOK, CreatedNumbered, Commit, AtCommit
    <3>2. events' = events
      BY <2>1 DEF Commit
    <3> QED
      BY <1>2, <2>1, <3>1, <3>2, CommitResult, TriageUndisturbed
  <2>2. CASE UNCHANGED storeVars
    BY <1>1, <1>2, <2>2 DEF storeVars
  <2>3. UNCHANGED storeVars \/ \E s \in Scans : Commit(s)
    BY <1>2 DEF ScanNext, BeginPersist, ScanStep, ReadFindings, Suppress, Collapse, Create, Retry,
                GiveUp, Abort
  <2> QED
    BY <2>1, <2>2, <2>3
<1>3. CASE ReviewNext /\ UNCHANGED scanVars
  <2> PICK r \in Reviews :
         \/ \E i \in DOMAIN findings :
              \/ \E to \in FindingStatus : BeginTransition(r, i, to)
              \/ \E to \in BOOLEAN : BeginInReport(r, i, to)
         \/ CommitTransition(r)
         \/ CommitInReport(r)
         \/ AbortReview(r)
    BY <1>3 DEF ReviewNext
  <2>1. /\ Reviews = DOMAIN review
        /\ \A i \in DOMAIN findings : findings[i].status \in FindingStatus
    BY DEF IndInv, TypeOK, ReviewTypeOK, StoreTypeOK, FindingRow
  \* A request that begins decides on the status it loads.
  <2>2. ASSUME UNCHANGED storeVars PROVE TriageInv'
    <3>1. UNCHANGED <<findings, events>>
      BY <2>2 DEF storeVars
    <3>2. ASSUME NEW p \in Reviews, review'[p].op = "transition", review'[p].to \in Confirmed
          PROVE  Ruled(review'[p].finding, "triaged")
      <4>1. CASE review'[p] = review[p]
        BY <3>2, <4>1 DEF TriageInv
      <4>2. CASE review'[p] # review[p]
        <5>1. p = r
          BY <2>1, <4>2 DEF BeginTransition, BeginInReport, CommitTransition, CommitInReport,
                            AbortReview
        <5>2. review'[p].op # "none"
          BY <3>2
        <5>3. review'[p] # NoReview
          BY <5>2 DEF NoReview
        <5>4. ASSUME NEW i \in DOMAIN findings, NEW to \in FindingStatus, BeginTransition(r, i, to)
              PROVE  Ruled(review'[p].finding, "triaged")
          <6>1. /\ review'[p].finding = i /\ review'[p].to = to
                /\ is_allowed(findings[i].status, to)
            BY <2>1, <5>1, <5>4 DEF BeginTransition
          <6>2. findings[i].status \in PastTriage
            BY <2>1, <3>2, <6>1, ConfirmedFromPastTriage
          <6> QED
            BY <6>1, <6>2 DEF TriageInv
        <5>5. ASSUME NEW i \in DOMAIN findings, NEW to \in BOOLEAN, BeginInReport(r, i, to)
              PROVE  FALSE
          BY <2>1, <3>2, <5>1, <5>5 DEF BeginInReport
        <5>6. CommitTransition(r) \/ CommitInReport(r) \/ AbortReview(r) => review'[r] = NoReview
          BY <2>1 DEF CommitTransition, CommitInReport, AbortReview
        <5> QED
          BY <5>1, <5>3, <5>4, <5>5, <5>6
      <4> QED
        BY <4>1, <4>2
    <3>3. ASSUME NEW i, Ruled(i, "triaged") PROVE Ruled(i, "triaged")'
      BY <3>3, RulingsStay
    <3> QED
      BY <3>1, <3>2 DEF TriageInv, TriagedBefore, Ruled, EventsOn
  \* What a request commits it had decided on the status it loaded.
  <2>3. ASSUME NEW e \in FindingEventRow, Recorded(e) PROVE TriageInv'
    <3>1. /\ events \in Seq(FindingEventRow) /\ events' = Append(events, e)
          /\ e.finding \in DOMAIN findings /\ DOMAIN findings' = DOMAIN findings
      BY <1>3, <2>3, ReviewResult DEF IndInv, TypeOK, StoreTypeOK, Recorded
    <3>2. /\ Len(events) \in Nat
          /\ DOMAIN events = 1..Len(events)
          /\ DOMAIN events' = 1..(Len(events) + 1)
          /\ \A n \in DOMAIN events : events'[n] = events[n]
          /\ events'[Len(events) + 1] = e
      BY <3>1, AppendKeeps
    <3>3. e.type = "status_change" /\ e.to \in Confirmed => Ruled(e.finding, "triaged")
      BY <2>3 DEF Recorded, Requested, TriageInv
    <3>4. ASSUME NEW i \in DOMAIN findings', findings'[i].status \in PastTriage
          PROVE  Ruled(i, "triaged")'
      <4>1. CASE i = e.finding /\ e.type = "status_change"
        <5>1. findings'[i].status = e.to
          BY <2>3, <3>1, <4>1 DEF Recorded
        <5>2. CASE e.to = "triaged"
          BY <3>2, <4>1, <5>2 DEF Ruled, EventsOn
        <5>3. CASE e.to \in Confirmed
          BY <3>3, <4>1, <5>3, RulingsStay
        <5> QED
          BY <3>4, <5>1, <5>2, <5>3 DEF PastTriage
      <4>2. CASE ~ (i = e.finding /\ e.type = "status_change")
        <5>1. findings'[i].status = findings[i].status
          BY <2>3, <3>1, <4>2 DEF Recorded
        <5> QED
          BY <3>1, <3>4, <5>1, RulingsStay DEF TriageInv
      <4> QED
        BY <4>1, <4>2
    <3>5. ASSUME NEW p \in Reviews, review'[p].op = "transition", review'[p].to \in Confirmed
          PROVE  Ruled(review[p].finding, "triaged")'
      <4>1. review'[p] = review[p] \/ review'[p] = NoReview
        <5>1. DOMAIN events' # DOMAIN events
          <6>1. Len(events) + 1 \in DOMAIN events' /\ Len(events) + 1 \notin DOMAIN events
            BY <3>2
          <6> QED
            BY <6>1
        <5>2. ~ UNCHANGED storeVars
          BY <5>1 DEF storeVars
        <5> QED
          BY <2>1, <5>2 DEF BeginTransition, BeginInReport, CommitTransition, CommitInReport,
                            AbortReview
      <4>2. review'[p] = review[p]
        BY <3>5, <4>1 DEF NoReview
      <4>3. PICK i : i = review[p].finding
        OBVIOUS
      <4>4. Ruled(i, "triaged")
        BY <3>5, <4>2, <4>3 DEF TriageInv
      <4>5. Ruled(i, "triaged")'
        BY <4>4, RulingsStay
      <4> QED
        BY <4>2, <4>3, <4>5 DEF Ruled, EventsOn
    <3>6. ASSUME NEW n \in DOMAIN events', events'[n].type = "status_change", events'[n].to \in Confirmed
          PROVE  TriagedBefore(n)'
      <4>1. CASE n \in DOMAIN events
        <5>1. TriagedBefore(n)
          BY <3>2, <3>6, <4>1 DEF TriageInv
        <5> QED
          BY <3>2, <4>1, <5>1 DEF TriagedBefore
      <4>2. CASE n = Len(events) + 1
        <5>1. PICK m \in EventsOn(e.finding, "status_change") : events[m].to = "triaged"
          BY <3>2, <3>3, <3>6, <4>2 DEF Ruled
        <5>2. /\ m \in 1..Len(events) /\ events[m].finding = e.finding
              /\ events[m].type = "status_change"
          BY <3>2, <5>1 DEF EventsOn
        <5> QED
          BY <3>2, <4>2, <5>1, <5>2 DEF TriagedBefore
      <4> QED
        BY <3>2, <4>1, <4>2
    <3> QED
      BY <3>4, <3>5, <3>6 DEF TriageInv
  <2> QED
    BY <1>3, <2>2, <2>3, ReviewRecords DEF IndInv
<1>4. CASE UNCHANGED vars
  BY <1>1, <1>4 DEF vars, storeVars
<1> QED
  BY <1>2, <1>3, <1>4 DEF Next

\* It holds in every reachable state.
LEMMA TriageAlways == Spec => []TriageInv
<1>1. Init => TriageInv
  BY DEF Init, StoreInit, ReviewInit, NoReview, TriageInv
<1>2. IndInv /\ TriageInv /\ [Next]_vars => TriageInv'
  BY TriageInvIsInductive
<1> QED
  BY <1>1, <1>2, Invariance, PTL DEF Spec

\* No finding is ever confirmed that a human did not triage before, even by
\* requests that overlap (lifecycle.py).
THEOREM ConfirmedWasTriaged == Spec => []ValidatedWasTriaged
<1>1. TriageInv => ValidatedWasTriaged
  BY DEF TriageInv, TriagedBefore, Confirmed, ValidatedWasTriaged
<1> QED
  BY <1>1, TriageAlways, PTL

-----------------------------------------------------------------------------
(***************************************************************************)
(* Only a human takes a finding out of the report or moves it forward: what  *)
(* the report reads of a row (report.py) is on the row's trail, whatever     *)
(* requests were lost to a race.                                           *)
(***************************************************************************)

\* A finding that is out of the report was excluded by some event.
Excluded(i) == \E n \in EventsOn(i, "in_report_toggle") : ~ events[n].in_report

ExclusionInv == \A i \in DOMAIN findings : ~ findings[i].in_report => Excluded(i)

\* A request writes the flag together with the event that says so.
LEMMA ExclusionInvIsInductive == IndInv /\ AuditInv /\ ExclusionInv /\ [Next]_vars => ExclusionInv'
<1> SUFFICES ASSUME IndInv, AuditInv, ExclusionInv, [Next]_vars,
                    NEW i \in DOMAIN findings', ~ findings'[i].in_report
             PROVE  Excluded(i)'
  BY DEF ExclusionInv
<1>1. CASE UNCHANGED storeVars
  BY <1>1 DEF storeVars, ExclusionInv, Excluded, EventsOn
<1>2. ASSUME NEW s \in Scans, Commit(s) PROVE Excluded(i)'
  <2>1. i \in DOMAIN findings
    <3>1. \A k \in Created(s) : findings'[<<s, k>>].in_report
      BY <1>2, CommitResult DEF Commit, AtCommit, AuditInv, CreatedUntouched, Fresh
    <3>2. i \in DOMAIN findings \/ \E k \in Created(s) : i = <<s, k>>
      BY <1>2, CommitResult
    <3> QED
      BY <3>1, <3>2
  <2>2. ~ findings[i].in_report
    BY <1>2, <2>1, CommitResult
  <2> QED
    BY <1>2, <2>1, <2>2 DEF Commit, ExclusionInv, Excluded, EventsOn
<1>3. ASSUME ReviewNext, NEW e \in FindingEventRow, Recorded(e) PROVE Excluded(i)'
  <2>1. /\ i \in DOMAIN findings
        /\ events \in Seq(FindingEventRow) /\ events' = Append(events, e)
    BY <1>3, ReviewResult DEF IndInv, TypeOK, StoreTypeOK, Recorded
  <2>2. /\ DOMAIN events' = DOMAIN events \cup {Len(events) + 1}
        /\ \A n \in DOMAIN events : events'[n] = events[n]
        /\ events'[Len(events) + 1] = e
    BY <2>1, AppendKeeps
  <2>3. CASE findings[i].in_report
    <3>1. PICK r \in Reviews : FlagMoved(r, e)
      BY <1>3, ReviewFlags DEF IndInv
    <3>2. i = e.finding /\ e.type = "in_report_toggle" /\ ~ e.in_report
      BY <2>1, <2>3, <3>1, Zenon DEF FlagMoved
    <3>3. Len(events) + 1 \in EventsOn(i, "in_report_toggle")'
      BY <2>2, <3>2 DEF EventsOn
    <3> QED
      BY <2>2, <3>2, <3>3 DEF Excluded
  <2>4. CASE ~ findings[i].in_report
    BY <2>1, <2>2, <2>4 DEF ExclusionInv, Excluded, EventsOn
  <2> QED
    BY <2>3, <2>4
<1> QED
  BY <1>1, <1>2, <1>3, StoreSteps, ReviewRecords DEF IndInv

\* What the report reads of every row is what humans recorded of it: a row out
\* of the report was excluded by an event, a false positive is one by the last
\* ruling, and one the report shows as validated was triaged before, or its
\* risk accepted, and is neither by the last ruling (engagement_report).
RowsHonourHumans ==
  \A i \in DOMAIN findings :
    LET moved == EventsOn(i, "status_change")
    IN  /\ ~ findings[i].in_report => Excluded(i)
        /\ findings[i].status = "false_positive" =>
             moved # {} /\ events[Latest(moved)].to = "false_positive"
        /\ findings[i].status \notin {"new", "triaged", "false_positive"} =>
             /\ Ruled(i, "triaged") \/ Ruled(i, "accepted_risk")
             /\ events[Latest(moved)].to \notin {"triaged", "false_positive"}

\* The rows the report reads honour what humans recorded in every reachable
\* state, however many requests overlap (transition_finding, set_finding_in_report).
THEOREM RowsFollowHumans == Spec => []RowsHonourHumans
<1>1. Init => ExclusionInv
  BY DEF Init, StoreInit, ExclusionInv
<1>2. ASSUME IndInv, AuditInv, TriageInv, ExclusionInv PROVE RowsHonourHumans
  <2> SUFFICES ASSUME NEW i \in DOMAIN findings
               PROVE  LET moved == EventsOn(i, "status_change")
                      IN  /\ ~ findings[i].in_report => Excluded(i)
                          /\ findings[i].status = "false_positive" =>
                               moved # {} /\ events[Latest(moved)].to = "false_positive"
                          /\ findings[i].status \notin {"new", "triaged", "false_positive"} =>
                               /\ Ruled(i, "triaged") \/ Ruled(i, "accepted_risk")
                               /\ events[Latest(moved)].to \notin {"triaged", "false_positive"}
    BY DEF RowsHonourHumans
  <2> PICK E : E = EventsOn(i, "status_change")
    OBVIOUS
  <2>1. findings[i].status = IF E = {} THEN "new" ELSE events[Latest(E)].to
    BY <1>2 DEF AuditInv, AuditExplainsStatus
  <2>2. E # {} => Latest(E) \in E
    <3>1. Len(events) \in Nat /\ E \in SUBSET (1..Len(events))
      BY <1>2 DEF EventsOn, IndInv, TypeOK, StoreTypeOK
    <3> QED
      BY <3>1, LatestIsLast
  <2>3. findings[i].status \in FindingStatus
    BY <1>2 DEF IndInv, TypeOK, StoreTypeOK, FindingRow
  <2>4. findings[i].status \in PastTriage => Ruled(i, "triaged")
    BY <1>2 DEF TriageInv
  <2>5. findings[i].status = "accepted_risk" => Ruled(i, "accepted_risk")
    BY <2>1, <2>2 DEF Ruled
  <2>6. findings[i].status \notin {"new", "triaged", "false_positive"} =>
          findings[i].status \in Confirmed \cup {"accepted_risk"}
    BY <2>3 DEF FindingStatus, Confirmed
  <2>7. ~ findings[i].in_report => Excluded(i)
    BY <1>2 DEF ExclusionInv
  <2> QED
    BY <2>1, <2>4, <2>5, <2>6, <2>7 DEF PastTriage
<1> QED
  BY <1>1, <1>2, ExclusionInvIsInductive, Invariance, AuditAlways, TriageAlways, PTL DEF Spec

-----------------------------------------------------------------------------
(***************************************************************************)
(* The report shows and leaves out what the rows say (report.py).           *)
(***************************************************************************)

\* The instance's lists are lists.
LEMMA ReportLists ==
  /\ \A S : R!Cardinality(S) = Cardinality(S)
  /\ \A S, A : R!InOrder(S, A) = InOrder(S, A)
  /\ \A s, order : R!Picked(s, order) = Picked(s, order)
  /\ \A s, P : R!Kept(s, P) = Kept(s, P)
  /\ \A s, P : R!WorstFirst(s, P) = Worse(s, P)
<1>1. \A S : R!Cardinality(S) = Cardinality(S)
  BY DEF R!Cardinality, Cardinality
<1>2. \A S, A : R!InOrder(S, A) = InOrder(S, A)
  BY DEF R!InOrder, InOrder, R!Cardinality, Cardinality
<1>3. \A s, order : R!Picked(s, order) = Picked(s, order)
  BY DEF R!Picked, Picked
<1>4. \A s, P : R!Kept(s, P) = Kept(s, P)
  BY <1>2, <1>3 DEF R!Kept, Kept
<1>5. \A s, P : R!WorstFirst(s, P) = Worse(s, P)
  BY DEF R!WorstFirst, Worse
<1> QED
  BY <1>1, <1>2, <1>3, <1>4, <1>5

\* The list the report reads: every finding once, at its label.
LEMMA FindingsInLabelOrder ==
  ASSUME IndInv
  PROVE  /\ _findings \in Seq(FindingRow)
         /\ \A i \in DOMAIN findings : /\ findings[i].label \in DOMAIN _findings
                                       /\ _findings[findings[i].label] = findings[i]
         /\ \A n \in DOMAIN _findings : _findings[n].label = n /\ _findings[n] \in FindingRow
<1> PICK N \in Nat : N = FindingCount
  <2>1. IsFiniteSet(DOMAIN findings)
    BY DEF IndInv, TypeOK, StoreTypeOK
  <2> QED
    BY <2>1, FS_CardinalityType DEF FindingCount
<1>1. \A i \in DOMAIN findings : findings[i] \in FindingRow
  BY DEF IndInv, TypeOK, StoreTypeOK
<1>2. /\ \A i, j \in DOMAIN findings : findings[i].label = findings[j].label => i = j
      /\ {findings[i].label : i \in DOMAIN findings} = 1..N
  BY DEF IndInv, DenseLabels, FindingCount
<1>3. \A n \in 1..N : FindingLabelled(n) \in DOMAIN findings /\ findings[FindingLabelled(n)].label = n
  <2> SUFFICES ASSUME NEW n \in 1..N
               PROVE  FindingLabelled(n) \in DOMAIN findings /\ findings[FindingLabelled(n)].label = n
    OBVIOUS
  <2>1. \E i \in DOMAIN findings : findings[i].label = n
    BY <1>2
  <2> QED
    BY <2>1 DEF FindingLabelled
<1>4. _findings = [n \in 1..N |-> findings[FindingLabelled(n)]]
  BY DEF _findings
<1>5. _findings \in [1..N -> FindingRow] /\ DOMAIN _findings = 1..N
  BY <1>1, <1>3, <1>4
<1>6. _findings \in Seq(FindingRow)
  BY <1>5, IsASeq
<1>7. ASSUME NEW i \in DOMAIN findings
      PROVE  findings[i].label \in DOMAIN _findings /\ _findings[findings[i].label] = findings[i]
  <2>1. findings[i].label \in 1..N
    BY <1>2
  <2>2. FindingLabelled(findings[i].label) = i
    BY <1>2, <1>3, <2>1
  <2> QED
    BY <1>4, <1>5, <2>1, <2>2
<1>8. \A n \in DOMAIN _findings : _findings[n].label = n /\ _findings[n] \in FindingRow
  BY <1>3, <1>4, <1>5
<1> QED
  BY <1>6, <1>7, <1>8

\* The findings section has the labels of the rows that are in the report and
\* not false positives; the validated section those of them that moved on.
LEMMA SectionsShow ==
  ASSUME IndInv, NEW i \in DOMAIN findings
  PROVE  LET report == engagement_report
             Shown(section) == {section[n].label : n \in DOMAIN section}
         IN  /\ findings[i].label \in Shown(report.findings) <=>
                  (findings[i].in_report /\ findings[i].status # "false_positive")
             /\ findings[i].label \in Shown(report.validated) =>
                  findings[i].status \notin {"new", "triaged", "false_positive"}
<1> DEFINE keep  == {n \in DOMAIN _findings : _findings[n].in_report /\ _findings[n].status # "false_positive"}
           kept  == R!report_findings(_findings)
           moved == {n \in DOMAIN kept : kept[n].status \notin {"new", "triaged"}}
           l     == findings[i].label
<1>1. /\ _findings \in Seq(FindingRow)
      /\ l \in DOMAIN _findings /\ _findings[l] = findings[i]
      /\ \A n \in DOMAIN _findings : _findings[n].label = n /\ _findings[n] \in FindingRow
  BY FindingsInLabelOrder
<1>2. keep \in SUBSET DOMAIN _findings /\ DOMAIN _findings \subseteq Int
  BY <1>1, LenProperties
<1>3. kept = Picked(_findings, InOrder(keep, Worse(_findings, keep)))
  BY ReportLists DEF R!report_findings
<1>4. Orders(Worse(_findings, keep), keep)
  <2>1. \A n \in keep : _findings[n].severity \in Int /\ _findings[n].label \in Int
    BY <1>1, <1>2 DEF FindingRow, Severity
  <2> HIDE DEF keep
  <2> QED
    BY <1>2, <2>1, WorseOrders
<1>5. engagement_report.findings = kept /\ engagement_report.validated = Kept(kept, moved)
  BY ReportLists DEF engagement_report, R!ReportSections, R!MACHINE_STATUSES
<1>6. /\ kept \in Seq(FindingRow)
      /\ \A x : (\E k \in DOMAIN kept : kept[k] = x) <=> \E n \in keep : _findings[n] = x
  <2> HIDE DEF keep, kept
  <2>1. /\ kept \in Seq(FindingRow)
        /\ DOMAIN kept = 1..Cardinality(keep)
        /\ \E at \in [1..Cardinality(keep) -> keep] :
             /\ \A n \in keep : \E k \in 1..Cardinality(keep) : at[k] = n
             /\ \A k \in 1..Cardinality(keep) : kept[k] = _findings[at[k]]
    BY <1>1, <1>2, <1>3, <1>4, SortedElements
  <2> QED
    BY <2>1
<1>7. l \in {kept[k].label : k \in DOMAIN kept} <=> l \in keep
  <2> HIDE DEF kept, keep, l
  <2>1. ASSUME l \in keep PROVE l \in {kept[k].label : k \in DOMAIN kept}
    BY <1>1, <1>6, <2>1
  <2>2. ASSUME NEW k \in DOMAIN kept, l = kept[k].label PROVE l \in keep
    BY <1>1, <1>2, <1>6, <2>2, SMTT(30)
  <2> QED
    BY <2>1, <2>2
<1>8. l \in keep <=> (findings[i].in_report /\ findings[i].status # "false_positive")
  BY <1>1, Zenon
<1>9. ASSUME NEW n \in DOMAIN Kept(kept, moved), l = Kept(kept, moved)[n].label
      PROVE  l \in keep /\ findings[i].status \notin {"new", "triaged"}
  <2> HIDE DEF keep, kept
  <2>1. moved \in SUBSET DOMAIN kept
    OBVIOUS
  <2>2. \E k \in moved : Kept(kept, moved)[n] = kept[k]
    <3> HIDE DEF moved
    <3>1. ToSet(Kept(kept, moved)) = {kept[k] : k \in moved}
      BY <1>6, <2>1, KeptSet
    <3> QED
      BY <3>1 DEF ToSet
  <2>3. PICK k \in moved : l = kept[k].label /\ kept[k].status \notin {"new", "triaged"}
    BY <1>9, <2>2
  <2>4. k \in DOMAIN kept
    OBVIOUS
  <2>5. PICK m \in keep : _findings[m] = kept[k]
    BY <1>6, <2>4
  <2>6. m = l
    BY <1>1, <1>2, <2>3, <2>5
  <2> QED
    BY <1>1, <2>3, <2>5, <2>6
<1> QED
  BY <1>5, <1>7, <1>8, <1>9

\* Nobody but a human takes a finding out of the report or presents it as
\* validated, whatever requests are lost to a race (engagement_report,
\* report.py).
THEOREM ReportsFollowHumans == Spec => []ReportHonoursHumans
<1>1. ASSUME IndInv, RowsHonourHumans PROVE ReportHonoursHumans
  <2> SUFFICES ASSUME NEW i \in DOMAIN findings
               PROVE  LET report == engagement_report
                          Shown(section) == {section[n].label : n \in DOMAIN section}
                          label == findings[i].label
                          moved == EventsOn(i, "status_change")
                      IN  /\ label \notin Shown(report.findings) =>
                               \/ moved # {} /\ events[Latest(moved)].to = "false_positive"
                               \/ \E n \in EventsOn(i, "in_report_toggle") : ~ events[n].in_report
                          /\ label \in Shown(report.validated) =>
                               /\ \E n \in moved : events[n].to \in {"triaged", "accepted_risk"}
                               /\ events[Latest(moved)].to \notin {"triaged", "false_positive"}
    BY DEF ReportHonoursHumans
  <2> QED
    BY <1>1, SectionsShow DEF RowsHonourHumans, Excluded, Ruled
<1> QED
  BY <1>1, RowsFollowHumans, Invariance, PTL

-----------------------------------------------------------------------------
(***************************************************************************)
(* The ledger.  Its mapping, with the tables it reads as parameters: what a  *)
(* lemma says of any table holds of the one before a step and of the one     *)
(* after it.                                                               *)
(***************************************************************************)

LedgerIn(F) ==
  [n \in 1..Cardinality(DOMAIN F) |-> F[CHOOSE i \in DOMAIN F : F[i].label = n].key]

RefsIn(F, E) ==
  {[key |-> F[i].key, scan |-> F[i].scan, draft |-> F[i].draft] : i \in DOMAIN F}
    \cup {[key |-> F[e.finding].key, scan |-> e.scan, draft |-> e.draft] : e \in E}

StatusIn(F) ==
  [k \in Keys |-> LET of == {i \in DOMAIN F : F[i].key = k}
                  IN  IF of = {} THEN "new" ELSE F[CHOOSE i \in of : TRUE].status]

TriagedKeys == {k \in Keys : \E i \in FindingsOf(k) : Ruled(i, "triaged")}

\* A table whose labels are PVX-1..PVX-N and whose keys are distinct.
Numbered(F) ==
  /\ IsFiniteSet(DOMAIN F)
  /\ \A i \in DOMAIN F : F[i].key \in Keys
  /\ \A i, j \in DOMAIN F : F[i].key = F[j].key => i = j
  /\ \A i, j \in DOMAIN F : F[i].label = F[j].label => i = j
  /\ {F[i].label : i \in DOMAIN F} = 1..Cardinality(DOMAIN F)

\* The finding table is one.
LEMMA TableNumbered == IndInv => Numbered(findings)
BY DEF IndInv, TypeOK, StoreTypeOK, FindingRow, OneFindingPerKey, DenseLabels, Numbered

\* The n-th entry of its ledger is the key of the finding labelled n.
LEMMA LedgerEntries ==
  ASSUME NEW F, Numbered(F)
  PROVE  /\ Cardinality(DOMAIN F) \in Nat
         /\ Len(LedgerIn(F)) = Cardinality(DOMAIN F)
         /\ LedgerIn(F) \in Seq(Keys)
         /\ \A i \in DOMAIN F : /\ F[i].label \in 1..Len(LedgerIn(F))
                                /\ LedgerIn(F)[F[i].label] = F[i].key
         /\ \A n \in 1..Len(LedgerIn(F)) : \E i \in DOMAIN F : F[i].label = n
<1>1. Cardinality(DOMAIN F) \in Nat
  BY FS_CardinalityType DEF Numbered
<1>2. \A n \in 1..Cardinality(DOMAIN F) : \E i \in DOMAIN F : F[i].label = n
  BY DEF Numbered
<1>3. \A i \in DOMAIN F : F[i].label \in 1..Cardinality(DOMAIN F)
  BY DEF Numbered
<1>4. ASSUME NEW i \in DOMAIN F PROVE LedgerIn(F)[F[i].label] = F[i].key
  <2>1. i = CHOOSE j \in DOMAIN F : F[j].label = F[i].label
    BY DEF Numbered
  <2> QED
    BY <1>3, <2>1 DEF LedgerIn
<1>5. \A n \in 1..Cardinality(DOMAIN F) : LedgerIn(F)[n] \in Keys
  BY <1>2, <1>4 DEF Numbered
<1>6. DOMAIN LedgerIn(F) = 1..Cardinality(DOMAIN F)
  BY DEF LedgerIn
<1>7. LedgerIn(F) = [n \in 1..Cardinality(DOMAIN F) |-> LedgerIn(F)[n]]
  BY DEF LedgerIn
<1> PICK l : l = LedgerIn(F)
  OBVIOUS
<1>8. l \in Seq(Keys) /\ Len(l) = Cardinality(DOMAIN F)
  BY <1>1, <1>5, <1>6, <1>7
<1> QED
  BY <1>1, <1>2, <1>3, <1>4, <1>8

\* The status of a key is that of its finding.
LEMMA StatusOfKey ==
  ASSUME NEW F, Numbered(F)
  PROVE  /\ \A i \in DOMAIN F : StatusIn(F)[F[i].key] = F[i].status
         /\ \A k \in Keys : (\A i \in DOMAIN F : F[i].key # k) => StatusIn(F)[k] = "new"
<1>1. ASSUME NEW i \in DOMAIN F PROVE StatusIn(F)[F[i].key] = F[i].status
  <2>1. {j \in DOMAIN F : F[j].key = F[i].key} = {i}
    BY DEF Numbered
  <2> QED
    BY <2>1 DEF StatusIn, Numbered
<1>2. ASSUME NEW k \in Keys, \A i \in DOMAIN F : F[i].key # k PROVE StatusIn(F)[k] = "new"
  <2>1. {i \in DOMAIN F : F[i].key = k} = {}
    BY <1>2
  <2> QED
    BY <2>1 DEF StatusIn
<1> QED
  BY <1>1, <1>2

-----------------------------------------------------------------------------
\* The steps of the ledger, in these terms.
LEMMA RecordMeans ==
  ASSUME NEW s \in Scans,
         Len(LedgerIn(findings)) <= Len(LedgerIn(findings')),
         \A n \in 1..Len(LedgerIn(findings)) : LedgerIn(findings')[n] = LedgerIn(findings)[n],
         \A m, n \in 1..Len(LedgerIn(findings')) :
            LedgerIn(findings')[m] = LedgerIn(findings')[n] => m = n,
         RefsIn(findings, evidence) \subseteq RefsIn(findings', evidence'),
         \A r \in RefsIn(findings', evidence') \ RefsIn(findings, evidence) :
            r.scan = s /\ \E n \in 1..Len(LedgerIn(findings')) : r.key = LedgerIn(findings')[n],
         \A n \in Len(LedgerIn(findings))+1..Len(LedgerIn(findings')) :
            \E r \in RefsIn(findings', evidence') : r.scan = s /\ r.key = LedgerIn(findings')[n],
         StatusIn(findings') = StatusIn(findings),
         TriagedKeys' = TriagedKeys
  PROVE  Ledger!Next
<1>1. Ledger!Record(s)
  BY DEF Ledger!Record, Ledger!Issues, LedgerIn, RefsIn, StatusIn, TriagedKeys, FindingLabelled,
         FindingsOf
<1> QED
  BY <1>1 DEF Ledger!Next

\* What a step must do to statuses, trail and triage to be the ledger's Judge.
LEMMA JudgeMeans ==
  ASSUME NEW k \in Keys, NEW to \in FindingStatus \ {"new"},
         \E n \in 1..Len(LedgerIn(findings)) : k = LedgerIn(findings)[n],
         to = "validated" => k \in TriagedKeys,
         StatusIn(findings') = [StatusIn(findings) EXCEPT ![k] = to],
         TriagedKeys' = IF to = "triaged" THEN TriagedKeys \cup {k} ELSE TriagedKeys,
         LedgerIn(findings') = LedgerIn(findings),
         RefsIn(findings', evidence') = RefsIn(findings, evidence)
  PROVE  Ledger!Next
<1>1. Ledger!Judge(k)
  BY DEF Ledger!Judge, Ledger!Issues, LedgerIn, RefsIn, StatusIn, TriagedKeys, FindingLabelled,
         FindingsOf, Ledger!FindingStatus, FindingStatus
<1> QED
  BY <1>1 DEF Ledger!Next

\* A step that leaves these four readings alone is a stutter of the ledger.
LEMMA StutterMeans ==
  ASSUME StatusIn(findings') = StatusIn(findings),
         TriagedKeys' = TriagedKeys,
         LedgerIn(findings') = LedgerIn(findings),
         RefsIn(findings', evidence') = RefsIn(findings, evidence)
  PROVE  UNCHANGED Ledger!ledgerVars
BY DEF Ledger!ledgerVars, LedgerIn, RefsIn, StatusIn, TriagedKeys, FindingLabelled, FindingsOf

-----------------------------------------------------------------------------
(***************************************************************************)
(* A commit of a scan is a Record.                                         *)
(***************************************************************************)

\* Which rows a commit adds, and what it keeps of the others.
LEMMA CommitAdds ==
  ASSUME IndInv, [Next]_vars, NEW s \in Scans, Commit(s)
  PROVE  /\ DOMAIN findings \subseteq DOMAIN findings'
         /\ \A i \in DOMAIN findings : /\ findings'[i].key = findings[i].key
                                       /\ findings'[i].label = findings[i].label
                                       /\ findings'[i].scan = findings[i].scan
                                       /\ findings'[i].draft = findings[i].draft
                                       /\ findings'[i].status = findings[i].status
         /\ \A i \in DOMAIN findings' \ DOMAIN findings :
              findings'[i].scan = s /\ findings'[i].status = "new"
         /\ evidence' = evidence \cup appended[s] /\ UNCHANGED events
         /\ \A e \in appended[s] : e.scan = s
         /\ \A e \in evidence : e.finding \in DOMAIN findings
         /\ \A e \in evidence' : e.finding \in DOMAIN findings'
         /\ Numbered(findings) /\ Numbered(findings')
<1>1. SessionOK(s)
  BY DEF IndInv, SessionInv, Commit, AtCommit
<1>2. ASSUME NEW i \in DOMAIN findings' \ DOMAIN findings
      PROVE  findings'[i].scan = s /\ findings'[i].status = "new"
  <2>1. PICK k \in Created(s) : i = <<s, k>>
    BY CommitResult
  <2>2. findings'[i] = by_key[s][k].row
    BY <2>1, CommitResult
  <2> QED
    BY <1>1, <2>2 DEF SessionOK, CreatedNumbered
<1>3. IndInv'
  BY IndInvIsInductive
<1>4. Numbered(findings) /\ Numbered(findings')
  BY <1>3, TableNumbered DEF IndInv, TypeOK, StoreTypeOK, FindingRow, OneFindingPerKey, DenseLabels,
                             Numbered
<1>5. \A e \in evidence' : e.finding \in DOMAIN findings'
  BY <1>3 DEF IndInv, NothingOrphaned
<1>6. \A e \in evidence : e.finding \in DOMAIN findings
  BY DEF IndInv, NothingOrphaned
<1>7. \A e \in appended[s] : e.scan = s
  BY <1>1 DEF SessionOK, AppendedNamed
<1>8. evidence' = evidence \cup appended[s] /\ UNCHANGED events
  BY DEF Commit
<1> QED
  BY <1>2, <1>4, <1>5, <1>6, <1>7, <1>8, CommitResult

\* The numbered list grows by the rows added.
LEMMA CommitLedger ==
  ASSUME IndInv, [Next]_vars, NEW s \in Scans, Commit(s)
  PROVE  /\ Len(LedgerIn(findings)) <= Len(LedgerIn(findings'))
         /\ \A n \in 1..Len(LedgerIn(findings)) : LedgerIn(findings')[n] = LedgerIn(findings)[n]
         /\ \A m, n \in 1..Len(LedgerIn(findings')) :
              LedgerIn(findings')[m] = LedgerIn(findings')[n] => m = n
         /\ \A n \in Len(LedgerIn(findings))+1..Len(LedgerIn(findings')) :
              \E i \in DOMAIN findings' \ DOMAIN findings :
                 findings'[i].key = LedgerIn(findings')[n]
<1> PICK F, G, l, m : F = findings /\ G = findings' /\ l = LedgerIn(findings) /\ m = LedgerIn(findings')
  OBVIOUS
<1>1. /\ Cardinality(DOMAIN F) \in Nat /\ Len(l) = Cardinality(DOMAIN F)
      /\ \A i \in DOMAIN F : F[i].label \in 1..Len(l) /\ l[F[i].label] = F[i].key
      /\ \A n \in 1..Len(l) : \E i \in DOMAIN F : F[i].label = n
  BY CommitAdds, LedgerEntries
<1>2. /\ Cardinality(DOMAIN G) \in Nat /\ Len(m) = Cardinality(DOMAIN G)
      /\ \A i \in DOMAIN G : G[i].label \in 1..Len(m) /\ m[G[i].label] = G[i].key
      /\ \A n \in 1..Len(m) : \E i \in DOMAIN G : G[i].label = n
  BY CommitAdds, LedgerEntries
<1>3. /\ DOMAIN F \subseteq DOMAIN G
      /\ \A i \in DOMAIN F : G[i].key = F[i].key /\ G[i].label = F[i].label
  BY CommitAdds
<1>4. Len(l) <= Len(m)
  <2>1. IsFiniteSet(DOMAIN G)
    BY CommitAdds DEF Numbered
  <2> QED
    BY <1>1, <1>2, <1>3, <2>1, FS_Subset
<1>5. \A n \in 1..Len(l) : m[n] = l[n]
  BY <1>1, <1>2, <1>3
<1>6. \A a, b \in 1..Len(m) : m[a] = m[b] => a = b
  <2>1. \A i, j \in DOMAIN G : G[i].key = G[j].key => i = j
    BY CommitAdds DEF Numbered
  <2> QED
    BY <1>2, <2>1
<1>7. ASSUME NEW n \in Len(l)+1..Len(m)
      PROVE  \E i \in DOMAIN G \ DOMAIN F : G[i].key = m[n]
  <2>1. PICK i \in DOMAIN G : G[i].label = n
    BY <1>1, <1>2
  <2>2. i \notin DOMAIN F
    BY <1>1, <1>3, <2>1
  <2> QED
    BY <1>2, <2>1, <2>2
<1> QED
  BY <1>4, <1>5, <1>6, <1>7

\* The evidence for the issues grows, and what is new is the scan's own.
LEMMA CommitRefs ==
  ASSUME IndInv, [Next]_vars, NEW s \in Scans, Commit(s)
  PROVE  /\ RefsIn(findings, evidence) \subseteq RefsIn(findings', evidence')
         /\ \A r \in RefsIn(findings', evidence') \ RefsIn(findings, evidence) :
              r.scan = s /\ \E i \in DOMAIN findings' : r.key = findings'[i].key
         /\ \A i \in DOMAIN findings' \ DOMAIN findings :
              \E r \in RefsIn(findings', evidence') : r.scan = s /\ r.key = findings'[i].key
<1> PICK F, G, E, D : F = findings /\ G = findings' /\ E = evidence /\ D = evidence'
  OBVIOUS
<1>1. /\ DOMAIN F \subseteq DOMAIN G
      /\ \A i \in DOMAIN F : G[i].key = F[i].key /\ G[i].scan = F[i].scan /\ G[i].draft = F[i].draft
      /\ \A i \in DOMAIN G \ DOMAIN F : G[i].scan = s
      /\ E \subseteq D /\ \A e \in D \ E : e.scan = s
      /\ \A e \in E : e.finding \in DOMAIN F
      /\ \A e \in D : e.finding \in DOMAIN G
  BY CommitAdds
<1>2. ASSUME NEW r \in RefsIn(F, E) PROVE r \in RefsIn(G, D)
  <2>1. CASE \E i \in DOMAIN F : r = [key |-> F[i].key, scan |-> F[i].scan, draft |-> F[i].draft]
    <3>1. PICK i \in DOMAIN F : r = [key |-> F[i].key, scan |-> F[i].scan, draft |-> F[i].draft]
      BY <2>1
    <3>2. r = [key |-> G[i].key, scan |-> G[i].scan, draft |-> G[i].draft] /\ i \in DOMAIN G
      BY <1>1, <3>1
    <3> QED
      BY <3>2 DEF RefsIn
  <2>2. CASE \E e \in E : r = [key |-> F[e.finding].key, scan |-> e.scan, draft |-> e.draft]
    BY <1>1, <2>2 DEF RefsIn
  <2> QED
    BY <2>1, <2>2 DEF RefsIn
<1>3. ASSUME NEW r \in RefsIn(G, D), r \notin RefsIn(F, E)
      PROVE  r.scan = s /\ \E i \in DOMAIN G : r.key = G[i].key
  <2>1. ASSUME NEW i \in DOMAIN G, r = [key |-> G[i].key, scan |-> G[i].scan, draft |-> G[i].draft]
        PROVE  r.scan = s /\ r.key = G[i].key
    <3>1. i \notin DOMAIN F
      BY <1>1, <1>3, <2>1 DEF RefsIn
    <3> QED
      BY <1>1, <2>1, <3>1
  <2>2. ASSUME NEW e \in D, r = [key |-> G[e.finding].key, scan |-> e.scan, draft |-> e.draft]
        PROVE  r.scan = s /\ r.key = G[e.finding].key /\ e.finding \in DOMAIN G
    <3>1. e \notin E
      BY <1>1, <1>3, <2>2 DEF RefsIn
    <3> QED
      BY <1>1, <2>2, <3>1
  <2> QED
    BY <2>1, <2>2 DEF RefsIn
<1>4. ASSUME NEW i \in DOMAIN G \ DOMAIN F
      PROVE  \E r \in RefsIn(G, D) : r.scan = s /\ r.key = G[i].key
  <2>1. [key |-> G[i].key, scan |-> G[i].scan, draft |-> G[i].draft] \in RefsIn(G, D)
    BY DEF RefsIn
  <2> QED
    BY <1>1, <2>1
<1> QED
  BY <1>2, <1>3, <1>4

\* A scan rules on nothing.
LEMMA CommitStatus ==
  ASSUME IndInv, [Next]_vars, NEW s \in Scans, Commit(s)
  PROVE  /\ StatusIn(findings') = StatusIn(findings)
         /\ TriagedKeys' = TriagedKeys
<1> PICK F, G : F = findings /\ G = findings'
  OBVIOUS
<1>1. /\ DOMAIN F \subseteq DOMAIN G
      /\ \A i \in DOMAIN F : G[i].key = F[i].key /\ G[i].status = F[i].status
      /\ \A i \in DOMAIN G \ DOMAIN F : G[i].status = "new"
      /\ Numbered(F) /\ Numbered(G)
  BY CommitAdds
<1>2. ASSUME NEW k \in Keys PROVE StatusIn(G)[k] = StatusIn(F)[k]
  <2>1. CASE \E i \in DOMAIN F : F[i].key = k
    BY <1>1, <2>1, StatusOfKey
  <2>2. CASE ~ \E i \in DOMAIN F : F[i].key = k
    <3>1. StatusIn(F)[k] = "new"
      BY <1>1, <2>2, StatusOfKey
    <3>2. CASE \E i \in DOMAIN G : G[i].key = k
      <4>1. PICK i \in DOMAIN G : G[i].key = k
        BY <3>2
      <4>2. i \notin DOMAIN F
        BY <1>1, <2>2, <4>1
      <4> QED
        BY <1>1, <3>1, <4>1, <4>2, StatusOfKey
    <3>3. CASE ~ \E i \in DOMAIN G : G[i].key = k
      BY <1>1, <3>1, <3>3, StatusOfKey
    <3> QED
      BY <3>2, <3>3
  <2> QED
    BY <2>1, <2>2
<1>3. StatusIn(G) = StatusIn(F)
  BY <1>2 DEF StatusIn
<1>4. ASSUME NEW i PROVE Ruled(i, "triaged")' <=> Ruled(i, "triaged")
  BY CommitAdds DEF Ruled, EventsOn
<1>5. ASSUME NEW i, Ruled(i, "triaged") PROVE i \in DOMAIN findings
  BY <1>5 DEF Ruled, EventsOn, IndInv, NothingOrphaned
<1>6. ASSUME NEW k \in Keys
      PROVE  (\E i \in FindingsOf(k)' : Ruled(i, "triaged")') <=> \E i \in FindingsOf(k) : Ruled(i, "triaged")
  BY <1>4, <1>5, CommitAdds DEF FindingsOf
<1>7. TriagedKeys' = TriagedKeys
  BY <1>6 DEF TriagedKeys
<1> QED
  BY <1>3, <1>7

\* What a scan commits, it records.
LEMMA CommitRecords ==
  ASSUME IndInv, [Next]_vars, NEW s \in Scans, Commit(s)
  PROVE  Ledger!Next
<1>1. Numbered(findings')
  BY CommitAdds
<1>2. \A i \in DOMAIN findings' :
        \E n \in 1..Len(LedgerIn(findings')) : findings'[i].key = LedgerIn(findings')[n]
  BY <1>1, LedgerEntries
<1>3. \A r \in RefsIn(findings', evidence') \ RefsIn(findings, evidence) :
        r.scan = s /\ \E n \in 1..Len(LedgerIn(findings')) : r.key = LedgerIn(findings')[n]
  BY <1>2, CommitRefs
<1>4. \A n \in Len(LedgerIn(findings))+1..Len(LedgerIn(findings')) :
        \E r \in RefsIn(findings', evidence') : r.scan = s /\ r.key = LedgerIn(findings')[n]
  BY CommitLedger, CommitRefs
<1> QED
  BY <1>3, <1>4, CommitLedger, CommitRefs, CommitStatus, RecordMeans

-----------------------------------------------------------------------------
(***************************************************************************)
(* A commit of a review is a Judge, or leaves the ledger alone.             *)
(***************************************************************************)

\* No request under way makes a finding new again.
NeverNew == \A r \in Reviews : review[r].op = "transition" => review[r].to # "new"

\* The graph has no way back.
LEMMA NeverNewKeeps == IndInv /\ NeverNew /\ [Next]_vars => NeverNew'
<1> SUFFICES ASSUME IndInv, NeverNew, [Next]_vars, NEW p \in Reviews, review'[p].op = "transition"
             PROVE  review'[p].to # "new"
  BY DEF NeverNew
<1>1. CASE review'[p] = review[p]
  BY <1>1 DEF NeverNew
<1>2. CASE review'[p] # review[p]
  <2>1. Reviews = DOMAIN review /\ \A i \in DOMAIN findings : findings[i].status \in FindingStatus
    BY DEF IndInv, TypeOK, ReviewTypeOK, StoreTypeOK, FindingRow
  <2>2. ReviewNext
    BY <1>2 DEF Next, vars
  <2>3. PICK r \in Reviews :
          \/ \E i \in DOMAIN findings :
               \/ \E to \in FindingStatus : BeginTransition(r, i, to)
               \/ \E to \in BOOLEAN : BeginInReport(r, i, to)
          \/ review' = [review EXCEPT ![r] = NoReview]
    BY <2>2 DEF ReviewNext, CommitTransition, CommitInReport, AbortReview
  <2>4. CASE review' = [review EXCEPT ![r] = NoReview]
    BY <1>2, <2>1, <2>4 DEF NoReview
  <2>5. ASSUME NEW i \in DOMAIN findings, NEW to \in FindingStatus, BeginTransition(r, i, to)
        PROVE  review'[p].to # "new"
    <3>1. p = r /\ review'[p].to = to /\ is_allowed(findings[i].status, to)
      BY <1>2, <2>1, <2>5 DEF BeginTransition
    <3>2. to # "new"
      BY <2>1, <3>1 DEF FindingStatus, is_allowed, ALLOWED_TRANSITIONS
    <3> QED
      BY <3>1, <3>2
  <2>6. ASSUME NEW i \in DOMAIN findings, NEW to \in BOOLEAN, BeginInReport(r, i, to)
        PROVE  FALSE
    <3>1. p = r /\ review'[p].op = "in_report"
      BY <1>2, <2>1, <2>6 DEF BeginInReport
    <3> QED
      BY <3>1
  <2> QED
    BY <2>3, <2>4, <2>5, <2>6
<1> QED
  BY <1>1, <1>2

\* What a table keeps of the ledger if its rows keep their identity.
LEMMA SameIdentity ==
  ASSUME NEW F, NEW G, NEW E, Numbered(F), Numbered(G), DOMAIN G = DOMAIN F,
         \A i \in DOMAIN F : /\ G[i].key = F[i].key /\ G[i].label = F[i].label
                             /\ G[i].scan = F[i].scan /\ G[i].draft = F[i].draft,
         \A e \in E : e.finding \in DOMAIN F
  PROVE  LedgerIn(G) = LedgerIn(F) /\ RefsIn(G, E) = RefsIn(F, E)
<1>1. ASSUME NEW n \in 1..Cardinality(DOMAIN F) PROVE LedgerIn(G)[n] = LedgerIn(F)[n]
  <2>1. PICK i \in DOMAIN F : F[i].label = n
    BY DEF Numbered
  <2> QED
    BY <2>1, LedgerEntries
<1>2. LedgerIn(G) = LedgerIn(F)
  BY <1>1 DEF LedgerIn
<1>3. {[key |-> G[i].key, scan |-> G[i].scan, draft |-> G[i].draft] : i \in DOMAIN G} =
        {[key |-> F[i].key, scan |-> F[i].scan, draft |-> F[i].draft] : i \in DOMAIN F}
  OBVIOUS
<1>4. {[key |-> G[e.finding].key, scan |-> e.scan, draft |-> e.draft] : e \in E} =
        {[key |-> F[e.finding].key, scan |-> e.scan, draft |-> e.draft] : e \in E}
  OBVIOUS
<1>5. RefsIn(G, E) = RefsIn(F, E)
  BY <1>3, <1>4 DEF RefsIn
<1> QED
  BY <1>2, <1>5

\* A review keeps the ledger and the evidence.
LEMMA ReviewLedger ==
  ASSUME IndInv, [Next]_vars, ReviewNext
  PROVE  /\ LedgerIn(findings') = LedgerIn(findings)
         /\ RefsIn(findings', evidence') = RefsIn(findings, evidence)
         /\ Numbered(findings) /\ Numbered(findings')
<1>1. IndInv'
  BY IndInvIsInductive
<1>2. Numbered(findings) /\ Numbered(findings')
  BY <1>1, TableNumbered DEF IndInv, TypeOK, StoreTypeOK, FindingRow, OneFindingPerKey, DenseLabels,
                             Numbered
<1>3. /\ DOMAIN findings' = DOMAIN findings
      /\ \A i \in DOMAIN findings :
           /\ findings'[i].key = findings[i].key /\ findings'[i].label = findings[i].label
           /\ findings'[i].scan = findings[i].scan /\ findings'[i].draft = findings[i].draft
      /\ evidence' = evidence
  BY ReviewResult DEF IndInv
<1>4. \A e \in evidence : e.finding \in DOMAIN findings
  BY DEF IndInv, NothingOrphaned
<1> QED
  BY <1>2, <1>3, <1>4, SameIdentity

\* One event moves the status of one key.
LEMMA RecordedStatus ==
  ASSUME IndInv, [Next]_vars, ReviewNext, NEW e \in FindingEventRow, Recorded(e)
  PROVE  StatusIn(findings') =
           IF e.type = "status_change"
           THEN [StatusIn(findings) EXCEPT ![findings[e.finding].key] = e.to]
           ELSE StatusIn(findings)
<1> PICK F, G, i, k : F = findings /\ G = findings' /\ i = e.finding /\ k = findings[i].key
  OBVIOUS
<1>1. /\ Numbered(F) /\ Numbered(G)
      /\ DOMAIN G = DOMAIN F /\ i \in DOMAIN F /\ k = F[i].key /\ k \in Keys
      /\ \A j \in DOMAIN F : G[j].key = F[j].key
      /\ \A j \in DOMAIN F : G[j].status = IF j = i /\ e.type = "status_change" THEN e.to
                                          ELSE F[j].status
  BY ReviewLedger, ReviewResult DEF IndInv, Recorded, Numbered
<1>2. ASSUME NEW h \in Keys
      PROVE  StatusIn(G)[h] = IF h = k /\ e.type = "status_change" THEN e.to ELSE StatusIn(F)[h]
  <2>1. CASE \E j \in DOMAIN F : F[j].key = h
    <3>1. PICK j \in DOMAIN F : F[j].key = h
      BY <2>1
    <3>2. j = i <=> h = k
      BY <1>1, <3>1 DEF Numbered
    <3>3. StatusIn(G)[h] = G[j].status /\ StatusIn(F)[h] = F[j].status
      BY <1>1, <3>1, StatusOfKey
    <3> QED
      BY <1>1, <3>2, <3>3
  <2>2. CASE ~ \E j \in DOMAIN F : F[j].key = h
    <3>1. h # k
      BY <1>1, <2>2
    <3>2. StatusIn(G)[h] = "new" /\ StatusIn(F)[h] = "new"
      BY <1>1, <2>2, StatusOfKey
    <3> QED
      BY <3>1, <3>2
  <2> QED
    BY <2>1, <2>2
<1>3. StatusIn(G) = [h \in Keys |-> StatusIn(G)[h]] /\ StatusIn(F) = [h \in Keys |-> StatusIn(F)[h]]
  BY DEF StatusIn
<1>4. CASE e.type = "status_change"
  <2>1. StatusIn(G) = [StatusIn(F) EXCEPT ![k] = e.to]
    BY <1>2, <1>3, <1>4
  <2> QED
    BY <1>4, <2>1
<1>5. CASE e.type # "status_change"
  BY <1>2, <1>3, <1>5
<1> QED
  BY <1>4, <1>5

\* One event triages one key, or none.
LEMMA RecordedTriage ==
  ASSUME IndInv, [Next]_vars, ReviewNext, NEW e \in FindingEventRow, Recorded(e)
  PROVE  TriagedKeys' = IF e.type = "status_change" /\ e.to = "triaged"
                        THEN TriagedKeys \cup {findings[e.finding].key} ELSE TriagedKeys
<1>1. /\ events \in Seq(FindingEventRow) /\ events' = Append(events, e)
      /\ DOMAIN findings' = DOMAIN findings /\ e.finding \in DOMAIN findings
      /\ \A i \in DOMAIN findings : findings'[i].key = findings[i].key
      /\ findings[e.finding].key \in Keys
      /\ \A i, j \in DOMAIN findings : findings[i].key = findings[j].key => i = j
  BY ReviewLedger, ReviewResult DEF IndInv, TypeOK, StoreTypeOK, Recorded, Numbered
<1>2. /\ DOMAIN events = 1..Len(events) /\ Len(events) \in Nat
      /\ \A n \in DOMAIN events : events'[n] = events[n]
      /\ events'[Len(events) + 1] = e
  BY <1>1, AppendKeeps
<1>3. ASSUME NEW i
      PROVE  Ruled(i, "triaged")' <=>
               Ruled(i, "triaged") \/ (i = e.finding /\ e.type = "status_change" /\ e.to = "triaged")
  <2>1. EventsOn(i, "status_change") \subseteq DOMAIN events
    BY DEF EventsOn
  <2>2. EventsOn(i, "status_change")' =
          IF e.finding = i /\ e.type = "status_change"
          THEN EventsOn(i, "status_change") \cup {Len(events) + 1} ELSE EventsOn(i, "status_change")
    BY <1>1, AppendedEvents
  <2> QED
    BY <1>2, <2>1, <2>2 DEF Ruled
<1>4. \A k : FindingsOf(k)' = FindingsOf(k)
  BY <1>1 DEF FindingsOf
<1>5. ASSUME NEW k \in Keys
      PROVE  (\E i \in FindingsOf(k)' : Ruled(i, "triaged")') <=>
               \/ \E i \in FindingsOf(k) : Ruled(i, "triaged")
               \/ k = findings[e.finding].key /\ e.type = "status_change" /\ e.to = "triaged"
  BY <1>1, <1>3, <1>4 DEF FindingsOf
<1> QED
  BY <1>1, <1>5 DEF TriagedKeys

\* What a review commits is a judgement on an issue of the ledger.
LEMMA ReviewJudges ==
  ASSUME IndInv, TriageInv, NeverNew, [Next]_vars, ReviewNext,
         NEW e \in FindingEventRow, Recorded(e)
  PROVE  [Ledger!Next]_Ledger!ledgerVars
<1>1. CASE e.type = "status_change"
  <2> PICK k : k = findings[e.finding].key
    OBVIOUS
  <2>1. PICK r \in Reviews : Requested(r, e)
    BY DEF Recorded
  <2>2. review[r].op = "transition" /\ review[r].to = e.to /\ review[r].finding = e.finding
    BY <1>1, <2>1 DEF Requested
  <2>3. e.to \in FindingStatus \ {"new"}
    <3>1. e.to \in FindingStatus
      BY <1>1 DEF FindingEventRow
    <3> QED
      BY <2>2, <3>1 DEF NeverNew
  <2>4. e.finding \in DOMAIN findings /\ k \in Keys
    BY ReviewLedger DEF Recorded, Numbered
  <2>5. e.to = "validated" => k \in TriagedKeys
    <3>1. e.to = "validated" => Ruled(e.finding, "triaged")
      BY <2>2 DEF TriageInv, Confirmed
    <3> QED
      BY <2>4, <3>1 DEF TriagedKeys, FindingsOf
  <2>6. \E n \in 1..Len(LedgerIn(findings)) : k = LedgerIn(findings)[n]
    BY <2>4, ReviewLedger, LedgerEntries
  <2>7. StatusIn(findings') = [StatusIn(findings) EXCEPT ![k] = e.to]
    BY <1>1, RecordedStatus
  <2>8. TriagedKeys' = IF e.to = "triaged" THEN TriagedKeys \cup {k} ELSE TriagedKeys
    BY <1>1, RecordedTriage
  <2> QED
    BY <2>3, <2>4, <2>5, <2>6, <2>7, <2>8, ReviewLedger, JudgeMeans
<1>2. CASE e.type # "status_change"
  <2>1. StatusIn(findings') = StatusIn(findings) /\ TriagedKeys' = TriagedKeys
    BY <1>2, RecordedStatus, RecordedTriage
  <2> QED
    BY <2>1, ReviewLedger, StutterMeans
<1> QED
  BY <1>1, <1>2

-----------------------------------------------------------------------------
\* Every step of scans and reviewers is one of the ledger, or none.
LEMMA StepSimulates ==
  ASSUME IndInv, TriageInv, NeverNew, [Next]_vars
  PROVE  [Ledger!Next]_Ledger!ledgerVars
<1>1. CASE UNCHANGED storeVars
  <2>1. StatusIn(findings') = StatusIn(findings) /\ LedgerIn(findings') = LedgerIn(findings)
    BY <1>1 DEF storeVars
  <2>2. RefsIn(findings', evidence') = RefsIn(findings, evidence)
    BY <1>1 DEF storeVars
  <2>3. TriagedKeys' = TriagedKeys
    BY <1>1 DEF storeVars, TriagedKeys, FindingsOf, Ruled, EventsOn
  <2> QED
    BY <2>1, <2>2, <2>3, StutterMeans
<1>2. ASSUME NEW s \in Scans, Commit(s) PROVE Ledger!Next
  BY <1>2, CommitRecords
<1>3. CASE ReviewNext
  <2>1. CASE \E e \in FindingEventRow : Recorded(e)
    BY <1>3, <2>1, ReviewJudges
  <2> QED
    BY <1>1, <1>3, <2>1, ReviewRecords DEF IndInv
<1> QED
  BY <1>1, <1>2, <1>3, StoreSteps

\* It starts as an empty ledger does.
LEMMA InitSimulates == Init => Ledger!Init
<1> SUFFICES ASSUME Init PROVE Ledger!Init
  OBVIOUS
<1>1. DOMAIN findings = {} /\ evidence = {} /\ events = <<>>
  BY DEF Init, StoreInit
<1>2. Cardinality(DOMAIN findings) = 0
  BY <1>1, FS_EmptySet
<1>3. [n \in 1..Cardinality(DOMAIN findings) |-> findings[FindingLabelled(n)].key] = <<>>
  BY <1>2
<1>4. \A k : FindingsOf(k) = {}
  BY <1>1 DEF FindingsOf
<1> QED
  BY <1>1, <1>3, <1>4 DEF Ledger!Init

\* Whatever their interleaving, scans and reviewers keep the promise of the
\* ledger: a numbered list of distinct issues that only grows, a scan's issues
\* with its own evidence and in one step, and a status only a human changes,
\* to nothing but "validated" what was triaged (_persist_scan and
\* transition_finding together).
THEOREM FindingsImplementLedger == Spec => ImplementsLedger
<1>1. Init => NeverNew
  BY DEF Init, ReviewInit, NoReview, NeverNew
<1>2. IndInv /\ NeverNew /\ [Next]_vars => NeverNew'
  BY NeverNewKeeps
<1>3. IndInv /\ TriageInv /\ NeverNew /\ [Next]_vars => [Ledger!Next]_Ledger!ledgerVars
  BY StepSimulates
<1> QED
  BY <1>1, <1>2, <1>3, InitSimulates, Invariance, TriageAlways, PTL
     DEF Spec, ImplementsLedger, Ledger!Spec

=============================================================================
