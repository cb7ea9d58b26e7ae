---------------------------- MODULE Serial_proofs ----------------------------
(***************************************************************************)
(* What overlap costs.  What the documentation says of findings is true      *)
(* when requests do not overlap, for every set of scans, reviews and         *)
(* captures: then what a request has loaded is what is there when it         *)
(* commits.  When they do, an attempt to persist is lost only to another      *)
(* scan that got through, and a scan gives up only after as many others as   *)
(* it has attempts did.                                                    *)
(***************************************************************************)
EXTENDS Evidence_proofs

-----------------------------------------------------------------------------
(***************************************************************************)
(* The invariant of requests one at a time.                                *)
(***************************************************************************)

\* No two requests are under way.
AtMostOne ==
  /\ \A s, t \in Scans : pc[s] \in InFlight /\ pc[t] \in InFlight => s = t
  /\ \A r, q \in Reviews : review[r] # NoReview /\ review[q] # NoReview => r = q
  /\ \A s \in Scans, r \in Reviews : pc[s] \in InFlight => review[r] = NoReview

\* What a review has loaded is what is there, and the edge it takes is allowed.
ReviewFresh ==
  \A r \in Reviews :
    LET q == review[r]
    IN  /\ q.op = "transition" => /\ findings[q.finding].status = q.current
                                  /\ is_allowed(q.current, q.to)
        /\ q.op = "in_report" => (findings[q.finding].in_report <=> q.loaded)

\* What a scan has read is what is there, but for the severities it raised.
ReadFresh(s) ==
  \A k \in DOMAIN by_key[s] \ Created(s) :
    LET o == by_key[s][k]
    IN  /\ o.row.status = findings[o.id].status
        /\ findings[o.id].severity <= o.row.severity
        /\ k \notin raised[s] => findings[o.id].severity = o.row.severity

\* A row it read is as severe as all it will append to it.
AppendedBelow(s) ==
  \A e \in appended[s] : \A k \in DOMAIN by_key[s] \ Created(s) :
    by_key[s][k].id = e.finding => captured[s][e.draft].severity <= by_key[s][k].row.severity

WalkFresh(s) == ReadFresh(s) /\ AppendedBelow(s)

\* What a request that begins now reads from the clock.
Clock == IF ClockTicks THEN Len(events) ELSE 0

\* Events are stamped in the order of their commits.
StampsGrow ==
  \A m, n \in DOMAIN events : m < n => events[m].created_at <= events[n].created_at

\* No stamp is ahead of the clock, nor of a request under way.
StampInv ==
  /\ StampsGrow
  /\ \A n \in DOMAIN events : events[n].created_at <= Clock
  /\ \A r \in Reviews : review[r] # NoReview =>
       /\ review[r].created_at <= Clock
       /\ \A n \in DOMAIN events : events[n].created_at <= review[r].created_at

\* The last event that set the in-report flag explains it.
Flagged(i) ==
  LET E == EventsOn(i, "in_report_toggle")
  IN  findings[i].in_report <=> (E # {} => events[Latest(E)].in_report)

FlagInv == \A i \in DOMAIN findings : Flagged(i)

SerialInv ==
  /\ AtMostOne
  /\ ReviewFresh
  /\ \A s \in Scans : pc[s] = "drafts" => WalkFresh(s)
  /\ WorstSeverity
  /\ StampInv
  /\ FlagInv

-----------------------------------------------------------------------------
(***************************************************************************)
(* One at a time.                                                          *)
(***************************************************************************)

\* A step moves one request.
LEMMA OneMoves ==
  ASSUME TypeOK, [Next]_vars
  PROVE  \/ /\ UNCHANGED review
            /\ \E s \in Scans :
                 /\ \A t \in Scans : t # s => pc'[t] = pc[t]
                 /\ pc'[s] \in InFlight /\ pc[s] \notin InFlight => pc[s] = "idle" /\ pc'[s] = "read"
         \/ /\ UNCHANGED scanVars
            /\ \E r \in Reviews : \A q \in Reviews : q # r => review'[q] = review[q]
         \/ UNCHANGED vars
<1>1. Scans = DOMAIN pc /\ Reviews = DOMAIN review
  BY DEF TypeOK, ScanTypeOK, ReviewTypeOK
<1>2. CASE ScanNext /\ UNCHANGED review
  <2>1. PICK s \in Scans : (\E drafts \in Captures : BeginPersist(s, drafts)) \/ ScanStep(s) \/ Abort(s)
    BY <1>2 DEF ScanNext
  <2>2. \/ pc[s] = "idle" /\ pc' = [pc EXCEPT ![s] = "read"]
        \/ pc[s] = "read" /\ pc' = [pc EXCEPT ![s] = "drafts"]
        \/ pc' = pc
        \/ pc[s] = "drafts" /\ \E to \in {"done", "read", "failed"} : pc' = [pc EXCEPT ![s] = to]
        \/ pc[s] \in InFlight /\ pc' = [pc EXCEPT ![s] = "aborted"]
    BY <2>1 DEF BeginPersist, ScanStep, ReadFindings, Suppress, Collapse, Create, Commit, Retry,
                GiveUp, Abort, AtCommit
  <2>3. \A t \in Scans : t # s => pc'[t] = pc[t]
    BY <1>1, <2>2
  <2>4. pc'[s] \in InFlight /\ pc[s] \notin InFlight => pc[s] = "idle" /\ pc'[s] = "read"
    BY <1>1, <2>2 DEF InFlight
  <2> QED
    BY <1>2, <2>3, <2>4
<1>3. CASE ReviewNext /\ UNCHANGED scanVars
  BY <1>1, <1>3 DEF ReviewNext, BeginTransition, BeginInReport, CommitTransition, CommitInReport,
                    AbortReview
<1> QED
  BY <1>2, <1>3 DEF Next

\* So no two get under way if each waits for the others.
LEMMA AtMostOneKeeps ==
  ASSUME TypeOK, AtMostOne, [SerialNext]_vars
  PROVE  AtMostOne'
<1>1. CASE UNCHANGED <<pc, review>>
  BY <1>1 DEF AtMostOne
<1>2. ASSUME UNCHANGED review, NEW s \in Scans, \A t \in Scans : t # s => pc'[t] = pc[t],
             pc'[s] \in InFlight /\ pc[s] \notin InFlight => pc[s] = "idle" /\ pc'[s] = "read",
             Begins => Quiet
      PROVE  AtMostOne'
  <2>1. CASE pc'[s] \in InFlight /\ pc[s] \notin InFlight
    <3>1. Quiet
      BY <1>2, <2>1 DEF Begins
    <3> QED
      BY <1>2, <3>1 DEF Quiet, AtMostOne
  <2>2. CASE ~ (pc'[s] \in InFlight /\ pc[s] \notin InFlight)
    <3>1. \A t \in Scans : pc'[t] \in InFlight => pc[t] \in InFlight
      BY <1>2, <2>2
    <3> QED
      BY <1>2, <3>1 DEF AtMostOne
  <2> QED
    BY <2>1, <2>2
<1>3. ASSUME UNCHANGED pc, NEW r \in Reviews, \A q \in Reviews : q # r => review'[q] = review[q],
             Begins => Quiet
      PROVE  AtMostOne'
  <2>1. CASE review[r] = NoReview /\ review'[r] # NoReview
    <3>1. Quiet
      BY <1>3, <2>1 DEF Begins
    <3> QED
      BY <1>3, <3>1 DEF Quiet, AtMostOne
  <2>2. CASE ~ (review[r] = NoReview /\ review'[r] # NoReview)
    <3>1. \A q \in Reviews : review'[q] # NoReview => review[q] # NoReview
      BY <1>3, <2>2
    <3> QED
      BY <1>3, <3>1 DEF AtMostOne
  <2> QED
    BY <2>1, <2>2
<1>4. [Next]_vars
  BY DEF SerialNext
<1>5. UNCHANGED vars \/ (Begins => Quiet)
  BY DEF SerialNext
<1> QED
  BY <1>1, <1>2, <1>3, <1>4, <1>5, OneMoves DEF vars, scanVars

\* While a scan walks its drafts the tables are still.
LEMMA TablesStill ==
  ASSUME TypeOK, ReviewsNamed, AtMostOne, [Next]_vars, NEW s \in Scans, pc[s] = "drafts", pc'[s] = "drafts"
  PROVE  UNCHANGED storeVars
<1>1. ASSUME NEW t \in Scans, Commit(t) PROVE FALSE
  <2>1. pc[t] \in InFlight /\ pc' = [pc EXCEPT ![t] = "done"]
    BY <1>1 DEF Commit, AtCommit, InFlight
  <2>2. t = s
    BY <2>1 DEF AtMostOne, InFlight
  <2> QED
    BY <2>1, <2>2 DEF TypeOK, ScanTypeOK
<1>2. ASSUME ReviewNext, ~ UNCHANGED storeVars PROVE FALSE
  <2>1. PICK e \in FindingEventRow : Recorded(e)
    BY <1>2, ReviewRecords
  <2>2. PICK r \in Reviews : Requested(r, e)
    BY <2>1 DEF Recorded
  <2>3. review[r] # NoReview
    BY <2>2 DEF Requested, NoReview
  <2> QED
    BY <2>3 DEF AtMostOne, InFlight
<1> QED
  BY <1>1, <1>2, StoreSteps

-----------------------------------------------------------------------------
(***************************************************************************)
(* What a scan holds is what is there.                                     *)
(***************************************************************************)

\* Severities are numbers.
LEMMA SeveritiesTyped ==
  ASSUME TypeOK
  PROVE  /\ \A i \in DOMAIN findings : findings[i].severity \in Int
         /\ \A s \in Scans : \A k \in DOMAIN by_key[s] : by_key[s][k].row.severity \in Int
<1>1. \A i \in DOMAIN findings : findings[i].severity \in Severity
  BY DEF TypeOK, StoreTypeOK, FindingRow
<1>2. \A s \in Scans : \A k \in DOMAIN by_key[s] : by_key[s][k].row \in FindingRow
  BY DEF TypeOK, ScanTypeOK, OrmRow
<1>3. \A s \in Scans : \A k \in DOMAIN by_key[s] : by_key[s][k].row.severity \in Severity
  BY <1>2 DEF FindingRow
<1> QED
  BY <1>1, <1>3, MaxSeverityAssumption DEF Severity

\* A read is fresh.
LEMMA ReadIsFresh ==
  ASSUME IndInv, NEW s \in Scans, ReadFindings(s)
  PROVE  WalkFresh(s)'
<1> PICK E : E = existing_findings_by_key
  OBVIOUS
<1>1. /\ by_key'[s] = E /\ raised'[s] = {} /\ appended'[s] = {} /\ UNCHANGED storeVars
  BY DEF ReadFindings, IndInv, TypeOK, ScanTypeOK
<1>2. \A k \in DOMAIN E : E[k].id \in DOMAIN findings /\ E[k].row = findings[E[k].id]
  BY ReadIndexesFindings
<1>3. \A i \in DOMAIN findings : findings[i].severity \in Int
  BY SeveritiesTyped DEF IndInv
<1>4. ReadFresh(s)'
  <2>1. ASSUME NEW k \in DOMAIN E
        PROVE  /\ E[k].row.status = findings[E[k].id].status
               /\ findings[E[k].id].severity <= E[k].row.severity
               /\ findings[E[k].id].severity = E[k].row.severity
    BY <1>2, <1>3
  <2> QED
    BY <1>1, <2>1 DEF ReadFresh, storeVars
<1> QED
  BY <1>1, <1>4 DEF WalkFresh, AppendedBelow

\* Collapsing keeps it fresh.
LEMMA CollapseIsFresh ==
  ASSUME IndInv, NEW s \in Scans, WalkOK(s), WalkFresh(s), Collapse(s)
  PROVE  WalkFresh(s)'
<1> PICK k : k = Draft(s).key
  OBVIOUS
<1>0. /\ HasDraft(s)
      /\ k \in DOMAIN by_key[s] /\ DOMAIN by_key'[s] = DOMAIN by_key[s]
      /\ \A j \in DOMAIN by_key[s] :
           /\ by_key'[s][j].id = by_key[s][j].id
           /\ by_key'[s][j].row.draft = by_key[s][j].row.draft
           /\ by_key'[s][j].row.status = by_key[s][j].row.status
           /\ j # k => by_key'[s][j] = by_key[s][j]
      /\ by_key'[s][k].row.severity = IF Draft(s).severity > by_key[s][k].row.severity
                                      THEN Draft(s).severity ELSE by_key[s][k].row.severity
      /\ Created(s)' = Created(s)
      /\ raised'[s] = IF Draft(s).severity > by_key[s][k].row.severity
                      THEN raised[s] \cup {k} ELSE raised[s]
      /\ appended'[s] = appended[s] \cup
           {[finding |-> by_key[s][k].id, scan |-> s, draft |-> next[s]]}
      /\ UNCHANGED <<storeVars, captured>>
  <2>1. TypeOK
    BY DEF IndInv
  <2> QED
    BY <2>1, CollapseResult
<1> PICK new : new = [finding |-> by_key[s][k].id, scan |-> s, draft |-> next[s]]
  OBVIOUS
<1> PICK B, C, sev : B = by_key[s] /\ C = by_key'[s] /\ sev = Draft(s).severity
  OBVIOUS
<1>1. /\ HasDraft(s) /\ pc[s] = "drafts"
      /\ k \in DOMAIN B /\ DOMAIN C = DOMAIN B
      /\ \A j \in DOMAIN B : /\ C[j].id = B[j].id
                             /\ C[j].row.status = B[j].row.status
                             /\ j # k => C[j] = B[j]
      /\ C[k].row.severity = IF sev > B[k].row.severity THEN sev ELSE B[k].row.severity
      /\ Created(s)' = Created(s)
      /\ raised'[s] = IF sev > B[k].row.severity THEN raised[s] \cup {k} ELSE raised[s]
      /\ appended'[s] = appended[s] \cup {new}
      /\ UNCHANGED <<storeVars, captured>>
  <2>1. pc[s] = "drafts"
    BY <1>0 DEF HasDraft
  <2> QED
    BY <1>0, <2>1
<1>2. /\ new.finding = B[k].id /\ new.draft = next[s]
      /\ captured[s][next[s]].severity = sev
      /\ sev \in Int
      /\ \A j \in DOMAIN B : B[j].row.severity \in Int
      /\ \A i \in DOMAIN findings : findings[i].severity \in Int
      /\ Created(s) \subseteq DOMAIN B
  <2>1. sev \in Int
    <3>1. sev \in Severity
      BY <1>1, DraftTyped DEF IndInv
    <3> QED
      BY <3>1, MaxSeverityAssumption DEF Severity
  <2>2. captured[s][next[s]] = Draft(s)
    BY DEF Draft
  <2>3. TypeOK
    BY DEF IndInv
  <2> QED
    BY <2>1, <2>2, <2>3, SeveritiesTyped DEF Created
<1>3. \A j \in DOMAIN B \ Created(s) : B[j].id \in DOMAIN findings
  BY <1>1, SessionIds
<1>4. ReadFresh(s)'
  <2>1. ASSUME NEW j \in DOMAIN B \ Created(s)
        PROVE  /\ C[j].id = B[j].id
               /\ C[j].row.status = findings[B[j].id].status
               /\ findings[B[j].id].severity <= C[j].row.severity
               /\ j \notin raised'[s] => findings[B[j].id].severity = C[j].row.severity
    <3>1. /\ B[j].row.status = findings[B[j].id].status
          /\ findings[B[j].id].severity <= B[j].row.severity
          /\ j \notin raised[s] => findings[B[j].id].severity = B[j].row.severity
      BY DEF WalkFresh, ReadFresh
    <3>2. /\ C[j].id = B[j].id
          /\ C[j].row.status = B[j].row.status
          /\ findings[B[j].id].severity \in Int
          /\ B[j].row.severity \in Int
      BY <1>1, <1>2, <1>3
    <3>3. CASE j # k
      <4>1. C[j] = B[j] /\ (j \notin raised'[s] => j \notin raised[s])
        BY <1>1, <3>3
      <4> QED
        BY <3>1, <3>2, <4>1
    <3>4. CASE j = k /\ sev > B[k].row.severity
      <4>1. C[j].row.severity = sev /\ j \in raised'[s]
        BY <1>1, <3>4
      <4> QED
        BY <1>2, <3>1, <3>2, <3>4, <4>1, SMTT(30)
    <3>5. CASE j = k /\ ~ (sev > B[k].row.severity)
      <4>1. C[j].row.severity = B[j].row.severity /\ raised'[s] = raised[s]
        BY <1>1, <3>5
      <4> QED
        BY <3>1, <3>2, <4>1
    <3> QED
      BY <3>3, <3>4, <3>5
  <2>2. findings' = findings /\ DOMAIN by_key'[s] = DOMAIN B
    BY <1>1 DEF storeVars
  <2>3. \A j \in DOMAIN B \ Created(s) :
          /\ by_key'[s][j].row.status = findings'[by_key'[s][j].id].status
          /\ findings'[by_key'[s][j].id].severity <= by_key'[s][j].row.severity
          /\ j \notin raised'[s] => findings'[by_key'[s][j].id].severity = by_key'[s][j].row.severity
    BY <2>1, <2>2
  <2> QED
    BY <1>1, <2>2, <2>3 DEF ReadFresh
<1>5. AppendedBelow(s)'
  <2> SUFFICES ASSUME NEW e \in appended[s] \cup {new}, NEW j \in DOMAIN B \ Created(s),
                      B[j].id = e.finding
               PROVE  captured[s][e.draft].severity <= C[j].row.severity
    BY <1>1 DEF AppendedBelow
  <2>1. CASE e \in appended[s]
    <3>1. captured[s][e.draft].severity <= B[j].row.severity
      BY <2>1 DEF WalkFresh, AppendedBelow
    <3>2. captured[s][e.draft].severity \in Int
      <4>1. e.draft \in 1..(next[s] - 1) /\ next[s] <= Len(captured[s])
        BY <1>1, <2>1 DEF WalkOK, AppendedHeld, HasDraft
      <4> QED
        BY <4>1, WalkBound
    <3>3. CASE j # k
      BY <1>1, <3>1, <3>3
    <3>4. CASE j = k
      BY <1>1, <1>2, <3>1, <3>2, <3>4
    <3> QED
      BY <3>3, <3>4
  <2>2. CASE e = new
    <3>1. j = k
      <4>1. B[j].id[2] = j /\ B[k].id[2] = k
        BY <1>1, SessionIds
      <4> QED
        BY <1>2, <2>2, <4>1
    <3> QED
      BY <1>1, <1>2, <2>2, <3>1
  <2> QED
    BY <2>1, <2>2
<1> QED
  BY <1>4, <1>5 DEF WalkFresh

\* Creating a row keeps it fresh.
LEMMA CreateIsFresh ==
  ASSUME IndInv, NEW s \in Scans, WalkFresh(s), Create(s)
  PROVE  WalkFresh(s)'
<1> PICK k : k = Draft(s).key
  OBVIOUS
<1> PICK B : B = by_key[s]
  OBVIOUS
<1>1. /\ k \notin DOMAIN B
      /\ DOMAIN by_key'[s] = DOMAIN B \cup {k}
      /\ \A j \in DOMAIN B : by_key'[s][j] = B[j]
      /\ Created(s)' = Created(s) \cup {k}
      /\ raised'[s] = raised[s] /\ appended'[s] = appended[s]
      /\ UNCHANGED <<storeVars, captured>>
  <2>1. TypeOK
    BY DEF IndInv
  <2> QED
    BY <2>1, CreateResult
<1>2. Created(s) \subseteq DOMAIN B
  BY DEF Created
<1>3. DOMAIN by_key'[s] \ Created(s)' = DOMAIN B \ Created(s)
  BY <1>1, <1>2
<1>4. ReadFresh(s)' /\ AppendedBelow(s)'
  BY <1>1, <1>3 DEF WalkFresh, ReadFresh, AppendedBelow, storeVars
<1> QED
  BY <1>4 DEF WalkFresh

\* Every walk stays fresh: nobody commits while it goes on.
LEMMA WalkFreshKeeps ==
  ASSUME IndInv, EvidenceInv, SerialInv, [Next]_vars, NEW s \in Scans, pc'[s] = "drafts"
  PROVE  WalkFresh(s)'
<1>1. pc[s] = "drafts" => WalkOK(s) /\ WalkFresh(s)
  BY DEF EvidenceInv, SerialInv
<1>2. CASE ReadFindings(s)
  BY <1>2, ReadIsFresh
<1>3. CASE Collapse(s)
  BY <1>1, <1>3, CollapseIsFresh DEF Collapse, HasDraft
<1>4. CASE Create(s)
  BY <1>1, <1>4, CreateIsFresh DEF Create, HasDraft
<1>5. CASE pc[s] = "drafts" /\ UNCHANGED <<by_key[s], raised[s], appended[s]>>
  <2>1. UNCHANGED storeVars
    BY <1>5, TablesStill DEF IndInv, SerialInv
  <2>2. captured'[s] = captured[s]
    BY <1>5, CapturedStays
  <2>3. Created(s)' = Created(s)
    BY <1>5 DEF Created
  <2> QED
    BY <1>1, <1>5, <2>1, <2>2, <2>3
       DEF storeVars, WalkFresh, ReadFresh, AppendedBelow
<1>6. CASE Suppress(s)
  BY <1>5, <1>6 DEF Suppress, HasDraft
<1> QED
  BY <1>2, <1>3, <1>4, <1>5, <1>6, WalkSteps DEF IndInv

-----------------------------------------------------------------------------
(***************************************************************************)
(* What a review commits is what it loaded, and moves it on.                *)
(***************************************************************************)

\* A review that commits was the only request under way.
LEMMA LastReview ==
  ASSUME IndInv, AtMostOne, ReviewNext, ~ UNCHANGED storeVars
  PROVE  \A q \in Reviews : review'[q] = NoReview
<1>1. PICK r \in Reviews : CommitTransition(r) \/ CommitInReport(r)
  BY DEF ReviewNext, BeginTransition, BeginInReport, AbortReview
<1>2. review[r] # NoReview /\ review' = [review EXCEPT ![r] = NoReview]
  BY <1>1 DEF CommitTransition, CommitInReport, NoReview
<1> QED
  BY <1>2 DEF AtMostOne, IndInv, TypeOK, ReviewTypeOK

\* The report flag after a review that adds event e is the one e gives.
FlagRecorded(e) ==
  \A i \in DOMAIN findings :
    findings'[i].in_report <=>
      IF i = e.finding /\ e.type = "in_report_toggle" THEN e.in_report ELSE findings[i].in_report

\* A review that commits leaves the report flag as its event says.
LEMMA FlagsRecorded ==
  ASSUME IndInv, ReviewFresh, ReviewNext, NEW e \in FindingEventRow, Recorded(e)
  PROVE  FlagRecorded(e)
<1>1. PICK r \in Reviews : Requested(r, e) /\ FlagMoved(r, e)
  BY ReviewFlags DEF IndInv
<1>2. ASSUME NEW i \in DOMAIN findings, i = e.finding, e.type = "in_report_toggle"
      PROVE  findings'[i].in_report <=> e.in_report
  <2>1. review[r].op = "in_report" /\ review[r].finding = i
    BY <1>1, <1>2 DEF Requested
  <2>2. findings[i].in_report <=> review[r].loaded
    BY <2>1, Zenon DEF ReviewFresh
  <2>3. CASE e.in_report = review[r].loaded
    <3>1. findings'[i].in_report <=> findings[i].in_report
      BY <1>1, <2>3, Zenon DEF FlagMoved
    <3> QED
      BY <2>2, <2>3, <3>1, Zenon
  <2>4. CASE e.in_report # review[r].loaded
    BY <1>1, <1>2, <2>4, Zenon DEF FlagMoved
  <2> QED
    BY <2>3, <2>4
<1>3. ASSUME NEW i \in DOMAIN findings, ~ (i = e.finding /\ e.type = "in_report_toggle")
      PROVE  findings'[i].in_report <=> findings[i].in_report
  BY <1>1, <1>3, Zenon DEF FlagMoved
<1> QED
  BY <1>2, <1>3, Zenon DEF FlagRecorded

\* The status a review commits follows the one there by an allowed edge.
LEMMA ReviewMoves ==
  ASSUME ReviewFresh, NEW e, Recorded(e), e.type = "status_change"
  PROVE  is_allowed(findings[e.finding].status, e.to)
BY DEF Recorded, Requested, ReviewFresh

\* A review loads what is there, and is alone until it commits.
LEMMA ReviewFreshKeeps ==
  ASSUME IndInv, AtMostOne, ReviewFresh, [Next]_vars
  PROVE  ReviewFresh'
<1>1. Reviews = DOMAIN review /\ Scans = DOMAIN pc
  BY DEF IndInv, TypeOK, ReviewTypeOK, ScanTypeOK
<1>2. CASE \A q \in Reviews : review'[q] = NoReview
  BY <1>2 DEF ReviewFresh, NoReview
<1>3. CASE UNCHANGED <<findings, review>>
  BY <1>3 DEF ReviewFresh
<1>4. ASSUME NEW s \in Scans, Commit(s), UNCHANGED review PROVE ReviewFresh'
  <2>1. pc[s] \in InFlight
    BY <1>4 DEF Commit, AtCommit, InFlight
  <2>2. \A q \in Reviews : review'[q] = NoReview
    BY <1>4, <2>1 DEF AtMostOne
  <2> QED
    BY <1>2, <2>2
<1>5. CASE ReviewNext /\ UNCHANGED storeVars
  <2>1. findings' = findings
    BY <1>5 DEF storeVars
  <2>2. PICK r \in Reviews :
          \/ \E i \in DOMAIN findings :
               \/ \E to \in FindingStatus : BeginTransition(r, i, to)
               \/ \E to \in BOOLEAN : BeginInReport(r, i, to)
          \/ review' = [review EXCEPT ![r] = NoReview]
    BY <1>5 DEF ReviewNext, CommitTransition, CommitInReport, AbortReview
  <2>3. ASSUME NEW p \in Reviews, NEW q, q = review'[p]
        PROVE  /\ q.op = "transition" => /\ findings[q.finding].status = q.current
                                         /\ is_allowed(q.current, q.to)
               /\ q.op = "in_report" => (findings[q.finding].in_report <=> q.loaded)
    <3>1. CASE q = review[p]
      BY <3>1, Zenon DEF ReviewFresh
    <3>2. CASE q = NoReview
      BY <3>2 DEF NoReview
    <3>3. ASSUME NEW i \in DOMAIN findings, NEW to \in FindingStatus, BeginTransition(p, i, to)
          PROVE  /\ q.op = "transition" /\ findings[q.finding].status = q.current
                 /\ is_allowed(q.current, q.to)
      <4>1. q = [op |-> "transition", finding |-> i, created_at |-> _now,
                 current |-> findings[i].status, to |-> to]
        BY <1>1, <2>3, <3>3 DEF BeginTransition
      <4>2. is_allowed(findings[i].status, to)
        BY <3>3 DEF BeginTransition
      <4> QED
        BY <4>1, <4>2
    <3>4. ASSUME NEW i \in DOMAIN findings, NEW to \in BOOLEAN, BeginInReport(p, i, to)
          PROVE  q.op = "in_report" /\ (findings[q.finding].in_report <=> q.loaded)
      <4>1. q = [op |-> "in_report", finding |-> i, created_at |-> _now, current |-> findings[i].status,
                 loaded |-> findings[i].in_report, to |-> to]
        BY <1>1, <2>3, <3>4 DEF BeginInReport
      <4>2. q.op = "in_report" /\ q.finding = i
        BY <4>1
      <4>3. q.loaded <=> findings[i].in_report
        BY <4>1, Zenon
      <4> QED
        BY <4>2, <4>3, Zenon
    <3>5. \/ q = review[p] \/ q = NoReview
          \/ \E i \in DOMAIN findings :
               \/ \E to \in FindingStatus : BeginTransition(p, i, to)
               \/ \E to \in BOOLEAN : BeginInReport(p, i, to)
      <4>1. CASE p = r
        BY <1>1, <2>2, <2>3, <4>1
      <4>2. CASE p # r
        BY <1>1, <2>2, <2>3, <4>2 DEF BeginTransition, BeginInReport
      <4> QED
        BY <4>1, <4>2
    <3> QED
      BY <3>1, <3>2, <3>3, <3>4, <3>5
  <2> QED
    BY <2>1, <2>3, Zenon DEF ReviewFresh
<1>6. CASE ReviewNext /\ ~ UNCHANGED storeVars
  BY <1>2, <1>6, LastReview
<1> QED
  BY <1>3, <1>4, <1>5, <1>6, StoreSteps DEF Next, vars, storeVars

-----------------------------------------------------------------------------
(***************************************************************************)
(* The worst severity.                                                     *)
(***************************************************************************)

\* A row that was read keeps, after the commit, at least the severity it had
\* and that the session has for it.
LEMMA CommitRaises ==
  ASSUME IndInv, EvidenceInv, SerialInv, NEW s \in Scans, Commit(s),
         NEW k \in DOMAIN by_key[s] \ Created(s)
  PROVE  /\ findings[by_key[s][k].id].severity <= findings'[by_key[s][k].id].severity
         /\ by_key[s][k].row.severity <= findings'[by_key[s][k].id].severity
<1> PICK i : i = by_key[s][k].id
  OBVIOUS
<1>1. pc[s] = "drafts" /\ ReadFresh(s)
  BY DEF Commit, AtCommit, SerialInv, WalkFresh
<1>2. i \in DOMAIN findings /\ findings[i].key = k
  BY <1>1, SessionIds
<1>3. findings[i] \in FindingRow /\ findings[i].severity \in Int /\ by_key[s][k].row.severity \in Int
  <2>1. TypeOK
    BY DEF IndInv
  <2> QED
    BY <1>2, <2>1, SeveritiesTyped DEF TypeOK, StoreTypeOK
<1>4. findings'[i] = IF k \in raised[s] THEN [findings[i] EXCEPT !.severity = by_key[s][k].row.severity]
                     ELSE findings[i]
  BY <1>2 DEF Commit, Written
<1>5. findings'[i].severity = IF k \in raised[s] THEN by_key[s][k].row.severity
                              ELSE findings[i].severity
  BY <1>3, <1>4 DEF FindingRow
<1>6. /\ findings[i].severity <= by_key[s][k].row.severity
      /\ k \notin raised[s] => findings[i].severity = by_key[s][k].row.severity
  BY <1>1 DEF ReadFresh
<1> QED
  BY <1>3, <1>5, <1>6

\* Evidence and severity of finding i agree (cf. WorstSeverity).
WorstOf(i) == \A d \in EvidenceOf(i) : SeverityOf(d) <= findings[i].severity

\* A commit leaves every finding with the worst severity of its evidence.
LEMMA CommitWorst ==
  ASSUME IndInv, EvidenceInv, SerialInv, [Next]_vars, NEW s \in Scans, Commit(s), NEW i \in DOMAIN findings'
  PROVE  WorstOf(i)'
<1> PICK B : B = by_key[s]
  OBVIOUS
<1>1. /\ pc[s] = "drafts" /\ WalkOK(s) /\ WalkFresh(s) /\ captured' = captured
      /\ \A n : SeverityOf(<<s, n>>)' = captured[s][n].severity
      /\ evidence' = evidence \cup appended[s]
      /\ \A e \in appended[s] : e.scan = s
  BY AtItsCommit DEF SerialInv, SeverityOf
<1>2. CASE i \notin DOMAIN findings
  <2>1. PICK k \in Created(s) : i = <<s, k>>
    BY <1>2, CommitResult
  <2>2. findings'[i].severity = B[k].row.severity /\ EvidenceOf(i)' = {<<s, n>> : n \in Held(s, k)}
    BY <2>1, CommitResult, CommitEvidence
  <2>3. \A n \in Held(s, k) : captured[s][n].severity <= B[k].row.severity
    BY <1>1 DEF WalkOK, SeverityHeld
  <2> QED
    BY <1>1, <2>2, <2>3 DEF WorstOf
<1>3. CASE i \in DOMAIN findings
  <2>1. findings'[i].scan = findings[i].scan /\ findings'[i].draft = findings[i].draft
    BY <1>3, CommitResult
  <2>2. ASSUME NEW d \in EvidenceOf(i)
        PROVE  SeverityOf(d)' <= findings'[i].severity
    <3>1. SeverityOf(d)' = SeverityOf(d) /\ SeverityOf(d) <= findings[i].severity
      BY <1>1, <1>3 DEF SerialInv, WorstSeverity, SeverityOf
    <3>2. SeverityOf(d) \in Int /\ findings[i].severity \in Int
      BY <1>3, CapturedSeverity, SeveritiesTyped DEF IndInv, EvidenceInv
    <3>3. CASE findings'[i].severity = findings[i].severity
      BY <3>1, <3>3
    <3>4. ASSUME NEW k \in raised[s], k \in DOMAIN B \ Created(s), B[k].id = i,
                 findings'[i].severity = B[k].row.severity
          PROVE  SeverityOf(d)' <= findings'[i].severity
      <4>1. findings[i].severity <= findings'[i].severity
        BY <3>4, CommitRaises
      <4>2. B[k].row.severity \in Int
        BY <3>4, SeveritiesTyped DEF IndInv
      <4> QED
        BY <3>1, <3>2, <3>4, <4>1, <4>2
    <3> QED
      BY <1>3, <3>3, <3>4, CommitSeverity
  <2>3. ASSUME NEW e \in appended[s], e.finding = i
        PROVE  SeverityOf(<<s, e.draft>>)' <= findings'[i].severity
    <3>1. PICK k \in DOMAIN B : B[k].id = i
      BY <1>1, <2>3 DEF WalkOK, AppendedHeld
    <3>2. k \notin Created(s)
      BY <1>3, <3>1, CommitResult DEF Created
    <3>3. captured[s][e.draft].severity <= B[k].row.severity
      BY <1>1, <2>3, <3>1, <3>2 DEF WalkFresh, AppendedBelow
    <3>4. B[k].row.severity <= findings'[i].severity
      BY <3>1, <3>2, CommitRaises
    <3>5. captured[s][e.draft].severity \in Int /\ B[k].row.severity \in Int
      <4>1. e.draft \in DOMAIN captured[s]
        <5>1. e.draft \in 1..(next[s] - 1)
          BY <1>1 DEF WalkOK, AppendedHeld
        <5> QED
          BY <5>1, AtItsCommit
      <4> QED
        BY <3>1, <4>1, WalkBound, SeveritiesTyped DEF IndInv
    <3>6. findings'[i].severity \in Int
      <4>1. TypeOK'
        BY NextTyped DEF IndInv
      <4> QED
        BY <4>1, MaxSeverityAssumption DEF TypeOK, StoreTypeOK, FindingRow, Severity
    <3> QED
      BY <1>1, <3>3, <3>4, <3>5, <3>6
  <2>4. EvidenceOf(i)' = EvidenceOf(i) \cup {<<s, e.draft>> : e \in {x \in appended[s] : x.finding = i}}
    BY <1>1, <2>1 DEF EvidenceOf
  <2> QED
    BY <2>2, <2>3, <2>4 DEF WorstOf
<1> QED
  BY <1>2, <1>3

\* Nothing else touches a severity or the evidence.
LEMMA WorstKeeps ==
  ASSUME IndInv, EvidenceInv, SerialInv, [Next]_vars
  PROVE  WorstSeverity'
<1>1. ASSUME NEW i \in DOMAIN findings, i \in DOMAIN findings', evidence' = evidence,
             findings'[i].draft = findings[i].draft, findings'[i].severity = findings[i].severity
      PROVE  WorstOf(i)'
  <2>1. /\ findings'[i].scan = findings[i].scan
        /\ \A d \in EvidenceOf(i) : SeverityOf(d)' = SeverityOf(d)
    BY CreatorsEvidenceStays
  <2>2. EvidenceOf(i)' = EvidenceOf(i)
    BY <1>1, <2>1 DEF EvidenceOf
  <2> QED
    BY <1>1, <2>1, <2>2 DEF SerialInv, WorstSeverity, WorstOf
<1>2. CASE UNCHANGED storeVars
  BY <1>1, <1>2 DEF storeVars, WorstSeverity, WorstOf
<1>3. CASE ReviewNext
  <2>1. /\ DOMAIN findings' = DOMAIN findings /\ evidence' = evidence
        /\ \A i \in DOMAIN findings : /\ findings'[i].draft = findings[i].draft
                                      /\ findings'[i].severity = findings[i].severity
    BY <1>3, ReviewResult DEF IndInv
  <2> QED
    BY <1>1, <2>1 DEF WorstSeverity, WorstOf
<1>4. ASSUME NEW s \in Scans, Commit(s) PROVE WorstSeverity'
  BY <1>4, CommitWorst DEF WorstSeverity, WorstOf
<1> QED
  BY <1>2, <1>3, <1>4, StoreSteps

-----------------------------------------------------------------------------
(***************************************************************************)
(* The clock.                                                              *)
(***************************************************************************)

\* Times are numbers.
LEMMA StampsTyped ==
  ASSUME TypeOK
  PROVE  /\ Len(events) \in Nat /\ DOMAIN events = 1..Len(events) /\ Clock \in Nat
         /\ \A n \in DOMAIN events : events[n] \in FindingEventRow /\ events[n].created_at \in Nat
         /\ \A r \in Reviews : review[r] # NoReview => review[r].created_at \in Nat
<1>1. events \in Seq(FindingEventRow)
  BY DEF TypeOK, StoreTypeOK
<1>2. Len(events) \in Nat /\ DOMAIN events = 1..Len(events)
      /\ \A n \in DOMAIN events : events[n] \in FindingEventRow
  BY <1>1
<1>3. \A e \in FindingEventRow : e.created_at \in Nat
  BY DEF FindingEventRow
<1>4. \A r \in Reviews : review[r] # NoReview => review[r].created_at \in Nat
  BY DEF TypeOK, ReviewTypeOK, Review
<1> QED
  BY <1>2, <1>3, <1>4 DEF Clock

\* A request that begins alone reads the clock.
LEMMA QuietNow ==
  ASSUME Quiet
  PROVE  _now = Clock
<1>1. {r \in Reviews : review[r] # NoReview} = {}
  BY DEF Quiet
<1>2. Cardinality({r \in Reviews : review[r] # NoReview}) = 0
  BY <1>1, FS_EmptySet
<1> QED
  BY <1>2, ClockAssumption DEF _now, Clock

\* The last to begin is the last to commit: stamps grow.
LEMMA StampKeeps ==
  ASSUME IndInv, AtMostOne, StampInv, [SerialNext]_vars
  PROVE  StampInv'
<1>1. TypeOK /\ [Next]_vars /\ Reviews = DOMAIN review
  BY DEF SerialNext, IndInv, TypeOK, ReviewTypeOK
<1>2. CASE UNCHANGED <<events, review>>
  BY <1>2 DEF StampInv, StampsGrow, Clock
<1>3. CASE ReviewNext /\ UNCHANGED storeVars /\ (Begins => Quiet)
  <2>1. events' = events
    BY <1>3 DEF storeVars
  <2>2. ASSUME NEW p \in Reviews, review'[p] # NoReview
        PROVE  /\ review'[p].created_at <= Clock
               /\ \A n \in DOMAIN events : events[n].created_at <= review'[p].created_at
    <3>1. CASE review'[p] = review[p]
      BY <2>2, <3>1 DEF StampInv
    <3>2. CASE review'[p] # review[p]
      <4>1. \E i \in DOMAIN findings :
              \/ \E to \in FindingStatus : BeginTransition(p, i, to)
              \/ \E to \in BOOLEAN : BeginInReport(p, i, to)
        BY <1>1, <1>3, <2>2, <3>2
           DEF ReviewNext, BeginTransition, BeginInReport, CommitTransition, CommitInReport, AbortReview
      <4>2. review[p] = NoReview /\ review'[p].created_at = _now
        BY <1>1, <4>1 DEF BeginTransition, BeginInReport
      <4>3. Quiet
        BY <1>3, <2>2, <4>2 DEF Begins
      <4>4. review'[p].created_at = Clock
        BY <4>2, <4>3, QuietNow
      <4> QED
        BY <1>1, <4>4, StampsTyped DEF StampInv
    <3> QED
      BY <3>1, <3>2
  <2> QED
    BY <2>1, <2>2 DEF StampInv, StampsGrow, Clock
<1>4. CASE ReviewNext /\ ~ UNCHANGED storeVars
  <2>1. \A q \in Reviews : review'[q] = NoReview
    BY <1>4, LastReview
  <2>2. PICK e \in FindingEventRow : Recorded(e)
    BY <1>1, <1>4, ReviewRecords DEF IndInv
  <2>3. PICK r \in Reviews : Requested(r, e)
    BY <2>2 DEF Recorded
  <2>4. review[r] # NoReview /\ review[r].created_at = e.created_at
    BY <2>3 DEF Requested, NoReview
  <2>5. /\ Len(events) \in Nat
        /\ DOMAIN events = 1..Len(events)
        /\ DOMAIN events' = 1..(Len(events) + 1)
        /\ \A n \in DOMAIN events : events'[n] = events[n]
        /\ events'[Len(events) + 1] = e
        /\ Len(events') = Len(events) + 1
    <3>1. events \in Seq(FindingEventRow) /\ events' = Append(events, e)
      BY <1>1, <2>2 DEF TypeOK, StoreTypeOK, Recorded
    <3> QED
      BY <3>1, AppendKeeps
  <2>6. /\ e.created_at \in Nat /\ Clock \in Nat /\ Clock' \in Nat
        /\ \A n \in DOMAIN events : events[n].created_at \in Nat
        /\ Clock <= Clock'
    BY <1>1, <2>4, <2>5, StampsTyped DEF Clock
  <2>7. /\ e.created_at <= Clock
        /\ \A n \in DOMAIN events : events[n].created_at <= e.created_at
        /\ \A n \in DOMAIN events : events[n].created_at <= Clock
        /\ StampsGrow
    BY <2>4 DEF StampInv
  <2>8. StampsGrow'
    <3> SUFFICES ASSUME NEW m \in DOMAIN events', NEW n \in DOMAIN events', m < n
                 PROVE  events'[m].created_at <= events'[n].created_at
      BY DEF StampsGrow
    <3>1. CASE n \in DOMAIN events
      BY <2>5, <2>7, <3>1 DEF StampsGrow
    <3>2. CASE n = Len(events) + 1
      BY <2>5, <2>7, <3>2
    <3> QED
      BY <2>5, <3>1, <3>2
  <2>9. \A n \in DOMAIN events' : events'[n].created_at <= Clock'
    <3> SUFFICES ASSUME NEW n \in DOMAIN events' PROVE events'[n].created_at <= Clock'
      OBVIOUS
    <3>1. events'[n].created_at \in Nat /\ events'[n].created_at <= Clock
      BY <2>5, <2>6, <2>7
    <3> QED
      BY <2>6, <3>1
  <2> QED
    BY <2>1, <2>8, <2>9 DEF StampInv
<1>5. CASE ScanNext /\ UNCHANGED review
  BY <1>2, <1>5 DEF ScanNext, BeginPersist, ScanStep, ReadFindings, Suppress, Collapse, Create, Commit,
                    Retry, GiveUp, Abort, storeVars
<1> QED
  BY <1>2, <1>3, <1>4, <1>5 DEF SerialNext, Next, vars, storeVars

\* So the order of the stamps is that of the commits.
LastOf(E) == CHOOSE n \in E : \A m \in E \ {n} :
               \/ events[m].created_at < events[n].created_at
               \/ events[m].created_at = events[n].created_at /\ m < n

\* The event with the latest stamp is the one that was written last.
LEMMA LastIsLatest ==
  ASSUME TypeOK, StampsGrow, NEW E \in SUBSET DOMAIN events, E # {}
  PROVE  LastOf(E) = Latest(E)
<1> PICK l : l = Latest(E)
  OBVIOUS
<1>1. /\ DOMAIN events = 1..Len(events) /\ Len(events) \in Nat
      /\ \A n \in E : n \in Nat /\ events[n].created_at \in Nat
  BY StampsTyped
<1>2. l \in E /\ \A m \in E : m <= l
  BY <1>1, LatestIsLast
<1> DEFINE P(n) == \A m \in E \ {n} :
                     \/ events[m].created_at < events[n].created_at
                     \/ events[m].created_at = events[n].created_at /\ m < n
<1>3. P(l)
  <2> SUFFICES ASSUME NEW m \in E \ {l}
               PROVE  \/ events[m].created_at < events[l].created_at
                      \/ events[m].created_at = events[l].created_at /\ m < l
    OBVIOUS
  <2>1. m < l
    BY <1>1, <1>2
  <2>2. events[m].created_at <= events[l].created_at
    BY <1>2, <2>1 DEF StampsGrow
  <2> QED
    BY <1>1, <1>2, <2>1, <2>2
<1>4. ASSUME NEW n \in E, P(n) PROVE n = l
  <2> SUFFICES ASSUME n # l PROVE FALSE
    OBVIOUS
  <2>1. n < l
    BY <1>1, <1>2
  <2>2. events[n].created_at <= events[l].created_at
    BY <1>2, <2>1 DEF StampsGrow
  <2>3. \/ events[l].created_at < events[n].created_at
        \/ events[l].created_at = events[n].created_at /\ l < n
    <3>1. l \in E \ {n}
      BY <1>2
    <3> QED
      BY <1>4, <3>1
  <2> QED
    BY <1>1, <1>2, <2>1, <2>2, <2>3
<1>5. LastOf(E) = CHOOSE n \in E : P(n)
  BY DEF LastOf
<1> HIDE DEF P
<1> QED
  BY <1>2, <1>3, <1>4, <1>5

-----------------------------------------------------------------------------
(***************************************************************************)
(* The report flag.                                                        *)
(***************************************************************************)

\* A commit leaves the flags alone; the rows it adds are in the report, and no
\* event is on them.
LEMMA CommitFlagged ==
  ASSUME IndInv, AuditInv, SerialInv, NEW s \in Scans, Commit(s), NEW i \in DOMAIN findings'
  PROVE  Flagged(i)'
<1>1. /\ events' = events
      /\ EventsOn(i, "in_report_toggle")' = EventsOn(i, "in_report_toggle")
  BY DEF Commit, EventsOn
<1>2. CASE i \in DOMAIN findings
  <2>1. findings'[i].in_report = findings[i].in_report
    BY <1>2, CommitResult
  <2>2. Flagged(i)
    BY <1>2 DEF SerialInv, FlagInv
  <2> QED
    BY <1>1, <2>1, <2>2 DEF Flagged
<1>3. CASE i \notin DOMAIN findings
  <2>1. PICK k \in Created(s) : i = <<s, k>>
    BY <1>3, CommitResult
  <2>2. findings'[i] = by_key[s][k].row
    BY <2>1, CommitResult
  <2>3. by_key[s][k].row.in_report
    BY DEF Commit, AtCommit, AuditInv, CreatedUntouched, Fresh
  <2>4. EventsOn(i, "in_report_toggle") = {}
    BY <1>3 DEF IndInv, NothingOrphaned, EventsOn
  <2> QED
    BY <1>1, <2>2, <2>3, <2>4 DEF Flagged
<1> QED
  BY <1>2, <1>3

\* An event and the flag it gives belong together.
LEMMA RecordFlagged ==
  ASSUME IndInv, FlagInv, NEW e \in FindingEventRow, Recorded(e), FlagRecorded(e), NEW i \in DOMAIN findings
  PROVE  Flagged(i)'
<1>1. /\ events \in Seq(FindingEventRow)
      /\ events' = Append(events, e)
  BY DEF IndInv, TypeOK, StoreTypeOK, Recorded
<1>2. /\ Len(events) \in Nat
      /\ DOMAIN events = 1..Len(events)
      /\ \A n \in DOMAIN events : events'[n] = events[n]
      /\ events'[Len(events) + 1] = e
  BY <1>1, AppendKeeps
<1>3. Flagged(i)
  BY DEF FlagInv
<1> PICK E : E = EventsOn(i, "in_report_toggle")
  OBVIOUS
<1>4. E \in SUBSET (1..Len(events))
  BY <1>2 DEF EventsOn
<1>5. CASE e.finding = i /\ e.type = "in_report_toggle"
  <2>1. EventsOn(i, "in_report_toggle")' = E \cup {Len(events) + 1}
    BY <1>1, <1>5, AppendedEvents
  <2>2. Latest(E \cup {Len(events) + 1}) = Len(events) + 1
    BY <1>2, <1>4, LatestAdded
  <2>3. findings'[i].in_report <=> e.in_report
    BY <1>5, Zenon DEF FlagRecorded
  <2>4. events'[Latest(EventsOn(i, "in_report_toggle")')] = e
    BY <1>2, <2>1, <2>2
  <2>5. EventsOn(i, "in_report_toggle")' # {}
    BY <2>1
  <2> QED
    BY <2>3, <2>4, <2>5, Zenon DEF Flagged, Latest
<1>6. CASE ~ (e.finding = i /\ e.type = "in_report_toggle")
  <2>1. EventsOn(i, "in_report_toggle")' = E
    BY <1>1, <1>6, AppendedEvents
  <2>2. findings'[i].in_report <=> findings[i].in_report
    BY <1>6, Zenon DEF FlagRecorded
  <2>3. E # {} => events'[Latest(E)] = events[Latest(E)]
    <3>1. E # {} => Latest(E) \in E
      BY <1>2, <1>4, LatestIsLast
    <3> QED
      BY <1>2, <1>4, <3>1
  <2>4. findings[i].in_report <=> (E # {} => events[Latest(E)].in_report)
    BY <1>3, Zenon DEF Flagged
  <2>5. findings'[i].in_report <=> (E # {} => events'[Latest(E)].in_report)
    BY <2>2, <2>3, <2>4, Zenon
  <2> QED
    BY <2>1, <2>5, Zenon DEF Flagged, Latest
<1> QED
  BY <1>5, <1>6

\* Every step keeps the flags explained.
LEMMA FlagKeeps ==
  ASSUME IndInv, AuditInv, SerialInv, [Next]_vars
  PROVE  FlagInv'
<1>1. ASSUME NEW i \in DOMAIN findings' PROVE Flagged(i)'
  <2>1. CASE UNCHANGED storeVars
    BY <1>1, <2>1 DEF storeVars, SerialInv, FlagInv, Flagged, EventsOn
  <2>2. ASSUME NEW s \in Scans, Commit(s) PROVE Flagged(i)'
    BY <1>1, <2>2, CommitFlagged
  <2>3. ASSUME ReviewNext, ~ UNCHANGED storeVars PROVE Flagged(i)'
    <3>1. PICK e \in FindingEventRow : Recorded(e)
      BY <2>3, ReviewRecords DEF IndInv
    <3>2. FlagRecorded(e)
      BY <2>3, <3>1, FlagsRecorded DEF SerialInv
    <3>3. i \in DOMAIN findings
      BY <1>1, <2>3, ReviewResult DEF IndInv
    <3> QED
      BY <3>1, <3>2, <3>3, RecordFlagged DEF SerialInv
  <2> QED
    BY <2>1, <2>2, <2>3, StoreSteps
<1> QED
  BY <1>1 DEF FlagInv

-----------------------------------------------------------------------------
(***************************************************************************)
(* The invariant and what follows.                                         *)
(***************************************************************************)

\* The empty database satisfies the invariant of serial use.
LEMMA InitSerial == Init => SerialInv
BY DEF Init, StoreInit, ScanInit, ReviewInit, SerialInv, AtMostOne, InFlight, ReviewFresh, NoReview,
       WorstSeverity, StampInv, StampsGrow, FlagInv

\* One request at a time, what is loaded stays what is there.
LEMMA SerialInvIsInductive == IndInv /\ AuditInv /\ EvidenceInv /\ SerialInv /\ [SerialNext]_vars => SerialInv'
<1> SUFFICES ASSUME IndInv, AuditInv, EvidenceInv, SerialInv, [SerialNext]_vars
             PROVE  SerialInv'
  OBVIOUS
<1>1. [Next]_vars /\ TypeOK
  BY DEF SerialNext, IndInv
<1>2. AtMostOne'
  BY <1>1, AtMostOneKeeps DEF SerialInv
<1>3. ReviewFresh'
  BY <1>1, ReviewFreshKeeps DEF SerialInv
<1>4. \A s \in Scans : pc'[s] = "drafts" => WalkFresh(s)'
  BY <1>1, WalkFreshKeeps
<1>5. WorstSeverity' /\ FlagInv'
  BY <1>1, WorstKeeps, FlagKeeps
<1>6. StampInv'
  BY StampKeeps DEF SerialInv
<1> QED
  BY <1>2, <1>3, <1>4, <1>5, <1>6 DEF SerialInv

\* A system that takes requests one at a time is one that takes them.
LEMMA SerialIsPipeline == SerialSpec => Spec
<1>1. [SerialNext]_vars => [Next]_vars
  BY DEF SerialNext
<1> QED
  BY <1>1, PTL DEF SerialSpec, Spec

\* The invariant of serial use holds as long as requests come one at a time.
LEMMA SerialAlways == SerialSpec => [](IndInv /\ AuditInv /\ EvidenceInv /\ SerialInv)
BY InitSerial, SerialInvIsInductive, SerialIsPipeline, Invariance, AuditAlways, EvidenceAlways, PTL
   DEF SerialSpec

\* "The collapsed finding keeps the worst severity/CVSS of the set": scans one
\* after the other lose no severity (_persist_scan).
THEOREM WorstSeverityKept == SerialSpec => []WorstSeverity
<1>1. SerialInv => WorstSeverity
  BY DEF SerialInv
<1> QED
  BY <1>1, SerialAlways, PTL

\* "A finding a human has marked false_positive is left untouched" by every
\* scan that begins after the ruling (_persist_scan).
THEOREM FalsePositivesUntouched == SerialSpec => FalsePositiveUntouched
<1> DEFINE A == \A i \in DOMAIN findings :
                  findings[i].status = "false_positive" =>
                    /\ findings'[i].severity = findings[i].severity
                    /\ \A e \in evidence' \ evidence : e.finding # i
<1>1. ASSUME IndInv, EvidenceInv, SerialInv, [SerialNext]_vars
      PROVE  [A]_vars
  <2> SUFFICES ASSUME NEW i \in DOMAIN findings, findings[i].status = "false_positive"
               PROVE  /\ findings'[i].severity = findings[i].severity
                      /\ \A e \in evidence' \ evidence : e.finding # i
    OBVIOUS
  <2>1. [Next]_vars
    BY <1>1 DEF SerialNext
  <2>2. ASSUME NEW s \in Scans, Commit(s)
        PROVE  /\ findings'[i].severity = findings[i].severity
               /\ \A e \in evidence' \ evidence : e.finding # i
    <3>1. /\ pc[s] = "drafts" /\ WalkOK(s) /\ WalkFresh(s)
          /\ evidence' = evidence \cup appended[s]
      BY <1>1, <2>2, AtItsCommit DEF SerialInv
    <3>2. ASSUME NEW k \in DOMAIN by_key[s], by_key[s][k].id = i
          PROVE  k \notin Created(s) /\ by_key[s][k].row.status = "false_positive"
      <4>1. k \notin Created(s)
        BY <1>1, <2>2, <3>2, CommitResult DEF Created
      <4> QED
        BY <3>1, <3>2, <4>1 DEF WalkFresh, ReadFresh
    <3>3. ASSUME NEW e \in appended[s], e.finding = i PROVE FALSE
      BY <3>1, <3>2, <3>3 DEF WalkOK, AppendedHeld
    <3>4. ASSUME NEW k \in raised[s], k \in DOMAIN by_key[s] \ Created(s), by_key[s][k].id = i
          PROVE  FALSE
      <4>1. PICK n \in Held(s, k) : TRUE
        BY <3>1 DEF WalkOK, SeverityHeld
      <4>2. [finding |-> i, scan |-> s, draft |-> n] \in appended[s]
        BY <3>4, <4>1 DEF Held
      <4> QED
        BY <3>3, <4>2
    <3>5. findings'[i].severity = findings[i].severity
      BY <1>1, <2>2, <3>4, CommitSeverity
    <3> QED
      BY <3>1, <3>3, <3>5
  <2>3. CASE UNCHANGED storeVars
    BY <2>3 DEF storeVars
  <2>4. CASE ReviewNext
    BY <1>1, <2>4, ReviewResult DEF IndInv
  <2> QED
    BY <2>1, <2>2, <2>3, <2>4, StoreSteps
<1> QED
  BY <1>1, SerialAlways, PTL DEF SerialSpec, FalsePositiveUntouched

\* "Illegal edges are refused deterministically": every status that is
\* committed follows the one it replaces (transition_finding).
THEOREM StatusesFollowLifecycle == SerialSpec => StatusFollowsLifecycle
<1> DEFINE A == \A i \in DOMAIN findings :
                  findings'[i].status # findings[i].status =>
                    is_allowed(findings[i].status, findings'[i].status)
<1>1. ASSUME IndInv, SerialInv, [SerialNext]_vars
      PROVE  [A]_vars
  <2> SUFFICES ASSUME NEW i \in DOMAIN findings, findings'[i].status # findings[i].status
               PROVE  is_allowed(findings[i].status, findings'[i].status)
    OBVIOUS
  <2>1. [Next]_vars
    BY <1>1 DEF SerialNext
  <2>2. ~ UNCHANGED storeVars
    BY DEF storeVars
  <2>3. ReviewNext
    BY <1>1, <2>1, <2>2, StoreSteps, CommitResult
  <2>4. PICK e \in FindingEventRow : Recorded(e)
    BY <1>1, <2>2, <2>3, ReviewRecords DEF IndInv
  <2>5. i = e.finding /\ e.type = "status_change" /\ findings'[i].status = e.to
    BY <2>4 DEF Recorded
  <2> QED
    BY <1>1, <2>4, <2>5, ReviewMoves DEF SerialInv
<1> QED
  BY <1>1, SerialAlways, PTL DEF SerialSpec, StatusFollowsLifecycle

\* "The finding's history is reconstructable": its events, in the order of
\* their created_at, end at the status and the flag it has (FindingEventRow).
THEOREM HistoryIsReconstructable == SerialSpec => []HistoryReconstructable
<1>1. ASSUME IndInv, AuditInv, SerialInv PROVE HistoryReconstructable
  <2> SUFFICES ASSUME NEW i \in DOMAIN findings
               PROVE  LET moved   == EventsOn(i, "status_change")
                          toggled == EventsOn(i, "in_report_toggle")
                      IN  /\ findings[i].status =
                               IF moved = {} THEN "new" ELSE events[LastOf(moved)].to
                          /\ findings[i].in_report = (toggled # {} => events[LastOf(toggled)].in_report)
    BY DEF HistoryReconstructable, LastOf
  <2>1. \A type : EventsOn(i, type) \in SUBSET DOMAIN events
    BY DEF EventsOn
  <2>2. TypeOK /\ StampsGrow
    BY <1>1 DEF IndInv, SerialInv, StampInv
  <2>3. \A type : EventsOn(i, type) # {} => LastOf(EventsOn(i, type)) = Latest(EventsOn(i, type))
    BY <2>1, <2>2, LastIsLatest
  <2>4. findings[i].status = IF EventsOn(i, "status_change") = {} THEN "new"
                             ELSE events[LastOf(EventsOn(i, "status_change"))].to
    BY <1>1, <2>3 DEF AuditInv, AuditExplainsStatus
  <2> PICK E : E = EventsOn(i, "in_report_toggle")
    OBVIOUS
  <2>5. findings[i].in_report <=> (E # {} => events[Latest(E)].in_report)
    BY <1>1, Zenon DEF SerialInv, FlagInv, Flagged
  <2>6. E # {} => LastOf(E) = Latest(E)
    BY <2>3
  <2>7. findings[i].in_report <=> (E # {} => events[LastOf(E)].in_report)
    BY <2>5, <2>6, Zenon
  <2>8. findings[i].in_report \in BOOLEAN
    BY <2>2 DEF TypeOK, StoreTypeOK, FindingRow
  <2>9. findings[i].in_report = (E # {} => events[LastOf(E)].in_report)
    BY <2>7, <2>8
  <2> QED
    BY <2>4, <2>9
<1> QED
  BY <1>1, SerialAlways, PTL

-----------------------------------------------------------------------------
(***************************************************************************)
(* Why an attempt is lost: only to a scan that committed new findings       *)
(* meanwhile, or to a capture that repeats a key where foreign keys are      *)
(* checked row by row.                                                     *)
(***************************************************************************)

\* No capture names an issue twice.
NoRepeats == \A c \in Captures : \A m, n \in DOMAIN c : c[m].key = c[n].key => m = n

\* Some finding was committed since s read.
Contended(s) == \E i \in DOMAIN findings : findings[i].label > high_water[s]

\* The drafts of s name an issue twice.
Repeats(s) ==
  \E m, n \in DOMAIN captured[s] : m # n /\ captured[s][m].key = captured[s][n].key

\* Evidence of a finding created in the same flush is of a second draft with
\* the key of its inline one.
LEMMA EarlyEvidenceRepeats ==
  ASSUME IndInv, NEW s \in Scans, pc[s] = "drafts", WalkOK(s), EvidenceBeforeFinding(s)
  PROVE  FkEnforced /\ Repeats(s)
<1>1. PICK e \in appended[s] : FkEnforced /\ e.finding \notin DOMAIN findings
  BY DEF EvidenceBeforeFinding
<1>2. PICK k \in DOMAIN by_key[s] :
        by_key[s][k].id = e.finding /\ ~ (k \in Created(s) /\ by_key[s][k].row.draft = e.draft)
  BY DEF WalkOK, AppendedHeld
<1>3. k \in Created(s) /\ by_key[s][k].row.draft # e.draft
  BY <1>1, <1>2, SessionIds
<1>4. e = [finding |-> by_key[s][k].id, scan |-> s, draft |-> e.draft]
  <2>1. e \in FindingEvidenceRow
    BY DEF IndInv, TypeOK, ScanTypeOK
  <2>2. e.scan = s
    BY DEF IndInv, SessionInv, SessionOK, AppendedNamed
  <2> QED
    BY <1>2, <2>1, <2>2 DEF FindingEvidenceRow
<1>5. e.draft \in Held(s, k)
  BY <1>4 DEF Held, WalkOK, AppendedHeld
<1>6. by_key[s][k].row.draft \in Held(s, k)
  BY <1>3 DEF Held, WalkOK, InlineHeld
<1>7. Held(s, k) \subseteq DOMAIN captured[s]
  <2>1. captured[s] \in Seq(FindingDraft) /\ Len(captured[s]) \in Nat /\ next[s] \in Nat
    BY WalkBound
  <2>2. next[s] <= Len(captured[s]) + 1
    BY DEF WalkOK
  <2>3. 1..(next[s] - 1) \subseteq DOMAIN captured[s]
    BY <2>1, <2>2
  <2> QED
    BY <2>3 DEF Held
<1>8. \A n \in Held(s, k) : captured[s][n].key = k
  BY DEF WalkOK, KeysHeld
<1> QED
  BY <1>1, <1>3, <1>5, <1>6, <1>7, <1>8 DEF Repeats

\* The database refuses a commit for one of two reasons.
LEMMA ErrorExplained ==
  ASSUME IndInv, EvidenceInv, NEW s \in Scans, Retry(s) \/ GiveUp(s)
  PROVE  Contended(s) \/ (FkEnforced /\ Repeats(s))
<1>1. pc[s] = "drafts" /\ IntegrityError(s)
  BY DEF Retry, GiveUp, AtCommit
<1>2. WalkOK(s)
  BY <1>1 DEF EvidenceInv
<1>3. CASE LabelTaken(s)
  BY <1>1, <1>3, TakenIsContention DEF Contended
<1>4. CASE EvidenceBeforeFinding(s)
  BY <1>1, <1>2, <1>4, EarlyEvidenceRepeats
<1> QED
  BY <1>1, <1>3, <1>4 DEF IntegrityError

\* Where no capture repeats a key, only contention is left.
LEMMA ErrorIsContention ==
  ASSUME IndInv, EvidenceInv, FkEnforced => NoRepeats, NEW s \in Scans, Retry(s) \/ GiveUp(s)
  PROVE  Contended(s)
<1>1. captured[s] \in Captures \cup {<<>>}
  BY DEF IndInv, TypeOK, ScanTypeOK
<1>2. FkEnforced => ~ Repeats(s)
  BY <1>1 DEF NoRepeats, Repeats
<1> QED
  BY <1>2, ErrorExplained

\* An attempt is lost only to a scan that committed findings since this one
\* read, or to a repeated key where foreign keys are enforced: the run that
\* violates RetryOnlyOnContention shows the only other way there is.
THEOREM LostAttemptsExplained ==
  Spec => [][\A s \in Scans :
               (pc[s] = "drafts" /\ pc'[s] \in {"read", "failed"}) =>
                  Contended(s) \/ (FkEnforced /\ Repeats(s))]_vars
<1> DEFINE Lost(s) == pc[s] = "drafts" /\ pc'[s] \in {"read", "failed"}
<1>1. ASSUME IndInv, EvidenceInv, [Next]_vars, NEW s \in Scans, Lost(s)
      PROVE  Contended(s) \/ (FkEnforced /\ Repeats(s))
  BY <1>1, LostAttempt, ErrorExplained DEF IndInv
<1>2. IndInv /\ EvidenceInv /\ [Next]_vars =>
        [\A s \in Scans : Lost(s) => Contended(s) \/ (FkEnforced /\ Repeats(s))]_vars
  BY <1>1
<1> QED
  BY <1>2, Invariance, EvidenceAlways, PTL DEF Spec

\* A scan is turned back only by contention, with foreign keys too as long as
\* no capture names an issue twice.
THEOREM OnlyContentionTurnsBack ==
  ASSUME FkEnforced => NoRepeats
  PROVE  Spec => RetryOnlyOnContention
<1> DEFINE Lost(s) == pc[s] = "drafts" /\ pc'[s] \in {"read", "failed"}
<1>1. ASSUME IndInv, EvidenceInv, [Next]_vars, NEW s \in Scans, Lost(s)
      PROVE  \E i \in DOMAIN findings : findings[i].label > high_water[s]
  BY <1>1, LostAttempt, ErrorIsContention DEF IndInv, Contended
<1>2. IndInv /\ EvidenceInv /\ [Next]_vars =>
        [\A s \in Scans : Lost(s) => \E i \in DOMAIN findings : findings[i].label > high_water[s]]_vars
  BY <1>1
<1> QED
  BY <1>2, Invariance, EvidenceAlways, PTL DEF Spec, RetryOnlyOnContention

-----------------------------------------------------------------------------
(***************************************************************************)
(* How many it takes to lose them all.  Count from attempt a of s on, which  *)
(* finds the scans C committed.  Of those that are committed besides when s  *)
(* reads again, each may have cost it one attempt; the one that costs it the *)
(* next is another one.                                                    *)
(***************************************************************************)

\* Scans that created a finding; those whose findings are labelled up to h.
Creators == {findings[i].scan : i \in DOMAIN findings}

CreatorsUpTo(h) == {findings[i].scan : i \in {j \in DOMAIN findings : findings[j].label <= h}}

\* What s read is what certain scans committed, all of it.
ReadWholeScans(s) ==
  \A i, j \in DOMAIN findings :
    findings[i].label <= high_water[s] /\ findings[j].label > high_water[s] =>
      findings[i].scan # findings[j].scan

\* Since attempt a, which found the scans C, a scan has lost no more attempts
\* than others have got through.
AttemptsOf(s, C, a) ==
  /\ C \subseteq Creators
  /\ pc[s] = "idle" => attempt[s] = a
  /\ pc[s] = "read" => attempt[s] - a <= Cardinality(Creators \ C)
  /\ pc[s] = "drafts" => /\ ReadWholeScans(s)
                         /\ C \subseteq CreatorsUpTo(high_water[s])
                         /\ attempt[s] - a <= Cardinality(CreatorsUpTo(high_water[s]) \ C)
  /\ pc[s] = "failed" => MAX_PERSIST_ATTEMPTS + 1 - a <= Cardinality(Creators \ C)

\* Of every scan, since its request came.
ContentionInv == \A s \in Scans : AttemptsOf(s, {}, 1)

\* A table has finitely many creators.
LEMMA FinitelyManyScans ==
  ASSUME NEW table, IsFiniteSet(DOMAIN table)
  PROVE  IsFiniteSet({table[i].scan : i \in DOMAIN table})
<1> DEFINE S == {table[i].scan : i \in DOMAIN table}
           f == [i \in DOMAIN table |-> table[i].scan]
<1>1. f \in Surjection(DOMAIN table, S)
  BY DEF Surjection
<1> QED
  BY <1>1, FS_Surjection

\* Finitely many events create findings.
LEMMA CreatorsFinite ==
  ASSUME TypeOK, NEW h, NEW C
  PROVE  /\ IsFiniteSet(Creators \ C) /\ Cardinality(Creators \ C) \in Nat
         /\ CreatorsUpTo(h) \subseteq Creators
         /\ IsFiniteSet(CreatorsUpTo(h) \ C) /\ Cardinality(CreatorsUpTo(h) \ C) \in Nat
<1>1. IsFiniteSet(Creators)
  BY FinitelyManyScans DEF Creators, TypeOK, StoreTypeOK
<1>2. CreatorsUpTo(h) \subseteq Creators
  BY DEF Creators, CreatorsUpTo
<1>3. Creators \ C \in SUBSET Creators /\ CreatorsUpTo(h) \ C \in SUBSET Creators
  BY <1>2
<1>4. IsFiniteSet(Creators \ C) /\ IsFiniteSet(CreatorsUpTo(h) \ C)
  BY <1>1, <1>3, FS_Subset
<1> QED
  BY <1>2, <1>4, FS_CardinalityType

\* A scan that committed since the read is one more than had before it.
LEMMA OneMoreCreator ==
  ASSUME TypeOK, NEW s \in Scans, ReadWholeScans(s), Contended(s),
         NEW C, C \subseteq CreatorsUpTo(high_water[s])
  PROVE  Cardinality(CreatorsUpTo(high_water[s]) \ C) + 1 <= Cardinality(Creators \ C)
<1>1. PICK j \in DOMAIN findings : findings[j].label > high_water[s]
  BY DEF Contended
<1> PICK D : D = CreatorsUpTo(high_water[s])
  OBVIOUS
<1>2. findings[j].scan \in Creators /\ findings[j].scan \notin D
  BY <1>1 DEF Creators, CreatorsUpTo, ReadWholeScans
<1>3. /\ IsFiniteSet(Creators \ C) /\ Cardinality(Creators \ C) \in Nat
      /\ IsFiniteSet(D \ C) /\ Cardinality(D \ C) \in Nat /\ D \subseteq Creators
  BY CreatorsFinite
<1>4. findings[j].scan \notin D \ C /\ findings[j].scan \notin C
  BY <1>2
<1>5. Cardinality((D \ C) \cup {findings[j].scan}) = Cardinality(D \ C) + 1
  BY <1>3, <1>4, FS_AddElement
<1>6. (D \ C) \cup {findings[j].scan} \in SUBSET (Creators \ C)
  BY <1>2, <1>3, <1>4
<1>7. Cardinality((D \ C) \cup {findings[j].scan}) <= Cardinality(Creators \ C)
  BY <1>3, <1>6, FS_Subset
<1> QED
  BY <1>5, <1>7

\* Rows stay where they are, and new ones are numbered past all others, by a
\* scan that had created none.
LEMMA RowsStay ==
  ASSUME IndInv, [Next]_vars
  PROVE  /\ \A i \in DOMAIN findings : /\ i \in DOMAIN findings'
                                       /\ findings'[i].scan = findings[i].scan
                                       /\ findings'[i].label = findings[i].label
         /\ \A i \in DOMAIN findings' \ DOMAIN findings :
              findings'[i].label > FindingCount /\ findings'[i].scan \notin Creators
<1>1. CASE UNCHANGED storeVars
  BY <1>1 DEF storeVars
<1>2. CASE ReviewNext
  BY <1>2, ReviewResult DEF IndInv
<1>3. ASSUME NEW s \in Scans, Commit(s)
      PROVE  /\ \A i \in DOMAIN findings : /\ i \in DOMAIN findings'
                                           /\ findings'[i].scan = findings[i].scan
                                           /\ findings'[i].label = findings[i].label
             /\ \A i \in DOMAIN findings' \ DOMAIN findings :
                  findings'[i].label > FindingCount /\ findings'[i].scan \notin Creators
  <2>1. \A i \in DOMAIN findings : /\ i \in DOMAIN findings'
                                   /\ findings'[i].scan = findings[i].scan
                                   /\ findings'[i].label = findings[i].label
    BY <1>3, CommitResult
  <2>2. ASSUME NEW i \in DOMAIN findings' \ DOMAIN findings
        PROVE  findings'[i].label > FindingCount /\ findings'[i].scan \notin Creators
    <3>1. PICK k \in Created(s) : i = <<s, k>>
      BY <1>3, <2>2, CommitResult
    <3>2. findings'[i].label > FindingCount
      BY <1>3, <3>1, CommitExtends
    <3>3. pc[s] = "drafts" /\ findings'[i] = by_key[s][k].row
      BY <1>3, <3>1, CommitResult DEF Commit, AtCommit
    <3>4. findings'[i].scan = s
      BY <3>1, <3>3 DEF IndInv, SessionInv, SessionOK, CreatedNumbered
    <3>5. s \notin Creators
      BY <3>3 DEF Creators, IndInv, NothingOrphaned, RowsNamed
    <3> QED
      BY <3>2, <3>4, <3>5
  <2> QED
    BY <2>1, <2>2
<1> QED
  BY <1>1, <1>2, <1>3, StoreSteps

\* Creators only get more, and those up to a label in use stay the same.
LEMMA CreatorsGrow ==
  ASSUME IndInv, TypeOK', [Next]_vars, NEW C
  PROVE  /\ Creators \subseteq Creators'
         /\ Cardinality(Creators \ C) <= Cardinality(Creators' \ C)
         /\ Cardinality(Creators' \ C) \in Nat
         /\ \A h \in Nat : h <= FindingCount => CreatorsUpTo(h)' = CreatorsUpTo(h)
<1>1. Creators \subseteq Creators'
  BY RowsStay DEF Creators
<1>2. IsFiniteSet(Creators')
  BY FinitelyManyScans DEF Creators, TypeOK, StoreTypeOK
<1>3. /\ Cardinality(Creators \ C) <= Cardinality(Creators' \ C)
      /\ Cardinality(Creators' \ C) \in Nat
  <2>1. Creators \ C \in SUBSET (Creators' \ C) /\ Creators' \ C \in SUBSET Creators'
    BY <1>1
  <2>2. IsFiniteSet(Creators' \ C)
    BY <1>2, <2>1, FS_Subset
  <2> QED
    BY <2>1, <2>2, FS_Subset, FS_CardinalityType
<1>4. ASSUME NEW h \in Nat, h <= FindingCount
      PROVE  CreatorsUpTo(h)' = CreatorsUpTo(h)
  <2>1. FindingCount \in Nat
    BY CountTyped DEF IndInv, TypeOK
  <2>2. \A i \in DOMAIN findings' : findings'[i].label \in Nat
    BY DEF TypeOK, StoreTypeOK, FindingRow
  <2>3. \A i \in DOMAIN findings' \ DOMAIN findings : ~ (findings'[i].label <= h)
    BY <1>4, <2>1, <2>2, RowsStay
  <2> QED
    BY <2>3, RowsStay DEF CreatorsUpTo
<1> QED
  BY <1>1, <1>3, <1>4

\* What s read goes on being what certain scans committed, all of it.
LEMMA ReadStaysWhole ==
  ASSUME IndInv, TypeOK', [Next]_vars, NEW s \in Scans, pc[s] = "drafts", ReadWholeScans(s),
         high_water'[s] = high_water[s]
  PROVE  ReadWholeScans(s)'
<1>1. high_water[s] \in Nat /\ high_water[s] <= FindingCount /\ FindingCount \in Nat
  BY CountTyped DEF IndInv, SessionInv, SessionOK, SnapshotAgrees, TypeOK, ScanTypeOK
<1>2. \A i \in DOMAIN findings' : findings'[i].label \in Nat
  BY DEF TypeOK, StoreTypeOK, FindingRow
<1> SUFFICES ASSUME NEW i \in DOMAIN findings', NEW j \in DOMAIN findings',
                    findings'[i].label <= high_water[s], findings'[j].label > high_water[s]
             PROVE  findings'[i].scan # findings'[j].scan
  BY DEF ReadWholeScans
<1>3. i \in DOMAIN findings
  BY <1>1, <1>2, RowsStay
<1>4. CASE j \in DOMAIN findings
  BY <1>3, <1>4, RowsStay DEF ReadWholeScans
<1>5. CASE j \notin DOMAIN findings
  BY <1>3, <1>5, RowsStay DEF Creators
<1> QED
  BY <1>4, <1>5

\* What a step of another, or of its own walk, leaves a scan's account.
LEMMA AttemptsUndisturbed ==
  ASSUME IndInv, TypeOK', [Next]_vars, NEW s \in Scans, NEW C, NEW a \in Nat, AttemptsOf(s, C, a),
         UNCHANGED <<pc[s], attempt[s], high_water[s]>>
  PROVE  AttemptsOf(s, C, a)'
<1> PICK h : h = high_water[s]
  OBVIOUS
<1>1. /\ attempt[s] \in Nat /\ MAX_PERSIST_ATTEMPTS \in Nat /\ h \in Nat
      /\ Cardinality(Creators \ C) \in Nat
  <2>1. TypeOK
    BY DEF IndInv
  <2>2. attempt[s] \in 1..MAX_PERSIST_ATTEMPTS /\ h \in Nat
    BY <2>1 DEF TypeOK, ScanTypeOK
  <2>3. Cardinality(Creators \ C) \in Nat
    BY <2>1, CreatorsFinite
  <2>4. attempt[s] \in Nat /\ MAX_PERSIST_ATTEMPTS \in Nat
    BY <2>2, AttemptsAssumption
  <2> QED
    BY <2>2, <2>3, <2>4
<1>2. /\ Creators \subseteq Creators' /\ Cardinality(Creators' \ C) \in Nat
      /\ Cardinality(Creators \ C) <= Cardinality(Creators' \ C)
  BY CreatorsGrow
<1>3. ASSUME pc[s] = "drafts"
      PROVE  /\ ReadWholeScans(s)'
             /\ CreatorsUpTo(h)' = CreatorsUpTo(h)
  <2>1. h <= FindingCount
    BY <1>3 DEF IndInv, SessionInv, SessionOK, SnapshotAgrees
  <2> QED
    BY <1>1, <1>3, <2>1, ReadStaysWhole, CreatorsGrow DEF AttemptsOf
<1>4. CreatorsUpTo(high_water[s])' = CreatorsUpTo(h)'
  BY DEF CreatorsUpTo
<1>5. CASE pc[s] = "drafts"
  <2>1. CreatorsUpTo(high_water[s])' = CreatorsUpTo(high_water[s])
    BY <1>3, <1>4, <1>5
  <2> QED
    BY <1>2, <1>3, <1>5, <2>1 DEF AttemptsOf
<1>6. CASE pc[s] # "drafts"
  BY <1>1, <1>2, <1>6 DEF AttemptsOf
<1> QED
  BY <1>5, <1>6

\* A read takes in every creator.
LEMMA ReadTakesAll ==
  ASSUME IndInv, NEW s \in Scans, NEW C, NEW a \in Nat, AttemptsOf(s, C, a), ReadFindings(s)
  PROVE  AttemptsOf(s, C, a)'
<1>1. /\ pc[s] = "read" /\ pc'[s] = "drafts"
      /\ attempt'[s] = attempt[s]
      /\ high_water'[s] = Cardinality(DOMAIN existing_findings_by_key)
      /\ findings' = findings
  BY DEF ReadFindings, storeVars, IndInv, TypeOK, ScanTypeOK
<1>2. high_water'[s] = FindingCount
  BY <1>1, ReadCount DEF IndInv, TypeOK
<1>3. \A i \in DOMAIN findings : findings[i].label \in 1..FindingCount
  BY LabelsInTable DEF IndInv
<1>4. FindingCount \in Nat
  BY CountTyped DEF IndInv, TypeOK
<1>5. \A i \in DOMAIN findings : findings[i].label <= high_water'[s] /\ ~ (findings[i].label > high_water'[s])
  BY <1>2, <1>3, <1>4
<1>6. ReadWholeScans(s)'
  BY <1>1, <1>5 DEF ReadWholeScans
<1>7. CreatorsUpTo(high_water[s])' = Creators /\ Creators' = Creators
  BY <1>1, <1>5 DEF CreatorsUpTo, Creators
<1> QED
  BY <1>1, <1>6, <1>7 DEF AttemptsOf

\* The attempt lost is made up for by one more scan that got through.
LEMMA LostToAnother ==
  ASSUME IndInv, NEW s \in Scans, NEW C, NEW a \in Nat, AttemptsOf(s, C, a), Contended(s),
         Retry(s) \/ GiveUp(s)
  PROVE  AttemptsOf(s, C, a)'
<1>1. pc[s] = "drafts" /\ findings' = findings
  BY DEF Retry, GiveUp, AtCommit, storeVars
<1>2. Cardinality(CreatorsUpTo(high_water[s]) \ C) + 1 <= Cardinality(Creators \ C)
  BY <1>1, OneMoreCreator DEF IndInv, AttemptsOf
<1>3. attempt[s] - a <= Cardinality(CreatorsUpTo(high_water[s]) \ C)
  BY <1>1 DEF AttemptsOf
<1>4. /\ attempt[s] \in Nat
      /\ Cardinality(CreatorsUpTo(high_water[s]) \ C) \in Nat /\ Cardinality(Creators \ C) \in Nat
  <2>1. TypeOK
    BY DEF IndInv
  <2>2. attempt[s] \in 1..MAX_PERSIST_ATTEMPTS
    BY <2>1 DEF TypeOK, ScanTypeOK
  <2>3. attempt[s] \in Nat
    BY <2>2
  <2>4. \A h : /\ Cardinality(CreatorsUpTo(h) \ C) \in Nat
               /\ Cardinality(Creators \ C) \in Nat
    BY <2>1, CreatorsFinite
  <2> QED
    BY <2>3, <2>4
<1>5. attempt[s] + 1 - a <= Cardinality(Creators \ C)
  BY <1>2, <1>3, <1>4
<1>6. Creators' = Creators /\ C \subseteq Creators
  BY <1>1 DEF Creators, AttemptsOf
<1>7. CASE Retry(s)
  <2>1. pc'[s] = "read" /\ attempt'[s] = attempt[s] + 1
    BY <1>7 DEF Retry, IndInv, TypeOK, ScanTypeOK
  <2> QED
    BY <1>4, <1>5, <1>6, <2>1 DEF AttemptsOf
<1>8. CASE GiveUp(s)
  <2>1. pc'[s] = "failed" /\ attempt[s] = MAX_PERSIST_ATTEMPTS
    BY <1>8 DEF GiveUp, IndInv, TypeOK, ScanTypeOK
  <2> QED
    BY <1>5, <1>6, <2>1 DEF AttemptsOf
<1> QED
  BY <1>7, <1>8

\* What a step is to one scan request.
LEMMA RequestSteps ==
  ASSUME TypeOK, [Next]_vars, NEW s \in Scans
  PROVE  \/ UNCHANGED <<pc[s], attempt[s], high_water[s]>>
         \/ pc'[s] = "read" /\ attempt'[s] = attempt[s] /\ pc[s] = "idle"
         \/ ReadFindings(s)
         \/ Retry(s)
         \/ GiveUp(s)
         \/ pc'[s] \in {"done", "aborted"}
<1> DEFINE Same == UNCHANGED <<pc[s], attempt[s], high_water[s]>>
<1>1. Scans = DOMAIN pc /\ Scans = DOMAIN attempt /\ Scans = DOMAIN high_water
  BY DEF TypeOK, ScanTypeOK
<1>2. CASE UNCHANGED scanVars
  BY <1>2 DEF scanVars
<1>3. ASSUME NEW t \in Scans, NEW drafts \in Captures, BeginPersist(t, drafts)
      PROVE  Same \/ (pc'[s] = "read" /\ attempt'[s] = attempt[s] /\ pc[s] = "idle")
  BY <1>1, <1>3 DEF BeginPersist
<1>4. ASSUME NEW t \in Scans, Suppress(t) \/ Collapse(t) \/ Create(t) PROVE Same
  BY <1>4 DEF Suppress, Collapse, Create
<1>5. ASSUME NEW t \in Scans, Commit(t) \/ Abort(t) PROVE Same \/ pc'[s] \in {"done", "aborted"}
  BY <1>1, <1>5 DEF Commit, Abort
<1>6. ASSUME NEW t \in Scans, t # s, ReadFindings(t) \/ Retry(t) \/ GiveUp(t) PROVE Same
  BY <1>1, <1>6 DEF ReadFindings, Retry, GiveUp
<1> QED
  BY <1>2, <1>3, <1>4, <1>5, <1>6 DEF Next, ScanNext, ScanStep, vars

\* The account of lost attempts is inductive, whenever it begins.
LEMMA AttemptsOfIsInductive ==
  ASSUME FkEnforced => NoRepeats, NEW s \in Scans, NEW C, NEW a \in Nat
  PROVE  IndInv /\ IndInv' /\ EvidenceInv /\ AttemptsOf(s, C, a) /\ [Next]_vars => AttemptsOf(s, C, a)'
<1> SUFFICES ASSUME IndInv, IndInv', EvidenceInv, AttemptsOf(s, C, a), [Next]_vars
             PROVE  AttemptsOf(s, C, a)'
  OBVIOUS
<1>1. TypeOK /\ TypeOK'
  BY DEF IndInv
<1>2. C \subseteq Creators'
  BY <1>1, CreatorsGrow DEF AttemptsOf
<1>3. CASE UNCHANGED <<pc[s], attempt[s], high_water[s]>>
  BY <1>1, <1>3, AttemptsUndisturbed
<1>4. CASE pc'[s] = "read" /\ attempt'[s] = attempt[s] /\ pc[s] = "idle"
  <2>1. attempt'[s] - a = 0
    BY <1>4 DEF AttemptsOf
  <2>2. Cardinality(Creators' \ C) \in Nat
    BY <1>1, CreatorsGrow
  <2> QED
    BY <1>2, <1>4, <2>1, <2>2 DEF AttemptsOf
<1>5. CASE ReadFindings(s)
  BY <1>5, ReadTakesAll
<1>6. CASE Retry(s) \/ GiveUp(s)
  BY <1>6, ErrorIsContention, LostToAnother
<1>7. CASE pc'[s] \in {"done", "aborted"}
  BY <1>2, <1>7 DEF AttemptsOf
<1> QED
  BY <1>1, <1>3, <1>4, <1>5, <1>6, <1>7, RequestSteps

\* The account of the attempts since the request holds in every reachable state.
LEMMA ContentionAlways ==
  ASSUME FkEnforced => NoRepeats
  PROVE  Spec => []ContentionInv
<1>1. Init => ContentionInv
  BY DEF Init, ScanInit, ContentionInv, AttemptsOf
<1>2. IndInv /\ IndInv' /\ EvidenceInv /\ ContentionInv /\ [Next]_vars => ContentionInv'
  BY AttemptsOfIsInductive DEF ContentionInv
<1> QED
  BY <1>1, <1>2, Invariance, EvidenceAlways, PTL DEF Spec

\* A scan that gives up has been overtaken: at whichever of its attempts one
\* starts to count, and whoever had committed findings by then, as many scans
\* as it had attempts left have committed findings since, however many scans
\* there are.  From its first attempt on these are as many as it has attempts.
THEOREM GivingUpIsBeingOvertaken ==
  ASSUME FkEnforced => NoRepeats, NEW s \in Scans, NEW a \in 1..MAX_PERSIST_ATTEMPTS, NEW C
  PROVE  Spec => []( pc[s] = "read" /\ attempt[s] = a /\ Creators = C
                       => [](pc[s] = "failed" =>
                               /\ Creators \subseteq scans \ {s}
                               /\ MAX_PERSIST_ATTEMPTS + 1 - a <= Cardinality(Creators \ C)))
<1> DEFINE Counted == pc[s] = "read" /\ attempt[s] = a /\ Creators = C
           Overtaken == pc[s] = "failed" =>
                          /\ Creators \subseteq scans \ {s}
                          /\ MAX_PERSIST_ATTEMPTS + 1 - a <= Cardinality(Creators \ C)
<1> a \in Nat
  BY AttemptsAssumption
<1>1. Counted => AttemptsOf(s, C, a)
  <2>1. Creators \ Creators = {} /\ a - a = 0
    OBVIOUS
  <2> QED
    BY <2>1, FS_EmptySet DEF AttemptsOf
<1>2. IndInv /\ IndInv' /\ EvidenceInv /\ AttemptsOf(s, C, a) /\ [Next]_vars => AttemptsOf(s, C, a)'
  BY AttemptsOfIsInductive
<1>3. IndInv /\ AttemptsOf(s, C, a) => Overtaken
  BY DEF IndInv, NothingOrphaned, RowsNamed, Creators, AttemptsOf
<1>4. Spec => [](Counted => []Overtaken)
  <2> HIDE DEF Counted, Overtaken
  <2> QED
    BY <1>1, <1>2, <1>3, Invariance, EvidenceAlways, PTL DEF Spec
<1> QED
  BY <1>4

\* As many scans as a scan has attempts never make it give up.
THEOREM AttemptsSuffice ==
  ASSUME FkEnforced => NoRepeats, IsFiniteSet(Scans), Cardinality(Scans) <= MAX_PERSIST_ATTEMPTS
  PROVE  Spec => []NeverGivesUp
<1>1. ASSUME IndInv, ContentionInv, NEW s \in Scans, pc[s] = "failed"
      PROVE  FALSE
  <2>1. Creators \in SUBSET (Scans \ {s})
    BY <1>1 DEF IndInv, TypeOK, StoreTypeOK, NothingOrphaned, RowsNamed, Creators
  <2>2. IsFiniteSet(Scans \ {s}) /\ Cardinality(Scans \ {s}) = Cardinality(Scans) - 1
    BY FS_RemoveElement
  <2>3. Cardinality(Creators) <= Cardinality(Scans \ {s})
    BY <2>1, <2>2, FS_Subset
  <2>4. Cardinality(Creators \ {}) \in Nat /\ Cardinality(Scans) \in Nat /\ MAX_PERSIST_ATTEMPTS \in Nat
    BY <1>1, CreatorsFinite, FS_CardinalityType, AttemptsAssumption DEF IndInv
  <2>5. Creators \ {} = Creators /\ MAX_PERSIST_ATTEMPTS + 1 - 1 <= Cardinality(Creators \ {})
    BY <1>1 DEF ContentionInv, AttemptsOf
  <2> QED
    BY <2>2, <2>3, <2>4, <2>5
<1>2. IndInv /\ ContentionInv => NeverGivesUp
  BY <1>1 DEF NeverGivesUp
<1> QED
  BY <1>2, Invariance, ContentionAlways, PTL

=============================================================================
