------------------------------ MODULE Pipeline ------------------------------
(***************************************************************************)
(* Scans and reviewers at work on the findings of one engagement: every     *)
(* interleaving of the reads and commits of ScanPersist and Triage.         *)
(***************************************************************************)
EXTENDS ScanPersist, Triage

vars == <<storeVars, scanVars, review>>

TypeOK == StoreTypeOK /\ ScanTypeOK /\ ReviewTypeOK

Init == StoreInit /\ ScanInit /\ ReviewInit

Next ==
  \/ ScanNext /\ UNCHANGED review
  \/ ReviewNext /\ UNCHANGED scanVars

\* A request, once begun, is run by the event loop: its awaits return.
Fairness == \A s \in Scans : WF_vars(ScanStep(s) /\ UNCHANGED review)

Spec     == Init /\ [][Next]_vars
FairSpec == Spec /\ Fairness

-----------------------------------------------------------------------------
\* Vocabulary of the properties.

\* The drafts a finding holds evidence of, by scan and position: the inline
\* one and those appended.
EvidenceOf(i) ==
  {<<findings[i].scan, findings[i].draft>>}
    \cup {<<e.scan, e.draft>> : e \in {x \in evidence : x.finding = i}}

SeverityOf(d) == captured[d[1]][d[2]].severity

EventsOn(i, type) == {n \in DOMAIN events : events[n].finding = i /\ events[n].type = type}

Ruled(i, to) == \E n \in EventsOn(i, "status_change") : events[n].to = to

Latest(S) == CHOOSE n \in S : \A m \in S : m <= n

-----------------------------------------------------------------------------
\* Safety: the numbered findings.

\* No issue is reported twice: scans that find the same issue at the same
\* time end on one finding (_persist_scan's collapse by dedup key).
OneFindingPerKey ==
  \A i, j \in DOMAIN findings : findings[i].key = findings[j].key => i = j

\* Labels are PVX-1..PVX-N with no gap and no repeat, though no scan locks
\* anything while it numbers.  A gap would make len(by_key) a label in use,
\* and every later scan of the engagement would fail.
DenseLabels ==
  /\ \A i, j \in DOMAIN findings : findings[i].label = findings[j].label => i = j
  /\ {findings[i].label : i \in DOMAIN findings} = 1..Cardinality(DOMAIN findings)

\* A scan that did not commit left nothing: every finding, evidence row and
\* event refers to rows that are there (run_scan: one transaction).
NothingOrphaned ==
  /\ \A i \in DOMAIN findings : findings[i].scan \in scans
  /\ \A e \in evidence : e.scan \in scans /\ e.finding \in DOMAIN findings
  /\ \A n \in DOMAIN events : events[n].finding \in DOMAIN findings

\* No evidence is dropped: each draft of a committed scan is the inline
\* evidence of its finding or was appended to it, never both; or a human
\* has at some time ruled that finding a false positive.
EveryDraftAccountedFor ==
  \A s \in scans : \A n \in DOMAIN captured[s] :
    \E i \in DOMAIN findings :
      LET inline == findings[i].scan = s /\ findings[i].draft = n
          added  == [finding |-> i, scan |-> s, draft |-> n] \in evidence
      IN  /\ findings[i].key = captured[s][n].key
          /\ inline \/ added \/ Ruled(i, "false_positive")
          /\ ~ (inline /\ added)

\* A finding is as severe as one of the drafts it holds evidence of, and at
\* least as severe as the scan that created it found it: whatever scans
\* overwrite one another's severity, it never falls below that.
SeverityIsEvidenced ==
  \A i \in DOMAIN findings :
    /\ \E d \in EvidenceOf(i) : findings[i].severity = SeverityOf(d)
    /\ \A d \in EvidenceOf(i) :
          d[1] = findings[i].scan => SeverityOf(d) <= findings[i].severity

-----------------------------------------------------------------------------
\* Why labels stay dense and keys unique: what holds of the tables between
\* commits, and of the session of every scan that is walking its drafts.

FindingCount == Cardinality(DOMAIN findings)

\* A finding's primary key names the committed scan that created it.
RowsNamed ==
  /\ \A i \in DOMAIN findings : findings[i].scan = i[1] /\ findings[i].key = i[2]
  /\ \A s \in scans : pc[s] = "done"

\* What a scan read is what is labelled up to its high-water mark, still
\* there under the same keys and labels, whatever committed since.
SnapshotAgrees(s) ==
  /\ high_water[s] <= FindingCount
  /\ \A k \in DOMAIN by_key[s] :
        LET o == by_key[s][k]
        IN  /\ o.row.key = k
            /\ o.id # <<s, k>> =>
                 /\ o.id \in DOMAIN findings
                 /\ findings[o.id].key = k
                 /\ findings[o.id].label = o.row.label
                 /\ o.row.label <= high_water[s]
  /\ \A i \in DOMAIN findings :
        findings[i].label <= high_water[s] => findings[i].key \in DOMAIN by_key[s] \ Created(s)

\* What it created is new and numbered from there on, each label once.
CreatedNumbered(s) ==
  /\ high_water[s] <= allocated[s]
  /\ \A k \in Created(s) : /\ by_key[s][k].row.scan = s
                           /\ by_key[s][k].row.status = "new"
                           /\ by_key[s][k].row.label \in high_water[s]+1..allocated[s]
  /\ \A j, k \in Created(s) : by_key[s][j].row.label = by_key[s][k].row.label => j = k
  /\ \A n \in high_water[s]+1..allocated[s] : \E k \in Created(s) : by_key[s][k].row.label = n

\* The evidence it will append is its own, of findings it read or created.
AppendedNamed(s) ==
  \A e \in appended[s] : /\ e.scan = s
                         /\ e.finding \in DOMAIN findings \cup {<<s, k>> : k \in Created(s)}

SessionOK(s) == SnapshotAgrees(s) /\ CreatedNumbered(s) /\ AppendedNamed(s)

SessionInv == \A s \in Scans : pc[s] = "drafts" => SessionOK(s)

\* A review is of a finding that is there.
ReviewsNamed == \A r \in Reviews : review[r] # NoReview => review[r].finding \in DOMAIN findings

IndInv ==
  /\ TypeOK
  /\ OneFindingPerKey
  /\ DenseLabels
  /\ NothingOrphaned
  /\ RowsNamed
  /\ SessionInv
  /\ ReviewsNamed

-----------------------------------------------------------------------------
\* Safety: the human's rulings.

\* The audit trail explains every finding, whoever raced with whom: its
\* status is the last one an event set, and it is marked for a regression
\* test exactly if some event ruled it a false positive (transition_finding).
AuditExplainsStatus ==
  \A i \in DOMAIN findings :
    LET E == EventsOn(i, "status_change")
    IN  /\ findings[i].status = IF E = {} THEN "new" ELSE events[Latest(E)].to
        /\ findings[i].regression_intent <=> Ruled(i, "false_positive")

\* Nothing is confirmed that a human did not triage before (lifecycle.py:
\* "It can never jump straight to validated"), even by racing requests.
ValidatedWasTriaged ==
  \A n \in DOMAIN events :
    events[n].type = "status_change" /\ events[n].to = "validated" =>
      \E m \in 1..(n-1) : /\ events[m].finding = events[n].finding
                          /\ events[m].type = "status_change"
                          /\ events[m].to = "triaged"

\* No step removes or rewrites history: findings keep their identity and
\* label, evidence and events are only added (rule PX-EVIDENCE).
HistoryIsKept ==
  [][/\ DOMAIN findings \subseteq DOMAIN findings'
     /\ \A i \in DOMAIN findings :
          \A c \in {"key", "label", "scan", "draft"} : findings'[i][c] = findings[i][c]
     /\ evidence \subseteq evidence'
     /\ Len(events) <= Len(events') /\ SubSeq(events', 1, Len(events)) = events]_vars

\* A status changes only in a step that records a human's request for it, and
\* a finding enters as new: no scan ever moves one (rule PX-HUMAN).
OnlyHumansMoveStatus ==
  [][\A i \in DOMAIN findings' :
       IF i \notin DOMAIN findings THEN findings'[i].status = "new"
       ELSE findings'[i].status # findings[i].status =>
              /\ Len(events') = Len(events) + 1
              /\ events'[Len(events')].finding = i
              /\ events'[Len(events')].type = "status_change"
              /\ events'[Len(events')].to = findings'[i].status]_vars

\* A finding that is a false positive gains evidence only from a scan that
\* had read it before the ruling (the suppression in _persist_scan).
SuppressedFromRead ==
  [][\A e \in evidence' \ evidence :
       LET k == findings[e.finding].key
       IN  e.finding \in DOMAIN findings => by_key[e.scan][k].row.status # "false_positive"]_vars

-----------------------------------------------------------------------------
\* Safety and liveness: contention.

\* A scan is turned back only by a scan that committed findings after it had
\* read: somebody made progress.
RetryOnlyOnContention ==
  [][\A s \in Scans :
       (pc[s] = "drafts" /\ pc'[s] \in {"read", "failed"}) =>
         \E i \in DOMAIN findings : findings[i].label > high_water[s]]_vars

\* As many scans as there are attempts never exhaust them.
NeverGivesUp == \A s \in Scans : pc[s] # "failed"

\* Every scan request that begins is answered.
ScansFinish ==
  \A s \in Scans : (pc[s] \in InFlight) ~> (pc[s] \in Finished)

-----------------------------------------------------------------------------
\* What the documentation says, true when requests do not overlap.

\* One request at a time: none begins while another is under way.
Quiet == (\A s \in Scans : pc[s] \notin InFlight) /\ (\A r \in Reviews : review[r] = NoReview)

Begins == \/ \E s \in Scans : pc[s] = "idle" /\ pc'[s] = "read"
          \/ \E r \in Reviews : review[r] = NoReview /\ review'[r] # NoReview

SerialNext == Next /\ (Begins => Quiet)

SerialSpec == Init /\ [][SerialNext]_vars

\* "The collapsed finding keeps the worst severity/CVSS of the set, chosen
\* with max so the result is independent of scan order" (scan_runner.py).
WorstSeverity ==
  \A i \in DOMAIN findings : \A d \in EvidenceOf(i) : SeverityOf(d) <= findings[i].severity

\* "A finding a human has marked false_positive is left untouched" by scans
\* (scan_runner.py).
FalsePositiveUntouched ==
  [][\A i \in DOMAIN findings :
       findings[i].status = "false_positive" =>
         /\ findings'[i].severity = findings[i].severity
         /\ \A e \in evidence' \ evidence : e.finding # i]_vars

\* "Illegal edges are refused deterministically" (transition_finding): the
\* status committed follows the one it replaces by an allowed edge.
StatusFollowsLifecycle ==
  [][\A i \in DOMAIN findings :
       findings'[i].status # findings[i].status =>
         is_allowed(findings[i].status, findings'[i].status)]_vars

\* "The finding's history is reconstructable" (FindingEventRow): the events on
\* a finding, in the order of their created_at, end at the status and at the
\* in-report flag it has.
HistoryReconstructable ==
  \A i \in DOMAIN findings :
    LET moved   == EventsOn(i, "status_change")
        toggled == EventsOn(i, "in_report_toggle")
        LastOf(E) == CHOOSE n \in E : \A m \in E \ {n} :
                       \/ events[m].created_at < events[n].created_at
                       \/ events[m].created_at = events[n].created_at /\ m < n
    IN  /\ findings[i].status = IF moved = {} THEN "new" ELSE events[LastOf(moved)].to
        /\ findings[i].in_report = (toggled # {} => events[LastOf(toggled)].in_report)

-----------------------------------------------------------------------------
\* The findings implement the ledger.

FindingLabelled(n) == CHOOSE i \in DOMAIN findings : findings[i].label = n

FindingsOf(k) == {i \in DOMAIN findings : findings[i].key = k}

Ledger == INSTANCE FindingLedger WITH
  ledger  <- [n \in 1..Cardinality(DOMAIN findings) |-> findings[FindingLabelled(n)].key],
  refs    <- {[key |-> findings[i].key, scan |-> findings[i].scan, draft |-> findings[i].draft] :
                 i \in DOMAIN findings}
             \cup {[key |-> findings[e.finding].key, scan |-> e.scan, draft |-> e.draft] :
                 e \in evidence},
  status  <- [k \in Keys |-> IF FindingsOf(k) = {} THEN "new"
                             ELSE findings[CHOOSE i \in FindingsOf(k) : TRUE].status],
  triaged <- {k \in Keys : \E i \in FindingsOf(k) : Ruled(i, "triaged")}

\* Scans and reviewers, whatever their interleaving, keep the ledger's promise.
ImplementsLedger == Ledger!Spec

=============================================================================
