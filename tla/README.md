# Provx, verified

A TLA+ development for [Provx](../src/README.md), a self-hosted web-baseline
scanner: an operator defines an engagement (targets, scope, mode), the program
probes the targets passively, numbers what it finds, and humans triage the
findings for a client report.  The modules are translated from the source; this
file says what each models, what the runs and the proofs show, and what is left.

## 1. The system

| component | state it keeps | operations | hard because |
|---|---|---|---|
| API (`backend/app/api/engagements.py`) | none; one database session per request | create, scan, credential set/get/delete, list, transition, in-report toggle, report | requests overlap at every `await`; a row is read, decided on and written without a lock or a version |
| scan runner (`services/scan_runner.py`) | locals of one request: captured drafts, rows by dedup key, the number it is at | probe each target, persist | several scans number the same labels; three attempts; the whole scan is one transaction |
| tables (`models/tables.py`, migrations) | engagement, target, scan, finding, finding_evidence, finding_event, credential | insert, update of changed columns, unique and foreign keys | constraints are the only synchronisation there is |
| lifecycle (`services/lifecycle.py`) | none | is an edge allowed | a loop of legal edges |
| safety gate (`services/safety.py`) | none | may this scan run | mode, safe mode and adapter class combine |
| fetch boundary (`provx_sdk/fetch.py`) | locals of one call: hop, chain, budget | GET with redirects followed by hand, TLS handshake, redaction | the server chooses every next hop; a credential rides along |
| scope (`provx_sdk/scope.py`) | none | is a URL in scope | one host has many spellings; deny covers a subtree, allow does not |
| adapters (`provx_sdk/adapters/*`) | none | probe one target, parse the envelope | several report the same issue; attribution to the URL that answered |
| finding contract (`provx_sdk/findings.py`) | none | dedup key, severity rank | equal keys are what collapses |
| credentials (`services/credentials.py`, `provx_sdk/auth.py`) | credential row | set, get, delete, load | replace is delete then insert; scans read it at any moment; the key it is encrypted under is a setting |
| report (`services/report.py`, `report_attack.py`) | none | filter, order, count, group, render | it must say what the tables and the humans say |
| evidence (`provx_sdk/evidence.py`, `security/evidence_crypto.py`) | none | seal, encrypt, decrypt | keys change, or are not there |
| registry, loader, playbooks, plugins | tables built at start | look up | nothing in them changes |
| lab harness (`lab/harness.py`) | none | score adapters against known targets | a lost rule must not go unnoticed |
| frontend, CI, docs | none that the server relies on | | |

The scan endpoint loads the credential if it is asked to and calls the gate, then
`run_scan`, which for each target asks the scope, then an adapter, which calls the fetch
boundary, which asks the scope again before every hop.  When every probe is back
`_persist_scan` reads the findings of the engagement, walks its drafts against them in
memory and commits once; the unique constraint on (engagement, display_id) tells it that
another scan got there first, and it starts over, three times at most.  The review
endpoints read and write the same findings; the list and the report read them; the
credential endpoints write the row that scans load.  All of them run on one event loop (or
several workers) over one database: shared state is the tables and nothing else.

What makes it correct:

* persistence: one finding per issue, labels PVX-1..PVX-N, no evidence lost, nothing
  half-written, nothing of a human's undone, and three attempts are enough;
* review: the audit trail explains what the tables say, legal edges only, nothing
  validated that was not triaged;
* probing: nothing leaves the scope, chains end, evidence names the host it came from,
  every target is either probed or counted as skipped, and a scan ends;
* credentials: a scan presents what was stored when it was asked for or does not run, a
  replacement never looks like a removal, answers mean what they say;
* reading: list, report and coverage say what the tables say and leave out only what a
  human took out;
* the gate of the lab: red on any check that appears, disappears or is rated lower;
* all of it under every interleaving and with requests that die.

PROJECT.json lists the hazards, each with its line and the properties that watch it.

## 2. The modules

| module | models | state and actions |
|---|---|---|
| `Lists` | nothing of its own: filters, sorts and sums as a proof can unfold them | pure: `Kept` is what `SelectSeq` gives, `Picked(s, InOrder(...))` a stable sort, `Total` a sum |
| `Lifecycle` | `lifecycle.py` | the transition table and its check; pure |
| `FindingStore` | the four tables scans and reviews share | `findings`, `evidence`, `events`, `scans`: what is committed |
| `ScanPersist` | `_persist_scan` | per scan: `pc`, its drafts and session; `BeginPersist`, `ReadFindings`, `Suppress`, `Collapse`, `Create`, `Commit`, `Retry`, `GiveUp`, `Abort` |
| `Triage` | `transition_finding`, `set_finding_in_report` | per request: `review`, what it loaded and when it built its event; a `Begin...` (load, check) and a `Commit...` for each, `AbortReview` |
| `Pipeline` | all of them on one engagement | the interleaving of `ScanPersist` and `Triage` (`Spec`), and the same one request at a time (`SerialSpec`); the properties; the inductive invariant `IndInv` |
| `FindingLedger` | nothing in the code: what a reader may rely on | a ledger of distinct issues and evidence that only grows, statuses only humans change; `Pipeline` implements it (`ImplementsLedger`) |
| `Listing` | `list_findings` | `listing`, a request between its two queries; `CountEvidence`, `ListFindings`, among the steps of `Pipeline` |
| `Report` | `report.py`, `report_attack.py` | pure: selection, order, sections, severity table, posture, roadmap, ATT&CK coverage |
| `Readout` | `engagement_report` | `Report` applied to the findings of `Pipeline`, in any state |
| `Scope` | `scope.py` | `is_in_scope` over spelled hosts; pure |
| `Fetch` | `fetch_within_scope` | `phase`, `current`, `chain`, `outcome` of one call and `wire`, the history of what left, with the credential it carried; `Begin`, `Request`, the answers of a server that is free, `End` |
| `ScanProbe` | `run_scan` up to `_persist_scan`, `assert_scan_permitted`, the adapters' `probe` | `Gate`, `SkipTarget`, `Probe`, `FetchStep`, `Handshake`, `AdapterRefused`, `ProbeFailed`, `Capture`, `Persist` |
| `Credentials` | the credential endpoints, `services/credentials.py`, the secret of the process | `credential` (the table), `request`, `secret`, `restarts`; `BeginSet`, `FlushDelete`, `CommitSet`, `RefreshSet`, `BeginDelete`, `CommitDelete`, `Die`, `RestartRequests`; `load_auth` |
| `ScanRun` | `scan_engagement` from request to answer | `ScanProbe`, `ScanPersist` and `Credentials` composed: `StartScan`, `ProbeStep`, `ProbeEnds`, `HandOver`, `PersistStep`, `ScanDies`, `Restart` |
| `Adapters` | `parse_output` of the five adapters, `dedup_key` | pure: the rules, what fires, the drafts, their identity |
| `Lab` | the scoring of `harness.py` | pure: expected checks, floors, true and false positives, the verdict |
| `Remediation` | the owner of a target (external) following the remediations of the rules; the findings, report and gate of each response on the way | `response`; one action per kind of advice |
| `MCPipeline`, `MCListing`, `MCScanProbe`, `MCRemediation`, `MCScanRun` | | instances for TLC |
| `Pipeline_proofs`, `Audit_proofs`, `Evidence_proofs`, `Serial_proofs` | | the theorems about `Pipeline`: what the tables keep; the audit trail, the report and the ledger; the evidence and the list; attempts, and what holds without overlap |
| `ScanProbe_proofs`, `ScanRun_proofs` | | the theorems about the probe loop and about the composition |
| `Remediation_proofs` | | the theorems about `Adapters`, `Lab` and `Report` for every response and plugin |
| `Lists_proofs` | | lemmas about lists that those rest on |

Choices that shape them:

* **Atomicity.** Under READ COMMITTED a session's flushed rows are invisible until it
  commits, so a request is one read step and one commit step; in between are steps on
  its own locals.  A scan's draft loop is one action per draft because it awaits
  nothing but is long, and because a death may fall anywhere in it.  A list is two
  queries, hence two steps.
* **What a commit writes.** The ORM writes the columns that changed since the load and no
  others.  A scan therefore overwrites a severity it raised with the value it computed
  from its snapshot, and never a status (`Written`); an in-report request for the value it
  loaded writes its event alone (`CommitInReport`).
* **Row locks.** A replacement flushes its delete before its insert, so the row it found is
  locked until it commits (`Holds`, `Locked`): others that delete the row, or insert against
  the unique constraint, wait.  Only the row a request found can be locked by it, which is
  why waits cannot form a cycle - a claim `RequestsAnswered` checks.
* **Time.** `created_at` of an event is taken when its row is built, before the commit.  The
  clock is the number of reviews begun before; `ClockTicks` turns it off (every time is 0)
  in the runs none of whose properties reads it, which only merges states.
* **Foreign keys.** No mapper has a relationship to another, so one flush inserts
  evidence rows before finding rows.  PostgreSQL checks the key at once, SQLite (the
  tests) does not: `FkEnforced`.
* **Data.** A dedup key is a model value; an issue's text, an envelope's bytes and a hash are left out - evidence is
  the scan and the position of the draft it came from, or the URL whose response it read.
  A stored credential is the request that stored it and the secret it is sealed under.
* **Severity and CVSS.** A finding has both, and `_keep_worst_severity` raises each by a max of its own, never
  looking at the other.  The pipeline has one column, `severity`, that is either of the two: what is shown of it
  holds of each by itself, and nothing is said of the pair.  The two need not agree, so the rules in `Adapters` have
  both (CVSS in tenths) and `RemediationHelps` speaks of both.  The findings in `Remediation` and the report keep
  the severity alone: the report neither sorts nor counts by CVSS, it prints it.
* **Spelling.** A host in a URL or a rule is a host and the form it is written in.
  `canonical_host` loses the form; the properties speak of hosts.
* **Dangerous hosts** are IP literals (`DangerousHosts`), as in `scope.py`: the code resolves no name, and what a name
  resolves to is not in the models.
* **Composition.** In `ScanRun` scans probe one after the other, for their probes share
  nothing but the credential, and persist at the same time.  What `Capture` made of a response
  is what `BeginPersist` gets, one draft per page, with the page as its key.
* **The server** is external: to each request it answers anything or nothing.
* **Lists.**  A filtered list gives each place the element with so many of those kept before it, a
  sorted one likewise by the sort key, and a sum is the size of a disjoint union (`Lists`).  TLC evaluates
  them as it would `SelectSeq` and `SortSeq`; unlike those they have no recursion, so the provers can use them.
* **Responses.**  `Response` types what a target may answer: any set of the headers looked at, any
  handshake result, any sequence of cookies of any names.  The instances take a few; the proofs all of them.
  `PluginDrafts` is any sequence of drafts: what an adapter of somebody else's adds to the same engagement.
* **Variants.** A definition whose comment starts with "Variant" is a wrong version of the
  one after it, kept to show which property tells the two apart (PROJECT.json, `mutants`).
  No specification uses one.

## 3. The runs

| run | question | instance |
|---|---|---|
| `scans` | do scans that persist at once leave unique keys, dense labels and nothing of failed attempts; are three attempts enough; is each answered; what does a list read meanwhile show | 3 scans, 3 attempts, 2 keys, 2 severities; captures that overlap in nothing, part or all; foreign keys on; fairness |
| `review` | what holds when scans race with reviewers; does the report still honour what humans recorded | 2 scans, 2 reviewers, 3 events, drafts that repeat a key; foreign keys off, so that a repeat is stored |
| `serial` | what the documentation promises, one request at a time | 2 scans, 1 reviewer, 3 events, 3 severities, repeats; foreign keys off; the clock on |
| `edge_race` | does every status follow by an edge of the lifecycle | violated: 2 reviewers |
| `ruling_race` | is a false positive left untouched by scans | violated: a ruling between a scan's read and its commit |
| `severity_race` | does a finding keep the worst severity | violated: 3 scans |
| `foreign_key` | is a scan turned back only by another scan | violated: one scan alone, two targets that landed on one page, foreign keys on; the drafts are what `Adapters` makes of that page |
| `history_race` | do the events, in the order of their time, give the row | violated: 2 reviewers, 2 events, the clock on |
| `probe` | is every request in scope, every chain bounded, every draft attributed, every target accounted for; does the scan end | 7 engagements x 4 adapters, 2 targets each, 12 URLs, at most 2 redirects; fairness |
| `scan_run` | does a scan present what it was asked to, are stored findings in scope, is a replacement never a gap, do answers mean what they say, is every request answered | 1 scan of 1 target, 1 redirect, 3 credential requests, 2 secrets, 1 restart; fairness |
| `adapters` | do the drafts of a probe differ, which issues do two adapters share, does following the advice help and end; does the report of them add up, lose nothing and ignore the order of scans; is the gate exact | each group of facts an adapter looks at, in every combination; two cookies, two spellings; a plugin's findings with sub-techniques and an unknown technique beside the shipped rules; fairness for the owner, on purpose: the question is where the advice leads |
| `final_url` | is evidence attributed to a URL that was requested | violated: a chain cut for its length |

**Why the bounds are enough.**  A label collision needs two scans; exhausting the attempts
needs as many rivals as there are attempts, so `scans` has three scans for three attempts,
the most that never fail (a fourth can, by design: every retry is a rival's commit,
`RetryOnlyOnContention`).  Two keys give scans that agree, overlap and differ.  Two severities
are enough to raise, three to overwrite a raise with a lesser one.  Two reviewers race;
three events reach `validated` (through `triaged`) and undo it, or rule twice; `MaxEvents`
bounds the audit trail in the guards of `BeginTransition` and `BeginInReport`.  For scope a
rule sees one host at a time, so an apex, one name below it, a stranger and an address, each
in two spellings, give every case of the two matchers; a redirect budget of two has a first,
a last and a refused hop, and the TLS adapter's budget of zero is in the same run.

`scan_run` starts after one of its three credential requests is over: it set the credential
the scan may load, or found none to delete.  The two others then race with one another and
with the scan in every way two requests can (two replacements, a replacement and a delete, a
first set twice), and a third rival meets no case that two do not: a request reads one row
and waits for at most one.  One restart (`MaxRestarts`) suffices for a secret that is
changed, lost or found; the two secrets are interchangeable, so the stored one is the first.
With one scan nobody turns it back: a scan that collapses, retries or gives up is the subject
of `scans` and `review`, and here only its end matters to the credential requests.

Where a theorem covers the property the bound does not matter.

**Deadlock** is not checked: a pipeline whose scans have finished and whose events are used
up stops, and so does a scan that has ended or a process all of whose requests are answered.
That requests do not wait for one another for ever is `RequestsAnswered`.

**Fairness.**  `Pipeline!FairSpec`: a scan that has begun is run on by the event loop, weakly fair
per scan; reviewers, beginnings and deaths owe nothing.  `Listing!ListedSpec` assumes the same of
scans and nothing of the reader.  `ScanProbe!FairSpec`: the request is run on and each call to a
server returns or times out (`timeout=settings.http_timeout`).  `ScanRun!RunFairness` puts these
together and adds the steps a credential request takes once begun (flush, commit, refresh): the
database grants a lock when it is free.  No request owes its beginning, no client its death, no
process its restart.  The timeout is per read, so a server that trickles bytes for ever is outside
the assumption.

**What the violations mean.**  Each quotes a docstring or a comment; PROJECT.json `findings` has
the quotations.  `foreign_key` and `final_url` are defects: a scan whose drafts repeat a new key
(two targets that redirect to one URL do) cannot be stored on PostgreSQL; and a TLS scan of a
target that redirects attributes what the target sent to the URL it was redirected to.  The other
four are promises that overlapping requests break, kept next to what does hold of them:
`SeverityIsEvidenced`, `SuppressedFromRead`, `AuditExplainsStatus`, `ValidatedWasTriaged` and
`ReportHonoursHumans` survive every race, and `serial` shows the promises themselves without one
(`Serial_proofs` proves them).
`history_race` in particular: an event carries the time its request built it, and a toggle to the
value loaded writes no column, so of two reviews that overlap the one with the later time need not
be the one that stands.

## 4. The proofs

For every value of the constants under the ASSUMEs in the modules: any sets of scans and keys, any
finite set of reviewers, any captures, any number of attempts, restarts and credential requests, any
URLs, rules, engagements and secrets, any responses and plugin drafts.

`Pipeline_proofs`:

* `Typing` - `Spec => []TypeOK`.  It needs the set of reviewers to be finite (`ReviewsAssumption`),
  for the clock counts them (`NowTyped`).
* `Invariance` - `Spec => []IndInv`.  `OneFindingPerKey` and `DenseLabels` are not inductive: a commit
  preserves them only because what the scan read is still what is labelled up to its
  high-water mark, and what it created is numbered from there without a gap (`SnapshotAgrees`,
  `CreatedNumbered`).  When it commits and none of its labels is taken, nobody has committed a
  finding since it read (the first new label would be its own first), so its keys are new as well
  as its labels (`CommitKeeps`).  `RowsNamed` keeps the primary key (scan, key) unused before the
  scan commits; `AppendedNamed` and `ReviewsNamed` carry references to rows that only exist in a
  session.
* from it `KeysAreUnique`, `LabelsAreDense`, `RowsHaveProvenance`, and the action properties
  `HistoryOutlivesSteps`, `StatusMovesAreHuman` and `RetriesAreContention` (for a database that does
  not check foreign keys at insert; `OnlyContentionTurnsBack` below says what is left when it does).

`Audit_proofs`, about what humans record:

* `TrailExplainsStatus` - `AuditExplainsStatus`, by `AuditInv`: the rows a scan is about to add are
  untouched (`CreatedUntouched`), so a finding without events is `new`; the latest event of a finding is
  the one whose commit wrote its status, because event and status are one transaction.
* `ConfirmedWasTriaged` - `ValidatedWasTriaged`, although the edge between load and commit may be overtaken:
  `TriageInv` holds the claim of the row, of what a request in flight is about to make it and of every
  event.  The trail only grows, so what had been triaged when it was loaded still is at the commit.
* `RowsFollowHumans` - no finding is out of the report without an event that excluded it, none is a false
  positive but by the latest ruling, none beyond triage without having
  been triaged or accepted first, and none of those after a latest ruling that says otherwise.
* `ReportsFollowHumans` - `ReportHonoursHumans`: what `RowsFollowHumans` says of rows, carried through the
  query in label order (`FindingsInLabelOrder`: with dense labels the list is every finding, once) and
  the report's selection and sort (`SectionsShow`: they neither lose nor invent a row).
* `FindingsImplementLedger` - `Spec => ImplementsLedger`, the refinement of `FindingLedger`.
  The mapping is stated of any table (`LedgerIn`, `RefsIn`, `StatusIn`), so that one lemma speaks of the table
  before a step and after it; `Numbered` is what makes it a mapping (the label determines the finding, the key
  too).  Most steps are stutters; a commit of a scan is one `Record`, its new keys in order and its own
  evidence; a commit of a review that moves a status is one `Judge`, which needs `TriageInv` for its guard
  and `NeverNew` (no request is about to make a finding new) for its effect.

`Evidence_proofs`, about what scans record:

* `NoEvidenceIsDropped` - `EveryDraftAccountedFor`; `SeveritiesAreEvidenced` - `SeverityIsEvidenced`;
  `SuppressionFromRead` - `SuppressedFromRead`.  `EvidenceInv` adds to the first two what the loop holds
  half way (`WalkOK`): each draft before `next` is held for the row of its key, as its inline evidence or
  appended to it, or was suppressed by a ruling the scan *read*; nothing else is held; a row it
  creates or raises has the severity of a draft held for it, a row it creates that of the worst, and a row
  it read is at least as severe as all the evidence of the scan that created that one.  A commit that
  overwrites the severity another scan raised leaves it at one of the finding's own drafts, and not below
  those of the scan that created it.
* `ListsShowWhatIsThere` - `ListingBetween`, for `ListedSpec`.  A finding's inline draft and its appended rows
  are one draft each, all of them drafts that committed scans have of its issue (`ReferencesAreDrafts`), and, unless it
  was ruled a false positive, all that those have (`DraftsAreEvidence`).  What the first query counts is therefore
  exact when it counts (`CountIsExact`); `ListInv` keeps it between the drafts asked about and the evidence
  there is now, and a finding that appears between the queries has no draft among the scans asked about
  (`NewIssuesWereUnasked`).

`Serial_proofs`, about attempts:

* `LostAttemptsExplained` - an attempt is lost to a scan that committed findings since this one read, or,
  where foreign keys are enforced, to a capture that names a new key twice.  There is no third reason.
* `OnlyContentionTurnsBack` - `RetryOnlyOnContention`, for `FkEnforced => NoRepeats`: the run `foreign_key`
  violates that hypothesis and nothing else, the run `scans` satisfies it.
* `GivingUpIsBeingOvertaken` - under the same hypothesis a scan that gives up has been overtaken.  Take any of its
  attempts, and note which scans have committed findings by then: when it gives up, as many *others* have
  committed findings since as it had attempts left, so at least `MAX_PERSIST_ATTEMPTS` since its request began
  to persist.  What is noted are constants of the theorem (`C`, `a`), so no history is needed.  `AttemptsOf` counts:
  from then on the scan has lost no more attempts than there are new scans whose findings it has read.  A conflict
  adds one to them, for the labels of a scan are all above or all below what another has read (`ReadWholeScans`).
* from its invariant, counted from the beginning (`ContentionInv`), `AttemptsSuffice` - `NeverGivesUp` for no more scans than attempts.

and about `SerialSpec`: the four promises that races break hold of any number of requests that
do not overlap - `WorstSeverityKept`, `FalsePositivesUntouched`, `StatusesFollowLifecycle`,
`HistoryIsReconstructable`.  `SerialInv`: at most one request is under way (`AtMostOne`), so what it loaded
is what the table has (`ReviewFresh`, `ReadFresh`), no event is later than the one it adds (`StampInv`),
and the last event of each kind gives the row (`FlagInv`, and `AuditInv` for the status).  Together with
the runs that violate the four they show that the overlap is the only reason.

`ScanProbe_proofs`:

* `Typing`, `Invariance`: the policy is the engagement's, whatever is about to be requested is in
  scope and the chain is within the budget, or the call has ended.
* `ScansStayInScope` - `EgressInScope`, which is stated over hosts and rules without
  `is_in_scope`: `BeneathIsSuffix` connects the two.
* `ChainsAreBounded`, `EvidenceIsTrue`.
* `NoTargetIsMissed` - `TargetsAccounted`, by `CountInv`: scanned and skipped are the targets passed, and
  for an adapter of the program the scanned ones are those in scope, since its first request goes to the
  target's own host and is therefore never refused (`FirstRequestsInScope`).
* `ResponsesWereRequested` - what a draft read was the answer to a request that was made, and the URL it is
  attributed to is in scope: all that is left of the claim the run `final_url` violates.

`ScanRun_proofs`, about the composition:

* `CredentialsSound` - `RunSpec => []CredInv`.  That there is one row (`OneRow`) is kept by the
  constraint, but what the answers say is not inductive.  A request deletes the row it *found*, and
  whether that deletes anything depends on who committed meanwhile: `FoundWritten` says the row it
  found belongs to a request that had committed by then, `RowsWritten` that a request's row is there
  only after its own commit, and since a request commits once, a row that is gone never returns:
  `FoundGone`.  `SealedWhileSet` and `StatusLast` keep a row typed and a status final.
* from it `ReplacementsLeaveNoGap` (`ReplacedNotRemoved`) and `AnswersHold` (`AnswersAreTrue`).
* `ScansPresentWhatTheyLoaded` - `ScanIsAsAsked`, by `AuthInv`: the policy of the probe under way has the
  credential that was loaded for it and every request on the wire the policy's, or it is a handshake.
  `StoredAuthAssumption` connects the two halves: what is stored is a credential `Fetch` can present,
  what `load_auth` returns without one is not, and the engagements are closed under exchanging it.
* `FindingsStayInScope` - `FindingsInScope`: from the redirect to the row.  `ProbeInv` carries the invariants
  of `ScanProbe` into the composition (a probe begins from nothing and ends in nothing), and `StoredInv` the
  scope of a key from the drafts handed over through the rows of a session to the table.
* `RunsStayInScope` - `EgressInScope` of the composition.
* `StepsOfTheStore` is the refinement the first three rest on: every step of the composition is a step of
  the credential store or leaves it alone.

`Remediation_proofs`, about every response a target can give, every step its owner takes and whatever a
plugin reports beside the shipped adapters:

* `RespondsTyped` - `Spec => [](response \in Response)`, the invariant the others are proved from.
* `OneDraftPerIssue` - `ProbeKeysDistinct`, `HstsAloneIsShared` - `OnlyHstsIsShared`: the rules of one table
  have different identities (`RulesDistinct`) and those of two tables share HSTS alone (`SharedIdentities`), so what
  is left to tell drafts apart is the page and the cookie.  The number of cookies is not bounded.
* `NoRemedyHurts` - `RemediationHelps`: what fires after a remedy fired before (`FewerHelp`), or, where any
  origin becomes a specific one, what fires instead is no more severe (`SomeOriginHelps`).  It is scored higher
  there if credentials stay allowed: `wildcard-with-credentials` is 7.5 (`cors.py:72`) and advises an allowlist,
  `credentialed-origin` is 8.1 (`cors.py:103`), both High.  The property names this one exception and excludes others.
* `GateTellsResponsesApart` - `GateIsExact`: `Passing` says of one manifest when it passes, `GateOfOne` and
  `GateOfTwo` that the gate scores just the targets of its adapter.
* `SectionsAgree` - `ReportAddsUp`.  `SectionsAddUp` proves it of *any* list of findings.  A list that is worst
  first has, for each severity, a place up to which all are at least so severe (`Cut`); a band is what is
  between two such places (`BandIsPart`), and joining bands moves from one to the next (`RoadmapIsList`).
* `CoverageIsComplete` - `CoverageLosesNoFinding`.  `CoverageComplete` proves it of any list and any table of
  sub-techniques: each technique has one tactic, that tactic has a row (`TacticListed`, `CoverageRows`), and
  the mentions are partitioned first by technique, then by tactic (`TotalOfClasses`, twice).
* `ScanOrderIsImmaterial` - `ReportIgnoresScanOrder`.  `Collapsed` is the invariant of the loop over the drafts:
  one finding per issue, of the first draft of it and as severe as the worst of those seen.  Issues and worst
  drafts do not depend on an order, so two orders of the same drafts give the same issues and severities
  (`SameDraftsSameIssues`, which holds of any two) and the same table and posture.  The first draft does: it is a
  shipped one if there is any, and two shipped ones of one issue are of one rule or of the HSTS rules
  (`OneIssueOneRule`); otherwise it is the first of the plugin in both orders (`FirstDraft`).

`Lists_proofs`: what `InOrder`, `Kept`, `Picked`, `Total` and `FlattenSeq` give of any list.  Induction is over the
elements of a set of numbers (`SetInduction`) and not over a predicate; a fold is reached through a function that
satisfies its recursion (`JoinsExist`, and `FoldsExist` for the findings of an engagement).

Only model-checked: liveness - `ScansFinish`, `ScanEnds`, `RequestsAnswered`, `RemediationEnds` - which is out of
the prover's reach.  Every other property of a passing run has a theorem.

## 5. What is left

Worth proving next: that the folds in `FindingsOf` and the walk of `_persist_scan` compute the same findings when one
scan runs alone, which would carry `Remediation_proofs` over to the tables.

Not modelled:

* redaction of headers, cookies and bodies, the bytes of sealing and encryption, legacy plaintext rows:
  rewriting of text.  Which secret a credential is sealed under is modelled; that of stored evidence is
  not, so a report of findings that cannot be decrypted any more is outside the models;
* name resolution: that no request reaches a private host (`EgressInScope`, `FindingsInScope`) is about hosts as URLs
  name them.  A name that resolves to a private address passes `is_in_scope`, in the models as in the code, which
  says so (`scope.py:26-28`) and accepts it as a known issue (KI-003 in `docs/KNOWN_ISSUES.md`);
* a negative redirect budget, which `fetch_within_scope` refuses with a ValueError: no adapter passes one;
* parsing of IP literals and IDNA, HTTP details below a response, the envelope's encoding;
* labels as text: they are numbers here, and PVX-10000 sorts before PVX-9999 only beyond any instance;
* the pool of database connections, which a scan holds one of while it probes: its size is the library's;
* branding, display texts and the HTML of the report; the metadata endpoint of the credential, which
  changes nothing;
* manifests on disk and the lab's network: `Lab` takes manifests and drafts as they are;
* validation of single fields by the request schemas: the actions take what passes;
* the registry, loader, playbooks and plugins (tables built once), migrations (their constraints are in
  the models), configuration, the frontend, packaging, and the retest loop, which the source declares
  and does not implement.
