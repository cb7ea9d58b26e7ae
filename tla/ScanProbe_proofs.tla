-------------------------- MODULE ScanProbe_proofs --------------------------
(***************************************************************************)
(* Theorems about ScanProbe, for every set of URLs, engagements and         *)
(* adapters, and every number of redirects.                                *)
(***************************************************************************)
EXTENDS ScanProbe, SequenceTheorems, FiniteSetTheorems, TLAPS

Engagement == engagement \in Engagements /\ policy = ScanPolicy(engagement)

\* What is on the wire is in scope, and so is the hop a call is at.
ScopeInv ==
  /\ \A r \in wire : is_in_scope(policy, r.url)
  /\ phase \in {"hop", "sent"} => is_in_scope(policy, current)

\* The loop has a hop left whenever it is at its top.
BudgetInv ==
  /\ phase = "hop" => Len(chain) <= max_redirects
  /\ Len(chain) <= max_redirects + 1

\* A call that has returned has an outcome, and one not cut for its length
\* names its responder.
OutcomeInv ==
  phase = "outcome" =>
    /\ outcome \in FetchOutcome
    /\ outcome.stopped_reason # "TOO_MANY_REDIRECTS" => outcome.final_url = outcome.headers

\* The loop is at a target while a probe is under way.
IndexInv ==
  /\ pc = "probe" => index \in DOMAIN engagement.targets
  /\ phase # "idle" => pc \in {"probe", "failed"}

IndInv ==
  /\ TypeOK
  /\ Engagement
  /\ ScopeInv
  /\ BudgetInv
  /\ OutcomeInv
  /\ IndexInv
  /\ EvidenceNamesResponder

-----------------------------------------------------------------------------
\* An outcome made of URLs is one.
LEMMA OutcomeTyped ==
  ASSUME FetchTypeOK, current \in Urls, NEW final \in Urls, NEW reason \in StoppedReason
  PROVE  outcome_of(final, reason) \in FetchOutcome
BY DEF FetchTypeOK, outcome_of, FetchOutcome

\* Each reason a call ends for is one of the listed ones.
LEMMA Reasons ==
  {"none", "MISSING_LOCATION", "OUT_OF_SCOPE_REDIRECT", "TOO_MANY_REDIRECTS"} \subseteq StoppedReason
BY DEF StoppedReason

\* The invariant holds before the first step.
LEMMA InitIndInv == Init => IndInv
<1> SUFFICES ASSUME Init PROVE IndInv
  OBVIOUS
<1>1. TypeOK
  <2>1. FetchTypeOK
    <3>1. chain \in Seq(Urls) /\ outcome \in {NoOutcome} /\ current \in {NoUrl}
      BY DEF Init, FetchInit
    <3>2. phase = "idle" /\ max_redirects \in Nat /\ wire \subseteq WireRequest
      BY DEF Init, FetchInit
    <3>3. phase \notin {"hop", "sent"}
      BY <3>2
    <3>4. current \in Urls \cup {NoUrl} /\ outcome \in FetchOutcome \cup {NoOutcome}
      BY <3>1
    <3>5. phase \in {"idle", "hop", "sent", "outcome", "refused", "error"}
      BY <3>2
    <3> QED
      BY <3>1, <3>2, <3>3, <3>4, <3>5 DEF FetchTypeOK
  <2>2. captured \in Seq(CapturedDraft)
    BY DEF Init
  <2>3. index \in Nat \ {0} /\ scanned \in Nat /\ skipped \in Nat
    BY DEF Init
  <2>4. pc \in {"gate", "loop", "probe", "not_permitted", "persist", "failed"}
    BY DEF Init
  <2>5. handshake \in BOOLEAN
    BY DEF Init
  <2>6. engagement \in Engagements /\ adapter \in Adapters /\ safe_mode \in BOOLEAN
    BY DEF Init
  <2> QED
    BY <2>1, <2>2, <2>3, <2>4, <2>5, <2>6 DEF TypeOK
<1>2. Engagement
  BY DEF Init, Engagement
<1>3. ScopeInv /\ BudgetInv /\ OutcomeInv /\ IndexInv
  BY DEF Init, FetchInit, ScopeInv, BudgetInv, OutcomeInv, IndexInv
<1>4. EvidenceNamesResponder
  BY DEF Init, EvidenceNamesResponder
<1> QED
  BY <1>1, <1>2, <1>3, <1>4 DEF IndInv

\* The first request of a probe is a URL, with a budget.
LEMMA FirstRequestsTyped ==
  ASSUME TypeOK, NEW url \in Urls
  PROVE  FirstRequests(url) \subseteq Urls \X Nat
<1> USE UrlsAssumption, RedirectsAssumption
<1>1. adapter.name \in {"security_headers", "wellknown", "tls", "plugin"}
  BY AdaptersAssumption DEF TypeOK
<1>2. CASE adapter.name = "security_headers"
  BY <1>2 DEF FirstRequests
<1>3. CASE adapter.name = "wellknown"
  BY <1>3 DEF FirstRequests
<1>4. CASE adapter.name = "tls"
  BY <1>4 DEF FirstRequests
<1>5. CASE adapter.name = "plugin"
  BY <1>5 DEF FirstRequests
<1> QED
  BY <1>1, <1>2, <1>3, <1>4, <1>5

\* The target the loop is at is a URL.
LEMMA TargetTyped ==
  ASSUME IndInv, index \in DOMAIN engagement.targets
  PROVE  Target \in Urls
BY EngagementsAssumption DEF IndInv, Engagement, Target

-----------------------------------------------------------------------------
\* A step of a fetch preserves the invariant.
LEMMA FetchKeeps ==
  ASSUME IndInv, FetchStep
  PROVE  IndInv'
<1> USE DEF FetchStep
<1>0. /\ UNCHANGED probeVars
      /\ pc = "probe"
  OBVIOUS
<1>1. ASSUME Request PROVE IndInv'
  <2>1. /\ current \in Urls
        /\ is_in_scope(policy, current)
        /\ chain' = Append(chain, current)
        /\ phase' = "sent"
        /\ wire' = wire \cup {[url |-> current, credential |-> policy.auth]}
        /\ UNCHANGED <<policy, max_redirects, current, outcome>>
    BY <1>1 DEF Request, IndInv, TypeOK, FetchTypeOK, ScopeInv
  <2>2. policy.auth \in AuthCredential \cup {NoAuth}
    BY EngagementsAssumption DEF IndInv, Engagement, ScanPolicy
  <2>3. /\ chain' \in Seq(Urls)
        /\ Len(chain') = Len(chain) + 1
    BY <2>1 DEF IndInv, TypeOK, FetchTypeOK
  <2>4. TypeOK'
    BY <1>0, <2>1, <2>2, <2>3 DEF IndInv, TypeOK, FetchTypeOK, WireRequest, probeVars, setup
  <2>5. Engagement' /\ ScopeInv'
    BY <1>0, <2>1 DEF IndInv, Engagement, ScopeInv, probeVars, setup
  <2>6. BudgetInv' /\ OutcomeInv' /\ IndexInv'
    BY <1>0, <1>1, <2>1, <2>3
       DEF Request, IndInv, TypeOK, FetchTypeOK, BudgetInv, OutcomeInv, IndexInv, probeVars, setup
  <2>7. EvidenceNamesResponder'
    BY <1>0 DEF IndInv, EvidenceNamesResponder, probeVars
  <2> QED
    BY <2>4, <2>5, <2>6, <2>7 DEF IndInv
<1>2. ASSUME Receive PROVE IndInv'
  <2>1. /\ phase = "sent"
        /\ current \in Urls
        /\ is_in_scope(policy, current)
        /\ UNCHANGED <<policy, max_redirects, chain, wire>>
    BY <1>2 DEF Receive, Answer, MissingLocation, RedirectOutOfScope, RedirectInScope,
                NetworkError, callVars, IndInv, TypeOK, FetchTypeOK, ScopeInv
  <2>2. /\ phase' \in {"hop", "outcome", "error"}
        /\ phase' = "hop" => /\ current' \in Urls
                             /\ is_in_scope(policy, current')
                             /\ Len(chain) < max_redirects + 1
        /\ current' \in Urls
        /\ outcome' = outcome \/ phase' = "outcome"
    BY <1>2, <2>1 DEF Receive, Answer, MissingLocation, RedirectOutOfScope, RedirectInScope,
                NetworkError, callVars
  <2>3. phase' = "outcome" =>
          \E final \in Urls, reason \in StoppedReason :
            /\ outcome' = outcome_of(final, reason)
            /\ reason # "TOO_MANY_REDIRECTS" => final = current
    BY <1>2, <2>1, Reasons
       DEF Receive, Answer, MissingLocation, RedirectOutOfScope, RedirectInScope, NetworkError
  <2>4. phase' = "outcome" =>
          /\ outcome' \in FetchOutcome
          /\ outcome'.stopped_reason # "TOO_MANY_REDIRECTS" =>
               outcome'.final_url = outcome'.headers
    <3> SUFFICES ASSUME phase' = "outcome"
                 PROVE  /\ outcome' \in FetchOutcome
                        /\ outcome'.stopped_reason # "TOO_MANY_REDIRECTS" =>
                             outcome'.final_url = outcome'.headers
      OBVIOUS
    <3>1. PICK final \in Urls, reason \in StoppedReason :
            /\ outcome' = outcome_of(final, reason)
            /\ reason # "TOO_MANY_REDIRECTS" => final = current
      BY <2>3
    <3>2. outcome' \in FetchOutcome
      BY <2>1, <3>1, OutcomeTyped DEF IndInv, TypeOK
    <3> QED
      BY <3>1, <3>2 DEF outcome_of
  <2>5. TypeOK'
    BY <1>0, <2>1, <2>2, <2>4 DEF IndInv, TypeOK, FetchTypeOK, probeVars, setup
  <2>6. Engagement' /\ ScopeInv'
    BY <1>0, <2>1, <2>2 DEF IndInv, Engagement, ScopeInv, probeVars, setup
  <2>7. BudgetInv'
    BY <2>1, <2>2 DEF IndInv, TypeOK, FetchTypeOK, BudgetInv
  <2>8. OutcomeInv' /\ IndexInv' /\ EvidenceNamesResponder'
    BY <1>0, <2>2, <2>4
       DEF IndInv, OutcomeInv, IndexInv, EvidenceNamesResponder, probeVars, setup
  <2> QED
    BY <2>5, <2>6, <2>7, <2>8 DEF IndInv
<1> QED
  BY <1>1, <1>2

\* A step of the loop around the fetches preserves it.
LEMMA LoopKeeps ==
  ASSUME IndInv, [Next]_vars, ~ FetchStep
  PROVE  IndInv'
<1>1. CASE Gate
  BY <1>1 DEF Gate, fetchVars, callVars, setup, IndInv, TypeOK, FetchTypeOK, Engagement, ScopeInv,
              BudgetInv, OutcomeInv, IndexInv, EvidenceNamesResponder
<1>2. CASE SkipTarget
  BY <1>2 DEF SkipTarget, HasTarget, fetchVars, callVars, setup, IndInv, TypeOK, FetchTypeOK,
              Engagement, ScopeInv, BudgetInv, OutcomeInv, IndexInv, EvidenceNamesResponder
<1>3. CASE Probe
  <2>1. index \in DOMAIN engagement.targets
    BY <1>3, EngagementsAssumption DEF Probe, HasTarget, IndInv, TypeOK
  <2>2. Target \in Urls
    BY <2>1, TargetTyped
  <2>3. PICK url \in Urls, redirects \in Nat : Begin(url, redirects)
    <3>1. PICK first \in FirstRequests(Target) : Begin(first[1], first[2])
      BY <1>3 DEF Probe
    <3> QED
      BY <2>2, <3>1, FirstRequestsTyped DEF IndInv
  <2>4. TypeOK'
    <3>1. FetchTypeOK'
      BY <2>3 DEF Begin, IndInv, TypeOK, FetchTypeOK
    <3> QED
      BY <1>3, <3>1 DEF Probe, setup, IndInv, TypeOK
  <2>5. Engagement' /\ ScopeInv'
    BY <1>3, <2>3 DEF Probe, Begin, setup, IndInv, Engagement, ScopeInv
  <2>6. BudgetInv' /\ OutcomeInv'
    BY <2>3 DEF Begin, BudgetInv, OutcomeInv
  <2>7. IndexInv' /\ EvidenceNamesResponder'
    BY <1>3, <2>1 DEF Probe, setup, IndInv, IndexInv, EvidenceNamesResponder
  <2> QED
    BY <2>4, <2>5, <2>6, <2>7 DEF IndInv
<1>4. CASE AdapterRefused
  BY <1>4 DEF AdapterRefused, End, setup, IndInv, TypeOK, FetchTypeOK, Engagement, ScopeInv,
              BudgetInv, OutcomeInv, IndexInv, EvidenceNamesResponder
<1>5. CASE ProbeFailed
  BY <1>5 DEF ProbeFailed, fetchVars, callVars, setup, IndInv, TypeOK, FetchTypeOK, Engagement,
              ScopeInv, BudgetInv, OutcomeInv, IndexInv, EvidenceNamesResponder
<1>6. CASE Handshake
  <2>1. Target \in Urls
    BY <1>6, TargetTyped DEF Handshake, IndInv, IndexInv
  <2>2. TypeOK'
    <3>1. wire' \subseteq WireRequest
      <4>1. [url |-> Target, credential |-> NoAuth] \in WireRequest
        BY <2>1 DEF WireRequest
      <4>2. wire' = wire \/ wire' = wire \cup {[url |-> Target, credential |-> NoAuth]}
        BY <1>6 DEF Handshake
      <4> QED
        BY <4>1, <4>2 DEF IndInv, TypeOK, FetchTypeOK
    <3>2. FetchTypeOK'
      BY <1>6, <3>1 DEF Handshake, callVars, IndInv, TypeOK, FetchTypeOK
    <3>3. handshake' \in BOOLEAN
      BY <1>6 DEF Handshake, IndInv, TypeOK
    <3> QED
      BY <1>6, <3>2, <3>3 DEF Handshake, setup, IndInv, TypeOK
  <2>3. Engagement' /\ ScopeInv'
    BY <1>6 DEF Handshake, callVars, setup, IndInv, Engagement, ScopeInv
  <2>4. BudgetInv' /\ OutcomeInv' /\ IndexInv' /\ EvidenceNamesResponder'
    BY <1>6 DEF Handshake, callVars, setup, IndInv, BudgetInv, OutcomeInv, IndexInv,
                EvidenceNamesResponder
  <2> QED
    BY <2>2, <2>3, <2>4 DEF IndInv
<1>7. ASSUME NEW fired \in BOOLEAN, Capture(fired) PROVE IndInv'
  <2> DEFINE draft == [target |-> outcome.final_url, headers |-> outcome.headers,
                       stopped_reason |-> outcome.stopped_reason]
  <2>1. /\ draft \in CapturedDraft
        /\ draft.stopped_reason # "TOO_MANY_REDIRECTS" => draft.target = draft.headers
    BY <1>7 DEF Capture, IndInv, OutcomeInv, FetchOutcome, CapturedDraft
  <2>2. captured' = Append(captured, draft) \/ captured' = captured
    BY <1>7 DEF Capture
  <2> HIDE DEF draft
  <2>3. captured' \in Seq(CapturedDraft) /\ EvidenceNamesResponder'
    BY <2>1, <2>2 DEF IndInv, TypeOK, EvidenceNamesResponder
  <2>4. TypeOK'
    BY <1>7, <2>3 DEF Capture, End, setup, IndInv, TypeOK, FetchTypeOK
  <2>5. Engagement' /\ ScopeInv' /\ BudgetInv' /\ OutcomeInv' /\ IndexInv'
    BY <1>7 DEF Capture, End, setup, IndInv, Engagement, ScopeInv, BudgetInv, OutcomeInv, IndexInv
  <2> QED
    BY <2>3, <2>4, <2>5 DEF IndInv
<1>8. CASE Persist
  BY <1>8 DEF Persist, fetchVars, callVars, setup, IndInv, TypeOK, FetchTypeOK, Engagement, ScopeInv,
              BudgetInv, OutcomeInv, IndexInv, EvidenceNamesResponder
<1>9. CASE UNCHANGED vars
  BY <1>9 DEF vars, fetchVars, probeVars, callVars, setup, IndInv, TypeOK, FetchTypeOK, Engagement,
              ScopeInv, BudgetInv, OutcomeInv, IndexInv, EvidenceNamesResponder
<1> QED
  BY <1>1, <1>2, <1>3, <1>4, <1>5, <1>6, <1>7, <1>8, <1>9 DEF Next

\* What holds of every state of the probe phase.
THEOREM Invariance == Spec => []IndInv
<1>1. IndInv /\ [Next]_vars => IndInv'
  BY FetchKeeps, LoopKeeps
<1> QED
  BY <1>1, InitIndInv, PTL DEF Spec

\* The type invariant of the probe phase.
THEOREM Typing == Spec => []TypeOK
<1>1. IndInv => TypeOK
  BY DEF IndInv
<1> QED
  BY <1>1, Invariance, PTL

-----------------------------------------------------------------------------
\* A host below an apex is the apex or ends in it.
LEMMA BeneathIsSuffix ==
  ASSUME NEW host \in Seq(Labels) \ {<<>>}, NEW top \in Seq(Labels)
  PROVE  Beneath(host, top) <=>
           top = host \/ \E n \in 1..Len(host)-1 : SubSeq(host, n+1, Len(host)) = top
<1>0. /\ Len(host) \in Nat \ {0}
      /\ Len(top) \in Nat
      /\ SubSeq(host, 1, Len(host)) = host
  OBVIOUS
<1>1. ASSUME Beneath(host, top), top # host
      PROVE  \E n \in 1..Len(host)-1 : SubSeq(host, n+1, Len(host)) = top
  <2>1. /\ Len(top) # 0
        /\ Len(top) <= Len(host)
        /\ SubSeq(host, Len(host) - Len(top) + 1, Len(host)) = top
    BY <1>1 DEF Beneath
  <2>2. Len(top) # Len(host)
    <3>1. Len(host) - Len(host) + 1 = 1
      BY <1>0
    <3> QED
      BY <1>0, <1>1, <2>1, <3>1
  <2>3. Len(host) - Len(top) \in 1..Len(host)-1
    <3>1. \A h, t \in Nat : t # 0 /\ t <= h /\ t # h => h - t \in 1..h-1
      OBVIOUS
    <3> QED
      BY <1>0, <2>1, <2>2, <3>1
  <2> QED
    BY <2>1, <2>3
<1>2. ASSUME top = host PROVE Beneath(host, top)
  BY <1>0, <1>2 DEF Beneath
<1>3. ASSUME NEW n \in 1..Len(host)-1, SubSeq(host, n+1, Len(host)) = top
      PROVE  Beneath(host, top)
  <2>1. Len(top) = Len(host) - n
    <3>1. Len(SubSeq(host, n+1, Len(host))) = Len(host) - (n+1) + 1
      <4>1. \A i \in n+1..Len(host) : host[i] \in Labels
        OBVIOUS
      <4>2. n+1 \in Int /\ Len(host) \in Int /\ n+1 <= Len(host)
        BY <1>0
      <4> QED
        BY <4>1, <4>2, SubSeqProperties
    <3>2. Len(host) - (n+1) + 1 = Len(host) - n
      BY <1>0
    <3> QED
      BY <1>3, <3>1, <3>2
  <2>2. /\ Len(top) # 0
        /\ Len(top) <= Len(host)
        /\ Len(host) - Len(top) + 1 = n + 1
    <3>1. \A a, b, m \in Nat : m >= 1 /\ m <= a - 1 /\ b = a - m =>
             b # 0 /\ b <= a /\ a - b + 1 = m + 1
      OBVIOUS
    <3>2. n \in Nat /\ n >= 1 /\ n <= Len(host) - 1
      BY <1>0
    <3>3. Len(host) \in Nat /\ Len(top) \in Nat
      BY <1>0
    <3> QED
      BY <2>1, <3>1, <3>2, <3>3
  <2> QED
    BY <1>3, <2>2 DEF Beneath
<1> QED
  BY <1>1, <1>2, <1>3

\* What being in an engagement's scope comes to, rule by rule.
LEMMA InScopeMeans ==
  ASSUME Engagement, NEW url \in Urls, is_in_scope(policy, url)
  PROVE  LET host == url.host.host
             Covers(rule) == rule.spelled.host = host \/ \E n \in 1..Len(host)-1 :
                               SubSeq(host, n+1, Len(host)) = rule.spelled.host
         IN  /\ host \notin DangerousHosts
             /\ \A rule \in engagement.scope_deny : ~ Covers(rule)
             /\ \E rule \in engagement.scope_allow :
                  Covers(rule) /\ (rule.wildcard \/ rule.spelled.host = host)
<1> DEFINE host == url.host.host
           Covers(rule) == rule.spelled.host = host \/ \E n \in 1..Len(host)-1 :
                             SubSeq(host, n+1, Len(host)) = rule.spelled.host
<1>1. policy = ScanPolicy(engagement) /\ host \in Seq(Labels) \ {<<>>}
  BY UrlsAssumption DEF Engagement
<1>2. ASSUME NEW rule \in engagement.scope_allow \cup engagement.scope_deny
      PROVE  Beneath(host, rule.spelled.host) <=> Covers(rule)
  <2>1. rule.spelled.host \in Seq(Labels)
    BY EngagementsAssumption DEF Engagement
  <2> QED
    BY <1>1, <2>1, BeneathIsSuffix
<1>3. /\ host \notin DangerousHosts
      /\ \A rule \in engagement.scope_deny : ~ Beneath(host, rule.spelled.host)
      /\ \E rule \in engagement.scope_allow :
           IF rule.wildcard THEN Beneath(host, rule.spelled.host) ELSE host = rule.spelled.host
  BY <1>1 DEF is_in_scope, is_dangerous_host, matches_deny, matches_allow, canonical_host, ScanPolicy
<1> HIDE DEF host
<1>4. \A rule \in engagement.scope_deny : ~ Covers(rule)
  BY <1>2, <1>3
<1>5. PICK rule \in engagement.scope_allow :
        IF rule.wildcard THEN Beneath(host, rule.spelled.host) ELSE host = rule.spelled.host
  BY <1>3
<1>6. Covers(rule) /\ (rule.wildcard \/ rule.spelled.host = host)
  BY <1>2, <1>5
<1> QED
  BY <1>3, <1>4, <1>6 DEF host

\* Every request on the wire is in the scope of the policy.
LEMMA WireInScope == IndInv => EgressInScope
<1> SUFFICES ASSUME IndInv, NEW r \in wire
             PROVE  Engagement /\ r.url \in Urls /\ is_in_scope(policy, r.url)
  BY InScopeMeans DEF EgressInScope
<1> QED
  BY DEF IndInv, ScopeInv, TypeOK, FetchTypeOK, WireRequest

\* Whatever servers answer, whatever adapters ask for and however hosts are
\* spelled, a scan reaches nothing out of scope.
THEOREM ScansStayInScope == Spec => []EgressInScope
BY WireInScope, Invariance, PTL

\* No chain of redirects is longer than its budget, whatever the budget.
THEOREM ChainsAreBounded == Spec => []ChainBounded
<1>1. IndInv => ChainBounded
  BY DEF IndInv, BudgetInv, ChainBounded
<1> QED
  BY <1>1, Invariance, PTL

\* Evidence names the host that sent the bytes, unless its chain was cut.
THEOREM EvidenceIsTrue == Spec => []EvidenceNamesResponder
<1>1. IndInv => EvidenceNamesResponder
  BY DEF IndInv
<1> QED
  BY <1>1, Invariance, PTL

-----------------------------------------------------------------------------
(***************************************************************************)
(* The counts.  At every point of the loop the targets behind it are the    *)
(* scanned and the skipped ones, and which of the two a target is depends   *)
(* on its scope alone: an adapter of the program asks for URLs of the       *)
(* target's host, so that no call of its is refused.                        *)
(***************************************************************************)

\* The targets before the n-th that are in scope.
InScopeBefore(m) == {n \in 1..(m - 1) : is_in_scope(policy, engagement.targets[n])}

OwnAdapter == adapter.name # "plugin"

CountInv ==
  /\ scanned + skipped = index - 1
  /\ index <= Len(engagement.targets) + 1
  /\ Len(captured) <= scanned
  /\ OwnAdapter => scanned = Cardinality(InScopeBefore(index))
  /\ pc = "probe" /\ OwnAdapter => is_in_scope(policy, Target) /\ phase # "refused"
  /\ pc = "persist" => index = Len(engagement.targets) + 1

\* What an adapter of the program asks for is in scope if the target is.
LEMMA FirstRequestsInScope ==
  ASSUME TypeOK, OwnAdapter, NEW url \in Urls, is_in_scope(policy, url),
         NEW first \in FirstRequests(url)
  PROVE  is_in_scope(policy, first[1])
<1>1. adapter.name \in {"security_headers", "wellknown", "tls"}
  BY AdaptersAssumption DEF TypeOK, OwnAdapter
<1>2. CASE adapter.name = "security_headers"
  BY <1>2 DEF FirstRequests
<1>3. CASE adapter.name = "tls"
  BY <1>3 DEF FirstRequests
<1>4. CASE adapter.name = "wellknown"
  <2>1. first[1] = [url EXCEPT !.path = SECURITY_TXT_PATH]
    BY <1>4 DEF FirstRequests
  <2>2. first[1].scheme = url.scheme /\ first[1].host = url.host
    BY <2>1, UrlsAssumption
  <2> QED
    BY <2>2 DEF is_in_scope
<1> QED
  BY <1>1, <1>2, <1>3, <1>4

\* The count of the targets in scope goes up with each that is.
LEMMA CountOneMore ==
  ASSUME NEW m \in Nat \ {0}
  PROVE  /\ IsFiniteSet(InScopeBefore(m)) /\ Cardinality(InScopeBefore(m)) \in Nat
         /\ Cardinality(InScopeBefore(m + 1)) =
              IF is_in_scope(policy, engagement.targets[m])
              THEN Cardinality(InScopeBefore(m)) + 1 ELSE Cardinality(InScopeBefore(m))
<1>1. 1..((m + 1) - 1) = 1..(m - 1) \cup {m} /\ m \notin 1..(m - 1)
  OBVIOUS
<1>2. m \notin InScopeBefore(m)
  BY <1>1 DEF InScopeBefore
<1>3. IsFiniteSet(InScopeBefore(m)) /\ Cardinality(InScopeBefore(m)) \in Nat
  <2>1. IsFiniteSet(1..(m - 1))
    BY FS_Interval
  <2>2. InScopeBefore(m) \in SUBSET (1..(m - 1))
    BY DEF InScopeBefore
  <2> QED
    BY <2>1, <2>2, FS_Subset, FS_CardinalityType
<1>4. CASE is_in_scope(policy, engagement.targets[m])
  <2>1. InScopeBefore(m + 1) = InScopeBefore(m) \cup {m}
    BY <1>1, <1>4 DEF InScopeBefore
  <2> QED
    BY <1>2, <1>3, <1>4, <2>1, FS_AddElement
<1>5. CASE ~ is_in_scope(policy, engagement.targets[m])
  <2>1. InScopeBefore(m + 1) = InScopeBefore(m)
    BY <1>1, <1>5 DEF InScopeBefore
  <2> QED
    BY <1>3, <1>5, <2>1
<1> QED
  BY <1>3, <1>4, <1>5

\* Every step keeps the counts.
LEMMA CountKeeps ==
  ASSUME IndInv, CountInv, [Next]_vars
  PROVE  CountInv'
<1>1. /\ index \in Nat \ {0} /\ scanned \in Nat /\ skipped \in Nat
      /\ captured \in Seq(CapturedDraft) /\ Len(captured) \in Nat
      /\ Len(engagement.targets) \in Nat
  <2>1. engagement.targets \in Seq(Urls)
    BY EngagementsAssumption DEF IndInv, Engagement
  <2> QED
    BY <2>1 DEF IndInv, TypeOK
<1>2. ASSUME UNCHANGED <<policy, setup, index, scanned, skipped, captured>>,
             pc' = "probe" /\ OwnAdapter => is_in_scope(policy, Target) /\ phase' # "refused",
             pc' = "persist" => pc = "persist" \/ index > Len(engagement.targets)
      PROVE  CountInv'
  <2>1. InScopeBefore(index)' = InScopeBefore(index)
    BY <1>2 DEF setup, InScopeBefore
  <2>2. OwnAdapter' = OwnAdapter /\ Target' = Target /\ is_in_scope(policy, Target)' = is_in_scope(policy, Target)
    BY <1>2 DEF setup, OwnAdapter, Target
  <2> QED
    BY <1>1, <1>2, <2>1, <2>2 DEF CountInv, setup
<1>3. ASSUME UNCHANGED <<policy, setup>>, index' = index + 1, index <= Len(engagement.targets),
             pc' \notin {"probe", "persist"}, Len(captured') <= scanned',
             \/ scanned' = scanned + 1 /\ skipped' = skipped
             \/ scanned' = scanned /\ skipped' = skipped + 1,
             OwnAdapter => (is_in_scope(policy, Target) <=> scanned' = scanned + 1)
      PROVE  CountInv'
  <2>1. /\ InScopeBefore(index)' = InScopeBefore(index + 1)
        /\ OwnAdapter' = OwnAdapter
    BY <1>3 DEF setup, InScopeBefore, OwnAdapter
  <2>2. OwnAdapter => scanned' = Cardinality(InScopeBefore(index + 1))
    BY <1>1, <1>3, CountOneMore DEF CountInv, Target
  <2> QED
    BY <1>1, <1>3, <2>1, <2>2 DEF CountInv, setup
<1>4. CASE Gate
  BY <1>2, <1>4 DEF Gate, fetchVars
<1>5. CASE SkipTarget
  BY <1>1, <1>3, <1>5 DEF SkipTarget, HasTarget, fetchVars, CountInv
<1>6. CASE Probe
  <2>1. index \in DOMAIN engagement.targets
    BY <1>1, <1>6, EngagementsAssumption DEF Probe, HasTarget, IndInv, Engagement
  <2>2. Target \in Urls
    BY <2>1, TargetTyped
  <2>3. PICK first \in FirstRequests(Target) : Begin(first[1], first[2])
    BY <1>6 DEF Probe
  <2>4. OwnAdapter => phase' = "hop"
    BY <1>6, <2>2, <2>3, FirstRequestsInScope DEF Probe, Begin, IndInv
  <2> QED
    BY <1>2, <1>6, <2>3, <2>4 DEF Probe, Begin
<1>7. CASE FetchStep
  <2>1. phase' \in {"sent", "hop", "outcome", "error"} /\ UNCHANGED policy
    <3>1. CASE Request
      BY <1>7, <3>1 DEF Request, IndInv, ScopeInv
    <3>2. CASE Receive
      BY <1>7, <3>2 DEF Receive, Answer, MissingLocation, RedirectOutOfScope, RedirectInScope,
                        NetworkError
    <3> QED
      BY <1>7, <3>1, <3>2 DEF FetchStep
  <2> QED
    BY <1>2, <1>7, <2>1 DEF FetchStep, probeVars, CountInv
<1>8. CASE AdapterRefused
  <2>1. index <= Len(engagement.targets)
    BY <1>1, <1>8, EngagementsAssumption DEF AdapterRefused, IndInv, IndexInv, Engagement
  <2>2. ~ OwnAdapter
    BY <1>8 DEF AdapterRefused, CountInv
  <2> QED
    BY <1>1, <1>3, <1>8, <2>1, <2>2 DEF AdapterRefused, CountInv
<1>9. CASE ProbeFailed
  BY <1>2, <1>9 DEF ProbeFailed, fetchVars
<1>10. CASE Handshake
  BY <1>2, <1>10 DEF Handshake, callVars, CountInv
<1>11. ASSUME NEW fired \in BOOLEAN, Capture(fired) PROVE CountInv'
  <2>1. index <= Len(engagement.targets)
    BY <1>1, <1>11, EngagementsAssumption DEF Capture, IndInv, IndexInv, Engagement
  <2>2. Len(captured') <= Len(captured) + 1
    BY <1>1, <1>11 DEF Capture
  <2>3. OwnAdapter => is_in_scope(policy, Target)
    BY <1>11 DEF Capture, CountInv
  <2>4. Len(captured') <= scanned'
    BY <1>1, <1>11, <2>2 DEF Capture, CountInv
  <2> QED
    BY <1>1, <1>3, <1>11, <2>1, <2>3, <2>4 DEF Capture
<1>12. CASE Persist
  BY <1>2, <1>12 DEF Persist, fetchVars
<1>13. CASE UNCHANGED vars
  BY <1>2, <1>13 DEF vars, fetchVars, probeVars, CountInv
<1> QED
  BY <1>4, <1>5, <1>6, <1>7, <1>8, <1>9, <1>10, <1>11, <1>12, <1>13 DEF Next

\* A scan that goes on to persist has probed every target that is in scope and
\* counted the others (the loop of run_scan).
THEOREM NoTargetIsMissed == Spec => []TargetsAccounted
<1>1. Init => CountInv
  <2> SUFFICES ASSUME Init PROVE CountInv
    OBVIOUS
  <2>1. InScopeBefore(index) = {}
    BY DEF Init, InScopeBefore
  <2>2. Len(engagement.targets) \in Nat
    BY EngagementsAssumption DEF Init
  <2> QED
    BY <2>1, <2>2, FS_EmptySet DEF Init, CountInv
<1>2. IndInv /\ CountInv /\ [Next]_vars => CountInv'
  BY CountKeeps
<1>3. IndInv /\ CountInv => TargetsAccounted
  <2> SUFFICES ASSUME IndInv, CountInv, pc = "persist"
               PROVE  TargetsAccounted
    BY DEF TargetsAccounted
  <2>1. engagement.targets \in Seq(Urls)
    BY EngagementsAssumption DEF IndInv, Engagement
  <2>2. index = Len(engagement.targets) + 1
    BY DEF CountInv
  <2>3. InScopeBefore(index) =
          {n \in DOMAIN engagement.targets : is_in_scope(policy, engagement.targets[n])}
    BY <2>1, <2>2 DEF InScopeBefore
  <2>4. scanned + skipped = Len(engagement.targets)
    BY <2>1, <2>2 DEF CountInv
  <2> QED
    BY <2>3, <2>4 DEF TargetsAccounted, CountInv, OwnAdapter
<1> QED
  BY <1>1, <1>2, <1>3, Invariance, PTL DEF Spec

-----------------------------------------------------------------------------
(***************************************************************************)
(* What a draft is attributed to.  A chain that is cut names a URL it never  *)
(* requested, but one it had checked; the response is always that of a URL   *)
(* it did request.                                                         *)
(***************************************************************************)

Requested(url) == \E r \in wire : r.url = url

AttributionInv ==
  /\ phase = "sent" => Requested(current)
  /\ phase = "outcome" => Requested(outcome.headers) /\ is_in_scope(policy, outcome.final_url)
  /\ \A n \in DOMAIN captured :
       Requested(captured[n].headers) /\ is_in_scope(policy, captured[n].target)

\* Every step keeps it.
LEMMA AttributionKeeps ==
  ASSUME IndInv, AttributionInv, [Next]_vars
  PROVE  AttributionInv'
<1>1. UNCHANGED policy /\ wire \subseteq wire'
  <2>1. CASE FetchStep
    BY <2>1 DEF FetchStep, Request, Receive, Answer, MissingLocation, RedirectOutOfScope,
                RedirectInScope, NetworkError
  <2>2. CASE Gate \/ SkipTarget \/ ProbeFailed \/ Persist
    BY <2>2 DEF Gate, SkipTarget, ProbeFailed, Persist, fetchVars
  <2>3. CASE Probe \/ AdapterRefused \/ Handshake \/ \E fired \in BOOLEAN : Capture(fired)
    BY <2>3 DEF Probe, Begin, AdapterRefused, Handshake, Capture
  <2>4. CASE UNCHANGED vars
    BY <2>4 DEF vars, fetchVars
  <2> QED
    BY <2>1, <2>2, <2>3, <2>4 DEF Next
<1>2. \A url : Requested(url) => Requested(url)'
  BY <1>1 DEF Requested
<1>3. ASSUME UNCHANGED captured,
             phase' = "sent" => phase = "sent" /\ UNCHANGED current,
             phase' = "outcome" => phase = "outcome" /\ UNCHANGED outcome
      PROVE  AttributionInv'
  BY <1>1, <1>2, <1>3 DEF AttributionInv, Requested
<1>4. CASE Gate \/ SkipTarget \/ ProbeFailed \/ Persist \/ UNCHANGED vars
  BY <1>3, <1>4 DEF Gate, SkipTarget, ProbeFailed, Persist, vars, fetchVars, callVars, probeVars
<1>5. CASE Probe \/ AdapterRefused \/ Handshake
  BY <1>3, <1>5 DEF Probe, Begin, AdapterRefused, End, Handshake, callVars
<1>6. ASSUME NEW fired \in BOOLEAN, Capture(fired) PROVE AttributionInv'
  <2> PICK draft : draft = [target |-> outcome.final_url, headers |-> outcome.headers,
                            stopped_reason |-> outcome.stopped_reason]
    OBVIOUS
  <2>1. /\ phase' = "idle"
        /\ captured' = Append(captured, draft) \/ captured' = captured
        /\ Requested(draft.headers) /\ is_in_scope(policy, draft.target)
    BY <1>6 DEF Capture, End, AttributionInv
  <2>2. captured \in Seq(CapturedDraft)
    BY DEF IndInv, TypeOK
  <2>3. \A n \in DOMAIN captured' :
          captured'[n] = draft \/ (n \in DOMAIN captured /\ captured'[n] = captured[n])
    BY <2>1, <2>2
  <2>4. \A n \in DOMAIN captured' :
          Requested(captured'[n].headers) /\ is_in_scope(policy, captured'[n].target)
    BY <2>1, <2>3 DEF AttributionInv
  <2> QED
    BY <1>1, <1>2, <2>1, <2>4 DEF AttributionInv, Requested
<1>7. CASE FetchStep /\ Request
  <2>1. /\ phase' = "sent" /\ UNCHANGED <<current, captured>>
        /\ [url |-> current, credential |-> policy.auth] \in wire'
    BY <1>7 DEF FetchStep, Request, probeVars, IndInv, ScopeInv
  <2>2. Requested(current)'
    BY <2>1 DEF Requested
  <2> QED
    BY <1>1, <1>2, <2>1, <2>2 DEF AttributionInv, Requested
<1>8. CASE FetchStep /\ Receive
  <2>1. /\ phase = "sent" /\ UNCHANGED captured
        /\ Requested(current) /\ is_in_scope(policy, current)
    BY <1>8 DEF FetchStep, Receive, Answer, MissingLocation, RedirectOutOfScope, RedirectInScope,
                NetworkError, probeVars, IndInv, ScopeInv, AttributionInv
  <2>2. /\ phase' # "sent"
        /\ phase' = "outcome" =>
             \E final, reason : outcome' = outcome_of(final, reason) /\ is_in_scope(policy, final)
    BY <1>8, <2>1 DEF Receive, Answer, MissingLocation, RedirectOutOfScope, RedirectInScope,
                      NetworkError
  <2>3. ASSUME phase' = "outcome"
        PROVE  outcome'.headers = current /\ is_in_scope(policy, outcome'.final_url)
    BY <2>2, <2>3 DEF outcome_of
  <2> QED
    BY <1>1, <1>2, <2>1, <2>2, <2>3 DEF AttributionInv, Requested
<1> QED
  BY <1>4, <1>5, <1>6, <1>7, <1>8 DEF Next, FetchStep

\* Every draft read the response to a request that was made, and is attributed
\* to a URL in scope: what a cut chain loses is only which of the two it names.
THEOREM ResponsesWereRequested ==
  Spec => [](\A n \in DOMAIN captured :
               /\ \E r \in wire : r.url = captured[n].headers
               /\ is_in_scope(policy, captured[n].target)
               /\ captured[n].stopped_reason # "TOO_MANY_REDIRECTS" =>
                    captured[n].target = captured[n].headers)
<1>1. Init => AttributionInv
  BY DEF Init, FetchInit, AttributionInv
<1>2. IndInv /\ AttributionInv /\ [Next]_vars => AttributionInv'
  BY AttributionKeeps
<1>3. IndInv /\ AttributionInv =>
        \A n \in DOMAIN captured :
          /\ \E r \in wire : r.url = captured[n].headers
          /\ is_in_scope(policy, captured[n].target)
          /\ captured[n].stopped_reason # "TOO_MANY_REDIRECTS" => captured[n].target = captured[n].headers
  BY DEF IndInv, AttributionInv, Requested, EvidenceNamesResponder
<1> QED
  BY <1>1, <1>2, <1>3, Invariance, PTL DEF Spec

=============================================================================
