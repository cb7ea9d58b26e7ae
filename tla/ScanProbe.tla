----------------------------- MODULE ScanProbe -----------------------------
(***************************************************************************)
(* The probe phase of a scan (services/scan_runner.py, run_scan): the       *)
(* safety gate, then one probe per target in scope, each through Fetch.     *)
(* Nothing is written before the last probe is back: what it ends with,     *)
(* the captured drafts and two counts, is what ScanPersist starts from.     *)
(***************************************************************************)
EXTENDS Fetch, FiniteSets

CONSTANTS
  Engagements,             \* [mode, scope_allow, scope_deny, targets], and the auth of the scan
  Adapters,                \* [name, safety]
  DEFAULT_MAX_REDIRECTS,
  SECURITY_TXT_PATH

ASSUME RedirectsAssumption == DEFAULT_MAX_REDIRECTS \in Nat
ASSUME UrlsAssumption ==
  /\ NoUrl \notin Urls
  /\ \A u \in Urls : /\ {"scheme", "host", "path"} \subseteq DOMAIN u
                     /\ u.host.host \in Seq(Labels) \ {<<>>}
                     /\ [u EXCEPT !.path = SECURITY_TXT_PATH] \in Urls

ASSUME EngagementsAssumption ==
  \A e \in Engagements :
    /\ e.targets \in Seq(Urls)
    /\ e.auth \in AuthCredential \cup {NoAuth}
    /\ \A rule \in e.scope_allow \cup e.scope_deny :
          /\ rule.wildcard \in BOOLEAN
          /\ rule.spelled.host \in Seq(Labels)

ASSUME AdaptersAssumption ==
  \A a \in Adapters : a.name \in {"security_headers", "wellknown", "tls", "plugin"}

VARIABLES
  engagement,
  adapter,
  safe_mode,   \* settings.safe_mode
  pc,
  index,       \* of the target the loop is at
  handshake,   \* whether the adapter has done its TLS handshake for this target
  scanned,
  skipped,
  captured     \* drafts: the URL each is attributed to, and whose response it read

setup     == <<engagement, adapter, safe_mode>>
probeVars == <<setup, pc, index, handshake, scanned, skipped, captured>>
vars      == <<fetchVars, probeVars>>

CapturedDraft == [target : Urls, headers : Urls, stopped_reason : StoppedReason]

TypeOK ==
  /\ FetchTypeOK
  /\ engagement \in Engagements
  /\ adapter \in Adapters
  /\ safe_mode \in BOOLEAN
  /\ pc \in {"gate", "loop", "probe", "not_permitted", "persist", "failed"}
  /\ index \in Nat \ {0}
  /\ handshake \in BOOLEAN
  /\ scanned \in Nat
  /\ skipped \in Nat
  /\ captured \in Seq(CapturedDraft)

ScanPolicy(e) ==
  [allow |-> e.scope_allow, deny |-> e.scope_deny,
   allow_dangerous_ranges |-> FALSE, auth |-> e.auth]

Init ==
  /\ engagement \in Engagements
  /\ adapter \in Adapters
  /\ safe_mode \in BOOLEAN
  /\ pc = "gate"
  /\ policy = ScanPolicy(engagement)
  /\ FetchInit
  /\ index = 1
  /\ handshake = FALSE
  /\ scanned = 0
  /\ skipped = 0
  /\ captured = <<>>

-----------------------------------------------------------------------------
KNOWN_MODES == {"passive", "active"}

\* assert_scan_permitted returns.
scan_permitted ==
  /\ engagement.mode \in KNOWN_MODES
  /\ safe_mode => engagement.mode = "passive" /\ adapter.safety = "passive"
  /\ engagement.mode = "passive" => adapter.safety = "passive"

Gate ==
  /\ pc = "gate"
  /\ pc' = IF scan_permitted THEN "loop" ELSE "not_permitted"
  /\ UNCHANGED <<fetchVars, setup, index, handshake, scanned, skipped, captured>>

HasTarget == pc = "loop" /\ index <= Len(engagement.targets)

Target == engagement.targets[index]

SkipTarget ==
  /\ HasTarget
  /\ ~ is_in_scope(policy, Target)
  /\ index' = index + 1
  /\ skipped' = skipped + 1
  /\ UNCHANGED <<fetchVars, setup, pc, handshake, scanned, captured>>

\* What an adapter asks for first, and how many redirects it lets it follow.
\* A plugin asks for what it likes.
FirstRequests(url) ==
  CASE adapter.name = "security_headers" -> {<<url, DEFAULT_MAX_REDIRECTS>>}
    [] adapter.name = "wellknown" ->
         {<<[url EXCEPT !.path = SECURITY_TXT_PATH], DEFAULT_MAX_REDIRECTS>>}
    [] adapter.name = "tls" -> {<<url, 0>>}
    [] adapter.name = "plugin" -> Urls \X {DEFAULT_MAX_REDIRECTS}

Probe ==
  /\ HasTarget
  /\ is_in_scope(policy, Target)
  /\ pc' = "probe"
  /\ handshake' = FALSE
  /\ \E first \in FirstRequests(Target) : Begin(first[1], first[2])
  /\ UNCHANGED <<setup, index, scanned, skipped, captured>>

\* A step of the fetch under way.
FetchStep ==
  /\ pc = "probe"
  /\ Request \/ Receive
  /\ UNCHANGED probeVars

\* Variant: the skip is not counted.
AdapterRefused_uncounted ==
  /\ pc = "probe"
  /\ phase = "refused"
  /\ End
  /\ pc' = "loop"
  /\ index' = index + 1
  /\ UNCHANGED <<policy, wire, setup, handshake, scanned, skipped, captured>>

\* Variant: the target is probed again.
AdapterRefused_retried ==
  /\ pc = "probe"
  /\ phase = "refused"
  /\ End
  /\ pc' = "loop"
  /\ UNCHANGED <<policy, wire, setup, index, handshake, scanned, skipped, captured>>

\* OutOfScopeRequest out of the adapter is a skip.
AdapterRefused ==
  /\ pc = "probe"
  /\ phase = "refused"
  /\ End
  /\ pc' = "loop"
  /\ index' = index + 1
  /\ skipped' = skipped + 1
  /\ UNCHANGED <<policy, wire, setup, handshake, scanned, captured>>

\* Any other exception is the end of the scan: nothing is persisted.
ProbeFailed ==
  /\ pc = "probe"
  /\ phase = "error"
  /\ pc' = "failed"
  /\ UNCHANGED <<fetchVars, setup, index, handshake, scanned, skipped, captured>>

NeedsHandshake == adapter.name = "tls" /\ Target.scheme = "https" /\ ~ handshake

\* probe_tls_within_scope: the target's own host, scope checked again, no
\* credential.  A failed handshake is data.
Handshake ==
  /\ pc = "probe"
  /\ phase = "outcome"
  /\ NeedsHandshake
  /\ IF is_in_scope(policy, Target)
     THEN /\ wire' = wire \cup {[url |-> Target, credential |-> NoAuth]}
          /\ handshake' = TRUE
          /\ UNCHANGED phase
     ELSE /\ phase' = "refused"
          /\ UNCHANGED <<wire, handshake>>
  /\ UNCHANGED <<policy, callVars, outcome, setup, pc, index, scanned, skipped, captured>>

\* The probe is back: seal it and parse it.  Its drafts are attributed to the
\* outcome's final URL; fired is whether it has any.
Capture(fired) ==
  /\ pc = "probe"
  /\ phase = "outcome"
  /\ ~ NeedsHandshake
  /\ scanned' = scanned + 1
  /\ captured' = IF fired
                 THEN Append(captured, [target |-> outcome.final_url, headers |-> outcome.headers,
                                        stopped_reason |-> outcome.stopped_reason])
                 ELSE captured
  /\ index' = index + 1
  /\ pc' = "loop"
  /\ End
  /\ UNCHANGED <<policy, wire, setup, handshake, skipped>>

\* No target is left: on to _persist_scan.
Persist ==
  /\ pc = "loop"
  /\ index > Len(engagement.targets)
  /\ pc' = "persist"
  /\ UNCHANGED <<fetchVars, setup, index, handshake, scanned, skipped, captured>>

Next ==
  \/ Gate
  \/ SkipTarget
  \/ Probe
  \/ FetchStep
  \/ AdapterRefused
  \/ ProbeFailed
  \/ Handshake
  \/ \E fired \in BOOLEAN : Capture(fired)
  \/ Persist

Spec     == Init /\ [][Next]_vars

\* The event loop runs the request, and every call to a server is answered or
\* times out (timeout=settings.http_timeout).
FairSpec == Spec /\ WF_vars(Next)

-----------------------------------------------------------------------------
\* Safety: what leaves the program.

\* Whatever the servers answer and whatever the adapter asks for, no request
\* reaches a host that is private, or denied, or below a denied one - however
\* a URL, a redirect or a rule spells it - nor one that no allow rule names
\* (fetch.py: scope is enforced before every hop).  Private are IP literals: a
\* name that resolves to a private address passes, in the code as here
\* (scope.py, "Known residual risk"; KI-003).
EgressInScope ==
  \A r \in wire :
    LET host     == r.url.host.host
        Covers(rule) == rule.spelled.host = host \/ \E n \in 1..Len(host)-1 :
                          SubSeq(host, n+1, Len(host)) = rule.spelled.host
    IN  /\ host \notin DangerousHosts
        /\ \A rule \in engagement.scope_deny : ~ Covers(rule)
        /\ \E rule \in engagement.scope_allow :
             Covers(rule) /\ (rule.wildcard \/ rule.spelled.host = host)

\* No chain of redirects, and no loop of them, makes more requests than one
\* call is allowed, also when it is allowed none.
ChainBounded == Len(chain) <= max_redirects + 1

-----------------------------------------------------------------------------
\* Safety: what the scan captures.

\* Evidence is attributed to the URL whose response it is, unless the chain
\* was cut for its length.
EvidenceNamesResponder ==
  \A n \in DOMAIN captured :
    captured[n].stopped_reason # "TOO_MANY_REDIRECTS" =>
      captured[n].target = captured[n].headers

\* "A hash never attests to a host that did not send the bytes" (fetch.py).
EvidenceWasRequested ==
  \A n \in DOMAIN captured : \E r \in wire : r.url = captured[n].target

\* A scan that goes on to persist has probed every target that is in scope
\* and counted the others: none is missed, and none is counted twice.
TargetsAccounted ==
  pc = "persist" =>
    LET inside == {n \in DOMAIN engagement.targets :
                     is_in_scope(policy, engagement.targets[n])}
    IN  /\ scanned + skipped = Len(engagement.targets)
        /\ adapter.name # "plugin" => scanned = Cardinality(inside)
        /\ Len(captured) <= scanned

\* A scan ends, whatever servers redirect in circles.
ScanEnds == <>(pc \in {"not_permitted", "persist", "failed"})

=============================================================================
