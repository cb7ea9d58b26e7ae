----------------------------- MODULE Remediation -----------------------------
(***************************************************************************)
(* A target whose owner does what its findings say: every rule of an        *)
(* adapter carries a remediation, and a step follows one of them.  The      *)
(* drafts of each adapter are computed anew after each step, as a rescan    *)
(* would compute them, and so are the report of those findings and the       *)
(* verdict of the accuracy gate on them.                                    *)
(***************************************************************************)
EXTENDS Adapters, Report, Lab

CONSTANTS
  Responses,      \* what targets may answer to begin with
  PluginDrafts    \* what an adapter of somebody else's reports of every target

\* What an adapter looks at, and what it makes of it.
SPELLINGS == {"as-typed", "lower"}

URL      == [scheme : {"http", "https"}, page : STRING, spelling : SPELLINGS]
Response ==
  [url : URL, headers : SUBSET {HeaderRules[n].check : n \in DOMAIN HeaderRules},
   origin : {"none", "*", "null", "some"}, credentials : BOOLEAN, location_https : BOOLEAN,
   tls : {"none", "error", "expired", "self_signed", "invalid", "TLSv1.2", "TLSv1.3"}
           \cup WEAK_PROTOCOLS,
   cookies : Seq([name : STRING, attributes : SUBSET DOMAIN ATTRIBUTE_CHECKS]),
   status_ok : BOOLEAN, contact : BOOLEAN]
FindingRule  ==
  [check : STRING, title : STRING, rule_id : STRING, severity : 0..4, cvss : 0..100,
   techniques : Seq(STRING)]
FindingDraft == [rule : FindingRule, target : URL, location : STRING]

ASSUME ResponsesAssumption == Responses \subseteq Response
ASSUME PluginAssumption    == PluginDrafts \in Seq(FindingDraft)

VARIABLE response

Init == response \in Responses

Keys(adapter, r)  == {dedup_key(draft) : draft \in ToSet(parse_output(adapter, r))}
Fired(adapter, r) == {draft.rule.check : draft \in ToSet(parse_output(adapter, r))}

Worst(adapter, r) ==
  LET drafts == parse_output(adapter, r)
  IN  CHOOSE s \in 0..HIGH :
        /\ \A n \in DOMAIN drafts : drafts[n].rule.severity <= s
        /\ s = 0 \/ \E n \in DOMAIN drafts : drafts[n].rule.severity = s

\* Something an adapter makes of q is scored above all it makes of r.
ScoredAbove(adapter, q, r) ==
  \E d \in ToSet(parse_output(adapter, q)) : \A e \in ToSet(parse_output(adapter, r)) :
    d.rule.cvss > e.rule.cvss

-----------------------------------------------------------------------------
\* The findings of an engagement whose one target is scanned with each adapter.

\* Variant: the finding keeps the severity it was created with.
collapse_first_severity(findings, draft) ==
  IF \E f \in ToSet(findings) : f.key = dedup_key(draft) THEN findings
  ELSE Append(findings,
         [key |-> dedup_key(draft), label |-> Len(findings) + 1, severity |-> draft.rule.severity,
          status |-> "new", in_report |-> TRUE, techniques |-> draft.rule.techniques])

\* A repeat raises the severity of the finding it collapses onto, and is
\* evidence of it; a finding keeps the techniques of the draft it came from.
collapse(findings, draft) ==
  IF \E f \in ToSet(findings) : f.key = dedup_key(draft)
  THEN [n \in DOMAIN findings |->
          IF findings[n].key = dedup_key(draft)
          THEN [findings[n] EXCEPT !.severity = Max({@, draft.rule.severity})]
          ELSE findings[n]]
  ELSE Append(findings,
         [key |-> dedup_key(draft), label |-> Len(findings) + 1, severity |-> draft.rule.severity,
          status |-> "new", in_report |-> TRUE, techniques |-> draft.rule.techniques])

Shipped == <<"security_headers", "tls", "cookie_flags", "cors", "wellknown">>

FindingsOf(order, r) ==
  LET drafts == FlattenSeq([n \in DOMAIN order |-> parse_output(order[n], r)]) \o PluginDrafts
      findings[n \in 0..Len(drafts)] ==
        IF n = 0 THEN <<>> ELSE collapse(findings[n - 1], drafts[n])
  IN  findings[Len(drafts)]

\* The manifest that expects of a target what the adapter reports of it today.
Oracle(adapter, r) ==
  LET drafts == parse_output(adapter, r)
  IN  [adapter |-> adapter,
       expect  |-> [n \in DOMAIN drafts |->
                      [id |-> drafts[n].rule.check, min_severity |-> drafts[n].rule.severity]]]

\* The same, every severity expected to be one higher.
Stricter(manifest) ==
  [manifest EXCEPT !.expect = [n \in DOMAIN @ |->
                                 [id |-> @[n].id, min_severity |-> @[n].min_severity + 1]]]

-----------------------------------------------------------------------------
\* "Set a Content-Security-Policy ..." and the four like it.
SendHeader(h) ==
  /\ h \in Fired("security_headers", response)
  /\ response' = [response EXCEPT !.headers = @ \cup {h}]

\* "Return a 301 redirect", "Send Strict-Transport-Security", a certificate
\* that verifies, "require TLS 1.2 or higher".
FixTransport(check) ==
  /\ check \in Fired("tls", response)
  /\ response' = CASE check = "no-https-redirect" -> [response EXCEPT !.location_https = TRUE]
                   [] check = "hsts-missing" -> [response EXCEPT !.headers = @ \cup {HSTS_HEADER}]
                   [] OTHER -> [response EXCEPT !.tls = "TLSv1.3"]

\* "Add the Secure attribute" and the two like it, to one cookie.
AddAttribute(n, attribute) ==
  /\ n \in DOMAIN response.cookies
  /\ attribute \notin response.cookies[n].attributes
  /\ response' = [response EXCEPT !.cookies[n].attributes = @ \cup {attribute}]

\* "Do not return ... null", "drop Access-Control-Allow-Credentials" for an
\* allowed origin, "Echo only an explicit allowlist" for any origin.
FixCors(check) ==
  /\ check \in Fired("cors", response)
  /\ response' = CASE check = "null-origin" -> [response EXCEPT !.origin = "none"]
                   [] check = "credentialed-origin" -> [response EXCEPT !.credentials = FALSE]
                   [] OTHER -> [response EXCEPT !.origin = "some"]

\* "Publish a security.txt" with "at least a Contact".
PublishSecurityTxt ==
  /\ Fired("wellknown", response) # {}
  /\ response' = [response EXCEPT !.status_ok = TRUE, !.contact = TRUE]

Next ==
  \/ \E n \in DOMAIN HeaderRules : SendHeader(HeaderRules[n].check)
  \/ \E n \in DOMAIN TransportRules : FixTransport(TransportRules[n].check)
  \/ \E n \in DOMAIN response.cookies, a \in DOMAIN ATTRIBUTE_CHECKS : AddAttribute(n, a)
  \/ \E n \in DOMAIN CorsRules : FixCors(CorsRules[n].check)
  \/ PublishSecurityTxt

Spec     == Init /\ [][Next]_response
FairSpec == Spec /\ WF_response(Next)

-----------------------------------------------------------------------------
\* The report of the target's findings.

\* "Coverage never silently loses a finding" (report_attack.py): every finding
\* is in the tactic of each technique it has, mapped, unmapped or below a
\* mapped one; a tactic counts once every technique of every finding, so the
\* tactics together count the findings as often as they have techniques.
CoverageLosesNoFinding ==
  LET findings == report_findings(FindingsOf(Shipped, response))
      coverage == attack_coverage(findings)
      Listed(t) == {c \in DOMAIN coverage : \E x \in coverage[c].techniques : x.technique = t}
  IN  /\ \A f \in ToSet(findings) : \A t \in ToSet(f.techniques) : Cardinality(Listed(t)) = 1
      /\ Total([n \in DOMAIN coverage |-> coverage[n].count])
           = Total([n \in DOMAIN findings |-> Len(findings[n].techniques)])
      /\ \A m, n \in DOMAIN coverage : coverage[m].tactic = coverage[n].tactic => m = n

\* The sections of the report are of the same findings in the same order: the
\* roadmap's bands are the list, its first band gives the posture, the
\* severity table adds up to the total (build_report_context).
ReportAddsUp ==
  LET report  == ReportSections(FindingsOf(Shipped, response))
      roadmap == remediation_roadmap(report.findings)
      counts  == severity_counts(report.findings)
  IN  /\ FlattenSeq([n \in DOMAIN roadmap |-> roadmap[n].findings]) = report.findings
      /\ Len(report.machine) + Len(report.validated) = report.total
      /\ Total([n \in DOMAIN counts |-> counts[n].count]) = report.total
      /\ report.total > 0 =>
           risk_posture(report.findings) = risk_posture(roadmap[1].findings)

\* "The finding's severity does not depend on which adapter ran first"
\* (scan_runner.py), and so neither do the posture and the severity table.
\* What does depend on it is which techniques the shared HSTS finding has.
ReportIgnoresScanOrder ==
  LET one   == FindingsOf(Shipped, response)
      other == FindingsOf(Reverse(Shipped), response)
  IN  /\ {<<f.key, f.severity>> : f \in ToSet(one)} = {<<f.key, f.severity>> : f \in ToSet(other)}
      /\ severity_counts(one) = severity_counts(other)
      /\ risk_posture(one) = risk_posture(other)
      /\ \A f \in ToSet(one), g \in ToSet(other) :
           f.key = g.key /\ f.techniques # g.techniques => f.key[1] = HSTS_RULE_ID

\* The gate turns red exactly when a check appears, disappears or is rated
\* lower than its manifest expects: written for one response, a manifest
\* passes on just the responses that set off the same checks (harness.py:
\* "exits non-zero on any FP or FN").
GateIsExact ==
  \A a \in AdapterNames :
    LET Expecting(manifest) == [manifest |-> manifest, drafts |-> parse_output(a, response)]
        others == <<Expecting(Oracle(CHOOSE b \in AdapterNames : b # a, response))>>
    IN  /\ \A r \in Responses :
             gate_passes(others \o <<Expecting(Oracle(a, r))>>, a) <=> Fired(a, r) = Fired(a, response)
        /\ ~ gate_passes(others, a)
        /\ Fired(a, response) # {} =>
             ~ gate_passes(<<Expecting(Stricter(Oracle(a, response)))>>, a)

-----------------------------------------------------------------------------
\* Two drafts of one probe are of different issues, but for a cookie that is
\* set twice: only there does a new finding get evidence in its own scan, the
\* case _persist_scan cannot store where foreign keys are checked.
ProbeKeysDistinct ==
  \A a \in AdapterNames :
    LET drafts == parse_output(a, response)
    IN  \A m, n \in DOMAIN drafts :
          m # n /\ dedup_key(drafts[m]) = dedup_key(drafts[n]) =>
            \E i, j \in DOMAIN response.cookies :
              /\ a = "cookie_flags"
              /\ i # j
              /\ response.cookies[i].name = drafts[m].location
              /\ response.cookies[j].name = drafts[m].location

\* Of the issues two adapters report of one page, however each spells it,
\* exactly the missing HSTS header is one issue ("a shared rule_id collapses
\* both into one finding", security_headers.py).
OnlyHstsIsShared ==
  \A a, b \in AdapterNames, spelling \in SPELLINGS :
    LET other  == [response EXCEPT !.url.spelling = spelling]
        shared == {k \in Keys(a, response) : k \in Keys(b, other)}
    IN  a # b => shared = {k \in Keys("security_headers", response) :
                             {a, b} = {"security_headers", "tls"} /\ k[1] = HSTS_RULE_ID}

\* Following a remediation makes nothing more severe: no adapter's worst finding
\* is more severe after it than before, and none has more findings.  Nor is any
\* scored above all that were there before, but for one: of a wildcard with
\* credentials (CVSS 7.5) the advice to echo only an allowlist leaves an allowed
\* origin with credentials (8.1), which the next scan reports.
RemediationHelps ==
  [][\A a \in AdapterNames :
       /\ Worst(a, response') <= Worst(a, response)
       /\ Cardinality(Keys(a, response')) <= Cardinality(Keys(a, response))
       /\ ScoredAbove(a, response', response) =>
            Fired(a, response) = {"wildcard-with-credentials"}]_response

\* Following them all ends with a target that no adapter reports.
RemediationEnds == <>[](\A a \in AdapterNames : Keys(a, response) = {})

=============================================================================
