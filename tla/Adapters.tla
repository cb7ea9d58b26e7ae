------------------------------ MODULE Adapters ------------------------------
(***************************************************************************)
(* What the adapters make of a response (provx_sdk/adapters, parse_output): *)
(* pure functions from the envelope of a probe to drafts, and the dedup     *)
(* identity of a draft (provx_sdk/findings.py).                            *)
(*                                                                         *)
(* A response is the facts the rules look at:                              *)
(*   url              the URL the drafts are attributed to, as spelled      *)
(*   headers          the security headers sent with a value               *)
(*   origin, credentials   the two CORS headers                            *)
(*   location_https   its Location is an https URL                         *)
(*   tls              what the handshake ended with; "none" without one     *)
(*   cookies          [name, attributes] of each Set-Cookie, in order       *)
(*   status_ok, contact    security.txt: status 200, a Contact line        *)
(* Titles are fixed texts and stand for their normalized form.             *)
(***************************************************************************)
EXTENDS Lists, SequencesExt

LOW    == 1
MEDIUM == 2
HIGH   == 3

HSTS_RULE_ID == "missing-hsts"
HSTS_HEADER  == "strict-transport-security"
HSTS_TITLE   == "Missing-HSTS"

\* No rule_id: the title is the identity.
NoRuleId == "no-rule-id"

\* Nor a location, unless it is of a cookie.
NoLocation == "no-location"

\* The CVSS score is in tenths.
Rule(check, title, rule_id, severity, cvss, techniques) ==
  [check |-> check, title |-> title, rule_id |-> rule_id, severity |-> severity, cvss |-> cvss,
   techniques |-> techniques]

HeaderRules ==
  <<Rule("content-security-policy", "Missing-CSP", NoRuleId, LOW, 31, <<"T1595">>),
    Rule("x-frame-options", "Missing-XFO", NoRuleId, LOW, 31, <<"T1595">>),
    Rule(HSTS_HEADER, HSTS_TITLE, HSTS_RULE_ID, LOW, 37, <<"T1595">>),
    Rule("x-content-type-options", "Missing-XCTO", NoRuleId, LOW, 24, <<"T1595">>),
    Rule("referrer-policy", "Missing-Referrer-Policy", NoRuleId, LOW, 24, <<"T1595">>)>>

\* Variant: the shared identity of the HSTS issue is left out.
TransportRules_own_hsts ==
  <<Rule("no-https-redirect", "No-redirect-to-HTTPS", NoRuleId, MEDIUM, 65, <<"T1040", "T1557">>),
    Rule("hsts-missing", HSTS_TITLE, NoRuleId, MEDIUM, 53, <<"T1557">>),
    Rule("cert-expired", "Certificate-expired", NoRuleId, HIGH, 74, <<"T1557">>),
    Rule("cert-untrusted", "Certificate-untrusted", NoRuleId, MEDIUM, 53, <<"T1557">>),
    Rule("weak-protocol", "Weak-protocol", NoRuleId, MEDIUM, 59, <<"T1557", "T1040">>)>>

TransportRules ==
  <<Rule("no-https-redirect", "No-redirect-to-HTTPS", NoRuleId, MEDIUM, 65, <<"T1040", "T1557">>),
    Rule("hsts-missing", HSTS_TITLE, HSTS_RULE_ID, MEDIUM, 53, <<"T1557">>),
    Rule("cert-expired", "Certificate-expired", NoRuleId, HIGH, 74, <<"T1557">>),
    Rule("cert-untrusted", "Certificate-untrusted", NoRuleId, MEDIUM, 53, <<"T1557">>),
    Rule("weak-protocol", "Weak-protocol", NoRuleId, MEDIUM, 59, <<"T1557", "T1040">>)>>

\* The title of a cookie rule names the cookie; its identity is its check.
CookieRules ==
  <<Rule("secure-missing", "Cookie-without-Secure", "secure-missing", MEDIUM, 53, <<"T1539">>),
    Rule("httponly-missing", "Cookie-without-HttpOnly", "httponly-missing", MEDIUM, 53,
         <<"T1539", "T1185">>),
    Rule("samesite-missing", "Cookie-without-SameSite", "samesite-missing", LOW, 43, <<"T1539">>)>>

\* The check that reports the absence of each attribute.
ATTRIBUTE_CHECKS ==
  [secure |-> "secure-missing", httponly |-> "httponly-missing", samesite |-> "samesite-missing"]

CorsRules ==
  <<Rule("wildcard-with-credentials", "Any-origin-with-credentials", NoRuleId, HIGH, 75,
         <<"T1190", "T1539">>),
    Rule("wildcard-origin", "Any-origin", NoRuleId, MEDIUM, 53, <<"T1190">>),
    Rule("null-origin", "Null-origin", NoRuleId, MEDIUM, 58, <<"T1190">>),
    Rule("credentialed-origin", "Some-origin-with-credentials", NoRuleId, HIGH, 81,
         <<"T1190", "T1539">>)>>

WellKnownRules ==
  <<Rule("security-txt-missing", "No-security-txt", NoRuleId, LOW, 31, <<"T1591">>),
    Rule("security-txt-unparseable", "Invalid-security-txt", NoRuleId, LOW, 26, <<"T1591">>)>>

-----------------------------------------------------------------------------
\* What fires.

missing_headers(r) == {HeaderRules[n].check : n \in DOMAIN HeaderRules} \ r.headers

WEAK_PROTOCOLS == {"SSLv2", "SSLv3", "TLSv1", "TLSv1.1"}

\* Nothing is said of a certificate nobody saw; a handshake either fails its
\* verification or has a protocol.
cert_checks(tls) ==
  CASE tls = "expired"                       -> {"cert-expired"}
    [] tls \in {"self_signed", "invalid"}     -> {"cert-untrusted"}
    [] tls \in WEAK_PROTOCOLS                -> {"weak-protocol"}
    [] OTHER                                 -> {}

\* Variant: the name of the header is not in the case responses have.
fired_checks_title_case(r) ==
  {c \in {"hsts-missing"} : "Strict-Transport-Security" \notin r.headers}
    \cup {c \in {"no-https-redirect"} : r.url.scheme = "http" /\ ~ r.location_https}
    \cup cert_checks(r.tls)

fired_checks(r) ==
  {c \in {"hsts-missing"} : HSTS_HEADER \notin r.headers}
    \cup {c \in {"no-https-redirect"} : r.url.scheme = "http" /\ ~ r.location_https}
    \cup cert_checks(r.tls)

\* Variant: a specific origin is reported without credentials.
cors_check_uncredentialed(origin, credentials) ==
  CASE origin = "*" /\ credentials     -> {"wildcard-with-credentials"}
    [] origin = "*" /\ ~ credentials   -> {"wildcard-origin"}
    [] origin = "null"                 -> {"null-origin"}
    [] origin = "some" /\ ~ credentials -> {"credentialed-origin"}
    [] OTHER                           -> {}

\* A specific origin without credentials is what a site may well intend.
cors_check(origin, credentials) ==
  CASE origin = "*" /\ credentials     -> {"wildcard-with-credentials"}
    [] origin = "*" /\ ~ credentials   -> {"wildcard-origin"}
    [] origin = "null"                 -> {"null-origin"}
    [] origin = "some" /\ credentials   -> {"credentialed-origin"}
    [] OTHER                           -> {}

missing_attributes(cookie) == {ATTRIBUTE_CHECKS[a] : a \in DOMAIN ATTRIBUTE_CHECKS \ cookie.attributes}

wellknown_check(r) ==
  IF ~ r.status_ok THEN {"security-txt-missing"}
  ELSE {c \in {"security-txt-unparseable"} : ~ r.contact}

-----------------------------------------------------------------------------
\* The drafts, in the order of the rules.
Emit(rules, fired, url, location) ==
  LET hit == Kept(rules, {n \in DOMAIN rules : rules[n].check \in fired})
  IN  [n \in DOMAIN hit |-> [rule |-> hit[n], target |-> url, location |-> location]]

\* A cookie and a rule that fires for it, cookie by cookie.
CookieHits(r) ==
  {p \in (DOMAIN r.cookies) \X (DOMAIN CookieRules) :
     CookieRules[p[2]].check \in missing_attributes(r.cookies[p[1]])}

CookieOrder(hits) ==
  {p \in hits \X hits : p[1][1] < p[2][1] \/ (p[1][1] = p[2][1] /\ p[1][2] < p[2][2])}

\* Variant: the cookie is not the location of its finding.
parse_cookies_unlocated(r) ==
  LET order == InOrder(CookieHits(r), CookieOrder(CookieHits(r)))
  IN  [n \in DOMAIN order |->
         [rule |-> CookieRules[order[n][2]], target |-> r.url, location |-> NoLocation]]

\* One draft per cookie and missing attribute; the cookie is the location.
parse_cookies(r) ==
  LET order == InOrder(CookieHits(r), CookieOrder(CookieHits(r)))
  IN  [n \in DOMAIN order |->
         [rule |-> CookieRules[order[n][2]], target |-> r.url,
          location |-> r.cookies[order[n][1]].name]]

AdapterNames == {"security_headers", "tls", "cookie_flags", "cors", "wellknown"}

parse_output(adapter, r) ==
  CASE adapter = "security_headers" -> Emit(HeaderRules, missing_headers(r), r.url, NoLocation)
    [] adapter = "tls"              -> Emit(TransportRules, fired_checks(r), r.url, NoLocation)
    [] adapter = "cookie_flags"     -> parse_cookies(r)
    [] adapter = "cors"             -> Emit(CorsRules, cors_check(r.origin, r.credentials), r.url, NoLocation)
    [] adapter = "wellknown"        -> Emit(WellKnownRules, wellknown_check(r), r.url, NoLocation)

-----------------------------------------------------------------------------
\* Case and trailing slashes are lost.
normalize_target(url) == [scheme |-> url.scheme, page |-> url.page]

\* The identity two drafts of one issue share.
dedup_key(draft) ==
  <<IF draft.rule.rule_id # NoRuleId THEN draft.rule.rule_id ELSE draft.rule.title,
    normalize_target(draft.target), draft.location>>

=============================================================================
