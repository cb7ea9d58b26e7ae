------------------------- MODULE Remediation_proofs -------------------------
(***************************************************************************)
(* What the shipped adapters report of any response: which of their drafts   *)
(* are of one issue, what following a remediation does to them, on which      *)
(* responses the accuracy gate is green, and what the report says of the      *)
(* findings they collapse onto, in whichever order the adapters scan.        *)
(***************************************************************************)
EXTENDS Remediation, Lists_proofs

-----------------------------------------------------------------------------
(***************************************************************************)
(* The rules of the adapters.                                              *)
(***************************************************************************)

\* What a draft's rule contributes to its identity.
Identity(rule) == IF rule.rule_id # NoRuleId THEN rule.rule_id ELSE rule.title

\* Rules with different checks and different identities.
Distinct(rules) ==
  /\ rules \in Seq({rules[n] : n \in DOMAIN rules})
  /\ \A n \in DOMAIN rules : rules[n].severity \in 1..HIGH /\ rules[n].cvss \in 0..100
  /\ \A m, n \in DOMAIN rules :
       m # n => rules[m].check # rules[n].check /\ Identity(rules[m]) # Identity(rules[n])

RulesOf(adapter) ==
  CASE adapter = "security_headers" -> HeaderRules
    [] adapter = "tls"              -> TransportRules
    [] adapter = "cookie_flags"     -> CookieRules
    [] adapter = "cors"             -> CorsRules
    [] adapter = "wellknown"        -> WellKnownRules

\* The table of the security header rules names each check and identity once.
LEMMA HeaderRulesDistinct == Distinct(HeaderRules) /\ DOMAIN HeaderRules = 1..5
<1>1. DOMAIN HeaderRules = 1..5
  BY DEF HeaderRules
<1>2. HeaderRules \in Seq({HeaderRules[n] : n \in DOMAIN HeaderRules})
  BY DEF HeaderRules
<1>3. \A n \in 1..5 : HeaderRules[n].severity \in 1..HIGH /\ HeaderRules[n].cvss \in 0..100
  BY DEF HeaderRules, Rule, LOW, HIGH, HSTS_RULE_ID, HSTS_HEADER, HSTS_TITLE
<1>4. \A m, n \in 1..5 : m # n => HeaderRules[m].check # HeaderRules[n].check
  BY DEF HeaderRules, Rule, LOW, HIGH, HSTS_RULE_ID, HSTS_HEADER, HSTS_TITLE
<1>5. \A m, n \in 1..5 : m # n => Identity(HeaderRules[m]) # Identity(HeaderRules[n])
  BY DEF HeaderRules, Rule, Identity, NoRuleId, LOW, HIGH, HSTS_RULE_ID, HSTS_HEADER, HSTS_TITLE
<1> QED
  BY <1>1, <1>2, <1>3, <1>4, <1>5 DEF Distinct

\* So does the table of the transport rules.
LEMMA TransportRulesDistinct == Distinct(TransportRules) /\ DOMAIN TransportRules = 1..5
<1>1. DOMAIN TransportRules = 1..5
  BY DEF TransportRules
<1>2. TransportRules \in Seq({TransportRules[n] : n \in DOMAIN TransportRules})
  BY DEF TransportRules
<1>3. \A n \in 1..5 : TransportRules[n].severity \in 1..HIGH /\ TransportRules[n].cvss \in 0..100
  BY DEF TransportRules, Rule, MEDIUM, HIGH, HSTS_RULE_ID, HSTS_TITLE
<1>4. \A m, n \in 1..5 : m # n => TransportRules[m].check # TransportRules[n].check
  BY DEF TransportRules, Rule, MEDIUM, HIGH, HSTS_RULE_ID, HSTS_TITLE
<1>5. \A m, n \in 1..5 : m # n => Identity(TransportRules[m]) # Identity(TransportRules[n])
  BY DEF TransportRules, Rule, Identity, NoRuleId, MEDIUM, HIGH, HSTS_RULE_ID, HSTS_TITLE
<1> QED
  BY <1>1, <1>2, <1>3, <1>4, <1>5 DEF Distinct

\* So does the table of the cookie rules.
LEMMA CookieRulesDistinct == Distinct(CookieRules) /\ DOMAIN CookieRules = 1..3
<1>1. DOMAIN CookieRules = 1..3
  BY DEF CookieRules
<1>2. CookieRules \in Seq({CookieRules[n] : n \in DOMAIN CookieRules})
  BY DEF CookieRules
<1>3. \A n \in 1..3 : CookieRules[n].severity \in 1..HIGH /\ CookieRules[n].cvss \in 0..100
  BY DEF CookieRules, Rule, LOW, MEDIUM, HIGH
<1>4. \A m, n \in 1..3 : m # n => CookieRules[m].check # CookieRules[n].check
  BY DEF CookieRules, Rule, LOW, MEDIUM, HIGH
<1>5. \A m, n \in 1..3 : m # n => Identity(CookieRules[m]) # Identity(CookieRules[n])
  BY DEF CookieRules, Rule, Identity, NoRuleId, LOW, MEDIUM, HIGH
<1> QED
  BY <1>1, <1>2, <1>3, <1>4, <1>5 DEF Distinct

\* So does the table of the CORS rules.
LEMMA CorsRulesDistinct == Distinct(CorsRules) /\ DOMAIN CorsRules = 1..4
<1>1. DOMAIN CorsRules = 1..4
  BY DEF CorsRules
<1>2. CorsRules \in Seq({CorsRules[n] : n \in DOMAIN CorsRules})
  BY DEF CorsRules
<1>3. \A n \in 1..4 : CorsRules[n].severity \in 1..HIGH /\ CorsRules[n].cvss \in 0..100
  BY DEF CorsRules, Rule, MEDIUM, HIGH
<1>4. \A m, n \in 1..4 : m # n => CorsRules[m].check # CorsRules[n].check
  BY DEF CorsRules, Rule, MEDIUM, HIGH
<1>5. \A m, n \in 1..4 : m # n => Identity(CorsRules[m]) # Identity(CorsRules[n])
  BY DEF CorsRules, Rule, Identity, NoRuleId, MEDIUM, HIGH
<1> QED
  BY <1>1, <1>2, <1>3, <1>4, <1>5 DEF Distinct

\* So does the table of the security.txt rules.
LEMMA WellKnownRulesDistinct == Distinct(WellKnownRules) /\ DOMAIN WellKnownRules = 1..2
<1>1. DOMAIN WellKnownRules = 1..2
  BY DEF WellKnownRules
<1>2. WellKnownRules \in Seq({WellKnownRules[n] : n \in DOMAIN WellKnownRules})
  BY DEF WellKnownRules
<1>3. \A n \in 1..2 : WellKnownRules[n].severity \in 1..HIGH /\ WellKnownRules[n].cvss \in 0..100
  BY DEF WellKnownRules, Rule, LOW, HIGH
<1>4. \A m, n \in 1..2 : m # n => WellKnownRules[m].check # WellKnownRules[n].check
  BY DEF WellKnownRules, Rule, LOW, HIGH
<1>5. \A m, n \in 1..2 : m # n => Identity(WellKnownRules[m]) # Identity(WellKnownRules[n])
  BY DEF WellKnownRules, Rule, Identity, NoRuleId, LOW, HIGH
<1> QED
  BY <1>1, <1>2, <1>3, <1>4, <1>5 DEF Distinct


\* Each adapter's table is such a one.
LEMMA RulesDistinct ==
  ASSUME NEW a \in AdapterNames
  PROVE  Distinct(RulesOf(a))
<1>1. /\ Distinct(HeaderRules) /\ Distinct(TransportRules) /\ Distinct(CookieRules)
      /\ Distinct(CorsRules) /\ Distinct(WellKnownRules)
  BY HeaderRulesDistinct, TransportRulesDistinct, CookieRulesDistinct, CorsRulesDistinct,
     WellKnownRulesDistinct
<1> QED
  BY <1>1 DEF AdapterNames, RulesOf

-----------------------------------------------------------------------------
(***************************************************************************)
(* The drafts of an adapter.                                               *)
(***************************************************************************)

DraftOf(rule, url, location) == [rule |-> rule, target |-> url, location |-> location]

\* The positions of the rules that fire.
HitsIn(rules, fired) == {n \in DOMAIN rules : rules[n].check \in fired}

\* Draft k of the list s is of the rule at position at[k].
EmittedAt(s, N, at, rules, fired, url, location) ==
  /\ DOMAIN s = 1..N
  /\ \A k \in 1..N : s[k] = DraftOf(rules[at[k]], url, location)
  /\ \A n \in HitsIn(rules, fired) : \E k \in 1..N : at[k] = n
  /\ \A j, k \in 1..N : j < k <=> at[j] < at[k]

\* Emit gives one draft for each rule that fires, in the order of the rules.
LEMMA EmitElements ==
  ASSUME NEW rules, Distinct(rules), NEW fired, NEW url, NEW location
  PROVE  \E N \in Nat : \E at \in [1..N -> HitsIn(rules, fired)] :
           EmittedAt(Emit(rules, fired, url, location), N, at, rules, fired, url, location)
<1> DEFINE T == {rules[n] : n \in DOMAIN rules}
           P == HitsIn(rules, fired)
<1>1. rules \in Seq(T) /\ P \in SUBSET DOMAIN rules
  BY DEF Distinct, HitsIn
<1> HIDE DEF T
<1>2. /\ Cardinality(P) \in Nat
      /\ DOMAIN Kept(rules, P) = 1..Cardinality(P)
      /\ \E at \in [1..Cardinality(P) -> P] :
           /\ \A n \in P : \E k \in 1..Cardinality(P) : at[k] = n
           /\ \A j, k \in 1..Cardinality(P) : j < k <=> at[j] < at[k]
           /\ \A k \in 1..Cardinality(P) : Kept(rules, P)[k] = rules[at[k]]
  <2> HIDE DEF P
  <2> QED
    BY <1>1, KeptElements, SMTT(30)
<1> PICK N : N = Cardinality(P)
  OBVIOUS
<1> PICK hit : hit = Kept(rules, P)
  OBVIOUS
<1>3. Emit(rules, fired, url, location) = [k \in 1..N |-> DraftOf(hit[k], url, location)]
  BY <1>2 DEF Emit, DraftOf, HitsIn
<1> PICK at \in [1..N -> P] :
      /\ \A n \in P : \E k \in 1..N : at[k] = n
      /\ \A j, k \in 1..N : j < k <=> at[j] < at[k]
      /\ \A k \in 1..N : hit[k] = rules[at[k]]
  BY <1>2
<1>4. /\ DOMAIN Emit(rules, fired, url, location) = 1..N
      /\ \A k \in 1..N :
           Emit(rules, fired, url, location)[k] = DraftOf(rules[at[k]], url, location)
  BY <1>3
<1>5. N \in Nat
  BY <1>2
<1>6. EmittedAt(Emit(rules, fired, url, location), N, at, rules, fired, url, location)
  BY <1>4 DEF EmittedAt
<1> QED
  BY <1>5, <1>6

\* An adapter emits one draft for each rule that fired and no others.
LEMMA EmitDrafts ==
  ASSUME NEW rules, Distinct(rules), NEW fired, NEW url, NEW location
  PROVE  /\ \E N \in Nat : DOMAIN Emit(rules, fired, url, location) = 1..N
         /\ ToSet(Emit(rules, fired, url, location))
              = {DraftOf(rules[n], url, location) : n \in HitsIn(rules, fired)}
<1> DEFINE D == {DraftOf(rules[n], url, location) : n \in HitsIn(rules, fired)}
<1> PICK N \in Nat :
      \E at \in [1..N -> HitsIn(rules, fired)] :
        EmittedAt(Emit(rules, fired, url, location), N, at, rules, fired, url, location)
  BY EmitElements
<1> PICK at \in [1..N -> HitsIn(rules, fired)] :
      EmittedAt(Emit(rules, fired, url, location), N, at, rules, fired, url, location)
  OBVIOUS
<1> PICK s : s = Emit(rules, fired, url, location)
  OBVIOUS
<1>1. /\ DOMAIN s = 1..N /\ \A k \in 1..N : s[k] = DraftOf(rules[at[k]], url, location)
      /\ \A n \in HitsIn(rules, fired) : \E k \in 1..N : at[k] = n
  BY DEF EmittedAt
<1>2. \A k \in 1..N : s[k] \in D
  BY <1>1
<1>3. ASSUME NEW d \in D
      PROVE  \E k \in 1..N : s[k] = d
  <2> PICK n \in HitsIn(rules, fired) : d = DraftOf(rules[n], url, location)
    OBVIOUS
  <2> PICK k \in 1..N : at[k] = n
    BY <1>1
  <2>1. s[k] = DraftOf(rules[at[k]], url, location)
    BY <1>1
  <2> QED
    BY <2>1
<1>4. ToSet(s) = D
  <2> HIDE DEF D
  <2>1. \A x \in ToSet(s) : x \in D
    BY <1>1, <1>2 DEF ToSet
  <2>2. \A x \in D : x \in ToSet(s)
    BY <1>1, <1>3 DEF ToSet
  <2> QED
    BY <2>1, <2>2
<1> QED
  BY <1>1, <1>4

\* Cookie by cookie is an order of the hits.
LEMMA CookieOrderOrders ==
  ASSUME NEW hits, hits \subseteq Nat \X Nat
  PROVE  Orders(CookieOrder(hits), hits)
<1> DEFINE R == CookieOrder(hits)
<1>1. \A x, y \in hits :
        <<x, y>> \in R <=> x[1] < y[1] \/ (x[1] = y[1] /\ x[2] < y[2])
  BY DEF CookieOrder
<1>2. \A x \in hits : x[1] \in Nat /\ x[2] \in Nat /\ x = <<x[1], x[2]>>
  OBVIOUS
<1> HIDE DEF R
<1>3. Orders(R, hits)
  BY <1>1, <1>2 DEF Orders
<1> QED
  BY <1>3 DEF R

\* Draft k of the list s is of the cookie and the rule at[k].
CookiesAt(s, N, at, r) ==
  /\ DOMAIN s = 1..N
  /\ \A k \in 1..N : s[k] = DraftOf(CookieRules[at[k][2]], r.url, r.cookies[at[k][1]].name)
  /\ \A p \in CookieHits(r) : \E k \in 1..N : at[k] = p
  /\ \A j, k \in 1..N : at[j] = at[k] => j = k

\* One draft for each cookie and rule that fires for it.
LEMMA CookieElements ==
  ASSUME NEW r \in Response
  PROVE  /\ IsFiniteSet(CookieHits(r))
         /\ \E N \in Nat : \E at \in [1..N -> CookieHits(r)] : CookiesAt(parse_cookies(r), N, at, r)
<1> DEFINE P == CookieHits(r)
           R == CookieOrder(P)
           C == [name : STRING, attributes : SUBSET DOMAIN ATTRIBUTE_CHECKS]
<1>1. r.cookies \in Seq(C)
  BY DEF Response
<1> PICK M \in Nat : DOMAIN r.cookies = 1..M
  <2> HIDE DEF C
  <2> QED
    BY <1>1, LenProperties
<1>2. P \subseteq (1..M) \X (1..3)
  BY CookieRulesDistinct DEF CookieHits
<1>3. IsFiniteSet(P)
  <2>1. IsFiniteSet((1..M) \X (1..3))
    <3>1. IsFiniteSet(1..M)
      BY 1 \in Int, M \in Int, FS_Interval
    <3>2. IsFiniteSet(1..3)
      BY 1 \in Int, 3 \in Int, FS_Interval
    <3> QED
      BY <3>1, <3>2, FS_Product
  <2> QED
    BY <1>2, <2>1, FS_Subset
<1>4. Orders(R, P)
  <2>1. P \subseteq Nat \X Nat
    BY <1>2
  <2> QED
    BY <2>1, CookieOrderOrders
<1> PICK order : order = InOrder(P, R)
  OBVIOUS
<1> PICK N : N = Cardinality(P)
  OBVIOUS
<1>5. /\ N \in Nat
      /\ order \in [1..N -> P]
      /\ \A x \in P : \E k \in 1..N : order[k] = x
  <2> HIDE DEF P, R
  <2> QED
    BY <1>3, <1>4, InOrderSorts
<1>6. \A j, k \in 1..N : order[j] = order[k] => j = k
  <2> HIDE DEF P, R
  <2> QED
    BY <1>3, <1>4, InOrderOnce
<1>7. parse_cookies(r)
        = [k \in 1..N |-> DraftOf(CookieRules[order[k][2]], r.url, r.cookies[order[k][1]].name)]
  <2>1. DOMAIN order = 1..N
    BY <1>5
  <2> QED
    BY <2>1 DEF parse_cookies, DraftOf
<1>8. CookiesAt(parse_cookies(r), N, order, r)
  BY <1>5, <1>6, <1>7 DEF CookiesAt
<1> QED
  BY <1>3, <1>5, <1>8


\* What fires in the adapters that look at the response as a whole.
FiredChecks(adapter, r) ==
  CASE adapter = "security_headers" -> missing_headers(r)
    [] adapter = "tls"              -> fired_checks(r)
    [] adapter = "cors"             -> cors_check(r.origin, r.credentials)
    [] adapter = "wellknown"        -> wellknown_check(r)

\* The drafts of an adapter, in no order.
Drafts(adapter, r) ==
  IF adapter = "cookie_flags"
  THEN {DraftOf(CookieRules[p[2]], r.url, r.cookies[p[1]].name) : p \in CookieHits(r)}
  ELSE {DraftOf(RulesOf(adapter)[n], r.url, NoLocation) :
          n \in HitsIn(RulesOf(adapter), FiredChecks(adapter, r))}

\* Every adapter but the cookie one emits what fired of its table of rules.
LEMMA ParsesByRules ==
  ASSUME NEW a \in AdapterNames, a # "cookie_flags", NEW r
  PROVE  parse_output(a, r) = Emit(RulesOf(a), FiredChecks(a, r), r.url, NoLocation)
<1>1. CASE a = "security_headers"
  BY <1>1 DEF parse_output, RulesOf, FiredChecks
<1>2. CASE a = "tls"
  BY <1>2 DEF parse_output, RulesOf, FiredChecks
<1>3. CASE a = "cors"
  BY <1>3 DEF parse_output, RulesOf, FiredChecks
<1>4. CASE a = "wellknown"
  BY <1>4 DEF parse_output, RulesOf, FiredChecks
<1> QED
  BY <1>1, <1>2, <1>3, <1>4 DEF AdapterNames

\* The cookie adapter emits per cookie.
LEMMA ParsesCookies ==
  ASSUME NEW r
  PROVE  parse_output("cookie_flags", r) = parse_cookies(r)
BY DEF parse_output

\* An adapter's list has these drafts and no others.
LEMMA ParsedDrafts ==
  ASSUME NEW a \in AdapterNames, NEW r \in Response
  PROVE  /\ \E N \in Nat : DOMAIN parse_output(a, r) = 1..N
         /\ ToSet(parse_output(a, r)) = Drafts(a, r)
<1>1. CASE a = "cookie_flags"
  <2> PICK N \in Nat : \E at \in [1..N -> CookieHits(r)] : CookiesAt(parse_cookies(r), N, at, r)
    BY CookieElements
  <2> PICK at \in [1..N -> CookieHits(r)] : CookiesAt(parse_cookies(r), N, at, r)
    OBVIOUS
  <2> PICK s : s = parse_output(a, r)
    OBVIOUS
  <2>1. /\ DOMAIN s = 1..N
        /\ \A k \in 1..N : s[k] = DraftOf(CookieRules[at[k][2]], r.url, r.cookies[at[k][1]].name)
        /\ \A p \in CookieHits(r) : \E k \in 1..N : at[k] = p
        /\ \A j, k \in 1..N : at[j] = at[k] => j = k
    BY <1>1, ParsesCookies DEF CookiesAt
  <2>2. Drafts(a, r)
          = {DraftOf(CookieRules[p[2]], r.url, r.cookies[p[1]].name) : p \in CookieHits(r)}
    BY <1>1 DEF Drafts
  <2>3. \A k \in 1..N : s[k] \in Drafts(a, r)
    BY <2>1, <2>2
  <2>4. ASSUME NEW d \in Drafts(a, r)
        PROVE  \E k \in 1..N : s[k] = d
    <3> PICK p \in CookieHits(r) : d = DraftOf(CookieRules[p[2]], r.url, r.cookies[p[1]].name)
      BY <2>2
    <3> PICK k \in 1..N : at[k] = p
      BY <2>1
    <3>1. s[k] = DraftOf(CookieRules[at[k][2]], r.url, r.cookies[at[k][1]].name)
      BY <2>1
    <3> QED
      BY <3>1
  <2>5. ToSet(s) = Drafts(a, r)
    <3>1. \A x \in ToSet(s) : x \in Drafts(a, r)
      BY <2>1, <2>3 DEF ToSet
    <3>2. \A x \in Drafts(a, r) : x \in ToSet(s)
      BY <2>1, <2>4, SMTT(30) DEF ToSet
    <3> QED
      BY <3>1, <3>2
  <2> QED
    BY <2>1, <2>5
<1>2. CASE a # "cookie_flags"
  <2>1. Distinct(RulesOf(a))
    BY RulesDistinct
  <2>2. Drafts(a, r)
          = {DraftOf(RulesOf(a)[n], r.url, NoLocation) : n \in HitsIn(RulesOf(a), FiredChecks(a, r))}
    BY <1>2 DEF Drafts
  <2>3. /\ \E N \in Nat : DOMAIN Emit(RulesOf(a), FiredChecks(a, r), r.url, NoLocation) = 1..N
        /\ ToSet(Emit(RulesOf(a), FiredChecks(a, r), r.url, NoLocation)) = Drafts(a, r)
    BY <2>1, <2>2, EmitDrafts
  <2> QED
    BY <1>2, <2>3, ParsesByRules
<1> QED
  BY <1>1, <1>2

-----------------------------------------------------------------------------
(***************************************************************************)
(* Responses stay responses.                                               *)
(***************************************************************************)

\* The next-state relation, by kind of remediation.
LEMMA TypedNext ==
  ASSUME response \in Response, [Next]_response
  PROVE  response' \in Response
<1>1. CASE UNCHANGED response
  BY <1>1
<1>2. ASSUME NEW n \in DOMAIN HeaderRules, SendHeader(HeaderRules[n].check)
      PROVE  response' \in Response
  BY <1>2 DEF SendHeader, Response
<1>3. ASSUME NEW n \in DOMAIN TransportRules, FixTransport(TransportRules[n].check)
      PROVE  response' \in Response
  <2>1. HSTS_HEADER \in {HeaderRules[m].check : m \in DOMAIN HeaderRules}
    <3>1. 3 \in DOMAIN HeaderRules /\ HeaderRules[3].check = HSTS_HEADER
      BY HeaderRulesDistinct DEF HeaderRules, Rule
    <3> QED
      BY <3>1
  <2>2. \/ response' = [response EXCEPT !.location_https = TRUE]
        \/ response' = [response EXCEPT !.headers = @ \cup {HSTS_HEADER}]
        \/ response' = [response EXCEPT !.tls = "TLSv1.3"]
    BY <1>3 DEF FixTransport
  <2>3. CASE response' = [response EXCEPT !.location_https = TRUE]
    BY <2>3 DEF Response
  <2>4. CASE response' = [response EXCEPT !.headers = @ \cup {HSTS_HEADER}]
    BY <2>1, <2>4 DEF Response
  <2>5. CASE response' = [response EXCEPT !.tls = "TLSv1.3"]
    BY <2>5 DEF Response
  <2> QED
    BY <2>2, <2>3, <2>4, <2>5
<1>4. ASSUME NEW n \in DOMAIN response.cookies, NEW b \in DOMAIN ATTRIBUTE_CHECKS,
             AddAttribute(n, b)
      PROVE  response' \in Response
  <2> DEFINE C == [name : STRING, attributes : SUBSET DOMAIN ATTRIBUTE_CHECKS]
             cookie == [response.cookies[n] EXCEPT !.attributes = @ \cup {b}]
  <2>1. response.cookies \in Seq(C)
    BY DEF Response
  <2>2. cookie \in C
    <3>1. response.cookies[n] \in C
      <4> HIDE DEF C
      <4> QED
        BY <2>1, ElementOfSeq, LenProperties
    <3> QED
      BY <3>1
  <2>3. [response.cookies EXCEPT ![n] = cookie] \in Seq(C)
    <3> HIDE DEF C, cookie
    <3> QED
      BY <2>1, <2>2
  <2>4. response' = [response EXCEPT !.cookies = [@ EXCEPT ![n] = cookie]]
    BY <1>4 DEF AddAttribute
  <2> QED
    BY <2>3, <2>4 DEF Response
<1>5. ASSUME NEW n \in DOMAIN CorsRules, FixCors(CorsRules[n].check)
      PROVE  response' \in Response
  <2>1. \/ response' = [response EXCEPT !.origin = "none"]
        \/ response' = [response EXCEPT !.credentials = FALSE]
        \/ response' = [response EXCEPT !.origin = "some"]
    BY <1>5 DEF FixCors
  <2>2. CASE response' = [response EXCEPT !.origin = "none"]
    BY <2>2 DEF Response
  <2>3. CASE response' = [response EXCEPT !.credentials = FALSE]
    BY <2>3 DEF Response
  <2>4. CASE response' = [response EXCEPT !.origin = "some"]
    BY <2>4 DEF Response
  <2> QED
    BY <2>1, <2>2, <2>3, <2>4
<1>6. CASE PublishSecurityTxt
  BY <1>6 DEF PublishSecurityTxt, Response
<1> QED
  BY <1>1, <1>2, <1>3, <1>4, <1>5, <1>6 DEF Next

\* Remediation keeps a response a response.
THEOREM RespondsTyped == Spec => [](response \in Response)
<1>1. Init => response \in Response
  BY ResponsesAssumption DEF Init
<1>2. response \in Response /\ [Next]_response => (response \in Response)'
  BY TypedNext
<1> QED
  BY <1>1, <1>2, PTL DEF Spec


-----------------------------------------------------------------------------
(***************************************************************************)
(* Which drafts are of one issue.                                          *)
(***************************************************************************)

\* The dedup key of a draft is its rule's identity, its target and its location.
LEMMA KeyOf ==
  ASSUME NEW rule, NEW url, NEW location
  PROVE  dedup_key(DraftOf(rule, url, location)) = <<Identity(rule), normalize_target(url), location>>
BY DEF dedup_key, DraftOf, Identity

\* In one probe, rules of one table have different identities.
LEMMA KeysOfOneProbe ==
  ASSUME response \in Response
  PROVE  ProbeKeysDistinct
<1> SUFFICES ASSUME NEW a \in AdapterNames,
                    NEW m \in DOMAIN parse_output(a, response),
                    NEW n \in DOMAIN parse_output(a, response),
                    m # n,
                    dedup_key(parse_output(a, response)[m]) = dedup_key(parse_output(a, response)[n])
             PROVE  \E i, j \in DOMAIN response.cookies :
                      /\ a = "cookie_flags"
                      /\ i # j
                      /\ response.cookies[i].name = parse_output(a, response)[m].location
                      /\ response.cookies[j].name = parse_output(a, response)[m].location
  BY DEF ProbeKeysDistinct
<1> PICK r : r = response
  OBVIOUS
<1>1. CASE a = "cookie_flags"
  <2> PICK N \in Nat : \E at \in [1..N -> CookieHits(r)] : CookiesAt(parse_cookies(r), N, at, r)
    BY CookieElements
  <2> PICK at \in [1..N -> CookieHits(r)] : CookiesAt(parse_cookies(r), N, at, r)
    OBVIOUS
  <2> PICK s : s = parse_output(a, r)
    OBVIOUS
  <2>1. /\ DOMAIN s = 1..N
        /\ \A k \in 1..N : s[k] = DraftOf(CookieRules[at[k][2]], r.url, r.cookies[at[k][1]].name)
        /\ \A p \in CookieHits(r) : \E k \in 1..N : at[k] = p
        /\ \A j, k \in 1..N : at[j] = at[k] => j = k
    BY <1>1, ParsesCookies DEF CookiesAt
  <2>2. m \in 1..N /\ n \in 1..N /\ at[m] # at[n] /\ at[m] \in CookieHits(r) /\ at[n] \in CookieHits(r)
    BY <2>1
  <2>3. /\ Identity(CookieRules[at[m][2]]) = Identity(CookieRules[at[n][2]])
        /\ r.cookies[at[m][1]].name = r.cookies[at[n][1]].name
        /\ s[m].location = r.cookies[at[m][1]].name
    <3>1. dedup_key(s[m]) = dedup_key(s[n])
      OBVIOUS
    <3>2. /\ s[m] = DraftOf(CookieRules[at[m][2]], r.url, r.cookies[at[m][1]].name)
          /\ s[n] = DraftOf(CookieRules[at[n][2]], r.url, r.cookies[at[n][1]].name)
      BY <2>1, <2>2
    <3>3. s[m].location = r.cookies[at[m][1]].name
      BY <3>2 DEF DraftOf
    <3>4. <<Identity(CookieRules[at[m][2]]), normalize_target(r.url), r.cookies[at[m][1]].name>>
            = <<Identity(CookieRules[at[n][2]]), normalize_target(r.url), r.cookies[at[n][1]].name>>
      <4>1. dedup_key(s[m])
              = <<Identity(CookieRules[at[m][2]]), normalize_target(r.url), r.cookies[at[m][1]].name>>
        <5>1. dedup_key(DraftOf(CookieRules[at[m][2]], r.url, r.cookies[at[m][1]].name))
                = <<Identity(CookieRules[at[m][2]]), normalize_target(r.url), r.cookies[at[m][1]].name>>
          BY KeyOf
        <5> QED
          BY <3>2, <5>1
      <4>2. dedup_key(s[n])
              = <<Identity(CookieRules[at[n][2]]), normalize_target(r.url), r.cookies[at[n][1]].name>>
        <5>1. dedup_key(DraftOf(CookieRules[at[n][2]], r.url, r.cookies[at[n][1]].name))
                = <<Identity(CookieRules[at[n][2]]), normalize_target(r.url), r.cookies[at[n][1]].name>>
          BY KeyOf
        <5> QED
          BY <3>2, <5>1
      <4> QED
        BY <3>1, <4>1, <4>2
    <3> QED
      BY <3>3, <3>4
  <2>4. /\ at[m][2] \in DOMAIN CookieRules /\ at[n][2] \in DOMAIN CookieRules
        /\ at[m][1] \in DOMAIN r.cookies /\ at[n][1] \in DOMAIN r.cookies
        /\ at[m] = <<at[m][1], at[m][2]>> /\ at[n] = <<at[n][1], at[n][2]>>
    BY <2>2 DEF CookieHits
  <2>5. at[m][2] = at[n][2]
    BY <2>3, <2>4, CookieRulesDistinct DEF Distinct
  <2>6. at[m][1] # at[n][1]
    BY <2>2, <2>4, <2>5
  <2>7. \E i, j \in DOMAIN r.cookies :
          i # j /\ r.cookies[i].name = s[m].location /\ r.cookies[j].name = s[m].location
    BY <2>3, <2>4, <2>6
  <2> QED
    BY <1>1, <2>7
<1>2. CASE a # "cookie_flags"
  <2> PICK rules : rules = RulesOf(a)
    OBVIOUS
  <2>1. Distinct(rules)
    BY RulesDistinct
  <2>2. \E N \in Nat : \E at \in [1..N -> HitsIn(RulesOf(a), FiredChecks(a, r))] :
          EmittedAt(parse_output(a, r), N, at, RulesOf(a), FiredChecks(a, r), r.url, NoLocation)
    <3>1. Distinct(RulesOf(a))
      BY RulesDistinct
    <3> QED
      BY <1>2, <3>1, ParsesByRules, EmitElements
  <2> PICK N \in Nat :
        \E at \in [1..N -> HitsIn(rules, FiredChecks(a, r))] :
          EmittedAt(parse_output(a, r), N, at, rules, FiredChecks(a, r), r.url, NoLocation)
    BY <2>2
  <2> PICK at \in [1..N -> HitsIn(rules, FiredChecks(a, r))] :
        EmittedAt(parse_output(a, r), N, at, rules, FiredChecks(a, r), r.url, NoLocation)
    OBVIOUS
  <2> PICK s : s = parse_output(a, r)
    OBVIOUS
  <2>3. /\ DOMAIN s = 1..N
        /\ \A k \in 1..N : s[k] = DraftOf(rules[at[k]], r.url, NoLocation)
        /\ \A j, k \in 1..N : j < k <=> at[j] < at[k]
    BY DEF EmittedAt
  <2>4. m \in 1..N /\ n \in 1..N /\ at[m] \in DOMAIN rules /\ at[n] \in DOMAIN rules
    BY <2>3 DEF HitsIn
  <2>5. at[m] # at[n]
    <3>1. DOMAIN rules \subseteq Int
      BY <2>1, LenProperties DEF Distinct
    <3>2. at[m] \in Int /\ at[n] \in Int
      BY <2>4, <3>1
    <3>3. m < n \/ n < m
      BY <2>4
    <3> QED
      BY <2>3, <2>4, <3>2, <3>3
  <2>6. Identity(rules[at[m]]) = Identity(rules[at[n]])
    <3>1. dedup_key(s[m]) = dedup_key(s[n])
      OBVIOUS
    <3>2. /\ s[m] = DraftOf(rules[at[m]], r.url, NoLocation)
          /\ s[n] = DraftOf(rules[at[n]], r.url, NoLocation)
      BY <2>3, <2>4
    <3>3. <<Identity(rules[at[m]]), normalize_target(r.url), NoLocation>>
            = <<Identity(rules[at[n]]), normalize_target(r.url), NoLocation>>
      BY <3>1, <3>2, KeyOf
    <3> QED
      BY <3>3
  <2> QED
    BY <2>1, <2>4, <2>5, <2>6 DEF Distinct
<1> QED
  BY <1>1, <1>2

\* Whatever a target answers, and whatever is remedied: only the findings of a
\* cookie that is set twice share an identity within one probe.
THEOREM OneDraftPerIssue == Spec => []ProbeKeysDistinct
<1>1. response \in Response => ProbeKeysDistinct
  BY KeysOfOneProbe
<1> QED
  BY <1>1, RespondsTyped, PTL


\* Rules of different tables have different identities, but for the HSTS rules.
LEMMA SharedIdentities ==
  ASSUME NEW a \in AdapterNames, NEW b \in AdapterNames, a # b,
         NEW m \in DOMAIN RulesOf(a), NEW n \in DOMAIN RulesOf(b),
         Identity(RulesOf(a)[m]) = Identity(RulesOf(b)[n])
  PROVE  {a, b} = {"security_headers", "tls"} /\ Identity(RulesOf(a)[m]) = HSTS_RULE_ID
<1> DEFINE H == {"Missing-CSP", "Missing-XFO", "missing-hsts", "Missing-XCTO",
                 "Missing-Referrer-Policy"}
           T == {"No-redirect-to-HTTPS", "missing-hsts", "Certificate-expired",
                 "Certificate-untrusted", "Weak-protocol"}
           K == {"secure-missing", "httponly-missing", "samesite-missing"}
           O == {"Any-origin-with-credentials", "Any-origin", "Null-origin",
                 "Some-origin-with-credentials"}
           W == {"No-security-txt", "Invalid-security-txt"}
           Named(x) == CASE x = "security_headers" -> H [] x = "tls" -> T
                         [] x = "cookie_flags" -> K [] x = "cors" -> O [] x = "wellknown" -> W
<1>1. \A i \in 1..5 : Identity(HeaderRules[i]) \in H
  BY DEF HeaderRules, Rule, Identity, NoRuleId, HSTS_RULE_ID, HSTS_HEADER, HSTS_TITLE
<1>2. \A i \in 1..5 : Identity(TransportRules[i]) \in T
  BY DEF TransportRules, Rule, Identity, NoRuleId, HSTS_RULE_ID, HSTS_HEADER, HSTS_TITLE
<1>3. \A i \in 1..3 : Identity(CookieRules[i]) \in K
  BY DEF CookieRules, Rule, Identity, NoRuleId
<1>4. \A i \in 1..4 : Identity(CorsRules[i]) \in O
  BY DEF CorsRules, Rule, Identity, NoRuleId
<1>5. \A i \in 1..2 : Identity(WellKnownRules[i]) \in W
  BY DEF WellKnownRules, Rule, Identity, NoRuleId
<1>6. ASSUME NEW x \in AdapterNames, NEW i \in DOMAIN RulesOf(x)
      PROVE  Identity(RulesOf(x)[i]) \in Named(x)
  <2> HIDE DEF H, T, K, O, W
  <2>1. CASE x = "security_headers"
    BY <1>1, <2>1, HeaderRulesDistinct DEF RulesOf
  <2>2. CASE x = "tls"
    BY <1>2, <2>2, TransportRulesDistinct DEF RulesOf
  <2>3. CASE x = "cookie_flags"
    BY <1>3, <2>3, CookieRulesDistinct DEF RulesOf
  <2>4. CASE x = "cors"
    BY <1>4, <2>4, CorsRulesDistinct DEF RulesOf
  <2>5. CASE x = "wellknown"
    BY <1>5, <2>5, WellKnownRulesDistinct DEF RulesOf
  <2> QED
    BY <2>1, <2>2, <2>3, <2>4, <2>5 DEF AdapterNames
<1>7. \A x, y \in AdapterNames : \A id :
        x # y /\ id \in Named(x) /\ id \in Named(y) =>
          {x, y} = {"security_headers", "tls"} /\ id = HSTS_RULE_ID
  BY DEF AdapterNames, HSTS_RULE_ID
<1> HIDE DEF Named
<1> QED
  BY <1>6, <1>7

\* The identities of the findings of one adapter.
KeySet(adapter, r) ==
  IF adapter = "cookie_flags"
  THEN {<<Identity(CookieRules[p[2]]), normalize_target(r.url), r.cookies[p[1]].name>> :
          p \in CookieHits(r)}
  ELSE {<<Identity(RulesOf(adapter)[n]), normalize_target(r.url), NoLocation>> :
          n \in HitsIn(RulesOf(adapter), FiredChecks(adapter, r))}

\* The keys an adapter's drafts have, written without its list.
LEMMA KeysAre ==
  ASSUME NEW a \in AdapterNames, NEW r \in Response
  PROVE  Keys(a, r) = KeySet(a, r)
<1>1. Keys(a, r) = {dedup_key(d) : d \in Drafts(a, r)}
  BY ParsedDrafts DEF Keys
<1>2. CASE a = "cookie_flags"
  <2> DEFINE D(p) == DraftOf(CookieRules[p[2]], r.url, r.cookies[p[1]].name)
             K(p) == <<Identity(CookieRules[p[2]]), normalize_target(r.url), r.cookies[p[1]].name>>
  <2>1. \A p : dedup_key(D(p)) = K(p)
    BY KeyOf
  <2>2. Drafts(a, r) = {D(p) : p \in CookieHits(r)} /\ KeySet(a, r) = {K(p) : p \in CookieHits(r)}
    BY <1>2 DEF Drafts, KeySet
  <2> HIDE DEF D, K
  <2> QED
    BY <1>1, <2>1, <2>2
<1>3. CASE a # "cookie_flags"
  <2> DEFINE P == HitsIn(RulesOf(a), FiredChecks(a, r))
             D(n) == DraftOf(RulesOf(a)[n], r.url, NoLocation)
             K(n) == <<Identity(RulesOf(a)[n]), normalize_target(r.url), NoLocation>>
  <2>1. \A n : dedup_key(D(n)) = K(n)
    BY KeyOf
  <2>2. Drafts(a, r) = {D(n) : n \in P} /\ KeySet(a, r) = {K(n) : n \in P}
    BY <1>3 DEF Drafts, KeySet
  <2> HIDE DEF D, K, P
  <2> QED
    BY <1>1, <2>1, <2>2
<1> QED
  BY <1>2, <1>3

\* A page has the same findings however it is spelled.
LEMMA SpellingIgnored ==
  ASSUME NEW a \in AdapterNames, NEW r \in Response, NEW spelling \in SPELLINGS
  PROVE  Keys(a, [r EXCEPT !.url.spelling = spelling]) = Keys(a, r)
<1> PICK other : other = [r EXCEPT !.url.spelling = spelling]
  OBVIOUS
<1>1. /\ other.url = [r.url EXCEPT !.spelling = spelling]
      /\ other.headers = r.headers /\ other.origin = r.origin /\ other.credentials = r.credentials
      /\ other.location_https = r.location_https /\ other.tls = r.tls
      /\ other.cookies = r.cookies /\ other.status_ok = r.status_ok /\ other.contact = r.contact
      /\ other \in Response
  BY DEF Response, URL
<1>2. other.url.scheme = r.url.scheme /\ other.url.page = r.url.page
  BY <1>1 DEF Response, URL
<1>3. normalize_target(other.url) = normalize_target(r.url)
  BY <1>2 DEF normalize_target
<1>4. FiredChecks(a, other) = FiredChecks(a, r)
  BY <1>1, <1>2 DEF FiredChecks, missing_headers, fired_checks, wellknown_check
<1>5. CookieHits(other) = CookieHits(r)
  BY <1>1 DEF CookieHits
<1>6. KeySet(a, other) = KeySet(a, r)
  <2>1. CASE a = "cookie_flags"
    <3> PICK P : P = CookieHits(r)
      OBVIOUS
    <3> PICK target : target = normalize_target(r.url)
      OBVIOUS
    <3>1. /\ KeySet(a, other) = {<<Identity(CookieRules[p[2]]), target, other.cookies[p[1]].name>> : p \in P}
          /\ KeySet(a, r) = {<<Identity(CookieRules[p[2]]), target, r.cookies[p[1]].name>> : p \in P}
      BY <1>3, <1>5, <2>1 DEF KeySet
    <3>2. other.cookies = r.cookies
      BY <1>1
    <3> QED
      BY <3>1, <3>2
  <2>2. CASE a # "cookie_flags"
    BY <1>3, <1>4, <2>2 DEF KeySet
  <2> QED
    BY <2>1, <2>2
<1> QED
  BY <1>1, <1>6, KeysAre

\* The identity of a finding is that of one of its adapter's rules.
LEMMA KeyIdentity ==
  ASSUME NEW a \in AdapterNames, NEW r \in Response, NEW k \in Keys(a, r)
  PROVE  \E n \in DOMAIN RulesOf(a) : k[1] = Identity(RulesOf(a)[n])
<1>1. k \in KeySet(a, r)
  BY KeysAre
<1>2. CASE a = "cookie_flags"
  <2> PICK p \in CookieHits(r) :
        k = <<Identity(CookieRules[p[2]]), normalize_target(r.url), r.cookies[p[1]].name>>
    BY <1>1, <1>2 DEF KeySet
  <2>1. p[2] \in DOMAIN CookieRules /\ RulesOf(a) = CookieRules
    BY <1>2 DEF CookieHits, RulesOf
  <2> QED
    BY <2>1
<1>3. CASE a # "cookie_flags"
  <2> PICK n \in HitsIn(RulesOf(a), FiredChecks(a, r)) :
        k = <<Identity(RulesOf(a)[n]), normalize_target(r.url), NoLocation>>
    BY <1>1, <1>3 DEF KeySet
  <2> QED
    BY DEF HitsIn
<1> QED
  BY <1>2, <1>3

\* Both adapters that look for the HSTS header report it missing.
LEMMA BothReportHsts ==
  ASSUME NEW r \in Response, NEW k \in Keys("security_headers", r), k[1] = HSTS_RULE_ID
  PROVE  k \in Keys("tls", r)
<1> DEFINE h == "security_headers"
           t == "tls"
<1>1. h \in AdapterNames /\ t \in AdapterNames /\ h # "cookie_flags" /\ t # "cookie_flags"
  BY DEF AdapterNames
<1>2. /\ RulesOf(h) = HeaderRules /\ FiredChecks(h, r) = missing_headers(r)
      /\ RulesOf(t) = TransportRules /\ FiredChecks(t, r) = fired_checks(r)
  BY DEF RulesOf, FiredChecks
<1>3. k \in KeySet(h, r)
  BY <1>1, KeysAre
<1> PICK n \in HitsIn(HeaderRules, missing_headers(r)) :
      k = <<Identity(HeaderRules[n]), normalize_target(r.url), NoLocation>>
  BY <1>1, <1>2, <1>3 DEF KeySet
<1>4. n \in 1..5 /\ HeaderRules[n].check \in missing_headers(r) /\ Identity(HeaderRules[n]) = HSTS_RULE_ID
  BY HeaderRulesDistinct DEF HitsIn
<1>5. HeaderRules[n].check = HSTS_HEADER
  <2>1. 3 \in 1..5 /\ HeaderRules[3].check = HSTS_HEADER /\ Identity(HeaderRules[3]) = HSTS_RULE_ID
    BY DEF HeaderRules, Rule, Identity, NoRuleId, HSTS_RULE_ID
  <2> QED
    BY <1>4, <2>1, HeaderRulesDistinct DEF Distinct
<1>6. "hsts-missing" \in fired_checks(r)
  BY <1>4, <1>5 DEF missing_headers, fired_checks
<1>7. 2 \in 1..5 /\ TransportRules[2].check = "hsts-missing" /\ Identity(TransportRules[2]) = HSTS_RULE_ID
  BY DEF TransportRules, Rule, Identity, NoRuleId, HSTS_RULE_ID
<1>8. 2 \in HitsIn(TransportRules, fired_checks(r))
  BY <1>6, <1>7, TransportRulesDistinct DEF HitsIn
<1>9. <<Identity(TransportRules[2]), normalize_target(r.url), NoLocation>> \in KeySet(t, r)
  BY <1>1, <1>2, <1>8 DEF KeySet
<1> QED
  BY <1>1, <1>4, <1>7, <1>9, KeysAre

\* In any response, only the missing HSTS header is reported by two adapters.
LEMMA SharedIssues ==
  ASSUME response \in Response
  PROVE  OnlyHstsIsShared
<1> DEFINE h == "security_headers"
           t == "tls"
<1> SUFFICES ASSUME NEW a \in AdapterNames, NEW b \in AdapterNames, a # b,
                    NEW spelling \in SPELLINGS
             PROVE  {k \in Keys(a, response) : k \in Keys(b, [response EXCEPT !.url.spelling = spelling])}
                      = {k \in Keys(h, response) : {a, b} = {h, t} /\ k[1] = HSTS_RULE_ID}
  BY DEF OnlyHstsIsShared
<1> PICK r \in Response : r = response
  OBVIOUS
<1>1. Keys(b, [r EXCEPT !.url.spelling = spelling]) = Keys(b, r)
  BY SpellingIgnored
<1>2. ASSUME NEW k \in Keys(a, r), k \in Keys(b, r)
      PROVE  k \in Keys(h, r) /\ {a, b} = {h, t} /\ k[1] = HSTS_RULE_ID
  <2>1. PICK m \in DOMAIN RulesOf(a) : k[1] = Identity(RulesOf(a)[m])
    BY KeyIdentity
  <2>2. PICK n \in DOMAIN RulesOf(b) : k[1] = Identity(RulesOf(b)[n])
    BY <1>2, KeyIdentity
  <2>3. {a, b} = {h, t} /\ k[1] = HSTS_RULE_ID
    BY <2>1, <2>2, SharedIdentities
  <2>4. a = h \/ b = h
    BY <2>3
  <2> QED
    BY <1>2, <2>3, <2>4
<1>3. ASSUME NEW k \in Keys(h, r), {a, b} = {h, t}, k[1] = HSTS_RULE_ID
      PROVE  k \in Keys(a, r) /\ k \in Keys(b, r)
  <2>1. k \in Keys(t, r)
    BY <1>3, BothReportHsts
  <2>2. (a = h \/ a = t) /\ (b = h \/ b = t)
    BY <1>3
  <2> QED
    BY <2>1, <2>2
<1> QED
  BY <1>1, <1>2, <1>3

\* The missing HSTS header is the one issue two adapters report of one page.
THEOREM HstsAloneIsShared == Spec => []OnlyHstsIsShared
<1>1. response \in Response => OnlyHstsIsShared
  BY SharedIssues
<1> QED
  BY <1>1, RespondsTyped, PTL


-----------------------------------------------------------------------------
(***************************************************************************)
(* The accuracy gate.                                                      *)
(***************************************************************************)

\* An adapter's draft is of one of its rules, and the check names the rule.
LEMMA DraftRules ==
  ASSUME NEW a \in AdapterNames, NEW r \in Response, NEW d \in Drafts(a, r)
  PROVE  /\ \E n \in DOMAIN RulesOf(a) : d.rule = RulesOf(a)[n]
         /\ d.target = r.url
<1>1. CASE a = "cookie_flags"
  <2> PICK p \in CookieHits(r) : d = DraftOf(CookieRules[p[2]], r.url, r.cookies[p[1]].name)
    BY <1>1 DEF Drafts
  <2>1. p[2] \in DOMAIN CookieRules /\ RulesOf(a) = CookieRules
    BY <1>1 DEF CookieHits, RulesOf
  <2> QED
    BY <2>1 DEF DraftOf
<1>2. CASE a # "cookie_flags"
  <2> PICK n \in HitsIn(RulesOf(a), FiredChecks(a, r)) : d = DraftOf(RulesOf(a)[n], r.url, NoLocation)
    BY <1>2 DEF Drafts
  <2>1. n \in DOMAIN RulesOf(a)
    BY DEF HitsIn
  <2> QED
    BY <2>1 DEF DraftOf
<1> QED
  BY <1>1, <1>2

\* In the drafts of one adapter, the name of a check determines its rule.
LEMMA CheckNamesRule ==
  ASSUME NEW a \in AdapterNames, NEW r \in Response, NEW q \in Response
  PROVE  /\ \A d \in Drafts(a, r) : d.rule.severity \in 1..HIGH /\ d.rule.cvss \in 0..100
         /\ \A d \in Drafts(a, r), e \in Drafts(a, q) :
              d.rule.check = e.rule.check => d.rule = e.rule
<1> PICK rules : rules = RulesOf(a)
  OBVIOUS
<1>1. Distinct(rules)
  BY RulesDistinct
<1>2. \A d \in Drafts(a, r) : \E n \in DOMAIN rules : d.rule = rules[n]
  BY DraftRules
<1>3. \A e \in Drafts(a, q) : \E n \in DOMAIN rules : e.rule = rules[n]
  BY DraftRules
<1>4. ASSUME NEW d \in Drafts(a, r)
      PROVE  d.rule.severity \in 1..HIGH /\ d.rule.cvss \in 0..100
  BY <1>1, <1>2 DEF Distinct
<1>5. ASSUME NEW d \in Drafts(a, r), NEW e \in Drafts(a, q), d.rule.check = e.rule.check
      PROVE  d.rule = e.rule
  <2>1. PICK m \in DOMAIN rules : d.rule = rules[m]
    BY <1>2
  <2>2. PICK n \in DOMAIN rules : e.rule = rules[n]
    BY <1>3
  <2>3. rules[m].check = rules[n].check
    BY <1>5, <2>1, <2>2
  <2>4. m = n
    BY <1>1, <2>3 DEF Distinct
  <2> QED
    BY <2>1, <2>2, <2>4
<1> QED
  BY <1>4, <1>5

\* The checks the lab sees fire are those of the drafts.
LEMMA FiredAre ==
  ASSUME NEW a \in AdapterNames, NEW r \in Response
  PROVE  Fired(a, r) = {d.rule.check : d \in Drafts(a, r)}
BY ParsedDrafts DEF Fired

\* A manifest that expects the drafts of a response, at floors that are higher
\* by some amount.
Manifest(adapter, r, more) ==
  [adapter |-> adapter,
   expect  |-> [n \in DOMAIN parse_output(adapter, r) |->
                  [id |-> parse_output(adapter, r)[n].rule.check,
                   min_severity |-> parse_output(adapter, r)[n].rule.severity + more]]]

\* The lab's manifest of a response, and the stricter one, in the form the gate is proved for.
LEMMA Manifests ==
  ASSUME NEW a \in AdapterNames, NEW r \in Response
  PROVE  Oracle(a, r) = Manifest(a, r, 0) /\ Stricter(Oracle(a, r)) = Manifest(a, r, 1)
<1> PICK s : s = parse_output(a, r)
  OBVIOUS
<1>1. \A n \in DOMAIN s : s[n].rule.severity \in Int
  <2>1. \A n \in DOMAIN s : s[n] \in Drafts(a, r)
    BY ParsedDrafts DEF ToSet
  <2>2. \A d \in Drafts(a, r) : d.rule.severity \in 1..HIGH
    BY CheckNamesRule
  <2> QED
    BY <2>1, <2>2 DEF HIGH
<1> DEFINE E == [n \in DOMAIN s |-> [id |-> s[n].rule.check, min_severity |-> s[n].rule.severity]]
           F(more) == [n \in DOMAIN s |-> [id |-> s[n].rule.check,
                                           min_severity |-> s[n].rule.severity + more]]
<1>2. /\ Oracle(a, r) = [adapter |-> a, expect |-> E]
      /\ \A more : Manifest(a, r, more) = [adapter |-> a, expect |-> F(more)]
  BY DEF Oracle, Manifest
<1>3. E = F(0)
  BY <1>1
<1> DEFINE G == [n \in DOMAIN E |-> [id |-> E[n].id, min_severity |-> E[n].min_severity + 1]]
<1>4. Stricter(Oracle(a, r)) = [adapter |-> a, expect |-> G]
  <2> HIDE DEF E
  <2>1. Oracle(a, r) = [adapter |-> a, expect |-> E]
    BY <1>2
  <2> QED
    BY <2>1 DEF Stricter
<1>5. G = F(1)
  OBVIOUS
<1> HIDE DEF E, F, G
<1> QED
  BY <1>2, <1>3, <1>4, <1>5

\* It expects the checks that fire, each at the severity of its rule.
LEMMA Expectations ==
  ASSUME NEW a \in AdapterNames, NEW r \in Response, NEW more \in 0..1
  PROVE  /\ Manifest(a, r, more).adapter = a
         /\ expected_ids(Manifest(a, r, more)) = Fired(a, r)
         /\ \A check \in Fired(a, r) :
              \E d \in Drafts(a, r) :
                /\ d.rule.check = check
                /\ min_severity(Manifest(a, r, more), check) = d.rule.severity + more
<1> PICK s : s = parse_output(a, r)
  OBVIOUS
<1> PICK expect : expect = Manifest(a, r, more).expect
  OBVIOUS
<1>1. expect = [n \in DOMAIN s |-> [id |-> s[n].rule.check, min_severity |-> s[n].rule.severity + more]]
  BY DEF Manifest
<1>2. Manifest(a, r, more).adapter = a
  BY DEF Manifest
<1>3. PICK N \in Nat : DOMAIN s = 1..N
  BY ParsedDrafts
<1>4. /\ DOMAIN expect = 1..N
      /\ \A n \in 1..N : /\ expect[n].id = s[n].rule.check
                         /\ expect[n].min_severity = s[n].rule.severity + more
  BY <1>1, <1>3
<1>5. Fired(a, r) = {s[n].rule.check : n \in 1..N}
  BY <1>3 DEF Fired, ToSet
<1>6. expected_ids(Manifest(a, r, more)) = Fired(a, r)
  <2>1. expected_ids(Manifest(a, r, more)) = {item.id : item \in ToSet(expect)}
    BY DEF expected_ids
  <2>2. {item.id : item \in ToSet(expect)} = {expect[n].id : n \in 1..N}
    BY <1>4 DEF ToSet
  <2>3. {expect[n].id : n \in 1..N} = {s[n].rule.check : n \in 1..N}
    BY <1>4
  <2> QED
    BY <1>5, <2>1, <2>2, <2>3
<1>7. \A n \in 1..N : s[n] \in Drafts(a, r) /\ s[n].rule.severity \in 1..HIGH
  BY <1>3, ParsedDrafts, CheckNamesRule DEF ToSet
<1>8. ASSUME NEW check \in Fired(a, r)
      PROVE  \E d \in Drafts(a, r) :
               /\ d.rule.check = check
               /\ min_severity(Manifest(a, r, more), check) = d.rule.severity + more
  <2> DEFINE P == {n \in DOMAIN expect : expect[n].id = check /\ expect[n].min_severity # NoFloor}
             T == {expect[n] : n \in 1..N}
  <2>1. expect \in Seq(T)
    BY <1>1, <1>3
  <2>2. PICK m \in 1..N : s[m].rule.check = check
    BY <1>5
  <2>3. m \in P
    <3>1. expect[m].min_severity # NoFloor
      BY <1>4, <1>7, <2>2 DEF NoFloor, HIGH
    <3> QED
      BY <1>4, <2>2, <3>1
  <2>4. P \in SUBSET DOMAIN expect
    OBVIOUS
  <2>5. /\ \E j \in DOMAIN Kept(expect, P) : TRUE
        /\ \E M \in Nat : DOMAIN Kept(expect, P) = 1..M
        /\ ToSet(Kept(expect, P)) = {expect[n] : n \in P}
    <3> HIDE DEF P, T
    <3>1. ToSet(Kept(expect, P)) = {expect[n] : n \in P}
      BY <2>1, <2>4, KeptSet
    <3>2. Cardinality(P) \in Nat /\ DOMAIN Kept(expect, P) = 1..Cardinality(P)
      BY <2>1, <2>4, KeptElements
    <3>3. expect[m] \in ToSet(Kept(expect, P))
      BY <2>3, <3>1
    <3> QED
      BY <3>1, <3>2, <3>3 DEF ToSet
  <2> PICK floors : floors = Kept(expect, P)
    OBVIOUS
  <2>6. 1 \in DOMAIN floors /\ floors # <<>> /\ \E n \in P : floors[1] = expect[n]
    <3> HIDE DEF P
    <3>1. 1 \in DOMAIN floors
      BY <2>5
    <3>2. floors[1] \in {expect[n] : n \in P}
      BY <2>5, <3>1 DEF ToSet
    <3> QED
      BY <3>1, <3>2
  <2>7. min_severity(Manifest(a, r, more), check) = floors[1].min_severity
    BY <2>6 DEF min_severity
  <2> PICK n \in P : floors[1] = expect[n]
    BY <2>6
  <2>8. n \in 1..N /\ s[n].rule.check = check /\ expect[n].min_severity = s[n].rule.severity + more
    BY <1>4
  <2> QED
    BY <1>7, <2>7, <2>8
<1> QED
  BY <1>2, <1>6, <1>8

\* A response passes it that sets off the same checks, unless a floor is
\* higher than the severity of its check.
LEMMA Passing ==
  ASSUME NEW a \in AdapterNames, NEW r \in Response, NEW q \in Response, NEW more \in 0..1
  PROVE  passed(score_target(Manifest(a, r, more), parse_output(a, q)))
           <=> Fired(a, r) = Fired(a, q) /\ (more = 0 \/ Fired(a, q) = {})
<1> PICK manifest : manifest = Manifest(a, r, more)
  OBVIOUS
<1> PICK drafts : drafts = parse_output(a, q)
  OBVIOUS
<1> DEFINE found == {d.rule.check : d \in ToSet(drafts)}
           expected == expected_ids(manifest)
           below == {check \in found \cap expected :
                       ~ meets_floor(group_by_rule(drafts, check), min_severity(manifest, check))}
<1>1. found = Fired(a, q) /\ expected = Fired(a, r)
  BY Expectations DEF Fired
<1>2. ASSUME NEW check \in Fired(a, q), check \in Fired(a, r)
      PROVE  meets_floor(group_by_rule(drafts, check), min_severity(manifest, check)) <=> more = 0
  <2>1. ToSet(drafts) = Drafts(a, q)
    BY ParsedDrafts
  <2>2. PICK d \in Drafts(a, r) :
          d.rule.check = check /\ min_severity(manifest, check) = d.rule.severity + more
    BY <1>2, Expectations
  <2>3. PICK e \in Drafts(a, q) : e.rule.check = check
    BY FiredAre
  <2>4. d.rule.severity \in 1..HIGH
    BY CheckNamesRule
  <2>5. \A f \in Drafts(a, q) : f.rule.check = check => f.rule = d.rule
    BY <2>2, CheckNamesRule
  <2>6. /\ e \in group_by_rule(drafts, check)
        /\ \A f \in group_by_rule(drafts, check) : f.rule = d.rule
    BY <2>1, <2>3, <2>5 DEF group_by_rule
  <2>7. meets_floor(group_by_rule(drafts, check), min_severity(manifest, check))
          <=> d.rule.severity >= d.rule.severity + more
    BY <2>2, <2>6 DEF meets_floor
  <2> QED
    BY <2>4, <2>7 DEF HIGH
<1>3. below = IF more = 0 THEN {} ELSE found \cap expected
  BY <1>1, <1>2
<1>4. passed(score_target(manifest, drafts))
        <=> (found \ expected) \cup below = {} /\ expected \ found = {}
  BY DEF passed, score_target
<1> HIDE DEF found, expected, below
<1>5. (found \ expected) \cup below = {} /\ expected \ found = {}
        <=> found = expected /\ (more = 0 \/ found = {})
  BY <1>3
<1> QED
  BY <1>1, <1>4, <1>5

\* The gate looks at the targets of its adapter, and wants at least one.
LEMMA GateOf ==
  ASSUME NEW targets, targets \in Seq({targets[n] : n \in DOMAIN targets}), NEW a
  PROVE  gate_passes(targets, a) <=>
           /\ \E n \in DOMAIN targets : targets[n].manifest.adapter = a
           /\ \A n \in DOMAIN targets :
                targets[n].manifest.adapter = a =>
                  passed(score_target(targets[n].manifest, targets[n].drafts))
<1> DEFINE P == {n \in DOMAIN targets : targets[n].manifest.adapter = a}
           T == {targets[n] : n \in DOMAIN targets}
<1>1. P \in SUBSET DOMAIN targets
  OBVIOUS
<1>2. /\ ToSet(Kept(targets, P)) = {targets[n] : n \in P}
      /\ Kept(targets, P) \in Seq(T)
  <2>1. targets \in Seq(T)
    OBVIOUS
  <2> HIDE DEF P, T
  <2> QED
    BY <1>1, <2>1, KeptSet, KeptElements
<1> PICK owned : owned = Kept(targets, P)
  OBVIOUS
<1>3. owned # <<>> <=> ToSet(owned) # {}
  <2> HIDE DEF P, T
  <2>1. owned \in Seq(T)
    BY <1>2
  <2> QED
    <3>1. Len(owned) \in Nat /\ DOMAIN owned = 1..Len(owned)
      BY <2>1, LenProperties
    <3>2. owned = <<>> <=> Len(owned) = 0
      BY <2>1, EmptySeq
    <3>3. ToSet(owned) = {} <=> DOMAIN owned = {}
      BY DEF ToSet
    <3>4. \A L \in Nat : 1..L = {} <=> L = 0
      OBVIOUS
    <3> QED
      BY <3>1, <3>2, <3>3, <3>4
<1>4. gate_passes(targets, a) <=>
        /\ owned # <<>>
        /\ \A t \in ToSet(owned) : passed(score_target(t.manifest, t.drafts))
  BY DEF gate_passes
<1> QED
  BY <1>2, <1>3, <1>4


\* Two one-element lists make a list of two.
LEMMA TwoInARow ==
  ASSUME NEW x, NEW y
  PROVE  <<x>> \o <<y>> = <<x, y>>
<1> DEFINE T == {x, y}
<1>1. <<x>> \in Seq(T) /\ <<y>> \in Seq(T) /\ Len(<<x>>) = 1 /\ Len(<<y>>) = 1
  OBVIOUS
<1>2. <<x>> \o <<y>> \in Seq(T) /\ Len(<<x>> \o <<y>>) = 2
  BY <1>1, ConcatProperties
<1>3. (<<x>> \o <<y>>)[1] = x /\ (<<x>> \o <<y>>)[2] = y
  BY <1>1, ConcatProperties
<1>4. <<x, y>> \in Seq(T) /\ Len(<<x, y>>) = 2 /\ <<x, y>>[1] = x /\ <<x, y>>[2] = y
  OBVIOUS
<1>5. \A s, t \in Seq(T) : Len(s) = 2 /\ Len(t) = 2 /\ s[1] = t[1] /\ s[2] = t[2] => s = t
  BY SeqEqual
<1> QED
  BY <1>2, <1>3, <1>4, <1>5

\* A target of a gate run, as GateIsExact builds it.
Target(adapter, r, q, more) ==
  [manifest |-> Manifest(adapter, r, more), drafts |-> parse_output(adapter, q)]

\* What the gate says of a single lab target.
LEMMA GateOfOne ==
  ASSUME NEW a \in AdapterNames, NEW r \in Response, NEW q \in Response, NEW more \in 0..1
  PROVE  gate_passes(<<Target(a, r, q, more)>>, a)
           <=> Fired(a, r) = Fired(a, q) /\ (more = 0 \/ Fired(a, q) = {})
<1>a. PICK t : t = Target(a, r, q, more)
  OBVIOUS
<1>b. PICK targets : targets = <<t>>
  OBVIOUS
<1>1. /\ DOMAIN targets = {1} /\ targets[1] = t
      /\ targets \in Seq({targets[n] : n \in DOMAIN targets})
  BY <1>b
<1>2. /\ t.manifest.adapter = a
      /\ passed(score_target(t.manifest, t.drafts))
           <=> Fired(a, r) = Fired(a, q) /\ (more = 0 \/ Fired(a, q) = {})
  BY <1>a, Expectations, Passing DEF Target
<1>3. gate_passes(targets, a) <=>
        /\ \E n \in DOMAIN targets : targets[n].manifest.adapter = a
        /\ \A n \in DOMAIN targets :
             targets[n].manifest.adapter = a =>
               passed(score_target(targets[n].manifest, targets[n].drafts))
  BY <1>1, GateOf
<1> QED
  BY <1>a, <1>b, <1>1, <1>2, <1>3

\* Another adapter's target changes nothing, and is not enough.
LEMMA GateOfTwo ==
  ASSUME NEW a \in AdapterNames, NEW r \in Response, NEW q \in Response,
         NEW x, NEW y, x.manifest.adapter # a, y = Target(a, r, q, 0)
  PROVE  /\ gate_passes(<<x, y>>, a) <=> Fired(a, r) = Fired(a, q)
         /\ ~ gate_passes(<<x>>, a)
<1>a. PICK both : both = <<x, y>>
  OBVIOUS
<1>b. PICK alone : alone = <<x>>
  OBVIOUS
<1>1. /\ DOMAIN both = {1, 2} /\ both[1] = x /\ both[2] = y
      /\ both \in Seq({both[n] : n \in DOMAIN both})
  BY <1>a
<1>2. /\ DOMAIN alone = {1} /\ alone[1] = x
      /\ alone \in Seq({alone[n] : n \in DOMAIN alone})
  BY <1>b
<1>3. /\ y.manifest.adapter = a
      /\ passed(score_target(y.manifest, y.drafts)) <=> Fired(a, r) = Fired(a, q)
  BY Expectations, Passing DEF Target
<1>4. gate_passes(both, a) <=>
        /\ \E n \in DOMAIN both : both[n].manifest.adapter = a
        /\ \A n \in DOMAIN both :
             both[n].manifest.adapter = a => passed(score_target(both[n].manifest, both[n].drafts))
  BY <1>1, GateOf
<1>5. gate_passes(alone, a) <=>
        /\ \E n \in DOMAIN alone : alone[n].manifest.adapter = a
        /\ \A n \in DOMAIN alone :
             alone[n].manifest.adapter = a => passed(score_target(alone[n].manifest, alone[n].drafts))
  BY <1>2, GateOf
<1> QED
  BY <1>a, <1>b, <1>1, <1>2, <1>3, <1>4, <1>5

\* The gate passes a response for the manifests that expect its checks and no others.
LEMMA GatesOfResponse ==
  ASSUME response \in Response
  PROVE  GateIsExact
<1> SUFFICES ASSUME NEW a \in AdapterNames
             PROVE  LET Expecting(manifest) ==
                          [manifest |-> manifest, drafts |-> parse_output(a, response)]
                        others == <<Expecting(Oracle(CHOOSE b \in AdapterNames : b # a, response))>>
                    IN  /\ \A r \in Responses :
                             gate_passes(others \o <<Expecting(Oracle(a, r))>>, a)
                               <=> Fired(a, r) = Fired(a, response)
                        /\ ~ gate_passes(others, a)
                        /\ Fired(a, response) # {} =>
                             ~ gate_passes(<<Expecting(Stricter(Oracle(a, response)))>>, a)
  BY DEF GateIsExact
<1> PICK q \in Response : q = response
  OBVIOUS
<1> PICK b : b = CHOOSE c \in AdapterNames : c # a
  OBVIOUS
<1>1. b \in AdapterNames /\ b # a
  <2>1. \E c \in AdapterNames : c # a
    BY DEF AdapterNames
  <2> QED
    BY <2>1
<1>x. PICK x : x = [manifest |-> Oracle(b, q), drafts |-> parse_output(a, q)]
  OBVIOUS
<1>2. x.manifest.adapter # a
  BY <1>x, <1>1 DEF Oracle
<1>3. ASSUME NEW r \in Responses
      PROVE  gate_passes(<<x>> \o <<[manifest |-> Oracle(a, r), drafts |-> parse_output(a, q)]>>, a)
               <=> Fired(a, r) = Fired(a, q)
  <2>1. r \in Response
    BY ResponsesAssumption
  <2>a. PICK y : y = [manifest |-> Oracle(a, r), drafts |-> parse_output(a, q)]
    OBVIOUS
  <2>2. y = Target(a, r, q, 0)
    BY <2>a, <2>1, Manifests DEF Target
  <2>3. <<x>> \o <<y>> = <<x, y>>
    BY TwoInARow
  <2>4. gate_passes(<<x, y>>, a) <=> Fired(a, r) = Fired(a, q)
    BY <1>2, <2>1, <2>2, GateOfTwo
  <2> QED
    BY <2>a, <2>3, <2>4
<1>4. ~ gate_passes(<<x>>, a)
  <2>1. Target(a, q, q, 0) = Target(a, q, q, 0)
    OBVIOUS
  <2> QED
    BY <1>2, <2>1, GateOfTwo
<1>5. Fired(a, q) # {} =>
        ~ gate_passes(<<[manifest |-> Stricter(Oracle(a, q)), drafts |-> parse_output(a, q)]>>, a)
  <2>1. [manifest |-> Stricter(Oracle(a, q)), drafts |-> parse_output(a, q)] = Target(a, q, q, 1)
    BY Manifests DEF Target
  <2>2. 1 \in 0..1 /\ 1 # 0
    OBVIOUS
  <2> QED
    BY <2>1, <2>2, GateOfOne
<1> QED
  BY <1>x, <1>3, <1>4, <1>5

\* Whatever a target answers: the gate is green on just the responses that set
\* off the checks of its manifest, and on none that miss its floors.
THEOREM GateTellsResponsesApart == Spec => []GateIsExact
<1>1. response \in Response => GateIsExact
  BY GatesOfResponse
<1> QED
  BY <1>1, RespondsTyped, PTL


-----------------------------------------------------------------------------
(***************************************************************************)
(* What following a remediation does.                                      *)
(***************************************************************************)

\* An adapter raises finitely many issues of a response.
LEMMA DraftsFinite ==
  ASSUME NEW a \in AdapterNames, NEW r \in Response
  PROVE  IsFiniteSet(Keys(a, r)) /\ Cardinality(Keys(a, r)) \in Nat
<1> PICK s : s = parse_output(a, r)
  OBVIOUS
<1>1. PICK N \in Nat : DOMAIN s = 1..N
  BY ParsedDrafts
<1>2. Keys(a, r) = {dedup_key(s[n]) : n \in 1..N}
  BY <1>1 DEF Keys, ToSet
<1>3. IsFiniteSet({dedup_key(s[n]) : n \in 1..N})
  <2>1. IsFiniteSet(1..N)
    BY 1 \in Int, N \in Int, FS_Interval
  <2> DEFINE key == [n \in 1..N |-> dedup_key(s[n])]
             K == {dedup_key(s[n]) : n \in 1..N}
  <2>2. key \in Surjection(1..N, K)
    BY DEF Surjection
  <2> HIDE DEF K, key
  <2>3. IsFiniteSet(K)
    BY <2>1, <2>2, FS_Surjection
  <2> QED
    BY <2>3 DEF K
<1>4. IsFiniteSet(Keys(a, r))
  BY <1>2, <1>3
<1> QED
  BY <1>4, FS_CardinalityType

\* The worst severity is an upper bound that is reached.
LEMMA WorstIs ==
  ASSUME NEW a \in AdapterNames, NEW r \in Response
  PROVE  /\ Worst(a, r) \in 0..HIGH
         /\ \A d \in Drafts(a, r) : d.rule.severity <= Worst(a, r)
         /\ Worst(a, r) = 0 \/ \E d \in Drafts(a, r) : d.rule.severity = Worst(a, r)
<1> DEFINE S == {d.rule.severity : d \in Drafts(a, r)}
           Bounds(w) == /\ \A d \in Drafts(a, r) : d.rule.severity <= w
                        /\ w = 0 \/ \E d \in Drafts(a, r) : d.rule.severity = w
<1>1. S \subseteq 1..HIGH
  BY CheckNamesRule
<1>2. \E w \in 0..HIGH : (\A x \in S : x <= w) /\ (w = 0 \/ w \in S)
  <2> HIDE DEF S
  <2>1. CASE 3 \in S
    BY <1>1, <2>1 DEF HIGH
  <2>2. CASE 3 \notin S /\ 2 \in S
    BY <1>1, <2>2 DEF HIGH
  <2>3. CASE 3 \notin S /\ 2 \notin S /\ 1 \in S
    BY <1>1, <2>3 DEF HIGH
  <2>4. CASE 3 \notin S /\ 2 \notin S /\ 1 \notin S
    BY <1>1, <2>4 DEF HIGH
  <2> QED
    BY <2>1, <2>2, <2>3, <2>4
<1>3. \E w \in 0..HIGH : Bounds(w)
  BY <1>2
<1>4. Worst(a, r) = CHOOSE w \in 0..HIGH : Bounds(w)
  <2> PICK s : s = parse_output(a, r)
    OBVIOUS
  <2>1. Drafts(a, r) = {s[n] : n \in DOMAIN s}
    BY ParsedDrafts DEF ToSet
  <2>2. \A w : Bounds(w) <=> /\ \A n \in DOMAIN s : s[n].rule.severity <= w
                             /\ w = 0 \/ \E n \in DOMAIN s : s[n].rule.severity = w
    BY <2>1
  <2> HIDE DEF Bounds
  <2> QED
    BY <2>2 DEF Worst
<1> HIDE DEF Bounds
<1>5. Worst(a, r) \in 0..HIGH /\ Bounds(Worst(a, r))
  BY <1>3, <1>4
<1> QED
  BY <1>5 DEF Bounds

\* An adapter's findings are no worse in q than in r, nor more, nor scored above
\* them but where the one there was is that of any origin with credentials.
NoWorseOf(a, r, q) ==
  /\ Worst(a, q) <= Worst(a, r)
  /\ Cardinality(Keys(a, q)) <= Cardinality(Keys(a, r))
  /\ ScoredAbove(a, q, r) => Fired(a, r) = {"wildcard-with-credentials"}

NoWorse(r, q) == \A a \in AdapterNames : NoWorseOf(a, r, q)

\* Fewer drafts are no worse.
LEMMA FewerHelp ==
  ASSUME NEW a \in AdapterNames, NEW r \in Response, NEW q \in Response,
         Drafts(a, q) \subseteq Drafts(a, r)
  PROVE  NoWorseOf(a, r, q)
<1>1. Worst(a, q) <= Worst(a, r)
  <2>1. /\ Worst(a, r) \in 0..HIGH /\ Worst(a, q) \in 0..HIGH
        /\ \A d \in Drafts(a, r) : d.rule.severity <= Worst(a, r)
        /\ Worst(a, q) = 0 \/ \E d \in Drafts(a, q) : d.rule.severity = Worst(a, q)
    BY WorstIs
  <2> QED
    BY <2>1 DEF HIGH
<1>2. Keys(a, q) \subseteq Keys(a, r)
  BY ParsedDrafts DEF Keys
<1>3. Cardinality(Keys(a, q)) <= Cardinality(Keys(a, r))
  BY <1>2, DraftsFinite, FS_Subset
<1>4. ASSUME NEW d \in Drafts(a, q)
      PROVE  \E e \in Drafts(a, r) : ~ (d.rule.cvss > e.rule.cvss)
  <2>1. d \in Drafts(a, r) /\ d.rule.cvss \in 0..100
    BY CheckNamesRule
  <2>2. ~ (d.rule.cvss > d.rule.cvss)
    BY <2>1
  <2> QED
    BY <2>1, <2>2
<1>5. ~ ScoredAbove(a, q, r)
  BY <1>4, ParsedDrafts DEF ScoredAbove
<1> QED
  BY <1>1, <1>3, <1>5 DEF NoWorseOf

\* An adapter that looks at the whole response, and of which no more fires.
LEMMA FewerFire ==
  ASSUME NEW a \in AdapterNames, a # "cookie_flags", NEW r \in Response, NEW q \in Response,
         q.url = r.url, FiredChecks(a, q) \subseteq FiredChecks(a, r)
  PROVE  NoWorseOf(a, r, q)
<1>1. HitsIn(RulesOf(a), FiredChecks(a, q)) \subseteq HitsIn(RulesOf(a), FiredChecks(a, r))
  BY DEF HitsIn
<1>2. Drafts(a, q) \subseteq Drafts(a, r)
  BY <1>1 DEF Drafts
<1> QED
  BY <1>2, FewerHelp

\* The same of the cookies.
LEMMA FewerCookies ==
  ASSUME NEW r \in Response, NEW q \in Response,
         q.url = r.url, CookieHits(q) \subseteq CookieHits(r),
         \A p \in CookieHits(q) : q.cookies[p[1]].name = r.cookies[p[1]].name
  PROVE  NoWorseOf("cookie_flags", r, q)
<1>1. "cookie_flags" \in AdapterNames
  BY DEF AdapterNames
<1>2. Drafts("cookie_flags", q) \subseteq Drafts("cookie_flags", r)
  <2>1. \A p \in CookieHits(q) :
          DraftOf(CookieRules[p[2]], q.url, q.cookies[p[1]].name)
            = DraftOf(CookieRules[p[2]], r.url, r.cookies[p[1]].name)
    OBVIOUS
  <2> QED
    BY <2>1 DEF Drafts
<1> QED
  BY <1>1, <1>2, FewerHelp

\* A remedy of something else than the cookies.
LEMMA FewerInAll ==
  ASSUME NEW r \in Response, NEW q \in Response, q.url = r.url, q.cookies = r.cookies,
         missing_headers(q) \subseteq missing_headers(r), fired_checks(q) \subseteq fired_checks(r),
         cors_check(q.origin, q.credentials) \subseteq cors_check(r.origin, r.credentials),
         wellknown_check(q) \subseteq wellknown_check(r)
  PROVE  NoWorse(r, q)
<1>1. CookieHits(q) = CookieHits(r)
  BY DEF CookieHits
<1>2. \A a \in AdapterNames : a # "cookie_flags" => FiredChecks(a, q) \subseteq FiredChecks(a, r)
  BY DEF AdapterNames, FiredChecks
<1>3. ASSUME NEW a \in AdapterNames
      PROVE  NoWorseOf(a, r, q)
  <2>1. CASE a = "cookie_flags"
    BY <1>1, <2>1, FewerCookies
  <2>2. CASE a # "cookie_flags"
    BY <1>2, <2>2, FewerFire
  <2> QED
    BY <2>1, <2>2
<1> QED
  BY <1>3 DEF NoWorse

\* What fires is what the checks say.
LEMMA FiredIsChecked ==
  ASSUME NEW a \in AdapterNames, a # "cookie_flags", NEW r \in Response, NEW check \in Fired(a, r)
  PROVE  check \in FiredChecks(a, r)
<1> PICK d \in Drafts(a, r) : check = d.rule.check
  BY FiredAre
<1> PICK n \in HitsIn(RulesOf(a), FiredChecks(a, r)) : d = DraftOf(RulesOf(a)[n], r.url, NoLocation)
  BY DEF Drafts
<1> QED
  BY DEF HitsIn, DraftOf

\* A header that is now sent makes no adapter report more.
LEMMA SentHeadersHelp ==
  ASSUME NEW r \in Response, NEW q \in Response, NEW h, q = [r EXCEPT !.headers = @ \cup {h}]
  PROVE  NoWorse(r, q)
<1>1. /\ q.url = r.url /\ q.cookies = r.cookies /\ q.origin = r.origin
      /\ q.credentials = r.credentials /\ q.status_ok = r.status_ok /\ q.contact = r.contact
      /\ q.tls = r.tls /\ q.location_https = r.location_https
      /\ q.headers = r.headers \cup {h}
  BY DEF Response
<1>2. missing_headers(q) \subseteq missing_headers(r)
  BY <1>1 DEF missing_headers
<1>3. fired_checks(q) \subseteq fired_checks(r)
  BY <1>1 DEF fired_checks
<1>4. wellknown_check(q) = wellknown_check(r)
  BY <1>1 DEF wellknown_check
<1> QED
  BY <1>1, <1>2, <1>3, <1>4, FewerInAll

\* Nor does a redirect to https, or a newer TLS.
LEMMA BetterTransportHelps ==
  ASSUME NEW r \in Response, NEW q \in Response,
         q = [r EXCEPT !.location_https = TRUE] \/ q = [r EXCEPT !.tls = "TLSv1.3"]
  PROVE  NoWorse(r, q)
<1>1. /\ q.url = r.url /\ q.cookies = r.cookies /\ q.origin = r.origin
      /\ q.credentials = r.credentials /\ q.status_ok = r.status_ok /\ q.contact = r.contact
      /\ q.headers = r.headers
      /\ q.tls = r.tls \/ q.tls = "TLSv1.3"
      /\ q.location_https = r.location_https \/ q.location_https = TRUE
  BY DEF Response
<1>2. missing_headers(q) = missing_headers(r)
  BY <1>1 DEF missing_headers
<1>3. cert_checks("TLSv1.3") = {}
  BY DEF cert_checks, WEAK_PROTOCOLS
<1>4. cert_checks(q.tls) \subseteq cert_checks(r.tls)
  BY <1>1, <1>3
<1>5. fired_checks(q) \subseteq fired_checks(r)
  BY <1>1, <1>4 DEF fired_checks
<1>6. wellknown_check(q) = wellknown_check(r)
  BY <1>1 DEF wellknown_check
<1> QED
  BY <1>1, <1>2, <1>5, <1>6, FewerInAll

\* Nor does a security.txt with a contact.
LEMMA SecurityTxtHelps ==
  ASSUME NEW r \in Response, NEW q \in Response,
         q = [r EXCEPT !.status_ok = TRUE, !.contact = TRUE]
  PROVE  NoWorse(r, q)
<1>1. /\ q.url = r.url /\ q.cookies = r.cookies /\ q.origin = r.origin
      /\ q.credentials = r.credentials /\ q.status_ok = TRUE /\ q.contact = TRUE
      /\ q.headers = r.headers /\ q.tls = r.tls /\ q.location_https = r.location_https
  BY DEF Response
<1>2. missing_headers(q) = missing_headers(r) /\ fired_checks(q) = fired_checks(r)
  BY <1>1 DEF missing_headers, fired_checks
<1>3. wellknown_check(q) = {}
  BY <1>1 DEF wellknown_check
<1> QED
  BY <1>1, <1>2, <1>3, FewerInAll

\* Nor does an attribute that a cookie now has.
LEMMA AttributesHelp ==
  ASSUME NEW r \in Response, NEW q \in Response, NEW n \in DOMAIN r.cookies, NEW attribute,
         q = [r EXCEPT !.cookies[n].attributes = @ \cup {attribute}]
  PROVE  NoWorse(r, q)
<1>1. /\ q.url = r.url /\ q.origin = r.origin
      /\ q.credentials = r.credentials /\ q.status_ok = r.status_ok /\ q.contact = r.contact
      /\ q.headers = r.headers /\ q.tls = r.tls /\ q.location_https = r.location_https
      /\ q.cookies = [r.cookies EXCEPT ![n].attributes = @ \cup {attribute}]
  BY DEF Response
<1>2. \A i \in DOMAIN r.cookies :
        r.cookies[i] \in [name : STRING, attributes : SUBSET DOMAIN ATTRIBUTE_CHECKS]
  <2> DEFINE C == [name : STRING, attributes : SUBSET DOMAIN ATTRIBUTE_CHECKS]
  <2>1. r.cookies \in Seq(C)
    BY DEF Response
  <2> HIDE DEF C
  <2>2. \A i \in DOMAIN r.cookies : r.cookies[i] \in C
    BY <2>1, ElementOfSeq, LenProperties
  <2> QED
    BY <2>2 DEF C
<1>3. /\ DOMAIN q.cookies = DOMAIN r.cookies
      /\ \A i \in DOMAIN r.cookies : /\ q.cookies[i].name = r.cookies[i].name
                                     /\ r.cookies[i].attributes \subseteq q.cookies[i].attributes
  BY <1>1, <1>2
<1>4. \A i \in DOMAIN r.cookies :
        missing_attributes(q.cookies[i]) \subseteq missing_attributes(r.cookies[i])
  BY <1>3 DEF missing_attributes
<1>5. CookieHits(q) \subseteq CookieHits(r)
  BY <1>3, <1>4 DEF CookieHits
<1>6. \A p \in CookieHits(q) : q.cookies[p[1]].name = r.cookies[p[1]].name
  BY <1>3 DEF CookieHits
<1>7. \A a \in AdapterNames : a # "cookie_flags" => FiredChecks(a, q) = FiredChecks(a, r)
  BY <1>1 DEF FiredChecks, missing_headers, fired_checks, wellknown_check, AdapterNames
<1>8. ASSUME NEW a \in AdapterNames
      PROVE  NoWorseOf(a, r, q)
  <2>1. CASE a = "cookie_flags"
    BY <1>1, <1>5, <1>6, <2>1, FewerCookies
  <2>2. CASE a # "cookie_flags"
    BY <1>1, <1>7, <2>2, FewerFire
  <2> QED
    BY <2>1, <2>2
<1> QED
  BY <1>8 DEF NoWorse

\* Nor does a change of the CORS headers that leaves nothing to report.
LEMMA OtherCorsHelps ==
  ASSUME NEW r \in Response, NEW q \in Response,
         q = [r EXCEPT !.origin = "none"] \/ q = [r EXCEPT !.credentials = FALSE],
         cors_check(q.origin, q.credentials) = {}
  PROVE  NoWorse(r, q)
<1>1. /\ q.url = r.url /\ q.cookies = r.cookies /\ q.status_ok = r.status_ok
      /\ q.contact = r.contact /\ q.headers = r.headers /\ q.tls = r.tls
      /\ q.location_https = r.location_https
  BY DEF Response
<1>2. /\ missing_headers(q) = missing_headers(r) /\ fired_checks(q) = fired_checks(r)
      /\ wellknown_check(q) = wellknown_check(r)
  BY <1>1 DEF missing_headers, fired_checks, wellknown_check
<1> QED
  BY <1>1, <1>2, FewerInAll

\* Any origin becomes some origin: with credentials that is still one finding,
\* and a severe one, but no more than that; its score is the one that rises.
LEMMA SomeOriginHelps ==
  ASSUME NEW r \in Response, NEW q \in Response,
         r.origin = "*", q = [r EXCEPT !.origin = "some"]
  PROVE  NoWorse(r, q)
<1>1. /\ q.url = r.url /\ q.cookies = r.cookies /\ q.origin = "some"
      /\ q.credentials = r.credentials /\ q.status_ok = r.status_ok /\ q.contact = r.contact
      /\ q.headers = r.headers /\ q.tls = r.tls /\ q.location_https = r.location_https
  BY DEF Response
<1>2. /\ missing_headers(q) = missing_headers(r) /\ fired_checks(q) = fired_checks(r)
      /\ wellknown_check(q) = wellknown_check(r)
  BY <1>1 DEF missing_headers, fired_checks, wellknown_check
<1>3. CASE ~ r.credentials
  <2>1. cors_check(q.origin, q.credentials) = {}
    BY <1>1, <1>3 DEF cors_check
  <2> QED
    BY <1>1, <1>2, <2>1, FewerInAll
<1>4. CASE r.credentials
  <2> DEFINE c == "cors"
  <2>1. c \in AdapterNames /\ c # "cookie_flags" /\ RulesOf(c) = CorsRules
    BY DEF AdapterNames, RulesOf
  <2>2. /\ FiredChecks(c, r) = {"wildcard-with-credentials"}
        /\ FiredChecks(c, q) = {"credentialed-origin"}
    BY <1>1, <1>4 DEF FiredChecks, cors_check
  <2>3. /\ CorsRules[1].check = "wildcard-with-credentials" /\ CorsRules[1].severity = HIGH
        /\ CorsRules[4].check = "credentialed-origin"
    BY DEF CorsRules, Rule
  <2>4. /\ 1 \in HitsIn(CorsRules, FiredChecks(c, r))
        /\ HitsIn(CorsRules, FiredChecks(c, q)) = {4}
    BY <2>2, <2>3, CorsRulesDistinct, SMTT(30) DEF HitsIn, Distinct
  <2>5. DraftOf(CorsRules[1], r.url, NoLocation) \in Drafts(c, r)
    BY <2>1, <2>4 DEF Drafts
  <2>6. Worst(c, q) <= Worst(c, r)
    <3>1. Worst(c, r) >= HIGH
      BY <2>1, <2>3, <2>5, WorstIs DEF DraftOf
    <3>2. Worst(c, q) \in 0..HIGH /\ Worst(c, r) \in 0..HIGH
      BY <2>1, WorstIs
    <3> QED
      BY <3>1, <3>2 DEF HIGH
  <2>7. Cardinality(Keys(c, q)) <= Cardinality(Keys(c, r))
    <3>1. Keys(c, q) = {<<Identity(CorsRules[4]), normalize_target(q.url), NoLocation>>}
      <4>1. KeySet(c, q) = {<<Identity(CorsRules[n]), normalize_target(q.url), NoLocation>> :
                              n \in HitsIn(CorsRules, FiredChecks(c, q))}
        BY <2>1 DEF KeySet
      <4>2. Keys(c, q) = KeySet(c, q)
        BY <2>1, KeysAre
      <4> QED
        BY <2>4, <4>1, <4>2
    <3>2. <<Identity(CorsRules[1]), normalize_target(r.url), NoLocation>> \in Keys(c, r)
      <4>1. KeySet(c, r) = {<<Identity(CorsRules[n]), normalize_target(r.url), NoLocation>> :
                              n \in HitsIn(CorsRules, FiredChecks(c, r))}
        BY <2>1 DEF KeySet
      <4>2. Keys(c, r) = KeySet(c, r)
        BY <2>1, KeysAre
      <4> QED
        BY <2>4, <4>1, <4>2
    <3>3. Cardinality(Keys(c, q)) = 1
      BY <3>1, FS_Singleton
    <3>4. Cardinality(Keys(c, r)) # 0
      <4>1. IsFiniteSet(Keys(c, r)) /\ Keys(c, r) # {}
        BY <2>1, <3>2, DraftsFinite
      <4> QED
        BY <4>1, FS_EmptySet
    <3> QED
      BY <2>1, <3>3, <3>4, DraftsFinite
  <2>8. Fired(c, r) = {"wildcard-with-credentials"}
    <3>1. Fired(c, r) \subseteq FiredChecks(c, r)
      BY <2>1, FiredIsChecked
    <3>2. DraftOf(CorsRules[1], r.url, NoLocation).rule.check \in Fired(c, r)
      BY <2>1, <2>5, FiredAre
    <3>3. "wildcard-with-credentials" \in Fired(c, r)
      BY <2>3, <3>2 DEF DraftOf
    <3> QED
      BY <2>2, <3>1, <3>3
  <2>9. ASSUME NEW a \in AdapterNames
        PROVE  NoWorseOf(a, r, q)
    <3>1. CASE a = "cookie_flags"
      <4>1. CookieHits(q) = CookieHits(r)
        BY <1>1 DEF CookieHits
      <4> QED
        BY <1>1, <3>1, <4>1, FewerCookies
    <3>2. CASE a = c
      BY <2>6, <2>7, <2>8, <3>2 DEF NoWorseOf
    <3>3. CASE a # "cookie_flags" /\ a # c
      <4>1. FiredChecks(a, q) = FiredChecks(a, r)
        BY <1>2, <3>3 DEF FiredChecks, AdapterNames
      <4> QED
        BY <1>1, <3>3, <4>1, FewerFire
    <3> QED
      BY <3>1, <3>2, <3>3
  <2> QED
    BY <2>9 DEF NoWorse
<1> QED
  BY <1>3, <1>4


\* No remedy makes any adapter report more.
LEMMA FixingHelps ==
  ASSUME response \in Response, Next
  PROVE  NoWorse(response, response')
<1>0. response' \in Response
  BY TypedNext
<1> PICK r \in Response : r = response
  OBVIOUS
<1> PICK q \in Response : q = response'
  BY <1>0
<1> SUFFICES NoWorse(r, q)
  OBVIOUS
<1>1. ASSUME NEW n \in DOMAIN HeaderRules, SendHeader(HeaderRules[n].check)
      PROVE  NoWorse(r, q)
  <2>1. q = [r EXCEPT !.headers = @ \cup {HeaderRules[n].check}]
    BY <1>1 DEF SendHeader
  <2> QED
    BY <2>1, SentHeadersHelp
<1>2. ASSUME NEW n \in DOMAIN TransportRules, FixTransport(TransportRules[n].check)
      PROVE  NoWorse(r, q)
  <2>1. \/ q = [r EXCEPT !.location_https = TRUE]
        \/ q = [r EXCEPT !.headers = @ \cup {HSTS_HEADER}]
        \/ q = [r EXCEPT !.tls = "TLSv1.3"]
    BY <1>2 DEF FixTransport
  <2>2. q = [r EXCEPT !.headers = @ \cup {HSTS_HEADER}] => NoWorse(r, q)
    BY SentHeadersHelp
  <2>3. q = [r EXCEPT !.location_https = TRUE] \/ q = [r EXCEPT !.tls = "TLSv1.3"] => NoWorse(r, q)
    BY BetterTransportHelps
  <2> QED
    BY <2>1, <2>2, <2>3
<1>3. ASSUME NEW n \in DOMAIN response.cookies, NEW b \in DOMAIN ATTRIBUTE_CHECKS,
             AddAttribute(n, b)
      PROVE  NoWorse(r, q)
  <2>1. n \in DOMAIN r.cookies /\ q = [r EXCEPT !.cookies[n].attributes = @ \cup {b}]
    BY <1>3 DEF AddAttribute
  <2> QED
    BY <2>1, AttributesHelp
<1>4. ASSUME NEW n \in DOMAIN CorsRules, FixCors(CorsRules[n].check)
      PROVE  NoWorse(r, q)
  <2> PICK check : check = CorsRules[n].check
    OBVIOUS
  <2>1. check \in Fired("cors", r)
    BY <1>4 DEF FixCors
  <2>2. check \in cors_check(r.origin, r.credentials)
    <3>1. "cors" \in AdapterNames /\ "cors" # "cookie_flags"
      BY DEF AdapterNames
    <3>2. FiredChecks("cors", r) = cors_check(r.origin, r.credentials)
      BY DEF FiredChecks
    <3> QED
      BY <2>1, <3>1, <3>2, FiredIsChecked
  <2>3. CASE check = "null-origin"
    <3>1. q = [r EXCEPT !.origin = "none"]
      BY <1>4, <2>3 DEF FixCors
    <3>2. cors_check("none", r.credentials) = {}
      BY DEF cors_check
    <3>3. cors_check(q.origin, q.credentials) = {}
      BY <3>1, <3>2 DEF Response
    <3> QED
      BY <3>1, <3>3, OtherCorsHelps
  <2>4. CASE check = "credentialed-origin"
    <3>1. q = [r EXCEPT !.credentials = FALSE]
      BY <1>4, <2>4 DEF FixCors
    <3>2. r.origin = "some"
      BY <2>2, <2>4 DEF cors_check
    <3>3. cors_check("some", FALSE) = {}
      BY DEF cors_check
    <3>4. cors_check(q.origin, q.credentials) = {}
      BY <3>1, <3>2, <3>3 DEF Response
    <3> QED
      BY <3>1, <3>4, OtherCorsHelps
  <2>5. CASE check # "null-origin" /\ check # "credentialed-origin"
    <3>1. q = [r EXCEPT !.origin = "some"]
      BY <1>4, <2>5 DEF FixCors
    <3>2. r.origin = "*"
      BY <2>2, <2>5 DEF cors_check
    <3> QED
      BY <3>1, <3>2, SomeOriginHelps
  <2> QED
    BY <2>3, <2>4, <2>5
<1>5. CASE PublishSecurityTxt
  <2>1. q = [r EXCEPT !.status_ok = TRUE, !.contact = TRUE]
    BY <1>5 DEF PublishSecurityTxt
  <2> QED
    BY <2>1, SecurityTxtHelps
<1> QED
  BY <1>1, <1>2, <1>3, <1>4, <1>5 DEF Next

\* Whatever a target answers: no remediation of the rules makes a target worse,
\* and one raises a score.
THEOREM NoRemedyHurts == Spec => RemediationHelps
<1>1. response \in Response /\ [Next]_response =>
        [\A a \in AdapterNames :
           /\ Worst(a, response') <= Worst(a, response)
           /\ Cardinality(Keys(a, response')) <= Cardinality(Keys(a, response))
           /\ ScoredAbove(a, response', response) =>
                Fired(a, response) = {"wildcard-with-credentials"}]_response
  BY FixingHelps DEF NoWorse, NoWorseOf
<1> QED
  BY <1>1, RespondsTyped, PTL DEF Spec, RemediationHelps

-----------------------------------------------------------------------------
(***************************************************************************)
(* The sections of a report, of any list of findings.                      *)
(***************************************************************************)

\* What a report's lists are sorted by.
Ranked(T) == \A x \in T : x.severity \in 0..4 /\ x.label \in Int

\* Worst first.
Descending(s) == \A j, k \in DOMAIN s : j < k => s[j].severity >= s[k].severity

\* The findings of a report are findings, the worst first.
LEMMA ReportOrder ==
  ASSUME NEW T, Ranked(T), NEW s \in Seq(T)
  PROVE  report_findings(s) \in Seq(T) /\ Descending(report_findings(s))
<1> DEFINE keep == {n \in DOMAIN s : s[n].in_report /\ s[n].status # "false_positive"}
           kept == report_findings(s)
<1>1. kept = Picked(s, InOrder(keep, Worse(s, keep)))
  BY DEF report_findings, WorstFirst, Worse
<1>2. keep \in SUBSET DOMAIN s /\ keep \in SUBSET Int
  BY LenProperties
<1>3. \A n \in keep : s[n].severity \in Int /\ s[n].label \in Int
  <2>1. \A n \in DOMAIN s : s[n] \in T
    BY ElementOfSeq, LenProperties
  <2> QED
    BY <1>2, <2>1 DEF Ranked
<1> HIDE DEF keep, kept
<1>4. /\ Orders(Worse(s, keep), keep)
      /\ \A m, n \in keep : <<m, n>> \in Worse(s, keep) => s[m].severity >= s[n].severity
  BY <1>2, <1>3, WorseOrders
<1>5. /\ Cardinality(keep) \in Nat
      /\ kept \in Seq(T)
      /\ DOMAIN kept = 1..Cardinality(keep)
      /\ \E at \in [1..Cardinality(keep) -> keep] :
           /\ \A n \in keep : \E k \in 1..Cardinality(keep) : at[k] = n
           /\ \A j, k \in 1..Cardinality(keep) : <<at[j], at[k]>> \in Worse(s, keep) <=> j < k
           /\ \A k \in 1..Cardinality(keep) : kept[k] = s[at[k]]
  BY <1>1, <1>2, <1>4, SortedElements
<1>6. Descending(kept)
  <2> PICK at \in [1..Cardinality(keep) -> keep] :
        /\ \A j, k \in 1..Cardinality(keep) : <<at[j], at[k]>> \in Worse(s, keep) <=> j < k
        /\ \A k \in 1..Cardinality(keep) : kept[k] = s[at[k]]
    BY <1>5
  <2>1. ASSUME NEW j \in 1..Cardinality(keep), NEW k \in 1..Cardinality(keep), j < k
        PROVE  kept[j].severity >= kept[k].severity
    <3>1. <<at[j], at[k]>> \in Worse(s, keep) /\ at[j] \in keep /\ at[k] \in keep
      BY <2>1
    <3> QED
      BY <1>4, <3>1
  <2> QED
    BY <1>5, <2>1 DEF Descending
<1> QED
  BY <1>5, <1>6 DEF kept

\* Of a list that is worst first, what is at least so severe comes first.
LEMMA Cut ==
  ASSUME NEW T, Ranked(T), NEW s \in Seq(T), Descending(s), NEW v \in Int
  PROVE  \E c \in 0..Len(s) : \A n \in DOMAIN s : s[n].severity >= v <=> n <= c
<1> PICK N \in Nat : N = Len(s)
  BY LenProperties
<1> DEFINE E == {m \in Nat : m <= N => \E c \in 0..m : \A n \in 1..m : s[n].severity >= v <=> n <= c}
<1>1. DOMAIN s = 1..N /\ \A n \in 1..N : s[n].severity \in Int
  <2>1. DOMAIN s = 1..N
    BY LenProperties
  <2>2. \A n \in 1..N : s[n] \in T
    BY <2>1, ElementOfSeq
  <2> QED
    BY <2>1, <2>2 DEF Ranked
<1>2. 0 \in E
  OBVIOUS
<1>3. ASSUME NEW m \in Nat, m \in E
      PROVE  m + 1 \in E
  <2> SUFFICES ASSUME m + 1 <= N
               PROVE  \E c \in 0..(m + 1) : \A n \in 1..(m + 1) : s[n].severity >= v <=> n <= c
    OBVIOUS
  <2> PICK c \in 0..m : \A n \in 1..m : s[n].severity >= v <=> n <= c
    BY <1>3
  <2>1. CASE s[m + 1].severity >= v
    <3>1. \A n \in 1..(m + 1) : s[n].severity >= v
      BY <1>1, <2>1 DEF Descending
    <3>2. \A n \in 1..(m + 1) : s[n].severity >= v <=> n <= m + 1
      BY <3>1
    <3>3. m + 1 \in 0..(m + 1)
      OBVIOUS
    <3> QED
      BY <3>2, <3>3
  <2>2. CASE ~ (s[m + 1].severity >= v)
    <3>1. c \in 0..(m + 1)
      OBVIOUS
    <3>2. \A n \in 1..(m + 1) : s[n].severity >= v <=> n <= c
      <4>1. \A n \in 1..(m + 1) : n \in 1..m \/ n = m + 1
        OBVIOUS
      <4>2. ~ (m + 1 <= c)
        OBVIOUS
      <4> QED
        BY <2>2, <4>1, <4>2
    <3> QED
      BY <3>1, <3>2
  <2> QED
    BY <2>1, <2>2
<1> HIDE DEF E
<1>4. N \in E
  BY <1>2, <1>3, SetInduction
<1>5. \E c \in 0..N : \A n \in 1..N : s[n].severity >= v <=> n <= c
  BY <1>4 DEF E
<1> QED
  BY <1>1, <1>5

\* The findings of one severity are a part of the list, between two cuts.
LEMMA BandIsPart ==
  ASSUME NEW T, Ranked(T), NEW s \in Seq(T), NEW v \in Int,
         NEW b \in 0..Len(s), \A n \in DOMAIN s : s[n].severity >= v + 1 <=> n <= b,
         NEW c \in 0..Len(s), \A n \in DOMAIN s : s[n].severity >= v <=> n <= c
  PROVE  /\ b <= c
         /\ OfSeverity(s, v) \in Seq(T)
         /\ Len(OfSeverity(s, v)) = c - b
         /\ \A k \in 1..(c - b) : OfSeverity(s, v)[k] = s[b + k]
<1> PICK N \in Nat : N = Len(s)
  BY LenProperties
<1>1. DOMAIN s = 1..N /\ \A n \in 1..N : s[n].severity \in Int
  <2>1. DOMAIN s = 1..N
    BY LenProperties
  <2>2. \A n \in 1..N : s[n] \in T
    BY <2>1, ElementOfSeq
  <2> QED
    BY <2>1, <2>2 DEF Ranked
<1>2. b <= c
  BY <1>1
<1>3. {n \in DOMAIN s : s[n].severity = v} = (b + 1)..c
  <2>1. \A n \in 1..N : s[n].severity = v <=> s[n].severity >= v /\ ~ (s[n].severity >= v + 1)
    BY <1>1
  <2>2. \A n \in 1..N : s[n].severity = v <=> b + 1 <= n /\ n <= c
    BY <1>1, <2>1
  <2> QED
    BY <1>1, <2>2
<1>4. OfSeverity(s, v) = Kept(s, (b + 1)..c)
  BY <1>3 DEF OfSeverity
<1>5. b \in Nat /\ c \in Nat /\ c <= Len(s)
  BY <1>1
<1>6. /\ Kept(s, (b + 1)..c) \in Seq(T)
      /\ Len(Kept(s, (b + 1)..c)) = c - b
      /\ \A k \in 1..(c - b) : Kept(s, (b + 1)..c)[k] = s[b + k]
  BY <1>2, <1>5, KeptInterval
<1> QED
  BY <1>2, <1>4, <1>6

\* The bands of a roadmap: at[k] is the place in SEVERITY_ORDER of its k-th.
RoadmapAt(s, road, N, at) ==
  /\ DOMAIN road = 1..N
  /\ \A k \in 1..N : road[k].findings = OfSeverity(s, 5 - at[k])
  /\ \A j, k \in 1..N : j < k <=> at[j] < at[k]
  /\ \A n \in 1..5 :
       (\E m \in DOMAIN s : s[m].severity = 5 - n) <=> \E k \in 1..N : at[k] = n

\* A severity without findings has an empty band.
LEMMA BandIsEmpty ==
  ASSUME NEW T, NEW s \in Seq(T), NEW v
  PROVE  OfSeverity(s, v) = <<>> <=> ~ \E m \in DOMAIN s : s[m].severity = v
<1> DEFINE P == {n \in DOMAIN s : s[n].severity = v}
<1>1. OfSeverity(s, v) = Kept(s, P)
  BY DEF OfSeverity
<1>2. P = {} <=> ~ \E m \in DOMAIN s : s[m].severity = v
  OBVIOUS
<1>3. P \in SUBSET DOMAIN s
  OBVIOUS
<1> HIDE DEF P
<1>4. Kept(s, P) \in Seq(T) /\ Len(Kept(s, P)) = Cardinality(P)
  BY <1>3, KeptElements
<1>5. IsFiniteSet(P)
  <2>1. DOMAIN s = 1..Len(s) /\ Len(s) \in Int
    BY LenProperties
  <2>2. IsFiniteSet(DOMAIN s)
    BY <2>1, FS_Interval
  <2> QED
    BY <1>3, <2>2, FS_Subset
<1>6. Cardinality(P) = 0 <=> P = {}
  BY <1>5, FS_EmptySet
<1>7. Kept(s, P) = <<>> <=> Len(Kept(s, P)) = 0
  BY <1>4, EmptySeq
<1> QED
  BY <1>1, <1>2, <1>4, <1>6, <1>7

\* The rows of the roadmap are the bands that have findings, worst first.
LEMMA RoadmapBands ==
  ASSUME NEW T, NEW s \in Seq(T)
  PROVE  \E N \in Nat : \E at \in [1..N -> 1..5] : RoadmapAt(s, remediation_roadmap(s), N, at)
<1>1. /\ DOMAIN SEVERITY_ORDER = 1..5
      /\ \A n \in 1..5 : SEVERITY_ORDER[n] = 5 - n
  BY DEF SEVERITY_ORDER
<1> DEFINE bands == [n \in 1..5 |-> [severity |-> SEVERITY_ORDER[n], findings |-> OfSeverity(s, SEVERITY_ORDER[n])]]
           some  == {n \in DOMAIN bands : bands[n].findings # <<>>}
           B     == {bands[n] : n \in 1..5}
<1>2. remediation_roadmap(s) = Kept(bands, some)
  BY <1>1 DEF remediation_roadmap
<1>3. /\ bands \in [1..5 -> B]
      /\ DOMAIN bands = 1..5
      /\ \A n \in 1..5 : bands[n].findings = OfSeverity(s, 5 - n)
  BY <1>1
<1>4. \A n \in 1..5 : n \in some <=> \E m \in DOMAIN s : s[m].severity = 5 - n
  <2>1. \A n \in 1..5 : n \in some <=> OfSeverity(s, 5 - n) # <<>>
    BY <1>3
  <2> HIDE DEF bands, some, B
  <2> QED
    BY <2>1, BandIsEmpty
<1>5. some \in SUBSET DOMAIN bands
  OBVIOUS
<1> HIDE DEF bands, some, B
<1>6. bands \in Seq(B)
  <2> DEFINE five == 5
  <2>1. five \in Nat /\ bands \in [1..five -> B]
    BY <1>3
  <2> HIDE DEF five
  <2> QED
    BY <2>1, IsASeq
<1>7. PICK N \in Nat : \E at \in [1..N -> some] : KeptAt(bands, some, Kept(bands, some), N, at)
  BY <1>5, <1>6, KeptPlaces
<1> PICK road : road = Kept(bands, some)
  OBVIOUS
<1>8. PICK at \in [1..N -> some] :
        /\ DOMAIN road = 1..N
        /\ \A n \in some : \E k \in 1..N : at[k] = n
        /\ \A j, k \in 1..N : j < k <=> at[j] < at[k]
        /\ \A k \in 1..N : road[k] = bands[at[k]]
  BY <1>7 DEF KeptAt
<1>9. at \in [1..N -> 1..5]
  BY <1>3, <1>5
<1>10. \A k \in 1..N : road[k].findings = OfSeverity(s, 5 - at[k])
  BY <1>3, <1>8, <1>9
<1>11. \A n \in 1..5 : n \in some <=> \E k \in 1..N : at[k] = n
  BY <1>8
<1>12. RoadmapAt(s, road, N, at)
  BY <1>4, <1>8, <1>10, <1>11 DEF RoadmapAt
<1> QED
  BY <1>2, <1>9, <1>12

\* What is worse than a band is in the bands before it.
LEMMA BandsBefore ==
  ASSUME NEW T, Ranked(T), NEW s \in Seq(T), NEW N \in Nat, NEW at \in [1..N -> 1..5], NEW road,
         RoadmapAt(s, road, N, at), NEW n \in DOMAIN s
  PROVE  /\ N > 0 /\ s[n].severity >= 5 - at[N]
         /\ \A k \in 1..N :
              s[n].severity >= (5 - at[k]) + 1 <=> k > 1 /\ s[n].severity >= 5 - at[k - 1]
<1>1. s[n].severity \in 0..4
  <2>1. s[n] \in T
    BY ElementOfSeq, LenProperties
  <2> QED
    BY <2>1 DEF Ranked
<1>2. PICK j \in 1..N : at[j] = 5 - s[n].severity
  <2> DEFINE m == 5 - s[n].severity
  <2>1. m \in 1..5 /\ s[n].severity = 5 - m
    BY <1>1
  <2> HIDE DEF m
  <2>2. \E j \in 1..N : at[j] = m
    BY <2>1 DEF RoadmapAt
  <2> QED
    BY <2>2 DEF m
<1>3. \A i, k \in 1..N : i < k <=> at[i] < at[k]
  BY DEF RoadmapAt
<1>4. \A k \in 1..N : at[k] \in 1..5
  OBVIOUS
<1>a. PICK w \in 0..4 : w = s[n].severity
  BY <1>1
<1>5. N > 0 /\ N \in 1..N /\ at[j] <= at[N]
  <2>1. N > 0 /\ N \in 1..N /\ ~ (N < j)
    OBVIOUS
  <2>2. ~ (at[N] < at[j])
    BY <1>3, <2>1
  <2> QED
    BY <1>4, <2>1, <2>2
<1>6. ASSUME NEW k \in 1..N
      PROVE  w >= (5 - at[k]) + 1 <=> k > 1 /\ w >= 5 - at[k - 1]
  <2>1. w >= (5 - at[k]) + 1 <=> j < k
    <3>1. PICK x \in 1..5 : x = at[k]
      BY <1>4
    <3>2. PICK y \in 1..5 : y = at[j]
      BY <1>4
    <3>3. y = 5 - w
      BY <1>a, <1>2, <3>2
    <3>4. j < k <=> y < x
      BY <1>3, <3>1, <3>2
    <3>5. w >= (5 - x) + 1 <=> y < x
      BY <3>3
    <3> QED
      BY <3>1, <3>4, <3>5
  <2>2. ASSUME k > 1 PROVE w >= 5 - at[k - 1] <=> j < k
    <3>1. k - 1 \in 1..N
      BY <2>2
    <3>2. (k - 1) < j <=> at[k - 1] < at[j]
      BY <1>3, <3>1
    <3>3. PICK x \in 1..5 : x = at[k - 1]
      BY <1>4, <3>1
    <3>4. PICK y \in 1..5 : y = at[j]
      BY <1>4
    <3>5. y = 5 - w
      BY <1>a, <1>2, <3>4
    <3>6. w >= 5 - x <=> ~ (x < y)
      BY <3>5
    <3>7. (k - 1) < j <=> ~ (j < k)
      OBVIOUS
    <3>8. (k - 1) < j <=> x < y
      BY <3>2, <3>3, <3>4
    <3> QED
      BY <3>3, <3>6, <3>7, <3>8
  <2> QED
    BY <2>1, <2>2
<1>7. w >= 5 - at[N]
  <2>1. PICK x \in 1..5 : x = at[N]
    BY <1>4, <1>5
  <2>2. PICK y \in 1..5 : y = at[j]
    BY <1>4
  <2>3. y = 5 - w /\ y <= x
    BY <1>a, <1>2, <1>5, <2>1, <2>2
  <2> QED
    BY <2>1, <2>3
<1> QED
  BY <1>a, <1>5, <1>6, <1>7

\* f is the part of s that is at least so severe.
IsCut(f, s, v) ==
  /\ Len(f) \in 0..Len(s)
  /\ \A n \in DOMAIN s : s[n].severity >= v <=> n <= Len(f)
  /\ \A n \in 1..Len(f) : f[n] = s[n]

\* A cut of the sorted findings, with the next band, is the next cut.
LEMMA CutGrows ==
  ASSUME NEW T, Ranked(T), NEW s \in Seq(T), Descending(s), NEW v \in Int,
         NEW f \in Seq(T), IsCut(f, s, v + 1)
  PROVE  IsCut(f \o OfSeverity(s, v), s, v)
<1> DEFINE band == OfSeverity(s, v)
<1>1. PICK c \in 0..Len(s) : \A n \in DOMAIN s : s[n].severity >= v <=> n <= c
  BY Cut
<1>2. PICK b \in 0..Len(s) : b = Len(f)
  BY DEF IsCut
<1>3. /\ \A n \in DOMAIN s : s[n].severity >= v + 1 <=> n <= b
      /\ \A n \in 1..b : f[n] = s[n]
  BY <1>2 DEF IsCut
<1>4. /\ b <= c
      /\ band \in Seq(T)
      /\ Len(band) = c - b
      /\ \A k \in 1..(c - b) : band[k] = s[b + k]
  BY <1>1, <1>3, BandIsPart
<1> HIDE DEF band
<1>5. Len(s) \in Nat
  BY LenProperties
<1>6. /\ Len(f \o band) = c
      /\ \A n \in 1..c : (f \o band)[n] = IF n <= b THEN f[n] ELSE band[n - b]
  BY <1>2, <1>4, <1>5, ConcatProperties
<1>7. \A n \in 1..c : (f \o band)[n] = s[n]
  <2> SUFFICES ASSUME NEW n \in 1..c PROVE (f \o band)[n] = s[n]
    OBVIOUS
  <2>1. CASE n <= b
    BY <1>3, <1>5, <1>6, <2>1
  <2>2. CASE ~ (n <= b)
    <3>1. n - b \in 1..(c - b) /\ b + (n - b) = n
      BY <1>5, <2>2
    <3>2. band[n - b] = s[b + (n - b)]
      BY <1>4, <3>1
    <3> QED
      BY <1>6, <2>2, <3>1, <3>2
  <2> QED
    BY <2>1, <2>2
<1> QED
  BY <1>1, <1>6, <1>7 DEF IsCut, band

\* The bands of a roadmap, one after the other, are the list.
LEMMA RoadmapIsList ==
  ASSUME NEW T, Ranked(T), NEW s \in Seq(T), Descending(s)
  PROVE  LET road == remediation_roadmap(s)
         IN  FlattenSeq([n \in DOMAIN road |-> road[n].findings]) = s
<1> PICK road : road = remediation_roadmap(s)
  OBVIOUS
<1>1. PICK N \in Nat : \E at \in [1..N -> 1..5] : RoadmapAt(s, road, N, at)
  BY RoadmapBands
<1>2. PICK at \in [1..N -> 1..5] : RoadmapAt(s, road, N, at)
  BY <1>1
<1>3. DOMAIN road = 1..N /\ \A k \in 1..N : road[k].findings = OfSeverity(s, 5 - at[k])
  BY <1>2 DEF RoadmapAt
<1> DEFINE bands == [n \in 1..N |-> road[n].findings]
<1>4. bands \in [1..N -> Seq(T)] /\ \A k \in 1..N : bands[k] = OfSeverity(s, 5 - at[k])
  <2>1. \A k \in 1..N : OfSeverity(s, 5 - at[k]) \in Seq(T)
    <3>1. ASSUME NEW v \in Int PROVE OfSeverity(s, v) \in Seq(T)
      <4>1. {n \in DOMAIN s : s[n].severity = v} \in SUBSET DOMAIN s
        OBVIOUS
      <4> QED
        BY <4>1, KeptElements DEF OfSeverity
    <3>2. \A k \in 1..N : at[k] \in 1..5 /\ 5 - at[k] \in Int
      OBVIOUS
    <3> QED
      BY <3>1, <3>2
  <2> QED
    BY <1>3, <2>1
<1>5. [n \in DOMAIN road |-> road[n].findings] = bands
  BY <1>3
<1> HIDE DEF bands
<1>6. CASE N = 0
  <2>1. s = <<>>
    <3>1. \A n \in DOMAIN s : FALSE
      <4>1. \A n \in DOMAIN s : N > 0
        BY <1>2, BandsBefore
      <4> QED
        BY <1>6, <4>1
    <3>2. s # <<>> => 1 \in DOMAIN s
      <4>1. s # <<>> => Len(s) \in Nat \ {0}
        BY EmptySeq
      <4> QED
        BY <4>1, LenProperties
    <3> QED
      BY <3>1, <3>2
  <2>2. bands \in Seq(Seq(T)) /\ Len(bands) = 0
    <3>1. bands \in Seq(Seq(T))
      BY <1>4, IsASeq
    <3>2. DOMAIN bands = 1..0
      BY <1>4, <1>6
    <3> QED
      BY <3>1, <3>2, LenProperties
  <2>3. bands = <<>>
    BY <2>2, EmptySeq
  <2>4. FlattenSeq(bands) = bands
    BY <2>2 DEF FlattenSeq
  <2> QED
    BY <1>5, <2>1, <2>3, <2>4
<1>7. CASE N # 0
  <2>1. PICK f : f \in Joins(T, bands, N) /\ FlattenSeq(bands) = f[N]
    BY <1>4, <1>7, FlattenJoins
  <2>2. f \in [1..N -> Seq(T)] /\ \A k \in 1..N : f[k] = Join(f, bands, k)
    BY <2>1 DEF Joins
  <2> DEFINE E == {m \in Nat : m + 1 \in 1..N => IsCut(f[m + 1], s, 5 - at[m + 1])}
  <2>3. 0 \in E
    <3> SUFFICES ASSUME 1 \in 1..N PROVE IsCut(f[1], s, 5 - at[1])
      OBVIOUS
    <3>1. f[1] = OfSeverity(s, 5 - at[1])
      BY <1>4, <2>2 DEF Join
    <3>2. \A n \in DOMAIN s : ~ (s[n].severity >= (5 - at[1]) + 1)
      BY <1>2, BandsBefore
    <3>3. IsCut(<<>>, s, (5 - at[1]) + 1)
      <4>1. Len(s) \in Nat /\ DOMAIN s = 1..Len(s)
        BY LenProperties
      <4> QED
        BY <3>2, <4>1 DEF IsCut
    <3>4. <<>> \in Seq(T) /\ 5 - at[1] \in Int
      OBVIOUS
    <3>5. IsCut(<<>> \o OfSeverity(s, 5 - at[1]), s, 5 - at[1])
      BY <3>3, <3>4, CutGrows
    <3>6. OfSeverity(s, 5 - at[1]) \in Seq(T)
      BY <2>2, <3>1
    <3>7. <<>> \o OfSeverity(s, 5 - at[1]) = OfSeverity(s, 5 - at[1])
      BY <3>6, ConcatEmptySeq
    <3> QED
      BY <3>1, <3>5, <3>7
  <2>4. ASSUME NEW m \in Nat, m \in E
        PROVE  m + 1 \in E
    <3> SUFFICES ASSUME (m + 1) + 1 \in 1..N PROVE IsCut(f[(m + 1) + 1], s, 5 - at[(m + 1) + 1])
      OBVIOUS
    <3>a. PICK k \in 1..N : k = (m + 1) + 1
      OBVIOUS
    <3>1. k > 1 /\ k # 1 /\ k - 1 \in 1..N /\ k - 1 = m + 1
      BY <3>a
    <3>2. IsCut(f[k - 1], s, 5 - at[k - 1])
      BY <2>4, <3>1
    <3>3. \A n \in DOMAIN s : s[n].severity >= (5 - at[k]) + 1 <=> s[n].severity >= 5 - at[k - 1]
      BY <1>2, <3>1, BandsBefore
    <3>4. IsCut(f[k - 1], s, (5 - at[k]) + 1)
      BY <3>2, <3>3 DEF IsCut
    <3>5. f[k - 1] \in Seq(T) /\ 5 - at[k] \in Int
      <4>1. at[k] \in 1..5
        OBVIOUS
      <4>2. f[k - 1] \in Seq(T)
        BY <2>2, <3>1
      <4> QED
        BY <4>1, <4>2
    <3>6. IsCut(f[k - 1] \o OfSeverity(s, 5 - at[k]), s, 5 - at[k])
      BY <3>4, <3>5, CutGrows
    <3>7. f[k] = f[k - 1] \o OfSeverity(s, 5 - at[k])
      BY <1>4, <2>2, <3>1 DEF Join
    <3> QED
      BY <3>a, <3>6, <3>7
  <2> HIDE DEF E
  <2>5. N - 1 \in E /\ (N - 1) + 1 = N /\ N \in 1..N
    BY <1>7, <2>3, <2>4, SetInduction
  <2>6. IsCut(f[N], s, 5 - at[N])
    BY <2>5 DEF E
  <2>7. \A n \in DOMAIN s : s[n].severity >= 5 - at[N]
    BY <1>2, BandsBefore
  <2>8. f[N] \in Seq(T)
    BY <2>2, <2>5
  <2>9. f[N] = s
    <3>1. Len(f[N]) \in 0..Len(s) /\ \A n \in DOMAIN s : n <= Len(f[N])
      BY <2>6, <2>7 DEF IsCut
    <3>2. Len(s) \in Nat /\ DOMAIN s = 1..Len(s)
      BY LenProperties
    <3>3. Len(f[N]) = Len(s)
      BY <3>1, <3>2
    <3>4. \A n \in 1..Len(s) : f[N][n] = s[n]
      BY <2>6, <3>3 DEF IsCut
    <3> QED
      BY <2>8, <3>3, <3>4, SeqEqual
  <2> QED
    BY <1>5, <2>1, <2>9
<1> QED
  BY <1>6, <1>7

\* The posture of a list is that of its worst severity.
LEMMA PostureIs ==
  ASSUME NEW T, Ranked(T), NEW s \in Seq(T), NEW w \in 0..4,
         \A n \in DOMAIN s : s[n].severity <= w, \E n \in DOMAIN s : s[n].severity = w
  PROVE  risk_posture(s) = <<"Informational", "Low", "Elevated", "High", "Critical">>[w + 1]
<1> DEFINE S == {s[n].severity : n \in DOMAIN s}
<1>1. s # <<>>
  <2> SUFFICES ASSUME s = <<>> PROVE FALSE
    OBVIOUS
  <2>1. DOMAIN s = 1..0
    BY LenProperties, EmptySeq
  <2> QED
    BY <2>1
<1>2. \A n \in DOMAIN s : s[n].severity \in Int
  <2>1. \A n \in DOMAIN s : s[n] \in T
    BY ElementOfSeq, LenProperties
  <2> QED
    BY <2>1 DEF Ranked
<1>3. w \in S /\ \A x \in S : x \in Int /\ x <= w
  BY <1>2
<1> HIDE DEF S
<1>4. Max(S) = w
  <2>1. \A x \in S : (\A y \in S : x >= y) => x = w
    BY <1>3
  <2>2. w \in S /\ \A y \in S : w >= y
    BY <1>3
  <2> QED
    BY <2>1, <2>2 DEF Max
<1> QED
  BY <1>1, <1>4, Zenon DEF risk_posture, S

\* It is that of the first band of the roadmap.
LEMMA PostureOfRoadmap ==
  ASSUME NEW T, Ranked(T), NEW s \in Seq(T), Descending(s), s # <<>>
  PROVE  risk_posture(s) = risk_posture(remediation_roadmap(s)[1].findings)
<1>a. PICK road : road = remediation_roadmap(s)
  OBVIOUS
<1>1. PICK N \in Nat : \E at \in [1..N -> 1..5] : RoadmapAt(s, road, N, at)
  BY <1>a, RoadmapBands
<1>2. PICK at \in [1..N -> 1..5] : RoadmapAt(s, road, N, at)
  BY <1>1
<1>3. 1 \in DOMAIN s
  <2>1. Len(s) \in Nat \ {0}
    BY EmptySeq
  <2> QED
    BY <2>1, LenProperties
<1>4. 1 \in 1..N
  <2>1. N > 0
    BY <1>2, <1>3, BandsBefore
  <2> QED
    BY <2>1
<1>5. \A n \in DOMAIN s : s[n] \in T /\ s[n].severity \in 0..4
  <2>1. \A n \in DOMAIN s : s[n] \in T
    BY ElementOfSeq, LenProperties
  <2> QED
    BY <2>1 DEF Ranked
<1>6. PICK w \in 0..4 : w = 5 - at[1]
  <2>1. at[1] \in 1..5
    BY <1>4
  <2> QED
    BY <2>1
<1>7. \A n \in DOMAIN s : s[n].severity <= w
  <2>1. \A n \in DOMAIN s : ~ (s[n].severity >= (5 - at[1]) + 1)
    BY <1>2, <1>4, BandsBefore
  <2>2. \A n \in DOMAIN s : ~ (s[n].severity >= w + 1)
    BY <1>6, <2>1
  <2> QED
    BY <1>5, <2>2
<1>8. \E n \in DOMAIN s : s[n].severity = w
  <2>1. at[1] \in 1..5
    BY <1>4
  <2>2. \E n \in DOMAIN s : s[n].severity = 5 - at[1]
    BY <1>2, <1>4, <2>1 DEF RoadmapAt
  <2> QED
    BY <1>6, <2>2
<1>9. PICK first : first = OfSeverity(s, w)
  OBVIOUS
<1>10. road[1].findings = first
  BY <1>2, <1>4, <1>6, <1>9 DEF RoadmapAt
<1>11. /\ first \in Seq(T)
       /\ \A n \in DOMAIN first : first[n].severity = w
       /\ \E n \in DOMAIN first : first[n].severity = w
  <2> DEFINE P == {n \in DOMAIN s : s[n].severity = w}
  <2>1. first = Kept(s, P)
    BY <1>9 DEF OfSeverity
  <2>2. P \in SUBSET DOMAIN s
    OBVIOUS
  <2>3. first \in Seq(T) /\ ToSet(first) = {s[n] : n \in P}
    <3> HIDE DEF P
    <3> QED
      BY <2>1, <2>2, KeptElements, KeptSet
  <2>4. ToSet(first) = {first[n] : n \in DOMAIN first}
    BY DEF ToSet
  <2>5. \A x \in ToSet(first) : x.severity = w
    BY <2>3
  <2>6. \E x \in ToSet(first) : x.severity = w
    BY <1>8, <2>3
  <2> QED
    BY <2>3, <2>4, <2>5, <2>6
<1>12. \A n \in DOMAIN first : first[n].severity <= w
  BY <1>11
<1>13. risk_posture(first) = <<"Informational", "Low", "Elevated", "High", "Critical">>[w + 1]
  BY <1>11, <1>12, PostureIs
<1>14. risk_posture(s) = <<"Informational", "Low", "Elevated", "High", "Critical">>[w + 1]
  BY <1>7, <1>8, PostureIs
<1> QED
  BY <1>a, <1>10, <1>13, <1>14

\* The severity table counts every finding once.
LEMMA CountsAddUp ==
  ASSUME NEW T, Ranked(T), NEW s \in Seq(T)
  PROVE  LET counts == severity_counts(s)
         IN  Total([n \in DOMAIN counts |-> counts[n].count]) = Len(s)
<1>1. /\ DOMAIN SEVERITY_ORDER = 1..5
      /\ \A n \in 1..5 : SEVERITY_ORDER[n] = 5 - n
  BY DEF SEVERITY_ORDER
<1> DEFINE f == [n \in 1..5 |-> Len(OfSeverity(s, 5 - n))]
           U == DOMAIN s
           g == [u \in U |-> 5 - s[u].severity]
<1>2. [n \in DOMAIN severity_counts(s) |-> severity_counts(s)[n].count] = f
  BY <1>1 DEF severity_counts
<1>3. U = 1..Len(s) /\ Len(s) \in Nat
  BY LenProperties
<1>4. \A u \in U : s[u].severity \in 0..4
  <2>1. \A n \in DOMAIN s : s[n] \in T
    BY ElementOfSeq, LenProperties
  <2> QED
    BY <2>1 DEF Ranked
<1>5. IsFiniteSet(U) /\ Cardinality(U) = Len(s)
  <2> HIDE DEF U
  <2>1. Len(s) \in Int /\ 1 \in Int /\ (1 <= Len(s) => (Len(s) - 1) + 1 = Len(s))
        /\ (~ (1 <= Len(s)) => Len(s) = 0)
    BY <1>3
  <2>2. IsFiniteSet(1..Len(s)) /\ Cardinality(1..Len(s)) = IF 1 > Len(s) THEN 0 ELSE Len(s) - 1 + 1
    BY <2>1, FS_Interval
  <2> QED
    BY <1>3, <2>1, <2>2
<1>6. g \in [U -> DOMAIN f]
  BY <1>4
<1>7. \A x \in DOMAIN f : f[x] = Cardinality({u \in U : g[u] = x})
  <2> SUFFICES ASSUME NEW x \in 1..5 PROVE f[x] = Cardinality({u \in U : g[u] = x})
    OBVIOUS
  <2>1. {u \in U : g[u] = x} = {u \in DOMAIN s : s[u].severity = 5 - x}
    BY <1>4
  <2>2. Len(OfSeverity(s, 5 - x)) = Cardinality({u \in DOMAIN s : s[u].severity = 5 - x})
    <3>1. {u \in DOMAIN s : s[u].severity = 5 - x} \in SUBSET DOMAIN s
      OBVIOUS
    <3> QED
      BY <3>1, KeptElements DEF OfSeverity
  <2> QED
    BY <2>1, <2>2
<1> HIDE DEF f, g, U
<1>8. Total(f) = Cardinality(U)
  BY <1>5, <1>6, <1>7, TotalOfClasses
<1> QED
  BY <1>2, <1>5, <1>8

\* Two filters that are each other's opposite keep every element once.
LEMMA PartsAddUp ==
  ASSUME NEW T, NEW s \in Seq(T), NEW P \in SUBSET DOMAIN s
  PROVE  Len(Kept(s, P)) + Len(Kept(s, (DOMAIN s) \ P)) = Len(s)
<1>1. DOMAIN s = 1..Len(s) /\ Len(s) \in Nat
  BY LenProperties
<1>2. IsFiniteSet(DOMAIN s) /\ Cardinality(DOMAIN s) = Len(s)
  <2>1. IsFiniteSet(1..Len(s)) /\ Cardinality(1..Len(s)) = IF 1 > Len(s) THEN 0 ELSE Len(s) - 1 + 1
    <3>1. Len(s) \in Int /\ 1 \in Int
      BY <1>1
    <3> QED
      BY <3>1, FS_Interval
  <2> QED
    BY <1>1, <2>1
<1>3. IsFiniteSet(P) /\ Cardinality(P) \in Nat
  BY <1>2, FS_Subset, FS_CardinalityType
<1>4. Cardinality((DOMAIN s) \ P) = Cardinality(DOMAIN s) - Cardinality((DOMAIN s) \cap P)
  BY <1>2, FS_Difference
<1>5. (DOMAIN s) \cap P = P
  OBVIOUS
<1>6. Len(Kept(s, P)) = Cardinality(P)
  BY KeptElements
<1>7. Len(Kept(s, (DOMAIN s) \ P)) = Cardinality((DOMAIN s) \ P)
  <2>1. (DOMAIN s) \ P \in SUBSET DOMAIN s
    OBVIOUS
  <2> QED
    BY <2>1, KeptElements
<1>8. Cardinality((DOMAIN s) \ P) = Len(s) - Cardinality(P)
  BY <1>2, <1>4, <1>5
<1>9. Cardinality(P) + (Len(s) - Cardinality(P)) = Len(s)
  BY <1>1, <1>3
<1> QED
  BY <1>6, <1>7, <1>8, <1>9

\* The sections of a report, whatever the list it is of.
LEMMA SectionsAddUp ==
  ASSUME NEW T, Ranked(T), NEW s \in Seq(T)
  PROVE  LET report  == ReportSections(s)
             roadmap == remediation_roadmap(report.findings)
             counts  == severity_counts(report.findings)
         IN  /\ FlattenSeq([n \in DOMAIN roadmap |-> roadmap[n].findings]) = report.findings
             /\ Len(report.machine) + Len(report.validated) = report.total
             /\ Total([n \in DOMAIN counts |-> counts[n].count]) = report.total
             /\ report.total > 0 =>
                  risk_posture(report.findings) = risk_posture(roadmap[1].findings)
<1> DEFINE report == ReportSections(s)
<1>a. PICK kept : kept = report_findings(s)
  OBVIOUS
<1> DEFINE moved == {n \in DOMAIN kept : kept[n].status \notin MACHINE_STATUSES}
           found == {n \in DOMAIN kept : kept[n].status \in MACHINE_STATUSES}
<1>1. /\ report.findings = kept
      /\ report.machine = Kept(kept, found)
      /\ report.validated = Kept(kept, moved)
      /\ report.total = Len(kept)
  BY <1>a DEF ReportSections
<1>2. kept \in Seq(T) /\ Descending(kept)
  BY <1>a, ReportOrder
<1>3. FlattenSeq([n \in DOMAIN remediation_roadmap(kept) |-> remediation_roadmap(kept)[n].findings]) = kept
  BY <1>2, RoadmapIsList
<1>4. Len(Kept(kept, found)) + Len(Kept(kept, moved)) = Len(kept)
  <2>1. moved = (DOMAIN kept) \ found /\ found \in SUBSET DOMAIN kept
    OBVIOUS
  <2> HIDE DEF moved, found
  <2> QED
    BY <1>2, <2>1, PartsAddUp
<1>5. Total([n \in DOMAIN severity_counts(kept) |-> severity_counts(kept)[n].count]) = Len(kept)
  BY <1>2, CountsAddUp
<1>6. Len(kept) > 0 => risk_posture(kept) = risk_posture(remediation_roadmap(kept)[1].findings)
  <2>1. Len(kept) > 0 => kept # <<>>
    BY EmptySeq
  <2> QED
    BY <1>2, <2>1, PostureOfRoadmap
<1> HIDE DEF report, moved, found
<1> QED
  BY <1>1, <1>3, <1>4, <1>5, <1>6 DEF report

-----------------------------------------------------------------------------
(***************************************************************************)
(* The findings drafts collapse onto.                                      *)
(***************************************************************************)

\* A finding of one of the drafts D.
FindingOf(D) ==
  [key : {dedup_key(d) : d \in D}, label : Nat, severity : 0..4, status : {"new"},
   in_report : {TRUE}, techniques : {d.rule.techniques : d \in D}]

Rated(D) == \A d \in D : d.rule.severity \in 0..4

HasKey(findings, k) == \E m \in DOMAIN findings : findings[m].key = k

\* Draft i is the first of the finding's issue.
ComesFrom(f, drafts, i) ==
  /\ f.key = dedup_key(drafts[i])
  /\ f.techniques = drafts[i].rule.techniques
  /\ \A j \in 1..(i - 1) : f.key # dedup_key(drafts[j])

\* The finding is as severe as the worst draft of its issue.
WorstOf(f, drafts, n) ==
  /\ \E i \in 1..n : f.key = dedup_key(drafts[i]) /\ f.severity = drafts[i].rule.severity
  /\ \A i \in 1..n : f.key = dedup_key(drafts[i]) => f.severity >= drafts[i].rule.severity

\* What the findings say of the first n drafts: there is one for every issue,
\* of the first draft of it and as severe as the worst.
Collapsed(findings, drafts, n) ==
  /\ \A j, m \in DOMAIN findings : findings[j].key = findings[m].key => j = m
  /\ \A i \in 1..n : HasKey(findings, dedup_key(drafts[i]))
  /\ \A m \in DOMAIN findings :
       /\ \E i \in 1..n : ComesFrom(findings[m], drafts, i)
       /\ WorstOf(findings[m], drafts, n)

\* The greater of two severities, as _collapse computes it.
LEMMA MaxOfTwo ==
  ASSUME NEW x \in Int, NEW y \in Int
  PROVE  Max({x, y}) = IF x >= y THEN x ELSE y
<1>1. \A m \in {x, y} : (\A z \in {x, y} : m >= z) => m = IF x >= y THEN x ELSE y
  OBVIOUS
<1>2. (IF x >= y THEN x ELSE y) \in {x, y} /\ \A z \in {x, y} : (IF x >= y THEN x ELSE y) >= z
  OBVIOUS
<1> QED
  BY <1>1, <1>2 DEF Max

\* What a repeat changes.
LEMMA RepeatRaises ==
  ASSUME NEW D, Rated(D), NEW findings \in Seq(FindingOf(D)), NEW d \in D,
         HasKey(findings, dedup_key(d))
  PROVE  /\ collapse(findings, d) \in Seq(FindingOf(D))
         /\ DOMAIN collapse(findings, d) = DOMAIN findings
         /\ \A m \in DOMAIN findings :
              /\ collapse(findings, d)[m].key = findings[m].key
              /\ collapse(findings, d)[m].techniques = findings[m].techniques
              /\ collapse(findings, d)[m].severity
                   = IF findings[m].key = dedup_key(d) /\ findings[m].severity < d.rule.severity
                     THEN d.rule.severity ELSE findings[m].severity
<1> DEFINE T == FindingOf(D)
           Raised(m) == [findings[m] EXCEPT !.severity = Max({@, d.rule.severity})]
           N == Len(findings)
<1>1. N \in Nat /\ DOMAIN findings = 1..N /\ \A m \in 1..N : findings[m] \in T
  <2>1. N \in Nat /\ DOMAIN findings = 1..N
    BY LenProperties
  <2>2. \A m \in 1..N : findings[m] \in FindingOf(D)
    BY ElementOfSeq
  <2> QED
    BY <2>1, <2>2
<1>2. ASSUME NEW m \in 1..N
      PROVE  /\ Raised(m) \in T
             /\ Raised(m).key = findings[m].key
             /\ Raised(m).techniques = findings[m].techniques
             /\ Raised(m).severity
                  = IF findings[m].severity < d.rule.severity
                    THEN d.rule.severity ELSE findings[m].severity
  <2>1. findings[m] \in T /\ findings[m].severity \in 0..4 /\ d.rule.severity \in 0..4
    BY <1>1 DEF FindingOf, Rated
  <2>2. Max({findings[m].severity, d.rule.severity})
          = IF findings[m].severity >= d.rule.severity THEN findings[m].severity ELSE d.rule.severity
    BY <2>1, MaxOfTwo
  <2>a. PICK w \in 0..4 : w = Max({findings[m].severity, d.rule.severity})
    BY <2>1, <2>2
  <2>3. Raised(m) = [findings[m] EXCEPT !.severity = w]
    BY <2>a
  <2>4. w = IF findings[m].severity < d.rule.severity THEN d.rule.severity ELSE findings[m].severity
    BY <2>a, <2>1, <2>2
  <2> QED
    BY <2>1, <2>3, <2>4 DEF FindingOf
<1>3. \E f \in ToSet(findings) : f.key = dedup_key(d)
  BY DEF HasKey, ToSet
<1> HIDE DEF N
<1>4. collapse(findings, d)
        = [m \in 1..N |-> IF findings[m].key = dedup_key(d) THEN Raised(m) ELSE findings[m]]
  BY <1>1, <1>3 DEF collapse
<1> HIDE DEF T, Raised
<1>5. collapse(findings, d) \in [1..N -> T]
  BY <1>1, <1>2, <1>4
<1>6. collapse(findings, d) \in Seq(T)
  BY <1>1, <1>5, IsASeq
<1>7. \A m \in 1..N : collapse(findings, d)[m] = IF findings[m].key = dedup_key(d) THEN Raised(m) ELSE findings[m]
  BY <1>4
<1> QED
  BY <1>1, <1>2, <1>5, <1>6, <1>7 DEF T

\* A draft of a new issue is a new finding.
LEMMA NewIssueAppends ==
  ASSUME NEW D, Rated(D), NEW findings \in Seq(FindingOf(D)), NEW d \in D,
         ~ HasKey(findings, dedup_key(d))
  PROVE  /\ collapse(findings, d) \in Seq(FindingOf(D))
         /\ DOMAIN findings = 1..Len(findings)
         /\ DOMAIN collapse(findings, d) = 1..(Len(findings) + 1)
         /\ \A m \in DOMAIN findings : collapse(findings, d)[m] = findings[m]
         /\ collapse(findings, d)[Len(findings) + 1].key = dedup_key(d)
         /\ collapse(findings, d)[Len(findings) + 1].techniques = d.rule.techniques
         /\ collapse(findings, d)[Len(findings) + 1].severity = d.rule.severity
<1> DEFINE T == FindingOf(D)
<1>a. PICK new : new = [key |-> dedup_key(d), label |-> Len(findings) + 1, severity |-> d.rule.severity,
                        status |-> "new", in_report |-> TRUE, techniques |-> d.rule.techniques]
  OBVIOUS
<1>1. ~ \E f \in ToSet(findings) : f.key = dedup_key(d)
  BY DEF HasKey, ToSet
<1>2. collapse(findings, d) = Append(findings, new)
  BY <1>a, <1>1 DEF collapse
<1>3. Len(findings) \in Nat /\ DOMAIN findings = 1..Len(findings)
  BY LenProperties
<1>4. new \in T
  BY <1>a, <1>3 DEF FindingOf, Rated
<1> HIDE DEF T
<1>5. /\ Append(findings, new) \in Seq(T)
      /\ Len(Append(findings, new)) = Len(findings) + 1
      /\ \A m \in 1..Len(findings) : Append(findings, new)[m] = findings[m]
      /\ Append(findings, new)[Len(findings) + 1] = new
  BY <1>4, AppendProperties DEF T
<1>6. DOMAIN Append(findings, new) = 1..(Len(findings) + 1)
  BY <1>5, LenProperties
<1> QED
  BY <1>a, <1>2, <1>3, <1>5, <1>6 DEF T

\* One draft more.
LEMMA CollapsedGrows ==
  ASSUME NEW D, Rated(D), NEW drafts \in Seq(D), NEW n \in 1..Len(drafts),
         NEW findings \in Seq(FindingOf(D)), Collapsed(findings, drafts, n - 1)
  PROVE  /\ collapse(findings, drafts[n]) \in Seq(FindingOf(D))
         /\ Collapsed(collapse(findings, drafts[n]), drafts, n)
<1>a. PICK d \in D : d = drafts[n]
  BY ElementOfSeq
<1>b. PICK after : after = collapse(findings, d)
  OBVIOUS
<1>c. PICK m \in Nat : m = n - 1 /\ n = m + 1
  BY LenProperties
<1>1. /\ \A i \in 1..n : i \in 1..m \/ i = n
      /\ \A i \in 1..m : i \in 1..n /\ i < n
  BY <1>c
<1>2. /\ \A j, k \in DOMAIN findings : findings[j].key = findings[k].key => j = k
      /\ \A i \in 1..m : HasKey(findings, dedup_key(drafts[i]))
      /\ \A k \in DOMAIN findings : /\ \E i \in 1..m : ComesFrom(findings[k], drafts, i)
                                  /\ WorstOf(findings[k], drafts, m)
  BY <1>c DEF Collapsed
<1>3. \A k \in DOMAIN findings : findings[k].severity \in 0..4
  <2>1. \A k \in DOMAIN findings : findings[k] \in FindingOf(D)
    BY LenProperties, ElementOfSeq
  <2> QED
    BY <2>1 DEF FindingOf
<1>4. \A i \in 1..n : drafts[i].rule.severity \in 0..4
  <2>1. \A i \in 1..Len(drafts) : drafts[i] \in D
    BY ElementOfSeq
  <2>2. \A i \in 1..n : i \in 1..Len(drafts)
    BY LenProperties
  <2> QED
    BY <2>1, <2>2 DEF Rated
<1>5. CASE HasKey(findings, dedup_key(d))
  <2>1. /\ after \in Seq(FindingOf(D))
        /\ DOMAIN after = DOMAIN findings
        /\ \A k \in DOMAIN findings :
             /\ after[k].key = findings[k].key
             /\ after[k].techniques = findings[k].techniques
             /\ after[k].severity
                  = IF findings[k].key = dedup_key(d) /\ findings[k].severity < d.rule.severity
                    THEN d.rule.severity ELSE findings[k].severity
    BY <1>b, <1>5, RepeatRaises
  <2>2. \A j, k \in DOMAIN after : after[j].key = after[k].key => j = k
    BY <1>2, <2>1
  <2>3. \A i \in 1..n : HasKey(after, dedup_key(drafts[i]))
    <3>1. \A k : HasKey(findings, k) => HasKey(after, k)
      BY <2>1 DEF HasKey
    <3>2. \A i \in 1..n : HasKey(findings, dedup_key(drafts[i]))
      BY <1>a, <1>1, <1>2, <1>5
    <3> QED
      BY <3>1, <3>2
  <2>4. ASSUME NEW k \in DOMAIN after
        PROVE  \E i \in 1..n : ComesFrom(after[k], drafts, i)
    <3>1. PICK i \in 1..m : ComesFrom(findings[k], drafts, i)
      BY <1>2, <2>1
    <3>2. ComesFrom(after[k], drafts, i)
      BY <2>1, <3>1 DEF ComesFrom
    <3> QED
      BY <1>1, <3>2
  <2>5. ASSUME NEW k \in DOMAIN after
        PROVE  \E i \in 1..n : /\ after[k].key = dedup_key(drafts[i])
                               /\ after[k].severity = drafts[i].rule.severity
    <3>1. CASE findings[k].key = dedup_key(d) /\ findings[k].severity < d.rule.severity
      BY <1>a, <2>1, <3>1
    <3>2. CASE ~ (findings[k].key = dedup_key(d) /\ findings[k].severity < d.rule.severity)
      <4>1. PICK i \in 1..m : /\ findings[k].key = dedup_key(drafts[i])
                              /\ findings[k].severity = drafts[i].rule.severity
        BY <1>2, <2>1 DEF WorstOf
      <4>2. i \in 1..n
        BY <1>1
      <4> QED
        BY <2>1, <3>2, <4>1, <4>2
    <3> QED
      BY <3>1, <3>2
  <2>6. ASSUME NEW k \in DOMAIN after, NEW i \in 1..n, after[k].key = dedup_key(drafts[i])
        PROVE  after[k].severity >= drafts[i].rule.severity
    <3>1. findings[k].severity \in 0..4 /\ d.rule.severity \in 0..4 /\ drafts[i].rule.severity \in 0..4
      BY <1>a, <1>3, <1>4, <2>1
    <3>2. CASE i \in 1..m
      <4>1. findings[k].severity >= drafts[i].rule.severity
        BY <1>2, <2>1, <2>6, <3>2 DEF WorstOf
      <4>2. after[k].severity >= findings[k].severity
        BY <2>1, <3>1
      <4>3. after[k].severity \in 0..4
        BY <2>1, <3>1
      <4>4. \A x, y, z \in 0..4 : x >= y /\ y >= z => x >= z
        OBVIOUS
      <4> QED
        BY <3>1, <4>1, <4>2, <4>3, <4>4
    <3>3. CASE i = n
      <4>1. drafts[i] = d
        BY <1>a, <3>3
      <4>2. findings[k].key = dedup_key(d)
        BY <2>1, <2>6, <4>1
      <4>3. after[k].severity = IF findings[k].severity < d.rule.severity
                                THEN d.rule.severity ELSE findings[k].severity
        BY <2>1, <4>2
      <4> QED
        BY <3>1, <4>1, <4>3
    <3> QED
      BY <1>1, <3>2, <3>3
  <2>7. \A k \in DOMAIN after : WorstOf(after[k], drafts, n)
    BY <2>5, <2>6 DEF WorstOf
  <2>8. Collapsed(after, drafts, n)
    BY <2>2, <2>3, <2>4, <2>7 DEF Collapsed
  <2> QED
    BY <1>a, <1>b, <2>1, <2>8
<1>6. CASE ~ HasKey(findings, dedup_key(d))
  <2>a. PICK L \in Nat : L = Len(findings)
    BY LenProperties
  <2>1. /\ after \in Seq(FindingOf(D))
        /\ DOMAIN findings = 1..L
        /\ DOMAIN after = 1..(L + 1)
        /\ \A k \in DOMAIN findings : after[k] = findings[k]
        /\ after[L + 1].key = dedup_key(d)
        /\ after[L + 1].techniques = d.rule.techniques
        /\ after[L + 1].severity = d.rule.severity
    BY <1>b, <1>6, <2>a, NewIssueAppends
  <2>2. \A k \in DOMAIN after : k \in DOMAIN findings \/ k = L + 1
    BY <2>1
  <2>3. \A k \in DOMAIN findings : findings[k].key # dedup_key(d)
    BY <1>6 DEF HasKey
  <2>4. L + 1 \in DOMAIN after /\ \A k \in DOMAIN findings : k \in DOMAIN after
    BY <2>1
  <2>5. \A j, k \in DOMAIN after : after[j].key = after[k].key => j = k
    BY <1>2, <2>1, <2>2, <2>3
  <2>6. \A i \in 1..n : HasKey(after, dedup_key(drafts[i]))
    <3>1. \A i \in 1..m : HasKey(after, dedup_key(drafts[i]))
      <4>1. \A k : HasKey(findings, k) => HasKey(after, k)
        BY <2>1, <2>4 DEF HasKey
      <4> QED
        BY <1>2, <4>1
    <3>2. HasKey(after, dedup_key(drafts[n]))
      BY <1>a, <2>1, <2>4 DEF HasKey
    <3> QED
      BY <1>1, <3>1, <3>2
  <2>7. \A i \in 1..m : dedup_key(drafts[i]) # dedup_key(d)
    BY <1>2, <2>3 DEF HasKey
  <2>8. ASSUME NEW k \in DOMAIN findings
        PROVE  (\E i \in 1..n : ComesFrom(after[k], drafts, i)) /\ WorstOf(after[k], drafts, n)
    <3>1. after[k] = findings[k]
      BY <2>1
    <3>2. \E i \in 1..n : ComesFrom(findings[k], drafts, i)
      BY <1>1, <1>2
    <3>3. WorstOf(findings[k], drafts, m)
      BY <1>2
    <3>4. findings[k].key # dedup_key(drafts[n])
      BY <1>a, <2>3
    <3>5. WorstOf(findings[k], drafts, n)
      <4>1. \A i \in 1..n : findings[k].key = dedup_key(drafts[i]) => i \in 1..m
        BY <1>1, <3>4
      <4> QED
        BY <1>1, <3>3, <4>1 DEF WorstOf
    <3> QED
      BY <3>1, <3>2, <3>5
  <2>9. (\E i \in 1..n : ComesFrom(after[L + 1], drafts, i)) /\ WorstOf(after[L + 1], drafts, n)
    <3>a. PICK new : new = after[L + 1]
      OBVIOUS
    <3>1. n \in 1..n
      BY <1>c
    <3>2. /\ new.key = dedup_key(drafts[n])
          /\ new.severity = drafts[n].rule.severity
          /\ new.techniques = drafts[n].rule.techniques
      BY <1>a, <2>1, <3>a
    <3>3. \A i \in 1..m : new.key # dedup_key(drafts[i])
      BY <1>a, <2>7, <3>2
    <3>4. ComesFrom(new, drafts, n)
      BY <1>c, <3>2, <3>3 DEF ComesFrom
    <3>5. \A i \in 1..n : new.key = dedup_key(drafts[i]) => i = n
      BY <1>1, <3>3
    <3>6. new.severity >= drafts[n].rule.severity
      BY <1>4, <3>1, <3>2
    <3>7. WorstOf(new, drafts, n)
      BY <3>1, <3>2, <3>5, <3>6 DEF WorstOf
    <3> QED
      BY <3>a, <3>1, <3>4, <3>7
  <2>10. \A k \in DOMAIN after :
           (\E i \in 1..n : ComesFrom(after[k], drafts, i)) /\ WorstOf(after[k], drafts, n)
    BY <2>2, <2>8, <2>9
  <2>11. Collapsed(after, drafts, n)
    BY <2>5, <2>6, <2>10 DEF Collapsed
  <2> QED
    BY <1>a, <1>b, <2>1, <2>11
<1> QED
  BY <1>5, <1>6

\* The collapse of drafts, one by one, exists.
Folds(f, drafts, n) ==
  f = [i \in 0..n |-> IF i = 0 THEN <<>> ELSE collapse(f[i - 1], drafts[i])]

\* The loop that collapses drafts is defined for any number of them.
LEMMA FoldsExist ==
  ASSUME NEW drafts, NEW N \in Nat
  PROVE  \E f : Folds(f, drafts, N)
<1> DEFINE E == {n \in Nat : \E f : Folds(f, drafts, n)}
<1>1. 0 \in E
  <2> DEFINE f == [i \in 0..0 |-> <<>>]
  <2>1. Folds(f, drafts, 0)
    BY DEF Folds
  <2> QED
    BY <2>1
<1>2. ASSUME NEW n \in Nat, n \in E
      PROVE  n + 1 \in E
  <2>1. PICK f : Folds(f, drafts, n)
    BY <1>2
  <2>a. PICK g : g = [i \in 0..(n + 1) |-> IF i = n + 1 THEN collapse(f[n], drafts[n + 1]) ELSE f[i]]
    OBVIOUS
  <2>2. \A i \in 0..n : g[i] = f[i]
    BY <2>a
  <2>3. g[n + 1] = collapse(f[n], drafts[n + 1])
    BY <2>a
  <2>4. \A i \in 0..n : f[i] = IF i = 0 THEN <<>> ELSE collapse(f[i - 1], drafts[i])
    BY <2>1 DEF Folds
  <2>5. ASSUME NEW i \in 0..(n + 1)
        PROVE  g[i] = IF i = 0 THEN <<>> ELSE collapse(g[i - 1], drafts[i])
    <3>1. CASE i = n + 1
      <4>1. i # 0 /\ i - 1 = n /\ g[n] = f[n]
        BY <2>2, <3>1
      <4> QED
        BY <2>3, <3>1, <4>1
    <3>2. CASE i # n + 1
      <4>1. i \in 0..n /\ (i # 0 => i - 1 \in 0..n)
        BY <3>2
      <4>2. g[i] = f[i] /\ (i # 0 => g[i - 1] = f[i - 1])
        BY <2>2, <4>1
      <4> QED
        BY <2>4, <4>1, <4>2
    <3> QED
      BY <3>1, <3>2
  <2>6. DOMAIN g = 0..(n + 1) /\ g = [i \in 0..(n + 1) |-> g[i]]
    BY <2>a
  <2>7. Folds(g, drafts, n + 1)
    BY <2>5, <2>6 DEF Folds
  <2> QED
    BY <2>7
<1> HIDE DEF E
<1>3. N \in E
  BY <1>1, <1>2, SetInduction
<1> QED
  BY <1>3 DEF E

\* After its last draft, the loop has collapsed all of them.
LEMMA FoldsCollapse ==
  ASSUME NEW D, Rated(D), NEW drafts \in Seq(D), NEW f, Folds(f, drafts, Len(drafts))
  PROVE  /\ f[Len(drafts)] \in Seq(FindingOf(D))
         /\ Collapsed(f[Len(drafts)], drafts, Len(drafts))
<1>a. PICK N \in Nat : N = Len(drafts)
  BY LenProperties
<1>1. f[0] = <<>> /\ \A i \in 1..N : f[i] = collapse(f[i - 1], drafts[i])
  <2>1. \A i \in 0..N : f[i] = IF i = 0 THEN <<>> ELSE collapse(f[i - 1], drafts[i])
    BY <1>a DEF Folds
  <2> QED
    BY <2>1
<1> DEFINE E == {n \in Nat : n <= N => f[n] \in Seq(FindingOf(D)) /\ Collapsed(f[n], drafts, n)}
<1>2. 0 \in E
  <2>1. <<>> \in Seq(FindingOf(D)) /\ DOMAIN <<>> = 1..0
    BY EmptySeq, LenProperties
  <2>2. Collapsed(<<>>, drafts, 0)
    BY <2>1 DEF Collapsed
  <2> QED
    BY <1>1, <2>1, <2>2
<1>3. ASSUME NEW n \in Nat, n \in E
      PROVE  n + 1 \in E
  <2> SUFFICES ASSUME n + 1 <= N
               PROVE  f[n + 1] \in Seq(FindingOf(D)) /\ Collapsed(f[n + 1], drafts, n + 1)
    OBVIOUS
  <2>a. PICK k \in 1..Len(drafts) : k = n + 1 /\ k - 1 = n
    BY <1>a
  <2>1. f[k - 1] \in Seq(FindingOf(D)) /\ Collapsed(f[k - 1], drafts, k - 1)
    BY <1>3, <2>a
  <2>2. /\ collapse(f[k - 1], drafts[k]) \in Seq(FindingOf(D))
        /\ Collapsed(collapse(f[k - 1], drafts[k]), drafts, k)
    BY <2>1, CollapsedGrows
  <2>3. f[k] = collapse(f[k - 1], drafts[k])
    BY <1>a, <1>1
  <2> QED
    BY <2>a, <2>2, <2>3
<1> HIDE DEF E
<1>4. N \in E
  BY <1>2, <1>3, SetInduction
<1> QED
  BY <1>a, <1>4 DEF E

\* The drafts of an engagement, in the order they are collapsed.
Scanned(order, r) == FlattenSeq([n \in DOMAIN order |-> parse_output(order[n], r)]) \o PluginDrafts

\* The findings of a scan are its drafts, collapsed.
LEMMA FindingsCollapse ==
  ASSUME NEW D, Rated(D), NEW order, NEW r, Scanned(order, r) \in Seq(D)
  PROVE  /\ FindingsOf(order, r) \in Seq(FindingOf(D))
         /\ Collapsed(FindingsOf(order, r), Scanned(order, r), Len(Scanned(order, r)))
<1>a. PICK drafts \in Seq(D) : drafts = Scanned(order, r)
  OBVIOUS
<1>b. PICK N \in Nat : N = Len(drafts)
  BY LenProperties
<1> DEFINE Step(f) == [n \in 0..N |-> IF n = 0 THEN <<>> ELSE collapse(f[n - 1], drafts[n])]
<1>1. PICK e : e = Step(e)
  BY FoldsExist DEF Folds
<1>2. PICK f : f = CHOOSE h : h = Step(h)
  OBVIOUS
<1>3. f = Step(f)
  <2> HIDE DEF Step
  <2> QED
    BY <1>1, <1>2
<1>4. FindingsOf(order, r) = f[N]
  BY <1>a, <1>b, <1>2 DEF FindingsOf, Scanned
<1>5. Folds(f, drafts, N)
  BY <1>3 DEF Folds
<1>6. f[N] \in Seq(FindingOf(D)) /\ Collapsed(f[N], drafts, N)
  BY <1>b, <1>5, FoldsCollapse
<1> QED
  BY <1>a, <1>b, <1>4, <1>6

\* What the shipped adapters report of a response, and with them the plugin.
ShippedDrafts(r) == UNION {Drafts(a, r) : a \in AdapterNames}

AllDrafts(r) == ShippedDrafts(r) \cup ToSet(PluginDrafts)

\* Every adapter scans once.
AnOrder(order) ==
  /\ order \in [1..5 -> AdapterNames]
  /\ \A a \in AdapterNames : \E i \in 1..5 : order[i] = a

\* The shipped order of the adapters, and its reverse, run each adapter.
LEMMA ShippedIsAnOrder == AnOrder(Shipped) /\ AnOrder(Reverse(Shipped))
<1>1. Shipped \in [1..5 -> AdapterNames]
  BY DEF Shipped, AdapterNames
<1>2. Len(Shipped) = 5
  BY DEF Shipped
<1>3. \A a \in AdapterNames : \E i \in 1..5 : Shipped[i] = a
  <2>1. /\ Shipped[1] = "security_headers" /\ Shipped[2] = "tls" /\ Shipped[3] = "cookie_flags"
        /\ Shipped[4] = "cors" /\ Shipped[5] = "wellknown"
    BY DEF Shipped
  <2>2. 1 \in 1..5 /\ 2 \in 1..5 /\ 3 \in 1..5 /\ 4 \in 1..5 /\ 5 \in 1..5
    OBVIOUS
  <2> QED
    BY <2>1, <2>2 DEF AdapterNames
<1>4. Reverse(Shipped) = [i \in 1..5 |-> Shipped[(5 - i) + 1]]
  BY <1>2 DEF Reverse
<1>5. \A i \in 1..5 : (5 - i) + 1 \in 1..5 /\ (5 - ((5 - i) + 1)) + 1 = i
  OBVIOUS
<1>6. Reverse(Shipped) \in [1..5 -> AdapterNames]
  BY <1>1, <1>4, <1>5
<1>7. ASSUME NEW a \in AdapterNames PROVE \E i \in 1..5 : Reverse(Shipped)[i] = a
  <2>1. PICK i \in 1..5 : Shipped[i] = a
    BY <1>3
  <2>a. PICK j \in 1..5 : j = (5 - i) + 1 /\ (5 - j) + 1 = i
    BY <1>5
  <2>2. Reverse(Shipped)[j] = a
    BY <1>4, <2>1, <2>a
  <2> QED
    BY <2>2
<1> QED
  BY <1>1, <1>3, <1>6, <1>7 DEF AnOrder

\* What an adapter reports is a list of its drafts.
LEMMA ParsedList ==
  ASSUME NEW a \in AdapterNames, NEW r \in Response
  PROVE  parse_output(a, r) \in Seq(Drafts(a, r))
<1>a. PICK s : s = parse_output(a, r)
  OBVIOUS
<1>1. PICK N \in Nat : DOMAIN s = 1..N
  BY <1>a, ParsedDrafts
<1>2. ToSet(s) = Drafts(a, r)
  BY <1>a, ParsedDrafts
<1>3. s = [k \in DOMAIN s |-> s[k]]
  <2>1. CASE a = "cookie_flags"
    BY <1>a, <2>1, ParsesCookies DEF parse_cookies
  <2>2. CASE a # "cookie_flags"
    BY <1>a, <2>2, ParsesByRules DEF Emit
  <2> QED
    BY <2>1, <2>2
<1>4. \A k \in 1..N : s[k] \in Drafts(a, r)
  BY <1>1, <1>2 DEF ToSet
<1>5. s \in [1..N -> Drafts(a, r)]
  BY <1>1, <1>3, <1>4
<1>6. s \in Seq(Drafts(a, r))
  BY <1>5, IsASeq
<1> QED
  BY <1>a, <1>6

\* The drafts of a plugin are a sequence of drafts.
LEMMA PluginList ==
  /\ PluginDrafts \in Seq(ToSet(PluginDrafts))
  /\ \A d \in ToSet(PluginDrafts) : d \in FindingDraft
<1>a. PICK N \in Nat : N = Len(PluginDrafts)
  BY PluginAssumption, LenProperties
<1>1. DOMAIN PluginDrafts = 1..N /\ PluginDrafts \in [1..N -> FindingDraft]
  BY <1>a, PluginAssumption, LenProperties
<1>2. PluginDrafts \in [1..N -> ToSet(PluginDrafts)]
  BY <1>1 DEF ToSet
<1>3. PluginDrafts \in Seq(ToSet(PluginDrafts))
  BY <1>2, IsASeq
<1> QED
  BY <1>1, <1>3 DEF ToSet

\* In whichever order they scan, the same drafts, and the plugin's after them.
LEMMA ScannedDrafts ==
  ASSUME NEW r \in Response, NEW order, AnOrder(order)
  PROVE  /\ \E shipped \in Seq(ShippedDrafts(r)) :
              /\ Scanned(order, r) = shipped \o PluginDrafts
              /\ ToSet(shipped) = ShippedDrafts(r)
         /\ Scanned(order, r) \in Seq(AllDrafts(r))
<1> DEFINE D == ShippedDrafts(r)
           lists == [n \in 1..5 |-> parse_output(order[n], r)]
<1>a. PICK five \in Nat : five = 5
  OBVIOUS
<1>1. order \in [1..five -> AdapterNames] /\ \A a \in AdapterNames : \E i \in 1..five : order[i] = a
  BY <1>a DEF AnOrder
<1>2. ASSUME NEW a \in AdapterNames
      PROVE  parse_output(a, r) \in Seq(D) /\ ToSet(parse_output(a, r)) = Drafts(a, r)
  <2>1. parse_output(a, r) \in Seq(Drafts(a, r))
    BY ParsedList
  <2>2. \A d \in Drafts(a, r) : d \in D
    BY DEF ShippedDrafts
  <2> HIDE DEF D
  <2>3. parse_output(a, r) \in Seq(D)
    BY <2>1, <2>2
  <2> QED
    BY <2>3, ParsedDrafts
<1>3. lists \in [1..five -> Seq(D)] /\ \A i \in 1..five : ToSet(lists[i]) = Drafts(order[i], r)
  BY <1>a, <1>1, <1>2
<1>4. Scanned(order, r) = FlattenSeq(lists) \o PluginDrafts
  BY <1>a, <1>1 DEF Scanned
<1> HIDE DEF D, lists
<1>b. five # 0
  BY <1>a
<1>5. /\ FlattenSeq(lists) \in Seq(D)
      /\ ToSet(FlattenSeq(lists)) = UNION {ToSet(lists[i]) : i \in 1..five}
  BY <1>b, <1>3, FlattenElements
<1>6. UNION {ToSet(lists[i]) : i \in 1..five} = D
  <2>1. \A x : x \in D <=> \E a \in AdapterNames : x \in Drafts(a, r)
    BY DEF D, ShippedDrafts
  <2>2. \A x : x \in UNION {ToSet(lists[i]) : i \in 1..five} <=> \E i \in 1..five : x \in Drafts(order[i], r)
    BY <1>3
  <2>3. \A x : (\E a \in AdapterNames : x \in Drafts(a, r)) <=> \E i \in 1..five : x \in Drafts(order[i], r)
    BY <1>1
  <2> QED
    BY <2>1, <2>2, <2>3
<1>7. Scanned(order, r) \in Seq(AllDrafts(r))
  <2>1. FlattenSeq(lists) \in Seq(AllDrafts(r))
    <3>1. \A d \in D : d \in AllDrafts(r)
      BY DEF D, AllDrafts
    <3> QED
      BY <1>5, <3>1
  <2>2. PluginDrafts \in Seq(AllDrafts(r))
    <3>1. \A d \in ToSet(PluginDrafts) : d \in AllDrafts(r)
      BY DEF AllDrafts
    <3> QED
      BY PluginList, <3>1
  <2> QED
    BY <1>4, <2>1, <2>2, ConcatProperties
<1> QED
  BY <1>4, <1>5, <1>6, <1>7 DEF D

\* Every draft of a response is rated.
LEMMA AllRated ==
  ASSUME NEW r \in Response
  PROVE  Rated(AllDrafts(r))
<1>1. ASSUME NEW a \in AdapterNames, NEW d \in Drafts(a, r) PROVE d.rule.severity \in 0..4
  <2>1. d.rule.severity \in 1..HIGH
    BY CheckNamesRule
  <2> QED
    BY <2>1 DEF HIGH
<1>2. ASSUME NEW d \in ToSet(PluginDrafts) PROVE d.rule.severity \in 0..4
  BY PluginList DEF FindingDraft, FindingRule
<1> QED
  BY <1>1, <1>2 DEF Rated, AllDrafts, ShippedDrafts

\* The findings of a response are its drafts, collapsed, in any order of the adapters.
LEMMA FindingsOfResponse ==
  ASSUME NEW r \in Response, NEW order, AnOrder(order)
  PROVE  /\ FindingsOf(order, r) \in Seq(FindingOf(AllDrafts(r)))
         /\ Collapsed(FindingsOf(order, r), Scanned(order, r), Len(Scanned(order, r)))
<1>1. Rated(AllDrafts(r)) /\ Scanned(order, r) \in Seq(AllDrafts(r))
  BY AllRated, ScannedDrafts
<1> QED
  BY <1>1, FindingsCollapse

\* Whatever a target answers and whatever a plugin reports of it: the sections
\* of its report are of the same findings (build_report_context, report.py).
THEOREM SectionsAgree == Spec => []ReportAddsUp
<1>1. response \in Response => ReportAddsUp
  <2> SUFFICES ASSUME response \in Response PROVE ReportAddsUp
    OBVIOUS
  <2>1. FindingsOf(Shipped, response) \in Seq(FindingOf(AllDrafts(response)))
    BY ShippedIsAnOrder, FindingsOfResponse
  <2>2. Ranked(FindingOf(AllDrafts(response)))
    BY DEF Ranked, FindingOf
  <2> QED
    BY <2>1, <2>2, SectionsAddUp DEF ReportAddsUp
<1> QED
  BY <1>1, RespondsTyped, PTL

-----------------------------------------------------------------------------
(***************************************************************************)
(* The coverage of a report, of any list of findings.                      *)
(***************************************************************************)

Tactics == Append(TACTIC_ORDER, UNMAPPED_TACTIC)

\* The tactics the coverage table goes through, and their order.
LEMMA TacticsAre ==
  /\ Tactics \in [1..5 -> {Tactics[n] : n \in 1..5}]
  /\ Tactics[1] = "Reconnaissance" /\ Tactics[2] = "Initial-Access"
  /\ Tactics[3] = "Credential-Access" /\ Tactics[4] = "Collection" /\ Tactics[5] = "Unmapped"
<1> DEFINE S == {"Reconnaissance", "Initial-Access", "Credential-Access", "Collection", "Unmapped"}
<1>1. TACTIC_ORDER \in Seq(S) /\ Len(TACTIC_ORDER) = 4 /\ "Unmapped" \in S
  BY DEF TACTIC_ORDER
<1> HIDE DEF S
<1>2. Tactics = Append(TACTIC_ORDER, "Unmapped")
  BY DEF Tactics, UNMAPPED_TACTIC
<1>3. /\ Tactics \in Seq(S)
      /\ Len(Tactics) = Len(TACTIC_ORDER) + 1
      /\ \A n \in 1..Len(TACTIC_ORDER) : Tactics[n] = TACTIC_ORDER[n]
      /\ Tactics[Len(TACTIC_ORDER) + 1] = "Unmapped"
  <2>a. PICK last \in S : last = "Unmapped"
    BY <1>1
  <2>b. PICK order \in Seq(S) : order = TACTIC_ORDER
    BY <1>1
  <2>1. /\ Append(order, last) \in Seq(S)
        /\ Len(Append(order, last)) = Len(order) + 1
        /\ \A n \in 1..Len(order) : Append(order, last)[n] = order[n]
        /\ Append(order, last)[Len(order) + 1] = last
    BY AppendProperties
  <2> QED
    BY <2>a, <2>b, <1>2, <2>1
<1>4. Len(TACTIC_ORDER) + 1 = 5 /\ 1..Len(TACTIC_ORDER) = 1..4
  BY <1>1
<1>5. /\ Tactics \in Seq(S)
      /\ Len(Tactics) = 5
      /\ \A n \in 1..4 : Tactics[n] = TACTIC_ORDER[n]
      /\ Tactics[5] = "Unmapped"
  BY <1>3, <1>4
<1>6. DOMAIN Tactics = 1..5 /\ Tactics \in [1..5 -> S]
  BY <1>5, LenProperties
<1>7. Tactics \in [1..5 -> {Tactics[n] : n \in 1..5}]
  BY <1>6
<1> QED
  BY <1>5, <1>7 DEF TACTIC_ORDER

\* No tactic is listed twice.
LEMMA TacticsDiffer == \A m, n \in 1..5 : m # n => Tactics[m] # Tactics[n]
<1>1. \A n \in 1..5 : n = 1 \/ n = 2 \/ n = 3 \/ n = 4 \/ n = 5
  OBVIOUS
<1> QED
  BY <1>1, TacticsAre

\* Every technique has a tactic of the list.
LEMMA TacticListed ==
  ASSUME NEW t
  PROVE  \E n \in 1..5 : Tactics[n] = tactic_for(t)
<1> DEFINE S == {"Reconnaissance", "Initial-Access", "Credential-Access", "Collection", "Unmapped"}
<1>1. \A x \in DOMAIN TECHNIQUE_INFO : TECHNIQUE_INFO[x] \in S
  BY DEF TECHNIQUE_INFO
<1>2. tactic_for(t) \in S
  <2> HIDE DEF S
  <2>1. "Unmapped" \in S
    BY DEF S
  <2>2. CASE t \in DOMAIN TECHNIQUE_INFO
    BY <1>1, <2>2 DEF tactic_for
  <2>3. CASE /\ t \notin DOMAIN TECHNIQUE_INFO
             /\ t \in DOMAIN SubTechniques /\ SubTechniques[t] \in DOMAIN TECHNIQUE_INFO
    BY <1>1, <2>3 DEF tactic_for
  <2>4. CASE /\ t \notin DOMAIN TECHNIQUE_INFO
             /\ ~ (t \in DOMAIN SubTechniques /\ SubTechniques[t] \in DOMAIN TECHNIQUE_INFO)
    BY <2>1, <2>4 DEF tactic_for, UNMAPPED_TACTIC
  <2> QED
    BY <2>2, <2>3, <2>4
<1>3. 1 \in 1..5 /\ 2 \in 1..5 /\ 3 \in 1..5 /\ 4 \in 1..5 /\ 5 \in 1..5
  OBVIOUS
<1> QED
  BY <1>2, <1>3, TacticsAre

\* The techniques that are mentioned, those of a tactic, and how often each is.
Techniques(s) == {Mentioned(s, m) : m \in Mentions(s)}

InTactic(s, tactic) == {t \in Techniques(s) : tactic_for(t) = tactic}

CountsIn(s, tactic) ==
  [t \in InTactic(s, tactic) |-> Cardinality({m \in Mentions(s) : Mentioned(s, m) = t})]

HasTechnique(row, t) == \E x \in row.techniques : x.technique = t

\* Row k of the coverage is of the tactic at place at[k].
CoverageAt(s, rows, N, at) ==
  /\ DOMAIN rows = 1..N
  /\ \A k \in 1..N :
       /\ rows[k].tactic = Tactics[at[k]]
       /\ rows[k].count = Total(CountsIn(s, Tactics[at[k]]))
       /\ \A t : HasTechnique(rows[k], t) <=> t \in InTactic(s, Tactics[at[k]])
  /\ \A j, k \in 1..N : at[j] = at[k] => j = k
  /\ \A n \in 1..5 : InTactic(s, Tactics[n]) # {} => \E k \in 1..N : at[k] = n

\* The rows of the coverage table are the tactics that have findings, each once.
LEMMA CoverageRows ==
  ASSUME NEW s
  PROVE  \E N \in Nat : \E at \in [1..N -> 1..5] : CoverageAt(s, attack_coverage(s), N, at)
<1> DEFINE T == {Tactics[n] : n \in 1..5}
           some == {n \in DOMAIN Tactics : InTactic(s, Tactics[n]) # {}}
           ordered == Kept(Tactics, some)
           Row(tactic) ==
             [tactic |-> tactic, count |-> Total(CountsIn(s, tactic)),
              techniques |-> {[technique |-> t, count |-> CountsIn(s, tactic)[t]] : t \in InTactic(s, tactic)}]
<1>1. attack_coverage(s) = [n \in DOMAIN ordered |-> Row(ordered[n])]
  BY DEF attack_coverage, Tactics, InTactic, Techniques, CountsIn
<1>2. \A tactic : /\ Row(tactic).tactic = tactic
                  /\ Row(tactic).count = Total(CountsIn(s, tactic))
                  /\ \A t : HasTechnique(Row(tactic), t) <=> t \in InTactic(s, tactic)
  <2> SUFFICES ASSUME NEW tactic
               PROVE  /\ Row(tactic).tactic = tactic
                      /\ Row(tactic).count = Total(CountsIn(s, tactic))
                      /\ \A t : HasTechnique(Row(tactic), t) <=> t \in InTactic(s, tactic)
    OBVIOUS
  <2> DEFINE Entry(t) == [technique |-> t, count |-> CountsIn(s, tactic)[t]]
  <2>1. \A t : Entry(t).technique = t
    OBVIOUS
  <2>2. Row(tactic).techniques = {Entry(t) : t \in InTactic(s, tactic)}
    OBVIOUS
  <2>3. Row(tactic).tactic = tactic /\ Row(tactic).count = Total(CountsIn(s, tactic))
    OBVIOUS
  <2> HIDE DEF Row, Entry
  <2> QED
    BY <2>1, <2>2, <2>3 DEF HasTechnique
<1>3. Tactics \in Seq(T) /\ DOMAIN Tactics = 1..5
  <2> DEFINE five == 5
  <2>1. five \in Nat /\ Tactics \in [1..five -> T]
    BY TacticsAre
  <2> HIDE DEF five, T
  <2>2. Tactics \in Seq(T) /\ DOMAIN Tactics = 1..five
    BY <2>1, IsASeq
  <2> QED
    BY <2>2 DEF five
<1>4. some \in SUBSET DOMAIN Tactics /\ \A n \in 1..5 : InTactic(s, Tactics[n]) # {} => n \in some
  BY <1>3
<1> HIDE DEF T, some, Row
<1>5. PICK N \in Nat : \E at \in [1..N -> some] : KeptAt(Tactics, some, ordered, N, at)
  BY <1>3, <1>4, KeptPlaces
<1>6. PICK at \in [1..N -> some] : KeptAt(Tactics, some, ordered, N, at)
  BY <1>5
<1>a. PICK list : list = ordered
  OBVIOUS
<1>7. /\ DOMAIN list = 1..N
      /\ \A n \in some : \E k \in 1..N : at[k] = n
      /\ \A j, k \in 1..N : j < k <=> at[j] < at[k]
      /\ \A k \in 1..N : list[k] = Tactics[at[k]]
  BY <1>a, <1>6 DEF KeptAt
<1>8. at \in [1..N -> 1..5]
  BY <1>3, <1>4
<1>b. PICK rows : rows = attack_coverage(s)
  OBVIOUS
<1>9. DOMAIN rows = 1..N /\ \A k \in 1..N : rows[k] = Row(Tactics[at[k]])
  BY <1>a, <1>b, <1>1, <1>7
<1>10. \A j, k \in 1..N : at[j] = at[k] => j = k
  <2>1. \A j, k \in 1..N : at[j] \in 1..5 /\ (j = k \/ j < k \/ k < j)
    BY <1>8
  <2> QED
    BY <1>7, <2>1
<1>11. CoverageAt(s, rows, N, at)
  BY <1>2, <1>4, <1>7, <1>9, <1>10 DEF CoverageAt
<1> QED
  BY <1>b, <1>8, <1>11

\* Finitely many pairs.
LEMMA PairsFinite ==
  ASSUME NEW N \in Nat, NEW k \in [1..N -> Nat]
  PROVE  IsFiniteSet(UNION {{n} \X (1..k[n]) : n \in 1..N})
<1> DEFINE S == {{n} \X (1..k[n]) : n \in 1..N}
           f == [n \in 1..N |-> {n} \X (1..k[n])]
<1>1. f \in Surjection(1..N, S)
  <2>1. f \in [1..N -> S]
    OBVIOUS
  <2>2. \A x \in S : \E n \in 1..N : f[n] = x
    OBVIOUS
  <2> HIDE DEF S, f
  <2> QED
    BY <2>1, <2>2 DEF Surjection
<1>2. IsFiniteSet(1..N)
  <2>1. 1 \in Int /\ N \in Int
    OBVIOUS
  <2> QED
    BY <2>1, FS_Interval
<1>3. IsFiniteSet(S)
  <2> HIDE DEF S, f
  <2> QED
    BY <1>1, <1>2, FS_Surjection
<1>4. \A x \in S : IsFiniteSet(x)
  <2> SUFFICES ASSUME NEW n \in 1..N PROVE IsFiniteSet({n} \X (1..k[n]))
    OBVIOUS
  <2>1. IsFiniteSet({n})
    BY FS_Singleton
  <2>a. PICK len \in Int : len = k[n]
    OBVIOUS
  <2>2. IsFiniteSet(1..len)
    <3>1. 1 \in Int
      OBVIOUS
    <3> QED
      BY <3>1, FS_Interval
  <2> QED
    BY <2>a, <2>1, <2>2, FS_Product
<1> HIDE DEF S
<1>5. IsFiniteSet(UNION S)
  BY <1>3, <1>4, FS_UNION
<1> QED
  BY <1>5 DEF S

\* Findings with lists of techniques.
Tagged(T) == \A x \in T : \E X : x.techniques \in Seq(X)

\* Every mention of a technique counts once.
LEMMA MentionsCounted ==
  ASSUME NEW T, Tagged(T), NEW s \in Seq(T)
  PROVE  /\ IsFiniteSet(Mentions(s))
         /\ Total([n \in DOMAIN s |-> Len(s[n].techniques)]) = Cardinality(Mentions(s))
<1>a. PICK N \in Nat : N = Len(s)
  BY LenProperties
<1>1. DOMAIN s = 1..N /\ \A n \in 1..N : s[n] \in T
  BY <1>a, LenProperties, ElementOfSeq
<1>2. ASSUME NEW n \in 1..N
      PROVE  Len(s[n].techniques) \in Nat /\ DOMAIN s[n].techniques = 1..Len(s[n].techniques)
  <2>1. PICK X : s[n].techniques \in Seq(X)
    BY <1>1 DEF Tagged
  <2> QED
    BY <2>1, LenProperties
<1> DEFINE k == [n \in DOMAIN s |-> Len(s[n].techniques)]
<1>3. k \in [1..N -> Nat] /\ \A n \in 1..N : DOMAIN s[n].techniques = 1..k[n]
  BY <1>1, <1>2
<1>4. Mentions(s) = UNION {{n} \X (1..k[n]) : n \in 1..N}
  <2> HIDE DEF k
  <2> QED
    BY <1>1, <1>3 DEF Mentions
<1>5. Total(k) = Cardinality(UNION {{n} \X (1..k[n]) : n \in 1..N})
  <2> HIDE DEF k
  <2>1. DOMAIN k = 1..N
    BY <1>3
  <2> QED
    BY <2>1 DEF Total
<1>6. IsFiniteSet(Mentions(s))
  <2> HIDE DEF k
  <2> QED
    BY <1>3, <1>4, PairsFinite
<1> QED
  BY <1>4, <1>5, <1>6

\* A tactic counts the mentions of its techniques.
LEMMA TacticCounts ==
  ASSUME NEW s, IsFiniteSet(Mentions(s)), NEW tactic
  PROVE  Total(CountsIn(s, tactic))
           = Cardinality({m \in Mentions(s) : tactic_for(Mentioned(s, m)) = tactic})
<1> DEFINE U == {m \in Mentions(s) : tactic_for(Mentioned(s, m)) = tactic}
           f == CountsIn(s, tactic)
           g == [m \in U |-> Mentioned(s, m)]
<1>1. DOMAIN f = InTactic(s, tactic)
  BY DEF CountsIn
<1>2. g \in [U -> DOMAIN f]
  <2>1. \A m \in U : Mentioned(s, m) \in InTactic(s, tactic)
    BY DEF InTactic, Techniques
  <2> QED
    BY <1>1, <2>1
<1>3. ASSUME NEW t \in DOMAIN f PROVE f[t] = Cardinality({m \in U : g[m] = t})
  <2>1. tactic_for(t) = tactic
    BY <1>1 DEF InTactic
  <2>2. {m \in U : g[m] = t} = {m \in Mentions(s) : Mentioned(s, m) = t}
    BY <2>1
  <2> QED
    BY <1>1, <2>2 DEF CountsIn
<1>4. IsFiniteSet(U)
  <2>1. U \in SUBSET Mentions(s)
    OBVIOUS
  <2> HIDE DEF U
  <2> QED
    BY <2>1, FS_Subset
<1> HIDE DEF U, f, g
<1>5. Total(f) = Cardinality(U)
  BY <1>2, <1>3, <1>4, TotalOfClasses
<1> QED
  BY <1>5 DEF f, U

\* The coverage of a list: a row for each technique, and every mention in one.
LEMMA CoverageComplete ==
  ASSUME NEW T, Tagged(T), NEW s \in Seq(T)
  PROVE  LET coverage == attack_coverage(s)
             Listed(t) == {c \in DOMAIN coverage : \E x \in coverage[c].techniques : x.technique = t}
         IN  /\ \A f \in ToSet(s) : \A t \in ToSet(f.techniques) : Cardinality(Listed(t)) = 1
             /\ Total([n \in DOMAIN coverage |-> coverage[n].count])
                  = Total([n \in DOMAIN s |-> Len(s[n].techniques)])
             /\ \A m, n \in DOMAIN coverage : coverage[m].tactic = coverage[n].tactic => m = n
<1>a. PICK rows : rows = attack_coverage(s)
  OBVIOUS
<1>1. PICK N \in Nat : \E at \in [1..N -> 1..5] : CoverageAt(s, rows, N, at)
  BY <1>a, CoverageRows
<1>2. PICK at \in [1..N -> 1..5] : CoverageAt(s, rows, N, at)
  BY <1>1
<1>3. /\ DOMAIN rows = 1..N
      /\ \A k \in 1..N :
           /\ rows[k].tactic = Tactics[at[k]]
           /\ rows[k].count = Total(CountsIn(s, Tactics[at[k]]))
           /\ \A t : HasTechnique(rows[k], t) <=> t \in InTactic(s, Tactics[at[k]])
      /\ \A j, k \in 1..N : at[j] = at[k] => j = k
      /\ \A n \in 1..5 : InTactic(s, Tactics[n]) # {} => \E k \in 1..N : at[k] = n
  BY <1>2 DEF CoverageAt
<1>4. \A j, k \in 1..N : rows[j].tactic = rows[k].tactic => j = k
  <2>1. \A j, k \in 1..N : Tactics[at[j]] = Tactics[at[k]] => at[j] = at[k]
    BY TacticsDiffer
  <2> QED
    BY <1>3, <2>1
<1>5. ASSUME NEW t \in Techniques(s)
      PROVE  \E k \in 1..N : Tactics[at[k]] = tactic_for(t)
  <2>1. PICK n \in 1..5 : Tactics[n] = tactic_for(t)
    BY TacticListed
  <2>2. InTactic(s, Tactics[n]) # {}
    BY <2>1 DEF InTactic
  <2>3. \E k \in 1..N : at[k] = n
    BY <1>3, <2>2
  <2> QED
    BY <2>1, <2>3
<1>6. ASSUME NEW t \in Techniques(s)
      PROVE  Cardinality({c \in DOMAIN rows : HasTechnique(rows[c], t)}) = 1
  <2>1. PICK k \in 1..N : Tactics[at[k]] = tactic_for(t)
    BY <1>5
  <2>2. \A c \in 1..N : t \in InTactic(s, Tactics[at[c]]) <=> Tactics[at[c]] = Tactics[at[k]]
    BY <2>1 DEF InTactic
  <2>3. \A c \in 1..N : t \in InTactic(s, Tactics[at[c]]) <=> c = k
    BY <1>3, <1>4, <2>2
  <2>4. {c \in DOMAIN rows : HasTechnique(rows[c], t)} = {k}
    BY <1>3, <2>3
  <2> QED
    BY <2>4, FS_Singleton
<1>7. ASSUME NEW f \in ToSet(s), NEW t \in ToSet(f.techniques)
      PROVE  t \in Techniques(s)
  <2>1. PICK n \in DOMAIN s : f = s[n]
    BY DEF ToSet
  <2>2. PICK i \in DOMAIN s[n].techniques : t = s[n].techniques[i]
    BY <2>1 DEF ToSet
  <2>3. <<n, i>> \in Mentions(s)
    BY DEF Mentions
  <2>4. Mentioned(s, <<n, i>>) = t
    BY <2>2 DEF Mentioned
  <2> QED
    BY <2>3, <2>4 DEF Techniques
<1>8. Total([n \in DOMAIN rows |-> rows[n].count]) = Cardinality(Mentions(s))
  <2> DEFINE f == [n \in DOMAIN rows |-> rows[n].count]
             g == [m \in Mentions(s) |-> CHOOSE k \in 1..N : Tactics[at[k]] = tactic_for(Mentioned(s, m))]
  <2>1. \A m \in Mentions(s) : g[m] \in 1..N /\ Tactics[at[g[m]]] = tactic_for(Mentioned(s, m))
    <3>1. \A m \in Mentions(s) : Mentioned(s, m) \in Techniques(s)
      BY DEF Techniques
    <3> QED
      BY <1>5, <3>1
  <2>2. DOMAIN f = 1..N /\ \A k \in 1..N : f[k] = Total(CountsIn(s, Tactics[at[k]]))
    BY <1>3
  <2>3. g \in [Mentions(s) -> DOMAIN f]
    <3>1. \A m \in Mentions(s) : g[m] \in DOMAIN f
      BY <2>1, <2>2
    <3>2. g = [m \in Mentions(s) |-> g[m]]
      OBVIOUS
    <3> HIDE DEF g, f
    <3> QED
      BY <3>1, <3>2
  <2> HIDE DEF f, g
  <2>4. IsFiniteSet(Mentions(s))
    BY MentionsCounted
  <2>5. ASSUME NEW k \in DOMAIN f PROVE f[k] = Cardinality({m \in Mentions(s) : g[m] = k})
    <3>1. k \in 1..N
      BY <2>2
    <3>2. \A m \in Mentions(s) : g[m] = k <=> tactic_for(Mentioned(s, m)) = Tactics[at[k]]
      <4>1. \A j \in 1..N : Tactics[at[j]] = Tactics[at[k]] => j = k
        BY <1>3, <1>4, <3>1
      <4> QED
        BY <2>1, <4>1
    <3>3. {m \in Mentions(s) : g[m] = k}
            = {m \in Mentions(s) : tactic_for(Mentioned(s, m)) = Tactics[at[k]]}
      BY <3>2
    <3> QED
      BY <2>2, <2>4, <3>1, <3>3, TacticCounts
  <2>6. Total(f) = Cardinality(Mentions(s))
    BY <2>3, <2>4, <2>5, TotalOfClasses
  <2> QED
    BY <2>6 DEF f
<1>9. Total([n \in DOMAIN s |-> Len(s[n].techniques)]) = Cardinality(Mentions(s))
  BY MentionsCounted
<1>10. \A f \in ToSet(s) : \A t \in ToSet(f.techniques) :
         Cardinality({c \in DOMAIN rows : \E x \in rows[c].techniques : x.technique = t}) = 1
  BY <1>6, <1>7 DEF HasTechnique
<1>11. \A m, n \in DOMAIN rows : rows[m].tactic = rows[n].tactic => m = n
  BY <1>3, <1>4
<1>12. Total([n \in DOMAIN rows |-> rows[n].count]) = Total([n \in DOMAIN s |-> Len(s[n].techniques)])
  BY <1>8, <1>9
<1> QED
  BY <1>a, <1>10, <1>11, <1>12

\* The techniques of the shipped rules.
LEMMA RulesTagged ==
  ASSUME NEW a \in AdapterNames, NEW n \in DOMAIN RulesOf(a)
  PROVE  \E X : RulesOf(a)[n].techniques \in Seq(X)
<1> DEFINE X == {"T1595", "T1591", "T1040", "T1557", "T1539", "T1185", "T1190"}
           Lists == {<<"T1595">>, <<"T1591">>, <<"T1557">>, <<"T1539">>, <<"T1190">>,
                     <<"T1040", "T1557">>, <<"T1557", "T1040">>, <<"T1539", "T1185">>,
                     <<"T1190", "T1539">>}
<1>1. \A list \in Lists : list \in Seq(X)
  <2>1. \A x \in X : <<x>> \in Seq(X)
    <3> HIDE DEF X
    <3> QED
      OBVIOUS
  <2>2. \A x, y \in X : <<x, y>> \in Seq(X)
    <3> HIDE DEF X
    <3> QED
      OBVIOUS
  <2>3. "T1595" \in X /\ "T1591" \in X /\ "T1040" \in X /\ "T1557" \in X /\ "T1539" \in X
          /\ "T1185" \in X /\ "T1190" \in X
    OBVIOUS
  <2> HIDE DEF X
  <2> QED
    BY <2>1, <2>2, <2>3
<1> HIDE DEF X
<1>2. \A i \in DOMAIN HeaderRules : HeaderRules[i].techniques \in Lists
  BY DEF HeaderRules, Rule
<1>3. \A i \in DOMAIN TransportRules : TransportRules[i].techniques \in Lists
  BY DEF TransportRules, Rule
<1>4. \A i \in DOMAIN CookieRules : CookieRules[i].techniques \in Lists
  BY DEF CookieRules, Rule
<1>5. \A i \in DOMAIN CorsRules : CorsRules[i].techniques \in Lists
  BY DEF CorsRules, Rule
<1>6. \A i \in DOMAIN WellKnownRules : WellKnownRules[i].techniques \in Lists
  BY DEF WellKnownRules, Rule
<1> HIDE DEF Lists
<1>7. RulesOf(a)[n].techniques \in Lists
  BY <1>2, <1>3, <1>4, <1>5, <1>6 DEF AdapterNames, RulesOf
<1>8. RulesOf(a)[n].techniques \in Seq(X)
  BY <1>1, <1>7
<1> QED
  BY <1>8

\* Every finding of a response has a list of techniques.
LEMMA FindingsTagged ==
  ASSUME NEW r \in Response
  PROVE  Tagged(FindingOf(AllDrafts(r)))
<1>1. ASSUME NEW d \in AllDrafts(r) PROVE \E X : d.rule.techniques \in Seq(X)
  <2>1. ASSUME NEW a \in AdapterNames, d \in Drafts(a, r) PROVE \E X : d.rule.techniques \in Seq(X)
    <3>1. PICK n \in DOMAIN RulesOf(a) : d.rule = RulesOf(a)[n]
      BY <2>1, DraftRules
    <3> QED
      BY <3>1, RulesTagged
  <2>2. CASE d \in ToSet(PluginDrafts)
    <3>1. d.rule.techniques \in Seq(STRING)
      BY <2>2, PluginList DEF FindingDraft, FindingRule
    <3> QED
      BY <3>1
  <2> QED
    BY <2>1, <2>2 DEF AllDrafts, ShippedDrafts
<1> QED
  BY <1>1 DEF Tagged, FindingOf

\* Whatever a target answers and whatever a plugin reports of it, with whichever
\* techniques: the coverage has every finding (attack_coverage, report_attack.py).
THEOREM CoverageIsComplete == Spec => []CoverageLosesNoFinding
<1>1. response \in Response => CoverageLosesNoFinding
  <2> SUFFICES ASSUME response \in Response PROVE CoverageLosesNoFinding
    OBVIOUS
  <2>a. PICK T : T = FindingOf(AllDrafts(response))
    OBVIOUS
  <2>1. FindingsOf(Shipped, response) \in Seq(T)
    BY <2>a, ShippedIsAnOrder, FindingsOfResponse
  <2>2. Ranked(T) /\ Tagged(T)
    <3>1. Ranked(FindingOf(AllDrafts(response)))
      BY DEF Ranked, FindingOf
    <3> QED
      BY <2>a, <3>1, FindingsTagged
  <2>3. report_findings(FindingsOf(Shipped, response)) \in Seq(T)
    BY <2>1, <2>2, ReportOrder
  <2> QED
    BY <2>2, <2>3, CoverageComplete DEF CoverageLosesNoFinding
<1> QED
  BY <1>1, RespondsTyped, PTL

-----------------------------------------------------------------------------
(***************************************************************************)
(* The order of the scans.                                                 *)
(***************************************************************************)

\* Every issue of one list of findings is one of the other, as severe.
Within(f, g) ==
  \A m \in DOMAIN f : \E n \in DOMAIN g : g[n].key = f[m].key /\ g[n].severity = f[m].severity

OnePerKey(f) == \A j, m \in DOMAIN f : f[j].key = f[m].key => j = m

\* The same drafts in another order collapse to the same issues and severities.
LEMMA SameDraftsSameIssues ==
  ASSUME NEW D, Rated(D), NEW s \in Seq(D), NEW t \in Seq(D), ToSet(s) = ToSet(t),
         NEW f \in Seq(FindingOf(D)), Collapsed(f, s, Len(s)),
         NEW g \in Seq(FindingOf(D)), Collapsed(g, t, Len(t))
  PROVE  Within(f, g)
<1> SUFFICES ASSUME NEW m \in DOMAIN f
             PROVE  \E n \in DOMAIN g : g[n].key = f[m].key /\ g[n].severity = f[m].severity
  BY DEF Within
<1>1. DOMAIN s = 1..Len(s) /\ DOMAIN t = 1..Len(t)
  BY LenProperties
<1>2. PICK i \in DOMAIN s : f[m].key = dedup_key(s[i]) /\ f[m].severity = s[i].rule.severity
  BY <1>1 DEF Collapsed, WorstOf
<1>3. PICK j \in DOMAIN t : t[j] = s[i]
  BY DEF ToSet
<1>4. PICK n \in DOMAIN g : g[n].key = f[m].key
  <2>1. HasKey(g, dedup_key(t[j]))
    BY <1>1 DEF Collapsed
  <2>2. HasKey(g, f[m].key)
    BY <1>2, <1>3, <2>1
  <2> QED
    BY <2>2 DEF HasKey
<1>5. PICK k \in DOMAIN t : g[n].key = dedup_key(t[k]) /\ g[n].severity = t[k].rule.severity
  BY <1>1 DEF Collapsed, WorstOf
<1>6. PICK l \in DOMAIN s : s[l] = t[k]
  BY DEF ToSet
<1>7. g[n].severity >= f[m].severity
  <2>1. \A x \in DOMAIN t : g[n].key = dedup_key(t[x]) => g[n].severity >= t[x].rule.severity
    BY <1>1 DEF Collapsed, WorstOf
  <2> QED
    BY <1>2, <1>3, <1>4, <2>1
<1>8. f[m].severity >= g[n].severity
  <2>1. \A x \in DOMAIN s : f[m].key = dedup_key(s[x]) => f[m].severity >= s[x].rule.severity
    BY <1>1 DEF Collapsed, WorstOf
  <2> QED
    BY <1>4, <1>5, <1>6, <2>1
<1>9. f[m].severity \in 0..4 /\ g[n].severity \in 0..4
  <2>1. f[m] \in FindingOf(D) /\ g[n] \in FindingOf(D)
    BY LenProperties, ElementOfSeq
  <2> QED
    BY <2>1 DEF FindingOf
<1>10. g[n].severity = f[m].severity
  BY <1>7, <1>8, <1>9, SMTT(30)
<1> QED
  BY <1>4, <1>10

\* The findings of one severity.
Places(f, v) == {n \in DOMAIN f : f[n].severity = v}

\* If one report's issues are within another's, no severity has more of them.
LEMMA PlacesWithin ==
  ASSUME NEW T, NEW f \in Seq(T), NEW g \in Seq(T), OnePerKey(f), Within(f, g), NEW v
  PROVE  /\ Cardinality(Places(f, v)) \in Nat
         /\ Cardinality(Places(f, v)) <= Cardinality(Places(g, v))
<1> DEFINE h == [m \in Places(f, v) |->
                   CHOOSE n \in DOMAIN g : g[n].key = f[m].key /\ g[n].severity = f[m].severity]
<1>1. ASSUME NEW m \in Places(f, v)
      PROVE  h[m] \in DOMAIN g /\ g[h[m]].key = f[m].key /\ g[h[m]].severity = f[m].severity
  <2>1. \E n \in DOMAIN g : g[n].key = f[m].key /\ g[n].severity = f[m].severity
    BY DEF Places, Within
  <2> QED
    BY <2>1
<1>2. h = [m \in Places(f, v) |-> h[m]]
  OBVIOUS
<1> HIDE DEF h
<1>3. \A m \in Places(f, v) : h[m] \in Places(g, v)
  BY <1>1 DEF Places
<1>4. \A j, m \in Places(f, v) : h[j] = h[m] => j = m
  BY <1>1 DEF Places, OnePerKey
<1>5. h \in Injection(Places(f, v), Places(g, v))
  BY <1>2, <1>3, <1>4 DEF Injection, IsInjective
<1>6. IsFiniteSet(Places(g, v)) /\ IsFiniteSet(Places(f, v))
  <2>1. ASSUME NEW s \in Seq(T) PROVE IsFiniteSet(Places(s, v))
    <3>a. PICK N \in Int : N = Len(s)
      BY LenProperties
    <3>1. DOMAIN s = 1..N /\ 1 \in Int
      BY <3>a, LenProperties
    <3>2. IsFiniteSet(1..N)
      BY <3>1, FS_Interval
    <3>3. Places(s, v) \in SUBSET (1..N)
      BY <3>1 DEF Places
    <3> QED
      BY <3>2, <3>3, FS_Subset
  <2> QED
    BY <2>1
<1>7. Cardinality(Places(f, v)) <= Cardinality(Places(g, v))
  BY <1>5, <1>6, FS_Injection
<1>8. Cardinality(Places(f, v)) \in Nat
  BY <1>6, FS_CardinalityType
<1> QED
  BY <1>7, <1>8

\* The severity table of lists with the same issues.
LEMMA SameCounts ==
  ASSUME NEW T, NEW f \in Seq(T), NEW g \in Seq(T), OnePerKey(f), OnePerKey(g),
         Within(f, g), Within(g, f)
  PROVE  severity_counts(f) = severity_counts(g)
<1>1. ASSUME NEW s \in Seq(T), NEW v PROVE Len(OfSeverity(s, v)) = Cardinality(Places(s, v))
  <2>a. PICK P : P = Places(s, v)
    OBVIOUS
  <2>1. P \in SUBSET DOMAIN s
    BY <2>a DEF Places
  <2>2. Len(Kept(s, P)) = Cardinality(P)
    BY <2>1, KeptElements
  <2> QED
    BY <2>a, <2>2 DEF OfSeverity, Places
<1>2. ASSUME NEW v PROVE Len(OfSeverity(f, v)) = Len(OfSeverity(g, v))
  <2>1. /\ Cardinality(Places(f, v)) \in Nat /\ Cardinality(Places(g, v)) \in Nat
        /\ Cardinality(Places(f, v)) <= Cardinality(Places(g, v))
        /\ Cardinality(Places(g, v)) <= Cardinality(Places(f, v))
    BY PlacesWithin
  <2>2. Cardinality(Places(f, v)) = Cardinality(Places(g, v))
    BY <2>1
  <2> QED
    BY <1>1, <2>2
<1> QED
  BY <1>2 DEF severity_counts

\* A list of findings has a worst one.
LEMMA WorstOfList ==
  ASSUME NEW T, Ranked(T), NEW s \in Seq(T), DOMAIN s # {}
  PROVE  \E w \in 0..4 : (\A n \in DOMAIN s : s[n].severity <= w) /\ \E n \in DOMAIN s : s[n].severity = w
<1> DEFINE Has(w) == \E n \in DOMAIN s : s[n].severity = w
<1>1. \A n \in DOMAIN s : s[n].severity \in 0..4
  <2>1. \A n \in DOMAIN s : s[n] \in T
    BY ElementOfSeq, LenProperties
  <2> QED
    BY <2>1 DEF Ranked
<1>2. Has(0) \/ Has(1) \/ Has(2) \/ Has(3) \/ Has(4)
  BY <1>1
<1>3. \E w \in 0..4 : Has(w) /\ \A v \in 0..4 : Has(v) => v <= w
  <2> HIDE DEF Has
  <2>1. CASE Has(4)
    BY <2>1
  <2>2. CASE ~ Has(4) /\ Has(3)
    BY <2>2
  <2>3. CASE ~ Has(4) /\ ~ Has(3) /\ Has(2)
    BY <2>3
  <2>4. CASE ~ Has(4) /\ ~ Has(3) /\ ~ Has(2) /\ Has(1)
    BY <2>4
  <2>5. CASE ~ Has(4) /\ ~ Has(3) /\ ~ Has(2) /\ ~ Has(1)
    BY <1>2, <2>5
  <2> QED
    BY <2>1, <2>2, <2>3, <2>4, <2>5
<1> QED
  BY <1>1, <1>3

\* The posture of lists with the same severities.
LEMMA SamePosture ==
  ASSUME NEW T, Ranked(T), NEW f \in Seq(T), NEW g \in Seq(T), Within(f, g), Within(g, f)
  PROVE  risk_posture(f) = risk_posture(g)
<1>0. DOMAIN f = {} <=> DOMAIN g = {}
  BY DEF Within
<1>1. CASE DOMAIN f = {}
  <2>1. ASSUME NEW s \in Seq(T) PROVE s = <<>> <=> DOMAIN s = {}
    <3>1. DOMAIN <<>> = {}
      OBVIOUS
    <3>2. DOMAIN s = {} => s = <<>>
      <4>a. PICK N \in Nat : N = Len(s)
        BY LenProperties
      <4>1. DOMAIN s = 1..N
        BY <4>a, LenProperties
      <4>2. DOMAIN s = {} => N = 0
        BY <4>1
      <4> QED
        BY <4>a, <4>2, EmptySeq
    <3> QED
      BY <3>1, <3>2
  <2>2. f = g
    BY <1>0, <1>1, <2>1
  <2> QED
    BY <2>2
<1>2. CASE DOMAIN f # {}
  <2>1. PICK w \in 0..4 : (\A n \in DOMAIN f : f[n].severity <= w) /\ \E n \in DOMAIN f : f[n].severity = w
    BY <1>2, WorstOfList
  <2>2. (\A n \in DOMAIN g : g[n].severity <= w) /\ \E n \in DOMAIN g : g[n].severity = w
    <3>1. \A n \in DOMAIN g : \E m \in DOMAIN f : f[m].severity = g[n].severity
      BY DEF Within
    <3>2. \A n \in DOMAIN f : \E m \in DOMAIN g : g[m].severity = f[n].severity
      BY DEF Within
    <3> QED
      BY <2>1, <3>1, <3>2
  <2>3. risk_posture(f) = <<"Informational", "Low", "Elevated", "High", "Critical">>[w + 1]
    BY <2>1, PostureIs
  <2>4. risk_posture(g) = <<"Informational", "Low", "Elevated", "High", "Critical">>[w + 1]
    BY <2>2, PostureIs
  <2> QED
    BY <2>3, <2>4
<1> QED
  BY <1>1, <1>2

\* Two shipped rules of one issue have the same techniques, but for HSTS.
LEMMA OneIssueOneRule ==
  ASSUME NEW r \in Response, NEW d \in ShippedDrafts(r), NEW e \in ShippedDrafts(r),
         dedup_key(d) = dedup_key(e), d.rule.techniques # e.rule.techniques
  PROVE  dedup_key(d)[1] = HSTS_RULE_ID
<1>1. PICK a \in AdapterNames : d \in Drafts(a, r)
  BY DEF ShippedDrafts
<1>2. PICK b \in AdapterNames : e \in Drafts(b, r)
  BY DEF ShippedDrafts
<1>3. PICK m \in DOMAIN RulesOf(a) : d.rule = RulesOf(a)[m]
  BY <1>1, DraftRules
<1>4. PICK n \in DOMAIN RulesOf(b) : e.rule = RulesOf(b)[n]
  BY <1>2, DraftRules
<1>5. /\ dedup_key(d)[1] = Identity(RulesOf(a)[m])
      /\ dedup_key(e)[1] = Identity(RulesOf(b)[n])
  BY <1>3, <1>4 DEF dedup_key, Identity
<1>6. CASE a # b
  BY <1>5, <1>6, SharedIdentities
<1>7. CASE a = b
  <2>1. Distinct(RulesOf(a))
    BY RulesDistinct
  <2>2. m = n
    BY <1>5, <1>7, <2>1 DEF Distinct
  <2> QED
    BY <1>3, <1>4, <1>7, <2>2
<1> QED
  BY <1>6, <1>7

\* The first draft of an issue is of a shipped adapter if one reports it.
LEMMA FirstDraft ==
  ASSUME NEW D, NEW shipped \in Seq(D), NEW plugin \in Seq(D), NEW f,
         NEW i \in 1..Len(shipped \o plugin), ComesFrom(f, shipped \o plugin, i)
  PROVE  \/ \E d \in ToSet(shipped) : f.key = dedup_key(d) /\ f.techniques = d.rule.techniques
         \/ /\ \A d \in ToSet(shipped) : f.key # dedup_key(d)
            /\ \E k \in 1..Len(plugin) : ComesFrom(f, plugin, k)
<1>a. PICK m \in Nat : m = Len(shipped)
  BY LenProperties
<1>b. PICK n \in Nat : n = Len(plugin)
  BY LenProperties
<1>c. PICK u : u = shipped \o plugin
  OBVIOUS
<1>1. /\ Len(u) = m + n
      /\ \A x \in 1..(m + n) : u[x] = IF x <= m THEN shipped[x] ELSE plugin[x - m]
  BY <1>a, <1>b, <1>c, ConcatProperties
<1>2. DOMAIN shipped = 1..m
  BY <1>a, LenProperties
<1>3. /\ i \in 1..(m + n)
      /\ f.key = dedup_key(u[i]) /\ f.techniques = u[i].rule.techniques
      /\ \A j \in 1..(i - 1) : f.key # dedup_key(u[j])
  BY <1>c, <1>1 DEF ComesFrom
<1>4. CASE i <= m
  <2>1. i \in DOMAIN shipped /\ u[i] = shipped[i]
    BY <1>1, <1>2, <1>3, <1>4
  <2>2. shipped[i] \in ToSet(shipped)
    BY <2>1 DEF ToSet
  <2> QED
    BY <1>3, <2>1, <2>2
<1>5. CASE i > m
  <2>1. \A x \in 1..m : x \in 1..(i - 1) /\ x \in 1..(m + n) /\ u[x] = shipped[x]
    BY <1>1, <1>3, <1>5
  <2>2. \A d \in ToSet(shipped) : f.key # dedup_key(d)
    BY <1>2, <1>3, <2>1 DEF ToSet
  <2>a. PICK k \in 1..n : k = i - m
    BY <1>3, <1>5
  <2>3. u[i] = plugin[k]
    BY <1>1, <1>3, <1>5, <2>a
  <2>4. ASSUME NEW j \in 1..(k - 1) PROVE f.key # dedup_key(plugin[j])
    <3>a. PICK x \in 1..(i - 1) : x = m + j
      BY <2>a, <1>3
    <3>1. x \in 1..(m + n) /\ ~ (x <= m) /\ x - m = j
      BY <3>a, <1>3
    <3>2. u[x] = plugin[j]
      BY <1>1, <3>1
    <3> QED
      BY <1>3, <3>2
  <2>5. ComesFrom(f, plugin, k)
    BY <1>3, <2>3, <2>4 DEF ComesFrom
  <2> QED
    BY <1>b, <2>2, <2>5
<1> QED
  BY <1>a, <1>3, <1>4, <1>5

\* Findings of one key that both come from its first draft in a list agree on techniques.
LEMMA FirstIsFirst ==
  ASSUME NEW f, NEW g, NEW plugin, NEW N \in Nat, NEW k \in 1..N, NEW l \in 1..N, f.key = g.key,
         ComesFrom(f, plugin, k), ComesFrom(g, plugin, l)
  PROVE  f.techniques = g.techniques
<1>1. CASE k = l
  BY <1>1 DEF ComesFrom
<1>2. CASE k < l
  <2>1. k \in 1..(l - 1)
    BY <1>2
  <2> QED
    BY <2>1 DEF ComesFrom
<1>3. CASE l < k
  <2>1. l \in 1..(k - 1)
    BY <1>3
  <2> QED
    BY <2>1 DEF ComesFrom
<1> QED
  BY <1>1, <1>2, <1>3

\* In any order the adapters produce the same drafts.
LEMMA EitherOrder ==
  ASSUME NEW r \in Response, NEW order, AnOrder(order)
  PROVE  ToSet(Scanned(order, r)) = AllDrafts(r)
<1>a. PICK shipped \in Seq(ShippedDrafts(r)) :
        /\ Scanned(order, r) = shipped \o PluginDrafts
        /\ ToSet(shipped) = ShippedDrafts(r)
  BY ScannedDrafts
<1>b. PICK D : D = AllDrafts(r)
  OBVIOUS
<1>1. shipped \in Seq(D)
  <2>1. \A d \in ShippedDrafts(r) : d \in D
    BY <1>b DEF AllDrafts
  <2> QED
    BY <2>1
<1>2. PluginDrafts \in Seq(D)
  <2>1. \A d \in ToSet(PluginDrafts) : d \in D
    BY <1>b DEF AllDrafts
  <2> QED
    BY <2>1, PluginList
<1>3. ToSet(shipped \o PluginDrafts) = ToSet(shipped) \cup ToSet(PluginDrafts)
  BY <1>1, <1>2, ConcatElements
<1> QED
  BY <1>a, <1>3 DEF AllDrafts

\* A finding has the techniques of a shipped draft of its issue, or of the first
\* the plugin reports of it.
LEMMA WhoseTechniques ==
  ASSUME NEW r \in Response, NEW order, AnOrder(order),
         NEW f \in ToSet(FindingsOf(order, r))
  PROVE  \/ \E d \in ShippedDrafts(r) : f.key = dedup_key(d) /\ f.techniques = d.rule.techniques
         \/ /\ \A d \in ShippedDrafts(r) : f.key # dedup_key(d)
            /\ \E k \in 1..Len(PluginDrafts) : ComesFrom(f, PluginDrafts, k)
<1>a. PICK shipped \in Seq(ShippedDrafts(r)) :
        /\ Scanned(order, r) = shipped \o PluginDrafts
        /\ ToSet(shipped) = ShippedDrafts(r)
  BY ScannedDrafts
<1>b. PICK D : D = AllDrafts(r)
  OBVIOUS
<1>1. shipped \in Seq(D)
  <2>1. \A d \in ShippedDrafts(r) : d \in D
    BY <1>b DEF AllDrafts
  <2> QED
    BY <2>1
<1>2. PluginDrafts \in Seq(D)
  <2>1. \A d \in ToSet(PluginDrafts) : d \in D
    BY <1>b DEF AllDrafts
  <2> QED
    BY <2>1, PluginList
<1>3. PICK i \in 1..Len(shipped \o PluginDrafts) : ComesFrom(f, shipped \o PluginDrafts, i)
  <2>1. PICK m \in DOMAIN FindingsOf(order, r) : f = FindingsOf(order, r)[m]
    BY DEF ToSet
  <2>2. Collapsed(FindingsOf(order, r), shipped \o PluginDrafts, Len(shipped \o PluginDrafts))
    BY <1>a, FindingsOfResponse
  <2> QED
    BY <2>1, <2>2 DEF Collapsed
<1>4. \/ \E d \in ToSet(shipped) : f.key = dedup_key(d) /\ f.techniques = d.rule.techniques
      \/ /\ \A d \in ToSet(shipped) : f.key # dedup_key(d)
         /\ \E k \in 1..Len(PluginDrafts) : ComesFrom(f, PluginDrafts, k)
  BY <1>1, <1>2, <1>3, FirstDraft
<1> QED
  BY <1>a, <1>4

\* Where two orders disagree on the techniques, the issue is the missing HSTS header.
LEMMA TechniquesDiffer ==
  ASSUME NEW r \in Response, NEW one, AnOrder(one), NEW other, AnOrder(other),
         NEW f \in ToSet(FindingsOf(one, r)), NEW g \in ToSet(FindingsOf(other, r)),
         f.key = g.key, f.techniques # g.techniques
  PROVE  f.key[1] = HSTS_RULE_ID
<1>1. CASE \E d \in ShippedDrafts(r) : f.key = dedup_key(d)
  <2>1. PICK d \in ShippedDrafts(r) : f.key = dedup_key(d) /\ f.techniques = d.rule.techniques
    BY <1>1, WhoseTechniques
  <2>2. PICK e \in ShippedDrafts(r) : g.key = dedup_key(e) /\ g.techniques = e.rule.techniques
    BY <1>1, WhoseTechniques
  <2> QED
    BY <2>1, <2>2, OneIssueOneRule
<1>2. CASE \A d \in ShippedDrafts(r) : f.key # dedup_key(d)
  <2>1. PICK k \in 1..Len(PluginDrafts) : ComesFrom(f, PluginDrafts, k)
    BY <1>2, WhoseTechniques
  <2>2. PICK l \in 1..Len(PluginDrafts) : ComesFrom(g, PluginDrafts, l)
    BY <1>2, WhoseTechniques
  <2>3. Len(PluginDrafts) \in Nat
    BY PluginAssumption, LenProperties
  <2> QED
    BY <2>1, <2>2, <2>3, FirstIsFirst
<1> QED
  BY <1>1, <1>2

\* Whatever a target answers and whatever a plugin reports of it: which adapter
\* scans first decides neither the issues nor their severities, and which
\* techniques a finding has only where HSTS is the issue (scan_runner.py,
\* _persist_scan; report.py).
THEOREM ScanOrderIsImmaterial == Spec => []ReportIgnoresScanOrder
<1>1. response \in Response => ReportIgnoresScanOrder
  <2> SUFFICES ASSUME response \in Response PROVE ReportIgnoresScanOrder
    OBVIOUS
  <2>a. PICK one : one = FindingsOf(Shipped, response)
    OBVIOUS
  <2>b. PICK other : other = FindingsOf(Reverse(Shipped), response)
    OBVIOUS
  <2>c. PICK D : D = AllDrafts(response)
    OBVIOUS
  <2>d. PICK s \in Seq(D) : s = Scanned(Shipped, response)
    BY <2>c, ShippedIsAnOrder, ScannedDrafts
  <2>e. PICK t \in Seq(D) : t = Scanned(Reverse(Shipped), response)
    BY <2>c, ShippedIsAnOrder, ScannedDrafts
  <2>1. Rated(D) /\ Ranked(FindingOf(D))
    <3>1. Rated(D)
      BY <2>c, AllRated
    <3>2. Ranked(FindingOf(D))
      BY DEF Ranked, FindingOf
    <3> QED
      BY <3>1, <3>2
  <2>2. ToSet(s) = ToSet(t)
    BY <2>d, <2>e, ShippedIsAnOrder, EitherOrder
  <2>3. one \in Seq(FindingOf(D)) /\ Collapsed(one, s, Len(s))
    BY <2>a, <2>c, <2>d, ShippedIsAnOrder, FindingsOfResponse
  <2>4. other \in Seq(FindingOf(D)) /\ Collapsed(other, t, Len(t))
    BY <2>b, <2>c, <2>e, ShippedIsAnOrder, FindingsOfResponse
  <2>5. Within(one, other) /\ Within(other, one)
    BY <2>1, <2>2, <2>3, <2>4, SameDraftsSameIssues
  <2>6. OnePerKey(one) /\ OnePerKey(other)
    BY <2>3, <2>4 DEF Collapsed, OnePerKey
  <2>7. {<<f.key, f.severity>> : f \in ToSet(one)} = {<<f.key, f.severity>> : f \in ToSet(other)}
    BY <2>5 DEF Within, ToSet
  <2>8. severity_counts(one) = severity_counts(other)
    BY <2>3, <2>4, <2>5, <2>6, SameCounts
  <2>9. risk_posture(one) = risk_posture(other)
    BY <2>1, <2>3, <2>4, <2>5, SamePosture
  <2>10. \A f \in ToSet(one), g \in ToSet(other) :
           f.key = g.key /\ f.techniques # g.techniques => f.key[1] = HSTS_RULE_ID
    BY <2>a, <2>b, ShippedIsAnOrder, TechniquesDiffer
  <2> QED
    BY <2>a, <2>b, <2>7, <2>8, <2>9, <2>10 DEF ReportIgnoresScanOrder
<1> QED
  BY <1>1, RespondsTyped, PTL

=============================================================================
