---------------------------- MODULE MCRemediation ----------------------------
(***************************************************************************)
(* Responses for TLC.  Adapters look at disjoint parts of a response, but   *)
(* for the HSTS header, so the parts vary one group at a time.              *)
(***************************************************************************)
EXTENDS Remediation

secure == {"secure", "httponly", "samesite"}

Hardened ==
  [url |-> [scheme |-> "https", page |-> "home", spelling |-> "as-typed"],
   headers |-> {HeaderRules[n].check : n \in DOMAIN HeaderRules},
   origin |-> "none", credentials |-> FALSE, location_https |-> FALSE,
   tls |-> "TLSv1.3", cookies |-> <<>>, status_ok |-> TRUE, contact |-> TRUE]

Headers == {[Hardened EXCEPT !.headers = h] : h \in SUBSET Hardened.headers}

Transport ==
  {[Hardened EXCEPT !.tls = t, !.headers = h] :
      t \in {"error", "expired", "self_signed", "invalid", "TLSv1.1", "TLSv1.3"},
      h \in {Hardened.headers, {}}}
    \cup
  {[Hardened EXCEPT !.url.scheme = "http", !.tls = "none", !.location_https = l, !.headers = {}] :
      l \in BOOLEAN}

Cors ==
  {[Hardened EXCEPT !.origin = o, !.credentials = c] :
      o \in {"none", "*", "null", "some"}, c \in BOOLEAN}

Cookies ==
  {[Hardened EXCEPT !.cookies = <<[name |-> m, attributes |-> a], [name |-> n, attributes |-> b]>>] :
      m, n \in {"sid", "lang"}, a, b \in SUBSET secure}

SecurityTxt == {[Hardened EXCEPT !.status_ok = s, !.contact = c] : s, c \in BOOLEAN}

\* A critical issue with a sub-technique the table knows the parent of, and an
\* informational one with techniques it does not know.
MCPluginDrafts ==
  <<[rule |-> Rule("plugin-a", "Plugin A", NoRuleId, 4, 98, <<"T1557.002", "T1557">>),
     target |-> Hardened.url, location |-> NoLocation],
    [rule |-> Rule("plugin-b", "Plugin B", NoRuleId, 0, 0, <<"T1499.001", "T1499">>),
     target |-> Hardened.url, location |-> NoLocation]>>

MCSubTechniques == "T1557.002" :> "T1557" @@ "T1499.001" :> "T1499"

MCResponses == Headers \cup Transport \cup Cors \cup Cookies \cup SecurityTxt

=============================================================================
