------------------------------- MODULE Fetch -------------------------------
(***************************************************************************)
(* The one place a request leaves the program (provx_sdk/fetch.py,         *)
(* fetch_within_scope): redirects are followed by hand, each candidate is   *)
(* checked against the scope before it is requested.  The remote server is  *)
(* free: it answers anything to any request, or nothing.                    *)
(***************************************************************************)
EXTENDS Scope

CONSTANTS
  Urls,             \* [scheme, host, path]; host is a spelling
  AuthCredential,   \* credentials: each is one request header
  NoAuth            \* an anonymous scan has none

VARIABLES
  policy,         \* the ScopePolicy the caller passed; auth: its credential or NoAuth
  phase,          \* where the call is
  max_redirects,
  current,        \* the URL of this hop
  chain,          \* the URLs requested, in order; the first is requested_url
  outcome,        \* the FetchOutcome returned
  wire            \* history: every request that left, [url, credential]

callVars  == <<max_redirects, current, chain>>
fetchVars == <<policy, phase, callVars, outcome, wire>>

StoppedReason ==
  {"none", "MISSING_LOCATION", "OUT_OF_SCOPE_REDIRECT", "TOO_MANY_REDIRECTS"}

NoUrl     == [scheme |-> "none"]
NoOutcome == [stopped_reason |-> "pending"]

\* headers is the URL whose response the headers and the body are of.
FetchOutcome ==
  [final_url : Urls, redirect_chain : Seq(Urls), stopped_reason : StoppedReason,
   headers : Urls]

WireRequest == [url : Urls, credential : AuthCredential \cup {NoAuth}]

FetchTypeOK ==
  /\ phase \in {"idle", "hop", "sent", "outcome", "refused", "error"}
  /\ max_redirects \in Nat
  /\ current \in Urls \cup {NoUrl}
  /\ phase \in {"hop", "sent"} => current \in Urls
  /\ chain \in Seq(Urls)
  /\ outcome \in FetchOutcome \cup {NoOutcome}
  /\ wire \subseteq WireRequest

FetchInit ==
  /\ phase = "idle"
  /\ max_redirects = 0
  /\ current = NoUrl
  /\ chain = <<>>
  /\ outcome = NoOutcome
  /\ wire = {}

-----------------------------------------------------------------------------
\* The outcome of a chain that ends at the response to current, reporting
\* final as the URL that responded.
outcome_of(final, reason) ==
  [final_url |-> final, redirect_chain |-> chain, stopped_reason |-> reason,
   headers |-> current]

\* Variant: the budget is one short.
Begin_one_short(url, redirects) ==
  /\ phase = "idle"
  /\ phase' = IF is_in_scope(policy, url) THEN "hop" ELSE "refused"
  /\ max_redirects' = redirects - 1
  /\ current' = url
  /\ chain' = <<>>
  /\ UNCHANGED <<policy, outcome, wire>>

\* A URL in scope enters the loop; one out of scope raises OutOfScopeRequest.
\* No adapter asks for fewer than 0 redirects, which would be a ValueError.
Begin(url, redirects) ==
  /\ phase = "idle"
  /\ phase' = IF is_in_scope(policy, url) THEN "hop" ELSE "refused"
  /\ max_redirects' = redirects
  /\ current' = url
  /\ chain' = <<>>
  /\ UNCHANGED <<policy, outcome, wire>>

\* Top of the loop: GET the current hop, with the credential if there is one.
\* _auth_headers raises instead should the hop be out of scope.
Request ==
  /\ phase = "hop"
  /\ chain' = Append(chain, current)
  /\ IF policy.auth # NoAuth /\ ~ is_in_scope(policy, current)
     THEN /\ phase' = "refused"
          /\ UNCHANGED wire
     ELSE /\ phase' = "sent"
          /\ wire' = wire \cup {[url |-> current, credential |-> policy.auth]}
  /\ UNCHANGED <<policy, max_redirects, current, outcome>>

\* The response is not a redirect.
Answer ==
  /\ phase = "sent"
  /\ phase' = "outcome"
  /\ outcome' = outcome_of(current, "none")
  /\ UNCHANGED <<policy, callVars, wire>>

\* A redirect that names no location.
MissingLocation ==
  /\ phase = "sent"
  /\ phase' = "outcome"
  /\ outcome' = outcome_of(current, "MISSING_LOCATION")
  /\ UNCHANGED <<policy, callVars, wire>>

\* Variant: the URL that was not followed is reported as the one that responded.
RedirectOutOfScope_as_final(candidate) ==
  /\ phase = "sent"
  /\ ~ is_in_scope(policy, candidate)
  /\ phase' = "outcome"
  /\ outcome' = outcome_of(candidate, "OUT_OF_SCOPE_REDIRECT")
  /\ UNCHANGED <<policy, callVars, wire>>

\* A redirect out of scope is reported, not followed.
RedirectOutOfScope(candidate) ==
  /\ phase = "sent"
  /\ ~ is_in_scope(policy, candidate)
  /\ phase' = "outcome"
  /\ outcome' = outcome_of(current, "OUT_OF_SCOPE_REDIRECT")
  /\ UNCHANGED <<policy, callVars, wire>>

\* Variant: a redirect is followed wherever it leads.
RedirectInScope_unchecked(candidate) ==
  /\ phase = "sent"
  /\ current' = candidate
  /\ IF Len(chain) < max_redirects + 1
     THEN /\ phase' = "hop"
          /\ UNCHANGED outcome
     ELSE /\ phase' = "outcome"
          /\ outcome' = outcome_of(candidate, "TOO_MANY_REDIRECTS")
  /\ UNCHANGED <<policy, max_redirects, chain, wire>>

\* Variant: one redirect too many is followed.
RedirectInScope_one_more(candidate) ==
  /\ phase = "sent"
  /\ is_in_scope(policy, candidate)
  /\ current' = candidate
  /\ IF Len(chain) <= max_redirects + 1
     THEN /\ phase' = "hop"
          /\ UNCHANGED outcome
     ELSE /\ phase' = "outcome"
          /\ outcome' = outcome_of(candidate, "TOO_MANY_REDIRECTS")
  /\ UNCHANGED <<policy, max_redirects, chain, wire>>

\* A redirect in scope is the next hop, if the loop has one left.
RedirectInScope(candidate) ==
  /\ phase = "sent"
  /\ is_in_scope(policy, candidate)
  /\ current' = candidate
  /\ IF Len(chain) < max_redirects + 1
     THEN /\ phase' = "hop"
          /\ UNCHANGED outcome
     ELSE /\ phase' = "outcome"
          /\ outcome' = outcome_of(candidate, "TOO_MANY_REDIRECTS")
  /\ UNCHANGED <<policy, max_redirects, chain, wire>>

\* The request fails or times out: httpx raises.
NetworkError ==
  /\ phase = "sent"
  /\ phase' = "error"
  /\ UNCHANGED <<policy, callVars, outcome, wire>>

\* What comes back, or does not, from the server.
Receive ==
  \/ Answer
  \/ MissingLocation
  \/ \E candidate \in Urls : RedirectOutOfScope(candidate) \/ RedirectInScope(candidate)
  \/ NetworkError

\* The caller is done with the call: its locals are gone.
End ==
  /\ phase' = "idle"
  /\ max_redirects' = 0
  /\ current' = NoUrl
  /\ chain' = <<>>
  /\ outcome' = NoOutcome

=============================================================================
