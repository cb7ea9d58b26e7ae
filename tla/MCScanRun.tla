----------------------------- MODULE MCScanRun -----------------------------
(***************************************************************************)
(* Instances of ScanRun for TLC: one page of example.com, one of a subdomain *)
(* that is carved out of the scope, one of somebody else's host.            *)
(***************************************************************************)
EXTENDS ScanRun

CONSTANTS example, app, other, q1, q2, q3, k1, k2

spell(host) == [host |-> host, form |-> 1]

page(host) == [scheme |-> "https", host |-> spell(host), path |-> "/"]

home    == page(<<example>>)
carved  == page(<<app, example>>)
foreign == page(<<other>>)

MCUrls == {home, carved, foreign}

MCLabels == {example, app, other}

MCAdapters == {[name |-> "security_headers", safety |-> "passive"]}

MCEngagements ==
  {[mode |-> "passive",
    scope_allow |-> {[wildcard |-> TRUE, spelled |-> spell(<<example>>)]},
    scope_deny |-> {[wildcard |-> FALSE, spelled |-> spell(<<app, example>>)]},
    targets |-> <<home>>, auth |-> auth] : auth \in AuthCredential \cup {NoAuth}}

\* One of the three credential requests is over when the scan is asked for; a
\* credential it set is sealed under k1 (the secrets are interchangeable).
\* safe_mode lets a passive scan pass, and is left as it ships.
MCRunInit ==
  /\ RunInit
  /\ {r \in Requests : request[r].at = "answered"} = {q1}
  /\ \A c \in credential : c.sealed = k1
  /\ safe_mode = TRUE

MCRunSpec == MCRunInit /\ [][RunNext]_runVars /\ RunFairness

=============================================================================
