------------------------------- MODULE Scope -------------------------------
(***************************************************************************)
(* An engagement's scope (provx_sdk/scope.py): which URLs a scan may reach. *)
(* A host is the sequence of its labels, most specific first; an IP literal *)
(* is one label.  A host can be written in several ways - case, a trailing  *)
(* dot, a hexadecimal address - so what a URL or a rule holds is a spelling *)
(* [host, form], and only the form is lost by canonical_host.  A wildcard   *)
(* rule is over a name, never over an IP literal.  A name is never resolved, *)
(* so only an IP literal can be dangerous (KI-003).                         *)
(***************************************************************************)
EXTENDS Naturals, Sequences

CONSTANTS
  Labels,           \* the labels of host names, and the IP literals
  DangerousHosts    \* IP literals in private, reserved or multicast ranges

ALLOWED_SCHEMES == {"http", "https"}

canonical_host(spelling) == spelling.host

is_dangerous_host(host) == host \in DangerousHosts

\* host is the apex or a name below it.
Beneath(host, apex) ==
  /\ apex # <<>>
  /\ Len(apex) <= Len(host)
  /\ SubSeq(host, Len(host) - Len(apex) + 1, Len(host)) = apex

\* An allow rule is for one host, unless it is a wildcard.
matches_allow(host, rule) ==
  LET apex == canonical_host(rule.spelled)
  IN  IF rule.wildcard THEN Beneath(host, apex) ELSE host = apex

\* A deny rule covers everything beneath it, wildcard or not.
matches_deny(host, rule) == Beneath(host, canonical_host(rule.spelled))

\* Deny first; what no allow rule matches is out of scope, and so is what is
\* not a web URL.
is_in_scope(policy, url) ==
  LET host == canonical_host(url.host)
  IN  /\ url.scheme \in ALLOWED_SCHEMES
      /\ is_dangerous_host(host) => policy.allow_dangerous_ranges
      /\ ~ \E rule \in policy.deny : matches_deny(host, rule)
      /\ \E rule \in policy.allow : matches_allow(host, rule)

=============================================================================
