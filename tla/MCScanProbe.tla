---------------------------- MODULE MCScanProbe ----------------------------
(***************************************************************************)
(* Instances of ScanProbe for TLC: example.com with a subdomain, a host of  *)
(* somebody else's, and a loopback address.                                *)
(***************************************************************************)
EXTENDS ScanProbe

CONSTANTS example, app, other, loopback, token

apex     == <<example>>
sub      == <<app, example>>
elsewhere == <<other>>
local    == <<loopback>>

as(host, form) == [host |-> host, form |-> form]

at(scheme, spelled) == [scheme |-> scheme, host |-> spelled, path |-> "/"]

home      == at("https", as(apex, 1))
upgraded  == at("https", as(sub, 2))
cleartext == at("http", as(sub, 1))
foreign   == at("https", as(elsewhere, 1))
metadata  == at("http", as(local, 2))
file      == at("ftp", as(apex, 1))

Pages == {home, upgraded, cleartext, foreign, metadata, file}

MCUrls == Pages \cup {[u EXCEPT !.path = "security.txt"] : u \in Pages}

MCLabels == {example, app, other, loopback}

MCDangerousHosts == {local}

rule(wildcard, spelled) == [wildcard |-> wildcard, spelled |-> spelled]

MCAdapters ==
  {[name |-> n, safety |-> "passive"] : n \in {"security_headers", "wellknown", "tls"}}
    \cup {[name |-> "plugin", safety |-> "active"]}

e(mode, allow, deny, targets, auth) ==
  [mode |-> mode, scope_allow |-> allow, scope_deny |-> deny,
   targets |-> targets, auth |-> auth]

everywhere == rule(TRUE, as(apex, 2))
onlyOther  == rule(FALSE, as(elsewhere, 2))
noApex     == rule(FALSE, as(apex, 2))
onlySub    == rule(FALSE, as(sub, 2))
loopIn     == rule(FALSE, as(local, 1))

\* A wildcard scope; one with a subdomain carved out of it, in the other
\* spelling; one that allows a loopback address; one of two names where the
\* denial of the first covers what is beneath it; an empty one; an active one;
\* one in a mode the program does not know.
MCEngagements ==
  {e("passive", {everywhere}, {}, <<home, cleartext>>, token),
   e("passive", {everywhere}, {onlySub}, <<cleartext, home>>, NoAuth),
   e("passive", {onlySub, loopIn}, {}, <<metadata, upgraded>>, NoAuth),
   e("passive", {everywhere, onlyOther}, {noApex}, <<home, foreign>>, token),
   e("passive", {}, {}, <<home>>, token),
   e("active", {everywhere}, {}, <<file, upgraded>>, token),
   e("stealth", {everywhere}, {}, <<home>>, NoAuth)}

=============================================================================
