----------------------------- MODULE MCPipeline -----------------------------
(***************************************************************************)
(* Instances of Pipeline for TLC.                                          *)
(***************************************************************************)
EXTENDS Readout, TLC

CONSTANTS s1, s2, s3, s4, k1, k2, r1, r2

d(k, sev) == [key |-> k, severity |-> sev]

\* One issue; two issues in either order; one issue twice and a second one:
\* scans that overlap in nothing, in part or in all.
MixedCaptures == {<<d(k1, 0)>>, <<d(k1, 1), d(k2, 0)>>, <<d(k2, 1), d(k1, 0)>>}

RepeatCaptures == {<<d(k1, 0), d(k1, 1)>>, <<d(k2, 0), d(k1, 0), d(k2, 1)>>, <<d(k1, 1)>>}

OneCapture == {<<d(k1, 0)>>}

\* One issue at each of three severities.
RisingCaptures == {<<d(k1, n)>> : n \in 0..2}

\* One issue, mild, or severe and then mild again within one scan.
AgainCaptures == {<<d(k1, 0)>>, <<d(k1, 1), d(k1, 0)>>}

\* What security_headers captures of two targets that redirect to one page,
\* a page that lacks one header.
A == INSTANCE Adapters

Landing ==
  [url |-> [scheme |-> "https", page |-> "landing", spelling |-> "lower"],
   headers |-> {A!HeaderRules[n].check : n \in 2..Len(A!HeaderRules)}]

Landed ==
  LET drafts == A!parse_output("security_headers", Landing)
  IN  [n \in DOMAIN drafts |-> d(A!dedup_key(drafts[n]), drafts[n].rule.severity)]

LandingCaptures == {Landed, Landed \o Landed}

LandingKeys == {Landed[n].key : n \in DOMAIN Landed}

ReviewSymmetry == Permutations(Scans) \cup Permutations(Reviews)

=============================================================================
