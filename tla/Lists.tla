------------------------------- MODULE Lists -------------------------------
(***************************************************************************)
(* Filtered and sorted lists, by the rank of their elements: element k is   *)
(* the one with k - 1 others before it.  They are what SelectSeq and         *)
(* SetToSortSeq give, in a form that a proof can unfold.                    *)
(***************************************************************************)
EXTENDS Integers, Sequences, FiniteSets

\* The elements of S in the order of R, a set of pairs.
InOrder(S, R) ==
  [k \in 1..Cardinality(S) |-> CHOOSE x \in S : Cardinality({y \in S : <<y, x>> \in R}) = k - 1]

\* The elements of s at the positions in order.
Picked(s, order) == [k \in DOMAIN order |-> s[order[k]]]

\* The elements of s at the positions in P, as they come.
Kept(s, P) == Picked(s, InOrder(P, {p \in P \X P : p[1] < p[2]}))

\* The sum of the values of f, as the size of a disjoint union.
Total(f) == Cardinality(UNION {{x} \X (1..f[x]) : x \in DOMAIN f})

=============================================================================
