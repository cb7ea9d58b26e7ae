---------------------------- MODULE Lists_proofs ----------------------------
(***************************************************************************)
(* What filtering, sorting, concatenating, folding and summing lists gives, *)
(* for any list.  The induction the lemmas need is stated of a set of        *)
(* numbers.                                                                *)
(***************************************************************************)
EXTENDS Lists, SequencesExt, FiniteSetsExt, FiniteSetTheorems, SequenceTheorems,
        WellFoundedInduction, TLAPS

\* A set of numbers that has 0 and every successor of its elements has all.
LEMMA SetInduction ==
  ASSUME NEW T, 0 \in T, \A n \in Nat : n \in T => n + 1 \in T
  PROVE  \A n \in Nat : n \in T
<1> SUFFICES ASSUME Nat \ T # {} PROVE FALSE
  OBVIOUS
<1>1. \E m \in Nat \ T : \A n \in Nat \ T : ~ (<<n, m>> \in OpToRel(<, Nat))
  <2> DEFINE U == Nat \ T
  <2>1. U \subseteq Nat /\ U # {}
    OBVIOUS
  <2> HIDE DEF U
  <2>2. \E m \in U : \A n \in U : ~ (<<n, m>> \in OpToRel(<, Nat))
    BY <2>1, NatLessThanWellFounded, WFMin
  <2> QED
    BY <2>2 DEF U
<1>2. PICK m \in Nat \ T : \A n \in Nat \ T : ~ (n < m)
  BY <1>1 DEF OpToRel
<1>3. m # 0 /\ m - 1 \in Nat /\ m - 1 < m /\ (m - 1) + 1 = m
  OBVIOUS
<1> QED
  BY <1>2, <1>3

-----------------------------------------------------------------------------
(***************************************************************************)
(* Sorted lists.                                                           *)
(***************************************************************************)

\* R orders S.
Orders(R, S) ==
  /\ \A x \in S : <<x, x>> \notin R
  /\ \A x, y, z \in S : <<x, y>> \in R /\ <<y, z>> \in R => <<x, z>> \in R
  /\ \A x, y \in S : x # y => <<x, y>> \in R \/ <<y, x>> \in R

Below(S, R, x) == {y \in S : <<y, x>> \in R}

\* What comes later has more before it.
LEMMA RankGrows ==
  ASSUME NEW S, IsFiniteSet(S), NEW R, Orders(R, S), NEW x \in S, NEW y \in S
  PROVE  /\ Cardinality(Below(S, R, x)) \in 0..(Cardinality(S) - 1)
         /\ <<x, y>> \in R <=> Cardinality(Below(S, R, x)) < Cardinality(Below(S, R, y))
<1>1. ASSUME NEW u \in S, NEW v \in S, <<u, v>> \in R
      PROVE  Cardinality(Below(S, R, u)) < Cardinality(Below(S, R, v))
  <2>1. Below(S, R, u) \subseteq Below(S, R, v) /\ u \in Below(S, R, v) /\ u \notin Below(S, R, u)
    BY <1>1 DEF Below, Orders
  <2>2. IsFiniteSet(Below(S, R, v))
    BY FS_Subset DEF Below
  <2> QED
    BY <2>1, <2>2, FS_Subset, FS_CardinalityType
<1>2. \A u \in S : IsFiniteSet(Below(S, R, u)) /\ Cardinality(Below(S, R, u)) \in Nat
  BY FS_Subset, FS_CardinalityType DEF Below
<1>3. Cardinality(Below(S, R, x)) < Cardinality(S)
  <2>1. Below(S, R, x) \subseteq S /\ x \notin Below(S, R, x)
    BY DEF Below, Orders
  <2> QED
    BY <2>1, FS_Subset, FS_CardinalityType
<1>4. Cardinality(S) \in Nat
  BY FS_CardinalityType
<1>5. <<x, y>> \notin R => x = y \/ <<y, x>> \in R
  BY DEF Orders
<1> QED
  BY <1>1, <1>2, <1>3, <1>4, <1>5

\* In a strict order of a finite set, an element is placed by how many are below it.
LEMMA Ranks ==
  ASSUME NEW S, IsFiniteSet(S), NEW R, Orders(R, S)
  PROVE  /\ \A x \in S : Cardinality(Below(S, R, x)) \in 0..(Cardinality(S) - 1)
         /\ \A x, y \in S :
              <<x, y>> \in R <=> Cardinality(Below(S, R, x)) < Cardinality(Below(S, R, y))
BY RankGrows

\* Every rank is taken, for there are as many of them as elements.
LEMMA EveryRankIsTaken ==
  ASSUME NEW S, IsFiniteSet(S), NEW R, Orders(R, S), NEW n \in 0..(Cardinality(S) - 1)
  PROVE  \E x \in S : Cardinality(Below(S, R, x)) = n
<1> DEFINE N == 0..(Cardinality(S) - 1)
           rank == [x \in S |-> Cardinality(Below(S, R, x))]
<1>1. rank \in [S -> N]
  BY Ranks
<1>2. \A x, y \in S : rank[x] = rank[y] => x = y
  <2> SUFFICES ASSUME NEW x \in S, NEW y \in S, x # y PROVE rank[x] # rank[y]
    OBVIOUS
  <2>1. Cardinality(Below(S, R, x)) \in Int /\ Cardinality(Below(S, R, y)) \in Int
    BY Ranks
  <2>2. Cardinality(Below(S, R, x)) < Cardinality(Below(S, R, y))
          \/ Cardinality(Below(S, R, y)) < Cardinality(Below(S, R, x))
    BY Ranks DEF Orders
  <2> QED
    BY <2>1, <2>2
<1>3. IsFiniteSet(N) /\ Cardinality(N) = Cardinality(S)
  BY FS_Interval, FS_CardinalityType
<1>4. {rank[x] : x \in S} = N
  <2> DEFINE I == {rank[x] : x \in S}
  <2>1. rank \in Bijection(S, I)
    BY <1>1, <1>2 DEF Bijection, Injection, Surjection, IsInjective
  <2>2. ExistsBijection(S, I)
    BY <2>1 DEF ExistsBijection
  <2>3. IsFiniteSet(I) /\ Cardinality(I) = Cardinality(S)
    BY <2>2, FS_Bijection
  <2>4. I \subseteq N
    BY <1>1
  <2> HIDE DEF I, N
  <2>5. I = N
    BY <1>3, <2>3, <2>4, FS_Subset
  <2> QED
    BY <2>5 DEF I
<1>5. n \in {rank[x] : x \in S}
  BY <1>4
<1> QED
  BY <1>5

\* A sorted list has every element once, in order.
LEMMA InOrderSorts ==
  ASSUME NEW S, IsFiniteSet(S), NEW R, Orders(R, S)
  PROVE  /\ Cardinality(S) \in Nat
         /\ InOrder(S, R) \in [1..Cardinality(S) -> S]
         /\ \A x \in S : \E k \in 1..Cardinality(S) : InOrder(S, R)[k] = x
         /\ \A j, k \in 1..Cardinality(S) : <<InOrder(S, R)[j], InOrder(S, R)[k]>> \in R <=> j < k
<1>1. Cardinality(S) \in Nat
  BY FS_CardinalityType
<1>2. ASSUME NEW k \in 1..Cardinality(S)
      PROVE  InOrder(S, R)[k] \in S /\ Cardinality(Below(S, R, InOrder(S, R)[k])) = k - 1
  <2>1. \E x \in S : Cardinality(Below(S, R, x)) = k - 1
    BY <1>1, EveryRankIsTaken
  <2>2. InOrder(S, R)[k] = CHOOSE x \in S : Cardinality(Below(S, R, x)) = k - 1
    BY DEF InOrder, Below
  <2> QED
    BY <2>1, <2>2
<1>3. InOrder(S, R) \in [1..Cardinality(S) -> S]
  BY <1>2 DEF InOrder
<1>4. ASSUME NEW j \in 1..Cardinality(S), NEW k \in 1..Cardinality(S)
      PROVE  <<InOrder(S, R)[j], InOrder(S, R)[k]>> \in R <=> j < k
  <2> PICK x \in S, y \in S : x = InOrder(S, R)[j] /\ y = InOrder(S, R)[k]
    BY <1>2
  <2>1. Cardinality(Below(S, R, x)) = j - 1 /\ Cardinality(Below(S, R, y)) = k - 1
    BY <1>2
  <2>2. <<x, y>> \in R <=> Cardinality(Below(S, R, x)) < Cardinality(Below(S, R, y))
    BY Ranks
  <2> QED
    BY <1>1, <2>1, <2>2
<1>5. ASSUME NEW x \in S PROVE \E k \in 1..Cardinality(S) : InOrder(S, R)[k] = x
  <2> DEFINE k == Cardinality(Below(S, R, x)) + 1
  <2>1. k \in 1..Cardinality(S)
    BY <1>1, Ranks
  <2>2. InOrder(S, R)[k] \in S /\ Cardinality(Below(S, R, InOrder(S, R)[k])) = Cardinality(Below(S, R, x))
    BY <1>2, <2>1, Ranks
  <2>3. Cardinality(Below(S, R, x)) \in Int
    BY Ranks
  <2>4. <<InOrder(S, R)[k], x>> \notin R /\ <<x, InOrder(S, R)[k]>> \notin R
    BY <2>2, <2>3, Ranks
  <2> QED
    BY <2>1, <2>2, <2>4 DEF Orders
<1> QED
  BY <1>1, <1>3, <1>4, <1>5

\* An order has one sorted list.
LEMMA InOrderOnce ==
  ASSUME NEW S, IsFiniteSet(S), NEW R, Orders(R, S),
         NEW j \in 1..Cardinality(S), NEW k \in 1..Cardinality(S), InOrder(S, R)[j] = InOrder(S, R)[k]
  PROVE  j = k
<1>1. InOrder(S, R)[j] \in S
  BY InOrderSorts
<1>2. <<InOrder(S, R)[j], InOrder(S, R)[j]>> \notin R
  BY <1>1 DEF Orders
<1>3. ~ (j < k) /\ ~ (k < j)
  BY <1>2, InOrderSorts
<1> QED
  BY <1>3, InOrderSorts

-----------------------------------------------------------------------------
(***************************************************************************)
(* Filtered lists.                                                         *)
(***************************************************************************)

\* What order[k] of s is.
LEMMA PickedElements ==
  ASSUME NEW T, NEW s \in Seq(T), NEW N \in Nat, NEW order \in [1..N -> DOMAIN s]
  PROVE  /\ Picked(s, order) \in Seq(T)
         /\ Len(Picked(s, order)) = N
         /\ DOMAIN Picked(s, order) = 1..N
         /\ \A k \in 1..N : Picked(s, order)[k] = s[order[k]]
<1>1. DOMAIN order = 1..N /\ \A k \in 1..N : order[k] \in DOMAIN s /\ s[order[k]] \in T
  BY ElementOfSeq, LenProperties
<1>2. Picked(s, order) = [k \in 1..N |-> s[order[k]]]
  BY <1>1 DEF Picked
<1>3. Picked(s, order) \in [1..N -> T]
  BY <1>1, <1>2
<1> QED
  BY <1>2, <1>3, IsASeq, LenProperties

\* Numbers are ordered.
LEMMA NumbersOrdered ==
  ASSUME NEW P \in SUBSET Int
  PROVE  /\ Orders({p \in P \X P : p[1] < p[2]}, P)
         /\ \A m, n \in P : <<m, n>> \in {p \in P \X P : p[1] < p[2]} <=> m < n
<1> DEFINE R == {p \in P \X P : p[1] < p[2]}
<1>1. \A m, n \in P : <<m, n>> \in R <=> m < n
  OBVIOUS
<1>2. Orders(R, P)
  <2> HIDE DEF R
  <2> QED
    BY <1>1 DEF Orders
<1> QED
  BY <1>1, <1>2

\* A list that was filtered and sorted has the elements at the positions that
\* were kept, each once, in the order of those positions.
LEMMA SortedElements ==
  ASSUME NEW T, NEW s \in Seq(T), NEW P \in SUBSET DOMAIN s, NEW R, Orders(R, P)
  PROVE  /\ Cardinality(P) \in Nat
         /\ Picked(s, InOrder(P, R)) \in Seq(T)
         /\ Len(Picked(s, InOrder(P, R))) = Cardinality(P)
         /\ DOMAIN Picked(s, InOrder(P, R)) = 1..Cardinality(P)
         /\ \E at \in [1..Cardinality(P) -> P] :
              /\ \A n \in P : \E k \in 1..Cardinality(P) : at[k] = n
              /\ \A j, k \in 1..Cardinality(P) : <<at[j], at[k]>> \in R <=> j < k
              /\ \A k \in 1..Cardinality(P) : Picked(s, InOrder(P, R))[k] = s[at[k]]
<1> DEFINE at == InOrder(P, R)
<1>1. IsFiniteSet(P)
  <2>1. DOMAIN s = 1..Len(s) /\ Len(s) \in Nat
    BY LenProperties
  <2>2. IsFiniteSet(DOMAIN s)
    BY <2>1, FS_Interval
  <2> QED
    BY <2>2, FS_Subset
<1>2. /\ Cardinality(P) \in Nat
      /\ at \in [1..Cardinality(P) -> P]
      /\ \A n \in P : \E k \in 1..Cardinality(P) : at[k] = n
      /\ \A j, k \in 1..Cardinality(P) : <<at[j], at[k]>> \in R <=> j < k
  BY <1>1, InOrderSorts
<1> HIDE DEF at
<1>3. at \in [1..Cardinality(P) -> DOMAIN s]
  BY <1>2
<1>4. /\ Picked(s, at) \in Seq(T)
      /\ Len(Picked(s, at)) = Cardinality(P)
      /\ DOMAIN Picked(s, at) = 1..Cardinality(P)
      /\ \A k \in 1..Cardinality(P) : Picked(s, at)[k] = s[at[k]]
  <2> PICK N \in Nat : N = Cardinality(P)
    BY <1>2
  <2>1. at \in [1..N -> DOMAIN s]
    BY <1>3
  <2>2. /\ Picked(s, at) \in Seq(T)
        /\ Len(Picked(s, at)) = N
        /\ DOMAIN Picked(s, at) = 1..N
        /\ \A k \in 1..N : Picked(s, at)[k] = s[at[k]]
    BY <2>1, PickedElements
  <2> QED
    BY <2>2
<1> QED
  BY <1>2, <1>4 DEF at

\* A filtered list keeps the order its elements had.
LEMMA KeptElements ==
  ASSUME NEW T, NEW s \in Seq(T), NEW P \in SUBSET DOMAIN s
  PROVE  /\ Cardinality(P) \in Nat
         /\ Kept(s, P) \in Seq(T)
         /\ Len(Kept(s, P)) = Cardinality(P)
         /\ DOMAIN Kept(s, P) = 1..Cardinality(P)
         /\ \E at \in [1..Cardinality(P) -> P] :
              /\ \A n \in P : \E k \in 1..Cardinality(P) : at[k] = n
              /\ \A j, k \in 1..Cardinality(P) : j < k <=> at[j] < at[k]
              /\ \A k \in 1..Cardinality(P) : Kept(s, P)[k] = s[at[k]]
<1> DEFINE R == {p \in P \X P : p[1] < p[2]}
<1>1. Kept(s, P) = Picked(s, InOrder(P, R))
  BY DEF Kept
<1>2. Orders(R, P) /\ \A m, n \in P : <<m, n>> \in R <=> m < n
  <2>1. DOMAIN s \subseteq Int
    BY LenProperties
  <2> QED
    BY <2>1, NumbersOrdered
<1> HIDE DEF R
<1>3. /\ Cardinality(P) \in Nat
      /\ Kept(s, P) \in Seq(T)
      /\ Len(Kept(s, P)) = Cardinality(P)
      /\ DOMAIN Kept(s, P) = 1..Cardinality(P)
      /\ \E at \in [1..Cardinality(P) -> P] :
           /\ \A n \in P : \E k \in 1..Cardinality(P) : at[k] = n
           /\ \A j, k \in 1..Cardinality(P) : <<at[j], at[k]>> \in R <=> j < k
           /\ \A k \in 1..Cardinality(P) : Kept(s, P)[k] = s[at[k]]
  BY <1>1, <1>2, SortedElements
<1>4. PICK at \in [1..Cardinality(P) -> P] :
        /\ \A n \in P : \E k \in 1..Cardinality(P) : at[k] = n
        /\ \A j, k \in 1..Cardinality(P) : <<at[j], at[k]>> \in R <=> j < k
        /\ \A k \in 1..Cardinality(P) : Kept(s, P)[k] = s[at[k]]
  BY <1>3
<1>5. \A j, k \in 1..Cardinality(P) : j < k <=> at[j] < at[k]
  BY <1>2, <1>4
<1> QED
  BY <1>3, <1>4, <1>5

\* The places of the elements of a filtered list, in order.
KeptAt(s, P, kept, N, at) ==
  /\ DOMAIN kept = 1..N
  /\ \A n \in P : \E k \in 1..N : at[k] = n
  /\ \A j, k \in 1..N : j < k <=> at[j] < at[k]
  /\ \A k \in 1..N : kept[k] = s[at[k]]

\* What is kept of a sequence comes from its places, one for each and in their order.
LEMMA KeptPlaces ==
  ASSUME NEW T, NEW s \in Seq(T), NEW P \in SUBSET DOMAIN s
  PROVE  \E N \in Nat : \E at \in [1..N -> P] : KeptAt(s, P, Kept(s, P), N, at)
<1> PICK N \in Nat : N = Cardinality(P)
  BY KeptElements
<1> PICK kept : kept = Kept(s, P)
  OBVIOUS
<1>1. DOMAIN kept = 1..N
  BY KeptElements
<1>2. PICK at \in [1..N -> P] :
        /\ \A n \in P : \E k \in 1..N : at[k] = n
        /\ \A j, k \in 1..N : j < k <=> at[j] < at[k]
        /\ \A k \in 1..N : kept[k] = s[at[k]]
  BY KeptElements, SMTT(30)
<1>3. KeptAt(s, P, kept, N, at)
  BY <1>1, <1>2 DEF KeptAt
<1> QED
  BY <1>3

\* The elements of a filtered list.
LEMMA KeptSet ==
  ASSUME NEW T, NEW s \in Seq(T), NEW P \in SUBSET DOMAIN s
  PROVE  ToSet(Kept(s, P)) = {s[n] : n \in P}
<1> PICK N \in Nat : N = Cardinality(P)
  BY KeptElements
<1> PICK L : L = Kept(s, P)
  OBVIOUS
<1>1. DOMAIN L = 1..N
  BY KeptElements
<1>2. PICK at \in [1..N -> P] :
        /\ \A n \in P : \E k \in 1..N : at[k] = n
        /\ \A k \in 1..N : L[k] = s[at[k]]
  BY KeptElements
<1>3. \A n \in P : \E k \in 1..N : L[k] = s[n]
  BY <1>2
<1>4. ToSet(L) = {L[k] : k \in 1..N}
  BY <1>1 DEF ToSet
<1>5. \A k \in 1..N : at[k] \in P /\ L[k] = s[at[k]]
  BY <1>2
<1>6. {L[k] : k \in 1..N} = {s[n] : n \in P}
  <2>1. ASSUME NEW k \in 1..N PROVE L[k] \in {s[n] : n \in P}
    BY <1>5
  <2>2. ASSUME NEW n \in P PROVE s[n] \in {L[k] : k \in 1..N}
    BY <1>3
  <2> QED
    BY <2>1, <2>2
<1> QED
  BY <1>4, <1>6

-----------------------------------------------------------------------------
(***************************************************************************)
(* The order of a report.                                                  *)
(***************************************************************************)

\* Positions of s by severity, then by label, then as they come.
Worse(s, P) ==
  {p \in P \X P :
     LET f == s[p[1]]
         g == s[p[2]]
     IN  \/ f.severity > g.severity
         \/ f.severity = g.severity /\ f.label < g.label
         \/ f.severity = g.severity /\ f.label = g.label /\ p[1] < p[2]}

\* It is an order, also if severities and labels repeat.
LEMMA WorseOrders ==
  ASSUME NEW s, NEW P \in SUBSET Int,
         \A n \in P : s[n].severity \in Int /\ s[n].label \in Int
  PROVE  /\ Orders(Worse(s, P), P)
         /\ \A m, n \in P : <<m, n>> \in Worse(s, P) => s[m].severity >= s[n].severity
<1> DEFINE R == Worse(s, P)
<1>1. \A m, n \in P :
        <<m, n>> \in R <=>
          \/ s[m].severity > s[n].severity
          \/ s[m].severity = s[n].severity /\ s[m].label < s[n].label
          \/ s[m].severity = s[n].severity /\ s[m].label = s[n].label /\ m < n
  BY DEF Worse
<1> HIDE DEF R
<1>2. Orders(R, P)
  <2>1. \A x \in P : <<x, x>> \notin R
    BY <1>1
  <2>2. ASSUME NEW x \in P, NEW y \in P, NEW z \in P, <<x, y>> \in R, <<y, z>> \in R
        PROVE  <<x, z>> \in R
    BY <1>1, <2>2
  <2>3. \A x, y \in P : x # y => <<x, y>> \in R \/ <<y, x>> \in R
    BY <1>1
  <2> QED
    BY <2>1, <2>2, <2>3 DEF Orders
<1> QED
  BY <1>1, <1>2 DEF R


-----------------------------------------------------------------------------
(***************************************************************************)
(* Sums, intervals and concatenations.                                     *)
(***************************************************************************)

\* A finite set in classes: the sum of their sizes is the size of the set.
LEMMA TotalOfClasses ==
  ASSUME NEW U, IsFiniteSet(U), NEW f, NEW g \in [U -> DOMAIN f],
         \A x \in DOMAIN f : f[x] = Cardinality({u \in U : g[u] = x})
  PROVE  Total(f) = Cardinality(U)
<1> DEFINE D == UNION {{x} \X (1..f[x]) : x \in DOMAIN f}
           A(x) == {u \in U : g[u] = x}
           c == [x \in DOMAIN f |-> CHOOSE b : b \in Bijection(A(x), 1..f[x])]
           h == [u \in U |-> <<g[u], c[g[u]][u]>>]
<1>1. ASSUME NEW x \in DOMAIN f
      PROVE  c[x] \in Bijection(A(x), 1..f[x])
  <2>1. A(x) \subseteq U
    OBVIOUS
  <2>2. IsFiniteSet(A(x)) /\ f[x] = Cardinality(A(x))
    BY <2>1, FS_Subset
  <2> HIDE DEF A
  <2>3. f[x] \in Nat
    BY <2>2, FS_CardinalityType
  <2> PICK n \in Nat : n = f[x]
    BY <2>3
  <2>4. IsFiniteSet(1..n)
    BY 1 \in Int, n \in Int, FS_Interval
  <2>5. Cardinality(1..n) = n
    BY 1 \in Int, n \in Int, FS_Interval
  <2>6. ExistsBijection(A(x), 1..n)
    BY <2>2, <2>4, <2>5, FS_SameCardinalityBij
  <2>7. \E b : b \in Bijection(A(x), 1..f[x])
    BY <2>6 DEF ExistsBijection
  <2> QED
    BY <2>7
<1>2. ASSUME NEW x \in DOMAIN f
      PROVE  /\ \A u \in A(x) : c[x][u] \in 1..f[x]
             /\ \A u, v \in A(x) : c[x][u] = c[x][v] => u = v
             /\ \A k \in 1..f[x] : \E u \in A(x) : c[x][u] = k
  <2> HIDE DEF A, c
  <2> QED
    BY <1>1 DEF Bijection, Injection, Surjection, IsInjective
<1> HIDE DEF c
<1>3. \A u \in U : u \in A(g[u])
  OBVIOUS
<1>4. \A x, k : <<x, k>> \in D <=> x \in DOMAIN f /\ k \in 1..f[x]
  OBVIOUS
<1>5. \A p \in D : p = <<p[1], p[2]>>
  OBVIOUS
<1>6. h \in [U -> D]
  <2> HIDE DEF D, A
  <2>1. \A u \in U : <<g[u], c[g[u]][u]>> \in D
    BY <1>2, <1>3, <1>4
  <2> QED
    BY <2>1
<1>7. \A u, v \in U : h[u] = h[v] => u = v
  <2> SUFFICES ASSUME NEW u \in U, NEW v \in U, h[u] = h[v] PROVE u = v
    OBVIOUS
  <2>1. g[u] = g[v] /\ c[g[u]][u] = c[g[u]][v]
    OBVIOUS
  <2>2. u \in A(g[u]) /\ v \in A(g[u]) /\ g[u] \in DOMAIN f
    BY <2>1, <1>3
  <2> QED
    BY <2>1, <2>2, <1>2
<1>8. \A p \in D : \E u \in U : h[u] = p
  <2> SUFFICES ASSUME NEW p \in D PROVE \E u \in U : h[u] = p
    OBVIOUS
  <2>1. p[1] \in DOMAIN f /\ p[2] \in 1..f[p[1]] /\ p = <<p[1], p[2]>>
    BY <1>4, <1>5
  <2>2. PICK u \in A(p[1]) : c[p[1]][u] = p[2]
    BY <2>1, <1>2
  <2>3. u \in U /\ g[u] = p[1]
    OBVIOUS
  <2> QED
    BY <2>1, <2>2, <2>3
<1>9. h \in Bijection(U, D)
  <2> HIDE DEF h, D
  <2> QED
    BY <1>6, <1>7, <1>8 DEF Bijection, Injection, Surjection, IsInjective
<1>10. Cardinality(D) = Cardinality(U)
  <2> HIDE DEF h, D
  <2> QED
    BY <1>9, FS_Bijection DEF ExistsBijection
<1> QED
  BY <1>10 DEF Total

\* The elements at adjacent positions, kept, are that part of the list.
LEMMA KeptInterval ==
  ASSUME NEW T, NEW s \in Seq(T), NEW m \in Nat, NEW n \in Nat, m <= n, n <= Len(s)
  PROVE  /\ Kept(s, (m + 1)..n) \in Seq(T)
         /\ Len(Kept(s, (m + 1)..n)) = n - m
         /\ \A k \in 1..(n - m) : Kept(s, (m + 1)..n)[k] = s[m + k]
<1> DEFINE P == (m + 1)..n
           R == {p \in P \X P : p[1] < p[2]}
<1>1. P \in SUBSET DOMAIN s /\ P \in SUBSET Int
  BY LenProperties
<1>2. IsFiniteSet(P) /\ Cardinality(P) = n - m
  <2>1. IsFiniteSet(P) /\ Cardinality(P) = IF m + 1 > n THEN 0 ELSE n - (m + 1) + 1
    BY m + 1 \in Int, n \in Int, FS_Interval
  <2> QED
    BY <2>1
<1>3. Orders(R, P) /\ \A x, y \in P : <<x, y>> \in R <=> x < y
  <2> HIDE DEF P
  <2> QED
    BY <1>1, NumbersOrdered
<1>4. ASSUME NEW k \in 1..(n - m)
      PROVE  m + k \in P /\ Cardinality(Below(P, R, m + k)) = k - 1
  <2>1. m + k \in P
    OBVIOUS
  <2>2. Below(P, R, m + k) = (m + 1)..(m + k - 1)
    <3>1. \A y : y \in Below(P, R, m + k) <=> y \in P /\ y < m + k
      <4> HIDE DEF P, R
      <4> QED
        BY <1>3, <2>1 DEF Below
    <3>2. \A y : y \in P /\ y < m + k <=> y \in (m + 1)..(m + k - 1)
      OBVIOUS
    <3> QED
      BY <3>1, <3>2
  <2>3. Cardinality((m + 1)..(m + k - 1))
          = IF m + 1 > m + k - 1 THEN 0 ELSE (m + k - 1) - (m + 1) + 1
    BY m + 1 \in Int, m + k - 1 \in Int, FS_Interval
  <2> QED
    BY <2>1, <2>2, <2>3
<1>5. ASSUME NEW k \in 1..(n - m)
      PROVE  InOrder(P, R)[k] = m + k
  <2>1. InOrder(P, R)[k] = CHOOSE x \in P : Cardinality(Below(P, R, x)) = k - 1
    <3> HIDE DEF P, R
    <3> QED
      BY <1>2 DEF InOrder, Below
  <2>2. ASSUME NEW x \in P, Cardinality(Below(P, R, x)) = k - 1
        PROVE  x = m + k
    <3>1. m + k \in P /\ Cardinality(Below(P, R, m + k)) = k - 1
      BY <1>4
    <3>2. ~ (x < m + k) /\ ~ (m + k < x)
      <4> HIDE DEF P, R
      <4>1. \A y, z \in P : <<y, z>> \in R <=> Cardinality(Below(P, R, y)) < Cardinality(Below(P, R, z))
        BY <1>2, <1>3, Ranks
      <4>2. \A y \in P : Cardinality(Below(P, R, y)) = k - 1 => ~ (x < y) /\ ~ (y < x)
        <5> SUFFICES ASSUME NEW y \in P, Cardinality(Below(P, R, y)) = k - 1
                     PROVE  ~ (x < y) /\ ~ (y < x)
          OBVIOUS
        <5>1. /\ <<x, y>> \in R <=> Cardinality(Below(P, R, x)) < Cardinality(Below(P, R, y))
              /\ <<y, x>> \in R <=> Cardinality(Below(P, R, y)) < Cardinality(Below(P, R, x))
          BY <4>1
        <5>2. ~ (k - 1 < k - 1)
          OBVIOUS
        <5>3. <<x, y>> \notin R /\ <<y, x>> \notin R
          BY <2>2, <5>1, <5>2
        <5> QED
          BY <1>3, <5>3
      <4> QED
        BY <3>1, <4>2
    <3> QED
      BY <3>2
  <2> HIDE DEF P, R
  <2> QED
    BY <1>4, <2>1, <2>2
<1>a. PICK order : order = InOrder(P, R)
  OBVIOUS
<1>b. PICK N \in Nat : N = n - m
  OBVIOUS
<1>6. order \in [1..N -> DOMAIN s] /\ \A k \in 1..N : order[k] = m + k
  <2>1. order \in [1..N -> P]
    <3> HIDE DEF P, R
    <3> QED
      BY <1>a, <1>b, <1>2, <1>3, InOrderSorts
  <2> QED
    BY <1>a, <1>b, <1>1, <1>5, <2>1
<1>7. Kept(s, P) = Picked(s, order)
  BY <1>a DEF Kept
<1>8. /\ Picked(s, order) \in Seq(T)
      /\ Len(Picked(s, order)) = N
      /\ \A k \in 1..N : Picked(s, order)[k] = s[order[k]]
  BY <1>6, PickedElements
<1> QED
  BY <1>b, <1>6, <1>7, <1>8


\* The concatenations of the first lists, list by list.
Join(f, s, i) == IF i = 1 THEN s[i] ELSE f[i - 1] \o s[i]

Joins(T, s, n) == {f \in [1..n -> Seq(T)] : \A i \in 1..n : f[i] = Join(f, s, i)}

\* Each step of a concatenation gives a sequence of the same elements.
LEMMA JoinTyped ==
  ASSUME NEW T, NEW N \in Nat, NEW s \in [1..N -> Seq(T)], NEW i \in 1..N, NEW f,
         i # 1 => f[i - 1] \in Seq(T)
  PROVE  Join(f, s, i) \in Seq(T)
<1>1. s[i] \in Seq(T)
  OBVIOUS
<1>2. CASE i = 1
  BY <1>1, <1>2 DEF Join
<1>3. CASE i # 1
  <2>1. f[i - 1] \o s[i] \in Seq(T)
    BY <1>1, <1>3, ConcatProperties
  <2> QED
    BY <1>3, <2>1 DEF Join
<1> QED
  BY <1>2, <1>3

\* A list of sequences of any length has its concatenation.
LEMMA JoinsExist ==
  ASSUME NEW T, NEW N \in Nat, NEW s \in [1..N -> Seq(T)]
  PROVE  \E f : f \in Joins(T, s, N)
<1> DEFINE E == {n \in Nat : n <= N => \E f : f \in Joins(T, s, n)}
<1>1. 0 \in E
  <2>1. [i \in 1..0 |-> s[i]] \in Joins(T, s, 0)
    BY DEF Joins
  <2> QED
    BY <2>1
<1>2. ASSUME NEW n \in Nat, n \in E
      PROVE  n + 1 \in E
  <2> SUFFICES ASSUME n + 1 <= N PROVE \E f : f \in Joins(T, s, n + 1)
    OBVIOUS
  <2>a. PICK f : f \in Joins(T, s, n)
    BY <1>2
  <2>1. f \in [1..n -> Seq(T)] /\ \A i \in 1..n : f[i] = Join(f, s, i)
    BY <2>a DEF Joins
  <2>b. PICK g : g = [i \in 1..(n + 1) |-> IF i = n + 1 THEN Join(f, s, n + 1) ELSE f[i]]
    OBVIOUS
  <2>2. Join(f, s, n + 1) \in Seq(T)
    <3>1. n + 1 \in 1..N /\ (n + 1 # 1 => (n + 1) - 1 \in 1..n)
      OBVIOUS
    <3> QED
      BY <2>1, <3>1, JoinTyped
  <2>3. /\ g \in [1..(n + 1) -> Seq(T)]
        /\ g[n + 1] = Join(f, s, n + 1)
        /\ \A i \in 1..n : g[i] = f[i]
    BY <2>b, <2>1, <2>2
  <2>4. ASSUME NEW i \in 1..(n + 1)
        PROVE  g[i] = Join(g, s, i)
    <3>1. Join(g, s, i) = Join(f, s, i)
      <4>1. i # 1 => i - 1 \in 1..n
        OBVIOUS
      <4>2. i # 1 => g[i - 1] = f[i - 1]
        BY <2>3, <4>1
      <4> QED
        BY <4>2, Zenon DEF Join
    <3>2. i \in 1..n \/ i = n + 1
      OBVIOUS
    <3> QED
      BY <2>1, <2>3, <3>1, <3>2
  <2>5. g \in Joins(T, s, n + 1)
    BY <2>3, <2>4 DEF Joins
  <2> QED
    BY <2>5
<1> HIDE DEF E
<1>3. N \in E
  BY <1>1, <1>2, SetInduction
<1> QED
  BY <1>3 DEF E

\* FlattenSeq is the last of them.
LEMMA FlattenJoins ==
  ASSUME NEW T, NEW N \in Nat, N # 0, NEW s \in [1..N -> Seq(T)]
  PROVE  \E f : f \in Joins(T, s, N) /\ FlattenSeq(s) = f[N]
<1>1. Len(s) = N
  <2>1. s \in Seq(Seq(T))
    BY IsASeq
  <2> QED
    BY <2>1, LenProperties
<1> DEFINE Step(f) == [i \in 1..N |-> IF i = 1 THEN s[i] ELSE f[i - 1] \o s[i]]
<1>2. PICK e : e \in Joins(T, s, N)
  BY JoinsExist
<1>3. e = Step(e)
  <2>1. e \in [1..N -> Seq(T)] /\ \A i \in 1..N : e[i] = Join(e, s, i)
    BY <1>2 DEF Joins
  <2>2. Step(e) = [i \in 1..N |-> Join(e, s, i)]
    BY DEF Join
  <2> HIDE DEF Step
  <2> QED
    BY <2>1, <2>2
<1>4. PICK f : f = CHOOSE h : h = Step(h)
  OBVIOUS
<1>5. f = Step(f)
  <2> HIDE DEF Step
  <2> QED
    BY <1>3, <1>4
<1>6. FlattenSeq(s) = f[N]
  BY <1>1, <1>4 DEF FlattenSeq
<1>7. f = [i \in 1..N |-> Join(f, s, i)]
  BY <1>5 DEF Join
<1>8. DOMAIN f = 1..N /\ \A i \in 1..N : f[i] = Join(f, s, i)
  BY <1>7
<1>9. \A i \in 1..N : f[i] \in Seq(T)
  <2> DEFINE E == {n \in Nat : n + 1 \in 1..N => f[n + 1] \in Seq(T)}
  <2>1. 0 \in E
    <3>1. 1 \in 1..N => Join(f, s, 1) \in Seq(T)
      BY JoinTyped
    <3> QED
      BY <1>8, <3>1
  <2>2. ASSUME NEW n \in Nat, n \in E
        PROVE  n + 1 \in E
    <3> SUFFICES ASSUME (n + 1) + 1 \in 1..N PROVE f[(n + 1) + 1] \in Seq(T)
      OBVIOUS
    <3>a. PICK m \in 1..N : m = (n + 1) + 1
      OBVIOUS
    <3>1. f[m - 1] \in Seq(T)
      BY <2>2, <3>a
    <3>2. Join(f, s, m) \in Seq(T)
      BY <3>1, JoinTyped
    <3>3. f[m] = Join(f, s, m)
      BY <1>8
    <3> QED
      BY <3>a, <3>2, <3>3
  <2> HIDE DEF E
  <2>3. \A n \in Nat : n \in E
    BY <2>1, <2>2, SetInduction
  <2>4. \A i \in 1..N : i - 1 \in Nat /\ (i - 1) + 1 = i
    OBVIOUS
  <2> QED
    BY <2>3, <2>4 DEF E
<1>10. f \in [1..N -> Seq(T)]
  BY <1>8, <1>9, <1>7
<1> QED
  BY <1>6, <1>8, <1>10 DEF Joins

\* The elements of a concatenation are those of its two parts.
LEMMA ConcatElements ==
  ASSUME NEW T, NEW s \in Seq(T), NEW t \in Seq(T)
  PROVE  ToSet(s \o t) = ToSet(s) \cup ToSet(t)
<1>a. PICK m \in Nat : m = Len(s)
  BY LenProperties
<1>b. PICK n \in Nat : n = Len(t)
  BY LenProperties
<1>c. PICK u : u = s \o t
  OBVIOUS
<1>1. /\ u \in Seq(T) /\ Len(u) = m + n
      /\ \A i \in 1..(m + n) : u[i] = IF i <= m THEN s[i] ELSE t[i - m]
  BY <1>a, <1>b, <1>c, ConcatProperties
<1>2. DOMAIN s = 1..m /\ DOMAIN t = 1..n /\ DOMAIN u = 1..(m + n)
  BY <1>a, <1>b, <1>1, LenProperties
<1>3. ASSUME NEW x \in ToSet(u) PROVE x \in ToSet(s) \cup ToSet(t)
  <2>1. PICK i \in 1..(m + n) : x = u[i]
    BY <1>2 DEF ToSet
  <2>2. CASE i <= m
    <3>1. i \in 1..m /\ x = s[i]
      BY <1>1, <2>1, <2>2
    <3> QED
      BY <1>2, <3>1 DEF ToSet
  <2>3. CASE ~ (i <= m)
    <3>1. i - m \in 1..n /\ x = t[i - m]
      BY <1>1, <2>1, <2>3
    <3> QED
      BY <1>2, <3>1 DEF ToSet
  <2> QED
    BY <2>2, <2>3
<1>4. ASSUME NEW x \in ToSet(s) PROVE x \in ToSet(u)
  <2>1. PICK i \in 1..m : x = s[i]
    BY <1>2 DEF ToSet
  <2>2. i \in 1..(m + n) /\ i <= m
    OBVIOUS
  <2>3. u[i] = x
    BY <1>1, <2>1, <2>2
  <2> QED
    BY <1>2, <2>2, <2>3 DEF ToSet
<1>5. ASSUME NEW x \in ToSet(t) PROVE x \in ToSet(u)
  <2>1. PICK i \in 1..n : x = t[i]
    BY <1>2 DEF ToSet
  <2>2. m + i \in 1..(m + n) /\ ~ (m + i <= m) /\ (m + i) - m = i
    OBVIOUS
  <2>3. u[m + i] = x
    BY <1>1, <2>1, <2>2
  <2> QED
    BY <1>2, <2>2, <2>3 DEF ToSet
<1> QED
  BY <1>c, <1>3, <1>4, <1>5

\* A concatenation of lists has the elements of each.
LEMMA FlattenElements ==
  ASSUME NEW T, NEW N \in Nat, N # 0, NEW s \in [1..N -> Seq(T)]
  PROVE  /\ FlattenSeq(s) \in Seq(T)
         /\ ToSet(FlattenSeq(s)) = UNION {ToSet(s[i]) : i \in 1..N}
<1>1. PICK f : f \in Joins(T, s, N) /\ FlattenSeq(s) = f[N]
  BY FlattenJoins
<1>2. f \in [1..N -> Seq(T)] /\ \A i \in 1..N : f[i] = Join(f, s, i)
  BY <1>1 DEF Joins
<1> DEFINE E == {n \in Nat : n + 1 \in 1..N => ToSet(f[n + 1]) = UNION {ToSet(s[i]) : i \in 1..(n + 1)}}
<1>3. 0 \in E
  <2> SUFFICES ASSUME 1 \in 1..N PROVE ToSet(f[1]) = UNION {ToSet(s[i]) : i \in 1..1}
    OBVIOUS
  <2>1. f[1] = s[1]
    BY <1>2 DEF Join
  <2>2. \A i : i \in 1..1 <=> i = 1
    OBVIOUS
  <2> QED
    BY <2>1, <2>2
<1>4. ASSUME NEW n \in Nat, n \in E
      PROVE  n + 1 \in E
  <2> SUFFICES ASSUME (n + 1) + 1 \in 1..N
               PROVE  ToSet(f[(n + 1) + 1]) = UNION {ToSet(s[i]) : i \in 1..((n + 1) + 1)}
    OBVIOUS
  <2>a. PICK m \in 1..N : m = n + 1
    OBVIOUS
  <2>b. PICK k \in 1..N : k = (n + 1) + 1 /\ k - 1 = m /\ k # 1
    BY <2>a
  <2>1. ToSet(f[m]) = UNION {ToSet(s[i]) : i \in 1..m}
    BY <1>4, <2>a
  <2>2. f[k] = f[m] \o s[k]
    <3>1. f[k] = Join(f, s, k)
      BY <1>2
    <3> QED
      BY <2>b, <3>1 DEF Join
  <2>3. f[m] \in Seq(T) /\ s[k] \in Seq(T)
    BY <1>2
  <2>4. ToSet(f[k]) = ToSet(f[m]) \cup ToSet(s[k])
    BY <2>2, <2>3, ConcatElements
  <2>5. \A i : i \in 1..k <=> i \in 1..m \/ i = k
    BY <2>b
  <2> DEFINE G(i) == ToSet(s[i])
  <2>6. UNION {G(i) : i \in 1..k} = (UNION {G(i) : i \in 1..m}) \cup G(k)
    <3> HIDE DEF G
    <3> QED
      BY <2>5
  <2> QED
    BY <2>b, <2>1, <2>4, <2>6
<1> HIDE DEF E
<1>5. N - 1 \in E /\ (N - 1) + 1 = N /\ N \in 1..N
  <2>1. \A n \in Nat : n \in E
    BY <1>3, <1>4, SetInduction
  <2>2. N - 1 \in Nat /\ (N - 1) + 1 = N /\ N \in 1..N
    OBVIOUS
  <2> QED
    BY <2>1, <2>2
<1>6. ToSet(f[N]) = UNION {ToSet(s[i]) : i \in 1..N}
  BY <1>5 DEF E
<1>7. f[N] \in Seq(T)
  BY <1>2, <1>5
<1> QED
  BY <1>1, <1>6, <1>7

=============================================================================
