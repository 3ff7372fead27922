------------------------- MODULE SubsequencesProofs -------------------------
(***************************************************************************)
(* What InOrder and ElementsAt return.  Induction is by the least          *)
(* counterexample, a fact about a set of numbers.                          *)
(***************************************************************************)
EXTENDS Subsequences, SequenceTheorems, FiniteSetTheorems, WellFoundedInduction, TLAPS

\* Every non-empty set of natural numbers has a least element.
LEMMA LeastNumber ==
  ASSUME NEW T, T \subseteq Nat, T # {}
  PROVE  \E n \in T : \A m \in T : n <= m
<1> DEFINE R == OpToRel(<, Nat)
<1>1. R = {ss \in Nat \X Nat : ss[1] < ss[2]} BY DEF OpToRel
<1>2. IsWellFoundedOn(R, Nat) BY NatLessThanWellFounded, Zenon
<1> HIDE DEF R
<1>3. PICK n \in T : \A m \in T : ~(<<m, n>> \in R) BY <1>2, WFMin
<1>4. \A m \in T : n <= m
  <2> SUFFICES ASSUME NEW m \in T, ~(n <= m) PROVE FALSE OBVIOUS
  <2>1. m \in Nat /\ n \in Nat /\ m < n OBVIOUS
  <2>2. <<m, n>> \in R BY <1>1, <2>1
  <2> QED BY <1>3, <2>2
<1> QED BY <1>4

\* A set of positions is finite, and has no more elements than there are positions.
LEMMA PositionsFinite ==
  ASSUME NEW m \in Nat, NEW I \in SUBSET (1..m)
  PROVE  IsFiniteSet(I) /\ Cardinality(I) \in Nat /\ Cardinality(I) <= m
<1>1. IsFiniteSet(1..m) /\ Cardinality(1..m) = m BY FS_Interval
<1>2. IsFiniteSet(I) /\ Cardinality(I) <= Cardinality(1..m) BY <1>1, FS_Subset
<1>3. Cardinality(I) \in Nat BY <1>2, FS_CardinalityType
<1> QED BY <1>1, <1>2, <1>3

\* One more number, larger than the others, comes last.
LEMMA AddLargest ==
  ASSUME NEW I, IsFiniteSet(I), I \subseteq Nat, NEW m \in Nat, \A i \in I : i < m,
         NEW f \in [1..Cardinality(I) -> I], Enumerates(f, I)
  PROVE  LET n == Cardinality(I) + 1
             g == [k \in 1..n |-> IF k = n THEN m ELSE f[k]]
         IN  /\ Cardinality(I \cup {m}) = n
             /\ g \in [1..Cardinality(I \cup {m}) -> I \cup {m}]
             /\ Enumerates(g, I \cup {m})
<1> DEFINE c == Cardinality(I)
           n == c + 1
           g == [k \in 1..n |-> IF k = n THEN m ELSE f[k]]
<1>1. c \in Nat BY FS_CardinalityType
<1>2. m \notin I BY SMT
<1>3. Cardinality(I \cup {m}) = n BY <1>2, FS_AddElement
<1>4. \A k \in 1..n : k = n \/ k \in 1..c BY <1>1
<1>5. n \in 1..n /\ \A k \in 1..c : k \in 1..n /\ k # n BY <1>1
<1>6. g \in [1..n -> I \cup {m}] BY <1>4
<1>7. ASSUME NEW k \in 1..n, NEW l \in 1..n, k < l PROVE g[k] < g[l]
  <2>1. k \in 1..c BY <1>1, <1>7
  <2>2. k # n /\ f[k] \in I BY <1>5, <2>1
  <2>3. CASE l = n BY <2>2, <2>3
  <2>4. CASE l # n
    <3>1. l \in 1..c BY <1>4, <2>4
    <3> QED BY <1>7, <2>1, <2>2, <2>4, <3>1 DEF Enumerates
  <2> QED BY <2>3, <2>4
<1>8. ASSUME NEW i \in I \cup {m} PROVE \E k \in 1..n : g[k] = i
  <2>1. CASE i = m BY <1>5, <2>1
  <2>2. CASE i \in I
    <3>1. PICK k \in 1..c : f[k] = i BY <2>2 DEF Enumerates
    <3>2. k \in 1..n /\ g[k] = i BY <1>5, <3>1
    <3> QED BY <3>2
  <2> QED BY <2>1, <2>2
<1>9. Enumerates(g, I \cup {m}) BY <1>3, <1>7, <1>8 DEF Enumerates
<1> QED BY <1>3, <1>6, <1>9

\* Positions can be enumerated in their order.
LEMMA EnumerationExists ==
  ASSUME NEW m \in Nat, NEW I \in SUBSET (1..m)
  PROVE  \E f \in [1..Cardinality(I) -> I] : Enumerates(f, I)
<1> DEFINE Bad == {n \in Nat : \E J \in SUBSET (1..n) :
                     ~\E f \in [1..Cardinality(J) -> J] : Enumerates(f, J)}
<1> SUFFICES ASSUME Bad # {} PROVE FALSE OBVIOUS
<1>1. PICK n \in Bad : \A k \in Bad : n <= k
  <2>1. Bad \subseteq Nat OBVIOUS
  <2> HIDE DEF Bad
  <2> QED BY <2>1, LeastNumber
<1>2. PICK J \in SUBSET (1..n) : ~\E f \in [1..Cardinality(J) -> J] : Enumerates(f, J)
  OBVIOUS
<1>3. n \in Nat OBVIOUS
<1>4. CASE J = {}
  <2>1. Cardinality(J) = 0 BY <1>4, FS_EmptySet
  <2>2. [k \in 1..0 |-> k] \in [1..Cardinality(J) -> J] BY <2>1
  <2>3. \A f : Enumerates(f, J) BY <1>4, <2>1 DEF Enumerates
  <2> QED BY <1>2, <2>2, <2>3
<1>5. CASE J # {}
  <2>1. n # 0
    <3> SUFFICES ASSUME n = 0 PROVE FALSE OBVIOUS
    <3>1. 1..n = {} OBVIOUS
    <3> QED BY <1>5, <3>1
  <2>2. n - 1 \in Nat /\ n - 1 \notin Bad
    <3>1. n - 1 \in Nat /\ ~(n <= n - 1) BY <1>3, <2>1
    <3> HIDE DEF Bad
    <3> QED BY <1>1, <3>1
  <2>3. \A K \in SUBSET (1..(n - 1)) : \E f \in [1..Cardinality(K) -> K] : Enumerates(f, K)
    BY <2>2
  <2>4. CASE n \notin J
    <3>1. J \in SUBSET (1..(n - 1)) BY <1>3, <2>4
    <3> QED BY <1>2, <2>3, <3>1
  <2>5. CASE n \in J
    <3> DEFINE K == J \ {n}
    <3>1. K \in SUBSET (1..(n - 1)) BY <1>3
    <3>2. PICK f \in [1..Cardinality(K) -> K] : Enumerates(f, K) BY <2>3, <3>1
    <3>3. IsFiniteSet(K) /\ K \subseteq Nat /\ \A i \in K : i < n
      BY <1>3, <2>2, <3>1, PositionsFinite
    <3>4. J = K \cup {n} BY <2>5
    <3> HIDE DEF K
    <3>5. \E g \in [1..Cardinality(J) -> J] : Enumerates(g, J)
      BY <1>3, <3>2, <3>3, <3>4, AddLargest
    <3> QED BY <1>2, <3>5
  <2> QED BY <2>4, <2>5
<1> QED BY <1>4, <1>5

\* InOrder enumerates.
LEMMA InOrderEnumerates ==
  ASSUME NEW m \in Nat, NEW I \in SUBSET (1..m)
  PROVE  InOrder(I) \in [1..Cardinality(I) -> I] /\ Enumerates(InOrder(I), I)
BY EnumerationExists DEF InOrder

\* There is only one enumeration.
LEMMA EnumerationUnique ==
  ASSUME NEW m \in Nat, NEW I \in SUBSET (1..m),
         NEW f \in [1..Cardinality(I) -> I], Enumerates(f, I),
         NEW g \in [1..Cardinality(I) -> I], Enumerates(g, I)
  PROVE  f = g
<1> DEFINE c == Cardinality(I)
           Diff == {k \in 1..c : f[k] # g[k]}
<1>0. c \in Nat /\ I \subseteq Nat BY PositionsFinite
<1> SUFFICES ASSUME Diff # {} PROVE FALSE
  BY <1>0
<1>1. PICK k \in Diff : \A l \in Diff : k <= l
  <2>1. Diff \subseteq Nat BY <1>0
  <2> HIDE DEF Diff
  <2> QED BY <2>1, LeastNumber
<1>2. k \in 1..c /\ f[k] # g[k] /\ f[k] \in I /\ g[k] \in I OBVIOUS
<1>3. \A l \in 1..c : l < k => f[l] = g[l] BY <1>0, <1>1
<1>4. /\ \A i, j \in 1..c : i < j => f[i] < f[j]
      /\ \A i, j \in 1..c : i < j => g[i] < g[j]
  BY DEF Enumerates
<1>5. PICK a \in 1..c : f[a] = g[k] BY <1>2 DEF Enumerates
<1>6. PICK b \in 1..c : g[b] = f[k] BY <1>2 DEF Enumerates
<1>7. f[k] \in Nat /\ g[k] \in Nat /\ f[a] \in Nat /\ g[b] \in Nat BY <1>0, <1>2, <1>5, <1>6
<1>8. a >= k
  <2> SUFFICES ASSUME a < k PROVE FALSE BY <1>0
  <2>1. f[a] = g[a] /\ g[a] < g[k] BY <1>2, <1>3, <1>4
  <2> QED BY <1>5, <1>7, <2>1
<1>9. b >= k
  <2> SUFFICES ASSUME b < k PROVE FALSE BY <1>0
  <2>1. f[b] = g[b] /\ f[b] < f[k] BY <1>2, <1>3, <1>4
  <2> QED BY <1>6, <1>7, <2>1
<1>10. a # k /\ b # k BY <1>2, <1>5, <1>6
<1>11. f[k] < f[a] /\ g[k] < g[b] BY <1>0, <1>2, <1>4, <1>8, <1>9, <1>10
<1> QED BY <1>5, <1>6, <1>7, <1>11

\* What ElementsAt returns: the elements at the positions, each once, in their order.
LEMMA ElementsAtPositions ==
  ASSUME NEW S, NEW s \in Seq(S), NEW I \in SUBSET DOMAIN s
  PROVE  /\ Cardinality(I) \in Nat /\ Cardinality(I) <= Len(s)
         /\ InOrder(I) \in [1..Cardinality(I) -> I] /\ Enumerates(InOrder(I), I)
         /\ ElementsAt(s, I) \in Seq(S) /\ Len(ElementsAt(s, I)) = Cardinality(I)
         /\ DOMAIN ElementsAt(s, I) = 1..Cardinality(I)
         /\ \A k \in 1..Cardinality(I) : ElementsAt(s, I)[k] = s[InOrder(I)[k]]
<1> DEFINE c == Cardinality(I)
           f == InOrder(I)
           e == ElementsAt(s, I)
<1>1. Len(s) \in Nat /\ DOMAIN s = 1..Len(s) /\ \A i \in DOMAIN s : s[i] \in S OBVIOUS
<1>2. c \in Nat /\ c <= Len(s) BY <1>1, PositionsFinite
<1>3. f \in [1..c -> I] /\ Enumerates(f, I) BY <1>1, InOrderEnumerates
<1>4. e = [k \in 1..c |-> s[f[k]]] BY DEF ElementsAt
<1> HIDE DEF c, f, e
<1>5. e \in [1..c -> S] BY <1>1, <1>3, <1>4
<1>6. e \in Seq(S) /\ Len(e) = c BY <1>2, <1>5
<1> QED BY <1>2, <1>3, <1>4, <1>6 DEF c, f, e

\* So it returns nothing else and leaves nothing out, and what stood at different
\* positions stands at different ones afterwards.
LEMMA ElementsAtRange ==
  ASSUME NEW S, NEW s \in Seq(S), NEW I \in SUBSET DOMAIN s
  PROVE  /\ \A k \in DOMAIN ElementsAt(s, I) :
              InOrder(I)[k] \in I /\ ElementsAt(s, I)[k] = s[InOrder(I)[k]]
         /\ \A i \in I : \E k \in DOMAIN ElementsAt(s, I) : ElementsAt(s, I)[k] = s[i]
         /\ \A k, l \in DOMAIN ElementsAt(s, I) : InOrder(I)[k] = InOrder(I)[l] => k = l
<1> DEFINE c == Cardinality(I)
           f == InOrder(I)
           e == ElementsAt(s, I)
<1>1. /\ c \in Nat /\ f \in [1..c -> I] /\ Enumerates(f, I) /\ DOMAIN e = 1..c
      /\ \A k \in 1..c : e[k] = s[f[k]]
  BY ElementsAtPositions
<1>2. I \subseteq Nat OBVIOUS
<1> HIDE DEF f, e
<1>3. \A k \in DOMAIN e : f[k] \in I /\ e[k] = s[f[k]] BY <1>1
<1>4. \A i \in I : \E k \in DOMAIN e : e[k] = s[i] BY <1>1 DEF Enumerates
<1>5. ASSUME NEW k \in DOMAIN e, NEW l \in DOMAIN e, f[k] = f[l] PROVE k = l
  <2>1. k \in Nat /\ l \in Nat /\ f[k] \in Nat /\ f[l] \in Nat BY <1>1, <1>2
  <2>2. ~(k < l) /\ ~(l < k) BY <1>1, <1>5, <2>1 DEF Enumerates
  <2> QED BY <2>1, <2>2
<1> QED BY <1>3, <1>4, <1>5 DEF e, f


-----------------------------------------------------------------------------
(* What InOrder and ElementsAt are when the set or the sequence changes.   *)

\* The numbers from 1 to n are n numbers.
LEMMA IntervalCardinality ==
  ASSUME NEW n \in Nat
  PROVE  Cardinality(1..n) = n
<1>1. Cardinality(1..n) = IF 1 > n THEN 0 ELSE n - 1 + 1 BY FS_Interval
<1> QED BY <1>1

\* A function that lists the numbers of a set in increasing order is InOrder of the set.
LEMMA InOrderIs ==
  ASSUME NEW m \in Nat, NEW I \in SUBSET (1..m), NEW c \in Nat, NEW f \in [1..c -> I],
         \A k, l \in 1..c : k < l => f[k] < f[l],
         \A i \in I : \E k \in 1..c : f[k] = i
  PROVE  Cardinality(I) = c /\ InOrder(I) = f
<1>1. \A k, l \in 1..c : f[k] = f[l] => k = l
  <2> SUFFICES ASSUME NEW k \in 1..c, NEW l \in 1..c, f[k] = f[l] PROVE k = l OBVIOUS
  <2>1. f[k] \in 1..m /\ f[l] \in 1..m OBVIOUS
  <2>2. ~(k < l) /\ ~(l < k) BY <2>1
  <2> QED BY <2>2
<1>2. f \in Bijection(1..c, I) BY <1>1 DEF Bijection, Injection, IsInjective, Surjection
<1>3. ExistsBijection(1..c, I) BY <1>2 DEF ExistsBijection
<1>4. IsFiniteSet(1..c) /\ Cardinality(1..c) = c BY FS_Interval, IntervalCardinality
<1>5. Cardinality(I) = c BY <1>3, <1>4, FS_Bijection
<1>6. f \in [1..Cardinality(I) -> I] /\ Enumerates(f, I) BY <1>5 DEF Enumerates
<1>7. InOrder(I) \in [1..Cardinality(I) -> I] /\ Enumerates(InOrder(I), I)
  BY InOrderEnumerates
<1> HIDE DEF InOrder
<1>8. InOrder(I) = f BY <1>6, <1>7, EnumerationUnique
<1> QED BY <1>5, <1>8

\* One more number, larger than the others.
LEMMA InOrderAdd ==
  ASSUME NEW m \in Nat, NEW I \in SUBSET (1..m), NEW n \in Nat, n > m
  PROVE  LET c == Cardinality(I)
         IN  /\ c \in Nat /\ Cardinality(I \cup {n}) = c + 1
             /\ InOrder(I \cup {n}) = [k \in 1..(c + 1) |-> IF k = c + 1 THEN n ELSE InOrder(I)[k]]
<1> DEFINE c == Cardinality(I)
           f == InOrder(I)
           g == [k \in 1..(c + 1) |-> IF k = c + 1 THEN n ELSE f[k]]
           J == I \cup {n}
<1>1. c \in Nat BY PositionsFinite
<1>2. f \in [1..c -> I] /\ Enumerates(f, I) BY InOrderEnumerates
<1>3. /\ \A k, l \in 1..c : k < l => f[k] < f[l]
      /\ \A i \in I : \E k \in 1..c : f[k] = i
  BY <1>2 DEF Enumerates
<1> HIDE DEF c, f
<1>4. J \in SUBSET (1..n) OBVIOUS
<1>5. \A k \in 1..c : f[k] \in I /\ f[k] \in 1..m /\ f[k] < n
  <2> SUFFICES ASSUME NEW k \in 1..c PROVE f[k] \in I /\ f[k] \in 1..m /\ f[k] < n OBVIOUS
  <2>1. f[k] \in I /\ f[k] \in 1..m BY <1>2
  <2> QED BY <2>1
<1>6. g \in [1..(c + 1) -> J] BY <1>1, <1>5
<1>7. \A k, l \in 1..(c + 1) : k < l => g[k] < g[l] BY <1>1, <1>3, <1>5
<1>8. \A i \in J : \E k \in 1..(c + 1) : g[k] = i
  <2> SUFFICES ASSUME NEW i \in J PROVE \E k \in 1..(c + 1) : g[k] = i OBVIOUS
  <2>1. CASE i = n
    <3>1. c + 1 \in 1..(c + 1) /\ g[c + 1] = n BY <1>1
    <3> QED BY <2>1, <3>1
  <2>2. CASE i # n
    <3>1. PICK k \in 1..c : f[k] = i BY <1>3, <2>2
    <3>2. k \in 1..(c + 1) /\ g[k] = i BY <1>1, <3>1
    <3> QED BY <3>2
  <2> QED BY <2>1, <2>2
<1> HIDE DEF J, g
<1>9. Cardinality(J) = c + 1 /\ InOrder(J) = g
  <2>1. c + 1 \in Nat BY <1>1
  <2> QED BY <1>4, <1>6, <1>7, <1>8, <2>1, InOrderIs
<1> QED BY <1>1, <1>9 DEF c, f, g, J

\* J has the numbers of I above d, counted from d; e others are left out.
Dropped(I, m, d, e, J) ==
  /\ m \in Nat /\ I \in SUBSET (1..m) /\ d \in 0..m /\ e \in 0..Cardinality(I)
  /\ \A k \in 1..Cardinality(I) : k <= e => InOrder(I)[k] <= d
  /\ \A k \in 1..Cardinality(I) : k > e => InOrder(I)[k] > d
  /\ J \in SUBSET (1..(m - d)) /\ \A i \in 1..(m - d) : i \in J <=> i + d \in I

\* Their order stays.
LEMMA InOrderDrop ==
  ASSUME NEW I, NEW m, NEW d, NEW e, NEW J, Dropped(I, m, d, e, J)
  PROVE  /\ Cardinality(J) = Cardinality(I) - e
         /\ \A k \in 1..(Cardinality(I) - e) : InOrder(J)[k] = InOrder(I)[k + e] - d
<1> DEFINE c == Cardinality(I)
           f == InOrder(I)
           g == [k \in 1..(c - e) |-> f[k + e] - d]
<1>0. /\ m \in Nat /\ I \in SUBSET (1..m) /\ d \in 0..m /\ e \in 0..c
      /\ \A k \in 1..c : k <= e => f[k] <= d
      /\ \A k \in 1..c : k > e => f[k] > d
      /\ J \in SUBSET (1..(m - d)) /\ \A i \in 1..(m - d) : i \in J <=> i + d \in I
  BY DEF Dropped
<1>1. c \in Nat BY <1>0, PositionsFinite
<1>2. f \in [1..c -> I] /\ Enumerates(f, I) BY <1>0, InOrderEnumerates
<1>3. /\ \A k, l \in 1..c : k < l => f[k] < f[l]
      /\ \A i \in I : \E k \in 1..c : f[k] = i
      /\ \A k \in 1..c : k <= e => f[k] <= d
      /\ \A k \in 1..c : k > e => f[k] > d
  BY <1>0, <1>2 DEF Enumerates
<1>4. e \in Nat /\ e <= c /\ c - e \in Nat /\ m - d \in Nat /\ d \in Nat BY <1>0, <1>1
<1> HIDE DEF c, f
<1>5. \A k \in 1..(c - e) : /\ k + e \in 1..c /\ f[k + e] > d /\ f[k + e] \in I
                            /\ f[k + e] \in 1..m
  <2> SUFFICES ASSUME NEW k \in 1..(c - e)
               PROVE  k + e \in 1..c /\ f[k + e] > d /\ f[k + e] \in I /\ f[k + e] \in 1..m
    OBVIOUS
  <2>1. k + e \in 1..c /\ k + e > e BY <1>1, <1>4
  <2> QED BY <1>0, <1>2, <1>3, <2>1
<1>7. g \in [1..(c - e) -> J]
  <2> SUFFICES ASSUME NEW k \in 1..(c - e) PROVE f[k + e] - d \in J OBVIOUS
  <2>1. f[k + e] - d \in 1..(m - d) /\ (f[k + e] - d) + d = f[k + e]
    <3> DEFINE x == f[k + e]
    <3>1. x \in 1..m /\ x > d /\ m \in Nat /\ d \in Nat BY <1>0, <1>4, <1>5
    <3> HIDE DEF x
    <3>2. x - d \in 1..(m - d) /\ (x - d) + d = x BY <3>1
    <3> QED BY <3>2 DEF x
  <2> QED BY <1>0, <1>5, <2>1
<1>8. \A k, l \in 1..(c - e) : k < l => g[k] < g[l]
  <2> SUFFICES ASSUME NEW k \in 1..(c - e), NEW l \in 1..(c - e), k < l PROVE g[k] < g[l]
    OBVIOUS
  <2>1. k + e < l + e /\ k + e \in 1..c /\ l + e \in 1..c BY <1>4, <1>5
  <2>2. f[k + e] < f[l + e] BY <1>3, <2>1
  <2>3. f[k + e] \in Int /\ f[l + e] \in Int BY <1>5
  <2> QED BY <1>4, <2>2, <2>3
<1>9. \A i \in J : \E k \in 1..(c - e) : g[k] = i
  <2> SUFFICES ASSUME NEW i \in J PROVE \E k \in 1..(c - e) : g[k] = i OBVIOUS
  <2>1. i \in 1..(m - d) /\ i + d \in I BY <1>0
  <2>2. PICK k \in 1..c : f[k] = i + d BY <1>3, <2>1
  <2>3. k > e
    <3>1. i + d > d BY <1>4, <2>1
    <3> QED BY <1>1, <1>3, <1>4, <2>1, <2>2, <3>1
  <2>4. k - e \in 1..(c - e) /\ (k - e) + e = k BY <1>1, <1>4, <2>3
  <2>5. g[k - e] = i BY <1>4, <2>1, <2>2, <2>4
  <2> QED BY <2>4, <2>5
<1>10. Cardinality(J) = c - e /\ InOrder(J) = g
  <2> HIDE DEF g
  <2> QED BY <1>0, <1>4, <1>7, <1>8, <1>9, InOrderIs
<1>11. \A k \in 1..(c - e) : InOrder(J)[k] = f[k + e] - d BY <1>10
<1> QED BY <1>10, <1>11 DEF c, f


\* One more element, taken or not.
LEMMA AppendElements ==
  ASSUME NEW S, NEW s \in Seq(S), NEW x \in S, NEW I \in SUBSET DOMAIN s
  PROVE  /\ ElementsAt(Append(s, x), I) = ElementsAt(s, I)
         /\ ElementsAt(Append(s, x), I \cup {Len(s) + 1}) = Append(ElementsAt(s, I), x)
<1> DEFINE t == Append(s, x)
           n == Len(s) + 1
           c == Cardinality(I)
           f == InOrder(I)
           e == ElementsAt(s, I)
           J == I \cup {n}
<1>1. /\ c \in Nat /\ f \in [1..c -> I] /\ e \in Seq(S) /\ Len(e) = c /\ DOMAIN e = 1..c
      /\ \A k \in 1..c : e[k] = s[f[k]]
  BY ElementsAtPositions
<1>2. /\ Len(s) \in Nat /\ n \in Nat /\ n > Len(s) /\ DOMAIN s = 1..Len(s)
      /\ \A i \in DOMAIN s : t[i] = s[i]
      /\ t[n] = x
  OBVIOUS
<1>3. /\ Cardinality(J) = c + 1
      /\ InOrder(J) = [k \in 1..(c + 1) |-> IF k = c + 1 THEN n ELSE f[k]]
  <2> HIDE DEF n
  <2> QED BY <1>2, InOrderAdd
<1>4. ElementsAt(t, I) = [k \in 1..c |-> t[f[k]]] BY DEF ElementsAt
<1>5. ElementsAt(t, J) = [k \in 1..(c + 1) |-> t[IF k = c + 1 THEN n ELSE f[k]]]
  BY <1>3 DEF ElementsAt
<1>6. e = [k \in 1..c |-> s[f[k]]] BY DEF ElementsAt
<1> HIDE DEF t, n, c, f, e, J
<1>7. \A k \in 1..c : f[k] \in DOMAIN s BY <1>1
<1>8. \A k \in 1..c : t[f[k]] = s[f[k]] BY <1>2, <1>7
<1>9. ElementsAt(t, I) = e BY <1>4, <1>6, <1>8
<1>10. Append(e, x) = [k \in 1..(c + 1) |-> IF k = c + 1 THEN x ELSE e[k]]
  <2> DEFINE a == Append(e, x)
  <2>1. DOMAIN a = 1..(c + 1) /\ a = [k \in DOMAIN a |-> a[k]]
    <3>1. a \in Seq(S) /\ Len(a) = c + 1 BY <1>1
    <3> HIDE DEF a
    <3> QED BY <3>1, LenProperties
  <2>2. \A k \in 1..(c + 1) : a[k] = IF k = c + 1 THEN x ELSE e[k] BY <1>1
  <2> HIDE DEF a
  <2>3. a = [k \in 1..(c + 1) |-> IF k = c + 1 THEN x ELSE e[k]] BY <2>1, <2>2
  <2> QED BY <2>3 DEF a
<1>11. \A k \in 1..(c + 1) : t[IF k = c + 1 THEN n ELSE f[k]] = IF k = c + 1 THEN x ELSE e[k]
  <2> SUFFICES ASSUME NEW k \in 1..(c + 1)
               PROVE  t[IF k = c + 1 THEN n ELSE f[k]] = IF k = c + 1 THEN x ELSE e[k]
    OBVIOUS
  <2>1. CASE k = c + 1 BY <1>2, <2>1
  <2>2. CASE k # c + 1
    <3>1. k \in 1..c BY <1>1, <2>2
    <3> QED BY <1>1, <1>8, <2>2, <3>1
  <2> QED BY <2>1, <2>2
<1>12. ElementsAt(t, J) = Append(e, x) BY <1>5, <1>10, <1>11
<1> QED BY <1>9, <1>12 DEF t, e, J, n

\* The first element is gone, which had been taken or not.
LEMMA TailElements ==
  ASSUME NEW S, NEW s \in Seq(S), s # <<>>, NEW I \in SUBSET DOMAIN s
  PROVE  LET J == {i \in 1..(Len(s) - 1) : i + 1 \in I}
             e == ElementsAt(s, I)
         IN  /\ 1 \notin I => ElementsAt(Tail(s), J) = e
             /\ 1 \in I => e # <<>> /\ e[1] = s[1] /\ ElementsAt(Tail(s), J) = Tail(e)
<1> DEFINE t == Tail(s)
           c == Cardinality(I)
           f == InOrder(I)
           e == ElementsAt(s, I)
           J == {i \in 1..(Len(s) - 1) : i + 1 \in I}
<1>1. /\ c \in Nat /\ f \in [1..c -> I] /\ e \in Seq(S) /\ Len(e) = c /\ DOMAIN e = 1..c
      /\ \A k \in 1..c : e[k] = s[f[k]]
      /\ Enumerates(f, I)
  BY ElementsAtPositions
<1>2. /\ Len(s) \in Nat /\ DOMAIN s = 1..Len(s) /\ 1 \in 0..Len(s)
      /\ \A i \in 1..(Len(s) - 1) : t[i] = s[i + 1]
  OBVIOUS
<1>3. ElementsAt(t, J) = [k \in 1..Cardinality(J) |-> t[InOrder(J)[k]]] BY DEF ElementsAt
<1>4. e = [k \in 1..c |-> s[f[k]]] BY DEF ElementsAt
<1>5. ASSUME NEW d \in 0..c, \A k \in 1..c : k <= d => f[k] <= 1,
                             \A k \in 1..c : k > d => f[k] > 1
      PROVE  ElementsAt(t, J) = [k \in 1..(c - d) |-> s[f[k + d]]]
  <2>1. Cardinality(J) = c - d /\ \A k \in 1..(c - d) : InOrder(J)[k] = f[k + d] - 1
    <3>1. I \in SUBSET (1..Len(s)) /\ Len(s) \in Nat /\ 1 \in 0..Len(s) BY <1>2
    <3>2. J \in SUBSET (1..(Len(s) - 1)) /\ \A i \in 1..(Len(s) - 1) : i \in J <=> i + 1 \in I
      OBVIOUS
    <3> HIDE DEF J
    <3>3. Dropped(I, Len(s), 1, d, J) BY <1>5, <3>1, <3>2 DEF Dropped
    <3> QED BY <3>3, InOrderDrop
  <2> HIDE DEF t, c, f, J
  <2>2. ElementsAt(t, J) = [k \in 1..(c - d) |-> t[f[k + d] - 1]] BY <1>3, <2>1
  <2>3. \A k \in 1..(c - d) : t[f[k + d] - 1] = s[f[k + d]]
    <3> SUFFICES ASSUME NEW k \in 1..(c - d) PROVE t[f[k + d] - 1] = s[f[k + d]] OBVIOUS
    <3>1. k + d \in 1..c /\ k + d > d BY <1>1
    <3>2. f[k + d] > 1 /\ f[k + d] \in DOMAIN s BY <1>1, <1>5, <3>1
    <3>3. f[k + d] - 1 \in 1..(Len(s) - 1) /\ (f[k + d] - 1) + 1 = f[k + d] BY <1>2, <3>2
    <3> QED BY <1>2, <3>3
  <2> QED BY <2>2, <2>3
<1>6. /\ \A k, l \in 1..c : k < l => f[k] < f[l]
      /\ \A i \in I : \E k \in 1..c : f[k] = i
      /\ \A k \in 1..c : f[k] \in I /\ f[k] \in Nat /\ f[k] >= 1
  <2>1. /\ \A k, l \in 1..c : k < l => f[k] < f[l]
        /\ \A i \in I : \E k \in 1..c : f[k] = i
    BY <1>1 DEF Enumerates
  <2> HIDE DEF c, f
  <2> SUFFICES ASSUME NEW k \in 1..c PROVE f[k] \in I /\ f[k] \in Nat /\ f[k] >= 1 BY <2>1
  <2>2. f[k] \in I /\ f[k] \in 1..Len(s) BY <1>1, <1>2
  <2> QED BY <2>2
<1> HIDE DEF t, c, f, J, e
<1>7. ASSUME 1 \notin I PROVE ElementsAt(t, J) = e
  <2>1. \A k \in 1..c : f[k] > 1
    <3> SUFFICES ASSUME NEW k \in 1..c PROVE f[k] > 1 OBVIOUS
    <3>1. f[k] \in I /\ f[k] \in Nat /\ f[k] >= 1 BY <1>6
    <3>2. f[k] # 1 BY <1>7, <3>1
    <3> QED BY <3>1, <3>2
  <2>2. 0 \in 0..c /\ \A k \in 1..c : ~(k <= 0) BY <1>1
  <2>3. ElementsAt(t, J) = [k \in 1..(c - 0) |-> s[f[k + 0]]] BY <1>5, <2>1, <2>2
  <2>4. c - 0 = c /\ \A k \in 1..c : k + 0 = k BY <1>1
  <2> QED BY <1>4, <2>3, <2>4
<1>8. ASSUME 1 \in I PROVE e # <<>> /\ e[1] = s[1] /\ ElementsAt(t, J) = Tail(e)
  <2>1. PICK k1 \in 1..c : f[k1] = 1 BY <1>6, <1>8
  <2>2. k1 = 1
    <3>1. 1 \in 1..c BY <1>1
    <3>2. 1 < k1 => f[1] < f[k1] BY <1>6, <3>1
    <3>3. f[1] \in Nat /\ f[1] >= 1 BY <1>6, <3>1
    <3> QED BY <1>1, <2>1, <3>2, <3>3
  <2>3. 1 \in 1..c /\ f[1] = 1 /\ 1 \in 0..c BY <1>1, <2>1, <2>2
  <2>4. \A k \in 1..c : (k <= 1 => f[k] <= 1) /\ (k > 1 => f[k] > 1)
    <3> SUFFICES ASSUME NEW k \in 1..c PROVE (k <= 1 => f[k] <= 1) /\ (k > 1 => f[k] > 1)
      OBVIOUS
    <3>1. k > 1 => f[1] < f[k] BY <1>6, <2>3
    <3>2. k <= 1 => k = 1 BY <1>1
    <3> QED BY <2>3, <3>1, <3>2
  <2>5. ElementsAt(t, J) = [k \in 1..(c - 1) |-> s[f[k + 1]]] BY <1>5, <2>3, <2>4
  <2>6. \A k \in 1..(c - 1) : k + 1 \in 1..c /\ e[k + 1] = s[f[k + 1]] BY <1>1
  <2>7. e # <<>> /\ e[1] = s[1] BY <1>1, <2>3
  <2>8. Tail(e) = [k \in 1..(c - 1) |-> e[k + 1]]
    <3> DEFINE a == Tail(e)
    <3>1. DOMAIN a = 1..(c - 1) /\ a = [k \in DOMAIN a |-> a[k]]
      <4>1. a \in Seq(S) /\ Len(a) = c - 1 BY <1>1, <2>7
      <4> HIDE DEF a
      <4> QED BY <4>1, LenProperties
    <3>2. \A k \in 1..(c - 1) : a[k] = e[k + 1] BY <1>1, <2>7
    <3> HIDE DEF a
    <3>3. a = [k \in 1..(c - 1) |-> e[k + 1]] BY <3>1, <3>2
    <3> QED BY <3>3 DEF a
  <2> QED BY <2>5, <2>6, <2>7, <2>8
<1> QED BY <1>7, <1>8 DEF t, J, e

-----------------------------------------------------------------------------
(* Sorting.                                                                *)

\* R orders the first n numbers strictly and totally.
StrictOrder(R, n) ==
  /\ \A i \in 1..n : <<i, i>> \notin R
  /\ \A i, j \in 1..n : i = j \/ <<i, j>> \in R \/ <<j, i>> \in R
  /\ \A i, j, k \in 1..n : <<i, j>> \in R /\ <<j, k>> \in R => <<i, k>> \in R

\* p lists the first n numbers in the order R.
Sorts(p, R, n) ==
  /\ p \in [1..n -> 1..n]
  /\ \A i \in 1..n : \E k \in 1..n : p[k] = i
  /\ \A k, l \in 1..n : k < l => <<p[k], p[l]>> \in R

\* How many numbers are before i: the ranks of different numbers differ, and follow R.
LEMMA Ranks ==
  ASSUME NEW n \in Nat, NEW R, StrictOrder(R, n)
  PROVE  /\ \A i \in 1..n : Cardinality(Before(R, n, i)) \in 0..(n - 1)
         /\ \A i, j \in 1..n : <<i, j>> \in R =>
              Cardinality(Before(R, n, i)) < Cardinality(Before(R, n, j))
<1> DEFINE B(i) == Before(R, n, i)
<1>1. ASSUME NEW i \in 1..n
      PROVE  /\ B(i) \in SUBSET (1..n) /\ IsFiniteSet(B(i))
             /\ Cardinality(B(i)) \in Nat /\ i \notin B(i)
  <2>1. B(i) \in SUBSET (1..n) /\ i \notin B(i) BY DEF Before, StrictOrder
  <2> QED BY <2>1, PositionsFinite
<1>2. ASSUME NEW i \in 1..n PROVE Cardinality(B(i)) \in 0..(n - 1)
  <2>1. B(i) \cup {i} \in SUBSET (1..n) BY <1>1
  <2>2. Cardinality(B(i) \cup {i}) = Cardinality(B(i)) + 1 BY <1>1, FS_AddElement
  <2>3. Cardinality(B(i) \cup {i}) <= n BY <2>1, PositionsFinite
  <2> HIDE DEF B
  <2> QED BY <1>1, <2>2, <2>3
<1>3. ASSUME NEW i \in 1..n, NEW j \in 1..n, <<i, j>> \in R
      PROVE  Cardinality(B(i)) < Cardinality(B(j))
  <2>1. B(i) \cup {i} \in SUBSET B(j) BY <1>3 DEF Before, StrictOrder
  <2>2. Cardinality(B(i) \cup {i}) = Cardinality(B(i)) + 1 BY <1>1, FS_AddElement
  <2>3. Cardinality(B(i) \cup {i}) <= Cardinality(B(j)) BY <1>1, <2>1, FS_Subset
  <2> HIDE DEF B
  <2> QED BY <1>1, <2>2, <2>3
<1> QED BY <1>2, <1>3

\* Every rank from 0 to n - 1 is somebody's.
LEMMA EveryRank ==
  ASSUME NEW n \in Nat, NEW R, StrictOrder(R, n), NEW k \in 1..n
  PROVE  \E i \in 1..n : Cardinality(Before(R, n, i)) = k - 1
<1> DEFINE rank == [i \in 1..n |-> Cardinality(Before(R, n, i)) + 1]
<1>1. ASSUME NEW i \in 1..n PROVE rank[i] \in 1..n BY Ranks
<1>2. rank \in [1..n -> 1..n] BY <1>1
<1>3. ASSUME NEW i \in 1..n, NEW j \in 1..n, rank[i] = rank[j] PROVE i = j
  <2>1. CASE <<i, j>> \in R
    <3>1. Cardinality(Before(R, n, i)) < Cardinality(Before(R, n, j)) BY <2>1, Ranks
    <3> QED BY <1>3, <3>1, Ranks
  <2>2. CASE <<j, i>> \in R
    <3>1. Cardinality(Before(R, n, j)) < Cardinality(Before(R, n, i)) BY <2>2, Ranks
    <3> QED BY <1>3, <3>1, Ranks
  <2> QED BY <2>1, <2>2 DEF StrictOrder
<1>4. rank \in Injection(1..n, 1..n)
  <2> HIDE DEF rank
  <2> QED BY <1>2, <1>3 DEF Injection, IsInjective
<1>5. IsFiniteSet(1..n) BY FS_Interval
<1>6. rank \in Surjection(1..n, 1..n)
  <2> HIDE DEF rank
  <2> QED BY <1>4, <1>5, FS_Injection
<1>7. PICK i \in 1..n : rank[i] = k
  <2> HIDE DEF rank
  <2> QED BY <1>6 DEF Surjection
<1>8. Cardinality(Before(R, n, i)) + 1 = k /\ Cardinality(Before(R, n, i)) \in 0..(n - 1)
  BY <1>7, Ranks
<1> QED BY <1>8

\* SortedBy sorts.
LEMMA SortedBySorts ==
  ASSUME NEW S, NEW s \in Seq(S), NEW R, StrictOrder(R, Len(s))
  PROVE  \E p : Sorts(p, R, Len(s)) /\ SortedBy(s, R) = [k \in 1..Len(s) |-> s[p[k]]]
<1> DEFINE n == Len(s)
           rank(i) == Cardinality(Before(R, n, i))
           p == [k \in 1..n |-> CHOOSE i \in 1..n : rank(i) = k - 1]
<1>1. n \in Nat OBVIOUS
<1>2. ASSUME NEW k \in 1..n PROVE p[k] \in 1..n /\ rank(p[k]) = k - 1
  <2>1. \E i \in 1..n : rank(i) = k - 1 BY <1>1, EveryRank
  <2> HIDE DEF rank
  <2> QED BY <2>1
<1>3. p \in [1..n -> 1..n] BY <1>2
<1>4. SortedBy(s, R) = [k \in 1..n |-> s[p[k]]] BY DEF SortedBy
<1>5. /\ \A i \in 1..n : rank(i) \in 0..(n - 1)
      /\ \A i, j \in 1..n : <<i, j>> \in R => rank(i) < rank(j)
  BY <1>1, Ranks
<1>6. \A i, j \in 1..n : i = j \/ <<i, j>> \in R \/ <<j, i>> \in R BY DEF StrictOrder
<1> HIDE DEF rank, p, n
<1>7. ASSUME NEW i \in 1..n PROVE \E k \in 1..n : p[k] = i
  <2> DEFINE k == rank(i) + 1
  <2>1. k \in 1..n /\ k - 1 = rank(i) BY <1>1, <1>5
  <2>2. p[k] \in 1..n /\ rank(p[k]) = rank(i) BY <1>2, <2>1
  <2>3. ~(<<i, p[k]>> \in R) /\ ~(<<p[k], i>> \in R) BY <1>5, <2>2
  <2>4. p[k] = i BY <1>6, <2>2, <2>3
  <2> QED BY <2>1, <2>4
<1>8. ASSUME NEW k \in 1..n, NEW l \in 1..n, k < l PROVE <<p[k], p[l]>> \in R
  <2>1. p[k] \in 1..n /\ p[l] \in 1..n /\ rank(p[k]) < rank(p[l]) BY <1>1, <1>2, <1>8
  <2>2. p[k] # p[l] BY <1>5, <2>1
  <2>3. ~(<<p[l], p[k]>> \in R)
    <3> SUFFICES ASSUME <<p[l], p[k]>> \in R PROVE FALSE OBVIOUS
    <3>1. rank(p[l]) < rank(p[k]) BY <1>5, <2>1
    <3> QED BY <1>5, <2>1, <3>1
  <2> QED BY <1>6, <2>1, <2>2, <2>3
<1>9. Sorts(p, R, n) BY <1>3, <1>7, <1>8 DEF Sorts
<1> QED BY <1>4, <1>9 DEF n
=============================================================================
