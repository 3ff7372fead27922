------------------------- MODULE RoutingTableProofs -------------------------
(***************************************************************************)
(* Theorems about RoutingTable, for hashes of any length, any keys and     *)
(* any size of the buckets, and about Lookup, which asks the peers the     *)
(* table finds nearest, for any peers and any number of lookups.           *)
(***************************************************************************)
EXTENDS RoutingTable, Lookup, SubsequencesProofs

\* No entry is twice in a bucket.
Distinct(b) == \A j, l \in DOMAIN b : b[j] = b[l] => j = l

\* c has some of the entries of b.
Part(c, b) ==
  /\ c \in Seq(Entries) /\ Len(c) <= Len(b)
  /\ Distinct(b) => Distinct(c)
  /\ \A k \in DOMAIN c : \E i \in DOMAIN b : c[k] = b[i]

\* What every operation under tabLock leaves: the bounds of the buckets, and every entry
\* once and in the bucket of its hash.
TableOK(bs) ==
  /\ bs \in Seq(Seq(Entries)) /\ Len(bs) \in 1..(Bits + 2)
  /\ \A i \in DOMAIN bs : /\ Len(bs[i]) <= BucketSize /\ Distinct(bs[i])
                          /\ \A j \in DOMAIN bs[i] : bucketID(bs, bs[i][j].hash) = i

\* The inductive invariant.
TableInv ==
  /\ TableOK(buckets)
  /\ call \in [Threads -> [op : {"idle", "update", "remove", "nearest"}, key : Keys,
                           torn : BOOLEAN]]
  /\ races \in 0..MaxRaces

-----------------------------------------------------------------------------
(* Hashes and buckets.                                                     *)

\* The common prefix of a hash with the local one has a length.
LEMMA CplType ==
  ASSUME NEW h \in ID
  PROVE  cpl(h) \in 0..Bits
<1> DEFINE d == xor(h, Hash[Local])
           Ones == {i \in 1..Bits : d[i] = 1}
<1>1. Bits \in Nat BY HashAssumption
<1>2. \A i \in 1..Bits : d[i] \in {0, 1} BY DEF xor
<1>3. cpl(h) = zeroPrefixLen(d) BY DEF cpl, CommonPrefixLen
<1> HIDE DEF d
<1>4. CASE \A i \in 1..Bits : d[i] = 0 BY <1>1, <1>3, <1>4 DEF zeroPrefixLen
<1>5. CASE ~\A i \in 1..Bits : d[i] = 0
  <2>1. Ones # {} /\ Ones \subseteq Nat BY <1>1, <1>2, <1>5
  <2>2. PICK i \in Ones : \A j \in Ones : i <= j
    <3> HIDE DEF Ones
    <3> QED BY <2>1, LeastNumber
  <2>3. \A j \in 1..(i - 1) : d[j] = 0
    <3> SUFFICES ASSUME NEW j \in 1..(i - 1) PROVE d[j] = 0 OBVIOUS
    <3>1. j \in 1..Bits /\ j < i BY <1>1
    <3>2. j \notin Ones BY <1>1, <2>2, <3>1
    <3> QED BY <1>2, <3>1, <3>2
  <2>4. \E n \in 1..Bits : d[n] = 1 /\ \A j \in 1..(n - 1) : d[j] = 0 BY <2>3
  <2>5. (CHOOSE n \in 1..Bits : d[n] = 1 /\ \A j \in 1..(n - 1) : d[j] = 0) \in 1..Bits
    BY <2>4
  <2> QED BY <1>1, <1>3, <1>5, <2>5 DEF zeroPrefixLen
<1> QED BY <1>4, <1>5

\* Every hash has a bucket.
LEMMA BucketExists ==
  ASSUME NEW bs, Len(bs) \in Nat, Len(bs) > 0, NEW h \in ID
  PROVE  bucketID(bs, h) \in 1..Len(bs)
<1>1. cpl(h) \in Nat BY CplType, HashAssumption
<1> HIDE DEF cpl
<1> QED BY <1>1 DEF bucketID

\* The entries of a bucket at some positions are a part of it.
LEMMA ElementsArePart ==
  ASSUME NEW b \in Seq(Entries), NEW I \in SUBSET DOMAIN b
  PROVE  /\ Part(ElementsAt(b, I), b)
         /\ \A k \in DOMAIN ElementsAt(b, I) : \E i \in I : ElementsAt(b, I)[k] = b[i]
         /\ \A i \in I : \E k \in DOMAIN ElementsAt(b, I) : ElementsAt(b, I)[k] = b[i]
<1> DEFINE c == ElementsAt(b, I)
           f == InOrder(I)
<1>1. c \in Seq(Entries) /\ Len(c) <= Len(b)
  BY ElementsAtPositions
<1>2. /\ \A k \in DOMAIN c : f[k] \in I /\ c[k] = b[f[k]]
      /\ \A i \in I : \E k \in DOMAIN c : c[k] = b[i]
      /\ \A k, l \in DOMAIN c : f[k] = f[l] => k = l
  BY ElementsAtRange
<1> HIDE DEF c, f
<1>3. Distinct(b) => Distinct(c) BY <1>2 DEF Distinct
<1>4. \A k \in DOMAIN c : \E i \in I : c[k] = b[i] BY <1>2
<1>5. Part(c, b) BY <1>1, <1>3, <1>4 DEF Part
<1> QED BY <1>2, <1>4, <1>5 DEF c

\* A part of a part is a part.
LEMMA PartTransitive ==
  ASSUME NEW b \in Seq(Entries), NEW c, NEW d, Part(c, b), Part(d, c)
  PROVE  Part(d, b)
<1>1. Len(d) \in Nat /\ Len(c) \in Nat /\ Len(b) \in Nat BY DEF Part
<1>2. Len(d) <= Len(b) BY <1>1 DEF Part
<1> QED BY <1>2 DEF Part

\* Split deals out the entries of a bucket by their common prefix with the local hash.
LEMMA SplitParts ==
  ASSUME NEW b \in Seq(Entries), NEW n \in Int
  PROVE  /\ Part(Split(b, n).kept, b) /\ Part(Split(b, n).moved, b)
         /\ \A k \in DOMAIN Split(b, n).kept : cpl(Split(b, n).kept[k].hash) <= n
         /\ \A k \in DOMAIN Split(b, n).moved : cpl(Split(b, n).moved[k].hash) > n
         /\ \A i \in DOMAIN b :
              /\ cpl(b[i].hash) <= n =>
                   \E k \in DOMAIN Split(b, n).kept : Split(b, n).kept[k] = b[i]
              /\ cpl(b[i].hash) > n =>
                   \E k \in DOMAIN Split(b, n).moved : Split(b, n).moved[k] = b[i]
<1> DEFINE I == {i \in DOMAIN b : cpl(b[i].hash) <= n}
           J == {i \in DOMAIN b : cpl(b[i].hash) > n}
<1>1. Split(b, n).kept = ElementsAt(b, I) /\ Split(b, n).moved = ElementsAt(b, J)
  BY DEF Split
<1>2. I \in SUBSET DOMAIN b /\ J \in SUBSET DOMAIN b OBVIOUS
<1>3. /\ \A i \in I : i \in DOMAIN b /\ cpl(b[i].hash) <= n
      /\ \A i \in J : i \in DOMAIN b /\ cpl(b[i].hash) > n
      /\ \A i \in DOMAIN b : (cpl(b[i].hash) <= n => i \in I) /\ (cpl(b[i].hash) > n => i \in J)
  OBVIOUS
<1> HIDE DEF I, J
<1>4. /\ Part(ElementsAt(b, I), b)
      /\ \A k \in DOMAIN ElementsAt(b, I) : \E i \in I : ElementsAt(b, I)[k] = b[i]
      /\ \A i \in I : \E k \in DOMAIN ElementsAt(b, I) : ElementsAt(b, I)[k] = b[i]
  BY <1>2, ElementsArePart
<1>5. /\ Part(ElementsAt(b, J), b)
      /\ \A k \in DOMAIN ElementsAt(b, J) : \E i \in J : ElementsAt(b, J)[k] = b[i]
      /\ \A i \in J : \E k \in DOMAIN ElementsAt(b, J) : ElementsAt(b, J)[k] = b[i]
  BY <1>2, ElementsArePart
<1>6. \A k \in DOMAIN ElementsAt(b, I) : cpl(ElementsAt(b, I)[k].hash) <= n BY <1>3, <1>4
<1>7. \A k \in DOMAIN ElementsAt(b, J) : cpl(ElementsAt(b, J)[k].hash) > n BY <1>3, <1>5
<1>8. \A i \in DOMAIN b :
        /\ cpl(b[i].hash) <= n => \E k \in DOMAIN ElementsAt(b, I) : ElementsAt(b, I)[k] = b[i]
        /\ cpl(b[i].hash) > n => \E k \in DOMAIN ElementsAt(b, J) : ElementsAt(b, J)[k] = b[i]
  BY <1>3, <1>4, <1>5
<1> QED BY <1>1, <1>4, <1>5, <1>6, <1>7, <1>8


-----------------------------------------------------------------------------
(* Unfolding the last bucket.                                              *)

\* The number of buckets that nextBucket makes of the last one, b.
Deep(b, n, i) == Len(Split(b, n + i - 2).moved) < BucketSize

Shallow(b, n, i) == Len(Split(b, n + i - 2).moved) >= BucketSize

Depth(b, n) ==
  CHOOSE i \in 2..(Bits + 2) : Deep(b, n, i) /\ \A j \in 2..(i - 1) : Shallow(b, n, j)

\* The recursion of nextBucket ends: a prefix is no longer than a hash.
LEMMA UnfoldingEnds ==
  ASSUME NEW b \in Seq(Entries), NEW n \in Nat
  PROVE  /\ Depth(b, n) \in 2..(Bits + 2) /\ Deep(b, n, Depth(b, n))
         /\ \A j \in 2..(Depth(b, n) - 1) : Shallow(b, n, j)
<1> DEFINE m == Split(b, n + Bits).moved
           Ends == {i \in 2..(Bits + 2) : Deep(b, n, i)}
<1>1. Bits \in Nat /\ BucketSize \in Nat \ {0, 1} BY HashAssumption, SizeAssumption
<1>2. \A e \in Entries : cpl(e.hash) \in 0..Bits BY CplType DEF Entries
<1>3. Part(m, b) /\ \A k \in DOMAIN m : cpl(m[k].hash) > n + Bits
  BY <1>1, SplitParts
<1>4. Len(m) = 0
  <2> HIDE DEF m
  <2>1. m \in Seq(Entries) BY <1>3 DEF Part
  <2>2. \A k \in DOMAIN m : m[k] \in Entries BY <2>1
  <2>3. \A k \in DOMAIN m : cpl(m[k].hash) \in 0..Bits BY <1>2, <2>2
  <2>4. \A k \in DOMAIN m : FALSE
    <3> SUFFICES ASSUME NEW k \in DOMAIN m PROVE FALSE OBVIOUS
    <3>1. cpl(m[k].hash) \in 0..Bits BY <2>3
    <3>2. cpl(m[k].hash) > n + Bits BY <1>3
    <3> QED BY <1>1, <3>1, <3>2
  <2>5. Len(m) \in Nat /\ DOMAIN m = 1..Len(m) BY <2>1
  <2> QED BY <2>4, <2>5
<1>5. Deep(b, n, Bits + 2)
  <2>1. n + (Bits + 2) - 2 = n + Bits BY <1>1
  <2> QED BY <1>1, <1>4, <2>1 DEF Deep
<1>6. Ends # {} /\ Ends \subseteq Nat BY <1>1, <1>5
<1>7. PICK i \in Ends : \A j \in Ends : i <= j
  <2> HIDE DEF Ends
  <2> QED BY <1>6, LeastNumber
<1>8. \A j \in 2..(i - 1) : Shallow(b, n, j)
  <2> SUFFICES ASSUME NEW j \in 2..(i - 1) PROVE Shallow(b, n, j) OBVIOUS
  <2> DEFINE c == Split(b, n + j - 2).moved
  <2>1. j \in 2..(Bits + 2) /\ j < i BY <1>1
  <2>2. ~Deep(b, n, j) BY <1>1, <1>7, <2>1
  <2>3. Part(c, b) BY SplitParts
  <2>4. Len(c) \in Nat BY <2>3 DEF Part
  <2> QED BY <1>1, <2>2, <2>4 DEF Deep, Shallow
<1>9. \E k \in 2..(Bits + 2) : Deep(b, n, k) /\ \A j \in 2..(k - 1) : Shallow(b, n, j)
  BY <1>8
<1> QED BY <1>9 DEF Depth

\* The i-th of the buckets that replace the last one takes the peers whose common prefix is
\* that long, the last of them those with a longer one, and nobody is left out.
LEMMA UnfoldedParts ==
  ASSUME NEW b \in Seq(Entries), NEW n \in Nat, NEW k \in Nat, k >= 2
  PROVE  LET u == Unfolded(b, n, k)
         IN  /\ u \in Seq(Seq(Entries)) /\ Len(u) = k
             /\ \A j \in 1..k : Part(u[j], b)
             /\ \A j \in 1..k : \A l \in DOMAIN u[j] : j < k => cpl(u[j][l].hash) <= n + j - 1
             /\ \A j \in 1..k : \A l \in DOMAIN u[j] : j > 1 => cpl(u[j][l].hash) > n + j - 2
<1> DEFINE u == Unfolded(b, n, k)
<1>1. \A j \in 1..k : u[j] = IF j = k THEN Split(b, n + k - 2).moved
                              ELSE Split(IF j = 1 THEN b ELSE Split(b, n + j - 2).moved,
                                         n + j - 1).kept
  BY DEF Unfolded
<1>2. DOMAIN u = 1..k BY DEF Unfolded
<1>3. ASSUME NEW j \in 1..k
      PROVE  /\ Part(u[j], b)
             /\ \A l \in DOMAIN u[j] : j < k => cpl(u[j][l].hash) <= n + j - 1
             /\ \A l \in DOMAIN u[j] : j > 1 => cpl(u[j][l].hash) > n + j - 2
  <2>1. CASE j = k
    <3>1. u[j] = Split(b, n + j - 2).moved BY <1>1, <2>1
    <3>2. n + j - 2 \in Int OBVIOUS
    <3> HIDE DEF u
    <3>3. Part(u[j], b) /\ \A l \in DOMAIN u[j] : cpl(u[j][l].hash) > n + j - 2
      BY <3>1, <3>2, SplitParts
    <3> QED BY <2>1, <3>3
  <2>2. CASE j = 1
    <3>1. u[j] = Split(b, n + j - 1).kept BY <1>1, <2>2
    <3>2. n + j - 1 \in Int OBVIOUS
    <3> HIDE DEF u
    <3>3. Part(u[j], b) /\ \A l \in DOMAIN u[j] : cpl(u[j][l].hash) <= n + j - 1
      BY <3>1, <3>2, SplitParts
    <3> QED BY <2>2, <3>3
  <2>3. CASE j # 1 /\ j # k
    <3> DEFINE m == Split(b, n + j - 2).moved
    <3>1. u[j] = Split(m, n + j - 1).kept BY <1>1, <2>3
    <3>2. n + j - 1 \in Int /\ n + j - 2 \in Int OBVIOUS
    <3>3. Part(m, b) /\ \A l \in DOMAIN m : cpl(m[l].hash) > n + j - 2
      BY <3>2, SplitParts
    <3>4. m \in Seq(Entries) BY <3>3 DEF Part
    <3> HIDE DEF u, m
    <3>5. Part(u[j], m) /\ \A l \in DOMAIN u[j] : cpl(u[j][l].hash) <= n + j - 1
      BY <3>1, <3>2, <3>4, SplitParts
    <3>6. Part(u[j], b) BY <3>3, <3>5, PartTransitive
    <3>7. \A l \in DOMAIN u[j] : \E i \in DOMAIN m : u[j][l] = m[i] BY <3>5 DEF Part
    <3>8. \A l \in DOMAIN u[j] : cpl(u[j][l].hash) > n + j - 2 BY <3>3, <3>7
    <3> QED BY <3>5, <3>6, <3>8
  <2> QED BY <2>1, <2>2, <2>3
<1> HIDE DEF u
<1>4. \A j \in 1..k : u[j] \in Seq(Entries) BY <1>3 DEF Part
<1>5. u = [j \in 1..k |-> u[j]] BY <1>2 DEF u, Unfolded
<1>6. u \in Seq(Seq(Entries)) /\ Len(u) = k
  <2> DEFINE S == Seq(Entries)
  <2> HIDE DEF S
  <2>1. \A j \in 1..k : u[j] \in S BY <1>4 DEF S
  <2>2. u \in Seq(S) BY <1>5, <2>1
  <2>3. Len(u) = k BY <1>2, <2>2
  <2> QED BY <2>2, <2>3 DEF S
<1> QED BY <1>3, <1>6 DEF u

\* Nobody is lost in an unfolding.
LEMMA UnfoldedAll ==
  ASSUME NEW b \in Seq(Entries), NEW n \in Nat, NEW k \in Nat, k >= 2, NEW i \in DOMAIN b
  PROVE  \E j \in 1..k : \E l \in DOMAIN Unfolded(b, n, k)[j] : Unfolded(b, n, k)[j][l] = b[i]
<1> DEFINE u == Unfolded(b, n, k)
           p == cpl(b[i].hash)
<1>0. b[i] \in Entries OBVIOUS
<1>1. p \in Nat BY <1>0, CplType, HashAssumption DEF Entries
<1>2. \A j \in 1..k : u[j] = IF j = k THEN Split(b, n + k - 2).moved
                              ELSE Split(IF j = 1 THEN b ELSE Split(b, n + j - 2).moved,
                                         n + j - 1).kept
  BY DEF Unfolded
<1> HIDE DEF u
<1>3. CASE p > n + k - 2
  <2>1. u[k] = Split(b, n + k - 2).moved /\ n + k - 2 \in Int /\ k \in 1..k BY <1>2
  <2>2. \E l \in DOMAIN u[k] : u[k][l] = b[i] BY <1>3, <2>1, SplitParts
  <2> QED BY <2>1, <2>2 DEF u
<1>4. CASE p <= n
  <2>1. u[1] = Split(b, n).kept /\ 1 \in 1..k BY <1>2
  <2>2. \E l \in DOMAIN u[1] : u[1][l] = b[i] BY <1>4, <2>1, SplitParts
  <2> QED BY <2>1, <2>2 DEF u
<1>5. CASE p > n /\ p <= n + k - 2
  <2> DEFINE j == p - n + 1
             m == Split(b, p - 1).moved
  <2>1. /\ j \in 1..k /\ j # 1 /\ j # k /\ n + j - 2 = p - 1 /\ n + j - 1 = p
        /\ p \in Int /\ p - 1 \in Int /\ p > p - 1
    <3> HIDE DEF p
    <3> QED BY <1>1, <1>5
  <2> HIDE DEF j
  <2>2. u[j] = Split(m, p).kept BY <1>2, <2>1
  <2>3. Part(m, b) /\ \E l \in DOMAIN m : m[l] = b[i] BY <2>1, SplitParts
  <2>4. m \in Seq(Entries) BY <2>3 DEF Part
  <2> HIDE DEF m
  <2>5. PICK l \in DOMAIN m : m[l] = b[i] BY <2>3
  <2>6. cpl(m[l].hash) <= p BY <1>1, <2>5
  <2>7. \E q \in DOMAIN u[j] : u[j][q] = m[l] BY <2>1, <2>2, <2>4, <2>6, SplitParts
  <2> QED BY <2>1, <2>5, <2>7 DEF u
<1> QED BY <1>1, <1>3, <1>4, <1>5


\* What the places of the entries say of their common prefixes.
LEMMA Prefixes ==
  ASSUME NEW bs, TableOK(bs), NEW i \in DOMAIN bs, NEW j \in DOMAIN bs[i]
  PROVE  /\ bs[i][j] \in Entries /\ cpl(bs[i][j].hash) \in 0..Bits
         /\ i < Len(bs) => cpl(bs[i][j].hash) = i - 1
         /\ i = Len(bs) => cpl(bs[i][j].hash) >= i - 1
<1>1. bs[i] \in Seq(Entries) /\ Len(bs) \in Nat /\ DOMAIN bs = 1..Len(bs) BY DEF TableOK
<1>2. bs[i][j] \in Entries BY <1>1
<1>3. cpl(bs[i][j].hash) \in 0..Bits BY <1>2, CplType DEF Entries
<1>4. bucketID(bs, bs[i][j].hash) = i BY DEF TableOK
<1>5. Bits \in Nat BY HashAssumption
<1> QED BY <1>1, <1>2, <1>3, <1>4, <1>5 DEF bucketID

\* The first elements of a sequence.
LEMMA FirstElements ==
  ASSUME NEW S, NEW s \in Seq(S), NEW n \in Nat, n <= Len(s)
  PROVE  /\ SubSeq(s, 1, n) \in Seq(S) /\ Len(SubSeq(s, 1, n)) = n
         /\ \A q \in 1..n : SubSeq(s, 1, n)[q] = s[q]
OBVIOUS

\* The shape of the unfolded table.
LEMMA NextBucketShape ==
  ASSUME NEW bs, TableOK(bs)
  PROVE  LET n == Len(bs) - 1
             b == bs[Len(bs)]
             k == Depth(b, n)
             u == Unfolded(b, n, k)
             t == nextBucket(bs)
         IN  /\ n \in Nat /\ k \in Nat /\ k >= 2 /\ b \in Seq(Entries)
             /\ t \in Seq(Seq(Entries)) /\ Len(t) = n + k
             /\ \A q \in 1..n : t[q] = bs[q]
             /\ \A j \in 1..k : t[n + j] = u[j]
<1> DEFINE n == Len(bs) - 1
           b == bs[Len(bs)]
           k == Depth(b, n)
           u == Unfolded(b, n, k)
           t == nextBucket(bs)
           S == Seq(Entries)
           kept == SubSeq(bs, 1, n)
<1>1. bs \in Seq(S) /\ Len(bs) \in Nat /\ Len(bs) >= 1 /\ DOMAIN bs = 1..Len(bs)
  BY DEF TableOK
<1>2. n \in Nat /\ Len(bs) \in 1..Len(bs) BY <1>1
<1>3. b \in S BY <1>1, <1>2
<1>4. k \in Nat /\ k >= 2
  <2>1. k \in 2..(Bits + 2) /\ Bits \in Nat BY <1>2, <1>3, UnfoldingEnds, HashAssumption
  <2> HIDE DEF k
  <2> QED BY <2>1
<1>5. u \in Seq(S) /\ Len(u) = k BY <1>2, <1>3, <1>4, UnfoldedParts
<1>6. t = kept \o u BY DEF nextBucket, Depth, Deep, Shallow
<1> HIDE DEF S, k, u, t, b
<1>7. /\ kept \in Seq(S) /\ Len(kept) = n
      /\ \A q \in 1..n : kept[q] = bs[q]
  <2>1. n <= Len(bs) BY <1>1
  <2> HIDE DEF n
  <2> QED BY <1>1, <1>2, <2>1, FirstElements
<1> HIDE DEF kept
<1>8. /\ t \in Seq(S) /\ Len(t) = Len(kept) + Len(u)
      /\ \A i \in 1..(Len(kept) + Len(u)) :
           t[i] = IF i <= Len(kept) THEN kept[i] ELSE u[i - Len(kept)]
  BY <1>5, <1>6, <1>7, ConcatProperties
<1> HIDE DEF n
<1>9. /\ Len(t) = n + k
      /\ \A i \in 1..(n + k) : t[i] = IF i <= n THEN kept[i] ELSE u[i - n]
  BY <1>5, <1>7, <1>8
<1>10. \A q \in 1..n : t[q] = bs[q] BY <1>2, <1>4, <1>7, <1>9
<1>11. \A j \in 1..k : t[n + j] = u[j]
  <2> SUFFICES ASSUME NEW j \in 1..k PROVE t[n + j] = u[j] OBVIOUS
  <2>1. n + j \in 1..(n + k) /\ ~(n + j <= n) /\ (n + j) - n = j BY <1>2, <1>4
  <2> QED BY <1>9, <2>1
<1> QED BY <1>2, <1>3, <1>4, <1>8, <1>9, <1>10, <1>11 DEF n, b, k, u, t, S

\* The unfolding of a full last bucket leaves a table: no more buckets than prefixes, and
\* every entry in the bucket of its hash, which may now be another.
LEMMA NextBucketPlaces ==
  ASSUME NEW bs, TableOK(bs), Len(bs[Len(bs)]) >= BucketSize
  PROVE  /\ TableOK(nextBucket(bs))
         /\ Len(nextBucket(bs)[Len(nextBucket(bs))]) < BucketSize
<1> DEFINE n == Len(bs) - 1
           b == bs[Len(bs)]
           k == Depth(b, n)
           u == Unfolded(b, n, k)
           t == nextBucket(bs)
<1>0. Bits \in Nat /\ BucketSize \in Nat /\ BucketSize > 0
  BY HashAssumption, SizeAssumption
<1>1. Len(bs) = n + 1 /\ Len(bs) \in DOMAIN bs /\ DOMAIN bs = 1..(n + 1) BY DEF TableOK
<1>2. /\ n \in Nat /\ k \in Nat /\ k >= 2 /\ b \in Seq(Entries)
      /\ t \in Seq(Seq(Entries)) /\ Len(t) = n + k
      /\ \A q \in 1..n : t[q] = bs[q]
      /\ \A j \in 1..k : t[n + j] = u[j]
  BY NextBucketShape
<1>3. \A i \in DOMAIN b : cpl(b[i].hash) \in 0..Bits /\ cpl(b[i].hash) >= n
  <2> SUFFICES ASSUME NEW i \in DOMAIN b
               PROVE  cpl(b[i].hash) \in 0..Bits /\ cpl(b[i].hash) >= n
    OBVIOUS
  <2>1. cpl(b[i].hash) \in 0..Bits /\ cpl(b[i].hash) >= Len(bs) - 1
    BY <1>1, Prefixes
  <2> QED BY <2>1
<1>4. Deep(b, n, k) /\ \A j \in 2..(k - 1) : Shallow(b, n, j)
  BY <1>2, UnfoldingEnds
<1>5. u[k] = Split(b, n + k - 2).moved BY <1>2 DEF Unfolded
<1>6. /\ \A j \in 1..k : Part(u[j], b)
      /\ \A j \in 1..k : \A l \in DOMAIN u[j] : j < k => cpl(u[j][l].hash) <= n + j - 1
      /\ \A j \in 1..k : \A l \in DOMAIN u[j] : j > 1 => cpl(u[j][l].hash) > n + j - 2
  BY <1>2, UnfoldedParts
<1>7. \A q \in 1..n : /\ bs[q] \in Seq(Entries) /\ Len(bs[q]) <= BucketSize /\ Distinct(bs[q])
                      /\ \A j \in DOMAIN bs[q] : cpl(bs[q][j].hash) = q - 1
  <2> SUFFICES ASSUME NEW q \in 1..n
               PROVE  /\ bs[q] \in Seq(Entries) /\ Len(bs[q]) <= BucketSize
                      /\ Distinct(bs[q])
                      /\ \A j \in DOMAIN bs[q] : cpl(bs[q][j].hash) = q - 1
    OBVIOUS
  <2>1. q \in DOMAIN bs /\ q < Len(bs) BY <1>1, <1>2
  <2>2. bs[q] \in Seq(Entries) /\ Len(bs[q]) <= BucketSize /\ Distinct(bs[q])
    BY <2>1 DEF TableOK
  <2> QED BY <2>1, <2>2, Prefixes
<1>8. Distinct(b) /\ Len(b) <= BucketSize /\ Len(b) >= BucketSize BY <1>1 DEF TableOK
<1> HIDE DEF n, b, k, u, t
<1>8a. n \in Nat /\ k \in Nat /\ k >= 2 /\ Len(t) = n + k BY <1>2
<1>9. n + k <= Bits + 2
  <2>1. CASE k = 2
    <3>1. 1 \in DOMAIN b BY <1>0, <1>2, <1>8
    <3>2. cpl(b[1].hash) \in 0..Bits /\ cpl(b[1].hash) >= n BY <1>3, <3>1
    <3> QED BY <1>0, <1>2, <2>1, <3>2
  <2>2. CASE k # 2
    <3> DEFINE m == Split(b, n + (k - 1) - 2).moved
    <3>1. k - 1 \in 2..(k - 1) /\ n + (k - 1) - 2 \in Int BY <1>8a, <2>2
    <3>2. Len(m) >= BucketSize BY <1>4, <3>1 DEF Shallow
    <3>3. Part(m, b) /\ \A i \in DOMAIN m : cpl(m[i].hash) > n + (k - 1) - 2
      BY <1>2, <3>1, SplitParts
    <3> HIDE DEF m
    <3>4. m \in Seq(Entries) BY <3>3 DEF Part
    <3>5. 1 \in DOMAIN m BY <1>0, <3>2, <3>4
    <3>6. cpl(m[1].hash) > n + (k - 1) - 2 BY <3>3, <3>5
    <3>7. PICK i \in DOMAIN b : m[1] = b[i] BY <3>3, <3>5 DEF Part
    <3>8. cpl(b[i].hash) \in 0..Bits BY <1>3
    <3> QED BY <1>0, <1>8a, <3>6, <3>7, <3>8
  <2> QED BY <2>1, <2>2
<1>10. ASSUME NEW i \in DOMAIN t
       PROVE  /\ t[i] \in Seq(Entries) /\ Len(t[i]) <= BucketSize /\ Distinct(t[i])
              /\ \A j \in DOMAIN t[i] : bucketID(t, t[i][j].hash) = i
  <2>0. i \in 1..(n + k) BY <1>2
  <2>1. CASE i <= n
    <3>1. i \in 1..n /\ t[i] = bs[i] BY <1>2, <2>0, <2>1
    <3>2. \A j \in DOMAIN t[i] : cpl(t[i][j].hash) = i - 1 BY <1>7, <3>1
    <3>3. \A j \in DOMAIN t[i] : bucketID(t, t[i][j].hash) = i
      BY <1>2, <2>0, <3>1, <3>2 DEF bucketID
    <3> QED BY <1>7, <3>1, <3>3
  <2>2. CASE ~(i <= n)
    <3> DEFINE j == i - n
    <3>1. j \in 1..k /\ i = n + j BY <1>2, <2>0, <2>2
    <3> HIDE DEF j
    <3>2. t[i] = u[j] BY <1>2, <3>1
    <3>3. Part(u[j], b) BY <1>6, <3>1
    <3>4. t[i] \in Seq(Entries) /\ Len(t[i]) <= BucketSize /\ Distinct(t[i])
      <4>1. Len(u[j]) \in Nat /\ Len(b) \in Nat BY <1>2, <3>3 DEF Part
      <4> QED BY <1>0, <1>8, <3>2, <3>3, <4>1 DEF Part
    <3>5. ASSUME NEW l \in DOMAIN u[j] PROVE bucketID(t, u[j][l].hash) = i
      <4>1. PICK q \in DOMAIN b : u[j][l] = b[q] BY <3>3 DEF Part
      <4> DEFINE x == cpl(u[j][l].hash)
      <4>2. x \in 0..Bits /\ x >= n BY <1>3, <4>1
      <4>3. (j < k => x <= n + j - 1) /\ (j > 1 => x > n + j - 2) BY <1>6, <3>1
      <4>4. bucketID(t, u[j][l].hash) = IF x >= n + k THEN n + k ELSE x + 1
        BY <1>8a DEF bucketID
      <4> HIDE DEF x
      <4>5. (IF x >= n + k THEN n + k ELSE x + 1) = i
        BY <1>0, <1>8a, <3>1, <4>2, <4>3
      <4> QED BY <4>4, <4>5
    <3> QED BY <3>2, <3>4, <3>5
  <2> QED BY <2>1, <2>2
<1>11. Len(t) \in 1..(Bits + 2) BY <1>0, <1>2, <1>9
<1>12. TableOK(t) BY <1>2, <1>10, <1>11 DEF TableOK
<1>13. Len(t[Len(t)]) < BucketSize
  <2>1. k \in 1..k BY <1>8a
  <2>2. t[Len(t)] = u[k] BY <1>2, <2>1
  <2> QED BY <1>4, <1>5, <2>2 DEF Deep
<1> QED BY <1>12, <1>13 DEF t

\* Nobody is lost in the unfolding, and nobody is added.
LEMMA NextBucketPeers ==
  ASSUME NEW bs, TableOK(bs)
  PROVE  ListPeers(nextBucket(bs)) = ListPeers(bs)
<1> DEFINE n == Len(bs) - 1
           b == bs[Len(bs)]
           k == Depth(b, n)
           u == Unfolded(b, n, k)
           t == nextBucket(bs)
<1>1. Len(bs) = n + 1 /\ Len(bs) \in DOMAIN bs /\ DOMAIN bs = 1..(n + 1) BY DEF TableOK
<1>2. /\ n \in Nat /\ k \in Nat /\ k >= 2 /\ b \in Seq(Entries)
      /\ t \in Seq(Seq(Entries)) /\ Len(t) = n + k
      /\ \A q \in 1..n : t[q] = bs[q]
      /\ \A j \in 1..k : t[n + j] = u[j]
  BY NextBucketShape
<1>3. \A j \in 1..k : \A l \in DOMAIN u[j] : \E i \in DOMAIN b : u[j][l] = b[i]
  BY <1>2, UnfoldedParts DEF Part
<1>4. \A i \in DOMAIN b : \E j \in 1..k : \E l \in DOMAIN u[j] : u[j][l] = b[i]
  BY <1>2, UnfoldedAll
<1>5. b = bs[n + 1] /\ n + 1 \in DOMAIN bs BY <1>1
<1> HIDE DEF n, b, k, u, t
<1>6. DOMAIN t = 1..(n + k) /\ n \in Nat /\ k \in Nat /\ k >= 2 BY <1>2
<1>7. ASSUME NEW i \in DOMAIN t, NEW j \in DOMAIN t[i]
      PROVE  \E p \in DOMAIN bs : \E q \in DOMAIN bs[p] : bs[p][q] = t[i][j]
  <2>1. CASE i <= n
    <3>1. i \in 1..n /\ i \in DOMAIN bs BY <1>1, <1>2, <1>6, <2>1
    <3> QED BY <1>2, <3>1
  <2>2. CASE ~(i <= n)
    <3> DEFINE l == i - n
    <3>1. l \in 1..k /\ i = n + l BY <1>2, <1>6, <2>2
    <3> HIDE DEF l
    <3>2. t[i] = u[l] BY <1>2, <3>1
    <3>3. \E q \in DOMAIN b : b[q] = t[i][j] BY <1>3, <3>1, <3>2
    <3> QED BY <1>5, <3>3
  <2> QED BY <2>1, <2>2
<1>8. ASSUME NEW p \in DOMAIN bs, NEW q \in DOMAIN bs[p]
      PROVE  \E i \in DOMAIN t : \E j \in DOMAIN t[i] : t[i][j] = bs[p][q]
  <2>1. CASE p <= n
    <3>1. p \in 1..n /\ p \in DOMAIN t BY <1>1, <1>2, <1>6, <2>1
    <3> QED BY <1>2, <3>1
  <2>2. CASE ~(p <= n)
    <3>1. p = n + 1 BY <1>1, <1>6, <2>2
    <3>2. PICK j \in 1..k : \E l \in DOMAIN u[j] : u[j][l] = bs[p][q] BY <1>4, <1>5, <3>1
    <3>3. n + j \in DOMAIN t /\ t[n + j] = u[j] BY <1>2, <1>6
    <3> QED BY <3>2, <3>3
  <2> QED BY <2>1, <2>2
<1> QED BY <1>7, <1>8 DEF ListPeers, t


-----------------------------------------------------------------------------
(* The operations under tabLock.                                           *)

\* The table after a change of one bucket.
LEMMA ReplaceBucket ==
  ASSUME NEW bs, TableOK(bs), NEW i \in DOMAIN bs, NEW c \in Seq(Entries),
         Len(c) <= BucketSize, Distinct(c), \A j \in DOMAIN c : bucketID(bs, c[j].hash) = i
  PROVE  TableOK([bs EXCEPT ![i] = c])
<1> DEFINE t == [bs EXCEPT ![i] = c]
           S == Seq(Entries)
<1>1. bs \in Seq(S) /\ DOMAIN bs = 1..Len(bs) /\ Len(bs) \in 1..(Bits + 2) BY DEF TableOK
<1>2. t \in Seq(S) /\ Len(t) = Len(bs) /\ DOMAIN t = DOMAIN bs
  <2> HIDE DEF S
  <2>1. c \in S BY DEF S
  <2> QED BY <1>1, <2>1, ExceptSeq
<1>3. \A h : bucketID(t, h) = bucketID(bs, h) BY <1>2 DEF bucketID
<1>4. \A k \in DOMAIN bs : t[k] = IF k = i THEN c ELSE bs[k] OBVIOUS
<1> HIDE DEF t
<1>5. ASSUME NEW k \in DOMAIN t
      PROVE  /\ Len(t[k]) <= BucketSize /\ Distinct(t[k])
             /\ \A j \in DOMAIN t[k] : bucketID(t, t[k][j].hash) = k
  <2>1. CASE k = i BY <1>2, <1>3, <1>4, <2>1
  <2>2. CASE k # i
    <3>1. k \in DOMAIN bs /\ t[k] = bs[k] BY <1>2, <1>4, <2>2
    <3> QED BY <1>3, <3>1 DEF TableOK
  <2> QED BY <2>1, <2>2
<1>6. TableOK(t) BY <1>1, <1>2, <1>5 DEF TableOK
<1> QED BY <1>6 DEF t

\* Who is listed, by the place in the table.
LEMMA Listed ==
  ASSUME NEW bs, NEW e
  PROVE  e \in ListPeers(bs) <=> \E i \in DOMAIN bs : \E j \in DOMAIN bs[i] : bs[i][j] = e
BY DEF ListPeers

\* A bucket that keeps its entries keeps the table's.
LEMMA ReplaceKeeps ==
  ASSUME NEW bs, NEW i \in DOMAIN bs, NEW c,
         \A j \in DOMAIN bs[i] : \E k \in DOMAIN c : c[k] = bs[i][j]
  PROVE  /\ ListPeers(bs) \subseteq ListPeers([bs EXCEPT ![i] = c])
         /\ \A k \in DOMAIN c : c[k] \in ListPeers([bs EXCEPT ![i] = c])
<1> DEFINE t == [bs EXCEPT ![i] = c]
<1>1. DOMAIN t = DOMAIN bs /\ \A k \in DOMAIN bs : t[k] = IF k = i THEN c ELSE bs[k]
  OBVIOUS
<1> HIDE DEF t
<1>2. ASSUME NEW e \in ListPeers(bs) PROVE e \in ListPeers(t)
  <2>1. PICK p \in DOMAIN bs : \E q \in DOMAIN bs[p] : bs[p][q] = e BY Listed
  <2>2. \E j \in DOMAIN t[p] : t[p][j] = e BY <1>1, <2>1
  <2> QED BY <1>1, <2>2, Listed
<1>3. ASSUME NEW k \in DOMAIN c PROVE c[k] \in ListPeers(t)
  <2>1. i \in DOMAIN t /\ t[i] = c BY <1>1
  <2> QED BY <2>1, Listed
<1> QED BY <1>2, <1>3 DEF t

\* MoveToFront leaves the entries it found.
LEMMA MovedToFront ==
  ASSUME NEW b \in Seq(Entries), Distinct(b), NEW p
  PROVE  LET c == MoveToFront(b, p)
         IN  /\ c \in Seq(Entries) /\ Len(c) = Len(b) /\ Distinct(c)
             /\ \A k \in DOMAIN c : \E i \in DOMAIN b : c[k] = b[i]
             /\ \A i \in DOMAIN b : \E k \in DOMAIN c : c[k] = b[i]
<1> DEFINE I == {i \in DOMAIN b : b[i].id = p}
           J == {i \in DOMAIN b : b[i].id # p}
           x == ElementsAt(b, I)
           y == ElementsAt(b, J)
           c == MoveToFront(b, p)
<1>1. c = x \o y BY DEF MoveToFront
<1>2. /\ Part(x, b)
      /\ \A k \in DOMAIN x : \E i \in I : x[k] = b[i]
      /\ \A i \in I : \E k \in DOMAIN x : x[k] = b[i]
  <2>1. I \in SUBSET DOMAIN b OBVIOUS
  <2> HIDE DEF I
  <2> QED BY <2>1, ElementsArePart
<1>3. /\ Part(y, b)
      /\ \A k \in DOMAIN y : \E i \in J : y[k] = b[i]
      /\ \A i \in J : \E k \in DOMAIN y : y[k] = b[i]
  <2>1. J \in SUBSET DOMAIN b OBVIOUS
  <2> HIDE DEF J
  <2> QED BY <2>1, ElementsArePart
<1>4. Len(x) + Len(y) = Len(b)
  <2>0. Len(b) \in Nat /\ DOMAIN b = 1..Len(b) OBVIOUS
  <2>1. I \in SUBSET DOMAIN b /\ J \in SUBSET DOMAIN b /\ I \cup J = DOMAIN b /\ I \cap J = {}
    OBVIOUS
  <2> HIDE DEF I, J
  <2>2. Len(x) = Cardinality(I) /\ Len(y) = Cardinality(J) BY <2>1, ElementsAtPositions
  <2>3. IsFiniteSet(I) /\ IsFiniteSet(J) /\ Cardinality(I) \in Nat /\ Cardinality(J) \in Nat
    BY <2>0, <2>1, PositionsFinite
  <2>4. Cardinality(I \cup J) = Cardinality(I) + Cardinality(J) - Cardinality(I \cap J)
    BY <2>3, FS_Union
  <2>5. Cardinality(I \cap J) = 0 BY <2>1, FS_EmptySet
  <2>6. Cardinality(1..Len(b)) = Len(b) BY <2>0, IntervalCardinality
  <2>7. Cardinality(I \cup J) = Len(b) BY <2>0, <2>1, <2>6
  <2> HIDE DEF x, y
  <2> QED BY <2>0, <2>2, <2>3, <2>4, <2>5, <2>7
<1>5. /\ \A i \in I : i \in DOMAIN b /\ b[i].id = p
      /\ \A i \in J : i \in DOMAIN b /\ b[i].id # p
      /\ \A i \in DOMAIN b : i \in I \/ i \in J
  OBVIOUS
<1> HIDE DEF I, J, x, y, c
<1>6. x \in Seq(Entries) /\ y \in Seq(Entries) /\ Distinct(x) /\ Distinct(y)
  BY <1>2, <1>3 DEF Part
<1>7. /\ c \in Seq(Entries) /\ Len(c) = Len(x) + Len(y)
      /\ \A i \in 1..(Len(x) + Len(y)) : c[i] = IF i <= Len(x) THEN x[i] ELSE y[i - Len(x)]
  BY <1>1, <1>6, ConcatProperties
<1>8. /\ Len(x) \in Nat /\ Len(y) \in Nat /\ DOMAIN c = 1..(Len(x) + Len(y))
      /\ DOMAIN x = 1..Len(x) /\ DOMAIN y = 1..Len(y)
  BY <1>6, <1>7
<1>9. ASSUME NEW k \in DOMAIN c
      PROVE  \/ k \in DOMAIN x /\ c[k] = x[k]
             \/ k - Len(x) \in DOMAIN y /\ c[k] = y[k - Len(x)]
  BY <1>7, <1>8
<1>10. \A k \in DOMAIN c : \E i \in DOMAIN b : c[k] = b[i] BY <1>2, <1>3, <1>5, <1>9
<1>11. /\ \A k \in DOMAIN x : k \in DOMAIN c /\ c[k] = x[k]
       /\ \A k \in DOMAIN y : k + Len(x) \in DOMAIN c /\ c[k + Len(x)] = y[k]
  <2>1. ASSUME NEW k \in DOMAIN x PROVE k \in DOMAIN c /\ c[k] = x[k] BY <1>7, <1>8
  <2>2. ASSUME NEW k \in DOMAIN y PROVE k + Len(x) \in DOMAIN c /\ c[k + Len(x)] = y[k]
    <3>1. /\ k + Len(x) \in 1..(Len(x) + Len(y)) /\ ~(k + Len(x) <= Len(x))
          /\ (k + Len(x)) - Len(x) = k
      BY <1>8
    <3> QED BY <1>7, <1>8, <3>1
  <2> QED BY <2>1, <2>2
<1>12. \A i \in DOMAIN b : \E k \in DOMAIN c : c[k] = b[i] BY <1>2, <1>3, <1>5, <1>11
<1>13. ASSUME NEW j \in DOMAIN c, NEW l \in DOMAIN c, c[j] = c[l] PROVE j = l
  <2>1. \A k \in DOMAIN x : x[k].id = p BY <1>2, <1>5
  <2>2. \A k \in DOMAIN y : y[k].id # p BY <1>3, <1>5
  <2>3. CASE j \in DOMAIN x /\ c[j] = x[j]
    <3>1. l \in DOMAIN x /\ c[l] = x[l] BY <1>9, <1>13, <2>1, <2>2, <2>3
    <3> QED BY <1>6, <1>13, <2>3, <3>1 DEF Distinct
  <2>4. CASE j - Len(x) \in DOMAIN y /\ c[j] = y[j - Len(x)]
    <3>1. l - Len(x) \in DOMAIN y /\ c[l] = y[l - Len(x)] BY <1>9, <1>13, <2>1, <2>2, <2>4
    <3>2. j - Len(x) = l - Len(x) BY <1>6, <1>13, <2>4, <3>1 DEF Distinct
    <3> QED BY <1>8, <3>2
  <2> QED BY <1>9, <2>3, <2>4
<1>14. Distinct(c) BY <1>13 DEF Distinct
<1> QED BY <1>4, <1>7, <1>10, <1>12, <1>14 DEF c

\* PushFront adds a new entry.
LEMMA PushedFront ==
  ASSUME NEW b \in Seq(Entries), Distinct(b), NEW p \in Keys, NEW h \in ID,
         \A i \in DOMAIN b : b[i] # [id |-> p, hash |-> h]
  PROVE  LET c == PushFront(b, p, h)
         IN  /\ c \in Seq(Entries) /\ Len(c) = Len(b) + 1 /\ Distinct(c)
             /\ 1 \in DOMAIN c /\ c[1] = [id |-> p, hash |-> h]
             /\ \A k \in DOMAIN c : c[k] = [id |-> p, hash |-> h] \/ \E i \in DOMAIN b : c[k] = b[i]
             /\ \A i \in DOMAIN b : \E k \in DOMAIN c : c[k] = b[i]
<1> DEFINE e == [id |-> p, hash |-> h]
           c == PushFront(b, p, h)
<1>1. e \in Entries BY DEF Entries
<1>2. c = <<e>> \o b BY DEF PushFront
<1>3. \A i \in DOMAIN b : b[i] # e OBVIOUS
<1> HIDE DEF e, c
<1>4. /\ c \in Seq(Entries) /\ Len(c) = Len(b) + 1 /\ DOMAIN c = 1..(Len(b) + 1)
      /\ DOMAIN b = 1..Len(b) /\ Len(b) \in Nat
  BY <1>1, <1>2
<1>5. c[1] = e /\ 1 \in DOMAIN c BY <1>1, <1>2, <1>4
<1>6. \A k \in DOMAIN c : k = 1 \/ (k - 1 \in DOMAIN b /\ c[k] = b[k - 1]) BY <1>1, <1>2, <1>4
<1>7. \A i \in DOMAIN b : i + 1 \in DOMAIN c /\ c[i + 1] = b[i] BY <1>1, <1>2, <1>4
<1>8. ASSUME NEW j \in DOMAIN c, NEW l \in DOMAIN c, c[j] = c[l] PROVE j = l
  <2>1. CASE j = 1 BY <1>3, <1>5, <1>6, <1>8, <2>1
  <2>2. CASE l = 1 BY <1>3, <1>5, <1>6, <1>8, <2>2
  <2>3. CASE j # 1 /\ l # 1
    <3>1. j - 1 = l - 1 BY <1>6, <1>8, <2>3 DEF Distinct
    <3> QED BY <1>4, <3>1
  <2> QED BY <2>1, <2>2, <2>3
<1>9. Distinct(c) BY <1>8 DEF Distinct
<1>10. \A k \in DOMAIN c : c[k] = e \/ \E i \in DOMAIN b : c[k] = b[i] BY <1>5, <1>6
<1>11. \A i \in DOMAIN b : \E k \in DOMAIN c : c[k] = b[i] BY <1>7
<1> QED BY <1>4, <1>5, <1>9, <1>10, <1>11 DEF c, e


\* A table lists finitely many peers.
LEMMA ListPeersFinite ==
  ASSUME NEW bs, TableOK(bs)
  PROVE  IsFiniteSet(ListPeers(bs))
<1> DEFINE Of(i) == {bs[i][j] : j \in DOMAIN bs[i]}
           All == {Of(i) : i \in DOMAIN bs}
           f == [i \in DOMAIN bs |-> Of(i)]
<1>1. Len(bs) \in Nat /\ DOMAIN bs = 1..Len(bs) /\ \A i \in DOMAIN bs : bs[i] \in Seq(Entries)
  BY DEF TableOK
<1>2. \A n \in Nat : IsFiniteSet(1..n) BY FS_Interval
<1>3. ASSUME NEW i \in DOMAIN bs PROVE IsFiniteSet(Of(i))
  <2> DEFINE b == bs[i]
  <2>1. Len(b) \in Nat /\ DOMAIN b = 1..Len(b) /\ b \in [1..Len(b) -> Entries] BY <1>1
  <2>2. b \in Surjection(DOMAIN b, Of(i))
    <3>1. b \in [DOMAIN b -> Of(i)]
      <4>1. b = [j \in DOMAIN b |-> b[j]] BY <2>1
      <4>2. \A j \in DOMAIN b : b[j] \in Of(i) OBVIOUS
      <4> HIDE DEF Of
      <4> QED BY <4>1, <4>2
    <3>2. \A e \in Of(i) : \E j \in DOMAIN b : b[j] = e OBVIOUS
    <3> HIDE DEF Of
    <3> QED BY <3>1, <3>2 DEF Surjection
  <2>3. IsFiniteSet(DOMAIN b) BY <1>2, <2>1
  <2> QED BY <2>2, <2>3, FS_Surjection
<1>4. f \in Surjection(DOMAIN bs, All)
  <2>1. f \in [DOMAIN bs -> All] OBVIOUS
  <2>2. \A e \in All : \E i \in DOMAIN bs : f[i] = e OBVIOUS
  <2> QED BY <2>1, <2>2 DEF Surjection
<1>5. IsFiniteSet(DOMAIN bs) BY <1>1, <1>2
<1>6. IsFiniteSet(All)
  <2> HIDE DEF f, All
  <2> QED BY <1>4, <1>5, FS_Surjection
<1>7. \A T \in All : IsFiniteSet(T) BY <1>3
<1>8. ListPeers(bs) = UNION All BY DEF ListPeers
<1> HIDE DEF All
<1> QED BY <1>6, <1>7, <1>8, FS_UNION

\* A full bucket that is not the last holds so many peers with the same common prefix.
LEMMA FullBucket ==
  ASSUME NEW bs, TableOK(bs), NEW j \in DOMAIN bs, j < Len(bs), Len(bs[j]) >= BucketSize
  PROVE  Cardinality({e \in ListPeers(bs) : cpl(e.hash) = j - 1}) >= BucketSize
<1> DEFINE b == bs[j]
           C == {e \in ListPeers(bs) : cpl(e.hash) = j - 1}
<1>1. b \in Seq(Entries) /\ Len(b) \in Nat /\ DOMAIN b = 1..Len(b) /\ Distinct(b)
  BY DEF TableOK
<1>2. \A k \in 1..Len(b) : b[k] \in C
  <2> SUFFICES ASSUME NEW k \in 1..Len(b) PROVE b[k] \in C OBVIOUS
  <2>1. cpl(b[k].hash) = j - 1 BY <1>1, Prefixes
  <2>2. b[k] \in ListPeers(bs) BY <1>1, Listed
  <2> QED BY <2>1, <2>2
<1>3. b \in Injection(1..Len(b), C)
  <2> HIDE DEF C
  <2>1. b \in [1..Len(b) -> C]
    <3>1. b = [k \in 1..Len(b) |-> b[k]] BY <1>1
    <3> QED BY <1>2, <3>1
  <2>2. \A k, l \in 1..Len(b) : b[k] = b[l] => k = l BY <1>1 DEF Distinct
  <2> QED BY <2>1, <2>2 DEF Injection, IsInjective
<1>4. IsFiniteSet(C)
  <2>1. C \in SUBSET ListPeers(bs) OBVIOUS
  <2> HIDE DEF C
  <2> QED BY <2>1, ListPeersFinite, FS_Subset
<1> HIDE DEF C
<1>5. Cardinality(1..Len(b)) <= Cardinality(C) BY <1>3, <1>4, FS_Injection
<1>6. Cardinality(1..Len(b)) = Len(b) BY <1>1, IntervalCardinality
<1>7. Cardinality(C) \in Nat BY <1>4, FS_CardinalityType
<1>8. BucketSize \in Nat /\ Len(b) >= BucketSize BY SizeAssumption
<1> HIDE DEF b
<1>9. Cardinality(C) >= BucketSize BY <1>1, <1>5, <1>6, <1>7, <1>8
<1> QED BY <1>9 DEF C

\* Update, under tabLock: the table stays one, nobody leaves it, and the peer is in it
\* unless enough peers are as far from the local hash.
LEMMA UpdateKeeps ==
  ASSUME NEW bs, TableOK(bs), NEW p \in Keys, NEW h \in ID
  PROVE  LET u == Update(bs, p, h)
         IN  /\ TableOK(u) /\ ListPeers(bs) \subseteq ListPeers(u)
             /\ \/ \E e \in ListPeers(u) : e.id = p
                \/ Cardinality({e \in ListPeers(u) : cpl(e.hash) = cpl(h)}) >= BucketSize
<1> DEFINE i == bucketID(bs, h)
           t == IF Len(bs[i]) >= BucketSize /\ i = Len(bs) THEN nextBucket(bs) ELSE bs
           j == bucketID(t, h)
           u == Update(bs, p, h)
           e == [id |-> p, hash |-> h]
<1>0. cpl(h) \in Nat /\ BucketSize \in Nat BY CplType, HashAssumption, SizeAssumption
<1>1. i \in DOMAIN bs /\ DOMAIN bs = 1..Len(bs) /\ Len(bs) \in Nat
  BY BucketExists DEF TableOK
<1>2. bs[i] \in Seq(Entries) /\ Distinct(bs[i]) /\ Len(bs[i]) <= BucketSize
  BY <1>1 DEF TableOK
<1>3. /\ TableOK(t) /\ ListPeers(t) = ListPeers(bs)
      /\ Len(t[Len(t)]) < BucketSize \/ (t = bs /\ (i = Len(bs) => Len(bs[i]) < BucketSize))
  <2>1. CASE Len(bs[i]) >= BucketSize /\ i = Len(bs)
    <3>1. t = nextBucket(bs) BY <2>1
    <3> QED BY <2>1, <3>1, NextBucketPlaces, NextBucketPeers
  <2>2. CASE ~(Len(bs[i]) >= BucketSize /\ i = Len(bs))
    <3>1. t = bs BY <2>2
    <3>2. Len(bs[i]) \in Nat BY <1>2
    <3> QED BY <1>0, <2>2, <3>1, <3>2
  <2> QED BY <2>1, <2>2
<1>4. CASE Has(bs[i], p)
  <2> DEFINE c == MoveToFront(bs[i], p)
  <2>1. u = [bs EXCEPT ![i] = c] BY <1>4 DEF Update
  <2>2. /\ c \in Seq(Entries) /\ Len(c) = Len(bs[i]) /\ Distinct(c)
        /\ \A k \in DOMAIN c : \E l \in DOMAIN bs[i] : c[k] = bs[i][l]
        /\ \A l \in DOMAIN bs[i] : \E k \in DOMAIN c : c[k] = bs[i][l]
    BY <1>2, MovedToFront
  <2>3. \A l \in DOMAIN bs[i] : bucketID(bs, bs[i][l].hash) = i BY <1>1 DEF TableOK
  <2> HIDE DEF c, i, u
  <2>4. \A k \in DOMAIN c : bucketID(bs, c[k].hash) = i BY <2>2, <2>3
  <2>5. TableOK(u) BY <1>1, <1>2, <2>1, <2>2, <2>4, ReplaceBucket
  <2>6. ListPeers(bs) \subseteq ListPeers(u) BY <1>1, <2>1, <2>2, ReplaceKeeps
  <2>7. \E f \in ListPeers(bs) : f.id = p BY <1>1, <1>4, Listed DEF Has
  <2> QED BY <2>5, <2>6, <2>7 DEF u
<1>5. CASE ~Has(bs[i], p)
  <2>1. u = IF Len(t[j]) < BucketSize THEN [t EXCEPT ![j] = PushFront(t[j], p, h)] ELSE t
    BY <1>5 DEF Update
  <2>2. j \in DOMAIN t /\ DOMAIN t = 1..Len(t) /\ Len(t) \in Nat
    <3> HIDE DEF t
    <3>1. t \in Seq(Seq(Entries)) /\ Len(t) \in 1..(Bits + 2) /\ Bits \in Nat
      BY <1>3, HashAssumption DEF TableOK
    <3>2. Len(t) \in Nat /\ Len(t) > 0 /\ DOMAIN t = 1..Len(t) BY <3>1
    <3> QED BY <3>2, BucketExists
  <2>3. t[j] \in Seq(Entries) /\ Distinct(t[j]) /\ Len(t[j]) \in Nat /\ Len(t[j]) <= BucketSize
    BY <1>3, <2>2 DEF TableOK
  <2>4. j < Len(t) => cpl(h) = j - 1 BY <1>0, <2>2 DEF bucketID
  <2>5. e \notin ListPeers(bs)
    <3> SUFFICES ASSUME e \in ListPeers(bs) PROVE FALSE OBVIOUS
    <3>1. PICK q \in DOMAIN bs : \E l \in DOMAIN bs[q] : bs[q][l] = e BY Listed
    <3>2. PICK l \in DOMAIN bs[q] : bs[q][l] = e BY <3>1
    <3>3. bucketID(bs, bs[q][l].hash) = q BY DEF TableOK
    <3>4. bs[q][l].hash = h /\ bs[q][l].id = p BY <3>2
    <3>5. q = i BY <3>3, <3>4
    <3> QED BY <1>5, <3>4, <3>5 DEF Has
  <2>6. t = bs => j = i OBVIOUS
  <2>10. bucketID(t, h) = j OBVIOUS
  <2> HIDE DEF i, t, j, u
  <2>7. \A l \in DOMAIN t[j] : bucketID(t, t[j][l].hash) = j BY <1>3, <2>2 DEF TableOK
  <2>8. CASE Len(t[j]) < BucketSize
    <3> DEFINE c == PushFront(t[j], p, h)
    <3>1. u = [t EXCEPT ![j] = c] BY <2>1, <2>8
    <3>2. \A l \in DOMAIN t[j] : t[j][l] # e
      <4>1. \A l \in DOMAIN t[j] : t[j][l] \in ListPeers(t) BY <2>2, Listed
      <4> HIDE DEF e
      <4> QED BY <1>3, <2>5, <4>1
    <3>3. /\ c \in Seq(Entries) /\ Len(c) = Len(t[j]) + 1 /\ Distinct(c)
          /\ 1 \in DOMAIN c /\ c[1] = e
          /\ \A k \in DOMAIN c : c[k] = e \/ \E l \in DOMAIN t[j] : c[k] = t[j][l]
          /\ \A l \in DOMAIN t[j] : \E k \in DOMAIN c : c[k] = t[j][l]
      <4> DEFINE b == t[j]
      <4>1. b \in Seq(Entries) /\ Distinct(b) /\ \A l \in DOMAIN b : b[l] # e BY <2>3, <3>2
      <4> HIDE DEF b
      <4> QED BY <4>1, PushedFront DEF b
    <3>4. e.hash = h /\ e.id = p OBVIOUS
    <3> HIDE DEF c, e
    <3>5. \A k \in DOMAIN c : bucketID(t, c[k].hash) = j BY <2>7, <2>10, <3>3, <3>4
    <3>6. Len(c) <= BucketSize BY <1>0, <2>3, <2>8, <3>3
    <3>7. TableOK(u) BY <1>3, <2>2, <3>1, <3>3, <3>5, <3>6, ReplaceBucket
    <3>8. /\ ListPeers(t) \subseteq ListPeers(u)
          /\ \A k \in DOMAIN c : c[k] \in ListPeers(u)
      BY <2>2, <3>1, <3>3, ReplaceKeeps
    <3>9. e \in ListPeers(u) BY <3>3, <3>8
    <3> QED BY <1>3, <3>4, <3>7, <3>8, <3>9 DEF u
  <2>9. CASE ~(Len(t[j]) < BucketSize)
    <3>1. u = t BY <2>1, <2>9
    <3>2. j < Len(t)
      <4> SUFFICES ASSUME j = Len(t) PROVE FALSE BY <2>2
      <4> QED BY <1>3, <2>6, <2>9
    <3>3. Cardinality({f \in ListPeers(t) : cpl(f.hash) = j - 1}) >= BucketSize
      BY <1>0, <1>3, <2>2, <2>3, <2>9, <3>2, FullBucket
    <3>4. cpl(h) = j - 1 BY <2>4, <3>2
    <3>5. TableOK(u) /\ ListPeers(bs) \subseteq ListPeers(u) BY <1>3, <3>1
    <3>6. Cardinality({f \in ListPeers(u) : cpl(f.hash) = cpl(h)}) >= BucketSize
      BY <3>1, <3>3, <3>4
    <3> QED BY <3>5, <3>6 DEF u
  <2> QED BY <2>8, <2>9
<1> QED BY <1>4, <1>5

\* Remove, under tabLock.
LEMMA RemoveKeeps ==
  ASSUME NEW bs, TableOK(bs), NEW p \in Keys, NEW h \in ID
  PROVE  TableOK(Remove(bs, p, h))
<1> DEFINE i == bucketID(bs, h)
           I == {k \in DOMAIN bs[i] : bs[i][k].id # p}
           c == ElementsAt(bs[i], I)
<1>1. i \in DOMAIN bs BY BucketExists DEF TableOK
<1>2. bs[i] \in Seq(Entries) /\ Distinct(bs[i]) /\ Len(bs[i]) <= BucketSize
      /\ \A l \in DOMAIN bs[i] : bucketID(bs, bs[i][l].hash) = i
  BY <1>1 DEF TableOK
<1>3. Part(c, bs[i])
  <2>1. I \in SUBSET DOMAIN bs[i] OBVIOUS
  <2> HIDE DEF I
  <2> QED BY <1>2, <2>1, ElementsArePart
<1>4. Remove(bs, p, h) = [bs EXCEPT ![i] = c] BY DEF Remove, RemoveFrom
<1> HIDE DEF i, c
<1>5. c \in Seq(Entries) /\ Distinct(c) /\ Len(c) \in Nat /\ Len(c) <= Len(bs[i])
  BY <1>2, <1>3 DEF Part
<1>6. Len(c) <= BucketSize
  <2>1. Len(bs[i]) \in Nat /\ BucketSize \in Nat BY <1>2, SizeAssumption
  <2> QED BY <1>2, <1>5, <2>1
<1>7. \A k \in DOMAIN c : bucketID(bs, c[k].hash) = i BY <1>2, <1>3 DEF Part
<1>8. TableOK([bs EXCEPT ![i] = c]) BY <1>1, <1>5, <1>6, <1>7, ReplaceBucket
<1> QED BY <1>4, <1>8


-----------------------------------------------------------------------------
(* The theorems.                                                           *)

\* A hash, torn or not, is one.
LEMMA HashPeerType ==
  ASSUME TableInv, NEW t \in Threads
  PROVE  call[t].key \in Keys /\ hashPeer(t) \subseteq ID
<1>1. call[t].key \in Keys BY DEF TableInv
<1>2. Hash[call[t].key] \in ID BY <1>1, HashAssumption
<1> QED BY <1>1, <1>2 DEF hashPeer

\* The table stays one, whatever hashes its callers read.
THEOREM TableInvariance == Spec => []TableInv
<1>1. Init => TableInv
  <2> SUFFICES ASSUME Init PROVE TableInv OBVIOUS
  <2>1. TableOK(buckets)
    <3> DEFINE empty == <<>>
    <3>1. buckets = <<empty>> BY DEF Init
    <3>2. empty \in Seq(Entries) /\ Len(empty) = 0 /\ DOMAIN empty = {} OBVIOUS
    <3> HIDE DEF empty
    <3>3. buckets \in Seq(Seq(Entries)) /\ Len(buckets) = 1 /\ buckets[1] = empty
          /\ DOMAIN buckets = {1}
      BY <3>1, <3>2
    <3>4. Len(buckets) \in 1..(Bits + 2) BY <3>3, HashAssumption
    <3>5. \A i \in DOMAIN buckets : Len(buckets[i]) <= BucketSize BY <3>2, <3>3, SizeAssumption
    <3> QED BY <3>2, <3>3, <3>4, <3>5 DEF TableOK, Distinct
  <2>2. /\ call \in [Threads -> [op : {"idle", "update", "remove", "nearest"}, key : Keys,
                                 torn : BOOLEAN]]
        /\ races \in 0..MaxRaces
    BY KeysAssumption, SizeAssumption DEF Init, Idle
  <2> QED BY <2>1, <2>2 DEF TableInv
<1>2. TableInv /\ [Next]_vars => TableInv'
  <2> SUFFICES ASSUME TableInv, [Next]_vars PROVE TableInv' OBVIOUS
  <2>0. /\ TableOK(buckets)
        /\ call \in [Threads -> [op : {"idle", "update", "remove", "nearest"}, key : Keys,
                                 torn : BOOLEAN]]
        /\ races \in 0..MaxRaces /\ MaxRaces \in Nat /\ Local \in Keys
    BY SizeAssumption, KeysAssumption DEF TableInv
  <2>1. ASSUME NEW t \in Threads, NEW op \in {"update", "remove", "nearest"}, NEW k \in Keys,
               Begin(t, op, k)
        PROVE  TableInv'
    <3> DEFINE others == {u \in Threads \ {t} : call[u] # Idle}
    <3>1. /\ buckets' = buckets /\ (others = {} \/ races < MaxRaces)
          /\ races' = IF others = {} THEN races ELSE races + 1
          /\ call' = [u \in Threads |->
                        IF u = t THEN [op |-> op, key |-> k, torn |-> others # {}]
                        ELSE IF u \in others THEN [call[u] EXCEPT !.torn = TRUE]
                        ELSE call[u]]
      BY <2>1 DEF Begin
    <3> HIDE DEF others
    <3>2. races' \in 0..MaxRaces BY <2>0, <3>1
    <3>3. call' \in [Threads -> [op : {"idle", "update", "remove", "nearest"}, key : Keys,
                                 torn : BOOLEAN]]
      BY <2>0, <3>1
    <3> QED BY <2>0, <3>1, <3>2, <3>3 DEF TableInv
  <2>2. ASSUME NEW t \in Threads, call' = [call EXCEPT ![t] = Idle], races' = races
        PROVE  /\ call' \in [Threads -> [op : {"idle", "update", "remove", "nearest"},
                                         key : Keys, torn : BOOLEAN]]
               /\ races' \in 0..MaxRaces
    BY <2>0, <2>2 DEF Idle
  <2>3. ASSUME NEW t \in Threads, UpdatePeer(t) PROVE TableInv'
    <3>1. PICK h \in hashPeer(t) : buckets' = Update(buckets, call[t].key, h)
      BY <2>3 DEF UpdatePeer
    <3>2. TableOK(buckets') BY <2>0, <3>1, HashPeerType, UpdateKeeps
    <3> QED BY <2>2, <2>3, <3>2 DEF UpdatePeer, TableInv
  <2>4. ASSUME NEW t \in Threads, RemovePeer(t) PROVE TableInv'
    <3>1. PICK h \in hashPeer(t) : buckets' = Remove(buckets, call[t].key, h)
      BY <2>4 DEF RemovePeer
    <3>2. TableOK(buckets') BY <2>0, <3>1, HashPeerType, RemoveKeeps
    <3> QED BY <2>2, <2>4, <3>2 DEF RemovePeer, TableInv
  <2>5. ASSUME NEW t \in Threads, QueryPeers(t) PROVE TableInv'
    BY <2>0, <2>2, <2>5 DEF QueryPeers, TableInv
  <2>6. CASE UNCHANGED vars BY <2>0, <2>6 DEF vars, TableInv
  <2> QED BY <2>0, <2>1, <2>3, <2>4, <2>5, <2>6 DEF Next
<1> QED BY <1>1, <1>2, PTL DEF Spec

\* Type correctness and the bounds of the table: however often it is unfolded, no bucket
\* outgrows bucketsize and there are no more buckets than prefixes.
THEOREM TableTypes == Spec => []TypeOK
<1>1. TableInv => TypeOK BY DEF TableInv, TableOK, TypeOK
<1> QED BY <1>1, TableInvariance, PTL

\* Every entry is once in the table, and in the bucket of its hash.
THEOREM TableWellPlaced == Spec => []WellPlaced
<1>1. TableInv => InOwnBucket BY DEF TableInv, TableOK, InOwnBucket
<1>2. TableInv => ListedOnce
  <2> SUFFICES ASSUME TableInv, NEW i \in DOMAIN buckets, NEW k \in DOMAIN buckets,
                      NEW j \in DOMAIN buckets[i], NEW l \in DOMAIN buckets[k],
                      buckets[i][j] = buckets[k][l]
               PROVE  i = k /\ j = l
    BY DEF ListedOnce
  <2>1. i = k
    <3>1. bucketID(buckets, buckets[i][j].hash) = i /\ bucketID(buckets, buckets[k][l].hash) = k
      BY DEF TableInv, TableOK
    <3> QED BY <3>1
  <2>2. Distinct(buckets[i]) BY DEF TableInv, TableOK
  <2> QED BY <2>1, <2>2 DEF Distinct
<1> QED BY <1>1, <1>2, TableInvariance, PTL DEF WellPlaced

\* Only Remove takes peers out of the table, and Update turns a peer away only when
\* BucketSize listed peers are as far from the local hash as it is.
THEOREM TableNoPeerLost == Spec => NoPeerLost
<1> DEFINE Keeps == (\A t \in Threads : call[t].op = "remove" => call'[t] = call[t])
                       => ListPeers(buckets) \subseteq ListPeers(buckets')
           Fits(t) == LET k == call[t].key
                      IN  \/ \E e \in ListPeers(buckets') : e.id = k
                          \/ Cardinality({e \in ListPeers(buckets') :
                                            cpl(e.hash) = cpl(Hash[k])}) >= BucketSize
           Ends(t) == call[t].op = "update" /\ call'[t] = Idle /\ ~call[t].torn
<1>1. TableInv /\ [Next]_vars => Keeps /\ \A t \in Threads : Ends(t) => Fits(t)
  <2> SUFFICES ASSUME TableInv, [Next]_vars
               PROVE  Keeps /\ \A t \in Threads : Ends(t) => Fits(t)
    OBVIOUS
  <2>0. /\ TableOK(buckets)
        /\ call \in [Threads -> [op : {"idle", "update", "remove", "nearest"}, key : Keys,
                                 torn : BOOLEAN]]
    BY DEF TableInv
  <2>1. ASSUME UNCHANGED buckets, \A t \in Threads : call[t].op = "update" => call'[t] # Idle
        PROVE  Keeps /\ \A t \in Threads : Ends(t) => Fits(t)
    <3> HIDE DEF Fits
    <3> QED BY <2>1
  <2>2. ASSUME NEW t \in Threads, NEW op \in {"update", "remove", "nearest"}, NEW k \in Keys,
               Begin(t, op, k)
        PROVE  Keeps /\ \A u \in Threads : Ends(u) => Fits(u)
    <3>1. ASSUME NEW u \in Threads, call[u].op = "update" PROVE call'[u] # Idle
      <4>1. call'[u].op = "update" BY <2>0, <2>2, <3>1 DEF Begin, Idle
      <4> QED BY <4>1 DEF Idle
    <3> HIDE DEF Fits, Ends, Keeps
    <3> QED BY <2>1, <2>2, <3>1 DEF Begin
  <2>3. ASSUME NEW t \in Threads, UpdatePeer(t)
        PROVE  Keeps /\ \A u \in Threads : Ends(u) => Fits(u)
    <3>1. PICK h \in hashPeer(t) : buckets' = Update(buckets, call[t].key, h)
      BY <2>3 DEF UpdatePeer
    <3>2. h \in ID /\ call[t].key \in Keys BY HashPeerType
    <3>3. /\ ListPeers(buckets) \subseteq ListPeers(buckets')
          /\ \/ \E e \in ListPeers(buckets') : e.id = call[t].key
             \/ Cardinality({e \in ListPeers(buckets') : cpl(e.hash) = cpl(h)}) >= BucketSize
      BY <2>0, <3>1, <3>2, UpdateKeeps
    <3>4. ~call[t].torn => h = Hash[call[t].key] BY DEF hashPeer
    <3>5. Ends(t) => Fits(t) BY <3>3, <3>4
    <3>6. ASSUME NEW u \in Threads, Ends(u) PROVE u = t
      BY <2>0, <2>3, <3>6 DEF UpdatePeer, Idle
    <3> QED BY <3>3, <3>5, <3>6
  <2>4. ASSUME NEW t \in Threads, RemovePeer(t)
        PROVE  Keeps /\ \A u \in Threads : Ends(u) => Fits(u)
    <3>1. call[t].op = "remove" /\ call' = [call EXCEPT ![t] = Idle] BY <2>4 DEF RemovePeer
    <3>2. call'[t] # call[t] BY <2>0, <3>1 DEF Idle
    <3>3. \A u \in Threads : ~Ends(u) BY <2>0, <3>1 DEF Idle
    <3> QED BY <3>1, <3>2, <3>3
  <2>5. ASSUME NEW t \in Threads, QueryPeers(t)
        PROVE  Keeps /\ \A u \in Threads : Ends(u) => Fits(u)
    <3>1. call[t].op = "nearest" /\ call' = [call EXCEPT ![t] = Idle] /\ UNCHANGED buckets
      BY <2>5 DEF QueryPeers
    <3>2. \A u \in Threads : ~Ends(u) BY <2>0, <3>1 DEF Idle
    <3> HIDE DEF Ends, Fits
    <3> QED BY <3>1, <3>2
  <2>6. CASE UNCHANGED vars
    <3>1. \A u \in Threads : ~Ends(u) BY <2>0, <2>6 DEF vars, Idle
    <3> HIDE DEF Ends, Fits
    <3> QED BY <2>6, <3>1 DEF vars
  <2> HIDE DEF Keeps, Ends, Fits
  <2> QED BY <2>2, <2>3, <2>4, <2>5, <2>6, KeysAssumption DEF Next
<1> QED BY <1>1, TableInvariance, PTL DEF Spec, NoPeerLost

-----------------------------------------------------------------------------
(* NearestPeers and Find.                                                  *)

\* The elements of an ID are bits.
LEMMA BitType ==
  ASSUME NEW a \in ID, NEW i \in 1..Bits
  PROVE  a[i] \in {0, 1}
BY DEF ID

\* Different IDs differ in some bit for the first time.
LEMMA FirstDifference ==
  ASSUME NEW a \in ID, NEW b \in ID, a # b
  PROVE  \E i \in 1..Bits : a[i] # b[i] /\ \A j \in 1..(i - 1) : a[j] = b[j]
<1> DEFINE D == {i \in 1..Bits : a[i] # b[i]}
<1>1. Bits \in Nat BY HashAssumption
<1>2. D # {}
  <2> SUFFICES ASSUME \A i \in 1..Bits : a[i] = b[i] PROVE FALSE OBVIOUS
  <2>1. a = [i \in 1..Bits |-> a[i]] /\ b = [i \in 1..Bits |-> b[i]] BY DEF ID
  <2>2. [i \in 1..Bits |-> a[i]] = [i \in 1..Bits |-> b[i]] OBVIOUS
  <2> QED BY <2>1, <2>2
<1>3. D \subseteq Nat BY <1>1
<1>4. PICK i \in D : \A j \in D : i <= j
  <2> HIDE DEF D
  <2> QED BY <1>2, <1>3, LeastNumber
<1>5. ASSUME NEW j \in 1..(i - 1) PROVE a[j] = b[j]
  <2>1. j \in 1..Bits /\ ~(i <= j) BY <1>1
  <2> QED BY <1>4, <2>1
<1> QED BY <1>4, <1>5

\* less is irreflexive, total and transitive: distances are ordered like numbers.
LEMMA LessOrders ==
  /\ \A a \in ID : ~less(a, a)
  /\ \A a, b \in ID : a = b \/ less(a, b) \/ less(b, a)
  /\ \A a, b, c \in ID : less(a, b) /\ less(b, c) => less(a, c)
<1>0. Bits \in Nat BY HashAssumption
<1>1. ASSUME NEW a \in ID PROVE ~less(a, a) BY BitType DEF less
<1>2. ASSUME NEW a \in ID, NEW b \in ID, a # b PROVE less(a, b) \/ less(b, a)
  <2>1. PICK i \in 1..Bits : a[i] # b[i] /\ \A j \in 1..(i - 1) : a[j] = b[j]
    BY <1>2, FirstDifference
  <2>2. a[i] \in {0, 1} /\ b[i] \in {0, 1} BY BitType
  <2>3. a[i] < b[i] \/ b[i] < a[i] BY <2>1, <2>2
  <2> QED BY <2>1, <2>3 DEF less
<1>3. ASSUME NEW a \in ID, NEW b \in ID, NEW c \in ID, less(a, b), less(b, c) PROVE less(a, c)
  <2>1. PICK i \in 1..Bits : a[i] < b[i] /\ \A k \in 1..(i - 1) : a[k] = b[k]
    BY <1>3 DEF less
  <2>2. PICK j \in 1..Bits : b[j] < c[j] /\ \A k \in 1..(j - 1) : b[k] = c[k]
    BY <1>3 DEF less
  <2>3. /\ a[i] \in {0, 1} /\ b[i] \in {0, 1} /\ c[i] \in {0, 1}
        /\ a[j] \in {0, 1} /\ b[j] \in {0, 1} /\ c[j] \in {0, 1}
    BY BitType
  <2>4. CASE i < j
    <3>1. i \in 1..(j - 1) /\ \A k \in 1..(i - 1) : k \in 1..(j - 1) BY <1>0, <2>4
    <3>2. a[i] < c[i] /\ \A k \in 1..(i - 1) : a[k] = c[k] BY <2>1, <2>2, <3>1
    <3> QED BY <3>2 DEF less
  <2>5. CASE j < i
    <3>1. j \in 1..(i - 1) /\ \A k \in 1..(j - 1) : k \in 1..(i - 1) BY <1>0, <2>5
    <3>2. a[j] < c[j] /\ \A k \in 1..(j - 1) : a[k] = c[k] BY <2>1, <2>2, <3>1
    <3> QED BY <3>2 DEF less
  <2>6. CASE i = j
    <3>1. a[i] < c[i] BY <2>1, <2>2, <2>3, <2>6
    <3>2. \A k \in 1..(i - 1) : a[k] = c[k] BY <2>1, <2>2, <2>6
    <3> QED BY <3>1, <3>2 DEF less
  <2> QED BY <1>0, <2>4, <2>5, <2>6
<1> QED BY <1>1, <1>2, <1>3

\* A distance is an ID, 0 in the bits that agree.
LEMMA Distance ==
  ASSUME NEW a \in ID, NEW b \in ID
  PROVE  /\ xor(a, b) \in ID
         /\ \A i \in 1..Bits : xor(a, b)[i] = IF a[i] = b[i] THEN 0 ELSE 1
BY DEF xor, ID

\* Nothing is closer to an ID than itself, and everything else is farther.
LEMMA SelfIsNearest ==
  ASSUME NEW a \in ID, NEW b \in ID, a # b
  PROVE  less(xor(a, a), xor(a, b))
<1>1. PICK i \in 1..Bits : a[i] # b[i] /\ \A j \in 1..(i - 1) : a[j] = b[j]
  BY FirstDifference
<1>2. xor(a, a)[i] = 0 /\ xor(a, b)[i] = 1 BY <1>1, Distance
<1>3. ASSUME NEW j \in 1..(i - 1) PROVE xor(a, a)[j] = xor(a, b)[j]
  <2>1. j \in 1..Bits BY HashAssumption
  <2> QED BY <1>1, <2>1, Distance
<1>4. xor(a, a)[i] < xor(a, b)[i] BY <1>2
<1> QED BY <1>3, <1>4 DEF less

\* A hash agrees with the local one on the common prefix and differs in the bit after it.
LEMMA CplAgrees ==
  ASSUME NEW h \in ID
  PROVE  /\ \A j \in 1..cpl(h) : h[j] = Hash[Local][j]
         /\ cpl(h) < Bits => h[cpl(h) + 1] # Hash[Local][cpl(h) + 1]
<1> DEFINE d == xor(h, Hash[Local])
           First(n) == n \in 1..Bits /\ d[n] = 1 /\ \A j \in 1..(n - 1) : d[j] = 0
<1>1. Bits \in Nat /\ Hash[Local] \in ID BY HashAssumption, KeysAssumption
<1>2. \A i \in 1..Bits : d[i] = IF h[i] = Hash[Local][i] THEN 0 ELSE 1 BY <1>1, Distance
<1>3. cpl(h) = zeroPrefixLen(d) BY DEF cpl, CommonPrefixLen
<1> HIDE DEF d
<1>4. CASE \A i \in 1..Bits : d[i] = 0
  <2>1. cpl(h) = Bits BY <1>3, <1>4 DEF zeroPrefixLen
  <2> QED BY <1>1, <1>2, <1>4, <2>1
<1>5. CASE ~\A i \in 1..Bits : d[i] = 0
  <2>1. h # Hash[Local] BY <1>2, <1>5
  <2>2. PICK i \in 1..Bits : h[i] # Hash[Local][i]
                             /\ \A j \in 1..(i - 1) : h[j] = Hash[Local][j]
    BY <1>1, <2>1, FirstDifference
  <2>3. \A j \in 1..(i - 1) : j \in 1..Bits BY <1>1
  <2>4. d[i] = 1 /\ \A j \in 1..(i - 1) : d[j] = 0 BY <1>2, <2>2, <2>3
  <2> DEFINE c == CHOOSE n \in 1..Bits : d[n] = 1 /\ \A j \in 1..(n - 1) : d[j] = 0
  <2>5. c \in 1..Bits /\ d[c] = 1 /\ \A j \in 1..(c - 1) : d[j] = 0 BY <2>4
  <2>6. cpl(h) = c - 1 BY <1>3, <1>5 DEF zeroPrefixLen
  <2> HIDE DEF c
  <2>7. \A j \in 1..(c - 1) : j \in 1..Bits BY <1>1, <2>5
  <2>8. h[c] # Hash[Local][c] /\ \A j \in 1..(c - 1) : h[j] = Hash[Local][j]
    BY <1>2, <2>5, <2>7
  <2>9. c - 1 + 1 = c BY <2>5
  <2> QED BY <2>6, <2>8, <2>9
<1> QED BY <1>4, <1>5

\* Hashes of one bucket are closer to each other than to those of any other bucket.
LEMMA BucketIsNearest ==
  ASSUME NEW bs, Len(bs) \in Nat \ {0}, NEW t \in ID, NEW e \in ID, NEW f \in ID,
         bucketID(bs, f) = bucketID(bs, t), bucketID(bs, e) # bucketID(bs, t)
  PROVE  ~less(xor(t, e), xor(t, f))
<1> DEFINE n == Len(bs)
           l == Hash[Local]
           ct == cpl(t)
           ce == cpl(e)
           cf == cpl(f)
           i == bucketID(bs, t)
           k == bucketID(bs, e)
<1> SUFFICES ASSUME less(xor(t, e), xor(t, f)) PROVE FALSE OBVIOUS
<1>1. n \in Nat \ {0} /\ Bits \in Nat /\ l \in ID BY HashAssumption, KeysAssumption
<1>2. PICK m \in 1..Bits : /\ xor(t, e)[m] < xor(t, f)[m]
                           /\ \A j \in 1..(m - 1) : xor(t, e)[j] = xor(t, f)[j]
  BY DEF less
<1>3. t[m] # f[m]
  <2>1. xor(t, e)[m] \in {0, 1} /\ xor(t, f)[m] = IF t[m] = f[m] THEN 0 ELSE 1
    BY Distance, BitType
  <2> QED BY <1>2, <2>1
<1>4. ASSUME NEW j \in 1..Bits, j < m PROVE t[j] = e[j] <=> t[j] = f[j]
  <2>1. j \in 1..(m - 1) BY <1>4
  <2> QED BY <1>2, <2>1, Distance
<1>5. /\ \A j \in 1..Bits : t[j] \in {0, 1} /\ f[j] \in {0, 1} /\ e[j] \in {0, 1} /\ l[j] \in {0, 1}
  BY <1>1, BitType
<1>6. /\ ct \in 0..Bits /\ ce \in 0..Bits /\ cf \in 0..Bits BY CplType
<1>7. /\ \A j \in 1..ct : t[j] = l[j]
      /\ ct < Bits => t[ct + 1] # l[ct + 1]
      /\ \A j \in 1..ce : e[j] = l[j]
      /\ ce < Bits => e[ce + 1] # l[ce + 1]
      /\ \A j \in 1..cf : f[j] = l[j]
      /\ cf < Bits => f[cf + 1] # l[cf + 1]
  BY CplAgrees
<1>8. /\ i = IF ct >= n THEN n ELSE ct + 1
      /\ i = IF cf >= n THEN n ELSE cf + 1
      /\ k = IF ce >= n THEN n ELSE ce + 1
      /\ k # i
  BY DEF bucketID
<1> HIDE DEF n, l, ct, ce, cf, i, k
<1>9. i \in 1..n /\ k \in 1..n /\ i - 1 <= ct /\ i - 1 <= cf BY <1>1, <1>6, <1>8
<1>10. m > i - 1
  <2> SUFFICES ASSUME m <= i - 1 PROVE FALSE BY <1>9
  <2>1. m \in 1..ct /\ m \in 1..cf BY <1>6, <1>9
  <2> QED BY <1>3, <1>7, <2>1
<1>11. CASE k < i
  <2>1. ce = k - 1 /\ k \in 1..Bits /\ k \in 1..ct /\ k \in 1..cf /\ k < m /\ ce < Bits
    BY <1>1, <1>6, <1>8, <1>9, <1>10, <1>11
  <2>2. ce + 1 = k BY <2>1, <1>9
  <2>3. e[k] # l[k] /\ t[k] = l[k] /\ f[k] = l[k] BY <1>7, <2>1, <2>2
  <2> QED BY <1>4, <2>1, <2>3
<1>12. CASE k > i
  <2>1. ct = i - 1 /\ cf = i - 1 /\ i \in 1..ce /\ i \in 1..Bits /\ ct < Bits
    BY <1>1, <1>6, <1>8, <1>9, <1>12
  <2>2. ct + 1 = i /\ cf + 1 = i BY <2>1, <1>9
  <2>3. e[i] = l[i] /\ t[i] # l[i] /\ f[i] # l[i] BY <1>7, <2>1, <2>2
  <2>4. t[i] = f[i] /\ t[i] # e[i] BY <1>5, <2>1, <2>3
  <2>5. i < m BY <1>3, <1>9, <1>10, <2>4
  <2> QED BY <1>4, <2>1, <2>4, <2>5
<1> QED BY <1>8, <1>9, <1>11, <1>12

\* The order of the sort is strict and total.
LEMMA SortOrder ==
  ASSUME NEW c \in Seq(Entries), NEW t \in ID
  PROVE  StrictOrder(sortsBefore(c, t), Len(c))
<1> DEFINE d == [i \in DOMAIN c |-> xor(t, c[i].hash)]
           R == sortsBefore(c, t)
<1>1. DOMAIN c = 1..Len(c) OBVIOUS
<1>2. ASSUME NEW i \in DOMAIN c PROVE d[i] \in ID
  <2>1. c[i] \in Entries OBVIOUS
  <2>2. c[i].hash \in ID BY <2>1 DEF Entries
  <2> QED BY <2>2, Distance
<1>3. ASSUME NEW i \in DOMAIN c, NEW j \in DOMAIN c
      PROVE  <<i, j>> \in R <=> less(d[i], d[j]) \/ (~less(d[j], d[i]) /\ i < j)
  BY DEF sortsBefore, closer
<1> HIDE DEF d, R
<1>4. ASSUME NEW i \in DOMAIN c, NEW j \in DOMAIN c
      PROVE  <<i, j>> \in R <=> less(d[i], d[j]) \/ (d[i] = d[j] /\ i < j)
  <2>1. /\ ~less(d[i], d[i]) /\ ~less(d[j], d[j])
        /\ d[i] = d[j] \/ less(d[i], d[j]) \/ less(d[j], d[i])
        /\ less(d[i], d[j]) /\ less(d[j], d[i]) => less(d[i], d[i])
    BY <1>2, LessOrders
  <2> QED BY <1>3, <2>1
<1>5. ASSUME NEW i \in 1..Len(c) PROVE <<i, i>> \notin R BY <1>1, <1>2, <1>4, LessOrders
<1>6. ASSUME NEW i \in 1..Len(c), NEW j \in 1..Len(c), i # j
      PROVE  <<i, j>> \in R \/ <<j, i>> \in R
  <2>1. d[i] = d[j] \/ less(d[i], d[j]) \/ less(d[j], d[i]) BY <1>1, <1>2, LessOrders
  <2>2. i < j \/ j < i BY <1>6
  <2> QED BY <1>1, <1>4, <2>1, <2>2
<1>7. ASSUME NEW i \in 1..Len(c), NEW j \in 1..Len(c), NEW k \in 1..Len(c),
             <<i, j>> \in R, <<j, k>> \in R
      PROVE  <<i, k>> \in R
  <2>1. less(d[i], d[j]) /\ less(d[j], d[k]) => less(d[i], d[k]) BY <1>1, <1>2, LessOrders
  <2>2. i < j /\ j < k => i < k OBVIOUS
  <2>3. less(d[i], d[j]) \/ (d[i] = d[j] /\ i < j) BY <1>1, <1>4, <1>7
  <2>4. less(d[j], d[k]) \/ (d[j] = d[k] /\ j < k) BY <1>1, <1>4, <1>7
  <2>5. less(d[i], d[k]) \/ (d[i] = d[k] /\ i < k) BY <2>1, <2>2, <2>3, <2>4
  <2> QED BY <1>1, <1>4, <2>5
<1>8. StrictOrder(R, Len(c)) BY <1>5, <1>6, <1>7 DEF StrictOrder
<1> QED BY <1>8 DEF R

\* What NearestPeers returns when the bucket of the target holds enough peers.
LEMMA NearestOfBucket ==
  ASSUME NEW bs, TableOK(bs), NEW t \in ID, NEW count \in 1..BucketSize,
         Len(bs[bucketID(bs, t)]) >= count
  PROVE  LET b    == bs[bucketID(bs, t)]
             near == NearestPeers(bs, t, count)
         IN  /\ near \in Seq(Entries) /\ Len(near) = count
             /\ \A i \in 1..count : \E j \in DOMAIN b : near[i] = b[j]
             /\ \A j \in DOMAIN b : closer(t, b[j], near[count]) =>
                  \E i \in 1..count : near[i] = b[j]
<1> DEFINE b == bs[bucketID(bs, t)]
           R == sortsBefore(b, t)
           s == SortedBy(b, R)
           n == Len(b)
           near == NearestPeers(bs, t, count)
<1>1. bucketID(bs, t) \in 1..Len(bs) /\ bs \in Seq(Seq(Entries)) BY BucketExists DEF TableOK
<1>2. b \in Seq(Entries) /\ n \in Nat /\ DOMAIN b = 1..n BY <1>1
<1>3. candidates(bs, t, count) = b BY DEF candidates
<1>4. near = SubSeq(s, 1, IF count < Len(s) THEN count ELSE Len(s)) BY <1>3 DEF NearestPeers
<1>5. PICK p : Sorts(p, R, n) /\ s = [k \in 1..n |-> b[p[k]]]
  <2> HIDE DEF b
  <2> QED BY <1>2, SortOrder, SortedBySorts
<1>6. ASSUME NEW i \in DOMAIN b, NEW j \in DOMAIN b, <<i, j>> \in R PROVE ~closer(t, b[j], b[i])
  <2>1. b[i] \in Entries /\ b[j] \in Entries BY <1>2
  <2>2. xor(t, b[i].hash) \in ID /\ xor(t, b[j].hash) \in ID BY <2>1, Distance DEF Entries
  <2>3. closer(t, b[i], b[j]) \/ ~closer(t, b[j], b[i]) BY <1>6 DEF sortsBefore
  <2> QED BY <2>2, <2>3, LessOrders DEF closer
<1>7. count \in 1..n BY <1>2, SizeAssumption
<1> HIDE DEF b, R, s, n, near
<1>8. /\ p \in [1..n -> 1..n]
      /\ \A i \in 1..n : \E k \in 1..n : p[k] = i
      /\ \A k, l \in 1..n : k < l => <<p[k], p[l]>> \in R
  BY <1>5 DEF Sorts
<1>9. ASSUME NEW k \in 1..n PROVE b[p[k]] \in Entries /\ s[k] = b[p[k]] /\ p[k] \in DOMAIN b
  BY <1>2, <1>5, <1>8
<1>10. s \in Seq(Entries) /\ Len(s) = n
  <2>1. s \in [1..n -> Entries] BY <1>5, <1>9
  <2> QED BY <1>2, <2>1
<1>11. near = SubSeq(s, 1, count) BY <1>4, <1>7, <1>10
<1>12. near \in Seq(Entries) /\ Len(near) = count /\ \A i \in 1..count : near[i] = s[i]
  BY <1>7, <1>10, <1>11
<1>13. ASSUME NEW i \in 1..count PROVE \E j \in DOMAIN b : near[i] = b[j]
  <2>1. i \in 1..n BY <1>7, <1>2
  <2> QED BY <1>9, <1>12, <2>1
<1>14. ASSUME NEW j \in DOMAIN b, closer(t, b[j], near[count])
       PROVE  \E i \in 1..count : near[i] = b[j]
  <2>1. PICK k \in 1..n : p[k] = j BY <1>2, <1>8
  <2>2. near[count] = b[p[count]] /\ p[count] \in DOMAIN b BY <1>7, <1>9, <1>12
  <2>3. ~(count < k)
    <3> SUFFICES ASSUME count < k PROVE FALSE OBVIOUS
    <3>1. <<p[count], p[k]>> \in R BY <1>7, <1>8
    <3> QED BY <1>6, <1>14, <2>1, <2>2, <3>1
  <2>4. k \in 1..count BY <1>7, <2>3
  <2>5. near[k] = b[j] BY <1>9, <1>12, <2>1, <2>4
  <2> QED BY <2>4, <2>5
<1> QED BY <1>12, <1>13, <1>14 DEF b, near

\* NearestPeers returns the closest peers of the whole table when the bucket of the target
\* holds enough of them, and Find finds every listed peer whose hash is its own and nobody
\* else's, in any table that Update and Remove can leave, torn hashes included.
THEOREM TableFindsNearest == Spec => []QueriesFindNearest
<1> DEFINE listed == ListPeers(buckets)
<1>1. ASSUME TableOK(buckets), NEW t \in ID, NEW count \in 1..BucketSize,
             Len(buckets[bucketID(buckets, t)]) >= count
      PROVE  LET near == NearestPeers(buckets, t, count)
             IN  /\ Len(near) = count
                 /\ \A i \in 1..count : near[i] \in listed
                 /\ \A e \in listed :
                      closer(t, e, near[count]) => \E i \in 1..count : near[i] = e
  <2> DEFINE i == bucketID(buckets, t)
             near == NearestPeers(buckets, t, count)
  <2>1. /\ Len(buckets) \in Nat \ {0} /\ buckets \in Seq(Seq(Entries))
        /\ \A m \in DOMAIN buckets : \A j \in DOMAIN buckets[m] :
             bucketID(buckets, buckets[m][j].hash) = m
    BY <1>1, HashAssumption DEF TableOK
  <2>2. i \in DOMAIN buckets BY <2>1, BucketExists
  <2>3. /\ Len(near) = count
        /\ \A k \in 1..count : \E j \in DOMAIN buckets[i] : near[k] = buckets[i][j]
        /\ \A j \in DOMAIN buckets[i] : closer(t, buckets[i][j], near[count]) =>
             \E k \in 1..count : near[k] = buckets[i][j]
    BY <1>1, NearestOfBucket
  <2>4. count \in 1..count BY SizeAssumption
  <2>5. PICK j \in DOMAIN buckets[i] : near[count] = buckets[i][j] BY <2>3, <2>4
  <2>6. ASSUME NEW m \in DOMAIN buckets, NEW k \in DOMAIN buckets[m] PROVE buckets[m][k].hash \in ID
    <3>1. buckets[m][k] \in Entries BY <2>1
    <3> QED BY <3>1 DEF Entries
  <2> HIDE DEF i, near
  <2>7. ASSUME NEW e \in listed, closer(t, e, near[count]) PROVE \E k \in 1..count : near[k] = e
    <3>1. PICK m \in DOMAIN buckets : \E k \in DOMAIN buckets[m] : buckets[m][k] = e BY Listed
    <3>2. PICK k \in DOMAIN buckets[m] : buckets[m][k] = e BY <3>1
    <3>3. m = i
      <4> SUFFICES ASSUME m # i PROVE FALSE OBVIOUS
      <4>1. /\ bucketID(buckets, buckets[i][j].hash) = i /\ bucketID(buckets, e.hash) = m
            /\ e.hash \in ID /\ buckets[i][j].hash \in ID
        BY <2>1, <2>2, <2>6, <3>2
      <4>2. ~less(xor(t, e.hash), xor(t, buckets[i][j].hash))
        BY <2>1, <4>1, BucketIsNearest DEF i
      <4> QED BY <2>5, <2>7, <4>2 DEF closer
    <3> QED BY <2>3, <2>7, <3>2, <3>3
  <2>8. ASSUME NEW k \in 1..count PROVE near[k] \in listed BY <2>2, <2>3, Listed
  <2> QED BY <2>3, <2>7, <2>8 DEF near
<1>2. ASSUME TableOK(buckets), NEW e \in listed, \A f \in listed : f.hash = e.hash => f = e
      PROVE  Find(buckets, e.id, e.hash)
  <2> DEFINE near == NearestPeers(buckets, e.hash, 1)
  <2>1. PICK m \in DOMAIN buckets : \E k \in DOMAIN buckets[m] : buckets[m][k] = e BY Listed
  <2>2. PICK k \in DOMAIN buckets[m] : buckets[m][k] = e BY <2>1
  <2>3. buckets[m] \in Seq(Entries) /\ bucketID(buckets, e.hash) = m BY <1>2, <2>2 DEF TableOK
  <2>4. Len(buckets[m]) >= 1 /\ e.hash \in ID
    <3>1. e \in Entries /\ k \in 1..Len(buckets[m]) /\ Len(buckets[m]) \in Nat BY <2>2, <2>3
    <3> QED BY <3>1 DEF Entries
  <2>5. 1 \in 1..BucketSize BY SizeAssumption
  <2>6. /\ Len(near) = 1
        /\ \A i \in 1..1 : near[i] \in listed
        /\ \A f \in listed : closer(e.hash, f, near[1]) => \E i \in 1..1 : near[i] = f
    BY <1>1, <1>2, <2>3, <2>4, <2>5
  <2> HIDE DEF near
  <2>7. near[1] \in listed BY <2>6
  <2>8. near[1].hash \in ID
    <3>1. PICK n \in DOMAIN buckets : \E j \in DOMAIN buckets[n] : buckets[n][j] = near[1]
      BY <2>7, Listed
    <3>2. near[1] \in Entries BY <1>2, <3>1 DEF TableOK
    <3> QED BY <3>2 DEF Entries
  <2>9. near[1] = e
    <3> SUFFICES ASSUME near[1] # e PROVE FALSE OBVIOUS
    <3>1. near[1].hash # e.hash BY <1>2, <2>7
    <3>2. closer(e.hash, e, near[1]) BY <2>4, <2>8, <3>1, SelfIsNearest DEF closer
    <3> QED BY <2>6, <3>2
  <2>10. near # <<>> BY <2>6
  <2> QED BY <2>9, <2>10 DEF near, Find
<1>3. TableInv => QueriesFindNearest
  <2> SUFFICES ASSUME TableInv PROVE QueriesFindNearest OBVIOUS
  <2>1. TableOK(buckets) BY DEF TableInv
  <2>2. ASSUME NEW t \in ID, NEW count \in 1..BucketSize,
               Len(buckets[bucketID(buckets, t)]) >= count
        PROVE  LET near == NearestPeers(buckets, t, count)
               IN  /\ Len(near) = count
                   /\ \A e \in listed :
                        closer(t, e, near[count]) => \E i \in 1..count : near[i] = e
    BY <1>1, <2>1, <2>2
  <2>3. ASSUME NEW e \in listed,
               e.hash = Hash[e.id] /\ \A f \in listed : f.hash = e.hash => f = e
        PROVE  Find(buckets, e.id, e.hash)
    BY <1>2, <2>1, <2>3
  <2> QED BY <2>2, <2>3 DEF QueriesFindNearest
<1> QED BY <1>3, TableInvariance, PTL


-----------------------------------------------------------------------------
(* Lookups: Lookup, for any peers, lookups and number of goroutines.       *)

\* How often a peer is in a sequence is a number.
LEMMA TimesType ==
  ASSUME NEW q, NEW n \in Nat, NEW x
  PROVE  /\ times(q, n, x) \in Nat
         /\ IsFiniteSet({i \in 1..n : q[i] = x})
BY PositionsFinite DEF times

\* One place more.
LEMMA TimesNext ==
  ASSUME NEW q, NEW n \in Nat, NEW x
  PROVE  times(q, n + 1, x) = times(q, n, x) + (IF q[n + 1] = x THEN 1 ELSE 0)
<1> DEFINE A == {i \in 1..n : q[i] = x}
           B == {i \in 1..(n + 1) : q[i] = x}
<1>1. IsFiniteSet(A) /\ Cardinality(A) \in Nat BY TimesType DEF times
<1>2. \A i \in 1..n : i \in 1..(n + 1) /\ i # n + 1 OBVIOUS
<1>3. \A i \in 1..(n + 1) : i # n + 1 => i \in 1..n OBVIOUS
<1>4. n + 1 \in 1..(n + 1) OBVIOUS
<1>5. CASE q[n + 1] = x
  <2>1. B = A \cup {n + 1} BY <1>2, <1>3, <1>4, <1>5
  <2>2. n + 1 \notin A OBVIOUS
  <2> HIDE DEF A, B
  <2>3. Cardinality(B) = Cardinality(A) + 1 BY <1>1, <2>1, <2>2, FS_AddElement
  <2> QED BY <1>5, <2>3 DEF times, A, B
<1>6. CASE q[n + 1] # x
  <2>1. B = A BY <1>2, <1>3, <1>4, <1>6
  <2> QED BY <1>1, <1>6, <2>1 DEF times
<1> QED BY <1>5, <1>6

\* In q, n elements of b follow m elements of a.
Joins(q, a, m, b, n) ==
  /\ m \in Nat /\ n \in Nat
  /\ \A i \in 1..m : q[i] = a[i]
  /\ \A i \in 1..n : q[m + i] = b[i]

\* Then a peer is in q as often as in both.
LEMMA TimesJoined ==
  ASSUME NEW q, NEW a, NEW m, NEW b, NEW n, Joins(q, a, m, b, n), NEW x
  PROVE  times(q, m + n, x) = times(a, m, x) + times(b, n, x)
<1>0. /\ m \in Nat /\ n \in Nat
      /\ \A i \in 1..m : q[i] = a[i]
      /\ \A i \in 1..n : q[m + i] = b[i]
  BY DEF Joins
<1> DEFINE A == {i \in 1..m : a[i] = x}
           B == {i \in 1..n : b[i] = x}
           Q == {i \in 1..(m + n) : q[i] = x}
           C == {i \in (m + 1)..(m + n) : q[i] = x}
           f == [i \in B |-> m + i]
<1>1. IsFiniteSet(A) /\ Cardinality(A) \in Nat
  <2>1. A \in SUBSET (1..m) BY <1>0
  <2> QED BY <1>0, <2>1, PositionsFinite
<1>2. IsFiniteSet(B) /\ Cardinality(B) \in Nat
  <2>1. B \in SUBSET (1..n) BY <1>0
  <2> QED BY <1>0, <2>1, PositionsFinite
<1>3. Q = A \cup C
  <2>1. ASSUME NEW i \in Q PROVE i \in A \cup C
    <3>1. CASE i <= m
      <4>1. i \in 1..m /\ q[i] = x BY <1>0, <3>1
      <4> QED BY <1>0, <4>1
    <3>2. CASE i > m
      <4>1. i \in (m + 1)..(m + n) /\ q[i] = x BY <1>0, <3>2
      <4> QED BY <1>0, <4>1
    <3> QED BY <1>0, <3>1, <3>2
  <2>2. ASSUME NEW i \in A PROVE i \in Q
    <3>1. i \in 1..m /\ i \in 1..(m + n) /\ a[i] = x BY <1>0
    <3> QED BY <1>0, <3>1
  <2>3. ASSUME NEW i \in C PROVE i \in Q
    <3>1. i \in 1..(m + n) /\ q[i] = x BY <1>0
    <3> QED BY <1>0, <3>1
  <2> QED BY <1>0, <2>1, <2>2, <2>3
<1>4. A \cap C = {} BY <1>0
<1>5. f \in Bijection(B, C)
  <2>1. ASSUME NEW i \in B PROVE m + i \in C
    <3>1. i \in 1..n /\ b[i] = x BY <1>0
    <3>2. q[m + i] = x /\ m + i \in (m + 1)..(m + n) BY <1>0, <3>1
    <3> QED BY <1>0, <3>2
  <2>2. f \in [B -> C] BY <1>0, <2>1
  <2>3. \A i, j \in B : f[i] = f[j] => i = j BY <1>0
  <2>4. ASSUME NEW k \in C PROVE \E i \in B : f[i] = k
    <3>1. k \in (m + 1)..(m + n) /\ q[k] = x BY <1>0
    <3>2. k - m \in 1..n /\ m + (k - m) = k BY <1>0, <3>1
    <3>3. b[k - m] = x BY <1>0, <3>1, <3>2
    <3>4. k - m \in B BY <1>0, <3>2, <3>3
    <3> QED BY <1>0, <3>2, <3>4
  <2> HIDE DEF B, C, f
  <2> QED BY <1>0, <2>2, <2>3, <2>4 DEF Bijection, Injection, Surjection, IsInjective
<1>6. IsFiniteSet(C) /\ Cardinality(C) = Cardinality(B)
  <2> HIDE DEF B, C, f
  <2> QED BY <1>0, <1>2, <1>5, FS_Bijection DEF ExistsBijection
<1>7. Cardinality(Q) = Cardinality(A) + Cardinality(B)
  <2> HIDE DEF A, B, C, Q
  <2>1. Cardinality(Q) = Cardinality(A) + Cardinality(C) - Cardinality({})
    BY <1>0, <1>1, <1>3, <1>4, <1>6, FS_Union
  <2> QED BY <1>0, <1>1, <1>2, <1>6, <2>1, FS_EmptySet
<1> QED BY <1>0, <1>7 DEF times

\* In a sequence without repetitions every peer is at most once.
LEMMA TimesDistinct ==
  ASSUME NEW S, NEW q \in Seq(S), IsInjective(q), NEW x
  PROVE  times(q, Len(q), x) = IF x \in Range(q) THEN 1 ELSE 0
<1> DEFINE A == {i \in 1..Len(q) : q[i] = x}
<1>0. DOMAIN q = 1..Len(q) OBVIOUS
<1>1. CASE x \in Range(q)
  <2>1. PICK i \in 1..Len(q) : q[i] = x BY <1>0, <1>1 DEF Range
  <2>2. A = {i} BY <1>0, <2>1 DEF IsInjective
  <2> QED BY <1>1, <2>2, FS_Singleton DEF times
<1>2. CASE x \notin Range(q)
  <2>1. A = {} BY <1>0, <1>2 DEF Range
  <2> QED BY <1>2, <2>1, FS_EmptySet DEF times
<1> QED BY <1>1, <1>2

\* A sequence is its first n elements and the others.
LEMMA TimesSplit ==
  ASSUME NEW S, NEW q \in Seq(S), NEW n \in 0..Len(q), NEW x
  PROVE  LET r == SubSeq(q, n + 1, Len(q))
         IN  /\ r \in Seq(S) /\ Len(r) = Len(q) - n
             /\ times(q, n, x) + times(r, Len(r), x) = times(q, Len(q), x)
<1> DEFINE r == SubSeq(q, n + 1, Len(q))
           k == Len(q) - n
<1>1. Len(q) \in Nat /\ n \in Nat /\ k \in Nat /\ n + k = Len(q) OBVIOUS
<1>2. r \in Seq(S) /\ Len(r) = k /\ \A i \in 1..k : r[i] = q[n + i]
  <2>1. r \in Seq(S) /\ Len(r) = k OBVIOUS
  <2>2. \A i \in 1..k : r[i] = q[n + i] OBVIOUS
  <2> QED BY <2>1, <2>2
<1> HIDE DEF r, k
<1>3. Joins(q, q, n, r, k) BY <1>1, <1>2 DEF Joins
<1>4. times(q, n + k, x) = times(q, n, x) + times(r, k, x) BY <1>3, TimesJoined
<1> QED BY <1>1, <1>2, <1>4 DEF r, k

\* Two sequences, one after the other.
LEMMA TimesCat ==
  ASSUME NEW S, NEW a \in Seq(S), NEW b \in Seq(S), NEW x
  PROVE  times(a \o b, Len(a \o b), x) = times(a, Len(a), x) + times(b, Len(b), x)
<1> DEFINE q == a \o b
           m == Len(a)
           n == Len(b)
<1>1. m \in Nat /\ n \in Nat /\ Len(q) = m + n OBVIOUS
<1>2. /\ \A i \in 1..m : q[i] = a[i]
      /\ \A i \in 1..n : q[m + i] = b[i]
  OBVIOUS
<1> HIDE DEF q, m, n
<1>3. Joins(q, a, m, b, n) BY <1>1, <1>2 DEF Joins
<1>4. times(q, m + n, x) = times(a, m, x) + times(b, n, x) BY <1>3, TimesJoined
<1> QED BY <1>1, <1>4 DEF q, m, n


\* The peers of a reply that are queued: those not visited, each once.
LEMMA FreshPeers ==
  ASSUME NEW l, NEW found \in Seq(Peers)
  PROVE  /\ fresh(l, found) \in Seq(Peers) /\ IsInjective(fresh(l, found))
         /\ Range(fresh(l, found)) = Range(found) \ visited[l]
<1> DEFINE I == {i \in DOMAIN found : /\ found[i] \notin visited[l]
                                      /\ \A j \in 1..(i - 1) : found[j] # found[i]}
           e == ElementsAt(found, I)
           f == InOrder(I)
<1>0. DOMAIN found = 1..Len(found) /\ Len(found) \in Nat OBVIOUS
<1>1. I \in SUBSET DOMAIN found OBVIOUS
<1>2. \A i, j \in I : found[i] = found[j] => i = j
  <2>1. \A i, j \in 1..Len(found) : i = j \/ i \in 1..(j - 1) \/ j \in 1..(i - 1) BY <1>0
  <2> QED BY <1>0, <2>1
<1>3. \A i \in I : i \in DOMAIN found /\ found[i] \notin visited[l] OBVIOUS
<1>4. ASSUME NEW x \in Range(found), x \notin visited[l] PROVE \E i \in I : found[i] = x
  <2> DEFINE Places == {i \in 1..Len(found) : found[i] = x}
  <2>1. Places # {} BY <1>0, <1>4 DEF Range
  <2>2. Places \subseteq Nat OBVIOUS
  <2>3. PICK i \in Places : \A j \in Places : i <= j
    <3> HIDE DEF Places
    <3> QED BY <2>1, <2>2, LeastNumber
  <2>4. i \in 1..Len(found) /\ found[i] = x BY <2>3
  <2>5. ASSUME NEW j \in 1..(i - 1), found[j] = x PROVE FALSE
    <3>1. j \in 1..Len(found) /\ j < i BY <1>0, <2>4
    <3>2. j \in Places BY <2>5, <3>1
    <3> HIDE DEF Places
    <3> QED BY <1>0, <2>3, <2>4, <3>1, <3>2
  <2> HIDE DEF Places
  <2>6. i \in I BY <1>0, <1>4, <2>4, <2>5
  <2> QED BY <2>4, <2>6
<1>5. fresh(l, found) = e BY DEF fresh
<1> HIDE DEF I
<1>6. e \in Seq(Peers) BY <1>1, ElementsAtPositions
<1>7. /\ \A k \in DOMAIN e : f[k] \in I /\ e[k] = found[f[k]]
      /\ \A i \in I : \E k \in DOMAIN e : e[k] = found[i]
      /\ \A k, m \in DOMAIN e : f[k] = f[m] => k = m
  BY <1>1, ElementsAtRange
<1> HIDE DEF e, f
<1>8. IsInjective(e) BY <1>2, <1>7 DEF IsInjective
<1>9. ASSUME NEW x \in Range(e) PROVE x \in Range(found) \ visited[l]
  <2>1. PICK k \in DOMAIN e : e[k] = x BY <1>9 DEF Range
  <2>2. f[k] \in DOMAIN found /\ found[f[k]] = x /\ x \notin visited[l] BY <1>3, <1>7, <2>1
  <2> QED BY <2>2 DEF Range
<1>10. ASSUME NEW x \in Range(found), x \notin visited[l] PROVE x \in Range(e)
  <2>1. PICK i \in I : found[i] = x BY <1>4, <1>10
  <2>2. PICK k \in DOMAIN e : e[k] = x BY <1>7, <2>1
  <2> QED BY <2>2 DEF Range
<1> QED BY <1>5, <1>6, <1>8, <1>9, <1>10

\* The goroutines where each peer has a number of them.
InFlight(count) == UNION {{x} \X (1..count[x]) : x \in Peers}

\* A goroutine is a peer and a number.
LEMMA InFlightIs ==
  ASSUME NEW count \in [Peers -> Nat]
  PROVE  \A g : g \in InFlight(count) <=>
                  \E x \in Peers : \E i \in 1..count[x] : g = <<x, i>>
BY DEF InFlight

\* One goroutine more.
LEMMA OneMoreInFlight ==
  ASSUME NEW c \in [Peers -> Nat], IsFiniteSet(InFlight(c)), NEW y \in Peers,
         NEW d \in [Peers -> Nat], \A x \in Peers : d[x] = c[x] + (IF x = y THEN 1 ELSE 0)
  PROVE  /\ IsFiniteSet(InFlight(d))
         /\ Cardinality(InFlight(d)) = Cardinality(InFlight(c)) + 1
<1> DEFINE g == <<y, d[y]>>
<1>1. \A x \in Peers : c[x] \in Nat /\ d[x] \in Nat OBVIOUS
<1>2. d[y] = c[y] + 1 OBVIOUS
<1>3. g \notin InFlight(c)
  <2> SUFFICES ASSUME g \in InFlight(c) PROVE FALSE OBVIOUS
  <2>1. PICK x \in Peers : \E i \in 1..c[x] : g = <<x, i>> BY InFlightIs
  <2>2. PICK i \in 1..c[x] : g = <<x, i>> BY <2>1
  <2>3. x = y /\ i = d[y] BY <2>2
  <2> QED BY <1>1, <1>2, <2>2, <2>3
<1>4. ASSUME NEW h \in InFlight(d) PROVE h \in InFlight(c) \cup {g}
  <2>1. PICK x \in Peers : \E i \in 1..d[x] : h = <<x, i>> BY <1>4, InFlightIs
  <2>2. PICK i \in 1..d[x] : h = <<x, i>> BY <2>1
  <2>3. CASE x = y /\ i = d[y] BY <2>2, <2>3
  <2>4. CASE ~(x = y /\ i = d[y])
    <3>1. i \in 1..c[x]
      <4>1. CASE x = y
        <5>1. i # c[y] + 1 /\ i \in 1..(c[y] + 1) BY <1>2, <2>2, <2>4, <4>1
        <5> QED BY <1>1, <4>1, <5>1
      <4>2. CASE x # y
        <5>1. d[x] = c[x] BY <1>1, <4>2
        <5> QED BY <2>2, <5>1
      <4> QED BY <4>1, <4>2
    <3> QED BY <2>2, <3>1, InFlightIs
  <2> QED BY <2>3, <2>4
<1>5. ASSUME NEW h \in InFlight(c) PROVE h \in InFlight(d)
  <2>1. PICK x \in Peers : \E i \in 1..c[x] : h = <<x, i>> BY <1>5, InFlightIs
  <2>2. PICK i \in 1..c[x] : h = <<x, i>> BY <2>1
  <2>3. i \in 1..d[x]
    <3>1. c[x] <= d[x] BY <1>1
    <3> QED BY <1>1, <2>2, <3>1
  <2> QED BY <2>2, <2>3, InFlightIs
<1>6. g \in InFlight(d)
  <2>1. d[y] \in 1..d[y] BY <1>1, <1>2
  <2> QED BY <2>1, InFlightIs
<1>7. InFlight(d) = InFlight(c) \cup {g} BY <1>4, <1>5, <1>6
<1> HIDE DEF g
<1> QED BY <1>3, <1>7, FS_AddElement

\* Goroutines for the first n peers of q.
LEMMA MoreInFlight ==
  ASSUME NEW c \in [Peers -> Nat], IsFiniteSet(InFlight(c)),
         NEW q \in Seq(Peers), NEW n \in 0..Len(q)
  PROVE  LET d == [x \in Peers |-> c[x] + times(q, n, x)]
         IN  /\ IsFiniteSet(InFlight(d))
             /\ Cardinality(InFlight(d)) = Cardinality(InFlight(c)) + n
<1> DEFINE d(k) == [x \in Peers |-> c[x] + times(q, k, x)]
           Good(k) == /\ IsFiniteSet(InFlight(d(k)))
                      /\ Cardinality(InFlight(d(k))) = Cardinality(InFlight(c)) + k
           Bad == {k \in 0..Len(q) : ~Good(k)}
<1>0. Cardinality(InFlight(c)) \in Nat BY FS_CardinalityType
<1>1. ASSUME NEW k \in Nat PROVE d(k) \in [Peers -> Nat]
  <2>1. ASSUME NEW x \in Peers PROVE c[x] + times(q, k, x) \in Nat
    <3>1. times(q, k, x) \in Nat BY TimesType
    <3> QED BY <3>1
  <2> QED BY <2>1
<1>2. Good(0)
  <2>1. \A x : times(q, 0, x) = 0
    <3> SUFFICES ASSUME NEW x PROVE times(q, 0, x) = 0 OBVIOUS
    <3>1. {i \in 1..0 : q[i] = x} = {} OBVIOUS
    <3> QED BY <3>1, FS_EmptySet DEF times
  <2>2. d(0) = [x \in Peers |-> c[x]] BY <2>1
  <2>3. d(0) = c BY <2>2
  <2> HIDE DEF d
  <2> QED BY <1>0, <2>3
<1>3. ASSUME NEW k \in Nat, k + 1 \in 1..Len(q), Good(k) PROVE Good(k + 1)
  <2> DEFINE a == d(k)
             b == d(k + 1)
             y == q[k + 1]
  <2>1. a \in [Peers -> Nat] /\ b \in [Peers -> Nat] /\ y \in Peers
    <3>1. y \in Peers BY <1>3
    <3>2. k + 1 \in Nat OBVIOUS
    <3> HIDE DEF d
    <3>3. d(k) \in [Peers -> Nat] /\ d(k + 1) \in [Peers -> Nat] BY <1>1, <3>2
    <3> QED BY <3>1, <3>3
  <2>2. \A x \in Peers : b[x] = a[x] + (IF x = y THEN 1 ELSE 0)
    <3> SUFFICES ASSUME NEW x \in Peers PROVE b[x] = a[x] + (IF x = y THEN 1 ELSE 0) OBVIOUS
    <3>1. times(q, k + 1, x) = times(q, k, x) + (IF y = x THEN 1 ELSE 0) BY TimesNext
    <3>2. times(q, k, x) \in Nat /\ c[x] \in Nat BY TimesType
    <3>3. a[x] = c[x] + times(q, k, x) /\ b[x] = c[x] + times(q, k + 1, x) OBVIOUS
    <3> HIDE DEF a, b, y
    <3> QED BY <3>1, <3>2, <3>3
  <2>3. IsFiniteSet(InFlight(a)) /\ Cardinality(InFlight(a)) = Cardinality(InFlight(c)) + k
    BY <1>3
  <2> HIDE DEF a, b, y, d
  <2>4. IsFiniteSet(InFlight(b)) /\ Cardinality(InFlight(b)) = Cardinality(InFlight(a)) + 1
    BY <2>1, <2>2, <2>3, OneMoreInFlight
  <2> QED BY <1>0, <2>3, <2>4 DEF b
<1> HIDE DEF Good
<1>4. Bad = {}
  <2> SUFFICES ASSUME Bad # {} PROVE FALSE OBVIOUS
  <2>1. Bad \subseteq Nat OBVIOUS
  <2>2. PICK k \in Bad : \A m \in Bad : k <= m
    <3> HIDE DEF Bad
    <3> QED BY <2>1, LeastNumber
  <2>3. k \in 0..Len(q) /\ ~Good(k) BY <2>2
  <2>4. k # 0 BY <1>2, <2>3
  <2>5. k - 1 \in 0..Len(q) /\ (k - 1) + 1 = k /\ k \in 1..Len(q) BY <2>3, <2>4
  <2>6. k - 1 \notin Bad
    <3> HIDE DEF Bad
    <3> QED BY <2>2, <2>5
  <2>7. Good(k - 1) BY <2>5, <2>6
  <2> HIDE DEF Bad
  <2>8. k - 1 \in Nat BY <2>5
  <2>9. Good((k - 1) + 1) BY <1>3, <2>5, <2>7, <2>8
  <2> QED BY <2>3, <2>5, <2>9
<1>5. Good(n) BY <1>4
<1> QED BY <1>5 DEF Good


\* All the goroutines for each peer, where a are inside findNodes and r reply.
Total(a, r) == [x \in Peers |-> a[x] + r[x]]

\* pending counts the goroutines, at most alpha.
CountedAt(a, r, p) ==
  /\ IsFiniteSet(InFlight(Total(a, r)))
  /\ p = Cardinality(InFlight(Total(a, r))) /\ p <= Alpha

\* Who is visited or was there first has been asked or is in the queue.
AccountedAt(k, q, v, f) ==
  \A x \in Peers : k[x] + times(q, Len(q), x) =
                     (IF x \in v THEN 1 ELSE 0) + (IF x \in f THEN 1 ELSE 0)

\* What the place of a lookup says of its queue and its goroutines: while somebody is in
\* the queue, somebody is being asked.
PlacedAt(c, q, v, f, k, p, s) ==
  /\ c = "idle" => q = <<>> /\ v = {} /\ f = {} /\ k = NoPeers /\ p = 0 /\ s = 0
  /\ c = "seed" => s = p
  /\ c = "loop" /\ q # <<>> => p > 0
  /\ c \in {"found", "error"} => q = <<>>

\* The types of the lookups.
LookupTypes ==
  /\ pc \in [Lookups -> {"idle", "seed", "loop", "found", "error", "done"}]
  /\ queue \in [Lookups -> Seq(Peers)]
  /\ visited \in [Lookups -> SUBSET Peers] /\ first \in [Lookups -> SUBSET Peers]
  /\ pending \in [Lookups -> Nat] /\ seeded \in [Lookups -> Nat]
  /\ asking \in [Lookups -> [Peers -> Nat]] /\ replying \in [Lookups -> [Peers -> Nat]]
  /\ asks \in [Lookups -> [Peers -> Nat]]
  /\ nodes \in SUBSET Peers

\* What the place of l says.
LookupPlaced(l) ==
  PlacedAt(pc[l], queue[l], visited[l], first[l], asks[l], pending[l], seeded[l])

\* What every step of a lookup keeps.
LookupInv ==
  /\ LookupTypes
  /\ \A l \in Lookups : /\ CountedAt(asking[l], replying[l], pending[l])
                        /\ AccountedAt(asks[l], queue[l], visited[l], first[l])
                        /\ LookupPlaced(l)

\* The numbers of goroutines are numbers.
LEMMA TotalType ==
  ASSUME NEW a \in [Peers -> Nat], NEW r \in [Peers -> Nat]
  PROVE  Total(a, r) \in [Peers -> Nat] /\ \A x \in Peers : Total(a, r)[x] = a[x] + r[x]
BY DEF Total

\* A queue q whose first n peers findNodes may ask, besides p goroutines ...
CanAsk(a, r, k, q, n, p, v, f) ==
  /\ a \in [Peers -> Nat] /\ r \in [Peers -> Nat] /\ k \in [Peers -> Nat]
  /\ q \in Seq(Peers) /\ n \in 0..Len(q) /\ p \in Nat
  /\ CountedAt(a, r, p) /\ p + n <= Alpha /\ AccountedAt(k, q, v, f)

\* ... and has asked, when b are the goroutines, m the peers asked and u the queue.
HasAsked(a, r, k, q, n, p, v, f, b, m, u) ==
  /\ b = [x \in Peers |-> a[x] + times(q, n, x)] /\ b \in [Peers -> Nat]
  /\ m = [x \in Peers |-> k[x] + times(q, n, x)] /\ m \in [Peers -> Nat]
  /\ u = SubSeq(q, n + 1, Len(q)) /\ u \in Seq(Peers)
  /\ CountedAt(b, r, p + n)
  /\ AccountedAt(m, u, v, f)

\* findNodes for the first n peers of the queue.
LEMMA FindNodesStep ==
  ASSUME NEW a, NEW r, NEW k, NEW q, NEW n, NEW p, NEW v, NEW f, CanAsk(a, r, k, q, n, p, v, f)
  PROVE  HasAsked(a, r, k, q, n, p, v, f,
                  [x \in Peers |-> a[x] + times(q, n, x)],
                  [x \in Peers |-> k[x] + times(q, n, x)],
                  SubSeq(q, n + 1, Len(q)))
<1> DEFINE b == [x \in Peers |-> a[x] + times(q, n, x)]
           m == [x \in Peers |-> k[x] + times(q, n, x)]
           t == Total(a, r)
           d == [x \in Peers |-> t[x] + times(q, n, x)]
           u == SubSeq(q, n + 1, Len(q))
<1> /\ a \in [Peers -> Nat] /\ r \in [Peers -> Nat] /\ k \in [Peers -> Nat]
    /\ q \in Seq(Peers) /\ n \in 0..Len(q) /\ p \in Nat
    /\ CountedAt(a, r, p) /\ p + n <= Alpha /\ AccountedAt(k, q, v, f)
  BY DEF CanAsk
<1>0. /\ n \in Nat
      /\ \A x \in Peers :
           times(q, n, x) \in Nat /\ a[x] \in Nat /\ r[x] \in Nat /\ k[x] \in Nat
  <2>1. n \in Nat OBVIOUS
  <2>2. ASSUME NEW x \in Peers PROVE times(q, n, x) \in Nat BY <2>1, TimesType
  <2> QED BY <2>1, <2>2
<1>1. b \in [Peers -> Nat] /\ m \in [Peers -> Nat] BY <1>0
<1>2. Total(b, r) = d
  <2>1. \A x \in Peers : b[x] + r[x] = (a[x] + r[x]) + times(q, n, x) BY <1>0
  <2>2. Total(b, r) = [x \in Peers |-> b[x] + r[x]] BY DEF Total
  <2>3. d = [x \in Peers |-> (a[x] + r[x]) + times(q, n, x)] BY DEF Total
  <2> HIDE DEF b, d, t
  <2> QED BY <2>1, <2>2, <2>3
<1>3. t \in [Peers -> Nat] /\ IsFiniteSet(InFlight(t)) /\ Cardinality(InFlight(t)) = p
  BY TotalType DEF CountedAt
<1> HIDE DEF t
<1>4. IsFiniteSet(InFlight(d)) /\ Cardinality(InFlight(d)) = p + n BY <1>3, MoreInFlight
<1>5. CountedAt(b, r, p + n)
  <2> HIDE DEF b, d
  <2> QED BY <1>2, <1>4 DEF CountedAt
<1>6. u \in Seq(Peers) OBVIOUS
<1>7. AccountedAt(m, u, v, f)
  <2> SUFFICES ASSUME NEW x \in Peers
               PROVE  m[x] + times(u, Len(u), x) =
                        (IF x \in v THEN 1 ELSE 0) + (IF x \in f THEN 1 ELSE 0)
    BY DEF AccountedAt
  <2>1. times(q, n, x) + times(u, Len(u), x) = times(q, Len(q), x) BY TimesSplit
  <2>2. k[x] + times(q, Len(q), x) = (IF x \in v THEN 1 ELSE 0) + (IF x \in f THEN 1 ELSE 0)
    BY DEF AccountedAt
  <2>3. times(u, Len(u), x) \in Nat /\ times(q, Len(q), x) \in Nat
    <3>1. Len(u) \in Nat /\ Len(q) \in Nat BY <1>6
    <3> QED BY <3>1, TimesType
  <2>4. m[x] = k[x] + times(q, n, x) OBVIOUS
  <2> HIDE DEF m, u
  <2> QED BY <1>0, <2>1, <2>2, <2>3, <2>4
<1>8. HasAsked(a, r, k, q, n, p, v, f, b, m, u)
  <2> HIDE DEF t, d
  <2> QED BY <1>1, <1>5, <1>6, <1>7 DEF HasAsked
<1> QED BY <1>8

\* A goroutine has replied.
LEMMA ReplyStep ==
  ASSUME NEW a \in [Peers -> Nat], NEW r \in [Peers -> Nat], NEW y \in Peers, r[y] > 0,
         NEW p \in Nat, CountedAt(a, r, p)
  PROVE  LET s == [r EXCEPT ![y] = r[y] - 1]
         IN  s \in [Peers -> Nat] /\ p > 0 /\ CountedAt(a, s, p - 1)
<1> DEFINE s == [r EXCEPT ![y] = r[y] - 1]
           c == Total(a, s)
           d == Total(a, r)
<1>0. Alpha \in Nat BY AlphaAssumption
<1>1. s \in [Peers -> Nat] OBVIOUS
<1>2. \A x \in Peers : s[x] = IF x = y THEN r[x] - 1 ELSE r[x] OBVIOUS
<1> HIDE DEF s
<1>3. c \in [Peers -> Nat] /\ d \in [Peers -> Nat] BY <1>1, TotalType
<1>4. \A x \in Peers : d[x] = c[x] + (IF x = y THEN 1 ELSE 0)
  <2> SUFFICES ASSUME NEW x \in Peers PROVE d[x] = c[x] + (IF x = y THEN 1 ELSE 0) OBVIOUS
  <2>1. d[x] = a[x] + r[x] /\ c[x] = a[x] + s[x] BY <1>1, TotalType
  <2>2. a[x] \in Nat /\ r[x] \in Nat OBVIOUS
  <2> HIDE DEF c, d
  <2> QED BY <1>2, <2>1, <2>2
<1>5. IsFiniteSet(InFlight(d)) /\ Cardinality(InFlight(d)) = p /\ p <= Alpha BY DEF CountedAt
<1> HIDE DEF c, d
<1>6. InFlight(c) \in SUBSET InFlight(d)
  <2> SUFFICES ASSUME NEW h \in InFlight(c) PROVE h \in InFlight(d) OBVIOUS
  <2>1. PICK x \in Peers : \E i \in 1..c[x] : h = <<x, i>> BY <1>3, InFlightIs
  <2>2. PICK i \in 1..c[x] : h = <<x, i>> BY <2>1
  <2>3. i \in 1..d[x]
    <3>1. c[x] \in Nat /\ d[x] \in Nat BY <1>3
    <3>2. c[x] <= d[x] BY <1>4, <3>1
    <3> QED BY <2>2, <3>1, <3>2
  <2> QED BY <1>3, <2>2, <2>3, InFlightIs
<1>7. IsFiniteSet(InFlight(c)) BY <1>5, <1>6, FS_Subset
<1>8. Cardinality(InFlight(d)) = Cardinality(InFlight(c)) + 1
  BY <1>3, <1>4, <1>7, OneMoreInFlight
<1>9. Cardinality(InFlight(c)) \in Nat BY <1>7, FS_CardinalityType
<1>10. p > 0 /\ p - 1 = Cardinality(InFlight(c)) /\ p - 1 <= Alpha BY <1>0, <1>5, <1>8, <1>9
<1>11. CountedAt(a, s, p - 1) BY <1>7, <1>10 DEF CountedAt, c
<1> QED BY <1>1, <1>10, <1>11 DEF s


\* LookupInv is kept when one lookup l changes, and keeps its part.
LEMMA OneLookupChanges ==
  ASSUME LookupInv, LookupTypes', NEW l \in Lookups,
         CountedAt(asking'[l], replying'[l], pending'[l]),
         AccountedAt(asks'[l], queue'[l], visited'[l], first'[l]),
         LookupPlaced(l)',
         \A k \in Lookups \ {l} :
           /\ asking'[k] = asking[k] /\ replying'[k] = replying[k] /\ pending'[k] = pending[k]
           /\ asks'[k] = asks[k] /\ queue'[k] = queue[k] /\ visited'[k] = visited[k]
           /\ first'[k] = first[k] /\ pc'[k] = pc[k] /\ seeded'[k] = seeded[k]
  PROVE  LookupInv'
<1>1. ASSUME NEW k \in Lookups
      PROVE  /\ CountedAt(asking'[k], replying'[k], pending'[k])
             /\ AccountedAt(asks'[k], queue'[k], visited'[k], first'[k])
             /\ LookupPlaced(k)'
  <2>1. CASE k = l BY <2>1
  <2>2. CASE k # l BY <2>2 DEF LookupInv, LookupPlaced
  <2> QED BY <2>1, <2>2
<1> QED BY <1>1 DEF LookupInv

\* The start of a lookup.
LEMMA StartKeeps ==
  ASSUME LookupInv, NEW l \in Lookups, Start(l)
  PROVE  LookupInv'
<1>0. LookupTypes /\ LookupPlaced(l) /\ CountedAt(asking[l], replying[l], pending[l])
      /\ AccountedAt(asks[l], queue[l], visited[l], first[l])
  BY DEF LookupInv
<1>1. CASE active
  <2>1. PICK n \in 0..Cardinality(nodes) : \E q \in [1..n -> nodes] :
          /\ IsInjective(q)
          /\ queue' = [queue EXCEPT ![l] = q]
          /\ first' = [first EXCEPT ![l] = Range(q)]
    BY <1>1 DEF Start
  <2>2. PICK q \in [1..n -> nodes] :
          /\ IsInjective(q)
          /\ queue' = [queue EXCEPT ![l] = q]
          /\ first' = [first EXCEPT ![l] = Range(q)]
    BY <2>1
  <2>3. nodes \subseteq Peers BY <1>0 DEF LookupTypes
  <2>4. q \in Seq(Peers)
    <3>1. n \in Nat BY <2>1
    <3>2. q \in [1..n -> Peers] BY <2>3
    <3> QED BY <3>1, <3>2
  <2>5. Range(q) \in SUBSET Peers BY <2>3 DEF Range
  <2>6. pc' = [pc EXCEPT ![l] = "seed"] /\ pc[l] = "idle" BY <1>1 DEF Start
  <2>7. visited[l] = {} /\ asks[l] = NoPeers /\ pending[l] = 0 /\ seeded[l] = 0
    BY <1>0, <2>6 DEF LookupPlaced, PlacedAt
  <2>8. UNCHANGED <<visited, pending, seeded, asks, asking, replying, nodes>> BY DEF Start
  <2>9. LookupTypes'
    <3>1. pc' \in [Lookups -> {"idle", "seed", "loop", "found", "error", "done"}]
      BY <1>0, <2>6 DEF LookupTypes
    <3>2. queue' \in [Lookups -> Seq(Peers)] BY <1>0, <2>2, <2>4 DEF LookupTypes
    <3>3. first' \in [Lookups -> SUBSET Peers] BY <1>0, <2>2, <2>5 DEF LookupTypes
    <3> QED BY <1>0, <2>8, <3>1, <3>2, <3>3 DEF LookupTypes
  <2>10. queue'[l] = q /\ first'[l] = Range(q) /\ pc'[l] = "seed"
    BY <1>0, <2>2, <2>6 DEF LookupTypes
  <2>11. AccountedAt(asks'[l], queue'[l], visited'[l], first'[l])
    <3> SUFFICES ASSUME NEW x \in Peers
                 PROVE  0 + times(q, Len(q), x) = 0 + (IF x \in Range(q) THEN 1 ELSE 0)
      BY <2>7, <2>8, <2>10 DEF AccountedAt, NoPeers
    <3>1. times(q, Len(q), x) = IF x \in Range(q) THEN 1 ELSE 0 BY <2>2, <2>4, TimesDistinct
    <3> QED BY <3>1
  <2>12. LookupPlaced(l)' BY <2>7, <2>8, <2>10 DEF LookupPlaced, PlacedAt
  <2>13. CountedAt(asking'[l], replying'[l], pending'[l]) BY <1>0, <2>8
  <2>14. \A k \in Lookups \ {l} : queue'[k] = queue[k] /\ first'[k] = first[k] /\ pc'[k] = pc[k]
    BY <1>0, <2>2, <2>6 DEF LookupTypes
  <2> QED BY <2>8, <2>9, <2>11, <2>12, <2>13, <2>14, OneLookupChanges
<1>2. CASE ~active
  <2>1. pc' = [pc EXCEPT ![l] = "done"] /\ pc[l] = "idle"
        /\ UNCHANGED <<queue, first, visited, pending, seeded, asks, asking, replying, nodes>>
    BY <1>2 DEF Start
  <2>2. LookupTypes' BY <1>0, <2>1 DEF LookupTypes
  <2>3. pc'[l] = "done" /\ \A k \in Lookups \ {l} : pc'[k] = pc[k] BY <1>0, <2>1 DEF LookupTypes
  <2>4. LookupPlaced(l)' BY <2>3 DEF LookupPlaced, PlacedAt
  <2> QED BY <1>0, <2>1, <2>2, <2>3, <2>4, OneLookupChanges
<1> QED BY <1>1, <1>2

\* The bound of the loops.
LEMMA LeastIs ==
  ASSUME NEW i \in Int, NEW j \in Int
  PROVE  Least(i, j) \in {i, j} /\ Least(i, j) <= i /\ Least(i, j) <= j
BY DEF Least

\* A round of the seeding loop.
LEMMA SeedKeeps ==
  ASSUME LookupInv, NEW l \in Lookups, Seed(l)
  PROVE  LookupInv'
<1> DEFINE q == queue[l]
           p == pending[l]
<1>1. /\ LookupTypes /\ LookupPlaced(l) /\ CountedAt(asking[l], replying[l], pending[l])
      /\ AccountedAt(asks[l], queue[l], visited[l], first[l])
  BY DEF LookupInv
<1>2. /\ q \in Seq(Peers) /\ p \in Nat /\ seeded[l] \in Nat /\ Alpha \in Nat \ {0}
      /\ asking[l] \in [Peers -> Nat] /\ replying[l] \in [Peers -> Nat]
      /\ asks[l] \in [Peers -> Nat]
  BY <1>1, AlphaAssumption DEF LookupTypes
<1>3. pc[l] = "seed" /\ seeded[l] = p BY <1>1 DEF Seed, LookupPlaced, PlacedAt
<1>4. Len(q) \in Nat BY <1>2
<1>5. Least(Len(q), Alpha) \in {Len(q), Alpha} /\ Least(Len(q), Alpha) <= Len(q)
      /\ Least(Len(q), Alpha) <= Alpha
  BY <1>2, <1>4, LeastIs
<1>6. UNCHANGED <<visited, first, replying, nodes>> BY DEF Seed
<1>7. CountedAt(asking[l], replying[l], p) /\ AccountedAt(asks[l], q, visited[l], first[l]) BY <1>1
<1>8. CASE seeded[l] < Least(Len(q), Alpha)
  <2> DEFINE b == [x \in Peers |-> asking[l][x] + times(q, 1, x)]
             m == [x \in Peers |-> asks[l][x] + times(q, 1, x)]
             u == SubSeq(q, 1 + 1, Len(q))
  <2>1. findNodes(l, q, 1, p) /\ seeded' = [seeded EXCEPT ![l] = @ + 1] /\ UNCHANGED pc
    BY <1>8 DEF Seed
  <2>2. 1 \in 0..Len(q) /\ p + 1 <= Alpha
    <3> HIDE DEF p, q
    <3> QED BY <1>2, <1>3, <1>4, <1>5, <1>8
  <2>3. /\ b \in [Peers -> Nat] /\ m \in [Peers -> Nat] /\ u \in Seq(Peers)
        /\ CountedAt(b, replying[l], p + 1) /\ AccountedAt(m, u, visited[l], first[l])
    <3>1. CanAsk(asking[l], replying[l], asks[l], q, 1, p, visited[l], first[l])
      <4> HIDE DEF q, p
      <4> QED BY <1>2, <1>7, <2>2 DEF CanAsk
    <3>2. HasAsked(asking[l], replying[l], asks[l], q, 1, p, visited[l], first[l], b, m, u)
      <4> HIDE DEF q, p
      <4> QED BY <3>1, FindNodesStep
    <3> HIDE DEF q, p, b, m, u
    <3> QED BY <3>2 DEF HasAsked
  <2>4. /\ pending' = [pending EXCEPT ![l] = p + 1] /\ asking' = [asking EXCEPT ![l] = b]
        /\ asks' = [asks EXCEPT ![l] = m] /\ queue' = [queue EXCEPT ![l] = u]
    BY <2>1 DEF findNodes
  <2> HIDE DEF b, m, u, q, p
  <2>5. /\ pending'[l] = p + 1 /\ asking'[l] = b /\ asks'[l] = m /\ queue'[l] = u
        /\ seeded'[l] = seeded[l] + 1 /\ pc'[l] = "seed"
    <3>1. pending'[l] = p + 1 /\ queue'[l] = u BY <1>1, <2>4 DEF LookupTypes
    <3>2. asking'[l] = b /\ asks'[l] = m BY <1>1, <2>4 DEF LookupTypes
    <3>3. seeded'[l] = seeded[l] + 1 BY <1>1, <2>1 DEF LookupTypes
    <3> QED BY <1>3, <2>1, <3>1, <3>2, <3>3
  <2>6. LookupTypes'
    <3>1. pending' \in [Lookups -> Nat] BY <1>1, <1>2, <2>4 DEF LookupTypes
    <3>2. asking' \in [Lookups -> [Peers -> Nat]] BY <1>1, <2>3, <2>4 DEF LookupTypes
    <3>3. asks' \in [Lookups -> [Peers -> Nat]] BY <1>1, <2>3, <2>4 DEF LookupTypes
    <3>4. queue' \in [Lookups -> Seq(Peers)] BY <1>1, <2>3, <2>4 DEF LookupTypes
    <3>5. seeded' \in [Lookups -> Nat] BY <1>1, <2>1 DEF LookupTypes
    <3> QED BY <1>1, <1>6, <2>1, <3>1, <3>2, <3>3, <3>4, <3>5 DEF LookupTypes
  <2>7. LookupPlaced(l)' BY <1>2, <1>3, <2>5 DEF LookupPlaced, PlacedAt
  <2>8. \A k \in Lookups \ {l} :
          /\ asking'[k] = asking[k] /\ pending'[k] = pending[k] /\ asks'[k] = asks[k]
          /\ queue'[k] = queue[k] /\ seeded'[k] = seeded[k]
    BY <1>1, <2>1, <2>4 DEF LookupTypes
  <2>9. CountedAt(asking'[l], replying'[l], pending'[l]) BY <1>6, <2>3, <2>5
  <2>10. AccountedAt(asks'[l], queue'[l], visited'[l], first'[l]) BY <1>6, <2>3, <2>5
  <2> QED BY <1>6, <2>1, <2>6, <2>7, <2>8, <2>9, <2>10, OneLookupChanges
<1>9. CASE ~(seeded[l] < Least(Len(q), Alpha))
  <2>1. pc' = [pc EXCEPT ![l] = "loop"] /\ UNCHANGED <<queue, pending, asks, seeded, asking>>
    BY <1>9 DEF Seed
  <2>2. LookupTypes' BY <1>1, <1>6, <2>1 DEF LookupTypes
  <2>3. pc'[l] = "loop" /\ \A k \in Lookups \ {l} : pc'[k] = pc[k] BY <1>1, <2>1 DEF LookupTypes
  <2>4. q # <<>> => p > 0
    <3> HAVE q # <<>>
    <3>1. Len(q) # 0 BY <1>2
    <3> HIDE DEF q, p
    <3> QED BY <1>2, <1>3, <1>4, <1>5, <1>9, <3>1
  <2>5. LookupPlaced(l)' BY <2>1, <2>3, <2>4 DEF LookupPlaced, PlacedAt
  <2> QED BY <1>1, <1>6, <2>1, <2>2, <2>3, <2>5, OneLookupChanges
<1> QED BY <1>8, <1>9


\* findNodes returns.
LEMMA AnswerKeeps ==
  ASSUME LookupInv, NEW l \in Lookups, NEW y \in Peers, Answer(l, y)
  PROVE  LookupInv'
<1> DEFINE a == asking[l]
           r == replying[l]
           b == [a EXCEPT ![y] = a[y] - 1]
           s == [r EXCEPT ![y] = r[y] + 1]
<1>0. /\ LookupTypes /\ LookupPlaced(l) /\ CountedAt(a, r, pending[l])
      /\ AccountedAt(asks[l], queue[l], visited[l], first[l])
  BY DEF LookupInv
<1>1. a \in [Peers -> Nat] /\ r \in [Peers -> Nat] /\ a[y] > 0 BY <1>0 DEF LookupTypes, Answer
<1>2. asking' = [asking EXCEPT ![l] = b] /\ replying' = [replying EXCEPT ![l] = s]
  BY DEF Answer
<1>3. /\ UNCHANGED <<pc, queue, visited, pending, seeded, first, asks, nodes>>
  BY DEF Answer, locals
<1> HIDE DEF a, r
<1>4. b \in [Peers -> Nat] /\ s \in [Peers -> Nat] BY <1>1
<1>5. Total(b, s) = Total(a, r)
  <2>1. \A x \in Peers : b[x] + s[x] = a[x] + r[x] BY <1>1
  <2> HIDE DEF b, s
  <2> QED BY <2>1 DEF Total
<1> HIDE DEF b, s
<1>6. asking'[l] = b /\ replying'[l] = s BY <1>0, <1>2 DEF LookupTypes
<1>7. LookupTypes'
  <2>1. asking' \in [Lookups -> [Peers -> Nat]] BY <1>0, <1>2, <1>4 DEF LookupTypes
  <2>2. replying' \in [Lookups -> [Peers -> Nat]] BY <1>0, <1>2, <1>4 DEF LookupTypes
  <2> QED BY <1>0, <1>3, <2>1, <2>2 DEF LookupTypes
<1>8. \A k \in Lookups \ {l} : asking'[k] = asking[k] /\ replying'[k] = replying[k]
  BY <1>0, <1>2 DEF LookupTypes
<1>9. CountedAt(asking'[l], replying'[l], pending'[l])
  BY <1>0, <1>3, <1>5, <1>6 DEF CountedAt
<1>10. LookupPlaced(l)' BY <1>0, <1>3 DEF LookupPlaced
<1>11. AccountedAt(asks'[l], queue'[l], visited'[l], first'[l]) BY <1>0, <1>3
<1> QED BY <1>3, <1>7, <1>8, <1>9, <1>10, <1>11, OneLookupChanges

\* A reply: who is new joins the queue, and goroutines are started up to alpha.
LEMMA ReplyKeeps ==
  ASSUME LookupInv, NEW l \in Lookups, NEW y \in Peers, NEW found \in Seq(Peers),
         Reply(l, y, found)
  PROVE  LookupInv'
<1> DEFINE e == fresh(l, found)
           q == queue[l] \o e
           p == pending[l] - 1
           n == room(p, q)
           v == visited[l] \cup Range(found)
           s == [replying[l] EXCEPT ![y] = replying[l][y] - 1]
           b == [x \in Peers |-> asking[l][x] + times(q, n, x)]
           m == [x \in Peers |-> asks[l][x] + times(q, n, x)]
           u == SubSeq(q, n + 1, Len(q))
<1>0. /\ LookupTypes /\ LookupPlaced(l) /\ CountedAt(asking[l], replying[l], pending[l])
      /\ AccountedAt(asks[l], queue[l], visited[l], first[l])
  BY DEF LookupInv
<1>1. /\ queue[l] \in Seq(Peers) /\ pending[l] \in Nat /\ Alpha \in Nat \ {0}
      /\ asking[l] \in [Peers -> Nat] /\ replying[l] \in [Peers -> Nat]
      /\ asks[l] \in [Peers -> Nat]
      /\ visited[l] \in SUBSET Peers
  BY <1>0, AlphaAssumption DEF LookupTypes
<1>2. pc[l] = "loop" /\ replying[l][y] > 0 /\ UNCHANGED <<pc, seeded, first, nodes>>
  BY DEF Reply
<1>3. replying' = [replying EXCEPT ![l] = s] /\ visited' = [visited EXCEPT ![l] = v]
  BY DEF Reply
<1>4. /\ pending' = [pending EXCEPT ![l] = p + n] /\ asking' = [asking EXCEPT ![l] = b]
      /\ asks' = [asks EXCEPT ![l] = m] /\ queue' = [queue EXCEPT ![l] = u]
  BY DEF Reply, findNodes
<1>5. e \in Seq(Peers) /\ IsInjective(e) /\ Range(e) = Range(found) \ visited[l] BY FreshPeers
<1>6. q \in Seq(Peers) BY <1>1, <1>5
<1>7. s \in [Peers -> Nat] /\ p \in Nat /\ CountedAt(asking[l], s, p)
  <2>1. s \in [Peers -> Nat] /\ pending[l] > 0 /\ CountedAt(asking[l], s, p)
    BY <1>0, <1>1, <1>2, ReplyStep
  <2> HIDE DEF s
  <2> QED BY <1>1, <2>1
<1>8. v \in SUBSET Peers
  <2>1. Range(found) \in SUBSET Peers BY DEF Range
  <2> QED BY <1>1, <2>1
<1>9. AccountedAt(asks[l], q, v, first[l])
  <2> SUFFICES ASSUME NEW x \in Peers
               PROVE  asks[l][x] + times(q, Len(q), x) =
                        (IF x \in v THEN 1 ELSE 0) + (IF x \in first[l] THEN 1 ELSE 0)
    BY DEF AccountedAt
  <2> DEFINE w == times(queue[l], Len(queue[l]), x)
             z == times(e, Len(e), x)
  <2>1. asks[l][x] + w =
          (IF x \in visited[l] THEN 1 ELSE 0) + (IF x \in first[l] THEN 1 ELSE 0)
    BY <1>0 DEF AccountedAt
  <2>2. times(q, Len(q), x) = w + z
    <3> DEFINE o == queue[l]
    <3>1. o \in Seq(Peers) /\ e \in Seq(Peers) BY <1>1, <1>5
    <3> HIDE DEF o, e
    <3>2. times(o \o e, Len(o \o e), x) = times(o, Len(o), x) + times(e, Len(e), x)
      BY <3>1, TimesCat
    <3> QED BY <3>2 DEF o
  <2>3. z = IF x \in Range(e) THEN 1 ELSE 0 BY <1>5, TimesDistinct
  <2>4. w \in Nat /\ asks[l][x] \in Nat
    <3>1. Len(queue[l]) \in Nat BY <1>1
    <3> QED BY <1>1, <3>1, TimesType
  <2>5. x \in Range(e) <=> x \in v /\ x \notin visited[l] BY <1>5
  <2>6. x \in visited[l] => x \in v OBVIOUS
  <2> HIDE DEF w, z, e, q, v
  <2> QED BY <2>1, <2>2, <2>3, <2>4, <2>5, <2>6
<1>10. n \in 0..Len(q) /\ p + n <= Alpha /\ (n # Len(q) => p + n = Alpha)
  <2>1. p <= Alpha BY <1>7 DEF CountedAt
  <2>2. Len(q) \in Nat BY <1>6
  <2>3. n \in {Alpha - p, Len(q)} /\ n <= Alpha - p /\ n <= Len(q)
    <3>1. Alpha - p \in Int BY <1>1, <1>7
    <3> HIDE DEF p, q
    <3> QED BY <2>2, <3>1, LeastIs DEF room
  <2> HIDE DEF n, p, q
  <2> QED BY <1>1, <1>7, <2>1, <2>2, <2>3
<1> HIDE DEF e, q, p, n, v, s
<1>11. /\ b \in [Peers -> Nat] /\ m \in [Peers -> Nat] /\ u \in Seq(Peers)
       /\ CountedAt(b, s, p + n) /\ AccountedAt(m, u, v, first[l])
  <2>1. CanAsk(asking[l], s, asks[l], q, n, p, v, first[l])
    BY <1>1, <1>6, <1>7, <1>9, <1>10 DEF CanAsk
  <2>2. HasAsked(asking[l], s, asks[l], q, n, p, v, first[l], b, m, u) BY <2>1, FindNodesStep
  <2> HIDE DEF b, m, u
  <2> QED BY <2>2 DEF HasAsked
<1>12. u # <<>> => p + n > 0
  <2> HAVE u # <<>>
  <2>1. Len(q) \in Nat BY <1>6
  <2>2. n # Len(q)
    <3> SUFFICES ASSUME n = Len(q) PROVE FALSE OBVIOUS
    <3>1. Len(u) = 0 BY <1>6, <2>1
    <3> QED BY <1>11, <3>1
  <2> QED BY <1>1, <1>10, <2>2
<1> HIDE DEF b, m, u
<1>13. /\ pending'[l] = p + n /\ queue'[l] = u /\ visited'[l] = v
  BY <1>0, <1>3, <1>4 DEF LookupTypes
<1>14. asking'[l] = b /\ asks'[l] = m /\ replying'[l] = s BY <1>0, <1>3, <1>4 DEF LookupTypes
<1>15. LookupTypes'
  <2>1. pending' \in [Lookups -> Nat]
    <3>1. p + n \in Nat BY <1>6, <1>7, <1>10
    <3> QED BY <1>0, <1>4, <3>1 DEF LookupTypes
  <2>2. asking' \in [Lookups -> [Peers -> Nat]] BY <1>0, <1>4, <1>11 DEF LookupTypes
  <2>3. asks' \in [Lookups -> [Peers -> Nat]] BY <1>0, <1>4, <1>11 DEF LookupTypes
  <2>4. queue' \in [Lookups -> Seq(Peers)] BY <1>0, <1>4, <1>11 DEF LookupTypes
  <2>5. replying' \in [Lookups -> [Peers -> Nat]] BY <1>0, <1>3, <1>7 DEF LookupTypes
  <2>6. visited' \in [Lookups -> SUBSET Peers] BY <1>0, <1>3, <1>8 DEF LookupTypes
  <2> QED BY <1>0, <1>2, <2>1, <2>2, <2>3, <2>4, <2>5, <2>6 DEF LookupTypes
<1>16. \A k \in Lookups \ {l} :
         /\ asking'[k] = asking[k] /\ pending'[k] = pending[k] /\ asks'[k] = asks[k]
         /\ queue'[k] = queue[k] /\ replying'[k] = replying[k] /\ visited'[k] = visited[k]
  BY <1>0, <1>3, <1>4 DEF LookupTypes
<1>17. LookupPlaced(l)' BY <1>2, <1>12, <1>13 DEF LookupPlaced, PlacedAt
<1>18. CountedAt(asking'[l], replying'[l], pending'[l]) BY <1>11, <1>13, <1>14
<1>19. AccountedAt(asks'[l], queue'[l], visited'[l], first'[l]) BY <1>2, <1>11, <1>13, <1>14
<1> QED BY <1>2, <1>15, <1>16, <1>17, <1>18, <1>19, OneLookupChanges

\* LookupInv is inductive.
LEMMA LookupInvKept == LookupInv /\ [LookupNext]_lookupVars => LookupInv'
<1> SUFFICES ASSUME LookupInv, [LookupNext]_lookupVars PROVE LookupInv' OBVIOUS
<1>0. LookupTypes BY DEF LookupInv
<1>1. ASSUME UNCHANGED <<locals, asking, replying>>, nodes' \in SUBSET Peers PROVE LookupInv'
  <2>1. LookupTypes' BY <1>0, <1>1 DEF LookupTypes, locals
  <2> QED BY <1>1, <2>1 DEF LookupInv, LookupPlaced, locals
<1>2. ASSUME NEW l \in Lookups, Start(l) PROVE LookupInv' BY <1>2, StartKeeps
<1>3. ASSUME NEW l \in Lookups, Seed(l) PROVE LookupInv' BY <1>3, SeedKeeps
<1>4. ASSUME NEW l \in Lookups, Hear(l) PROVE LookupInv'
  <2>1. PICK y \in Peers, n \in 0..MaxFound : \E found \in [1..n -> Peers] : Reply(l, y, found)
    BY <1>4 DEF Hear
  <2>2. PICK found \in [1..n -> Peers] : Reply(l, y, found) BY <2>1
  <2>3. n \in Nat BY AlphaAssumption
  <2>4. found \in Seq(Peers) BY <2>3
  <2> QED BY <2>2, <2>4, ReplyKeeps
<1>5. ASSUME NEW l \in Lookups,
             \/ /\ Result(l) /\ pc'[l] \in {"found", "error"}
             \/ /\ Abandon(l) /\ pc'[l] = "done",
             \E c \in {"found", "error", "done"} : pc' = [pc EXCEPT ![l] = c]
      PROVE LookupInv'
  <2>1. UNCHANGED <<queue, visited, pending, seeded, first, asks, asking, replying, nodes>>
    BY <1>5 DEF Result, Abandon
  <2>2. LookupTypes' BY <1>0, <1>5, <2>1 DEF LookupTypes
  <2>3. \A k \in Lookups \ {l} : pc'[k] = pc[k] BY <1>0, <1>5 DEF LookupTypes
  <2>4. /\ CountedAt(asking[l], replying[l], pending[l])
        /\ AccountedAt(asks[l], queue[l], visited[l], first[l])
        /\ LookupPlaced(l)
    BY DEF LookupInv
  <2>5. LookupPlaced(l)'
    <3>1. CASE Result(l) /\ pc'[l] \in {"found", "error"}
      <4>1. queue[l] = <<>> BY <2>4, <3>1 DEF LookupPlaced, PlacedAt, Result
      <4> QED BY <2>1, <3>1, <4>1 DEF LookupPlaced, PlacedAt
    <3>2. CASE Abandon(l) /\ pc'[l] = "done" BY <3>2 DEF LookupPlaced, PlacedAt
    <3> QED BY <1>5, <3>1, <3>2
  <2> QED BY <2>1, <2>2, <2>3, <2>4, <2>5, OneLookupChanges
<1>6. ASSUME NEW l \in Lookups, Result(l) PROVE LookupInv'
  <2>1. PICK c \in {"found", "error"} : pc' = [pc EXCEPT ![l] = c] BY <1>6 DEF Result
  <2>2. pc'[l] = c BY <1>0, <2>1 DEF LookupTypes
  <2> QED BY <1>5, <1>6, <2>1, <2>2
<1>7. ASSUME NEW l \in Lookups, Abandon(l) PROVE LookupInv'
  <2>1. pc' = [pc EXCEPT ![l] = "done"] BY <1>7 DEF Abandon
  <2>2. pc'[l] = "done" BY <1>0, <2>1 DEF LookupTypes
  <2> QED BY <1>5, <1>7, <2>1, <2>2
<1>8. ASSUME NEW l \in Lookups, NEW x \in Peers, Answer(l, x) PROVE LookupInv'
  BY <1>8, AnswerKeeps
<1>9. ASSUME NEW x \in Peers, Bond(x) PROVE LookupInv'
  BY <1>0, <1>1, <1>9 DEF Bond, LookupTypes
<1>10. CASE Activate BY <1>0, <1>1, <1>10 DEF Activate, LookupTypes
<1>11. CASE Close BY <1>0, <1>1, <1>11 DEF Close, LookupTypes
<1>12. CASE UNCHANGED lookupVars BY <1>0, <1>1, <1>12 DEF lookupVars, LookupTypes
<1> QED BY <1>2, <1>3, <1>4, <1>6, <1>7, <1>8, <1>9, <1>10, <1>11, <1>12 DEF LookupNext

\* A lookup asks everybody it hears of, once (whom it started with at most twice), with at
\* most alpha goroutines at a time, and leaves nobody in the queue (LookupTarget of
\* discv4.go), for any number of lookups at once and whatever the peers answer.
THEOREM LookupsAskEverybody == LookupSpec => []AsksEverybody
<1>1. LookupInit => LookupInv
  <2> SUFFICES ASSUME LookupInit PROVE LookupInv OBVIOUS
  <2>1. LookupTypes BY DEF LookupInit, LookupTypes, NoPeers
  <2>2. InFlight(Total(NoPeers, NoPeers)) = {}
    <3>1. Total(NoPeers, NoPeers) = [x \in Peers |-> 0] BY DEF Total, NoPeers
    <3>2. [x \in Peers |-> 0] \in [Peers -> Nat] OBVIOUS
    <3>3. \A x \in Peers : 1..[z \in Peers |-> 0][x] = {} OBVIOUS
    <3> QED BY <3>1, <3>2, <3>3, InFlightIs
  <2>3. CountedAt(NoPeers, NoPeers, 0)
    BY <2>2, FS_EmptySet, AlphaAssumption DEF CountedAt
  <2>4. AccountedAt(NoPeers, <<>>, {}, {})
    <3> SUFFICES ASSUME NEW x \in Peers PROVE times(<<>>, 0, x) = 0 BY DEF AccountedAt, NoPeers
    <3>1. {i \in 1..0 : <<>>[i] = x} = {} OBVIOUS
    <3> QED BY <3>1, FS_EmptySet DEF times
  <2>5. \A l \in Lookups : LookupPlaced(l) BY DEF LookupInit, LookupPlaced, PlacedAt
  <2> QED BY <2>1, <2>3, <2>4, <2>5 DEF LookupInv, LookupInit
<1>2. LookupInv => AsksEverybody
  <2> SUFFICES ASSUME LookupInv, NEW l \in Lookups
               PROVE  /\ Cardinality(Goroutines(l)) <= Alpha
                      /\ \A x \in Peers :
                           asks[l][x] + times(queue[l], Len(queue[l]), x) =
                             (IF x \in visited[l] THEN 1 ELSE 0)
                               + (IF x \in first[l] THEN 1 ELSE 0)
                      /\ pc[l] \in {"found", "error"} => queue[l] = <<>>
    BY DEF AsksEverybody
  <2>1. /\ CountedAt(asking[l], replying[l], pending[l])
        /\ AccountedAt(asks[l], queue[l], visited[l], first[l])
        /\ LookupPlaced(l)
    BY DEF LookupInv
  <2>2. Goroutines(l) = InFlight(Total(asking[l], replying[l])) BY DEF Goroutines, InFlight, Total
  <2>3. Cardinality(Goroutines(l)) <= Alpha BY <2>1, <2>2 DEF CountedAt
  <2>4. pc[l] \in {"found", "error"} => queue[l] = <<>> BY <2>1 DEF LookupPlaced, PlacedAt
  <2> QED BY <2>1, <2>3, <2>4 DEF AccountedAt
<1> QED BY <1>1, <1>2, LookupInvKept, PTL DEF LookupSpec
=============================================================================
