---------------------------- MODULE RoutingTable ----------------------------
(***************************************************************************)
(* The Kademlia table of discovery/kademlia: a list of buckets, the i-th   *)
(* for the peers that share i bits with the local hash, the last one for   *)
(* all that share more; a full last bucket is unfolded.                    *)
(*                                                                         *)
(* A peer is its string, its hash an array of bits.  Update, Remove and    *)
(* NearestPeers hash their argument with one hasher that they share and    *)
(* that no lock protects, then work under tabLock.  A call is two steps:   *)
(* Begin, and the rest.  When two calls overlap, what a call reads from    *)
(* the hasher is the hash of anything that was written to it.              *)
(***************************************************************************)
EXTENDS Integers, Sequences, FiniteSets, Subsequences

CONSTANTS Keys,        \* the strings that are hashed
          Local,       \* the local peer
          Bits,        \* length of a hash (256)
          Hash,        \* the hash of every key
          BucketSize,  \* 16 in discv4.go
          Threads,     \* concurrent callers
          MaxRaces     \* bound on the overlaps of two hash computations

ID == [1..Bits -> {0, 1}]

ASSUME KeysAssumption == Local \in Keys /\ IsFiniteSet(Keys)
ASSUME HashAssumption == /\ Bits \in Nat \ {0}
                         /\ Hash \in [Keys -> ID]
                         /\ \A k, l \in Keys : Hash[k] = Hash[l] => k = l
ASSUME SizeAssumption == BucketSize \in Nat \ {0, 1} /\ MaxRaces \in Nat

VARIABLES buckets,  \* buckets[i + 1] is Buckets[i], front first; entries are [id, hash]
          call,     \* what each thread is doing
          races     \* overlaps so far

vars == <<buckets, call, races>>

-----------------------------------------------------------------------------
(* util.go and sorting.go.                                                 *)

xor(a, b) == [i \in 1..Bits |-> IF a[i] = b[i] THEN 0 ELSE 1]

\* bytes.Compare(a, b) < 0.
less(a, b) == \E i \in 1..Bits : a[i] < b[i] /\ \A j \in 1..(i - 1) : a[j] = b[j]

zeroPrefixLen(d) ==
  IF \A i \in 1..Bits : d[i] = 0
    THEN Bits
    ELSE (CHOOSE i \in 1..Bits : d[i] = 1 /\ \A j \in 1..(i - 1) : d[j] = 0) - 1

CommonPrefixLen(a, b) == zeroPrefixLen(xor(a, b))

cpl(hash) == CommonPrefixLen(hash, Hash[Local])

-----------------------------------------------------------------------------
(* bucket.go: a bucket is a sequence of entries.                           *)

Has(b, p) == \E i \in DOMAIN b : b[i].id = p

\* MoveToFront walks on after the move: the entry it moved is now the first.
MoveToFront(b, p) ==
  ElementsAt(b, {i \in DOMAIN b : b[i].id = p}) \o ElementsAt(b, {i \in DOMAIN b : b[i].id # p})

PushFront(b, p, hash) == <<[id |-> p, hash |-> hash]>> \o b

RemoveFrom(b, p) == ElementsAt(b, {i \in DOMAIN b : b[i].id # p})

-----------------------------------------------------------------------------
(* kademlia.go.                                                            *)

\* The bucket of a hash (counted from 1): that of its prefix, or the last.
bucketID(bs, hash) == IF cpl(hash) >= Len(bs) THEN Len(bs) ELSE cpl(hash) + 1

\* Mutant: Split keeps the peers with a longer prefix and moves the others.
SplitSwapped(b, n) == [kept  |-> ElementsAt(b, {i \in DOMAIN b : cpl(b[i].hash) > n}),
                       moved |-> ElementsAt(b, {i \in DOMAIN b : cpl(b[i].hash) <= n})]

\* Split: peers that share more than n bits go to the new bucket, in order.
Split(b, n) == [kept  |-> ElementsAt(b, {i \in DOMAIN b : cpl(b[i].hash) <= n}),
                moved |-> ElementsAt(b, {i \in DOMAIN b : cpl(b[i].hash) > n})]

\* nextBucket and its recursion: the last bucket (index n) is split, then the new one,
\* until the newest is not full.  Unfolded(b, n, k) is the k buckets that replace it.
Unfolded(b, n, k) ==
  [j \in 1..k |-> IF j = k THEN Split(b, n + k - 2).moved
                            ELSE Split(IF j = 1 THEN b ELSE Split(b, n + j - 2).moved,
                                       n + j - 1).kept]

\* Mutant: the table is unfolded once.
nextBucketOnce(bs) ==
  SubSeq(bs, 1, Len(bs) - 1) \o Unfolded(bs[Len(bs)], Len(bs) - 1, 2)

nextBucket(bs) ==
  LET b == bs[Len(bs)]
      n == Len(bs) - 1
      k == CHOOSE i \in 2..(Bits + 2) :
             /\ Len(Split(b, n + i - 2).moved) < BucketSize
             /\ \A j \in 2..(i - 1) : Len(Split(b, n + j - 2).moved) >= BucketSize
  IN  SubSeq(bs, 1, n) \o Unfolded(b, n, k)

\* Mutant: the room is not checked again after the unfolding.
UpdateNoRecheck(bs, p, hash) ==
  LET i == bucketID(bs, hash)
      t == IF i = Len(bs) /\ Len(bs[i]) >= BucketSize /\ ~Has(bs[i], p)
             THEN nextBucket(bs) ELSE bs
      j == bucketID(t, hash)
  IN  IF Has(bs[i], p) \/ (i # Len(bs) /\ Len(bs[i]) >= BucketSize) THEN bs
      ELSE [t EXCEPT ![j] = PushFront(@, p, hash)]

\* Update under tabLock: the table it leaves.  It returns ErrPeerRejectedNoCapacity
\* when the peer is not listed afterwards.
Update(bs, p, hash) ==
  LET i    == bucketID(bs, hash)
      full == Len(bs[i]) >= BucketSize
      t    == IF full /\ i = Len(bs) THEN nextBucket(bs) ELSE bs
      j    == bucketID(t, hash)
  IN  IF Has(bs[i], p) THEN [bs EXCEPT ![i] = MoveToFront(@, p)]
      ELSE IF Len(t[j]) < BucketSize THEN [t EXCEPT ![j] = PushFront(@, p, hash)]
      ELSE t

Remove(bs, p, hash) == [bs EXCEPT ![bucketID(bs, hash)] = RemoveFrom(@, p)]

\* The peers NearestPeers sorts: its bucket and, if that is short, the two beside it.
candidates(bs, target, count) ==
  LET i == bucketID(bs, target)
  IN  IF Len(bs[i]) >= count THEN bs[i]
      ELSE bs[i] \o (IF i > 1 THEN bs[i - 1] ELSE <<>>)
                 \o (IF i < Len(bs) THEN bs[i + 1] ELSE <<>>)

\* Mutant: the peers are sorted by their distance to the local peer.
closerToLocal(target, e, f) == less(xor(Hash[Local], e.hash), xor(Hash[Local], f.hash))

closer(target, e, f) == less(xor(target, e.hash), xor(target, f.hash))

\* The order of sort.Sort.  It promises nothing of entries as close as each other, which only
\* a torn hash makes; here they stay in the order they came.
sortsBefore(c, target) ==
  {ij \in (DOMAIN c) \X (DOMAIN c) :
     \/ closer(target, c[ij[1]], c[ij[2]])
     \/ ~closer(target, c[ij[2]], c[ij[1]]) /\ ij[1] < ij[2]}

NearestPeers(bs, target, count) ==
  LET c      == candidates(bs, target, count)
      sorted == SortedBy(c, sortsBefore(c, target))
  IN  SubSeq(sorted, 1, IF count < Len(sorted) THEN count ELSE Len(sorted))

\* Find of a key with this hash; "" is FALSE.
Find(bs, p, hash) ==
  LET srch == NearestPeers(bs, hash, 1)
  IN  srch # <<>> /\ srch[1].id = p

ListPeers(bs) == UNION {{bs[i][j] : j \in DOMAIN bs[i]} : i \in DOMAIN bs}

-----------------------------------------------------------------------------
(* The callers.                                                            *)

Idle == [op |-> "idle", key |-> Local, torn |-> FALSE]

Init ==
  /\ buckets = << <<>> >>
  /\ call = [t \in Threads |-> Idle]
  /\ races = 0

\* hashPeer up to Sum: an overlap tears every hash that is being computed.
Begin(t, op, k) ==
  LET others == {u \in Threads \ {t} : call[u] # Idle}
  IN  /\ call[t] = Idle
      /\ others = {} \/ races < MaxRaces
      /\ races' = IF others = {} THEN races ELSE races + 1
      /\ call' = [u \in Threads |->
                    IF u = t THEN [op |-> op, key |-> k, torn |-> others # {}]
                    ELSE IF u \in others THEN [call[u] EXCEPT !.torn = TRUE]
                    ELSE call[u]]
      /\ UNCHANGED buckets

\* What hashPeer may return: when the hasher was shared, any hash, the local peer's included.
\* (A hasher that panics under two callers ends the program: no step follows.)
hashPeer(t) == IF call[t].torn THEN ID ELSE {Hash[call[t].key]}

UpdatePeer(t) ==
  /\ call[t].op = "update"
  /\ \E h \in hashPeer(t) : buckets' = Update(buckets, call[t].key, h)
  /\ call' = [call EXCEPT ![t] = Idle]
  /\ UNCHANGED races

RemovePeer(t) ==
  /\ call[t].op = "remove"
  /\ \E h \in hashPeer(t) : buckets' = Remove(buckets, call[t].key, h)
  /\ call' = [call EXCEPT ![t] = Idle]
  /\ UNCHANGED races

\* NearestPeers only reads the table: its answers are the subject of the invariants, and
\* its key does not matter for the hashes it tears.
QueryPeers(t) ==
  /\ call[t].op = "nearest"
  /\ call' = [call EXCEPT ![t] = Idle]
  /\ UNCHANGED <<buckets, races>>

Next ==
  \E t \in Threads :
    \/ \E op \in {"update", "remove"}, k \in Keys : Begin(t, op, k)
    \/ Begin(t, "nearest", Local)
    \/ UpdatePeer(t) \/ RemovePeer(t) \/ QueryPeers(t)

Spec == Init /\ [][Next]_vars

-----------------------------------------------------------------------------
(* Properties.                                                             *)

Entries == [id : Keys, hash : ID]

\* The types, and the bounds of the table: no bucket outgrows bucketsize, the ones made by
\* an unfolding included, and there are no more buckets than prefixes.
TypeOK ==
  /\ buckets \in Seq(Seq(Entries)) /\ Len(buckets) \in 1..(Bits + 2)
  /\ \A i \in DOMAIN buckets : Len(buckets[i]) <= BucketSize
  /\ call \in [Threads -> [op : {"idle", "update", "remove", "nearest"}, key : Keys,
                           torn : BOOLEAN]]
  /\ races \in 0..MaxRaces

InOwnBucket ==
  \A i \in DOMAIN buckets : \A j \in DOMAIN buckets[i] :
    bucketID(buckets, buckets[i][j].hash) = i

ListedOnce ==
  \A i, k \in DOMAIN buckets : \A j \in DOMAIN buckets[i], l \in DOMAIN buckets[k] :
    buckets[i][j] = buckets[k][l] => <<i, j>> = <<k, l>>

\* Every entry is in the bucket of its hash, whatever was unfolded, rejected or removed
\* before: Has, Remove and NearestPeers look in one bucket and must find it there.  And a
\* peer is listed once, unless two of its hashes differ (one of them was torn).
WellPlaced == InOwnBucket /\ ListedOnce

\* Update loses nobody.  A step that is not a Remove keeps every entry ("evicted" is always
\* empty), also when the table is unfolded; and a new peer is rejected only when BucketSize
\* listed peers are as far from the local hash as it is, so a last bucket that is full of
\* others is unfolded far enough.
NoPeerLost ==
  [][/\ (\A t \in Threads : call[t].op = "remove" => call'[t] = call[t])
          => ListPeers(buckets) \subseteq ListPeers(buckets')
     /\ \A t \in Threads :
          (call[t].op = "update" /\ call'[t] = Idle /\ ~call[t].torn) =>
            LET k == call[t].key
            IN  \/ \E e \in ListPeers(buckets') : e.id = k
                \/ Cardinality({e \in ListPeers(buckets') : cpl(e.hash) = cpl(Hash[k])})
                     >= BucketSize]_vars

\* NearestPeers returns the closest peers of the whole table when the bucket it starts
\* from holds enough of them: nobody outside is closer than anybody returned.  And Find
\* finds every listed peer whose hash was not torn and is nobody else's.
QueriesFindNearest ==
  LET listed == ListPeers(buckets)
  IN  /\ \A t \in ID : \A count \in 1..BucketSize :
           Len(buckets[bucketID(buckets, t)]) >= count =>
             LET near == NearestPeers(buckets, t, count)
             IN  /\ Len(near) = count
                 /\ \A e \in listed :
                      closer(t, e, near[count]) => \E i \in 1..count : near[i] = e
      /\ \A e \in listed :
           (e.hash = Hash[e.id] /\ \A f \in listed : f.hash = e.hash => f = e)
             => Find(buckets, e.id, e.hash)
=============================================================================
