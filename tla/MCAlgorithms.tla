---------------------------- MODULE MCAlgorithms ----------------------------
(***************************************************************************)
(* The parts of the repository that are data structures or algorithms and  *)
(* share nothing: the priority heap, fork identifiers, the DNS iterator    *)
(* and the routing table.  A behaviour is one of them, so the state space  *)
(* is the sum of theirs.                                                   *)
(***************************************************************************)
EXTENDS PeriodicHeap, ForkID, DnsTree, RoutingTable, TLC

VARIABLE subject

\* Jobs of the heap, and callers of the table, are interchangeable.  Permuting four of the jobs
\* is enough to keep the heap small, and costs a state of the table less than permuting all.
someIds == CHOOSE S \in SUBSET Ids : Cardinality(S) = 4

Symmetry == Permutations(someIds) \cup Permutations(Threads)

\* Fork lists with repetitions, out of order, with block 0, and prefixes of each other.
MCForkLists == {<<0>>, <<2>>, <<3>>, <<4, 2>>, <<2, 2, 3>>, <<0, 3, 5>>, <<2, 3, 5>>, <<1, 4>>}

text(prefix, hashes, record, hash) ==
  [prefix |-> prefix, hashes |-> hashes, record |-> record, hash |-> hash]

\* A root, branches of two levels, records, a link, a record that does not decode, one served
\* under a hash that is not its own, and a name with two texts.
MCZone ==
  [dom |-> <<text("root", <<"b1">>, "none", "dom")>>,
   b1  |-> <<text("branch", <<"b2", "n3", "ln", "b3">>, "none", "b1")>>,
   b2  |-> <<text("branch", <<"n1", "n2">>, "none", "b2")>>,
   b3  |-> <<text("branch", <<"n4", "x1", "x2", "n5">>, "none", "b3"),
             text("link", <<>>, "none", "ln")>>,
   ln  |-> <<text("link", <<>>, "none", "ln")>>,
   n1  |-> <<text("enr", <<>>, "r1", "n1")>>,
   n2  |-> <<text("enr", <<>>, "r2", "n2")>>,
   n3  |-> <<text("enr", <<>>, "r3", "n3")>>,
   n4  |-> <<text("enr", <<>>, "r4", "n4")>>,
   n5  |-> <<text("enr", <<>>, "r5", "n5")>>,
   x1  |-> <<text("enr", <<>>, "bad", "x1")>>,
   x2  |-> <<text("enr", <<>>, "r6", "n1")>>]

CONSTANTS me, p1, p2, p3

MCKeys == {me, p1, p2, p3}

\* p2 and p3 share one bit with the local hash: a bucket they fill is unfolded twice.
MCHash == me :> <<0, 0, 0>> @@ p1 :> <<1, 0, 1>> @@ p2 :> <<0, 1, 0>> @@ p3 :> <<0, 1, 1>>

MCInit ==
  /\ subject \in {"heap", "forks", "dns", "table"}
  /\ HeapInit
  /\ IF subject = "forks" THEN ForkInit
     ELSE /\ forks = [e \in Endpoints |-> <<0>>]
          /\ head = [e \in Endpoints |-> 0]
  /\ DnsInit
  /\ Init

MCNext ==
  \/ subject = "heap" /\ HeapNext /\ UNCHANGED <<subject, forkVars, dns, vars>>
  \/ subject = "forks" /\ ForkNext /\ UNCHANGED <<subject, heapVars, dns, vars>>
  \/ subject = "dns" /\ DnsNext /\ UNCHANGED <<subject, heapVars, forkVars, vars>>
  \/ subject = "table" /\ Next /\ UNCHANGED <<subject, heapVars, forkVars, dns>>

MCSpec == MCInit /\ [][MCNext]_<<subject, heapVars, forkVars, dns, vars>>
=============================================================================
