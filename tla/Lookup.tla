------------------------------- MODULE Lookup -------------------------------
(***************************************************************************)
(* LookupTarget of discovery/discv4.go, its callers and the goroutines     *)
(* that run findNodes for it.  findNodes is what Discv4 models; here it    *)
(* returns any peers, or none, at some time.                               *)
(***************************************************************************)
EXTENDS Integers, Sequences, FiniteSets, Functions, Subsequences

CONSTANTS Peers,    \* the nodes a lookup can hear of
          Lookups,  \* goroutines that call LookupTarget
          Alpha,    \* findNodes calls in flight (alpha, 3)
          MaxFound  \* bound on the peers of a reply

ASSUME PeersAssumption == IsFiniteSet(Peers)
ASSUME AlphaAssumption == Alpha \in Nat \ {0} /\ MaxFound \in Nat

VARIABLES
  pc,        \* each lookup: idle, seed, loop, found, error or done
  queue, visited, pending,      \* its locals
  seeded,    \* i of the seeding loop
  asking,    \* for each lookup and peer: its goroutines inside findNodes ...
  replying,  \* ... and those that want to send on reply
  first,     \* history: the queue a lookup started with
  asks,      \* history: for each peer, how often it was asked
  nodes,     \* b.nodes
  active, shutdown

locals == <<pc, queue, visited, pending, seeded, first, asks>>
lookupVars == <<locals, asking, replying, nodes, active, shutdown>>

NoPeers == [x \in Peers |-> 0]

LookupInit ==
  /\ pc = [l \in Lookups |-> "idle"] /\ queue = [l \in Lookups |-> <<>>]
  /\ visited = [l \in Lookups |-> {}] /\ pending = [l \in Lookups |-> 0]
  /\ seeded = [l \in Lookups |-> 0] /\ first = [l \in Lookups |-> {}]
  /\ asks = [l \in Lookups |-> NoPeers]
  /\ asking = [l \in Lookups |-> NoPeers] /\ replying = [l \in Lookups |-> NoPeers]
  /\ nodes \in SUBSET Peers
  /\ active = FALSE /\ shutdown = FALSE

\* loadBootnodes is done: Lookup is allowed.
Activate ==
  /\ ~active
  /\ active' = TRUE
  /\ UNCHANGED <<locals, asking, replying, nodes, shutdown>>

\* LookupRandom by the schedule, or Lookup; inlookup is 0 and stays so.  The nearest peers
\* are some of nodes, in some order.
Start(l) ==
  /\ pc[l] = "idle"
  /\ IF active
       THEN /\ \E n \in 0..Cardinality(nodes) : \E q \in [1..n -> nodes] :
                 /\ IsInjective(q)
                 /\ queue' = [queue EXCEPT ![l] = q]
                 /\ first' = [first EXCEPT ![l] = Range(q)]
            /\ pc' = [pc EXCEPT ![l] = "seed"]
       ELSE /\ pc' = [pc EXCEPT ![l] = "done"]
            /\ UNCHANGED <<queue, first>>
  /\ UNCHANGED <<visited, pending, seeded, asks, asking, replying, nodes, active, shutdown>>

\* How often x is among the first n peers of q.
times(q, n, x) == Cardinality({i \in 1..n : q[i] = x})

\* The closure findNodes for the first n peers of q, when others are in flight.
findNodes(l, q, n, others) ==
  /\ pending' = [pending EXCEPT ![l] = others + n]
  /\ asking' = [asking EXCEPT ![l] = [x \in Peers |-> @[x] + times(q, n, x)]]
  /\ asks' = [asks EXCEPT ![l] = [x \in Peers |-> @[x] + times(q, n, x)]]
  /\ queue' = [queue EXCEPT ![l] = SubSeq(q, n + 1, Len(q))]

Least(i, j) == IF i < j THEN i ELSE j

\* One round of the seeding loop.  Its bound is of the queue that is left, so that it
\* starts fewer than alpha goroutines of a short queue; the main loop starts the others.
Seed(l) ==
  /\ pc[l] = "seed"
  /\ IF seeded[l] < Least(Len(queue[l]), Alpha)
       THEN /\ findNodes(l, queue[l], 1, pending[l])
            /\ seeded' = [seeded EXCEPT ![l] = @ + 1]
            /\ UNCHANGED pc
       ELSE /\ pc' = [pc EXCEPT ![l] = "loop"]
            /\ UNCHANGED <<queue, pending, asks, seeded, asking>>
  /\ UNCHANGED <<visited, first, replying, nodes, active, shutdown>>

\* Mutant: a goroutine whose findNodes failed returns without a reply.
AnswerOrQuit(l, x) ==
  /\ asking[l][x] > 0
  /\ asking' = [asking EXCEPT ![l][x] = @ - 1]
  /\ replying' \in {replying, [replying EXCEPT ![l][x] = @ + 1]}
  /\ UNCHANGED <<locals, nodes, active, shutdown>>

\* findNodes returns in a goroutine; after an error there is a reply, too: of no peers.
Answer(l, x) ==
  /\ asking[l][x] > 0
  /\ asking' = [asking EXCEPT ![l][x] = @ - 1]
  /\ replying' = [replying EXCEPT ![l][x] = @ + 1]
  /\ UNCHANGED <<locals, nodes, active, shutdown>>

\* Mutant: every peer of the reply is queued, visited or not.
everyone(l, found) == found

\* The peers of a reply that the lookup has not heard of, each once; those it started with
\* count as unheard of.
fresh(l, found) ==
  ElementsAt(found, {i \in DOMAIN found : /\ found[i] \notin visited[l]
                                          /\ \A j \in 1..(i - 1) : found[j] # found[i]})

\* How many goroutines are started besides n others.
room(n, q) == Least(Alpha - n, Len(q))

\* A reply: new peers are visited and queued, and goroutines started up to alpha.
Reply(l, x, found) ==
  LET q == queue[l] \o fresh(l, found)
  IN  /\ pc[l] = "loop" /\ pending[l] > 0
      /\ replying[l][x] > 0
      /\ replying' = [replying EXCEPT ![l][x] = @ - 1]
      /\ visited' = [visited EXCEPT ![l] = @ \cup Range(found)]
      /\ findNodes(l, q, room(pending[l] - 1, q), pending[l] - 1)
      /\ UNCHANGED <<pc, seeded, first, nodes, active, shutdown>>

\* Nobody is asked any more: the peers visited are looked up in nodes; one that has not
\* been probed with success makes the result an error.
Result(l) ==
  /\ pc[l] = "loop" /\ pending[l] = 0
  /\ pc' = [pc EXCEPT ![l] = IF visited[l] \subseteq nodes THEN "found" ELSE "error"]
  /\ UNCHANGED <<queue, visited, pending, seeded, first, asks, asking, replying, nodes, active,
                 shutdown>>

\* The lookup gives up; its goroutines stay with nobody to reply to.
Abandon(l) ==
  /\ pc[l] = "loop" /\ pending[l] > 0 /\ shutdown
  /\ pc' = [pc EXCEPT ![l] = "done"]
  /\ UNCHANGED <<queue, visited, pending, seeded, first, asks, asking, replying, nodes, active,
                 shutdown>>

\* A probe ends with a pong.
Bond(x) ==
  /\ x \notin nodes
  /\ nodes' = nodes \cup {x}
  /\ UNCHANGED <<locals, asking, replying, active, shutdown>>

Close ==
  /\ ~shutdown
  /\ shutdown' = TRUE
  /\ UNCHANGED <<locals, asking, replying, nodes, active>>

Hear(l) == \E x \in Peers, n \in 0..MaxFound : \E found \in [1..n -> Peers] : Reply(l, x, found)

LookupNext ==
  \/ Activate \/ Close
  \/ \E l \in Lookups : Start(l) \/ Seed(l) \/ Hear(l) \/ Result(l) \/ Abandon(l)
  \/ \E l \in Lookups, x \in Peers : Answer(l, x)
  \/ \E x \in Peers : Bond(x)

LookupSpec == LookupInit /\ [][LookupNext]_lookupVars

\* The lookup goes on when it can.  Nothing is assumed of findNodes, which may wait for ever
\* (Discv4, SomeoneWillTell).
FairSpec ==
  /\ LookupSpec
  /\ \A l \in Lookups : WF_lookupVars(Seed(l) \/ Hear(l) \/ Result(l) \/ Abandon(l))

-----------------------------------------------------------------------------
(* Properties.                                                             *)

\* The goroutines of a lookup, numbered for each peer.
Goroutines(l) == UNION {{x} \X (1..(asking[l][x] + replying[l][x])) : x \in Peers}

\* A lookup asks everybody it hears of, each peer once (one it started with at most twice),
\* with at most alpha goroutines at a time.
AsksEverybody ==
  \A l \in Lookups :
    /\ Cardinality(Goroutines(l)) <= Alpha
    /\ \A x \in Peers :
         asks[l][x] + times(queue[l], Len(queue[l]), x) =
           (IF x \in visited[l] THEN 1 ELSE 0) + (IF x \in first[l] THEN 1 ELSE 0)
    /\ pc[l] \in {"found", "error"} => queue[l] = <<>>

Ended(l) == pc[l] \in {"found", "error", "done"}

\* A lookup that has started ends, and without a shutdown all its goroutines do, unless one of
\* the peers it asks keeps its findNodes for ever.  After a shutdown it ends even then.
LookupEnds ==
  \A l \in Lookups :
    /\ (\A x \in Peers : []<>(asking[l][x] = 0)) =>
         /\ pc[l] = "seed" ~> Ended(l)
         /\ pc[l] = "seed" ~> (shutdown \/ Goroutines(l) = {})
    /\ (shutdown /\ pc[l] \in {"seed", "loop"}) ~> Ended(l)

\* "Only allow one lookup at a time."
OneLookup ==
  \A l, k \in Lookups : pc[l] \in {"seed", "loop"} /\ pc[k] \in {"seed", "loop"} => l = k
=============================================================================
