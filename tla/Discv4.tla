------------------------------- MODULE Discv4 -------------------------------
(***************************************************************************)
(* The discovery backend of discovery/discv4.go: probes and findNodes wait *)
(* for packets through handlers that are registered by peer and packet     *)
(* code; every incoming packet is handled by a goroutine of its own; a     *)
(* timer per registration removes the handler and tells the waiting call.  *)
(*                                                                         *)
(* The network is UDP: any packet may come at any time, any number of      *)
(* times, or never (no answer is matched with what it answers but by the   *)
(* handlers).  A packet is its sender and its code.  The routing table is  *)
(* the set of peers it lists, of which it may refuse new ones but never    *)
(* drops any (RoutingTable).  Packets and tasks are not assumed to be      *)
(* taken, which covers Close; the send to eventCh never waits and nothing  *)
(* here reads it.                                                          *)
(***************************************************************************)
EXTENDS Integers, Sequences, FiniteSets

CONSTANTS Peers,       \* the other nodes
          Probers,     \* the probe tasks
          Callers,     \* goroutines of AddNode, revalidatePeer and findNodes
          Goroutines,  \* goroutines of listen that handle one packet each
          TaskCap,     \* capacity of tasks (100)
          MaxCalls,    \* bound on the calls of setHandler
          None

Procs == Probers \cup Callers
Codes == {"ping", "pong", "findnode", "neighbors"}
Calls == 1..MaxCalls
Keys  == Peers \X Codes

ASSUME ProcsAssumption == /\ Probers \cap Callers = {}
                          /\ (Probers \cup Callers) \cap Goroutines = {}
                          /\ None \notin Peers \cup Probers \cup Callers \cup Goroutines
                          /\ None \notin Peers \X {"ping", "pong", "findnode", "neighbors"}
ASSUME CapsAssumption == TaskCap \in Nat /\ MaxCalls \in Nat

VARIABLES
  pc, on, call,   \* each process: where it is, its peer, the call whose ack it waits for
  gpc, gpkt, gcb, gseen,  \* each goroutine: its packet, the callback it found, the peers it read
  handlers,       \* for each peer and code: the call that registered last, or 0
  owner, key, timer, made,   \* the calls of setHandler
  table, nodes, validLock,   \* listed peers; bonds none, fresh or stale; the holder
  tasks,          \* the queue of the probe tasks
  ponged,         \* history: peers whose pong has reached a probe
  notFound        \* history: NearestPeersFromTarget failed

procs == <<pc, on, call>>
gors  == <<gpc, gpkt, gcb, gseen>>
calls == <<handlers, owner, key, timer, made>>
bonds == <<table, nodes, validLock>>
hist  == <<ponged, notFound>>
vars  == <<procs, gors, calls, bonds, tasks, hist>>

Init ==
  /\ pc = [p \in Procs |-> "idle"] /\ on = [p \in Procs |-> None] /\ call = [p \in Procs |-> 0]
  /\ gpc = [g \in Goroutines |-> "idle"] /\ gpkt = [g \in Goroutines |-> None]
  /\ gcb = [g \in Goroutines |-> 0] /\ gseen = [g \in Goroutines |-> {}]
  /\ handlers = [k \in Keys |-> 0]
  /\ owner = [c \in Calls |-> None] /\ key = [c \in Calls |-> None]
  /\ timer = [c \in Calls |-> "none"] /\ made = 0
  /\ table = {} /\ nodes = [x \in Peers |-> "none"] /\ validLock = None
  /\ tasks = <<>> /\ ponged = {} /\ notFound = FALSE

\* p goes on with its call, or is done with it.
Goto(p, label) == pc' = [pc EXCEPT ![p] = label] /\ UNCHANGED <<on, call>>

Return(p) ==
  /\ pc' = [pc EXCEPT ![p] = "idle"]
  /\ on' = [on EXCEPT ![p] = None]
  /\ call' = [call EXCEPT ![p] = 0]

-----------------------------------------------------------------------------
(* setHandler and its timer.                                               *)

\* Mutant: one handler per peer.
setHandlerByPeer(p, x, code) ==
  /\ made < MaxCalls
  /\ made' = made + 1
  /\ owner' = [owner EXCEPT ![made + 1] = p]
  /\ key' = [key EXCEPT ![made + 1] = <<x, code>>]
  /\ timer' = [timer EXCEPT ![made + 1] = "set"]
  /\ handlers' = [k \in Keys |-> IF k = <<x, code>> THEN made + 1
                                 ELSE IF k[1] = x THEN 0 ELSE handlers[k]]
  /\ call' = [call EXCEPT ![p] = made + 1]

\* The handler replaces the one of an earlier call with the same key.  The caller then sends
\* at most one datagram and is at its receive: its callers below take all of that as one step,
\* since the timer runs for 10 s (respTimeout).  Were a goroutine held up for that long, its
\* timer would find nobody to tell and the call would wait for ever.
setHandler(p, x, code) ==
  /\ made < MaxCalls
  /\ made' = made + 1
  /\ owner' = [owner EXCEPT ![made + 1] = p]
  /\ key' = [key EXCEPT ![made + 1] = <<x, code>>]
  /\ timer' = [timer EXCEPT ![made + 1] = "set"]
  /\ handlers' = [handlers EXCEPT ![<<x, code>>] = made + 1]
  /\ call' = [call EXCEPT ![p] = made + 1]

Waiting(p) == pc[p] \in {"waitPong", "waitPing", "waitNeighbors"}

\* What p does with the message it receives: complete is FALSE for a timeout.
Receive(p, complete) ==
  \/ ~complete /\ pc[p] \in {"waitPong", "waitPing"} /\ Return(p)
  \/ ~complete /\ pc[p] = "waitNeighbors" /\ Goto(p, "finish")
  \/ complete /\ pc[p] = "waitPong" /\ Goto(p, "bond")
  \/ complete /\ pc[p] = "waitPing" /\ Goto(p, "sleep")
  \/ complete /\ pc[p] = "waitNeighbors" /\ Goto(p, "process")

\* The non-blocking send on the channel of call c.
Send(c, complete) ==
  IF Waiting(owner[c]) /\ call[owner[c]] = c
    THEN Receive(owner[c], complete) ELSE UNCHANGED procs

\* The timer's function: it removes whatever handler has its key ...
TimerDeletes(c) ==
  /\ timer[c] = "set"
  /\ timer' = [timer EXCEPT ![c] = "deleted"]
  /\ handlers' = [handlers EXCEPT ![key[c]] = 0]
  /\ UNCHANGED <<procs, gors, owner, key, made, bonds, tasks, hist>>

\* Mutant: the timer only removes the handler.
TimerSilent(c) ==
  /\ timer[c] = "deleted"
  /\ timer' = [timer EXCEPT ![c] = "fired"]
  /\ UNCHANGED <<procs, gors, handlers, owner, key, made, bonds, tasks, hist>>

\* ... and tells its own call, if that is at its receive.
TimerSends(c) ==
  /\ timer[c] = "deleted"
  /\ timer' = [timer EXCEPT ![c] = "fired"]
  /\ Send(c, FALSE)
  /\ UNCHANGED <<gors, handlers, owner, key, made, bonds, tasks, hist>>

-----------------------------------------------------------------------------
(* probeNode and its callers.                                              *)

\* probeNode up to its receive: the handler is registered, the ping sent.  (A packet that
\* comes before the receive is dropped by the callback: as if it had been lost.)
probeNode(p, x) ==
  /\ setHandler(p, x, "pong")
  /\ pc' = [pc EXCEPT ![p] = "waitPong"]
  /\ on' = [on EXCEPT ![p] = x]

\* probeTask takes a task.
TakeTask(p) ==
  /\ p \in Probers /\ pc[p] = "idle"
  /\ tasks # <<>>
  /\ tasks' = Tail(tasks)
  /\ probeNode(p, Head(tasks))
  /\ UNCHANGED <<gors, bonds, hist>>

\* revalidatePeer of a listed peer that getPeer finds.
revalidatePeer(p, x) ==
  /\ p \in Callers /\ pc[p] = "idle"
  /\ validLock = None
  /\ x \in table /\ nodes[x] # "none"
  /\ probeNode(p, x)
  /\ UNCHANGED <<gors, bonds, tasks, hist>>

\* AddNode, or findNodes of a peer it was told about.
Probe(p, x) ==
  /\ p \in Callers /\ pc[p] = "idle"
  /\ probeNode(p, x)
  /\ UNCHANGED <<gors, bonds, tasks, hist>>

\* What does not fit is dropped.
sendTask(xs) ==
  tasks' = tasks \o SubSeq(xs, 1, IF Len(xs) <= TaskCap - Len(tasks) THEN Len(xs)
                                  ELSE TaskCap - Len(tasks))

\* updatePeer, under validLock: first the table, which may refuse ...
UpdateTable(a, x) ==
  /\ validLock = None
  /\ validLock' = a
  /\ table' \in {table, table \cup {x}}
  /\ UNCHANGED nodes

\* ... then nodes.
UpdateNodes(a, x) ==
  /\ validLock = a
  /\ validLock' = None
  /\ nodes' = [nodes EXCEPT ![x] = "fresh"]
  /\ UNCHANGED table

Bond(p) ==
  /\ pc[p] = "bond"
  /\ UpdateTable(p, on[p])
  /\ ponged' = ponged \cup {on[p]}
  /\ Goto(p, "bonding")
  /\ UNCHANGED <<gors, calls, tasks, notFound>>

\* Back to the caller: a findNodes goes on.
Bonded(p, more) ==
  /\ pc[p] = "bonding"
  /\ UpdateNodes(p, on[p])
  /\ \/ ~more /\ Return(p)
     \/ more /\ p \in Callers /\ Goto(p, "register")
  /\ UNCHANGED <<gors, calls, tasks, hist>>

-----------------------------------------------------------------------------
(* findNodes.                                                              *)

\* After its probe it waits for a ping of the peer, from now on.
RegisterPing(p) ==
  /\ pc[p] = "register"
  /\ setHandler(p, on[p], "ping")
  /\ pc' = [pc EXCEPT ![p] = "waitPing"]
  /\ UNCHANGED <<on, gors, bonds, tasks, hist>>

\* findNodes up to its receive, like probeNode.
AskNeighbors(p, x) ==
  /\ setHandler(p, x, "neighbors")
  /\ pc' = [pc EXCEPT ![p] = "waitNeighbors"]
  /\ on' = [on EXCEPT ![p] = x]

\* A peer of nodes carries its own Last, so that hasExpired compares it with itself and
\* never holds: findNodes asks at once, whatever the age of the bond.
FindNodesKnown(p, x) ==
  /\ p \in Callers /\ pc[p] = "idle"
  /\ validLock = None
  /\ nodes[x] # "none"
  /\ AskNeighbors(p, x)
  /\ UNCHANGED <<gors, bonds, tasks, hist>>

FindNodesAfterPing(p) ==
  /\ pc[p] = "sleep"
  /\ AskNeighbors(p, on[p])
  /\ UNCHANGED <<gors, bonds, tasks, hist>>

\* A response was decoded: back to the receive, enough peers, or a bad one among them.
Process(p) ==
  /\ pc[p] = "process"
  /\ Goto(p, "waitNeighbors") \/ Goto(p, "finish") \/ Return(p)
  /\ UNCHANGED <<gors, calls, bonds, tasks, hist>>

\* The peers that were returned are queued for a probe; none if nobody answered.
Finish(p) ==
  /\ pc[p] = "finish"
  /\ \E xs \in {<<>>} \cup {<<x>> : x \in Peers} : sendTask(xs)
  /\ Return(p)
  /\ UNCHANGED <<gors, calls, bonds, hist>>

-----------------------------------------------------------------------------
(* HandlePacket.                                                           *)

Gone(g) ==
  /\ gpc' = [gpc EXCEPT ![g] = "idle"]
  /\ gpkt' = [gpkt EXCEPT ![g] = None]
  /\ gseen' = [gseen EXCEPT ![g] = {}]

Ggoto(g, label) == gpc' = [gpc EXCEPT ![g] = label] /\ UNCHANGED <<gpkt, gseen>>

\* A packet that nothing waits for: pings and queries are handled, answers ignored.
Dispatch(g, x, code) ==
  /\ code \in {"ping", "findnode"}
  /\ gpkt' = [gpkt EXCEPT ![g] = <<x, code>>]
  /\ gpc' = [gpc EXCEPT ![g] = code]
  /\ UNCHANGED gcb

\* getCallback, under respLock.
GetCallback(g, x, code) ==
  /\ gpc[g] = "idle"
  /\ IF handlers[<<x, code>>] = 0
       THEN Dispatch(g, x, code)
       ELSE /\ gpkt' = [gpkt EXCEPT ![g] = <<x, code>>]
            /\ gcb' = [gcb EXCEPT ![g] = handlers[<<x, code>>]]
            /\ gpc' = [gpc EXCEPT ![g] = "callback"]
  /\ UNCHANGED <<procs, gseen, calls, bonds, tasks, hist>>

\* The callback, which may belong to a call that is over; only a ping is handled besides.
Callback(g) ==
  /\ gpc[g] = "callback"
  /\ Send(gcb[g], TRUE)
  /\ gcb' = [gcb EXCEPT ![g] = 0]
  /\ IF gpkt[g][2] = "ping" THEN Ggoto(g, "ping") ELSE Gone(g)
  /\ UNCHANGED <<calls, bonds, tasks, hist>>

\* Mutant: every peer that pings is entered in the table.
HandlePingUnproved(g) ==
  /\ gpc[g] = "ping"
  /\ validLock = None
  /\ Ggoto(g, "update")
  /\ UNCHANGED <<procs, gcb, calls, bonds, tasks, hist>>

\* handlePingPacket: the ping is out of date, or the pong is sent and the bond decides
\* between a probe and a new timestamp.
HandlePing(g) ==
  /\ gpc[g] = "ping"
  /\ validLock = None
  /\ LET x == gpkt[g][1]
     IN  \/ Gone(g) /\ UNCHANGED tasks
         \/ nodes[x] # "fresh" /\ sendTask(<<x>>) /\ Gone(g)
         \/ nodes[x] = "fresh" /\ Ggoto(g, "update") /\ UNCHANGED tasks
  /\ UNCHANGED <<procs, gcb, calls, bonds, hist>>

UpdatePinger(g) ==
  /\ \/ gpc[g] = "update" /\ UpdateTable(g, gpkt[g][1]) /\ Ggoto(g, "updating")
     \/ gpc[g] = "updating" /\ UpdateNodes(g, gpkt[g][1]) /\ Gone(g)
  /\ UNCHANGED <<procs, gcb, calls, tasks, hist>>

\* handleFindNodePacket: nothing for a peer without a fresh bond; the nearest peers are
\* read from the table without validLock ...
HandleFindNode(g) ==
  /\ gpc[g] = "findnode"
  /\ validLock = None
  /\ IF nodes[gpkt[g][1]] = "fresh" THEN Ggoto(g, "nearest") ELSE Gone(g)
  /\ UNCHANGED <<procs, gcb, calls, bonds, tasks, hist>>

\* LookupTarget starts with the nearest peers as well.
StartLookup(g) ==
  /\ gpc[g] = "idle"
  /\ Ggoto(g, "nearest")
  /\ UNCHANGED <<procs, gcb, calls, bonds, tasks, hist>>

NearestPeers(g) ==
  /\ gpc[g] = "nearest"
  /\ gseen' = [gseen EXCEPT ![g] = table]
  /\ gpc' = [gpc EXCEPT ![g] = "getPeer"]
  /\ UNCHANGED <<procs, gpkt, gcb, calls, bonds, tasks, hist>>

\* ... and looked up in nodes, under validLock, before they are sent.
GetPeers(g) ==
  /\ gpc[g] = "getPeer"
  /\ validLock = None
  /\ Gone(g)
  /\ notFound' = (notFound \/ \E x \in gseen[g] : nodes[x] = "none")
  /\ UNCHANGED <<procs, gcb, calls, bonds, tasks, ponged>>

-----------------------------------------------------------------------------
\* Peer.hasExpired: bondExpiration without a ping or pong of x.
Expire(x) ==
  /\ nodes[x] = "fresh" /\ validLock = None
  /\ nodes' = [nodes EXCEPT ![x] = "stale"]
  /\ UNCHANGED <<procs, gors, calls, table, validLock, tasks, hist>>

Step(p) == \/ Bond(p) \/ (\E more \in BOOLEAN : Bonded(p, more))
           \/ RegisterPing(p) \/ FindNodesAfterPing(p) \/ Process(p) \/ Finish(p)

Timer(c) == TimerDeletes(c) \/ TimerSends(c)

Handle(g) == \/ Callback(g) \/ HandlePing(g) \/ UpdatePinger(g)
             \/ HandleFindNode(g) \/ NearestPeers(g) \/ GetPeers(g)

Next ==
  \/ \E p \in Procs : Step(p) \/ TakeTask(p)
  \/ \E p \in Callers, x \in Peers : Probe(p, x) \/ revalidatePeer(p, x) \/ FindNodesKnown(p, x)
  \/ \E c \in Calls : Timer(c)
  \/ \E g \in Goroutines : \/ Handle(g) \/ StartLookup(g)
                          \/ \E x \in Peers, code \in Codes : GetCallback(g, x, code)
  \/ \E x \in Peers : Expire(x)

Spec == Init /\ [][Next]_vars

-----------------------------------------------------------------------------
(* Properties.                                                             *)

\* The types; the queue of the probe tasks keeps to its capacity.
TypeOK ==
  /\ pc \in [Procs -> {"idle", "waitPong", "bond", "bonding", "register", "waitPing", "sleep",
                       "waitNeighbors", "process", "finish"}]
  /\ on \in [Procs -> Peers \cup {None}] /\ call \in [Procs -> 0..MaxCalls]
  /\ gpc \in [Goroutines -> {"idle", "callback", "ping", "update", "updating", "findnode",
                             "nearest", "getPeer"}]
  /\ gpkt \in [Goroutines -> Keys \cup {None}]
  /\ gcb \in [Goroutines -> 0..MaxCalls] /\ gseen \in [Goroutines -> SUBSET Peers]
  /\ handlers \in [Keys -> 0..MaxCalls]
  /\ owner \in [Calls -> Procs \cup {None}] /\ key \in [Calls -> Keys \cup {None}]
  /\ timer \in [Calls -> {"none", "set", "deleted", "fired"}] /\ made \in 0..MaxCalls
  /\ table \subseteq Peers /\ nodes \in [Peers -> {"none", "fresh", "stale"}]
  /\ validLock \in Procs \cup Goroutines \cup {None}
  /\ tasks \in Seq(Peers) /\ Len(tasks) <= TaskCap
  /\ ponged \subseteq Peers /\ notFound \in BOOLEAN

\* Endpoint proof: our neighbours go only to peers that have answered a ping of ours, and
\* so have all we tell about: whoever is in nodes or in the table has answered.  And no
\* query fails on a peer that is listed but not in nodes yet.
OnlyProvenPeers ==
  /\ \A g \in Goroutines : gpc[g] \in {"nearest", "getPeer"} /\ gpkt[g] # None =>
                            gpkt[g][1] \in ponged
  /\ \A x \in Peers : nodes[x] # "none" \/ x \in table => x \in ponged
  /\ ~notFound

\* A call that waits for its packet is the one that gets it, unless another call was made
\* for the same peer and code: that one replaces the handler, or its timer removes it.
HandlerKept ==
  \A c \in Calls :
    (timer[c] = "set" /\ handlers[key[c]] # c) =>
      \E d \in Calls \ {c} : timer[d] # "none" /\ key[d] = key[c]

\* No call waits for ever: whoever is at a receive (a probe, findNodes for a ping or for
\* neighbours) has a timer that will still tell it, but for a findNodes that came back to
\* its receive after its timer had fired.
SomeoneWillTell ==
  \A p \in Procs : Waiting(p) =>
    \/ owner[call[p]] = p /\ timer[call[p]] \in {"set", "deleted"}
    \/ pc[p] = "waitNeighbors" /\ timer[call[p]] = "fired"
=============================================================================
