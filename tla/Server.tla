------------------------------- MODULE Server -------------------------------
(***************************************************************************)
(* The peer table and the dialling of server.go: Dial and discovery feed   *)
(* dialRunner, dialRunner feeds the dial tasks, a dial task connects,      *)
(* runs the protocol handlers of the new session (addSession), enters the  *)
(* peer in s.peers and keeps the dispatcher's list of busy nodes.  Inbound *)
(* sessions go through addSession as well; Start accepts one.              *)
(*                                                                         *)
(* The session is seen through its CloseChan (RlpxSession).  The           *)
(* dispatcher is a BusyList: its steps here are those of that module,      *)
(* which has everything a Dispatcher may do (Dispatcher!IsBusyList).       *)
(* Everything between two acquisitions of a lock or two channel operations *)
(* is one step.                                                            *)
(***************************************************************************)
EXTENDS Integers, Sequences, FiniteSets

CONSTANTS Nodes,        \* the nodes of the network
          Workers,      \* the dial tasks
          Acceptor,     \* the goroutine of Start that accepts an inbound session
          MaxSessions,  \* bound on the sessions ever established
          AddCap,       \* capacity of addPeer (20 in NewServer)
          EventCap,     \* capacity of EventCh (20 in NewServer)
          JobCap,       \* capacity of the dispatcher's Events() (10 in NewDispatcher)
          None

Procs == Workers \cup {Acceptor}
Sessions == 1..MaxSessions

ASSUME ProcsAssumption == IsFiniteSet(Workers) /\ Acceptor \notin Workers
ASSUME BoundsAssumption == /\ MaxSessions \in Nat /\ AddCap \in Nat
                           /\ EventCap \in Nat /\ JobCap \in Nat
ASSUME NoneAssumption == None \notin Nodes

VARIABLES
  addPeer,    \* the queue Dial fills
  sending,    \* the enode dialRunner is handing to the tasks, or None
  tasks,      \* the channel the dial tasks read
  tracked,    \* the nodes the dispatcher tracks
  due,        \* the nodes the dispatcher may launch next
  events,     \* the nodes in the dispatcher's Events() channel
  pc, node, session, outcome, contains,   \* locals of each process
  sess,       \* sessions: [node, open, watcher]
  made,       \* sessions established so far
  peers,      \* s.peers by node ID: the session of the entry, or 0
  joined,     \* NodeJoin events waiting in EventCh
  running,    \* Close has not closed the transport
  walk,       \* who walks over s.peers: Disconnect, Close or none
  visit,      \* for each node, whether the walk has still to visit its entry
  opposed     \* history: for each dial task, whether the opposite of what it is about to
              \* tell the dispatcher of its node was told since it asked Contains

dialling == <<addPeer, sending, tasks>>
busy     == <<tracked, due, events>>
locals   == <<pc, node, session, outcome, contains>>
walking  == <<walk, visit>>
table    == <<peers, joined, running, walking>>
vars     == <<dialling, busy, locals, sess, made, table, opposed>>

BL == INSTANCE BusyList WITH Jobs <- Nodes

Init ==
  /\ addPeer = <<>>
  /\ sending = None
  /\ tasks = <<>>
  /\ BL!Init
  /\ pc = [p \in Procs |-> "idle"]
  /\ node = [p \in Procs |-> None]
  /\ session = [p \in Procs |-> 0]
  /\ outcome = [p \in Procs |-> "none"]
  /\ contains = [p \in Procs |-> FALSE]
  /\ sess = [i \in Sessions |-> [node |-> None, open |-> FALSE, watcher |-> "none"]]
  /\ made = 0
  /\ peers = [n \in Nodes |-> 0]
  /\ joined = 0
  /\ running = TRUE
  /\ walk = "none"
  /\ visit = [n \in Nodes |-> "done"]
  /\ opposed = [w \in Workers |-> FALSE]

-----------------------------------------------------------------------------
(* dialRunner and its three sources.                                       *)

\* Mutant: Dial queues without looking at the capacity.
DialUnbounded(n) ==
  /\ Len(addPeer) <= AddCap
  /\ addPeer' = Append(addPeer, n)
  /\ UNCHANGED <<sending, tasks, busy, locals, sess, made, table, opposed>>

\* Dial drops the enode when addPeer is full.
Dial(n) ==
  /\ Len(addPeer) < AddCap
  /\ addPeer' = Append(addPeer, n)
  /\ UNCHANGED <<sending, tasks, busy, locals, sess, made, table, opposed>>

TakeAddPeer ==
  /\ sending = None
  /\ addPeer # <<>>
  /\ sending' = Head(addPeer)
  /\ addPeer' = Tail(addPeer)
  /\ UNCHANGED <<tasks, busy, locals, sess, made, table, opposed>>

\* The dispatcher looks up its next launches, at first and after an update or a launch ...
NextLaunch ==
  /\ BL!Schedule
  /\ UNCHANGED <<dialling, locals, sess, made, table, opposed>>

\* ... and launches one of those nodes, busy or not by now.
Launch(n) ==
  /\ BL!Launch(n)
  /\ UNCHANGED <<dialling, locals, sess, made, table, opposed>>

TakeEvent ==
  /\ sending = None
  /\ BL!Receive
  /\ sending' = Head(events)
  /\ UNCHANGED <<addPeer, tasks, locals, sess, made, table, opposed>>

\* Discovery delivers a node it has found.
TakeDiscovered(n) ==
  /\ sending = None
  /\ sending' = n
  /\ UNCHANGED <<addPeer, tasks, busy, locals, sess, made, table, opposed>>

\* Mutant: a non-blocking send, like the others.
SendToTaskDrops ==
  /\ sending # None
  /\ tasks' = IF Len(tasks) < Cardinality(Workers) THEN Append(tasks, sending) ELSE tasks
  /\ sending' = None
  /\ UNCHANGED <<addPeer, busy, locals, sess, made, table, opposed>>

\* sendToTask blocks until the tasks channel has room.
SendToTask ==
  /\ sending # None
  /\ Len(tasks) < Cardinality(Workers)
  /\ tasks' = Append(tasks, sending)
  /\ sending' = None
  /\ UNCHANGED <<addPeer, busy, locals, sess, made, table, opposed>>

-----------------------------------------------------------------------------
(* connectWithEnode.                                                       *)

\* A peer is listed under its ID and looked up by the URL it is dialled with.
ID(n)  == <<"id", n>>
URL(n) == <<"enode", n>>
Listed == {ID(n) : n \in {m \in Nodes : peers[m] # 0}}

\* p returns from connectWithEnode or addSession.
Return(p, o) ==
  /\ pc' = [pc EXCEPT ![p] = IF p = Acceptor THEN "done" ELSE "after"]
  /\ outcome' = [outcome EXCEPT ![p] = IF p = Acceptor THEN "none" ELSE o]
  /\ session' = [session EXCEPT ![p] = 0]

\* A dial task takes an enode.
TakeTask(w) ==
  /\ pc[w] = "idle"
  /\ tasks # <<>>
  /\ node' = [node EXCEPT ![w] = Head(tasks)]
  /\ tasks' = Tail(tasks)
  /\ pc' = [pc EXCEPT ![w] = "connect"]
  /\ UNCHANGED <<addPeer, sending, busy, session, outcome, contains, sess, made, table, opposed>>

\* connectWithEnode ends without a session: the URL is found in s.peers, or
\* DialTimeout fails because the node does not answer or because its handshake answers
\* with a disconnect for too many peers, which reaches the caller as another text
\* ("disconnected: too many peers").
ConnectReturns(w) ==
  /\ pc[w] = "connect"
  /\ \E o \in IF URL(node[w]) \in Listed THEN {"ok"} ELSE {"failed", "refused"} :
       Return(w, o)
  /\ UNCHANGED <<dialling, busy, node, contains, sess, made, table, opposed>>

\* A session comes up; addSession starts the handlers of its streams.
NewSession(p, n) ==
  /\ made < MaxSessions
  /\ made' = made + 1
  /\ sess' = [sess EXCEPT ![made + 1] = [node |-> n, open |-> TRUE, watcher |-> "none"]]
  /\ session' = [session EXCEPT ![p] = made + 1]
  /\ pc' = [pc EXCEPT ![p] = "handlers"]

DialSucceeds(w) ==
  /\ pc[w] = "connect"
  /\ URL(node[w]) \notin Listed
  /\ NewSession(w, node[w])
  /\ UNCHANGED <<dialling, busy, node, outcome, contains, table, opposed>>

\* transport.Accept returns a session from a node that dialled us.
Accept(n) ==
  /\ running
  /\ pc[Acceptor] = "idle"
  /\ NewSession(Acceptor, n)
  /\ UNCHANGED <<dialling, busy, node, outcome, contains, table, opposed>>

-----------------------------------------------------------------------------
(* addSession.                                                             *)

\* A handler fails, with the remote's "too many peers" or otherwise: p.Close().
HandlersFail(p) ==
  /\ pc[p] = "handlers"
  /\ sess' = [sess EXCEPT ![session[p]].open = FALSE]
  /\ \E o \in {"failed", "tooManyPeers"} : Return(p, o)
  /\ UNCHANGED <<dialling, busy, node, contains, made, table, opposed>>

\* Mutant: nobody waits for CloseChan.
HandlersReturnUnwatched(p) ==
  /\ pc[p] = "handlers"
  /\ pc' = [pc EXCEPT ![p] = "insert"]
  /\ UNCHANGED <<dialling, busy, node, session, outcome, contains, sess, made, table, opposed>>

\* Every handler has returned nil, whether or not the session is still up; the
\* goroutine that waits for CloseChan is started before the peer is listed.
HandlersReturn(p) ==
  /\ pc[p] = "handlers"
  /\ sess' = [sess EXCEPT ![session[p]].watcher = "waiting"]
  /\ pc' = [pc EXCEPT ![p] = "insert"]
  /\ UNCHANGED <<dialling, busy, node, session, outcome, contains, made, table, opposed>>

\* s.peers[p.ID] = p, and the event that is dropped when EventCh is full.
Insert(p) ==
  /\ pc[p] = "insert"
  /\ peers' = [peers EXCEPT ![sess[session[p]].node] = session[p]]
  /\ joined' = IF joined < EventCap THEN joined + 1 ELSE joined
  /\ Return(p, "ok")
  /\ UNCHANGED <<dialling, busy, node, contains, sess, made, running, walking, opposed>>

\* The session's goroutine sees CloseChan closed and deletes the entry of the ID.
Unlist(i) ==
  /\ sess[i].watcher = "waiting"
  /\ ~sess[i].open
  /\ peers' = [peers EXCEPT ![sess[i].node] = 0]
  /\ sess' = [sess EXCEPT ![i].watcher = "done"]
  /\ visit' = [visit EXCEPT ![sess[i].node] = IF @ = "todo" THEN "new" ELSE @]
  /\ UNCHANGED <<dialling, busy, locals, made, joined, running, walk, opposed>>

-----------------------------------------------------------------------------
(* The rest of dialTask: the list of busy nodes.                           *)

\* dispatcher.Contains, one lock acquisition of the dispatcher ...
CheckBusy(w) ==
  /\ pc[w] = "after"
  /\ contains' = [contains EXCEPT ![w] = node[w] \in tracked]
  /\ pc' = [pc EXCEPT ![w] = "update"]
  /\ UNCHANGED <<dialling, busy, node, session, outcome, sess, made, table, opposed>>

\* The exact text "too many peers" was returned.
Busy(w) == outcome[w] = "tooManyPeers"

\* Mutant: a node that fails for another reason stays on the list.
TellDispatcherKeepsFailed(w) ==
  \/ Busy(w) /\ ~contains[w] /\ BL!Add(node[w])
  \/ outcome[w] = "ok" /\ contains[w] /\ BL!Remove(node[w])
  \/ (Busy(w) <=> contains[w]) /\ UNCHANGED busy
  \/ outcome[w] \in {"failed", "refused"} /\ UNCHANGED busy

\* Add, Remove or nothing, decided on what Contains said.
TellDispatcher(w) ==
  \/ Busy(w) /\ ~contains[w] /\ BL!Add(node[w])
  \/ ~Busy(w) /\ contains[w] /\ BL!Remove(node[w])
  \/ (Busy(w) <=> contains[w]) /\ UNCHANGED busy

\* Mutant of UpdateBusy: the task returns after one dial.
UpdateBusyReturns(w) ==
  /\ pc[w] = "update"
  /\ TellDispatcher(w)
  /\ pc' = [pc EXCEPT ![w] = "done"]
  /\ UNCHANGED <<node, outcome, contains, opposed, dialling, session, sess, made, table>>

\* ... and Add or Remove, another; the task is ready for the next enode.
UpdateBusy(w) ==
  /\ pc[w] = "update"
  /\ TellDispatcher(w)
  /\ pc' = [pc EXCEPT ![w] = "idle"]
  /\ node' = [node EXCEPT ![w] = None]
  /\ outcome' = [outcome EXCEPT ![w] = "none"]
  /\ contains' = [contains EXCEPT ![w] = FALSE]
  /\ opposed' = [v \in Workers |->
                   /\ v # w
                   /\ \/ opposed[v]
                      \/ pc[v] = "update" /\ node[v] = node[w] /\ Busy(v) # Busy(w)]
  /\ UNCHANGED <<dialling, session, sess, made, table>>

-----------------------------------------------------------------------------
(* The sessions' own ends, the owner, Disconnect and Close.                *)

\* The remote, the keepalive or the network ends a session.
SessionEnds(i) ==
  /\ sess[i].open
  /\ sess' = [sess EXCEPT ![i].open = FALSE]
  /\ UNCHANGED <<dialling, busy, locals, made, table, opposed>>

\* Disconnect and Close go through s.peers without peersLock, closing one session after the
\* other.  An entry that is deleted before its turn is not visited, one that is made
\* meanwhile may be or not.  (Go may find the map written during the walk and end the
\* program: no step follows.)
StartWalk(who) ==
  /\ walk = "none"
  /\ who = "close" => running
  /\ walk' = who
  /\ visit' = [n \in Nodes |-> IF peers[n] # 0 THEN "todo" ELSE "new"]
  /\ UNCHANGED <<dialling, busy, locals, sess, made, peers, joined, running, opposed>>

ClosePeer(n) ==
  /\ walk # "none"
  /\ visit[n] # "done" /\ peers[n] # 0
  /\ visit' = [visit EXCEPT ![n] = "done"]
  /\ sess' = [sess EXCEPT ![peers[n]].open = FALSE]
  /\ UNCHANGED <<dialling, busy, locals, made, peers, joined, running, walk, opposed>>

\* After its walk Close closes the transport; closeCh stays open, so the dial tasks go on.
EndWalk ==
  /\ walk # "none"
  /\ \A n \in Nodes : visit[n] # "todo"
  /\ walk' = "none"
  /\ visit' = [n \in Nodes |-> "done"]
  /\ running' = (running /\ walk # "close")
  /\ pc' = [pc EXCEPT ![Acceptor] = IF walk = "close" /\ @ = "idle" THEN "done" ELSE @]
  /\ UNCHANGED <<dialling, busy, node, session, outcome, contains, sess, made, peers, joined,
                 opposed>>

ReadEventCh ==
  /\ joined > 0
  /\ joined' = joined - 1
  /\ UNCHANGED <<dialling, busy, locals, sess, made, peers, running, walking, opposed>>

Runner == TakeAddPeer \/ TakeEvent \/ SendToTask \/ \E n \in Nodes : TakeDiscovered(n)

Work(w) ==
  TakeTask(w) \/ ConnectReturns(w) \/ DialSucceeds(w)
  \/ CheckBusy(w) \/ UpdateBusy(w)

AddSession(p) == HandlersFail(p) \/ HandlersReturn(p) \/ Insert(p)

Walk ==
  \/ \E who \in {"disconnect", "close"} : StartWalk(who)
  \/ \E n \in Nodes : ClosePeer(n)
  \/ EndWalk

Next ==
  \/ \E n \in Nodes : Dial(n) \/ Launch(n) \/ Accept(n)
  \/ NextLaunch \/ Runner
  \/ \E w \in Workers : Work(w)
  \/ \E p \in Procs : AddSession(p)
  \/ \E i \in Sessions : Unlist(i) \/ SessionEnds(i)
  \/ Walk \/ ReadEventCh

Spec == Init /\ [][Next]_vars

\* The goroutines go on and dials end (DialTimeout); dialRunner's select does not pass over
\* addPeer for ever.  Handlers need not return: the one of wire/eth stays until its session
\* ends, and a session need not end.
FairSpec ==
  /\ Spec
  /\ WF_vars(SendToTask) /\ SF_vars(TakeAddPeer)
  /\ \A w \in Workers : WF_vars(Work(w))
  /\ \A p \in Procs : WF_vars(Insert(p))
  /\ \A i \in Sessions : WF_vars(Unlist(i))

-----------------------------------------------------------------------------
(* Properties.                                                             *)

QueueTypes ==
  /\ addPeer \in Seq(Nodes) /\ Len(addPeer) <= AddCap
  /\ sending \in Nodes \cup {None}
  /\ tasks \in Seq(Nodes) /\ Len(tasks) <= Cardinality(Workers)
  /\ tracked \subseteq Nodes /\ due \subseteq Nodes
  /\ events \in Seq(Nodes) /\ Len(events) <= JobCap

ProcessTypes ==
  /\ pc \in [Procs -> {"idle", "connect", "handlers", "insert", "after", "update", "done"}]
  /\ node \in [Procs -> Nodes \cup {None}]
  /\ session \in [Procs -> 0..MaxSessions]
  /\ outcome \in [Procs -> {"none", "ok", "failed", "refused", "tooManyPeers"}]
  /\ contains \in [Procs -> BOOLEAN]
  /\ opposed \in [Workers -> BOOLEAN]

TableTypes ==
  /\ sess \in [Sessions -> [node : Nodes \cup {None}, open : BOOLEAN,
                            watcher : {"none", "waiting", "done"}]]
  /\ made \in 0..MaxSessions
  /\ peers \in [Nodes -> 0..MaxSessions]
  /\ joined \in 0..EventCap
  /\ running \in BOOLEAN
  /\ walk \in {"none", "disconnect", "close"}
  /\ visit \in [Nodes -> {"todo", "new", "done"}]

\* The types; addPeer, the tasks, Events() and EventCh keep to their capacities.
TypeOK == QueueTypes /\ ProcessTypes /\ TableTypes

\* A dial task leaves the dispatcher with the verdict of its dial, tracked if and only if busy,
\* although any number of tasks dial one node and Contains and Add or Remove are apart: unless,
\* in between, a task that found the opposite has told it so.  Tasks that agree never undo one
\* another.
VerdictKept ==
  [][\A w \in Workers :
       pc[w] = "update" /\ pc'[w] = "idle" =>
         \/ node[w] \in tracked' <=> Busy(w)
         \/ opposed[w]]_vars

\* An entry of s.peers is an established session of that very node, and somebody waits, or
\* has waited, for its CloseChan, whichever of the sessions of a node come and go meanwhile.
ListedIsWatched ==
  \A n \in Nodes :
    peers[n] # 0 => /\ peers[n] \in 1..made
                    /\ sess[peers[n]].node = n /\ sess[peers[n]].watcher # "none"

\* An enode Dial has queued is dialled, whatever the dispatcher, the other dials and the
\* sessions do, unless in the end every dial task stays in the handlers of a session.
DialAttempted ==
  []<>(\E w \in Workers : pc[w] # "handlers") =>
    \A n \in Nodes :
      (\E k \in DOMAIN addPeer : addPeer[k] = n)
        ~> \E w \in Workers : pc[w] = "connect" /\ node[w] = n

\* A listed session that ends is unlisted, unless its goroutine has run already.
ClosedIsUnlisted ==
  \A n \in Nodes, i \in Sessions :
    (peers[n] = i /\ ~sess[i].open /\ sess[i].watcher # "done") ~> peers[n] # i

-----------------------------------------------------------------------------
(* What the comments say, and the code does not do.                        *)

\* "Remove peer from list if the session is closed": once the goroutine that does it
\* has run, the session is not listed.
ClosedStaysUnlisted ==
  \A n \in Nodes, i \in Sessions : sess[i].watcher = "done" => peers[n] # i

\* The same comment, read the other way: an entry whose session is open is not removed.
OpenStaysListed ==
  [][\A n \in Nodes, i \in Sessions :
       peers[n] = i /\ sess[i].open => peers'[n] # 0]_vars

\* "Trying to connect with an already connected id": a listed peer is not dialled again.
ConnectedNotDialled ==
  [][\A w \in Workers :
       pc[w] = "connect" /\ pc'[w] = "handlers" => peers[node[w]] = 0]_vars

\* "the peer had too many peers, reschedule to dial it again if it is not already on the
\* list": a busy peer is on the list afterwards.
BusyIsRescheduled ==
  [][\A w \in Workers :
       pc[w] = "update" /\ pc'[w] = "idle" /\ outcome[w] = "tooManyPeers" =>
         node[w] \in tracked']_vars
=============================================================================
