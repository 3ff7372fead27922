---------------------------- MODULE ServerProofs ----------------------------
(***************************************************************************)
(* The safety of Server, for any nodes, dial tasks, sessions and           *)
(* capacities; of EthBackend, the protocol that runs on its sessions, for  *)
(* any set of requests and any number of messages of the peer; and of the  *)
(* fork ids of ForkID that its peers exchange, for any two lists of forks  *)
(* and any heads.                                                          *)
(*                                                                         *)
(* What the server promises of its list of peers becomes inductive with    *)
(* what the processes in the middle of addSession have in hand.            *)
(***************************************************************************)
EXTENDS Server, EthBackend, ForkID, SubsequencesProofs

\* A dial task that is at work has a node.
TasksHaveNodes == \A w \in Workers : pc[w] # "idle" => node[w] \in Nodes

\* addSession has a session in hand, and has told somebody to wait for its end before it
\* enters it in s.peers.
SessionsInHand ==
  /\ \A i \in 1..made : sess[i].node \in Nodes
  /\ \A p \in Procs : pc[p] \in {"handlers", "insert"} => session[p] \in 1..made
  /\ \A p \in Procs : pc[p] = "insert" => sess[session[p]].watcher # "none"

\* What every step of the server keeps.
ServerInv == TypeOK /\ TasksHaveNodes /\ SessionsInHand /\ ListedIsWatched

-----------------------------------------------------------------------------
(* Which parts of the server's invariant a step can disturb.               *)

\* The number of dial tasks is a number.
LEMMA WorkersCounted == Cardinality(Workers) \in Nat
BY ProcsAssumption, FS_CardinalityType

\* A step that leaves the processes and the sessions alone keeps all but the types it
\* touches.
LEMMA OnlyQueues ==
  ASSUME ServerInv, QueueTypes', TableTypes',
         UNCHANGED <<pc, node, session, outcome, contains, opposed, sess, made, peers>>
  PROVE  ServerInv'
<1>1. ProcessTypes' BY DEF ServerInv, TypeOK, ProcessTypes, Procs
<1>2. TasksHaveNodes' BY DEF ServerInv, TasksHaveNodes
<1>3. SessionsInHand' BY DEF ServerInv, SessionsInHand, Procs
<1>4. ListedIsWatched' BY DEF ServerInv, ListedIsWatched
<1> QED BY <1>1, <1>2, <1>3, <1>4 DEF ServerInv, TypeOK

\* Dial, dialRunner and the dispatcher only move nodes between queues.
LEMMA QueueStep ==
  ASSUME ServerInv,
         \/ \E n \in Nodes : Dial(n) \/ Launch(n)
         \/ NextLaunch \/ Runner
  PROVE  ServerInv'
<1>1. UNCHANGED <<pc, node, session, outcome, contains, opposed, sess, made, peers, joined,
                  running, walk, visit>>
  BY DEF Dial, Launch, NextLaunch, Runner, TakeAddPeer, TakeEvent, SendToTask,
         TakeDiscovered, locals, table, walking
<1>2. TableTypes' BY <1>1 DEF ServerInv, TypeOK, TableTypes, Sessions
<1>3. QueueTypes'
  <2> USE DEF QueueTypes
  <2>0. /\ QueueTypes /\ AddCap \in Nat /\ JobCap \in Nat
        /\ Cardinality(Workers) \in Nat
    BY WorkersCounted, BoundsAssumption DEF ServerInv, TypeOK
  <2>1. ASSUME NEW n \in Nodes, Dial(n) PROVE QueueTypes'
    BY <2>0, <2>1 DEF Dial, busy
  <2>2. ASSUME NEW n \in Nodes, Launch(n) PROVE QueueTypes'
    BY <2>0, <2>2 DEF Launch, BL!Launch, dialling
  <2>3. CASE NextLaunch BY <2>0, <2>3 DEF NextLaunch, BL!Schedule, dialling
  <2>4. CASE TakeAddPeer BY <2>0, <2>4 DEF TakeAddPeer, busy
  <2>5. CASE TakeEvent BY <2>0, <2>5 DEF TakeEvent, BL!Receive
  <2>6. CASE SendToTask BY <2>0, <2>6 DEF SendToTask, busy
  <2>7. ASSUME NEW n \in Nodes, TakeDiscovered(n) PROVE QueueTypes'
    BY <2>0, <2>7 DEF TakeDiscovered, busy
  <2> QED BY <2>1, <2>2, <2>3, <2>4, <2>5, <2>6, <2>7 DEF Runner
<1> QED BY <1>1, <1>2, <1>3, OnlyQueues

\* A process that returns from connectWithEnode or addSession has no session in hand.
LEMMA ReturnStep ==
  ASSUME ServerInv, NEW p \in Procs, pc[p] # "idle",
         NEW o \in {"ok", "failed", "refused", "tooManyPeers"}, Return(p, o),
         UNCHANGED <<node, contains, opposed>>
  PROVE  /\ ProcessTypes' /\ TasksHaveNodes'
         /\ \A q \in Procs : pc'[q] \in {"handlers", "insert"} =>
              pc'[q] = pc[q] /\ session'[q] = session[q]
<1>1. ProcessTypes BY DEF ServerInv, TypeOK
<1>2. 0 \in 0..MaxSessions BY BoundsAssumption
<1>3. ProcessTypes' BY <1>1, <1>2 DEF ProcessTypes, Return
<1>4. TasksHaveNodes' BY <1>1 DEF ServerInv, TasksHaveNodes, Return, ProcessTypes, Procs
<1>5. ASSUME NEW q \in Procs, pc'[q] \in {"handlers", "insert"}
      PROVE  pc'[q] = pc[q] /\ session'[q] = session[q]
  BY <1>1, <1>5 DEF Return, ProcessTypes
<1> QED BY <1>3, <1>4, <1>5

\* Sessions stay what they are: their nodes and, once they are watched, that they are.
SessionsKept ==
  /\ made' = made
  /\ \A i \in 1..made : /\ sess'[i].node = sess[i].node
                        /\ sess[i].watcher # "none" => sess'[i].watcher # "none"

\* Then processes that have no new session in hand keep theirs, and an entry that is kept
\* stays watched.
LEMMA SessionsKeptStep ==
  ASSUME ServerInv, SessionsKept,
         \A q \in Procs : pc'[q] \in {"handlers", "insert"} =>
           pc'[q] = pc[q] /\ session'[q] = session[q]
  PROVE  SessionsInHand' /\ (UNCHANGED peers => ListedIsWatched')
<1>1. SessionsInHand /\ ListedIsWatched BY DEF ServerInv
<1>2. (\A i \in 1..made : sess[i].node \in Nodes)' BY <1>1 DEF SessionsInHand, SessionsKept
<1>3. ASSUME NEW q \in Procs, pc'[q] \in {"handlers", "insert"}
      PROVE  /\ session'[q] \in 1..made'
             /\ pc'[q] = "insert" => sess'[session'[q]].watcher # "none"
  BY <1>1, <1>3 DEF SessionsInHand, SessionsKept
<1>4. SessionsInHand' BY <1>2, <1>3 DEF SessionsInHand, Procs
<1>5. ASSUME UNCHANGED peers PROVE ListedIsWatched'
  BY <1>1, <1>5 DEF ListedIsWatched, SessionsKept
<1> QED BY <1>4, <1>5

\* A step of a dial task at the queue of tasks or at the list of busy nodes.
LEMMA TaskStep ==
  ASSUME ServerInv, NEW w \in Workers,
         TakeTask(w) \/ ConnectReturns(w) \/ CheckBusy(w) \/ UpdateBusy(w)
  PROVE  ServerInv'
<1>0. /\ QueueTypes /\ ProcessTypes /\ TableTypes /\ TasksHaveNodes /\ w \in Procs
      /\ Cardinality(Workers) \in Nat
  BY WorkersCounted DEF ServerInv, TypeOK, Procs
<1>1. UNCHANGED <<sess, made, peers, joined, running, walk, visit>>
  BY DEF TakeTask, ConnectReturns, CheckBusy, UpdateBusy, table, walking
<1>2. TableTypes' BY <1>0, <1>1 DEF TableTypes, Sessions
<1>3. SessionsKept BY <1>1 DEF SessionsKept
<1>4. ASSUME QueueTypes', ProcessTypes', TasksHaveNodes',
             \A q \in Procs : pc'[q] \in {"handlers", "insert"} =>
               pc'[q] = pc[q] /\ session'[q] = session[q]
      PROVE  ServerInv'
  BY <1>1, <1>2, <1>3, <1>4, SessionsKeptStep DEF ServerInv, TypeOK
<1>5. ASSUME QueueTypes', ProcessTypes', TasksHaveNodes', session' = session,
             NEW l \in {"idle", "connect", "update"}, pc' = [pc EXCEPT ![w] = l]
      PROVE  ServerInv'
  <2>1. ASSUME NEW q \in Procs, pc'[q] \in {"handlers", "insert"}
        PROVE  pc'[q] = pc[q] /\ session'[q] = session[q]
    BY <1>0, <1>5, <2>1 DEF ProcessTypes
  <2> QED BY <1>4, <1>5, <2>1
<1>6. CASE TakeTask(w)
  <2>1. Head(tasks) \in Nodes BY <1>0, <1>6 DEF TakeTask, QueueTypes
  <2>2. QueueTypes' BY <1>0, <1>6 DEF TakeTask, QueueTypes, busy
  <2>3. ProcessTypes' BY <1>0, <1>6, <2>1 DEF TakeTask, ProcessTypes
  <2>4. TasksHaveNodes'
    BY <1>0, <1>6, <2>1 DEF TakeTask, ProcessTypes, TasksHaveNodes, Procs
  <2> QED BY <1>5, <1>6, <2>2, <2>3, <2>4 DEF TakeTask
<1>7. CASE ConnectReturns(w)
  <2>1. PICK o \in {"ok", "failed", "refused"} : Return(w, o) BY <1>7 DEF ConnectReturns
  <2>2. pc[w] # "idle" /\ UNCHANGED <<node, contains, opposed>> BY <1>7 DEF ConnectReturns
  <2>3. QueueTypes' BY <1>0, <1>7 DEF ConnectReturns, QueueTypes, busy, dialling
  <2> QED BY <1>0, <1>4, <2>1, <2>2, <2>3, ReturnStep
<1>8. CASE CheckBusy(w)
  <2>1. QueueTypes' BY <1>0, <1>8 DEF CheckBusy, QueueTypes, busy, dialling
  <2>2. ProcessTypes' BY <1>0, <1>8 DEF CheckBusy, ProcessTypes
  <2>3. TasksHaveNodes' BY <1>0, <1>8 DEF CheckBusy, ProcessTypes, TasksHaveNodes, Procs
  <2> QED BY <1>5, <1>8, <2>1, <2>2, <2>3 DEF CheckBusy
<1>9. CASE UpdateBusy(w)
  <2>1. node[w] \in Nodes BY <1>0, <1>9 DEF UpdateBusy, TasksHaveNodes
  <2>2. QueueTypes'
    BY <1>0, <1>9, <2>1 DEF UpdateBusy, TellDispatcher, BL!Add, BL!Remove, QueueTypes, dialling, busy
  <2>3. ProcessTypes' BY <1>0, <1>9 DEF UpdateBusy, ProcessTypes
  <2>4. TasksHaveNodes' BY <1>0, <1>9 DEF UpdateBusy, ProcessTypes, TasksHaveNodes, Procs
  <2> QED BY <1>5, <1>9, <2>2, <2>3, <2>4 DEF UpdateBusy
<1> QED BY <1>6, <1>7, <1>8, <1>9

\* A session comes up, for a dial task or for the accepting goroutine.
LEMMA NewSessionStep ==
  ASSUME ServerInv, NEW p \in Procs, NEW n \in Nodes, NewSession(p, n),
         p \in Workers => node[p] \in Nodes,
         UNCHANGED <<addPeer, sending, tasks, tracked, due, events, node, outcome, contains,
                     opposed, peers, joined, running, walk, visit>>
  PROVE  ServerInv'
<1>0. /\ QueueTypes /\ ProcessTypes /\ TableTypes /\ TasksHaveNodes /\ SessionsInHand
      /\ ListedIsWatched /\ MaxSessions \in Nat
  BY BoundsAssumption DEF ServerInv, TypeOK
<1>1. /\ made' = made + 1 /\ made \in 0..MaxSessions /\ made + 1 \in Sessions
      /\ sess' = [sess EXCEPT ![made + 1] = [node |-> n, open |-> TRUE, watcher |-> "none"]]
      /\ session' = [session EXCEPT ![p] = made + 1]
      /\ pc' = [pc EXCEPT ![p] = "handlers"]
  BY <1>0 DEF NewSession, TableTypes, Sessions
<1>2. QueueTypes' BY <1>0 DEF QueueTypes
<1>3. ProcessTypes' BY <1>0, <1>1 DEF ProcessTypes, Sessions
<1>4. TableTypes' BY <1>0, <1>1 DEF TableTypes, Sessions
<1>5. TasksHaveNodes' BY <1>0, <1>1 DEF TasksHaveNodes, ProcessTypes, Procs
<1>6. /\ \A i \in 1..made : i \in 1..made' /\ sess'[i] = sess[i]
      /\ \A i \in 1..made' : i \in 1..made \/ (i = made + 1 /\ sess'[i].node = n)
      /\ made + 1 \in 1..made'
  BY <1>0, <1>1 DEF TableTypes, Sessions
<1>7. SessionsInHand'
  <2>1. (\A i \in 1..made : sess[i].node \in Nodes)' BY <1>0, <1>6 DEF SessionsInHand
  <2>2. ASSUME NEW q \in Procs, pc'[q] \in {"handlers", "insert"}
        PROVE  /\ session'[q] \in 1..made'
               /\ pc'[q] = "insert" => sess'[session'[q]].watcher # "none"
    <3>1. CASE q = p BY <1>0, <1>1, <1>6, <3>1 DEF ProcessTypes
    <3>2. CASE q # p
      <4>1. pc'[q] = pc[q] /\ session'[q] = session[q] BY <1>0, <1>1, <3>2 DEF ProcessTypes
      <4> QED BY <1>0, <1>6, <2>2, <4>1 DEF SessionsInHand
    <3> QED BY <3>1, <3>2
  <2> QED BY <2>1, <2>2 DEF SessionsInHand, Procs
<1>8. ListedIsWatched' BY <1>0, <1>6 DEF ListedIsWatched
<1> QED BY <1>2, <1>3, <1>4, <1>5, <1>7, <1>8 DEF ServerInv, TypeOK

\* addSession: the handlers fail or return, or the peer is listed.
LEMMA AddSessionStep ==
  ASSUME ServerInv, NEW p \in Procs, AddSession(p)
  PROVE  ServerInv'
<1>0. /\ QueueTypes /\ ProcessTypes /\ TableTypes /\ TasksHaveNodes /\ SessionsInHand
      /\ ListedIsWatched /\ MaxSessions \in Nat /\ EventCap \in Nat
  BY BoundsAssumption DEF ServerInv, TypeOK
<1> DEFINE s == session[p]
<1>1. pc[p] \in {"handlers", "insert"} /\ pc[p] # "idle"
  BY DEF AddSession, HandlersFail, HandlersReturn, Insert
<1>2. s \in 1..made /\ made \in 0..MaxSessions /\ made' = made /\ s \in Sessions
      /\ \A i \in 1..made : i \in Sessions
  BY <1>0, <1>1 DEF SessionsInHand, AddSession, HandlersFail, HandlersReturn, Insert,
                    TableTypes, Sessions
<1>3. QueueTypes'
  BY <1>0 DEF AddSession, HandlersFail, HandlersReturn, Insert, QueueTypes,
              dialling, busy
<1>4. CASE HandlersFail(p)
  <2>1. PICK o \in {"failed", "tooManyPeers"} : Return(p, o) BY <1>4 DEF HandlersFail
  <2>2. /\ sess' = [sess EXCEPT ![s].open = FALSE]
        /\ UNCHANGED <<node, contains, opposed, peers, joined, running, walk, visit>>
    BY <1>4 DEF HandlersFail, table, walking
  <2>3. TableTypes' BY <1>0, <1>2, <2>2 DEF TableTypes, Sessions
  <2>4. SessionsKept BY <1>0, <1>2, <2>2 DEF SessionsKept, TableTypes
  <2> QED BY <1>1, <1>3, <2>1, <2>2, <2>3, <2>4, ReturnStep, SessionsKeptStep
          DEF ServerInv, TypeOK
<1>5. CASE HandlersReturn(p)
  <2>1. /\ sess' = [sess EXCEPT ![s].watcher = "waiting"]
        /\ pc' = [pc EXCEPT ![p] = "insert"]
        /\ UNCHANGED <<node, session, outcome, contains, opposed, peers, joined, running, walk,
                       visit>>
    BY <1>5 DEF HandlersReturn, table, walking
  <2>2. TableTypes' BY <1>0, <1>2, <2>1 DEF TableTypes, Sessions
  <2>3. ProcessTypes' BY <1>0, <2>1 DEF ProcessTypes
  <2>4. TasksHaveNodes' BY <1>0, <1>1, <2>1 DEF TasksHaveNodes, ProcessTypes, Procs
  <2>5. SessionsKept BY <1>0, <1>2, <2>1 DEF SessionsKept, TableTypes
  <2>6. sess'[s].watcher # "none" BY <1>0, <1>2, <2>1 DEF TableTypes
  <2>7. (\A i \in 1..made : sess[i].node \in Nodes)' BY <1>0, <2>5 DEF SessionsInHand, SessionsKept
  <2>8. ASSUME NEW q \in Procs, pc'[q] \in {"handlers", "insert"}
        PROVE  /\ session'[q] \in 1..made'
               /\ pc'[q] = "insert" => sess'[session'[q]].watcher # "none"
    <3>1. CASE q = p BY <1>2, <2>1, <2>6, <3>1
    <3>2. CASE q # p
      <4>1. pc'[q] = pc[q] /\ session'[q] = session[q] BY <1>0, <2>1, <3>2 DEF ProcessTypes
      <4> QED BY <1>0, <2>5, <2>8, <4>1 DEF SessionsInHand, SessionsKept
    <3> QED BY <3>1, <3>2
  <2>9. SessionsInHand' BY <2>7, <2>8 DEF SessionsInHand, Procs
  <2>10. ListedIsWatched' BY <1>0, <2>1, <2>5 DEF ListedIsWatched, SessionsKept
  <2> QED BY <1>3, <2>2, <2>3, <2>4, <2>9, <2>10 DEF ServerInv, TypeOK
<1>6. CASE Insert(p)
  <2>1. /\ peers' = [peers EXCEPT ![sess[s].node] = s]
        /\ joined' = IF joined < EventCap THEN joined + 1 ELSE joined
        /\ Return(p, "ok")
        /\ UNCHANGED <<node, contains, opposed, sess, running, walk, visit>>
    BY <1>6 DEF Insert, walking
  <2>2. s \in 0..MaxSessions
    <3> HIDE DEF s
    <3> QED BY <1>0, <1>2
  <2>3. TableTypes'
    <3>1. joined' \in 0..EventCap BY <1>0, <2>1 DEF TableTypes
    <3>2. peers' \in [Nodes -> 0..MaxSessions] BY <1>0, <2>1, <2>2 DEF TableTypes
    <3> QED BY <1>0, <1>2, <2>1, <3>1, <3>2 DEF TableTypes, Sessions
  <2>4. SessionsKept BY <1>2, <2>1 DEF SessionsKept
  <2>5. ProcessTypes' /\ TasksHaveNodes' /\ SessionsInHand'
    BY <1>1, <2>1, <2>4, ReturnStep, SessionsKeptStep
  <2>6. sess[s].watcher # "none" BY <1>0, <1>6 DEF Insert, SessionsInHand
  <2> HIDE DEF s
  <2>7. ListedIsWatched'
    BY <1>0, <1>2, <2>1, <2>6 DEF ListedIsWatched, TableTypes
  <2> QED BY <1>3, <2>3, <2>5, <2>7 DEF ServerInv, TypeOK
<1> QED BY <1>4, <1>5, <1>6 DEF AddSession

\* A session ends, or its end is seen; the owner closes sessions or reads EventCh.
LEMMA SessionStep ==
  ASSUME ServerInv,
         \/ \E i \in Sessions : Unlist(i) \/ SessionEnds(i)
         \/ Walk \/ ReadEventCh
  PROVE  ServerInv'
<1>0. /\ QueueTypes /\ ProcessTypes /\ TableTypes /\ TasksHaveNodes /\ SessionsInHand
      /\ ListedIsWatched /\ Acceptor \notin Workers /\ EventCap \in Nat
      /\ \A i \in 1..made : i \in Sessions
  BY ProcsAssumption, BoundsAssumption DEF ServerInv, TypeOK, TableTypes, Sessions
<1>1. UNCHANGED <<addPeer, sending, tasks, tracked, due, events, node, session, outcome, contains,
                  opposed, made>>
  BY DEF Unlist, SessionEnds, Walk, StartWalk, ClosePeer, EndWalk, ReadEventCh, dialling, busy,
         locals
<1>2. QueueTypes' BY <1>0, <1>1 DEF QueueTypes
<1>3. ASSUME TableTypes', SessionsKept, UNCHANGED pc, ListedIsWatched' PROVE ServerInv'
  <2>1. ProcessTypes' BY <1>0, <1>1, <1>3 DEF ProcessTypes, Procs
  <2>2. TasksHaveNodes' BY <1>0, <1>1, <1>3 DEF TasksHaveNodes
  <2>3. SessionsInHand' BY <1>1, <1>3, SessionsKeptStep
  <2> QED BY <1>2, <1>3, <2>1, <2>2, <2>3 DEF ServerInv, TypeOK
<1>4. ASSUME NEW i \in Sessions, Unlist(i) PROVE ServerInv'
  <2>1. /\ sess[i].watcher = "waiting" /\ peers' = [peers EXCEPT ![sess[i].node] = 0]
        /\ sess' = [sess EXCEPT ![i].watcher = "done"] /\ UNCHANGED <<pc, joined, running, walk>>
        /\ visit' = [visit EXCEPT ![sess[i].node] = IF @ = "todo" THEN "new" ELSE @]
    BY <1>4 DEF Unlist, locals
  <2>2. 0 \in 0..MaxSessions BY BoundsAssumption
  <2>3. visit' \in [Nodes -> {"todo", "new", "done"}] BY <1>0, <2>1 DEF TableTypes
  <2>4. TableTypes'
    <3>1. peers' \in [Nodes -> 0..MaxSessions] BY <1>0, <2>1, <2>2 DEF TableTypes
    <3>2. sess' \in [Sessions -> [node : Nodes \cup {None}, open : BOOLEAN,
                                  watcher : {"none", "waiting", "done"}]]
      BY <1>0, <2>1 DEF TableTypes
    <3> QED BY <1>0, <1>1, <2>1, <2>3, <3>1, <3>2 DEF TableTypes
  <2>5. SessionsKept BY <1>0, <1>1, <2>1 DEF SessionsKept, TableTypes
  <2>6. \A n \in Nodes : peers'[n] = 0 \/ peers'[n] = peers[n] BY <1>0, <2>1 DEF TableTypes
  <2>7. ListedIsWatched' BY <1>0, <2>5, <2>6 DEF ListedIsWatched, SessionsKept
  <2> QED BY <1>3, <2>1, <2>4, <2>5, <2>7
<1>5. ASSUME NEW i \in Sessions, sess' = [sess EXCEPT ![i].open = FALSE],
             UNCHANGED <<pc, peers, joined, running, walk>>,
             visit' \in [Nodes -> {"todo", "new", "done"}]
      PROVE  ServerInv'
  <2>1. TableTypes' BY <1>0, <1>1, <1>5 DEF TableTypes, Sessions
  <2>2. SessionsKept BY <1>0, <1>1, <1>5 DEF SessionsKept, TableTypes
  <2>3. ListedIsWatched' BY <1>0, <1>5, <2>2 DEF ListedIsWatched, SessionsKept
  <2> QED BY <1>3, <1>5, <2>1, <2>2, <2>3
<1>6. ASSUME NEW i \in Sessions, SessionEnds(i) PROVE ServerInv'
  BY <1>0, <1>5, <1>6 DEF SessionEnds, locals, table, walking, TableTypes
<1>7. ASSUME NEW n \in Nodes, ClosePeer(n) PROVE ServerInv'
  <2>1. /\ peers[n] # 0 /\ sess' = [sess EXCEPT ![peers[n]].open = FALSE]
        /\ visit' = [visit EXCEPT ![n] = "done"] /\ UNCHANGED <<pc, peers, joined, running, walk>>
    BY <1>7 DEF ClosePeer, locals
  <2>2. peers[n] \in 1..made BY <1>0, <2>1 DEF ListedIsWatched
  <2>3. peers[n] \in Sessions BY <1>0, <2>2
  <2>4. visit' \in [Nodes -> {"todo", "new", "done"}] BY <1>0, <2>1 DEF TableTypes
  <2> QED BY <1>5, <2>1, <2>3, <2>4
<1>8. ASSUME NEW who \in {"disconnect", "close"}, StartWalk(who) PROVE ServerInv'
  <2>1. /\ walk' = who /\ visit' \in [Nodes -> {"todo", "new", "done"}]
        /\ UNCHANGED <<pc, sess, peers, joined, running>>
    BY <1>8 DEF StartWalk, locals
  <2>2. TableTypes' BY <1>0, <1>1, <2>1 DEF TableTypes, Sessions
  <2>3. SessionsKept BY <1>1, <2>1 DEF SessionsKept
  <2>4. ListedIsWatched' BY <1>0, <2>1, <2>3 DEF ListedIsWatched, SessionsKept
  <2> QED BY <1>3, <2>1, <2>2, <2>3, <2>4
<1>9. CASE EndWalk
  <2>1. /\ walk' = "none" /\ visit' = [n \in Nodes |-> "done"] /\ UNCHANGED <<sess, peers, joined>>
        /\ running' = (running /\ walk # "close")
        /\ pc' = [pc EXCEPT ![Acceptor] = IF walk = "close" /\ @ = "idle" THEN "done" ELSE @]
    BY <1>9 DEF EndWalk
  <2>2. TableTypes' BY <1>0, <1>1, <2>1 DEF TableTypes, Sessions
  <2>3. ProcessTypes' BY <1>0, <1>1, <2>1 DEF ProcessTypes, Procs
  <2>4. TasksHaveNodes' BY <1>0, <1>1, <2>1 DEF TasksHaveNodes, ProcessTypes, Procs
  <2>5. ASSUME NEW q \in Procs, pc'[q] \in {"handlers", "insert"}
        PROVE  pc'[q] = pc[q] /\ session'[q] = session[q]
    BY <1>0, <1>1, <2>1, <2>5 DEF ProcessTypes
  <2>6. SessionsKept BY <1>1, <2>1 DEF SessionsKept
  <2>7. SessionsInHand' /\ ListedIsWatched' BY <2>1, <2>5, <2>6, SessionsKeptStep
  <2> QED BY <1>2, <2>2, <2>3, <2>4, <2>7 DEF ServerInv, TypeOK
<1>10. CASE ReadEventCh
  <2>1. /\ joined > 0 /\ joined' = joined - 1 /\ UNCHANGED <<pc, sess, peers, running, walk, visit>>
    BY <1>10 DEF ReadEventCh, locals, walking
  <2>2. TableTypes' BY <1>0, <1>1, <2>1 DEF TableTypes, Sessions
  <2>3. SessionsKept BY <1>1, <2>1 DEF SessionsKept
  <2>4. ListedIsWatched' BY <1>0, <2>1, <2>3 DEF ListedIsWatched, SessionsKept
  <2> QED BY <1>3, <2>1, <2>2, <2>3, <2>4
<1> QED BY <1>4, <1>6, <1>7, <1>8, <1>9, <1>10 DEF Walk

-----------------------------------------------------------------------------
(* The theorems about the server.                                          *)

\* The invariant of the server holds in every reachable state.
THEOREM ServerInvariance == Spec => []ServerInv
<1>1. Init => ServerInv
  <2> SUFFICES ASSUME Init PROVE ServerInv OBVIOUS
  <2> USE DEF Init, BL!Init
  <2>1. QueueTypes
    <3>1. Cardinality(Workers) \in Nat /\ AddCap \in Nat /\ JobCap \in Nat
      BY WorkersCounted, BoundsAssumption
    <3> QED BY <3>1 DEF QueueTypes
  <2>2. 0 \in 0..MaxSessions /\ 0 \in 0..EventCap BY BoundsAssumption
  <2>3. ProcessTypes BY <2>2 DEF ProcessTypes
  <2>4. TableTypes BY <2>2 DEF TableTypes
  <2>5. TasksHaveNodes BY DEF TasksHaveNodes, Procs
  <2>6. 1..made = {} OBVIOUS
  <2>7. SessionsInHand BY <2>6 DEF SessionsInHand
  <2>8. ListedIsWatched BY DEF ListedIsWatched
  <2> QED BY <2>1, <2>3, <2>4, <2>5, <2>7, <2>8 DEF ServerInv, TypeOK
<1>2. ServerInv /\ [Next]_vars => ServerInv'
  <2> SUFFICES ASSUME ServerInv, [Next]_vars PROVE ServerInv' OBVIOUS
  <2>1. ASSUME NEW w \in Workers, DialSucceeds(w) PROVE ServerInv'
    <3>1. node[w] \in Nodes BY <2>1 DEF DialSucceeds, ServerInv, TasksHaveNodes
    <3>2. w \in Procs BY DEF Procs
    <3> QED BY <2>1, <3>1, <3>2, NewSessionStep DEF DialSucceeds, dialling, busy, table, walking
  <2>2. ASSUME NEW n \in Nodes, Accept(n) PROVE ServerInv'
    <3>1. Acceptor \in Procs /\ Acceptor \notin Workers BY ProcsAssumption DEF Procs
    <3> QED BY <2>2, <3>1, NewSessionStep DEF Accept, dialling, busy, table, walking
  <2>3. ASSUME NEW w \in Workers, Work(w) PROVE ServerInv'
    BY <2>1, <2>3, TaskStep DEF Work
  <2>4. CASE UNCHANGED vars
    <3>1. UNCHANGED <<addPeer, sending, tasks, tracked, due, events, pc, node, session, outcome,
                      contains, opposed, sess, made, peers, joined, running, walk, visit>>
      BY <2>4 DEF vars, dialling, busy, locals, table, walking
    <3>2. QueueTypes' BY <3>1 DEF ServerInv, TypeOK, QueueTypes
    <3>3. TableTypes' BY <3>1 DEF ServerInv, TypeOK, TableTypes, Sessions
    <3> QED BY <3>1, <3>2, <3>3, OnlyQueues
  <2> QED BY <2>2, <2>3, <2>4, QueueStep, AddSessionStep, SessionStep DEF Next
<1> QED BY <1>1, <1>2, PTL DEF Spec

\* Type correctness of the server: the queues between Dial, dialRunner and the dial tasks
\* keep to their capacities, and only nodes are dialled.
THEOREM ServerTypes == Spec => []TypeOK
BY ServerInvariance, PTL DEF ServerInv

\* Every entry of s.peers is a session of that node which somebody waits, or has waited,
\* for: addSession starts the waiting goroutine before it enters the peer, and no other
\* step undoes either.
THEOREM ServerListedIsWatched == Spec => []ListedIsWatched
BY ServerInvariance, PTL DEF ServerInv

\* What Contains said may be stale when a dial task acts on it, but not so as to undo the
\* verdict of the task, unless that was opposed meanwhile: a busy node that was listed still
\* is, one that is not busy and was not listed still is not.
VerdictSafe ==
  \A w \in Workers :
    pc[w] = "update" /\ ~opposed[w] =>
      /\ Busy(w) /\ contains[w] => node[w] \in tracked
      /\ ~Busy(w) /\ ~contains[w] => node[w] \notin tracked

\* What a dial task leaves the dispatcher with.
Kept(w) == pc[w] = "update" /\ pc'[w] = "idle" =>
             (node[w] \in tracked' <=> Busy(w)) \/ opposed[w]

\* A step of the server keeps VerdictSafe, and a task's last step leaves its verdict.
LEMMA VerdictStep ==
  ASSUME ServerInv, VerdictSafe, [Next]_vars
  PROVE  VerdictSafe' /\ \A w \in Workers : Kept(w)
<1> DEFINE Goal == VerdictSafe' /\ \A w \in Workers : Kept(w)
<1>0. ProcessTypes /\ (\A w \in Workers : w \in Procs) /\ Acceptor \notin Workers
  BY ProcsAssumption DEF ServerInv, TypeOK, Procs
<1>1. ASSUME UNCHANGED <<tracked, opposed>>,
             \A w \in Workers : pc'[w] # "idle" \/ pc[w] = "idle",
             \A w \in Workers : pc'[w] = "update" =>
               /\ pc[w] = "update" /\ node'[w] = node[w]
               /\ contains'[w] = contains[w] /\ outcome'[w] = outcome[w]
      PROVE  Goal
  BY <1>1 DEF VerdictSafe, Busy, Kept
<1>2. ASSUME UNCHANGED <<tracked, opposed, pc, node, contains, outcome>> PROVE Goal
  BY <1>2 DEF VerdictSafe, Busy, Kept
<1>3. ASSUME NEW v \in Workers, UpdateBusy(v) PROVE Goal
  <2>1. /\ pc[v] = "update" /\ pc' = [pc EXCEPT ![v] = "idle"]
        /\ node' = [node EXCEPT ![v] = None] /\ contains' = [contains EXCEPT ![v] = FALSE]
        /\ outcome' = [outcome EXCEPT ![v] = "none"]
        /\ TellDispatcher(v)
        /\ \A w \in Workers : w # v =>
             (opposed'[w] <=> \/ opposed[w]
                              \/ pc[w] = "update" /\ node[w] = node[v] /\ Busy(w) # Busy(v))
    BY <1>3 DEF UpdateBusy
  <2>2. /\ Busy(v) => tracked' = tracked \cup {node[v]} \/ (contains[v] /\ tracked' = tracked)
        /\ ~Busy(v) => tracked' = tracked \ {node[v]} \/ (~contains[v] /\ tracked' = tracked)
    BY <2>1 DEF TellDispatcher, BL!Add, BL!Remove, busy
  <2>3. Kept(v) BY <2>1, <2>2 DEF VerdictSafe, Kept
  <2>4. ASSUME NEW w \in Workers, w # v
        PROVE  /\ pc'[w] = pc[w] /\ node'[w] = node[w] /\ contains'[w] = contains[w]
               /\ outcome'[w] = outcome[w]
    BY <1>0, <2>1, <2>4 DEF ProcessTypes
  <2>5. pc'[v] = "idle" BY <1>0, <2>1 DEF ProcessTypes
  <2>6. ASSUME NEW w \in Workers, pc'[w] = "update", ~opposed'[w]
        PROVE  /\ w # v /\ pc[w] = "update" /\ ~opposed[w] /\ Busy(w)' = Busy(w)
               /\ node[w] = node[v] => Busy(w) = Busy(v)
    <3>1. w # v BY <2>5, <2>6
    <3>2. pc[w] = "update" /\ Busy(w)' = Busy(w) BY <2>4, <2>6, <3>1 DEF Busy
    <3> QED BY <2>1, <2>6, <3>1, <3>2
  <2>7. VerdictSafe'
    <3> SUFFICES ASSUME NEW w \in Workers, pc'[w] = "update", ~opposed'[w]
                 PROVE  /\ Busy(w) /\ contains[w] => node[w] \in tracked'
                        /\ ~Busy(w) /\ ~contains[w] => node[w] \notin tracked'
      BY <2>4, <2>6 DEF VerdictSafe
    <3>1. /\ Busy(w) /\ contains[w] => node[w] \in tracked
          /\ ~Busy(w) /\ ~contains[w] => node[w] \notin tracked
      BY <2>6 DEF VerdictSafe
    <3> QED BY <2>2, <2>6, <3>1
  <2>8. ASSUME NEW w \in Workers PROVE Kept(w)
    BY <2>3, <2>4 DEF Kept
  <2> QED BY <2>7, <2>8
<1>4. ASSUME NEW v \in Workers, CheckBusy(v) PROVE Goal
  <2>1. /\ pc' = [pc EXCEPT ![v] = "update"] /\ UNCHANGED <<tracked, node, outcome, opposed>>
        /\ contains' = [contains EXCEPT ![v] = node[v] \in tracked]
    BY <1>4 DEF CheckBusy, busy
  <2>2. ASSUME NEW w \in Workers, w # v PROVE pc'[w] = pc[w] /\ contains'[w] = contains[w]
    BY <1>0, <2>1, <2>2 DEF ProcessTypes
  <2>3. pc'[v] = "update" /\ contains'[v] = (node[v] \in tracked) BY <1>0, <2>1 DEF ProcessTypes
  <2>4. VerdictSafe' BY <2>1, <2>2, <2>3 DEF VerdictSafe, Busy
  <2>5. ASSUME NEW w \in Workers PROVE Kept(w) BY <2>2, <2>3 DEF Kept
  <2> QED BY <2>4, <2>5
<1>5. ASSUME NEW v \in Procs, NEW o, Return(v, o), UNCHANGED <<tracked, opposed, node, contains>>
      PROVE  Goal
  <2>1. \A w \in Workers : (pc'[w] = pc[w] /\ outcome'[w] = outcome[w]) \/ pc'[w] = "after"
    BY <1>0, <1>5 DEF Return, ProcessTypes
  <2> HIDE DEF Goal
  <2> QED BY <1>1, <1>5, <2>1
<1>6. ASSUME NEW v \in Procs, NEW l \in {"connect", "handlers", "insert"},
             pc' = [pc EXCEPT ![v] = l], UNCHANGED <<tracked, opposed, contains, outcome>>,
             \A w \in Workers : w # v => node'[w] = node[w]
      PROVE  Goal
  <2>1. \A w \in Workers : pc'[w] = IF w = v THEN l ELSE pc[w]
    BY <1>0, <1>6 DEF ProcessTypes
  <2> HIDE DEF Goal
  <2> QED BY <1>1, <1>6, <2>1
<1> HIDE DEF Goal
<1>7. ASSUME NEW w \in Workers, Work(w) PROVE Goal
  <2>1. CASE TakeTask(w)
    <3>1. \A v \in Workers : v # w => node'[v] = node[v]
      BY <1>0, <2>1 DEF TakeTask, ProcessTypes
    <3> QED BY <1>0, <1>6, <2>1, <3>1 DEF TakeTask, busy
  <2>2. CASE ConnectReturns(w)
    <3>1. PICK o : Return(w, o) BY <2>2 DEF ConnectReturns
    <3> QED BY <1>0, <1>5, <2>2, <3>1 DEF ConnectReturns, busy
  <2>3. CASE DialSucceeds(w) BY <1>0, <1>6, <2>3 DEF DialSucceeds, NewSession, busy
  <2> QED BY <1>3, <1>4, <1>7, <2>1, <2>2, <2>3 DEF Work
<1>8. ASSUME NEW p \in Procs, AddSession(p) PROVE Goal
  <2>1. CASE HandlersFail(p)
    <3>1. PICK o : Return(p, o) BY <2>1 DEF HandlersFail
    <3> QED BY <1>5, <2>1, <3>1 DEF HandlersFail, busy
  <2>2. CASE HandlersReturn(p) BY <1>6, <2>2 DEF HandlersReturn, busy
  <2>3. CASE Insert(p) BY <1>5, <2>3 DEF Insert, busy
  <2> QED BY <1>8, <2>1, <2>2, <2>3 DEF AddSession
<1>9. ASSUME NEW n \in Nodes, Accept(n) PROVE Goal
  <2>1. Acceptor \in Procs BY DEF Procs
  <2> QED BY <1>6, <1>9, <2>1 DEF Accept, NewSession, busy
<1>10. ASSUME EndWalk PROVE Goal
  <2>1. /\ UNCHANGED <<tracked, opposed, node, contains, outcome>>
        /\ \A w \in Workers : pc'[w] = pc[w]
    BY <1>0, <1>10 DEF EndWalk, busy, ProcessTypes
  <2> QED BY <1>1, <2>1
<1>11. ASSUME \/ \E n \in Nodes : Dial(n) \/ Launch(n) \/ ClosePeer(n)
              \/ \E who \in {"disconnect", "close"} : StartWalk(who)
              \/ NextLaunch \/ Runner
              \/ \E i \in Sessions : Unlist(i) \/ SessionEnds(i)
              \/ ReadEventCh \/ UNCHANGED vars
       PROVE  Goal
  <2>1. UNCHANGED <<tracked, opposed, pc, node, contains, outcome>>
    BY <1>11 DEF Dial, Launch, BL!Launch, NextLaunch, BL!Schedule, Runner, TakeAddPeer, TakeEvent,
                 BL!Receive, SendToTask, TakeDiscovered, Unlist, SessionEnds, StartWalk, ClosePeer,
                 ReadEventCh, vars, busy, locals
  <2> QED BY <1>2, <2>1
<1>12. Goal BY <1>7, <1>8, <1>9, <1>10, <1>11 DEF Next, Walk
<1> QED BY <1>12 DEF Goal

\* However many dial tasks are at the list of busy nodes with the same node, one leaves its
\* verdict there unless a task that found the opposite came between its Contains and its Add
\* or Remove.
THEOREM ServerVerdictKept == Spec => VerdictKept
<1> DEFINE AllKept == \A w \in Workers : Kept(w)
<1>1. Init => VerdictSafe BY DEF Init, VerdictSafe, Procs
<1>2. ServerInv /\ VerdictSafe /\ [Next]_vars => VerdictSafe' BY VerdictStep
<1>3. ServerInv /\ VerdictSafe /\ [Next]_vars => [AllKept]_vars BY VerdictStep
<1>4. Spec => [][AllKept]_vars BY <1>1, <1>2, <1>3, ServerInvariance, PTL DEF Spec
<1>5. AllKept <=> \A w \in Workers : pc[w] = "update" /\ pc'[w] = "idle" =>
                    \/ node[w] \in tracked' <=> Busy(w)
                    \/ opposed[w]
  BY DEF Kept
<1> HIDE DEF AllKept
<1> QED BY <1>4, <1>5, PTL DEF VerdictKept

-----------------------------------------------------------------------------
(* The eth handler and the callers of its requests.                        *)

\* The messages of the inbox; only responses name a request.
Kinds == {"status", "wrongStatus", "badStatus", "response", "notify", "get", "unhandled"}

Names(m) == /\ m.kind = "response" => m.req \in Reqs
            /\ m.kind # "response" => m.req = NoRequest

\* The types.
EthTypes ==
  /\ inbox \in Seq([kind : Kinds, req : Reqs \cup {NoRequest}])
  /\ \A i \in DOMAIN inbox : Names(inbox[i])
  /\ hpc \in {"status", "serve", "unmarshal", "send", "done"}
  /\ hreq \in Reqs \cup {NoRequest} /\ hok \in BOOLEAN
  /\ inflight \subseteq Reqs
  /\ ch \in [Reqs -> {"none", "open", "closed"}]
  /\ rpc \in [Reqs -> {"idle", "write", "store", "stored", "select", "close", "delete", "done"}]
  /\ result \in [Reqs -> {"none", "ok", "bad", "timeout", "ioErr"}]
  /\ asked \subseteq Reqs /\ answers \in [Reqs -> Nat]
  /\ panicked \in {"no", "badStatus", "unhandled", "closedChannel"}
  /\ early \subseteq Reqs /\ late \subseteq Reqs

\* What the place of a caller says of its channel, its result and the map.
CallersPlaced ==
  \A r \in Reqs :
    /\ r \in inflight <=> rpc[r] \in {"stored", "select", "close", "delete"}
    /\ rpc[r] \in {"idle", "write", "store"} => ch[r] = "none" /\ result[r] = "none"
    /\ rpc[r] \in {"stored", "select"} => ch[r] = "open" /\ result[r] = "none"
    /\ rpc[r] = "close" => ch[r] = "open" /\ result[r] \in {"ok", "bad", "timeout"}
    /\ rpc[r] = "delete" => ch[r] = "closed" /\ result[r] \in {"ok", "bad", "timeout"}
    /\ rpc[r] = "done" => \/ ch[r] = "none" /\ result[r] = "ioErr"
                          \/ ch[r] = "closed" /\ result[r] \in {"ok", "bad", "timeout"}
    /\ r \in asked => rpc[r] \notin {"idle", "write"}
    /\ answers[r] > 0 => r \in asked

\* The handler delivers to a request that has been registered.
Delivering(r) == hpc \in {"unmarshal", "send"} /\ hreq = r

HandReal == hpc \in {"unmarshal", "send"} => hreq \in Reqs /\ ch[hreq] # "none"

Queued(r) == \E i \in DOMAIN inbox : inbox[i].req = r
QueuedTwice(r) == \E i, j \in DOMAIN inbox : i # j /\ inbox[i].req = r /\ inbox[j].req = r
Taken(r) == result[r] \in {"ok", "bad"}

\* The answers to a request are in the inbox, in the hand of the handler, taken by the
\* caller or dropped: two of the first three are two answers.
AnswersCounted ==
  \A r \in Reqs :
    /\ Queued(r) \/ Delivering(r) \/ Taken(r) => answers[r] > 0
    /\ QueuedTwice(r) => answers[r] > 1
    /\ Queued(r) /\ (Delivering(r) \/ Taken(r)) => answers[r] > 1
    /\ Delivering(r) /\ Taken(r) => answers[r] > 1

\* An answer that is gone while its caller has not returned came early.
EarlyOrPending ==
  \A r \in Reqs :
    rpc[r] \in {"store", "stored", "select"} /\ answers[r] > 0 =>
      Queued(r) \/ Delivering(r) \/ r \in early

\* dst is written after the return, and the channel is closed when it is sent on, only
\* after a timeout or with a second answer.
Overdue(r) == result[r] = "timeout" \/ answers[r] > 1

OnlyOverdue ==
  /\ \A r \in late : Overdue(r)
  /\ panicked = "closedChannel" => \E r \in Reqs : ch[r] = "closed" /\ Overdue(r)

\* The inductive invariant.
EthInv ==
  /\ EthTypes
  /\ CallersPlaced
  /\ HandReal
  /\ AnswersCounted
  /\ EarlyOrPending
  /\ OnlyOverdue

-----------------------------------------------------------------------------
(* The inbox.                                                              *)

\* What is in the inbox when a message has come.
LEMMA AppendQueued ==
  ASSUME EthTypes, NEW m \in [kind : Kinds, req : Reqs \cup {NoRequest}], inbox' = Append(inbox, m),
         NEW r
  PROVE  /\ Queued(r)' <=> Queued(r) \/ m.req = r
         /\ QueuedTwice(r)' => QueuedTwice(r) \/ (Queued(r) /\ m.req = r)
<1>1. inbox \in Seq([kind : Kinds, req : Reqs \cup {NoRequest}]) BY DEF EthTypes
<1>2. /\ DOMAIN inbox = 1..Len(inbox) /\ DOMAIN inbox' = 1..(Len(inbox) + 1)
      /\ Len(inbox) \in Nat
      /\ \A i \in 1..Len(inbox) : inbox'[i] = inbox[i]
      /\ inbox'[Len(inbox) + 1] = m
  BY <1>1
<1>3. \A i \in DOMAIN inbox' : i \in DOMAIN inbox \/ i = Len(inbox) + 1 BY <1>2
<1>4. Queued(r)' <=> Queued(r) \/ m.req = r BY <1>2, <1>3 DEF Queued
<1>5. QueuedTwice(r)' => QueuedTwice(r) \/ (Queued(r) /\ m.req = r)
  BY <1>2, <1>3 DEF Queued, QueuedTwice
<1> QED BY <1>4, <1>5

\* What is left in the inbox when the first message has been read.
LEMMA TailQueued ==
  ASSUME EthTypes, inbox # <<>>, inbox' = Tail(inbox), NEW r
  PROVE  /\ Queued(r) <=> Queued(r)' \/ Head(inbox).req = r
         /\ QueuedTwice(r)' => QueuedTwice(r)
         /\ Head(inbox).req = r /\ Queued(r)' => QueuedTwice(r)
<1>1. inbox \in Seq([kind : Kinds, req : Reqs \cup {NoRequest}]) BY DEF EthTypes
<1>2. /\ DOMAIN inbox = 1..Len(inbox) /\ DOMAIN inbox' = 1..(Len(inbox) - 1)
      /\ Len(inbox) \in Nat /\ Len(inbox) > 0
      /\ \A i \in 1..(Len(inbox) - 1) : inbox'[i] = inbox[i + 1]
      /\ inbox[1] = Head(inbox)
  BY <1>1
<1>3. \A i \in DOMAIN inbox' : i + 1 \in DOMAIN inbox /\ i + 1 # 1 BY <1>2
<1>4. \A i \in DOMAIN inbox : i = 1 \/ (i - 1 \in DOMAIN inbox' /\ inbox'[i - 1] = inbox[i])
  BY <1>2
<1>5. Queued(r) => Queued(r)' \/ Head(inbox).req = r BY <1>2, <1>4 DEF Queued
<1>6. Queued(r)' \/ Head(inbox).req = r => Queued(r)
  <2>1. 1 \in DOMAIN inbox BY <1>2
  <2> QED BY <1>2, <1>3, <2>1 DEF Queued
<1>7. QueuedTwice(r)' => QueuedTwice(r)
  <2> SUFFICES ASSUME NEW i \in DOMAIN inbox', NEW j \in DOMAIN inbox', i # j,
                      inbox'[i].req = r, inbox'[j].req = r
               PROVE  QueuedTwice(r)
    BY DEF QueuedTwice
  <2>1. i + 1 # j + 1 /\ inbox[i + 1].req = r /\ inbox[j + 1].req = r BY <1>2
  <2> QED BY <1>3, <2>1 DEF QueuedTwice
<1>8. Head(inbox).req = r /\ Queued(r)' => QueuedTwice(r)
  <2> SUFFICES ASSUME Head(inbox).req = r, NEW i \in DOMAIN inbox', inbox'[i].req = r
               PROVE  QueuedTwice(r)
    BY DEF Queued
  <2>1. 1 \in DOMAIN inbox /\ i + 1 \in DOMAIN inbox /\ i + 1 # 1 BY <1>2, <1>3
  <2>2. inbox[1].req = r /\ inbox[i + 1].req = r BY <1>2
  <2> QED BY <2>1, <2>2 DEF QueuedTwice
<1> QED BY <1>5, <1>6, <1>7, <1>8

\* The messages stay well formed when one more has come ...
LEMMA AppendTypes ==
  ASSUME EthTypes, NEW m \in [kind : Kinds, req : Reqs \cup {NoRequest}], Names(m),
         inbox' = Append(inbox, m)
  PROVE  /\ inbox' \in Seq([kind : Kinds, req : Reqs \cup {NoRequest}])
         /\ \A i \in DOMAIN inbox' : Names(inbox'[i])
<1> DEFINE M == [kind : Kinds, req : Reqs \cup {NoRequest}]
<1>1. inbox \in Seq(M) /\ m \in M BY DEF EthTypes
<1>2. \A i \in DOMAIN inbox : Names(inbox[i]) BY DEF EthTypes
<1> HIDE DEF M
<1>3. /\ DOMAIN inbox = 1..Len(inbox) /\ DOMAIN inbox' = 1..(Len(inbox) + 1)
      /\ Len(inbox) \in Nat
      /\ \A i \in 1..Len(inbox) : inbox'[i] = inbox[i]
      /\ inbox'[Len(inbox) + 1] = m
  BY <1>1
<1>4. \A i \in DOMAIN inbox' : i \in DOMAIN inbox \/ i = Len(inbox) + 1 BY <1>3
<1>5. inbox' \in Seq(M) BY <1>1
<1> QED BY <1>2, <1>3, <1>4, <1>5 DEF M

\* ... and when the first has been read.
LEMMA TailTypes ==
  ASSUME EthTypes, inbox # <<>>, inbox' = Tail(inbox)
  PROVE  /\ inbox' \in Seq([kind : Kinds, req : Reqs \cup {NoRequest}])
         /\ \A i \in DOMAIN inbox' : Names(inbox'[i])
<1> DEFINE M == [kind : Kinds, req : Reqs \cup {NoRequest}]
<1>1. inbox \in Seq(M) BY DEF EthTypes
<1>2. \A i \in DOMAIN inbox : Names(inbox[i]) BY DEF EthTypes
<1> HIDE DEF M
<1>3. /\ DOMAIN inbox = 1..Len(inbox) /\ DOMAIN inbox' = 1..(Len(inbox) - 1)
      /\ Len(inbox) \in Nat
      /\ \A i \in 1..(Len(inbox) - 1) : inbox'[i] = inbox[i + 1]
  BY <1>1
<1>4. \A i \in DOMAIN inbox' : i + 1 \in DOMAIN inbox /\ inbox'[i] = inbox[i + 1] BY <1>3
<1>5. inbox' \in Seq(M) BY <1>1
<1> QED BY <1>2, <1>4, <1>5 DEF M

\* The first message is a response, and then names a request, or it names none.
LEMMA HeadTypes ==
  ASSUME EthTypes, inbox # <<>>
  PROVE  /\ Head(inbox).kind = "response" => Head(inbox).req \in Reqs
         /\ Head(inbox).kind # "response" => Head(inbox).req = NoRequest
<1>1. /\ inbox \in Seq([kind : Kinds, req : Reqs \cup {NoRequest}])
      /\ \A i \in DOMAIN inbox : Names(inbox[i])
  BY DEF EthTypes
<1>2. 1 \in DOMAIN inbox /\ inbox[1] = Head(inbox) BY <1>1
<1> QED BY <1>1, <1>2 DEF Names

-----------------------------------------------------------------------------
(* The steps.                                                              *)

\* A step that has to do with no request.
Neutral ==
  /\ UNCHANGED <<callers, asked, answers, early, late>>
  /\ {hpc, hpc'} \subseteq {"status", "serve", "done"} \/ UNCHANGED hpc
  /\ UNCHANGED <<hreq, hok>>
  /\ \A r \in Reqs : (Queued(r)' <=> Queued(r)) /\ (QueuedTwice(r)' => QueuedTwice(r))
  /\ panicked' = "closedChannel" => UNCHANGED <<panicked>>

\* The steps of the peer, of the session and of the handler that are not about a request.
LEMMA NeutralSteps ==
  ASSUME EthTypes, PeerStep \/ SessionCloses \/ TellStream \/ WriteStatus \/ ReadFails \/ ReadStatus
                   \/ HandleOther \/ UNCHANGED ethVars
  PROVE  (Neutral /\ EthTypes') \/ \E r \in Reqs : PeerAnswers(r)
<1> USE DEF handler, served, peer, callers, history
<1>0. /\ hpc \in {"status", "serve", "unmarshal", "send", "done"}
      /\ hreq \in Reqs \cup {NoRequest} /\ hok \in BOOLEAN
      /\ panicked \in {"no", "badStatus", "unhandled", "closedChannel"}
  BY DEF EthTypes
<1>1. ASSUME UNCHANGED <<callers, asked, answers, early, late, hreq, hok>>,
             hpc' \in {"status", "serve", "unmarshal", "send", "done"},
             panicked' \in {"no", "badStatus", "unhandled", "closedChannel"},
             /\ inbox' \in Seq([kind : Kinds, req : Reqs \cup {NoRequest}])
             /\ \A i \in DOMAIN inbox' : Names(inbox'[i])
      PROVE  EthTypes'
  BY <1>1 DEF EthTypes
<1>2. ASSUME NEW kind \in Kinds \ {"response"}, PeerStatus(kind) \/ PeerSends(kind)
      PROVE  Neutral /\ EthTypes'
  <2> DEFINE m == [kind |-> kind, req |-> NoRequest]
  <2>1. inbox' = Append(inbox, m) /\ m \in [kind : Kinds, req : Reqs \cup {NoRequest}]
    BY <1>2 DEF PeerStatus, PeerSends
  <2>2. m.req = NoRequest /\ Names(m) BY DEF Names
  <2>3. UNCHANGED <<callers, asked, answers, early, late, hpc, hreq, hok, panicked>>
    BY <1>2 DEF PeerStatus, PeerSends
  <2> HIDE DEF m
  <2>4. /\ inbox' \in Seq([kind : Kinds, req : Reqs \cup {NoRequest}])
        /\ \A i \in DOMAIN inbox' : Names(inbox'[i])
    BY <2>1, <2>2, AppendTypes
  <2>5. \A r \in Reqs : (Queued(r)' <=> Queued(r)) /\ (QueuedTwice(r)' => QueuedTwice(r))
    BY <2>1, <2>2, AppendQueued, ReqsAssumption
  <2>6. EthTypes' BY <1>0, <1>1, <2>3, <2>4
  <2> QED BY <2>3, <2>5, <2>6 DEF Neutral
<1>3. ASSUME inbox' = inbox,
             UNCHANGED <<callers, asked, answers, early, late, hreq, hok, panicked>>,
             \/ hpc' \in {"status", "serve", "done"} /\ hpc \in {"status", "serve", "done"}
             \/ UNCHANGED hpc
      PROVE  Neutral /\ EthTypes'
  <2>1. \A r \in Reqs : (Queued(r)' <=> Queued(r)) /\ (QueuedTwice(r)' => QueuedTwice(r))
    BY <1>3 DEF Queued, QueuedTwice
  <2>2. Neutral BY <1>3, <2>1 DEF Neutral
  <2>3. hpc' \in {"status", "serve", "unmarshal", "send", "done"} BY <1>0, <1>3
  <2>4. /\ inbox' \in Seq([kind : Kinds, req : Reqs \cup {NoRequest}])
        /\ \A i \in DOMAIN inbox' : Names(inbox'[i])
    BY <1>3 DEF EthTypes
  <2>5. panicked' \in {"no", "badStatus", "unhandled", "closedChannel"} BY <1>0, <1>3
  <2> QED BY <1>1, <1>3, <2>2, <2>3, <2>4, <2>5
<1>4. CASE ReadStatus \/ HandleOther
  <2>1. /\ inbox # <<>> /\ inbox' = Tail(inbox)
        /\ Head(inbox).kind # "response" /\ hpc \in {"status", "serve"}
    BY <1>4 DEF ReadStatus, HandleOther, Reading
  <2>2. /\ UNCHANGED <<callers, asked, answers, early, late, hreq, hok>>
        /\ hpc' \in {"status", "serve", "done"}
        /\ panicked' \in {"no", "badStatus", "unhandled"} \/ UNCHANGED panicked
    BY <1>4 DEF ReadStatus, HandleOther, Reading, RunReturns
  <2>3. Head(inbox).req = NoRequest BY <2>1, HeadTypes
  <2>4. \A r \in Reqs : (Queued(r)' <=> Queued(r)) /\ (QueuedTwice(r)' => QueuedTwice(r))
    BY <2>1, <2>3, TailQueued, ReqsAssumption
  <2>5. Neutral BY <2>1, <2>2, <2>4 DEF Neutral
  <2>6. /\ inbox' \in Seq([kind : Kinds, req : Reqs \cup {NoRequest}])
        /\ \A i \in DOMAIN inbox' : Names(inbox'[i])
    BY <2>1, TailTypes
  <2>7. hpc' \in {"status", "serve", "unmarshal", "send", "done"} BY <2>2
  <2>8. panicked' \in {"no", "badStatus", "unhandled", "closedChannel"} BY <1>0, <2>2
  <2>9. EthTypes' BY <1>1, <2>2, <2>6, <2>7, <2>8
  <2> QED BY <2>5, <2>9
<1>5. CASE SessionCloses \/ TellStream \/ WriteStatus
  BY <1>3, <1>5 DEF SessionCloses, TellStream, WriteStatus
<1>6. CASE ReadFails BY <1>3, <1>6 DEF ReadFails, RunReturns
<1>7. CASE UNCHANGED ethVars BY <1>3, <1>7 DEF ethVars
<1>8. CASE PeerStep
  <2>1. {"status", "wrongStatus", "badStatus"} \subseteq Kinds \ {"response"}
        /\ {"notify", "get", "unhandled"} \subseteq Kinds \ {"response"}
    BY DEF Kinds
  <2> QED BY <1>2, <1>8, <2>1 DEF PeerStep
<1> QED BY <1>4, <1>5, <1>6, <1>7, <1>8

\* A step that has to do with no request keeps the invariant.
LEMMA NeutralKeeps ==
  ASSUME EthInv, Neutral, EthTypes'
  PROVE  EthInv'
<1> USE DEF callers
<1>1. \A r \in Reqs : (Delivering(r)' <=> Delivering(r)) /\ (Taken(r)' <=> Taken(r))
  BY DEF Neutral, Delivering, Taken
<1>2. CallersPlaced' BY DEF Neutral, EthInv, CallersPlaced
<1>3. HandReal' BY DEF Neutral, EthInv, HandReal
<1>4. AnswersCounted'
  <2>1. answers' = answers
        /\ \A r \in Reqs : (Queued(r)' <=> Queued(r)) /\ (QueuedTwice(r)' => QueuedTwice(r))
    BY DEF Neutral
  <2> QED BY <1>1, <2>1 DEF EthInv, AnswersCounted
<1>5. EarlyOrPending' BY <1>1 DEF Neutral, EthInv, EarlyOrPending
<1>6. OnlyOverdue' BY DEF Neutral, EthInv, OnlyOverdue, Overdue
<1> QED BY <1>2, <1>3, <1>4, <1>5, <1>6 DEF EthInv

\* An answer comes: its request has been asked, so that its caller has registered it or
\* is about to.
LEMMA PeerAnswersKeeps ==
  ASSUME EthInv, NEW r \in Reqs, PeerAnswers(r)
  PROVE  EthInv'
<1> DEFINE m == [kind |-> "response", req |-> r]
<1> USE DEF handler, served, callers, history
<1>0. EthTypes /\ answers \in [Reqs -> Nat] BY DEF EthInv, EthTypes
<1>1. /\ m \in [kind : Kinds, req : Reqs \cup {NoRequest}] /\ m.req = r /\ Names(m)
      /\ inbox' = Append(inbox, m)
  BY DEF PeerAnswers, Kinds, Names
<1>2. /\ UNCHANGED <<hpc, hreq, hok, inflight, ch, rpc, result, panicked, early, late, asked>>
      /\ answers' = [answers EXCEPT ![r] = answers[r] + 1] /\ r \in asked
  BY DEF PeerAnswers
<1> HIDE DEF m
<1>3. /\ answers' \in [Reqs -> Nat] /\ answers'[r] = answers[r] + 1 /\ answers[r] \in Nat
      /\ \A q \in Reqs : q # r => answers'[q] = answers[q]
  BY <1>0, <1>2
<1>4. EthTypes' BY <1>0, <1>1, <1>2, <1>3, AppendTypes DEF EthTypes
<1>5. \A q \in Reqs : /\ Queued(q)' <=> Queued(q) \/ q = r
                      /\ QueuedTwice(q)' => QueuedTwice(q) \/ (Queued(q) /\ q = r)
                      /\ Delivering(q)' <=> Delivering(q)
                      /\ Taken(q)' <=> Taken(q)
  BY <1>0, <1>1, <1>2, AppendQueued DEF Delivering, Taken
<1>6. \A q \in Reqs : answers'[q] > 0 => q \in asked
  BY <1>2, <1>3 DEF EthInv, CallersPlaced
<1>7. CallersPlaced' BY <1>2, <1>6 DEF EthInv, CallersPlaced
<1>8. HandReal' BY <1>2 DEF EthInv, HandReal
<1>9. AnswersCounted'
  <2> SUFFICES ASSUME NEW q \in Reqs
               PROVE  /\ Queued(q)' \/ Delivering(q)' \/ Taken(q)' => answers'[q] > 0
                      /\ QueuedTwice(q)' => answers'[q] > 1
                      /\ Queued(q)' /\ (Delivering(q)' \/ Taken(q)') => answers'[q] > 1
                      /\ Delivering(q)' /\ Taken(q)' => answers'[q] > 1
    BY DEF AnswersCounted
  <2>1. /\ Queued(q) \/ Delivering(q) \/ Taken(q) => answers[q] > 0
        /\ QueuedTwice(q) => answers[q] > 1
        /\ Queued(q) /\ (Delivering(q) \/ Taken(q)) => answers[q] > 1
        /\ Delivering(q) /\ Taken(q) => answers[q] > 1
    BY DEF EthInv, AnswersCounted
  <2>2. CASE q = r
    <3>1. /\ answers'[q] > 0 /\ (answers[q] > 0 => answers'[q] > 1)
          /\ answers[q] > 1 => answers'[q] > 1
      BY <1>3, <2>2
    <3> QED BY <1>5, <2>1, <3>1
  <2>3. CASE q # r BY <1>3, <1>5, <2>1, <2>3
  <2> QED BY <2>2, <2>3
<1>10. EarlyOrPending'
  <2> SUFFICES ASSUME NEW q \in Reqs, rpc'[q] \in {"store", "stored", "select"}, answers'[q] > 0
               PROVE  Queued(q)' \/ Delivering(q)' \/ q \in early'
    BY DEF EarlyOrPending
  <2>1. CASE q = r BY <1>5, <2>1
  <2>2. CASE q # r BY <1>2, <1>3, <1>5, <2>2 DEF EthInv, EarlyOrPending
  <2> QED BY <2>1, <2>2
<1>11. OnlyOverdue'
  <2>1. \A q \in Reqs : Overdue(q) => Overdue(q)' BY <1>2, <1>3 DEF Overdue
  <2> QED BY <1>2, <2>1 DEF EthInv, OnlyOverdue, EthTypes
<1> QED BY <1>4, <1>7, <1>8, <1>9, <1>10, <1>11 DEF EthInv

\* The handler takes an answer into its hand, or drops one that nobody has registered:
\* then its caller has returned, or the answer came early.
LEMMA LoadKeeps ==
  ASSUME EthInv, LoadRequest
  PROVE  EthInv'
<1> DEFINE r == Head(inbox).req
<1> USE DEF handler, served, callers, history, peer
<1>0. EthTypes /\ inbox # <<>> /\ inbox' = Tail(inbox) /\ hpc = "serve"
  BY DEF EthInv, LoadRequest, Reading
<1>1. r \in Reqs BY <1>0, HeadTypes DEF LoadRequest, Reading
<1>2. /\ UNCHANGED <<hok, inflight, ch, rpc, result, panicked, late, asked, answers>>
      /\ \/ r \in inflight /\ hpc' = "unmarshal" /\ hreq' = r /\ early' = early
         \/ /\ r \notin inflight /\ hpc' = hpc /\ hreq' = hreq
            /\ early' = early \cup (IF Returned(r) THEN {} ELSE {r})
  BY DEF LoadRequest
<1>3. \A q \in Reqs : /\ Queued(q) <=> Queued(q)' \/ r = q
                      /\ QueuedTwice(q)' => QueuedTwice(q)
                      /\ r = q /\ Queued(q)' => QueuedTwice(q)
                      /\ ~Delivering(q)
                      /\ Delivering(q)' => q = r
                      /\ Taken(q)' <=> Taken(q)
  BY <1>0, <1>2, TailQueued DEF Delivering, Taken
<1> HIDE DEF r
<1>4. EthTypes'
  <2>1. hpc' \in {"status", "serve", "unmarshal", "send", "done"} /\ hreq' \in Reqs \cup {NoRequest}
        /\ early' \subseteq Reqs
    BY <1>0, <1>1, <1>2 DEF EthTypes
  <2> QED BY <1>0, <1>2, <2>1, TailTypes DEF EthTypes
<1>5. CallersPlaced' BY <1>2 DEF EthInv, CallersPlaced
<1>6. HandReal'
  <2>1. r \in inflight => ch[r] # "none" BY <1>1 DEF EthInv, CallersPlaced
  <2> QED BY <1>0, <1>1, <1>2, <2>1 DEF HandReal
<1>7. AnswersCounted'
  <2> SUFFICES ASSUME NEW q \in Reqs
               PROVE  /\ Queued(q)' \/ Delivering(q)' \/ Taken(q)' => answers[q] > 0
                      /\ QueuedTwice(q)' => answers[q] > 1
                      /\ Queued(q)' /\ (Delivering(q)' \/ Taken(q)') => answers[q] > 1
                      /\ Delivering(q)' /\ Taken(q)' => answers[q] > 1
    BY <1>2 DEF AnswersCounted
  <2>1. /\ Queued(q) \/ Delivering(q) \/ Taken(q) => answers[q] > 0
        /\ QueuedTwice(q) => answers[q] > 1
        /\ Queued(q) /\ (Delivering(q) \/ Taken(q)) => answers[q] > 1
    BY DEF EthInv, AnswersCounted
  <2> QED BY <1>3, <2>1
<1>8. EarlyOrPending'
  <2> SUFFICES ASSUME NEW q \in Reqs, rpc[q] \in {"store", "stored", "select"}, answers[q] > 0
               PROVE  Queued(q)' \/ Delivering(q)' \/ q \in early'
    BY <1>2 DEF EarlyOrPending
  <2>1. Queued(q) \/ Delivering(q) \/ q \in early BY DEF EthInv, EarlyOrPending
  <2>2. ~Returned(q) BY DEF Returned
  <2>3. CASE q = r /\ r \in inflight BY <1>2, <2>3 DEF Delivering
  <2>4. CASE q = r /\ r \notin inflight BY <1>2, <2>2, <2>4
  <2>5. CASE q # r BY <1>2, <1>3, <2>1, <2>5
  <2> QED BY <2>3, <2>4, <2>5
<1>9. OnlyOverdue' BY <1>2 DEF EthInv, OnlyOverdue, Overdue
<1> QED BY <1>4, <1>5, <1>6, <1>7, <1>8, <1>9 DEF EthInv

\* What the handler has in its hand for a caller that has returned is overdue.
LEMMA HandOverdue ==
  ASSUME EthInv, hpc \in {"unmarshal", "send"}, Returned(hreq) \/ ch[hreq] = "closed"
  PROVE  hreq \in Reqs /\ Overdue(hreq)
<1>1. hreq \in Reqs /\ ch[hreq] # "none" BY DEF EthInv, HandReal
<1>2. result[hreq] \in {"ok", "bad", "timeout"}
  <2>1. rpc[hreq] \in {"idle", "write", "store", "stored", "select", "close", "delete", "done"}
    BY <1>1 DEF EthInv, EthTypes
  <2> QED BY <1>1, <2>1 DEF EthInv, CallersPlaced, Returned
<1>3. Taken(hreq) /\ Delivering(hreq) => answers[hreq] > 1 BY <1>1 DEF EthInv, AnswersCounted
<1> QED BY <1>1, <1>2, <1>3 DEF Overdue, Taken, Delivering

\* The body is decoded, for a caller that waits, or for one that is overdue.
LEMMA UnmarshalKeeps ==
  ASSUME EthInv, Unmarshal
  PROVE  EthInv'
<1> USE DEF served, callers, history, peer
<1>1. /\ hpc = "unmarshal" /\ hpc' = "send" /\ hok' \in BOOLEAN
      /\ UNCHANGED <<inbox, hreq, inflight, ch, rpc, result, panicked, early, asked, answers>>
      /\ late' = late \cup (IF Returned(hreq) THEN {hreq} ELSE {})
  BY DEF Unmarshal
<1>2. Returned(hreq) => hreq \in Reqs /\ Overdue(hreq) BY <1>1, HandOverdue
<1>3. EthTypes' BY <1>1, <1>2 DEF EthInv, EthTypes
<1>4. CallersPlaced' BY <1>1 DEF EthInv, CallersPlaced
<1>5. HandReal' BY <1>1 DEF EthInv, HandReal
<1>6. \A q \in Reqs : /\ Queued(q)' <=> Queued(q)
                      /\ QueuedTwice(q)' <=> QueuedTwice(q)
                      /\ Delivering(q)' <=> Delivering(q)
                      /\ Taken(q)' <=> Taken(q)
  BY <1>1 DEF Queued, QueuedTwice, Delivering, Taken
<1>7. AnswersCounted'
  <2>1. answers' = answers BY <1>1
  <2> QED BY <1>6, <2>1 DEF EthInv, AnswersCounted
<1>8. EarlyOrPending'
  <2>1. UNCHANGED <<answers, rpc, early>> BY <1>1
  <2> QED BY <1>6, <2>1 DEF EthInv, EarlyOrPending
<1>9. OnlyOverdue'
  <2>1. \A q : Overdue(q)' <=> Overdue(q) BY <1>1 DEF Overdue
  <2>2. UNCHANGED <<panicked, ch>> BY <1>1
  <2> QED BY <1>1, <1>2, <2>1, <2>2 DEF EthInv, OnlyOverdue
<1> QED BY <1>3, <1>4, <1>5, <1>7, <1>8, <1>9 DEF EthInv

\* The result is sent: it reaches a caller that waits, panics on the channel of one that
\* is overdue, and is dropped by a caller that has returned or is not waiting yet.
LEMMA SendKeeps ==
  ASSUME EthInv, SendResult, panicked = "no"
  PROVE  EthInv'
<1> USE DEF served, callers, history, peer
<1>0. /\ hpc = "send" /\ hpc' = "serve" /\ hreq' = NoRequest /\ hok' = FALSE
      /\ UNCHANGED <<inbox, inflight, ch, late, asked, answers>>
  BY DEF SendResult
<1>1. hreq \in Reqs /\ ch[hreq] \in {"open", "closed"}
  BY <1>0 DEF EthInv, HandReal, EthTypes
<1>2. \A q \in Reqs : /\ Queued(q)' <=> Queued(q)
                      /\ QueuedTwice(q)' <=> QueuedTwice(q)
                      /\ Delivering(q) <=> q = hreq
                      /\ ~Delivering(q)'
  BY <1>0 DEF Queued, QueuedTwice, Delivering
<1>3. HandReal' BY <1>0 DEF HandReal
<1>4. CASE ch[hreq] = "closed"
  <2>1. panicked' = "closedChannel" /\ UNCHANGED <<rpc, result, early>>
    BY <1>1, <1>4 DEF SendResult
  <2>2. Overdue(hreq) BY <1>0, <1>4, HandOverdue
  <2>3. EthTypes' BY <1>0, <2>1 DEF EthInv, EthTypes
  <2>4. CallersPlaced' BY <1>0, <2>1 DEF EthInv, CallersPlaced
  <2>5. AnswersCounted'
    <3>1. answers' = answers /\ \A q \in Reqs : Taken(q)' <=> Taken(q) BY <1>0, <2>1 DEF Taken
    <3> QED BY <1>2, <3>1 DEF EthInv, AnswersCounted
  <2>6. EarlyOrPending'
    <3> SUFFICES ASSUME NEW q \in Reqs, rpc[q] \in {"store", "stored", "select"}, answers[q] > 0
                 PROVE  Queued(q)' \/ q \in early
      BY <1>0, <2>1 DEF EarlyOrPending
    <3>1. q # hreq BY <1>1, <1>4 DEF EthInv, CallersPlaced
    <3> QED BY <1>2, <3>1 DEF EthInv, EarlyOrPending
  <2>7. OnlyOverdue'
    <3>1. \A q \in Reqs : Overdue(q)' <=> Overdue(q) BY <1>0, <2>1 DEF Overdue
    <3>2. late' = late /\ ch' = ch /\ late \subseteq Reqs BY <1>0 DEF EthInv, EthTypes
    <3> QED BY <1>1, <1>4, <2>2, <3>1, <3>2 DEF EthInv, OnlyOverdue
  <2> QED BY <1>3, <2>3, <2>4, <2>5, <2>6, <2>7 DEF EthInv
<1>5. CASE ch[hreq] = "open" /\ rpc[hreq] = "select"
  <2>0. /\ rpc' = [rpc EXCEPT ![hreq] = "close"]
        /\ result' = [result EXCEPT ![hreq] = IF hok THEN "ok" ELSE "bad"]
        /\ UNCHANGED <<panicked, early>>
    BY <1>1, <1>5 DEF SendResult
  <2>1. /\ rpc'[hreq] = "close" /\ result'[hreq] \in {"ok", "bad"} /\ result[hreq] = "none"
        /\ \A q \in Reqs : q # hreq => rpc'[q] = rpc[q] /\ result'[q] = result[q]
    BY <1>1, <1>5, <2>0 DEF EthInv, EthTypes, CallersPlaced
  <2>2. EthTypes' BY <1>0, <1>1, <2>0 DEF EthInv, EthTypes
  <2>3. CallersPlaced'
    <3> SUFFICES ASSUME NEW q \in Reqs
                 PROVE  /\ q \in inflight <=> rpc'[q] \in {"stored", "select", "close", "delete"}
                        /\ rpc'[q] \in {"idle", "write", "store"} =>
                             ch[q] = "none" /\ result'[q] = "none"
                        /\ rpc'[q] \in {"stored", "select"} => ch[q] = "open" /\ result'[q] = "none"
                        /\ rpc'[q] = "close" =>
                             ch[q] = "open" /\ result'[q] \in {"ok", "bad", "timeout"}
                        /\ rpc'[q] = "delete" =>
                             ch[q] = "closed" /\ result'[q] \in {"ok", "bad", "timeout"}
                        /\ rpc'[q] = "done" =>
                             \/ ch[q] = "none" /\ result'[q] = "ioErr"
                             \/ ch[q] = "closed" /\ result'[q] \in {"ok", "bad", "timeout"}
                        /\ q \in asked => rpc'[q] \notin {"idle", "write"}
                        /\ answers[q] > 0 => q \in asked
      BY <1>0 DEF CallersPlaced
    <3>1. CASE q = hreq BY <1>1, <1>5, <2>1, <3>1 DEF EthInv, CallersPlaced
    <3>2. CASE q # hreq BY <2>1, <3>2 DEF EthInv, CallersPlaced
    <3> QED BY <3>1, <3>2
  <2>4. AnswersCounted'
    <3>1. answers' = answers /\ \A q \in Reqs : q # hreq => (Taken(q)' <=> Taken(q))
      BY <1>0, <2>1 DEF Taken
    <3>2. /\ answers[hreq] > 0
          /\ QueuedTwice(hreq) => answers[hreq] > 1
          /\ Queued(hreq) => answers[hreq] > 1
      BY <1>1, <1>2 DEF EthInv, AnswersCounted
    <3> SUFFICES ASSUME NEW q \in Reqs
                 PROVE  /\ Queued(q)' \/ Taken(q)' => answers[q] > 0
                        /\ QueuedTwice(q)' => answers[q] > 1
                        /\ Queued(q)' /\ Taken(q)' => answers[q] > 1
      BY <1>2, <3>1 DEF AnswersCounted
    <3>3. CASE q = hreq BY <1>2, <3>2, <3>3
    <3>4. CASE q # hreq BY <1>2, <3>1, <3>4 DEF EthInv, AnswersCounted
    <3> QED BY <3>3, <3>4
  <2>5. EarlyOrPending'
    <3> SUFFICES ASSUME NEW q \in Reqs, rpc'[q] \in {"store", "stored", "select"}, answers[q] > 0
                 PROVE  Queued(q)' \/ q \in early
      BY <1>0, <2>0 DEF EarlyOrPending
    <3>1. q # hreq BY <2>1
    <3> QED BY <1>2, <2>1, <3>1 DEF EthInv, EarlyOrPending
  <2>6. OnlyOverdue'
    <3>1. \A q \in Reqs : Overdue(q) => Overdue(q)'
      BY <1>0, <2>1 DEF Overdue
    <3>2. late' = late /\ late \subseteq Reqs /\ panicked' # "closedChannel"
      BY <1>0, <2>0 DEF EthInv, EthTypes
    <3> QED BY <3>1, <3>2 DEF EthInv, OnlyOverdue
  <2> QED BY <1>3, <2>2, <2>3, <2>4, <2>5, <2>6 DEF EthInv
<1>6. CASE ch[hreq] = "open" /\ rpc[hreq] # "select"
  <2>1. /\ early' = early \cup (IF Returned(hreq) THEN {} ELSE {hreq})
        /\ UNCHANGED <<rpc, result, panicked>>
    BY <1>1, <1>6 DEF SendResult
  <2>2. EthTypes' BY <1>0, <1>1, <2>1 DEF EthInv, EthTypes
  <2>3. CallersPlaced' BY <1>0, <2>1 DEF EthInv, CallersPlaced
  <2>4. AnswersCounted'
    <3>1. answers' = answers /\ \A q \in Reqs : Taken(q)' <=> Taken(q) BY <1>0, <2>1 DEF Taken
    <3> QED BY <1>2, <3>1 DEF EthInv, AnswersCounted
  <2>5. EarlyOrPending'
    <3> SUFFICES ASSUME NEW q \in Reqs, rpc[q] \in {"store", "stored", "select"}, answers[q] > 0
                 PROVE  Queued(q)' \/ q \in early'
      BY <1>0, <2>1 DEF EarlyOrPending
    <3>1. ~Returned(q) BY DEF Returned
    <3>2. CASE q = hreq BY <2>1, <3>1, <3>2
    <3>3. CASE q # hreq BY <1>2, <2>1, <3>3 DEF EthInv, EarlyOrPending
    <3> QED BY <3>2, <3>3
  <2>6. OnlyOverdue'
    <3>1. \A q \in Reqs : Overdue(q)' <=> Overdue(q) BY <1>0, <2>1 DEF Overdue
    <3>2. late' = late /\ late \subseteq Reqs /\ panicked' # "closedChannel"
      BY <1>0, <2>1 DEF EthInv, EthTypes
    <3> QED BY <3>1, <3>2 DEF EthInv, OnlyOverdue
  <2> QED BY <1>3, <2>2, <2>3, <2>4, <2>5, <2>6 DEF EthInv
<1> QED BY <1>1, <1>4, <1>5, <1>6

\* The steps of a caller: its place, channel, result and entry in the map change together.
LEMMA CallerKeeps ==
  ASSUME EthInv, panicked = "no", NEW r \in Reqs, Call(r) \/ CallerStep(r)
  PROVE  EthInv'
<1> USE DEF handler, served, callers, history, peer
<1>0. /\ UNCHANGED <<inbox, hpc, hreq, hok, panicked, early, late, answers>>
      /\ \A q \in Reqs : q # r => /\ rpc'[q] = rpc[q] /\ ch'[q] = ch[q] /\ result'[q] = result[q]
                                  /\ q \in inflight' <=> q \in inflight
                                  /\ q \in asked' <=> q \in asked
  <2>1. UNCHANGED <<inbox, hpc, hreq, hok, panicked, early, late, answers>>
    BY DEF Call, CallerStep, WriteRequest, Store, Select, Timeout, CloseChan, Delete
  <2>2. rpc \in [Reqs -> {"idle", "write", "store", "stored", "select", "close", "delete", "done"}]
        /\ ch \in [Reqs -> {"none", "open", "closed"}]
        /\ result \in [Reqs -> {"none", "ok", "bad", "timeout", "ioErr"}]
    BY DEF EthInv, EthTypes
  <2>3. \A q \in Reqs : q # r => /\ rpc'[q] = rpc[q] /\ ch'[q] = ch[q] /\ result'[q] = result[q]
                                 /\ q \in inflight' <=> q \in inflight
                                 /\ q \in asked' <=> q \in asked
    BY <2>2 DEF Call, CallerStep, WriteRequest, Store, Select, Timeout, CloseChan, Delete
  <2> QED BY <2>1, <2>3
<1>1. EthTypes'
  <2>1. /\ rpc \in [Reqs -> {"idle", "write", "store", "stored", "select",
                             "close", "delete", "done"}]
        /\ ch \in [Reqs -> {"none", "open", "closed"}]
        /\ result \in [Reqs -> {"none", "ok", "bad", "timeout", "ioErr"}]
        /\ inflight \subseteq Reqs /\ asked \subseteq Reqs
    BY DEF EthInv, EthTypes
  <2>2. /\ rpc' \in [Reqs -> {"idle", "write", "store", "stored", "select",
                              "close", "delete", "done"}]
        /\ ch' \in [Reqs -> {"none", "open", "closed"}]
        /\ result' \in [Reqs -> {"none", "ok", "bad", "timeout", "ioErr"}]
        /\ inflight' \subseteq Reqs /\ asked' \subseteq Reqs
    BY <2>1 DEF Call, CallerStep, WriteRequest, Store, Select, Timeout, CloseChan, Delete
  <2> QED BY <1>0, <2>2 DEF EthInv, EthTypes
<1> DEFINE Placed == /\ r \in inflight' <=> rpc'[r] \in {"stored", "select", "close", "delete"}
                     /\ rpc'[r] \in {"idle", "write", "store"} =>
                          ch'[r] = "none" /\ result'[r] = "none"
                     /\ rpc'[r] \in {"stored", "select"} => ch'[r] = "open" /\ result'[r] = "none"
                     /\ rpc'[r] = "close" =>
                          ch'[r] = "open" /\ result'[r] \in {"ok", "bad", "timeout"}
                     /\ rpc'[r] = "delete" =>
                          ch'[r] = "closed" /\ result'[r] \in {"ok", "bad", "timeout"}
                     /\ rpc'[r] = "done" =>
                          \/ ch'[r] = "none" /\ result'[r] = "ioErr"
                          \/ ch'[r] = "closed" /\ result'[r] \in {"ok", "bad", "timeout"}
                     /\ r \in asked' => rpc'[r] \notin {"idle", "write"}
                     /\ answers'[r] > 0 => r \in asked'
<1>2. Placed
  <2>1. /\ r \in inflight <=> rpc[r] \in {"stored", "select", "close", "delete"}
        /\ rpc[r] \in {"idle", "write", "store"} => ch[r] = "none" /\ result[r] = "none"
        /\ rpc[r] \in {"stored", "select"} => ch[r] = "open" /\ result[r] = "none"
        /\ rpc[r] = "close" => ch[r] = "open" /\ result[r] \in {"ok", "bad", "timeout"}
        /\ rpc[r] = "delete" => ch[r] = "closed" /\ result[r] \in {"ok", "bad", "timeout"}
        /\ r \in asked => rpc[r] \notin {"idle", "write"}
        /\ answers[r] > 0 => r \in asked
    BY DEF EthInv, CallersPlaced
  <2>2. /\ rpc \in [Reqs -> {"idle", "write", "store", "stored", "select",
                             "close", "delete", "done"}]
        /\ ch \in [Reqs -> {"none", "open", "closed"}]
        /\ result \in [Reqs -> {"none", "ok", "bad", "timeout", "ioErr"}]
    BY DEF EthInv, EthTypes
  <2>3. CASE Call(r) BY <2>1, <2>2, <2>3 DEF Call
  <2>4. CASE WriteRequest(r) BY <2>1, <2>2, <2>4 DEF WriteRequest
  <2>5. CASE Store(r) BY <2>1, <2>2, <2>5 DEF Store
  <2>6. CASE Select(r) BY <2>1, <2>2, <2>6 DEF Select
  <2>7. CASE Timeout(r) BY <2>1, <2>2, <2>7 DEF Timeout
  <2>8. CASE CloseChan(r) BY <2>1, <2>2, <2>8 DEF CloseChan
  <2>9. CASE Delete(r) BY <2>1, <2>2, <2>9 DEF Delete
  <2> QED BY <2>3, <2>4, <2>5, <2>6, <2>7, <2>8, <2>9 DEF CallerStep
<1>3. CallersPlaced'
  <2>1. answers' = answers BY <1>0
  <2> QED BY <1>0, <1>2, <2>1 DEF EthInv, CallersPlaced
<1>4. /\ ch[r] # "none" => ch'[r] # "none"
      /\ Taken(r)' <=> Taken(r)
      /\ Overdue(r) => Overdue(r)'
      /\ rpc'[r] \in {"store", "stored", "select"} /\ answers[r] > 0 =>
           rpc[r] \in {"store", "stored", "select"}
  <2>1. /\ rpc \in [Reqs -> {"idle", "write", "store", "stored", "select",
                             "close", "delete", "done"}]
        /\ ch \in [Reqs -> {"none", "open", "closed"}]
        /\ result \in [Reqs -> {"none", "ok", "bad", "timeout", "ioErr"}]
    BY DEF EthInv, EthTypes
  <2>2. /\ rpc[r] \in {"write", "stored", "select"} => result[r] = "none"
        /\ answers[r] > 0 => rpc[r] \notin {"idle", "write"}
    BY DEF EthInv, CallersPlaced
  <2>3. ch[r] # "none" => ch'[r] # "none"
    BY <2>1 DEF Call, CallerStep, WriteRequest, Store, Select, Timeout, CloseChan, Delete
  <2>4. result'[r] = result[r] \/ (result[r] = "none" /\ result'[r] \in {"timeout", "ioErr"})
    BY <2>1, <2>2 DEF Call, CallerStep, WriteRequest, Store, Select, Timeout, CloseChan, Delete
  <2>5. rpc'[r] \in {"store", "stored", "select"} /\ answers[r] > 0 =>
          rpc[r] \in {"store", "stored", "select"}
    BY <2>1, <2>2 DEF Call, CallerStep, WriteRequest, Store, Select, Timeout, CloseChan, Delete
  <2> QED BY <1>0, <2>3, <2>4, <2>5 DEF Taken, Overdue
<1>5. \A q \in Reqs : /\ ch[q] # "none" => ch'[q] # "none"
                      /\ Taken(q)' <=> Taken(q)
                      /\ Overdue(q) => Overdue(q)'
                      /\ rpc'[q] \in {"store", "stored", "select"} /\ answers[q] > 0 =>
                           rpc[q] \in {"store", "stored", "select"}
  BY <1>0, <1>4 DEF Taken, Overdue
<1>6. HandReal' BY <1>0, <1>5 DEF EthInv, HandReal
<1>7. \A q \in Reqs : /\ Queued(q)' <=> Queued(q)
                      /\ QueuedTwice(q)' <=> QueuedTwice(q)
                      /\ Delivering(q)' <=> Delivering(q)
  BY <1>0 DEF Queued, QueuedTwice, Delivering
<1>8. AnswersCounted'
  <2>1. answers' = answers BY <1>0
  <2> QED BY <1>5, <1>7, <2>1 DEF EthInv, AnswersCounted
<1>9. EarlyOrPending'
  <2>1. answers' = answers /\ early' = early BY <1>0
  <2> QED BY <1>5, <1>7, <2>1 DEF EthInv, EarlyOrPending
<1>10. OnlyOverdue'
  <2>1. late' = late /\ late \subseteq Reqs /\ panicked' # "closedChannel"
    BY <1>0 DEF EthInv, EthTypes
  <2> QED BY <1>5, <2>1 DEF EthInv, OnlyOverdue
<1> QED BY <1>1, <1>3, <1>6, <1>8, <1>9, <1>10 DEF EthInv

-----------------------------------------------------------------------------
(* The theorems.                                                           *)

\* EthInv is an invariant, for every set of requests and every bound on the messages.
THEOREM EthInvariance == EthSpec => []EthInv
<1>1. EthInit => EthInv
  <2> SUFFICES ASSUME EthInit PROVE EthInv OBVIOUS
  <2>1. EthTypes
    <3>1. inbox \in Seq([kind : Kinds, req : Reqs \cup {NoRequest}]) /\ DOMAIN inbox = {}
      BY DEF EthInit
    <3>2. answers \in [Reqs -> Nat] BY DEF EthInit
    <3> QED BY <3>1, <3>2 DEF EthInit, EthTypes
  <2>2. CallersPlaced BY DEF EthInit, CallersPlaced
  <2>3. HandReal BY DEF EthInit, HandReal
  <2>4. AnswersCounted
    BY DEF EthInit, AnswersCounted, Queued, QueuedTwice, Delivering, Taken
  <2>5. EarlyOrPending BY DEF EthInit, EarlyOrPending
  <2>6. OnlyOverdue BY DEF EthInit, OnlyOverdue
  <2> QED BY <2>1, <2>2, <2>3, <2>4, <2>5, <2>6 DEF EthInv
<1>2. EthInv /\ [EthNext]_ethVars => EthInv'
  <2> SUFFICES ASSUME EthInv, [EthNext]_ethVars PROVE EthInv' OBVIOUS
  <2>1. CASE \/ PeerStep \/ SessionCloses \/ TellStream \/ WriteStatus
             \/ ReadFails \/ ReadStatus \/ HandleOther \/ UNCHANGED ethVars
    <3>1. (Neutral /\ EthTypes') \/ \E r \in Reqs : PeerAnswers(r)
      BY <2>1, NeutralSteps DEF EthInv
    <3> QED BY <3>1, NeutralKeeps, PeerAnswersKeeps
  <2>2. CASE EthNext
    <3>1. panicked = "no" BY <2>2 DEF EthNext
    <3>2. CASE LoadRequest BY <3>2, LoadKeeps
    <3>3. CASE Unmarshal BY <3>3, UnmarshalKeeps
    <3>4. CASE SendResult BY <3>1, <3>4, SendKeeps
    <3>5. CASE \E r \in Reqs : Call(r) \/ CallerStep(r) BY <3>1, <3>5, CallerKeeps
    <3> QED BY <2>1, <2>2, <3>2, <3>3, <3>4, <3>5 DEF EthNext, HandlerStep
  <2> QED BY <2>1, <2>2
<1> QED BY <1>1, <1>2, PTL DEF EthSpec

\* A request is over when it has returned, if the peer answers once and in time: a late
\* write to dst and the panic on the closed channel come only after a timeout or with a
\* second answer; exactly the requests under way are in the map.
THEOREM EthOverWhenReturned == EthSpec => []OverWhenReturned
<1>1. EthInv => OverWhenReturned
  <2> SUFFICES ASSUME EthInv PROVE OverWhenReturned OBVIOUS
  <2>1. inflight = {r \in Reqs : rpc[r] \in {"stored", "select", "close", "delete"}}
    BY DEF EthInv, EthTypes, CallersPlaced
  <2>2. \A r \in Reqs : rpc[r] \in {"stored", "select", "close"} => ch[r] = "open"
    BY DEF EthInv, CallersPlaced
  <2> QED BY <2>1, <2>2 DEF EthInv, OnlyOverdue, Overdue, OverWhenReturned
<1> QED BY <1>1, EthInvariance, PTL

\* No answer is lost on a caller that waits for it: one that is gone came before the
\* caller was at its receive.
THEOREM EthNoAnswerLost == EthSpec => []NoAnswerLostWhileWaiting
<1>1. EthInv => NoAnswerLostWhileWaiting
  BY DEF EthInv, EarlyOrPending, NoAnswerLostWhileWaiting, AnswerPending, Queued, Delivering
<1> QED BY <1>1, EthInvariance, PTL


-----------------------------------------------------------------------------
(* Fork identifiers: ForkID, for any lists of forks and any heads.         *)

\* What NewForkID lays out: blocks in increasing order, from genesis to infinity.
Steps(s) ==
  /\ s \in Seq(Nat) /\ Len(s) >= 2
  /\ s[1] = 0 /\ s[Len(s)] = MaxUint64
  /\ \A k, l \in DOMAIN s : k < l => s[k] < s[l]

\* The steps of a list of forks: genesis, its forks in order, and the end.
stepsOf(list) == <<0>> \o cleanForks(list) \o <<MaxUint64>>

\* The table newForks makes of the steps: each with the sum of those up to it.
tableOf(s) == [i \in DOMAIN s |-> [number |-> s[i], sum |-> SubSeq(s, 1, i)]]

\* The types of steps.
LEMMA StepsType ==
  ASSUME NEW s, Steps(s)
  PROVE  /\ DOMAIN s = 1..Len(s) /\ Len(s) \in Nat
         /\ \A k \in DOMAIN s : s[k] \in Nat
         /\ \A k, l \in DOMAIN s : k < l => s[k] < s[l]
BY DEF Steps

\* Sorting a list of blocks leaves the same blocks, in order.
LEMMA BlocksSorted ==
  ASSUME NEW list \in Seq(Nat)
  PROVE  LET t == SortedBy(list, ascending(list))
         IN  /\ t \in Seq(Nat) /\ Len(t) = Len(list)
             /\ \A k, l \in DOMAIN t : k < l => t[k] <= t[l]
             /\ \A i \in DOMAIN list : \E k \in DOMAIN t : t[k] = list[i]
             /\ \A k \in DOMAIN t : \E i \in DOMAIN list : t[k] = list[i]
<1> DEFINE R == ascending(list)
           n == Len(list)
<1>0. n \in Nat /\ DOMAIN list = 1..n /\ \A i \in 1..n : list[i] \in Nat OBVIOUS
<1>1. \A i, j \in 1..n : <<i, j>> \in R <=>
        list[i] < list[j] \/ (list[i] = list[j] /\ i < j)
  BY <1>0 DEF ascending
<1>2. StrictOrder(R, n)
  <2> HIDE DEF R, n
  <2> QED BY <1>0, <1>1 DEF StrictOrder
<1>3. PICK p : Sorts(p, R, n) /\ SortedBy(list, R) = [k \in 1..n |-> list[p[k]]]
  <2> HIDE DEF R
  <2> QED BY <1>2, SortedBySorts
<1> DEFINE t == [k \in 1..n |-> list[p[k]]]
<1>4. /\ p \in [1..n -> 1..n]
      /\ \A i \in 1..n : \E k \in 1..n : p[k] = i
      /\ \A k, l \in 1..n : k < l => <<p[k], p[l]>> \in R
  BY <1>3 DEF Sorts
<1>5. t \in Seq(Nat) /\ Len(t) = n /\ DOMAIN t = 1..n /\ \A k \in 1..n : t[k] = list[p[k]]
  <2> HIDE DEF n
  <2>1. \A k \in 1..n : list[p[k]] \in Nat BY <1>0, <1>4
  <2>2. t \in [1..n -> Nat] BY <2>1
  <2> QED BY <1>0, <2>2
<1>6. ASSUME NEW k \in 1..n, NEW l \in 1..n, k < l PROVE t[k] <= t[l]
  <2>1. <<p[k], p[l]>> \in R BY <1>4, <1>6
  <2>2. p[k] \in 1..n /\ p[l] \in 1..n BY <1>4
  <2>3. list[p[k]] < list[p[l]] \/ list[p[k]] = list[p[l]]
    <3> HIDE DEF R
    <3> QED BY <1>1, <2>1, <2>2
  <2> QED BY <1>0, <1>5, <2>2, <2>3
<1>7. \A i \in 1..n : \E k \in 1..n : t[k] = list[i] BY <1>4, <1>5
<1>8. \A k \in 1..n : \E i \in 1..n : t[k] = list[i] BY <1>4, <1>5
<1>9. SortedBy(list, ascending(list)) = t BY <1>3
<1> HIDE DEF t
<1> QED BY <1>0, <1>5, <1>6, <1>7, <1>8, <1>9

\* cleanForks leaves every fork once, in order, and no block 0.
LEMMA ForksCleaned ==
  ASSUME NEW list \in Seq(Nat)
  PROVE  LET c == cleanForks(list)
         IN  /\ c \in Seq(Nat) /\ \A k, l \in DOMAIN c : k < l => c[k] < c[l]
             /\ \A k \in DOMAIN c : c[k] # 0 /\ \E i \in DOMAIN list : c[k] = list[i]
             /\ \A i \in DOMAIN list : list[i] # 0 => \E k \in DOMAIN c : c[k] = list[i]
<1> DEFINE t == SortedBy(list, ascending(list))
           kept == {i \in DOMAIN t : (i > 1 => t[i] # t[i - 1]) /\ t[i] # 0}
           c == ElementsAt(t, kept)
           f == InOrder(kept)
           m == Cardinality(kept)
<1>1. /\ t \in Seq(Nat) /\ Len(t) = Len(list)
      /\ \A k, l \in DOMAIN t : k < l => t[k] <= t[l]
      /\ \A i \in DOMAIN list : \E k \in DOMAIN t : t[k] = list[i]
      /\ \A k \in DOMAIN t : \E i \in DOMAIN list : t[k] = list[i]
  BY BlocksSorted
<1>2. cleanForks(list) = c BY DEF cleanForks
<1> HIDE DEF t
<1>3. t \in Seq(Nat) BY <1>1
<1>4. kept \in SUBSET DOMAIN t OBVIOUS
<1>5. \A i \in kept : i \in DOMAIN t /\ (i > 1 => t[i] # t[i - 1]) /\ t[i] # 0 OBVIOUS
<1>6. \A i \in DOMAIN t : (i > 1 => t[i] # t[i - 1]) /\ t[i] # 0 => i \in kept OBVIOUS
<1>7. Len(t) \in Nat /\ DOMAIN t = 1..Len(t) /\ \A i \in 1..Len(t) : t[i] \in Nat BY <1>3
<1>8. \A k, l \in 1..Len(t) : k < l => t[k] <= t[l] BY <1>1, <1>7
<1>9. \A i \in DOMAIN list : \E k \in 1..Len(t) : t[k] = list[i] BY <1>1, <1>7
<1>10. \A k \in 1..Len(t) : \E i \in DOMAIN list : t[k] = list[i] BY <1>1, <1>7
<1> HIDE DEF kept
<1>11. /\ m \in Nat /\ f \in [1..m -> kept] /\ Enumerates(f, kept)
      /\ c \in Seq(Nat) /\ DOMAIN c = 1..m /\ \A k \in 1..m : c[k] = t[f[k]]
  <2>1. Cardinality(kept) \in Nat /\ InOrder(kept) \in [1..Cardinality(kept) -> kept]
        /\ Enumerates(InOrder(kept), kept) /\ ElementsAt(t, kept) \in Seq(Nat)
        /\ DOMAIN ElementsAt(t, kept) = 1..Cardinality(kept)
        /\ \A k \in 1..Cardinality(kept) : ElementsAt(t, kept)[k] = t[InOrder(kept)[k]]
    BY <1>3, <1>4, ElementsAtPositions, Zenon
  <2> QED BY <2>1
<1> HIDE DEF c, f
<1>12. ASSUME NEW i \in kept PROVE \E k \in DOMAIN c : c[k] = t[i]
  <2>1. PICK k \in 1..m : f[k] = i BY <1>11 DEF Enumerates
  <2> QED BY <1>11, <2>1
<1>13. \A k, l \in 1..m : k < l => f[k] < f[l] BY <1>11 DEF Enumerates
<1> HIDE DEF m
<1>14. ASSUME NEW k \in 1..m, NEW l \in 1..m, k < l PROVE c[k] < c[l]
  <2> DEFINE a == f[k]
             b == f[l]
  <2>1. a \in kept /\ b \in kept /\ a < b /\ c[k] = t[a] /\ c[l] = t[b] BY <1>11, <1>13, <1>14
  <2> HIDE DEF a, b
  <2>2. a \in 1..Len(t) /\ b \in 1..Len(t) BY <1>5, <1>7, <2>1
  <2>3. b - 1 \in 1..Len(t) /\ t[b] # t[b - 1]
    BY <1>5, <1>7, <2>1, <2>2
  <2>4. t[b - 1] <= t[b] BY <1>8, <2>2, <2>3
  <2>5. t[a] <= t[b - 1]
    <3>1. CASE a = b - 1 BY <1>7, <2>2, <3>1
    <3>2. CASE a < b - 1 BY <1>8, <2>2, <2>3, <3>2
    <3> QED BY <2>1, <2>2, <3>1, <3>2
  <2>6. t[a] \in Nat /\ t[b] \in Nat /\ t[b - 1] \in Nat BY <1>7, <2>2, <2>3
  <2>7. \A x, y, z \in Nat : x <= y /\ y <= z /\ z # y => x < z OBVIOUS
  <2>8. t[a] < t[b] BY <2>3, <2>4, <2>5, <2>6, <2>7
  <2> QED BY <2>1, <2>8
<1>15. ASSUME NEW k \in 1..m PROVE c[k] # 0 /\ \E i \in DOMAIN list : c[k] = list[i]
  <2>1. f[k] \in kept /\ c[k] = t[f[k]] BY <1>11
  <2>2. f[k] \in 1..Len(t) /\ t[f[k]] # 0 BY <1>5, <1>7, <2>1
  <2> QED BY <1>10, <2>1, <2>2
<1>16. ASSUME NEW i \in DOMAIN list, list[i] # 0 PROVE \E k \in DOMAIN c : c[k] = list[i]
  <2> DEFINE Places == {k \in 1..Len(t) : t[k] = list[i]}
  <2>1. Places \subseteq Nat /\ Places # {}
    <3>1. PICK k \in 1..Len(t) : t[k] = list[i] BY <1>9
    <3>2. k \in Places BY <3>1
    <3>3. Places \subseteq Nat OBVIOUS
    <3> HIDE DEF Places
    <3> QED BY <3>2, <3>3
  <2>2. PICK k \in Places : \A j \in Places : k <= j
    <3> HIDE DEF Places
    <3> QED BY <2>1, LeastNumber
  <2>3. k \in 1..Len(t) /\ t[k] = list[i] BY <1>7, <2>2
  <2>4. ASSUME k > 1 PROVE t[k] # t[k - 1]
    <3> SUFFICES ASSUME t[k] = t[k - 1] PROVE FALSE OBVIOUS
    <3>1. k - 1 \in 1..Len(t) BY <1>7, <2>3, <2>4
    <3>2. k - 1 \in Places BY <2>3, <3>1
    <3> HIDE DEF Places
    <3> QED BY <1>7, <2>2, <2>3, <3>2
  <2>5. k \in kept BY <1>6, <1>7, <1>16, <2>3, <2>4
  <2> QED BY <1>12, <2>3, <2>5
<1> QED BY <1>2, <1>11, <1>14, <1>15, <1>16


\* The steps of a list: from 0, its forks and infinity.
LEMMA StepsOfForks ==
  ASSUME NEW list \in Seq(0..MaxHead)
  PROVE  LET s == stepsOf(list)
         IN  /\ Steps(s)
             /\ \A b \in 0..MaxHead :
                  (\E k \in DOMAIN s : s[k] = b) <=> (b = 0 \/ b \in Range(list))
<1> DEFINE c == cleanForks(list)
           n == Len(c)
           s == stepsOf(list)
<1>0. MaxHead \in Nat /\ MaxUint64 = MaxHead + 1 BY ForksAssumption DEF MaxUint64
<1>1. list \in Seq(Nat) /\ \A i \in DOMAIN list : list[i] \in 0..MaxHead
  <2>1. \A i \in DOMAIN list : list[i] \in 0..MaxHead
    <3> DEFINE Blocks == 0..MaxHead
    <3>1. list \in Seq(Blocks) OBVIOUS
    <3> HIDE DEF Blocks
    <3>2. \A i \in DOMAIN list : list[i] \in Blocks BY <3>1
    <3> QED BY <3>2 DEF Blocks
  <2>2. \A i \in DOMAIN list : list[i] \in Nat BY <1>0, <2>1
  <2>3. Len(list) \in Nat /\ list \in [1..Len(list) -> Nat] BY <2>2
  <2>4. list \in Seq(Nat) BY <2>3
  <2> QED BY <2>1, <2>4
<1>2. /\ c \in Seq(Nat) /\ \A k, l \in DOMAIN c : k < l => c[k] < c[l]
      /\ \A k \in DOMAIN c : c[k] # 0 /\ \E i \in DOMAIN list : c[k] = list[i]
      /\ \A i \in DOMAIN list : list[i] # 0 => \E k \in DOMAIN c : c[k] = list[i]
  BY <1>1, ForksCleaned
<1> HIDE DEF c
<1>3. n \in Nat /\ DOMAIN c = 1..n /\ \A k \in 1..n : c[k] \in 1..MaxHead
  <2>1. n \in Nat /\ DOMAIN c = 1..n /\ \A k \in 1..n : c[k] \in Nat BY <1>2
  <2>2. ASSUME NEW k \in 1..n PROVE c[k] \in 1..MaxHead
    <3>1. PICK i \in DOMAIN list : c[k] = list[i] BY <1>2, <2>1
    <3>2. c[k] # 0 BY <1>2, <2>1
    <3> QED BY <1>0, <1>1, <3>1, <3>2
  <2> QED BY <2>1, <2>2
<1>4. /\ s \in Seq(Nat) /\ Len(s) = n + 2
      /\ s[1] = 0 /\ s[n + 2] = MaxUint64 /\ \A k \in 1..n : s[k + 1] = c[k]
  <2>1. s = <<0>> \o c \o <<MaxUint64>> BY DEF stepsOf, c
  <2>2. <<0>> \in Seq(Nat) /\ <<MaxUint64>> \in Seq(Nat) BY <1>0
  <2>3. <<0>> \o c \in Seq(Nat) /\ Len(<<0>> \o c) = n + 1 BY <1>2, <2>2
  <2> HIDE DEF s
  <2> QED BY <1>2, <1>3, <2>1, <2>2, <2>3
<1> HIDE DEF n, s
<1>5. ASSUME NEW k \in 1..(n + 2), NEW l \in 1..(n + 2), k < l PROVE s[k] < s[l]
  <2>1. CASE k = 1 /\ l = n + 2 BY <1>0, <1>3, <1>4, <2>1
  <2>2. CASE k = 1 /\ l # n + 2
    <3>1. l - 1 \in 1..n /\ s[l] = c[l - 1] BY <1>3, <1>4, <1>5, <2>2
    <3> QED BY <1>3, <1>4, <2>2, <3>1
  <2>3. CASE k # 1 /\ l = n + 2
    <3>1. k - 1 \in 1..n /\ s[k] = c[k - 1] BY <1>3, <1>4, <1>5, <2>3
    <3> QED BY <1>0, <1>3, <1>4, <2>3, <3>1
  <2>4. CASE k # 1 /\ l # n + 2
    <3>1. k - 1 \in 1..n /\ s[k] = c[k - 1] BY <1>3, <1>4, <1>5, <2>4
    <3>2. l - 1 \in 1..n /\ s[l] = c[l - 1] BY <1>3, <1>4, <1>5, <2>4
    <3>3. k - 1 < l - 1 BY <1>3, <1>5
    <3> QED BY <1>2, <1>3, <3>1, <3>2, <3>3
  <2> QED BY <2>1, <2>2, <2>3, <2>4
<1>6. DOMAIN s = 1..(n + 2) BY <1>3, <1>4
<1>7. Steps(s) BY <1>3, <1>4, <1>5, <1>6 DEF Steps
<1>8. ASSUME NEW b \in 0..MaxHead
      PROVE  (\E k \in DOMAIN s : s[k] = b) <=> (b = 0 \/ b \in Range(list))
  <2>1. ASSUME NEW k \in DOMAIN s, s[k] = b, b # 0 PROVE b \in Range(list)
    <3>1. k # 1 /\ k # n + 2 BY <1>0, <1>4, <2>1
    <3>2. k - 1 \in 1..n /\ s[k] = c[k - 1] BY <1>3, <1>4, <1>6, <3>1
    <3>3. PICK i \in DOMAIN list : c[k - 1] = list[i] BY <1>2, <1>3, <3>2
    <3> QED BY <2>1, <3>2, <3>3 DEF Range
  <2>2. ASSUME b = 0 PROVE \E k \in DOMAIN s : s[k] = b BY <1>3, <1>4, <1>6, <2>2
  <2>3. ASSUME b \in Range(list), b # 0 PROVE \E k \in DOMAIN s : s[k] = b
    <3>1. PICK i \in DOMAIN list : list[i] = b BY <2>3 DEF Range
    <3>2. PICK k \in 1..n : c[k] = b BY <1>2, <1>3, <2>3, <3>1
    <3>3. k + 1 \in DOMAIN s /\ s[k + 1] = b BY <1>3, <1>4, <1>6, <3>2
    <3> QED BY <3>3
  <2> QED BY <2>1, <2>2, <2>3
<1> QED BY <1>7, <1>8 DEF s

\* The first i of the steps are those up to block h.
Splits(s, h, i) ==
  /\ i \in 1..(Len(s) - 1) /\ s[i] <= h /\ h < s[i + 1]
  /\ \A k \in DOMAIN s : s[k] <= h <=> k <= i

\* findForkAt splits the steps at the block.
LEMMA ForkFound ==
  ASSUME NEW s, Steps(s), NEW h \in 0..MaxHead
  PROVE  Splits(s, h, findForkAt(tableOf(s), h))
<1> DEFINE A == {i \in DOMAIN tableOf(s) : \A j \in 1..i : tableOf(s)[j].number <= h}
           n == Len(s)
<1>0. MaxHead \in Nat /\ MaxUint64 = MaxHead + 1 BY ForksAssumption DEF MaxUint64
<1>1. /\ n \in Nat /\ n >= 2 /\ DOMAIN s = 1..n /\ s[1] = 0 /\ s[n] = MaxUint64
      /\ \A k \in 1..n : s[k] \in Nat
      /\ \A k, l \in 1..n : k < l => s[k] < s[l]
  BY DEF Steps
<1>2. DOMAIN tableOf(s) = 1..n /\ \A j \in 1..n : tableOf(s)[j].number = s[j]
  BY <1>1 DEF tableOf
<1>3. findForkAt(tableOf(s), h) = Max(A) BY DEF findForkAt
<1> HIDE DEF n
<1>4. \A i \in 1..n : i \in A <=> s[i] <= h
  <2> SUFFICES ASSUME NEW i \in 1..n PROVE i \in A <=> s[i] <= h OBVIOUS
  <2>1. i \in A <=> \A j \in 1..i : tableOf(s)[j].number <= h BY <1>2
  <2>2. \A j \in 1..i : j \in 1..n /\ tableOf(s)[j].number = s[j] BY <1>1, <1>2
  <2>3. i \in A <=> \A j \in 1..i : s[j] <= h BY <2>1, <2>2
  <2>4. ASSUME s[i] <= h, NEW j \in 1..i PROVE s[j] <= h
    <3>1. j \in 1..n /\ (j = i \/ j < i) BY <1>1
    <3>2. j < i => s[j] < s[i] BY <1>1, <3>1
    <3>3. s[j] \in Nat /\ s[i] \in Nat BY <1>1, <3>1
    <3> QED BY <2>4, <3>1, <3>2, <3>3
  <2>5. i \in 1..i BY <1>1
  <2> QED BY <2>3, <2>4, <2>5
<1>5. A \subseteq 1..n BY <1>2
<1> HIDE DEF A
<1> DEFINE Above == {k \in 1..n : h < s[k]}
<1>6. Above \subseteq Nat /\ n \in Above BY <1>0, <1>1
<1>7. PICK k \in Above : \A l \in Above : k <= l
  <2> HIDE DEF Above
  <2>1. Above # {} BY <1>6
  <2> QED BY <1>6, <2>1, LeastNumber
<1>8. k \in 1..n /\ h < s[k] BY <1>7
<1>9. k # 1 BY <1>1, <1>8
<1>10. k - 1 \in 1..n /\ ~(h < s[k - 1])
  <2>1. k - 1 \in 1..n BY <1>1, <1>8, <1>9
  <2>2. k - 1 \notin Above
    <3> HIDE DEF Above
    <3> QED BY <1>1, <1>7, <1>8
  <2> QED BY <2>1, <2>2
<1> HIDE DEF Above
<1>11. s[k - 1] <= h BY <1>1, <1>10
<1>12. \A l \in 1..n : s[l] <= h <=> l <= k - 1
  <2> SUFFICES ASSUME NEW l \in 1..n PROVE s[l] <= h <=> l <= k - 1 OBVIOUS
  <2>1. CASE l = k - 1 BY <1>8, <1>11, <2>1
  <2>2. CASE l < k - 1
    <3>1. s[l] < s[k - 1] BY <1>1, <1>10, <2>2
    <3>2. s[l] \in Nat /\ s[k - 1] \in Nat BY <1>1, <1>10
    <3> QED BY <1>8, <1>11, <2>2, <3>1, <3>2
  <2>3. CASE l = k BY <1>1, <1>8, <2>3
  <2>4. CASE l > k
    <3>1. s[k] < s[l] BY <1>1, <1>8, <2>4
    <3>2. s[l] \in Nat /\ s[k] \in Nat BY <1>1, <1>8
    <3> QED BY <1>8, <2>4, <3>1, <3>2
  <2> QED BY <1>1, <1>8, <2>1, <2>2, <2>3, <2>4
<1>13. Max(A) = k - 1
  <2>1. k - 1 \in A BY <1>4, <1>10, <1>11
  <2>2. \A y \in A : k - 1 >= y BY <1>1, <1>4, <1>5, <1>8, <1>12
  <2>3. \A x \in A : (\A y \in A : x >= y) => x = k - 1 BY <1>1, <1>5, <1>8, <2>1, <2>2
  <2> QED BY <2>1, <2>2, <2>3 DEF Max
<1>14. Splits(s, h, k - 1) BY <1>1, <1>8, <1>9, <1>11, <1>12 DEF n, Splits
<1> QED BY <1>3, <1>13, <1>14


\* Two sequences that start with the same n steps.
Agree(s, t, n) == n <= Len(s) /\ n <= Len(t) /\ \A k \in 1..n : s[k] = t[k]

\* Checksums are equal if and only if they are of the same steps.
LEMMA SumsEqual ==
  ASSUME NEW s, Steps(s), NEW t, Steps(t), NEW k \in DOMAIN s, NEW j \in DOMAIN t
  PROVE  tableOf(s)[k].sum = SubSeq(t, 1, j) <=> k = j /\ Agree(s, t, j)
<1>1. /\ s \in Seq(Nat) /\ DOMAIN s = 1..Len(s) /\ Len(s) \in Nat
      /\ t \in Seq(Nat) /\ DOMAIN t = 1..Len(t) /\ Len(t) \in Nat
  BY DEF Steps
<1>2. /\ SubSeq(s, 1, k) \in Seq(Nat) /\ Len(SubSeq(s, 1, k)) = k
      /\ \A m \in 1..k : SubSeq(s, 1, k)[m] = s[m]
  BY <1>1
<1>3. /\ SubSeq(t, 1, j) \in Seq(Nat) /\ Len(SubSeq(t, 1, j)) = j
      /\ \A m \in 1..j : SubSeq(t, 1, j)[m] = t[m]
  BY <1>1
<1>4. tableOf(s)[k].sum = SubSeq(s, 1, k) BY DEF tableOf
<1>5. ASSUME SubSeq(s, 1, k) = SubSeq(t, 1, j) PROVE k = j /\ Agree(s, t, j)
  <2>1. k = j BY <1>2, <1>3, <1>5
  <2>2. \A m \in 1..j : s[m] = t[m] BY <1>2, <1>3, <1>5, <2>1
  <2> QED BY <1>1, <2>1, <2>2 DEF Agree
<1>6. ASSUME k = j, Agree(s, t, j) PROVE SubSeq(s, 1, k) = SubSeq(t, 1, j)
  <2> DEFINE a == SubSeq(s, 1, k)
             b == SubSeq(t, 1, j)
  <2>1. a \in Seq(Nat) /\ b \in Seq(Nat) /\ Len(a) = Len(b) BY <1>2, <1>3, <1>6
  <2>2. \A m \in 1..Len(a) : a[m] = b[m] BY <1>2, <1>3, <1>6 DEF Agree
  <2> HIDE DEF a, b
  <2>3. a = b BY <2>1, <2>2, SeqEqual
  <2> QED BY <2>3 DEF a, b
<1> QED BY <1>4, <1>5, <1>6

\* What a node with steps s at block h says of one with steps t at block g.
Verdict(s, h, t, g) == Validate(tableOf(s), h, At(tableOf(t), g))

\* The verdict in terms of the steps.
LEMMA VerdictIs ==
  ASSUME NEW s, Steps(s), NEW h \in 0..MaxHead, NEW t, Steps(t), NEW g \in 0..MaxHead
  PROVE  LET i == findForkAt(tableOf(s), h)
             j == findForkAt(tableOf(t), g)
         IN  Verdict(s, h, t, g) <=> /\ Agree(s, t, j)
                                     /\ i = j => h < t[j + 1]
                                     /\ j < i => t[j + 1] = s[j + 1]
<1> DEFINE c == tableOf(s)
           i == findForkAt(c, h)
           j == findForkAt(tableOf(t), g)
           past == {k \in 1..(i - 1) : c[k].sum = SubSeq(t, 1, j)}
<1>0. MaxHead \in Nat BY ForksAssumption
<1>1. /\ Len(s) \in Nat /\ DOMAIN s = 1..Len(s) /\ \A k \in 1..Len(s) : s[k] \in Nat
      /\ Len(t) \in Nat /\ DOMAIN t = 1..Len(t) /\ \A k \in 1..Len(t) : t[k] \in Nat
      /\ t[1] = 0 /\ \A k, l \in DOMAIN t : k < l => t[k] < t[l]
  <2>1. /\ Len(s) \in Nat /\ DOMAIN s = 1..Len(s) /\ \A k \in DOMAIN s : s[k] \in Nat
        /\ Len(t) \in Nat /\ DOMAIN t = 1..Len(t) /\ \A k \in DOMAIN t : t[k] \in Nat
        /\ \A k, l \in DOMAIN t : k < l => t[k] < t[l]
    BY StepsType, Zenon
  <2>2. t[1] = 0 BY DEF Steps
  <2> QED BY <2>1, <2>2
<1>2. i \in 1..(Len(s) - 1) /\ i \in DOMAIN s /\ i + 1 \in DOMAIN s
  <2>1. i \in 1..(Len(s) - 1) BY ForkFound DEF Splits
  <2> HIDE DEF i
  <2> QED BY <1>1, <2>1
<1>3. j \in 1..(Len(t) - 1) /\ j \in DOMAIN t /\ j + 1 \in DOMAIN t
  <2>1. j \in 1..(Len(t) - 1) BY ForkFound DEF Splits
  <2> HIDE DEF j
  <2> QED BY <1>1, <2>1
<1>4. At(tableOf(t), g) = [hash |-> SubSeq(t, 1, j), next |-> t[j + 1]]
  <2>1. At(tableOf(t), g) = [hash |-> tableOf(t)[j].sum, next |-> tableOf(t)[j + 1].number]
    BY DEF At
  <2> HIDE DEF j
  <2>2. tableOf(t)[j].sum = SubSeq(t, 1, j) /\ tableOf(t)[j + 1].number = t[j + 1]
    BY <1>3 DEF tableOf
  <2> QED BY <2>1, <2>2
<1>5. DOMAIN c = DOMAIN s /\ Len(c) = Len(s) /\ \A k \in DOMAIN s : c[k].number = s[k]
  <2>1. c = [k \in 1..Len(s) |-> [number |-> s[k], sum |-> SubSeq(s, 1, k)]] BY <1>1 DEF tableOf
  <2> HIDE DEF c
  <2> QED BY <1>1, <2>1
<1>6. Verdict(s, h, t, g) <=>
        IF c[i].sum = SubSeq(t, 1, j)
        THEN ~(t[j + 1] > 0 /\ h >= t[j + 1])
        ELSE IF past # {}
        THEN t[j + 1] = c[Min(past) + 1].number
        ELSE \E k \in i..Len(c) : c[k].sum = SubSeq(t, 1, j)
  <2> DEFINE id == [hash |-> SubSeq(t, 1, j), next |-> t[j + 1]]
  <2>1. id.hash = SubSeq(t, 1, j) /\ id.next = t[j + 1] OBVIOUS
  <2>2. Verdict(s, h, t, g) = Validate(c, h, id) BY <1>4 DEF Verdict
  <2> HIDE DEF id
  <2> QED BY <2>1, <2>2 DEF Validate
<1>7. \A k \in DOMAIN s : c[k].sum = SubSeq(t, 1, j) <=> k = j /\ Agree(s, t, j)
  <2> HIDE DEF j
  <2> QED BY <1>3, SumsEqual
<1>8. t[j + 1] \in Nat /\ t[j + 1] > 0
  <2> HIDE DEF j
  <2>1. 1 \in DOMAIN t /\ 1 < j + 1 BY <1>1, <1>3
  <2>2. t[1] < t[j + 1] BY <1>1, <1>3, <2>1
  <2> QED BY <1>1, <1>3, <2>2
<1>9. \A k \in 1..(i - 1) : k \in past <=> k = j /\ Agree(s, t, j)
  <2> HIDE DEF i, j, c
  <2> SUFFICES ASSUME NEW k \in 1..(i - 1) PROVE k \in past <=> k = j /\ Agree(s, t, j) OBVIOUS
  <2>1. k \in DOMAIN s BY <1>1, <1>2
  <2>2. k \in past <=> c[k].sum = SubSeq(t, 1, j) OBVIOUS
  <2> QED BY <1>7, <2>1, <2>2
<1>10. past \subseteq 1..(i - 1) OBVIOUS
<1> HIDE DEF i, j, c, past
<1>11. CASE i = j /\ Agree(s, t, j)
  <2>1. Verdict(s, h, t, g) <=> ~(t[j + 1] > 0 /\ h >= t[j + 1]) BY <1>2, <1>6, <1>7, <1>11
  <2> QED BY <1>0, <1>2, <1>3, <1>8, <1>11, <2>1 DEF i, j, c
<1>12. CASE j < i /\ Agree(s, t, j)
  <2>0. j \in 1..(i - 1) BY <1>1, <1>2, <1>3, <1>12
  <2>1. past = {j} BY <1>9, <1>10, <1>12, <2>0
  <2>2. Min(past) = j BY <1>3, <2>1 DEF Min
  <2>3. c[i].sum # SubSeq(t, 1, j) BY <1>2, <1>3, <1>7, <1>12
  <2>4. Verdict(s, h, t, g) <=> t[j + 1] = c[j + 1].number BY <1>6, <2>1, <2>2, <2>3
  <2>5. c[j + 1].number = s[j + 1] BY <1>1, <1>2, <1>3, <1>5, <1>12
  <2> QED BY <1>2, <1>3, <1>12, <2>4, <2>5 DEF i, j, c
<1>13. CASE i < j /\ Agree(s, t, j)
  <2>1. past = {} BY <1>2, <1>3, <1>9, <1>10, <1>13
  <2>2. c[i].sum # SubSeq(t, 1, j)
    <3>1. i # j BY <1>2, <1>3, <1>13
    <3> QED BY <1>2, <1>7, <3>1
  <2>3. j \in DOMAIN s /\ j \in i..Len(c) BY <1>1, <1>2, <1>3, <1>5, <1>13 DEF Agree
  <2>4. Verdict(s, h, t, g) BY <1>6, <1>7, <1>13, <2>1, <2>2, <2>3
  <2> QED BY <1>2, <1>3, <1>13, <2>4 DEF i, j, c
<1>14. CASE ~Agree(s, t, j)
  <2>1. past = {} BY <1>9, <1>10, <1>14
  <2>2. c[i].sum # SubSeq(t, 1, j) BY <1>2, <1>7, <1>14
  <2>3. \A k \in i..Len(c) : k \in DOMAIN s BY <1>1, <1>2, <1>5
  <2>4. ~Verdict(s, h, t, g) BY <1>6, <1>7, <1>14, <2>1, <2>2, <2>3
  <2> QED BY <1>14, <2>4 DEF i, j, c
<1> QED BY <1>2, <1>3, <1>11, <1>12, <1>13, <1>14


\* The steps up to block b of both are the same.
SameUpTo(s, t, b) ==
  /\ \A k \in DOMAIN s : s[k] <= b => \E l \in DOMAIN t : t[l] = s[k]
  /\ \A l \in DOMAIN t : t[l] <= b => \E k \in DOMAIN s : s[k] = t[l]

\* Increasing sequences with the same elements up to b agree place by place: at the first
\* difference one of the two misses an element.
LEMMA SameAgree ==
  ASSUME NEW s, Steps(s), NEW t, Steps(t), NEW b \in Nat, SameUpTo(s, t, b),
         NEW m \in DOMAIN s, s[m] <= b
  PROVE  m \in DOMAIN t /\ s[m] = t[m]
<1> DEFINE Good(a, c, k) == k \in DOMAIN a /\ a[k] <= b => k \in DOMAIN c /\ a[k] = c[k]
           Bad == {k \in Nat : ~Good(s, t, k) \/ ~Good(t, s, k)}
<1>0. /\ DOMAIN s = 1..Len(s) /\ Len(s) \in Nat /\ DOMAIN t = 1..Len(t) /\ Len(t) \in Nat
      /\ \A k \in DOMAIN s : s[k] \in Nat
      /\ \A k \in DOMAIN t : t[k] \in Nat
      /\ \A k, l \in DOMAIN s : k < l => s[k] < s[l]
      /\ \A k, l \in DOMAIN t : k < l => t[k] < t[l]
  BY StepsType
<1>1. ASSUME NEW u, NEW v,
             /\ DOMAIN u = 1..Len(u) /\ Len(u) \in Nat /\ DOMAIN v = 1..Len(v) /\ Len(v) \in Nat
             /\ \A k \in DOMAIN u : u[k] \in Nat
             /\ \A k \in DOMAIN v : v[k] \in Nat
             /\ \A k, l \in DOMAIN u : k < l => u[k] < u[l]
             /\ \A k, l \in DOMAIN v : k < l => v[k] < v[l],
             SameUpTo(u, v, b), NEW k \in Nat,
             \A l \in Nat : l < k => Good(u, v, l) /\ Good(v, u, l)
      PROVE  Good(u, v, k)
  <2> SUFFICES ASSUME k \in DOMAIN u, u[k] <= b PROVE k \in DOMAIN v /\ u[k] = v[k] OBVIOUS
  <2>1. PICK l \in DOMAIN v : v[l] = u[k] BY <1>1 DEF SameUpTo
  <2>2. l \in Nat /\ k \in Nat /\ u[k] \in Nat BY <1>1
  <2>3. ~(l < k)
    <3> SUFFICES ASSUME l < k PROVE FALSE OBVIOUS
    <3>1. Good(v, u, l) BY <1>1, <2>2
    <3>2. l \in DOMAIN u /\ v[l] = u[l] BY <2>1, <3>1
    <3>3. u[l] < u[k] BY <1>1, <3>2
    <3> QED BY <2>1, <2>2, <3>2, <3>3
  <2>4. ~(k < l)
    <3> SUFFICES ASSUME k < l PROVE FALSE OBVIOUS
    <3>1. k \in DOMAIN v BY <1>1, <2>1, <2>2
    <3>2. v[k] < v[l] /\ v[k] \in Nat BY <1>1, <2>1, <3>1
    <3>3. v[k] < u[k] /\ v[k] <= b BY <2>1, <2>2, <3>2
    <3>4. PICK i \in DOMAIN u : u[i] = v[k] BY <1>1, <3>1, <3>3 DEF SameUpTo
    <3>5. i \in Nat /\ i < k
      <4>1. i \in Nat BY <1>1
      <4>2. i # k BY <2>2, <3>2, <3>3, <3>4
      <4>3. k < i => u[k] < u[i] BY <1>1
      <4> QED BY <2>2, <3>2, <3>3, <3>4, <4>1, <4>2, <4>3
    <3>6. u[i] <= b BY <3>3, <3>4
    <3>7. Good(u, v, i) BY <1>1, <3>5
    <3>8. i \in DOMAIN v /\ u[i] = v[i] BY <3>6, <3>7
    <3>9. v[i] < v[k] BY <1>1, <3>1, <3>5, <3>8
    <3> QED BY <3>2, <3>4, <3>8, <3>9
  <2> QED BY <2>1, <2>2, <2>3, <2>4
<1> HIDE DEF Good
<1>2. SameUpTo(t, s, b) BY DEF SameUpTo
<1>3. Bad = {}
  <2> SUFFICES ASSUME Bad # {} PROVE FALSE OBVIOUS
  <2>1. Bad \subseteq Nat OBVIOUS
  <2>2. PICK k \in Bad : \A l \in Bad : k <= l
    <3> HIDE DEF Bad
    <3> QED BY <2>1, LeastNumber
  <2>3. k \in Nat /\ (~Good(s, t, k) \/ ~Good(t, s, k)) BY <2>2
  <2>4. \A l \in Nat : l < k => Good(s, t, l) /\ Good(t, s, l)
    <3> SUFFICES ASSUME NEW l \in Nat, l < k, ~(Good(s, t, l) /\ Good(t, s, l)) PROVE FALSE
      OBVIOUS
    <3>1. l \in Bad OBVIOUS
    <3> HIDE DEF Bad
    <3> QED BY <2>2, <2>3, <3>1
  <2> HIDE DEF Bad
  <2>5. Good(s, t, k) BY <1>0, <1>1, <2>3, <2>4
  <2>6. Good(t, s, k) BY <1>0, <1>1, <1>2, <2>3, <2>4
  <2> QED BY <2>3, <2>5, <2>6
<1>4. Good(s, t, m)
  <2>1. m \in Nat BY <1>0
  <2> QED BY <1>3, <2>1
<1> QED BY <1>4 DEF Good

\* Nodes with the same steps up to both heads accept each other.
LEMMA SameAccepted ==
  ASSUME NEW s, Steps(s), NEW h \in 0..MaxHead, NEW t, Steps(t), NEW g \in 0..MaxHead,
         NEW b \in Nat, h <= b, g <= b, SameUpTo(s, t, b)
  PROVE  Verdict(s, h, t, g)
<1> DEFINE i == findForkAt(tableOf(s), h)
           j == findForkAt(tableOf(t), g)
<1>0. MaxHead \in Nat BY ForksAssumption
<1>1. /\ DOMAIN s = 1..Len(s) /\ Len(s) \in Nat /\ DOMAIN t = 1..Len(t) /\ Len(t) \in Nat
      /\ \A k \in DOMAIN s : s[k] \in Nat
      /\ \A k \in DOMAIN t : t[k] \in Nat
  BY StepsType, Zenon
<1>2. i \in 1..(Len(s) - 1) /\ h < s[i + 1] /\ \A k \in DOMAIN s : s[k] <= h <=> k <= i
  <2>1. Splits(s, h, i) BY ForkFound
  <2> HIDE DEF i
  <2> QED BY <2>1 DEF Splits
<1>3. j \in 1..(Len(t) - 1) /\ g < t[j + 1] /\ \A k \in DOMAIN t : t[k] <= g <=> k <= j
  <2>1. Splits(t, g, j) BY ForkFound
  <2> HIDE DEF j
  <2> QED BY <2>1 DEF Splits
<1>4. SameUpTo(t, s, b) BY DEF SameUpTo
<1> HIDE DEF i, j
<1>5. \A k \in DOMAIN s : s[k] <= b => k \in DOMAIN t /\ s[k] = t[k] BY SameAgree
<1>6. \A k \in DOMAIN t : t[k] <= b => k \in DOMAIN s /\ s[k] = t[k] BY <1>4, SameAgree
<1>7. ASSUME NEW k \in 1..j PROVE k \in DOMAIN s /\ k \in DOMAIN t /\ s[k] = t[k]
  <2>1. k \in DOMAIN t /\ k <= j BY <1>1, <1>3
  <2>2. t[k] <= g BY <1>3, <2>1
  <2>3. t[k] <= b BY <1>0, <1>1, <2>1, <2>2
  <2> QED BY <1>6, <2>1, <2>3
<1>8. Agree(s, t, j)
  <2>1. j \in 1..j BY <1>3
  <2>2. j <= Len(s) BY <1>1, <1>7, <2>1
  <2> QED BY <1>1, <1>3, <1>7, <2>2 DEF Agree
<1>9. i + 1 \in DOMAIN s /\ j + 1 \in DOMAIN t BY <1>1, <1>2, <1>3
<1>10. ASSUME i = j PROVE h < t[j + 1]
  <2> SUFFICES ASSUME t[j + 1] <= h PROVE FALSE BY <1>0, <1>1, <1>9
  <2>1. t[j + 1] <= b BY <1>0, <1>1, <1>9
  <2>2. s[j + 1] = t[j + 1] BY <1>6, <1>9, <2>1
  <2> QED BY <1>0, <1>1, <1>2, <1>9, <1>10, <2>2
<1>11. ASSUME j < i PROVE t[j + 1] = s[j + 1]
  <2>1. j + 1 \in DOMAIN s /\ j + 1 <= i BY <1>1, <1>2, <1>3, <1>11
  <2>2. s[j + 1] <= h BY <1>2, <2>1
  <2>3. s[j + 1] <= b BY <1>0, <1>1, <2>1, <2>2
  <2> QED BY <1>5, <2>1, <2>3
<1> QED BY <1>8, <1>10, <1>11, VerdictIs DEF i, j

\* An accepted node has the same steps up to the lower head.
LEMMA AcceptedSame ==
  ASSUME NEW s, Steps(s), NEW h \in 0..MaxHead, NEW t, Steps(t), NEW g \in 0..MaxHead,
         NEW b \in Nat, b <= h, b <= g, Verdict(s, h, t, g)
  PROVE  SameUpTo(s, t, b)
<1> DEFINE i == findForkAt(tableOf(s), h)
           j == findForkAt(tableOf(t), g)
<1>0. MaxHead \in Nat BY ForksAssumption
<1>1. /\ DOMAIN s = 1..Len(s) /\ Len(s) \in Nat /\ DOMAIN t = 1..Len(t) /\ Len(t) \in Nat
      /\ \A k \in DOMAIN s : s[k] \in Nat
      /\ \A k \in DOMAIN t : t[k] \in Nat
      /\ \A k, l \in DOMAIN s : k < l => s[k] < s[l]
  BY StepsType, Zenon
<1>2. i \in 1..(Len(s) - 1) /\ \A k \in DOMAIN s : s[k] <= h <=> k <= i
  <2>1. Splits(s, h, i) BY ForkFound
  <2> HIDE DEF i
  <2> QED BY <2>1 DEF Splits
<1>3. j \in 1..(Len(t) - 1) /\ g < t[j + 1] /\ \A k \in DOMAIN t : t[k] <= g <=> k <= j
  <2>1. Splits(t, g, j) BY ForkFound
  <2> HIDE DEF j
  <2> QED BY <2>1 DEF Splits
<1>4. Agree(s, t, j) /\ (j < i => t[j + 1] = s[j + 1]) BY VerdictIs
<1> HIDE DEF i, j
<1>5. j <= Len(s) /\ j <= Len(t) /\ \A k \in 1..j : k \in DOMAIN s /\ k \in DOMAIN t /\ s[k] = t[k]
  BY <1>1, <1>3, <1>4 DEF Agree
<1>6. ASSUME NEW l \in DOMAIN t, t[l] <= b PROVE \E k \in DOMAIN s : s[k] = t[l]
  <2>1. t[l] <= g BY <1>0, <1>1, <1>6
  <2>2. l \in 1..j BY <1>1, <1>3, <2>1
  <2> QED BY <1>5, <2>2
<1>7. ASSUME NEW k \in DOMAIN s, s[k] <= b PROVE \E l \in DOMAIN t : t[l] = s[k]
  <2>1. s[k] <= h /\ s[k] <= g BY <1>0, <1>1, <1>7
  <2>2. k <= i BY <1>2, <2>1
  <2>3. k <= j
    <3>1. CASE i <= j BY <1>1, <1>2, <1>3, <2>2, <3>1
    <3>2. CASE j < i
      <4>1. j + 1 \in DOMAIN s /\ j + 1 \in DOMAIN t BY <1>1, <1>2, <1>3, <3>2
      <4>2. s[k] < s[j + 1] BY <1>0, <1>1, <1>3, <1>4, <2>1, <3>2, <4>1
      <4>3. k # j + 1 /\ ~(j + 1 < k) BY <1>1, <4>1, <4>2
      <4> QED BY <1>1, <1>3, <4>3
    <3> QED BY <1>2, <1>3, <3>1, <3>2
  <2>4. k \in 1..j BY <1>1, <1>3, <2>3
  <2> QED BY <1>5, <2>4
<1> QED BY <1>6, <1>7 DEF SameUpTo

\* The forks of the lists are the same up to a block if and only if the steps are.
LEMMA SameForks ==
  ASSUME NEW d \in Endpoints, NEW e \in Endpoints, NEW b \in 0..MaxHead,
         forks[d] \in Seq(0..MaxHead), forks[e] \in Seq(0..MaxHead)
  PROVE  forksUpTo(d, b) = forksUpTo(e, b) <=> SameUpTo(stepsOf(forks[d]), stepsOf(forks[e]), b)
<1> DEFINE s == stepsOf(forks[d])
           t == stepsOf(forks[e])
<1>0. MaxHead \in Nat BY ForksAssumption
<1>1. /\ Steps(s)
      /\ \A a \in 0..MaxHead : (\E k \in DOMAIN s : s[k] = a) <=> (a = 0 \/ a \in Range(forks[d]))
  BY StepsOfForks
<1>2. /\ Steps(t)
      /\ \A a \in 0..MaxHead : (\E k \in DOMAIN t : t[k] = a) <=> (a = 0 \/ a \in Range(forks[e]))
  BY StepsOfForks
<1> DEFINE In(r, a) == \E k \in DOMAIN r : r[k] = a
<1> HIDE DEF s, t
<1>3. /\ \A k \in DOMAIN s : s[k] \in Nat
      /\ \A k \in DOMAIN t : t[k] \in Nat
  BY <1>1, <1>2, StepsType
<1>4. SameUpTo(s, t, b) <=> \A a \in 0..b : In(s, a) <=> In(t, a)
  <2>1. \A k \in DOMAIN s : s[k] <= b <=> s[k] \in 0..b BY <1>0, <1>3
  <2>2. \A k \in DOMAIN t : t[k] <= b <=> t[k] \in 0..b BY <1>0, <1>3
  <2>3. \A a \in 0..b : a <= b BY <1>0
  <2> QED BY <2>1, <2>2, <2>3 DEF SameUpTo
<1>5. \A a \in 0..b : a \in 0..MaxHead BY <1>0
<1>6. \A a \in 0..b : In(s, a) <=> (a = 0 \/ a \in Range(forks[d])) BY <1>1, <1>5
<1>7. \A a \in 0..b : In(t, a) <=> (a = 0 \/ a \in Range(forks[e])) BY <1>2, <1>5
<1> HIDE DEF In
<1>8. \A r \in Endpoints : Range(forks[r]) \subseteq Nat => 
        forksUpTo(r, b) = {a \in 0..b : a # 0 /\ a \in Range(forks[r])}
  BY <1>0 DEF forksUpTo
<1>9. Range(forks[d]) \subseteq Nat /\ Range(forks[e]) \subseteq Nat
  <2> DEFINE Blocks == 0..MaxHead
  <2>1. forks[d] \in Seq(Blocks) /\ forks[e] \in Seq(Blocks) OBVIOUS
  <2>2. Blocks \subseteq Nat BY <1>0
  <2> HIDE DEF Blocks
  <2>3. \A i \in DOMAIN forks[d] : forks[d][i] \in Blocks BY <2>1
  <2>4. \A i \in DOMAIN forks[e] : forks[e][i] \in Blocks BY <2>1
  <2> QED BY <2>2, <2>3, <2>4 DEF Range
<1>10. /\ forksUpTo(d, b) = {a \in 0..b : a # 0 /\ a \in Range(forks[d])}
       /\ forksUpTo(e, b) = {a \in 0..b : a # 0 /\ a \in Range(forks[e])}
  BY <1>8, <1>9
<1>11. forksUpTo(d, b) = forksUpTo(e, b) <=>
         \A a \in 0..b : a # 0 => (a \in Range(forks[d]) <=> a \in Range(forks[e]))
  <2> DEFINE D == Range(forks[d])
             E == Range(forks[e])
             B == 0..b
  <2>1. forksUpTo(d, b) = {a \in B : a # 0 /\ a \in D} BY <1>10
  <2>2. forksUpTo(e, b) = {a \in B : a # 0 /\ a \in E} BY <1>10
  <2> HIDE DEF D, E, B
  <2>3. forksUpTo(d, b) = forksUpTo(e, b) <=> \A a \in B : a # 0 => (a \in D <=> a \in E)
    BY <2>1, <2>2
  <2> QED BY <2>3 DEF D, E, B
<1>12. SameUpTo(s, t, b) <=> forksUpTo(d, b) = forksUpTo(e, b) BY <1>4, <1>6, <1>7, <1>11
<1> QED BY <1>12 DEF s, t


\* The types: the forks of both nodes are lists of blocks and their heads blocks.
ForkTypes ==
  /\ forks \in [Endpoints -> ForkLists]
  /\ head \in [Endpoints -> 0..MaxHead]

\* The checks of fork identifiers are right: nodes whose forks are the same up to the
\* higher head accept each other, and a node that is accepted has the same forks up to the
\* lower head (NewForkID, At and Validate of forkid.go).
THEOREM ForkChecksRight == ForkSpec => []ForksJudgedRight
<1>0. MaxHead \in Nat /\ ForkLists \subseteq Seq(0..MaxHead) BY ForksAssumption
<1>1. ForkInit => ForkTypes BY <1>0 DEF ForkInit, ForkTypes
<1>2. ForkTypes /\ [ForkNext]_forkVars => ForkTypes'
  <2> SUFFICES ASSUME ForkTypes, [ForkNext]_forkVars PROVE ForkTypes' OBVIOUS
  <2>1. ASSUME NEW e \in Endpoints, Import(e) PROVE ForkTypes'
    <3>1. head[e] \in 0..MaxHead /\ head[e] < MaxHead BY <2>1 DEF Import, ForkTypes
    <3>2. head[e] + 1 \in 0..MaxHead BY <1>0, <3>1
    <3>3. head' \in [Endpoints -> 0..MaxHead] BY <2>1, <3>2 DEF Import, ForkTypes
    <3> QED BY <2>1, <3>3 DEF Import, ForkTypes
  <2>2. CASE UNCHANGED forkVars BY <2>2 DEF forkVars, ForkTypes
  <2> QED BY <2>1, <2>2 DEF ForkNext
<1>3. ForkTypes => ForksJudgedRight
  <2> SUFFICES ASSUME ForkTypes PROVE ForksJudgedRight OBVIOUS
  <2> DEFINE s(e) == stepsOf(forks[e])
  <2>1. ASSUME NEW e \in Endpoints
        PROVE  forks[e] \in Seq(0..MaxHead) /\ head[e] \in 0..MaxHead /\ Steps(s(e))
    <3>1. forks[e] \in Seq(0..MaxHead) /\ head[e] \in 0..MaxHead BY <1>0, <2>1 DEF ForkTypes
    <3> QED BY <3>1, StepsOfForks
  <2>2. ASSUME NEW d \in Endpoints, NEW e \in Endpoints
        PROVE  accepts(d, e) <=> Verdict(s(d), head[d], s(e), head[e])
    BY DEF accepts, Verdict, checksums, stepsOf, tableOf
  <2> HIDE DEF s
  <2> DEFINE l == head["local"]
             r == head["remote"]
             hi == Max(Range(head))
             lo == Min(Range(head))
             same(b) == forksUpTo("local", b) = forksUpTo("remote", b)
  <2>3. l \in 0..MaxHead /\ r \in 0..MaxHead /\ Range(head) = {l, r}
    BY <2>1 DEF Endpoints, Range, ForkTypes
  <2>4. hi \in {l, r} /\ l <= hi /\ r <= hi
    <3> HIDE DEF l, r
    <3>1. \E x \in {l, r} : \A y \in {l, r} : x >= y BY <1>0, <2>3
    <3> QED BY <1>0, <2>3, <3>1 DEF Max
  <2>5. lo \in {l, r} /\ lo <= l /\ lo <= r
    <3> HIDE DEF l, r
    <3>1. \E x \in {l, r} : \A y \in {l, r} : x <= y BY <1>0, <2>3
    <3> QED BY <1>0, <2>3, <3>1 DEF Min
  <2>6. hi \in 0..MaxHead /\ lo \in 0..MaxHead /\ hi \in Nat /\ lo \in Nat
    <3> HIDE DEF l, r, hi, lo
    <3> QED BY <1>0, <2>3, <2>4, <2>5
  <2>7. ASSUME NEW b \in 0..MaxHead
        PROVE  /\ same(b) <=> SameUpTo(s("local"), s("remote"), b)
               /\ same(b) <=> SameUpTo(s("remote"), s("local"), b)
    <3>1. "local" \in Endpoints /\ "remote" \in Endpoints BY DEF Endpoints
    <3>2. /\ same(b) <=> SameUpTo(s("local"), s("remote"), b)
          /\ (forksUpTo("remote", b) = forksUpTo("local", b))
               <=> SameUpTo(s("remote"), s("local"), b)
      BY <2>1, <3>1, SameForks DEF s
    <3> QED BY <3>2
  <2> HIDE DEF hi, lo, same
  <2>8. same(hi) => accepts("local", "remote") /\ accepts("remote", "local")
    BY <2>1, <2>2, <2>3, <2>4, <2>6, <2>7, SameAccepted DEF Endpoints
  <2>9. accepts("local", "remote") \/ accepts("remote", "local") => same(lo)
    BY <2>1, <2>2, <2>3, <2>5, <2>6, <2>7, AcceptedSame DEF Endpoints
  <2> QED BY <2>8, <2>9 DEF ForksJudgedRight, hi, lo, same
<1> QED BY <1>1, <1>2, <1>3, PTL DEF ForkSpec
=============================================================================
