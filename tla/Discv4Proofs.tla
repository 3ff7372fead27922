---------------------------- MODULE Discv4Proofs ----------------------------
(***************************************************************************)
(* Theorems about Discv4, for any number of peers, tasks, callers, packet  *)
(* handlers and calls of setHandler.                                       *)
(***************************************************************************)
EXTENDS Discv4, TLAPS

\* A process that is not idle works on a peer, for a call that it has made itself, and
\* enters only a peer whose pong it has received.
ProcsBusy ==
  \A p \in Procs : pc[p] # "idle" =>
    /\ on[p] \in Peers
    /\ call[p] \in 1..made /\ owner[call[p]] = p
    /\ pc[p] = "bonding" => on[p] \in ponged

\* The calls made so far have an owner, a key and a timer; the others have none.
CallsMade ==
  \A c \in Calls : /\ c <= made => timer[c] # "none" /\ owner[c] \in Procs /\ key[c] \in Keys
                   /\ c > made => timer[c] = "none"

\* Handlers, and the callbacks goroutines have taken from them, are those of calls made.
HandlersMade ==
  /\ \A k \in Keys : handlers[k] <= made
  /\ \A g \in Goroutines : gpc[g] = "callback" => gcb[g] \in 1..made

\* What a goroutine knows of its packet, and of the table.
PacketsHeld ==
  \A g \in Goroutines :
    /\ gpc[g] = "idle" => gpkt[g] = None
    /\ gpc[g] \in {"callback", "ping", "update", "updating", "findnode"} => gpkt[g] \in Keys
    /\ gpc[g] \in {"update", "updating"} => gpkt[g][1] \in ponged
    /\ gpc[g] \in {"nearest", "getPeer"} /\ gpkt[g] # None => gpkt[g][1] \in ponged
    /\ gseen[g] \subseteq table

\* Who is known or listed has answered a ping.
KnownAnswered == \A x \in Peers : nodes[x] # "none" \/ x \in table => x \in ponged

\* A listed peer that is not in nodes yet is being entered by the holder of validLock.
ListedAreKnown ==
  \A x \in table : nodes[x] = "none" =>
    \/ \E p \in Procs : validLock = p /\ pc[p] = "bonding" /\ on[p] = x
    \/ \E g \in Goroutines : validLock = g /\ gpc[g] = "updating" /\ gpkt[g][1] = x

\* The inductive invariant.
Discv4Inv ==
  /\ TypeOK
  /\ ProcsBusy
  /\ CallsMade
  /\ HandlersMade
  /\ PacketsHeld
  /\ KnownAnswered
  /\ ListedAreKnown
  /\ ~notFound
  /\ HandlerKept
  /\ SomeoneWillTell

-----------------------------------------------------------------------------
(* What the steps do to the processes and to the calls.                    *)

Labels == {"idle", "waitPong", "bond", "bonding", "register", "waitPing", "sleep",
           "waitNeighbors", "process", "finish"}

\* p makes a call for peer x and waits.
Starts(p, x, code, label) ==
  /\ pc[p] \in {"idle", "register", "sleep"}
  /\ setHandler(p, x, code)
  /\ pc' = [pc EXCEPT ![p] = label]
  /\ on' = [on EXCEPT ![p] = x]
  /\ UNCHANGED <<gors, bonds, hist>>

\* p goes on with its call, or is done with it.
Moves(p, label) ==
  /\ pc' = [pc EXCEPT ![p] = label]
  /\ \/ label # "idle" /\ UNCHANGED <<on, call>>
     \/ /\ label = "idle"
        /\ on' = [on EXCEPT ![p] = None]
        /\ call' = [call EXCEPT ![p] = 0]

\* A process that goes on makes no call; it gives validLock back when it has entered its
\* peer, and comes back to a receive only from the decoding of a response.
GoesOn ==
  \E p \in Procs, label \in Labels :
    /\ pc[p] # "idle" /\ Moves(p, label)
    /\ label = "bonding" => pc[p] = "bond" /\ on[p] \in ponged'
    /\ pc[p] = "bonding" => validLock = p /\ validLock' = None
    /\ label \in {"waitPong", "waitPing", "waitNeighbors"} =>
         pc[p] = "process" /\ label = "waitNeighbors"

\* Goto and Return are the two kinds of Moves.
LEMMA MovesCases ==
  ASSUME NEW p, NEW label
  PROVE  /\ label # "idle" /\ Goto(p, label) => Moves(p, label)
         /\ Return(p) => Moves(p, "idle")
BY DEF Goto, Return, Moves

\* A message to a call that has been made moves its owner out of its receive, or finds
\* it elsewhere.
LEMMA SendMoves ==
  ASSUME TypeOK, CallsMade, NEW c \in 1..made, NEW complete \in BOOLEAN, Send(c, complete)
  PROVE  \/ /\ UNCHANGED procs
            /\ ~(Waiting(owner[c]) /\ call[owner[c]] = c)
         \/ /\ owner[c] \in Procs /\ Waiting(owner[c])
            /\ \E label \in {"idle", "bond", "sleep", "process", "finish"} :
                 Moves(owner[c], label)
<1>1. c \in Calls /\ owner[c] \in Procs BY CapsAssumption DEF CallsMade, TypeOK, Calls
<1>2. CASE ~(Waiting(owner[c]) /\ call[owner[c]] = c) BY <1>2 DEF Send
<1>3. CASE Waiting(owner[c]) /\ call[owner[c]] = c
  <2>1. Receive(owner[c], complete) BY <1>3 DEF Send
  <2>2. \E label \in {"idle", "bond", "sleep", "process", "finish"} : Moves(owner[c], label)
    BY <2>1, MovesCases DEF Receive
  <2> QED BY <1>1, <1>3, <2>2
<1> QED BY <1>2, <1>3

\* The calls that have been made are calls.
LEMMA MadeAreCalls ==
  ASSUME TypeOK
  PROVE  1..made \subseteq Calls /\ (made < MaxCalls => made + 1 \in Calls)
BY CapsAssumption DEF TypeOK, Calls

\* Every step starts a call or makes none, and only grows the table and the answered.
LEMMA StepCases ==
  ASSUME Discv4Inv, [Next]_vars
  PROVE  /\ ponged \subseteq ponged' /\ table \subseteq table'
         /\ \/ \E p \in Procs, x \in Peers, code \in {"pong", "ping", "neighbors"},
                  label \in {"waitPong", "waitPing", "waitNeighbors"} :
                  Starts(p, x, code, label)
            \/ /\ UNCHANGED <<owner, key, made>>
               /\ GoesOn \/ UNCHANGED procs
<1> DEFINE Effect ==
      /\ ponged \subseteq ponged' /\ table \subseteq table'
      /\ \/ \E p \in Procs, x \in Peers, code \in {"pong", "ping", "neighbors"},
               label \in {"waitPong", "waitPing", "waitNeighbors"} :
               Starts(p, x, code, label)
         \/ /\ UNCHANGED <<owner, key, made>>
            /\ GoesOn \/ UNCHANGED procs
<1> SUFFICES Effect OBVIOUS
<1> USE DEF hist, calls, bonds, gors
<1>1. ASSUME NEW p \in Procs, NEW x \in Peers, NEW code \in {"pong", "ping", "neighbors"},
             NEW label \in {"waitPong", "waitPing", "waitNeighbors"},
             Starts(p, x, code, label)
      PROVE  Effect
  BY <1>1 DEF Starts
<1>2. ASSUME NEW p \in Procs, Step(p) \/ TakeTask(p) PROVE Effect
  <2>1. CASE TakeTask(p)
    <3>1. Head(tasks) \in Peers BY <2>1 DEF TakeTask, Discv4Inv, TypeOK
    <3>2. Starts(p, Head(tasks), "pong", "waitPong")
      BY <2>1 DEF TakeTask, probeNode, Starts
    <3> QED BY <1>1, <3>1, <3>2
  <2>2. CASE Bond(p)
    <3>1. Moves(p, "bonding") BY <2>2, MovesCases DEF Bond
    <3>2. on[p] \in ponged' /\ pc[p] = "bond" BY <2>2 DEF Bond
    <3>3. GoesOn BY <3>1, <3>2 DEF GoesOn, Labels
    <3> QED BY <2>2, <3>3 DEF Bond, UpdateTable
  <2>3. ASSUME NEW more \in BOOLEAN, Bonded(p, more) PROVE Effect
    <3>1. \E label \in {"idle", "register"} : Moves(p, label)
      BY <2>3, MovesCases DEF Bonded
    <3>2. GoesOn BY <2>3, <3>1 DEF GoesOn, Labels, Bonded, UpdateNodes
    <3> QED BY <2>3, <3>2 DEF Bonded, UpdateNodes
  <2>4. CASE RegisterPing(p)
    <3>1. on[p] \in Peers BY <2>4 DEF RegisterPing, Discv4Inv, ProcsBusy
    <3>2. on' = [on EXCEPT ![p] = on[p]] BY <2>4 DEF RegisterPing, Discv4Inv, TypeOK
    <3>3. Starts(p, on[p], "ping", "waitPing") BY <2>4, <3>2 DEF RegisterPing, Starts
    <3> QED BY <1>1, <3>1, <3>3
  <2>5. CASE FindNodesAfterPing(p)
    <3>1. on[p] \in Peers BY <2>5 DEF FindNodesAfterPing, Discv4Inv, ProcsBusy
    <3>2. Starts(p, on[p], "neighbors", "waitNeighbors")
      BY <2>5 DEF FindNodesAfterPing, AskNeighbors, Starts
    <3> QED BY <1>1, <3>1, <3>2
  <2>6. CASE Process(p)
    <3>1. \E label \in {"waitNeighbors", "finish", "idle"} : Moves(p, label)
      BY <2>6, MovesCases DEF Process
    <3>2. GoesOn BY <2>6, <3>1 DEF GoesOn, Labels, Process
    <3> QED BY <2>6, <3>2 DEF Process
  <2>7. CASE Finish(p)
    <3>1. Moves(p, "idle") BY <2>7, MovesCases DEF Finish
    <3>2. GoesOn BY <2>7, <3>1 DEF GoesOn, Labels, Finish
    <3> QED BY <2>7, <3>2 DEF Finish
  <2> QED BY <1>2, <2>1, <2>2, <2>3, <2>4, <2>5, <2>6, <2>7 DEF Step
<1>3. ASSUME NEW p \in Callers, NEW x \in Peers,
             Probe(p, x) \/ revalidatePeer(p, x) \/ FindNodesKnown(p, x)
      PROVE  Effect
  <2>1. p \in Procs BY DEF Procs
  <2>2. Starts(p, x, "pong", "waitPong") \/ Starts(p, x, "neighbors", "waitNeighbors")
    BY <1>3 DEF Probe, revalidatePeer, FindNodesKnown, probeNode, AskNeighbors, Starts
  <2> QED BY <1>1, <2>1, <2>2
<1>4. ASSUME NEW c \in 1..made, NEW complete \in BOOLEAN, Send(c, complete)
      PROVE  GoesOn \/ UNCHANGED procs
  <2>1. CASE UNCHANGED procs BY <2>1
  <2>2. CASE /\ owner[c] \in Procs /\ Waiting(owner[c])
             /\ \E label \in {"idle", "bond", "sleep", "process", "finish"} :
                  Moves(owner[c], label)
    BY <2>2 DEF GoesOn, Labels, Waiting
  <2> QED BY <1>4, <2>1, <2>2, SendMoves DEF Discv4Inv
<1>5. ASSUME NEW c \in Calls, Timer(c) PROVE Effect
  <2>1. CASE TimerDeletes(c) BY <2>1 DEF TimerDeletes
  <2>2. CASE TimerSends(c)
    <3>1. c \in 1..made
      BY <2>2, CapsAssumption DEF TimerSends, Discv4Inv, CallsMade, Calls, TypeOK
    <3>2. Send(c, FALSE) BY <2>2 DEF TimerSends
    <3> QED BY <1>4, <2>2, <3>1, <3>2 DEF TimerSends
  <2> QED BY <1>5, <2>1, <2>2 DEF Timer
<1>6. ASSUME NEW g \in Goroutines, Handle(g) \/ StartLookup(g) PROVE Effect
  <2>1. CASE Callback(g)
    <3>1. gcb[g] \in 1..made /\ Send(gcb[g], TRUE)
      BY <2>1 DEF Callback, Discv4Inv, HandlersMade
    <3> QED BY <1>4, <2>1, <3>1 DEF Callback
  <2>2. CASE UpdatePinger(g)
    BY <2>2 DEF UpdatePinger, UpdateTable, UpdateNodes
  <2>3. CASE HandlePing(g) \/ HandleFindNode(g) \/ NearestPeers(g) \/ GetPeers(g)
             \/ StartLookup(g)
    BY <2>3 DEF HandlePing, HandleFindNode, NearestPeers, GetPeers, StartLookup
  <2> QED BY <1>6, <2>1, <2>2, <2>3 DEF Handle
<1>7. ASSUME NEW g \in Goroutines, NEW x \in Peers, NEW code \in Codes,
             GetCallback(g, x, code)
      PROVE  Effect
  BY <1>7 DEF GetCallback
<1>8. ASSUME NEW x \in Peers, Expire(x) PROVE Effect
  BY <1>8 DEF Expire
<1>9. CASE UNCHANGED vars BY <1>9 DEF vars
<1> HIDE DEF Effect
<1> QED BY <1>2, <1>3, <1>5, <1>6, <1>7, <1>8, <1>9 DEF Next

\* Where a call that starts leaves the processes and the calls.
LEMMA StartsTypes ==
  ASSUME Discv4Inv, NEW p \in Procs, NEW x \in Peers,
         NEW code \in {"pong", "ping", "neighbors"},
         NEW label \in {"waitPong", "waitPing", "waitNeighbors"}, Starts(p, x, code, label)
  PROVE  /\ pc' \in [Procs -> Labels]
         /\ on' \in [Procs -> Peers \cup {None}]
         /\ call' \in [Procs -> 0..MaxCalls]
         /\ handlers' \in [Keys -> 0..MaxCalls]
         /\ owner' \in [Calls -> Procs \cup {None}]
         /\ key' \in [Calls -> Keys \cup {None}]
         /\ timer' \in [Calls -> {"none", "set", "deleted", "fired"}]
         /\ made' \in 0..MaxCalls
<1>1. made + 1 \in Calls /\ made + 1 \in 0..MaxCalls /\ <<x, code>> \in Keys
  BY CapsAssumption DEF Starts, setHandler, Discv4Inv, TypeOK, Calls, Keys, Codes
<1> HIDE DEF Calls, Keys
<1>2. pc' \in [Procs -> Labels] BY DEF Starts, Discv4Inv, TypeOK, Labels
<1>3. on' \in [Procs -> Peers \cup {None}] BY DEF Starts, Discv4Inv, TypeOK
<1>4. call' \in [Procs -> 0..MaxCalls] BY <1>1 DEF Starts, setHandler, Discv4Inv, TypeOK
<1>5. handlers' \in [Keys -> 0..MaxCalls]
  BY <1>1 DEF Starts, setHandler, Discv4Inv, TypeOK
<1>6. owner' \in [Calls -> Procs \cup {None}]
  BY <1>1 DEF Starts, setHandler, Discv4Inv, TypeOK
<1>7. key' \in [Calls -> Keys \cup {None}]
  BY <1>1 DEF Starts, setHandler, Discv4Inv, TypeOK
<1>8. timer' \in [Calls -> {"none", "set", "deleted", "fired"}]
  BY <1>1 DEF Starts, setHandler, Discv4Inv, TypeOK
<1>9. made' \in 0..MaxCalls BY <1>1 DEF Starts, setHandler
<1> QED BY <1>2, <1>3, <1>4, <1>5, <1>6, <1>7, <1>8, <1>9

\* The types of the processes and of the calls.
LEMMA ProcTypes ==
  ASSUME Discv4Inv, [Next]_vars
  PROVE  /\ pc' \in [Procs -> Labels]
         /\ on' \in [Procs -> Peers \cup {None}]
         /\ call' \in [Procs -> 0..MaxCalls]
         /\ owner' \in [Calls -> Procs \cup {None}]
         /\ key' \in [Calls -> Keys \cup {None}]
         /\ made' \in 0..MaxCalls
<1>1. CASE \E p \in Procs, x \in Peers, code \in {"pong", "ping", "neighbors"},
                label \in {"waitPong", "waitPing", "waitNeighbors"} :
                Starts(p, x, code, label)
  BY <1>1, StartsTypes
<1>2. CASE UNCHANGED <<owner, key, made>> /\ GoesOn
  <2>1. PICK p \in Procs, label \in Labels : Moves(p, label) BY <1>2 DEF GoesOn
  <2>2. pc' \in [Procs -> Labels] BY <2>1 DEF Moves, Discv4Inv, TypeOK, Labels
  <2>3. on' \in [Procs -> Peers \cup {None}] BY <2>1 DEF Moves, Discv4Inv, TypeOK
  <2>4. 0 \in 0..MaxCalls BY CapsAssumption
  <2>5. call' \in [Procs -> 0..MaxCalls] BY <2>1, <2>4 DEF Moves, Discv4Inv, TypeOK
  <2> QED BY <1>2, <2>2, <2>3, <2>5 DEF Discv4Inv, TypeOK
<1>3. CASE UNCHANGED <<owner, key, made>> /\ UNCHANGED procs
  BY <1>3 DEF procs, Discv4Inv, TypeOK, Labels
<1> QED BY <1>1, <1>2, <1>3, StepCases

\* What does not fit into the queue of the tasks is left out.
LEMMA TasksBounded ==
  ASSUME TypeOK, NEW xs \in Seq(Peers), sendTask(xs)
  PROVE  tasks' \in Seq(Peers) /\ Len(tasks') <= TaskCap
<1> DEFINE n == IF Len(xs) <= TaskCap - Len(tasks) THEN Len(xs) ELSE TaskCap - Len(tasks)
<1>1. tasks \in Seq(Peers) /\ Len(tasks) \in Nat /\ Len(tasks) <= TaskCap /\ TaskCap \in Nat
  BY CapsAssumption DEF TypeOK
<1>2. n \in 0..Len(xs) /\ n <= TaskCap - Len(tasks) BY <1>1
<1>3. SubSeq(xs, 1, n) \in Seq(Peers) /\ Len(SubSeq(xs, 1, n)) = n BY <1>2
<1>4. tasks' = tasks \o SubSeq(xs, 1, n) BY DEF sendTask
<1> HIDE DEF n
<1> QED BY <1>1, <1>2, <1>3, <1>4

\* Which steps change the goroutines, the bonds, the calls and the histories.
LEMMA WhoChanges ==
  ASSUME Discv4Inv, [Next]_vars
  PROVE  /\ \/ UNCHANGED gors
            \/ \E g \in Goroutines :
                 \/ Handle(g) \/ StartLookup(g)
                 \/ \E x \in Peers, code \in Codes : GetCallback(g, x, code)
         /\ \/ UNCHANGED bonds
            \/ \E p \in Procs : Bond(p) \/ \E more \in BOOLEAN : Bonded(p, more)
            \/ \E g \in Goroutines : UpdatePinger(g)
            \/ \E x \in Peers : Expire(x)
         /\ \/ UNCHANGED <<handlers, timer>>
            \/ \E p \in Procs, x \in Peers, code \in {"pong", "ping", "neighbors"},
                  label \in {"waitPong", "waitPing", "waitNeighbors"} :
                  Starts(p, x, code, label)
            \/ \E c \in Calls : Timer(c)
         /\ ponged' = ponged \/ \E p \in Procs : Bond(p)
         /\ notFound' = notFound \/ \E g \in Goroutines : GetPeers(g)
<1> USE DEF gors, bonds, calls, hist
<1>1. ASSUME NEW p \in Procs, Step(p)
      PROVE  /\ UNCHANGED gors /\ notFound' = notFound
             /\ UNCHANGED bonds \/ Bond(p) \/ \E more \in BOOLEAN : Bonded(p, more)
             /\ \/ UNCHANGED <<handlers, timer>>
                \/ RegisterPing(p) \/ FindNodesAfterPing(p)
             /\ ponged' = ponged \/ Bond(p)
  BY <1>1 DEF Step, Bond, Bonded, RegisterPing, FindNodesAfterPing, Process, Finish
<1>2. ASSUME NEW p \in Procs, TakeTask(p) PROVE UNCHANGED <<gors, bonds, hist>>
  BY <1>2 DEF TakeTask
<1>3. ASSUME NEW p \in Callers, NEW x \in Peers,
             Probe(p, x) \/ revalidatePeer(p, x) \/ FindNodesKnown(p, x)
      PROVE  UNCHANGED <<gors, bonds, hist>>
  BY <1>3 DEF Probe, revalidatePeer, FindNodesKnown
<1>4. ASSUME NEW c \in Calls, Timer(c) PROVE UNCHANGED <<gors, bonds, hist>>
  BY <1>4 DEF Timer, TimerDeletes, TimerSends
<1>5. ASSUME NEW g \in Goroutines, Handle(g) \/ StartLookup(g)
      PROVE  /\ UNCHANGED <<handlers, timer, ponged>>
             /\ UNCHANGED bonds \/ UpdatePinger(g)
             /\ notFound' = notFound \/ GetPeers(g)
  BY <1>5 DEF Handle, StartLookup, Callback, HandlePing, UpdatePinger, HandleFindNode,
              NearestPeers, GetPeers
<1>6. ASSUME NEW g \in Goroutines, NEW x \in Peers, NEW code \in Codes,
             GetCallback(g, x, code)
      PROVE  UNCHANGED <<handlers, timer, bonds, hist>>
  BY <1>6 DEF GetCallback
<1>7. ASSUME NEW x \in Peers, Expire(x) PROVE UNCHANGED <<handlers, timer, gors, hist>>
  BY <1>7 DEF Expire
<1>8. CASE UNCHANGED vars BY <1>8 DEF vars
<1>9. \/ \E p \in Procs, x \in Peers, code \in {"pong", "ping", "neighbors"},
              label \in {"waitPong", "waitPing", "waitNeighbors"} :
              Starts(p, x, code, label)
      \/ UNCHANGED <<owner, key, made>>
  BY StepCases
<1>10. ASSUME made' = made + 1
       PROVE  \E p \in Procs, x \in Peers, code \in {"pong", "ping", "neighbors"},
                 label \in {"waitPong", "waitPing", "waitNeighbors"} :
                 Starts(p, x, code, label)
  <2>1. made' # made BY <1>10, CapsAssumption DEF Discv4Inv, TypeOK
  <2> QED BY <1>9, <2>1
<1>11. ASSUME NEW p, NEW x, NEW code, setHandler(p, x, code) PROVE made' = made + 1
  BY <1>11 DEF setHandler
<1>12. /\ \A p : RegisterPing(p) \/ FindNodesAfterPing(p) \/ TakeTask(p) => made' = made + 1
       /\ \A p, x : Probe(p, x) \/ revalidatePeer(p, x) \/ FindNodesKnown(p, x)
                       => made' = made + 1
  BY <1>11 DEF RegisterPing, FindNodesAfterPing, TakeTask, Probe, revalidatePeer,
               FindNodesKnown, probeNode, AskNeighbors
<1> HIDE DEF gors, bonds, calls, hist
<1>13. UNCHANGED hist => ponged' = ponged /\ notFound' = notFound BY DEF hist
<1>14. CASE \E p \in Procs : Step(p) \/ TakeTask(p)
  BY <1>1, <1>2, <1>10, <1>12, <1>13, <1>14
<1>15. CASE \E p \in Callers, x \in Peers :
              Probe(p, x) \/ revalidatePeer(p, x) \/ FindNodesKnown(p, x)
  BY <1>3, <1>10, <1>12, <1>13, <1>15
<1>16. CASE \E c \in Calls : Timer(c) BY <1>4, <1>13, <1>16
<1>17. CASE \E g \in Goroutines : \/ Handle(g) \/ StartLookup(g)
                                  \/ \E x \in Peers, code \in Codes : GetCallback(g, x, code)
  BY <1>5, <1>6, <1>13, <1>17
<1>18. CASE \E x \in Peers : Expire(x) BY <1>7, <1>13, <1>18
<1> QED BY <1>8, <1>14, <1>15, <1>16, <1>17, <1>18 DEF Next, vars, calls, hist

\* The types of the goroutines.
LEMMA GorTypes ==
  ASSUME Discv4Inv, [Next]_vars
  PROVE  /\ gpc' \in [Goroutines -> {"idle", "callback", "ping", "update", "updating",
                                     "findnode", "nearest", "getPeer"}]
         /\ gpkt' \in [Goroutines -> Keys \cup {None}]
         /\ gcb' \in [Goroutines -> 0..MaxCalls]
         /\ gseen' \in [Goroutines -> SUBSET Peers]
<1> DEFINE Glabels == {"idle", "callback", "ping", "update", "updating", "findnode",
                       "nearest", "getPeer"}
           Typed == /\ gpc' \in [Goroutines -> Glabels]
                    /\ gpkt' \in [Goroutines -> Keys \cup {None}]
                    /\ gcb' \in [Goroutines -> 0..MaxCalls]
                    /\ gseen' \in [Goroutines -> SUBSET Peers]
<1> SUFFICES Typed OBVIOUS
<1>0. /\ gpc \in [Goroutines -> Glabels] /\ gpkt \in [Goroutines -> Keys \cup {None}]
      /\ gcb \in [Goroutines -> 0..MaxCalls] /\ gseen \in [Goroutines -> SUBSET Peers]
      /\ 0 \in 0..MaxCalls /\ table \in SUBSET Peers
      /\ handlers \in [Keys -> 0..MaxCalls]
  BY CapsAssumption DEF Discv4Inv, TypeOK
<1>1. CASE UNCHANGED gors BY <1>0, <1>1 DEF gors
<1>2. ASSUME NEW g \in Goroutines, Gone(g), gcb' = gcb \/ gcb' = [gcb EXCEPT ![g] = 0]
      PROVE  Typed
  BY <1>0, <1>2 DEF Gone
<1>3. ASSUME NEW g \in Goroutines, NEW label \in Glabels, Ggoto(g, label),
             gcb' = gcb \/ gcb' = [gcb EXCEPT ![g] = 0]
      PROVE  Typed
  BY <1>0, <1>3 DEF Ggoto
<1>4. ASSUME NEW g \in Goroutines, Handle(g) \/ StartLookup(g) PROVE Typed
  <2>1. CASE NearestPeers(g) BY <1>0, <2>1 DEF NearestPeers
  <2>2. CASE Callback(g) BY <1>2, <1>3, <2>2 DEF Callback
  <2>3. CASE HandlePing(g) \/ UpdatePinger(g) \/ HandleFindNode(g) \/ GetPeers(g)
             \/ StartLookup(g)
    BY <1>2, <1>3, <2>3 DEF HandlePing, UpdatePinger, HandleFindNode, GetPeers, StartLookup
  <2> QED BY <1>4, <2>1, <2>2, <2>3 DEF Handle
<1>5. ASSUME NEW g \in Goroutines, NEW x \in Peers, NEW code \in Codes,
             GetCallback(g, x, code)
      PROVE  Typed
  <2>1. <<x, code>> \in Keys BY DEF Keys
  <2>2. CASE handlers[<<x, code>>] = 0
    BY <1>0, <1>5, <2>1, <2>2 DEF GetCallback, Dispatch
  <2>3. CASE handlers[<<x, code>>] # 0
    BY <1>0, <1>5, <2>1, <2>3 DEF GetCallback
  <2> QED BY <2>2, <2>3
<1> HIDE DEF Typed
<1> QED BY <1>1, <1>4, <1>5, WhoChanges

\* The types of the handlers and of the timers.
LEMMA HandlerTypes ==
  ASSUME Discv4Inv, [Next]_vars
  PROVE  /\ handlers' \in [Keys -> 0..MaxCalls]
         /\ timer' \in [Calls -> {"none", "set", "deleted", "fired"}]
<1>0. /\ handlers \in [Keys -> 0..MaxCalls] /\ 0 \in 0..MaxCalls
      /\ timer \in [Calls -> {"none", "set", "deleted", "fired"}]
  BY CapsAssumption DEF Discv4Inv, TypeOK
<1>1. CASE UNCHANGED <<handlers, timer>> BY <1>0, <1>1
<1>2. CASE \E p \in Procs, x \in Peers, code \in {"pong", "ping", "neighbors"},
                label \in {"waitPong", "waitPing", "waitNeighbors"} :
                Starts(p, x, code, label)
  BY <1>2, StartsTypes
<1>3. ASSUME NEW c \in Calls, Timer(c)
      PROVE  /\ handlers' \in [Keys -> 0..MaxCalls]
             /\ timer' \in [Calls -> {"none", "set", "deleted", "fired"}]
  BY <1>0, <1>3 DEF Timer, TimerDeletes, TimerSends
<1> QED BY <1>1, <1>2, <1>3, WhoChanges

\* The types of the table, of the nodes and of the lock.
LEMMA BondTypes ==
  ASSUME Discv4Inv, [Next]_vars
  PROVE  /\ table' \subseteq Peers /\ nodes' \in [Peers -> {"none", "fresh", "stale"}]
         /\ validLock' \in Procs \cup Goroutines \cup {None}
         /\ ponged' \subseteq Peers
<1> DEFINE Typed == /\ table' \subseteq Peers /\ nodes' \in [Peers -> {"none", "fresh", "stale"}]
                    /\ validLock' \in Procs \cup Goroutines \cup {None}
<1>0. /\ table \subseteq Peers /\ nodes \in [Peers -> {"none", "fresh", "stale"}]
      /\ validLock \in Procs \cup Goroutines \cup {None} /\ ponged \subseteq Peers
  BY DEF Discv4Inv, TypeOK
<1>1. ASSUME NEW a \in Procs \cup Goroutines, NEW x \in Peers,
             UpdateTable(a, x) \/ UpdateNodes(a, x)
      PROVE  Typed
  BY <1>0, <1>1 DEF UpdateTable, UpdateNodes
<1>2. ASSUME NEW p \in Procs, Bond(p) \/ \E more \in BOOLEAN : Bonded(p, more)
      PROVE  Typed /\ on[p] \in Peers
  <2>1. on[p] \in Peers BY <1>2 DEF Bond, Bonded, Discv4Inv, ProcsBusy
  <2> QED BY <1>1, <1>2, <2>1 DEF Bond, Bonded
<1>3. ASSUME NEW g \in Goroutines, UpdatePinger(g) PROVE Typed
  <2>1. gpkt[g] \in Keys BY <1>3 DEF UpdatePinger, Discv4Inv, PacketsHeld
  <2>2. gpkt[g][1] \in Peers BY <2>1 DEF Keys
  <2> QED BY <1>1, <1>3, <2>2 DEF UpdatePinger
<1>4. ASSUME NEW x \in Peers, Expire(x) PROVE Typed BY <1>0, <1>4 DEF Expire
<1>5. ASSUME UNCHANGED bonds PROVE Typed BY <1>0, <1>5 DEF bonds
<1>6. ponged' \subseteq Peers
  <2>1. CASE ponged' = ponged BY <1>0, <2>1
  <2>2. ASSUME NEW p \in Procs, Bond(p) PROVE ponged' \subseteq Peers
    BY <1>0, <1>2, <2>2 DEF Bond
  <2> QED BY <2>1, <2>2, WhoChanges
<1> HIDE DEF Typed
<1>7. Typed BY <1>2, <1>3, <1>4, <1>5, WhoChanges
<1> QED BY <1>6, <1>7 DEF Typed

\* The queue of the tasks keeps to its capacity.
LEMMA TasksTypes ==
  ASSUME Discv4Inv, [Next]_vars
  PROVE  tasks' \in Seq(Peers) /\ Len(tasks') <= TaskCap
<1> DEFINE Typed == tasks' \in Seq(Peers) /\ Len(tasks') <= TaskCap
<1> SUFFICES Typed OBVIOUS
<1>0. TypeOK /\ tasks \in Seq(Peers) /\ Len(tasks) <= TaskCap BY DEF Discv4Inv, TypeOK
<1>1. CASE tasks' = tasks BY <1>0, <1>1
<1>2. ASSUME NEW p \in Procs, TakeTask(p) PROVE Typed
  <2>1. tasks # <<>> /\ tasks' = Tail(tasks) BY <1>2 DEF TakeTask
  <2> QED BY <1>0, <2>1, CapsAssumption
<1>3. ASSUME NEW p \in Procs, Finish(p) PROVE Typed
  <2>1. PICK xs \in {<<>>} \cup {<<x>> : x \in Peers} : sendTask(xs) BY <1>3 DEF Finish
  <2>2. <<>> \in Seq(Peers) /\ \A x \in Peers : <<x>> \in Seq(Peers) OBVIOUS
  <2>3. xs \in Seq(Peers) BY <2>2
  <2> QED BY <1>0, <2>1, <2>3, TasksBounded
<1>4. ASSUME NEW g \in Goroutines, HandlePing(g) PROVE Typed
  <2>1. gpkt[g] \in Keys BY <1>4 DEF HandlePing, Discv4Inv, PacketsHeld
  <2>2. <<gpkt[g][1]>> \in Seq(Peers) BY <2>1 DEF Keys
  <2>3. tasks' = tasks \/ sendTask(<<gpkt[g][1]>>) BY <1>4 DEF HandlePing
  <2> QED BY <1>0, <1>1, <2>2, <2>3, TasksBounded
<1>5. ASSUME NEW p \in Procs, Step(p) PROVE tasks' = tasks \/ Finish(p)
  BY <1>5 DEF Step, Bond, Bonded, RegisterPing, FindNodesAfterPing, Process
<1>6. ASSUME NEW p \in Callers, NEW x \in Peers,
             Probe(p, x) \/ revalidatePeer(p, x) \/ FindNodesKnown(p, x)
      PROVE  tasks' = tasks
  BY <1>6 DEF Probe, revalidatePeer, FindNodesKnown
<1>7. ASSUME NEW c \in Calls, Timer(c) PROVE tasks' = tasks
  BY <1>7 DEF Timer, TimerDeletes, TimerSends
<1>8. ASSUME NEW g \in Goroutines, Handle(g) \/ StartLookup(g)
      PROVE  tasks' = tasks \/ HandlePing(g)
  BY <1>8 DEF Handle, StartLookup, Callback, UpdatePinger, HandleFindNode, NearestPeers,
              GetPeers
<1>9. ASSUME NEW g \in Goroutines, NEW x \in Peers, NEW code \in Codes,
             GetCallback(g, x, code)
      PROVE  tasks' = tasks
  BY <1>9 DEF GetCallback
<1>10. ASSUME NEW x \in Peers, Expire(x) PROVE tasks' = tasks BY <1>10 DEF Expire
<1>11. CASE UNCHANGED vars BY <1>1, <1>11 DEF vars
<1> HIDE DEF Typed
<1> QED BY <1>1, <1>2, <1>3, <1>4, <1>5, <1>6, <1>7, <1>8, <1>9, <1>10, <1>11 DEF Next

\* All the types together.
LEMMA TypeStep ==
  ASSUME Discv4Inv, [Next]_vars
  PROVE  TypeOK'
<1>1. notFound' \in BOOLEAN
  <2>1. notFound' = notFound \/ \E g \in Goroutines : GetPeers(g) BY WhoChanges
  <2> QED BY <2>1 DEF GetPeers, Discv4Inv, TypeOK
<1> QED BY <1>1, ProcTypes, GorTypes, HandlerTypes, BondTypes, TasksTypes DEF TypeOK, Labels

-----------------------------------------------------------------------------
(* The processes, the calls and the goroutines.                            *)

\* The processes stay with their own calls.
LEMMA ProcsStep ==
  ASSUME Discv4Inv, [Next]_vars
  PROVE  ProcsBusy'
<1> SUFFICES ASSUME NEW q \in Procs, pc'[q] # "idle"
             PROVE  /\ on'[q] \in Peers
                    /\ call'[q] \in 1..made' /\ owner'[call'[q]] = q
                    /\ pc'[q] = "bonding" => on'[q] \in ponged'
  BY DEF ProcsBusy
<1>0. /\ pc \in [Procs -> Labels] /\ on \in [Procs -> Peers \cup {None}]
      /\ call \in [Procs -> 0..MaxCalls] /\ made \in 0..MaxCalls
      /\ owner \in [Calls -> Procs \cup {None}]
  BY DEF Discv4Inv, TypeOK, Labels
<1>1. pc[q] # "idle" => /\ on[q] \in Peers
                        /\ call[q] \in 1..made /\ owner[call[q]] = q
                        /\ pc[q] = "bonding" => on[q] \in ponged
  BY DEF Discv4Inv, ProcsBusy
<1>2. ponged \subseteq ponged' BY StepCases
<1>3. ASSUME NEW p \in Procs, NEW x \in Peers, NEW code \in {"pong", "ping", "neighbors"},
             NEW label \in {"waitPong", "waitPing", "waitNeighbors"},
             Starts(p, x, code, label)
      PROVE  /\ on'[q] \in Peers
             /\ call'[q] \in 1..made' /\ owner'[call'[q]] = q
             /\ pc'[q] = "bonding" => on'[q] \in ponged'
  <2>1. made + 1 \in Calls /\ made' = made + 1 /\ ponged' = ponged
    BY <1>3, MadeAreCalls DEF Starts, setHandler, hist, Discv4Inv
  <2>2. CASE q = p
    <3>1. on'[q] = x /\ call'[q] = made + 1 /\ pc'[q] = label
      BY <1>0, <1>3, <2>2 DEF Starts, setHandler
    <3>2. owner'[made + 1] = q BY <1>0, <1>3, <2>1, <2>2 DEF Starts, setHandler
    <3> QED BY <1>0, <2>1, <3>1, <3>2, CapsAssumption
  <2>3. CASE q # p
    <3>1. on'[q] = on[q] /\ call'[q] = call[q] /\ pc'[q] = pc[q]
      BY <1>0, <1>3, <2>3 DEF Starts, setHandler
    <3>2. call[q] \in 1..made /\ owner[call[q]] = q BY <1>1, <3>1
    <3>3. call[q] \in Calls /\ call[q] # made + 1
      BY <1>0, <3>2, CapsAssumption, MadeAreCalls DEF Discv4Inv
    <3>4. owner'[call[q]] = q BY <1>0, <1>3, <3>2, <3>3 DEF Starts, setHandler
    <3>5. call[q] \in 1..made' BY <1>0, <2>1, <3>2
    <3> QED BY <1>1, <2>1, <3>1, <3>4, <3>5
  <2> QED BY <2>2, <2>3
<1>4. CASE UNCHANGED <<owner, key, made>> /\ GoesOn
  <2>1. PICK p \in Procs, label \in Labels :
          /\ pc[p] # "idle" /\ Moves(p, label)
          /\ label = "bonding" => pc[p] = "bond" /\ on[p] \in ponged'
    BY <1>4 DEF GoesOn
  <2>2. CASE q = p
    <3>1. pc'[q] = label BY <1>0, <2>1, <2>2 DEF Moves
    <3>2. on' = on /\ call' = call BY <2>1, <3>1 DEF Moves
    <3> QED BY <1>1, <1>2, <1>4, <2>1, <2>2, <3>1, <3>2
  <2>3. CASE q # p
    <3>1. on'[q] = on[q] /\ call'[q] = call[q] /\ pc'[q] = pc[q]
      BY <1>0, <2>1, <2>3 DEF Moves
    <3> QED BY <1>1, <1>2, <1>4, <3>1
  <2> QED BY <2>2, <2>3
<1>5. CASE UNCHANGED <<owner, key, made>> /\ UNCHANGED procs
  BY <1>1, <1>2, <1>5 DEF procs
<1> QED BY <1>3, <1>4, <1>5, StepCases

\* The calls made keep what they were made with.
LEMMA CallsStep ==
  ASSUME Discv4Inv, [Next]_vars
  PROVE  CallsMade'
<1> SUFFICES ASSUME NEW c \in Calls
             PROVE  /\ c <= made' => timer'[c] # "none" /\ owner'[c] \in Procs /\ key'[c] \in Keys
                    /\ c > made' => timer'[c] = "none"
  BY DEF CallsMade
<1> DEFINE Good == /\ c <= made' => timer'[c] # "none" /\ owner'[c] \in Procs /\ key'[c] \in Keys
                   /\ c > made' => timer'[c] = "none"
<1>0. /\ owner \in [Calls -> Procs \cup {None}] /\ key \in [Calls -> Keys \cup {None}]
      /\ timer \in [Calls -> {"none", "set", "deleted", "fired"}] /\ made \in Nat /\ c \in Nat
  BY CapsAssumption DEF Discv4Inv, TypeOK, Calls
<1>1. /\ c <= made => timer[c] # "none" /\ owner[c] \in Procs /\ key[c] \in Keys
      /\ c > made => timer[c] = "none"
  BY DEF Discv4Inv, CallsMade
<1>2. ASSUME NEW p \in Procs, NEW x \in Peers, NEW code \in {"pong", "ping", "neighbors"},
             NEW label \in {"waitPong", "waitPing", "waitNeighbors"},
             Starts(p, x, code, label)
      PROVE  Good
  <2>1. made' = made + 1 /\ <<x, code>> \in Keys
    BY <1>2 DEF Starts, setHandler, Keys, Codes
  <2>2. CASE c = made + 1
    <3>1. timer'[c] = "set" /\ owner'[c] = p /\ key'[c] = <<x, code>>
      BY <1>0, <1>2, <2>2 DEF Starts, setHandler
    <3> QED BY <1>0, <2>1, <2>2, <3>1
  <2>3. CASE c # made + 1
    <3>1. timer'[c] = timer[c] /\ owner'[c] = owner[c] /\ key'[c] = key[c]
      BY <1>0, <1>2, <2>3 DEF Starts, setHandler
    <3> QED BY <1>0, <1>1, <2>1, <2>3, <3>1
  <2> QED BY <2>2, <2>3
<1>3. ASSUME UNCHANGED <<owner, key, made, timer>> PROVE Good BY <1>1, <1>3
<1>4. ASSUME NEW d \in Calls, Timer(d) PROVE Good
  <2>1. UNCHANGED <<owner, key, made>> BY <1>4 DEF Timer, TimerDeletes, TimerSends
  <2>2. timer'[c] = timer[c] \/ (timer[c] # "none" /\ timer'[c] # "none")
    BY <1>0, <1>4 DEF Timer, TimerDeletes, TimerSends
  <2> QED BY <1>1, <2>1, <2>2
<1> HIDE DEF Good
<1>5. Good BY <1>2, <1>3, <1>4, StepCases, WhoChanges
<1> QED BY <1>5 DEF Good

\* No handler and no callback of a call that has not been made.
LEMMA HandlersStep ==
  ASSUME Discv4Inv, [Next]_vars
  PROVE  HandlersMade'
<1>0. /\ handlers \in [Keys -> 0..MaxCalls] /\ made \in Nat /\ made' \in Nat
      /\ \A k \in Keys : handlers[k] <= made /\ handlers[k] \in Nat
      /\ gpc \in [Goroutines -> {"idle", "callback", "ping", "update", "updating",
                                 "findnode", "nearest", "getPeer"}]
      /\ gcb \in [Goroutines -> 0..MaxCalls]
      /\ \A g \in Goroutines : gpc[g] = "callback" => gcb[g] \in 1..made
  BY ProcTypes, CapsAssumption DEF Discv4Inv, TypeOK, HandlersMade
<1>1. made <= made'
  <2>1. made' = made \/ made' = made + 1 BY StepCases DEF Starts, setHandler
  <2> QED BY <1>0, <2>1
<1>2. ASSUME NEW k \in Keys PROVE handlers'[k] <= made'
  <2>1. CASE UNCHANGED handlers BY <1>0, <1>1, <2>1
  <2>2. ASSUME NEW p \in Procs, NEW x \in Peers, NEW code \in {"pong", "ping", "neighbors"},
               NEW label \in {"waitPong", "waitPing", "waitNeighbors"},
               Starts(p, x, code, label)
        PROVE  handlers'[k] <= made'
    <3>1. made' = made + 1 /\ handlers' = [handlers EXCEPT ![<<x, code>>] = made + 1]
      BY <2>2 DEF Starts, setHandler
    <3>2. handlers'[k] = handlers[k] \/ handlers'[k] = made + 1 BY <1>0, <3>1
    <3> QED BY <1>0, <3>1, <3>2
  <2>3. ASSUME NEW c \in Calls, Timer(c) PROVE handlers'[k] <= made'
    <3>1. handlers' = handlers \/ handlers' = [handlers EXCEPT ![key[c]] = 0]
      BY <2>3 DEF Timer, TimerDeletes, TimerSends
    <3>2. handlers'[k] = handlers[k] \/ handlers'[k] = 0 BY <1>0, <3>1
    <3> QED BY <1>0, <1>1, <3>2
  <2> QED BY <2>1, <2>2, <2>3, WhoChanges
<1>3. ASSUME NEW h \in Goroutines, gpc'[h] = "callback" PROVE gcb'[h] \in 1..made'
  <2> DEFINE Good == gcb'[h] \in 1..made'
  <2>1. ASSUME gpc[h] = "callback", gcb'[h] = gcb[h] PROVE Good BY <1>0, <1>1, <2>1
  <2>2. ASSUME UNCHANGED gors PROVE Good BY <1>3, <2>1, <2>2 DEF gors
  <2>3. ASSUME NEW g \in Goroutines, Gone(g) PROVE gpc'[h] = gpc[h] /\ h # g
    BY <1>0, <1>3, <2>3 DEF Gone
  <2>4. ASSUME NEW g \in Goroutines, NEW label, Ggoto(g, label), label # "callback"
        PROVE  gpc'[h] = gpc[h] /\ h # g
    BY <1>0, <1>3, <2>4 DEF Ggoto
  <2>5. ASSUME NEW g \in Goroutines, Handle(g) \/ StartLookup(g) PROVE Good
    <3>1. gpc'[h] = gpc[h] /\ h # g
      <4>1. CASE NearestPeers(g) BY <1>0, <1>3, <4>1 DEF NearestPeers
      <4>2. CASE Callback(g) BY <2>3, <2>4, <4>2 DEF Callback
      <4>3. CASE HandlePing(g) \/ UpdatePinger(g) \/ HandleFindNode(g) \/ GetPeers(g)
                 \/ StartLookup(g)
        BY <2>3, <2>4, <4>3 DEF HandlePing, UpdatePinger, HandleFindNode, GetPeers, StartLookup
      <4> QED BY <2>5, <4>1, <4>2, <4>3 DEF Handle
    <3>2. gcb' = gcb \/ gcb' = [gcb EXCEPT ![g] = 0]
      BY <2>5 DEF Handle, NearestPeers, Callback, HandlePing, UpdatePinger, HandleFindNode,
                  GetPeers, StartLookup
    <3> QED BY <1>0, <1>3, <2>1, <3>1, <3>2
  <2>6. ASSUME NEW g \in Goroutines, NEW x \in Peers, NEW code \in Codes,
               GetCallback(g, x, code)
        PROVE  Good
    <3>1. <<x, code>> \in Keys BY DEF Keys
    <3>2. CASE handlers[<<x, code>>] = 0
      BY <1>0, <1>3, <2>1, <2>6, <3>2 DEF GetCallback, Dispatch
    <3>3. CASE handlers[<<x, code>>] # 0
      <4>1. handlers[<<x, code>>] \in 1..made' BY <1>0, <1>1, <3>1, <3>3
      <4>2. CASE h = g BY <1>0, <2>6, <3>3, <4>1, <4>2 DEF GetCallback
      <4>3. CASE h # g BY <1>0, <1>3, <2>1, <2>6, <3>3, <4>3 DEF GetCallback
      <4> QED BY <4>2, <4>3
    <3> QED BY <3>2, <3>3
  <2> HIDE DEF Good
  <2>7. Good BY <2>2, <2>5, <2>6, WhoChanges
  <2> QED BY <2>7 DEF Good
<1> QED BY <1>2, <1>3 DEF HandlersMade

\* A goroutine keeps what it knows of its packet and of the table.
LEMMA PacketsStep ==
  ASSUME Discv4Inv, [Next]_vars
  PROVE  PacketsHeld'
<1> SUFFICES ASSUME NEW h \in Goroutines
             PROVE  /\ gpc'[h] = "idle" => gpkt'[h] = None
                    /\ gpc'[h] \in {"callback", "ping", "update", "updating", "findnode"}
                         => gpkt'[h] \in Keys
                    /\ gpc'[h] \in {"update", "updating"} => gpkt'[h][1] \in ponged'
                    /\ gpc'[h] \in {"nearest", "getPeer"} /\ gpkt'[h] # None
                         => gpkt'[h][1] \in ponged'
                    /\ gseen'[h] \subseteq table'
  BY DEF PacketsHeld
<1> DEFINE Good == /\ gpc'[h] = "idle" => gpkt'[h] = None
                   /\ gpc'[h] \in {"callback", "ping", "update", "updating", "findnode"}
                        => gpkt'[h] \in Keys
                   /\ gpc'[h] \in {"update", "updating"} => gpkt'[h][1] \in ponged'
                   /\ gpc'[h] \in {"nearest", "getPeer"} /\ gpkt'[h] # None
                        => gpkt'[h][1] \in ponged'
                   /\ gseen'[h] \subseteq table'
<1>0. /\ gpc \in [Goroutines -> {"idle", "callback", "ping", "update", "updating",
                                 "findnode", "nearest", "getPeer"}]
      /\ gpkt \in [Goroutines -> Keys \cup {None}]
      /\ gseen \in [Goroutines -> SUBSET Peers]
  BY DEF Discv4Inv, TypeOK
<1>1. ponged \subseteq ponged' /\ table \subseteq table' BY StepCases
<1>2. /\ gpc[h] = "idle" => gpkt[h] = None
      /\ gpc[h] \in {"callback", "ping", "update", "updating", "findnode"} => gpkt[h] \in Keys
      /\ gpc[h] \in {"update", "updating"} => gpkt[h][1] \in ponged
      /\ gpc[h] \in {"nearest", "getPeer"} /\ gpkt[h] # None => gpkt[h][1] \in ponged
      /\ gseen[h] \subseteq table
  BY DEF Discv4Inv, PacketsHeld
<1>3. ASSUME gpc'[h] = gpc[h], gpkt'[h] = gpkt[h], gseen'[h] = gseen[h] PROVE Good
  BY <1>1, <1>2, <1>3
<1>4. ASSUME NEW g \in Goroutines, Gone(g) PROVE Good
  <2>1. CASE h = g BY <1>0, <1>4, <2>1 DEF Gone
  <2>2. CASE h # g BY <1>0, <1>3, <1>4, <2>2 DEF Gone
  <2> QED BY <2>1, <2>2
<1>5. ASSUME NEW g \in Goroutines, NEW label, Ggoto(g, label),
             gpkt[g] = None \/ gpkt[g] \in Keys,
             label \in {"ping", "update", "updating"} => gpkt[g] \in Keys,
             label \in {"update", "updating", "nearest"} /\ gpkt[g] # None
               => gpkt[g][1] \in ponged,
             label \in {"ping", "update", "updating", "nearest"}
      PROVE  Good
  <2>1. CASE h = g BY <1>0, <1>1, <1>2, <1>5, <2>1, ProcsAssumption DEF Ggoto, Keys, Codes
  <2>2. CASE h # g BY <1>0, <1>3, <1>5, <2>2 DEF Ggoto
  <2> QED BY <2>1, <2>2
<1>6. ASSUME NEW g \in Goroutines, gpkt[g] \in Keys, nodes[gpkt[g][1]] = "fresh"
      PROVE  gpkt[g][1] \in ponged
  <2>1. gpkt[g][1] \in Peers BY <1>6 DEF Keys
  <2> QED BY <1>6, <2>1 DEF Discv4Inv, KnownAnswered
<1>7. ASSUME NEW g \in Goroutines, Handle(g) \/ StartLookup(g) PROVE Good
  <2>0. /\ gpc[g] = "idle" => gpkt[g] = None
        /\ gpc[g] \in {"callback", "ping", "update", "updating", "findnode"} => gpkt[g] \in Keys
        /\ gpc[g] \in {"update", "updating"} => gpkt[g][1] \in ponged
        /\ gpkt[g] = None \/ gpkt[g] \in Keys
    BY <1>0 DEF Discv4Inv, PacketsHeld
  <2>1. CASE NearestPeers(g)
    <3>1. CASE h = g
      <4>1. gpc'[h] = "getPeer" /\ gpkt'[h] = gpkt[h] /\ gseen'[h] = table /\ gpc[h] = "nearest"
        BY <1>0, <2>1, <3>1 DEF NearestPeers
      <4> QED BY <1>1, <1>2, <4>1
    <3>2. CASE h # g BY <1>0, <1>3, <2>1, <3>2 DEF NearestPeers
    <3> QED BY <3>1, <3>2
  <2>2. CASE Callback(g) BY <1>4, <1>5, <2>0, <2>2 DEF Callback
  <2>3. CASE HandlePing(g) BY <1>4, <1>5, <1>6, <2>0, <2>3 DEF HandlePing
  <2>4. CASE UpdatePinger(g) BY <1>4, <1>5, <2>0, <2>4 DEF UpdatePinger
  <2>5. CASE HandleFindNode(g) BY <1>4, <1>5, <1>6, <2>0, <2>5 DEF HandleFindNode
  <2>6. CASE GetPeers(g) BY <1>4, <2>6 DEF GetPeers
  <2>7. CASE StartLookup(g) BY <1>5, <2>0, <2>7 DEF StartLookup
  <2> HIDE DEF Good
  <2> QED BY <1>7, <2>1, <2>2, <2>3, <2>4, <2>5, <2>6, <2>7 DEF Handle
<1>8. ASSUME NEW g \in Goroutines, NEW x \in Peers, NEW code \in Codes,
             GetCallback(g, x, code)
      PROVE  Good
  <2>1. <<x, code>> \in Keys BY DEF Keys
  <2>2. CASE h = g
    <3>1. gpkt'[h] = <<x, code>> /\ gseen'[h] = gseen[h]
      BY <1>0, <1>8, <2>2 DEF GetCallback, Dispatch
    <3>2. gpc'[h] \in {"callback", "ping", "findnode"}
      BY <1>0, <1>8, <2>2 DEF GetCallback, Dispatch
    <3> QED BY <1>1, <1>2, <2>1, <3>1, <3>2
  <2>3. CASE h # g BY <1>0, <1>3, <1>8, <2>3 DEF GetCallback, Dispatch
  <2> QED BY <2>2, <2>3
<1>9. ASSUME UNCHANGED gors PROVE Good BY <1>3, <1>9 DEF gors
<1> HIDE DEF Good
<1>10. Good BY <1>7, <1>8, <1>9, WhoChanges
<1> QED BY <1>10 DEF Good

-----------------------------------------------------------------------------
(* The bonds.                                                              *)

\* Only peers that have answered are entered.
LEMMA AnsweredStep ==
  ASSUME Discv4Inv, [Next]_vars
  PROVE  KnownAnswered'
<1> SUFFICES ASSUME NEW y \in Peers, nodes'[y] # "none" \/ y \in table'
             PROVE  y \in ponged'
  BY DEF KnownAnswered
<1>0. nodes \in [Peers -> {"none", "fresh", "stale"}] BY DEF Discv4Inv, TypeOK
<1>1. ponged \subseteq ponged' BY StepCases
<1>2. nodes[y] # "none" \/ y \in table => y \in ponged' BY <1>1 DEF Discv4Inv, KnownAnswered
<1>3. ASSUME NEW a, NEW x \in ponged', UpdateTable(a, x) \/ UpdateNodes(a, x)
      PROVE  y \in ponged'
  BY <1>0, <1>2, <1>3 DEF UpdateTable, UpdateNodes
<1>4. CASE UNCHANGED bonds BY <1>2, <1>4 DEF bonds
<1>5. ASSUME NEW p \in Procs, Bond(p) \/ \E more \in BOOLEAN : Bonded(p, more)
      PROVE  y \in ponged'
  <2>1. on[p] \in ponged' BY <1>1, <1>5 DEF Bond, Bonded, Discv4Inv, ProcsBusy
  <2> QED BY <1>3, <1>5, <2>1 DEF Bond, Bonded
<1>6. ASSUME NEW g \in Goroutines, UpdatePinger(g) PROVE y \in ponged'
  <2>1. gpkt[g][1] \in ponged' BY <1>1, <1>6 DEF UpdatePinger, Discv4Inv, PacketsHeld
  <2> QED BY <1>3, <1>6, <2>1 DEF UpdatePinger
<1>7. ASSUME NEW x \in Peers, Expire(x) PROVE y \in ponged'
  BY <1>0, <1>2, <1>7 DEF Expire
<1> QED BY <1>4, <1>5, <1>6, <1>7, WhoChanges

\* While nobody holds validLock, every listed peer is in nodes.
LEMMA UnlockedKnown ==
  ASSUME Discv4Inv, validLock = None, NEW x \in table
  PROVE  nodes[x] # "none"
BY ProcsAssumption DEF Discv4Inv, ListedAreKnown, Procs

\* A listed peer is in nodes once the holder of validLock is through with it.
LEMMA ListedStep ==
  ASSUME Discv4Inv, [Next]_vars
  PROVE  ListedAreKnown'
<1> SUFFICES ASSUME NEW y \in table', nodes'[y] = "none"
             PROVE  \/ \E p \in Procs : validLock' = p /\ pc'[p] = "bonding" /\ on'[p] = y
                    \/ \E g \in Goroutines : /\ validLock' = g /\ gpc'[g] = "updating"
                                              /\ gpkt'[g][1] = y
  BY DEF ListedAreKnown
<1> DEFINE Good == \/ \E p \in Procs : validLock' = p /\ pc'[p] = "bonding" /\ on'[p] = y
                   \/ \E g \in Goroutines : /\ validLock' = g /\ gpc'[g] = "updating"
                                             /\ gpkt'[g][1] = y
<1>0. /\ nodes \in [Peers -> {"none", "fresh", "stale"}] /\ table \subseteq Peers
      /\ pc \in [Procs -> Labels] /\ on \in [Procs -> Peers \cup {None}]
      /\ gpc \in [Goroutines -> {"idle", "callback", "ping", "update", "updating",
                                 "findnode", "nearest", "getPeer"}]
      /\ gpkt \in [Goroutines -> Keys \cup {None}]
  BY DEF Discv4Inv, TypeOK, Labels
<1>1. ASSUME y \in table, nodes[y] = "none"
      PROVE  \/ \E p \in Procs : validLock = p /\ pc[p] = "bonding" /\ on[p] = y
             \/ \E g \in Goroutines : validLock = g /\ gpc[g] = "updating" /\ gpkt[g][1] = y
  BY <1>1 DEF Discv4Inv, ListedAreKnown
<1>2. None \notin Procs /\ None \notin Goroutines /\ Procs \cap Goroutines = {}
  BY ProcsAssumption DEF Procs
<1>3. ASSUME UNCHANGED bonds PROVE Good
  <2>1. y \in table /\ nodes[y] = "none" /\ validLock' = validLock BY <1>3 DEF bonds
  <2>2. ASSUME NEW p \in Procs, validLock = p, pc[p] = "bonding", on[p] = y PROVE Good
    <3>1. pc'[p] = pc[p] /\ on'[p] = on[p]
      <4>1. CASE UNCHANGED procs BY <4>1 DEF procs
      <4>2. CASE GoesOn
        <5>1. PICK q \in Procs, label \in Labels :
                Moves(q, label) /\ (pc[q] = "bonding" => validLock = q /\ validLock' = None)
          BY <4>2 DEF GoesOn
        <5>2. q # p BY <1>2, <2>1, <2>2, <5>1
        <5> QED BY <1>0, <5>1, <5>2 DEF Moves
      <4>3. ASSUME NEW q \in Procs, NEW x \in Peers, NEW code \in {"pong", "ping", "neighbors"},
                   NEW label \in {"waitPong", "waitPing", "waitNeighbors"},
                   Starts(q, x, code, label)
            PROVE  pc'[p] = pc[p] /\ on'[p] = on[p]
        <5>1. q # p BY <2>2, <4>3 DEF Starts
        <5> QED BY <1>0, <4>3, <5>1 DEF Starts
      <4> QED BY <4>1, <4>2, <4>3, StepCases
    <3> QED BY <2>1, <2>2, <3>1
  <2>3. ASSUME NEW g \in Goroutines, validLock = g, gpc[g] = "updating", gpkt[g][1] = y
        PROVE  Good
    <3>1. gpc'[g] = gpc[g] /\ gpkt'[g] = gpkt[g]
      <4>1. CASE UNCHANGED gors BY <4>1 DEF gors
      <4>2. ASSUME NEW h \in Goroutines, Handle(h) \/ StartLookup(h)
            PROVE  gpc'[g] = gpc[g] /\ gpkt'[g] = gpkt[g]
        <5>1. ASSUME h = g PROVE FALSE
          <6>1. UpdatePinger(g)
            BY <2>3, <4>2, <5>1 DEF Handle, StartLookup, Callback, HandlePing, HandleFindNode,
                                    NearestPeers, GetPeers
          <6>2. validLock' = None BY <2>3, <6>1 DEF UpdatePinger, UpdateNodes
          <6> QED BY <1>2, <2>1, <2>3, <6>2
        <5> QED BY <1>0, <4>2, <5>1 DEF Handle, StartLookup, Callback, HandlePing, UpdatePinger,
                     HandleFindNode, NearestPeers, GetPeers, Gone, Ggoto
      <4>3. ASSUME NEW h \in Goroutines, NEW x \in Peers, NEW code \in Codes,
                   GetCallback(h, x, code)
            PROVE  gpc'[g] = gpc[g] /\ gpkt'[g] = gpkt[g]
        BY <1>0, <2>3, <4>3 DEF GetCallback, Dispatch
      <4> QED BY <4>1, <4>2, <4>3, WhoChanges
    <3> QED BY <2>1, <2>3, <3>1
  <2> QED BY <1>1, <2>1, <2>2, <2>3
<1>4. ASSUME NEW p \in Procs, Bond(p) PROVE Good
  <2>1. validLock = None /\ validLock' = p /\ nodes' = nodes
        /\ (y \in table \/ y = on[p]) /\ pc'[p] = "bonding" /\ on' = on
    BY <1>0, <1>4 DEF Bond, UpdateTable, Goto
  <2>2. y = on[p] BY <2>1, UnlockedKnown
  <2> QED BY <2>1, <2>2
<1>5. ASSUME NEW p \in Procs, NEW more \in BOOLEAN, Bonded(p, more) PROVE FALSE
  <2>1. validLock = p /\ table' = table /\ nodes' = [nodes EXCEPT ![on[p]] = "fresh"]
    BY <1>5 DEF Bonded, UpdateNodes
  <2>2. y \in Peers /\ y # on[p] /\ nodes[y] = "none" BY <1>0, <2>1
  <2> QED BY <1>1, <1>2, <2>1, <2>2
<1>6. ASSUME NEW g \in Goroutines, UpdatePinger(g) PROVE Good
  <2>1. CASE gpc[g] = "update" /\ UpdateTable(g, gpkt[g][1]) /\ Ggoto(g, "updating")
    <3>1. validLock = None /\ validLock' = g /\ nodes' = nodes
          /\ (y \in table \/ y = gpkt[g][1]) /\ gpc'[g] = "updating" /\ gpkt' = gpkt
      BY <1>0, <2>1 DEF UpdateTable, Ggoto
    <3>2. y = gpkt[g][1] BY <3>1, UnlockedKnown
    <3> QED BY <3>1, <3>2
  <2>2. CASE gpc[g] = "updating" /\ UpdateNodes(g, gpkt[g][1])
    <3>1. validLock = g /\ table' = table /\ nodes' = [nodes EXCEPT ![gpkt[g][1]] = "fresh"]
      BY <2>2 DEF UpdateNodes
    <3>2. y \in Peers /\ y # gpkt[g][1] /\ nodes[y] = "none" BY <1>0, <3>1
    <3> QED BY <1>1, <1>2, <3>1, <3>2
  <2> QED BY <1>6, <2>1, <2>2 DEF UpdatePinger
<1>7. ASSUME NEW x \in Peers, Expire(x) PROVE FALSE
  <2>1. validLock = None /\ y \in table /\ nodes[y] = "none" BY <1>0, <1>7 DEF Expire
  <2> QED BY <2>1, UnlockedKnown
<1> HIDE DEF Good
<1>8. Good BY <1>3, <1>4, <1>5, <1>6, <1>7, WhoChanges
<1> QED BY <1>8 DEF Good

\* No query fails: whoever reads nodes holds validLock, and what it looks up is listed.
LEMMA FoundStep ==
  ASSUME Discv4Inv, [Next]_vars
  PROVE  ~notFound'
<1>1. ASSUME NEW g \in Goroutines, GetPeers(g) PROVE ~notFound'
  <2>1. validLock = None /\ notFound' = (notFound \/ \E x \in gseen[g] : nodes[x] = "none")
    BY <1>1 DEF GetPeers
  <2>2. gseen[g] \subseteq table /\ ~notFound BY DEF Discv4Inv, PacketsHeld
  <2>3. \A x \in gseen[g] : nodes[x] # "none" BY <2>1, <2>2, UnlockedKnown
  <2> QED BY <2>1, <2>2, <2>3
<1> QED BY <1>1, WhoChanges DEF Discv4Inv

-----------------------------------------------------------------------------
(* The handlers and the timers.                                            *)

\* A handler is taken away only by another call for the same peer and code.
LEMMA KeptStep ==
  ASSUME Discv4Inv, [Next]_vars
  PROVE  HandlerKept'
<1> SUFFICES ASSUME NEW c \in Calls, timer'[c] = "set", handlers'[key'[c]] # c
             PROVE  \E d \in Calls \ {c} : timer'[d] # "none" /\ key'[d] = key'[c]
  BY DEF HandlerKept
<1> DEFINE Good == \E d \in Calls \ {c} : timer'[d] # "none" /\ key'[d] = key'[c]
<1>0. /\ handlers \in [Keys -> 0..MaxCalls] /\ key \in [Calls -> Keys \cup {None}]
      /\ timer \in [Calls -> {"none", "set", "deleted", "fired"}]
      /\ made \in Nat /\ Calls \subseteq Nat
  BY CapsAssumption DEF Discv4Inv, TypeOK, Calls
<1>1. timer[c] = "set" /\ handlers[key[c]] # c =>
        \E d \in Calls \ {c} : timer[d] # "none" /\ key[d] = key[c]
  BY DEF Discv4Inv, HandlerKept
<1>2. \A d \in Calls : timer[d] # "none" => d <= made /\ key[d] \in Keys
  BY <1>0 DEF Discv4Inv, CallsMade
<1>3. ASSUME NEW p \in Procs, NEW x \in Peers, NEW code \in {"pong", "ping", "neighbors"},
             NEW label \in {"waitPong", "waitPing", "waitNeighbors"},
             Starts(p, x, code, label)
      PROVE  Good
  <2>1. /\ made + 1 \in Calls /\ <<x, code>> \in Keys
        /\ key' = [key EXCEPT ![made + 1] = <<x, code>>]
        /\ timer' = [timer EXCEPT ![made + 1] = "set"]
        /\ handlers' = [handlers EXCEPT ![<<x, code>>] = made + 1]
    BY <1>3, MadeAreCalls DEF Starts, setHandler, Discv4Inv, Keys, Codes
  <2>2. c # made + 1 BY <1>0, <2>1
  <2>3. timer[c] = "set" /\ key'[c] = key[c] /\ key[c] \in Keys BY <1>0, <1>2, <2>1, <2>2
  <2>4. CASE key[c] = <<x, code>>
    <3>1. timer'[made + 1] = "set" /\ key'[made + 1] = <<x, code>> BY <1>0, <2>1
    <3> QED BY <2>1, <2>2, <2>3, <2>4, <3>1
  <2>5. CASE key[c] # <<x, code>>
    <3>1. handlers[key[c]] # c BY <1>0, <2>1, <2>3, <2>5
    <3>2. PICK d \in Calls \ {c} : timer[d] # "none" /\ key[d] = key[c] BY <1>1, <2>3, <3>1
    <3>3. d # made + 1 BY <1>0, <1>2, <3>2
    <3>4. timer'[d] = timer[d] /\ key'[d] = key[d] BY <1>0, <2>1, <3>3
    <3> QED BY <2>3, <3>2, <3>4
  <2> QED BY <2>4, <2>5
<1>4. ASSUME NEW e \in Calls, Timer(e) PROVE Good
  <2>1. key' = key BY <1>4 DEF Timer, TimerDeletes, TimerSends
  <2>2. \A d \in Calls : timer[d] # "none" => timer'[d] # "none"
    BY <1>0, <1>4 DEF Timer, TimerDeletes, TimerSends
  <2>3. c # e /\ timer[c] = "set" /\ timer[e] # "none"
    BY <1>0, <1>4 DEF Timer, TimerDeletes, TimerSends
  <2>4. CASE key[e] = key[c] BY <2>1, <2>2, <2>3, <2>4
  <2>5. CASE key[e] # key[c]
    <3>1. key[c] \in Keys BY <1>2, <2>3
    <3>2. handlers'[key[c]] = handlers[key[c]]
      BY <1>0, <1>4, <2>5, <3>1 DEF Timer, TimerDeletes, TimerSends
    <3> QED BY <1>1, <2>1, <2>2, <2>3, <3>2
  <2> QED BY <2>4, <2>5
<1>5. ASSUME UNCHANGED <<handlers, timer, key>> PROVE Good BY <1>1, <1>5
<1> HIDE DEF Good
<1>6. Good BY <1>3, <1>4, <1>5, StepCases, WhoChanges
<1> QED BY <1>6 DEF Good

\* A timer that fires moves its own call out of its receive.
LEMMA FiringMoves ==
  ASSUME Discv4Inv, NEW q \in Procs, TimerSends(call[q]), pc[q] # "idle"
  PROVE  ~Waiting(q)'
<1> DEFINE c == call[q]
<1>0. pc \in [Procs -> Labels] BY DEF Discv4Inv, TypeOK, Labels
<1>1. c \in 1..made /\ owner[c] = q BY DEF Discv4Inv, ProcsBusy
<1>2. Send(c, FALSE) BY DEF TimerSends
<1> HIDE DEF c
<1>3. CASE Waiting(q)
  <2>1. Receive(q, FALSE) BY <1>1, <1>2, <1>3 DEF Send, c
  <2>2. pc' = [pc EXCEPT ![q] = "idle"] \/ pc' = [pc EXCEPT ![q] = "finish"]
    BY <2>1 DEF Receive, Return, Goto
  <2> QED BY <1>0, <2>2 DEF Waiting
<1>4. CASE ~Waiting(q)
  <2>1. UNCHANGED procs BY <1>1, <1>2, <1>4 DEF Send, c
  <2> QED BY <1>4, <2>1 DEF Waiting, procs
<1> QED BY <1>3, <1>4

\* Who waits has a timer that has not fired, but for a findNodes that came back.
LEMMA TellStep ==
  ASSUME Discv4Inv, [Next]_vars
  PROVE  SomeoneWillTell'
<1> SUFFICES ASSUME NEW q \in Procs, Waiting(q)'
             PROVE  \/ owner'[call'[q]] = q /\ timer'[call'[q]] \in {"set", "deleted"}
                    \/ pc'[q] = "waitNeighbors" /\ timer'[call'[q]] = "fired"
  BY DEF SomeoneWillTell
<1>0. /\ pc \in [Procs -> Labels] /\ call \in [Procs -> 0..MaxCalls]
      /\ timer \in [Calls -> {"none", "set", "deleted", "fired"}] /\ made \in Nat
      /\ call'[q] \in 0..MaxCalls /\ made' \in 0..MaxCalls
      /\ timer' \in [Calls -> {"none", "set", "deleted", "fired"}]
  BY CapsAssumption, ProcTypes, HandlerTypes DEF Discv4Inv, TypeOK, Labels
<1>1. call'[q] \in 1..made' /\ owner'[call'[q]] = q
  BY ProcsStep DEF ProcsBusy, Waiting
<1>2. call'[q] \in Calls /\ call'[q] <= made' BY <1>0, <1>1, CapsAssumption DEF Calls
<1>3. timer'[call'[q]] \in {"set", "deleted", "fired"}
  BY <1>0, <1>2, CallsStep DEF CallsMade
<1>4. SUFFICES ASSUME pc'[q] # "waitNeighbors" PROVE timer'[call'[q]] # "fired"
  BY <1>1, <1>3
<1>5. pc'[q] \in {"waitPong", "waitPing"} BY <1>4 DEF Waiting
<1>6. ASSUME pc'[q] = pc[q], call'[q] = call[q] PROVE timer'[call'[q]] # "fired"
  <2>1. timer[call[q]] # "fired"
    BY <1>5, <1>6 DEF Discv4Inv, SomeoneWillTell, Waiting
  <2>2. CASE UNCHANGED timer BY <1>6, <2>1, <2>2
  <2>3. ASSUME NEW p \in Procs, NEW x \in Peers, NEW code \in {"pong", "ping", "neighbors"},
               NEW label \in {"waitPong", "waitPing", "waitNeighbors"},
               Starts(p, x, code, label)
        PROVE  timer'[call[q]] # "fired"
    BY <1>0, <1>2, <1>6, <2>1, <2>3 DEF Starts, setHandler
  <2>4. ASSUME NEW c \in Calls, Timer(c) PROVE timer'[call[q]] # "fired"
    <3>1. CASE TimerDeletes(c) BY <1>0, <1>2, <1>6, <2>1, <3>1 DEF TimerDeletes
    <3>2. CASE TimerSends(c)
      <4>1. c # call[q] BY <1>5, <1>6, <3>2, FiringMoves
      <4> QED BY <1>0, <1>2, <1>6, <2>1, <3>2, <4>1 DEF TimerSends
    <3> QED BY <2>4, <3>1, <3>2 DEF Timer
  <2> QED BY <1>6, <2>2, <2>3, <2>4, WhoChanges
<1>7. ASSUME NEW p \in Procs, NEW x \in Peers, NEW code \in {"pong", "ping", "neighbors"},
             NEW label \in {"waitPong", "waitPing", "waitNeighbors"},
             Starts(p, x, code, label)
      PROVE  timer'[call'[q]] # "fired"
  <2>1. CASE q = p
    <3>1. call'[q] = made + 1 BY <1>0, <1>7, <2>1 DEF Starts, setHandler
    <3> QED BY <1>0, <1>2, <1>7, <3>1 DEF Starts, setHandler
  <2>2. CASE q # p BY <1>0, <1>6, <1>7, <2>2 DEF Starts, setHandler
  <2> QED BY <2>1, <2>2
<1>8. CASE GoesOn
  <2>1. PICK p \in Procs, label \in Labels :
          /\ Moves(p, label)
          /\ label \in {"waitPong", "waitPing", "waitNeighbors"} => label = "waitNeighbors"
    BY <1>8 DEF GoesOn
  <2>2. q # p BY <1>0, <1>5, <2>1 DEF Moves
  <2>3. pc'[q] = pc[q] /\ call'[q] = call[q] BY <1>0, <2>1, <2>2 DEF Moves
  <2> QED BY <1>6, <2>3
<1>9. CASE UNCHANGED procs BY <1>6, <1>9 DEF procs
<1> QED BY <1>7, <1>8, <1>9, StepCases

-----------------------------------------------------------------------------
(* The theorems.                                                           *)

\* Discv4Inv is an invariant, for all sets of peers, probe tasks, callers and goroutines,
\* any capacity of the tasks and any number of calls of setHandler.
THEOREM Discv4Invariance == Spec => []Discv4Inv
<1>1. Init => Discv4Inv
  <2> SUFFICES ASSUME Init PROVE Discv4Inv OBVIOUS
  <2>1. TypeOK
    <3>1. 0 \in 0..MaxCalls /\ TaskCap \in Nat BY CapsAssumption
    <3>2. tasks \in Seq(Peers) /\ Len(tasks) <= TaskCap BY <3>1 DEF Init
    <3>3. /\ call \in [Procs -> 0..MaxCalls] /\ made \in 0..MaxCalls
          /\ gcb \in [Goroutines -> 0..MaxCalls] /\ handlers \in [Keys -> 0..MaxCalls]
      BY <3>1 DEF Init
    <3> QED BY <3>2, <3>3 DEF Init, TypeOK
  <2>2. ProcsBusy /\ PacketsHeld /\ KnownAnswered /\ ListedAreKnown /\ ~notFound
    BY DEF Init, ProcsBusy, PacketsHeld, KnownAnswered, ListedAreKnown
  <2>3. CallsMade /\ HandlersMade /\ HandlerKept
    <3>1. CallsMade
      <4>1. \A c \in Calls : c > 0 /\ c \in Int BY CapsAssumption DEF Calls
      <4> QED BY <4>1 DEF Init, CallsMade
    <3>2. HandlersMade BY DEF Init, HandlersMade
    <3>3. HandlerKept BY DEF Init, HandlerKept
    <3> QED BY <3>1, <3>2, <3>3
  <2>4. SomeoneWillTell BY DEF Init, SomeoneWillTell, Waiting
  <2> QED BY <2>1, <2>2, <2>3, <2>4 DEF Discv4Inv
<1>2. Discv4Inv /\ [Next]_vars => Discv4Inv'
  <2> SUFFICES ASSUME Discv4Inv, [Next]_vars PROVE Discv4Inv' OBVIOUS
  <2> QED BY TypeStep, ProcsStep, CallsStep, HandlersStep, PacketsStep, AnsweredStep,
             ListedStep, FoundStep, KeptStep, TellStep DEF Discv4Inv
<1> QED BY <1>1, <1>2, PTL DEF Spec

\* The types hold, and the queue of the probe tasks never exceeds its capacity: what
\* sendTask cannot put there is dropped.
THEOREM Discv4Types == Spec => []TypeOK
<1>1. Discv4Inv => TypeOK BY DEF Discv4Inv
<1> QED BY <1>1, Discv4Invariance, PTL

\* The endpoint proof: nobody is listed, known or told our neighbours but peers that have
\* answered a ping of ours; and no query fails on a peer that is listed and not known.
THEOREM Discv4ProvenPeers == Spec => []OnlyProvenPeers
<1>1. Discv4Inv => OnlyProvenPeers
  BY DEF Discv4Inv, OnlyProvenPeers, PacketsHeld, KnownAnswered
<1> QED BY <1>1, Discv4Invariance, PTL

\* A registered handler stays until its own timer, but for another call of setHandler
\* with the same peer and code.
THEOREM Discv4HandlerKept == Spec => []HandlerKept
<1>1. Discv4Inv => HandlerKept BY DEF Discv4Inv
<1> QED BY <1>1, Discv4Invariance, PTL

\* Whoever waits for a packet has a timer of its own that has not fired yet, but for a
\* findNodes that came back to its receive after its timer had fired.
THEOREM Discv4SomeoneWillTell == Spec => []SomeoneWillTell
<1>1. Discv4Inv => SomeoneWillTell BY DEF Discv4Inv
<1> QED BY <1>1, Discv4Invariance, PTL
=============================================================================
