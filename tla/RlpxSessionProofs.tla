------------------------- MODULE RlpxSessionProofs -------------------------
(***************************************************************************)
(* The safety of RlpxSession for both ends, whatever the owners, the       *)
(* protocols, the timers and the network do, and for all bounds.           *)
(*                                                                         *)
(* Locks makes ClosesOnce and NoWriteAfterClose inductive.  The other two  *)
(* properties need to follow an error from where it arises: a reason from  *)
(* Disconnect through the wire (Announced) and a read (Causes) to exitErr, *)
(* an I/O error from a closed connection to exitErr, and the order of the  *)
(* shutdown in between, which only goes forward (Forward).                 *)
(***************************************************************************)
EXTENDS RlpxSession, TLAPS

\* The locks are held by who works under them, and the shutdown goes forward only.
Locks ==
  \A e \in Ends :
    /\ \A p \in Procs :
         /\ ShuttingDown(e, p) => shutdownLock[e] = p /\ shutdown[e] /\ ~shutdownCh[e]
         /\ Writing(e, p) => stateLock[e] = p /\ state[e] # "closed"
         /\ pc[e][p] = "closing" => state[e] = "closed"
    /\ shutdownCh[e] => state[e] = "closed" /\ shutdown[e]
    /\ state[e] = "closed" => shutdown[e]

\* Callers: the owner calls Disconnect, once, and gives a reason; the protocol only
\* writes messages.
Roles ==
  \A e \in Ends :
    /\ pc[e]["user"] \notin {"lockMsg", "writeMsg", "exit", "tell"}
    /\ pc[e]["user"] = "home" => reason[e] = "none"
    /\ pc[e]["user"] # "home" => reason[e] \in DiscReasons
    /\ pc[e]["app"] \in {"home", "lockMsg", "writeMsg", "done"}

\* r is a reason that end e, which is shutting down, may give to the other end.
Given(e, r) == shutdown[e] /\ r \in {reason[e], "quitting"}

\* Disconnect messages in flight: one at most, sent by an end that is past sending it.
Announced ==
  \A e \in Ends : \A i \in DiscsTo(e) :
    /\ Given(Other(e), wire[e][i])
    /\ \A j \in DiscsTo(e) : i = j
    /\ \A p \in Procs : pc[Other(e)][p] \notin {"lockDisc", "writeDisc"}

\* Where the errors come from that are on their way to exitErr.
Causes ==
  \A e \in Ends :
    /\ connClosed[e] => shutdown[e] \/ crashed[e]
    /\ \A p \in Procs :
         LET err == cause[e][p]
         IN  /\ pc[e][p] = "exit" => err # "none"
             /\ err = "ioErr" => connClosed[Other(e)] \/ broken \/ shutdown[e]
             /\ err \in {"quitting", "tooManyPeers"} => Given(Other(e), err)
             /\ p # "user" /\ pc[e][p] \in {"tell", "disc"} => shutdownErr[e] # "none"

\* The inductive invariant.
SessionInv ==
  /\ TypeOK
  /\ Locks
  /\ Roles
  /\ Announced
  /\ Causes
  /\ CauseIsTrue

-----------------------------------------------------------------------------

\* The connection has two ends.
LEMMA OtherEnd ==
  ASSUME NEW e \in Ends
  PROVE  Other(e) \in Ends /\ Other(e) # e /\ Other(Other(e)) = e
BY EndsAssumption DEF Other, Ends

\* Setting one field of one record of a function keeps the function's type.
LEMMA TimerUpdate ==
  ASSUME NEW S, NEW f \in [S -> [armed : BOOLEAN, tick : BOOLEAN]], NEW x \in S,
         NEW b \in BOOLEAN
  PROVE  /\ [f EXCEPT ![x].armed = b] \in [S -> [armed : BOOLEAN, tick : BOOLEAN]]
         /\ [f EXCEPT ![x].tick = b] \in [S -> [armed : BOOLEAN, tick : BOOLEAN]]
OBVIOUS

\* The same for the records of stream.
LEMMA StreamUpdate ==
  ASSUME NEW S, NEW T, NEW f \in [S -> [open : BOOLEAN, err : T]], NEW x \in S
  PROVE  /\ [f EXCEPT ![x].open = TRUE] \in [S -> [open : BOOLEAN, err : T]]
         /\ \A t \in T : [f EXCEPT ![x].err = t] \in [S -> [open : BOOLEAN, err : T]]
OBVIOUS

\* The same for functions of functions, such as pc and cause.
LEMMA NestedUpdate ==
  ASSUME NEW S, NEW T, NEW V, NEW f \in [S -> [T -> V]], NEW x \in S, NEW y \in T,
         NEW v \in V
  PROVE  [f EXCEPT ![x][y] = v] \in [S -> [T -> V]]
OBVIOUS

\* What a failed write leads to, by who wrote what.
LEMMA WriteFailedCases ==
  ASSUME NEW e \in Ends, NEW p \in Procs, WriteFailed(e, p)
  PROVE  \/ /\ pc[e][p] \in {"lockDisc", "writeDisc"}
            /\ Goto(e, p, "shut") /\ cause' = cause
         \/ p = "app" /\ Goto(e, p, "done") /\ cause' = cause
         \/ /\ pc[e][p] \notin {"lockDisc", "writeDisc"}
            /\ p # "app" /\ Fail(e, p, "ioErr")
BY DEF WriteFailed

\* Moving a process to a label keeps the type of pc.
LEMMA GotoType ==
  ASSUME TypeOK, NEW e \in Ends, NEW p \in Procs, NEW l \in Labels, Goto(e, p, l)
  PROVE  pc' \in [Ends -> [Procs -> Labels]]
BY NestedUpdate DEF TypeOK, Goto

\* Goto moves one process and no other.
LEMMA GotoMoves ==
  ASSUME TypeOK, NEW e \in Ends, NEW p \in Procs, NEW l, Goto(e, p, l)
  PROVE  \A x \in Ends, q \in Procs :
           pc'[x][q] = IF x = e /\ q = p THEN l ELSE pc[x][q]
BY DEF TypeOK, Goto

\* What recvLoop does with a frame.
LEMMA ReadCases ==
  ASSUME NEW e \in Ends, ReadFrame(e)
  PROVE  \/ pc' = pc /\ cause' = cause
         \/ Goto(e, "recv", "lockMsg") /\ cause' = cause
         \/ Head(wire[e]) \in DiscReasons /\ Fail(e, "recv", Head(wire[e]))
BY DEF ReadFrame

\* A process that takes an error to exitErr keeps the types.
LEMMA FailType ==
  ASSUME TypeOK, NEW e \in Ends, NEW p \in Procs, NEW err \in Errors, Fail(e, p, err)
  PROVE  /\ pc' \in [Ends -> [Procs -> Labels]]
         /\ cause' \in [Ends -> [Procs -> Errors \cup {"none"}]]
<1>1. Goto(e, p, "exit") /\ "exit" \in Labels BY DEF Fail, Labels
<1>2. cause' \in [Ends -> [Procs -> Errors \cup {"none"}]]
  <2>1. cause' = [cause EXCEPT ![e][p] = err] BY DEF Fail
  <2>2. err \in Errors \cup {"none"} OBVIOUS
  <2> QED BY <2>1, <2>2, NestedUpdate DEF TypeOK
<1> QED BY <1>1, <1>2, GotoType

\* So does a process whose write has failed.
LEMMA FailedType ==
  ASSUME TypeOK, NEW e \in Ends, NEW p \in Procs, WriteFailed(e, p)
  PROVE  /\ pc' \in [Ends -> [Procs -> Labels]]
         /\ cause' \in [Ends -> [Procs -> Errors \cup {"none"}]]
<1>1. "shut" \in Labels /\ "done" \in Labels /\ "ioErr" \in Errors BY DEF Labels, Errors
<1>2. CASE Fail(e, p, "ioErr") BY <1>1, <1>2, FailType
<1>3. CASE cause' = cause /\ (Goto(e, p, "shut") \/ Goto(e, p, "done"))
  BY <1>1, <1>3, GotoType DEF TypeOK
<1> QED BY <1>2, <1>3, WriteFailedCases

\* Every step keeps the types; a frame is well-formed because of who writes it (Roles).
LEMMA TypeStep ==
  ASSUME TypeOK, Roles, [Next]_vars
  PROVE  TypeOK'
<1> USE EndsAssumption, ReasonsAssumption, BoundsAssumption
    DEF TypeOK, Frames, Errors, DiscReasons, Procs, Labels, Goto, Fail, network, locks,
        down, budget
<1>1. ASSUME NEW e \in Ends, Start(e) PROVE TypeOK'
  <2>1. CASE CallDisconnect(e) BY <2>1 DEF CallDisconnect
  <2>2. CASE CallWrite(e) BY <2>2 DEF CallWrite
  <2>3. CASE OpenStream(e)
    <3> HIDE DEF Errors
    <3>1. stream' \in [Ends -> [open : BOOLEAN, err : Errors \cup {"none"}]]
      BY <2>3, StreamUpdate DEF OpenStream
    <3> QED BY <2>3, <3>1 DEF OpenStream
  <2>4. CASE Ping(e) BY <2>4 DEF Ping
  <2>5. CASE TimerFires(e) BY <2>5 DEF TimerFires
  <2> QED BY <1>1, <2>1, <2>2, <2>3, <2>4, <2>5 DEF Start
<1>2. ASSUME NEW e \in Ends, NEW p \in Procs, Step(e, p) PROVE TypeOK'
  <2>1. CASE p = "recv" /\ ReadFrame(e)
    <3>1. timer' \in [Ends -> [armed : BOOLEAN, tick : BOOLEAN]]
      BY <2>1, TimerUpdate DEF ReadFrame
    <3>2. wire' \in [Ends -> Seq(Frames)]
      <4>1. Tail(wire[e]) \in Seq(Frames) BY <2>1 DEF ReadFrame
      <4> QED BY <2>1, <4>1 DEF ReadFrame
    <3>3. pc' \in [Ends -> [Procs -> Labels]]
      <4>1. \/ pc' = pc
            \/ \E l \in {"lockMsg", "exit"} : Goto(e, "recv", l)
        BY <2>1 DEF ReadFrame
      <4> HIDE DEF Goto
      <4> QED BY <4>1, GotoType
    <3>4. cause' \in [Ends -> [Procs -> Errors \cup {"none"}]]
      <4>1. \/ cause' = cause
            \/ \E f \in DiscReasons : cause' = [cause EXCEPT ![e]["recv"] = f]
        BY <2>1 DEF ReadFrame
      <4>2. CASE cause' = cause BY <4>2
      <4>3. ASSUME NEW f \in DiscReasons, cause' = [cause EXCEPT ![e]["recv"] = f]
            PROVE  cause' \in [Ends -> [Procs -> Errors \cup {"none"}]]
        <5>1. f \in Errors \cup {"none"} /\ "recv" \in Procs OBVIOUS
        <5> HIDE DEF Errors, Procs
        <5> QED BY <4>3, <5>1, NestedUpdate
      <4> QED BY <4>1, <4>2, <4>3
    <3>5. crashed' \in [Ends -> BOOLEAN] /\ connClosed' \in [Ends -> BOOLEAN]
      <4>1. /\ crashed' \in {crashed, [crashed EXCEPT ![e] = TRUE]}
            /\ connClosed' \in {connClosed, [connClosed EXCEPT ![e] = TRUE]}
        BY <2>1 DEF ReadFrame
      <4>2. crashed \in [Ends -> BOOLEAN] /\ connClosed \in [Ends -> BOOLEAN] OBVIOUS
      <4> HIDE DEF TypeOK
      <4> QED BY <4>1, <4>2
    <3> QED BY <2>1, <3>1, <3>2, <3>3, <3>4, <3>5 DEF ReadFrame
  <2>2. CASE p = "recv" /\ ReadFails(e)
    BY <2>2 DEF ReadFails
  <2>3. CASE PongTimeout(e)
    <3>1. timer' \in [Ends -> [armed : BOOLEAN, tick : BOOLEAN]]
      BY <2>3, TimerUpdate DEF PongTimeout
    <3> QED BY <2>3, <3>1 DEF PongTimeout
  <2>4. CASE KeepaliveStops(e) BY <2>4 DEF KeepaliveStops
  <2>5. CASE LockState(e, p)
    <3>1. CASE state[e] = "closed"
      <4>1. WriteFailed(e, p) BY <2>5, <3>1 DEF LockState
      <4> QED BY <2>5, <3>1, <4>1, FailedType DEF LockState
    <3>2. CASE state[e] # "closed"
      <4>1. \E l \in {"writeMsg", "writeDisc"} : Goto(e, p, l)
        BY <2>5, <3>2 DEF LockState
      <4>2. pc' \in [Ends -> [Procs -> Labels]]
        <5> HIDE DEF Goto
        <5> QED BY <4>1, GotoType
      <4>3. stateLock' \in [Ends -> Procs \cup {"free"}]
        <5>1. stateLock' = [stateLock EXCEPT ![e] = p] BY <2>5, <3>2 DEF LockState
        <5> HIDE DEF Procs
        <5> QED BY <5>1
      <4> QED BY <2>5, <3>2, <4>2, <4>3 DEF LockState
    <3> QED BY <3>1, <3>2
  <2>6. CASE WriteFrame(e, p)
    <3>1. CASE UNCHANGED wire BY <2>6, <3>1 DEF WriteFrame
    <3>2. CASE ~(connClosed[Other(e)] \/ broken)
      <4> DEFINE f == IF pc[e][p] = "writeMsg" THEN Message(p) ELSE Reason(e, p)
      <4>1. f \in Frames BY <2>6 DEF WriteFrame, Roles, Message, Reason
      <4>2. wire' \in [Ends -> Seq(Frames)]
        <5>1. wire' = [wire EXCEPT ![Other(e)] = Append(@, f)] BY <2>6, <3>2 DEF WriteFrame
        <5> HIDE DEF f
        <5> QED BY <4>1, <5>1, OtherEnd
      <4> QED BY <2>6, <4>2 DEF WriteFrame
    <3> QED BY <2>6, <3>1, <3>2 DEF WriteFrame
  <2>7. CASE WriteFails(e, p)
    <3>1. WriteFailed(e, p) BY <2>7 DEF WriteFails
    <3> QED BY <2>7, <3>1, FailedType DEF WriteFails
  <2>8. CASE ExitErr(e, p) BY <2>8 DEF ExitErr, FirstError
  <2>13. CASE TellStreams(e, p)
    <3>1. stream' \in [Ends -> [open : BOOLEAN, err : Errors \cup {"none"}]]
      <4> DEFINE t == IF stream[e].open /\ stream[e].err = "none"
                        THEN cause[e][p] ELSE stream[e].err
      <4>1. t \in Errors \cup {"none"} OBVIOUS
      <4>2. stream' = [stream EXCEPT ![e].err = t] BY <2>13 DEF TellStreams
      <4> HIDE DEF t, Errors
      <4> QED BY <4>1, <4>2, StreamUpdate
    <3> QED BY <2>13, <3>1 DEF TellStreams
  <2>9. CASE DisconnectAgain(e, p) BY <2>9 DEF DisconnectAgain
  <2>10. CASE DisconnectFirst(e, p) BY <2>10 DEF DisconnectFirst, FirstError, Reason
  <2>11. CASE SetClosed(e, p) BY <2>11 DEF SetClosed
  <2>12. CASE CloseConn(e, p) BY <2>12 DEF CloseConn
  <2> QED BY <1>2, <2>1, <2>2, <2>3, <2>4, <2>5, <2>6, <2>7, <2>8, <2>9, <2>10, <2>11,
             <2>12, <2>13 DEF Step
<1>3. CASE NetBreak BY <1>3 DEF NetBreak
<1>4. CASE UNCHANGED vars BY <1>4 DEF vars
<1> HIDE DEF TypeOK, Frames, Errors, DiscReasons, Procs, Labels, Goto, Fail
<1> QED BY <1>1, <1>2, <1>3, <1>4 DEF Next

\* A failed write gives stateLock back and, within Disconnect, keeps shutdownLock.
LEMMA FailedKeepsLocks ==
  ASSUME TypeOK, Locks, NEW e \in Ends, NEW p \in Procs, WriteFailed(e, p),
         UNCHANGED <<down, shutdownLock>>,
         \/ stateLock' = stateLock /\ ~Writing(e, p)
         \/ stateLock' = [stateLock EXCEPT ![e] = "free"] /\ Writing(e, p)
  PROVE  Locks'
<1> PICK l \in {"shut", "done", "exit"} :
      /\ pc' = [pc EXCEPT ![e][p] = l]
      /\ l = "shut" => pc[e][p] \in {"lockDisc", "writeDisc"}
  BY WriteFailedCases DEF Goto, Fail
<1> QED BY DEF TypeOK, Locks, ShuttingDown, Writing, down

\* Every step keeps the discipline of the two locks.
LEMMA LockStep ==
  ASSUME TypeOK, Locks, [Next]_vars
  PROVE  Locks'
<1> USE DEF TypeOK, Locks, ShuttingDown, Writing, Goto, Fail, locks, down
<1>1. ASSUME NEW e \in Ends, Start(e) PROVE Locks'
  <2>1. CASE CallDisconnect(e) BY <2>1 DEF CallDisconnect, Procs
  <2>2. CASE CallWrite(e) BY <2>2 DEF CallWrite, Procs
  <2>3. CASE Ping(e) BY <2>3 DEF Ping, Procs
  <2>4. CASE OpenStream(e) \/ TimerFires(e) BY <2>4 DEF OpenStream, TimerFires
  <2> QED BY <1>1, <2>1, <2>2, <2>3, <2>4 DEF Start
<1>2. ASSUME NEW e \in Ends, NEW p \in Procs, Step(e, p) PROVE Locks'
  <2>1. CASE p = "recv" /\ ReadFrame(e) BY <2>1 DEF ReadFrame
  <2>2. CASE p = "recv" /\ ReadFails(e) BY <2>2 DEF ReadFails
  <2>3. CASE PongTimeout(e) BY <2>3 DEF PongTimeout, Procs
  <2>4. CASE KeepaliveStops(e) BY <2>4 DEF KeepaliveStops, Procs
  <2>5. CASE LockState(e, p)
    <3>1. CASE state[e] = "closed"
      <4>1. WriteFailed(e, p) BY <2>5, <3>1 DEF LockState
      <4>2. ~Writing(e, p) /\ UNCHANGED <<stateLock, down, shutdownLock>>
        BY <2>5, <3>1 DEF LockState
      <4> QED BY <4>1, <4>2, FailedKeepsLocks
    <3>2. CASE state[e] # "closed"
      <4> DEFINE l == IF pc[e][p] = "lockMsg" THEN "writeMsg" ELSE "writeDisc"
      <4>1. /\ pc' = [pc EXCEPT ![e][p] = l]
            /\ stateLock' = [stateLock EXCEPT ![e] = p]
            /\ stateLock[e] = "free"
            /\ UNCHANGED <<down, shutdownLock>>
            /\ pc[e][p] \in {"lockMsg", "lockDisc"}
        BY <2>5, <3>2 DEF LockState
      <4> QED BY <3>2, <4>1 DEF Procs
    <3> QED BY <3>1, <3>2
  <2>6. CASE WriteFrame(e, p) BY <2>6 DEF WriteFrame
  <2>7. CASE WriteFails(e, p)
    <3>1. WriteFailed(e, p) BY <2>7 DEF WriteFails
    <3>2. /\ stateLock' = [stateLock EXCEPT ![e] = "free"]
          /\ UNCHANGED <<down, shutdownLock>>
      BY <2>7 DEF WriteFails
    <3> QED BY <2>7, <3>1, <3>2, FailedKeepsLocks DEF WriteFails
  <2>8. CASE ExitErr(e, p) BY <2>8 DEF ExitErr
  <2>13. CASE TellStreams(e, p) BY <2>13 DEF TellStreams
  <2>9. CASE DisconnectAgain(e, p) BY <2>9 DEF DisconnectAgain
  <2>10. CASE DisconnectFirst(e, p) BY <2>10 DEF DisconnectFirst
  <2>11. CASE SetClosed(e, p) BY <2>11 DEF SetClosed, Procs
  <2>12. CASE CloseConn(e, p) BY <2>12 DEF CloseConn
  <2> QED BY <1>2, <2>1, <2>2, <2>3, <2>4, <2>5, <2>6, <2>7, <2>8, <2>9, <2>10, <2>11,
             <2>12, <2>13 DEF Step
<1>3. CASE NetBreak BY <1>3 DEF NetBreak
<1>4. CASE UNCHANGED vars BY <1>4 DEF vars
<1> QED BY <1>1, <1>2, <1>3, <1>4 DEF Next

\* The owner enters Disconnect once, with a reason, and the protocol never does.
LEMMA RolesStep ==
  ASSUME TypeOK, Roles, [Next]_vars
  PROVE  Roles'
<1> USE DEF TypeOK, Roles, Procs, Goto, Fail
<1>1. ASSUME NEW e \in Ends, Start(e) PROVE Roles'
  <2>1. CASE CallDisconnect(e) BY <2>1, ReasonsAssumption DEF CallDisconnect
  <2>2. CASE CallWrite(e) BY <2>2 DEF CallWrite
  <2>3. CASE Ping(e) BY <2>3 DEF Ping
  <2>4. CASE OpenStream(e) \/ TimerFires(e) BY <2>4 DEF OpenStream, TimerFires
  <2> QED BY <1>1, <2>1, <2>2, <2>3, <2>4 DEF Start
<1>2. ASSUME NEW e \in Ends, NEW p \in Procs, Step(e, p) PROVE Roles'
  <2>1. CASE ReadFrame(e)
    <3>1. reason' = reason BY <2>1 DEF ReadFrame
    <3>2. \A x \in Ends : \A q \in {"user", "app"} : pc'[x][q] = pc[x][q]
      <4>1. pc' = pc \/ \E l \in {"lockMsg", "exit"} : Goto(e, "recv", l)
        BY <2>1, ReadCases
      <4> HIDE DEF Goto
      <4> QED BY <4>1, GotoMoves
    <3> QED BY <3>1, <3>2
  <2>2. CASE ReadFails(e) BY <2>2 DEF ReadFails
  <2>3. CASE PongTimeout(e) BY <2>3 DEF PongTimeout
  <2>4. CASE KeepaliveStops(e) BY <2>4 DEF KeepaliveStops
  <2>5. CASE /\ WriteFailed(e, p) /\ reason' = reason
             /\ pc[e][p] \in {"lockMsg", "writeMsg", "lockDisc", "writeDisc"}
    <3>1. /\ p = "user" => pc[e][p] \in {"lockDisc", "writeDisc"}
          /\ p = "app" => pc[e][p] \notin {"lockDisc", "writeDisc"}
      BY <2>5
    <3>2. \E l \in {"shut", "done", "exit"} :
            /\ Goto(e, p, l)
            /\ p = "user" => l = "shut"
            /\ p = "app" => l = "done"
      <4> HIDE DEF Roles, TypeOK, Goto
      <4> QED BY <2>5, <3>1, WriteFailedCases
    <3> HIDE DEF Goto
    <3> QED BY <2>5, <3>1, <3>2, GotoMoves
  <2>6. CASE LockState(e, p)
    <3>1. CASE state[e] = "closed" BY <2>5, <2>6, <3>1 DEF LockState
    <3>2. CASE state[e] # "closed"
      <4>1. reason' = reason /\ pc[e][p] \in {"lockMsg", "lockDisc"} BY <2>6 DEF LockState
      <4>2. \/ pc[e][p] = "lockMsg" /\ Goto(e, p, "writeMsg")
            \/ pc[e][p] = "lockDisc" /\ Goto(e, p, "writeDisc")
        BY <2>6, <3>2 DEF LockState
      <4>3. (p = "user" => pc[e][p] # "lockMsg") /\ (p = "app" => pc[e][p] # "lockDisc")
        OBVIOUS
      <4>4. \E l \in {"writeMsg", "writeDisc"} :
              /\ Goto(e, p, l)
              /\ p = "user" => l = "writeDisc"
              /\ p = "app" => l = "writeMsg"
        BY <4>2, <4>3
      <4> PICK l \in {"writeMsg", "writeDisc"} :
              /\ Goto(e, p, l)
              /\ p = "user" => l = "writeDisc"
              /\ p = "app" => l = "writeMsg"
        BY <4>4
      <4> HIDE DEF Goto
      <4>5. \A x \in Ends, q \in Procs :
              pc'[x][q] = IF x = e /\ q = p THEN l ELSE pc[x][q]
        BY GotoMoves
      <4> QED BY <4>1, <4>5
    <3> QED BY <3>1, <3>2
  <2>7. CASE WriteFrame(e, p) BY <2>7 DEF WriteFrame
  <2>8. CASE WriteFails(e, p) BY <2>5, <2>8 DEF WriteFails
  <2>9. CASE ExitErr(e, p) BY <2>9 DEF ExitErr
  <2>14. CASE TellStreams(e, p) BY <2>14 DEF TellStreams
  <2>10. CASE DisconnectAgain(e, p) BY <2>10 DEF DisconnectAgain
  <2>11. CASE DisconnectFirst(e, p) BY <2>11 DEF DisconnectFirst
  <2>12. CASE SetClosed(e, p) BY <2>12 DEF SetClosed
  <2>13. CASE CloseConn(e, p) BY <2>13 DEF CloseConn
  <2> QED BY <1>2, <2>1, <2>2, <2>3, <2>4, <2>6, <2>7, <2>8, <2>9, <2>10, <2>11, <2>12,
             <2>13, <2>14 DEF Step
<1>3. CASE NetBreak BY <1>3 DEF NetBreak
<1>4. CASE UNCHANGED vars BY <1>4 DEF vars
<1> QED BY <1>1, <1>2, <1>3, <1>4 DEF Next

\* What no step undoes: shutdown, closing, the first error, the owner's reason.
Forward ==
  /\ \A e \in Ends :
       /\ shutdown[e] => shutdown'[e]
       /\ reason[e] # "none" => reason'[e] = reason[e]
       /\ connClosed[e] => connClosed'[e]
       /\ shutdownErr[e] # "none" => shutdownErr'[e] = shutdownErr[e]
       /\ crashed[e] => crashed'[e]
  /\ broken => broken'

\* Every step goes forward in the sense of Forward.
LEMMA ForwardStep ==
  ASSUME TypeOK, Roles, [Next]_vars
  PROVE  Forward
<1> USE DEF TypeOK, Forward, network, down
<1>1. ASSUME NEW e \in Ends, Start(e) PROVE Forward
  BY <1>1 DEF Start, CallDisconnect, CallWrite, OpenStream, Ping, TimerFires, Roles
<1>2. ASSUME NEW e \in Ends, NEW p \in Procs, Step(e, p) PROVE Forward
  <2>1. CASE ReadFrame(e)
    <3>1. /\ shutdown' = shutdown /\ reason' = reason
          /\ shutdownErr' = shutdownErr /\ broken' = broken
      BY <2>1 DEF ReadFrame
    <3>2. /\ connClosed' \in {connClosed, [connClosed EXCEPT ![e] = TRUE]}
          /\ crashed' \in {crashed, [crashed EXCEPT ![e] = TRUE]}
      BY <2>1 DEF ReadFrame
    <3>3. \A d \in Ends : (connClosed[d] => connClosed'[d]) /\ (crashed[d] => crashed'[d])
      <4>1. CASE connClosed' = connClosed /\ crashed' = crashed BY <4>1
      <4>2. CASE connClosed' = [connClosed EXCEPT ![e] = TRUE] /\ crashed' = crashed
        BY <4>2
      <4>3. CASE connClosed' = connClosed /\ crashed' = [crashed EXCEPT ![e] = TRUE]
        BY <4>3
      <4>4. CASE /\ connClosed' = [connClosed EXCEPT ![e] = TRUE]
                 /\ crashed' = [crashed EXCEPT ![e] = TRUE]
        BY <4>4
      <4> QED BY <3>2, <4>1, <4>2, <4>3, <4>4
    <3> QED BY <3>1, <3>3
  <2>2. CASE ReadFails(e) \/ PongTimeout(e) \/ KeepaliveStops(e) \/ LockState(e, p)
             \/ WriteFrame(e, p) \/ WriteFails(e, p)
    BY <2>2 DEF ReadFails, PongTimeout, KeepaliveStops, LockState, WriteFrame, WriteFails
  <2>3. CASE ExitErr(e, p) BY <2>3 DEF ExitErr, FirstError
  <2>4. CASE DisconnectFirst(e, p) BY <2>4 DEF DisconnectFirst, FirstError
  <2>5. CASE TellStreams(e, p) \/ DisconnectAgain(e, p) \/ SetClosed(e, p) \/ CloseConn(e, p)
    BY <2>5 DEF TellStreams, DisconnectAgain, SetClosed, CloseConn
  <2> QED BY <1>2, <2>1, <2>2, <2>3, <2>4, <2>5 DEF Step
<1>3. CASE NetBreak BY <1>3 DEF NetBreak
<1>4. CASE UNCHANGED vars BY <1>4 DEF vars
<1> QED BY <1>1, <1>2, <1>3, <1>4 DEF Next

\* A step that sends nothing keeps Announced if nobody who has announced starts again.
LEMMA QuietAnnounced ==
  ASSUME TypeOK, Announced, Forward, wire' = wire,
         \A e \in Ends, p \in Procs :
           pc'[e][p] \in {"lockDisc", "writeDisc"} =>
             pc[e][p] \in {"lockDisc", "writeDisc"} \/ ~shutdown[e]
  PROVE  Announced'
<1> SUFFICES ASSUME NEW e \in Ends, NEW i \in DiscsTo(e)
             PROVE  /\ Given(Other(e), wire[e][i])'
                    /\ \A j \in DiscsTo(e) : i = j
                    /\ \A p \in Procs : pc'[Other(e)][p] \notin {"lockDisc", "writeDisc"}
  BY DEF Announced, DiscsTo
<1>1. Given(Other(e), wire[e][i]) BY DEF Announced
<1>2. wire[e][i] # "none" BY DEF DiscsTo, DiscReasons
<1>3. Given(Other(e), wire[e][i])' BY <1>1, <1>2, OtherEnd DEF Forward, Given
<1> QED BY <1>1, <1>3, OtherEnd DEF Announced, Given

\* Reading takes the oldest frame away and leaves the others in order.
LEMMA ReceiveAnnounced ==
  ASSUME TypeOK, Announced, Forward, NEW e \in Ends, wire[e] # <<>>,
         wire' = [wire EXCEPT ![e] = Tail(@)],
         \A x \in Ends, q \in Procs :
            pc'[x][q] \in {"lockDisc", "writeDisc"} => pc[x][q] \in {"lockDisc", "writeDisc"}
  PROVE  Announced'
<1> SUFFICES ASSUME NEW x \in Ends, NEW i \in DiscsTo(x)'
             PROVE  /\ Given(Other(x), wire[x][i])'
                    /\ \A j \in DiscsTo(x)' : i = j
                    /\ \A p \in Procs : pc'[Other(x)][p] \notin {"lockDisc", "writeDisc"}
  BY DEF Announced
<1> DEFINE d == IF x = e THEN 1 ELSE 0
<1>1. ASSUME NEW k \in DiscsTo(x)'
      PROVE  k \in Nat /\ k + d \in DiscsTo(x) /\ wire'[x][k] = wire[x][k + d]
  <2>1. wire[x] \in Seq(Frames) BY DEF TypeOK
  <2>2. CASE x = e
    <3>1. wire'[x] = Tail(wire[x]) BY <2>2 DEF TypeOK
    <3>2. k \in DOMAIN Tail(wire[x]) /\ Tail(wire[x])[k] \in DiscReasons
      BY <3>1 DEF DiscsTo
    <3>3. k \in Nat /\ k + 1 \in DOMAIN wire[x] /\ Tail(wire[x])[k] = wire[x][k + 1]
      BY <2>1, <2>2, <3>2
    <3> QED BY <2>2, <3>1, <3>2, <3>3 DEF DiscsTo
  <2>3. CASE x # e
    <3>1. wire'[x] = wire[x] BY <2>3 DEF TypeOK
    <3> QED BY <2>1, <2>3, <3>1 DEF DiscsTo
  <2> QED BY <2>2, <2>3
<1>2. Given(Other(x), wire'[x][i]) /\ wire'[x][i] # "none"
  BY <1>1 DEF Announced, DiscsTo, DiscReasons
<1>3. Given(Other(x), wire[x][i])' BY <1>2, OtherEnd DEF Forward, Given
<1>4. ASSUME NEW j \in DiscsTo(x)' PROVE i = j
  <2>1. i + d = j + d BY <1>1 DEF Announced
  <2>2. i \in Nat /\ j \in Nat BY <1>1
  <2> QED BY <2>1, <2>2
<1>5. \A p \in Procs : pc'[Other(x)][p] \notin {"lockDisc", "writeDisc"}
  <2>1. \A p \in Procs : pc[Other(x)][p] \notin {"lockDisc", "writeDisc"}
    BY <1>1 DEF Announced
  <2> QED BY <2>1, OtherEnd
<1> QED BY <1>3, <1>4, <1>5

\* Whoever writes the disconnect message holds shutdownLock, so nobody else is about to,
\* and none was in flight.
LEMMA SendAnnounced ==
  ASSUME TypeOK, Locks, Roles, Announced, Forward, NEW e \in Ends, NEW p \in Procs,
         WriteFrame(e, p)
  PROVE  Announced'
<1> DEFINE to == Other(e)
           f == IF pc[e][p] = "writeMsg" THEN Message(p) ELSE Reason(e, p)
<1>1. to \in Ends /\ to # e /\ Other(to) = e BY OtherEnd
<1>2. \A x \in Ends, q \in Procs :
        pc'[x][q] \in {"lockDisc", "writeDisc"} =>
          pc[x][q] \in {"lockDisc", "writeDisc"} /\ ~(x = e /\ q = p)
  BY DEF WriteFrame, TypeOK, Goto
<1>3. CASE wire' = wire BY <1>2, <1>3, QuietAnnounced
<1>4. CASE wire' = [wire EXCEPT ![to] = Append(@, f)]
  <2>1. wire[to] \in Seq(Frames) BY <1>1 DEF TypeOK
  <2>2. f \in Frames
    BY DEF WriteFrame, Roles, Message, Reason, Procs, Frames, DiscReasons
  <2>3. f \in DiscReasons => pc[e][p] = "writeDisc" /\ f \in {reason[e], "quitting"}
    BY DEF WriteFrame, Roles, Message, Reason, Procs, DiscReasons
  <2>4. wire'[to] = Append(wire[to], f) BY <1>1, <1>4 DEF TypeOK
  <2> DEFINE n == Len(wire[to]) + 1
  <2> HIDE DEF f, to
  <2>5. DOMAIN wire'[to] = 1..n /\ wire'[to][n] = f
        /\ \A i \in DOMAIN wire[to] : wire'[to][i] = wire[to][i]
    BY <2>1, <2>2, <2>4
  <2>6. DOMAIN wire[to] = 1..(n - 1) /\ n \in Nat BY <2>1
  <2>7. CASE f \in DiscReasons
    <3>1. DiscsTo(to) = {} BY <1>1, <2>3, <2>7 DEF Announced
    <3>2. DiscsTo(to)' = {n} BY <2>5, <2>6, <2>7, <3>1 DEF DiscsTo
    <3>3. shutdown[e] /\ shutdownLock[e] = p BY <2>3, <2>7 DEF Locks, ShuttingDown
    <3>4. \A q \in Procs : pc'[e][q] \notin {"lockDisc", "writeDisc"}
      BY <1>2, <3>3 DEF Locks, ShuttingDown
    <3>5. shutdown'[e] /\ f \in {reason'[e], "quitting"}
      BY <2>3, <2>7, <3>3 DEF Forward, DiscReasons
    <3>6. \A x \in Ends : x # to => DiscsTo(x)' = DiscsTo(x) /\ wire'[x] = wire[x]
      BY <1>1, <1>4 DEF DiscsTo, TypeOK
    <3>7. \A x \in Ends : x # to => x = e BY EndsAssumption DEF to, Other, Ends
    <3>8. \A i \in DiscsTo(e) : shutdown'[to] /\ wire[e][i] \in {reason'[to], "quitting"}
      BY <1>1 DEF Announced, Given, Forward, DiscsTo, DiscReasons, to
    <3>9. DiscsTo(e) # {} => \A q \in Procs : pc'[to][q] \notin {"lockDisc", "writeDisc"}
      BY <1>1, <1>2 DEF Announced, to
    <3> SUFFICES ASSUME NEW x \in Ends, NEW i \in DiscsTo(x)'
                 PROVE  /\ Given(Other(x), wire[x][i])'
                        /\ \A j \in DiscsTo(x)' : i = j
                        /\ \A q \in Procs : pc'[Other(x)][q] \notin {"lockDisc", "writeDisc"}
      BY DEF Announced
    <3>10. CASE x = to BY <1>1, <2>5, <3>2, <3>4, <3>5, <3>10 DEF Given
    <3>11. CASE x = e
      <4>1. i \in DiscsTo(e) /\ wire'[e] = wire[e] /\ DiscsTo(e)' = DiscsTo(e)
        BY <1>1, <3>6, <3>11
      <4> QED BY <3>8, <3>9, <3>11, <4>1 DEF Announced, Given, to
    <3> QED BY <3>7, <3>10, <3>11
  <2>8. CASE f \notin DiscReasons
    <3>1. \A x \in Ends : DiscsTo(x)' = DiscsTo(x)
      <4>1. DiscsTo(to)' = DiscsTo(to) BY <2>5, <2>6, <2>8 DEF DiscsTo
      <4>2. \A x \in Ends : x # to => wire'[x] = wire[x] BY <1>1, <1>4 DEF TypeOK
      <4> QED BY <4>1, <4>2 DEF DiscsTo
    <3>2. \A x \in Ends : \A i \in DiscsTo(x) : wire'[x][i] = wire[x][i]
      BY <1>1, <1>4, <2>5 DEF TypeOK, DiscsTo
    <3>3. \A x \in Ends : \A i \in DiscsTo(x) :
            shutdown'[Other(x)] /\ wire[x][i] \in {reason'[Other(x)], "quitting"}
      BY OtherEnd DEF Announced, Given, Forward, DiscsTo, DiscReasons
    <3> QED BY <1>2, <3>1, <3>2, <3>3, OtherEnd DEF Announced, Given
  <2> QED BY <2>7, <2>8
<1> QED BY <1>3, <1>4 DEF WriteFrame

\* Only WriteFrame adds to the wire, and only DisconnectFirst starts an announcement.
LEMMA AnnouncedStep ==
  ASSUME TypeOK, Locks, Roles, Announced, [Next]_vars
  PROVE  Announced'
<1> Forward BY ForwardStep
<1> USE DEF Goto, Fail, network, down
<1>1. ASSUME NEW e \in Ends, Start(e) PROVE Announced'
  <2>1. wire' = wire
    BY <1>1 DEF Start, CallDisconnect, CallWrite, OpenStream, Ping, TimerFires
  <2>2. \A x \in Ends, q \in Procs :
          pc'[x][q] \in {"lockDisc", "writeDisc"} => pc[x][q] \in {"lockDisc", "writeDisc"}
    BY <1>1 DEF TypeOK, Start, CallDisconnect, CallWrite, OpenStream, Ping, TimerFires
  <2> QED BY <2>1, <2>2, QuietAnnounced
<1>2. ASSUME NEW e \in Ends, NEW p \in Procs, Step(e, p) PROVE Announced'
  <2> DEFINE Quiet == /\ wire' = wire
                      /\ \A x \in Ends, q \in Procs :
                           pc'[x][q] \in {"lockDisc", "writeDisc"} =>
                             pc[x][q] \in {"lockDisc", "writeDisc"} \/ ~shutdown[x]
  <2>1. CASE ReadFrame(e)
    <3>1. wire' = [wire EXCEPT ![e] = Tail(@)] /\ wire[e] # <<>> BY <2>1 DEF ReadFrame
    <3>2. \A x \in Ends, q \in Procs :
            pc'[x][q] \in {"lockDisc", "writeDisc"} => pc[x][q] \in {"lockDisc", "writeDisc"}
      <4>1. pc' = pc \/ \E l \in {"lockMsg", "exit"} : Goto(e, "recv", l)
        BY <2>1, ReadCases
      <4> HIDE DEF Goto
      <4> QED BY <4>1, GotoMoves DEF Procs
    <3> QED BY <3>1, <3>2, ReceiveAnnounced
  <2>2. CASE ReadFails(e) BY <2>2, QuietAnnounced DEF ReadFails, TypeOK
  <2>3. CASE PongTimeout(e) BY <2>3, QuietAnnounced DEF PongTimeout, TypeOK
  <2>4. CASE KeepaliveStops(e) BY <2>4, QuietAnnounced DEF KeepaliveStops, TypeOK
  <2>5. CASE WriteFailed(e, p) /\ wire' = wire
    <3>1. \E l \in {"shut", "done", "exit"} : Goto(e, p, l) BY <2>5, WriteFailedCases
    <3> HIDE DEF Goto
    <3>2. Quiet BY <2>5, <3>1, GotoMoves
    <3> QED BY <3>2, QuietAnnounced
  <2>6. CASE LockState(e, p)
    <3>1. CASE state[e] = "closed" BY <2>5, <2>6, <3>1 DEF LockState
    <3>2. CASE state[e] # "closed"
      <4>1. wire' = wire BY <2>6 DEF LockState
      <4>2. \/ Goto(e, p, "writeMsg")
            \/ pc[e][p] = "lockDisc" /\ Goto(e, p, "writeDisc")
        BY <2>6, <3>2 DEF LockState
      <4> HIDE DEF Goto
      <4>3. Quiet BY <4>1, <4>2, GotoMoves
      <4> QED BY <4>3, QuietAnnounced
    <3> QED BY <3>1, <3>2
  <2>7. CASE WriteFrame(e, p) BY <2>7, SendAnnounced
  <2>8. CASE WriteFails(e, p) BY <2>5, <2>8 DEF WriteFails
  <2>9. CASE ExitErr(e, p) BY <2>9, QuietAnnounced DEF ExitErr, TypeOK
  <2>14. CASE TellStreams(e, p) BY <2>14, QuietAnnounced DEF TellStreams, TypeOK
  <2>10. CASE DisconnectAgain(e, p) BY <2>10, QuietAnnounced DEF DisconnectAgain, TypeOK
  <2>11. CASE DisconnectFirst(e, p) BY <2>11, QuietAnnounced DEF DisconnectFirst, TypeOK
  <2>12. CASE SetClosed(e, p) BY <2>12, QuietAnnounced DEF SetClosed, TypeOK
  <2>13. CASE CloseConn(e, p) BY <2>13, QuietAnnounced DEF CloseConn, TypeOK
  <2> QED BY <1>2, <2>1, <2>2, <2>3, <2>4, <2>6, <2>7, <2>8, <2>9, <2>10, <2>11, <2>12,
             <2>13, <2>14 DEF Step
<1>3. CASE NetBreak
  <2>1. \A x \in Ends : wire'[x] = <<>> BY <1>3 DEF NetBreak
  <2> QED BY <2>1 DEF Announced, DiscsTo
<1>4. CASE UNCHANGED vars
  BY <1>4, QuietAnnounced DEF vars
<1> QED BY <1>1, <1>2, <1>3, <1>4 DEF Next

\* What a step may do to the error that process q of end x carries to exitErr.
Carries(x, q) ==
  /\ \/ cause'[x][q] = cause[x][q] /\ (pc'[x][q] = "exit" => pc[x][q] = "exit")
     \/ cause'[x][q] = "none" /\ pc'[x][q] # "exit"
     \/ cause'[x][q] = "protocolError"
     \/ cause'[x][q] = "ioErr" /\ (connClosed[Other(x)] \/ broken \/ shutdown[x])
     \/ cause'[x][q] \in DiscReasons /\ Given(Other(x), cause'[x][q])
  /\ q # "user" /\ pc'[x][q] \in {"tell", "disc"} =>
       pc[x][q] \in {"tell", "disc"} \/ shutdownErr'[x] # "none"

\* Steps that carry errors as Carries says keep Causes.
LEMMA CarriesCauses ==
  ASSUME TypeOK, Causes, Forward,
         \A x \in Ends : connClosed'[x] => connClosed[x] \/ shutdown[x] \/ crashed'[x],
         \A x \in Ends, q \in Procs : Carries(x, q)
  PROVE  Causes'
<1> SUFFICES ASSUME NEW e \in Ends, NEW p \in Procs
             PROVE  LET err == cause'[e][p]
                    IN  /\ pc'[e][p] = "exit" => err # "none"
                        /\ err = "ioErr" => connClosed'[Other(e)] \/ broken' \/ shutdown'[e]
                        /\ err \in {"quitting", "tooManyPeers"} =>
                             shutdown'[Other(e)] /\ err \in {reason'[Other(e)], "quitting"}
                        /\ p # "user" /\ pc'[e][p] \in {"tell", "disc"} =>
                             shutdownErr'[e] # "none"
  <2>1. \A e \in Ends : connClosed'[e] => shutdown'[e] \/ crashed'[e]
    BY DEF Causes, Forward
  <2> QED BY <2>1 DEF Causes, Given
<1>1. Other(e) \in Ends BY OtherEnd
<1>2. Carries(e, p) OBVIOUS
<1>3. pc'[e][p] = "exit" => cause'[e][p] # "none"
  BY <1>2 DEF Carries, Causes, DiscReasons
<1>4. cause'[e][p] = "ioErr" => connClosed[Other(e)] \/ broken \/ shutdown[e]
  BY <1>2 DEF Carries, Causes, DiscReasons
<1>5. cause'[e][p] \in {"quitting", "tooManyPeers"} => Given(Other(e), cause'[e][p])
  BY <1>2 DEF Carries, Causes
<1>6. p # "user" /\ pc'[e][p] \in {"tell", "disc"} => shutdownErr'[e] # "none"
  BY <1>2 DEF Carries, Causes, Forward
<1> QED BY <1>1, <1>3, <1>4, <1>5, <1>6 DEF Forward, Given

\* An error enters cause only where a read, a write or the timer has failed, and the
\* places where they fail justify it.
LEMMA CausesStep ==
  ASSUME TypeOK, Locks, Roles, Announced, Causes, [Next]_vars
  PROVE  Causes'
<1> Forward BY ForwardStep
<1> USE DEF network, down
<1>1. ASSUME NEW e \in Ends, Start(e) PROVE Causes'
  <2>1. cause' = cause /\ connClosed' = connClosed
    BY <1>1 DEF Start, CallDisconnect, CallWrite, OpenStream, Ping, TimerFires
  <2>2. \/ pc' = pc
        \/ Goto(e, "user", "disc")
        \/ \E q \in {"app", "keep"} : Goto(e, q, "lockMsg")
    BY <1>1 DEF Start, CallDisconnect, CallWrite, OpenStream, Ping, TimerFires
  <2>3. ASSUME NEW x \in Ends, NEW q \in Procs PROVE Carries(x, q)
    BY <2>1, <2>2, GotoMoves DEF Carries, Procs
  <2> QED BY <2>1, <2>3, CarriesCauses
<1>2. ASSUME NEW e \in Ends, NEW p \in Procs, Step(e, p) PROVE Causes'
  <2> ~crashed[e] BY <1>2 DEF Step
  <2>1. CASE ReadFrame(e)
    <3>1. \A x \in Ends : connClosed'[x] => connClosed[x] \/ crashed'[x]
      BY <2>1 DEF ReadFrame, TypeOK
    <3>2. Head(wire[e]) \in DiscReasons => Given(Other(e), Head(wire[e]))
      <4>1. wire[e] \in Seq(Frames) /\ wire[e] # <<>> BY <2>1 DEF ReadFrame, TypeOK
      <4>2. 1 \in DOMAIN wire[e] /\ Head(wire[e]) = wire[e][1] BY <4>1
      <4> QED BY <4>2 DEF Announced, DiscsTo
    <3>3. ASSUME NEW x \in Ends, NEW q \in Procs PROVE Carries(x, q)
      <4>1. CASE cause' = cause /\ (pc' = pc \/ Goto(e, "recv", "lockMsg"))
        BY <4>1, GotoMoves DEF Carries, Procs
      <4>2. CASE Head(wire[e]) \in DiscReasons /\ Fail(e, "recv", Head(wire[e]))
        <5>1. Goto(e, "recv", "exit") /\ "recv" \in Procs BY <4>2 DEF Fail, Procs
        <5>2. cause'[x][q] = IF x = e /\ q = "recv" THEN Head(wire[e]) ELSE cause[x][q]
          BY <4>2, <5>1 DEF Fail, TypeOK
        <5> QED BY <3>2, <4>2, <5>1, <5>2, GotoMoves DEF Carries
      <4> QED BY <2>1, <4>1, <4>2, ReadCases
    <3> QED BY <3>1, <3>3, CarriesCauses
  <2>2. ASSUME NEW q \in Procs, Fail(e, q, "ioErr"), connClosed' = connClosed,
               connClosed[e] \/ connClosed[Other(e)] \/ broken \/ state[e] = "closed"
        PROVE  Causes'
    <3>1. connClosed[Other(e)] \/ broken \/ shutdown[e] BY <2>2 DEF Causes, Locks
    <3>2. ASSUME NEW x \in Ends, NEW r \in Procs PROVE Carries(x, r)
      <4>1. Goto(e, q, "exit") BY <2>2 DEF Fail
      <4>2. cause'[x][r] = IF x = e /\ r = q THEN "ioErr" ELSE cause[x][r]
        BY <2>2 DEF Fail, TypeOK
      <4> QED BY <3>1, <4>1, <4>2, GotoMoves DEF Carries
    <3> QED BY <2>2, <3>2, CarriesCauses
  <2>3. CASE ReadFails(e)
    <3>1. "recv" \in Procs BY DEF Procs
    <3> QED BY <2>2, <2>3, <3>1 DEF ReadFails
  <2>4. CASE PongTimeout(e)
    <3>1. Fail(e, "keep", "protocolError") /\ "keep" \in Procs /\ connClosed' = connClosed
      BY <2>4 DEF PongTimeout, Procs
    <3>2. ASSUME NEW x \in Ends, NEW q \in Procs PROVE Carries(x, q)
      <4>1. Goto(e, "keep", "exit") BY <3>1 DEF Fail
      <4>2. cause'[x][q] = IF x = e /\ q = "keep" THEN "protocolError" ELSE cause[x][q]
        BY <3>1 DEF Fail, TypeOK
      <4> QED BY <3>1, <4>1, <4>2, GotoMoves DEF Carries
    <3> QED BY <3>1, <3>2, CarriesCauses
  <2>5. ASSUME NEW q \in Procs, NEW l, Goto(e, q, l), l \notin {"exit", "tell", "disc"},
               cause' = cause,
               \A x \in Ends : connClosed'[x] => connClosed[x] \/ shutdown[x]
        PROVE  Causes'
    <3>1. ASSUME NEW x \in Ends, NEW r \in Procs PROVE Carries(x, r)
      BY <2>5, GotoMoves DEF Carries
    <3> QED BY <2>5, <3>1, CarriesCauses
  <2>6. CASE KeepaliveStops(e)
    <3>1. "keep" \in Procs BY DEF Procs
    <3> QED BY <2>5, <2>6, <3>1 DEF KeepaliveStops
  <2>7. CASE WriteFailed(e, p) /\ connClosed' = connClosed
             /\ (connClosed[e] \/ connClosed[Other(e)] \/ broken \/ state[e] = "closed")
    BY <2>2, <2>5, <2>7, WriteFailedCases
  <2>8. CASE LockState(e, p)
    BY <2>5, <2>7, <2>8 DEF LockState
  <2>9. CASE WriteFrame(e, p) BY <2>5, <2>9 DEF WriteFrame
  <2>10. CASE WriteFails(e, p) BY <2>7, <2>10 DEF WriteFails
  <2>11. CASE ExitErr(e, p)
    <3>1. Goto(e, p, "tell") /\ connClosed' = connClosed /\ cause' = cause BY <2>11 DEF ExitErr
    <3>2. shutdownErr'[e] # "none"
      BY <2>11 DEF ExitErr, FirstError, Causes, TypeOK
    <3>3. ASSUME NEW x \in Ends, NEW q \in Procs PROVE Carries(x, q)
      BY <3>1, <3>2, GotoMoves DEF Carries
    <3> QED BY <3>1, <3>3, CarriesCauses
  <2>16. CASE TellStreams(e, p)
    <3>1. /\ Goto(e, p, "disc") /\ pc[e][p] = "tell"
          /\ connClosed' = connClosed /\ shutdownErr' = shutdownErr
      BY <2>16 DEF TellStreams
    <3>2. ASSUME NEW x \in Ends, NEW q \in Procs PROVE Carries(x, q)
      <4>1. cause'[x][q] = IF x = e /\ q = p THEN "none" ELSE cause[x][q]
        BY <2>16 DEF TellStreams, TypeOK
      <4> QED BY <3>1, <4>1, GotoMoves DEF Carries
    <3> QED BY <3>1, <3>2, CarriesCauses
  <2>12. CASE DisconnectAgain(e, p) BY <2>5, <2>12 DEF DisconnectAgain
  <2>13. CASE DisconnectFirst(e, p) BY <2>5, <2>13 DEF DisconnectFirst
  <2>14. CASE SetClosed(e, p) BY <2>5, <2>14 DEF SetClosed
  <2>15. CASE CloseConn(e, p)
    <3>1. shutdown[e] BY <2>15 DEF CloseConn, Locks, ShuttingDown
    <3>2. \A x \in Ends : connClosed'[x] => connClosed[x] \/ shutdown[x]
      BY <2>15, <3>1 DEF CloseConn, TypeOK
    <3> QED BY <2>5, <2>15, <3>2 DEF CloseConn
  <2> QED BY <1>2, <2>1, <2>3, <2>4, <2>6, <2>8, <2>9, <2>10, <2>11, <2>12, <2>13,
             <2>14, <2>15, <2>16 DEF Step
<1>3. CASE NetBreak
  <2>1. pc' = pc /\ cause' = cause /\ connClosed' = connClosed BY <1>3 DEF NetBreak
  <2> QED BY <2>1, CarriesCauses DEF Carries
<1>4. CASE UNCHANGED vars
  <2>1. pc' = pc /\ cause' = cause /\ connClosed' = connClosed BY <1>4 DEF vars
  <2> QED BY <2>1, CarriesCauses DEF Carries
<1> QED BY <1>1, <1>2, <1>3, <1>4 DEF Next

\* Only exitErr and Disconnect touch shutdownErr and shutdown.
LEMMA ErrorSources ==
  ASSUME TypeOK, [Next]_vars, NEW x \in Ends
  PROVE  \/ shutdownErr'[x] = shutdownErr[x] /\ shutdown'[x] = shutdown[x]
         \/ \E p \in Procs : ExitErr(x, p) \/ DisconnectFirst(x, p)
<1> USE DEF TypeOK, down
<1>1. ASSUME NEW e \in Ends, Start(e) PROVE UNCHANGED <<shutdownErr, shutdown>>
  BY <1>1 DEF Start, CallDisconnect, CallWrite, OpenStream, Ping, TimerFires
<1>2. ASSUME NEW e \in Ends, NEW p \in Procs, Step(e, p)
      PROVE  \/ shutdownErr'[x] = shutdownErr[x] /\ shutdown'[x] = shutdown[x]
             \/ x = e /\ (ExitErr(e, p) \/ DisconnectFirst(e, p))
  <2>1. CASE ExitErr(e, p) BY <2>1 DEF ExitErr, FirstError
  <2>2. CASE DisconnectFirst(e, p) BY <2>2 DEF DisconnectFirst, FirstError
  <2>3. CASE ReadFrame(e) \/ ReadFails(e) \/ PongTimeout(e) \/ KeepaliveStops(e)
             \/ LockState(e, p) \/ WriteFrame(e, p) \/ WriteFails(e, p)
             \/ TellStreams(e, p) \/ DisconnectAgain(e, p) \/ SetClosed(e, p) \/ CloseConn(e, p)
    BY <2>3 DEF ReadFrame, ReadFails, PongTimeout, KeepaliveStops, LockState, WriteFrame,
                WriteFails, TellStreams, DisconnectAgain, SetClosed, CloseConn
  <2> QED BY <1>2, <2>1, <2>2, <2>3 DEF Step
<1>3. CASE NetBreak BY <1>3 DEF NetBreak
<1>4. CASE UNCHANGED vars BY <1>4 DEF vars
<1> QED BY <1>1, <1>2, <1>3, <1>4 DEF Next

\* The first error recorded is the cause: exitErr records one that Causes justifies,
\* and Disconnect its owner's reason, because recv and keepalive come from exitErr.
LEMMA CauseStep ==
  ASSUME TypeOK, Roles, Causes, CauseIsTrue, [Next]_vars
  PROVE  CauseIsTrue'
<1> Forward BY ForwardStep
<1> SUFFICES ASSUME NEW e \in Ends
             PROVE  LET err == shutdownErr'[e]
                    IN  /\ shutdown'[e] => err # "none"
                        /\ err = "ioErr" => connClosed'[Other(e)] \/ broken'
                        /\ err \in {"quitting", "tooManyPeers"} =>
                             \/ reason'[e] = err
                             \/ shutdown'[Other(e)] /\ err \in {reason'[Other(e)], "quitting"}
  BY DEF CauseIsTrue
<1>1. Other(e) \in Ends BY OtherEnd
<1>2. CASE shutdownErr[e] # "none"
  BY <1>1, <1>2 DEF CauseIsTrue, Forward
<1>3. CASE shutdownErr[e] = "none"
  <2>1. ~shutdown[e] BY <1>3 DEF CauseIsTrue
  <2>2. CASE shutdownErr'[e] = shutdownErr[e] /\ shutdown'[e] = shutdown[e]
    BY <1>3, <2>1, <2>2
  <2>3. ASSUME NEW p \in Procs, ExitErr(e, p)
        PROVE  /\ ~shutdown'[e] /\ shutdownErr'[e] = cause[e][p]
               /\ cause[e][p] = "ioErr" => connClosed[Other(e)] \/ broken
               /\ cause[e][p] \in {"quitting", "tooManyPeers"} => Given(Other(e), cause[e][p])
    BY <1>3, <2>1, <2>3 DEF ExitErr, FirstError, Causes, TypeOK
  <2>4. ASSUME NEW p \in Procs, DisconnectFirst(e, p)
        PROVE  /\ shutdownErr'[e] = reason[e] /\ reason[e] \in DiscReasons
               /\ reason'[e] = reason[e]
    <3>1. p = "user" /\ reason[e] \in DiscReasons
      BY <1>3, <2>4 DEF DisconnectFirst, Causes, Roles
    <3> QED BY <1>3, <2>4, <3>1 DEF DisconnectFirst, FirstError, Reason, TypeOK
  <2> QED BY <1>1, <2>2, <2>3, <2>4, ErrorSources DEF Forward, Given, DiscReasons
<1> QED BY <1>2, <1>3

-----------------------------------------------------------------------------

\* The inductive invariant of a session.
THEOREM SessionInvariance == Spec => []SessionInv
<1>1. Init => SessionInv
  <2> SUFFICES ASSUME Init PROVE SessionInv OBVIOUS
  <2> USE DEF Init
  <2>1. TypeOK
    <3>1. /\ wire \in [Ends -> Seq(Frames)]
          /\ pings \in [Ends -> 0..MaxPings] /\ data \in [Ends -> 0..MaxData]
      BY BoundsAssumption
    <3>2. /\ pc \in [Ends -> [Procs -> Labels]]
          /\ cause \in [Ends -> [Procs -> Errors \cup {"none"}]]
      BY DEF Labels
    <3>3. /\ timer \in [Ends -> [armed : BOOLEAN, tick : BOOLEAN]]
          /\ stream \in [Ends -> [open : BOOLEAN, err : Errors \cup {"none"}]]
      OBVIOUS
    <3> QED BY <3>1, <3>2, <3>3 DEF TypeOK
  <2>2. Locks BY DEF Locks, ShuttingDown, Writing
  <2>3. Roles BY DEF Roles, Procs
  <2>4. Announced BY DEF Announced, DiscsTo
  <2>5. Causes BY DEF Causes
  <2>6. CauseIsTrue BY DEF CauseIsTrue
  <2> QED BY <2>1, <2>2, <2>3, <2>4, <2>5, <2>6 DEF SessionInv
<1>2. SessionInv /\ [Next]_vars => SessionInv'
  BY TypeStep, LockStep, RolesStep, AnnouncedStep, CausesStep, CauseStep DEF SessionInv
<1> QED BY <1>1, <1>2, PTL DEF Spec

\* Types, and that only disconnect reasons and known messages are ever on the wire.
THEOREM SessionTypes == Spec => []TypeOK
BY SessionInvariance, PTL DEF SessionInv

\* Disconnect of the owner, recv and keepalive never closes shutdownCh twice.
THEOREM ShutsDownOnce == Spec => []ClosesOnce
<1>1. SessionInv => ClosesOnce BY DEF SessionInv, Locks, ClosesOnce
<1> QED BY <1>1, SessionInvariance, PTL

\* conn.Close() never comes while a frame is being written at the same end.
THEOREM FramesStayWhole == Spec => []NoWriteAfterClose
<1>1. SessionInv => NoWriteAfterClose BY DEF SessionInv, Locks, NoWriteAfterClose
<1> QED BY <1>1, SessionInvariance, PTL

\* At most one disconnect message is in flight to an end, from an end that is leaving.
THEOREM AnnouncesOnce == Spec => []OneDisconnectMessage
<1>1. SessionInv => OneDisconnectMessage
  BY DEF SessionInv, Announced, Given, OneDisconnectMessage
<1> QED BY <1>1, SessionInvariance, PTL

\* shutdownErr of a session is the true cause of its end.
THEOREM RecordsTheCause == Spec => []CauseIsTrue
BY SessionInvariance, PTL DEF SessionInv
=============================================================================
