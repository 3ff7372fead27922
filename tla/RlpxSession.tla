---------------------------- MODULE RlpxSession ----------------------------
(***************************************************************************)
(* The life of an RLPx session after its handshake (rlpx/session.go): the  *)
(* two ends of one connection, each with                                   *)
(*   "recv"  the goroutine recv()/recvLoop(),                              *)
(*   "keep"  the goroutine keepalive(),                                    *)
(*   "user"  a caller of Disconnect(reason) or Close(),                    *)
(*   "app"   a protocol that writes messages to the session's stream.      *)
(* All four write frames through WriteRawMsg, three of them may shut the   *)
(* session down, and the locks are the code's: shutdownLock, held through  *)
(* the whole of Disconnect, and stateLock, held through the whole of       *)
(* WriteRawMsg, the blocking write to the connection included.             *)
(*                                                                         *)
(* Reading with Reset and the dispatch on the code, a critical section     *)
(* that does not block, and close(shutdownCh) with conn.Close() are single *)
(* steps.  Frames are their message codes; a disconnect message is its     *)
(* reason, which encode and decode carry unchanged (one byte below 0x80).  *)
(***************************************************************************)
EXTENDS Integers, Sequences

CONSTANTS A, B,        \* the two ends
          Users,       \* ends whose owner may call Disconnect
          UserReasons, \* the reasons it may give
          Writers,     \* ends with a protocol that writes
          Timeouts,    \* ends whose pong timer may expire
          Late,        \* ends whose streams are not open yet when recv starts
          MaxData,     \* bound on the messages each protocol writes
          MaxPings,    \* bound on the pings each keepalive sends
          ConnCap,     \* frames the connection buffers per direction
          NetBreaks    \* whether the network may break the connection

Ends == {A, B}
Other(e) == IF e = A THEN B ELSE A
Procs == {"recv", "keep", "user", "app"}

DiscReasons == {"quitting", "tooManyPeers", "protocolError"}
Errors == DiscReasons \cup {"ioErr"}    \* ioErr: a read or a write that failed
Frames == {"ping", "pong", "data"} \cup DiscReasons

ASSUME EndsAssumption == A # B /\ Users \subseteq Ends
ASSUME ReasonsAssumption == UserReasons \subseteq DiscReasons
ASSUME BoundsAssumption == /\ MaxData \in Nat
                           /\ MaxPings \in Nat
                           /\ ConnCap \in Nat \ {0}
                           /\ NetBreaks \in BOOLEAN

VARIABLES
  wire,         \* wire[e]: frames on their way to end e
  connClosed,   \* conn.Close() was called at this end
  broken,       \* the network has dropped the connection
  pc,           \* pc[e][p]: where process p of end e is
  cause,        \* cause[e][p]: the error p is taking to exitErr
  reason,       \* the reason the owner of e gave to Disconnect
  shutdown, shutdownErr,
  shutdownCh,   \* the channel is closed
  shutdownLock, stateLock,   \* the holder, or "free"
  state,
  timer,        \* pongTimeout: armed, and a tick waiting in its channel
  stream,       \* [open, err]: OpenStream was called; what errorCh holds
  crashed,      \* a nil stream was dereferenced: the program is gone
  pings, data   \* what the bounds count

network == <<wire, connClosed, broken>>
locks   == <<shutdownLock, stateLock>>
down    == <<shutdown, shutdownErr, shutdownCh, state>>
budget  == <<pings, data>>
vars == <<network, pc, cause, reason, down, locks, timer, stream, crashed, budget>>

Init ==
  /\ wire = [e \in Ends |-> <<>>]
  /\ connClosed = [e \in Ends |-> FALSE]
  /\ broken = FALSE
  /\ pc = [e \in Ends |-> [p \in Procs |-> "home"]]
  /\ cause = [e \in Ends |-> [p \in Procs |-> "none"]]
  /\ reason = [e \in Ends |-> "none"]
  /\ shutdown = [e \in Ends |-> FALSE]
  /\ shutdownErr = [e \in Ends |-> "none"]
  /\ shutdownCh = [e \in Ends |-> FALSE]
  /\ state = [e \in Ends |-> "established"]
  /\ shutdownLock = [e \in Ends |-> "free"]
  /\ stateLock = [e \in Ends |-> "free"]
  /\ timer = [e \in Ends |-> [armed |-> TRUE, tick |-> FALSE]]
  /\ stream = [e \in Ends |-> [open |-> e \notin Late, err |-> "none"]]
  /\ crashed = [e \in Ends |-> FALSE]
  /\ pings = [e \in Ends |-> 0]
  /\ data = [e \in Ends |-> 0]

Goto(e, p, label) == pc' = [pc EXCEPT ![e][p] = label]

\* p returns from a failed read or write, or a timeout, with an error for exitErr.
Fail(e, p, err) ==
  /\ Goto(e, p, "exit")
  /\ cause' = [cause EXCEPT ![e][p] = err]

-----------------------------------------------------------------------------
(* Callers from outside: the owner, the protocol, negotiateProtocols.      *)

\* Disconnect(reason); Close() is Disconnect(DiscQuitting).
CallDisconnect(e) ==
  /\ e \in Users
  /\ pc[e]["user"] = "home"
  /\ \E r \in UserReasons : reason' = [reason EXCEPT ![e] = r]
  /\ Goto(e, "user", "disc")
  /\ UNCHANGED <<network, cause, down, locks, timer, stream, crashed, budget>>

\* Stream.WriteMsg.
CallWrite(e) ==
  /\ e \in Writers
  /\ stream[e].open
  /\ pc[e]["app"] = "home"
  /\ data[e] < MaxData
  /\ data' = [data EXCEPT ![e] = @ + 1]
  /\ Goto(e, "app", "lockMsg")
  /\ UNCHANGED <<network, cause, reason, down, locks, timer, stream, crashed, pings>>

\* negotiateProtocols runs after recv and keepalive were started.
OpenStream(e) ==
  /\ ~stream[e].open
  /\ stream' = [stream EXCEPT ![e].open = TRUE]
  /\ UNCHANGED <<network, pc, cause, reason, down, locks, timer, crashed, budget>>

-----------------------------------------------------------------------------
(* recvLoop.                                                               *)

\* ReadMsg returns a frame, the timer is reset, and the code decides.
ReadFrame(e) ==
  /\ pc[e]["recv"] = "home"
  /\ ~connClosed[e]
  /\ wire[e] # <<>>
  /\ wire' = [wire EXCEPT ![e] = Tail(@)]
  /\ timer' = [timer EXCEPT ![e].armed = TRUE]
  /\ LET f == Head(wire[e])
     IN  \/ /\ f = "ping"
            /\ Goto(e, "recv", "lockMsg")
            /\ UNCHANGED <<cause, crashed, connClosed>>
         \/ /\ f = "pong" \/ (f = "data" /\ stream[e].open)
            /\ UNCHANGED <<pc, cause, crashed, connClosed>>
         \/ /\ f \in DiscReasons
            /\ Fail(e, "recv", f)
            /\ UNCHANGED <<crashed, connClosed>>
         \/ /\ f = "data" /\ ~stream[e].open
            /\ crashed' = [crashed EXCEPT ![e] = TRUE]
            /\ connClosed' = [connClosed EXCEPT ![e] = TRUE]
            /\ UNCHANGED <<pc, cause>>
  /\ UNCHANGED <<broken, reason, down, locks, stream, budget>>

\* Mutant: only a local Close ends the read.
ReadFailsOnlyHere(e) ==
  /\ pc[e]["recv"] = "home"
  /\ connClosed[e]
  /\ Fail(e, "recv", "ioErr")
  /\ UNCHANGED <<network, reason, down, locks, timer, stream, crashed, budget>>

\* ReadMsg fails: the connection was closed here, or there, or is broken.
ReadFails(e) ==
  /\ pc[e]["recv"] = "home"
  /\ \/ connClosed[e]
     \/ wire[e] = <<>> /\ (connClosed[Other(e)] \/ broken)
  /\ Fail(e, "recv", "ioErr")
  /\ UNCHANGED <<network, reason, down, locks, timer, stream, crashed, budget>>

-----------------------------------------------------------------------------
(* keepalive: the three cases of its select.                               *)

Ping(e) ==
  /\ pc[e]["keep"] = "home"
  /\ pings[e] < MaxPings
  /\ pings' = [pings EXCEPT ![e] = @ + 1]
  /\ Goto(e, "keep", "lockMsg")
  /\ UNCHANGED <<network, cause, reason, down, locks, timer, stream, crashed, data>>

PongTimeout(e) ==
  /\ pc[e]["keep"] = "home"
  /\ timer[e].tick
  /\ timer' = [timer EXCEPT ![e].tick = FALSE]
  /\ Fail(e, "keep", "protocolError")
  /\ UNCHANGED <<network, reason, down, locks, stream, crashed, budget>>

KeepaliveStops(e) ==
  /\ pc[e]["keep"] = "home"
  /\ shutdownCh[e]
  /\ Goto(e, "keep", "done")
  /\ UNCHANGED <<network, cause, reason, down, locks, timer, stream, crashed, budget>>

-----------------------------------------------------------------------------
(* WriteRawMsg.                                                            *)

Message(p) == CASE p = "recv" -> "pong" [] p = "keep" -> "ping" [] p = "app" -> "data"

\* The reason in the disconnect message: exitErr goes through Close().
Reason(e, p) == IF p = "user" THEN reason[e] ELSE "quitting"

\* What p does when its write returned an error: Disconnect ignores it, the protocol
\* gives up, recvLoop and keepalive leave through exitErr.
WriteFailed(e, p) ==
  CASE pc[e][p] \in {"lockDisc", "writeDisc"} -> Goto(e, p, "shut") /\ UNCHANGED cause
    [] p = "app" -> Goto(e, p, "done") /\ UNCHANGED cause
    [] OTHER -> Fail(e, p, "ioErr")

\* stateLock.Lock() and the check of the state.
LockState(e, p) ==
  /\ pc[e][p] \in {"lockMsg", "lockDisc"}
  /\ stateLock[e] = "free"
  /\ IF state[e] = "closed"
       THEN WriteFailed(e, p) /\ UNCHANGED stateLock
       ELSE /\ stateLock' = [stateLock EXCEPT ![e] = p]
            /\ Goto(e, p, IF pc[e][p] = "lockMsg" THEN "writeMsg" ELSE "writeDisc")
            /\ UNCHANGED cause
  /\ UNCHANGED <<network, reason, down, shutdownLock, timer, stream, crashed, budget>>

\* The write goes through: into the buffer when it has room, nowhere when the other
\* end is gone and that has not been noticed yet.
WriteFrame(e, p) ==
  LET to == Other(e)
  IN  /\ pc[e][p] \in {"writeMsg", "writeDisc"}
      /\ ~connClosed[e]
      /\ IF connClosed[to] \/ broken
           THEN UNCHANGED wire
           ELSE /\ Len(wire[to]) < ConnCap
                /\ wire' = [wire EXCEPT ![to] =
                     Append(@, IF pc[e][p] = "writeMsg" THEN Message(p) ELSE Reason(e, p))]
      /\ stateLock' = [stateLock EXCEPT ![e] = "free"]
      /\ Goto(e, p, IF pc[e][p] = "writeMsg" THEN "home" ELSE "shut")
      /\ UNCHANGED <<connClosed, broken, cause, reason, down, shutdownLock, timer,
                     stream, crashed, budget>>

\* The write fails: the connection is closed at either end, or broken.
WriteFails(e, p) ==
  /\ pc[e][p] \in {"writeMsg", "writeDisc"}
  /\ connClosed[e] \/ connClosed[Other(e)] \/ broken
  /\ WriteFailed(e, p)
  /\ stateLock' = [stateLock EXCEPT ![e] = "free"]
  /\ UNCHANGED <<network, reason, down, shutdownLock, timer, stream, crashed, budget>>

-----------------------------------------------------------------------------
(* exitErr and Disconnect.                                                 *)

\* Mutant: the last error wins.
LastError(e, err) == shutdownErr' = [shutdownErr EXCEPT ![e] = err]

FirstError(e, err) ==
  shutdownErr' = [shutdownErr EXCEPT ![e] = IF @ = "none" THEN err ELSE @]

\* Mutant: exitErr returns to its Close() when the shutdown has a cause already.
ExitErrFirstOnly(e, p) ==
  /\ pc[e][p] = "exit"
  /\ shutdownLock[e] = "free"
  /\ FirstError(e, cause[e][p])
  /\ Goto(e, p, IF shutdownErr[e] = "none" THEN "tell" ELSE "disc")
  /\ UNCHANGED <<network, cause, reason, shutdown, shutdownCh, state, locks, timer, stream,
                 crashed, budget>>

\* exitErr: the first error is kept, under shutdownLock ...
ExitErr(e, p) ==
  /\ pc[e][p] = "exit"
  /\ shutdownLock[e] = "free"
  /\ FirstError(e, cause[e][p])
  /\ Goto(e, p, "tell")
  /\ UNCHANGED <<network, cause, reason, shutdown, shutdownCh, state, locks, timer, stream,
                 crashed, budget>>

\* ... and without it the streams that are open by now are told, without blocking.
TellStreams(e, p) ==
  /\ pc[e][p] = "tell"
  /\ stream' = [stream EXCEPT ![e].err = IF stream[e].open /\ @ = "none"
                                            THEN cause[e][p] ELSE @]
  /\ cause' = [cause EXCEPT ![e][p] = "none"]
  /\ Goto(e, p, "disc")
  /\ UNCHANGED <<network, reason, down, locks, timer, crashed, budget>>

\* Mutant: the early return leaves shutdownLock held.
DisconnectAgainKeepsLock(e, p) ==
  /\ pc[e][p] = "disc"
  /\ shutdownLock[e] = "free"
  /\ shutdown[e]
  /\ shutdownLock' = [shutdownLock EXCEPT ![e] = p]
  /\ Goto(e, p, "done")
  /\ UNCHANGED <<network, cause, reason, down, stateLock, timer, stream, crashed, budget>>

\* Disconnect returns at once when the session is being shut down already.
DisconnectAgain(e, p) ==
  /\ pc[e][p] = "disc"
  /\ shutdownLock[e] = "free"
  /\ shutdown[e]
  /\ Goto(e, p, "done")
  /\ UNCHANGED <<network, cause, reason, down, locks, timer, stream, crashed, budget>>

\* Mutant: s.shutdown is not tested.
DisconnectUnguarded(e, p) ==
  /\ pc[e][p] = "disc"
  /\ shutdownLock[e] = "free"
  /\ shutdownLock' = [shutdownLock EXCEPT ![e] = p]
  /\ shutdown' = [shutdown EXCEPT ![e] = TRUE]
  /\ FirstError(e, Reason(e, p))
  /\ Goto(e, p, "lockDisc")
  /\ UNCHANGED <<network, cause, reason, shutdownCh, state, stateLock, timer, stream,
                 crashed, budget>>

\* Mutant: Disconnect neither takes shutdownLock nor tests s.shutdown.
DisconnectUnlocked(e, p) ==
  /\ pc[e][p] = "disc"
  /\ shutdown' = [shutdown EXCEPT ![e] = TRUE]
  /\ FirstError(e, Reason(e, p))
  /\ Goto(e, p, "lockDisc")
  /\ UNCHANGED <<network, cause, reason, shutdownCh, state, locks, timer, stream, crashed,
                 budget>>

DisconnectFirst(e, p) ==
  /\ pc[e][p] = "disc"
  /\ shutdownLock[e] = "free"
  /\ ~shutdown[e]
  /\ shutdownLock' = [shutdownLock EXCEPT ![e] = p]
  /\ shutdown' = [shutdown EXCEPT ![e] = TRUE]
  /\ FirstError(e, Reason(e, p))
  /\ Goto(e, p, "lockDisc")
  /\ UNCHANGED <<network, cause, reason, shutdownCh, state, stateLock, timer, stream,
                 crashed, budget>>

\* Mutant: the state is set without stateLock.
SetClosedUnlocked(e, p) ==
  /\ pc[e][p] = "shut"
  /\ state' = [state EXCEPT ![e] = "closed"]
  /\ Goto(e, p, "closing")
  /\ UNCHANGED <<network, cause, reason, shutdown, shutdownErr, shutdownCh, locks, timer,
                 stream, crashed, budget>>

\* state = sessionClosed, under stateLock.
SetClosed(e, p) ==
  /\ pc[e][p] = "shut"
  /\ stateLock[e] = "free"
  /\ state' = [state EXCEPT ![e] = "closed"]
  /\ Goto(e, p, "closing")
  /\ UNCHANGED <<network, cause, reason, shutdown, shutdownErr, shutdownCh, locks, timer,
                 stream, crashed, budget>>

\* close(shutdownCh), conn.Close(), and the deferred unlock.
CloseConn(e, p) ==
  /\ pc[e][p] = "closing"
  /\ shutdownCh' = [shutdownCh EXCEPT ![e] = TRUE]
  /\ connClosed' = [connClosed EXCEPT ![e] = TRUE]
  /\ shutdownLock' = [shutdownLock EXCEPT ![e] = "free"]
  /\ Goto(e, p, "done")
  /\ UNCHANGED <<wire, broken, cause, reason, shutdown, shutdownErr, state, stateLock,
                 timer, stream, crashed, budget>>

-----------------------------------------------------------------------------
(* The timer and the network.                                              *)

\* pongTimeout expires and leaves its tick in C (Reset does not drain it).  Once
\* keepalive has returned nobody looks at C.
TimerFires(e) ==
  /\ e \in Timeouts
  /\ timer[e].armed
  /\ pc[e]["keep"] # "done"
  /\ timer' = [timer EXCEPT ![e] = [armed |-> FALSE, tick |-> TRUE]]
  /\ UNCHANGED <<network, pc, cause, reason, down, locks, stream, crashed, budget>>

\* The network drops the connection and what it was carrying.
NetBreak ==
  /\ NetBreaks /\ ~broken
  /\ broken' = TRUE
  /\ wire' = [e \in Ends |-> <<>>]
  /\ UNCHANGED <<connClosed, pc, cause, reason, down, locks, timer, stream, crashed, budget>>

\* What process p of end e does by itself once it has started something.
Step(e, p) ==
  /\ ~crashed[e]
  /\ \/ p = "recv" /\ (ReadFrame(e) \/ ReadFails(e))
     \/ p = "keep" /\ (PongTimeout(e) \/ KeepaliveStops(e))
     \/ LockState(e, p) \/ WriteFrame(e, p) \/ WriteFails(e, p)
     \/ ExitErr(e, p) \/ TellStreams(e, p) \/ DisconnectAgain(e, p)
     \/ DisconnectFirst(e, p) \/ SetClosed(e, p) \/ CloseConn(e, p)

Start(e) ==
  /\ ~crashed[e]
  /\ \/ CallDisconnect(e) \/ CallWrite(e) \/ OpenStream(e) \/ Ping(e) \/ TimerFires(e)

Next ==
  \/ \E e \in Ends : Start(e)
  \/ \E e \in Ends, p \in Procs : Step(e, p)
  \/ NetBreak

Spec == Init /\ [][Next]_vars

\* Every goroutine that can go on eventually does.  Nothing is assumed of the owners,
\* the protocols, the timers and the network.
FairSpec == Spec /\ \A e \in Ends, p \in Procs : WF_vars(Step(e, p))

-----------------------------------------------------------------------------
(* Properties.                                                             *)

Labels == {"home", "lockMsg", "writeMsg", "exit", "tell", "disc", "lockDisc", "writeDisc",
           "shut", "closing", "done"}

\* The types of both ends, their processes and the connection between them.
TypeOK ==
  /\ wire \in [Ends -> Seq(Frames)]
  /\ connClosed \in [Ends -> BOOLEAN]
  /\ broken \in BOOLEAN
  /\ pc \in [Ends -> [Procs -> Labels]]
  /\ cause \in [Ends -> [Procs -> Errors \cup {"none"}]]
  /\ reason \in [Ends -> DiscReasons \cup {"none"}]
  /\ shutdown \in [Ends -> BOOLEAN]
  /\ shutdownErr \in [Ends -> Errors \cup {"none"}]
  /\ shutdownCh \in [Ends -> BOOLEAN]
  /\ state \in [Ends -> {"established", "closed"}]
  /\ shutdownLock \in [Ends -> Procs \cup {"free"}]
  /\ stateLock \in [Ends -> Procs \cup {"free"}]
  /\ timer \in [Ends -> [armed : BOOLEAN, tick : BOOLEAN]]
  /\ stream \in [Ends -> [open : BOOLEAN, err : Errors \cup {"none"}]]
  /\ crashed \in [Ends -> BOOLEAN]
  /\ pings \in [Ends -> 0..MaxPings]
  /\ data \in [Ends -> 0..MaxData]

ShuttingDown(e, p) == pc[e][p] \in {"lockDisc", "writeDisc", "shut", "closing"}
Writing(e, p) == pc[e][p] \in {"writeMsg", "writeDisc"}

\* shutdownCh is closed at most once: recv, keepalive and the owner may all call
\* Disconnect, and whoever is past its test of s.shutdown is alone and finds the
\* channel open (closing it twice panics).
ClosesOnce ==
  \A e \in Ends, p \in Procs :
    ShuttingDown(e, p) => shutdownLock[e] = p /\ ~shutdownCh[e]

\* Closing never cuts a frame of this end in two: from the moment the state is closed
\* to conn.Close() and after it, no writer is inside halfConn.write.
NoWriteAfterClose ==
  \A e \in Ends : state[e] = "closed" \/ shutdownCh[e] => \A p \in Procs : ~Writing(e, p)

DiscsTo(e) == {i \in DOMAIN wire[e] : wire[e][i] \in DiscReasons}

\* An end announces its departure at most once, and only when it is leaving, although
\* exitErr of two goroutines and Disconnect of the owner may overlap: there are never two
\* disconnect messages on their way to an end, which has room for both (ConnCap > 1).
OneDisconnectMessage ==
  \A e \in Ends : \A i, j \in DiscsTo(e) : i = j /\ shutdown[Other(e)]

\* shutdownErr is the true cause.  There is one as soon as the shutdown begins; an I/O
\* error is recorded only when the other end or the network ended the connection, never
\* as an echo of this end's own shutdown; a reason is one that the owner of this end
\* or, if the other end has been shut down, that end gave.
CauseIsTrue ==
  \A e \in Ends :
    LET err == shutdownErr[e]
    IN  /\ shutdown[e] => err # "none"
        /\ err = "ioErr" => connClosed[Other(e)] \/ broken
        /\ err \in {"quitting", "tooManyPeers"} =>
             \/ reason[e] = err
             \/ shutdown[Other(e)] /\ err \in {reason[Other(e)], "quitting"}

\* What TestPeerDisconnect and TestSessionDisconnect wait for: once the owner of one end
\* has called Disconnect, the other end closes its shutdownCh.
PeerDisconnects ==
  \A e \in Ends : pc[e]["user"] = "disc" ~> shutdownCh[Other(e)]

\* No goroutine outlives its session.
GoroutinesExit ==
  \A e \in Ends : shutdownCh[e] ~> (pc[e]["recv"] = "done" /\ pc[e]["keep"] = "done")

\* When an open session closes, an error reaches the stream, whoever closed it: a
\* reader of the stream is released.  (Not if the stream is opened after recvLoop ended.)
StreamTold ==
  \A e \in Ends :
    (/\ shutdownCh[e] /\ stream[e].open
     /\ pc[e]["recv"] \in {"home", "lockMsg", "writeMsg", "exit", "tell"})
      ~> stream[e].err # "none"

-----------------------------------------------------------------------------
(* What a comment and two tests say, and the code does not do.             *)

\* "Reset timeout": a message received in time postpones the pong timeout, so keepalive
\* does not time out while the timer is running.
TimeoutWasReset ==
  [][\A e \in Ends : timer[e].tick /\ ~timer[e].tick' => ~timer[e].armed]_vars

\* TestSessionDisconnect: when the other end's CloseChan is closed, its shutdownErr is
\* the reason given here (or its own pong timeout, which the test is too short for).
ReasonDelivered ==
  \A e \in Users :
    (/\ reason[e] # "none" /\ reason[Other(e)] = "none"
     /\ shutdown[e] /\ shutdownErr[e] = reason[e] /\ shutdownCh[Other(e)])
      => shutdownErr[Other(e)] \in {reason[e], "protocolError"}
=============================================================================
