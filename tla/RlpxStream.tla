----------------------------- MODULE RlpxStream -----------------------------
(***************************************************************************)
(* The streams of an RLPx session in one direction: the writers of the     *)
(* protocols (rlpx/stream.go), the frames on the connection, the goroutine *)
(* recv that puts every message in the buffer of its stream, and one       *)
(* reader per stream.  Both ends have the same streams in the same order   *)
(* (Connect has what happens otherwise).                                   *)
(***************************************************************************)
EXTENDS Integers, Sequences, FiniteSets, Frames, Subsequences

CONSTANTS Order,     \* the streams, in the order of their offsets
          Length,    \* for each stream, the number of its codes
          MsgCodes,  \* for each stream, the codes that are sent
          Bodies,    \* the payloads, sequences of bytes
          WireCap,   \* frames that the connection takes before a writer waits
          MaxSent,   \* bound on the messages sent
          None

Streams == {Order[i] : i \in 1..Len(Order)}

ASSUME OrderAssumption == Order \in Seq(Streams) /\ Length \in [Streams -> Nat \ {0}]
ASSUME CodesAssumption ==
  \A s \in Streams : MsgCodes[s] \subseteq 0..Length[s] - 1
ASSUME BodiesAssumption == Bodies \subseteq Seq(0..255)
ASSUME NoneAssumption == None \notin [code : Nat, size : Nat]

VARIABLES
  header,    \* s.header: the header of a Write whose body is to follow, or None
  wire,      \* frames on the connection; msg is what was written and on which stream
  nsent,
  rpc, rmsg, \* recv: where it is, the message in its hand
  buf,       \* recvBuf: headers and bytes
  notify,    \* recvNotifyCh
  err,       \* errorCh
  pc, hdr,   \* each reader: where it is, the header it has read, or None
  last,      \* the message its last ReadMsg returned
  open       \* the session is not closed

writers == <<header, wire, nsent>>
readers == <<pc, hdr, last>>
vars == <<writers, rpc, rmsg, buf, notify, err, readers, open>>

Init ==
  /\ header = [s \in Streams |-> None] /\ wire = <<>> /\ nsent = 0
  /\ rpc = "read" /\ rmsg = None
  /\ buf = [s \in Streams |-> <<>>]
  /\ notify = [s \in Streams |-> FALSE] /\ err = [s \in Streams |-> FALSE]
  /\ pc = [s \in Streams |-> "idle"] /\ hdr = [s \in Streams |-> None]
  /\ last = [s \in Streams |-> None] /\ open = TRUE

-----------------------------------------------------------------------------
(* Writers.                                                                *)

\* Offsets start after the 16 codes of the base protocol.
offset[i \in 1..Len(Order)] == IF i = 1 THEN 16 ELSE offset[i - 1] + Length[Order[i - 1]]

offsetOf(s) == offset[CHOOSE i \in 1..Len(Order) : Order[i] = s]

\* WriteRawMsg: a message that is too large is an error, else its frame is written; the
\* frame keeps what it stands for.
Send(s, code, body) ==
  LET f == frame(code + offsetOf(s), body)
  IN  /\ open /\ Len(wire) < WireCap
      /\ wire' = IF f.ok
                   THEN Append(wire, [frame |-> f, msg |-> [stream |-> s, code |-> code,
                                                             body |-> body]])
                   ELSE wire

WriteMsg(s, code, body) ==
  /\ nsent < MaxSent /\ nsent' = nsent + 1
  /\ Send(s, code, body)
  /\ UNCHANGED <<header, rpc, rmsg, buf, notify, err, readers, open>>

\* Write of a header: kept until the body comes, unless there is none.
WriteHeader(s, code, size) ==
  /\ nsent < MaxSent /\ nsent' = nsent + 1
  /\ header[s] = None
  /\ IF size = 0
       THEN Send(s, code, <<>>) /\ UNCHANGED header
       ELSE header' = [header EXCEPT ![s] = [code |-> code, size |-> size]] /\ UNCHANGED wire
  /\ UNCHANGED <<rpc, rmsg, buf, notify, err, readers, open>>

\* Write of a body: a length that is not the header's is an error.
WriteBody(s, body) ==
  /\ header[s] # None
  /\ header' = [header EXCEPT ![s] = None]
  /\ IF Len(body) = header[s].size
       THEN Send(s, header[s].code, body)
       ELSE UNCHANGED wire
  /\ UNCHANGED <<nsent, rpc, rmsg, buf, notify, err, readers, open>>

-----------------------------------------------------------------------------
(* recv.                                                                   *)

getStream(code) ==
  {Order[i] : i \in {j \in 1..Len(Order) : offset[j] <= code
                                           /\ code < offset[j] + Length[Order[j]]}}

\* recvLoop reads a frame; one that cannot be read ends the session.  A code without a stream
\* would end the program (handleStreamMessage dereferences nil; RlpxSession and Connect have
\* that crash): no step follows it here, and CodesAssumption leaves it out.
RecvFrame ==
  /\ rpc = "read" /\ wire # <<>>
  /\ LET m == read(Head(wire).frame)
     IN  IF m.ok
           THEN /\ rpc' = "store" /\ wire' = Tail(wire)
                /\ \E s \in getStream(m.code) :
                     rmsg' = [stream |-> s, code |-> m.code - offsetOf(s), body |-> m.payload]
           ELSE rpc' = "exit" /\ UNCHANGED <<wire, rmsg>>
  /\ UNCHANGED <<header, nsent, buf, notify, err, readers, open>>

\* What a message is in a buffer, and what is read of a body.
HeaderOf(m) == [code |-> m.code, size |-> Len(m.body)]
Bytes(body) == [i \in 1..Len(body) |-> [byte |-> body[i]]]
Body(cells, from, size) == [i \in 1..size |-> cells[from + i].byte]

\* Mutant: a message without a body is not announced.
StoreSilent ==
  /\ rpc = "store"
  /\ rpc' = IF rmsg.body = <<>> THEN "read" ELSE "notify"
  /\ buf' = [buf EXCEPT ![rmsg.stream] = @ \o <<HeaderOf(rmsg)>> \o Bytes(rmsg.body)]
  /\ UNCHANGED <<writers, rmsg, notify, err, readers, open>>

\* readData, under recvLock.
Store ==
  /\ rpc = "store"
  /\ rpc' = "notify"
  /\ buf' = [buf EXCEPT ![rmsg.stream] = @ \o <<HeaderOf(rmsg)>> \o Bytes(rmsg.body)]
  /\ UNCHANGED <<writers, rmsg, notify, err, readers, open>>

\* asyncNotify.
Notify ==
  /\ rpc = "notify"
  /\ rpc' = "read" /\ rmsg' = None
  /\ notify' = [notify EXCEPT ![rmsg.stream] = TRUE]
  /\ UNCHANGED <<writers, buf, err, readers, open>>

\* The session ends, here or at the other end; exitErr tells the streams.
Exit ==
  /\ rpc \in {"read", "exit"}
  /\ rpc' = "done" /\ open' = FALSE
  /\ wire' = <<>>
  /\ err' = [s \in Streams |-> TRUE]
  /\ UNCHANGED <<header, nsent, rmsg, buf, notify, readers>>

-----------------------------------------------------------------------------
(* Readers.                                                                *)

ReadMsg(s) ==
  /\ pc[s] = "idle"
  /\ pc' = [pc EXCEPT ![s] = "read"]
  /\ UNCHANGED <<writers, rpc, rmsg, buf, notify, err, hdr, last, open>>

Block(s) ==
  /\ pc[s] = "read" /\ buf[s] = <<>>
  /\ pc' = [pc EXCEPT ![s] = "wait"]
  /\ UNCHANGED <<writers, rpc, rmsg, buf, notify, err, hdr, last, open>>

Return(s, m) ==
  /\ last' = [last EXCEPT ![s] = m]
  /\ pc' = [pc EXCEPT ![s] = "idle"]
  /\ hdr' = [hdr EXCEPT ![s] = None]

\* read of the header; a message without a body is complete.  Every read that took
\* something notifies.
ReadHeader(s) ==
  /\ pc[s] = "read" /\ hdr[s] = None /\ buf[s] # <<>>
  /\ buf' = [buf EXCEPT ![s] = Tail(@)]
  /\ notify' = [notify EXCEPT ![s] = TRUE]
  /\ IF Head(buf[s]).size = 0
       THEN Return(s, [code |-> Head(buf[s]).code, body |-> <<>>])
       ELSE hdr' = [hdr EXCEPT ![s] = Head(buf[s])] /\ UNCHANGED <<pc, last>>
  /\ UNCHANGED <<writers, rpc, rmsg, err, open>>

\* read of the body.
ReadBody(s) ==
  /\ pc[s] = "read" /\ hdr[s] # None /\ buf[s] # <<>>
  /\ buf' = [buf EXCEPT ![s] = SubSeq(@, hdr[s].size + 1, Len(@))]
  /\ notify' = [notify EXCEPT ![s] = TRUE]
  /\ Return(s, [code |-> hdr[s].code, body |-> Body(buf[s], 0, hdr[s].size)])
  /\ UNCHANGED <<writers, rpc, rmsg, err, open>>

Woken(s) ==
  /\ pc[s] = "wait" /\ notify[s]
  /\ notify' = [notify EXCEPT ![s] = FALSE]
  /\ pc' = [pc EXCEPT ![s] = "read"]
  /\ UNCHANGED <<writers, rpc, rmsg, buf, err, hdr, last, open>>

\* The error may be taken although there is a notification, and data.
Failed(s) ==
  /\ pc[s] = "wait" /\ err[s]
  /\ err' = [err EXCEPT ![s] = FALSE]
  /\ notify' = [notify EXCEPT ![s] = TRUE]
  /\ pc' = [pc EXCEPT ![s] = "gone"]
  /\ UNCHANGED <<writers, rpc, rmsg, buf, hdr, last, open>>

-----------------------------------------------------------------------------
Read(s) == ReadMsg(s) \/ Block(s) \/ ReadHeader(s) \/ ReadBody(s) \/ Woken(s) \/ Failed(s)

Next ==
  \/ \E s \in Streams, body \in Bodies :
       \/ WriteBody(s, body)
       \/ \E code \in MsgCodes[s] : \/ WriteMsg(s, code, body)
                                    \/ WriteHeader(s, code, Len(body))
  \/ RecvFrame \/ Store \/ Notify \/ Exit
  \/ \E s \in Streams : Read(s)

Spec == Init /\ [][Next]_vars

-----------------------------------------------------------------------------
(* Properties.                                                             *)

\* No wake-up is lost: a reader that waits while its buffer has data will be told, by a
\* notification that is there or by readData, which is about to make one.
NoLostWakeup ==
  \A s \in Streams :
    pc[s] = "wait" /\ buf[s] # <<>> => notify[s] \/ (rpc = "notify" /\ rmsg.stream = s)

\* The messages in a buffer: the rest of the one whose header was read comes first.
Headers(b) == {i \in DOMAIN b : "size" \in DOMAIN b[i]}

Whole(b) ==
  LET at == InOrder(Headers(b))
  IN  [k \in 1..Cardinality(Headers(b)) |->
         [code |-> b[at[k]].code, body |-> Body(b, at[k], b[at[k]].size)]]

Buffered(s) ==
  IF hdr[s] = None THEN Whole(buf[s])
  ELSE <<[code |-> hdr[s].code, body |-> Body(buf[s], 0, hdr[s].size)]>> \o Whole(buf[s])

OnWire(s) ==
  LET frames == ElementsAt(wire, {i \in DOMAIN wire : wire[i].msg.stream = s})
  IN  [k \in DOMAIN frames |-> [code |-> frames[k].msg.code, body |-> frames[k].msg.body]]

InHand(s) == IF rpc = "store" /\ rmsg.stream = s
               THEN <<[code |-> rmsg.code, body |-> rmsg.body]>> ELSE <<>>

Messages == [code : UNION {MsgCodes[s] : s \in Streams}, body : Bodies]

Channel == INSTANCE MessageChannel
             WITH queue <- [s \in Streams |-> Buffered(s) \o InHand(s) \o OnWire(s)]

\* The streams of a session are channels: a protocol receives the messages the other end
\* sent on it, in order, once each and unchanged, until the session ends.
IsChannel == Channel!Spec
=============================================================================
