------------------------------ MODULE Connect ------------------------------
(***************************************************************************)
(* One connection of the RLPx transport, from the dial to the first        *)
(* messages of the protocols: the encryption handshake (handshake.go,      *)
(* p2pHandshake), the protocol handshake with its two goroutines, the      *)
(* negotiation of the streams and the queue of accepted sessions           *)
(* (rlpx.go).                                                              *)
(*                                                                         *)
(* Keys are the names of the ends.  A packet sealed for a key is read with *)
(* that key only.  The MAC of a direction is what it was seeded with.      *)
(* Lengths of messages and the content of Info other than the identity and *)
(* the capabilities are left out.  Both ends run this code.                *)
(***************************************************************************)
EXTENDS Integers, Sequences, SequencesExt, FiniteSets, Subsequences

CONSTANTS Protocols,   \* names of protocols (with their versions)
          SessionCap   \* capacity of sessionCh (10)

ASSUME ProtocolsAssumption == IsFiniteSet(Protocols)
ASSUME SessionCapAssumption == SessionCap \in Nat

Ends == {"client", "server"}
Other(e) == IF e = "client" THEN "server" ELSE "client"

VARIABLES
  dialled,     \* the key in the enode that is dialled
  infoID,      \* the ID in the Info of each end
  caps,        \* the capabilities of each end, in the order of its Info
  pc,          \* where Handshake, connect or accept of each end is
  writer, reader,  \* the goroutines of doProtocolHandshake
  ch,          \* what is on its way to each end
  closed,      \* ends that have closed the connection
  secrets,     \* RemoteID and the two MACs, once p2pHandshake has them
  snappy,      \* whether in and out of each end compress
  streams,     \* the protocols of the streams, in the order of their offsets
  sent,        \* ends that have sent a message on a stream
  got,         \* history: <<protocol sent on, protocol received on>> at each end
  queued,      \* sessions in sessionCh
  fault        \* history: a timeout, a short read, a lost write, a Close, a hung end

end  == <<pc, writer, reader, secrets, snappy, streams>>
wire == <<ch, closed>>
conf == <<dialled, infoID, caps>>
vars == <<conf, end, wire, sent, got, queued, fault>>

NoSecrets == [remote |-> "", egress |-> "", ingress |-> ""]

\* Lists of protocols without repetition, one at least.
CapLists == UNION {SetToSeqs(s) : s \in SUBSET Protocols \ {{}}}

Init ==
  /\ dialled \in {"server", "other"}
  /\ infoID \in {i \in [Ends -> {"client", "server", "other"}] :
                   \A e \in Ends : i[e] \in {e, "other"}}
  /\ caps \in [Ends -> CapLists]
  /\ pc = [e \in Ends |-> IF e = "client" THEN "makeAuth" ELSE "readAuth"]
  /\ writer = [e \in Ends |-> "none"] /\ reader = [e \in Ends |-> "none"]
  /\ ch = [e \in Ends |-> <<>>] /\ closed = {}
  /\ secrets = [e \in Ends |-> NoSecrets] /\ snappy = [e \in Ends |-> FALSE]
  /\ streams = [e \in Ends |-> <<>>] /\ got = [e \in Ends |-> {}]
  /\ sent = {}
  /\ queued \in 0..SessionCap /\ fault = FALSE

Goto(e, label) == pc' = [pc EXCEPT ![e] = label]

\* rawConn.Close after a failed Handshake.
Fail(e) == Goto(e, "failed") /\ closed' = closed \cup {e}

\* A write is on its way, or lost or refused when the other end has closed.
Arrives(e, m) ==
  /\ ch' = IF Other(e) \in closed THEN ch ELSE [ch EXCEPT ![Other(e)] = Append(@, m)]
  /\ fault' = (fault \/ Other(e) \in closed)

-----------------------------------------------------------------------------
(* The encryption handshake.                                               *)

\* Secrets: mac1 is seeded with the auth packet, mac2 with the response.
Secrets(e, remote) ==
  IF e = "client" THEN [remote |-> remote, egress |-> "auth", ingress |-> "resp"]
  ELSE [remote |-> remote, egress |-> "resp", ingress |-> "auth"]

\* p2pHandshake has its secrets; doProtocolHandshake starts its goroutines.
Established(e, remote) ==
  /\ secrets' = [secrets EXCEPT ![e] = Secrets(e, remote)]
  /\ writer' = [writer EXCEPT ![e] = "run"]
  /\ reader' = [reader EXCEPT ![e] = "run"]
  /\ Goto(e, "proto")

\* handshakeClient: makeAuthMsg and writeMessage.
MakeAuth ==
  /\ pc["client"] = "makeAuth"
  /\ \/ /\ Arrives("client", [type |-> "auth", to |-> dialled])
        /\ Goto("client", "readResp")
        /\ UNCHANGED closed
     \/ /\ "server" \in closed
        /\ Fail("client") /\ fault' = TRUE
        /\ UNCHANGED ch
  /\ UNCHANGED <<conf, writer, reader, secrets, snappy, streams, sent, got, queued>>

\* readMessage: conn.Read may return less than the packet (which then cannot be read), and
\* a packet sealed for another key cannot be read.
ReadAuth ==
  /\ pc["server"] = "readAuth"
  /\ ch["server"] # <<>>
  /\ ch' = [ch EXCEPT !["server"] = Tail(@)]
  /\ \/ /\ Head(ch["server"]).to = "server"
        /\ Goto("server", "makeResp")
        /\ UNCHANGED <<closed, fault>>
     \/ /\ Head(ch["server"]).to # "server"
        /\ Fail("server")
        /\ UNCHANGED fault
     \/ Fail("server") /\ fault' = TRUE
  /\ UNCHANGED <<conf, writer, reader, secrets, snappy, streams, sent, got, queued>>

\* makeAuthResp and writeMessage.  handshakeServer returns no error when the write fails:
\* p2pHandshake goes on with empty Secrets, and PubkeyToEnode(nil) panics.
MakeResp ==
  /\ pc["server"] = "makeResp"
  /\ \/ /\ Arrives("server", [type |-> "resp", to |-> "client"])
        /\ Established("server", "client")
     \/ /\ "client" \in closed
        /\ Goto("server", "crashed") /\ fault' = TRUE
        /\ UNCHANGED <<ch, writer, reader, secrets>>
  /\ UNCHANGED <<conf, closed, snappy, streams, sent, got, queued>>

ReadResp ==
  /\ pc["client"] = "readResp"
  /\ ch["client"] # <<>>
  /\ ch' = [ch EXCEPT !["client"] = Tail(@)]
  /\ \/ /\ Established("client", dialled)
        /\ UNCHANGED <<closed, fault>>
     \/ /\ Fail("client") /\ fault' = TRUE
        /\ UNCHANGED <<writer, reader, secrets>>
  /\ UNCHANGED <<conf, snappy, streams, sent, got, queued>>

\* Mutant: no read deadline.
ReadFailsWhenGone(e) ==
  /\ pc[e] \in {"readAuth", "readResp"}
  /\ ch[e] = <<>> /\ Other(e) \in closed
  /\ Fail(e)
  /\ UNCHANGED <<conf, ch, writer, reader, secrets, snappy, streams, sent, got, queued, fault>>

\* The other end is gone, or handshakeReadTimeout is over.
ReadFails(e) ==
  /\ pc[e] \in {"readAuth", "readResp"}
  /\ ch[e] = <<>>
  /\ Fail(e)
  /\ fault' = (fault \/ Other(e) \notin closed)
  /\ UNCHANGED <<conf, ch, writer, reader, secrets, snappy, streams, sent, got, queued>>

-----------------------------------------------------------------------------
(* doProtocolHandshake.                                                    *)

\* A frame of WriteRawMsg.
Frame(e, type, body) ==
  [type |-> type, mac |-> secrets[e].egress, snappy |-> snappy[e], body |-> body]

\* What halfConn.read can make sense of.
Readable(e, m) ==
  m.type \in {"info", "msg"} /\ m.mac = secrets[e].ingress /\ m.snappy = snappy[e]

\* The first goroutine: the Info is written, or the write fails.
WriteInfo(e) ==
  /\ writer[e] = "run"
  /\ \/ /\ e \notin closed
        /\ Arrives(e, Frame(e, "info", [id |-> infoID[e], caps |-> caps[e]]))
        /\ writer' = [writer EXCEPT ![e] = "ok"]
     \/ /\ closed # {}
        /\ writer' = [writer EXCEPT ![e] = "err"]
        /\ fault' = TRUE
        /\ UNCHANGED ch
  /\ UNCHANGED <<conf, pc, reader, closed, secrets, snappy, streams, sent, got, queued>>

\* Mutant: the ID in the Info is not compared with the key.
ReadInfoAnyID(e) ==
  /\ reader[e] = "run" /\ e \notin closed
  /\ ch[e] # <<>>
  /\ LET m == Head(ch[e])
     IN  reader' = [reader EXCEPT ![e] = IF Readable(e, m) /\ m.type = "info" THEN "ok"
                                         ELSE "err"]
  /\ ch' = [ch EXCEPT ![e] = Tail(@)]
  /\ UNCHANGED <<conf, pc, writer, closed, secrets, snappy, streams, sent, got, queued, fault>>

\* The second: readProtocolHandshake.
ReadInfo(e) ==
  /\ reader[e] = "run" /\ e \notin closed
  /\ ch[e] # <<>>
  /\ LET m == Head(ch[e])
         good == /\ Readable(e, m)
                 /\ m.type = "info"
                 /\ m.body.id = secrets[e].remote
     IN  reader' = [reader EXCEPT ![e] = IF good THEN "ok" ELSE "err"]
  /\ ch' = [ch EXCEPT ![e] = Tail(@)]
  /\ UNCHANGED <<conf, pc, writer, closed, secrets, snappy, streams, sent, got, queued, fault>>

\* The connection is closed, or the deadline over.
ReadInfoFails(e) ==
  /\ reader[e] = "run"
  /\ e \in closed \/ ch[e] = <<>>
  /\ reader' = [reader EXCEPT ![e] = "err"]
  /\ fault' = (fault \/ closed = {})
  /\ UNCHANGED <<conf, pc, writer, wire, secrets, snappy, streams, sent, got, queued>>

\* Mutant: compression is on as soon as the Info of the other end has been read.
ProtocolHandshakeEager(e) ==
  /\ pc[e] = "proto"
  /\ reader[e] = "ok"
  /\ \/ /\ ~snappy[e] /\ snappy' = [snappy EXCEPT ![e] = TRUE] /\ UNCHANGED pc
     \/ writer[e] = "ok" /\ snappy[e] /\ Goto(e, "negotiate") /\ UNCHANGED snappy
  /\ UNCHANGED <<conf, writer, reader, wire, secrets, streams, sent, got, queued, fault>>

\* Both are done: compression is on, the deadline off; keepalive and recv are started.
ProtocolHandshake(e) ==
  /\ pc[e] = "proto"
  /\ writer[e] = "ok" /\ reader[e] = "ok"
  /\ snappy' = [snappy EXCEPT ![e] = TRUE]
  /\ Goto(e, "negotiate")
  /\ UNCHANGED <<conf, writer, reader, wire, secrets, streams, sent, got, queued, fault>>

\* One of them failed, or neither was done within 5 s.
ProtocolHandshakeFails(e) ==
  /\ pc[e] = "proto"
  /\ \/ "err" \in {writer[e], reader[e]} /\ UNCHANGED fault
     \/ "run" \in {writer[e], reader[e]} /\ fault' = TRUE
  /\ Fail(e)
  /\ UNCHANGED <<conf, writer, reader, ch, secrets, snappy, streams, sent, got, queued>>

-----------------------------------------------------------------------------
(* negotiateProtocols, the listener and the first messages.                *)

\* The capabilities of the other end that are protocols of this one, in its order.
Common(e) ==
  LET offered == caps[Other(e)]
  IN  ElementsAt(offered, {i \in DOMAIN offered : offered[i] \in ToSet(caps[e])})

\* One round of the loop: OpenStream at the next offset.
OpenStream(e) ==
  /\ pc[e] = "negotiate"
  /\ Len(streams[e]) < Len(Common(e))
  /\ streams' = [streams EXCEPT ![e] = Append(@, Common(e)[Len(@) + 1])]
  /\ UNCHANGED <<conf, pc, writer, reader, wire, secrets, snappy, sent, got, queued, fault>>

\* Without a common protocol the caller gets an error, and the session is left as it is.
Negotiated(e) ==
  /\ pc[e] = "negotiate"
  /\ Len(streams[e]) = Len(Common(e))
  /\ Goto(e, IF streams[e] = <<>> THEN "unmatched"
             ELSE IF e = "client" THEN "open" ELSE "offer")
  /\ UNCHANGED <<conf, writer, reader, wire, secrets, snappy, streams, sent, got, queued, fault>>

\* The accepted session goes to sessionCh; when that is full it is dropped, still running.
Offer ==
  /\ pc["server"] = "offer"
  /\ IF queued < SessionCap
       THEN Goto("server", "open") /\ queued' = queued + 1
       ELSE Goto("server", "dropped") /\ UNCHANGED queued
  /\ UNCHANGED <<conf, writer, reader, wire, secrets, snappy, streams, sent, got, fault>>

Accept ==
  /\ queued > 0
  /\ queued' = queued - 1
  /\ UNCHANGED <<conf, end, wire, sent, got, fault>>

\* Stream.WriteMsg: the code is an offset in the writer's order of streams.
WriteMsg(e, i) ==
  /\ pc[e] = "open" /\ e \notin sent
  /\ i \in 1..Len(streams[e])
  /\ Arrives(e, Frame(e, "msg", [code |-> i, proto |-> streams[e][i]]))
  /\ sent' = sent \cup {e}
  /\ UNCHANGED <<conf, end, closed, got, queued>>

HasRecv(e) == pc[e] \in {"negotiate", "offer", "open", "unmatched", "dropped"}

\* recvLoop: a code that no stream has (yet) is a nil stream, and readData panics.
Recv(e) ==
  /\ HasRecv(e) /\ ch[e] # <<>>
  /\ LET m == Head(ch[e])
     IN  \/ /\ Readable(e, m) /\ m.body.code <= Len(streams[e])
            /\ got' = [got EXCEPT ![e] = @ \cup {<<m.body.proto, streams[e][m.body.code]>>}]
            /\ UNCHANGED <<pc, closed>>
         \/ /\ Readable(e, m) /\ m.body.code > Len(streams[e])
            /\ Goto(e, "crashed") /\ closed' = closed \cup {e}
            /\ UNCHANGED got
         \/ /\ ~Readable(e, m)
            /\ Goto(e, "ended") /\ closed' = closed \cup {e}
            /\ UNCHANGED got
  /\ ch' = [ch EXCEPT ![e] = Tail(@)]
  /\ UNCHANGED <<conf, writer, reader, secrets, snappy, streams, sent, queued, fault>>

\* The other end is gone, or this one is closed: RlpxSession has the details.
End(e) ==
  /\ HasRecv(e)
  /\ \/ ch[e] = <<>> /\ Other(e) \in closed /\ UNCHANGED fault
     \/ pc[e] = "open" /\ fault' = TRUE
  /\ Goto(e, "ended") /\ closed' = closed \cup {e}
  /\ UNCHANGED <<conf, ch, writer, reader, secrets, snappy, streams, sent, got, queued>>

\* An end stops without closing: its process hangs or the network is cut.
Hang(e) ==
  /\ pc[e] \in {"makeAuth", "readAuth", "makeResp", "readResp", "proto"}
  /\ Goto(e, "hung") /\ fault' = TRUE
  /\ writer' = [writer EXCEPT ![e] = "none"]
  /\ reader' = [reader EXCEPT ![e] = "none"]
  /\ UNCHANGED <<conf, wire, secrets, snappy, streams, sent, got, queued>>

-----------------------------------------------------------------------------
Step(e) ==
  \/ ReadFails(e) \/ WriteInfo(e) \/ ReadInfo(e) \/ ReadInfoFails(e)
  \/ ProtocolHandshake(e) \/ ProtocolHandshakeFails(e)
  \/ OpenStream(e) \/ Negotiated(e) \/ Recv(e)

ClientStep == MakeAuth \/ ReadResp \/ Step("client")
ServerStep == ReadAuth \/ MakeResp \/ Offer \/ Step("server")

Next ==
  \/ ClientStep \/ ServerStep \/ Accept
  \/ \E e \in Ends : Hang(e) \/ End(e) \/ \E i \in 1..Cardinality(Protocols) : WriteMsg(e, i)

Spec == Init /\ [][Next]_vars

\* Goroutines go on and deadlines pass: a read that could wait for ever is ended by
\* ReadFails, ReadInfoFails or ProtocolHandshakeFails.
FairSpec == Spec /\ WF_vars(ClientStep) /\ WF_vars(ServerStep)

-----------------------------------------------------------------------------
(* Properties.                                                             *)

SameOrder == Common("client") = Common("server")

\* A handshake fails, and a session ends, for a reason: a fault of the network, a Close, or
\* a wrong identity.  The two ends agree on the secrets, on what is compressed and on
\* whether they have a protocol in common, whatever order their steps come in.  A crash
\* has one of two causes: the client was gone when the response was written, or a message
\* came before its stream was open.
FailsForAReason ==
  \A e \in Ends :
    /\ pc[e] \in {"failed", "ended"} =>
         \/ fault \/ dialled # "server" \/ \E d \in Ends : infoID[d] # d
         \/ pc[Other(e)] = "crashed"
    /\ pc[e] = "crashed" => fault \/ Len(streams[e]) < Len(Common(e))
    /\ pc[e] = "unmatched" => ToSet(caps["client"]) \cap ToSet(caps["server"]) = {}

\* An end whose handshake has succeeded talks to whom it takes the other end for, and about
\* the same things: the key that was dialled is the server's, the ID in the Info it got is
\* the key of the end that sent it, the streams are the common protocols, and a message
\* comes out on the protocol it was written on if both ends list their protocols in the
\* same order (the code never sorts them: with different orders it does not).
OpenMeansAgreed ==
  /\ \A e \in Ends : pc[e] \in {"open", "offer", "dropped"} =>
       /\ secrets[e].remote = Other(e) /\ dialled = "server"
       /\ infoID[Other(e)] = Other(e)
       /\ ToSet(streams[e]) = ToSet(caps["client"]) \cap ToSet(caps["server"])
  /\ SameOrder => \A e \in Ends : \A g \in got[e] : g[1] = g[2]

\* Every handshake ends, one way or the other, and so do its goroutines.
HandshakeEnds ==
  \A e \in Ends :
    /\ <>(pc[e] \in {"open", "dropped", "unmatched", "failed", "ended", "crashed",
                   "hung"})
    /\ reader[e] = "run" ~> reader[e] # "run"
    /\ writer[e] = "run" ~> writer[e] # "run"
=============================================================================
