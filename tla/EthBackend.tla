----------------------------- MODULE EthBackend -----------------------------
(***************************************************************************)
(* The eth protocol handler of wire/eth/backend.go: one handler goroutine  *)
(* per peer that exchanges the status and then reads messages for ever,    *)
(* and the goroutines of callers that make requests through Peer.  They    *)
(* meet in the inflight map and in one unbuffered channel per request.     *)
(*                                                                         *)
(* The peer answers a request any number of times and whenever it likes,   *)
(* and may send anything else; the session may close at any time.  Bodies  *)
(* are abstracted to whether they decode.  Request IDs are random 64-bit   *)
(* numbers, taken to be distinct: a request is its own ID.                 *)
(***************************************************************************)
EXTENDS Integers, Sequences, FiniteSets

CONSTANTS Reqs,        \* the requests local callers make
          MaxSent      \* bound on the messages the peer sends after its status

ASSUME SentAssumption == MaxSent \in Nat

NoRequest == "none"
ASSUME ReqsAssumption == IsFiniteSet(Reqs) /\ NoRequest \notin Reqs

VARIABLES
  inbox,     \* messages the stream holds for the handler
  closed,    \* the session is closed
  told,      \* an error is in the stream's errorCh ("never": the stream was opened too late)
  eager,     \* the peer sends its status without waiting for ours
  peerStatus, ownStatus,   \* has it been sent ("pending": by the goroutine of handshake)
  hpc, hreq, hok,  \* the handler; the request it is delivering to, and whether it decoded
  notified,  \* NotifyPeer has handed out the Peer
  inflight,  \* the requests in the map
  ch,        \* the channel of each request
  rpc,       \* the caller of each request
  result,    \* what its request returned
  asked,     \* requests the peer has received
  answers,   \* answers it has sent to each
  sent,      \* messages it has sent after its status
  replies,   \* requests of the peer that were answered
  closeCh,   \* Peer.closeCh is closed
  panicked,  \* why the program is gone
  early,     \* an answer to this request came before the caller waited for it
  late       \* dst of this request was written after the request returned

link    == <<closed, told>>
peer    == <<eager, peerStatus, asked, answers, sent>>
served  == <<notified, ownStatus, replies, closeCh>>
handler == <<hpc, hreq, hok, served>>
callers == <<inflight, ch, rpc, result>>
history == <<early, late>>
ethVars == <<inbox, link, peer, handler, callers, panicked, history>>

\* The session runs before its streams are opened: it may have closed, and exitErr may have
\* gone through s.streams, before this one was there; then no error ever reaches it.
EthInit ==
  /\ inbox = <<>>
  /\ closed \in BOOLEAN
  /\ told \in IF closed THEN {"no", "never"} ELSE {"no"}
  /\ eager \in BOOLEAN
  /\ peerStatus = FALSE /\ ownStatus = "no"
  /\ hpc = "status" /\ hreq = NoRequest /\ hok = FALSE /\ notified = FALSE
  /\ inflight = {}
  /\ ch = [r \in Reqs |-> "none"]
  /\ rpc = [r \in Reqs |-> "idle"]
  /\ result = [r \in Reqs |-> "none"]
  /\ asked = {} /\ answers = [r \in Reqs |-> 0] /\ sent = 0 /\ replies = 0
  /\ closeCh = FALSE /\ panicked = "no"
  /\ early = {} /\ late = {}

Returned(r) == rpc[r] \in {"close", "delete", "done"}

-----------------------------------------------------------------------------
(* The peer and the session.                                               *)

\* The status of the peer: ours, another chain's, or one that does not decode.
PeerStatus(kind) ==
  /\ ~closed /\ ~peerStatus
  /\ eager \/ ownStatus = "sent"
  /\ peerStatus' = TRUE
  /\ inbox' = Append(inbox, [kind |-> kind, req |-> NoRequest])
  /\ UNCHANGED <<link, eager, asked, answers, sent, handler, callers, panicked, history>>

PeerAnswers(r) ==
  /\ ~closed
  /\ r \in asked
  /\ sent < MaxSent
  /\ sent' = sent + 1
  /\ answers' = [answers EXCEPT ![r] = @ + 1]
  /\ inbox' = Append(inbox, [kind |-> "response", req |-> r])
  /\ UNCHANGED <<link, eager, peerStatus, asked, handler, callers, panicked, history>>

\* A notification (or anything that does not decode), a request for us, a message without
\* a case in handleMsg.
PeerSends(kind) ==
  /\ ~closed /\ peerStatus
  /\ sent < MaxSent
  /\ sent' = sent + 1
  /\ inbox' = Append(inbox, [kind |-> kind, req |-> NoRequest])
  /\ UNCHANGED <<link, eager, peerStatus, asked, answers, handler, callers, panicked,
                 history>>

SessionCloses ==
  /\ ~closed
  /\ closed' = TRUE
  /\ UNCHANGED <<inbox, told, peer, handler, callers, panicked, history>>

\* exitErr of a goroutine of the session, which closes it next or finds it closed.
TellStream ==
  /\ told = "no"
  /\ told' = "told"
  /\ UNCHANGED <<inbox, closed, peer, handler, callers, panicked, history>>

-----------------------------------------------------------------------------
(* run, handshake, handleMsg and deliverResponse.                          *)

Reading(kinds) ==
  /\ inbox # <<>>
  /\ Head(inbox).kind \in kinds
  /\ inbox' = Tail(inbox)

\* run returns; its deferred close releases whoever watches the peer.
RunReturns ==
  /\ hpc' = "done"
  /\ closeCh' = TRUE

\* Mutant: the handler goes on when the stream fails.
ReadFailsIgnored ==
  /\ hpc \in {"status", "serve"} /\ told = "told"
  /\ hpc' = "serve"
  /\ UNCHANGED <<inbox, link, peer, hreq, hok, served, callers, panicked, history>>

\* ReadMsg returns the error of errorCh, in the handshake or in the loop.  (It may overtake
\* messages that are still in the buffer: RlpxStream.)
ReadFails ==
  /\ hpc \in {"status", "serve"} /\ told = "told"
  /\ RunReturns
  /\ UNCHANGED <<inbox, link, peer, hreq, hok, notified, ownStatus, replies, callers,
                 panicked, history>>

\* handshake: the remote status is read first, then a goroutine sends ours.
ReadStatus ==
  /\ hpc = "status"
  /\ Reading({"status", "wrongStatus", "badStatus"})
  /\ ownStatus' = "pending"
  /\ notified' = (Head(inbox).kind = "status")
  /\ CASE Head(inbox).kind = "status" ->
            hpc' = "serve" /\ UNCHANGED <<closeCh, closed, panicked>>
       [] Head(inbox).kind = "wrongStatus" ->
            closed' = TRUE /\ RunReturns /\ UNCHANGED panicked
       [] Head(inbox).kind = "badStatus" ->
            panicked' = "badStatus" /\ UNCHANGED <<hpc, closeCh, closed>>
  /\ UNCHANGED <<told, peer, hreq, hok, replies, callers, history>>

WriteStatus ==
  /\ ownStatus = "pending"
  /\ ownStatus' = IF closed THEN "failed" ELSE "sent"
  /\ UNCHANGED <<inbox, link, peer, hpc, hreq, hok, notified, replies, closeCh, callers,
                 panicked, history>>

\* handleMsg for everything but responses.
HandleOther ==
  /\ hpc = "serve"
  /\ \/ Reading({"notify"}) /\ UNCHANGED <<replies, panicked>>
     \/ /\ Reading({"get"})
        /\ replies' = IF closed THEN replies ELSE replies + 1
        /\ UNCHANGED panicked
     \/ Reading({"unhandled"}) /\ panicked' = "unhandled" /\ UNCHANGED replies
  /\ UNCHANGED <<link, peer, hpc, hreq, hok, notified, ownStatus, closeCh, callers, history>>

\* deliverResponse, first part: the request is looked up.
LoadRequest ==
  /\ hpc = "serve"
  /\ Reading({"response"})
  /\ LET r == Head(inbox).req
     IN  IF r \in inflight
           THEN hpc' = "unmarshal" /\ hreq' = r /\ UNCHANGED early
           ELSE /\ early' = early \cup (IF Returned(r) THEN {} ELSE {r})
                /\ UNCHANGED <<hpc, hreq>>
  /\ UNCHANGED <<link, peer, hok, served, callers, panicked, late>>

\* Mutant: an answer that does not decode is dropped instead of reported.
UnmarshalOrDrop ==
  /\ hpc = "unmarshal"
  /\ hok' \in BOOLEAN
  /\ hpc' = IF hok' THEN "send" ELSE "serve"
  /\ late' = late \cup (IF Returned(hreq) THEN {hreq} ELSE {})
  /\ UNCHANGED <<inbox, link, peer, hreq, served, callers, panicked, early>>

\* Second part: the body is decoded into dst.
Unmarshal ==
  /\ hpc = "unmarshal"
  /\ hok' \in BOOLEAN
  /\ hpc' = "send"
  /\ late' = late \cup (IF Returned(hreq) THEN {hreq} ELSE {})
  /\ UNCHANGED <<inbox, link, peer, hreq, served, callers, panicked, early>>

\* The deferred send: it panics on a closed channel, reaches a caller that waits, and is
\* dropped otherwise.
SendResult ==
  /\ hpc = "send"
  /\ hpc' = "serve" /\ hreq' = NoRequest /\ hok' = FALSE
  /\ CASE ch[hreq] = "closed" ->
            panicked' = "closedChannel" /\ UNCHANGED <<rpc, result, early>>
       [] ch[hreq] = "open" /\ rpc[hreq] = "select" ->
            /\ rpc' = [rpc EXCEPT ![hreq] = "close"]
            /\ result' = [result EXCEPT ![hreq] = IF hok THEN "ok" ELSE "bad"]
            /\ UNCHANGED <<panicked, early>>
       [] ch[hreq] = "open" /\ rpc[hreq] # "select" ->
            /\ early' = early \cup (IF Returned(hreq) THEN {} ELSE {hreq})
            /\ UNCHANGED <<rpc, result, panicked>>
  /\ UNCHANGED <<inbox, link, peer, served, inflight, ch, late>>

-----------------------------------------------------------------------------
(* request and doRequest of the callers.                                   *)

\* A caller has the Peer from NotifyPeer, after the handshake.
Call(r) ==
  /\ rpc[r] = "idle"
  /\ notified
  /\ rpc' = [rpc EXCEPT ![r] = "write"]
  /\ UNCHANGED <<inbox, link, peer, handler, inflight, ch, result, panicked, history>>

WriteRequest(r) ==
  /\ rpc[r] = "write"
  /\ IF closed
       THEN /\ rpc' = [rpc EXCEPT ![r] = "done"]
            /\ result' = [result EXCEPT ![r] = "ioErr"]
            /\ UNCHANGED asked
       ELSE /\ rpc' = [rpc EXCEPT ![r] = "store"]
            /\ asked' = asked \cup {r}
            /\ UNCHANGED result
  /\ UNCHANGED <<inbox, link, eager, peerStatus, answers, sent, handler, inflight, ch,
                 panicked, history>>

Store(r) ==
  /\ rpc[r] = "store"
  /\ inflight' = inflight \cup {r}
  /\ ch' = [ch EXCEPT ![r] = "open"]
  /\ rpc' = [rpc EXCEPT ![r] = "stored"]
  /\ UNCHANGED <<inbox, link, peer, handler, result, panicked, history>>

Select(r) ==
  /\ rpc[r] = "stored"
  /\ rpc' = [rpc EXCEPT ![r] = "select"]
  /\ UNCHANGED <<inbox, link, peer, handler, inflight, ch, result, panicked, history>>


Timeout(r) ==
  /\ rpc[r] = "select"
  /\ rpc' = [rpc EXCEPT ![r] = "close"]
  /\ result' = [result EXCEPT ![r] = "timeout"]
  /\ UNCHANGED <<inbox, link, peer, handler, inflight, ch, panicked, history>>

\* Mutant: closing and deleting are not deferred to the return.
CloseChanAtOnce(r) ==
  /\ rpc[r] \in {"stored", "close"}
  /\ ch' = [ch EXCEPT ![r] = "closed"]
  /\ rpc' = [rpc EXCEPT ![r] = "delete"]
  /\ UNCHANGED <<inbox, link, peer, handler, inflight, result, panicked, history>>

\* The deferred function: close(ch), then Delete.
CloseChan(r) ==
  /\ rpc[r] = "close"
  /\ ch' = [ch EXCEPT ![r] = "closed"]
  /\ rpc' = [rpc EXCEPT ![r] = "delete"]
  /\ UNCHANGED <<inbox, link, peer, handler, inflight, result, panicked, history>>

Delete(r) ==
  /\ rpc[r] = "delete"
  /\ inflight' = inflight \ {r}
  /\ rpc' = [rpc EXCEPT ![r] = "done"]
  /\ UNCHANGED <<inbox, link, peer, handler, ch, result, panicked, history>>

-----------------------------------------------------------------------------
HandlerStep == ReadFails \/ ReadStatus \/ HandleOther \/ LoadRequest \/ Unmarshal \/ SendResult

CallerStep(r) == \/ WriteRequest(r) \/ Store(r) \/ Select(r) \/ Timeout(r)
                 \/ CloseChan(r) \/ Delete(r)

PeerStep == \/ \E k \in {"status", "wrongStatus", "badStatus"} : PeerStatus(k)
            \/ \E r \in Reqs : PeerAnswers(r)
            \/ \E k \in {"notify", "get", "unhandled"} : PeerSends(k)

EthNext ==
  /\ panicked = "no"
  /\ \/ HandlerStep \/ WriteStatus \/ PeerStep \/ SessionCloses \/ TellStream
     \/ \E r \in Reqs : Call(r) \/ CallerStep(r)

EthSpec == EthInit /\ [][EthNext]_ethVars

Alive(A) == panicked = "no" /\ A

\* Goroutines that can go on do, and the 6 s timer fires.  The error of a closed session
\* reaches a stream that was open in time (RlpxSession!StreamTold).  A peer that does not
\* wait for our status sends its own; nothing else is asked of the peer.
EthFairSpec ==
  /\ EthSpec
  /\ WF_ethVars(Alive(HandlerStep)) /\ WF_ethVars(Alive(WriteStatus))
  /\ WF_ethVars(Alive(closed /\ TellStream))
  /\ \A r \in Reqs : WF_ethVars(Alive(CallerStep(r)))
  /\ WF_ethVars(Alive(\E k \in {"status", "wrongStatus", "badStatus"} : PeerStatus(k)))

-----------------------------------------------------------------------------
(* Properties.                                                             *)

\* A request is over when it has returned, as long as the peer answers once and in time:
\* dst is written behind the caller's back, and the send on the closed channel that ends
\* the program happens, only after a timeout or with a second answer.  Until then it has
\* its channel, and exactly the requests under way are in the map.
OverWhenReturned ==
  /\ \A r \in late : result[r] = "timeout" \/ answers[r] > 1
  /\ panicked = "closedChannel" =>
       \E r \in Reqs : ch[r] = "closed" /\ (result[r] = "timeout" \/ answers[r] > 1)
  /\ inflight = {r \in Reqs : rpc[r] \in {"stored", "select", "close", "delete"}}
  /\ \A r \in Reqs : rpc[r] \in {"stored", "select", "close"} => ch[r] = "open"

AnswerPending(r) ==
  \/ \E i \in DOMAIN inbox : inbox[i].req = r
  \/ hpc \in {"unmarshal", "send"} /\ hreq = r

\* No answer is lost on a caller that waits for it: if it still waits when the handler has
\* dealt with all the answers, one came before it was waiting (it is written before it is
\* registered, and registered before it waits).
NoAnswerLostWhileWaiting ==
  \A r \in Reqs : rpc[r] = "select" /\ answers[r] > 0 /\ ~AnswerPending(r) => r \in early


\* The session has closed or is closing, and the stream was opened in time to be told.
Ending == told = "told" \/ (told = "no" /\ closed)

\* The handler leaves the handshake if the peer speaks first or the session ends (both ends
\* read before they write, so two of these handlers wait for each other), and when the
\* session ends it returns and closeCh is closed: unless its stream was opened after the
\* session had told all of them.
HandlerProgress ==
  /\ (hpc = "status" /\ (Ending \/ (eager /\ told = "no")))
       ~> (hpc # "status" \/ panicked # "no")
  /\ Ending ~> (closeCh \/ panicked # "no")
=============================================================================
