--------------------------- MODULE MessageChannel ---------------------------
(***************************************************************************)
(* What a stream of an RLPx session promises: the messages of a protocol   *)
(* are received in the order they were sent, once each and unchanged, up   *)
(* to the end of the session, which may take the last of them with it.     *)
(***************************************************************************)
EXTENDS Sequences, SequencesExt

CONSTANTS Streams,   \* the streams of a session
          Messages,  \* what can be sent
          None

VARIABLES queue,  \* for each stream, what was sent and not received yet
          last,   \* for each stream, the message that was received last
          open    \* whether messages can be sent

vars == <<queue, last, open>>

Init ==
  /\ queue = [s \in Streams |-> <<>>]
  /\ last = [s \in Streams |-> None]
  /\ open = TRUE

Send(s, m) ==
  /\ open
  /\ queue' = [queue EXCEPT ![s] = Append(@, m)]
  /\ UNCHANGED <<last, open>>

Receive(s) ==
  /\ queue[s] # <<>>
  /\ last' = [last EXCEPT ![s] = Head(queue[s])]
  /\ queue' = [queue EXCEPT ![s] = Tail(@)]
  /\ UNCHANGED open

\* The session ends: of each stream some of the first messages can still be received.
End ==
  /\ open' = FALSE
  /\ DOMAIN queue' = Streams
  /\ \A s \in Streams : IsPrefix(queue'[s], queue[s])
  /\ UNCHANGED last

Next == End \/ \E s \in Streams : Receive(s) \/ \E m \in Messages : Send(s, m)

Spec == Init /\ [][Next]_vars
=============================================================================
