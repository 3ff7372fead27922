------------------------------- MODULE Frames -------------------------------
(***************************************************************************)
(* The frames of halfConn (rlpx/session.go): a size of 24 bits, the code   *)
(* of the message as an RLP integer, the payload and zeros up to a         *)
(* multiple of 16 bytes.  Encryption and MACs are left out: a frame is     *)
(* read with the state it was written with (Connect).                      *)
(***************************************************************************)
EXTENDS Integers, Sequences

maxUint24 == 16777215

\* An RLP integer below 2^16: the empty string for 0, one byte below 128, else the number
\* of bytes and the bytes.
marshalUint(code) ==
  CASE code = 0 -> <<128>>
    [] code \in 1..127 -> <<code>>
    [] code \in 128..255 -> <<129, code>>
    [] OTHER -> <<130, code \div 256, code % 256>>

\* Zeros up to the next multiple of 16.
padding(n) == [i \in 1..((16 - (n % 16)) % 16) |-> 0]

\* halfConn.write: an error if the size overflows, else the frame.
frame(code, payload) ==
  LET content == marshalUint(code) \o payload
  IN  IF Len(content) > maxUint24 THEN [ok |-> FALSE, size |-> 0, data |-> <<>>]
      ELSE [ok |-> TRUE, size |-> Len(content), data |-> content \o padding(Len(content))]

unreadable == [ok |-> FALSE, code |-> 0, payload |-> <<>>]

\* readCode: one byte below 128 is the code, 128 is 0, anything else is too big.
readCode(content) ==
  IF content[1] < 128 THEN [ok |-> TRUE, code |-> content[1], payload |-> Tail(content)]
  ELSE IF content[1] = 128 THEN [ok |-> TRUE, code |-> 0, payload |-> Tail(content)]
  ELSE unreadable

\* Mutant: the padding stays in the message.
readPadded(f) == readCode(f.data)

\* halfConn.read.
read(f) == readCode(SubSeq(f.data, 1, f.size))
=============================================================================
