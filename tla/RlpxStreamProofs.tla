-------------------------- MODULE RlpxStreamProofs --------------------------
(***************************************************************************)
(* Theorems about RlpxStream, for any protocols, codes and payloads and    *)
(* any length of the queues: no wake-up is lost, and the streams of a      *)
(* session are the channels of MessageChannel.                             *)
(***************************************************************************)
EXTENDS RlpxStream, SubsequencesProofs

-----------------------------------------------------------------------------
(* Offsets.                                                                *)

\* The equation of the offsets has a solution for the first n streams.
LEMMA OffsetsUpTo ==
  ASSUME NEW n \in 0..Len(Order)
  PROVE  \E f \in [1..n -> Nat] :
           \A i \in 1..n : f[i] = IF i = 1 THEN 16 ELSE f[i - 1] + Length[Order[i - 1]]
<1> DEFINE Fits(f, m) ==
             \A i \in 1..m : f[i] = IF i = 1 THEN 16 ELSE f[i - 1] + Length[Order[i - 1]]
           Bad == {m \in 0..Len(Order) : ~\E f \in [1..m -> Nat] : Fits(f, m)}
<1>0. Len(Order) \in Nat /\ \A i \in 1..Len(Order) : Length[Order[i]] \in Nat
  BY OrderAssumption DEF Streams
<1> SUFFICES ASSUME Bad # {} PROVE FALSE OBVIOUS
<1>1. PICK m \in Bad : \A k \in Bad : m <= k
  <2>1. Bad \subseteq Nat BY <1>0
  <2> HIDE DEF Bad
  <2> QED BY <2>1, LeastNumber
<1>2. m \in 0..Len(Order) /\ ~\E f \in [1..m -> Nat] : Fits(f, m) OBVIOUS
<1>3. CASE m = 0
  <2> DEFINE g == [i \in 1..0 |-> 16]
  <2>1. g \in [1..m -> Nat] BY <1>3
  <2>2. \A i \in 1..m : FALSE BY <1>3
  <2>3. Fits(g, m) BY <2>2
  <2> HIDE DEF Fits, g
  <2> QED BY <1>2, <2>1, <2>3
<1>4. CASE m # 0
  <2>1. m - 1 \in 0..Len(Order) /\ m - 1 < m /\ m \in Nat BY <1>0, <1>2, <1>4
  <2>2. m - 1 \notin Bad
    <3> HIDE DEF Bad
    <3> QED BY <1>1, <2>1
  <2>3. PICK f \in [1..(m - 1) -> Nat] : Fits(f, m - 1) BY <2>1, <2>2
  <2> DEFINE g == [i \in 1..m |-> IF i = m
                                    THEN IF m = 1 THEN 16 ELSE f[m - 1] + Length[Order[m - 1]]
                                    ELSE f[i]]
  <2>4. m # 1 => m - 1 \in 1..(m - 1) /\ m - 1 \in 1..Len(Order) BY <1>4, <2>1
  <2>5. g \in [1..m -> Nat]
    <3> SUFFICES ASSUME NEW i \in 1..m PROVE g[i] \in Nat OBVIOUS
    <3>1. i # m => i \in 1..(m - 1) BY <2>1
    <3> QED BY <1>0, <2>4, <3>1
  <2>6. Fits(g, m)
    <3> SUFFICES ASSUME NEW i \in 1..m
                 PROVE  g[i] = IF i = 1 THEN 16 ELSE g[i - 1] + Length[Order[i - 1]]
      OBVIOUS
    <3>1. i # m => i \in 1..(m - 1) BY <2>1
    <3>2. i # 1 => i - 1 \in 1..m /\ i - 1 # m /\ i - 1 \in 1..(m - 1) BY <2>1
    <3>3. i # 1 => g[i - 1] = f[i - 1] BY <3>2
    <3> QED BY <2>3, <3>1, <3>3
  <2> HIDE DEF Fits, g
  <2> QED BY <1>2, <2>5, <2>6
<1> QED BY <1>3, <1>4

\* The offsets are what their equation says.
LEMMA OffsetsAre ==
  /\ \A i \in 1..Len(Order) : offset[i] \in Nat
  /\ \A i \in 1..Len(Order) :
       offset[i] = IF i = 1 THEN 16 ELSE offset[i - 1] + Length[Order[i - 1]]
<1> DEFINE n == Len(Order)
           Eq(f) == f = [i \in 1..n |-> IF i = 1 THEN 16 ELSE f[i - 1] + Length[Order[i - 1]]]
<1>0. n \in Nat BY OrderAssumption
<1>1. PICK f \in [1..n -> Nat] :
        \A i \in 1..n : f[i] = IF i = 1 THEN 16 ELSE f[i - 1] + Length[Order[i - 1]]
  <2>1. n \in 0..Len(Order) BY <1>0
  <2> HIDE DEF n
  <2> QED BY <2>1, OffsetsUpTo
<1>2. Eq(f) BY <1>1
<1>3. offset = CHOOSE g : Eq(g) BY DEF offset
<1>4. Eq(offset)
  <2> HIDE DEF Eq
  <2> QED BY <1>2, <1>3
<1>5. \A i \in 1..n : offset[i] = IF i = 1 THEN 16 ELSE offset[i - 1] + Length[Order[i - 1]]
  BY <1>4
<1> HIDE DEF Eq, n, offset
<1>6. \A i \in 1..n : offset[i] = f[i]
  <2> DEFINE Bad == {i \in 1..n : offset[i] # f[i]}
  <2> SUFFICES ASSUME Bad # {} PROVE FALSE OBVIOUS
  <2>1. PICK i \in Bad : \A k \in Bad : i <= k
    <3>1. Bad \subseteq Nat BY <1>0
    <3> HIDE DEF Bad
    <3> QED BY <3>1, LeastNumber
  <2>2. i \in 1..n /\ offset[i] # f[i] OBVIOUS
  <2>3. i # 1 => i - 1 \in 1..n /\ i - 1 < i BY <1>0, <2>2
  <2>4. i # 1 => offset[i - 1] = f[i - 1] BY <2>1, <2>2, <2>3
  <2> QED BY <1>1, <1>5, <2>2, <2>4
<1>7. \A i \in 1..n : offset[i] \in Nat BY <1>1, <1>6
<1> QED BY <1>5, <1>7 DEF n

\* The codes of a later stream are above those of an earlier one.
LEMMA OffsetsApart ==
  ASSUME NEW i \in 1..Len(Order), NEW j \in 1..Len(Order), i < j
  PROVE  offset[i] + Length[Order[i]] <= offset[j]
<1> DEFINE n == Len(Order)
           Bad == {k \in 1..n : i < k /\ ~(offset[i] + Length[Order[i]] <= offset[k])}
<1>0. /\ n \in Nat /\ \A k \in 1..n : offset[k] \in Nat /\ Length[Order[k]] \in Nat
      /\ \A k \in 1..n : offset[k] = IF k = 1 THEN 16 ELSE offset[k - 1] + Length[Order[k - 1]]
  <2>1. n \in Nat /\ \A k \in 1..n : Length[Order[k]] \in Nat BY OrderAssumption DEF Streams
  <2> QED BY <2>1, OffsetsAre
<1> HIDE DEF offset
<1> SUFFICES ASSUME Bad # {} PROVE FALSE OBVIOUS
<1>1. PICK k \in Bad : \A l \in Bad : k <= l
  <2>1. Bad \subseteq Nat BY <1>0
  <2> HIDE DEF Bad
  <2> QED BY <2>1, LeastNumber
<1>2. k \in 1..n /\ i < k /\ ~(offset[i] + Length[Order[i]] <= offset[k]) OBVIOUS
<1>3. k - 1 \in 1..n /\ k # 1 /\ k - 1 < k BY <1>0, <1>2
<1>4. offset[k] = offset[k - 1] + Length[Order[k - 1]] BY <1>0, <1>2, <1>3
<1>5. k - 1 \notin Bad
  <2> HIDE DEF Bad
  <2> QED BY <1>1, <1>2, <1>3
<1>6. CASE k - 1 = i BY <1>0, <1>2, <1>4, <1>6
<1>7. CASE k - 1 # i
  <2>1. offset[i] + Length[Order[i]] <= offset[k - 1]
    <3>1. i < k - 1 BY <1>0, <1>2, <1>3, <1>7
    <3> QED BY <1>3, <1>5, <3>1
  <2>2. /\ offset[i] \in Nat /\ offset[k - 1] \in Nat
        /\ Length[Order[i]] \in Nat /\ Length[Order[k - 1]] \in Nat
    BY <1>0, <1>3
  <2>3. \A x, y, z, w \in Nat : x + y <= z => x + y <= z + w OBVIOUS
  <2>4. offset[i] + Length[Order[i]] <= offset[k - 1] + Length[Order[k - 1]]
    BY <2>1, <2>2, <2>3
  <2> QED BY <1>2, <1>4, <2>4
<1> QED BY <1>6, <1>7

\* getStream finds the stream of a code, and no other.
LEMMA StreamOfCode ==
  ASSUME NEW s \in Streams, NEW code \in MsgCodes[s]
  PROVE  /\ code \in Nat /\ offsetOf(s) \in Nat /\ getStream(code + offsetOf(s)) = {s}
         /\ (code + offsetOf(s)) - offsetOf(s) = code
<1> DEFINE n == Len(Order)
           i == CHOOSE k \in 1..n : Order[k] = s
           c == code + offsetOf(s)
           At == {j \in 1..n : offset[j] <= c /\ c < offset[j] + Length[Order[j]]}
<1>0. n \in Nat /\ \A k \in 1..n : offset[k] \in Nat /\ Length[Order[k]] \in Nat
  BY OffsetsAre, OrderAssumption DEF Streams
<1>1. i \in 1..n /\ Order[i] = s BY DEF Streams
<1>2. offsetOf(s) = offset[i] BY DEF offsetOf
<1>3. code \in 0..(Length[s] - 1) BY CodesAssumption
<1>4. offset[i] \in Nat /\ code \in Nat /\ code < Length[Order[i]] BY <1>0, <1>1, <1>3
<1>5. getStream(c) = {Order[j] : j \in At} BY DEF getStream
<1>6. c = code + offset[i] BY <1>2
<1> HIDE DEF i, c, offset
<1>7. \A j \in 1..n : j < i => ~(c < offset[j] + Length[Order[j]])
  <2> SUFFICES ASSUME NEW j \in 1..n, j < i PROVE ~(c < offset[j] + Length[Order[j]]) OBVIOUS
  <2>1. offset[j] + Length[Order[j]] <= offset[i] BY <1>1, OffsetsApart
  <2> QED BY <1>0, <1>4, <1>6, <2>1
<1>8. \A j \in 1..n : i < j => ~(offset[j] <= c)
  <2> SUFFICES ASSUME NEW j \in 1..n, i < j PROVE ~(offset[j] <= c) OBVIOUS
  <2>1. offset[i] + Length[Order[i]] <= offset[j] BY <1>1, OffsetsApart
  <2> QED BY <1>0, <1>1, <1>4, <1>6, <2>1
<1>9. At = {i}
  <2>1. i \in At BY <1>0, <1>1, <1>4, <1>6
  <2>2. \A j \in At : j = i BY <1>0, <1>1, <1>7, <1>8
  <2> QED BY <2>1, <2>2
<1>10. getStream(c) = {s} BY <1>1, <1>5, <1>9
<1> QED BY <1>2, <1>4, <1>10 DEF c

-----------------------------------------------------------------------------
(* Frames.                                                                 *)

\* The beginning of a concatenation.
LEMMA FirstPart ==
  ASSUME NEW S, NEW s \in Seq(S), NEW t \in Seq(S)
  PROVE  SubSeq(s \o t, 1, Len(s)) = s
<1> DEFINE c == s \o t
           u == SubSeq(c, 1, Len(s))
<1>1. c \in Seq(S) /\ Len(c) = Len(s) + Len(t) /\ \A i \in 1..Len(s) : c[i] = s[i]
  BY ConcatProperties
<1>2. Len(s) \in Nat /\ Len(t) \in Nat OBVIOUS
<1> HIDE DEF c
<1>3. u \in Seq(S) /\ Len(u) = Len(s) /\ \A i \in 1..Len(s) : u[i] = c[i] BY <1>1, <1>2
<1> HIDE DEF u
<1>4. u = s BY <1>1, <1>3, SeqEqual
<1> QED BY <1>4 DEF u, c

\* The rest of a concatenation.
LEMMA LastPart ==
  ASSUME NEW S, NEW x \in S, NEW t \in Seq(S)
  PROVE  (<<x>> \o t)[1] = x /\ Tail(<<x>> \o t) = t
<1> DEFINE c == <<x>> \o t
           u == Tail(c)
<1>1. /\ c \in Seq(S) /\ Len(c) = 1 + Len(t) /\ c[1] = x /\ Len(t) \in Nat
      /\ \A i \in 1..Len(t) : c[i + 1] = t[i]
  OBVIOUS
<1> HIDE DEF c
<1>2. u \in Seq(S) /\ Len(u) = Len(t) /\ \A i \in 1..Len(u) : u[i] = t[i] BY <1>1
<1> HIDE DEF u
<1>3. u = t BY <1>2, SeqEqual
<1> QED BY <1>1, <1>3 DEF u, c

\* The code of a message as its first byte.
LEMMA MarshalledCode ==
  ASSUME NEW code \in Nat
  PROVE  /\ marshalUint(code) \in Seq(Nat)
         /\ code = 0 => marshalUint(code) = <<128>>
         /\ code \in 1..127 => marshalUint(code) = <<code>>
         /\ code > 127 => Len(marshalUint(code)) > 0 /\ marshalUint(code)[1] > 128
<1>1. CASE code = 0 BY <1>1 DEF marshalUint
<1>2. CASE code \in 1..127 BY <1>2 DEF marshalUint
<1>3. CASE code \in 128..255 BY <1>3 DEF marshalUint
<1>4. CASE code > 255
  <2>1. marshalUint(code) = <<130, code \div 256, code % 256>> BY <1>4 DEF marshalUint
  <2>2. code \div 256 \in Nat /\ code % 256 \in Nat OBVIOUS
  <2> QED BY <1>4, <2>1, <2>2
<1> QED BY <1>1, <1>2, <1>3, <1>4

\* What is written is read: a message whose code is below 128 comes back as it was, and the
\* padding is taken off; one with a larger code, which takes more than a byte, is refused.
LEMMA FrameRead ==
  ASSUME NEW code \in Nat, NEW body \in Seq(0..255), frame(code, body).ok
  PROVE  LET m == read(frame(code, body))
         IN  /\ m.ok <=> code <= 127
             /\ m.ok => m.code = code /\ m.payload = body
<1> DEFINE mu == marshalUint(code)
           content == mu \o body
           pad == padding(Len(content))
           m == read(frame(code, body))
<1>1. mu \in Seq(Nat) BY MarshalledCode
<1>2. body \in Seq(Nat)
  <2>1. 0..255 \subseteq Nat OBVIOUS
  <2> QED BY <2>1, SeqMonotonic
<1>3. content \in Seq(Nat) /\ Len(content) \in Nat
  <2> HIDE DEF mu
  <2> QED BY <1>1, <1>2
<1>4. pad \in Seq(Nat)
  <2> DEFINE n == Len(content)
             z == (16 - (n % 16)) % 16
  <2>1. z \in Nat
    <3> HIDE DEF n
    <3>1. n \in Nat BY <1>3 DEF n
    <3>2. n % 16 \in 0..15 BY <3>1
    <3>3. 16 - (n % 16) \in Int BY <3>2
    <3> QED BY <3>3
  <2>2. pad = [i \in 1..z |-> 0] BY DEF padding
  <2> HIDE DEF z, pad
  <2> QED BY <2>1, <2>2
<1>5. frame(code, body) = [ok |-> TRUE, size |-> Len(content), data |-> content \o pad]
  BY DEF frame
<1>6. m = readCode(SubSeq(content \o pad, 1, Len(content))) BY <1>5 DEF read
<1>7. m = readCode(content)
  <2> HIDE DEF content, pad, m
  <2> QED BY <1>3, <1>4, <1>6, FirstPart
<1>8. CASE code = 0
  <2>1. content = <<128>> \o body BY <1>8, MarshalledCode
  <2>2. content[1] = 128 /\ Tail(content) = body
    <3> HIDE DEF content
    <3>1. 128 \in Nat OBVIOUS
    <3>2. (<<128>> \o body)[1] = 128 /\ Tail(<<128>> \o body) = body BY <1>2, <3>1, LastPart
    <3> QED BY <2>1, <3>2
  <2> HIDE DEF content, m
  <2>4. content[1] = 128 => ~(content[1] < 128) OBVIOUS
  <2>5. m = [ok |-> TRUE, code |-> 0, payload |-> Tail(content)]
    BY <1>7, <2>2, <2>4, Zenon DEF readCode
  <2>3. m = [ok |-> TRUE, code |-> 0, payload |-> body] BY <2>2, <2>5
  <2> QED BY <1>8, <2>3 DEF m
<1>9. CASE code \in 1..127
  <2>1. content = <<code>> \o body BY <1>9, MarshalledCode
  <2>2. content[1] = code /\ Tail(content) = body
    <3> HIDE DEF content
    <3>1. (<<code>> \o body)[1] = code /\ Tail(<<code>> \o body) = body BY <1>2, LastPart
    <3> QED BY <2>1, <3>1
  <2> HIDE DEF content, m
  <2>4. content[1] < 128 BY <1>9, <2>2
  <2>5. m = [ok |-> TRUE, code |-> content[1], payload |-> Tail(content)]
    BY <1>7, <2>4, Zenon DEF readCode
  <2>3. m = [ok |-> TRUE, code |-> code, payload |-> body] BY <2>2, <2>5
  <2> QED BY <1>9, <2>3 DEF m
<1>10. CASE code > 127
  <2>1. Len(mu) > 0 /\ mu[1] > 128 /\ Len(mu) \in Nat BY <1>1, <1>10, MarshalledCode
  <2>2. content[1] = mu[1] /\ mu[1] \in Nat
    <3> HIDE DEF mu
    <3> QED BY <1>1, <1>2, <2>1
  <2> HIDE DEF content, m, mu
  <2>3. m = unreadable BY <1>7, <2>1, <2>2 DEF readCode
  <2>4. ~m.ok BY <2>3 DEF unreadable
  <2> QED BY <1>10, <2>4 DEF m
<1> QED BY <1>8, <1>9, <1>10

-----------------------------------------------------------------------------
(* Buffers.                                                                *)

Byte == 0..255
HeaderCells == [code : Nat, size : Nat]
ByteCells == [byte : Byte]
Cells == HeaderCells \cup ByteCells
Msgs == [code : Nat, body : Seq(Byte)]

\* A buffer is the rest of a message, start bytes of it, and then messages: every header is
\* followed by as many bytes as it says, and these by the next header.
Layout(b, start) ==
  /\ b \in Seq(Cells) /\ start \in 0..Len(b)
  /\ \A i \in 1..start : i \notin Headers(b)
  /\ start < Len(b) => start + 1 \in Headers(b)
  /\ \A i \in Headers(b) :
       /\ i + b[i].size <= Len(b)
       /\ \A j \in (i + 1)..(i + b[i].size) : j \notin Headers(b)
       /\ i + b[i].size < Len(b) => i + b[i].size + 1 \in Headers(b)

\* A cell is a header or a byte, and not both.
LEMMA CellKinds ==
  /\ \A x \in HeaderCells : "size" \in DOMAIN x /\ x.size \in Nat /\ x.code \in Nat
  /\ \A x \in ByteCells : "size" \notin DOMAIN x /\ x.byte \in Byte
BY DEF HeaderCells, ByteCells

\* The headers of a buffer.
LEMMA HeadersAre ==
  ASSUME NEW b \in Seq(Cells)
  PROVE  /\ Headers(b) \in SUBSET (1..Len(b)) /\ Len(b) \in Nat
         /\ \A i \in Headers(b) : b[i].size \in Nat /\ b[i].code \in Nat
         /\ \A i \in 1..Len(b) : i \notin Headers(b) => b[i].byte \in Byte
         /\ \A i \in 1..Len(b) : b[i] \in HeaderCells => i \in Headers(b)
         /\ \A i \in 1..Len(b) : b[i] \in ByteCells => i \notin Headers(b)
<1>1. Len(b) \in Nat /\ DOMAIN b = 1..Len(b) /\ \A i \in 1..Len(b) : b[i] \in Cells OBVIOUS
<1>2. \A i : i \in Headers(b) <=> i \in 1..Len(b) /\ "size" \in DOMAIN b[i]
  BY <1>1 DEF Headers
<1>3. \A i \in 1..Len(b) : b[i] \in HeaderCells \/ b[i] \in ByteCells BY <1>1 DEF Cells
<1> QED BY <1>1, <1>2, <1>3, CellKinds

\* The bytes between two headers are a body.
LEMMA BodyType ==
  ASSUME NEW b \in Seq(Cells), NEW from \in Nat, NEW size \in Nat, from + size <= Len(b),
         \A j \in (from + 1)..(from + size) : j \notin Headers(b)
  PROVE  Body(b, from, size) \in Seq(Byte) /\ Len(Body(b, from, size)) = size
<1> DEFINE y == Body(b, from, size)
<1>1. Len(b) \in Nat BY HeadersAre
<1>2. \A i \in 1..size : b[from + i].byte \in Byte
  <2> SUFFICES ASSUME NEW i \in 1..size PROVE b[from + i].byte \in Byte OBVIOUS
  <2>1. from + i \in (from + 1)..(from + size) /\ from + i \in 1..Len(b) BY <1>1
  <2> QED BY <2>1, HeadersAre
<1>3. y = [i \in 1..size |-> b[from + i].byte] BY DEF Body
<1> HIDE DEF y, Byte
<1>4. y \in [1..size -> Byte] BY <1>2, <1>3
<1>5. y \in Seq(Byte) /\ Len(y) = size BY <1>4
<1> QED BY <1>5 DEF y

\* The whole messages of a buffer.
LEMMA WholeType ==
  ASSUME NEW b, NEW start, Layout(b, start)
  PROVE  LET n == Cardinality(Headers(b))
             at == InOrder(Headers(b))
         IN  /\ n \in Nat /\ at \in [1..n -> Headers(b)] /\ Enumerates(at, Headers(b))
             /\ Whole(b) \in Seq(Msgs) /\ Len(Whole(b)) = n
             /\ \A k \in 1..n : Whole(b)[k] = [code |-> b[at[k]].code,
                                               body |-> Body(b, at[k], b[at[k]].size)]
<1> DEFINE H == Headers(b)
           n == Cardinality(H)
           at == InOrder(H)
           Msg(i) == [code |-> b[i].code, body |-> Body(b, i, b[i].size)]
           w == Whole(b)
<1>1. b \in Seq(Cells) BY DEF Layout
<1>2. H \in SUBSET (1..Len(b)) /\ Len(b) \in Nat BY <1>1, HeadersAre
<1>3. n \in Nat BY <1>2, PositionsFinite
<1>4. at \in [1..n -> H] /\ Enumerates(at, H) BY <1>2, InOrderEnumerates
<1>5. \A i \in H : Msg(i) \in Msgs
  <2> SUFFICES ASSUME NEW i \in H PROVE Msg(i) \in Msgs OBVIOUS
  <2>1. b[i].size \in Nat /\ b[i].code \in Nat /\ i \in Nat BY <1>1, <1>2, HeadersAre
  <2>2. i + b[i].size <= Len(b) /\ \A j \in (i + 1)..(i + b[i].size) : j \notin Headers(b)
    BY DEF Layout
  <2>3. Body(b, i, b[i].size) \in Seq(Byte) BY <1>1, <2>1, <2>2, BodyType
  <2> QED BY <2>1, <2>3 DEF Msgs
<1>6. w = [k \in 1..n |-> Msg(at[k])] BY DEF Whole
<1> HIDE DEF n, at, Msg, w, H
<1>7. w \in [1..n -> Msgs] BY <1>4, <1>5, <1>6
<1>8. w \in Seq(Msgs) /\ Len(w) = n
  <2> HIDE DEF Msgs
  <2> QED BY <1>3, <1>7
<1>9. \A k \in 1..n : w[k] = Msg(at[k]) BY <1>6
<1> QED BY <1>3, <1>4, <1>8, <1>9 DEF n, at, Msg, w, H

\* What readData appends.
LEMMA StoredCells ==
  ASSUME NEW b \in Seq(Cells), NEW h \in HeaderCells, NEW body \in Seq(Byte)
  PROVE  LET c == b \o <<h>> \o Bytes(body)
             n == Len(b)
         IN  /\ c \in Seq(Cells) /\ Len(c) = n + 1 + Len(body)
             /\ \A i \in 1..n : c[i] = b[i]
             /\ c[n + 1] = h
             /\ \A i \in 1..Len(body) : c[n + 1 + i] = [byte |-> body[i]]
             /\ Headers(c) = Headers(b) \cup {n + 1}
<1> DEFINE bytes == Bytes(body)
           first == b \o <<h>>
           c == first \o bytes
           n == Len(b)
           L == Len(body)
<1>1. h \in Cells BY DEF Cells
<1>2. n \in Nat /\ L \in Nat /\ \A i \in 1..L : body[i] \in Byte OBVIOUS
<1>3. bytes = [i \in 1..L |-> [byte |-> body[i]]] BY DEF Bytes
<1>4. \A i \in 1..L : [byte |-> body[i]] \in ByteCells /\ [byte |-> body[i]] \in Cells
  BY <1>2 DEF ByteCells, Cells
<1>5. bytes \in Seq(Cells) /\ Len(bytes) = L /\ \A i \in 1..L : bytes[i] = [byte |-> body[i]]
  <2> HIDE DEF Cells, bytes, L
  <2>1. bytes \in [1..L -> Cells] BY <1>3, <1>4
  <2>2. bytes \in Seq(Cells) /\ Len(bytes) = L BY <1>2, <2>1
  <2> QED BY <1>3, <2>2
<1> HIDE DEF bytes, L, n
<1>6. /\ first \in Seq(Cells) /\ Len(first) = n + 1 /\ first[n + 1] = h
      /\ \A i \in 1..n : first[i] = b[i]
  <2> HIDE DEF Cells
  <2> QED BY <1>1 DEF n
<1> HIDE DEF first
<1>7. /\ c \in Seq(Cells) /\ Len(c) = Len(first) + Len(bytes)
      /\ \A i \in 1..(Len(first) + Len(bytes)) :
           c[i] = IF i <= Len(first) THEN first[i] ELSE bytes[i - Len(first)]
  BY <1>5, <1>6, ConcatProperties
<1> HIDE DEF c
<1>8. c \in Seq(Cells) /\ Len(c) = n + 1 + L BY <1>5, <1>6, <1>7
<1>9. \A i \in 1..n : c[i] = b[i]
  <2> SUFFICES ASSUME NEW i \in 1..n PROVE c[i] = b[i] OBVIOUS
  <2>1. i \in 1..(Len(first) + Len(bytes)) /\ i <= Len(first) BY <1>2, <1>5, <1>6
  <2> QED BY <1>6, <1>7, <2>1
<1>10. c[n + 1] = h
  <2>1. n + 1 \in 1..(Len(first) + Len(bytes)) /\ n + 1 <= Len(first) BY <1>2, <1>5, <1>6
  <2> QED BY <1>6, <1>7, <2>1
<1>11. \A i \in 1..L : c[n + 1 + i] = [byte |-> body[i]]
  <2> SUFFICES ASSUME NEW i \in 1..L PROVE c[n + 1 + i] = [byte |-> body[i]] OBVIOUS
  <2>1. /\ n + 1 + i \in 1..(Len(first) + Len(bytes)) /\ ~(n + 1 + i <= Len(first))
        /\ (n + 1 + i) - Len(first) = i
    BY <1>2, <1>5, <1>6
  <2> QED BY <1>5, <1>7, <2>1
<1>12. Headers(c) = Headers(b) \cup {n + 1}
  <2>1. \A i \in 1..n : i \in Headers(c) <=> i \in Headers(b)
    <3>1. \A i : i \in Headers(b) <=> i \in 1..n /\ "size" \in DOMAIN b[i] BY DEF Headers, n
    <3>2. \A i : i \in Headers(c) <=> i \in 1..(n + 1 + L) /\ "size" \in DOMAIN c[i]
      BY <1>8 DEF Headers
    <3> SUFFICES ASSUME NEW i \in 1..n PROVE i \in Headers(c) <=> i \in Headers(b) OBVIOUS
    <3>3. i \in 1..(n + 1 + L) BY <1>2
    <3> QED BY <1>9, <3>1, <3>2, <3>3
  <2>2. n + 1 \in Headers(c)
    <3>1. n + 1 \in 1..Len(c) BY <1>2, <1>8
    <3> QED BY <1>8, <1>10, <3>1, HeadersAre
  <2>3. \A i \in Headers(c) : i \in 1..n \/ i = n + 1
    <3> SUFFICES ASSUME NEW i \in Headers(c), i \notin 1..n, i # n + 1 PROVE FALSE OBVIOUS
    <3>1. i \in 1..(n + 1 + L) BY <1>8, HeadersAre
    <3>2. i - (n + 1) \in 1..L /\ n + 1 + (i - (n + 1)) = i BY <1>2, <3>1
    <3>3. c[i] \in ByteCells BY <1>4, <1>11, <3>2
    <3> QED BY <1>8, <3>1, <3>3, HeadersAre
  <2>4. Headers(b) \subseteq 1..n BY HeadersAre DEF n
  <2> QED BY <2>1, <2>2, <2>3, <2>4
<1> QED BY <1>8, <1>9, <1>10, <1>11, <1>12 DEF c, first, bytes, n, L

\* A message that is stored comes last, and nothing else changes.
LEMMA StoredMessage ==
  ASSUME NEW b, NEW start, Layout(b, start), NEW code \in Nat, NEW body \in Seq(Byte)
  PROVE  LET c == b \o <<[code |-> code, size |-> Len(body)]>> \o Bytes(body)
         IN  /\ Layout(c, start)
             /\ Whole(c) = Append(Whole(b), [code |-> code, body |-> body])
             /\ Body(c, 0, start) = Body(b, 0, start)
<1> DEFINE h == [code |-> code, size |-> Len(body)]
           c == b \o <<h>> \o Bytes(body)
           n == Len(b)
           L == Len(body)
           H == Headers(b)
           N == Cardinality(H)
           at == InOrder(H)
<1>1. b \in Seq(Cells) /\ start \in 0..n BY DEF Layout
<1>2. n \in Nat /\ H \in SUBSET (1..n) /\ \A i \in H : b[i].size \in Nat /\ b[i].code \in Nat
  BY <1>1, HeadersAre
<1>3. L \in Nat /\ h \in HeaderCells /\ h.size = L /\ h.code = code BY DEF HeaderCells
<1>4. /\ c \in Seq(Cells) /\ Len(c) = n + 1 + L
      /\ \A i \in 1..n : c[i] = b[i]
      /\ c[n + 1] = h
      /\ \A i \in 1..L : c[n + 1 + i] = [byte |-> body[i]]
      /\ Headers(c) = H \cup {n + 1}
  BY <1>1, <1>3, StoredCells
<1>5. \A i \in H : /\ i + b[i].size <= n
                   /\ \A j \in (i + 1)..(i + b[i].size) : j \notin H
                   /\ i + b[i].size < n => i + b[i].size + 1 \in H
  BY DEF Layout
<1>6. (\A i \in 1..start : i \notin H) /\ (start < n => start + 1 \in H) BY DEF Layout
<1>7. /\ N \in Nat /\ at \in [1..N -> H] /\ Whole(b) \in Seq(Msgs) /\ Len(Whole(b)) = N
      /\ \A k \in 1..N : Whole(b)[k] = [code |-> b[at[k]].code,
                                        body |-> Body(b, at[k], b[at[k]].size)]
  BY WholeType
<1> HIDE DEF h, c, n, L, H
<1>8. ASSUME NEW from \in Nat, NEW size \in Nat, from + size <= n
      PROVE  Body(c, from, size) = Body(b, from, size)
  <2>1. \A i \in 1..size : from + i \in 1..n BY <1>2, <1>8
  <2>2. \A i \in 1..size : c[from + i].byte = b[from + i].byte BY <1>4, <2>1
  <2> QED BY <2>2 DEF Body
<1>9. Layout(c, start)
  <2>1. start \in 0..Len(c) BY <1>1, <1>2, <1>3, <1>4
  <2>2. \A i \in 1..start : i \notin Headers(c) BY <1>1, <1>2, <1>4, <1>6
  <2>3. start + 1 \in Headers(c)
    <3>1. start < n \/ start + 1 = n + 1 BY <1>1, <1>2
    <3> QED BY <1>4, <1>6, <3>1
  <2>4. ASSUME NEW i \in Headers(c)
        PROVE  /\ i + c[i].size <= Len(c)
               /\ \A j \in (i + 1)..(i + c[i].size) : j \notin Headers(c)
               /\ i + c[i].size < Len(c) => i + c[i].size + 1 \in Headers(c)
    <3>1. CASE i \in H
      <4>1. i \in 1..n /\ b[i].size \in Nat BY <1>2, <3>1
      <4>2. c[i].size = b[i].size BY <1>4, <4>1
      <4> DEFINE z == i + b[i].size
      <4>3. /\ z \in Nat /\ z <= n /\ i + c[i].size = z
            /\ \A j \in (i + 1)..z : j \notin H
            /\ z < n => z + 1 \in H
        BY <1>5, <3>1, <4>1, <4>2
      <4> HIDE DEF z
      <4>4. \A j \in (i + 1)..z : j # n + 1 BY <1>2, <4>1, <4>3
      <4>5. z < n \/ z + 1 = n + 1 BY <1>2, <4>3
      <4>6. z <= Len(c) BY <1>2, <1>3, <1>4, <4>3
      <4> QED BY <1>4, <4>3, <4>4, <4>5, <4>6
    <3>2. CASE i = n + 1
      <4>1. c[i].size = L /\ i + L = Len(c) BY <1>2, <1>3, <1>4, <3>2
      <4>2. \A j \in (i + 1)..(i + L) : j \notin Headers(c) BY <1>2, <1>3, <1>4, <3>2
      <4>3. i + L \in Int BY <1>2, <1>3, <3>2
      <4> QED BY <4>1, <4>2, <4>3
    <3> QED BY <1>4, <3>1, <3>2
  <2> QED BY <1>4, <2>1, <2>2, <2>3, <2>4 DEF Layout
<1>10. /\ Cardinality(Headers(c)) = N + 1
       /\ InOrder(Headers(c)) = [k \in 1..(N + 1) |-> IF k = N + 1 THEN n + 1 ELSE at[k]]
  <2>1. n + 1 \in Nat /\ n + 1 > n BY <1>2
  <2> DEFINE n1 == n + 1
  <2>2. n1 \in Nat /\ n1 > n BY <2>1
  <2> HIDE DEF n1
  <2>3. /\ Cardinality(H \cup {n1}) = N + 1
        /\ InOrder(H \cup {n1}) = [k \in 1..(N + 1) |-> IF k = N + 1 THEN n1 ELSE at[k]]
    BY <1>2, <2>2, InOrderAdd
  <2> QED BY <1>4, <2>3 DEF n1
<1>11. Body(c, n + 1, L) = body
  <2>1. body = [i \in 1..L |-> body[i]] BY DEF L
  <2>2. \A i \in 1..L : c[n + 1 + i].byte = body[i]
    <3> SUFFICES ASSUME NEW i \in 1..L PROVE c[n + 1 + i].byte = body[i] OBVIOUS
    <3>1. c[n + 1 + i] = [byte |-> body[i]] BY <1>4
    <3> QED BY <3>1
  <2>3. Body(c, n + 1, L) = [i \in 1..L |-> body[i]] BY <2>2 DEF Body
  <2> QED BY <2>1, <2>3
<1> DEFINE m == [code |-> code, body |-> body]
           w == Append(Whole(b), m)
           ac == InOrder(Headers(c))
<1>12. /\ Whole(c) \in Seq(Msgs) /\ Len(Whole(c)) = N + 1
       /\ \A k \in 1..(N + 1) : Whole(c)[k] = [code |-> c[ac[k]].code,
                                               body |-> Body(c, ac[k], c[ac[k]].size)]
  BY <1>9, <1>10, WholeType
<1>13. m \in Msgs BY DEF Msgs
<1> HIDE DEF m, ac, N, at
<1>14. w \in Seq(Msgs) /\ Len(w) = N + 1 /\ w[N + 1] = m /\ \A k \in 1..N : w[k] = Whole(b)[k]
  <2> HIDE DEF Msgs, Whole
  <2> QED BY <1>7, <1>13
<1>15. ASSUME NEW k \in 1..(N + 1) PROVE Whole(c)[k] = w[k]
  <2>1. CASE k = N + 1
    <3>1. ac[k] = n + 1 BY <1>10, <2>1 DEF ac
    <3>2. c[ac[k]].code = code /\ c[ac[k]].size = L BY <1>3, <1>4, <3>1
    <3>3. Whole(c)[k] = m BY <1>11, <1>12, <3>1, <3>2 DEF m
    <3> QED BY <1>14, <2>1, <3>3
  <2>2. CASE k # N + 1
    <3>1. k \in 1..N BY <1>7, <2>2
    <3>2. ac[k] = at[k] BY <1>10, <2>2 DEF ac
    <3>3. at[k] \in H /\ at[k] \in 1..n BY <1>2, <1>7, <3>1
    <3>4. c[at[k]] = b[at[k]] BY <1>4, <3>3
    <3>5. at[k] \in Nat /\ b[at[k]].size \in Nat /\ at[k] + b[at[k]].size <= n
      BY <1>2, <1>5, <3>3
    <3>6. Body(c, at[k], b[at[k]].size) = Body(b, at[k], b[at[k]].size) BY <1>8, <3>5
    <3>7. Whole(c)[k] = Whole(b)[k] BY <1>7, <1>12, <3>1, <3>2, <3>4, <3>6
    <3> QED BY <1>14, <3>1, <3>7
  <2> QED BY <2>1, <2>2
<1>16. Whole(c) = w
  <2> HIDE DEF w
  <2> QED BY <1>12, <1>14, <1>15, SeqEqual
<1>17. Body(c, 0, start) = Body(b, 0, start)
  <2>1. 0 \in Nat /\ start \in Nat /\ 0 + start <= n BY <1>1, <1>2
  <2> QED BY <1>8, <2>1
<1> QED BY <1>9, <1>16, <1>17 DEF c, h, m

\* c is b without the first d cells, in which there are e headers, and starts with ns bytes.
Shortened(b, d, e, c, ns) ==
  /\ d \in 0..Len(b) /\ c \in Seq(Cells) /\ Len(c) = Len(b) - d
  /\ \A i \in 1..Len(c) : c[i] = b[i + d]
  /\ e \in 0..Cardinality(Headers(b))
  /\ \A k \in 1..Cardinality(Headers(b)) : k <= e => InOrder(Headers(b))[k] <= d
  /\ \A k \in 1..Cardinality(Headers(b)) : k > e => InOrder(Headers(b))[k] > d
  /\ ns \in 0..Len(c) /\ \A i \in 1..ns : i + d \notin Headers(b)
  /\ ns < Len(c) => (ns + 1) + d \in Headers(b)

\* The other messages of b are the messages of c.
LEMMA DroppedCells ==
  ASSUME NEW b, NEW start, Layout(b, start), NEW d, NEW e, NEW c, NEW ns,
         Shortened(b, d, e, c, ns)
  PROVE  /\ Layout(c, ns)
         /\ Len(Whole(c)) = Len(Whole(b)) - e
         /\ \A k \in 1..(Len(Whole(b)) - e) : Whole(c)[k] = Whole(b)[k + e]
<1> DEFINE n == Len(b)
           H == Headers(b)
           N == Cardinality(H)
           at == InOrder(H)
           J == Headers(c)
<1>0. /\ d \in 0..n /\ c \in Seq(Cells) /\ Len(c) = n - d /\ ns \in 0..Len(c)
      /\ \A i \in 1..Len(c) : c[i] = b[i + d]
  BY DEF Shortened
<1>0a. /\ \A i \in 1..ns : i + d \notin H
       /\ ns < Len(c) => (ns + 1) + d \in H
  BY DEF Shortened
<1>1. b \in Seq(Cells) BY DEF Layout
<1>2. n \in Nat /\ H \in SUBSET (1..n) /\ \A i \in H : b[i].size \in Nat /\ b[i].code \in Nat
  BY <1>1, HeadersAre
<1>3. d \in Nat /\ Len(c) \in Nat /\ Len(c) = n - d /\ n - d \in Nat BY <1>0, <1>2
<1>4. \A i \in H : /\ i + b[i].size <= n
                   /\ \A j \in (i + 1)..(i + b[i].size) : j \notin H
                   /\ i + b[i].size < n => i + b[i].size + 1 \in H
  BY DEF Layout
<1>5. J \in SUBSET (1..(n - d)) /\ \A i \in 1..(n - d) : i \in J <=> i + d \in H
  <2>1. J \in SUBSET (1..(n - d)) BY <1>0, <1>3, HeadersAre
  <2>2. \A i : i \in J <=> i \in 1..(n - d) /\ "size" \in DOMAIN c[i] BY <1>0, <1>3 DEF Headers
  <2>3. \A i : i \in H <=> i \in 1..n /\ "size" \in DOMAIN b[i] BY <1>1 DEF Headers
  <2> SUFFICES ASSUME NEW i \in 1..(n - d) PROVE i \in J <=> i + d \in H BY <2>1
  <2>4. c[i] = b[i + d] /\ i + d \in 1..n BY <1>0, <1>2, <1>3
  <2> QED BY <2>2, <2>3, <2>4
<1>6. N \in Nat /\ at \in [1..N -> H] BY <1>2, PositionsFinite, InOrderEnumerates
<1>7. Cardinality(J) = N - e /\ \A k \in 1..(N - e) : InOrder(J)[k] = at[k + e] - d
  <2>1. Dropped(H, n, d, e, J)
    <3>1. /\ e \in 0..N
          /\ \A k \in 1..N : k <= e => at[k] <= d
          /\ \A k \in 1..N : k > e => at[k] > d
      BY DEF Shortened
    <3> HIDE DEF J, H, n
    <3> QED BY <1>0, <1>2, <1>5, <3>1 DEF Dropped
  <2> HIDE DEF J, H, n
  <2> QED BY <2>1, InOrderDrop
<1>8. Whole(b) \in Seq(Msgs) /\ Len(Whole(b)) = N
  BY WholeType
<1>9. \A k \in 1..N : Whole(b)[k] = [code |-> b[at[k]].code,
                                     body |-> Body(b, at[k], b[at[k]].size)]
  BY WholeType
<1>10. ASSUME NEW i \in J
       PROVE  /\ i \in 1..(n - d) /\ i + d \in H /\ c[i] = b[i + d] /\ c[i].size \in Nat
              /\ i + c[i].size <= Len(c)
              /\ \A j \in (i + 1)..(i + c[i].size) : j \notin J
              /\ i + c[i].size < Len(c) => i + c[i].size + 1 \in J
  <2>1. i \in 1..(n - d) /\ i + d \in H BY <1>5
  <2>2. c[i] = b[i + d] BY <1>0, <1>3, <2>1
  <2> DEFINE z == b[i + d].size
  <2>3. /\ z \in Nat /\ (i + d) + z <= n
        /\ \A j \in ((i + d) + 1)..((i + d) + z) : j \notin H
        /\ (i + d) + z < n => (i + d) + z + 1 \in H
    BY <1>2, <1>4, <2>1
  <2> HIDE DEF z, J, H
  <2>4. c[i].size = z BY <2>2 DEF z
  <2>5. i + z <= n - d BY <1>2, <1>3, <2>1, <2>3
  <2>6. \A j \in (i + 1)..(i + z) : j \notin J
    <3> SUFFICES ASSUME NEW j \in (i + 1)..(i + z), j \in J PROVE FALSE OBVIOUS
    <3>1. j \in 1..(n - d) /\ j + d \in ((i + d) + 1)..((i + d) + z)
      <4>1. n \in Nat /\ d \in Nat /\ i \in Nat /\ z \in Nat BY <1>2, <1>3, <2>1, <2>3
      <4> HIDE DEF n
      <4> QED BY <2>5, <4>1
    <3> QED BY <1>5, <2>3, <3>1
  <2>7. ASSUME i + z < n - d PROVE i + z + 1 \in J
    <3>1. (i + d) + z < n /\ i + z + 1 \in 1..(n - d) /\ (i + z + 1) + d = (i + d) + z + 1
      BY <1>2, <1>3, <2>1, <2>3, <2>7
    <3> QED BY <1>5, <2>3, <3>1
  <2> QED BY <1>3, <2>1, <2>2, <2>3, <2>4, <2>5, <2>6, <2>7
<1>11. Layout(c, ns)
  <2>1. \A i \in 1..ns : i \notin J
    <3> SUFFICES ASSUME NEW i \in 1..ns, i \in J PROVE FALSE OBVIOUS
    <3> QED BY <1>0a, <1>10
  <2>2. ns < Len(c) => ns + 1 \in J
    <3> SUFFICES ASSUME ns < Len(c) PROVE ns + 1 \in J OBVIOUS
    <3>1. ns + 1 \in 1..(n - d) BY <1>0, <1>3
    <3>2. (ns + 1) + d \in H BY <1>0a
    <3> HIDE DEF J, H
    <3> QED BY <1>5, <3>1, <3>2
  <2> QED BY <1>0, <1>10, <2>1, <2>2 DEF Layout
<1>12. Len(Whole(c)) = N - e
  BY <1>7, <1>11, WholeType
<1>13. \A k \in 1..(N - e) :
         Whole(c)[k] = [code |-> c[InOrder(J)[k]].code,
                        body |-> Body(c, InOrder(J)[k], c[InOrder(J)[k]].size)]
  BY <1>7, <1>11, WholeType
<1>15. e \in 0..N BY DEF Shortened
<1>14. ASSUME NEW k \in 1..(N - e) PROVE Whole(c)[k] = Whole(b)[k + e]
  <2> DEFINE i == InOrder(J)[k]
             x == at[k + e]
  <2>1. k + e \in 1..N BY <1>6, <1>15
  <2>2. i = x - d BY <1>7
  <2>3. x \in H /\ x \in 1..n BY <1>2, <1>6, <2>1
  <2>4. i \in J
    <3>1. InOrder(J) \in [1..Cardinality(J) -> J] BY <1>3, <1>5, InOrderEnumerates
    <3> QED BY <1>7, <3>1
  <2> HIDE DEF i, x, J, H
  <2>5. i + d = x BY <1>3, <2>2, <2>3
  <2>6. c[i] = b[x] /\ i \in 1..(n - d) /\ c[i].size \in Nat /\ i + c[i].size <= Len(c)
    BY <1>10, <2>4, <2>5
  <2>7. Body(c, i, c[i].size) = Body(b, x, b[x].size)
    <3> DEFINE z == b[x].size
    <3>1. z \in Nat /\ i + z <= Len(c) /\ c[i].size = z BY <2>6
    <3> HIDE DEF z
    <3>2. \A j \in 1..z : c[i + j].byte = b[x + j].byte
      <4> SUFFICES ASSUME NEW j \in 1..z PROVE c[i + j].byte = b[x + j].byte OBVIOUS
      <4>1. i + j \in 1..Len(c) /\ (i + j) + d = x + j BY <1>2, <1>3, <2>3, <2>5, <2>6, <3>1
      <4> QED BY <1>0, <4>1
    <3>3. Body(c, i, z) = Body(b, x, z) BY <3>2 DEF Body
    <3> QED BY <3>1, <3>3 DEF z
  <2>8. Whole(c)[k] = [code |-> c[i].code, body |-> Body(c, i, c[i].size)] BY <1>13 DEF i
  <2>9. Whole(b)[k + e] = [code |-> b[x].code, body |-> Body(b, x, b[x].size)]
    BY <1>9, <2>1 DEF x
  <2> QED BY <2>6, <2>7, <2>8, <2>9
<1> QED BY <1>8, <1>11, <1>12, <1>14

\* The first header is the first cell of a buffer that starts with a message.
LEMMA FirstHeader ==
  ASSUME NEW b, Layout(b, 0), b # <<>>
  PROVE  LET N == Cardinality(Headers(b))
             at == InOrder(Headers(b))
         IN  /\ 1 \in Headers(b) /\ 1 \in 1..N /\ 1 \in 0..N /\ at[1] = 1
             /\ \A k \in 1..N : k <= 1 => at[k] <= 1
             /\ \A k \in 1..N : k > 1 => at[k] > 1
<1> DEFINE H == Headers(b)
           N == Cardinality(H)
           at == InOrder(H)
<1>1. b \in Seq(Cells) /\ (0 < Len(b) => 0 + 1 \in H) BY DEF Layout
<1>2. Len(b) \in Nat /\ H \in SUBSET (1..Len(b)) BY <1>1, HeadersAre
<1>3. 1 \in H
  <2>1. 0 < Len(b)
    <3> HIDE DEF Cells
    <3> QED BY <1>1
  <2> QED BY <1>1, <2>1
<1>4. N \in Nat /\ at \in [1..N -> H] /\ Enumerates(at, H)
  BY <1>2, PositionsFinite, InOrderEnumerates
<1>5. /\ \A k, l \in 1..N : k < l => at[k] < at[l]
      /\ \A i \in H : \E k \in 1..N : at[k] = i
  BY <1>4 DEF Enumerates
<1> HIDE DEF H, N, at
<1>6. PICK k \in 1..N : at[k] = 1 BY <1>3, <1>5
<1>7. 1 \in 1..N /\ 1 \in 0..N BY <1>4, <1>6
<1>8. at[1] \in H /\ at[1] \in 1..Len(b) BY <1>2, <1>4, <1>7
<1>9. k = 1
  <2>1. 1 < k => at[1] < at[k] BY <1>5, <1>7
  <2> QED BY <1>4, <1>6, <1>8, <2>1
<1>10. at[1] = 1 BY <1>6, <1>9
<1>11. ASSUME NEW l \in 1..N PROVE (l <= 1 => at[l] <= 1) /\ (l > 1 => at[l] > 1)
  <2>1. l <= 1 => l = 1 BY <1>4
  <2>2. l > 1 => at[1] < at[l] BY <1>5, <1>7
  <2> QED BY <1>10, <2>1, <2>2
<1> QED BY <1>3, <1>7, <1>10, <1>11 DEF H, N, at

\* ReadMsg takes the header of a message; the body is then the rest of it.
LEMMA HeaderTaken ==
  ASSUME NEW b, Layout(b, 0), b # <<>>
  PROVE  LET h == Head(b)
             m == [code |-> h.code, body |-> Body(Tail(b), 0, h.size)]
         IN  /\ h \in HeaderCells /\ m \in Msgs
             /\ Layout(Tail(b), h.size)
             /\ Whole(b) = <<m>> \o Whole(Tail(b))
<1> DEFINE h == b[1]
           c == Tail(b)
           m == [code |-> h.code, body |-> Body(c, 0, h.size)]
           H == Headers(b)
           N == Cardinality(H)
           at == InOrder(H)
           n == Len(b)
<1>0. b \in Seq(Cells) BY DEF Layout
<1>1. /\ Head(b) = h /\ c \in Seq(Cells) /\ Len(c) = n - 1 /\ n \in Nat /\ n >= 1
      /\ \A i \in 1..Len(c) : c[i] = b[i + 1]
  <2> HIDE DEF Cells
  <2> QED BY <1>0
<1>2. /\ 1 \in H /\ 1 \in 1..N /\ 1 \in 0..N /\ at[1] = 1
      /\ \A k \in 1..N : k <= 1 => at[k] <= 1
      /\ \A k \in 1..N : k > 1 => at[k] > 1
  BY FirstHeader
<1>3. h \in HeaderCells /\ h.size \in Nat /\ h.code \in Nat
  <2>1. b[1] \in Cells BY <1>0, <1>1
  <2>2. b[1] \in ByteCells => 1 \notin H BY <1>0, <1>1, HeadersAre
  <2>3. b[1] \in HeaderCells BY <1>2, <2>1, <2>2 DEF Cells
  <2> QED BY <2>3, CellKinds
<1>4. /\ 1 + h.size <= n
      /\ \A j \in (1 + 1)..(1 + h.size) : j \notin H
      /\ 1 + h.size < n => 1 + h.size + 1 \in H
  BY <1>2 DEF Layout
<1> HIDE DEF h, c
<1>5. /\ 1 \in 0..n /\ h.size \in 0..Len(c)
      /\ \A i \in 1..h.size : i + 1 \notin H
      /\ h.size < Len(c) => (h.size + 1) + 1 \in H
  <2>1. 1 \in 0..n /\ h.size \in 0..Len(c) BY <1>1, <1>3, <1>4
  <2>2. ASSUME NEW i \in 1..h.size PROVE i + 1 \notin H
    <3>1. i + 1 \in (1 + 1)..(1 + h.size) BY <1>3
    <3> QED BY <1>4, <3>1
  <2>3. ASSUME h.size < Len(c) PROVE (h.size + 1) + 1 \in H
    <3>1. 1 + h.size < n /\ 1 + h.size + 1 = (h.size + 1) + 1 BY <1>1, <1>3, <2>3
    <3> QED BY <1>4, <3>1
  <2> QED BY <2>1, <2>2, <2>3
<1>6. /\ Layout(c, h.size)
      /\ Len(Whole(c)) = Len(Whole(b)) - 1
      /\ \A k \in 1..(Len(Whole(b)) - 1) : Whole(c)[k] = Whole(b)[k + 1]
  <2> DEFINE z == h.size
             w == Whole(b)
             v == Whole(c)
  <2>1. Shortened(b, 1, 1, c, z) BY <1>1, <1>2, <1>5 DEF Shortened
  <2> HIDE DEF z
  <2>2. Layout(c, z) /\ Len(v) = Len(w) - 1 /\ \A k \in 1..(Len(w) - 1) : v[k] = w[k + 1]
    BY <2>1, DroppedCells
  <2> QED BY <2>2 DEF z
<1>7. Whole(b) \in Seq(Msgs) /\ Len(Whole(b)) = N /\ N \in Nat BY WholeType
<1>8. Whole(c) \in Seq(Msgs) BY <1>6, WholeType
<1>9. Whole(b)[1] = [code |-> b[1].code, body |-> Body(b, 1, b[1].size)]
  <2>1. \A k \in 1..N : Whole(b)[k] = [code |-> b[at[k]].code,
                                       body |-> Body(b, at[k], b[at[k]].size)]
    BY WholeType
  <2> HIDE DEF Whole, N, at
  <2> QED BY <1>2, <2>1
<1>10. Body(b, 1, h.size) = Body(c, 0, h.size)
  <2>1. \A j \in 1..h.size : b[1 + j].byte = c[0 + j].byte
    <3> SUFFICES ASSUME NEW j \in 1..h.size PROVE b[1 + j].byte = c[0 + j].byte OBVIOUS
    <3>1. j \in 1..Len(c) /\ 0 + j = j /\ 1 + j = j + 1 BY <1>1, <1>3, <1>5
    <3> QED BY <1>1, <3>1
  <2> QED BY <2>1 DEF Body
<1>11. Whole(b)[1] = m BY <1>9, <1>10 DEF h
<1>12. m \in Msgs
  <2>1. Whole(b)[1] \in Msgs
    <3> HIDE DEF Whole, Msgs, N
    <3> QED BY <1>2, <1>7
  <2> QED BY <1>11, <2>1
<1>13. Whole(b) = <<m>> \o Whole(c)
  <2> DEFINE w == <<m>> \o Whole(c)
  <2> HIDE DEF Whole, Msgs, m, N
  <2>1. /\ w \in Seq(Msgs) /\ Len(w) = 1 + Len(Whole(c)) /\ w[1] = m
        /\ \A k \in 1..Len(Whole(c)) : w[k + 1] = Whole(c)[k]
    BY <1>8, <1>12
  <2> HIDE DEF w
  <2>2. Len(w) = Len(Whole(b)) /\ Len(w) \in Nat BY <1>6, <1>7, <2>1
  <2>3. ASSUME NEW k \in 1..Len(w) PROVE w[k] = Whole(b)[k]
    <3>1. CASE k = 1 BY <1>11, <2>1, <3>1
    <3>2. CASE k # 1
      <4>1. k - 1 \in 1..(Len(Whole(b)) - 1) /\ (k - 1) + 1 = k BY <2>2, <3>2
      <4>2. Whole(c)[k - 1] = Whole(b)[(k - 1) + 1] BY <1>6, <4>1
      <4>3. w[(k - 1) + 1] = Whole(c)[k - 1] BY <1>6, <2>1, <4>1
      <4> QED BY <4>1, <4>2, <4>3
    <3> QED BY <3>1, <3>2
  <2>4. w = Whole(b) BY <1>7, <2>1, <2>2, <2>3, SeqEqual
  <2> QED BY <2>4 DEF w
<1> QED BY <1>1, <1>3, <1>6, <1>12, <1>13 DEF c, m

\* ReadMsg takes the body; the other messages stay.
LEMMA BodyTaken ==
  ASSUME NEW b, NEW start, Layout(b, start)
  PROVE  /\ Layout(SubSeq(b, start + 1, Len(b)), 0)
         /\ Whole(SubSeq(b, start + 1, Len(b))) = Whole(b)
<1> DEFINE c == SubSeq(b, start + 1, Len(b))
           H == Headers(b)
           N == Cardinality(H)
           at == InOrder(H)
           n == Len(b)
<1>1. b \in Seq(Cells) /\ start \in 0..n /\ n \in Nat BY HeadersAre DEF Layout
<1>2. c \in Seq(Cells) /\ Len(c) = n - start /\ \A i \in 1..Len(c) : c[i] = b[i + start]
  <2> HIDE DEF Cells
  <2> QED BY <1>1
<1>3. (\A i \in 1..start : i \notin H) /\ (start < n => start + 1 \in H) BY DEF Layout
<1>4. H \in SUBSET (1..n) BY <1>1, HeadersAre
<1>5. N \in Nat /\ at \in [1..N -> H]
  BY <1>1, <1>4, PositionsFinite, InOrderEnumerates
<1> HIDE DEF c
<1>6. /\ 0 \in 0..N
      /\ \A k \in 1..N : k <= 0 => at[k] <= start
      /\ \A k \in 1..N : k > 0 => at[k] > start
  <2>1. 0 \in 0..N /\ \A k \in 1..N : k <= 0 => at[k] <= start BY <1>5
  <2>2. ASSUME NEW k \in 1..N PROVE at[k] > start
    <3>1. at[k] \in H /\ at[k] \in 1..n BY <1>4, <1>5
    <3> HIDE DEF at, H, n
    <3> QED BY <1>1, <1>3, <3>1
  <2> QED BY <2>1, <2>2
<1>7. /\ 0 \in 0..Len(c) /\ \A i \in 1..0 : i + start \notin H
      /\ 0 < Len(c) => (0 + 1) + start \in H
  <2>1. 0 \in 0..Len(c) /\ \A i \in 1..0 : i + start \notin H BY <1>1, <1>2
  <2>2. ASSUME 0 < Len(c) PROVE (0 + 1) + start \in H
    <3>1. start < n /\ (0 + 1) + start = start + 1 BY <1>1, <1>2, <2>2
    <3> QED BY <1>3, <3>1
  <2> QED BY <2>1, <2>2
<1>8. /\ Layout(c, 0)
      /\ Len(Whole(c)) = Len(Whole(b)) - 0
      /\ \A k \in 1..(Len(Whole(b)) - 0) : Whole(c)[k] = Whole(b)[k + 0]
  <2>1. Shortened(b, start, 0, c, 0) BY <1>1, <1>2, <1>6, <1>7 DEF Shortened
  <2> HIDE DEF Whole
  <2> QED BY <2>1, DroppedCells
<1>9. Whole(b) \in Seq(Msgs) BY WholeType
<1>10. Whole(c) \in Seq(Msgs) BY <1>8, WholeType
<1>11. Whole(c) = Whole(b)
  <2> HIDE DEF Whole, Msgs
  <2>1. Len(Whole(b)) \in Nat BY <1>9
  <2>2. Len(Whole(c)) = Len(Whole(b)) /\ \A k \in 1..Len(Whole(c)) : Whole(c)[k] = Whole(b)[k]
    BY <1>8, <2>1
  <2> QED BY <1>9, <1>10, <2>2, SeqEqual
<1> QED BY <1>8, <1>11 DEF c

-----------------------------------------------------------------------------
(* The invariant.                                                          *)

Codes == UNION {MsgCodes[s] : s \in Streams}

\* The messages that are sent, with their streams, and the frames they are sent in.
Posts == {m \in [stream : Streams, code : Codes, body : Bodies] : m.code \in MsgCodes[m.stream]}
FrameOf(m) == frame(m.code + offsetOf(m.stream), m.body)
Packets == {[frame |-> FrameOf(m), msg |-> m] : m \in {p \in Posts : FrameOf(p).ok}}

Types ==
  /\ header \in [Streams -> {None} \cup HeaderCells]
  /\ \A s \in Streams : header[s] # None => header[s].code \in MsgCodes[s]
  /\ wire \in Seq(Packets)
  /\ rpc \in {"read", "store", "notify", "exit", "done"}
  /\ rpc \in {"store", "notify"} => rmsg \in Posts
  /\ buf \in [Streams -> Seq(Cells)]
  /\ notify \in [Streams -> BOOLEAN] /\ err \in [Streams -> BOOLEAN]
  /\ pc \in [Streams -> {"idle", "read", "wait", "gone"}]
  /\ hdr \in [Streams -> {None} \cup HeaderCells]
  /\ last \in [Streams -> {None} \cup Msgs]
  /\ open \in BOOLEAN

\* How many bytes of a message whose header was read are to be read.
Rest(h) == IF h = None THEN 0 ELSE h.size

\* A reader never mistakes a byte for a header, or a header for a byte.
InStep == \A s \in Streams : Layout(buf[s], Rest(hdr[s]))

StreamInv == Types /\ InStep /\ NoLostWakeup

\* What a message that is sent consists of.
LEMMA PostIs ==
  ASSUME NEW m \in Posts
  PROVE  /\ m.stream \in Streams /\ m.code \in MsgCodes[m.stream] /\ m.body \in Bodies
         /\ m.code \in Nat /\ m.body \in Seq(Byte) /\ [code |-> m.code, body |-> m.body] \in Msgs
<1>1. m.stream \in Streams /\ m.code \in MsgCodes[m.stream] /\ m.body \in Bodies BY DEF Posts
<1>2. m.code \in Nat BY <1>1, StreamOfCode
<1>3. m.body \in Seq(Byte) BY <1>1, BodiesAssumption DEF Byte
<1> QED BY <1>1, <1>2, <1>3 DEF Msgs

\* A message that is sent is one of the messages of its stream.
LEMMA PostMade ==
  ASSUME NEW s \in Streams, NEW code \in MsgCodes[s], NEW body \in Bodies
  PROVE  [stream |-> s, code |-> code, body |-> body] \in Posts
BY DEF Posts, Codes

\* What a frame on the connection is.
LEMMA PacketIs ==
  ASSUME NEW p \in Packets
  PROVE  p.msg \in Posts /\ p.frame = FrameOf(p.msg) /\ p.frame.ok
<1>1. PICK m \in {q \in Posts : FrameOf(q).ok} : p = [frame |-> FrameOf(m), msg |-> m]
  BY DEF Packets
<1> QED BY <1>1

-----------------------------------------------------------------------------
(* The messages on the connection.                                         *)

Content(p) == [code |-> p.msg.code, body |-> p.msg.body]
Contents(e) == [k \in DOMAIN e |-> Content(e[k])]
Places(w, s) == {i \in DOMAIN w : w[i].msg.stream = s}
WireOf(w, s) == Contents(ElementsAt(w, Places(w, s)))

\* The contents of a sequence of frames.
LEMMA ContentsAre ==
  ASSUME NEW e \in Seq(Packets)
  PROVE  /\ Contents(e) \in Seq(Msgs) /\ Len(Contents(e)) = Len(e)
         /\ \A k \in 1..Len(e) : Contents(e)[k] = Content(e[k])
         /\ \A p \in Packets : Contents(Append(e, p)) = Append(Contents(e), Content(p))
         /\ e # <<>> => Contents(e) = <<Content(e[1])>> \o Contents(Tail(e))
<1>1. \A p \in Packets : Content(p) \in Msgs BY PacketIs, PostIs DEF Content
<1>2. ASSUME NEW f \in Seq(Packets)
      PROVE  /\ Contents(f) \in Seq(Msgs) /\ Len(Contents(f)) = Len(f)
             /\ \A k \in 1..Len(f) : Contents(f)[k] = Content(f[k])
  <2> DEFINE c == Contents(f)
  <2> HIDE DEF Packets, Msgs
  <2>1. Len(f) \in Nat /\ DOMAIN f = 1..Len(f) /\ \A k \in 1..Len(f) : f[k] \in Packets
    OBVIOUS
  <2>2. c = [k \in 1..Len(f) |-> Content(f[k])] BY <2>1 DEF Contents
  <2> HIDE DEF c
  <2>3. c \in [1..Len(f) -> Msgs] BY <1>1, <2>1, <2>2
  <2>4. c \in Seq(Msgs) /\ Len(c) = Len(f) BY <2>1, <2>3
  <2> QED BY <2>2, <2>4 DEF c
<1>3. ASSUME NEW p \in Packets
      PROVE  Contents(Append(e, p)) = Append(Contents(e), Content(p))
  <2> DEFINE f == Append(e, p)
             c == Contents(e)
             x == Content(p)
             d == Append(c, x)
             g == Contents(f)
  <2>1. x \in Msgs BY <1>1
  <2>2. /\ f \in Seq(Packets) /\ Len(e) \in Nat /\ Len(f) = Len(e) + 1 /\ f[Len(e) + 1] = p
        /\ \A k \in 1..Len(e) : f[k] = e[k]
    <3> HIDE DEF Packets
    <3> QED OBVIOUS
  <2>3. c \in Seq(Msgs) /\ Len(c) = Len(e) /\ \A k \in 1..Len(e) : c[k] = Content(e[k])
    BY <1>2
  <2>4. g \in Seq(Msgs) /\ Len(g) = Len(f) /\ \A k \in 1..Len(f) : g[k] = Content(f[k])
    BY <1>2, <2>2
  <2> HIDE DEF f, c, g, x, Packets, Msgs
  <2>5. /\ d \in Seq(Msgs) /\ Len(d) = Len(e) + 1 /\ d[Len(e) + 1] = x
        /\ \A k \in 1..Len(e) : d[k] = c[k]
    BY <2>1, <2>2, <2>3
  <2> HIDE DEF d
  <2>6. ASSUME NEW k \in 1..Len(g) PROVE g[k] = d[k]
    <3>1. CASE k = Len(e) + 1 BY <2>2, <2>4, <2>5, <3>1 DEF x
    <3>2. CASE k # Len(e) + 1
      <4>1. k \in 1..Len(e) BY <2>2, <2>4, <3>2
      <4> QED BY <2>2, <2>3, <2>4, <2>5, <4>1
    <3> QED BY <3>1, <3>2
  <2>7. g = d BY <2>2, <2>4, <2>5, <2>6, SeqEqual
  <2> QED BY <2>7 DEF g, d, f, c, x
<1>4. ASSUME e # <<>> PROVE Contents(e) = <<Content(e[1])>> \o Contents(Tail(e))
  <2> DEFINE f == Tail(e)
             c == Contents(e)
             x == Content(e[1])
             g == Contents(f)
             d == <<x>> \o g
  <2>2. /\ f \in Seq(Packets) /\ Len(e) \in Nat /\ Len(e) >= 1 /\ Len(f) = Len(e) - 1
        /\ e[1] \in Packets
        /\ \A k \in 1..Len(f) : f[k] = e[k + 1]
    <3> HIDE DEF Packets
    <3> QED BY <1>4
  <2>1. x \in Msgs BY <1>1, <2>2
  <2>3. c \in Seq(Msgs) /\ Len(c) = Len(e) /\ \A k \in 1..Len(e) : c[k] = Content(e[k])
    BY <1>2
  <2>4. g \in Seq(Msgs) /\ Len(g) = Len(f) /\ \A k \in 1..Len(f) : g[k] = Content(f[k])
    BY <1>2, <2>2
  <2> HIDE DEF f, c, g, x, Packets, Msgs
  <2>5. /\ d \in Seq(Msgs) /\ Len(d) = 1 + Len(g) /\ d[1] = x
        /\ \A k \in 1..Len(g) : d[k + 1] = g[k]
    BY <2>1, <2>2, <2>4
  <2> HIDE DEF d
  <2>6. ASSUME NEW k \in 1..Len(c) PROVE c[k] = d[k]
    <3>1. CASE k = 1 BY <2>2, <2>3, <2>5, <3>1 DEF x
    <3>2. CASE k # 1
      <4>1. k - 1 \in 1..Len(f) /\ (k - 1) + 1 = k BY <2>2, <2>3, <3>2
      <4>2. f[k - 1] = e[(k - 1) + 1] /\ d[(k - 1) + 1] = g[k - 1] BY <2>2, <2>4, <2>5, <4>1
      <4>3. g[k - 1] = Content(f[k - 1]) BY <2>4, <4>1
      <4> QED BY <2>3, <4>1, <4>2, <4>3
    <3> QED BY <3>1, <3>2
  <2>7. c = d BY <2>2, <2>3, <2>4, <2>5, <2>6, SeqEqual
  <2> QED BY <2>7 DEF g, d, f, c, x
<1> QED BY <1>2, <1>3, <1>4

\* The messages of a stream when a frame is written, and when one is read.
LEMMA WireIs ==
  ASSUME NEW w \in Seq(Packets), NEW s
  PROVE  /\ WireOf(w, s) \in Seq(Msgs)
         /\ \A p \in Packets : p.msg.stream = s
                                 => WireOf(Append(w, p), s) = Append(WireOf(w, s), Content(p))
         /\ \A p \in Packets : p.msg.stream # s => WireOf(Append(w, p), s) = WireOf(w, s)
         /\ w # <<>> /\ w[1].msg.stream = s
              => WireOf(w, s) = <<Content(w[1])>> \o WireOf(Tail(w), s)
         /\ w # <<>> /\ w[1].msg.stream # s => WireOf(w, s) = WireOf(Tail(w), s)
<1> DEFINE I == Places(w, s)
           e == ElementsAt(w, I)
<1>1. /\ I \in SUBSET DOMAIN w /\ DOMAIN w = 1..Len(w) /\ Len(w) \in Nat
      /\ \A i : i \in I <=> i \in 1..Len(w) /\ w[i].msg.stream = s
  <2> HIDE DEF Packets
  <2>1. DOMAIN w = 1..Len(w) /\ Len(w) \in Nat OBVIOUS
  <2> QED BY <2>1 DEF Places
<1>2. e \in Seq(Packets)
  <2> HIDE DEF Packets, I
  <2> QED BY <1>1, ElementsAtPositions
<1>3. WireOf(w, s) = Contents(e) BY DEF WireOf
<1>4. ASSUME NEW p \in Packets
      PROVE  /\ p.msg.stream = s => WireOf(Append(w, p), s) = Append(WireOf(w, s), Content(p))
             /\ p.msg.stream # s => WireOf(Append(w, p), s) = WireOf(w, s)
  <2> DEFINE v == Append(w, p)
             n == Len(w) + 1
  <2> HIDE DEF I, e, Packets
  <2>1. /\ DOMAIN v = 1..n /\ v[n] = p /\ \A i \in 1..Len(w) : v[i] = w[i] OBVIOUS
  <2> HIDE DEF v
  <2>2. \A i : i \in Places(v, s) <=> i \in 1..n /\ v[i].msg.stream = s BY <2>1 DEF Places
  <2>3. \A i : i \in 1..n <=> i \in 1..Len(w) \/ i = n BY <1>1
  <2>4. p.msg.stream = s => Places(v, s) = I \cup {n} BY <1>1, <2>1, <2>2, <2>3
  <2>5. p.msg.stream # s => Places(v, s) = I BY <1>1, <2>1, <2>2, <2>3
  <2>6. ElementsAt(v, I) = e /\ ElementsAt(v, I \cup {n}) = Append(e, p)
    BY <1>1, AppendElements DEF v, e
  <2>7. WireOf(v, s) = Contents(ElementsAt(v, Places(v, s))) BY DEF WireOf
  <2>8. Contents(Append(e, p)) = Append(Contents(e), Content(p)) BY <1>2, ContentsAre
  <2> QED BY <1>3, <2>4, <2>5, <2>6, <2>7, <2>8 DEF v
<1>5. ASSUME w # <<>>
      PROVE  /\ w[1].msg.stream = s => WireOf(w, s) = <<Content(w[1])>> \o WireOf(Tail(w), s)
             /\ w[1].msg.stream # s => WireOf(w, s) = WireOf(Tail(w), s)
  <2> DEFINE v == Tail(w)
             J == {i \in 1..(Len(w) - 1) : i + 1 \in I}
  <2>1. /\ DOMAIN v = 1..(Len(w) - 1) /\ \A i \in 1..(Len(w) - 1) : v[i] = w[i + 1]
        /\ Len(w) >= 1
    <3> HIDE DEF Packets, I
    <3> QED BY <1>5
  <2> HIDE DEF I, e
  <2>6. /\ 1 \notin I => ElementsAt(v, J) = e
        /\ 1 \in I => e # <<>> /\ e[1] = w[1] /\ ElementsAt(v, J) = Tail(e)
    <3> HIDE DEF Packets
    <3> QED BY <1>1, <1>5, TailElements DEF e
  <2> HIDE DEF v, Packets
  <2>2. Places(v, s) = J
    <3>1. \A i : i \in Places(v, s) <=> i \in 1..(Len(w) - 1) /\ v[i].msg.stream = s
      BY <2>1 DEF Places
    <3>2. \A i \in 1..(Len(w) - 1) : i + 1 \in 1..Len(w) BY <1>1
    <3>3. \A i : i \in J <=> i \in 1..(Len(w) - 1) /\ i + 1 \in I OBVIOUS
    <3> HIDE DEF J
    <3>4. ASSUME NEW i \in 1..(Len(w) - 1) PROVE v[i].msg.stream = s <=> i + 1 \in I
      <4>1. v[i] = w[i + 1] /\ i + 1 \in 1..Len(w) BY <2>1, <3>2
      <4> QED BY <1>1, <4>1
    <3>5. \A i : i \in Places(v, s) <=> i \in J BY <3>1, <3>3, <3>4
    <3> QED BY <3>1, <3>3, <3>5
  <2>3. 1 \in I <=> w[1].msg.stream = s BY <1>1, <2>1
  <2>7. WireOf(v, s) = Contents(ElementsAt(v, J)) BY <2>2 DEF WireOf
  <2> HIDE DEF J
  <2>8. e # <<>> => Contents(e) = <<Content(e[1])>> \o Contents(Tail(e)) BY <1>2, ContentsAre
  <2> QED BY <1>3, <2>3, <2>6, <2>7, <2>8 DEF v
<1>6. WireOf(w, s) \in Seq(Msgs) BY <1>2, <1>3, ContentsAre
<1> QED BY <1>4, <1>5, <1>6

-----------------------------------------------------------------------------
(* The messages in a buffer.                                               *)

\* What is in the buffer b of a reader that has read the header h, or None.
BufferOf(h, b) ==
  IF h = None THEN Whole(b)
  ELSE <<[code |-> h.code, body |-> Body(b, 0, h.size)]>> \o Whole(b)

\* A header is not None.
LEMMA HeaderIsNotNone == \A h \in HeaderCells : h # None /\ Rest(h) = h.size
BY NoneAssumption DEF HeaderCells, Rest

\* The messages of a buffer, also when the header of the first was read.
LEMMA BufferType ==
  ASSUME NEW h \in {None} \cup HeaderCells, NEW b, Layout(b, Rest(h))
  PROVE  /\ BufferOf(h, b) \in Seq(Msgs) /\ Whole(b) \in Seq(Msgs)
         /\ h # None => [code |-> h.code, body |-> Body(b, 0, h.size)] \in Msgs
<1>1. Whole(b) \in Seq(Msgs) BY WholeType
<1>2. CASE h = None BY <1>1, <1>2 DEF BufferOf
<1>3. CASE h # None
  <2>1. h \in HeaderCells /\ h.size \in Nat /\ h.code \in Nat BY <1>3, CellKinds
  <2>2. Layout(b, h.size) BY <2>1, HeaderIsNotNone
  <2>3. /\ b \in Seq(Cells) /\ 0 + h.size <= Len(b)
        /\ \A j \in (0 + 1)..(0 + h.size) : j \notin Headers(b)
    <3>1. /\ b \in Seq(Cells) /\ h.size \in 0..Len(b)
          /\ \A j \in 1..h.size : j \notin Headers(b)
      BY <2>2 DEF Layout
    <3>2. 0 + h.size = h.size /\ 0 + 1 = 1 /\ h.size <= Len(b) BY <2>1, <3>1
    <3> QED BY <3>1, <3>2
  <2>4. Body(b, 0, h.size) \in Seq(Byte) BY <2>1, <2>3, BodyType
  <2>5. [code |-> h.code, body |-> Body(b, 0, h.size)] \in Msgs BY <2>1, <2>4 DEF Msgs
  <2> DEFINE m == [code |-> h.code, body |-> Body(b, 0, h.size)]
  <2>6. BufferOf(h, b) = <<m>> \o Whole(b) BY <1>3 DEF BufferOf
  <2> HIDE DEF m, Msgs
  <2>7. BufferOf(h, b) \in Seq(Msgs) BY <1>1, <2>5, <2>6 DEF m
  <2> QED BY <1>1, <2>5, <2>7
<1> QED BY <1>2, <1>3

\* readData appends a message.
LEMMA BufferStored ==
  ASSUME NEW h \in {None} \cup HeaderCells, NEW b, Layout(b, Rest(h)),
         NEW code \in Nat, NEW body \in Seq(Byte)
  PROVE  LET c == b \o <<[code |-> code, size |-> Len(body)]>> \o Bytes(body)
         IN  /\ Layout(c, Rest(h)) /\ c \in Seq(Cells)
             /\ BufferOf(h, c) = BufferOf(h, b) \o <<[code |-> code, body |-> body]>>
<1> DEFINE c == b \o <<[code |-> code, size |-> Len(body)]>> \o Bytes(body)
           m == [code |-> code, body |-> body]
           p == [code |-> h.code, body |-> Body(b, 0, h.size)]
<1>1. /\ Layout(c, Rest(h)) /\ Whole(c) = Append(Whole(b), m)
      /\ Body(c, 0, Rest(h)) = Body(b, 0, Rest(h))
  BY StoredMessage
<1>2. /\ Whole(b) \in Seq(Msgs) /\ m \in Msgs /\ c \in Seq(Cells)
      /\ h # None => p \in Msgs
  BY <1>1, BufferType DEF Msgs, Layout
<1>3. h # None => Rest(h) = h.size BY DEF Rest
<1> HIDE DEF c, m
<1>4. CASE h = None
  <2>1. BufferOf(h, c) = Append(Whole(b), m) /\ BufferOf(h, b) = Whole(b)
    BY <1>1, <1>4 DEF BufferOf
  <2>2. Append(Whole(b), m) = Whole(b) \o <<m>>
    <3> HIDE DEF Msgs
    <3> QED BY <1>2
  <2> QED BY <1>1, <1>2, <2>1, <2>2 DEF c, m
<1>5. CASE h # None
  <2>1. BufferOf(h, b) = <<p>> \o Whole(b) BY <1>5 DEF BufferOf
  <2>2. BufferOf(h, c) = <<p>> \o Append(Whole(b), m) BY <1>1, <1>3, <1>5 DEF BufferOf
  <2>3. <<p>> \o Append(Whole(b), m) = (<<p>> \o Whole(b)) \o <<m>>
    <3>1. p \in Msgs BY <1>2, <1>5
    <3> HIDE DEF Msgs, p
    <3> DEFINE w == Whole(b)
    <3>2. w \in Seq(Msgs) BY <1>2
    <3> HIDE DEF w
    <3>3. <<p>> \in Seq(Msgs) /\ <<m>> \in Seq(Msgs) BY <1>2, <3>1
    <3>4. Append(w, m) = w \o <<m>> BY <1>2, <3>2
    <3>5. <<p>> \o (w \o <<m>>) = (<<p>> \o w) \o <<m>> BY <3>2, <3>3, ConcatAssociative
    <3> QED BY <3>4, <3>5 DEF w
  <2> QED BY <1>1, <1>2, <2>1, <2>2, <2>3 DEF c, m
<1> QED BY <1>4, <1>5

\* Reading a header leaves the messages as they are; one without a body is then complete.
LEMMA BufferHeader ==
  ASSUME NEW b, Layout(b, 0), b # <<>>
  PROVE  LET h == Head(b)
             c == Tail(b)
         IN  /\ h \in HeaderCells /\ Layout(c, h.size) /\ c \in Seq(Cells)
             /\ BufferOf(h, c) = BufferOf(None, b)
             /\ h.size = 0 => /\ [code |-> h.code, body |-> <<>>] \in Msgs
                              /\ BufferOf(None, b)
                                   = <<[code |-> h.code, body |-> <<>>]>> \o BufferOf(None, c)
<1> DEFINE h == Head(b)
           c == Tail(b)
           m == [code |-> h.code, body |-> Body(c, 0, h.size)]
<1>1. h \in HeaderCells /\ m \in Msgs /\ Layout(c, h.size) /\ Whole(b) = <<m>> \o Whole(c)
  BY HeaderTaken
<1>2. h # None /\ c \in Seq(Cells) BY <1>1, HeaderIsNotNone DEF Layout
<1> HIDE DEF h, c
<1>3. /\ BufferOf(h, c) = <<m>> \o Whole(c) /\ BufferOf(None, b) = Whole(b)
      /\ BufferOf(None, c) = Whole(c)
  BY <1>2 DEF BufferOf
<1>4. h.size = 0 => m = [code |-> h.code, body |-> <<>>]
  <2>1. Body(c, 0, 0) = <<>> BY DEF Body
  <2> QED BY <2>1
<1> HIDE DEF m
<1> QED BY <1>1, <1>2, <1>3, <1>4 DEF h, c, m

\* Reading the body takes the first message.
LEMMA BufferBody ==
  ASSUME NEW h \in HeaderCells, NEW b, Layout(b, h.size)
  PROVE  LET c == SubSeq(b, h.size + 1, Len(b))
             m == [code |-> h.code, body |-> Body(b, 0, h.size)]
         IN  /\ Layout(c, 0) /\ c \in Seq(Cells) /\ m \in Msgs
             /\ BufferOf(h, b) = <<m>> \o BufferOf(None, c)
<1> DEFINE c == SubSeq(b, h.size + 1, Len(b))
           m == [code |-> h.code, body |-> Body(b, 0, h.size)]
<1>1. Layout(c, 0) /\ Whole(c) = Whole(b) BY BodyTaken
<1>2. h # None /\ Rest(h) = h.size BY HeaderIsNotNone
<1>3. c \in Seq(Cells) BY <1>1 DEF Layout
<1>4. m \in Msgs BY <1>2, BufferType
<1> HIDE DEF c
<1>5. BufferOf(h, b) = <<m>> \o Whole(b) /\ BufferOf(None, c) = Whole(c)
  BY <1>2 DEF BufferOf
<1> HIDE DEF m
<1> QED BY <1>1, <1>3, <1>4, <1>5 DEF c, m

-----------------------------------------------------------------------------
(* The invariant holds.                                                    *)

\* A writer adds the frame of its message to the connection, or nothing.
LEMMA SentIs ==
  ASSUME wire \in Seq(Packets),
         NEW s \in Streams, NEW code \in MsgCodes[s], NEW body \in Bodies, Send(s, code, body)
  PROVE  \/ wire' = wire
         \/ \E p \in Packets : /\ open /\ wire' = Append(wire, p)
                               /\ p.msg = [stream |-> s, code |-> code, body |-> body]
<1> DEFINE m == [stream |-> s, code |-> code, body |-> body]
           f == frame(code + offsetOf(s), body)
           p == [frame |-> f, msg |-> m]
<1>1. m \in Posts BY PostMade
<1>2. FrameOf(m) = f BY DEF FrameOf
<1>3. open /\ wire' = IF f.ok THEN Append(wire, p) ELSE wire BY DEF Send
<1>4. CASE f.ok
  <2>1. p \in Packets BY <1>1, <1>2, <1>4 DEF Packets
  <2>2. wire' = Append(wire, p) /\ p.msg = m BY <1>3, <1>4
  <2> HIDE DEF p, m, f
  <2> QED BY <1>3, <2>1, <2>2 DEF m
<1>5. CASE ~f.ok BY <1>3, <1>5
<1> QED BY <1>4, <1>5

\* So the connection keeps its type.
LEMMA SentType ==
  ASSUME wire \in Seq(Packets),
         NEW s \in Streams, NEW code \in MsgCodes[s], NEW body \in Bodies, Send(s, code, body)
  PROVE  wire' \in Seq(Packets)
<1> HIDE DEF Packets
<1>1. CASE wire' = wire BY <1>1
<1>2. CASE \E p \in Packets : wire' = Append(wire, p) BY <1>2
<1> QED BY <1>1, <1>2, SentIs

\* recv finds the message that was written, or ends.
LEMMA ReceivedIs ==
  ASSUME wire \in Seq(Packets), RecvFrame
  PROVE  /\ rpc = "read" /\ wire # <<>>
         /\ \/ rpc' = "exit" /\ wire' = wire /\ rmsg' = rmsg
            \/ /\ rpc' = "store" /\ wire' = Tail(wire)
               /\ rmsg' = wire[1].msg /\ wire[1].msg \in Posts
<1> DEFINE p == wire[1]
           q == p.msg
           m == read(p.frame)
<1>1. rpc = "read" /\ wire # <<>> BY DEF RecvFrame
<1>2. p \in Packets /\ Head(wire) = p
  <2> HIDE DEF Packets
  <2> QED BY <1>1
<1>3. q \in Posts /\ p.frame = frame(q.code + offsetOf(q.stream), q.body) /\ p.frame.ok
  BY <1>2, PacketIs DEF FrameOf
<1>4. /\ q.stream \in Streams /\ q.code \in MsgCodes[q.stream]
      /\ q.code \in Nat /\ q.body \in Seq(Byte)
  BY <1>3, PostIs
<1> DEFINE c == q.code + offsetOf(q.stream)
<1>5. /\ offsetOf(q.stream) \in Nat /\ getStream(c) = {q.stream}
      /\ c - offsetOf(q.stream) = q.code
  BY <1>4, StreamOfCode
<1>6. m.ok => m.code = c /\ m.payload = q.body
  <2>1. c \in Nat /\ q.body \in Seq(0..255) BY <1>4, <1>5 DEF Byte
  <2>2. frame(c, q.body).ok /\ m = read(frame(c, q.body)) BY <1>3
  <2> HIDE DEF c, q, m
  <2> QED BY <2>1, <2>2, FrameRead
<1>7. IF m.ok /\ getStream(m.code) # {}
        THEN /\ rpc' = "store" /\ wire' = Tail(wire)
             /\ \E s \in getStream(m.code) :
                  rmsg' = [stream |-> s, code |-> m.code - offsetOf(s), body |-> m.payload]
        ELSE rpc' = "exit" /\ UNCHANGED <<wire, rmsg>>
  BY <1>2 DEF RecvFrame
<1>8. q = [stream |-> q.stream, code |-> q.code, body |-> q.body] BY <1>3 DEF Posts
<1> HIDE DEF m, c, p
<1>9. CASE m.ok /\ getStream(m.code) # {}
  <2>1. m.code = c /\ m.payload = q.body /\ getStream(m.code) = {q.stream} BY <1>5, <1>6, <1>9
  <2>2. rmsg' = [stream |-> q.stream, code |-> c - offsetOf(q.stream), body |-> q.body]
    BY <1>7, <1>9, <2>1
  <2>3. rmsg' = q BY <1>5, <1>8, <2>2
  <2> QED BY <1>1, <1>3, <1>7, <1>9, <2>3 DEF p
<1>10. CASE ~(m.ok /\ getStream(m.code) # {}) BY <1>1, <1>7, <1>10
<1> QED BY <1>9, <1>10

\* The empty buffer and the empty connection.
LEMMA NothingYet ==
  /\ Layout(<<>>, 0) /\ <<>> \in Seq(Cells) /\ <<>> \in Seq(Packets)
  /\ Whole(<<>>) = <<>> /\ \A s : WireOf(<<>>, s) = <<>>
<1>1. <<>> \in Seq(Cells) /\ <<>> \in Seq(Packets) /\ Len(<<>>) = 0 OBVIOUS
<1>2. Headers(<<>>) = {} BY DEF Headers
<1>3. Layout(<<>>, 0) BY <1>1, <1>2 DEF Layout
<1>4. Cardinality({}) = 0 BY FS_EmptySet
<1>5. Whole(<<>>) = <<>>
  <2>1. Whole(<<>>) \in Seq(Msgs) /\ Len(Whole(<<>>)) = 0 BY <1>2, <1>3, <1>4, WholeType
  <2> HIDE DEF Msgs
  <2> QED BY <2>1
<1>6. ASSUME NEW s PROVE WireOf(<<>>, s) = <<>>
  <2>1. Places(<<>>, s) = {} BY DEF Places
  <2>2. ElementsAt(<<>>, {}) = <<>>
    <3>1. ElementsAt(<<>>, {}) = [k \in 1..0 |-> <<>>[InOrder({})[k]]] BY <1>4 DEF ElementsAt
    <3> QED BY <3>1
  <2>3. Contents(<<>>) = <<>> BY DEF Contents
  <2> QED BY <2>1, <2>2, <2>3 DEF WireOf
<1> QED BY <1>1, <1>3, <1>5, <1>6

\* The invariant at the start.
LEMMA StreamInit == Init => StreamInv
<1> SUFFICES ASSUME Init PROVE StreamInv OBVIOUS
<1>1. /\ header = [s \in Streams |-> None] /\ wire = <<>> /\ rpc = "read"
      /\ buf = [s \in Streams |-> <<>>]
      /\ notify = [s \in Streams |-> FALSE] /\ err = [s \in Streams |-> FALSE]
      /\ pc = [s \in Streams |-> "idle"] /\ hdr = [s \in Streams |-> None]
      /\ last = [s \in Streams |-> None] /\ open = TRUE
  BY DEF Init
<1>2. Types
  <2> HIDE DEF HeaderCells, Msgs, Cells, Packets
  <2> QED BY <1>1, NothingYet DEF Types
<1>3. InStep
  <2>1. \A s \in Streams : buf[s] = <<>> /\ Rest(hdr[s]) = 0 BY <1>1 DEF Rest
  <2> QED BY <2>1, NothingYet DEF InStep
<1>4. NoLostWakeup BY <1>1 DEF NoLostWakeup
<1> QED BY <1>2, <1>3, <1>4 DEF StreamInv

\* The writers touch the connection and the headers that wait for their bodies.
LEMMA WriteKeeps ==
  ASSUME StreamInv, NEW s \in Streams, NEW body \in Bodies,
         \/ WriteBody(s, body)
         \/ \E code \in MsgCodes[s] : WriteMsg(s, code, body) \/ WriteHeader(s, code, Len(body))
  PROVE  StreamInv'
<1> USE DEF readers
<1>1. Types BY DEF StreamInv
<1>2. wire \in Seq(Packets) /\ header \in [Streams -> {None} \cup HeaderCells]
  BY <1>1 DEF Types
<1>3. /\ UNCHANGED <<rpc, rmsg, buf, notify, err, readers, open>>
      /\ wire' \in Seq(Packets)
      /\ header' \in [Streams -> {None} \cup HeaderCells]
      /\ \A r \in Streams : header'[r] # None => header'[r].code \in MsgCodes[r]
  <2>1. CASE WriteBody(s, body)
    <3>1. /\ UNCHANGED <<rpc, rmsg, buf, notify, err, readers, open>>
          /\ header' = [header EXCEPT ![s] = None] /\ header[s] # None
          /\ IF Len(body) = header[s].size
               THEN Send(s, header[s].code, body) ELSE UNCHANGED wire
      BY <2>1 DEF WriteBody
    <3>2. header[s].code \in MsgCodes[s] BY <1>1, <3>1 DEF Types
    <3>3. wire' \in Seq(Packets)
      <4>1. CASE Len(body) = header[s].size BY <1>2, <3>1, <3>2, <4>1, SentType
      <4>2. CASE Len(body) # header[s].size BY <1>2, <3>1, <4>2
      <4> QED BY <4>1, <4>2
    <3> HIDE DEF HeaderCells, Packets
    <3> QED BY <1>1, <1>2, <3>1, <3>3 DEF Types
  <2>2. ASSUME NEW code \in MsgCodes[s], WriteMsg(s, code, body)
        PROVE  /\ UNCHANGED <<header, rpc, rmsg, buf, notify, err, readers, open>>
               /\ wire' \in Seq(Packets)
    <3>1. /\ UNCHANGED <<header, rpc, rmsg, buf, notify, err, readers, open>>
          /\ Send(s, code, body)
      BY <2>2 DEF WriteMsg
    <3> QED BY <1>2, <3>1, SentType
  <2>3. ASSUME NEW code \in MsgCodes[s], WriteHeader(s, code, Len(body))
        PROVE  /\ UNCHANGED <<rpc, rmsg, buf, notify, err, readers, open>>
               /\ wire' \in Seq(Packets)
               /\ header' \in [Streams -> {None} \cup HeaderCells]
               /\ \A r \in Streams : header'[r] # None => header'[r].code \in MsgCodes[r]
    <3>1. /\ UNCHANGED <<rpc, rmsg, buf, notify, err, readers, open>>
          /\ IF Len(body) = 0
               THEN Send(s, code, <<>>) /\ UNCHANGED header
               ELSE /\ header' = [header EXCEPT ![s] = [code |-> code, size |-> Len(body)]]
                    /\ UNCHANGED wire
      BY <2>3 DEF WriteHeader
    <3>2. body \in Seq(0..255) /\ Len(body) \in Nat /\ (Len(body) = 0 => body = <<>>)
      BY BodiesAssumption
    <3>3. CASE Len(body) = 0
      <4>1. Send(s, code, body) BY <3>1, <3>2, <3>3
      <4>2. wire' \in Seq(Packets) BY <1>2, <4>1, SentType
      <4> HIDE DEF HeaderCells, Packets
      <4> QED BY <1>1, <1>2, <3>1, <3>3, <4>2 DEF Types
    <3>4. CASE Len(body) # 0
      <4> DEFINE h == [code |-> code, size |-> Len(body)]
      <4>1. h \in HeaderCells /\ h.code = code BY <3>2, StreamOfCode DEF HeaderCells
      <4>2. header' = [header EXCEPT ![s] = h] /\ wire' = wire BY <3>1, <3>4
      <4> HIDE DEF h, HeaderCells, Packets
      <4>3. header' \in [Streams -> {None} \cup HeaderCells] BY <1>2, <4>1, <4>2
      <4>4. \A r \in Streams : header'[r] # None => header'[r].code \in MsgCodes[r]
        BY <1>1, <1>2, <4>1, <4>2 DEF Types
      <4> QED BY <1>2, <3>1, <4>2, <4>3, <4>4
    <3> QED BY <3>3, <3>4
  <2> HIDE DEF HeaderCells, Packets
  <2>4. ASSUME NEW code \in MsgCodes[s], WriteMsg(s, code, body)
        PROVE  /\ header' \in [Streams -> {None} \cup HeaderCells]
               /\ \A r \in Streams : header'[r] # None => header'[r].code \in MsgCodes[r]
    BY <1>1, <2>2, <2>4 DEF Types
  <2> QED BY <2>1, <2>2, <2>3, <2>4
<1> HIDE DEF HeaderCells, Packets, Cells, Msgs, Posts
<1>4. Types' BY <1>1, <1>3 DEF Types
<1>5. InStep' BY <1>3 DEF StreamInv, InStep
<1>6. NoLostWakeup' BY <1>3 DEF StreamInv, NoLostWakeup
<1> QED BY <1>4, <1>5, <1>6 DEF StreamInv

\* recv: the message it has in its hand, the buffer it puts it in, and the notification.
LEMMA RecvKeeps ==
  ASSUME StreamInv, RecvFrame \/ Store \/ Notify \/ Exit
  PROVE  StreamInv'
<1> USE DEF readers, writers
<1>1. Types /\ InStep /\ NoLostWakeup BY DEF StreamInv
<1> HIDE DEF HeaderCells, Packets, Cells, Msgs, Posts
<1>2. CASE RecvFrame
  <2>1. UNCHANGED <<header, nsent, buf, notify, err, readers, open>> BY <1>2 DEF RecvFrame
  <2>2. wire \in Seq(Packets) BY <1>1 DEF Types
  <2>3. /\ rpc = "read" /\ rpc' \in {"exit", "store"} /\ wire' \in Seq(Packets)
        /\ rpc' = "store" => rmsg' \in Posts
    <3>1. rpc = "read" /\ wire # <<>> BY <1>2, <2>2, ReceivedIs
    <3>2. Tail(wire) \in Seq(Packets) BY <2>2, <3>1
    <3> QED BY <1>2, <2>2, <3>1, <3>2, ReceivedIs
  <2>4. Types' BY <1>1, <2>1, <2>3 DEF Types
  <2>5. InStep' BY <1>1, <2>1 DEF InStep
  <2>6. NoLostWakeup' BY <1>1, <2>1, <2>3 DEF NoLostWakeup
  <2> QED BY <2>4, <2>5, <2>6 DEF StreamInv
<1>3. CASE Store
  <2> DEFINE t == rmsg.stream
             c == buf[t] \o <<HeaderOf(rmsg)>> \o Bytes(rmsg.body)
  <2>1. /\ rpc = "store" /\ rpc' = "notify" /\ buf' = [buf EXCEPT ![t] = c]
        /\ UNCHANGED <<writers, rmsg, notify, err, readers, open>>
    BY <1>3 DEF Store
  <2>2. rmsg \in Posts BY <1>1, <2>1 DEF Types
  <2>3. t \in Streams /\ rmsg.code \in Nat /\ rmsg.body \in Seq(Byte) BY <2>2, PostIs
  <2>4. Layout(buf[t], Rest(hdr[t])) /\ hdr[t] \in {None} \cup HeaderCells
    BY <1>1, <2>3 DEF InStep, Types
  <2>5. Layout(c, Rest(hdr[t])) /\ c \in Seq(Cells)
    BY <2>3, <2>4, BufferStored DEF HeaderOf
  <2> HIDE DEF c
  <2>6. Types' BY <1>1, <2>1, <2>2, <2>3, <2>5 DEF Types
  <2>7. InStep' BY <1>1, <2>1, <2>3, <2>5 DEF InStep, Types
  <2>8. NoLostWakeup'
    <3> SUFFICES ASSUME NEW s \in Streams, (pc[s] = "wait")', (buf[s] # <<>>)'
                 PROVE  notify'[s] \/ (rpc' = "notify" /\ rmsg'.stream = s)
      BY DEF NoLostWakeup
    <3>1. CASE s = t BY <2>1, <3>1
    <3>2. CASE s # t
      <4>1. buf[s] # <<>> /\ pc[s] = "wait" BY <1>1, <2>1, <3>2 DEF Types
      <4> QED BY <1>1, <2>1, <4>1 DEF NoLostWakeup
    <3> QED BY <3>1, <3>2
  <2> QED BY <2>6, <2>7, <2>8 DEF StreamInv
<1>4. CASE Notify
  <2>1. /\ rpc = "notify" /\ rpc' = "read" /\ notify' = [notify EXCEPT ![rmsg.stream] = TRUE]
        /\ UNCHANGED <<writers, buf, err, readers, open>>
    BY <1>4 DEF Notify
  <2>2. rmsg.stream \in Streams BY <1>1, <2>1, PostIs DEF Types
  <2>3. Types' BY <1>1, <2>1, <2>2 DEF Types
  <2>4. InStep' BY <1>1, <2>1 DEF InStep
  <2>5. NoLostWakeup'
    <3> SUFFICES ASSUME NEW s \in Streams, pc[s] = "wait", buf[s] # <<>> PROVE notify'[s]
      BY <2>1 DEF NoLostWakeup
    <3>1. notify[s] \/ rmsg.stream = s BY <1>1 DEF NoLostWakeup
    <3>2. notify \in [Streams -> BOOLEAN] BY <1>1 DEF Types
    <3> QED BY <2>1, <2>2, <3>1, <3>2
  <2> QED BY <2>3, <2>4, <2>5 DEF StreamInv
<1>5. CASE Exit
  <2>1. /\ rpc \in {"read", "exit"} /\ rpc' = "done" /\ open' = FALSE /\ wire' = <<>>
        /\ err' = [s \in Streams |-> TRUE]
        /\ UNCHANGED <<header, nsent, rmsg, buf, notify, readers>>
    BY <1>5 DEF Exit
  <2>2. Types' BY <1>1, <2>1, NothingYet DEF Types
  <2>3. InStep' BY <1>1, <2>1 DEF InStep
  <2>4. NoLostWakeup' BY <1>1, <2>1 DEF NoLostWakeup
  <2> QED BY <2>2, <2>3, <2>4 DEF StreamInv
<1> QED BY <1>2, <1>3, <1>4, <1>5

\* The readers: each leaves its buffer at the beginning of a message or of a body.
LEMMA ReadKeeps ==
  ASSUME StreamInv, NEW s \in Streams, Read(s)
  PROVE  StreamInv'
<1> USE DEF readers, writers
<1>1. Types /\ InStep /\ NoLostWakeup BY DEF StreamInv
<1>2. Layout(buf[s], Rest(hdr[s])) /\ hdr[s] \in {None} \cup HeaderCells
  BY <1>1 DEF InStep, Types
<1> HIDE DEF HeaderCells, Packets, Cells, Msgs, Posts
<1>3. CASE ReadMsg(s) \/ Block(s)
  <2>1. /\ pc' = [pc EXCEPT ![s] = "read"] \/ (pc' = [pc EXCEPT ![s] = "wait"] /\ buf[s] = <<>>)
        /\ UNCHANGED <<writers, rpc, rmsg, buf, notify, err, hdr, last, open>>
    BY <1>3 DEF ReadMsg, Block
  <2>2. Types' BY <1>1, <2>1 DEF Types
  <2>3. InStep' BY <1>1, <2>1 DEF InStep
  <2>4. NoLostWakeup' BY <1>1, <2>1 DEF NoLostWakeup, Types
  <2> QED BY <2>2, <2>3, <2>4 DEF StreamInv
<1>4. CASE ReadHeader(s)
  <2> DEFINE h == Head(buf[s])
             c == Tail(buf[s])
             m == [code |-> h.code, body |-> <<>>]
  <2>1. /\ hdr[s] = None /\ buf[s] # <<>> /\ pc[s] = "read"
        /\ buf' = [buf EXCEPT ![s] = c] /\ notify' = [notify EXCEPT ![s] = TRUE]
        /\ UNCHANGED <<writers, rpc, rmsg, err, open>>
    BY <1>4 DEF ReadHeader
  <2>2. \/ /\ h.size = 0 /\ last' = [last EXCEPT ![s] = m] /\ pc' = [pc EXCEPT ![s] = "idle"]
           /\ hdr' = [hdr EXCEPT ![s] = None]
        \/ h.size # 0 /\ hdr' = [hdr EXCEPT ![s] = h] /\ UNCHANGED <<pc, last>>
    BY <1>4 DEF ReadHeader, Return
  <2>3. /\ h \in HeaderCells /\ Layout(c, h.size) /\ c \in Seq(Cells)
        /\ h.size = 0 => m \in Msgs
    <3>1. Layout(buf[s], 0) BY <1>2, <2>1 DEF Rest
    <3> QED BY <2>1, <3>1, BufferHeader
  <2>4. Rest(None) = 0 /\ Rest(h) = h.size BY <2>3, HeaderIsNotNone DEF Rest
  <2> HIDE DEF h, c, m
  <2>5. Types'
    <3>1. /\ hdr' \in [Streams -> {None} \cup HeaderCells]
          /\ last' \in [Streams -> {None} \cup Msgs]
          /\ pc' \in [Streams -> {"idle", "read", "wait", "gone"}]
      <4>1. /\ hdr \in [Streams -> {None} \cup HeaderCells]
            /\ last \in [Streams -> {None} \cup Msgs]
            /\ pc \in [Streams -> {"idle", "read", "wait", "gone"}]
        BY <1>1 DEF Types
      <4>2. CASE h.size = 0 BY <2>2, <2>3, <4>1, <4>2
      <4>3. CASE h.size # 0 BY <2>2, <2>3, <4>1, <4>3
      <4> QED BY <4>2, <4>3
    <3> QED BY <1>1, <2>1, <2>3, <3>1 DEF Types
  <2>6. InStep'
    <3> SUFFICES ASSUME NEW r \in Streams PROVE Layout(buf'[r], Rest(hdr'[r])) BY DEF InStep
    <3>1. CASE r = s
      <4>1. buf'[r] = c /\ Rest(hdr'[r]) = h.size BY <1>1, <2>1, <2>2, <2>4, <3>1 DEF Types
      <4> QED BY <2>3, <4>1
    <3>2. CASE r # s
      <4>1. buf'[r] = buf[r] /\ hdr'[r] = hdr[r] BY <1>1, <2>1, <2>2, <3>2 DEF Types
      <4> QED BY <1>1, <4>1 DEF InStep
    <3> QED BY <3>1, <3>2
  <2>7. NoLostWakeup'
    <3> SUFFICES ASSUME NEW r \in Streams, pc'[r] = "wait", buf'[r] # <<>>
                 PROVE  notify'[r] \/ (rpc' = "notify" /\ rmsg'.stream = r)
      BY DEF NoLostWakeup
    <3>1. r # s BY <1>1, <2>1, <2>2 DEF Types
    <3>2. buf'[r] = buf[r] /\ pc'[r] = pc[r] /\ notify'[r] = notify[r]
      BY <1>1, <2>1, <2>2, <3>1 DEF Types
    <3> QED BY <1>1, <2>1, <3>2 DEF NoLostWakeup
  <2> QED BY <2>5, <2>6, <2>7 DEF StreamInv
<1>5. CASE ReadBody(s)
  <2> DEFINE h == hdr[s]
             c == SubSeq(buf[s], h.size + 1, Len(buf[s]))
             m == [code |-> h.code, body |-> Body(buf[s], 0, h.size)]
  <2>1. /\ h # None /\ buf[s] # <<>> /\ pc[s] = "read"
        /\ buf' = [buf EXCEPT ![s] = c] /\ notify' = [notify EXCEPT ![s] = TRUE]
        /\ last' = [last EXCEPT ![s] = m] /\ pc' = [pc EXCEPT ![s] = "idle"]
        /\ hdr' = [hdr EXCEPT ![s] = None]
        /\ UNCHANGED <<writers, rpc, rmsg, err, open>>
    BY <1>5 DEF ReadBody, Return
  <2>2. h \in HeaderCells BY <1>2, <2>1
  <2>3. Layout(c, 0) /\ c \in Seq(Cells) /\ m \in Msgs
    <3>1. Layout(buf[s], h.size) BY <1>2, <2>2, HeaderIsNotNone
    <3> QED BY <2>2, <3>1, BufferBody
  <2> HIDE DEF h, c, m
  <2>4. Types' BY <1>1, <2>1, <2>3 DEF Types
  <2>5. InStep'
    <3> SUFFICES ASSUME NEW r \in Streams PROVE Layout(buf'[r], Rest(hdr'[r])) BY DEF InStep
    <3>1. CASE r = s
      <4>1. buf'[r] = c /\ Rest(hdr'[r]) = 0 BY <1>1, <2>1, <3>1 DEF Types, Rest
      <4> QED BY <2>3, <4>1
    <3>2. CASE r # s
      <4>1. buf'[r] = buf[r] /\ hdr'[r] = hdr[r] BY <1>1, <2>1, <3>2 DEF Types
      <4> QED BY <1>1, <4>1 DEF InStep
    <3> QED BY <3>1, <3>2
  <2>6. NoLostWakeup'
    <3> SUFFICES ASSUME NEW r \in Streams, pc'[r] = "wait", buf'[r] # <<>>
                 PROVE  notify'[r] \/ (rpc' = "notify" /\ rmsg'.stream = r)
      BY DEF NoLostWakeup
    <3>1. r # s BY <1>1, <2>1 DEF Types
    <3>2. buf'[r] = buf[r] /\ pc'[r] = pc[r] /\ notify'[r] = notify[r]
      BY <1>1, <2>1, <3>1 DEF Types
    <3> QED BY <1>1, <2>1, <3>2 DEF NoLostWakeup
  <2> QED BY <2>4, <2>5, <2>6 DEF StreamInv
<1>6. CASE Woken(s) \/ Failed(s)
  <2>1. /\ pc' = [pc EXCEPT ![s] = "read"] \/ pc' = [pc EXCEPT ![s] = "gone"]
        /\ notify' = [notify EXCEPT ![s] = FALSE] \/ notify' = [notify EXCEPT ![s] = TRUE]
        /\ err' = err \/ err' = [err EXCEPT ![s] = FALSE]
        /\ UNCHANGED <<writers, rpc, rmsg, buf, hdr, last, open>>
    BY <1>6 DEF Woken, Failed
  <2>2. Types' BY <1>1, <2>1 DEF Types
  <2>3. InStep' BY <1>1, <2>1 DEF InStep
  <2>4. NoLostWakeup'
    <3> SUFFICES ASSUME NEW r \in Streams, pc'[r] = "wait", buf'[r] # <<>>
                 PROVE  notify'[r] \/ (rpc' = "notify" /\ rmsg'.stream = r)
      BY DEF NoLostWakeup
    <3>1. r # s BY <1>1, <2>1 DEF Types
    <3>2. pc'[r] = pc[r] /\ notify'[r] = notify[r] BY <1>1, <2>1, <3>1 DEF Types
    <3> QED BY <1>1, <2>1, <3>2 DEF NoLostWakeup
  <2> QED BY <2>2, <2>3, <2>4 DEF StreamInv
<1> QED BY <1>3, <1>4, <1>5, <1>6 DEF Read

\* In every state of a session: what its variables are; that the reader of each stream is at a
\* header when it reads one and at the first of the bytes when it reads a body; and that no
\* wake-up is lost.
THEOREM StreamInvariance == Spec => []StreamInv
<1>1. StreamInv /\ [Next]_vars => StreamInv'
  <2> SUFFICES ASSUME StreamInv, [Next]_vars PROVE StreamInv' OBVIOUS
  <2>1. ASSUME NEW s \in Streams, NEW body \in Bodies,
               \/ WriteBody(s, body)
               \/ \E code \in MsgCodes[s] : \/ WriteMsg(s, code, body)
                                            \/ WriteHeader(s, code, Len(body))
        PROVE  StreamInv'
    BY <2>1, WriteKeeps
  <2>2. CASE RecvFrame \/ Store \/ Notify \/ Exit BY <2>2, RecvKeeps
  <2>3. ASSUME NEW s \in Streams, Read(s) PROVE StreamInv' BY <2>3, ReadKeeps
  <2>4. CASE UNCHANGED vars
    BY <2>4 DEF vars, writers, readers, StreamInv, Types, InStep, NoLostWakeup
  <2> QED BY <2>1, <2>2, <2>3, <2>4 DEF Next
<1> QED BY <1>1, StreamInit, PTL DEF Spec

\* A reader that waits while there is something in its buffer has a notification, or readData is
\* about to make one: between the look at the buffer under recvLock and the wait on recvNotifyCh
\* nothing is missed (rlpx/stream.go).
THEOREM StreamNoLostWakeup == Spec => []NoLostWakeup
<1>1. StreamInv => NoLostWakeup BY DEF StreamInv
<1> QED BY <1>1, StreamInvariance, PTL

-----------------------------------------------------------------------------
(* The streams are channels.                                               *)

HandOf(r, m, s) == IF r = "store" /\ m.stream = s
                     THEN <<[code |-> m.code, body |-> m.body]>> ELSE <<>>

QueueOf(h, b, r, m, w, s) == BufferOf(h, b) \o HandOf(r, m, s) \o WireOf(w, s)

Queues == [s \in Streams |-> Buffered(s) \o InHand(s) \o OnWire(s)]

\* The queues of the channels, now and after a step.
LEMMA QueuesAre ==
  /\ \A s \in Streams : Queues[s] = QueueOf(hdr[s], buf[s], rpc, rmsg, wire, s)
  /\ \A s \in Streams : Queues'[s] = QueueOf(hdr'[s], buf'[s], rpc', rmsg', wire', s)
  /\ DOMAIN Queues = Streams /\ DOMAIN Queues' = Streams
  /\ Queues = [s \in Streams |-> Queues[s]] /\ Queues' = [s \in Streams |-> Queues'[s]]
<1>1. ASSUME NEW s \in Streams
      PROVE  /\ Buffered(s) = BufferOf(hdr[s], buf[s]) /\ InHand(s) = HandOf(rpc, rmsg, s)
             /\ OnWire(s) = WireOf(wire, s)
  BY DEF Buffered, InHand, OnWire, BufferOf, HandOf, WireOf, Places, Contents, Content
<1>2. ASSUME NEW s \in Streams
      PROVE  /\ Buffered(s)' = BufferOf(hdr'[s], buf'[s]) /\ InHand(s)' = HandOf(rpc', rmsg', s)
             /\ OnWire(s)' = WireOf(wire', s)
  BY DEF Buffered, InHand, OnWire, BufferOf, HandOf, WireOf, Places, Contents, Content
<1> QED BY <1>1, <1>2 DEF Queues, QueueOf

\* The parts of a queue.
LEMMA QueueParts ==
  ASSUME StreamInv, NEW s \in Streams
  PROVE  /\ BufferOf(hdr[s], buf[s]) \in Seq(Msgs) /\ HandOf(rpc, rmsg, s) \in Seq(Msgs)
         /\ WireOf(wire, s) \in Seq(Msgs)
<1>1. BufferOf(hdr[s], buf[s]) \in Seq(Msgs)
  BY BufferType DEF StreamInv, InStep, Types
<1>2. WireOf(wire, s) \in Seq(Msgs) BY WireIs DEF StreamInv, Types
<1>3. HandOf(rpc, rmsg, s) \in Seq(Msgs)
  <2>1. rpc = "store" => [code |-> rmsg.code, body |-> rmsg.body] \in Msgs
    BY PostIs DEF StreamInv, Types
  <2> HIDE DEF Msgs
  <2> QED BY <2>1 DEF HandOf
<1> QED BY <1>1, <1>2, <1>3

\* An element between two sequences belongs to either.
LEMMA BetweenParts ==
  ASSUME NEW S, NEW a \in Seq(S), NEW c \in Seq(S), NEW x \in S
  PROVE  /\ a \o <<>> \o (<<x>> \o c) = a \o <<x>> \o c
         /\ (a \o <<x>>) \o <<>> \o c = a \o <<x>> \o c
<1>1. <<x>> \in Seq(S) /\ a \o <<x>> \in Seq(S) OBVIOUS
<1>2. a \o <<>> = a /\ (a \o <<x>>) \o <<>> = a \o <<x>> BY <1>1
<1>3. a \o (<<x>> \o c) = (a \o <<x>>) \o c BY <1>1, ConcatAssociative
<1> QED BY <1>2, <1>3

\* An element after three sequences is after the last of them.
LEMMA AppendToLast ==
  ASSUME NEW S, NEW a \in Seq(S), NEW b \in Seq(S), NEW c \in Seq(S), NEW x \in S
  PROVE  a \o b \o Append(c, x) = Append(a \o b \o c, x)
<1>1. a \o b \in Seq(S) /\ <<x>> \in Seq(S) /\ a \o b \o c \in Seq(S) OBVIOUS
<1>2. Append(c, x) = c \o <<x>> /\ Append(a \o b \o c, x) = (a \o b \o c) \o <<x>> BY <1>1
<1>3. (a \o b) \o (c \o <<x>>) = ((a \o b) \o c) \o <<x>> BY <1>1, ConcatAssociative
<1> QED BY <1>2, <1>3

Push(x, a) == <<x>> \o a
Join(a, b, c) == a \o b \o c

\* d has the elements of a, b and c in this order.
IsJoin(a, b, c, d) ==
  /\ Len(d) = Len(a) + Len(b) + Len(c)
  /\ \A i \in 1..Len(a) : d[i] = a[i]
  /\ \A i \in 1..Len(b) : d[Len(a) + i] = b[i]
  /\ \A i \in 1..Len(c) : d[Len(a) + Len(b) + i] = c[i]

\* The concatenation of three sequences.
LEMMA Joined ==
  ASSUME NEW S, NEW a \in Seq(S), NEW b \in Seq(S), NEW c \in Seq(S)
  PROVE  Join(a, b, c) \in Seq(S) /\ IsJoin(a, b, c, Join(a, b, c))
<1>1. a \o b \in Seq(S) OBVIOUS
<1>2. PICK v \in Seq(S) : v = a \o b BY <1>1
<1>3. /\ Len(a) \in Nat /\ Len(b) \in Nat /\ Len(c) \in Nat /\ Len(v) = Len(a) + Len(b)
      /\ \A i \in 1..Len(a) : v[i] = a[i]
      /\ \A i \in 1..Len(b) : v[Len(a) + i] = b[i]
  BY <1>2
<1>4. v \o c \in Seq(S) OBVIOUS
<1>5. PICK d \in Seq(S) : d = v \o c BY <1>4
<1>6. /\ Len(d) = Len(v) + Len(c)
      /\ \A i \in 1..Len(v) : d[i] = v[i]
      /\ \A i \in 1..Len(c) : d[Len(v) + i] = c[i]
  BY <1>5
<1>7. Join(a, b, c) = d BY <1>2, <1>5 DEF Join
<1>8. ASSUME NEW i \in 1..Len(a) PROVE d[i] = a[i] BY <1>3, <1>6
<1>9. ASSUME NEW i \in 1..Len(b) PROVE d[Len(a) + i] = b[i]
  <2>1. Len(a) + i \in 1..Len(v) BY <1>3
  <2> QED BY <1>3, <1>6, <2>1
<1>10. ASSUME NEW i \in 1..Len(c) PROVE d[Len(a) + Len(b) + i] = c[i] BY <1>3, <1>6
<1>11. IsJoin(a, b, c, d) BY <1>3, <1>6, <1>8, <1>9, <1>10 DEF IsJoin
<1> QED BY <1>7, <1>11

\* What is taken from the first of three sequences is taken from all of them.
LEMMA TakenFromFirst ==
  ASSUME NEW S, NEW x \in S, NEW a \in Seq(S), NEW b \in Seq(S), NEW c \in Seq(S)
  PROVE  /\ Join(Push(x, a), b, c) # <<>> /\ Head(Join(Push(x, a), b, c)) = x
         /\ Tail(Join(Push(x, a), b, c)) = Join(a, b, c)
<1> DEFINE p == Push(x, a)
           q == Join(p, b, c)
           d == Join(a, b, c)
           l == Len(a)
           m == Len(b)
           n == Len(c)
<1>1. l \in Nat /\ m \in Nat /\ n \in Nat OBVIOUS
<1>2. p \in Seq(S) /\ Len(p) = l + 1 /\ p[1] = x /\ \A i \in 1..l : p[i + 1] = a[i]
  BY DEF Push
<1> HIDE DEF p
<1>3. q \in Seq(S) /\ IsJoin(p, b, c, q) /\ d \in Seq(S) /\ IsJoin(a, b, c, d)
  BY <1>2, Joined
<1> HIDE DEF q, d
<1>4. /\ q \in Seq(S) /\ Len(q) = (l + 1) + m + n
      /\ \A i \in 1..(l + 1) : q[i] = p[i]
      /\ \A i \in 1..m : q[(l + 1) + i] = b[i]
      /\ \A i \in 1..n : q[(l + 1) + m + i] = c[i]
  BY <1>2, <1>3 DEF IsJoin
<1>5. /\ d \in Seq(S) /\ Len(d) = l + m + n
      /\ \A i \in 1..l : d[i] = a[i]
      /\ \A i \in 1..m : d[l + i] = b[i]
      /\ \A i \in 1..n : d[l + m + i] = c[i]
  BY <1>3 DEF IsJoin
<1> HIDE DEF l, m, n
<1>6. ASSUME NEW i \in 1..(l + m + n) PROVE q[i + 1] = d[i]
  <2>1. CASE i <= l
    <3>1. i \in 1..l /\ i + 1 \in 1..(l + 1) BY <1>1, <2>1
    <3> QED BY <1>2, <1>4, <1>5, <3>1
  <2>2. CASE i > l /\ i <= l + m
    <3>1. i - l \in 1..m /\ l + (i - l) = i /\ (l + 1) + (i - l) = i + 1 BY <1>1, <2>2
    <3>2. d[l + (i - l)] = b[i - l] /\ q[(l + 1) + (i - l)] = b[i - l] BY <1>4, <1>5, <3>1
    <3> QED BY <3>1, <3>2
  <2>3. CASE i > l + m
    <3> DEFINE k == i - (l + m)
    <3>1. k \in 1..n /\ l + m + k = i /\ (l + 1) + m + k = i + 1 BY <1>1, <2>3
    <3> HIDE DEF k
    <3>2. d[l + m + k] = c[k] /\ q[(l + 1) + m + k] = c[k] BY <1>4, <1>5, <3>1
    <3> QED BY <3>1, <3>2
  <2> QED BY <1>1, <2>1, <2>2, <2>3
<1>7. q # <<>> /\ Head(q) = q[1] /\ q[1] = x
  <2>1. Len(q) > 0 /\ 1 \in 1..(l + 1) BY <1>1, <1>4
  <2> QED BY <1>2, <1>4, <2>1
<1>8. Tail(q) = d
  <2> DEFINE t == Tail(q)
  <2>1. Len(q) - 1 = l + m + n BY <1>1, <1>4
  <2>2. t \in Seq(S) /\ Len(t) = l + m + n /\ \A i \in 1..(l + m + n) : t[i] = q[i + 1]
    BY <1>4, <1>7, <2>1
  <2> HIDE DEF t
  <2>3. t = d BY <1>5, <1>6, <2>2, SeqEqual
  <2> QED BY <2>3 DEF t
<1> QED BY <1>7, <1>8 DEF q, d, p

\* A step of the writers sends a message on a channel, or changes none.
LEMMA WriteRefines ==
  ASSUME StreamInv, NEW s \in Streams, NEW body \in Bodies,
         \/ WriteBody(s, body)
         \/ \E code \in MsgCodes[s] : WriteMsg(s, code, body) \/ WriteHeader(s, code, Len(body))
  PROVE  [Channel!Next]_(Channel!vars)
<1> USE DEF readers
<1>1. Types BY DEF StreamInv
<1>2. wire \in Seq(Packets) BY <1>1 DEF Types
<1>3. /\ UNCHANGED <<rpc, rmsg, buf, hdr, last, open>>
      /\ wire' = wire \/ \E code \in MsgCodes[s] : Send(s, code, body)
  <2>1. CASE WriteBody(s, body)
    <3>1. header[s] # None => header[s].code \in MsgCodes[s] BY <1>1 DEF Types
    <3> QED BY <2>1, <3>1 DEF WriteBody
  <2>2. ASSUME NEW code \in MsgCodes[s], WriteMsg(s, code, body)
        PROVE  UNCHANGED <<rpc, rmsg, buf, hdr, last, open>> /\ Send(s, code, body)
    BY <2>2 DEF WriteMsg
  <2>3. ASSUME NEW code \in MsgCodes[s], WriteHeader(s, code, Len(body))
        PROVE  /\ UNCHANGED <<rpc, rmsg, buf, hdr, last, open>>
               /\ wire' = wire \/ Send(s, code, body)
    <3>1. body \in Seq(0..255) /\ (Len(body) = 0 => body = <<>>) BY BodiesAssumption
    <3> QED BY <2>3, <3>1 DEF WriteHeader
  <2> QED BY <2>1, <2>2, <2>3
<1>4. CASE wire' = wire
  <2>1. Queues' = Queues BY <1>3, <1>4, QueuesAre
  <2> QED BY <1>3, <2>1 DEF Channel!vars, Queues
<1>5. ASSUME NEW code \in MsgCodes[s], NEW p \in Packets, open, wire' = Append(wire, p),
             p.msg = [stream |-> s, code |-> code, body |-> body]
      PROVE  Channel!Next
  <2> DEFINE m == [code |-> code, body |-> body]
  <2>1. Content(p) = m /\ p.msg.stream = s BY <1>5 DEF Content
  <2>2. m \in Messages BY DEF Messages
  <2>3. m \in Msgs
    <3>1. code \in Nat /\ body \in Seq(Byte) BY BodiesAssumption, StreamOfCode DEF Byte
    <3> QED BY <3>1 DEF Msgs
  <2>4. ASSUME NEW r \in Streams, r # s PROVE Queues'[r] = Queues[r]
    <3>1. WireOf(wire', r) = WireOf(wire, r) BY <1>2, <1>5, <2>1, <2>4, WireIs
    <3> QED BY <1>3, <3>1, QueuesAre DEF QueueOf
  <2>5. Queues'[s] = Append(Queues[s], m)
    <3> DEFINE a == BufferOf(hdr[s], buf[s])
               b == HandOf(rpc, rmsg, s)
               c == WireOf(wire, s)
    <3>1. WireOf(wire', s) = Append(c, m) BY <1>2, <1>5, <2>1, WireIs
    <3>2. a \in Seq(Msgs) /\ b \in Seq(Msgs) /\ c \in Seq(Msgs) BY QueueParts
    <3>3. Queues[s] = a \o b \o c /\ Queues'[s] = a \o b \o Append(c, m)
      BY <1>3, <3>1, QueuesAre DEF QueueOf
    <3> HIDE DEF a, b, c, m, Msgs
    <3>4. a \o b \o Append(c, m) = Append(a \o b \o c, m) BY <2>3, <3>2, AppendToLast
    <3> QED BY <3>3, <3>4
  <2> HIDE DEF m
  <2>6. Queues' = [Queues EXCEPT ![s] = Append(@, m)] BY <2>4, <2>5, QueuesAre
  <2>7. Channel!Send(s, m) BY <1>3, <1>5, <2>6 DEF Channel!Send, Queues
  <2> QED BY <2>2, <2>7 DEF Channel!Next
<1>6. ASSUME NEW code \in MsgCodes[s], Send(s, code, body)
      PROVE  [Channel!Next]_(Channel!vars)
  BY <1>2, <1>4, <1>5, <1>6, SentIs
<1> QED BY <1>3, <1>4, <1>6

\* recv moves a message from the connection to its hand and from there to the buffer, which
\* changes no channel; the end of the session takes what is on the connection.
LEMMA RecvRefines ==
  ASSUME StreamInv, RecvFrame \/ Store \/ Notify \/ Exit
  PROVE  [Channel!Next]_(Channel!vars)
<1> USE DEF readers, writers
<1>1. Types /\ InStep BY DEF StreamInv
<1>2. wire \in Seq(Packets) BY <1>1 DEF Types
<1>3. CASE RecvFrame
  <2>1. UNCHANGED <<buf, hdr, last, open>> BY <1>3 DEF RecvFrame
  <2>2. rpc = "read" /\ wire # <<>> BY <1>2, <1>3, ReceivedIs
  <2>3. CASE rpc' = "exit" /\ wire' = wire /\ rmsg' = rmsg
    <3>1. \A s \in Streams : HandOf(rpc', rmsg', s) = HandOf(rpc, rmsg, s)
      BY <2>2, <2>3 DEF HandOf
    <3>2. Queues' = Queues BY <2>1, <2>3, <3>1, QueuesAre DEF QueueOf
    <3> QED BY <2>1, <3>2 DEF Channel!vars, Queues
  <2>4. CASE rpc' = "store" /\ wire' = Tail(wire) /\ rmsg' = wire[1].msg /\ rmsg' \in Posts
    <3>1. ASSUME NEW s \in Streams PROVE Queues'[s] = Queues[s]
      <4> DEFINE a == BufferOf(hdr[s], buf[s])
                 c == WireOf(wire', s)
                 m == Content(wire[1])
      <4>1. Queues[s] = a \o <<>> \o WireOf(wire, s) BY <2>2, QueuesAre DEF QueueOf, HandOf
      <4>2. Queues'[s] = a \o HandOf("store", rmsg', s) \o c
        BY <2>1, <2>4, QueuesAre DEF QueueOf
      <4>3. CASE wire[1].msg.stream = s
        <5>1. WireOf(wire, s) = <<m>> \o c BY <1>2, <2>2, <2>4, <4>3, WireIs
        <5>2. HandOf("store", rmsg', s) = <<m>> BY <2>4, <4>3 DEF HandOf, Content
        <5>3. m \in Msgs BY <2>4, PostIs DEF Content
        <5>4. a \in Seq(Msgs) BY QueueParts
        <5>5. c \in Seq(Msgs)
          <6>1. wire' \in Seq(Packets)
            <7> HIDE DEF Packets
            <7> QED BY <1>2, <2>2, <2>4
          <6> QED BY <6>1, WireIs
        <5> HIDE DEF a, c, m, Msgs
        <5>6. a \o <<>> \o (<<m>> \o c) = a \o <<m>> \o c BY <5>3, <5>4, <5>5, BetweenParts
        <5> QED BY <4>1, <4>2, <5>1, <5>2, <5>6
      <4>4. CASE wire[1].msg.stream # s
        <5>1. WireOf(wire, s) = c BY <1>2, <2>2, <2>4, <4>4, WireIs
        <5>2. HandOf("store", rmsg', s) = <<>> BY <2>4, <4>4 DEF HandOf
        <5> QED BY <4>1, <4>2, <5>1, <5>2
      <4> QED BY <4>3, <4>4
    <3>2. Queues' = Queues BY <3>1, QueuesAre
    <3> QED BY <2>1, <3>2 DEF Channel!vars, Queues
  <2> QED BY <1>2, <1>3, <2>3, <2>4, ReceivedIs
<1>4. CASE Store
  <2> DEFINE t == rmsg.stream
             m == [code |-> rmsg.code, body |-> rmsg.body]
             b == buf[t] \o <<HeaderOf(rmsg)>> \o Bytes(rmsg.body)
  <2>1. /\ rpc = "store" /\ rpc' = "notify" /\ buf' = [buf EXCEPT ![t] = b]
        /\ UNCHANGED <<wire, rmsg, hdr, last, open>>
    BY <1>4 DEF Store
  <2>2. rmsg \in Posts BY <1>1, <2>1 DEF Types
  <2>3. t \in Streams /\ rmsg.code \in Nat /\ rmsg.body \in Seq(Byte) /\ m \in Msgs
    BY <2>2, PostIs
  <2>4. Layout(buf[t], Rest(hdr[t])) /\ hdr[t] \in {None} \cup HeaderCells
    BY <1>1, <2>3 DEF InStep, Types
  <2>5. BufferOf(hdr[t], b) = BufferOf(hdr[t], buf[t]) \o <<m>>
    BY <2>3, <2>4, BufferStored DEF HeaderOf
  <2>6. buf \in [Streams -> Seq(Cells)] BY <1>1 DEF Types
  <2> HIDE DEF b
  <2>7. buf'[t] = b /\ \A s \in Streams : s # t => buf'[s] = buf[s]
    BY <2>1, <2>3, <2>6
  <2>8. ASSUME NEW s \in Streams PROVE Queues'[s] = Queues[s]
    <3> DEFINE a == BufferOf(hdr[s], buf[s])
               c == WireOf(wire, s)
    <3>1. Queues[s] = a \o HandOf("store", rmsg, s) \o c BY <2>1, QueuesAre DEF QueueOf
    <3>2. Queues'[s] = BufferOf(hdr[s], buf'[s]) \o <<>> \o c
      BY <2>1, QueuesAre DEF QueueOf, HandOf
    <3>3. a \in Seq(Msgs) /\ c \in Seq(Msgs) BY QueueParts
    <3>4. CASE s = t
      <4>1. HandOf("store", rmsg, s) = <<m>> BY <3>4 DEF HandOf
      <4>2. BufferOf(hdr[s], buf'[s]) = a \o <<m>> BY <2>5, <2>7, <3>4
      <4> HIDE DEF a, c, m, Msgs
      <4>3. (a \o <<m>>) \o <<>> \o c = a \o <<m>> \o c BY <2>3, <3>3, BetweenParts
      <4> QED BY <3>1, <3>2, <4>1, <4>2, <4>3
    <3>5. CASE s # t
      <4>1. HandOf("store", rmsg, s) = <<>> /\ buf'[s] = buf[s] BY <2>7, <3>5 DEF HandOf
      <4> QED BY <3>1, <3>2, <4>1
    <3> QED BY <3>4, <3>5
  <2>9. Queues' = Queues BY <2>8, QueuesAre
  <2> QED BY <2>1, <2>9 DEF Channel!vars, Queues
<1>5. CASE Notify
  <2>1. rpc = "notify" /\ rpc' = "read" /\ UNCHANGED <<wire, buf, hdr, last, open>>
    BY <1>5 DEF Notify
  <2>2. \A s \in Streams : HandOf(rpc', rmsg', s) = HandOf(rpc, rmsg, s) BY <2>1 DEF HandOf
  <2>3. Queues' = Queues BY <2>1, <2>2, QueuesAre DEF QueueOf
  <2> QED BY <2>1, <2>3 DEF Channel!vars, Queues
<1>6. CASE Exit
  <2>1. /\ rpc \in {"read", "exit"} /\ rpc' = "done" /\ open' = FALSE /\ wire' = <<>>
        /\ UNCHANGED <<rmsg, buf, hdr, last>>
    BY <1>6 DEF Exit
  <2>2. ASSUME NEW s \in Streams PROVE Channel!IsPrefix(Queues'[s], Queues[s])
    <3> DEFINE a == BufferOf(hdr[s], buf[s])
               c == WireOf(wire, s)
    <3>1. a \in Seq(Msgs) /\ c \in Seq(Msgs) BY QueueParts
    <3>2. Queues[s] = a \o <<>> \o c BY <2>1, QueuesAre DEF QueueOf, HandOf
    <3>3. Queues'[s] = a \o <<>> \o <<>>
      <4>1. WireOf(wire', s) = <<>> BY <2>1, NothingYet
      <4>2. HandOf(rpc', rmsg', s) = <<>> BY <2>1 DEF HandOf
      <4>3. Queues'[s] = BufferOf(hdr'[s], buf'[s]) \o HandOf(rpc', rmsg', s) \o WireOf(wire', s)
        BY QueuesAre DEF QueueOf
      <4> QED BY <2>1, <4>1, <4>2, <4>3
    <3> HIDE DEF a, c, Msgs
    <3>4. a \o <<>> \o <<>> = a /\ a \o <<>> = a BY <3>1
    <3>5. Len(a) <= Len(a \o c) /\ Len(a) \in Nat BY <3>1
    <3>6. SubSeq(a \o c, 1, Len(a)) = a BY <3>1, FirstPart
    <3>7. SubSeq(a, 1, Len(a)) = a BY <3>1
    <3> QED BY <3>2, <3>3, <3>4, <3>5, <3>6, <3>7 DEF Channel!IsPrefix
  <2>3. Channel!End BY <2>1, <2>2, QueuesAre DEF Channel!End, Queues
  <2> QED BY <2>3 DEF Channel!Next
<1> QED BY <1>3, <1>4, <1>5, <1>6

\* A reader that has read a message has received the first of its channel.
LEMMA ReadRefines ==
  ASSUME StreamInv, NEW s \in Streams, Read(s)
  PROVE  [Channel!Next]_(Channel!vars)
<1> USE DEF readers, writers
<1>1. Types /\ InStep BY DEF StreamInv
<1>2. Layout(buf[s], Rest(hdr[s])) /\ hdr[s] \in {None} \cup HeaderCells
  BY <1>1 DEF InStep, Types
<1>3. /\ buf \in [Streams -> Seq(Cells)] /\ hdr \in [Streams -> {None} \cup HeaderCells]
  BY <1>1 DEF Types
<1> DEFINE b == HandOf(rpc, rmsg, s)
           c == WireOf(wire, s)
<1>4. b \in Seq(Msgs) /\ c \in Seq(Msgs) BY QueueParts
<1> HIDE DEF HeaderCells, Cells
\* A message m is taken from the front of the buffer.
<1>5. ASSUME NEW m \in Msgs, UNCHANGED <<wire, rpc, rmsg, open>>,
             \A r \in Streams : r # s => buf'[r] = buf[r] /\ hdr'[r] = hdr[r],
             BufferOf(hdr'[s], buf'[s]) \in Seq(Msgs),
             BufferOf(hdr[s], buf[s]) = <<m>> \o BufferOf(hdr'[s], buf'[s]),
             last' = [last EXCEPT ![s] = m]
      PROVE  Channel!Receive(s)
  <2> DEFINE a == BufferOf(hdr'[s], buf'[s])
  <2>1. Queues[s] = (<<m>> \o a) \o b \o c BY <1>5, QueuesAre DEF QueueOf
  <2>2. Queues'[s] = a \o b \o c BY <1>5, QueuesAre DEF QueueOf
  <2>3. ASSUME NEW r \in Streams, r # s PROVE Queues'[r] = Queues[r]
    <3>1. QueueOf(hdr'[r], buf'[r], rpc', rmsg', wire', r)
            = QueueOf(hdr[r], buf[r], rpc, rmsg, wire, r)
      BY <1>5, <2>3
    <3> QED BY <3>1, QueuesAre
  <2>4. a \in Seq(Msgs) BY <1>5
  <2> HIDE DEF a, b, c, Msgs
  <2>5. Queues[s] # <<>> /\ Head(Queues[s]) = m /\ Tail(Queues[s]) = Queues'[s]
    <3> DEFINE q == Join(Push(m, a), b, c)
               d == Join(a, b, c)
    <3>1. Queues[s] = q /\ Queues'[s] = d BY <2>1, <2>2 DEF Join, Push
    <3>2. q # <<>> /\ Head(q) = m /\ Tail(q) = d BY <1>4, <1>5, <2>4, TakenFromFirst
    <3> HIDE DEF q, d
    <3> QED BY <3>1, <3>2
  <2>6. Queues' = [Queues EXCEPT ![s] = Tail(@)] BY <2>3, <2>5, QueuesAre
  <2>7. /\ Queues[s] # <<>> /\ last' = [last EXCEPT ![s] = Head(Queues[s])]
        /\ Queues' = [Queues EXCEPT ![s] = Tail(@)] /\ open' = open
    BY <1>5, <2>5, <2>6
  <2> QED BY <2>7 DEF Channel!Receive, Queues
<1>6. CASE ReadHeader(s)
  <2> DEFINE h == Head(buf[s])
             d == Tail(buf[s])
             m == [code |-> h.code, body |-> <<>>]
  <2>1. /\ hdr[s] = None /\ buf[s] # <<>> /\ buf' = [buf EXCEPT ![s] = d]
        /\ UNCHANGED <<wire, rpc, rmsg, open>>
    BY <1>6 DEF ReadHeader
  <2>2. Layout(buf[s], 0) BY <1>2, <2>1 DEF Rest
  <2>3. /\ h \in HeaderCells /\ Layout(d, h.size) /\ BufferOf(h, d) = BufferOf(None, buf[s])
        /\ h.size = 0 => m \in Msgs /\ BufferOf(None, buf[s]) = <<m>> \o BufferOf(None, d)
    BY <2>1, <2>2, BufferHeader
  <2>4. CASE h.size = 0
    <3>1. hdr' = [hdr EXCEPT ![s] = None] /\ last' = [last EXCEPT ![s] = m]
      BY <1>6, <2>4 DEF ReadHeader, Return
    <3> HIDE DEF h, d, m
    <3>2. /\ buf'[s] = d /\ hdr'[s] = None
          /\ \A r \in Streams : r # s => buf'[r] = buf[r] /\ hdr'[r] = hdr[r]
      BY <1>3, <2>1, <3>1
    <3>3. BufferOf(None, d) \in Seq(Msgs)
      <4>1. Layout(d, Rest(None)) BY <2>3, <2>4 DEF Rest
      <4> QED BY <4>1, BufferType
    <3>4. Channel!Receive(s) BY <1>5, <2>1, <2>3, <2>4, <3>1, <3>2, <3>3
    <3> QED BY <3>4 DEF Channel!Next
  <2>5. CASE h.size # 0
    <3>1. hdr' = [hdr EXCEPT ![s] = h] /\ last' = last BY <1>6, <2>5 DEF ReadHeader
    <3> HIDE DEF h, d, m
    <3>2. /\ buf'[s] = d /\ hdr'[s] = h
          /\ \A r \in Streams : r # s => buf'[r] = buf[r] /\ hdr'[r] = hdr[r]
      BY <1>3, <2>1, <2>3, <3>1
    <3>3. \A r \in Streams : BufferOf(hdr'[r], buf'[r]) = BufferOf(hdr[r], buf[r])
      BY <2>1, <2>3, <3>2
    <3>4. \A r \in Streams : Queues'[r] = Queues[r] BY <2>1, <3>3, QueuesAre DEF QueueOf
    <3>5. Queues' = Queues BY <3>4, QueuesAre
    <3> QED BY <2>1, <3>1, <3>5 DEF Channel!vars, Queues
  <2> QED BY <2>4, <2>5
<1>7. CASE ReadBody(s)
  <2> DEFINE h == hdr[s]
             d == SubSeq(buf[s], h.size + 1, Len(buf[s]))
             m == [code |-> h.code, body |-> Body(buf[s], 0, h.size)]
  <2>1. /\ h # None /\ buf' = [buf EXCEPT ![s] = d]
        /\ last' = [last EXCEPT ![s] = m] /\ hdr' = [hdr EXCEPT ![s] = None]
        /\ UNCHANGED <<wire, rpc, rmsg, open>>
    BY <1>7 DEF ReadBody, Return
  <2>2. h \in HeaderCells BY <1>2, <2>1
  <2>3. Layout(d, 0) /\ m \in Msgs /\ BufferOf(h, buf[s]) = <<m>> \o BufferOf(None, d)
    <3>1. Layout(buf[s], h.size) BY <1>2, <2>2, HeaderIsNotNone
    <3> QED BY <2>2, <3>1, BufferBody
  <2> HIDE DEF d, m
  <2>4. /\ buf'[s] = d /\ hdr'[s] = None
        /\ \A r \in Streams : r # s => buf'[r] = buf[r] /\ hdr'[r] = hdr[r]
    BY <1>3, <2>1
  <2>5. BufferOf(None, d) \in Seq(Msgs)
    <3>1. Layout(d, Rest(None)) BY <2>3 DEF Rest
    <3> QED BY <3>1, BufferType
  <2>6. Channel!Receive(s) BY <1>5, <2>1, <2>3, <2>4, <2>5
  <2> QED BY <2>6 DEF Channel!Next
<1>8. CASE ReadMsg(s) \/ Block(s) \/ Woken(s) \/ Failed(s)
  <2>1. UNCHANGED <<wire, rpc, rmsg, buf, hdr, last, open>>
    BY <1>8 DEF ReadMsg, Block, Woken, Failed
  <2>2. Queues' = Queues BY <2>1, QueuesAre
  <2> QED BY <2>1, <2>2 DEF Channel!vars, Queues
<1> QED BY <1>6, <1>7, <1>8 DEF Read

\* The streams of a session implement the channels of MessageChannel: the frames of several
\* writers share a connection, messages without a body and messages with one share a buffer, and
\* still each protocol reads what was written on its stream, in order, once and unchanged, with
\* the codes it was written with, until the session ends (rlpx/session.go, rlpx/stream.go).
THEOREM StreamIsChannel == Spec => IsChannel
<1>1. Init => Channel!Init
  <2> SUFFICES ASSUME Init PROVE Channel!Init OBVIOUS
  <2>1. /\ wire = <<>> /\ rpc = "read" /\ buf = [s \in Streams |-> <<>>]
        /\ hdr = [s \in Streams |-> None] /\ last = [s \in Streams |-> None] /\ open = TRUE
    BY DEF Init
  <2>2. ASSUME NEW s \in Streams PROVE Queues[s] = <<>>
    <3>1. BufferOf(hdr[s], buf[s]) = <<>> BY <2>1, NothingYet DEF BufferOf
    <3>2. HandOf(rpc, rmsg, s) = <<>> /\ WireOf(wire, s) = <<>> BY <2>1, NothingYet DEF HandOf
    <3>3. Queues[s] = BufferOf(hdr[s], buf[s]) \o HandOf(rpc, rmsg, s) \o WireOf(wire, s)
      BY QueuesAre DEF QueueOf
    <3> QED BY <3>1, <3>2, <3>3
  <2>3. Queues = [s \in Streams |-> <<>>] BY <2>2, QueuesAre
  <2> QED BY <2>1, <2>3 DEF Channel!Init, Queues
<1>2. StreamInv /\ [Next]_vars => [Channel!Next]_(Channel!vars)
  <2> SUFFICES ASSUME StreamInv, [Next]_vars PROVE [Channel!Next]_(Channel!vars) OBVIOUS
  <2>1. ASSUME NEW s \in Streams, NEW body \in Bodies,
               \/ WriteBody(s, body)
               \/ \E code \in MsgCodes[s] : \/ WriteMsg(s, code, body)
                                            \/ WriteHeader(s, code, Len(body))
        PROVE  [Channel!Next]_(Channel!vars)
    BY <2>1, WriteRefines
  <2>2. CASE RecvFrame \/ Store \/ Notify \/ Exit BY <2>2, RecvRefines
  <2>3. ASSUME NEW s \in Streams, Read(s) PROVE [Channel!Next]_(Channel!vars)
    BY <2>3, ReadRefines
  <2>4. CASE UNCHANGED vars
    <3>1. UNCHANGED <<wire, rpc, rmsg, buf, hdr, last, open>>
      BY <2>4 DEF vars, writers, readers
    <3>2. Queues' = Queues BY <3>1, QueuesAre
    <3> QED BY <3>1, <3>2 DEF Channel!vars, Queues
  <2> QED BY <2>1, <2>2, <2>3, <2>4 DEF Next
<1> QED BY <1>1, <1>2, StreamInvariance, PTL DEF Spec, IsChannel, Channel!Spec
=============================================================================
