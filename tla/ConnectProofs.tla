--------------------------- MODULE ConnectProofs ---------------------------
(***************************************************************************)
(* Theorems about Connect, for any finite set of protocols, any two lists  *)
(* of capabilities and any capacity of sessionCh.                          *)
(***************************************************************************)
EXTENDS Connect, SubsequencesProofs

Labels == {"makeAuth", "readAuth", "makeResp", "readResp", "proto", "negotiate", "offer", "open",
           "unmatched", "dropped", "failed", "ended", "crashed", "hung"}

Progress == {"none", "run", "ok", "err"}

\* The handshake is under way and the encryption handshake is not over.
PreProto(e) == pc[e] \in {"makeAuth", "readAuth", "makeResp", "readResp"}

\* The key each end takes for that of the other, and the MAC it writes with.
Remote(e) == IF e = "client" THEN dialled ELSE "client"

Egress(e) == IF e = "client" THEN "auth" ELSE "resp"

\* What is sent to e: one packet of the encryption handshake, one Info, and messages on
\* the streams of the other end.
Opener(e) == IF e = "client" THEN [type |-> "resp", to |-> "client"]
             ELSE [type |-> "auth", to |-> dialled]

InfoTo(e) == [type |-> "info", mac |-> Egress(Other(e)), snappy |-> FALSE,
              body |-> [id |-> infoID[Other(e)], caps |-> caps[Other(e)]]]

MsgTo(e, i) == [type |-> "msg", mac |-> Egress(Other(e)), snappy |-> TRUE,
                body |-> [code |-> i, proto |-> Common(Other(e))[i]]]

MsgsTo(e) == {MsgTo(e, i) : i \in 1..Len(Common(Other(e)))}

PacketsTo(e) == {Opener(e), InfoTo(e)} \cup MsgsTo(e)

\* What is left of it when e has read the first k packets, in the order of the writes.
Rest(e, k, s) ==
  \A i \in 1..Len(s) : /\ i + k = 1 => s[i] = Opener(e)
                       /\ i + k = 2 => s[i] = InfoTo(e)
                       /\ i + k > 2 => s[i] \in MsgsTo(e)

\* How many of the first two packets e has read (3: it reads no more), and how many of
\* them it has written while it can write more.
Read(e) ==
  IF pc[e] \in {"makeAuth", "readAuth", "readResp"} THEN 0
  ELSE IF pc[e] = "makeResp" \/ (pc[e] = "proto" /\ reader[e] = "run") THEN 1
  ELSE IF HasRecv(e) \/ (pc[e] = "proto" /\ reader[e] = "ok") THEN 2
  ELSE 3

CanWrite(e) == PreProto(e) \/ (pc[e] = "proto" /\ writer[e] # "err") \/ HasRecv(e)

Written(e) ==
  IF pc[e] \in {"makeAuth", "readAuth", "makeResp"} THEN 0
  ELSE IF pc[e] = "readResp" \/ (pc[e] = "proto" /\ writer[e] = "run") THEN 1
  ELSE 2

-----------------------------------------------------------------------------
(* The parts of the invariant.                                             *)

Types ==
  /\ dialled \in {"server", "other"} /\ infoID \in [Ends -> {"client", "server", "other"}]
  /\ caps \in [Ends -> CapLists]
  /\ pc \in [Ends -> Labels]
  /\ writer \in [Ends -> Progress] /\ reader \in [Ends -> Progress]
  /\ DOMAIN ch = Ends /\ \A e \in Ends : ch[e] \in Seq(PacketsTo(e))
  /\ closed \subseteq Ends /\ sent \subseteq Ends
  /\ DOMAIN secrets = Ends /\ snappy \in [Ends -> BOOLEAN]
  /\ streams \in [Ends -> Seq(Protocols)] /\ DOMAIN got = Ends
  /\ fault \in BOOLEAN

\* What an end has at each point of its handshake.
Local(e) ==
  /\ pc[e] \in {"makeAuth", "readResp"} => e = "client"
  /\ pc[e] \in {"readAuth", "makeResp", "offer"} => e = "server"
  /\ e \in closed => pc[e] \in {"failed", "ended", "crashed"}
  /\ writer[e] = "run" \/ reader[e] = "run" => pc[e] = "proto" \/ e \in closed
  /\ PreProto(e) => writer[e] = "none" /\ reader[e] = "none"
  /\ pc[e] = "proto" => writer[e] # "none" /\ reader[e] # "none"
  /\ HasRecv(e) => writer[e] = "ok" /\ reader[e] = "ok"
  /\ pc[e] = "proto" \/ HasRecv(e) => secrets[e] = Secrets(e, Remote(e))
  /\ PreProto(e) \/ pc[e] = "proto" => ~snappy[e] /\ streams[e] = <<>> /\ e \notin sent
  /\ HasRecv(e) => snappy[e]

\* What is on its way to an end is what it has not read of what was written.
InTransit(e) ==
  Read(e) < 3 =>
    /\ Rest(e, Read(e), ch[e])
    /\ CanWrite(Other(e)) /\ Other(e) \notin sent => Len(ch[e]) + Read(e) = Written(Other(e))

\* Whoever is past the first packet was dialled, or has dialled, with the server's key.
Dialled ==
  /\ pc["server"] \in {"makeResp", "proto"} \/ HasRecv("server") => dialled = "server"
  /\ ch["client"] # <<>> \/ pc["client"] = "proto" \/ HasRecv("client") => dialled = "server"

\* Whoever has read the Info found the key of the other end in it.
Identified(e) == Read(e) = 2 => infoID[Other(e)] = Remote(e)

\* The streams are opened in the order of the common protocols.
Opened(e) ==
  /\ Len(streams[e]) <= Len(Common(e))
  /\ \A i \in 1..Len(streams[e]) : streams[e][i] = Common(e)[i]
  /\ pc[e] \in {"offer", "open", "dropped"} => Len(streams[e]) = Len(Common(e))
  /\ pc[e] = "unmatched" => Len(Common(e)) = 0

Delivered(e) ==
  \A g \in got[e] : \E i \in 1..Len(Common(e)) : g = <<Common(Other(e))[i], Common(e)[i]>>

\* No fault and no wrong identity.
Clean == ~fault /\ dialled = "server" /\ \A e \in Ends : infoID[e] = e

\* Then only the crash of one end ends the other.
Blamed(e) ==
  /\ Clean /\ pc[e] \in {"failed", "ended"} => pc[Other(e)] = "crashed"
  /\ Clean /\ pc[e] = "proto" => /\ writer[e] # "err"
                                 /\ reader[e] = "err" => pc[Other(e)] = "crashed"
  /\ pc[e] = "crashed" => fault \/ Len(streams[e]) < Len(Common(e))

\* The parts that are about one end and what it knows of the other.
Own(e) == Local(e) /\ Identified(e) /\ Opened(e) /\ Delivered(e) /\ Blamed(e)

\* The inductive invariant.
ConnectInv == Types /\ Dialled /\ \A e \in Ends : Own(e) /\ InTransit(e)

-----------------------------------------------------------------------------
(* The common protocols.                                                   *)

\* The capabilities are sequences of protocols without repetition.
LEMMA CapsAreLists ==
  ASSUME NEW s \in CapLists
  PROVE  s \in Seq(Protocols) /\ \A i, j \in DOMAIN s : i # j => s[i] # s[j]
<1>1. PICK T \in SUBSET Protocols : s \in SetToSeqs(T) BY DEF CapLists
<1>2. IsFiniteSet(T) BY ProtocolsAssumption, FS_Subset
<1>3. Cardinality(T) \in Nat BY <1>2, FS_CardinalityType
<1>4. s \in [1..Cardinality(T) -> T] /\ \A i, j \in 1..Cardinality(T) : i # j => s[i] # s[j]
  BY <1>1 DEF SetToSeqs
<1>5. s \in [1..Cardinality(T) -> Protocols] BY <1>4
<1> QED BY <1>3, <1>4, <1>5

\* The common protocols of an end are, once each, those that both ends have.
LEMMA CommonIs ==
  ASSUME Types, NEW e \in Ends
  PROVE  /\ Common(e) \in Seq(Protocols) /\ Len(Common(e)) \in Nat
         /\ \A i, j \in 1..Len(Common(e)) : Common(e)[i] = Common(e)[j] => i = j
         /\ ToSet(Common(e)) = ToSet(caps["client"]) \cap ToSet(caps["server"])
<1> DEFINE s == caps[Other(e)]
           I == {i \in DOMAIN s : s[i] \in ToSet(caps[e])}
           c == ElementsAt(s, I)
<1>1. s \in CapLists /\ e \in Ends /\ Other(e) \in Ends BY DEF Types, Ends, Other
<1>2. s \in Seq(Protocols) /\ \A i, j \in DOMAIN s : i # j => s[i] # s[j]
  BY <1>1, CapsAreLists
<1>3. I \in SUBSET DOMAIN s OBVIOUS
<1>4. Common(e) = c BY DEF Common
<1> HIDE DEF c
<1>5. c \in Seq(Protocols) /\ Len(c) \in Nat /\ DOMAIN c = 1..Len(c)
  BY <1>2, <1>3, ElementsAtPositions, LenProperties DEF c
<1>6. /\ \A k \in DOMAIN c : InOrder(I)[k] \in I /\ c[k] = s[InOrder(I)[k]]
      /\ \A i \in I : \E k \in DOMAIN c : c[k] = s[i]
      /\ \A k, l \in DOMAIN c : InOrder(I)[k] = InOrder(I)[l] => k = l
  BY <1>2, <1>3, ElementsAtRange DEF c
<1> HIDE DEF s
<1>7. \A i, j \in DOMAIN c : c[i] = c[j] => i = j
  <2> HIDE DEF I
  <2> QED BY <1>2, <1>3, <1>6
<1>8. ToSet(c) = ToSet(s) \cap ToSet(caps[e])
  <2>1. ASSUME NEW x \in ToSet(c) PROVE x \in ToSet(s) \cap ToSet(caps[e])
    <3>1. PICK k \in DOMAIN c : x = c[k] BY <2>1 DEF ToSet
    <3>2. InOrder(I)[k] \in I /\ x = s[InOrder(I)[k]] BY <1>6, <3>1
    <3> HIDE DEF c
    <3> QED BY <3>2 DEF ToSet
  <2>2. ASSUME NEW x \in ToSet(s) \cap ToSet(caps[e]) PROVE x \in ToSet(c)
    <3>1. PICK i \in DOMAIN s : x = s[i] BY <2>2 DEF ToSet
    <3>2. i \in I BY <2>2, <3>1
    <3>3. PICK k \in DOMAIN c : c[k] = s[i] BY <1>6, <3>2
    <3> QED BY <3>1, <3>3 DEF ToSet
  <2> QED BY <2>1, <2>2
<1>9. ToSet(s) \cap ToSet(caps[e]) = ToSet(caps["client"]) \cap ToSet(caps["server"])
  BY DEF s, Ends, Other
<1> QED BY <1>4, <1>5, <1>7, <1>8, <1>9

\* So both ends count the same number of them.
LEMMA SameLength ==
  ASSUME Types
  PROVE  Len(Common("client")) = Len(Common("server"))
<1> DEFINE T == ToSet(caps["client"]) \cap ToSet(caps["server"])
<1>1. ASSUME NEW e \in Ends PROVE Cardinality(T) = Len(Common(e))
  <2> DEFINE c == Common(e)
  <2>1. /\ c \in Seq(Protocols) /\ Len(c) \in Nat /\ ToSet(c) = T
        /\ \A i, j \in 1..Len(c) : c[i] = c[j] => i = j
    BY CommonIs
  <2> HIDE DEF c, T
  <2>2. DOMAIN c = 1..Len(c) /\ c \in [1..Len(c) -> T] BY <2>1, LenProperties DEF ToSet
  <2>3. \A x \in T : \E i \in 1..Len(c) : c[i] = x BY <2>1, <2>2 DEF ToSet
  <2>4. ExistsBijection(1..Len(c), T)
    BY <2>1, <2>2, <2>3 DEF ExistsBijection, Bijection, Injection, Surjection,
                                      IsInjective
  <2>5. IsFiniteSet(1..Len(c)) /\ Cardinality(1..Len(c)) = Len(c)
    BY <2>1, FS_Interval, IntervalCardinality
  <2> QED BY <2>4, <2>5, FS_Bijection DEF c
<1> QED BY <1>1 DEF Ends

-----------------------------------------------------------------------------
(* What is on its way.                                                     *)

\* The lists of capabilities, the identities and the key that is dialled do not change, and
\* with them what each end may send.
LEMMA ConfKept ==
  ASSUME UNCHANGED conf
  PROVE  \A e \in Ends : /\ Common(e)' = Common(e) /\ Remote(e)' = Remote(e)
                         /\ Opener(e)' = Opener(e) /\ InfoTo(e)' = InfoTo(e)
                         /\ MsgsTo(e)' = MsgsTo(e) /\ PacketsTo(e)' = PacketsTo(e)
<1>1. caps' = caps /\ dialled' = dialled /\ infoID' = infoID BY DEF conf
<1>2. ASSUME NEW e PROVE Common(e)' = Common(e) BY <1>1 DEF Common
<1>3. ASSUME NEW e \in Ends
      PROVE  Remote(e)' = Remote(e) /\ Opener(e)' = Opener(e) /\ InfoTo(e)' = InfoTo(e)
  BY <1>1 DEF Remote, Opener, InfoTo
<1>4. ASSUME NEW e \in Ends PROVE MsgsTo(e)' = MsgsTo(e)
  <2>1. Common(Other(e))' = Common(Other(e)) BY <1>2
  <2> QED BY <2>1 DEF MsgsTo, MsgTo
<1> QED BY <1>2, <1>3, <1>4 DEF PacketsTo

\* The three kinds of packets, as the other end reads them.
LEMMA Kinds ==
  ASSUME NEW e \in Ends
  PROVE  /\ Opener(e).type \notin {"info", "msg"}
         /\ e = "server" => Opener(e).to = dialled
         /\ InfoTo(e).type = "info" /\ InfoTo(e).mac = Egress(Other(e)) /\ ~InfoTo(e).snappy
         /\ InfoTo(e).body.id = infoID[Other(e)]
         /\ \A m \in MsgsTo(e) :
              /\ m.type = "msg" /\ m.mac = Egress(Other(e)) /\ m.snappy = TRUE
              /\ m.body.code \in 1..Len(Common(Other(e)))
              /\ m.body.proto = Common(Other(e))[m.body.code]
BY DEF Ends, Opener, InfoTo, MsgsTo, MsgTo

\* Reading takes the first packet that is left.
LEMMA RestTail ==
  ASSUME NEW e, NEW k \in Nat, NEW S, NEW s \in Seq(S), s # <<>>, Rest(e, k, s)
  PROVE  /\ Rest(e, k + 1, Tail(s)) /\ Len(Tail(s)) + 1 = Len(s)
         /\ k = 0 => Head(s) = Opener(e)
         /\ k = 1 => Head(s) = InfoTo(e)
         /\ k > 1 => Head(s) \in MsgsTo(e)
<1>1. /\ Len(s) \in Nat /\ Len(s) > 0 /\ Head(s) = s[1] /\ Len(Tail(s)) = Len(s) - 1
      /\ \A i \in 1..(Len(s) - 1) : Tail(s)[i] = s[i + 1]
  OBVIOUS
<1>2. Rest(e, k + 1, Tail(s))
  <2> SUFFICES ASSUME NEW i \in 1..Len(Tail(s))
               PROVE  /\ i + (k + 1) = 1 => Tail(s)[i] = Opener(e)
                      /\ i + (k + 1) = 2 => Tail(s)[i] = InfoTo(e)
                      /\ i + (k + 1) > 2 => Tail(s)[i] \in MsgsTo(e)
    BY DEF Rest
  <2>1. i + 1 \in 1..Len(s) /\ Tail(s)[i] = s[i + 1] BY <1>1
  <2> QED BY <2>1 DEF Rest
<1> QED BY <1>1, <1>2 DEF Rest

\* From the third packet on it does not matter how many were read before.
LEMMA RestMessages ==
  ASSUME NEW e, NEW S, NEW s \in Seq(S), Rest(e, 3, s)
  PROVE  Rest(e, 2, s)
<1> SUFFICES ASSUME NEW i \in 1..Len(s)
             PROVE  /\ i + 2 = 1 => s[i] = Opener(e)
                    /\ i + 2 = 2 => s[i] = InfoTo(e)
                    /\ i + 2 > 2 => s[i] \in MsgsTo(e)
  BY DEF Rest
<1> QED BY DEF Rest

\* m is what is sent to e after n packets.
Following(e, n, m) ==
  \/ n = 0 /\ m = Opener(e)
  \/ n = 1 /\ m = InfoTo(e)
  \/ n > 1 /\ m \in MsgsTo(e)

\* Writing adds the next one.
LEMMA RestAppend ==
  ASSUME NEW e, NEW k \in Nat, NEW S, NEW s \in Seq(S), NEW m \in S, Rest(e, k, s),
         Following(e, Len(s) + k, m)
  PROVE  Rest(e, k, Append(s, m)) /\ Len(Append(s, m)) = Len(s) + 1
<1>1. /\ Len(s) \in Nat /\ Len(Append(s, m)) = Len(s) + 1 /\ Append(s, m)[Len(s) + 1] = m
      /\ \A i \in 1..Len(s) : Append(s, m)[i] = s[i]
  OBVIOUS
<1> SUFFICES ASSUME NEW i \in 1..Len(Append(s, m))
             PROVE  /\ i + k = 1 => Append(s, m)[i] = Opener(e)
                    /\ i + k = 2 => Append(s, m)[i] = InfoTo(e)
                    /\ i + k > 2 => Append(s, m)[i] \in MsgsTo(e)
  BY <1>1 DEF Rest
<1>2. CASE i \in 1..Len(s) BY <1>1, <1>2 DEF Rest
<1>3. CASE i = Len(s) + 1 BY <1>1, <1>3 DEF Following
<1> QED BY <1>1, <1>2, <1>3

-----------------------------------------------------------------------------
(* A step is a step of one end.                                            *)

\* Nothing of d changes but what is on its way to it.
Kept(d) ==
  /\ pc'[d] = pc[d] /\ writer'[d] = writer[d] /\ reader'[d] = reader[d]
  /\ secrets'[d] = secrets[d] /\ snappy'[d] = snappy[d] /\ streams'[d] = streams[d]
  /\ got'[d] = got[d]
  /\ d \in closed' <=> d \in closed
  /\ d \in sent' <=> d \in sent

\* Then its stage is the same ...
LEMMA KeptStages ==
  ASSUME NEW d \in Ends, Kept(d)
  PROVE  /\ Read(d)' = Read(d) /\ (CanWrite(d)' <=> CanWrite(d)) /\ Written(d)' = Written(d)
         /\ HasRecv(d)' <=> HasRecv(d)
         /\ PreProto(d)' <=> PreProto(d)
BY DEF Kept, Read, CanWrite, Written, PreProto, HasRecv

\* ... and so is its part of the invariant.
LEMMA KeptParts ==
  ASSUME NEW d \in Ends, Kept(d), UNCHANGED conf, fault => fault', Own(d),
         pc[Other(d)] = "crashed" => pc'[Other(d)] = "crashed"
  PROVE  Own(d)'
<1>1. /\ Common(d)' = Common(d) /\ Common(Other(d))' = Common(Other(d))
      /\ Remote(d)' = Remote(d)
  BY ConfKept DEF Ends, Other
<1>2. Local(d)'
  <2>1. (HasRecv(d)' <=> HasRecv(d)) /\ (PreProto(d)' <=> PreProto(d)) BY KeptStages
  <2>2. Secrets(d, Remote(d))' = Secrets(d, Remote(d)) BY <1>1 DEF Secrets
  <2> QED BY <2>1, <2>2 DEF Kept, Local, Own
<1>3. Opened(d)' BY <1>1 DEF Opened, Kept, Own
<1>4. Delivered(d)' BY <1>1 DEF Delivered, Kept, Own
<1>5. Identified(d)' BY <1>1, KeptStages DEF Identified, Own, conf
<1>6. Blamed(d)' BY <1>1 DEF Blamed, Kept, Clean, Own, conf
<1> QED BY <1>2, <1>3, <1>4, <1>5, <1>6 DEF Own

\* The end reads no more, does not read, or reads the next packet.
OwnStep(e) ==
  \/ Read(e)' = 3
  \/ Read(e)' = Read(e) /\ ch'[e] = ch[e]
  \/ /\ ch[e] # <<>> /\ ch'[e] = Tail(ch[e])
     /\ Read(e)' = IF Read(e) = 2 THEN 2 ELSE Read(e) + 1

\* What is on its way to an end stays in step with what the end has read ...
LEMMA TransitOwn ==
  ASSUME Types, NEW e \in Ends, Kept(Other(e)), UNCHANGED conf, InTransit(e), OwnStep(e)
  PROVE  InTransit(e)'
<1> DEFINE d == Other(e)
<1>1. d \in Ends /\ ch[e] \in Seq(PacketsTo(e)) /\ Read(e) \in 0..3
  BY DEF Types, Ends, Other, Read
<1>2. /\ (CanWrite(d)' <=> CanWrite(d)) /\ Written(d)' = Written(d) /\ (d \in sent' <=> d \in sent)
  BY <1>1, KeptStages DEF Kept
<1>3. \A k, s : Rest(e, k, s)' <=> Rest(e, k, s)
  <2>1. Opener(e)' = Opener(e) /\ InfoTo(e)' = InfoTo(e) /\ MsgsTo(e)' = MsgsTo(e) BY ConfKept
  <2> QED BY <2>1 DEF Rest
<1>4. Written(d) \in 0..2 BY DEF Written
<1>5. Len(ch[e]) \in Nat BY <1>1
<1> HIDE DEF d
<1>6. SUFFICES ASSUME Read(e)' # 3
               PROVE  /\ Rest(e, Read(e)', ch'[e])
                      /\ CanWrite(d) /\ d \notin sent => Len(ch'[e]) + Read(e)' = Written(d)
  BY <1>2, <1>3, <1>6 DEF InTransit, d
<1>7. CASE Read(e)' = Read(e) /\ ch'[e] = ch[e]
  BY <1>1, <1>6, <1>7 DEF InTransit, d
<1>8. CASE ch[e] # <<>> /\ ch'[e] = Tail(ch[e]) /\ Read(e)' = IF Read(e) = 2 THEN 2 ELSE Read(e) + 1
  <2>0. Read(e)' \in 0..3 BY DEF Read
  <2>1. Read(e) \in 0..2 /\ Read(e) \in Nat BY <1>1, <1>6, <1>8, <2>0
  <2>2. Rest(e, Read(e), ch[e]) BY <2>1 DEF InTransit
  <2>3. Rest(e, Read(e) + 1, ch'[e]) /\ Len(ch'[e]) + 1 = Len(ch[e])
    BY <1>1, <1>8, <2>1, <2>2, RestTail
  <2>4. Rest(e, Read(e)', ch'[e])
    <3>1. ch'[e] \in Seq(PacketsTo(e)) BY <1>1, <1>8
    <3>2. CASE Read(e) = 2
      <4>1. Read(e) + 1 = 3 /\ Read(e)' = 2 BY <1>8, <3>2
      <4> QED BY <2>3, <3>1, <4>1, RestMessages
    <3>3. CASE Read(e) # 2 BY <1>8, <2>3, <3>3
    <3> QED BY <3>2, <3>3
  <2>5. ASSUME CanWrite(d), d \notin sent PROVE Len(ch'[e]) + Read(e)' = Written(d)
    <3>1. Len(ch[e]) + Read(e) = Written(d) BY <2>1, <2>5 DEF InTransit, d
    <3>2. Len(ch'[e]) \in Nat BY <1>1, <1>8
    <3> QED BY <1>4, <1>8, <2>1, <2>3, <3>1, <3>2
  <2> QED BY <2>4, <2>5
<1> QED BY <1>6, <1>7, <1>8 DEF OwnStep

\* ... and with what the other end has written, if that does not write, or stops ...
LEMMA TransitOther ==
  ASSUME NEW e \in Ends, Kept(Other(e)), UNCHANGED conf, InTransit(Other(e)),
         ch'[Other(e)] = ch[Other(e)],
         CanWrite(e)' /\ e \notin sent' =>
           CanWrite(e) /\ e \notin sent /\ Written(e)' = Written(e)
  PROVE  InTransit(Other(e))'
<1> DEFINE d == Other(e)
<1>1. d \in Ends /\ Other(d) = e BY DEF Ends, Other
<1>2. Read(d)' = Read(d) BY <1>1, KeptStages
<1>3. \A k, s : Rest(d, k, s)' <=> Rest(d, k, s)
  <2>1. Opener(d)' = Opener(d) /\ InfoTo(d)' = InfoTo(d) /\ MsgsTo(d)' = MsgsTo(d)
    BY <1>1, ConfKept
  <2> QED BY <2>1 DEF Rest
<1> HIDE DEF d
<1> QED BY <1>1, <1>2, <1>3 DEF InTransit, d

\* ... or writes the next packet.
LEMMA TransitWrite ==
  ASSUME Types, NEW e \in Ends, Kept(Other(e)), UNCHANGED conf, InTransit(Other(e)),
         Local(Other(e)), CanWrite(e), e \notin sent,
         NEW m \in PacketsTo(Other(e)), Arrives(e, m),
         Following(Other(e), Written(e), m),
         e \in sent' \/ Written(e)' = Written(e) + 1
  PROVE  InTransit(Other(e))'
<1> DEFINE d == Other(e)
<1>1. d \in Ends /\ Other(d) = e /\ ch[d] \in Seq(PacketsTo(d)) /\ Read(d) \in 0..3
  BY DEF Types, Ends, Other, Read
<1>2. Read(d)' = Read(d) BY <1>1, KeptStages
<1>3. \A k, s : Rest(d, k, s)' <=> Rest(d, k, s)
  <2>1. Opener(d)' = Opener(d) /\ InfoTo(d)' = InfoTo(d) /\ MsgsTo(d)' = MsgsTo(d)
    BY <1>1, ConfKept
  <2> QED BY <2>1 DEF Rest
<1>4. Written(e) \in 0..2 /\ Len(ch[d]) \in Nat BY <1>1 DEF Written
<1>5. d \in closed => Read(d) = 3 BY <1>1 DEF Local, Read, HasRecv
<1> HIDE DEF d
<1>6. SUFFICES ASSUME Read(d) # 3
               PROVE  /\ Rest(d, Read(d), ch'[d])
                      /\ e \notin sent' => Len(ch'[d]) + Read(d) = Written(e)'
  BY <1>1, <1>2, <1>3, <1>6 DEF InTransit, d
<1>7. ch'[d] = Append(ch[d], m)
  <2>1. ch' = [ch EXCEPT ![d] = Append(@, m)] BY <1>5, <1>6 DEF Arrives, d
  <2> QED BY <1>1, <2>1 DEF Types
<1>8. Rest(d, Read(d), ch[d]) /\ Len(ch[d]) + Read(d) = Written(e)
  BY <1>1, <1>6 DEF InTransit, d
<1>9. m \in PacketsTo(d) /\ Following(d, Len(ch[d]) + Read(d), m)
  BY <1>8 DEF d
<1>10. Rest(d, Read(d), ch'[d]) /\ Len(ch'[d]) = Len(ch[d]) + 1
  <2>1. Read(d) \in Nat BY <1>1
  <2> QED BY <1>1, <1>7, <1>8, <1>9, <2>1, RestAppend
<1> QED BY <1>1, <1>4, <1>8, <1>10

-----------------------------------------------------------------------------
(* Putting a step together.                                                *)

\* There are two ends.
LEMMA Others ==
  ASSUME NEW e \in Ends
  PROVE  Other(e) \in Ends /\ Other(Other(e)) = e /\ Other(e) # e
BY DEF Ends, Other

\* If the step of one end keeps its own part and what is on its way to the other, it keeps
\* everything.
LEMMA Together ==
  ASSUME ConnectInv, NEW e \in Ends, UNCHANGED conf, Kept(Other(e)), fault => fault',
         pc[e] = "crashed" => pc'[e] = "crashed", OwnStep(e),
         Types', Dialled', Own(e)', InTransit(Other(e))'
  PROVE  ConnectInv'
<1>1. Other(e) \in Ends /\ Other(Other(e)) = e /\ Other(e) # e /\ Ends = {e, Other(e)}
  BY DEF Ends, Other
<1>2. Own(Other(e))' BY <1>1, KeptParts DEF ConnectInv
<1>3. InTransit(e)' BY TransitOwn DEF ConnectInv
<1>4. \A x \in Ends : Own(x)' /\ InTransit(x)' BY <1>1, <1>2, <1>3
<1> QED BY <1>4 DEF ConnectInv

\* What is on its way stays what may be.
LEMMA ChTypes ==
  ASSUME Types, UNCHANGED conf, NEW e \in Ends,
         \/ UNCHANGED ch
         \/ ch[e] # <<>> /\ ch' = [ch EXCEPT ![e] = Tail(@)]
         \/ \E m \in PacketsTo(Other(e)) : Arrives(e, m)
  PROVE  DOMAIN ch' = Ends /\ \A x \in Ends : ch'[x] \in Seq(PacketsTo(x)')
<1>1. \A x \in Ends : PacketsTo(x)' = PacketsTo(x) BY ConfKept
<1>2. DOMAIN ch = Ends /\ \A x \in Ends : ch[x] \in Seq(PacketsTo(x)) BY DEF Types
<1>3. CASE UNCHANGED ch BY <1>1, <1>2, <1>3
<1>4. CASE ch[e] # <<>> /\ ch' = [ch EXCEPT ![e] = Tail(@)]
  <2>1. Tail(ch[e]) \in Seq(PacketsTo(e)) BY <1>2, <1>4
  <2> QED BY <1>1, <1>2, <1>4, <2>1
<1>5. CASE \E m \in PacketsTo(Other(e)) : Arrives(e, m)
  <2>1. PICK m \in PacketsTo(Other(e)) : Arrives(e, m) BY <1>5
  <2>2. Other(e) \in Ends BY Others
  <2>3. Append(ch[Other(e)], m) \in Seq(PacketsTo(Other(e))) BY <1>2, <2>1, <2>2
  <2>4. ch' = ch \/ ch' = [ch EXCEPT ![Other(e)] = Append(@, m)] BY <2>1 DEF Arrives
  <2> QED BY <1>1, <1>2, <2>2, <2>3, <2>4
<1> QED BY <1>3, <1>4, <1>5

\* The streams and the deliveries stay in order when they do not change.
LEMMA Quiet ==
  ASSUME NEW e \in Ends, UNCHANGED conf, Own(e), streams'[e] = streams[e], got'[e] = got[e],
         pc'[e] \in {"offer", "open", "dropped", "unmatched"} => pc'[e] = pc[e]
  PROVE  Opened(e)' /\ Delivered(e)'
<1>1. Common(e)' = Common(e) /\ Common(Other(e))' = Common(Other(e)) BY ConfKept, Others
<1>2. Opened(e)' BY <1>1 DEF Own, Opened
<1>3. Delivered(e)' BY <1>1 DEF Own, Delivered
<1> QED BY <1>2, <1>3

-----------------------------------------------------------------------------
(* The end of an end.                                                      *)

\* e fails, ends, crashes or hangs; its goroutines see the closed connection, or are gone.
Leaves(e, label) ==
  /\ UNCHANGED <<conf, secrets, snappy, streams, sent, got>>
  /\ pc[e] \notin {"failed", "ended", "crashed"}
  /\ label \in {"failed", "ended", "crashed", "hung"}
  /\ pc' = [pc EXCEPT ![e] = label]
  /\ \/ UNCHANGED <<writer, reader>>
     \/ /\ writer' = [writer EXCEPT ![e] = "none"]
        /\ reader' = [reader EXCEPT ![e] = "none"]
  /\ \/ closed' = closed \cup {e} /\ label # "hung"
     \/ UNCHANGED closed /\ writer'[e] = "none" /\ reader'[e] = "none"
  /\ UNCHANGED ch \/ (ch[e] # <<>> /\ ch' = [ch EXCEPT ![e] = Tail(@)])
  /\ fault' \in BOOLEAN
  /\ fault => fault'

\* If there is somebody to blame, the invariant is kept.
LEMMA LeavesKeeps ==
  ASSUME ConnectInv, NEW e \in Ends, NEW label, Leaves(e, label), Blamed(e)'
  PROVE  ConnectInv'
<1> DEFINE d == Other(e)
<1>0. d \in Ends /\ Other(d) = e /\ d # e BY Others
<1>1. Types /\ Dialled /\ Own(e) /\ InTransit(d) /\ Local(e)
  BY <1>0 DEF ConnectInv, Own
<1>2. UNCHANGED <<conf, secrets, snappy, streams, sent, got>> BY DEF Leaves
<1>3. /\ label \in {"failed", "ended", "crashed", "hung"} /\ label \in Labels
      /\ pc' = [pc EXCEPT ![e] = label] /\ pc \in [Ends -> Labels]
  BY <1>1 DEF Leaves, Types, Labels
<1>4. /\ pc'[e] = label /\ pc' \in [Ends -> Labels] /\ pc'[d] = pc[d] BY <1>0, <1>3
<1>5. /\ writer \in [Ends -> Progress] /\ reader \in [Ends -> Progress]
      /\ writer' \in [Ends -> Progress] /\ writer'[d] = writer[d]
      /\ reader' \in [Ends -> Progress] /\ reader'[d] = reader[d]
  <2>1. writer \in [Ends -> Progress] /\ reader \in [Ends -> Progress] /\ "none" \in Progress
    BY <1>1 DEF Types, Progress
  <2>2. CASE UNCHANGED <<writer, reader>> BY <2>1, <2>2
  <2>3. CASE writer' = [writer EXCEPT ![e] = "none"] /\ reader' = [reader EXCEPT ![e] = "none"]
    BY <1>0, <2>1, <2>3
  <2> QED BY <2>2, <2>3 DEF Leaves
<1>6. /\ closed' \subseteq Ends /\ (d \in closed' <=> d \in closed)
      /\ e \in closed' \/ (writer'[e] = "none" /\ reader'[e] = "none")
      /\ e \in closed' => label # "hung"
  <2>1. closed \subseteq Ends /\ e \notin closed BY <1>1 DEF Types, Local, Leaves
  <2>2. CASE closed' = closed \cup {e} /\ label # "hung" BY <1>0, <2>1, <2>2
  <2>3. CASE UNCHANGED closed /\ writer'[e] = "none" /\ reader'[e] = "none"
    BY <1>0, <2>1, <2>3
  <2> QED BY <2>2, <2>3 DEF Leaves
<1>7. ch'[d] = ch[d] /\ (ch["client"] = <<>> => ch'["client"] = <<>>)
  <2>1. DOMAIN ch = Ends BY <1>1 DEF Types
  <2>2. CASE UNCHANGED ch BY <2>2
  <2>3. CASE ch[e] # <<>> /\ ch' = [ch EXCEPT ![e] = Tail(@)] BY <1>0, <2>1, <2>3 DEF Ends
  <2> QED BY <2>2, <2>3 DEF Leaves
<1>8. Types'
  <2>1. DOMAIN ch' = Ends /\ \A x \in Ends : ch'[x] \in Seq(PacketsTo(x)')
    BY <1>1, <1>2, ChTypes DEF Leaves
  <2>2. fault' \in BOOLEAN BY DEF Leaves
  <2> QED BY <1>1, <1>2, <1>4, <1>5, <1>6, <2>1, <2>2 DEF Types, conf
<1>9. Kept(d) BY <1>0, <1>2, <1>4, <1>5, <1>6 DEF Kept
<1>10. ~HasRecv(e)' /\ ~PreProto(e)' /\ Read(e)' = 3 /\ ~CanWrite(e)'
  BY <1>3, <1>4 DEF HasRecv, PreProto, Read, CanWrite
<1>11. Own(e)'
  <2>1. Opened(e)' /\ Delivered(e)' BY <1>1, <1>2, <1>3, <1>4, Quiet
  <2>2. Local(e)' BY <1>3, <1>4, <1>6, <1>10 DEF Local
  <2>3. Identified(e)' BY <1>10 DEF Identified
  <2> QED BY <2>1, <2>2, <2>3 DEF Own
<1>12. Dialled' BY <1>0, <1>1, <1>2, <1>3, <1>4, <1>7 DEF Dialled, HasRecv, conf, Ends
<1>13. OwnStep(e) BY <1>10 DEF OwnStep
<1>14. InTransit(d)' BY <1>0, <1>1, <1>2, <1>7, <1>9, <1>10, TransitOther
<1> QED BY <1>2, <1>8, <1>9, <1>11, <1>12, <1>13, <1>14, Together DEF Leaves

\* An end that leaves because of a fault is blamed on the fault.
LEMMA FaultIsReason ==
  ASSUME NEW e \in Ends, fault'
  PROVE  Blamed(e)'
BY DEF Blamed, Clean

\* So it is kept when there was a fault.
LEMMA LeavesByFault ==
  ASSUME ConnectInv, NEW e \in Ends, NEW label, Leaves(e, label), fault'
  PROVE  ConnectInv'
BY FaultIsReason, LeavesKeeps

\* Without a fault, who finds the other end gone while it goes on itself finds it crashed.
LEMMA GoneIsCrashed ==
  ASSUME ConnectInv, NEW e \in Ends, Other(e) \in closed, pc[e] # "crashed", Clean
  PROVE  pc[Other(e)] = "crashed"
<1>1. Other(e) \in Ends /\ Other(Other(e)) = e BY Others
<1> QED BY <1>1 DEF ConnectInv, Own, Local, Blamed

\* Then it may leave as well.
LEMMA LeavesAfterCrash ==
  ASSUME ConnectInv, NEW e \in Ends, NEW label \in {"failed", "ended"}, Leaves(e, label),
         Clean' => pc[Other(e)] = "crashed"
  PROVE  ConnectInv'
<1>1. /\ Other(e) # e /\ Other(e) \in Ends BY Others
<1>2. pc'[e] = label /\ pc'[Other(e)] = pc[Other(e)]
  <2>1. pc \in [Ends -> Labels] BY DEF ConnectInv, Types
  <2> QED BY <1>1, <2>1 DEF Leaves
<1>3. Blamed(e)' BY <1>2 DEF Blamed
<1> QED BY <1>3, LeavesKeeps

-----------------------------------------------------------------------------
(* The encryption handshake.                                               *)

\* The client sends the first packet, or finds the server gone.
LEMMA MakeAuthKeeps ==
  ASSUME ConnectInv, MakeAuth
  PROVE  ConnectInv'
<1> DEFINE e == "client"
           m == [type |-> "auth", to |-> dialled]
<1>0. e \in Ends /\ Other(e) = "server" /\ Other("server") = e /\ e # "server"
  BY DEF Ends, Other
<1>1. Types /\ Dialled /\ Own(e) /\ InTransit("server") /\ Local("server")
  BY DEF ConnectInv, Ends, Own
<1>2. pc \in [Ends -> Labels] /\ closed \subseteq Ends BY <1>1 DEF Types
<1>3. UNCHANGED <<conf, writer, reader, secrets, snappy, streams, sent, got>> /\ pc[e] = "makeAuth"
  BY DEF MakeAuth
<1>4. CASE Fail(e) /\ fault' = TRUE /\ UNCHANGED ch
  <2>1. Leaves(e, "failed") BY <1>3, <1>4 DEF Leaves, Fail, Goto
  <2> QED BY <1>0, <1>4, <2>1, LeavesByFault
<1>5. CASE Arrives(e, m) /\ Goto(e, "readResp") /\ UNCHANGED closed
  <2>1. /\ pc'[e] = "readResp" /\ pc' \in [Ends -> Labels] /\ pc'["server"] = pc["server"]
    BY <1>0, <1>2, <1>5 DEF Goto, Labels
  <2>2. Kept(Other(e)) BY <1>0, <1>3, <1>5, <2>1 DEF Kept
  <2>3. m = Opener("server") /\ m \in PacketsTo("server") BY DEF Opener, PacketsTo
  <2> HIDE DEF m
  <2>4. Types'
    <3>1. DOMAIN ch' = Ends /\ \A x \in Ends : ch'[x] \in Seq(PacketsTo(x)')
      BY <1>0, <1>1, <1>3, <1>5, <2>3, ChTypes
    <3>2. closed' \subseteq Ends /\ fault' \in BOOLEAN BY <1>1, <1>5 DEF Arrives, Types
    <3> QED BY <1>1, <1>3, <2>1, <3>1, <3>2 DEF Types, conf
  <2>5. ch'[e] = ch[e] /\ (fault => fault') BY <1>0, <1>1, <1>5 DEF Arrives, Types
  <2>6. Dialled' BY <1>0, <1>1, <1>3, <2>1, <2>5 DEF Dialled, HasRecv, conf
  <2>7. Own(e)'
    <3>1. Opened(e)' /\ Delivered(e)' BY <1>0, <1>1, <1>3, <2>1, Quiet
    <3>2. Local(e)' BY <1>0, <1>1, <1>3, <1>5, <2>1 DEF Own, Local, HasRecv, PreProto
    <3>3. Identified(e)' /\ Blamed(e)'
      BY <2>1 DEF Identified, Blamed, Clean, Read, HasRecv
    <3> QED BY <3>1, <3>2, <3>3 DEF Own
  <2>8. OwnStep(e) BY <1>3, <2>1, <2>5 DEF OwnStep, Read, HasRecv
  <2>9. InTransit("server")'
    <3>1. /\ CanWrite(e) /\ e \notin sent
          /\ Written(e) = 0 /\ Written(e)' = Written(e) + 1
      BY <1>1, <1>3, <2>1 DEF CanWrite, PreProto, Written, Own, Local
    <3>2. Following(Other(e), Written(e), m) BY <1>0, <2>3, <3>1 DEF Following
    <3> QED BY <1>0, <1>1, <1>3, <1>5, <2>2, <2>3, <3>1, <3>2, TransitWrite
  <2> QED BY <1>0, <1>3, <2>2, <2>4, <2>5, <2>6, <2>7, <2>8, <2>9, Together
<1> QED BY <1>4, <1>5 DEF MakeAuth

\* What the server reads first is the packet of the client, sealed for the key it dialled.
LEMMA ReadAuthKeeps ==
  ASSUME ConnectInv, ReadAuth
  PROVE  ConnectInv'
<1> DEFINE e == "server"
<1>0. e \in Ends /\ Other(e) = "client" /\ Other("client") = e /\ e # "client"
  BY DEF Ends, Other
<1>1. Types /\ Dialled /\ Own(e) /\ InTransit(e) /\ InTransit("client")
  BY DEF ConnectInv, Ends
<1>2. /\ pc \in [Ends -> Labels] /\ closed \subseteq Ends /\ fault \in BOOLEAN
      /\ DOMAIN ch = Ends /\ ch[e] \in Seq(PacketsTo(e))
  BY <1>0, <1>1 DEF Types
<1>3. /\ UNCHANGED <<conf, writer, reader, secrets, snappy, streams, sent, got>>
      /\ pc[e] = "readAuth" /\ ch[e] # <<>> /\ ch' = [ch EXCEPT ![e] = Tail(@)]
  BY DEF ReadAuth
<1>4. Head(ch[e]).to = dialled
  <2>1. Read(e) = 0 BY <1>3 DEF Read
  <2>2. Rest(e, 0, ch[e]) BY <1>1, <2>1 DEF InTransit
  <2>3. Head(ch[e]) = Opener(e) BY <1>2, <1>3, <2>2, RestTail
  <2> QED BY <1>0, <2>3, Kinds
<1>5. CASE Fail(e) /\ fault' = TRUE
  <2>1. Leaves(e, "failed") BY <1>3, <1>5 DEF Leaves, Fail, Goto
  <2> QED BY <1>0, <1>5, <2>1, LeavesByFault
<1>6. CASE Head(ch[e]).to # "server" /\ Fail(e) /\ UNCHANGED fault
  <2>1. Leaves(e, "failed") BY <1>2, <1>3, <1>6 DEF Leaves, Fail, Goto
  <2>2. ~Clean' BY <1>3, <1>4, <1>6 DEF Clean, conf
  <2> QED BY <1>0, <2>1, <2>2, LeavesAfterCrash
<1>7. CASE Head(ch[e]).to = "server" /\ Goto(e, "makeResp") /\ UNCHANGED <<closed, fault>>
  <2>1. /\ pc'[e] = "makeResp" /\ pc' \in [Ends -> Labels] /\ pc'["client"] = pc["client"]
    BY <1>0, <1>2, <1>7 DEF Goto, Labels
  <2>2. Kept(Other(e)) BY <1>0, <1>3, <1>7, <2>1 DEF Kept
  <2>3. Types'
    <3>1. DOMAIN ch' = Ends /\ \A x \in Ends : ch'[x] \in Seq(PacketsTo(x)')
      BY <1>0, <1>1, <1>3, ChTypes
    <3> QED BY <1>1, <1>3, <1>7, <2>1, <3>1 DEF Types, conf
  <2>4. ch'[e] = Tail(ch[e]) /\ ch'["client"] = ch["client"] BY <1>0, <1>2, <1>3
  <2>5. Dialled' BY <1>0, <1>1, <1>3, <1>4, <1>7, <2>1, <2>4 DEF Dialled, HasRecv, conf
  <2>6. Own(e)'
    <3>1. Opened(e)' /\ Delivered(e)' BY <1>0, <1>1, <1>3, <2>1, Quiet
    <3>2. Local(e)' BY <1>0, <1>1, <1>3, <1>7, <2>1 DEF Own, Local, HasRecv, PreProto
    <3>3. Identified(e)' /\ Blamed(e)'
      BY <2>1 DEF Identified, Blamed, Clean, Read, HasRecv
    <3> QED BY <3>1, <3>2, <3>3 DEF Own
  <2>7. OwnStep(e)
    <3>1. Read(e) = 0 /\ Read(e)' = 1 BY <1>3, <2>1 DEF Read
    <3> QED BY <1>3, <2>4, <3>1 DEF OwnStep
  <2>8. InTransit("client")'
    <3>1. CanWrite(e) /\ e \notin sent /\ Written(e)' = Written(e)
      BY <1>1, <1>3, <2>1 DEF CanWrite, PreProto, Written, Own, Local
    <3> QED BY <1>0, <1>1, <1>3, <2>2, <2>4, <3>1, TransitOther
  <2> QED BY <1>0, <1>3, <1>7, <2>2, <2>3, <2>5, <2>6, <2>7, <2>8, Together
<1> QED BY <1>5, <1>6, <1>7 DEF ReadAuth

\* p2pHandshake has its secrets, and the goroutines of the next handshake run.
LEMMA EstablishedOwn ==
  ASSUME Types, NEW e \in Ends, PreProto(e), Own(e), Established(e, Remote(e)),
         UNCHANGED <<conf, closed, snappy, streams, sent, got>>
  PROVE  /\ pc' \in [Ends -> Labels] /\ writer' \in [Ends -> Progress]
         /\ reader' \in [Ends -> Progress] /\ DOMAIN secrets' = Ends
         /\ Kept(Other(e)) /\ Own(e)'
         /\ pc'[e] = "proto" /\ writer'[e] = "run" /\ reader'[e] = "run"
<1>0. Other(e) \in Ends /\ Other(e) # e BY Others
<1>1. /\ pc \in [Ends -> Labels] /\ DOMAIN secrets = Ends
      /\ writer \in [Ends -> Progress] /\ reader \in [Ends -> Progress]
  BY DEF Types
<1>2. /\ pc' = [pc EXCEPT ![e] = "proto"]
      /\ secrets' = [secrets EXCEPT ![e] = Secrets(e, Remote(e))]
      /\ writer' = [writer EXCEPT ![e] = "run"] /\ reader' = [reader EXCEPT ![e] = "run"]
  BY DEF Established, Goto
<1>3. /\ pc' \in [Ends -> Labels] /\ writer' \in [Ends -> Progress]
      /\ reader' \in [Ends -> Progress] /\ DOMAIN secrets' = Ends
  BY <1>1, <1>2 DEF Labels, Progress
<1>4. /\ pc'[e] = "proto" /\ writer'[e] = "run" /\ reader'[e] = "run"
      /\ secrets'[e] = Secrets(e, Remote(e))
  BY <1>1, <1>2
<1>5. Kept(Other(e)) BY <1>0, <1>1, <1>2 DEF Kept
<1>6. Own(e)'
  <2>1. Opened(e)' /\ Delivered(e)' BY <1>4, Quiet
  <2>2. Local(e)'
    <3>1. ~snappy[e] /\ streams[e] = <<>> /\ e \notin sent /\ e \notin closed
      BY DEF Own, Local, PreProto
    <3>2. Secrets(e, Remote(e))' = Secrets(e, Remote(e)) BY ConfKept DEF Secrets
    <3> QED BY <1>4, <3>1, <3>2 DEF Local, HasRecv, PreProto
  <2>3. Identified(e)' /\ Blamed(e)' BY <1>4 DEF Identified, Blamed, Clean, Read, HasRecv
  <2> QED BY <2>1, <2>2, <2>3 DEF Own
<1> QED BY <1>3, <1>4, <1>5, <1>6

\* The server answers and is established, or crashes on a client that is gone.
LEMMA MakeRespKeeps ==
  ASSUME ConnectInv, MakeResp
  PROVE  ConnectInv'
<1> DEFINE e == "server"
           m == [type |-> "resp", to |-> "client"]
<1>0. e \in Ends /\ Other(e) = "client" /\ Other("client") = e /\ e # "client"
  BY DEF Ends, Other
<1>1. Types /\ Dialled /\ Own(e) /\ InTransit("client") /\ Local("client")
  BY DEF ConnectInv, Ends, Own
<1>2. /\ UNCHANGED <<conf, closed, snappy, streams, sent, got>> /\ pc[e] = "makeResp"
      /\ PreProto(e) /\ Remote(e) = "client"
  BY DEF MakeResp, PreProto, Remote
<1>3. CASE Goto(e, "crashed") /\ fault' = TRUE /\ UNCHANGED <<ch, writer, reader, secrets>>
  <2>1. writer'[e] = "none" /\ reader'[e] = "none" BY <1>1, <1>2, <1>3 DEF Own, Local
  <2>2. Leaves(e, "crashed") BY <1>2, <1>3, <2>1 DEF Leaves, Goto
  <2> QED BY <1>0, <1>3, <2>2, LeavesByFault
<1>4. CASE Arrives(e, m) /\ Established(e, "client")
  <2>1. /\ pc' \in [Ends -> Labels] /\ writer' \in [Ends -> Progress]
        /\ reader' \in [Ends -> Progress] /\ DOMAIN secrets' = Ends
        /\ Kept(Other(e)) /\ Own(e)'
        /\ pc'[e] = "proto" /\ writer'[e] = "run" /\ reader'[e] = "run"
    BY <1>0, <1>1, <1>2, <1>4, EstablishedOwn
  <2>2. m = Opener("client") /\ m \in PacketsTo("client") BY DEF Opener, PacketsTo
  <2> HIDE DEF m
  <2>3. Types'
    <3>1. DOMAIN ch' = Ends /\ \A x \in Ends : ch'[x] \in Seq(PacketsTo(x)')
      BY <1>0, <1>1, <1>2, <1>4, <2>2, ChTypes
    <3>2. fault' \in BOOLEAN BY <1>1, <1>4 DEF Arrives, Types
    <3> QED BY <1>1, <1>2, <2>1, <3>1, <3>2 DEF Types, conf
  <2>4. ch'[e] = ch[e] /\ (fault => fault') BY <1>0, <1>1, <1>4 DEF Arrives, Types
  <2>5. Dialled' BY <1>1, <1>2 DEF Dialled, conf
  <2>6. OwnStep(e) BY <1>2, <2>1, <2>4 DEF OwnStep, Read, HasRecv
  <2>7. InTransit("client")'
    <3>1. /\ CanWrite(e) /\ e \notin sent
          /\ Written(e) = 0 /\ Written(e)' = Written(e) + 1
      BY <1>1, <1>2, <2>1 DEF CanWrite, PreProto, Written, Own, Local
    <3>2. Following(Other(e), Written(e), m) BY <1>0, <2>2, <3>1 DEF Following
    <3> QED BY <1>0, <1>1, <1>2, <1>4, <2>1, <2>2, <3>1, <3>2, TransitWrite
  <2> QED BY <1>0, <1>2, <2>1, <2>3, <2>4, <2>5, <2>6, <2>7, Together
<1> QED BY <1>3, <1>4 DEF MakeResp

\* The answer exists only if the server could read the packet: its key was dialled.
LEMMA ReadRespKeeps ==
  ASSUME ConnectInv, ReadResp
  PROVE  ConnectInv'
<1> DEFINE e == "client"
<1>0. e \in Ends /\ Other(e) = "server" /\ Other("server") = e /\ e # "server"
  BY DEF Ends, Other
<1>1. Types /\ Dialled /\ Own(e) /\ InTransit("server")
  BY DEF ConnectInv, Ends
<1>2. /\ UNCHANGED <<conf, snappy, streams, sent, got>> /\ pc[e] = "readResp"
      /\ PreProto(e) /\ Remote(e) = dialled
      /\ ch[e] # <<>> /\ ch' = [ch EXCEPT ![e] = Tail(@)]
  BY DEF ReadResp, PreProto, Remote
<1>3. CASE Fail(e) /\ fault' = TRUE /\ UNCHANGED <<writer, reader, secrets>>
  <2>1. Leaves(e, "failed") BY <1>2, <1>3 DEF Leaves, Fail, Goto
  <2> QED BY <1>0, <1>3, <2>1, LeavesByFault
<1>4. CASE Established(e, dialled) /\ UNCHANGED <<closed, fault>>
  <2>1. /\ pc' \in [Ends -> Labels] /\ writer' \in [Ends -> Progress]
        /\ reader' \in [Ends -> Progress] /\ DOMAIN secrets' = Ends
        /\ Kept(Other(e)) /\ Own(e)'
        /\ pc'[e] = "proto" /\ writer'[e] = "run" /\ reader'[e] = "run"
    BY <1>0, <1>1, <1>2, <1>4, EstablishedOwn
  <2>2. Types'
    <3>1. DOMAIN ch' = Ends /\ \A x \in Ends : ch'[x] \in Seq(PacketsTo(x)')
      BY <1>0, <1>1, <1>2, ChTypes
    <3> QED BY <1>1, <1>2, <1>4, <2>1, <3>1 DEF Types, conf
  <2>3. ch'[e] = Tail(ch[e]) /\ ch'["server"] = ch["server"]
    BY <1>0, <1>1, <1>2 DEF Types
  <2>4. Dialled'
    <3>1. dialled' = "server" BY <1>1, <1>2 DEF Dialled, conf
    <3> QED BY <3>1 DEF Dialled
  <2>5. OwnStep(e)
    <3>1. Read(e) = 0 /\ Read(e)' = 1 BY <1>2, <2>1 DEF Read
    <3> QED BY <1>2, <2>3, <3>1 DEF OwnStep
  <2>6. InTransit("server")'
    <3>1. CanWrite(e) /\ e \notin sent /\ Written(e)' = Written(e)
      BY <1>1, <1>2, <2>1 DEF CanWrite, PreProto, Written, Own, Local
    <3> QED BY <1>0, <1>1, <1>2, <2>1, <2>3, <3>1, TransitOther
  <2> QED BY <1>0, <1>2, <1>4, <2>1, <2>2, <2>4, <2>5, <2>6, Together
<1> QED BY <1>3, <1>4 DEF ReadResp

\* A read that fails finds the other end gone, or is a fault.
LEMMA ReadFailsKeeps ==
  ASSUME ConnectInv, NEW e \in Ends, ReadFails(e)
  PROVE  ConnectInv'
<1>1. Leaves(e, "failed")
  BY DEF ReadFails, Leaves, Fail, Goto, ConnectInv, Types
<1>2. fault' = (fault \/ Other(e) \notin closed) /\ pc[e] # "crashed" /\ UNCHANGED conf
  BY DEF ReadFails
<1>3. ASSUME Clean' PROVE pc[Other(e)] = "crashed"
  <2>1. Clean /\ Other(e) \in closed BY <1>2, <1>3 DEF Clean, conf
  <2> QED BY <1>2, <2>1, GoneIsCrashed
<1> QED BY <1>1, <1>3, LeavesAfterCrash

-----------------------------------------------------------------------------
(* The protocol handshake.                                                 *)

\* The end of a connection that is established reads and writes with these.
LEMMA SecretsAre ==
  ASSUME Types, NEW e \in Ends, Local(e), pc[e] = "proto" \/ HasRecv(e)
  PROVE  /\ secrets[e].egress = Egress(e) /\ secrets[e].ingress = Egress(Other(e))
         /\ secrets[e].remote = Remote(e)
<1>1. secrets[e] = Secrets(e, Remote(e)) BY DEF Local
<1>2. CASE e = "client" BY <1>1, <1>2 DEF Secrets, Egress, Other
<1>3. CASE e = "server" BY <1>1, <1>3 DEF Secrets, Egress, Other
<1> QED BY <1>2, <1>3 DEF Ends

\* The Info is the second packet, in the MAC of e and not compressed.
LEMMA WriteInfoKeeps ==
  ASSUME ConnectInv, NEW e \in Ends, WriteInfo(e)
  PROVE  ConnectInv'
<1> DEFINE d == Other(e)
           m == Frame(e, "info", [id |-> infoID[e], caps |-> caps[e]])
<1>0. d \in Ends /\ Other(d) = e /\ d # e BY Others
<1>1. Types /\ Dialled /\ Own(e) /\ Local(e) /\ InTransit(d) /\ Local(d)
  BY <1>0 DEF ConnectInv, Own
<1>2. /\ writer \in [Ends -> Progress] /\ DOMAIN ch = Ends /\ fault \in BOOLEAN
  BY <1>1 DEF Types
<1>3. /\ UNCHANGED <<conf, pc, reader, closed, secrets, snappy, streams, sent, got>>
      /\ writer[e] = "run"
  BY DEF WriteInfo
<1>4. Opened(e)' /\ Delivered(e)' BY <1>1, <1>3, Quiet
<1>5. Secrets(e, Remote(e))' = Secrets(e, Remote(e)) BY <1>3, ConfKept DEF Secrets
<1>6. Read(e)' = Read(e) BY <1>3 DEF Read, HasRecv
<1>7. Identified(e)'
  <2>1. Remote(e)' = Remote(e) BY <1>3, ConfKept
  <2> QED BY <1>1, <1>3, <1>6, <2>1 DEF Identified, Own, conf
<1>8. ~HasRecv(e) /\ ~PreProto(e) BY <1>1, <1>3 DEF Local, HasRecv, PreProto
<1>9. ASSUME e \notin closed, Arrives(e, m), writer' = [writer EXCEPT ![e] = "ok"]
      PROVE  ConnectInv'
  <2>1. writer'[e] = "ok" /\ writer'[d] = writer[d] /\ writer' \in [Ends -> Progress]
    BY <1>0, <1>2, <1>9 DEF Progress
  <2>2. pc[e] = "proto" BY <1>1, <1>3, <1>9 DEF Local
  <2>3. m = InfoTo(d) /\ m \in PacketsTo(d)
    <3>1. secrets[e].egress = Egress(e) /\ snappy[e] = FALSE
      BY <1>1, <2>2, SecretsAre DEF Local, Types
    <3>2. m = InfoTo(d) BY <1>0, <3>1 DEF Frame, InfoTo
    <3> QED BY <3>2 DEF PacketsTo
  <2> HIDE DEF m
  <2>4. Kept(d) BY <1>3, <2>1 DEF Kept
  <2>5. ch'[e] = ch[e] /\ (fault => fault') /\ fault' \in BOOLEAN
    BY <1>0, <1>2, <1>9 DEF Arrives
  <2>6. Types'
    <3>1. DOMAIN ch' = Ends /\ \A x \in Ends : ch'[x] \in Seq(PacketsTo(x)')
      BY <1>1, <1>3, <1>9, <2>3, ChTypes
    <3> QED BY <1>1, <1>3, <2>1, <2>5, <3>1 DEF Types, conf
  <2>7. Dialled'
    <3>1. CASE e = "client" BY <1>1, <1>3, <2>5, <3>1 DEF Dialled, HasRecv, conf
    <3>2. CASE e = "server" BY <1>1, <1>3, <2>2, <3>2 DEF Dialled, HasRecv, conf
    <3> QED BY <3>1, <3>2 DEF Ends
  <2>8. Own(e)'
    <3>1. Local(e)' BY <1>1, <1>3, <1>5, <2>1, <2>2 DEF Local, HasRecv, PreProto
    <3>2. Blamed(e)' BY <1>1, <1>3, <2>1, <2>2, <2>5 DEF Blamed, Own, Clean, conf
    <3> QED BY <1>4, <1>7, <3>1, <3>2 DEF Own
  <2>9. OwnStep(e) BY <1>6, <2>5 DEF OwnStep
  <2>10. InTransit(d)'
    <3>1. /\ CanWrite(e) /\ e \notin sent
          /\ Written(e) = 1 /\ Written(e)' = Written(e) + 1
      BY <1>1, <1>3, <2>1, <2>2 DEF CanWrite, PreProto, Written, Local
    <3>2. Following(Other(e), Written(e), m) BY <2>3, <3>1 DEF Following
    <3> QED BY <1>1, <1>3, <1>9, <2>3, <2>4, <3>1, <3>2, TransitWrite
  <2> QED BY <1>3, <2>4, <2>5, <2>6, <2>7, <2>8, <2>9, <2>10, Together
<1>10. ASSUME writer' = [writer EXCEPT ![e] = "err"], fault' = TRUE, UNCHANGED ch
       PROVE  ConnectInv'
  <2>1. writer'[e] = "err" /\ writer'[d] = writer[d] /\ writer' \in [Ends -> Progress]
    BY <1>0, <1>2, <1>10 DEF Progress
  <2>2. Kept(d) BY <1>3, <2>1 DEF Kept
  <2>3. Types'
    <3>1. DOMAIN ch' = Ends /\ \A x \in Ends : ch'[x] \in Seq(PacketsTo(x)')
      BY <1>1, <1>3, <1>10, ChTypes
    <3> QED BY <1>1, <1>3, <1>10, <2>1, <3>1 DEF Types, conf
  <2>4. Dialled' BY <1>1, <1>3, <1>10 DEF Dialled, HasRecv, conf
  <2>5. Own(e)'
    <3>1. Local(e)' BY <1>1, <1>3, <1>5, <1>8, <2>1 DEF Local, HasRecv, PreProto
    <3>2. Blamed(e)' BY <1>10, FaultIsReason
    <3> QED BY <1>4, <1>7, <3>1, <3>2 DEF Own
  <2>6. OwnStep(e) BY <1>6, <1>10 DEF OwnStep
  <2>7. InTransit(d)'
    <3>1. ~CanWrite(e)' BY <1>3, <1>8, <2>1 DEF CanWrite, HasRecv, PreProto
    <3> QED BY <1>1, <1>3, <1>10, <2>2, <3>1, TransitOther
  <2> QED BY <1>3, <1>10, <2>2, <2>3, <2>4, <2>5, <2>6, <2>7, Together
<1> QED BY <1>9, <1>10 DEF WriteInfo

\* A step of the reader: it ends, with the Info of whom e talks to, or without.
LEMMA ReaderEnds ==
  ASSUME ConnectInv, NEW e \in Ends, NEW result \in {"ok", "err"}, reader[e] = "run",
         reader' = [reader EXCEPT ![e] = result],
         UNCHANGED <<conf, pc, writer, closed, secrets, snappy, streams, sent, got>>,
         fault' \in BOOLEAN, fault => fault',
         \/ UNCHANGED ch /\ result = "err"
         \/ ch[e] # <<>> /\ ch' = [ch EXCEPT ![e] = Tail(@)],
         result = "ok" => infoID[Other(e)] = Remote(e),
         Clean' /\ pc[e] = "proto" /\ result = "err" => pc[Other(e)] = "crashed"
  PROVE  ConnectInv'
<1> DEFINE d == Other(e)
<1>0. d \in Ends /\ Other(d) = e /\ d # e BY Others
<1>1. Types /\ Dialled /\ Own(e) /\ Local(e) /\ InTransit(d)
  BY <1>0 DEF ConnectInv, Own
<1>2. reader \in [Ends -> Progress] /\ DOMAIN ch = Ends BY <1>1 DEF Types
<1>3. reader'[e] = result /\ reader'[d] = reader[d] /\ reader' \in [Ends -> Progress]
  BY <1>0, <1>2 DEF Progress
<1>4. Kept(d) BY <1>3 DEF Kept
<1>5. ~HasRecv(e) /\ ~PreProto(e) BY <1>1 DEF Local, HasRecv, PreProto
<1>6. Types'
  <2>1. DOMAIN ch' = Ends /\ \A x \in Ends : ch'[x] \in Seq(PacketsTo(x)')
    BY <1>1, ChTypes
  <2> QED BY <1>1, <1>3, <2>1 DEF Types, conf
<1>7. ch'[d] = ch[d] /\ (ch["client"] = <<>> => ch'["client"] = <<>>) BY <1>0, <1>2 DEF Ends
<1>8. Dialled' BY <1>1, <1>7 DEF Dialled, HasRecv, conf
<1>9. Own(e)'
  <2>1. Opened(e)' /\ Delivered(e)' BY <1>1, Quiet
  <2>2. Local(e)'
    <3>1. Secrets(e, Remote(e))' = Secrets(e, Remote(e)) BY ConfKept DEF Secrets
    <3> QED BY <1>1, <1>3, <1>5, <3>1 DEF Local, HasRecv, PreProto
  <2>3. Identified(e)'
    <3>1. Remote(e)' = Remote(e) BY ConfKept
    <3> QED BY <1>3, <1>5, <3>1 DEF Identified, Read, HasRecv, PreProto, conf
  <2>4. Blamed(e)'
    <3>1. Clean' => Clean BY DEF Clean, conf
    <3>2. Common(e)' = Common(e) BY ConfKept
    <3> QED BY <1>1, <1>3, <3>1, <3>2 DEF Own, Blamed
  <2> QED BY <2>1, <2>2, <2>3, <2>4 DEF Own
<1>10. OwnStep(e)
  <2>1. CASE pc[e] # "proto"
    <3>1. Read(e)' = 3 BY <1>5, <2>1 DEF Read, HasRecv, PreProto
    <3> QED BY <3>1 DEF OwnStep
  <2>2. CASE pc[e] = "proto" /\ result = "ok"
    <3>1. Read(e) = 1 /\ Read(e)' = 2 BY <1>3, <2>2 DEF Read, HasRecv
    <3> QED BY <1>2, <2>2, <3>1 DEF OwnStep
  <2>3. CASE pc[e] = "proto" /\ result = "err"
    <3>1. Read(e)' = 3 BY <1>3, <2>3 DEF Read, HasRecv
    <3> QED BY <3>1 DEF OwnStep
  <2> QED BY <2>1, <2>2, <2>3
<1>11. InTransit(d)'
  <2>1. (CanWrite(e)' <=> CanWrite(e)) /\ Written(e)' = Written(e)
    BY DEF CanWrite, Written, PreProto, HasRecv
  <2> QED BY <1>0, <1>1, <1>4, <1>7, <2>1, TransitOther
<1> QED BY <1>4, <1>6, <1>8, <1>9, <1>10, <1>11, Together

\* What the reader reads is the Info: it is refused for the identity in it only.
LEMMA ReadInfoKeeps ==
  ASSUME ConnectInv, NEW e \in Ends, ReadInfo(e)
  PROVE  ConnectInv'
<1> DEFINE m == Head(ch[e])
           good == Readable(e, m) /\ m.type = "info" /\ m.body.id = secrets[e].remote
<1>0. Other(e) \in Ends BY Others
<1>1. Types /\ Local(e) /\ InTransit(e) BY DEF ConnectInv, Own
<1>2. /\ reader[e] = "run" /\ e \notin closed /\ ch[e] # <<>>
      /\ ch' = [ch EXCEPT ![e] = Tail(@)]
      /\ reader' = [reader EXCEPT ![e] = IF good THEN "ok" ELSE "err"]
      /\ UNCHANGED <<conf, pc, writer, closed, secrets, snappy, streams, sent, got, fault>>
  BY DEF ReadInfo
<1>3. pc[e] = "proto" BY <1>1, <1>2 DEF Local
<1>4. m = InfoTo(e)
  <2>1. Read(e) = 1 BY <1>2, <1>3 DEF Read
  <2>2. Rest(e, 1, ch[e]) BY <1>1, <2>1 DEF InTransit
  <2>3. ch[e] \in Seq(PacketsTo(e)) BY <1>1 DEF Types
  <2> QED BY <1>2, <2>2, <2>3, RestTail
<1>5. /\ secrets[e].ingress = Egress(Other(e)) /\ secrets[e].remote = Remote(e)
      /\ snappy[e] = FALSE
  BY <1>1, <1>3, SecretsAre DEF Local, Types
<1>6. good <=> infoID[Other(e)] = Remote(e)
  <2>1. InfoTo(e).snappy = FALSE BY DEF InfoTo
  <2> QED BY <1>4, <1>5, <2>1, Kinds DEF Readable
<1> HIDE DEF good
<1>7. Clean => good BY <1>0, <1>6 DEF Clean, Remote, Ends, Other
<1>8. Clean' <=> Clean BY <1>2 DEF Clean, conf
<1>9. fault' \in BOOLEAN BY <1>1, <1>2 DEF Types
<1>10. CASE good BY <1>2, <1>6, <1>9, <1>10, ReaderEnds
<1>11. CASE ~good BY <1>2, <1>7, <1>8, <1>9, <1>11, ReaderEnds
<1> QED BY <1>10, <1>11

\* The reader fails for a fault or because the other end is gone.
LEMMA ReadInfoFailsKeeps ==
  ASSUME ConnectInv, NEW e \in Ends, ReadInfoFails(e)
  PROVE  ConnectInv'
<1>1. /\ reader[e] = "run" /\ (e \in closed \/ ch[e] = <<>>)
      /\ reader' = [reader EXCEPT ![e] = "err"] /\ fault' = (fault \/ closed = {})
      /\ UNCHANGED <<conf, pc, writer, closed, secrets, snappy, streams, sent, got>>
      /\ UNCHANGED ch
  BY DEF ReadInfoFails, wire
<1>2. Types /\ Local(e) BY DEF ConnectInv, Own
<1>3. fault' \in BOOLEAN /\ (fault => fault') BY <1>1
<1>4. ASSUME Clean', pc[e] = "proto" PROVE pc[Other(e)] = "crashed"
  <2>1. Clean /\ closed # {} BY <1>1, <1>4 DEF Clean, conf
  <2>2. e \notin closed BY <1>2, <1>4 DEF Local
  <2>3. Other(e) \in closed BY <1>2, <2>1, <2>2 DEF Types, Ends, Other
  <2> QED BY <1>4, <2>1, <2>3, GoneIsCrashed
<1> QED BY <1>1, <1>3, <1>4, ReaderEnds

\* Handshake fails because one of its goroutines did, or for a fault.
LEMMA ProtocolHandshakeFailsKeeps ==
  ASSUME ConnectInv, NEW e \in Ends, ProtocolHandshakeFails(e)
  PROVE  ConnectInv'
<1>1. /\ pc[e] = "proto" /\ Fail(e)
      /\ UNCHANGED <<conf, writer, reader, ch, secrets, snappy, streams, sent, got>>
      /\ \/ "err" \in {writer[e], reader[e]} /\ UNCHANGED fault
         \/ fault' = TRUE
  BY DEF ProtocolHandshakeFails
<1>2. fault \in BOOLEAN /\ Blamed(e) BY DEF ConnectInv, Types, Own
<1>3. Leaves(e, "failed") BY <1>1, <1>2 DEF Leaves, Fail, Goto
<1>4. ASSUME Clean' PROVE pc[Other(e)] = "crashed"
  <2>1. Clean /\ "err" \in {writer[e], reader[e]} BY <1>1, <1>4 DEF Clean, conf
  <2> QED BY <1>1, <1>2, <2>1 DEF Blamed
<1> QED BY <1>3, <1>4, LeavesAfterCrash

\* Both goroutines are done: messages are compressed from now on.
LEMMA ProtocolHandshakeKeeps ==
  ASSUME ConnectInv, NEW e \in Ends, ProtocolHandshake(e)
  PROVE  ConnectInv'
<1> DEFINE d == Other(e)
<1>0. d \in Ends /\ Other(d) = e /\ d # e BY Others
<1>1. Types /\ Dialled /\ Own(e) /\ Local(e) /\ InTransit(d) BY <1>0 DEF ConnectInv, Own
<1>2. /\ UNCHANGED <<conf, writer, reader, ch, closed, secrets, streams, sent, got, fault>>
      /\ pc[e] = "proto" /\ writer[e] = "ok" /\ reader[e] = "ok"
      /\ snappy' = [snappy EXCEPT ![e] = TRUE] /\ pc' = [pc EXCEPT ![e] = "negotiate"]
  BY DEF ProtocolHandshake, wire, Goto
<1>3. pc \in [Ends -> Labels] /\ snappy \in [Ends -> BOOLEAN] BY <1>1 DEF Types
<1>4. /\ pc'[e] = "negotiate" /\ pc'[d] = pc[d] /\ pc' \in [Ends -> Labels]
      /\ snappy'[e] = TRUE /\ snappy'[d] = snappy[d] /\ snappy' \in [Ends -> BOOLEAN]
  BY <1>0, <1>2, <1>3 DEF Labels
<1>5. Kept(d) BY <1>2, <1>4 DEF Kept
<1>6. Types'
  <2>1. DOMAIN ch' = Ends /\ \A x \in Ends : ch'[x] \in Seq(PacketsTo(x)')
    BY <1>1, <1>2, ChTypes
  <2> QED BY <1>1, <1>2, <1>4, <2>1 DEF Types, conf
<1>7. Dialled' BY <1>0, <1>1, <1>2, <1>4 DEF Dialled, HasRecv, conf, Ends
<1>8. Read(e) = 2 /\ Read(e)' = 2 BY <1>2, <1>4 DEF Read, HasRecv
<1>9. Own(e)'
  <2>1. Opened(e)' /\ Delivered(e)' BY <1>1, <1>2, <1>4, Quiet
  <2>2. Local(e)'
    <3>1. Secrets(e, Remote(e))' = Secrets(e, Remote(e)) BY <1>2, ConfKept DEF Secrets
    <3> QED BY <1>1, <1>2, <1>4, <3>1 DEF Local, HasRecv, PreProto
  <2>3. Identified(e)'
    <3>1. Remote(e)' = Remote(e) BY <1>2, ConfKept
    <3> QED BY <1>1, <1>2, <1>8, <3>1 DEF Identified, Own, conf
  <2>4. Blamed(e)' BY <1>4 DEF Blamed
  <2> QED BY <2>1, <2>2, <2>3, <2>4 DEF Own
<1>10. OwnStep(e) BY <1>2, <1>8 DEF OwnStep
<1>11. InTransit(d)'
  <2>1. CanWrite(e) /\ Written(e)' = Written(e)
    BY <1>2, <1>4 DEF CanWrite, Written
  <2> QED BY <1>1, <1>2, <1>5, <2>1, TransitOther
<1> QED BY <1>2, <1>5, <1>6, <1>7, <1>9, <1>10, <1>11, Together

-----------------------------------------------------------------------------
(* The session.                                                            *)

\* An end whose recvLoop runs goes on.
LEMMA ServesOn ==
  ASSUME ConnectInv, NEW e \in Ends, HasRecv(e), HasRecv(e)',
         UNCHANGED <<conf, writer, reader, closed, secrets, snappy, sent, fault>>,
         NEW label \in Labels, pc' = [pc EXCEPT ![e] = label],
         label = "offer" => e = "server",
         NEW list \in Seq(Protocols), streams' = [streams EXCEPT ![e] = list],
         got'[Other(e)] = got[Other(e)], DOMAIN got' = Ends,
         UNCHANGED ch \/ (ch[e] # <<>> /\ ch' = [ch EXCEPT ![e] = Tail(@)]),
         Opened(e)', Delivered(e)'
  PROVE  ConnectInv'
<1> DEFINE d == Other(e)
<1>0. d \in Ends /\ Other(d) = e /\ d # e BY Others
<1>1. Types /\ Dialled /\ Own(e) /\ Local(e) /\ InTransit(d) BY <1>0 DEF ConnectInv, Own
<1>2. /\ pc \in [Ends -> Labels] /\ streams \in [Ends -> Seq(Protocols)] /\ DOMAIN got = Ends
      /\ DOMAIN ch = Ends
  BY <1>1 DEF Types
<1>3. /\ pc'[e] = label /\ pc'[d] = pc[d] /\ pc' \in [Ends -> Labels]
      /\ streams'[d] = streams[d] /\ streams' \in [Ends -> Seq(Protocols)]
  BY <1>0, <1>2
<1>4. Kept(d) BY <1>3 DEF Kept
<1>5. ch'[d] = ch[d] /\ (ch["client"] = <<>> => ch'["client"] = <<>>) BY <1>0, <1>2 DEF Ends
<1>6. Types'
  <2>1. DOMAIN ch' = Ends /\ \A x \in Ends : ch'[x] \in Seq(PacketsTo(x)') BY <1>1, ChTypes
  <2> QED BY <1>1, <1>3, <2>1 DEF Types, conf
<1>7. pc[e] # "proto" /\ pc'[e] # "proto" /\ ~PreProto(e) /\ ~PreProto(e)'
  BY DEF HasRecv, PreProto
<1>8. Dialled'
  <2>1. \A x \in Ends : x # e => x = d BY DEF Ends, Other
  <2>2. HasRecv(d)' <=> HasRecv(d) BY <1>0, <1>4, KeptStages
  <2>3. CASE e = "client" BY <1>0, <1>1, <1>3, <1>5, <2>2, <2>3 DEF Dialled, conf, Other
  <2>4. CASE e = "server" BY <1>0, <1>1, <1>3, <1>5, <2>2, <2>4 DEF Dialled, conf, Other
  <2> QED BY <2>3, <2>4 DEF Ends
<1>9. Read(e) = 2 /\ Read(e)' = 2 BY <1>7 DEF Read, PreProto
<1>10. Own(e)'
  <2>1. Remote(e)' = Remote(e) BY ConfKept
  <2>2. Local(e)'
    <3>1. Secrets(e, Remote(e))' = Secrets(e, Remote(e)) BY <2>1 DEF Secrets
    <3>2. label \notin {"makeAuth", "readResp", "readAuth", "makeResp"}
      BY <1>3, <1>7 DEF PreProto
    <3>3. e \notin closed BY <1>1 DEF Local, HasRecv
    <3>4. writer[e] = "ok" /\ reader[e] = "ok" /\ snappy[e] /\ secrets[e] = Secrets(e, Remote(e))
      BY <1>1 DEF Local
    <3> QED BY <1>3, <1>7, <3>1, <3>2, <3>3, <3>4 DEF Local
  <2>3. Identified(e)' BY <1>1, <1>9, <2>1 DEF Identified, Own, conf
  <2>4. Blamed(e)' BY <1>7 DEF Blamed, HasRecv
  <2> QED BY <2>2, <2>3, <2>4 DEF Own
<1>11. OwnStep(e) BY <1>2, <1>9 DEF OwnStep
<1>12. InTransit(d)'
  <2>1. CanWrite(e) /\ Written(e)' = Written(e)
    BY <1>7 DEF CanWrite, Written, PreProto
  <2> QED BY <1>0, <1>1, <1>4, <1>5, <2>1, TransitOther
<1> QED BY <1>4, <1>6, <1>7, <1>8, <1>10, <1>11, <1>12, Together DEF HasRecv

\* The next stream is that of the next common protocol.
LEMMA OpenStreamKeeps ==
  ASSUME ConnectInv, NEW e \in Ends, OpenStream(e)
  PROVE  ConnectInv'
<1> DEFINE n == Len(streams[e]) + 1
           c == Common(e)
           list == Append(streams[e], c[n])
<1>1. Types /\ Opened(e) /\ Delivered(e) BY DEF ConnectInv, Own
<1>2. /\ pc[e] = "negotiate" /\ Len(streams[e]) < Len(c)
      /\ streams' = [streams EXCEPT ![e] = list]
      /\ UNCHANGED <<conf, pc, writer, reader, ch, closed, secrets, snappy, sent, got, fault>>
  BY <1>1 DEF OpenStream, wire, Types
<1>3. /\ streams[e] \in Seq(Protocols) /\ Len(streams[e]) \in Nat /\ DOMAIN streams = Ends
      /\ pc \in [Ends -> Labels] /\ DOMAIN got = Ends
  BY <1>1 DEF Types
<1>4. c \in Seq(Protocols) /\ Len(c) \in Nat BY <1>1, CommonIs
<1>5. c' = c /\ Common(Other(e))' = Common(Other(e)) BY <1>2, ConfKept, Others
<1> HIDE DEF c
<1>6. list \in Seq(Protocols) /\ Len(list) = n /\ n \in 1..Len(c)
      /\ \A i \in 1..n : list[i] = c[i]
  <2>1. n \in 1..Len(c) BY <1>2, <1>3, <1>4
  <2>2. c[n] \in Protocols BY <1>4, <2>1
  <2>3. /\ list \in Seq(Protocols) /\ Len(list) = n /\ list[n] = c[n]
        /\ \A i \in 1..Len(streams[e]) : list[i] = streams[e][i]
    BY <1>3, <2>2
  <2>4. \A i \in 1..Len(streams[e]) : streams[e][i] = c[i] BY <1>1 DEF Opened, c
  <2>5. \A i \in 1..n : i = n \/ i \in 1..Len(streams[e]) BY <1>3
  <2> QED BY <2>1, <2>3, <2>4, <2>5
<1>7. streams'[e] = list BY <1>2, <1>3
<1> HIDE DEF list, n
<1>8. Opened(e)'
  <2>1. /\ Len(streams[e])' <= Len(Common(e))'
        /\ \A i \in 1..Len(streams'[e]) : streams'[e][i] = Common(e)'[i]
    BY <1>4, <1>5, <1>6, <1>7 DEF c
  <2> QED BY <1>2, <2>1 DEF Opened
<1>9. Delivered(e)' BY <1>1, <1>2, <1>5 DEF Delivered, c
<1>10. HasRecv(e) /\ HasRecv(e)' BY <1>2 DEF HasRecv
<1>11. pc' = [pc EXCEPT ![e] = "negotiate"]
  BY <1>2, <1>3
<1>12. "negotiate" \in Labels BY DEF Labels
<1> QED BY <1>2, <1>3, <1>6, <1>8, <1>9, <1>10, <1>11, <1>12, ServesOn

\* The loop is over: an end that has opened no stream has nothing in common.
LEMMA NegotiatedKeeps ==
  ASSUME ConnectInv, NEW e \in Ends, Negotiated(e)
  PROVE  ConnectInv'
<1> DEFINE label == IF streams[e] = <<>> THEN "unmatched"
                    ELSE IF e = "client" THEN "open" ELSE "offer"
<1>1. Types /\ Opened(e) /\ Delivered(e) BY DEF ConnectInv, Own
<1>2. /\ pc[e] = "negotiate" /\ Len(streams[e]) = Len(Common(e))
      /\ pc' = [pc EXCEPT ![e] = label]
      /\ UNCHANGED <<conf, writer, reader, ch, closed, secrets, snappy, streams, sent, got, fault>>
  BY DEF Negotiated, wire, Goto
<1>3. /\ streams \in [Ends -> Seq(Protocols)] /\ streams[e] \in Seq(Protocols)
      /\ pc \in [Ends -> Labels] /\ DOMAIN got = Ends
  BY <1>1 DEF Types
<1>4. Common(e)' = Common(e) /\ Common(Other(e))' = Common(Other(e)) BY <1>2, ConfKept, Others
<1>5. label = "unmatched" => Len(Common(e)) = 0 BY <1>2
<1>6. label \in {"unmatched", "open", "offer"} /\ (label = "offer" => e = "server")
  BY DEF Ends
<1> HIDE DEF label
<1>7. pc'[e] = label BY <1>2, <1>3
<1>8. Opened(e)' BY <1>1, <1>2, <1>4, <1>5, <1>6, <1>7 DEF Opened
<1>9. Delivered(e)' BY <1>1, <1>2, <1>4 DEF Delivered
<1>10. HasRecv(e) /\ HasRecv(e)' /\ label \in Labels BY <1>2, <1>6, <1>7 DEF HasRecv, Labels
<1>11. streams' = [streams EXCEPT ![e] = streams[e]]
  BY <1>2, <1>3
<1> QED BY <1>2, <1>3, <1>6, <1>8, <1>9, <1>10, <1>11, ServesOn

\* The session is handed over or dropped with the streams it has.
LEMMA OfferKeeps ==
  ASSUME ConnectInv, Offer
  PROVE  ConnectInv'
<1> DEFINE e == "server"
<1>0. e \in Ends BY DEF Ends
<1>1. Types /\ Opened(e) /\ Delivered(e) BY <1>0 DEF ConnectInv, Own
<1>2. /\ pc[e] = "offer"
      /\ pc' = [pc EXCEPT ![e] = "open"] \/ pc' = [pc EXCEPT ![e] = "dropped"]
      /\ UNCHANGED <<conf, writer, reader, ch, closed, secrets, snappy, streams, sent, got, fault>>
  BY DEF Offer, wire, Goto
<1>3. PICK label \in {"open", "dropped"} : pc' = [pc EXCEPT ![e] = label] BY <1>2
<1>4. /\ streams \in [Ends -> Seq(Protocols)] /\ streams[e] \in Seq(Protocols)
      /\ pc \in [Ends -> Labels] /\ DOMAIN got = Ends
  BY <1>0, <1>1 DEF Types
<1>5. Common(e)' = Common(e) /\ Common(Other(e))' = Common(Other(e))
  BY <1>0, <1>2, ConfKept, Others
<1>6. pc'[e] = label BY <1>0, <1>3, <1>4
<1>7. Opened(e)' BY <1>1, <1>2, <1>5, <1>6 DEF Opened
<1>8. Delivered(e)' BY <1>1, <1>2, <1>5 DEF Delivered
<1>9. HasRecv(e) /\ HasRecv(e)' /\ label \in Labels BY <1>2, <1>6 DEF HasRecv, Labels
<1>10. streams' = [streams EXCEPT ![e] = streams[e]]
  BY <1>0, <1>2, <1>4
<1> QED BY <1>0, <1>2, <1>3, <1>4, <1>7, <1>8, <1>9, <1>10, ServesOn

\* A message carries the number of its stream among those of the end that writes it.
LEMMA WriteMsgKeeps ==
  ASSUME ConnectInv, NEW e \in Ends, NEW i, WriteMsg(e, i)
  PROVE  ConnectInv'
<1> DEFINE d == Other(e)
           m == Frame(e, "msg", [code |-> i, proto |-> streams[e][i]])
<1>0. d \in Ends /\ Other(d) = e /\ d # e BY Others
<1>1. Types /\ Dialled /\ Own(e) /\ Local(e) /\ Opened(e) /\ InTransit(d) /\ Local(d)
  BY <1>0 DEF ConnectInv, Own
<1>2. /\ pc[e] = "open" /\ e \notin sent /\ i \in 1..Len(streams[e]) /\ Arrives(e, m)
      /\ sent' = sent \cup {e}
      /\ UNCHANGED <<conf, pc, writer, reader, secrets, snappy, streams, closed, got>>
  BY DEF WriteMsg, end
<1>3. HasRecv(e) BY <1>2 DEF HasRecv
<1>4. m \in MsgsTo(d) /\ m \in PacketsTo(d)
  <2>1. secrets[e].egress = Egress(e) /\ snappy[e] = TRUE
    BY <1>1, <1>3, SecretsAre DEF Local, Types
  <2>2. i \in 1..Len(Common(e)) /\ streams[e][i] = Common(e)[i]
    BY <1>1, <1>2 DEF Opened
  <2>3. m = MsgTo(d, i) BY <1>0, <2>1, <2>2 DEF Frame, MsgTo
  <2> HIDE DEF m
  <2>4. m \in MsgsTo(d) BY <1>0, <2>2, <2>3 DEF MsgsTo
  <2> QED BY <2>4 DEF PacketsTo
<1> HIDE DEF m
<1>5. Kept(d) BY <1>0, <1>2 DEF Kept
<1>6. ch'[e] = ch[e] /\ (fault => fault') /\ fault' \in BOOLEAN
  BY <1>0, <1>1, <1>2 DEF Arrives, Types
<1>7. Types'
  <2>1. DOMAIN ch' = Ends /\ \A x \in Ends : ch'[x] \in Seq(PacketsTo(x)')
    BY <1>1, <1>2, <1>4, ChTypes
  <2>2. sent' \subseteq Ends BY <1>1, <1>2 DEF Types
  <2> QED BY <1>1, <1>2, <1>6, <2>1, <2>2 DEF Types, conf
<1>8. Dialled'
  <2>1. CASE e = "client" BY <1>1, <1>2, <1>6, <2>1 DEF Dialled, HasRecv, conf
  <2>2. CASE e = "server" BY <1>1, <1>2, <1>3, <2>2 DEF Dialled, conf
  <2> QED BY <2>1, <2>2 DEF Ends
<1>9. Read(e)' = Read(e) /\ Read(e) = 2 BY <1>2 DEF Read, HasRecv
<1>10. Own(e)'
  <2>1. Opened(e)' /\ Delivered(e)' BY <1>1, <1>2, Quiet
  <2>2. Remote(e)' = Remote(e) BY <1>2, ConfKept
  <2>3. Local(e)'
    <3>1. Secrets(e, Remote(e))' = Secrets(e, Remote(e)) BY <2>2 DEF Secrets
    <3> QED BY <1>1, <1>2, <3>1 DEF Local, HasRecv, PreProto
  <2>4. Identified(e)' BY <1>1, <1>2, <1>9, <2>2 DEF Identified, Own, conf
  <2>5. Blamed(e)' BY <1>2 DEF Blamed
  <2> QED BY <2>1, <2>3, <2>4, <2>5 DEF Own
<1>11. OwnStep(e) BY <1>6, <1>9 DEF OwnStep
<1>12. InTransit(d)'
  <2>1. CanWrite(e) /\ Written(e) = 2 /\ e \in sent'
    BY <1>2, <1>3 DEF CanWrite, Written
  <2>2. Following(Other(e), Written(e), m) BY <1>4, <2>1 DEF Following
  <2> QED BY <1>1, <1>2, <1>4, <1>5, <2>1, <2>2, TransitWrite
<1> QED BY <1>2, <1>5, <1>6, <1>7, <1>8, <1>10, <1>11, <1>12, Together

\* What recvLoop reads is a message, in the MAC and the compression of e; it comes out on
\* the stream with its number, or finds that e has not opened it yet.
LEMMA RecvKeeps ==
  ASSUME ConnectInv, NEW e \in Ends, Recv(e)
  PROVE  ConnectInv'
<1> DEFINE d == Other(e)
           m == Head(ch[e])
           k == m.body.code
<1>0. d \in Ends /\ Other(d) = e /\ d # e BY Others
<1>1. Types /\ Local(e) /\ Opened(e) /\ Delivered(e) /\ InTransit(e) BY DEF ConnectInv, Own
<1>2. /\ HasRecv(e) /\ ch[e] # <<>> /\ ch' = [ch EXCEPT ![e] = Tail(@)]
      /\ UNCHANGED <<conf, writer, reader, secrets, snappy, streams, sent, fault>>
  BY DEF Recv
<1>3. m \in MsgsTo(e)
  <2>1. Read(e) = 2 BY <1>2 DEF Read, HasRecv
  <2>2. Rest(e, 2, ch[e]) BY <1>1, <2>1 DEF InTransit
  <2>3. ch[e] \in Seq(PacketsTo(e)) BY <1>1 DEF Types
  <2>4. 2 \in Nat /\ 2 > 1 OBVIOUS
  <2> HIDE DEF m
  <2>5. Head(ch[e]) \in MsgsTo(e) BY <1>2, <2>2, <2>3, <2>4, RestTail
  <2> QED BY <2>5 DEF m
<1>4. /\ Readable(e, m) /\ k \in 1..Len(Common(d)) /\ m.body.proto = Common(d)[k]
  <2>1. secrets[e].ingress = Egress(d) /\ snappy[e] = TRUE
    BY <1>1, <1>2, SecretsAre DEF Local, Types
  <2>2. /\ m.type = "msg" /\ m.mac = Egress(d) /\ m.snappy = TRUE
        /\ k \in 1..Len(Common(d)) /\ m.body.proto = Common(d)[k]
    BY <1>3, Kinds
  <2> QED BY <2>1, <2>2 DEF Readable
<1>5. Len(Common(d)) = Len(Common(e)) /\ Len(Common(e)) \in Nat
  BY <1>0, <1>1, SameLength, CommonIs DEF Ends, Other
<1>6. /\ streams \in [Ends -> Seq(Protocols)] /\ streams[e] \in Seq(Protocols)
      /\ Len(streams[e]) \in Nat /\ pc \in [Ends -> Labels] /\ DOMAIN got = Ends
      /\ fault \in BOOLEAN
  BY <1>1 DEF Types
<1>7. Common(e)' = Common(e) /\ Common(d)' = Common(d) BY <1>0, <1>2, ConfKept
<1>8. CASE /\ k <= Len(streams[e])
           /\ got' = [got EXCEPT ![e] = @ \cup {<<m.body.proto, streams[e][k]>>}]
           /\ UNCHANGED <<pc, closed>>
  <2>1. k \in 1..Len(streams[e]) /\ k \in 1..Len(Common(e)) BY <1>4, <1>5, <1>6, <1>8
  <2>2. <<m.body.proto, streams[e][k]>> = <<Common(d)[k], Common(e)[k]>>
    BY <1>1, <1>4, <2>1 DEF Opened
  <2> HIDE DEF k, m
  <2>3. /\ got'[e] = got[e] \cup {<<Common(d)[k], Common(e)[k]>>}
        /\ got'[d] = got[d] /\ DOMAIN got' = Ends
    BY <1>0, <1>6, <1>8, <2>2
  <2>4. Delivered(e)' BY <1>1, <1>7, <2>1, <2>3 DEF Delivered
  <2>5. Opened(e)' BY <1>1, <1>2, <1>7, <1>8 DEF Opened
  <2>6. /\ pc' = [pc EXCEPT ![e] = pc[e]] /\ pc[e] \in Labels
        /\ streams' = [streams EXCEPT ![e] = streams[e]]
    BY <1>2, <1>6, <1>8
  <2>7. HasRecv(e)' /\ (pc[e] = "offer" => e = "server") BY <1>1, <1>2, <1>8 DEF HasRecv, Local
  <2> QED BY <1>2, <1>6, <1>8, <2>3, <2>4, <2>5, <2>6, <2>7, ServesOn
<1>9. CASE k > Len(streams[e]) /\ Goto(e, "crashed") /\ closed' = closed \cup {e} /\ UNCHANGED got
  <2>1. Leaves(e, "crashed") BY <1>2, <1>6, <1>9 DEF Leaves, Goto, HasRecv
  <2>2. Len(streams[e]) < Len(Common(e)) BY <1>4, <1>5, <1>6, <1>9
  <2>3. pc'[e] = "crashed" BY <1>6, <1>9 DEF Goto
  <2>4. Blamed(e)' BY <1>2, <1>7, <2>2, <2>3 DEF Blamed
  <2> QED BY <2>1, <2>4, LeavesKeeps
<1> QED BY <1>4, <1>8, <1>9 DEF Recv

\* The session ends because the other end is gone, or was closed.
LEMMA EndKeeps ==
  ASSUME ConnectInv, NEW e \in Ends, End(e)
  PROVE  ConnectInv'
<1>1. /\ HasRecv(e)
      /\ (Other(e) \in closed /\ UNCHANGED fault) \/ fault' = TRUE
      /\ pc' = [pc EXCEPT ![e] = "ended"] /\ closed' = closed \cup {e}
      /\ UNCHANGED <<conf, ch, writer, reader, secrets, snappy, streams, sent, got>>
  BY DEF End, Goto
<1>2. Leaves(e, "ended")
  <2>1. fault \in BOOLEAN BY DEF ConnectInv, Types
  <2>2. fault' = fault \/ fault' = TRUE BY <1>1
  <2>3. fault' \in BOOLEAN /\ (fault => fault') BY <2>1, <2>2
  <2> QED BY <1>1, <2>3 DEF Leaves, HasRecv
<1>3. ASSUME Clean' PROVE pc[Other(e)] = "crashed"
  <2>1. Clean /\ Other(e) \in closed /\ pc[e] # "crashed" BY <1>1, <1>3 DEF Clean, conf, HasRecv
  <2> QED BY <2>1, GoneIsCrashed
<1> QED BY <1>2, <1>3, LeavesAfterCrash

\* An end that hangs is a fault.
LEMMA HangKeeps ==
  ASSUME ConnectInv, NEW e \in Ends, Hang(e)
  PROVE  ConnectInv'
<1>1. /\ pc[e] \in {"makeAuth", "readAuth", "makeResp", "readResp", "proto"} /\ fault' = TRUE
      /\ pc' = [pc EXCEPT ![e] = "hung"]
      /\ writer' = [writer EXCEPT ![e] = "none"] /\ reader' = [reader EXCEPT ![e] = "none"]
      /\ UNCHANGED <<conf, ch, closed, secrets, snappy, streams, sent, got>>
  BY DEF Hang, Goto, wire
<1>2. writer'[e] = "none" /\ reader'[e] = "none" BY <1>1 DEF ConnectInv, Types
<1>3. Leaves(e, "hung") BY <1>1, <1>2 DEF Leaves
<1> QED BY <1>1, <1>3, LeavesByFault

-----------------------------------------------------------------------------
(* The theorems.                                                           *)

\* A step that leaves the connection alone, as Accept does.
LEMMA Unchanged ==
  ASSUME ConnectInv, UNCHANGED <<conf, end, wire, sent, got, fault>>
  PROVE  ConnectInv'
<1>1. UNCHANGED <<conf, pc, writer, reader, secrets, snappy, streams, ch, closed, sent, got, fault>>
  BY DEF end, wire
<1>2. \A e \in Ends : Kept(e) BY <1>1 DEF Kept
<1>3. "client" \in Ends /\ Other("client") \in Ends BY DEF Ends, Other
<1>4. Types'
  <2>1. DOMAIN ch' = Ends /\ \A x \in Ends : ch'[x] \in Seq(PacketsTo(x)')
    BY <1>1, <1>3, ChTypes DEF ConnectInv
  <2> QED BY <1>1, <2>1 DEF ConnectInv, Types, conf
<1>5. Dialled' BY <1>1 DEF ConnectInv, Dialled, HasRecv, conf
<1>6. \A e \in Ends : Own(e)' BY <1>1, <1>2, KeptParts DEF ConnectInv
<1>7. \A e \in Ends : OwnStep(e) /\ Kept(Other(e))
  BY <1>1, <1>2, KeptStages, Others DEF OwnStep
<1>8. \A e \in Ends : InTransit(e)' BY <1>1, <1>7, TransitOwn DEF ConnectInv
<1> QED BY <1>4, <1>5, <1>6, <1>8 DEF ConnectInv

\* The invariant holds before the first packet.
LEMMA InitHolds ==
  ASSUME Init
  PROVE  ConnectInv
<1>1. /\ dialled \in {"server", "other"} /\ infoID \in [Ends -> {"client", "server", "other"}]
      /\ caps \in [Ends -> CapLists] /\ fault = FALSE /\ sent = {} /\ closed = {}
      /\ pc = [e \in Ends |-> IF e = "client" THEN "makeAuth" ELSE "readAuth"]
      /\ writer = [e \in Ends |-> "none"] /\ reader = [e \in Ends |-> "none"]
      /\ ch = [e \in Ends |-> <<>>] /\ snappy = [e \in Ends |-> FALSE]
      /\ secrets = [e \in Ends |-> NoSecrets]
      /\ streams = [e \in Ends |-> <<>>] /\ got = [e \in Ends |-> {}]
  BY DEF Init
<1>2. Types
  <2>1. pc \in [Ends -> Labels] BY <1>1 DEF Labels
  <2>2. writer \in [Ends -> Progress] /\ reader \in [Ends -> Progress] BY <1>1 DEF Progress
  <2>3. DOMAIN ch = Ends /\ \A e \in Ends : ch[e] \in Seq(PacketsTo(e)) BY <1>1
  <2>4. streams \in [Ends -> Seq(Protocols)] /\ snappy \in [Ends -> BOOLEAN] BY <1>1
  <2> QED BY <1>1, <2>1, <2>2, <2>3, <2>4 DEF Types
<1>3. Dialled BY <1>1 DEF Dialled, HasRecv, Ends
<1>4. ASSUME NEW e \in Ends PROVE Own(e) /\ InTransit(e)
  <2>1. /\ pc[e] = IF e = "client" THEN "makeAuth" ELSE "readAuth"
        /\ writer[e] = "none" /\ reader[e] = "none" /\ ch[e] = <<>> /\ snappy[e] = FALSE
        /\ streams[e] = <<>> /\ got[e] = {}
    BY <1>1
  <2>2. Local(e) BY <1>1, <2>1 DEF Local, HasRecv, PreProto, Ends
  <2>3. Read(e) = 0 BY <2>1 DEF Read
  <2>4. Identified(e) /\ Blamed(e) BY <2>1, <2>3 DEF Identified, Blamed
  <2>5. Opened(e) /\ Delivered(e)
    <3>1. Len(Common(e)) \in Nat BY <1>2, CommonIs
    <3> QED BY <2>1, <3>1 DEF Opened, Delivered
  <2>6. InTransit(e)
    <3>1. Written(Other(e)) = 0
      <4>1. pc[Other(e)] \in {"makeAuth", "readAuth"} BY <1>1, Others
      <4> QED BY <4>1 DEF Written
    <3>2. Rest(e, 0, ch[e]) BY <2>1 DEF Rest
    <3> QED BY <2>1, <2>3, <3>1, <3>2 DEF InTransit
  <2> QED BY <2>2, <2>4, <2>5, <2>6 DEF Own
<1> QED BY <1>2, <1>3, <1>4 DEF ConnectInv

\* ConnectInv is an invariant, for every set of protocols, every pair of lists of
\* capabilities, every key that is dialled and every identity in the Infos.
THEOREM ConnectInvariance == Spec => []ConnectInv
<1>1. Init => ConnectInv BY InitHolds
<1>2. ConnectInv /\ [Next]_vars => ConnectInv'
  <2> SUFFICES ASSUME ConnectInv, [Next]_vars PROVE ConnectInv' OBVIOUS
  <2>1. "client" \in Ends /\ "server" \in Ends BY DEF Ends
  <2>2. ASSUME NEW e \in Ends, Step(e) PROVE ConnectInv'
    BY <2>2, ReadFailsKeeps, WriteInfoKeeps, ReadInfoKeeps, ReadInfoFailsKeeps,
       ProtocolHandshakeKeeps, ProtocolHandshakeFailsKeeps, OpenStreamKeeps, NegotiatedKeeps,
       RecvKeeps DEF Step
  <2>3. CASE ClientStep BY <2>1, <2>2, <2>3, MakeAuthKeeps, ReadRespKeeps DEF ClientStep
  <2>4. CASE ServerStep BY <2>1, <2>2, <2>4, ReadAuthKeeps, MakeRespKeeps, OfferKeeps DEF ServerStep
  <2>5. CASE Accept BY <2>5, Unchanged DEF Accept
  <2>6. CASE UNCHANGED vars BY <2>6, Unchanged DEF vars
  <2>7. CASE \E e \in Ends : \/ Hang(e) \/ End(e)
                             \/ \E i \in 1..Cardinality(Protocols) : WriteMsg(e, i)
    BY <2>7, HangKeeps, EndKeeps, WriteMsgKeeps
  <2> QED BY <2>3, <2>4, <2>5, <2>6, <2>7 DEF Next
<1> QED BY <1>1, <1>2, PTL DEF Spec

\* Whatever the order of the steps of the two ends and their goroutines: a handshake fails,
\* and a session ends, only for a fault, a Close, a wrong identity or a crash; an end
\* crashes only for a fault or a message that comes before its stream is open; and
\* negotiateProtocols finds nothing only when there is nothing in common.
THEOREM ConnectFailsForAReason == Spec => []FailsForAReason
<1>1. ConnectInv => FailsForAReason
  <2> SUFFICES ASSUME ConnectInv, NEW e \in Ends
               PROVE  /\ pc[e] \in {"failed", "ended"} =>
                           \/ fault \/ dialled # "server" \/ \E d \in Ends : infoID[d] # d
                           \/ pc[Other(e)] = "crashed"
                      /\ pc[e] = "crashed" => fault \/ Len(streams[e]) < Len(Common(e))
                      /\ pc[e] = "unmatched" =>
                           ToSet(caps["client"]) \cap ToSet(caps["server"]) = {}
    BY DEF FailsForAReason
  <2>1. Types /\ Blamed(e) /\ Opened(e) BY DEF ConnectInv, Own
  <2>2. ASSUME pc[e] = "unmatched" PROVE ToSet(caps["client"]) \cap ToSet(caps["server"]) = {}
    <3>1. /\ Common(e) \in Seq(Protocols) /\ Len(Common(e)) = 0
          /\ ToSet(Common(e)) = ToSet(caps["client"]) \cap ToSet(caps["server"])
      BY <2>1, <2>2, CommonIs DEF Opened
    <3>2. DOMAIN Common(e) = {} BY <3>1
    <3> QED BY <3>1, <3>2 DEF ToSet
  <2> QED BY <2>1, <2>2 DEF Blamed, Clean
<1> QED BY <1>1, ConnectInvariance, PTL

\* An end whose handshake has succeeded talks to the key it was given or was told, has the
\* common protocols as its streams, and both ends take a message for one of the same
\* protocol if they list their protocols in the same order.
THEOREM ConnectOpenMeansAgreed == Spec => []OpenMeansAgreed
<1>1. ConnectInv => OpenMeansAgreed
  <2> SUFFICES ASSUME ConnectInv PROVE OpenMeansAgreed OBVIOUS
  <2>1. Types /\ Dialled BY DEF ConnectInv
  <2>2. ASSUME NEW e \in Ends, pc[e] \in {"open", "offer", "dropped"}
        PROVE  /\ secrets[e].remote = Other(e) /\ dialled = "server"
               /\ infoID[Other(e)] = Other(e)
               /\ ToSet(streams[e]) = ToSet(caps["client"]) \cap ToSet(caps["server"])
    <3>1. Local(e) /\ Identified(e) /\ Opened(e) BY DEF ConnectInv, Own
    <3>2. HasRecv(e) /\ Read(e) = 2 BY <2>2 DEF HasRecv, Read
    <3>3. dialled = "server" BY <2>1, <3>2 DEF Dialled, Ends
    <3>4. Remote(e) = Other(e) BY <3>3 DEF Remote, Other, Ends
    <3>5. secrets[e].remote = Remote(e) /\ infoID[Other(e)] = Remote(e)
      BY <2>1, <3>1, <3>2, SecretsAre DEF Identified
    <3>6. ToSet(streams[e]) = ToSet(Common(e))
      <4>1. /\ streams[e] \in Seq(Protocols) /\ Common(e) \in Seq(Protocols)
            /\ Len(streams[e]) = Len(Common(e))
            /\ \A i \in 1..Len(streams[e]) : streams[e][i] = Common(e)[i]
        BY <2>1, <2>2, <3>1, CommonIs DEF Opened, Types
      <4>2. streams[e] = Common(e) BY <4>1, SeqEqual
      <4> QED BY <4>2
    <3> QED BY <2>1, <3>3, <3>4, <3>5, <3>6, CommonIs
  <2>3. ASSUME SameOrder, NEW e \in Ends, NEW g \in got[e] PROVE g[1] = g[2]
    <3>1. Common(Other(e)) = Common(e) BY <2>3 DEF SameOrder, Ends, Other
    <3>2. PICK i \in 1..Len(Common(e)) : g = <<Common(Other(e))[i], Common(e)[i]>>
      BY <2>3 DEF ConnectInv, Own, Delivered
    <3> QED BY <3>1, <3>2
  <2> QED BY <2>2, <2>3 DEF OpenMeansAgreed
<1> QED BY <1>1, ConnectInvariance, PTL
=============================================================================
