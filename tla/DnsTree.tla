------------------------------ MODULE DnsTree ------------------------------
(***************************************************************************)
(* The iterator over a tree of node records kept in the DNS                *)
(* (dnsdisc/dnsdisc.go).  Has() resolves the root once and then walks the  *)
(* tree depth first, one TXT lookup per entry, until it meets a record;    *)
(* Next() returns it.  A lookup may fail and an entry may be malformed or  *)
(* not have the hash it was looked up by: Has() is then false as it is at  *)
(* the end, and the entry is not looked up again.                          *)
(*                                                                         *)
(* A text is [prefix, hashes, record, hash]: its kind, the names a branch  *)
(* or a root lists, the record of a leaf ("bad" if it does not decode),    *)
(* and the hash of the text, which is its name when the zone is honest.    *)
(* The link of a root and its signature are not used by the code.          *)
(***************************************************************************)
EXTENDS Integers, Sequences
LOCAL INSTANCE SequencesExt
LOCAL INSTANCE FiniteSetsExt

CONSTANTS Domain,   \* the name of the root
          Zone,     \* Zone[name]: the texts served for a name, the root's under Domain
          NoRecord  \* what Next returns when there is none

VARIABLES
  resolved,  \* d.root # nil
  missing,   \* names still to be looked up
  current,
  calling,   \* a call of Has is under way
  given,     \* the records Next has returned, in order
  lost       \* names whose lookup or contents ended a call

dns == <<resolved, missing, current, calling, given, lost>>

\* The outcome of parsing a text: its kind, or "error".
parseEntry(text) ==
  IF text.prefix \notin {"enr", "branch", "link", "root"} \/ text.record = "bad"
  THEN "error" ELSE text.prefix

parseEntryRoot(text) == IF text.prefix = "root" THEN "root" ELSE "error"

DnsInit ==
  /\ resolved = FALSE
  /\ missing = <<>>
  /\ current = NoRecord
  /\ calling = FALSE
  /\ given = <<>>
  /\ lost = {}

\* Has returns, and the caller takes the record.
Return(record) ==
  /\ calling' = FALSE
  /\ current' = record
  /\ given' = IF record = NoRecord THEN given ELSE Append(given, record)

CallHas ==
  /\ ~calling
  /\ calling' = TRUE
  /\ UNCHANGED <<resolved, missing, current, given, lost>>

\* The lookup of the root failed or its text is no root: the next call tries again.
RootFails ==
  /\ calling /\ ~resolved
  /\ Return(NoRecord)
  /\ UNCHANGED <<resolved, missing, lost>>

resolveRoot ==
  /\ calling /\ ~resolved
  /\ LET txt == Zone[Domain][1]
     IN parseEntryRoot(txt) = "root" /\ missing' = <<txt.hashes[1]>>
  /\ resolved' = TRUE
  /\ UNCHANGED <<current, calling, given, lost>>

\* The texts of one name before the first that ends the call: a record, or one that does
\* not parse or whose hash is not the name.
stopsAt(name, texts) ==
  {i \in DOMAIN texts : parseEntry(texts[i]) \in {"error", "enr"} \/ texts[i].hash # name}

\* What the branches among the first n texts put in front of the missing names.
RECURSIVE branches(_, _)
branches(texts, n) ==
  IF n = 0 THEN <<>>
  ELSE (IF parseEntry(texts[n]) = "branch" THEN texts[n].hashes ELSE <<>>)
       \o branches(texts, n - 1)

\* The lookup of the next missing name failed.
LookupFails ==
  /\ calling /\ resolved /\ missing # <<>>
  /\ missing' = Tail(missing)
  /\ lost' = lost \cup {Head(missing)}
  /\ Return(NoRecord)
  /\ UNCHANGED resolved

\* Mutant: the children of a branch are visited after the names already missing.
enqueueLast(hashes, rest) == rest \o hashes

\* The children of a branch are visited before the names already missing.
enqueue(hashes, rest) == hashes \o rest

\* The next missing name is looked up and its texts are read.
Lookup ==
  /\ calling /\ resolved /\ missing # <<>>
  /\ LET name  == Head(missing)
         texts == Zone[name]
         stops == stopsAt(name, texts)
         found == branches(texts, IF stops = {} THEN Len(texts) ELSE Min(stops) - 1)
     IN /\ missing' = enqueue(found, Tail(missing))
        /\ IF stops = {}
           THEN UNCHANGED <<calling, current, given, lost>>
           ELSE LET text == texts[Min(stops)]
                    good == parseEntry(text) = "enr" /\ text.hash = name
                IN /\ Return(IF good THEN text.record ELSE NoRecord)
                   /\ lost' = IF good THEN lost ELSE lost \cup {name}
  /\ UNCHANGED resolved

Exhausted ==
  /\ calling /\ resolved /\ missing = <<>>
  /\ Return(NoRecord)
  /\ UNCHANGED <<resolved, missing, lost>>

DnsNext == CallHas \/ RootFails \/ resolveRoot \/ LookupFails \/ Lookup \/ Exhausted

-----------------------------------------------------------------------------
(* Properties.                                                             *)

\* The records that a faultless walk from a sequence of names would return, in order.
RECURSIVE recordsBelow(_)
recordsBelow(names) ==
  IF names = <<>> THEN <<>>
  ELSE LET text == Zone[Head(names)][1]
       IN (CASE parseEntry(text) = "enr"    -> <<text.record>>
             [] parseEntry(text) = "branch" -> recordsBelow(text.hashes)
             [] OTHER -> <<>>)
          \o recordsBelow(Tail(names))

\* The iterator skips only what lies below a name whose lookup failed: the records returned
\* and those still to come are records of the tree, each once and in depth-first order, and
\* every other record of the tree is below a lost name.
NothingVanishes ==
  resolved =>
    LET all  == recordsBelow(<<Zone[Domain][1].hashes[1]>>)
        left == given \o recordsBelow(missing)
        gone == UNION {Range(recordsBelow(<<name>>)) : name \in lost}
    IN /\ left = SelectSeq(all, LAMBDA r : r \in Range(left))
       /\ Range(all) \ Range(left) \subseteq gone
=============================================================================
