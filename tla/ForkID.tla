------------------------------- MODULE ForkID -------------------------------
(***************************************************************************)
(* Fork identifiers (forkid/forkid.go): a node summarises the forks its    *)
(* head has passed in a checksum and announces the next one; a peer judges *)
(* from these two whether the chains are compatible.  The model runs two   *)
(* nodes whose chains grow, each with its own list of forks.               *)
(*                                                                         *)
(* The checksum, a CRC-32 continued over the passed forks, is the sequence *)
(* of the forks it was fed: collisions are left out.  Lists are non-empty, *)
(* as cleanForks requires.                                                 *)
(***************************************************************************)
EXTENDS Integers, Sequences, FiniteSets, FiniteSetsExt, Functions, Subsequences

CONSTANTS ForkLists,   \* lists of fork blocks a node may be built with
          MaxHead      \* bound on the heads and the forks

ASSUME ForksAssumption == MaxHead \in Nat /\ ForkLists \subseteq Seq(0..MaxHead) \ {<<>>}

Endpoints == {"local", "remote"}
MaxUint64 == MaxHead + 1          \* larger than any block

VARIABLES forks, head

forkVars == <<forks, head>>

\* The positions of a list in the order of their blocks.
ascending(list) ==
  {ij \in (DOMAIN list) \X (DOMAIN list) :
     \/ list[ij[1]] < list[ij[2]]
     \/ list[ij[1]] = list[ij[2]] /\ ij[1] < ij[2]}

\* Sort, drop repetitions, skip block 0.
cleanForks(list) ==
  LET sorted == SortedBy(list, ascending(list))
      kept   == {i \in DOMAIN sorted : (i > 1 => sorted[i] # sorted[i - 1]) /\ sorted[i] # 0}
  IN ElementsAt(sorted, kept)

\* The table of a ForkID: from which block on which checksum is current, with an extra
\* fork at infinity.
checksums(list) ==
  LET steps == <<0>> \o cleanForks(list) \o <<MaxUint64>>
  IN [i \in DOMAIN steps |-> [number |-> steps[i], sum |-> SubSeq(steps, 1, i)]]

\* The last entry whose block is not above the given one.
findForkAt(c, block) == Max({i \in DOMAIN c : \A j \in 1..i : c[j].number <= block})

At(c, block) ==
  LET i == findForkAt(c, block) IN [hash |-> c[i].sum, next |-> c[i + 1].number]

\* Mutant: the announced fork of a peer that is behind is not compared.
ValidateIgnoresNext(c, localHead, id) ==
  LET i == findForkAt(c, localHead)
  IN IF c[i].sum = id.hash
     THEN ~(id.next > 0 /\ localHead >= id.next)
     ELSE \E j \in DOMAIN c : c[j].sum = id.hash

Validate(c, localHead, id) ==
  LET i    == findForkAt(c, localHead)
      past == {j \in 1..(i - 1) : c[j].sum = id.hash}
  IN IF c[i].sum = id.hash
     THEN ~(id.next > 0 /\ localHead >= id.next)
     ELSE IF past # {}
     THEN id.next = c[Min(past) + 1].number
     ELSE \E j \in i..Len(c) : c[j].sum = id.hash

-----------------------------------------------------------------------------

ForkInit ==
  /\ forks \in [Endpoints -> ForkLists]
  /\ head = [e \in Endpoints |-> 0]

\* The chain of e grows.
Import(e) ==
  /\ head[e] < MaxHead
  /\ head' = [head EXCEPT ![e] = @ + 1]
  /\ UNCHANGED forks

ForkNext == \E e \in Endpoints : Import(e)

ForkSpec == ForkInit /\ [][ForkNext]_forkVars

-----------------------------------------------------------------------------
(* Properties.                                                             *)

\* Whether d accepts the identifier that e announces.
accepts(d, e) ==
  Validate(checksums(forks[d]), head[d], At(checksums(forks[e]), head[e]))

\* The forks of e up to and including a block; block 0 is no fork.
forksUpTo(e, block) == {f \in Range(forks[e]) : f # 0 /\ f <= block}

\* Two nodes accept each other if their forks are the same up to the higher head, however
\* far one is behind and whatever forks they expect later; neither accepts the other if
\* they disagree on a fork both have passed.
ForksJudgedRight ==
  LET same(block) == forksUpTo("local", block) = forksUpTo("remote", block)
      both == accepts("local", "remote") /\ accepts("remote", "local")
      one  == accepts("local", "remote") \/ accepts("remote", "local")
  IN /\ same(Max(Range(head))) => both
     /\ one => same(Min(Range(head)))
=============================================================================
