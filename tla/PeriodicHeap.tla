---------------------------- MODULE PeriodicHeap ----------------------------
(***************************************************************************)
(* The priority index of the dispatcher (periodic.go): an array kept in    *)
(* heap order by container/heap and a map from job ids to the entries of   *)
(* the array, each of which records its own position.  Dispatcher.tla uses *)
(* only what this module shows: an index with a minimum.                   *)
(*                                                                         *)
(* An operation puts an entry where it may be out of order; the loops of   *)
(* container/heap then swap it down or up, one swap a step.  The           *)
(* dispatcher holds a lock meanwhile, so no operation starts before the    *)
(* loops have ended.  Positions are Go's, from 0.                          *)
(***************************************************************************)
EXTENDS Integers, Sequences, FiniteSets, Functions

CONSTANTS Ids,       \* the ids of jobs
          HeapTimes  \* launch times, 0 being Go's zero time

ASSUME TimesAssumption == HeapTimes \subseteq Nat

VARIABLES
  pq,    \* pq.array: ids in array order; pq.entry[id]: its time and its position
  loop,  \* the loop of container/heap, its position, where it started, and its bound
  jobs   \* history: the times of the jobs that should be there

heapVars == <<pq, loop, jobs>>

AtRest == [mode |-> "idle", i |-> 0, from |-> 0, n |-> 0]

timeAt(h, k) == h.entry[h.array[k + 1]].next

Less(h, i, j) == timeAt(h, i) # 0 /\ (timeAt(h, j) = 0 \/ timeAt(h, i) < timeAt(h, j))

Swap(h, i, j) ==
  LET x == h.array[i + 1]
      y == h.array[j + 1]
  IN [array |-> [h.array EXCEPT ![i + 1] = y, ![j + 1] = x],
      entry |-> [h.entry EXCEPT ![y].index = i, ![x].index = j]]

\* The last entry of the array leaves the array and the index.
dropLast(h) ==
  LET n == Len(h.array)
  IN [array |-> SubSeq(h.array, 1, n - 1),
      entry |-> Restrict(h.entry, DOMAIN h.entry \ {h.array[n]})]

Contains(h, id) == id \in DOMAIN h.entry

Peek(h) == h.array[1]

-----------------------------------------------------------------------------
(* container/heap, among the first n entries.                              *)

\* The loop that moves the entry at i.
sift(mode, i, n) == [mode |-> mode, i |-> i, from |-> i, n |-> n]

parent(i) == (i - 1) \div 2

\* The child of i with the earlier time.
child(h, i, n) ==
  LET left == 2 * i + 1 IN IF left + 1 < n /\ Less(h, left + 1, left) THEN left + 1 ELSE left

sinks == 2 * loop.i + 1 < loop.n /\ Less(pq, child(pq, loop.i, loop.n), loop.i)

rises == loop.i # 0 /\ Less(pq, loop.i, parent(loop.i))

\* The operation returns; Pop and Remove have moved the entry that leaves behind the first n.
Finish ==
  /\ pq' = IF loop.n < Len(pq.array) THEN dropLast(pq) ELSE pq
  /\ loop' = AtRest

\* Towards the leaves.
Down ==
  /\ loop.mode = "down" /\ sinks
  /\ LET c == child(pq, loop.i, loop.n)
     IN pq' = Swap(pq, loop.i, c) /\ loop' = [loop EXCEPT !.i = c]
  /\ UNCHANGED jobs

\* Mutant: an entry that need not go down is left where it is.
DownIsEnough ==
  /\ loop.mode = "down" /\ ~sinks
  /\ Finish
  /\ UNCHANGED jobs

\* If the entry has not moved, Fix and Remove try the other way (Pop does not, but above the
\* root there is none).
DownEnds ==
  /\ loop.mode = "down" /\ ~sinks
  /\ IF loop.i = loop.from
       THEN loop' = [loop EXCEPT !.mode = "up"] /\ UNCHANGED pq
       ELSE Finish
  /\ UNCHANGED jobs

\* Towards the root.
Up ==
  /\ loop.mode = "up" /\ rises
  /\ pq' = Swap(pq, parent(loop.i), loop.i)
  /\ loop' = [loop EXCEPT !.i = parent(loop.i)]
  /\ UNCHANGED jobs

UpEnds ==
  /\ loop.mode = "up" /\ ~rises
  /\ Finish
  /\ UNCHANGED jobs

-----------------------------------------------------------------------------
(* The operations.  Each fails, and changes nothing, when the id is there  *)
(* already or missing.                                                     *)

HeapInit == pq = [array |-> <<>>, entry |-> <<>>] /\ loop = AtRest /\ jobs = <<>>

\* f with the value v for k.
put(f, k, v) == [x \in DOMAIN f \cup {k} |-> IF x = k THEN v ELSE f[x]]

HeapPush(id, next) ==
  /\ loop = AtRest /\ ~Contains(pq, id)
  /\ LET n == Len(pq.array)
     IN /\ pq' = [array |-> Append(pq.array, id),
                  entry |-> put(pq.entry, id, [next |-> next, index |-> n])]
        /\ loop' = sift("up", n, n + 1)
  /\ jobs' = put(jobs, id, next)

HeapPop ==
  /\ loop = AtRest /\ Len(pq.array) > 0
  /\ LET n == Len(pq.array) - 1 IN pq' = Swap(pq, 0, n) /\ loop' = sift("down", 0, n)
  /\ jobs' = Restrict(jobs, DOMAIN jobs \ {Peek(pq)})

HeapRemove(id) ==
  /\ loop = AtRest /\ Contains(pq, id)
  /\ LET n == Len(pq.array) - 1
         i == pq.entry[id].index
     IN IF n = i THEN pq' = dropLast(pq) /\ UNCHANGED loop
        ELSE pq' = Swap(pq, i, n) /\ loop' = sift("down", i, n)
  /\ jobs' = Restrict(jobs, DOMAIN jobs \ {id})

HeapUpdate(id, next) ==
  /\ loop = AtRest /\ Contains(pq, id)
  /\ pq' = [pq EXCEPT !.entry[id].next = next]
  /\ loop' = sift("down", pq.entry[id].index, Len(pq.array))
  /\ jobs' = [jobs EXCEPT ![id] = next]

HeapNext ==
  \/ HeapPop
  \/ \E id \in Ids : HeapRemove(id)
  \/ \E id \in Ids, next \in HeapTimes : HeapPush(id, next) \/ HeapUpdate(id, next)
  \/ Down \/ DownEnds \/ Up \/ UpEnds

HeapSpec == HeapInit /\ [][HeapNext]_heapVars

-----------------------------------------------------------------------------
(* Properties.                                                             *)

\* b may come after a: no job is launched before one that is due earlier.
inOrder(a, b) == b = 0 \/ (a # 0 /\ a <= b)

\* After any sequence of Push, Pop, Update and Remove the array and the index hold the jobs
\* that were put there and not taken out, with their times; every entry knows where it is
\* (Remove and Update rely on it); and the entry that Peek returns and Pop takes is due no
\* later than any other, those with the zero time coming last.
HeapServesEarliest ==
  loop = AtRest =>
    /\ DOMAIN pq.entry = DOMAIN jobs
    /\ \A k \in DOMAIN pq.array :
         pq.array[k] \in DOMAIN jobs /\ pq.entry[pq.array[k]].index = k - 1
    /\ \A id \in DOMAIN jobs :
         LET e == pq.entry[id]
         IN /\ e.next = jobs[id]
            /\ e.index + 1 \in DOMAIN pq.array /\ pq.array[e.index + 1] = id
            /\ inOrder(jobs[Peek(pq)], jobs[id])
=============================================================================
