----------------------------- MODULE Dispatcher -----------------------------
(***************************************************************************)
(* The periodic job dispatcher of periodic.go.  Server re-dials busy nodes *)
(* through it: Add and Remove are called by the dial tasks, SetEnabled by  *)
(* the owner, and every SetEnabled(true) that finds the dispatcher off     *)
(* starts one run() goroutine.                                             *)
(*                                                                         *)
(* Every method holds p.l from its first to its last line, so each is one  *)
(* step.  run() is not: it takes a snapshot of the next launch under the   *)
(* lock (nextLaunch), evaluates p.cancelCh without it when it enters the   *)
(* select, blocks, and takes the lock again in dispatch.  These are the    *)
(* steps of a runner.                                                      *)
(***************************************************************************)
EXTENDS Integers, Sequences

CONSTANTS Jobs,      \* job ids
          Periods,   \* the periods Add is called with
          EventCap,  \* capacity of eventCh (10 in NewDispatcher)
          MaxTime,   \* bound on the clock
          MaxRuns,   \* bound on the number of run() goroutines ever started
          Nothing    \* Go's nil: no entry, no snapshot

Runners == 1..MaxRuns            \* the r-th started goroutine
Entries == [period : Periods, next : Nat]
Snapshots == [job : Jobs, period : Periods, launch : Nat]

ASSUME PeriodsAssumption == Periods \subseteq Nat
ASSUME BoundsAssumption == /\ EventCap \in Nat
                           /\ MaxTime \in Nat
                           /\ MaxRuns \in Nat
ASSUME NothingAssumption == /\ Nothing \notin Periods
                            /\ Nothing \notin Entries
                            /\ Nothing \notin Snapshots

VARIABLES
  tracked,   \* map[string]*pJob: the period of a tracked job, or Nothing
  heap,      \* the periodic heap, as its index: id -> [period, next]
  enabled,
  updateCh,  \* tokens in the one-slot wake-up channel
  eventCh,   \* jobs handed to the owner, oldest first
  cancelCh,  \* number of the channel p.cancelCh holds; 0 before the first
  closed,    \* the cancel channels that have been closed
  pc,        \* where each runner is in run()
  snap,      \* pJob and launch of the runner's current iteration
  waitOn,    \* the cancel channel the runner's select evaluated, 0 outside it
  now        \* time.Now()

queues  == <<updateCh, eventCh>>
control == <<enabled, cancelCh, closed>>
runner  == <<pc, snap, waitOn>>
vars    == <<tracked, heap, queues, control, runner, now>>

Tracked   == {j \in Jobs : tracked[j] # Nothing}
Scheduled == {j \in Jobs : heap[j] # Nothing}

Init ==
  /\ tracked = [j \in Jobs |-> Nothing]
  /\ heap = [j \in Jobs |-> Nothing]
  /\ enabled = FALSE
  /\ updateCh = 0
  /\ eventCh = <<>>
  /\ cancelCh = 0
  /\ closed = {}
  /\ pc = [r \in Runners |-> "idle"]
  /\ snap = [r \in Runners |-> Nothing]
  /\ waitOn = [r \in Runners |-> 0]
  /\ now = 0

-----------------------------------------------------------------------------
(* The methods, each under p.l.                                            *)

\* The non-blocking send on updateCh.
SignalUpdate == updateCh' = 1

\* Mutant: the job is scheduled and the runner is not told.
AddNoSignal(j, p) ==
  /\ tracked' = [tracked EXCEPT ![j] = p]
  /\ heap' = IF j \in Scheduled THEN heap
             ELSE [heap EXCEPT ![j] = [period |-> p, next |-> now + p]]
  /\ UNCHANGED <<queues, control, runner, now>>

\* Add: the tracked entry is replaced before the heap may refuse the job, and
\* the refusal returns before the signal.
Add(j, p) ==
  /\ tracked' = [tracked EXCEPT ![j] = p]
  /\ IF j \in Scheduled
       THEN UNCHANGED <<heap, updateCh>>
       ELSE /\ heap' = [heap EXCEPT ![j] = [period |-> p, next |-> now + p]]
            /\ SignalUpdate
  /\ UNCHANGED <<eventCh, control, runner, now>>

\* Remove of a tracked job; of any other one it changes nothing.  When the heap
\* does not hold the job it returns the error without signalling.
Remove(j) ==
  /\ j \in Tracked
  /\ tracked' = [tracked EXCEPT ![j] = Nothing]
  /\ IF j \in Scheduled
       THEN /\ heap' = [heap EXCEPT ![j] = Nothing]
            /\ SignalUpdate
       ELSE UNCHANGED <<heap, updateCh>>
  /\ UNCHANGED <<eventCh, control, runner, now>>

\* Mutant: the closed cancelCh is kept for the new run().
EnableKeepsChannel ==
  /\ ~enabled
  /\ enabled' = TRUE
  /\ cancelCh' = IF cancelCh = 0 THEN 1 ELSE cancelCh
  /\ pc' = [pc EXCEPT ![cancelCh'] = "top"]
  /\ UNCHANGED <<tracked, heap, queues, closed, snap, waitOn, now>>

\* SetEnabled(true) on a stopped dispatcher: a fresh cancelCh and one more run().
Enable ==
  /\ ~enabled
  /\ cancelCh < MaxRuns
  /\ enabled' = TRUE
  /\ cancelCh' = cancelCh + 1
  /\ pc' = [pc EXCEPT ![cancelCh + 1] = "top"]
  /\ UNCHANGED <<tracked, heap, queues, closed, snap, waitOn, now>>

\* Mutant: the flag is cleared and the channel is left open.
DisableNoClose ==
  /\ enabled
  /\ enabled' = FALSE
  /\ UNCHANGED <<tracked, heap, queues, cancelCh, closed, runner, now>>

\* SetEnabled(false) on a running dispatcher.
Disable ==
  /\ enabled
  /\ enabled' = FALSE
  /\ closed' = closed \cup {cancelCh}
  /\ UNCHANGED <<tracked, heap, queues, cancelCh, runner, now>>

-----------------------------------------------------------------------------
(* The goroutine run().                                                    *)

\* What periodicHeap.Peek may return: an entry with the least next.
Earliest == {j \in Scheduled : \A k \in Scheduled : heap[j].next <= heap[k].next}

\* nextLaunch, under the read lock; the timer is armed right after it.
NextLaunch(r) ==
  /\ pc[r] = "top"
  /\ pc' = [pc EXCEPT ![r] = "select"]
  /\ \/ /\ Scheduled = {}
        /\ snap' = [snap EXCEPT ![r] = Nothing]
     \/ \E j \in Earliest :
          snap' = [snap EXCEPT ![r] = [job |-> j, period |-> heap[j].period,
                                       launch |-> heap[j].next]]
  /\ UNCHANGED <<tracked, heap, queues, control, waitOn, now>>

\* The select evaluates p.cancelCh, without the lock.
EnterSelect(r) ==
  /\ pc[r] = "select"
  /\ pc' = [pc EXCEPT ![r] = "wait"]
  /\ waitOn' = [waitOn EXCEPT ![r] = cancelCh]
  /\ UNCHANGED <<tracked, heap, queues, control, snap, now>>

Cancel(r) ==
  /\ pc[r] = "wait"
  /\ waitOn[r] \in closed
  /\ pc' = [pc EXCEPT ![r] = "done"]
  /\ snap' = [snap EXCEPT ![r] = Nothing]
  /\ waitOn' = [waitOn EXCEPT ![r] = 0]
  /\ UNCHANGED <<tracked, heap, queues, control, now>>

\* Mutant: an update does not make the runner look at the heap again.
RecvUpdateNoReload(r) ==
  /\ pc[r] = "wait"
  /\ updateCh = 1
  /\ updateCh' = 0
  /\ UNCHANGED <<tracked, heap, eventCh, control, runner, now>>

RecvUpdate(r) ==
  /\ pc[r] = "wait"
  /\ updateCh = 1
  /\ updateCh' = 0
  /\ pc' = [pc EXCEPT ![r] = "top"]
  /\ snap' = [snap EXCEPT ![r] = Nothing]
  /\ waitOn' = [waitOn EXCEPT ![r] = 0]
  /\ UNCHANGED <<tracked, heap, eventCh, control, now>>

\* The timer of this iteration has fired.
Launch(r) ==
  /\ pc[r] = "wait"
  /\ snap[r] # Nothing
  /\ snap[r].launch <= now
  /\ pc' = [pc EXCEPT ![r] = "dispatch"]
  /\ waitOn' = [waitOn EXCEPT ![r] = 0]
  /\ UNCHANGED <<tracked, heap, queues, control, snap, now>>

\* Mutant: the snapshot's job is pushed back when the heap has lost it.
DispatchReinserts(r) ==
  /\ pc[r] = "dispatch"
  /\ LET s == snap[r]
     IN  /\ heap' = [heap EXCEPT ![s.job] = [period |-> s.period,
                                              next |-> s.launch + s.period]]
         /\ eventCh' = IF Len(eventCh) < EventCap
                         THEN Append(eventCh, s.job) ELSE eventCh
  /\ pc' = [pc EXCEPT ![r] = "top"]
  /\ snap' = [snap EXCEPT ![r] = Nothing]
  /\ UNCHANGED <<tracked, updateCh, control, waitOn, now>>

\* Mutant: the event is of the job that is first in the heap by now.
DispatchPeeks(r) ==
  /\ pc[r] = "dispatch"
  /\ \E j \in Earliest :
       /\ heap' = [heap EXCEPT ![j].next = @ + heap[j].period]
       /\ eventCh' = IF Len(eventCh) < EventCap THEN Append(eventCh, j) ELSE eventCh
  /\ pc' = [pc EXCEPT ![r] = "top"]
  /\ snap' = [snap EXCEPT ![r] = Nothing]
  /\ UNCHANGED <<tracked, updateCh, control, waitOn, now>>

\* dispatch, under p.l again: it works on the snapshot.  A job that left the heap
\* meanwhile makes heap.Update fail, which is ignored; the event is dropped when
\* eventCh is full.
Dispatch(r) ==
  /\ pc[r] = "dispatch"
  /\ LET s == snap[r]
     IN  /\ heap' = IF s.job \in Scheduled
                      THEN [heap EXCEPT ![s.job].next = s.launch + s.period]
                      ELSE heap
         /\ eventCh' = IF Len(eventCh) < EventCap
                         THEN Append(eventCh, s.job) ELSE eventCh
  /\ pc' = [pc EXCEPT ![r] = "top"]
  /\ snap' = [snap EXCEPT ![r] = Nothing]
  /\ UNCHANGED <<tracked, updateCh, control, waitOn, now>>

-----------------------------------------------------------------------------
(* The owner reading Events(), and the clock.                              *)

Receive ==
  /\ eventCh # <<>>
  /\ eventCh' = Tail(eventCh)
  /\ UNCHANGED <<tracked, heap, updateCh, control, runner, now>>

Tick ==
  /\ now < MaxTime
  /\ now' = now + 1
  /\ UNCHANGED <<tracked, heap, queues, control, runner>>

Run(r) ==
  NextLaunch(r) \/ EnterSelect(r) \/ Cancel(r) \/ RecvUpdate(r) \/ Launch(r) \/ Dispatch(r)

Next ==
  \/ \E j \in Jobs, p \in Periods : Add(j, p)
  \/ \E j \in Jobs : Remove(j)
  \/ Enable
  \/ Disable
  \/ \E r \in Runners : Run(r)
  \/ Receive
  \/ Tick

\* A goroutine that can take a step eventually does, and the select, which picks
\* uniformly among its ready cases, does not pass over a closed cancelCh for ever.
Fairness == \A r \in Runners : WF_vars(Run(r)) /\ SF_vars(Cancel(r))

Spec == Init /\ [][Next]_vars

FairSpec == Spec /\ Fairness

-----------------------------------------------------------------------------
(* Properties.                                                             *)

\* The types of the dispatcher's state, its runners and its channels; updateCh has one slot.
TypeOK ==
  /\ tracked \in [Jobs -> Periods \cup {Nothing}]
  /\ heap \in [Jobs -> Entries \cup {Nothing}]
  /\ enabled \in BOOLEAN
  /\ updateCh \in {0, 1}
  /\ eventCh \in Seq(Jobs)
  /\ cancelCh \in 0..MaxRuns
  /\ closed \subseteq Runners
  /\ pc \in [Runners -> {"idle", "top", "select", "wait", "dispatch", "done"}]
  /\ snap \in [Runners -> Snapshots \cup {Nothing}]
  /\ waitOn \in [Runners -> 0..MaxRuns]
  /\ now \in 0..MaxTime

\* The two indexes agree: a job is tracked (Contains, Tracked) exactly when the heap
\* schedules it.  Add and Remove each update both, Add can fail half way, and
\* dispatch writes the heap from a snapshot taken before either of them ran.
TrackedIffScheduled == Tracked = Scheduled

\* Closing a closed channel panics: SetEnabled(false) must find cancelCh open.
OpenWhileEnabled == enabled => cancelCh \in Runners \ closed

\* The runner's timer fires no later than the earliest job of the heap.
Covers(r) == \A j \in Scheduled : snap[r] # Nothing /\ snap[r].launch <= heap[j].next

\* A runner that is going to look at the heap again in time: it is about to call
\* nextLaunch, or its timer covers the heap and closing cancelCh would stop it.
Attentive(r) ==
  \/ pc[r] \in {"top", "dispatch"}
  \/ pc[r] = "select" /\ Covers(r)
  \/ pc[r] = "wait" /\ waitOn[r] = cancelCh /\ Covers(r)

\* No wake-up is lost: while the dispatcher is enabled and no update is pending, some
\* live runner is attentive, however Add, Remove and SetEnabled interleave with the
\* unlocked stretches of run() and although several runners share the one updateCh
\* token after a quick disable/enable.
NoMissedWakeup == enabled /\ updateCh = 0 => \E r \in Runners : Attentive(r)

Snapped == {snap[r].job : r \in {s \in Runners : snap[s] # Nothing}}

BL == INSTANCE BusyList
        WITH JobCap <- EventCap, tracked <- Tracked, due <- Snapped, events <- eventCh

\* The dispatcher is the list of busy nodes that Server takes it for: Events() delivers only
\* jobs that were tracked when a runner last looked at the heap, whatever Add, Remove and
\* SetEnabled do between nextLaunch and dispatch.
IsBusyList == BL!Spec

Due(j) == j \in Scheduled /\ heap[j].next <= now

\* A due job is launched: it stops being due, or is removed, or the dispatcher is
\* disabled; only a never-ending stream of updates can hold the timer off for ever.
DueJobLaunched ==
  \A j \in Jobs : Due(j) ~> (~Due(j) \/ ~enabled \/ updateCh = 1)

\* Disabling ends every run() goroutine, unless the dispatcher is enabled again first
\* (run() re-reads p.cancelCh, so a runner may adopt the new channel).
RunnersStop ==
  ~enabled ~> (enabled \/ \A r \in Runners : pc[r] \in {"idle", "done"})

-----------------------------------------------------------------------------
(* What a comment says, and the code does not do.                          *)

\* "an interval period to dispatch the job": while a job stays scheduled, its next
\* launch only ever moves on by one period.
AdvancesByPeriod ==
  [][\A j \in Scheduled :
       heap'[j] \notin {heap[j], Nothing} =>
         heap'[j].next = heap[j].next + heap[j].period]_vars
=============================================================================
