-------------------------- MODULE DispatcherProofs --------------------------
(***************************************************************************)
(* The safety of Dispatcher for every set of jobs and periods, every       *)
(* capacity and every number of runners, and of PeriodicHeap, which it     *)
(* keeps its jobs in.                                                      *)
(*                                                                         *)
(* The properties of Dispatcher become inductive with two more facts:      *)
(* cancel channels are closed only after they were made, and a runner      *)
(* calls dispatch only with a snapshot in hand.  Those of the heap need    *)
(* what the loops leave in order while they run.                           *)
(***************************************************************************)
EXTENDS Dispatcher, PeriodicHeap, SubsequencesProofs

\* Only cancel channels that were made are closed.
ClosedWereMade == closed \subseteq 1..cancelCh

\* A runner calls dispatch with a snapshot of the job.
DispatchHasSnapshot == \A r \in Runners : pc[r] = "dispatch" => snap[r] # Nothing

\* What every step of the dispatcher keeps.
DispatcherInv ==
  /\ TypeOK
  /\ TrackedIffScheduled
  /\ OpenWhileEnabled
  /\ NoMissedWakeup
  /\ ClosedWereMade
  /\ DispatchHasSnapshot

-----------------------------------------------------------------------------
(* One lemma per conjunct that takes work: which steps could disturb it.   *)

\* Every step keeps the types; dispatch needs its snapshot for that.
LEMMA TypeStep ==
  ASSUME DispatcherInv, [Next]_vars
  PROVE  TypeOK'
<1> USE PeriodsAssumption, BoundsAssumption, NothingAssumption
    DEF TypeOK, Entries, Snapshots, Runners
<1> TypeOK BY DEF DispatcherInv
<1>1. CASE \E j \in Jobs, p \in Periods : Add(j, p)
  <2> PICK j \in Jobs, p \in Periods : Add(j, p) BY <1>1
  <2>1. now + p \in Nat OBVIOUS
  <2>2. [period |-> p, next |-> now + p] \in Entries BY <2>1
  <2>3. tracked' \in [Jobs -> Periods \cup {Nothing}]
    <3> HIDE DEF Entries, Snapshots, Runners
    <3> QED BY DEF Add
  <2>4. heap' \in [Jobs -> Entries \cup {Nothing}]
    <3> HIDE DEF Entries, Snapshots, Runners
    <3> QED BY <2>2 DEF Add
  <2>5. updateCh' \in {0, 1}
    BY DEF Add, SignalUpdate
  <2>6. UNCHANGED <<eventCh, control, runner, now>>
    BY DEF Add
  <2> QED BY <2>3, <2>4, <2>5, <2>6 DEF control, runner
<1>2. CASE \E j \in Jobs : Remove(j)
  BY <1>2 DEF Remove, SignalUpdate, control, runner
<1>3. CASE Enable
  BY <1>3 DEF Enable, queues
<1>4. CASE Disable
  BY <1>4 DEF Disable, queues, runner, DispatcherInv, OpenWhileEnabled
<1>5. ASSUME NEW r \in Runners, Run(r) PROVE TypeOK'
  <2>1. CASE NextLaunch(r)
    <3>1. CASE Scheduled = {} /\ snap' = [snap EXCEPT ![r] = Nothing]
      BY <2>1, <3>1 DEF NextLaunch, queues, control
    <3>2. CASE \E j \in Earliest :
                 snap' = [snap EXCEPT ![r] = [job |-> j, period |-> heap[j].period,
                                              launch |-> heap[j].next]]
      <4> PICK j \in Earliest :
                 snap' = [snap EXCEPT ![r] = [job |-> j, period |-> heap[j].period,
                                              launch |-> heap[j].next]]
          BY <3>2
      <4>1. j \in Jobs /\ heap[j] \in Entries BY DEF Earliest, Scheduled
      <4>2. [job |-> j, period |-> heap[j].period, launch |-> heap[j].next] \in Snapshots
        BY <4>1
      <4> QED BY <2>1, <4>2 DEF NextLaunch, queues, control
    <3> QED BY <2>1, <3>1, <3>2 DEF NextLaunch
  <2>2. CASE EnterSelect(r)
    BY <2>2 DEF EnterSelect, queues, control
  <2>3. CASE Cancel(r)
    <3>1. waitOn' \in [Runners -> 0..MaxRuns] BY <2>3 DEF Cancel
    <3>2. snap' \in [Runners -> Snapshots \cup {Nothing}] BY <2>3 DEF Cancel
    <3> QED BY <2>3, <3>1, <3>2 DEF Cancel, queues, control
  <2>4. CASE RecvUpdate(r)
    BY <2>4 DEF RecvUpdate, control
  <2>5. CASE Launch(r)
    BY <2>5 DEF Launch, queues, control
  <2>6. CASE Dispatch(r)
    <3> DEFINE s == snap[r]
    <3>1. s \in Snapshots
      BY <2>6 DEF Dispatch, DispatcherInv, DispatchHasSnapshot
    <3>2. s.job \in Jobs /\ s.launch + s.period \in Nat
      <4> HIDE DEF TypeOK, s
      <4>1. s.job \in Jobs /\ s.period \in Periods /\ s.launch \in Nat BY <3>1
      <4>2. s.period \in Nat BY <4>1
      <4> QED BY <4>1, <4>2
    <3>3. heap' \in [Jobs -> Entries \cup {Nothing}]
      <4>1. CASE s.job \notin Scheduled
        BY <2>6, <4>1 DEF Dispatch
      <4>2. CASE s.job \in Scheduled
        <5> DEFINE e == [heap[s.job] EXCEPT !.next = s.launch + s.period]
        <5>1. heap[s.job] \in Entries BY <4>2 DEF Scheduled
        <5>2. e \in Entries
          <6> HIDE DEF TypeOK, s
          <6> QED BY <5>1, <3>2
        <5>3. heap' = [heap EXCEPT ![s.job] = e] BY <2>6, <4>2 DEF Dispatch
        <5> HIDE DEF e, s, Entries
        <5> QED BY <5>2, <5>3
      <4> QED BY <4>1, <4>2
    <3>4. eventCh' \in Seq(Jobs)
      BY <2>6, <3>2 DEF Dispatch
    <3> QED BY <2>6, <3>3, <3>4 DEF Dispatch, control
  <2> QED BY <1>5, <2>1, <2>2, <2>3, <2>4, <2>5, <2>6 DEF Run
<1>6. CASE Receive
  <2>1. eventCh' \in Seq(Jobs)
    <3>1. eventCh \in Seq(Jobs) /\ eventCh # <<>> /\ eventCh' = Tail(eventCh)
      BY <1>6 DEF Receive
    <3> HIDE DEF TypeOK
    <3> QED BY <3>1
  <2>2. UNCHANGED <<tracked, heap, updateCh, control, runner, now>>
    BY <1>6 DEF Receive
  <2> QED BY <2>1, <2>2 DEF control, runner
<1>7. CASE Tick
  BY <1>7 DEF Tick, queues, control, runner
<1>8. CASE UNCHANGED vars
  BY <1>8 DEF vars, queues, control, runner
<1> QED BY <1>1, <1>2, <1>3, <1>4, <1>5, <1>6, <1>7, <1>8 DEF Next

\* A job enters and leaves both maps in the same step, and dispatch only moves an
\* entry that is there.
LEMMA TrackedStep ==
  ASSUME DispatcherInv, [Next]_vars
  PROVE  TrackedIffScheduled'
<1> USE NothingAssumption DEF TypeOK, TrackedIffScheduled, Tracked, Scheduled
<1> TypeOK /\ TrackedIffScheduled BY DEF DispatcherInv
<1> TypeOK' BY TypeStep
<1>1. CASE \E j \in Jobs, p \in Periods : Add(j, p)
  <2> PICK j \in Jobs, p \in Periods : Add(j, p) BY <1>1
  <2>1. p # Nothing OBVIOUS
  <2>2. [period |-> p, next |-> now + p] # Nothing
    BY PeriodsAssumption, BoundsAssumption DEF Entries
  <2> QED BY <2>1, <2>2 DEF Add
<1>2. CASE \E j \in Jobs : Remove(j)
  BY <1>2 DEF Remove
<1>3. CASE \E r \in Runners : Dispatch(r)
  <2> PICK r \in Runners : Dispatch(r) BY <1>3
  <2> DEFINE s == snap[r]
  <2>1. s \in Snapshots
    BY DEF Dispatch, DispatcherInv, DispatchHasSnapshot
  <2>2. tracked' = tracked BY DEF Dispatch
  <2>3. ASSUME NEW j \in Jobs PROVE (heap'[j] = Nothing) <=> (heap[j] = Nothing)
    <3>1. CASE heap[s.job] = Nothing BY <3>1, <2>1 DEF Dispatch
    <3>2. CASE heap[s.job] # Nothing
      <4>1. s.job \in Jobs /\ s.launch + s.period \in Nat
        BY <2>1, PeriodsAssumption DEF Snapshots
      <4>2. heap' = [heap EXCEPT ![s.job].next = s.launch + s.period]
        BY <3>2, <4>1 DEF Dispatch
      <4>3. heap[s.job] \in Entries BY <3>2, <4>1
      <4>4. heap'[s.job] \in Entries
        BY <4>1, <4>2, <4>3, PeriodsAssumption DEF Entries
      <4> QED BY <3>2, <4>1, <4>2, <4>4
    <3> QED BY <3>1, <3>2
  <2> QED BY <2>2, <2>3
<1>4. CASE UNCHANGED <<tracked, heap>>
  BY <1>4
<1>5. CASE \/ Enable \/ Disable \/ Receive \/ Tick \/ UNCHANGED vars
           \/ \E r \in Runners : \/ NextLaunch(r) \/ EnterSelect(r) \/ Cancel(r)
                                 \/ RecvUpdate(r) \/ Launch(r)
  BY <1>4, <1>5 DEF Enable, Disable, Receive, Tick, vars, NextLaunch, EnterSelect,
                    Cancel, RecvUpdate, Launch
<1> QED BY <1>1, <1>2, <1>3, <1>5 DEF Next, Run

\* SetEnabled makes a channel nobody has closed and closes only the current one.
LEMMA ChannelStep ==
  ASSUME DispatcherInv, [Next]_vars
  PROVE  OpenWhileEnabled' /\ ClosedWereMade'
<1> USE BoundsAssumption DEF TypeOK, OpenWhileEnabled, ClosedWereMade, Runners
<1> TypeOK /\ OpenWhileEnabled /\ ClosedWereMade BY DEF DispatcherInv
<1>1. CASE Enable
  BY <1>1 DEF Enable
<1>2. CASE Disable
  BY <1>2 DEF Disable
<1>3. CASE UNCHANGED control
  BY <1>3 DEF control
<1>4. CASE \/ Receive \/ Tick \/ UNCHANGED vars
           \/ \E j \in Jobs, p \in Periods : Add(j, p)
           \/ \E j \in Jobs : Remove(j)
           \/ \E r \in Runners : Run(r)
  BY <1>3, <1>4 DEF Receive, Tick, vars, Add, Remove, Run, NextLaunch, EnterSelect,
                    Cancel, RecvUpdate, Launch, Dispatch
<1> QED BY <1>1, <1>2, <1>4 DEF Next

\* Only Launch leads to dispatch, and only from a snapshot.
LEMMA SnapshotStep ==
  ASSUME DispatcherInv, [Next]_vars
  PROVE  DispatchHasSnapshot'
<1> USE DEF TypeOK, DispatchHasSnapshot, Runners
<1> TypeOK /\ DispatchHasSnapshot BY DEF DispatcherInv
<1>1. CASE Enable
  BY <1>1, BoundsAssumption DEF Enable
<1>2. CASE \E r \in Runners : Run(r)
  <2> PICK r \in Runners : Run(r) BY <1>2
  <2>1. CASE NextLaunch(r)
    BY <2>1 DEF NextLaunch
  <2>2. CASE EnterSelect(r) \/ Launch(r)
    BY <2>2 DEF EnterSelect, Launch
  <2>3. CASE Cancel(r) \/ RecvUpdate(r) \/ Dispatch(r)
    BY <2>3 DEF Cancel, RecvUpdate, Dispatch
  <2> QED BY <2>1, <2>2, <2>3 DEF Run
<1>3. CASE UNCHANGED runner
  BY <1>3 DEF runner
<1>4. CASE \/ Disable \/ Receive \/ Tick \/ UNCHANGED vars
           \/ \E j \in Jobs, p \in Periods : Add(j, p)
           \/ \E j \in Jobs : Remove(j)
  BY <1>3, <1>4 DEF Disable, Receive, Tick, vars, Add, Remove
<1> QED BY <1>1, <1>2, <1>4 DEF Next

-----------------------------------------------------------------------------
(* The wake-up argument.  A step of one runner either leaves it attentive  *)
(* (it has gone to, or comes from, nextLaunch) or leaves the heap and the  *)
(* other runners alone; a step that changes the heap behind the runners    *)
(* leaves a token in updateCh.                                             *)

\* The snapshot nextLaunch takes covers the heap.
LEMMA NextLaunchCovers ==
  ASSUME TypeOK, NEW r \in Runners, NextLaunch(r)
  PROVE  Covers(r)'
<1> USE DEF TypeOK
<1>1. heap' = heap BY DEF NextLaunch
<1>2. CASE Scheduled = {}
  BY <1>1, <1>2 DEF Covers, Scheduled
<1>3. CASE \E j \in Earliest :
             snap' = [snap EXCEPT ![r] = [job |-> j, period |-> heap[j].period,
                                          launch |-> heap[j].next]]
  <2> PICK j \in Earliest :
             snap' = [snap EXCEPT ![r] = [job |-> j, period |-> heap[j].period,
                                          launch |-> heap[j].next]]
      BY <1>3
  <2>1. j \in Jobs /\ heap[j] \in Entries BY DEF Earliest, Scheduled
  <2>2. snap'[r] = [job |-> j, period |-> heap[j].period, launch |-> heap[j].next]
    OBVIOUS
  <2>3. snap'[r] \in Snapshots BY <2>1, <2>2 DEF Entries, Snapshots
  <2>4. snap'[r] # Nothing BY <2>3, NothingAssumption
  <2>5. snap'[r].launch = heap[j].next BY <2>2
  <2>6. \A k \in Scheduled : heap[j].next <= heap[k].next BY DEF Earliest
  <2>7. Scheduled' = Scheduled BY <1>1 DEF Scheduled
  <2> QED BY <1>1, <2>4, <2>5, <2>6, <2>7 DEF Covers
<1> QED BY <1>2, <1>3 DEF NextLaunch

\* A runner's own step, other than leaving for good, keeps or makes it attentive, and
\* takes no other runner's attention away unless it makes this one attentive.
LEMMA RunnerStepAttentive ==
  ASSUME DispatcherInv, NEW r \in Runners, Run(r), enabled', updateCh' = 0
  PROVE  \E q \in Runners : Attentive(q)'
<1> USE DEF TypeOK
<1> TypeOK /\ NoMissedWakeup /\ OpenWhileEnabled BY DEF DispatcherInv
<1>1. CASE RecvUpdate(r) \/ Launch(r) \/ Dispatch(r)
  <2>1. pc'[r] \in {"top", "dispatch"} BY <1>1 DEF RecvUpdate, Launch, Dispatch
  <2> QED BY <2>1 DEF Attentive
<1>2. CASE NextLaunch(r)
  <2>1. pc'[r] = "select" BY <1>2 DEF NextLaunch
  <2>2. Covers(r)' BY <1>2, NextLaunchCovers
  <2> QED BY <2>1, <2>2 DEF Attentive
<1>3. CASE EnterSelect(r) \/ Cancel(r)
  <2>1. /\ UNCHANGED <<heap, updateCh, enabled, cancelCh, closed>>
        /\ \A q \in Runners \ {r} :
             pc'[q] = pc[q] /\ snap'[q] = snap[q] /\ waitOn'[q] = waitOn[q]
    <3>1. CASE EnterSelect(r) BY <3>1 DEF EnterSelect, queues, control
    <3>2. CASE Cancel(r) BY <3>2 DEF Cancel, queues, control
    <3> QED BY <1>3, <3>1, <3>2
  <2>2. PICK q \in Runners : Attentive(q) BY <2>1 DEF NoMissedWakeup
  <2>3. CASE q # r
    BY <2>1, <2>2, <2>3 DEF Attentive, Covers, Scheduled
  <2>4. CASE q = r /\ EnterSelect(r)
    <3>1. Covers(r) BY <2>2, <2>4 DEF Attentive, EnterSelect
    <3>2. pc'[r] = "wait" /\ waitOn'[r] = cancelCh' /\ snap'[r] = snap[r]
      BY <2>4 DEF EnterSelect, control
    <3>3. Covers(r)' BY <2>1, <3>1, <3>2 DEF Covers, Scheduled
    <3> QED BY <3>2, <3>3 DEF Attentive
  <2>5. CASE q = r /\ Cancel(r)
    BY <2>1, <2>2, <2>5 DEF Attentive, Cancel, OpenWhileEnabled
  <2> QED BY <1>3, <2>3, <2>4, <2>5
<1> QED BY <1>1, <1>2, <1>3 DEF Run

\* Every step leaves an attentive runner behind, or a token.
LEMMA WakeupStep ==
  ASSUME DispatcherInv, [Next]_vars
  PROVE  NoMissedWakeup'
<1> SUFFICES ASSUME enabled', updateCh' = 0
             PROVE  \E q \in Runners : Attentive(q)'
  BY DEF NoMissedWakeup
<1> USE DEF TypeOK
<1> TypeOK /\ NoMissedWakeup BY DEF DispatcherInv
<1>1. CASE UNCHANGED <<heap, updateCh, enabled, cancelCh, pc, snap, waitOn>>
  BY <1>1 DEF NoMissedWakeup, Attentive, Covers, Scheduled
<1>2. CASE \E j \in Jobs, p \in Periods : Add(j, p)
  <2> PICK j \in Jobs, p \in Periods : Add(j, p) BY <1>2
  <2>1. UNCHANGED <<heap, updateCh>> BY DEF Add, SignalUpdate
  <2>2. UNCHANGED <<enabled, cancelCh, pc, snap, waitOn>> BY DEF Add, control, runner
  <2> QED BY <1>1, <2>1, <2>2
<1>3. CASE \E j \in Jobs : Remove(j)
  <2> PICK j \in Jobs : Remove(j) BY <1>3
  <2>1. UNCHANGED <<heap, updateCh>> BY DEF Remove, SignalUpdate
  <2>2. UNCHANGED <<enabled, cancelCh, pc, snap, waitOn>> BY DEF Remove, control, runner
  <2> QED BY <1>1, <2>1, <2>2
<1>4. CASE Enable
  <2>1. cancelCh + 1 \in Runners BY <1>4, BoundsAssumption DEF Enable, Runners
  <2>2. pc'[cancelCh + 1] = "top" BY <1>4, <2>1 DEF Enable
  <2> QED BY <2>1, <2>2 DEF Attentive
<1>5. CASE Disable
  BY <1>5 DEF Disable
<1>6. CASE \E r \in Runners : Run(r)
  BY <1>6, RunnerStepAttentive
<1>7. CASE Receive \/ Tick \/ UNCHANGED vars
  BY <1>1, <1>7 DEF Receive, Tick, vars, queues, control, runner
<1> QED BY <1>2, <1>3, <1>4, <1>5, <1>6, <1>7 DEF Next

-----------------------------------------------------------------------------
\* The inductive invariant holds in every reachable state.
THEOREM DispatcherInvariance == Spec => []DispatcherInv
<1>1. Init => DispatcherInv
  <2> SUFFICES ASSUME Init PROVE DispatcherInv OBVIOUS
  <2> USE BoundsAssumption DEF Init
  <2>1. TypeOK
    <3>1. eventCh \in Seq(Jobs) OBVIOUS
    <3>2. cancelCh \in 0..MaxRuns /\ now \in 0..MaxTime /\ waitOn \in [Runners -> 0..MaxRuns]
      OBVIOUS
    <3>3. /\ pc \in [Runners -> {"idle", "top", "select", "wait", "dispatch", "done"}]
          /\ snap \in [Runners -> Snapshots \cup {Nothing}]
      OBVIOUS
    <3>4. /\ tracked \in [Jobs -> Periods \cup {Nothing}]
          /\ heap \in [Jobs -> Entries \cup {Nothing}]
      OBVIOUS
    <3> QED BY <3>1, <3>2, <3>3, <3>4 DEF TypeOK
  <2>2. TrackedIffScheduled BY DEF TrackedIffScheduled, Tracked, Scheduled
  <2>3. OpenWhileEnabled /\ NoMissedWakeup BY DEF OpenWhileEnabled, NoMissedWakeup
  <2>4. ClosedWereMade /\ DispatchHasSnapshot
    BY DEF ClosedWereMade, DispatchHasSnapshot
  <2> QED BY <2>1, <2>2, <2>3, <2>4 DEF DispatcherInv
<1>2. DispatcherInv /\ [Next]_vars => DispatcherInv'
  BY TypeStep, TrackedStep, ChannelStep, SnapshotStep, WakeupStep DEF DispatcherInv
<1> QED BY <1>1, <1>2, PTL DEF Spec

\* Types: in particular updateCh never holds more than its one slot, and dispatch
\* never works on a nil snapshot.
THEOREM TypeCorrectness == Spec => []TypeOK
BY DispatcherInvariance, PTL DEF DispatcherInv

\* Contains and Tracked agree with the heap, however stale the snapshots are.
THEOREM IndexesAgree == Spec => []TrackedIffScheduled
BY DispatcherInvariance, PTL DEF DispatcherInv

\* SetEnabled never closes a closed channel.
THEOREM NoDoubleClose == Spec => []OpenWhileEnabled
BY DispatcherInvariance, PTL DEF DispatcherInv

\* No Add or Remove is ever missed by all the runners at once.
THEOREM WakeupNeverLost == Spec => []NoMissedWakeup
BY DispatcherInvariance, PTL DEF DispatcherInv

\* The dispatcher implements BusyList: a step of run() that gives up a snapshot only
\* narrows the jobs that are due, one that takes a snapshot finds its job tracked, and
\* dispatch delivers the job of a snapshot.
THEOREM DispatcherIsBusyList == Spec => IsBusyList
<1>1. Init => BL!Init
  <2> SUFFICES ASSUME Init PROVE BL!Init OBVIOUS
  <2>1. Tracked = {} /\ eventCh = <<>> BY DEF Init, Tracked
  <2>2. \A r \in Runners : snap[r] = Nothing BY DEF Init
  <2>3. Snapped = {} BY <2>2 DEF Snapped
  <2> QED BY <2>1, <2>3 DEF BL!Init
<1>2. DispatcherInv /\ [Next]_vars => [BL!Next]_<<Tracked, Snapped, eventCh>>
  <2> SUFFICES ASSUME DispatcherInv, [Next]_vars
               PROVE  BL!Next \/ UNCHANGED <<Tracked, Snapped, eventCh>>
    OBVIOUS
  <2> DEFINE Step == BL!Next \/ UNCHANGED <<Tracked, Snapped, eventCh>>
  <2>0. TypeOK /\ TrackedIffScheduled /\ DispatchHasSnapshot BY DEF DispatcherInv
  <2>1. ASSUME UNCHANGED tracked PROVE UNCHANGED Tracked BY <2>1 DEF Tracked
  <2>2. ASSUME UNCHANGED snap PROVE UNCHANGED Snapped BY <2>2 DEF Snapped
  <2>3. ASSUME NEW j \in Jobs, NEW p \in Periods, Add(j, p) PROVE Step
    <3>1. Tracked' = Tracked \cup {j}
      BY <2>0, <2>3, NothingAssumption DEF Add, Tracked, TypeOK
    <3>2. UNCHANGED <<Snapped, eventCh>> BY <2>2, <2>3 DEF Add, runner
    <3>3. BL!Add(j) BY <3>1, <3>2 DEF BL!Add
    <3> QED BY <3>3 DEF BL!Next
  <2>4. ASSUME NEW j \in Jobs, Remove(j) PROVE Step
    <3>1. Tracked' = Tracked \ {j} BY <2>0, <2>4 DEF Remove, Tracked, TypeOK
    <3>2. UNCHANGED <<Snapped, eventCh>> BY <2>2, <2>4 DEF Remove, runner
    <3>3. BL!Remove(j) BY <3>1, <3>2 DEF BL!Remove
    <3> QED BY <3>3 DEF BL!Next
  <2>5. ASSUME NEW r \in Runners, snap' = [snap EXCEPT ![r] = Nothing]
        PROVE  Snapped' \in SUBSET Snapped
    BY <2>0, <2>5 DEF Snapped, TypeOK
  <2>6. ASSUME NEW r \in Runners, NextLaunch(r) PROVE Step
    <3>1. UNCHANGED <<Tracked, eventCh>> BY <2>1, <2>6 DEF NextLaunch, queues
    <3>2. Snapped' \in SUBSET (Snapped \cup Tracked)
      <4>1. CASE snap' = [snap EXCEPT ![r] = Nothing] BY <2>5, <4>1
      <4>2. CASE \E j \in Earliest :
                   snap' = [snap EXCEPT ![r] = [job |-> j, period |-> heap[j].period,
                                                launch |-> heap[j].next]]
        <5>1. PICK j \in Earliest :
                   snap' = [snap EXCEPT ![r] = [job |-> j, period |-> heap[j].period,
                                                launch |-> heap[j].next]]
          BY <4>2
        <5>2. j \in Tracked BY <2>0 DEF Earliest, TrackedIffScheduled
        <5>3. ASSUME NEW q \in Runners, snap'[q] # Nothing
              PROVE  snap'[q].job = j \/ (snap[q] # Nothing /\ snap'[q].job = snap[q].job)
          BY <2>0, <5>1, <5>3 DEF TypeOK
        <5> QED BY <5>2, <5>3 DEF Snapped
      <4> QED BY <2>6, <4>1, <4>2 DEF NextLaunch
    <3>3. BL!Schedule BY <3>1, <3>2 DEF BL!Schedule
    <3> QED BY <3>3 DEF BL!Next
  <2>7. ASSUME NEW r \in Runners, Cancel(r) \/ RecvUpdate(r) PROVE Step
    <3>1. snap' = [snap EXCEPT ![r] = Nothing] BY <2>7 DEF Cancel, RecvUpdate
    <3>2. UNCHANGED <<Tracked, eventCh>> BY <2>1, <2>7 DEF Cancel, RecvUpdate, queues
    <3>3. BL!Schedule BY <2>5, <3>1, <3>2 DEF BL!Schedule
    <3> QED BY <3>3 DEF BL!Next
  <2>8. ASSUME NEW r \in Runners, Dispatch(r) PROVE Step
    <3> DEFINE j == snap[r].job
    <3>1. snap[r] # Nothing BY <2>0, <2>8 DEF Dispatch, DispatchHasSnapshot
    <3>2. snap[r] \in Snapshots BY <2>0, <3>1 DEF TypeOK
    <3>3. j \in Jobs BY <3>2 DEF Snapshots
    <3>4. j \in Snapped BY <3>1 DEF Snapped
    <3>5. UNCHANGED Tracked BY <2>1, <2>8 DEF Dispatch
    <3>6. eventCh' = IF Len(eventCh) < EventCap THEN Append(eventCh, j) ELSE eventCh
      BY <2>8 DEF Dispatch
    <3>7. Snapped' \in SUBSET Snapped BY <2>5, <2>8 DEF Dispatch
    <3> HIDE DEF j
    <3>8. BL!Launch(j) BY <3>4, <3>5, <3>6, <3>7 DEF BL!Launch
    <3> QED BY <3>3, <3>8 DEF BL!Next
  <2>9. CASE Receive
    <3>1. UNCHANGED <<Tracked, Snapped>> BY <2>1, <2>2, <2>9 DEF Receive, runner
    <3>2. BL!Receive BY <2>9, <3>1 DEF Receive, BL!Receive
    <3> QED BY <3>2 DEF BL!Next
  <2>10. CASE Enable \/ Disable \/ Tick \/ UNCHANGED vars
    <3>1. UNCHANGED <<tracked, snap, eventCh>>
      BY <2>10 DEF Enable, Disable, Tick, vars, queues, runner
    <3> QED BY <2>1, <2>2, <3>1
  <2>11. ASSUME NEW r \in Runners, EnterSelect(r) \/ Launch(r) PROVE Step
    <3>1. UNCHANGED <<tracked, snap, eventCh>> BY <2>11 DEF EnterSelect, Launch, queues
    <3> QED BY <2>1, <2>2, <3>1
  <2> HIDE DEF Step
  <2> QED BY <2>3, <2>4, <2>6, <2>7, <2>8, <2>9, <2>10, <2>11 DEF Next, Run, Step
<1> QED BY <1>1, <1>2, DispatcherInvariance, PTL DEF Spec, IsBusyList, BL!Spec

-----------------------------------------------------------------------------
(* The heap: PeriodicHeap, for any set of jobs and any times.              *)

\* a is due before b.
earlier(a, b) == a # 0 /\ (b = 0 \/ a < b)

\* The order of times: the zero time is last.
LEMMA TimesOrdered ==
  /\ \A a, b, c \in Nat : inOrder(a, b) /\ inOrder(b, c) => inOrder(a, c)
  /\ \A a, b \in Nat : inOrder(a, b) <=> ~earlier(b, a)
  /\ \A a, b \in Nat : earlier(a, b) => inOrder(a, b)
  /\ \A a \in Nat : inOrder(a, a)
BY DEF inOrder, earlier

\* A position and its parent in the array.
LEMMA Parents ==
  /\ \A k \in Nat \ {0} : /\ parent(k) \in Nat /\ parent(k) < k
                          /\ k = 2 * parent(k) + 1 \/ k = 2 * parent(k) + 2
  /\ \A i \in Nat : parent(2 * i + 1) = i /\ parent(2 * i + 2) = i
BY DEF parent

\* T has a time for the first n positions.
Timed(T, n) == \A k \in 0..(n - 1) : T[k] \in Nat

\* The entry at k is not due before its parent.
Edge(T, k) == inOrder(T[parent(k)], T[k])

\* The first n positions are in heap order.
Ordered(T, n) == \A k \in 1..(n - 1) : Edge(T, k)

\* The children of i are in order with the parent of i.
Skips(T, n, i) == i # 0 => \A k \in 1..(n - 1) : parent(k) = i => inOrder(T[parent(i)], T[k])

\* Heap order but for the entry at i, which may be due before its parent ...
UpOrdered(T, n, i) == (\A k \in 1..(n - 1) : k # i => Edge(T, k)) /\ Skips(T, n, i)

\* ... or after its children, and if it has not been moved both.
DownOrdered(T, n, i, moved) ==
  /\ \A k \in 1..(n - 1) : parent(k) # i /\ k # i => Edge(T, k)
  /\ moved /\ i \in 1..(n - 1) => Edge(T, i)
  /\ Skips(T, n, i)

\* U is T with i and j exchanged.
Exchanged(T, U, n, i, j) ==
  /\ U[i] = T[j] /\ U[j] = T[i]
  /\ \A k \in 0..(n - 1) : k # i /\ k # j => U[k] = T[k]

\* In heap order the first entry is due no later than any other.
LEMMA RootIsEarliest ==
  ASSUME NEW n \in Nat, NEW T, Timed(T, n), Ordered(T, n), NEW k \in 0..(n - 1)
  PROVE  inOrder(T[0], T[k])
<1> DEFINE Bad == {j \in 0..(n - 1) : ~inOrder(T[0], T[j])}
<1> SUFFICES ASSUME Bad # {} PROVE FALSE OBVIOUS
<1>1. Bad \subseteq Nat OBVIOUS
<1>2. PICK j \in Bad : \A m \in Bad : j <= m
  <2> HIDE DEF Bad
  <2> QED BY <1>1, LeastNumber
<1>3. j \in 0..(n - 1) /\ ~inOrder(T[0], T[j]) BY <1>2
<1>4. j # 0
  <2>1. T[j] \in Nat BY <1>3 DEF Timed
  <2> QED BY <1>3, <2>1, TimesOrdered
<1>5. parent(j) \in 0..(n - 1) /\ parent(j) < j /\ j \in 1..(n - 1) BY <1>3, <1>4, Parents
<1>6. parent(j) \notin Bad
  <2> HIDE DEF Bad
  <2> QED BY <1>2, <1>3, <1>5
<1>7. inOrder(T[0], T[parent(j)]) BY <1>5, <1>6
<1>8. inOrder(T[parent(j)], T[j]) BY <1>5 DEF Ordered, Edge
<1>9. T[0] \in Nat /\ T[j] \in Nat /\ T[parent(j)] \in Nat BY <1>3, <1>5 DEF Timed
<1> QED BY <1>3, <1>7, <1>8, <1>9, TimesOrdered

\* A swap of the loop towards the leaves.
LEMMA DownSwaps ==
  ASSUME NEW n \in Nat, NEW T, NEW U, Timed(T, n), NEW i \in 0..(n - 1), NEW moved \in BOOLEAN,
         DownOrdered(T, n, i, moved), NEW c \in 1..(n - 1), parent(c) = i,
         earlier(T[c], T[i]),
         \A k \in 1..(n - 1) : parent(k) = i => inOrder(T[c], T[k]),
         Exchanged(T, U, n, i, c)
  PROVE  DownOrdered(U, n, c, TRUE)
<1>1. i < c /\ i \in Nat /\ c \in Nat BY Parents
<1>2. /\ T[i] \in Nat /\ T[c] \in Nat
      /\ \A k \in 1..(n - 1) : /\ k \in 0..(n - 1) /\ parent(k) \in 0..(n - 1) /\ parent(k) < k
                               /\ T[k] \in Nat /\ T[parent(k)] \in Nat
  <2>1. \A k \in 1..(n - 1) : k \in 0..(n - 1) /\ parent(k) \in 0..(n - 1) /\ parent(k) < k
    BY Parents
  <2>2. c \in 0..(n - 1) BY <1>1
  <2> QED BY <2>1, <2>2 DEF Timed
<1>3. /\ U[i] = T[c] /\ U[c] = T[i]
      /\ \A k \in 0..(n - 1) : k # i /\ k # c => U[k] = T[k]
  BY DEF Exchanged
<1>4. ASSUME NEW k \in 1..(n - 1), parent(k) # c, k # c PROVE Edge(U, k)
  <2>1. CASE k = i
    <3>1. U[k] = T[c] /\ U[parent(k)] = T[parent(k)]
      <4>1. parent(k) # i /\ parent(k) # c BY <1>1, <1>2, <2>1
      <4> QED BY <1>2, <1>3, <2>1, <4>1
    <3>2. inOrder(T[parent(i)], T[c]) BY <1>1, <2>1 DEF DownOrdered, Skips
    <3> QED BY <2>1, <3>1, <3>2 DEF Edge
  <2>2. CASE k # i /\ parent(k) = i
    <3>1. U[k] = T[k] /\ U[parent(k)] = T[c] BY <1>2, <1>3, <1>4, <2>2
    <3> QED BY <2>2, <3>1 DEF Edge
  <2>3. CASE k # i /\ parent(k) # i
    <3>1. U[k] = T[k] /\ U[parent(k)] = T[parent(k)] BY <1>2, <1>3, <1>4, <2>3
    <3>2. Edge(T, k) BY <2>3 DEF DownOrdered
    <3> QED BY <3>1, <3>2 DEF Edge
  <2> QED BY <2>1, <2>2, <2>3
<1>5. Edge(U, c)
  <2>1. inOrder(T[c], T[i]) BY <1>2, TimesOrdered
  <2> QED BY <1>3, <2>1 DEF Edge
<1>6. ASSUME NEW k \in 1..(n - 1), parent(k) = c PROVE inOrder(U[parent(c)], U[k])
  <2>1. k # i /\ k # c /\ parent(k) # i BY <1>1, <1>2, <1>6
  <2>2. U[k] = T[k] /\ U[parent(c)] = T[c] BY <1>2, <1>3, <2>1
  <2>3. inOrder(T[parent(k)], T[k]) BY <2>1 DEF DownOrdered, Edge
  <2> QED BY <1>6, <2>2, <2>3
<1> QED BY <1>4, <1>5, <1>6 DEF DownOrdered, Skips

\* The loop towards the leaves ends: its entry is in order with its children.
LEMMA DownStops ==
  ASSUME NEW n \in Nat, NEW T, NEW i \in Nat, NEW moved \in BOOLEAN,
         DownOrdered(T, n, i, moved),
         \A k \in 1..(n - 1) : parent(k) = i => inOrder(T[i], T[k])
  PROVE  /\ UpOrdered(T, n, i)
         /\ moved => Ordered(T, n)
<1>1. \A k \in 1..(n - 1) : k # i => Edge(T, k) BY DEF DownOrdered, Edge
<1>2. moved => Ordered(T, n) BY <1>1 DEF DownOrdered, Ordered
<1> QED BY <1>1, <1>2 DEF UpOrdered, DownOrdered

\* A swap of the loop towards the root.
LEMMA UpSwaps ==
  ASSUME NEW n \in Nat, NEW T, NEW U, Timed(T, n), NEW i \in 1..(n - 1), UpOrdered(T, n, i),
         earlier(T[i], T[parent(i)]), Exchanged(T, U, n, parent(i), i)
  PROVE  UpOrdered(U, n, parent(i))
<1> DEFINE p == parent(i)
<1>1. p \in 0..(n - 1) /\ p < i BY Parents
<1>2. \A k \in 1..(n - 1) : /\ k \in 0..(n - 1) /\ parent(k) \in 0..(n - 1) /\ parent(k) < k
                            /\ T[k] \in Nat /\ T[parent(k)] \in Nat
  <2>1. \A k \in 1..(n - 1) : k \in 0..(n - 1) /\ parent(k) \in 0..(n - 1) /\ parent(k) < k
    BY Parents
  <2> QED BY <2>1 DEF Timed
<1>3. /\ U[p] = T[i] /\ U[i] = T[p]
      /\ \A k \in 0..(n - 1) : k # p /\ k # i => U[k] = T[k]
  BY DEF Exchanged
<1>4. inOrder(T[i], T[p]) BY <1>2, TimesOrdered
<1>5. ASSUME NEW k \in 1..(n - 1), k # p PROVE Edge(U, k)
  <2>1. CASE k = i BY <1>3, <1>4, <2>1 DEF Edge
  <2>2. CASE k # i /\ parent(k) = p
    <3>1. U[k] = T[k] /\ U[parent(k)] = T[i] BY <1>2, <1>3, <1>5, <2>2
    <3>2. inOrder(T[p], T[k]) BY <2>2 DEF UpOrdered, Edge
    <3>3. inOrder(T[i], T[k]) BY <1>2, <1>4, <3>2, TimesOrdered
    <3> QED BY <3>1, <3>3 DEF Edge
  <2>3. CASE k # i /\ parent(k) = i
    <3>1. U[k] = T[k] /\ U[parent(k)] = T[p] BY <1>2, <1>3, <1>5, <2>3
    <3>2. inOrder(T[p], T[k]) BY <2>3 DEF UpOrdered, Skips
    <3> QED BY <3>1, <3>2 DEF Edge
  <2>4. CASE k # i /\ parent(k) # p /\ parent(k) # i
    <3>1. U[k] = T[k] /\ U[parent(k)] = T[parent(k)] BY <1>2, <1>3, <1>5, <2>4
    <3>2. Edge(T, k) BY <2>4 DEF UpOrdered
    <3> QED BY <3>1, <3>2 DEF Edge
  <2> QED BY <2>1, <2>2, <2>3, <2>4
<1>6. ASSUME p # 0, NEW k \in 1..(n - 1), parent(k) = p PROVE inOrder(U[parent(p)], U[k])
  <2>1. p \in 1..(n - 1) /\ p # i BY <1>1, <1>6
  <2>2. parent(p) # p /\ parent(p) # i BY <1>1, <1>2, <2>1
  <2>3. U[parent(p)] = T[parent(p)] BY <1>2, <1>3, <2>1, <2>2
  <2>4. inOrder(T[parent(p)], T[p]) BY <2>1 DEF UpOrdered, Edge
  <2>5. CASE k = i BY <1>3, <2>3, <2>4, <2>5
  <2>6. CASE k # i
    <3>1. k # p BY <1>2, <1>6
    <3>2. U[k] = T[k] BY <1>2, <1>3, <2>6, <3>1
    <3>3. inOrder(T[p], T[k]) BY <1>6, <2>6 DEF UpOrdered, Edge
    <3> QED BY <1>2, <2>1, <2>3, <2>4, <3>2, <3>3, TimesOrdered
  <2> QED BY <2>5, <2>6
<1> QED BY <1>5, <1>6 DEF UpOrdered, Skips

\* The loop towards the root ends.
LEMMA UpStops ==
  ASSUME NEW n \in Nat, NEW T, Timed(T, n), NEW i \in Nat, UpOrdered(T, n, i),
         i \in 1..(n - 1) => ~earlier(T[i], T[parent(i)])
  PROVE  Ordered(T, n)
<1> SUFFICES ASSUME NEW k \in 1..(n - 1) PROVE Edge(T, k) BY DEF Ordered
<1>1. k \in 0..(n - 1) /\ parent(k) \in 0..(n - 1) BY Parents
<1>2. T[k] \in Nat /\ T[parent(k)] \in Nat BY <1>1 DEF Timed
<1>3. CASE k = i BY <1>2, <1>3, TimesOrdered DEF Edge
<1>4. CASE k # i BY <1>4 DEF UpOrdered
<1> QED BY <1>3, <1>4

\* Another time at i, of the first n positions: it may have to go down or up.
LEMMA ChangeAt ==
  ASSUME NEW n \in Nat, NEW T, NEW U, Timed(T, n), NEW i \in Nat, Ordered(T, n),
         \A k \in 0..(n - 1) : k # i => U[k] = T[k]
  PROVE  DownOrdered(U, n, i, FALSE)
<1>1. \A k \in 1..(n - 1) : /\ k \in 0..(n - 1) /\ parent(k) \in 0..(n - 1) /\ parent(k) < k
                            /\ T[k] \in Nat /\ T[parent(k)] \in Nat
  <2>1. \A k \in 1..(n - 1) : k \in 0..(n - 1) /\ parent(k) \in 0..(n - 1) /\ parent(k) < k
    BY Parents
  <2> QED BY <2>1 DEF Timed
<1>2. ASSUME NEW k \in 1..(n - 1), parent(k) # i, k # i PROVE Edge(U, k)
  BY <1>1, <1>2 DEF Ordered, Edge
<1>3. ASSUME i # 0, NEW k \in 1..(n - 1), parent(k) = i PROVE inOrder(U[parent(i)], U[k])
  <2>1. k # i /\ i \in 1..(n - 1) BY <1>1, <1>3
  <2>2. parent(i) # i BY <1>1, <2>1
  <2>3. U[k] = T[k] /\ U[parent(i)] = T[parent(i)] BY <1>1, <2>1, <2>2
  <2>4. inOrder(T[parent(i)], T[i]) /\ inOrder(T[i], T[k]) BY <1>3, <2>1 DEF Ordered, Edge
  <2> QED BY <1>1, <2>1, <2>3, <2>4, TimesOrdered
<1> QED BY <1>2, <1>3 DEF DownOrdered, Skips


\* The array and the index agree: every entry of either is in the other, at its position.
Placed(h) ==
  /\ \A k \in 1..Len(h.array) : /\ h.array[k] \in DOMAIN h.entry
                                /\ h.entry[h.array[k]].index = k - 1
  /\ \A id \in DOMAIN h.entry : /\ h.entry[id].index + 1 \in 1..Len(h.array)
                                /\ h.array[h.entry[id].index + 1] = id

\* A heap: an array of ids, and an index with a time and a position for each of them.
WellFormed(h) ==
  /\ h = [array |-> h.array, entry |-> h.entry]
  /\ h.array \in Seq(Ids)
  /\ DOMAIN h.entry \subseteq Ids
  /\ h.entry \in [DOMAIN h.entry -> [next : Nat, index : Nat]]
  /\ Placed(h)

\* The times of the entries, in array order.
timesOf(h) == [k \in 0..(Len(h.array) - 1) |-> timeAt(h, k)]

\* Less compares the times of two positions.
LEMMA TimesOf ==
  ASSUME NEW h, WellFormed(h), NEW n \in Nat, n <= Len(h.array)
  PROVE  /\ Len(h.array) \in Nat /\ DOMAIN h.array = 1..Len(h.array)
         /\ Timed(timesOf(h), n)
         /\ \A i, j \in 0..(Len(h.array) - 1) :
              Less(h, i, j) <=> earlier(timesOf(h)[i], timesOf(h)[j])
<1>1. Len(h.array) \in Nat /\ DOMAIN h.array = 1..Len(h.array) BY DEF WellFormed
<1>2. ASSUME NEW k \in 0..(Len(h.array) - 1) PROVE timeAt(h, k) \in Nat
  <2>1. k + 1 \in 1..Len(h.array) BY <1>1
  <2>2. h.array[k + 1] \in DOMAIN h.entry BY <2>1 DEF WellFormed, Placed
  <2>3. h.entry[h.array[k + 1]] \in [next : Nat, index : Nat] BY <2>2 DEF WellFormed
  <2> QED BY <2>3 DEF timeAt
<1>3. Timed(timesOf(h), n) BY <1>1, <1>2 DEF Timed, timesOf
<1>4. ASSUME NEW i \in 0..(Len(h.array) - 1), NEW j \in 0..(Len(h.array) - 1)
      PROVE  Less(h, i, j) <=> earlier(timesOf(h)[i], timesOf(h)[j])
  BY DEF Less, earlier, timesOf
<1> QED BY <1>1, <1>3, <1>4

\* g is h with the entries at i and j exchanged.
SwapOf(g, h, i, j) ==
  /\ WellFormed(g)
  /\ Len(g.array) = Len(h.array)
  /\ DOMAIN g.entry = DOMAIN h.entry
  /\ \A id \in DOMAIN h.entry : g.entry[id].next = h.entry[id].next
  /\ g.array[i + 1] = h.array[j + 1] /\ g.array[j + 1] = h.array[i + 1]
  /\ \A k \in 1..Len(h.array) : k # i + 1 /\ k # j + 1 => g.array[k] = h.array[k]

\* Swap keeps the index right.
LEMMA SwapsWell ==
  ASSUME NEW h, WellFormed(h), NEW i \in 0..(Len(h.array) - 1), NEW j \in 0..(Len(h.array) - 1)
  PROVE  SwapOf(Swap(h, i, j), h, i, j)
<1> DEFINE N == Len(h.array)
           g == Swap(h, i, j)
           x == h.array[i + 1]
           y == h.array[j + 1]
           D == DOMAIN h.entry
           E == [next : Nat, index : Nat]
<1>1. N \in Nat /\ h.array \in [1..N -> Ids] BY DEF WellFormed
<1>2. i \in Nat /\ j \in Nat /\ i + 1 \in 1..N /\ j + 1 \in 1..N BY <1>1
<1>3. x \in D /\ y \in D /\ D \subseteq Ids BY <1>2 DEF WellFormed, Placed
<1>4. h.entry[x].index = i /\ h.entry[y].index = j
  <2>1. h.entry[h.array[i + 1]].index = (i + 1) - 1 /\ h.entry[h.array[j + 1]].index = (j + 1) - 1
    BY <1>2 DEF WellFormed, Placed
  <2>2. (i + 1) - 1 = i /\ (j + 1) - 1 = j BY <1>2
  <2> QED BY <2>1, <2>2
<1>5. /\ g.array = [h.array EXCEPT ![i + 1] = y, ![j + 1] = x]
      /\ g.entry = [h.entry EXCEPT ![y].index = i, ![x].index = j]
      /\ g = [array |-> g.array, entry |-> g.entry]
  BY DEF Swap
<1>6. /\ g.array \in [1..N -> Ids]
      /\ g.array[i + 1] = y /\ g.array[j + 1] = x
      /\ \A k \in 1..N : k # i + 1 /\ k # j + 1 => g.array[k] = h.array[k]
  <2> HIDE DEF g, N
  <2>1. x \in Ids /\ y \in Ids BY <1>3
  <2>2. i = j => x = y OBVIOUS
  <2> HIDE DEF x, y
  <2>3. DOMAIN h.array = 1..N BY <1>1
  <2>4. g.array[j + 1] = x BY <1>2, <1>5, <2>3
  <2>5. g.array[i + 1] = y BY <1>2, <1>5, <2>2, <2>3
  <2>6. \A k \in 1..N : k # i + 1 /\ k # j + 1 => g.array[k] = h.array[k] BY <1>5, <2>3
  <2>7. g.array = [k \in 1..N |-> g.array[k]] BY <1>5, <2>3
  <2>8. \A k \in 1..N : g.array[k] \in Ids BY <1>1, <2>1, <2>4, <2>5, <2>6
  <2> QED BY <2>4, <2>5, <2>6, <2>7, <2>8
<1>7. g.array \in Seq(Ids) /\ Len(g.array) = N
  <2> HIDE DEF g, N
  <2> QED BY <1>1, <1>6
<1>8. h.entry \in [D -> E] BY DEF WellFormed
<1>9. /\ g.entry \in [D -> E]
      /\ g.entry[x] = [h.entry[x] EXCEPT !.index = j]
      /\ x # y => g.entry[y] = [h.entry[y] EXCEPT !.index = i]
      /\ \A id \in D : id # x /\ id # y => g.entry[id] = h.entry[id]
  <2> HIDE DEF g, x, y, D
  <2>1. DOMAIN g.entry = D BY <1>5, <1>8
  <2>2. CASE x = y
    <3>1. g.entry[x] = [[h.entry[x] EXCEPT !.index = i] EXCEPT !.index = j]
      BY <1>3, <1>5, <1>8, <2>2
    <3>2. g.entry[x] = [h.entry[x] EXCEPT !.index = j] /\ g.entry[x] \in E
      <4>1. h.entry[x] \in E BY <1>3, <1>8
      <4> HIDE DEF E
      <4>2. h.entry[x] = [next |-> h.entry[x].next, index |-> h.entry[x].index]
             /\ h.entry[x].next \in Nat
        BY <4>1 DEF E
      <4> QED BY <1>2, <3>1, <4>1, <4>2 DEF E
    <3>3. \A id \in D : id # x => g.entry[id] = h.entry[id] BY <1>5, <1>8, <2>2
    <3>4. g.entry = [id \in D |-> g.entry[id]] BY <1>5, <1>8
    <3>5. \A id \in D : g.entry[id] \in E BY <1>8, <3>2, <3>3
    <3> QED BY <2>2, <3>2, <3>3, <3>4, <3>5
  <2>3. CASE x # y
    <3>1. g.entry[x] = [h.entry[x] EXCEPT !.index = j] BY <1>3, <1>5, <1>8, <2>3
    <3>2. g.entry[y] = [h.entry[y] EXCEPT !.index = i] BY <1>3, <1>5, <1>8, <2>3
    <3>3. g.entry[x] \in E /\ g.entry[y] \in E BY <1>2, <1>3, <1>8, <3>1, <3>2
    <3>4. \A id \in D : id # x /\ id # y => g.entry[id] = h.entry[id] BY <1>5, <1>8
    <3>5. g.entry = [id \in D |-> g.entry[id]] BY <1>5, <1>8
    <3> QED BY <1>8, <3>1, <3>2, <3>3, <3>4, <3>5
  <2> QED BY <2>2, <2>3
<1>10. /\ g.entry[x].index = j /\ g.entry[x].next = h.entry[x].next
      /\ g.entry[y].index = i /\ g.entry[y].next = h.entry[y].next
  <2>1. h.entry[x].index = i /\ h.entry[y].index = j BY <1>4
  <2>2. h.entry[x] \in E /\ h.entry[y] \in E BY <1>3, <1>8
  <2> HIDE DEF g, x, y
  <2>3. g.entry[x].index = j /\ g.entry[x].next = h.entry[x].next BY <1>9, <2>2
  <2>4. CASE x = y BY <2>1, <2>3, <2>4
  <2>5. CASE x # y BY <1>9, <2>2, <2>3, <2>5
  <2> QED BY <2>4, <2>5
<1>11. \A id \in D : g.entry[id].next = h.entry[id].next
  <2> HIDE DEF g, x, y, D
  <2> QED BY <1>9, <1>10
<1>12. ASSUME NEW k \in 1..N PROVE g.array[k] \in D /\ g.entry[g.array[k]].index = k - 1
  <2>1. h.array[k] \in D /\ h.entry[h.array[k]].index = k - 1 BY DEF WellFormed, Placed
  <2> HIDE DEF g, x, y, D, N
  <2>2. CASE k = i + 1 BY <1>2, <1>3, <1>6, <1>10, <2>2
  <2>3. CASE k = j + 1 BY <1>2, <1>3, <1>6, <1>10, <2>3
  <2>4. CASE k # i + 1 /\ k # j + 1
    <3>1. g.array[k] = h.array[k] BY <1>6, <2>4
    <3>2. h.array[k] # x /\ h.array[k] # y BY <1>1, <1>2, <1>4, <2>1, <2>4
    <3> QED BY <1>9, <2>1, <3>1, <3>2
  <2> QED BY <2>2, <2>3, <2>4
<1>13. ASSUME NEW id \in D
       PROVE  g.entry[id].index + 1 \in 1..N /\ g.array[g.entry[id].index + 1] = id
  <2>1. /\ h.entry[id].index + 1 \in 1..N /\ h.array[h.entry[id].index + 1] = id
        /\ h.entry[id].index \in Nat
    BY <1>8 DEF WellFormed, Placed
  <2>2. CASE id = x
    <3> HIDE DEF g, x, y, D, N
    <3> QED BY <1>2, <1>6, <1>10, <2>2
  <2>3. CASE id = y
    <3> HIDE DEF g, x, y, D, N
    <3> QED BY <1>2, <1>6, <1>10, <2>3
  <2>4. CASE id # x /\ id # y
    <3>1. h.entry[id].index + 1 # i + 1 /\ h.entry[id].index + 1 # j + 1 BY <2>1, <2>4
    <3> HIDE DEF g, x, y, D, N
    <3> QED BY <1>6, <1>9, <2>1, <2>4, <3>1
  <2> QED BY <2>2, <2>3, <2>4
<1>14. DOMAIN g.entry = D
  <2> HIDE DEF g, D, x, y, E
  <2> QED BY <1>9
<1>15. Placed(g)
  <2> HIDE DEF g, D, N
  <2> QED BY <1>7, <1>12, <1>13, <1>14 DEF Placed
<1>16. WellFormed(g)
  <2> HIDE DEF g, D, N
  <2> QED BY <1>3, <1>5, <1>7, <1>9, <1>14, <1>15 DEF WellFormed
<1>17. g.array[i + 1] = h.array[j + 1] /\ g.array[j + 1] = h.array[i + 1] BY <1>6
<1>18. \A k \in 1..Len(h.array) : k # i + 1 /\ k # j + 1 => g.array[k] = h.array[k] BY <1>6
<1>19. /\ Len(g.array) = Len(h.array) /\ DOMAIN g.entry = DOMAIN h.entry
       /\ \A id \in DOMAIN h.entry : g.entry[id].next = h.entry[id].next
  BY <1>7, <1>11, <1>14
<1> HIDE DEF g, E
<1>20. SwapOf(g, h, i, j) BY <1>16, <1>17, <1>18, <1>19 DEF SwapOf
<1> QED BY <1>20 DEF g

\* It exchanges the times at the two positions.
LEMMA SwapsTimes ==
  ASSUME NEW h, WellFormed(h), NEW g, NEW n \in Nat, n <= Len(h.array),
         NEW i \in 0..(Len(h.array) - 1), NEW j \in 0..(Len(h.array) - 1), SwapOf(g, h, i, j)
  PROVE  Exchanged(timesOf(h), timesOf(g), n, i, j)
<1>1. Len(h.array) \in Nat BY DEF WellFormed
<1>2. \A k \in 0..(Len(h.array) - 1) :
        k + 1 \in 1..Len(h.array) /\ h.array[k + 1] \in DOMAIN h.entry
  BY <1>1 DEF WellFormed, Placed
<1>3. timeAt(g, i) = timeAt(h, j) /\ timeAt(g, j) = timeAt(h, i) BY <1>2 DEF SwapOf, timeAt
<1>4. ASSUME NEW k \in 0..(Len(h.array) - 1), k # i, k # j PROVE timeAt(g, k) = timeAt(h, k)
  <2>1. g.array[k + 1] = h.array[k + 1] BY <1>1, <1>2, <1>4 DEF SwapOf
  <2> QED BY <1>2, <2>1 DEF SwapOf, timeAt
<1>5. Len(g.array) = Len(h.array) BY DEF SwapOf
<1> QED BY <1>1, <1>3, <1>4, <1>5 DEF Exchanged, timesOf


\* The order of the first n positions depends on their times only.
LEMMA OrderedAlike ==
  ASSUME NEW n \in Nat, NEW T, NEW U, \A k \in 0..(n - 1) : U[k] = T[k]
  PROVE  Ordered(T, n) => Ordered(U, n)
<1> SUFFICES ASSUME Ordered(T, n), NEW k \in 1..(n - 1) PROVE Edge(U, k) BY DEF Ordered
<1>1. k \in 0..(n - 1) /\ parent(k) \in 0..(n - 1) BY Parents
<1> QED BY <1>1 DEF Ordered, Edge

\* A later entry is added last: only it may be out of order.
LEMMA LastAdded ==
  ASSUME NEW n \in Nat, NEW T, NEW U, Ordered(T, n), \A k \in 0..(n - 1) : U[k] = T[k]
  PROVE  UpOrdered(U, n + 1, n)
<1>1. Ordered(U, n) BY OrderedAlike
<1>2. \A k \in 1..((n + 1) - 1) : k # n => k \in 1..(n - 1) OBVIOUS
<1>3. \A k \in 1..((n + 1) - 1) : parent(k) # n BY Parents
<1> QED BY <1>1, <1>2, <1>3 DEF UpOrdered, Ordered, Skips

\* g is h without its last entry.
DropOf(g, h) ==
  LET N == Len(h.array)
  IN /\ WellFormed(g)
     /\ Len(g.array) = N - 1
     /\ DOMAIN g.entry = DOMAIN h.entry \ {h.array[N]}
     /\ \A id \in DOMAIN g.entry : g.entry[id].next = h.entry[id].next
     /\ \A k \in 0..(N - 2) : timesOf(g)[k] = timesOf(h)[k]

\* Taking the last entry out of the array and the index.
LEMMA DropsWell ==
  ASSUME NEW h, WellFormed(h), Len(h.array) # 0
  PROVE  DropOf(dropLast(h), h)
<1> DEFINE N == Len(h.array)
           g == dropLast(h)
           D == DOMAIN h.entry \ {h.array[N]}
           E == [next : Nat, index : Nat]
<1>1. N \in Nat /\ N # 0 /\ h.array \in Seq(Ids) /\ h.array \in [1..N -> Ids] BY DEF WellFormed
<1>2. /\ g.array = SubSeq(h.array, 1, N - 1)
      /\ g.entry = [id \in D |-> h.entry[id]]
      /\ g = [array |-> g.array, entry |-> g.entry]
  <2>1. \A f, S : Restrict(f, S) = [x \in S |-> f[x]] BY DEF Restrict
  <2> QED BY <2>1 DEF dropLast
<1>3. /\ g.array \in Seq(Ids) /\ Len(g.array) = N - 1
      /\ \A k \in 1..(N - 1) : g.array[k] = h.array[k]
  <2> HIDE DEF g, N
  <2> QED BY <1>1, <1>2
<1>4. DOMAIN h.entry \subseteq Ids /\ h.entry \in [DOMAIN h.entry -> E] BY DEF WellFormed
<1>5. DOMAIN g.entry = D /\ \A id \in D : g.entry[id] = h.entry[id] BY <1>2
<1>6. g.entry \in [D -> E] /\ D \subseteq Ids BY <1>2, <1>4
<1>7. ASSUME NEW k \in 1..(N - 1) PROVE g.array[k] \in D /\ g.entry[g.array[k]].index = k - 1
  <2>1. k \in 1..N /\ N \in 1..N BY <1>1
  <2>2. /\ h.array[k] \in DOMAIN h.entry /\ h.entry[h.array[k]].index = k - 1
        /\ h.entry[h.array[N]].index = N - 1
    BY <2>1 DEF WellFormed, Placed
  <2>3. h.array[k] # h.array[N] BY <1>1, <2>1, <2>2
  <2> HIDE DEF g
  <2> QED BY <1>3, <1>5, <2>2, <2>3
<1>8. ASSUME NEW id \in D
      PROVE  g.entry[id].index + 1 \in 1..(N - 1) /\ g.array[g.entry[id].index + 1] = id
  <2>1. h.entry[id].index + 1 \in 1..N /\ h.array[h.entry[id].index + 1] = id
    BY DEF WellFormed, Placed
  <2>2. h.entry[id].index + 1 # N BY <2>1
  <2>3. h.entry[id].index + 1 \in 1..(N - 1) BY <1>1, <2>1, <2>2
  <2> HIDE DEF g
  <2> QED BY <1>3, <1>5, <2>1, <2>3
<1>9. Placed(g)
  <2> HIDE DEF g, D, N
  <2> QED BY <1>3, <1>5, <1>7, <1>8 DEF Placed
<1>10. WellFormed(g)
  <2> HIDE DEF g, D, N
  <2> QED BY <1>2, <1>3, <1>5, <1>6, <1>9 DEF WellFormed
<1>11. ASSUME NEW k \in 0..(N - 2) PROVE timesOf(g)[k] = timesOf(h)[k]
  <2>1. k + 1 \in 1..(N - 1) /\ k \in 0..(N - 1) /\ k \in 0..((N - 1) - 1) BY <1>1
  <2>2. g.array[k + 1] = h.array[k + 1] /\ g.array[k + 1] \in D BY <1>3, <1>7, <2>1
  <2>3. timeAt(g, k) = timeAt(h, k)
    <3> HIDE DEF g, D
    <3> QED BY <1>5, <2>2 DEF timeAt
  <2> HIDE DEF g
  <2> QED BY <1>3, <2>1, <2>3 DEF timesOf
<1>12. \A id \in DOMAIN g.entry : g.entry[id].next = h.entry[id].next
  <2> HIDE DEF g, D
  <2> QED BY <1>5
<1> HIDE DEF g, E
<1>13. DropOf(g, h) BY <1>3, <1>5, <1>10, <1>11, <1>12 DEF DropOf
<1> QED BY <1>13 DEF g

\* g is h with another job at the end.
PushOf(g, h, id, next) ==
  /\ WellFormed(g)
  /\ Len(g.array) = Len(h.array) + 1
  /\ DOMAIN g.entry = DOMAIN h.entry \cup {id}
  /\ g.entry[id].next = next
  /\ \A x \in DOMAIN h.entry : g.entry[x].next = h.entry[x].next
  /\ \A k \in 0..(Len(h.array) - 1) : timesOf(g)[k] = timesOf(h)[k]

\* A job enters at the end.
LEMMA PushesWell ==
  ASSUME NEW h, WellFormed(h), NEW id \in Ids, id \notin DOMAIN h.entry, NEW next \in Nat,
         NEW g, g = [array |-> Append(h.array, id),
                     entry |-> put(h.entry, id, [next |-> next, index |-> Len(h.array)])]
  PROVE  PushOf(g, h, id, next)
<1> DEFINE N == Len(h.array)
           D == DOMAIN h.entry
           E == [next : Nat, index : Nat]
<1>1. N \in Nat /\ h.array \in Seq(Ids) /\ h.array \in [1..N -> Ids] BY DEF WellFormed
<1>2. /\ g.array = Append(h.array, id)
      /\ g.entry = [x \in D \cup {id} |-> IF x = id THEN [next |-> next, index |-> N]
                                          ELSE h.entry[x]]
      /\ g = [array |-> g.array, entry |-> g.entry]
  BY DEF put
<1>3. /\ g.array \in Seq(Ids) /\ Len(g.array) = N + 1 /\ g.array[N + 1] = id
      /\ \A k \in 1..N : g.array[k] = h.array[k]
  <2> HIDE DEF N
  <2>1. g.array \in Seq(Ids) /\ Len(g.array) = Len(h.array) + 1 BY <1>1, <1>2
  <2> QED BY <1>1, <1>2, <2>1 DEF N
<1>4. D \subseteq Ids /\ h.entry \in [D -> E] BY DEF WellFormed
<1>5. /\ DOMAIN g.entry = D \cup {id}
      /\ g.entry[id] = [next |-> next, index |-> N]
      /\ \A x \in D : g.entry[x] = h.entry[x]
  <2> HIDE DEF N, D
  <2> QED BY <1>2 DEF D
<1>6. g.entry \in [D \cup {id} -> E]
  <2>1. [next |-> next, index |-> N] \in E BY <1>1
  <2> HIDE DEF N, E
  <2>2. \A x \in D \cup {id} : g.entry[x] \in E BY <1>4, <1>5, <2>1
  <2>3. g.entry = [x \in D \cup {id} |-> g.entry[x]] BY <1>2
  <2> QED BY <2>2, <2>3
<1>7. ASSUME NEW k \in 1..(N + 1)
      PROVE  g.array[k] \in D \cup {id} /\ g.entry[g.array[k]].index = k - 1
  <2>1. CASE k = N + 1
    <3>1. g.array[k] = id /\ g.entry[id].index = N BY <1>3, <1>5, <2>1
    <3>2. N = k - 1 BY <1>1, <2>1
    <3> QED BY <3>1, <3>2
  <2>2. CASE k # N + 1
    <3>1. k \in 1..N BY <1>1, <2>2
    <3>2. h.array[k] \in D /\ h.entry[h.array[k]].index = k - 1 BY <3>1 DEF WellFormed, Placed
    <3> HIDE DEF N, D
    <3> QED BY <1>3, <1>5, <3>1, <3>2
  <2> QED BY <2>1, <2>2
<1>8. ASSUME NEW x \in D \cup {id}
      PROVE  g.entry[x].index + 1 \in 1..(N + 1) /\ g.array[g.entry[x].index + 1] = x
  <2>1. CASE x = id
    <3>1. g.entry[x].index = N BY <1>5, <2>1
    <3>2. N + 1 \in 1..(N + 1) BY <1>1
    <3> QED BY <1>3, <2>1, <3>1, <3>2
  <2>2. CASE x \in D
    <3>1. h.entry[x].index + 1 \in 1..N /\ h.array[h.entry[x].index + 1] = x
      BY <2>2 DEF WellFormed, Placed
    <3>2. h.entry[x].index + 1 \in 1..(N + 1) BY <1>1, <3>1
    <3> HIDE DEF N, D
    <3> QED BY <1>3, <1>5, <2>2, <3>1, <3>2
  <2> QED BY <2>1, <2>2
<1>9. WellFormed(g)
  <2>1. D \cup {id} \subseteq Ids BY <1>4
  <2> HIDE DEF D, N
  <2>2. Placed(g) BY <1>3, <1>5, <1>7, <1>8 DEF Placed
  <2> QED BY <1>2, <1>3, <1>5, <1>6, <2>1, <2>2 DEF WellFormed
<1>10. ASSUME NEW k \in 0..(N - 1) PROVE timesOf(g)[k] = timesOf(h)[k]
  <2>1. k + 1 \in 1..N /\ k \in 0..((N + 1) - 1) BY <1>1
  <2>2. h.array[k + 1] \in D BY <2>1 DEF WellFormed, Placed
  <2>3. timeAt(g, k) = timeAt(h, k)
    <3> HIDE DEF N, D
    <3> QED BY <1>3, <1>5, <2>1, <2>2 DEF timeAt
  <2> QED BY <1>3, <2>1, <2>3 DEF timesOf
<1>11. g.entry[id].next = next /\ \A x \in D : g.entry[x].next = h.entry[x].next BY <1>5
<1> HIDE DEF E
<1> QED BY <1>3, <1>5, <1>9, <1>10, <1>11 DEF PushOf

\* g is h with another time for id.
UpdateOf(g, h, id, next) ==
  /\ WellFormed(g)
  /\ g.array = h.array
  /\ DOMAIN g.entry = DOMAIN h.entry
  /\ g.entry[id].next = next
  /\ \A x \in DOMAIN h.entry : x # id => g.entry[x].next = h.entry[x].next
  /\ \A k \in 0..(Len(h.array) - 1) : k # h.entry[id].index => timesOf(g)[k] = timesOf(h)[k]

\* A job gets another time.
LEMMA UpdatesWell ==
  ASSUME NEW h, WellFormed(h), NEW id \in DOMAIN h.entry, NEW next \in Nat,
         NEW g, g = [h EXCEPT !.entry[id].next = next]
  PROVE  UpdateOf(g, h, id, next)
<1> DEFINE N == Len(h.array)
           D == DOMAIN h.entry
           E == [next : Nat, index : Nat]
<1>1. N \in Nat /\ h.array \in Seq(Ids) /\ h.array \in [1..N -> Ids] BY DEF WellFormed
<1>2. D \subseteq Ids /\ h.entry \in [D -> E] BY DEF WellFormed
<1>3. /\ g.array = h.array
      /\ g.entry = [h.entry EXCEPT ![id].next = next]
      /\ g = [array |-> g.array, entry |-> g.entry]
  <2>1. h = [array |-> h.array, entry |-> h.entry] BY DEF WellFormed
  <2>2. g = [array |-> h.array, entry |-> [h.entry EXCEPT ![id].next = next]] BY <2>1
  <2> QED BY <2>2
<1>4. /\ DOMAIN g.entry = D
      /\ \A x \in D : x # id => g.entry[x] = h.entry[x]
      /\ g.entry[id] = [h.entry[id] EXCEPT !.next = next]
  <2> HIDE DEF E
  <2> QED BY <1>2, <1>3
<1>5. /\ g.entry[id] \in E /\ g.entry[id].next = next
      /\ g.entry[id].index = h.entry[id].index
  <2>1. h.entry[id] \in E BY <1>2
  <2> QED BY <1>4, <2>1
<1>6. g.entry \in [D -> E] /\ \A x \in D : g.entry[x].index = h.entry[x].index
  <2> HIDE DEF E, D
  <2>1. \A x \in D : g.entry[x] \in E /\ g.entry[x].index = h.entry[x].index
    BY <1>2, <1>4, <1>5
  <2>2. g.entry = [x \in D |-> g.entry[x]] BY <1>2, <1>3 DEF D
  <2> QED BY <2>1, <2>2
<1>7. Placed(g)
  <2>1. Placed(h) BY DEF WellFormed
  <2> QED BY <1>3, <1>4, <1>6, <2>1 DEF Placed
<1>8. WellFormed(g)
  <2>1. g.array \in Seq(Ids) BY <1>1, <1>3
  <2> HIDE DEF E, D
  <2> QED BY <1>2, <1>3, <1>4, <1>6, <1>7, <2>1 DEF WellFormed, E
<1>9. ASSUME NEW k \in 0..(N - 1), k # h.entry[id].index PROVE timesOf(g)[k] = timesOf(h)[k]
  <2>1. k + 1 \in 1..N /\ (k + 1) - 1 = k BY <1>1
  <2>2. h.array[k + 1] \in D /\ h.entry[h.array[k + 1]].index = (k + 1) - 1
    BY <2>1 DEF WellFormed, Placed
  <2>3. h.array[k + 1] # id BY <1>9, <2>1, <2>2
  <2>4. timeAt(g, k) = timeAt(h, k) BY <1>3, <1>4, <2>2, <2>3 DEF timeAt
  <2> QED BY <1>3, <2>4 DEF timesOf
<1> HIDE DEF E
<1> QED BY <1>3, <1>4, <1>5, <1>8, <1>9 DEF UpdateOf

\* The child the loop compares with is a child, and due no later than the other.
LEMMA ChildIsEarlier ==
  ASSUME NEW h, WellFormed(h), NEW n \in Nat, n <= Len(h.array), NEW i \in Nat, 2 * i + 1 < n
  PROVE  /\ child(h, i, n) \in 1..(n - 1)
         /\ parent(child(h, i, n)) = i
         /\ \A k \in 1..(n - 1) :
              parent(k) = i => inOrder(timesOf(h)[child(h, i, n)], timesOf(h)[k])
<1> DEFINE left == 2 * i + 1
           T == timesOf(h)
           c == child(h, i, n)
<1>1. Len(h.array) \in Nat /\ left \in 0..(Len(h.array) - 1) /\ left \in 1..(n - 1)
  BY TimesOf
<1>2. /\ Timed(T, n)
      /\ \A a, b \in 0..(Len(h.array) - 1) : Less(h, a, b) <=> earlier(T[a], T[b])
  <2> HIDE DEF T
  <2> QED BY TimesOf DEF T
<1>3. parent(left) = i /\ parent(left + 1) = i
  <2>1. left + 1 = 2 * i + 2 OBVIOUS
  <2> QED BY <2>1, Parents
<1>4. ASSUME NEW k \in 1..(n - 1), parent(k) = i PROVE k = left \/ k = left + 1
  <2>1. k \in Nat \ {0} OBVIOUS
  <2>2. k = 2 * parent(k) + 1 \/ k = 2 * parent(k) + 2 BY <2>1, Parents
  <2> QED BY <1>4, <2>2
<1>5. T[left] \in Nat /\ (left + 1 < n => T[left + 1] \in Nat)
  <2>1. left \in 0..(n - 1) /\ (left + 1 < n => left + 1 \in 0..(n - 1)) BY <1>1
  <2> HIDE DEF T, left
  <2> QED BY <1>2, <2>1 DEF Timed
<1>6. CASE left + 1 < n /\ Less(h, left + 1, left)
  <2>1. c = left + 1 BY <1>6 DEF child
  <2>2. left + 1 \in 0..(Len(h.array) - 1) /\ left + 1 \in 1..(n - 1) BY <1>1, <1>6
  <2>3. earlier(T[left + 1], T[left]) BY <1>1, <1>2, <1>6, <2>2
  <2> HIDE DEF T, left, c
  <2>4. inOrder(T[left + 1], T[left]) /\ inOrder(T[left + 1], T[left + 1])
    BY <1>5, <1>6, <2>3, TimesOrdered
  <2>5. \A k \in 1..(n - 1) : parent(k) = i => inOrder(T[c], T[k]) BY <1>4, <2>1, <2>4
  <2> QED BY <1>3, <2>1, <2>2, <2>5 DEF T, c
<1>7. CASE ~(left + 1 < n /\ Less(h, left + 1, left))
  <2>1. c = left BY <1>7 DEF child
  <2>2. left + 1 < n => left + 1 \in 0..(Len(h.array) - 1) BY <1>1
  <2>3. left + 1 < n => ~earlier(T[left + 1], T[left])
    <3> HIDE DEF T, left
    <3> QED BY <1>1, <1>2, <1>7, <2>2
  <2>4. inOrder(T[left], T[left]) /\ (left + 1 < n => inOrder(T[left], T[left + 1]))
    <3> HIDE DEF T, left
    <3> QED BY <1>5, <2>3, TimesOrdered
  <2>5. \A k \in 1..(n - 1) : k < n OBVIOUS
  <2> HIDE DEF T, left, c
  <2>6. \A k \in 1..(n - 1) : parent(k) = i => inOrder(T[c], T[k]) BY <1>4, <2>1, <2>4, <2>5
  <2> QED BY <1>1, <1>3, <2>1, <2>6 DEF T, c
<1> QED BY <1>6, <1>7

\* When the entry at i need not go down it is in order with its children.
LEMMA SinksNot ==
  ASSUME NEW h, WellFormed(h), NEW n \in Nat, n <= Len(h.array), NEW i \in Nat,
         i < n \/ n = 0, ~(2 * i + 1 < n /\ Less(h, child(h, i, n), i)),
         NEW k \in 1..(n - 1), parent(k) = i
  PROVE  inOrder(timesOf(h)[i], timesOf(h)[k])
<1> DEFINE T == timesOf(h)
           c == child(h, i, n)
<1>1. 2 * i + 1 < n /\ i < n
  <2>1. k \in Nat \ {0} OBVIOUS
  <2>2. k = 2 * parent(k) + 1 \/ k = 2 * parent(k) + 2 BY <2>1, Parents
  <2>3. k = 2 * i + 1 \/ k = 2 * i + 2 BY <2>2
  <2> QED BY <2>3
<1>2. c \in 1..(n - 1) /\ inOrder(T[c], T[k])
  <2> HIDE DEF T, c
  <2> QED BY <1>1, ChildIsEarlier DEF T, c
<1>3. /\ Timed(T, n) /\ Len(h.array) \in Nat
      /\ \A a, b \in 0..(Len(h.array) - 1) : Less(h, a, b) <=> earlier(T[a], T[b])
  <2> HIDE DEF T
  <2> QED BY TimesOf DEF T
<1> HIDE DEF T
<1>4. ~earlier(T[c], T[i])
  <2>1. c \in 0..(Len(h.array) - 1) /\ i \in 0..(Len(h.array) - 1)
    <3> HIDE DEF c
    <3> QED BY <1>1, <1>2, <1>3
  <2>2. ~Less(h, c, i) BY <1>1
  <2> QED BY <1>3, <2>1, <2>2
<1> HIDE DEF c
<1>5. c \in 0..(n - 1) /\ i \in 0..(n - 1) /\ k \in 0..(n - 1) BY <1>1, <1>2
<1>6. T[c] \in Nat /\ T[i] \in Nat /\ T[k] \in Nat BY <1>3, <1>5 DEF Timed
<1>7. inOrder(T[i], T[k]) BY <1>2, <1>4, <1>6, TimesOrdered
<1> QED BY <1>7 DEF T

\* The loop works on all entries, or on all but the last, at one of them.
Looping(h, l) ==
  /\ l \in [mode : {"down", "up"}, i : Nat, from : Nat, n : Nat]
  /\ l.n = Len(h.array) \/ l.n = Len(h.array) - 1
  /\ l.i < l.n \/ (l.i = 0 /\ Len(h.array) = 1)

\* The ids that stay: all, or all but the one that Pop or Remove has put last.
staying(h, l) ==
  IF l = AtRest \/ l.n = Len(h.array) THEN DOMAIN h.entry
  ELSE DOMAIN h.entry \ {h.array[Len(h.array)]}

\* What is in order, and where it may not be.
HeapOrder(T, l, N) ==
  /\ l = AtRest => Ordered(T, N)
  /\ l.mode = "down" => DownOrdered(T, l.n, l.i, l.i # l.from)
  /\ l.mode = "up" => UpOrdered(T, l.n, l.i)

\* The jobs that should be there are those of the index that stay.
HeapHolds(h, l, held) == held = [id \in staying(h, l) |-> h.entry[id].next]

\* What every step of the heap keeps.
HeapInv ==
  /\ WellFormed(pq)
  /\ loop = AtRest \/ Looping(pq, loop)
  /\ HeapHolds(pq, loop, jobs)
  /\ HeapOrder(timesOf(pq), loop, Len(pq.array))


\* A running loop is not idle.
LEMMA LoopingIsBusy ==
  ASSUME NEW h, WellFormed(h), NEW l, Looping(h, l)
  PROVE  /\ l # AtRest /\ l.mode # "idle" /\ l.n \in Nat /\ l.i \in Nat
         /\ Len(h.array) \in Nat /\ Len(h.array) # 0 /\ l.n <= Len(h.array)
         /\ l.i \in 0..(Len(h.array) - 1)
         /\ l.i < l.n \/ (l.i = 0 /\ l.n <= 1)
<1>1. Len(h.array) \in Nat BY DEF WellFormed
<1>2. l.mode # "idle" /\ l.n \in Nat /\ l.i \in Nat BY DEF Looping
<1>3. l # AtRest BY <1>2 DEF AtRest
<1>4. /\ l.n = Len(h.array) \/ l.n = Len(h.array) - 1
      /\ l.i < l.n \/ (l.i = 0 /\ Len(h.array) = 1)
  BY DEF Looping
<1> QED BY <1>1, <1>2, <1>3, <1>4

\* The operation returns with the heap in order.
LEMMA FinishKeeps ==
  ASSUME HeapInv, Looping(pq, loop), Ordered(timesOf(pq), loop.n), Finish, UNCHANGED jobs
  PROVE  HeapInv'
<1> DEFINE N == Len(pq.array)
<1>1. /\ loop # AtRest /\ loop.n \in Nat /\ N \in Nat /\ N # 0 /\ loop.n <= N
      /\ loop.n = N \/ loop.n = N - 1
      /\ WellFormed(pq)
  BY LoopingIsBusy DEF HeapInv, Looping
<1>2. loop' = AtRest /\ AtRest.mode = "idle" BY DEF Finish, AtRest
<1>3. CASE loop.n = N
  <2>1. pq' = pq BY <1>1, <1>3 DEF Finish
  <2>2. HeapHolds(pq, loop, jobs)' BY <1>1, <1>2, <1>3, <2>1 DEF HeapInv, HeapHolds, staying
  <2>3. HeapOrder(timesOf(pq), loop, Len(pq.array))' BY <1>2, <1>3, <2>1 DEF HeapOrder
  <2> QED BY <1>1, <1>2, <2>1, <2>2, <2>3 DEF HeapInv
<1>4. CASE loop.n = N - 1
  <2>1. pq' = dropLast(pq) BY <1>1, <1>4 DEF Finish
  <2>2. DropOf(pq', pq) BY <1>1, <2>1, DropsWell
  <2>3. WellFormed(pq') BY <2>2 DEF DropOf
  <2>4. DOMAIN pq'.entry = staying(pq, loop)
    BY <1>1, <1>4, <2>2 DEF DropOf, staying
  <2>5. HeapHolds(pq', loop', jobs')
    <3>1. jobs' = [id \in staying(pq, loop) |-> pq.entry[id].next] BY DEF HeapInv, HeapHolds
    <3>2. \A id \in DOMAIN pq'.entry : pq'.entry[id].next = pq.entry[id].next
      BY <2>2 DEF DropOf
    <3>3. staying(pq', loop') = DOMAIN pq'.entry BY <1>2 DEF staying
    <3> QED BY <2>4, <3>1, <3>2, <3>3 DEF HeapHolds
  <2>6. Ordered(timesOf(pq'), Len(pq'.array))
    <3>1. Len(pq'.array) = loop.n /\ loop.n - 1 = N - 2 BY <1>1, <1>4, <2>2 DEF DropOf
    <3>2. \A k \in 0..(loop.n - 1) : timesOf(pq')[k] = timesOf(pq)[k]
      BY <2>2, <3>1 DEF DropOf
    <3> QED BY <1>1, <3>1, <3>2, OrderedAlike
  <2>7. HeapOrder(timesOf(pq'), loop', Len(pq'.array)) BY <1>2, <2>6 DEF HeapOrder
  <2> QED BY <1>2, <2>3, <2>5, <2>7 DEF HeapInv
<1> QED BY <1>1, <1>3, <1>4

\* A swap of a loop among its first n positions.
LEMMA LoopSwaps ==
  ASSUME HeapInv, Looping(pq, loop), NEW i \in Nat, NEW j \in Nat, i < loop.n, j < loop.n,
         pq' = Swap(pq, i, j), NEW m \in {"down", "up"}, loop.mode = m, NEW p \in {i, j},
         loop' = [loop EXCEPT !.i = p], UNCHANGED jobs
  PROVE  /\ WellFormed(pq') /\ Looping(pq', loop') /\ HeapHolds(pq', loop', jobs')
         /\ Exchanged(timesOf(pq), timesOf(pq'), loop.n, i, j)
         /\ loop'.mode = m /\ loop'.n = loop.n /\ loop'.i = p /\ loop'.from = loop.from
<1> DEFINE N == Len(pq.array)
<1>1. /\ loop # AtRest /\ loop.n \in Nat /\ N \in Nat /\ N # 0 /\ loop.n <= N
      /\ loop.n = N \/ loop.n = N - 1
      /\ WellFormed(pq)
  BY LoopingIsBusy DEF HeapInv, Looping
<1>2. i \in 0..(N - 1) /\ j \in 0..(N - 1) BY <1>1
<1>3. SwapOf(pq', pq, i, j) BY <1>1, <1>2, SwapsWell
<1>4. WellFormed(pq') /\ Len(pq'.array) = N BY <1>3 DEF SwapOf
<1>5. /\ loop'.mode = m /\ loop'.n = loop.n /\ loop'.i = p /\ loop'.from = loop.from
      /\ loop' \in [mode : {"down", "up"}, i : Nat, from : Nat, n : Nat]
  BY DEF Looping
<1>6. Looping(pq', loop')
  <2>1. p < loop.n OBVIOUS
  <2> QED BY <1>1, <1>4, <1>5, <2>1 DEF Looping
<1>7. loop' # AtRest BY <1>4, <1>6, LoopingIsBusy
<1>8. staying(pq', loop') = staying(pq, loop)
  <2>1. DOMAIN pq'.entry = DOMAIN pq.entry BY <1>3 DEF SwapOf
  <2>2. CASE loop.n = N BY <1>1, <1>4, <1>5, <1>7, <2>1, <2>2 DEF staying
  <2>3. CASE loop.n = N - 1
    <3>1. N \in 1..N /\ N # i + 1 /\ N # j + 1 BY <1>1, <2>3
    <3>2. pq'.array[N] = pq.array[N] BY <1>3, <3>1 DEF SwapOf
    <3> QED BY <1>1, <1>4, <1>5, <1>7, <2>1, <2>3, <3>2 DEF staying
  <2> QED BY <1>1, <2>2, <2>3
<1>9. HeapHolds(pq', loop', jobs')
  <2>1. \A id \in staying(pq, loop) : pq'.entry[id].next = pq.entry[id].next
    BY <1>3 DEF SwapOf, staying
  <2>2. jobs' = [id \in staying(pq, loop) |-> pq.entry[id].next] BY DEF HeapInv, HeapHolds
  <2> QED BY <1>8, <2>1, <2>2 DEF HeapHolds
<1>10. Exchanged(timesOf(pq), timesOf(pq'), loop.n, i, j) BY <1>1, <1>2, <1>3, SwapsTimes
<1> QED BY <1>4, <1>5, <1>6, <1>9, <1>10

\* A step of the loop towards the leaves.
LEMMA DownKeeps ==
  ASSUME HeapInv, Looping(pq, loop), Down
  PROVE  HeapInv'
<1> DEFINE c == child(pq, loop.i, loop.n)
           T == timesOf(pq)
<1>1. /\ loop.mode = "down" /\ 2 * loop.i + 1 < loop.n /\ Less(pq, c, loop.i)
      /\ pq' = Swap(pq, loop.i, c) /\ loop' = [loop EXCEPT !.i = c] /\ UNCHANGED jobs
  BY DEF Down, sinks
<1>2. /\ WellFormed(pq) /\ loop.n \in Nat /\ loop.i \in Nat /\ loop.n <= Len(pq.array)
      /\ Len(pq.array) \in Nat
  BY LoopingIsBusy DEF HeapInv
<1>3. /\ c \in 1..(loop.n - 1) /\ parent(c) = loop.i
      /\ \A k \in 1..(loop.n - 1) : parent(k) = loop.i => inOrder(T[c], T[k])
  <2> HIDE DEF c, T
  <2> QED BY <1>1, <1>2, ChildIsEarlier DEF c, T
<1>4. Timed(T, loop.n) BY <1>2, TimesOf
<1> HIDE DEF c
<1>5. earlier(T[c], T[loop.i])
  <2>1. c \in 0..(Len(pq.array) - 1) /\ loop.i \in 0..(Len(pq.array) - 1) BY <1>1, <1>2, <1>3
  <2>2. Less(pq, c, loop.i) <=> earlier(T[c], T[loop.i])
    <3> HIDE DEF T
    <3> QED BY <1>2, <2>1, TimesOf DEF T
  <2> QED BY <1>1, <2>2
<1>6. DownOrdered(T, loop.n, loop.i, loop.i # loop.from) BY <1>1 DEF HeapInv, HeapOrder
<1>7. /\ WellFormed(pq') /\ Looping(pq', loop') /\ HeapHolds(pq', loop', jobs')
      /\ Exchanged(T, timesOf(pq'), loop.n, loop.i, c)
      /\ loop'.mode = "down" /\ loop'.n = loop.n /\ loop'.i = c /\ loop'.from = loop.from
  <2>1. c \in Nat /\ c < loop.n /\ loop.i < loop.n BY <1>1, <1>2, <1>3
  <2> QED BY <1>1, <1>2, <2>1, LoopSwaps
<1>8. DownOrdered(timesOf(pq'), loop.n, c, TRUE)
  <2>1. loop.i \in 0..(loop.n - 1) /\ (loop.i # loop.from) \in BOOLEAN BY <1>1, <1>2
  <2> HIDE DEF T
  <2> QED BY <1>2, <1>3, <1>4, <1>5, <1>6, <1>7, <2>1, DownSwaps
<1>9. DownOrdered(timesOf(pq'), loop.n, c, c # loop.from) BY <1>8 DEF DownOrdered
<1>10. HeapOrder(timesOf(pq'), loop', Len(pq'.array))
  <2>1. loop' # AtRest BY <1>7, LoopingIsBusy
  <2> QED BY <1>7, <1>9, <2>1 DEF HeapOrder
<1> QED BY <1>7, <1>10 DEF HeapInv

\* The loop towards the leaves ends.
LEMMA DownEndsKeeps ==
  ASSUME HeapInv, Looping(pq, loop), DownEnds
  PROVE  HeapInv'
<1> DEFINE T == timesOf(pq)
<1>1. /\ loop.mode = "down" /\ UNCHANGED jobs
      /\ ~(2 * loop.i + 1 < loop.n /\ Less(pq, child(pq, loop.i, loop.n), loop.i))
  BY DEF DownEnds, sinks
<1>2. /\ WellFormed(pq) /\ loop.n \in Nat /\ loop.i \in Nat /\ loop.n <= Len(pq.array)
      /\ loop.i < loop.n \/ (loop.i = 0 /\ loop.n <= 1)
  BY LoopingIsBusy DEF HeapInv
<1>3. DownOrdered(T, loop.n, loop.i, loop.i # loop.from) BY <1>1 DEF HeapInv, HeapOrder
<1>4. \A k \in 1..(loop.n - 1) : parent(k) = loop.i => inOrder(T[loop.i], T[k])
  <2>1. loop.i < loop.n \/ loop.n = 0 BY <1>2
  <2> HIDE DEF T
  <2> QED BY <1>1, <1>2, <2>1, SinksNot DEF T
<1>5. /\ UpOrdered(T, loop.n, loop.i)
      /\ loop.i # loop.from => Ordered(T, loop.n)
  <2>1. (loop.i # loop.from) \in BOOLEAN OBVIOUS
  <2> HIDE DEF T
  <2> QED BY <1>2, <1>3, <1>4, <2>1, DownStops
<1>6. CASE loop.i = loop.from
  <2>1. pq' = pq /\ loop' = [loop EXCEPT !.mode = "up"] BY <1>6 DEF DownEnds
  <2>2. /\ loop'.mode = "up" /\ loop'.n = loop.n /\ loop'.i = loop.i
        /\ loop' \in [mode : {"down", "up"}, i : Nat, from : Nat, n : Nat]
    BY <2>1 DEF Looping
  <2>3. Looping(pq', loop') BY <2>1, <2>2 DEF Looping
  <2>4. loop # AtRest /\ loop' # AtRest BY <1>2, <2>1, <2>3, LoopingIsBusy
  <2>5. HeapHolds(pq', loop', jobs')
    <3>1. staying(pq', loop') = staying(pq, loop) BY <2>1, <2>2, <2>4 DEF staying
    <3> QED BY <1>1, <2>1, <3>1 DEF HeapInv, HeapHolds
  <2>6. HeapOrder(timesOf(pq'), loop', Len(pq'.array))
    BY <1>5, <2>1, <2>2, <2>4 DEF HeapOrder
  <2> QED BY <1>2, <2>1, <2>3, <2>5, <2>6 DEF HeapInv
<1>7. CASE loop.i # loop.from
  <2>1. Finish BY <1>7 DEF DownEnds
  <2> QED BY <1>1, <1>5, <1>7, <2>1, FinishKeeps
<1> QED BY <1>6, <1>7

\* A step of the loop towards the root.
LEMMA UpKeeps ==
  ASSUME HeapInv, Looping(pq, loop), Up
  PROVE  HeapInv'
<1> DEFINE T == timesOf(pq)
           p == parent(loop.i)
<1>1. /\ loop.mode = "up" /\ loop.i # 0 /\ Less(pq, loop.i, p)
      /\ pq' = Swap(pq, p, loop.i) /\ loop' = [loop EXCEPT !.i = p] /\ UNCHANGED jobs
  BY DEF Up, rises
<1>2. /\ WellFormed(pq) /\ loop.n \in Nat /\ loop.i \in Nat /\ loop.n <= Len(pq.array)
      /\ Len(pq.array) \in Nat /\ loop.i < loop.n
  BY <1>1, LoopingIsBusy DEF HeapInv
<1>3. p \in Nat /\ p < loop.i BY <1>1, <1>2, Parents
<1> HIDE DEF p
<1>4. Timed(T, loop.n) BY <1>2, TimesOf
<1>5. earlier(T[loop.i], T[p])
  <2>1. p \in 0..(Len(pq.array) - 1) /\ loop.i \in 0..(Len(pq.array) - 1) BY <1>2, <1>3
  <2>2. Less(pq, loop.i, p) <=> earlier(T[loop.i], T[p])
    <3> HIDE DEF T
    <3> QED BY <1>2, <2>1, TimesOf DEF T
  <2> QED BY <1>1, <2>2
<1>6. UpOrdered(T, loop.n, loop.i) BY <1>1 DEF HeapInv, HeapOrder
<1>7. /\ WellFormed(pq') /\ Looping(pq', loop') /\ HeapHolds(pq', loop', jobs')
      /\ Exchanged(T, timesOf(pq'), loop.n, p, loop.i)
      /\ loop'.mode = "up" /\ loop'.n = loop.n /\ loop'.i = p
  <2>1. p < loop.n BY <1>2, <1>3
  <2> QED BY <1>1, <1>2, <1>3, <2>1, LoopSwaps
<1>8. UpOrdered(timesOf(pq'), loop.n, p)
  <2>1. loop.i \in 1..(loop.n - 1) BY <1>1, <1>2
  <2> HIDE DEF T
  <2> QED BY <1>2, <1>4, <1>5, <1>6, <1>7, <2>1, UpSwaps DEF p
<1>9. HeapOrder(timesOf(pq'), loop', Len(pq'.array))
  <2>1. loop' # AtRest BY <1>7, LoopingIsBusy
  <2> QED BY <1>7, <1>8, <2>1 DEF HeapOrder
<1> QED BY <1>7, <1>9 DEF HeapInv

\* The loop towards the root ends.
LEMMA UpEndsKeeps ==
  ASSUME HeapInv, Looping(pq, loop), UpEnds
  PROVE  HeapInv'
<1> DEFINE T == timesOf(pq)
<1>1. /\ loop.mode = "up" /\ UNCHANGED jobs /\ Finish
      /\ ~(loop.i # 0 /\ Less(pq, loop.i, parent(loop.i)))
  BY DEF UpEnds, rises
<1>2. /\ WellFormed(pq) /\ loop.n \in Nat /\ loop.i \in Nat /\ loop.n <= Len(pq.array)
      /\ Len(pq.array) \in Nat
  BY LoopingIsBusy DEF HeapInv
<1>3. UpOrdered(T, loop.n, loop.i) BY <1>1 DEF HeapInv, HeapOrder
<1>4. Timed(T, loop.n) BY <1>2, TimesOf
<1>5. ASSUME loop.i \in 1..(loop.n - 1) PROVE ~earlier(T[loop.i], T[parent(loop.i)])
  <2>1. loop.i \in Nat \ {0} BY <1>5
  <2>2. parent(loop.i) \in Nat /\ parent(loop.i) < loop.i BY <2>1, Parents
  <2>3. /\ loop.i \in 0..(Len(pq.array) - 1) /\ parent(loop.i) \in 0..(Len(pq.array) - 1)
        /\ loop.i # 0
    BY <1>2, <1>5, <2>2
  <2>4. Less(pq, loop.i, parent(loop.i)) <=> earlier(T[loop.i], T[parent(loop.i)])
    <3> HIDE DEF T
    <3> QED BY <1>2, <2>3, TimesOf DEF T
  <2> QED BY <1>1, <2>3, <2>4
<1>6. Ordered(T, loop.n)
  <2> HIDE DEF T
  <2> QED BY <1>2, <1>3, <1>4, <1>5, UpStops
<1> QED BY <1>1, <1>6, FinishKeeps


\* Pop and Remove put the entry that leaves, at i, behind the others, and the last in its place.
LEMMA TakingOutKeeps ==
  ASSUME HeapInv, loop = AtRest, NEW i \in Nat, NEW n \in Nat, n = Len(pq.array) - 1,
         i < n \/ (i = 0 /\ n = 0), pq' = Swap(pq, i, n), loop' = sift("down", i, n),
         jobs' = Restrict(jobs, DOMAIN jobs \ {pq.array[i + 1]})
  PROVE  HeapInv'
<1> DEFINE N == Len(pq.array)
           T == timesOf(pq)
<1>1. WellFormed(pq) /\ N \in Nat /\ N = n + 1 /\ Ordered(T, N)
  <2>1. WellFormed(pq) /\ Ordered(T, N) BY DEF HeapInv, HeapOrder
  <2>2. N \in Nat BY <2>1 DEF WellFormed
  <2> QED BY <2>1, <2>2
<1>2. i \in 0..(N - 1) /\ n \in 0..(N - 1) BY <1>1
<1>3. SwapOf(pq', pq, i, n) BY <1>1, <1>2, SwapsWell
<1>4. WellFormed(pq') /\ Len(pq'.array) = N BY <1>3 DEF SwapOf
<1>5. /\ loop'.mode = "down" /\ loop'.i = i /\ loop'.from = i /\ loop'.n = n
      /\ loop' \in [mode : {"down", "up"}, i : Nat, from : Nat, n : Nat]
  BY DEF sift
<1>6. Looping(pq', loop')
  <2>1. n = N - 1 /\ (i < n \/ (i = 0 /\ N = 1)) BY <1>1
  <2> QED BY <1>4, <1>5, <2>1 DEF Looping
<1>7. loop' # AtRest BY <1>4, <1>6, LoopingIsBusy
<1>8. HeapHolds(pq', loop', jobs')
  <2>1. DOMAIN pq'.entry = DOMAIN pq.entry
        /\ \A id \in DOMAIN pq.entry : pq'.entry[id].next = pq.entry[id].next
    BY <1>3 DEF SwapOf
  <2>2. pq'.array[N] = pq.array[i + 1] BY <1>1, <1>3 DEF SwapOf
  <2>3. n # N BY <1>1
  <2>4. staying(pq', loop') = DOMAIN pq.entry \ {pq.array[i + 1]}
    BY <1>4, <1>5, <1>7, <2>1, <2>2, <2>3 DEF staying
  <2>5. jobs = [id \in DOMAIN pq.entry |-> pq.entry[id].next]
    BY DEF HeapInv, HeapHolds, staying
  <2>6. jobs' = [id \in DOMAIN jobs \ {pq.array[i + 1]} |-> jobs[id]] BY DEF Restrict
  <2>7. DOMAIN jobs = DOMAIN pq.entry /\ \A id \in DOMAIN pq.entry : jobs[id] = pq.entry[id].next
    BY <2>5
  <2>8. jobs' = [id \in DOMAIN pq.entry \ {pq.array[i + 1]} |-> pq'.entry[id].next]
    BY <2>1, <2>6, <2>7
  <2> QED BY <2>4, <2>8 DEF HeapHolds
<1>9. DownOrdered(timesOf(pq'), n, i, FALSE)
  <2>1. Ordered(T, n) BY <1>1 DEF Ordered
  <2>2. Timed(T, n) BY <1>1, TimesOf
  <2>3. Exchanged(T, timesOf(pq'), N, i, n) BY <1>1, <1>2, <1>3, SwapsTimes
  <2>4. \A k \in 0..(n - 1) : k # i => timesOf(pq')[k] = T[k]
    <3>1. \A k \in 0..(n - 1) : k \in 0..(N - 1) /\ k # n BY <1>1
    <3> HIDE DEF T
    <3> QED BY <2>3, <3>1 DEF Exchanged
  <2> HIDE DEF T
  <2> QED BY <2>1, <2>2, <2>4, ChangeAt
<1>10. HeapOrder(timesOf(pq'), loop', Len(pq'.array))
  <2>1. DownOrdered(timesOf(pq'), n, i, i # i) BY <1>9
  <2> QED BY <1>5, <1>7, <2>1 DEF HeapOrder
<1> QED BY <1>4, <1>6, <1>8, <1>10 DEF HeapInv

\* Pop.
LEMMA PopKeeps ==
  ASSUME HeapInv, HeapPop
  PROVE  HeapInv'
<1>1. Len(pq.array) \in Nat BY DEF HeapInv, WellFormed
<1> DEFINE n == Len(pq.array) - 1
<1>2. /\ loop = AtRest /\ Len(pq.array) > 0 /\ pq' = Swap(pq, 0, n) /\ loop' = sift("down", 0, n)
      /\ jobs' = Restrict(jobs, DOMAIN jobs \ {pq.array[0 + 1]})
  BY DEF HeapPop, Peek
<1>3. Len(pq.array) > 0 BY <1>2
<1>4. n \in Nat /\ n = Len(pq.array) - 1 BY <1>1, <1>3
<1> HIDE DEF n
<1>5. n = 0 \/ 0 < n
  <2>1. \A m \in Nat : m = 0 \/ 0 < m OBVIOUS
  <2> QED BY <1>4, <2>1, Zenon
<1> QED BY <1>2, <1>4, <1>5, TakingOutKeeps

\* Remove, of the last entry or another.
LEMMA RemoveKeeps ==
  ASSUME HeapInv, NEW id \in Ids, HeapRemove(id)
  PROVE  HeapInv'
<1> DEFINE n == Len(pq.array) - 1
           i == pq.entry[id].index
<1>1. /\ loop = AtRest /\ id \in DOMAIN pq.entry
      /\ jobs' = Restrict(jobs, DOMAIN jobs \ {id})
  BY DEF HeapRemove, Contains
<1>2. WellFormed(pq) /\ Ordered(timesOf(pq), Len(pq.array)) BY <1>1 DEF HeapInv, HeapOrder
<1>3. /\ Len(pq.array) \in Nat /\ i \in Nat /\ i + 1 \in 1..Len(pq.array)
      /\ pq.array[i + 1] = id
  <2>1. pq.entry[id] \in [next : Nat, index : Nat] BY <1>1, <1>2 DEF WellFormed
  <2> QED BY <1>1, <1>2, <2>1 DEF WellFormed, Placed
<1>4. n \in Nat /\ i <= n /\ n = Len(pq.array) - 1 BY <1>3
<1>5. CASE n = i
  <2>1. pq' = dropLast(pq) /\ loop' = loop BY <1>5 DEF HeapRemove
  <2>2. Len(pq.array) # 0 /\ pq.array[Len(pq.array)] = id BY <1>3, <1>4, <1>5
  <2>3. DropOf(pq', pq) BY <1>2, <2>1, <2>2, DropsWell
  <2>4. WellFormed(pq') BY <2>3 DEF DropOf
  <2>5. HeapHolds(pq', loop', jobs')
    <3>1. /\ DOMAIN pq'.entry = DOMAIN pq.entry \ {id}
          /\ \A x \in DOMAIN pq'.entry : pq'.entry[x].next = pq.entry[x].next
      BY <2>2, <2>3 DEF DropOf
    <3>2. jobs = [x \in DOMAIN pq.entry |-> pq.entry[x].next]
      BY <1>1 DEF HeapInv, HeapHolds, staying
    <3>3. jobs' = [x \in DOMAIN jobs \ {id} |-> jobs[x]] BY <1>1 DEF Restrict
    <3>4. DOMAIN jobs = DOMAIN pq.entry /\ \A x \in DOMAIN pq.entry : jobs[x] = pq.entry[x].next
      BY <3>2
    <3>5. jobs' = [x \in DOMAIN pq'.entry |-> pq'.entry[x].next] BY <3>1, <3>3, <3>4
    <3> QED BY <1>1, <2>1, <3>5 DEF HeapHolds, staying
  <2>6. Ordered(timesOf(pq'), Len(pq'.array))
    <3> DEFINE T == timesOf(pq)
               U == timesOf(pq')
    <3>1. Len(pq'.array) = n /\ n - 1 = Len(pq.array) - 2 BY <1>3, <2>3 DEF DropOf
    <3>2. \A k \in 0..(n - 1) : U[k] = T[k] BY <2>3, <3>1 DEF DropOf
    <3>3. Ordered(T, n) BY <1>2, <1>3 DEF Ordered
    <3> HIDE DEF n, T, U
    <3>4. Ordered(U, n) BY <1>4, <3>2, <3>3, OrderedAlike
    <3> QED BY <3>1, <3>4 DEF U
  <2>7. HeapOrder(timesOf(pq'), loop', Len(pq'.array))
    <3>1. AtRest.mode = "idle" BY DEF AtRest
    <3> QED BY <1>1, <2>1, <2>6, <3>1 DEF HeapOrder
  <2> QED BY <1>1, <2>1, <2>4, <2>5, <2>7 DEF HeapInv
<1>6. CASE n # i
  <2>1. pq' = Swap(pq, i, n) /\ loop' = sift("down", i, n) BY <1>6 DEF HeapRemove
  <2>2. i < n BY <1>3, <1>4, <1>6
  <2>3. jobs' = Restrict(jobs, DOMAIN jobs \ {pq.array[i + 1]}) BY <1>1, <1>3
  <2> HIDE DEF n, i
  <2> QED BY <1>1, <1>3, <1>4, <2>1, <2>2, <2>3, TakingOutKeeps
<1> QED BY <1>5, <1>6

\* Push.
LEMMA PushKeeps ==
  ASSUME HeapInv, NEW id \in Ids, NEW next \in HeapTimes, HeapPush(id, next)
  PROVE  HeapInv'
<1> DEFINE N == Len(pq.array)
<1>1. /\ loop = AtRest /\ id \notin DOMAIN pq.entry
      /\ pq' = [array |-> Append(pq.array, id),
                entry |-> put(pq.entry, id, [next |-> next, index |-> N])]
      /\ loop' = sift("up", N, N + 1)
      /\ jobs' = put(jobs, id, next)
  BY DEF HeapPush, Contains
<1>2. next \in Nat BY TimesAssumption
<1>3. WellFormed(pq) /\ Ordered(timesOf(pq), N) /\ N \in Nat
  BY <1>1 DEF HeapInv, HeapOrder, WellFormed
<1>4. /\ WellFormed(pq') /\ Len(pq'.array) = N + 1
      /\ DOMAIN pq'.entry = DOMAIN pq.entry \cup {id} /\ pq'.entry[id].next = next
      /\ \A x \in DOMAIN pq.entry : pq'.entry[x].next = pq.entry[x].next
      /\ \A k \in 0..(N - 1) : timesOf(pq')[k] = timesOf(pq)[k]
  <2>1. PushOf(pq', pq, id, next) BY <1>1, <1>2, <1>3, PushesWell
  <2> QED BY <2>1 DEF PushOf
<1>5. /\ loop'.mode = "up" /\ loop'.i = N /\ loop'.n = N + 1
      /\ loop' \in [mode : {"down", "up"}, i : Nat, from : Nat, n : Nat]
  BY <1>1, <1>3 DEF sift
<1>6. Looping(pq', loop')
  <2>1. N < N + 1 BY <1>3
  <2> QED BY <1>4, <1>5, <2>1 DEF Looping
<1>7. loop' # AtRest BY <1>4, <1>6, LoopingIsBusy
<1>8. HeapHolds(pq', loop', jobs')
  <2>1. staying(pq', loop') = DOMAIN pq'.entry BY <1>4, <1>5, <1>7 DEF staying
  <2>2. jobs = [x \in DOMAIN pq.entry |-> pq.entry[x].next]
    BY <1>1 DEF HeapInv, HeapHolds, staying
  <2>3. DOMAIN jobs = DOMAIN pq.entry /\ \A x \in DOMAIN pq.entry : jobs[x] = pq.entry[x].next
    BY <2>2
  <2>4. jobs' = [x \in DOMAIN jobs \cup {id} |-> IF x = id THEN next ELSE jobs[x]]
    BY <1>1 DEF put
  <2>5. jobs' = [x \in DOMAIN pq'.entry |-> pq'.entry[x].next]
    BY <1>1, <1>4, <2>3, <2>4
  <2> QED BY <2>1, <2>5 DEF HeapHolds
<1>9. UpOrdered(timesOf(pq'), N + 1, N)
  <2> HIDE DEF N
  <2> QED BY <1>3, <1>4, LastAdded
<1>10. HeapOrder(timesOf(pq'), loop', Len(pq'.array)) BY <1>5, <1>7, <1>9 DEF HeapOrder
<1> QED BY <1>4, <1>6, <1>8, <1>10 DEF HeapInv

\* Update.
LEMMA UpdateKeeps ==
  ASSUME HeapInv, NEW id \in Ids, NEW next \in HeapTimes, HeapUpdate(id, next)
  PROVE  HeapInv'
<1> DEFINE N == Len(pq.array)
           i == pq.entry[id].index
<1>1. /\ loop = AtRest /\ id \in DOMAIN pq.entry
      /\ pq' = [pq EXCEPT !.entry[id].next = next]
      /\ loop' = sift("down", i, N)
      /\ jobs' = [jobs EXCEPT ![id] = next]
  BY DEF HeapUpdate, Contains
<1>2. next \in Nat BY TimesAssumption
<1>3. WellFormed(pq) /\ Ordered(timesOf(pq), N) /\ N \in Nat
  BY <1>1 DEF HeapInv, HeapOrder, WellFormed
<1>4. i \in Nat /\ i < N
  <2>1. pq.entry[id] \in [next : Nat, index : Nat] BY <1>1, <1>3 DEF WellFormed
  <2>2. i + 1 \in 1..N BY <1>1, <1>3 DEF WellFormed, Placed
  <2> QED BY <1>3, <2>1, <2>2
<1>5. /\ WellFormed(pq') /\ pq'.array = pq.array
      /\ DOMAIN pq'.entry = DOMAIN pq.entry /\ pq'.entry[id].next = next
      /\ \A x \in DOMAIN pq.entry : x # id => pq'.entry[x].next = pq.entry[x].next
      /\ \A k \in 0..(N - 1) : k # i => timesOf(pq')[k] = timesOf(pq)[k]
  <2>1. UpdateOf(pq', pq, id, next) BY <1>1, <1>2, <1>3, UpdatesWell
  <2> QED BY <2>1 DEF UpdateOf
<1>6. /\ loop'.mode = "down" /\ loop'.i = i /\ loop'.from = i /\ loop'.n = N
      /\ loop' \in [mode : {"down", "up"}, i : Nat, from : Nat, n : Nat]
  BY <1>1, <1>3, <1>4 DEF sift
<1>7. Looping(pq', loop') BY <1>4, <1>5, <1>6 DEF Looping
<1>8. loop' # AtRest BY <1>5, <1>7, LoopingIsBusy
<1>9. HeapHolds(pq', loop', jobs')
  <2>1. staying(pq', loop') = DOMAIN pq'.entry BY <1>5, <1>6, <1>8 DEF staying
  <2>2. jobs = [x \in DOMAIN pq.entry |-> pq.entry[x].next]
    BY <1>1 DEF HeapInv, HeapHolds, staying
  <2>3. DOMAIN jobs = DOMAIN pq.entry /\ \A x \in DOMAIN pq.entry : jobs[x] = pq.entry[x].next
    BY <2>2
  <2>4. jobs' = [x \in DOMAIN pq.entry |-> IF x = id THEN next ELSE jobs[x]]
    BY <1>1, <2>2, <2>3
  <2>5. jobs' = [x \in DOMAIN pq'.entry |-> pq'.entry[x].next] BY <1>5, <2>3, <2>4
  <2> QED BY <2>1, <2>5 DEF HeapHolds
<1>10. DownOrdered(timesOf(pq'), N, i, FALSE)
  <2>1. Timed(timesOf(pq), N) BY <1>3, TimesOf
  <2> HIDE DEF N, i
  <2> QED BY <1>3, <1>4, <1>5, <2>1, ChangeAt
<1>11. HeapOrder(timesOf(pq'), loop', Len(pq'.array))
  <2>1. DownOrdered(timesOf(pq'), N, i, i # i) BY <1>10
  <2> QED BY <1>6, <1>8, <2>1 DEF HeapOrder
<1> QED BY <1>5, <1>7, <1>9, <1>11 DEF HeapInv

\* HeapInv is an inductive invariant.
LEMMA HeapInvariance == HeapSpec => []HeapInv
<1>1. HeapInit => HeapInv
  <2> SUFFICES ASSUME HeapInit PROVE HeapInv OBVIOUS
  <2>1. pq.array = <<>> /\ pq.entry = <<>> /\ loop = AtRest /\ jobs = <<>>
        /\ pq = [array |-> pq.array, entry |-> pq.entry]
    BY DEF HeapInit
  <2>2. DOMAIN pq.entry = {} /\ Len(pq.array) = 0 /\ pq.array \in Seq(Ids) BY <2>1
  <2>3. WellFormed(pq)
    <3>1. pq.entry \in [{} -> [next : Nat, index : Nat]] BY <2>1
    <3> QED BY <2>1, <2>2, <3>1 DEF WellFormed, Placed
  <2>4. HeapHolds(pq, loop, jobs)
    <3>1. jobs = [id \in {} |-> pq.entry[id].next] BY <2>1
    <3> QED BY <2>1, <2>2, <3>1 DEF HeapHolds, staying
  <2>5. HeapOrder(timesOf(pq), loop, Len(pq.array))
    BY <2>1, <2>2 DEF HeapOrder, Ordered, AtRest
  <2> QED BY <2>1, <2>3, <2>4, <2>5 DEF HeapInv
<1>2. ASSUME HeapInv, [HeapNext]_heapVars PROVE HeapInv'
  <2>1. CASE UNCHANGED heapVars
    BY <1>2, <2>1 DEF heapVars, HeapInv, HeapHolds, HeapOrder, WellFormed, Placed, timesOf,
      timeAt, Looping, staying
  <2>2. CASE HeapPop BY <1>2, <2>2, PopKeeps
  <2>3. ASSUME NEW id \in Ids, HeapRemove(id) PROVE HeapInv' BY <1>2, <2>3, RemoveKeeps
  <2>4. ASSUME NEW id \in Ids, NEW next \in HeapTimes, HeapPush(id, next) PROVE HeapInv'
    BY <1>2, <2>4, PushKeeps
  <2>5. ASSUME NEW id \in Ids, NEW next \in HeapTimes, HeapUpdate(id, next) PROVE HeapInv'
    BY <1>2, <2>5, UpdateKeeps
  <2>6. ASSUME Down \/ DownEnds \/ Up \/ UpEnds PROVE Looping(pq, loop)
    <3>1. loop.mode # "idle" BY <2>6 DEF Down, DownEnds, Up, UpEnds
    <3>2. loop # AtRest BY <3>1 DEF AtRest
    <3> QED BY <1>2, <3>2 DEF HeapInv
  <2>7. CASE Down BY <1>2, <2>6, <2>7, DownKeeps
  <2>8. CASE DownEnds BY <1>2, <2>6, <2>8, DownEndsKeeps
  <2>9. CASE Up BY <1>2, <2>6, <2>9, UpKeeps
  <2>10. CASE UpEnds BY <1>2, <2>6, <2>10, UpEndsKeeps
  <2> QED BY <1>2, <2>1, <2>2, <2>3, <2>4, <2>5, <2>7, <2>8, <2>9, <2>10 DEF HeapNext
<1> QED BY <1>1, <1>2, PTL DEF HeapSpec

\* Between operations the heap and its index hold exactly the jobs that were put there and not
\* taken out, with their times and at their positions, and what Peek returns is due no later
\* than any other: for every set of jobs, however the operations follow each other.
THEOREM HeapServes == HeapSpec => []HeapServesEarliest
<1>1. ASSUME HeapInv PROVE HeapServesEarliest
  <2> SUFFICES ASSUME loop = AtRest
               PROVE  /\ DOMAIN pq.entry = DOMAIN jobs
                      /\ \A k \in DOMAIN pq.array : /\ pq.array[k] \in DOMAIN jobs
                                                    /\ pq.entry[pq.array[k]].index = k - 1
                      /\ \A id \in DOMAIN jobs :
                           /\ pq.entry[id].next = jobs[id]
                           /\ pq.entry[id].index + 1 \in DOMAIN pq.array
                           /\ pq.array[pq.entry[id].index + 1] = id
                           /\ inOrder(jobs[Peek(pq)], jobs[id])
    BY DEF HeapServesEarliest
  <2> DEFINE N == Len(pq.array)
             T == timesOf(pq)
  <2>1. WellFormed(pq) /\ Ordered(T, N) BY <1>1 DEF HeapInv, HeapOrder
  <2>2. N \in Nat /\ DOMAIN pq.array = 1..N /\ Timed(T, N)
    <3>1. N \in Nat BY <2>1 DEF WellFormed
    <3> QED BY <2>1, <3>1, TimesOf
  <2>3. /\ DOMAIN jobs = DOMAIN pq.entry
        /\ \A id \in DOMAIN pq.entry : jobs[id] = pq.entry[id].next
    BY <1>1 DEF HeapInv, HeapHolds, staying
  <2>4. ASSUME NEW id \in DOMAIN pq.entry
        PROVE  /\ pq.entry[id].index + 1 \in 1..N /\ pq.entry[id].index \in Nat
               /\ pq.array[pq.entry[id].index + 1] = id
    <3>1. pq.entry[id] \in [next : Nat, index : Nat] BY <2>1 DEF WellFormed
    <3> QED BY <2>1, <3>1 DEF WellFormed, Placed
  <2>5. ASSUME NEW k \in 0..(N - 1) PROVE T[k] = jobs[pq.array[k + 1]]
    <3>1. k + 1 \in 1..N BY <2>2
    <3>2. pq.array[k + 1] \in DOMAIN pq.entry BY <2>1, <3>1 DEF WellFormed, Placed
    <3> QED BY <2>3, <3>2 DEF timesOf, timeAt
  <2>6. ASSUME NEW id \in DOMAIN pq.entry PROVE inOrder(jobs[Peek(pq)], jobs[id])
    <3> DEFINE k == pq.entry[id].index
    <3>1. k \in 0..(N - 1) /\ 0 \in 0..(N - 1) /\ pq.array[k + 1] = id BY <2>2, <2>4
    <3> HIDE DEF T, N
    <3>2. inOrder(T[0], T[k]) BY <2>1, <2>2, <3>1, RootIsEarliest
    <3>3. T[0] = jobs[pq.array[0 + 1]] /\ T[k] = jobs[pq.array[k + 1]] BY <2>5, <3>1
    <3> QED BY <3>1, <3>2, <3>3 DEF Peek
  <2> QED BY <2>1, <2>2, <2>3, <2>4, <2>6 DEF WellFormed, Placed
<1>2. HeapInv => HeapServesEarliest BY <1>1
<1> QED BY <1>2, HeapInvariance, PTL
=============================================================================
