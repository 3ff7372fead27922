------------------------------ MODULE BusyList ------------------------------
(***************************************************************************)
(* What the dispatcher of periodic.go promises to the server that keeps    *)
(* its busy nodes in it: which jobs may appear on Events(), and when.      *)
(* Dispatcher implements it, and Server is written against it.             *)
(***************************************************************************)
EXTENDS Integers, Sequences

CONSTANTS Jobs,
          JobCap    \* capacity of eventCh (10 in NewDispatcher)

VARIABLES tracked,  \* the jobs that Contains reports
          due,      \* the jobs that run() goroutines hold a snapshot of
          events    \* the jobs in eventCh, oldest first

Init == tracked = {} /\ due = {} /\ events = <<>>

Add(j) ==
  /\ tracked' = tracked \cup {j}
  /\ UNCHANGED <<due, events>>

Remove(j) ==
  /\ tracked' = tracked \ {j}
  /\ UNCHANGED <<due, events>>

\* nextLaunch takes a snapshot of a tracked job; older ones are kept or given up.
Schedule ==
  /\ due' \in SUBSET (due \cup tracked)
  /\ UNCHANGED <<tracked, events>>

\* dispatch works on a snapshot: the job may have been removed since.
Launch(j) ==
  /\ j \in due
  /\ due' \in SUBSET due
  /\ events' = IF Len(events) < JobCap THEN Append(events, j) ELSE events
  /\ UNCHANGED tracked

Receive ==
  /\ events # <<>>
  /\ events' = Tail(events)
  /\ UNCHANGED <<tracked, due>>

Next == Schedule \/ Receive \/ \E j \in Jobs : Add(j) \/ Remove(j) \/ Launch(j)

Spec == Init /\ [][Next]_<<tracked, due, events>>
=============================================================================
