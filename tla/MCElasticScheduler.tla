-------------------------- MODULE MCElasticScheduler --------------------------
(***************************************************************************)
(* The scheduler on a small instance, with a history variable: for each    *)
(* task that is waiting for a replacement worker, the tasks that           *)
(* next_assignment refilled in the meantime.                               *)
(***************************************************************************)
EXTENDS ElasticScheduler

VARIABLE passed

\* Waiting: open, its initial quota spent, and not one worker left.
Starved(t) == /\ t \in Underfilled \ PendingInitial
              /\ active_by_task[t] = {}

MCInit == Init /\ passed = [t \in Tasks |-> {}]

MCNext ==
  /\ Next
  /\ passed' = [t \in Tasks |->
       IF ~Starved(t) \/ active_by_task'[t] # {} \/ known' # known THEN {}
       ELSE passed[t] \cup {u \in Tasks : NextRefill(u)}]

MCSpec == MCInit /\ [][MCNext]_<<vars, passed>>

\* next_assignment scans for underfilled tasks from a cursor that moves past
\* each one it serves: while a task waits for its replacement worker, no other
\* task is refilled twice, whatever policy calls, reservations and retirements
\* happen in between.
NoOvertaking ==
  [][\A t, u \in Tasks :
       (Starved(t) /\ t # u /\ known' = known /\ NextRefill(u)) => u \notin passed[t]]_<<vars, passed>>
================================================================================
