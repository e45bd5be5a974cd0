--------------------------- MODULE ElasticScheduler ---------------------------
(***************************************************************************)
(* contextswarm_mini/elastic_scheduler.py: the slot scheduler the CPS      *)
(* runner claims solver leases from.  Every public method runs under one   *)
(* lock, so one method is one action; a call that returns None or False    *)
(* without a state change is no step.                                      *)
(*                                                                         *)
(* Tasks are numbered in the order of the _tasks dictionary.  A lease is   *)
(* the pair <<task, generation>> that agent_id spells.  A reservation with *)
(* n remaining slots is the n tokens <<reservation_id, 1>> .. <<.., n>>.   *)
(* The clock is abstracted to whether the horizon has been reached.        *)
(***************************************************************************)
EXTENDS Integers, FiniteSets

CONSTANTS MaxTasks,          \* bound: tasks that are ever added
          MaxParallel,       \* max_parallel
          InitialCounts,     \* the values initial_agents may be given
          MaxGeneration,     \* bound: leases ever given to one task
          MaxReservations    \* bound: reservations ever acquired

ASSUME SchedulerAssumption ==
  /\ MaxTasks \in Nat \ {0} /\ MaxParallel \in Nat \ {0}
  /\ InitialCounts \subseteq Nat /\ InitialCounts # {}
  /\ MaxGeneration \in Nat /\ MaxReservations \in Nat

Tasks == 1 .. MaxTasks
Leases == Tasks \X (1 .. MaxGeneration)
Tokens == (1 .. MaxReservations) \X (1 .. MaxParallel)
TaskOf(l) == l[1]
Policies == {"least_active", "round_robin"}

VARIABLES
  assignment_policy,      \* constructor argument
  known,                  \* how many tasks have been added: _tasks is 1..known
  solved, retired,        \* _TaskState.solved; retired_reason is not None
  initial_agents, initial_admitted, next_generation,
  active,                 \* _active
  active_by_task,         \* _active_by_task
  reserved,               \* _reservations, as tokens
  next_reservation_id, cursor, initial_cursor,
  expired                 \* horizon_reached

taskVars == <<known, solved, retired, initial_agents>>
cursors == <<cursor, initial_cursor>>
slotVars == <<reserved, next_reservation_id>>
vars == <<assignment_policy, known, solved, retired, initial_agents,
          initial_admitted, next_generation, active, active_by_task, reserved,
          next_reservation_id, cursor, initial_cursor, expired>>

Known == 1 .. known
Eligible == {t \in Known : ~solved[t] /\ ~retired[t]}
Occupied == Cardinality(active) + Cardinality(reserved)
TokensOf(r) == {k \in reserved : k[1] = r}

PendingInitial == {t \in Eligible : initial_admitted[t] < initial_agents[t]}
Underfilled == {t \in Eligible : Cardinality(active_by_task[t]) < initial_agents[t]}

Done ==
  /\ active = {} /\ reserved = {}
  /\ Eligible = {} \/ expired

Init ==
  /\ assignment_policy \in Policies
  /\ known \in 0 .. MaxTasks
  /\ initial_agents \in [Tasks -> InitialCounts]
  /\ solved = [t \in Tasks |-> FALSE]
  /\ retired = [t \in Tasks |-> FALSE]
  /\ initial_admitted = [t \in Tasks |-> 0]
  /\ next_generation = [t \in Tasks |-> 1]
  /\ active = {}
  /\ active_by_task = [t \in Tasks |-> {}]
  /\ reserved = {}
  /\ next_reservation_id = 1
  /\ cursor = 0 /\ initial_cursor = 0
  /\ expired = FALSE
--------------------------------------------------------------------------------
\* _admit_locked: the next generation of t becomes an active lease.
Admit(t) ==
  LET lease == <<t, next_generation[t]>> IN
  /\ next_generation[t] <= MaxGeneration
  /\ next_generation' = [next_generation EXCEPT ![t] = @ + 1]
  /\ initial_admitted' = [initial_admitted EXCEPT ![t] =
                            IF @ < initial_agents[t] THEN @ + 1 ELSE @]
  /\ active' = active \cup {lease}
  /\ active_by_task' = [active_by_task EXCEPT ![t] = @ \cup {lease}]
  /\ UNCHANGED <<assignment_policy, taskVars, expired>>

\* How far task t lies ahead of a cursor over the task list.
Ahead(c, t) == (t - 1 - c) % known

\* The first task of S met when scanning the task list from cursor c.
IsFirst(c, S, t) == t \in S /\ \A u \in S : Ahead(c, t) <= Ahead(c, u)

MayAdmit == ~expired /\ Occupied < MaxParallel

\* next_assignment, first loop of _select_task: a task short of its initial quota.
NextInitial(t) ==
  /\ MayAdmit
  /\ IsFirst(initial_cursor, PendingInitial, t)
  /\ initial_cursor' = t % known
  /\ Admit(t)
  /\ UNCHANGED <<cursor, slotVars>>

\* Faulty variant of NextRefill: the cursor stays where it is.
NextRefillInPlace(t) ==
  /\ MayAdmit /\ PendingInitial = {}
  /\ IsFirst(cursor, Underfilled, t)
  /\ Admit(t)
  /\ UNCHANGED <<cursors, slotVars>>

\* Second loop: a task that has fewer workers now than its initial quota.
NextRefill(t) ==
  /\ MayAdmit /\ PendingInitial = {}
  /\ IsFirst(cursor, Underfilled, t)
  /\ cursor' = t % known
  /\ Admit(t)
  /\ UNCHANGED <<initial_cursor, slotVars>>

\* The order of the least_active key (active agents, generation, distance).
Precedes(t, u) ==
  LET at == Cardinality(active_by_task[t])
      au == Cardinality(active_by_task[u])
  IN \/ at < au
     \/ at = au /\ next_generation[t] < next_generation[u]
     \/ at = au /\ next_generation[t] = next_generation[u]
                /\ Ahead(cursor, t) < Ahead(cursor, u)

NextLeastActive(t) ==
  /\ MayAdmit /\ PendingInitial = {} /\ Underfilled = {}
  /\ assignment_policy = "least_active"
  /\ t \in Eligible /\ \A u \in Eligible \ {t} : Precedes(t, u)
  /\ cursor' = t % known
  /\ Admit(t)
  /\ UNCHANGED <<initial_cursor, slotVars>>

\* round_robin: here the cursor indexes the list of eligible tasks.
NextRoundRobin(t) ==
  LET n == Cardinality(Eligible) IN
  /\ MayAdmit /\ PendingInitial = {} /\ Underfilled = {}
  /\ assignment_policy = "round_robin"
  /\ t \in Eligible /\ Cardinality({u \in Eligible : u < t}) = cursor % n
  /\ cursor' = ((cursor % n) + 1) % n
  /\ Admit(t)
  /\ UNCHANGED <<initial_cursor, slotVars>>

NextAssignment(t) ==
  NextInitial(t) \/ NextRefill(t) \/ NextLeastActive(t) \/ NextRoundRobin(t)

\* next_assignment_for: the caller chose the task.
NextAssignmentFor(t) ==
  /\ MayAdmit /\ t \in Eligible
  /\ Admit(t)
  /\ UNCHANGED <<cursors, slotVars>>

AcquireReservation(n) ==
  /\ ~expired /\ Occupied + n <= MaxParallel
  /\ next_reservation_id <= MaxReservations
  /\ reserved' = reserved \cup ({next_reservation_id} \X (1 .. n))
  /\ next_reservation_id' = next_reservation_id + 1
  /\ UNCHANGED <<assignment_policy, taskVars, initial_admitted, next_generation,
                 active, active_by_task, cursors, expired>>

ReleaseReservation(r) ==
  /\ TokensOf(r) # {}
  /\ reserved' = reserved \ TokensOf(r)
  /\ UNCHANGED <<assignment_policy, taskVars, initial_admitted, next_generation,
                 active, active_by_task, next_reservation_id, cursors, expired>>

\* Faulty variants of AdmitReserved: the task may have been closed since the
\* reservation was made; the wrong slot is taken from the reservation.
AdmitReservedClosed(r, t) ==
  /\ TokensOf(r) # {}
  /\ ~expired /\ t \in Known
  /\ reserved' = reserved \ {<<r, Cardinality(TokensOf(r))>>}
  /\ Admit(t)
  /\ UNCHANGED <<next_reservation_id, cursors>>

\* admit_reserved: one slot of the reservation becomes a lease.  There is no
\* capacity test, and a refused admission leaves the reservation held.
AdmitReserved(r, t) ==
  /\ TokensOf(r) # {}
  /\ ~expired /\ t \in Eligible
  /\ reserved' = reserved \ {<<r, Cardinality(TokensOf(r))>>}
  /\ Admit(t)
  /\ UNCHANGED <<next_reservation_id, cursors>>
--------------------------------------------------------------------------------
\* _solve_locked and _retire_locked.
Solve(t) ==
  /\ solved' = [solved EXCEPT ![t] = TRUE]
  /\ retired' = [retired EXCEPT ![t] = IF solved[t] THEN @ ELSE FALSE]
Retire(t) ==
  /\ retired' = [retired EXCEPT ![t] = @ \/ ~solved[t]]
  /\ UNCHANGED solved

Outcomes == {"released", "solved", "retired"}

Finish(l, outcome) ==
  /\ l \in active
  /\ active' = active \ {l}
  /\ active_by_task' = [active_by_task EXCEPT ![l[1]] = @ \ {l}]
  /\ \/ outcome = "released" /\ UNCHANGED <<solved, retired>>
     \/ outcome = "solved" /\ Solve(l[1])
     \/ outcome = "retired" /\ Retire(l[1])
  /\ UNCHANGED <<assignment_policy, known, initial_agents, initial_admitted,
                 next_generation, slotVars, cursors, expired>>

TaskSolved(t) ==
  /\ t \in Known /\ ~solved[t]
  /\ Solve(t)
  /\ UNCHANGED <<assignment_policy, known, initial_agents, initial_admitted,
                 next_generation, active, active_by_task, slotVars, cursors, expired>>

RetireTask(t) ==
  /\ t \in Eligible
  /\ Retire(t)
  /\ UNCHANGED <<assignment_policy, known, initial_agents, initial_admitted,
                 next_generation, active, active_by_task, slotVars, cursors, expired>>

\* cancel_task: the caller has stopped the workers, so their leases go away.
CancelTask(t) ==
  /\ t \in Known /\ active_by_task[t] # {}
  /\ active' = active \ active_by_task[t]
  /\ active_by_task' = [active_by_task EXCEPT ![t] = {}]
  /\ UNCHANGED <<assignment_policy, taskVars, initial_admitted, next_generation,
                 slotVars, cursors, expired>>

AddTask ==
  /\ known < MaxTasks
  /\ known' = known + 1
  /\ UNCHANGED <<assignment_policy, solved, retired, initial_agents,
                 initial_admitted, next_generation, active, active_by_task,
                 slotVars, cursors, expired>>

\* The monotonic clock passes the horizon, once.
HorizonPasses ==
  /\ ~expired
  /\ expired' = TRUE
  /\ UNCHANGED <<assignment_policy, taskVars, initial_admitted, next_generation,
                 active, active_by_task, slotVars, cursors>>

Next ==
  \/ \E t \in Tasks : NextAssignment(t)
  \/ \E t \in Tasks : NextAssignmentFor(t)
  \/ \E n \in 1 .. MaxParallel : AcquireReservation(n)
  \/ \E r \in 1 .. MaxReservations : ReleaseReservation(r)
  \/ \E r \in 1 .. MaxReservations, t \in Tasks : AdmitReserved(r, t)
  \/ \E l \in Leases, o \in Outcomes : Finish(l, o)
  \/ \E t \in Tasks : TaskSolved(t) \/ RetireTask(t) \/ CancelTask(t)
  \/ AddTask
  \/ HorizonPasses

Spec == Init /\ [][Next]_vars
--------------------------------------------------------------------------------
TypeOK ==
  /\ assignment_policy \in Policies
  /\ known \in 0 .. MaxTasks
  /\ solved \in [Tasks -> BOOLEAN] /\ retired \in [Tasks -> BOOLEAN]
  /\ initial_agents \in [Tasks -> InitialCounts]
  /\ initial_admitted \in [Tasks -> Nat]
  /\ next_generation \in [Tasks -> 1 .. MaxGeneration + 1]
  /\ active \subseteq Leases
  /\ active_by_task \in [Tasks -> SUBSET Leases]
  /\ reserved \subseteq Tokens
  /\ next_reservation_id \in 1 .. MaxReservations + 1
  /\ cursor \in Nat /\ initial_cursor \in Nat
  /\ expired \in BOOLEAN

\* max_parallel is one budget for running agents and for capacity held aside
\* (occupied_slots): no order of claims, conversions, releases and cancellations
\* oversubscribes it, although admit_reserved does not look at the budget.
CapacityRespected == Occupied <= MaxParallel

\* _active and _active_by_task are two indexes of the same leases, and neither
\* finish, cancel_task nor admission lets them disagree; a drift would make the
\* least_active policy and the slot count see different workers.
IndexesAgree ==
  \A t \in Tasks : active_by_task[t] = {l \in active : l[1] = t}

\* initial_admitted, which steers the quota loop and has_pending_initial, is the
\* smaller of the quota and the leases ever issued, on whichever of the three
\* admission paths they were issued.
QuotaAccounting ==
  \A t \in Tasks :
    initial_admitted[t] = IF next_generation[t] - 1 < initial_agents[t]
                          THEN next_generation[t] - 1 ELSE initial_agents[t]

\* A lease that is out is of an earlier generation than the next one: an agent
\* id is never handed out twice, also after finish and cancel_task freed it.
GenerationsFresh == \A l \in active : l[2] < next_generation[l[1]]

\* The remaining slots of a reservation are tokens 1..n, so the token that
\* admit_reserved converts is always one that is held.
ReservationsDense ==
  \A r \in 1 .. MaxReservations :
    /\ TokensOf(r) = {r} \X (1 .. Cardinality(TokensOf(r)))
    /\ r >= next_reservation_id => TokensOf(r) = {}

\* The scheduler implements a pool of leases: each is issued once, to an open
\* task, within the budget; a reserved slot is converted without being given
\* up; solving, retiring and the horizon close tasks for good.
Pool == INSTANCE LeasePool WITH
          Size <- Cardinality, Units <- Tokens, Capacity <- MaxParallel,
          held <- active,
          issued <- {l \in Leases : l[2] < next_generation[l[1]]},
          units <- reserved, opened <- Known,
          open <- IF expired THEN {} ELSE Eligible
PoolSpec == Pool!PoolSpec
================================================================================
