------------------------ MODULE ElasticScheduler_proofs ------------------------
(***************************************************************************)
(* Proofs about ElasticScheduler for every number of tasks, every budget   *)
(* and every bound.                                                        *)
(***************************************************************************)
EXTENDS ElasticScheduler, FiniteSetTheorems, TLAPS

\* The inductive invariant.  The budget needs the tokens of a reservation to be
\* 1..n (or admit_reserved might convert a token that is not held) and a lease
\* to be new when it is admitted.
IInv ==
  /\ TypeOK
  /\ IndexesAgree
  /\ QuotaAccounting
  /\ GenerationsFresh
  /\ ReservationsDense
  /\ CapacityRespected

\* The sets that are counted are finite.
LEMMA FiniteSlots ==
  ASSUME TypeOK
  PROVE  /\ IsFiniteSet(active) /\ Cardinality(active) \in Nat
         /\ IsFiniteSet(reserved) /\ Cardinality(reserved) \in Nat
<1>1. IsFiniteSet(1 .. MaxTasks) /\ IsFiniteSet(1 .. MaxGeneration)
  BY FS_Interval, SchedulerAssumption
<1>2. IsFiniteSet(Leases)
  BY <1>1, FS_Product DEF Leases, Tasks
<1>3. IsFiniteSet(1 .. MaxReservations) /\ IsFiniteSet(1 .. MaxParallel)
  BY FS_Interval, SchedulerAssumption
<1>4. IsFiniteSet(Tokens)
  BY <1>3, FS_Product DEF Tokens
<1>5. IsFiniteSet(active) /\ IsFiniteSet(reserved)
  BY <1>2, <1>4, FS_Subset DEF TypeOK
<1> QED
  BY <1>5, FS_CardinalityType

\* A block of n tokens of one reservation counts n.
LEMMA TokenBlock ==
  ASSUME NEW r, NEW n \in Nat
  PROVE  /\ IsFiniteSet({r} \X (1 .. n))
         /\ Cardinality({r} \X (1 .. n)) = n
<1>1. IsFiniteSet({r}) /\ Cardinality({r}) = 1
  BY FS_Singleton
<1>2. IsFiniteSet(1 .. n) /\ Cardinality(1 .. n) = n
  BY FS_Interval
<1>3. /\ IsFiniteSet({r} \X (1 .. n))
      /\ Cardinality({r} \X (1 .. n)) = Cardinality({r}) * Cardinality(1 .. n)
  BY <1>1, <1>2, FS_Product, Zenon
<1> QED
  BY <1>1, <1>2, <1>3

\* What a reservation holds: n tokens, and the last of them is the one that
\* admit_reserved takes.
LEMMA LastToken ==
  ASSUME TypeOK, ReservationsDense, NEW r \in 1 .. MaxReservations, TokensOf(r) # {}
  PROVE  LET n == Cardinality(TokensOf(r)) IN
         /\ n \in Nat \ {0}
         /\ TokensOf(r) = {r} \X (1 .. n)
         /\ <<r, n>> \in reserved
<1> DEFINE n == Cardinality(TokensOf(r))
<1>1. TokensOf(r) \subseteq reserved
  BY DEF TokensOf
<1>2. IsFiniteSet(TokensOf(r)) /\ n \in Nat
  BY <1>1, FiniteSlots, FS_Subset, FS_CardinalityType
<1>3. n # 0
  BY <1>2, FS_EmptySet
<1>4. TokensOf(r) = {r} \X (1 .. n)
  BY DEF ReservationsDense
<1>5. <<r, n>> \in TokensOf(r)
  BY <1>2, <1>3, <1>4
<1> QED
  BY <1>1, <1>2, <1>3, <1>4, <1>5

\* Admitting a worker puts exactly one new lease out, and keeps every invariant
\* that does not speak of the budget.
LEMMA AdmitStep ==
  ASSUME IInv, NEW t \in Tasks, Admit(t)
  PROVE  /\ active' \subseteq Leases
         /\ active_by_task' \in [Tasks -> SUBSET Leases]
         /\ next_generation' \in [Tasks -> 1 .. MaxGeneration + 1]
         /\ initial_admitted' \in [Tasks -> Nat]
         /\ Cardinality(active') = Cardinality(active) + 1
         /\ IndexesAgree' /\ QuotaAccounting' /\ GenerationsFresh'
<1> DEFINE lease == <<t, next_generation[t]>>
<1>1. lease \in Leases
  BY DEF IInv, TypeOK, Leases, Admit
<1>2. lease \notin active
  BY DEF IInv, GenerationsFresh, TypeOK
<1>3. Cardinality(active') = Cardinality(active) + 1
  BY <1>2, FiniteSlots, FS_AddElement DEF Admit, IInv
<1>4. /\ active' \subseteq Leases
      /\ active_by_task' \in [Tasks -> SUBSET Leases]
      /\ next_generation' \in [Tasks -> 1 .. MaxGeneration + 1]
  BY <1>1, SchedulerAssumption DEF Admit, IInv, TypeOK
<1>5. initial_admitted' \in [Tasks -> Nat]
  BY DEF Admit, IInv, TypeOK
<1>6. IndexesAgree'
  BY DEF Admit, IInv, TypeOK, IndexesAgree
<1>7. QuotaAccounting'
  <2> SUFFICES ASSUME NEW u \in Tasks
               PROVE  initial_admitted'[u] = IF next_generation'[u] - 1 < initial_agents'[u]
                                             THEN next_generation'[u] - 1
                                             ELSE initial_agents'[u]
    BY DEF QuotaAccounting
  <2>1. /\ initial_agents[u] \in Nat /\ next_generation[u] \in Nat
        /\ initial_agents' = initial_agents
    <3>1. initial_agents[u] \in InitialCounts /\ next_generation[u] \in 1 .. MaxGeneration + 1
      BY DEF IInv, TypeOK
    <3>2. initial_agents' = initial_agents
      BY DEF Admit, taskVars
    <3>3. InitialCounts \subseteq Nat /\ MaxGeneration \in Nat
      BY SchedulerAssumption
    <3>4. initial_agents[u] \in Nat
      BY <3>1, <3>3
    <3>5. next_generation[u] \in Nat
      BY <3>1, <3>3
    <3> QED
      BY <3>2, <3>4, <3>5
  <2>2. initial_admitted[u] = IF next_generation[u] - 1 < initial_agents[u]
                              THEN next_generation[u] - 1 ELSE initial_agents[u]
    BY DEF IInv, QuotaAccounting
  <2>3. CASE u = t
    <3>1. /\ next_generation'[t] = next_generation[t] + 1
          /\ initial_admitted'[t] = IF initial_admitted[t] < initial_agents[t]
                                    THEN initial_admitted[t] + 1 ELSE initial_admitted[t]
      BY DEF Admit, IInv, TypeOK
    <3> QED
      BY <2>3, <2>2, <2>1, <3>1
  <2>4. CASE u # t
    <3>1. next_generation'[u] = next_generation[u] /\ initial_admitted'[u] = initial_admitted[u]
      BY <2>4 DEF Admit, IInv, TypeOK
    <3> QED
      BY <2>1, <2>2, <3>1
  <2> QED
    BY <2>3, <2>4
<1>8. GenerationsFresh'
  <2> SUFFICES ASSUME NEW l \in active' PROVE l[2] < next_generation'[l[1]]
    BY DEF GenerationsFresh
  <2>1. CASE l = lease
    BY <2>1 DEF Admit, IInv, TypeOK
  <2>2. CASE l # lease
    <3>1. l \in active /\ l[1] \in Tasks /\ l[2] \in Nat
      BY <2>2 DEF Admit, IInv, TypeOK, Leases
    <3>2. l[2] < next_generation[l[1]]
      BY <3>1 DEF IInv, GenerationsFresh
    <3> QED
      BY <3>1, <3>2 DEF Admit, IInv, TypeOK
  <2> QED
    BY <2>1, <2>2
<1> QED
  BY <1>3, <1>4, <1>5, <1>6, <1>7, <1>8

\* Every step that admits through the budget test keeps the invariant.
LEMMA NextAssignmentStep ==
  ASSUME IInv, NEW t \in Tasks, NextAssignment(t) \/ NextAssignmentFor(t)
  PROVE  IInv'
<1>1. MayAdmit /\ Admit(t) /\ UNCHANGED slotVars /\ known \in Nat
  BY DEF NextAssignment, NextAssignmentFor, NextInitial, NextRefill,
         NextLeastActive, NextRoundRobin, cursors, IInv, TypeOK
<1>2. cursor' \in Nat /\ initial_cursor' \in Nat
  <2>1. CASE NextInitial(t)
    BY <2>1, <1>1 DEF NextInitial, IInv, TypeOK, IsFirst, PendingInitial, Eligible, Known
  <2>2. CASE NextRefill(t)
    BY <2>2, <1>1 DEF NextRefill, IInv, TypeOK, IsFirst, Underfilled, Eligible, Known
  <2>3. CASE NextLeastActive(t)
    BY <2>3, <1>1 DEF NextLeastActive, IInv, TypeOK, Eligible, Known
  <2>4. CASE NextRoundRobin(t)
    <3>1. IsFiniteSet(Eligible) /\ Cardinality(Eligible) \in Nat
      <4>1. IsFiniteSet(1 .. known)
        BY <1>1, FS_Interval
      <4> QED
        BY <4>1, FS_Subset, FS_CardinalityType DEF Eligible, Known
    <3>2. Cardinality(Eligible) # 0
      BY <2>4, <3>1, FS_EmptySet DEF NextRoundRobin
    <3> QED
      BY <2>4, <3>1, <3>2 DEF NextRoundRobin, IInv, TypeOK
  <2>5. CASE NextAssignmentFor(t)
    BY <2>5 DEF NextAssignmentFor, cursors, IInv, TypeOK
  <2> QED
    BY <2>5, <2>4, <2>3, <2>2, <2>1 DEF NextAssignment
<1>3. TypeOK'
  BY <1>1, <1>2, AdmitStep DEF IInv, TypeOK, Admit, taskVars, slotVars
<1>4. ReservationsDense'
  BY <1>1 DEF IInv, ReservationsDense, TokensOf, slotVars
<1>5. CapacityRespected'
  BY <1>1, AdmitStep, FiniteSlots, SchedulerAssumption DEF IInv, CapacityRespected, Occupied,
      MayAdmit, slotVars
<1> QED
  BY <1>1, <1>3, <1>4, <1>5, AdmitStep DEF IInv

\* Converting a reserved slot keeps the occupied slots exactly as they were.
LEMMA AdmitReservedStep ==
  ASSUME IInv, NEW r \in 1 .. MaxReservations, NEW t \in Tasks, AdmitReserved(r, t)
  PROVE  /\ IInv'
         /\ \E u \in Tokens : u \in reserved /\ reserved' = reserved \ {u}
<1> DEFINE n == Cardinality(TokensOf(r))
<1>1. /\ n \in Nat \ {0}
      /\ TokensOf(r) = {r} \X (1 .. n)
      /\ <<r, n>> \in reserved
  BY LastToken DEF AdmitReserved, IInv
<1>2. Admit(t) /\ reserved' = reserved \ {<<r, n>>} /\ UNCHANGED <<next_reservation_id, cursors>>
  BY DEF AdmitReserved
<1>3. Cardinality(reserved') = Cardinality(reserved) - 1
  BY <1>1, <1>2, FiniteSlots, FS_RemoveElement DEF IInv
<1>4. TypeOK'
  BY <1>2, AdmitStep DEF IInv, TypeOK, Admit, taskVars, cursors
<1>5. CapacityRespected'
  BY <1>2, <1>3, AdmitStep, FiniteSlots DEF IInv, CapacityRespected, Occupied
<1>6. ReservationsDense'
  <2> SUFFICES ASSUME NEW s \in 1 .. MaxReservations
               PROVE  /\ TokensOf(s)' = {s} \X (1 .. Cardinality(TokensOf(s)'))
                      /\ s >= next_reservation_id' => TokensOf(s)' = {}
    BY DEF ReservationsDense
  <2>1. CASE s # r
    <3>1. TokensOf(s)' = TokensOf(s)
      BY <2>1, <1>2 DEF TokensOf
    <3> QED
      BY <3>1, <1>2 DEF IInv, ReservationsDense
  <2>2. CASE s = r
    <3>1. TokensOf(r)' = {r} \X (1 .. (n - 1))
      <4>1. TokensOf(r)' = TokensOf(r) \ {<<r, n>>}
        BY <1>2 DEF TokensOf
      <4>2. ({r} \X (1 .. n)) \ {<<r, n>>} = {r} \X (1 .. (n - 1))
        BY <1>1
      <4> QED
        BY <4>1, <4>2, <1>1
    <3>2. Cardinality(TokensOf(r)') = n - 1
      <4>1. n - 1 \in Nat
        BY <1>1
      <4>2. Cardinality({r} \X (1 .. (n - 1))) = n - 1
        BY <4>1, TokenBlock
      <4> QED
        BY <3>1, <4>2
    <3>3. ~(r >= next_reservation_id)
      BY <1>1 DEF IInv, ReservationsDense
    <3> QED
      BY <3>1, <3>2, <3>3, <2>2, <1>2
  <2> QED
    BY <2>1, <2>2
<1>7. <<r, n>> \in Tokens
  BY <1>1 DEF IInv, TypeOK
<1> QED
  BY <1>1, <1>2, <1>4, <1>5, <1>6, <1>7, AdmitStep DEF IInv

\* Putting capacity aside: n new tokens, within the budget.
LEMMA AcquireStep ==
  ASSUME IInv, NEW n \in 1 .. MaxParallel, AcquireReservation(n)
  PROVE  /\ IInv'
         /\ Cardinality(reserved') = Cardinality(reserved) + n
<1> DEFINE id == next_reservation_id
           block == {id} \X (1 .. n)
<1>1. /\ id \in 1 .. MaxReservations /\ n \in Nat
      /\ reserved' = reserved \cup block /\ next_reservation_id' = id + 1
  BY DEF AcquireReservation, IInv, TypeOK
<1>2. TokensOf(id) = {}
  BY <1>1 DEF IInv, ReservationsDense
<1>3. reserved \cap block = {}
  BY <1>2 DEF TokensOf
<1>4. IsFiniteSet(block) /\ Cardinality(block) = n
  BY <1>1, TokenBlock
<1>5. Cardinality(reserved') = Cardinality(reserved) + n
  <2>1. Cardinality(reserved \cup block) =
          Cardinality(reserved) + Cardinality(block) - Cardinality(reserved \cap block)
    BY <1>4, FiniteSlots, FS_Union DEF IInv
  <2> QED
    BY <1>1, <1>3, <1>4, <2>1, FiniteSlots, FS_EmptySet DEF IInv
<1>6. TypeOK'
  <2>1. block \subseteq Tokens
    BY <1>1, SchedulerAssumption DEF Tokens
  <2> QED
    BY <1>1, <2>1, SchedulerAssumption DEF AcquireReservation, IInv, TypeOK, taskVars, cursors
<1>7. CapacityRespected'
  BY <1>5, FiniteSlots DEF AcquireReservation, IInv, CapacityRespected, Occupied
<1>8. ReservationsDense'
  <2> SUFFICES ASSUME NEW s \in 1 .. MaxReservations
               PROVE  /\ TokensOf(s)' = {s} \X (1 .. Cardinality(TokensOf(s)'))
                      /\ s >= next_reservation_id' => TokensOf(s)' = {}
    BY DEF ReservationsDense
  <2>1. CASE s = id
    <3>1. TokensOf(s)' = block
      BY <1>1, <1>2, <2>1 DEF TokensOf
    <3>2. Cardinality(TokensOf(s)') = n
      BY <3>1, <1>4
    <3>3. ~(s >= next_reservation_id')
      BY <1>1, <2>1
    <3> QED
      BY <2>1, <3>1, <3>2, <3>3
  <2>2. CASE s # id
    <3>1. TokensOf(s)' = TokensOf(s)
      BY <1>1, <2>2 DEF TokensOf
    <3>2. s >= id + 1 => s >= id
      BY <1>1
    <3> QED
      BY <1>1, <3>1, <3>2 DEF IInv, ReservationsDense
  <2> QED
    BY <2>1, <2>2
<1>9. IndexesAgree' /\ QuotaAccounting' /\ GenerationsFresh'
  BY DEF AcquireReservation, IInv, IndexesAgree, QuotaAccounting, GenerationsFresh, taskVars
<1> QED
  BY <1>5, <1>6, <1>7, <1>8, <1>9 DEF IInv

\* A lease ends.
LEMMA ReleaseStep ==
  ASSUME IInv, NEW r \in 1 .. MaxReservations, ReleaseReservation(r)
  PROVE  IInv'
<1>1. reserved' = reserved \ TokensOf(r) /\ UNCHANGED next_reservation_id
  BY DEF ReleaseReservation
<1>2. Cardinality(reserved') <= Cardinality(reserved) /\ Cardinality(reserved') \in Nat
  BY <1>1, FiniteSlots, FS_Subset, FS_CardinalityType DEF IInv
<1>3. TypeOK'
  BY <1>1 DEF ReleaseReservation, IInv, TypeOK, taskVars, cursors
<1>4. CapacityRespected'
  BY <1>2, FiniteSlots, SchedulerAssumption DEF ReleaseReservation, IInv, CapacityRespected,
      Occupied
<1>5. ReservationsDense'
  <2> SUFFICES ASSUME NEW s \in 1 .. MaxReservations
               PROVE  /\ TokensOf(s)' = {s} \X (1 .. Cardinality(TokensOf(s)'))
                      /\ s >= next_reservation_id' => TokensOf(s)' = {}
    BY DEF ReservationsDense
  <2>1. CASE s = r
    <3>1. TokensOf(s)' = {}
      BY <1>1, <2>1 DEF TokensOf
    <3> QED
      BY <3>1, FS_EmptySet
  <2>2. CASE s # r
    <3>1. TokensOf(s)' = TokensOf(s)
      BY <1>1, <2>2 DEF TokensOf
    <3> QED
      BY <1>1, <3>1 DEF IInv, ReservationsDense
  <2> QED
    BY <2>1, <2>2
<1>6. IndexesAgree' /\ QuotaAccounting' /\ GenerationsFresh'
  BY DEF ReleaseReservation, IInv, IndexesAgree, QuotaAccounting, GenerationsFresh, taskVars
<1> QED
  BY <1>3, <1>4, <1>5, <1>6 DEF IInv

\* Leases that go away free their slots in both indexes.
LEMMA FinishStep ==
  ASSUME IInv, NEW l \in Leases, NEW o \in Outcomes, Finish(l, o)
  PROVE  IInv'
<1>1. /\ active' = active \ {l} /\ l \in active /\ l[1] \in Tasks
      /\ active_by_task' = [active_by_task EXCEPT ![l[1]] = @ \ {l}]
      /\ UNCHANGED <<assignment_policy, known, initial_agents, initial_admitted,
                     next_generation, slotVars, cursors, expired>>
  BY DEF Finish, Leases
<1>2. Cardinality(active') <= Cardinality(active) /\ Cardinality(active') \in Nat
  BY <1>1, FiniteSlots, FS_Subset, FS_CardinalityType DEF IInv
<1>3. solved' \in [Tasks -> BOOLEAN] /\ retired' \in [Tasks -> BOOLEAN]
  BY <1>1 DEF Finish, Solve, Retire, IInv, TypeOK
<1>4. TypeOK'
  BY <1>1, <1>3 DEF IInv, TypeOK, slotVars, cursors
<1>5. CapacityRespected'
  BY <1>1, <1>2, FiniteSlots, SchedulerAssumption DEF IInv, CapacityRespected, Occupied, slotVars
<1>6. IndexesAgree'
  BY <1>1 DEF IInv, TypeOK, IndexesAgree
<1>7. QuotaAccounting' /\ GenerationsFresh' /\ ReservationsDense'
  BY <1>1 DEF IInv, QuotaAccounting, GenerationsFresh, ReservationsDense, TokensOf, slotVars
<1> QED
  BY <1>4, <1>5, <1>6, <1>7 DEF IInv

\* A cancelled task gives all its leases back at once.
LEMMA CancelStep ==
  ASSUME IInv, NEW t \in Tasks, CancelTask(t)
  PROVE  IInv'
<1>1. Cardinality(active') <= Cardinality(active) /\ Cardinality(active') \in Nat
  BY FiniteSlots, FS_Subset, FS_CardinalityType DEF IInv, CancelTask
<1>2. TypeOK'
  BY DEF CancelTask, IInv, TypeOK, slotVars, cursors, taskVars
<1>3. CapacityRespected'
  BY <1>1, FiniteSlots, SchedulerAssumption DEF CancelTask, IInv, CapacityRespected, Occupied,
      slotVars
<1>4. IndexesAgree'
  BY DEF CancelTask, IInv, TypeOK, IndexesAgree
<1>5. QuotaAccounting' /\ GenerationsFresh' /\ ReservationsDense'
  BY DEF CancelTask, IInv, QuotaAccounting, GenerationsFresh, ReservationsDense,
         TokensOf, slotVars, taskVars
<1> QED
  BY <1>2, <1>3, <1>4, <1>5 DEF IInv

\* Steps that touch neither leases nor reserved capacity.
LEMMA TaskStep ==
  ASSUME IInv,
         \/ \E t \in Tasks : TaskSolved(t) \/ RetireTask(t)
         \/ AddTask \/ HorizonPasses \/ UNCHANGED vars
  PROVE  IInv'
<1>1. UNCHANGED <<assignment_policy, initial_agents, initial_admitted, next_generation,
                  active, active_by_task, reserved, next_reservation_id, cursor,
                  initial_cursor>>
  BY DEF TaskSolved, RetireTask, AddTask, HorizonPasses, vars, slotVars, cursors, taskVars
<1>2. TypeOK'
  <2>1. CASE \E t \in Tasks : TaskSolved(t) \/ RetireTask(t)
    <3>1. solved' \in [Tasks -> BOOLEAN] /\ retired' \in [Tasks -> BOOLEAN]
      BY <2>1 DEF IInv, TypeOK, TaskSolved, RetireTask, Solve, Retire
    <3> QED
      BY <1>1, <2>1, <3>1 DEF IInv, TypeOK, TaskSolved, RetireTask
  <2>2. CASE AddTask
    <3>1. known' \in 0 .. MaxTasks
      BY <2>2, SchedulerAssumption DEF IInv, TypeOK, AddTask
    <3> QED
      BY <1>1, <2>2, <3>1 DEF IInv, TypeOK, AddTask
  <2>3. CASE HorizonPasses \/ UNCHANGED vars
    BY <1>1, <2>3 DEF IInv, TypeOK, HorizonPasses, vars, taskVars
  <2> QED
    BY <2>1, <2>2, <2>3
<1> QED
  BY <1>1, <1>2 DEF IInv, IndexesAgree, QuotaAccounting, GenerationsFresh,
                    ReservationsDense, TokensOf, CapacityRespected, Occupied

\* An empty scheduler.
LEMMA InitIInv == Init => IInv
<1> SUFFICES ASSUME Init PROVE IInv
  OBVIOUS
<1>1. TypeOK
  <2>1. /\ initial_admitted \in [Tasks -> Nat]
        /\ active_by_task \in [Tasks -> SUBSET Leases]
        /\ solved \in [Tasks -> BOOLEAN] /\ retired \in [Tasks -> BOOLEAN]
    BY DEF Init
  <2>2. /\ next_generation \in [Tasks -> 1 .. MaxGeneration + 1]
        /\ next_reservation_id \in 1 .. MaxReservations + 1
    BY SchedulerAssumption DEF Init
  <2> QED
    BY <2>1, <2>2 DEF Init, TypeOK
<1>2. IndexesAgree /\ GenerationsFresh
  BY DEF Init, IndexesAgree, GenerationsFresh
<1>3. QuotaAccounting
  <2> SUFFICES ASSUME NEW t \in Tasks
               PROVE  initial_admitted[t] = IF next_generation[t] - 1 < initial_agents[t]
                                            THEN next_generation[t] - 1 ELSE initial_agents[t]
    BY DEF QuotaAccounting
  <2>1. initial_agents[t] \in Nat
    BY SchedulerAssumption DEF Init
  <2> QED
    BY <2>1 DEF Init
<1>4. ReservationsDense
  BY FS_EmptySet DEF Init, ReservationsDense, TokensOf
<1>5. CapacityRespected
  BY FS_EmptySet, SchedulerAssumption DEF Init, CapacityRespected, Occupied
<1> QED
  BY <1>1, <1>2, <1>3, <1>4, <1>5 DEF IInv

\* Every call keeps the inductive invariant.
LEMMA NextIInv == IInv /\ [Next]_vars => IInv'
<1> SUFFICES ASSUME IInv, [Next]_vars PROVE IInv'
  OBVIOUS
<1>1. CASE \E t \in Tasks : NextAssignment(t) \/ NextAssignmentFor(t)
  BY <1>1, NextAssignmentStep
<1>2. CASE \E n \in 1 .. MaxParallel : AcquireReservation(n)
  BY <1>2, AcquireStep
<1>3. CASE \E r \in 1 .. MaxReservations : ReleaseReservation(r)
  BY <1>3, ReleaseStep
<1>4. CASE \E r \in 1 .. MaxReservations, t \in Tasks : AdmitReserved(r, t)
  BY <1>4, AdmitReservedStep
<1>5. CASE \E l \in Leases, o \in Outcomes : Finish(l, o)
  BY <1>5, FinishStep
<1>6. CASE \E t \in Tasks : CancelTask(t)
  BY <1>6, CancelStep
<1>7. CASE \/ \E t \in Tasks : TaskSolved(t) \/ RetireTask(t)
           \/ AddTask \/ HorizonPasses \/ UNCHANGED vars
  BY <1>7, TaskStep
<1> QED
  BY <1>1, <1>2, <1>3, <1>4, <1>5, <1>6, <1>7 DEF Next

\* The inductive invariant of every behaviour.
LEMMA Inductive == Spec => []IInv
  BY InitIInv, NextIInv, PTL DEF Spec

\* The state of the scheduler keeps its types.
THEOREM TypeCorrect == Spec => []TypeOK
  BY Inductive, PTL DEF IInv

\* Whatever the callers do, running agents and capacity held aside never add up
\* to more than max_parallel.
THEOREM CapacityHolds == Spec => []CapacityRespected
  BY Inductive, PTL DEF IInv

\* The quota counter is the number of leases issued, cut off at the quota.
THEOREM QuotaHolds == Spec => []QuotaAccounting
  BY Inductive, PTL DEF IInv

\* The two indexes of the active leases agree, and no agent id is reused.
THEOREM LeasesConsistent == Spec => [](IndexesAgree /\ GenerationsFresh)
  BY Inductive, PTL DEF IInv
--------------------------------------------------------------------------------
(***************************************************************************)
(* The scheduler implements the pool of leases: each step is a step of     *)
(* the pool, or leaves the pool as it is.                                  *)
(***************************************************************************)
Issued == {l \in Leases : l[2] < next_generation[l[1]]}
StillOpen == IF expired THEN {} ELSE Eligible

\* Admitting grants the next generation: it was never issued, and its task is open.
LEMMA AdmitGrants ==
  ASSUME IInv, NEW t \in Tasks, Admit(t), t \in Eligible, ~expired
  PROVE  \E l \in Leases :
           /\ l \notin Issued /\ TaskOf(l) \in StillOpen
           /\ active' = active \cup {l}
           /\ Issued' = Issued \cup {l}
           /\ UNCHANGED <<known, StillOpen>>
<1> DEFINE lease == <<t, next_generation[t]>>
<1>1. lease \in Leases
  BY SchedulerAssumption DEF IInv, TypeOK, Leases, Admit
<1>2. lease \notin Issued /\ TaskOf(lease) \in StillOpen
  BY DEF Issued, TaskOf, StillOpen, IInv, TypeOK
<1>3. active' = active \cup {lease}
  BY DEF Admit
<1>4. Issued' = Issued \cup {lease}
  <2> SUFFICES ASSUME NEW l \in Leases
               PROVE  l[2] < next_generation'[l[1]] <=> (l[2] < next_generation[l[1]] \/ l = lease)
    BY <1>1 DEF Issued
  <2>1. l = <<l[1], l[2]>> /\ l[1] \in Tasks /\ l[2] \in Nat
    BY DEF Leases
  <2>2. next_generation[t] \in Nat /\ next_generation[l[1]] \in Nat
    BY <2>1, SchedulerAssumption DEF IInv, TypeOK
  <2>3. next_generation'[l[1]] = IF l[1] = t THEN next_generation[t] + 1 ELSE next_generation[l[1]]
    BY <2>1 DEF Admit, IInv, TypeOK
  <2> QED
    BY <2>1, <2>2, <2>3
<1>5. UNCHANGED <<known, StillOpen>>
  BY DEF Admit, taskVars, StillOpen, Eligible, Known
<1> QED
  BY <1>1, <1>2, <1>3, <1>4, <1>5

\* Solving or retiring a task closes it, and opens none.
LEMMA ClosingStep ==
  ASSUME TypeOK, NEW t \in Tasks, Solve(t) \/ Retire(t), UNCHANGED known
  PROVE  Eligible' \subseteq Eligible
<1> SUFFICES ASSUME NEW u \in Known, solved[u] \/ retired[u]
             PROVE  solved'[u] \/ retired'[u]
  BY DEF Eligible, Known
<1>1. u \in Tasks
  BY SchedulerAssumption DEF Known, Tasks, TypeOK
<1>2. CASE u # t
  <2>1. solved'[u] = solved[u] /\ retired'[u] = retired[u]
    BY <1>1, <1>2 DEF Solve, Retire, TypeOK
  <2> QED
    BY <2>1
<1>3. CASE u = t
  <2>1. CASE Solve(t)
    BY <1>3, <2>1 DEF Solve, TypeOK
  <2>2. CASE Retire(t)
    <3>1. solved'[t] = solved[t] /\ retired'[t] = (retired[t] \/ ~solved[t])
      BY <2>2 DEF Retire, TypeOK
    <3> QED
      BY <1>3, <3>1
  <2> QED
    BY <2>1, <2>2
<1> QED
  BY <1>2, <1>3

\* An empty scheduler is an empty pool.
LEMMA InitMaps == Init => Pool!PoolInit
<1> SUFFICES ASSUME Init PROVE Pool!PoolInit
  OBVIOUS
<1>1. Known \subseteq Tasks
  BY SchedulerAssumption DEF Init, Known, Tasks
<1>2. {l \in Leases : l[2] < next_generation[l[1]]} = {}
  BY DEF Init, Leases
<1> QED
  BY <1>1, <1>2 DEF Pool!PoolInit, Init, Eligible

\* Every call is a step of the pool, or none.
LEMMA NextMaps ==
  ASSUME IInv, [Next]_vars
  PROVE  [Pool!PoolNext]_(Pool!poolVars)
<1> USE DEF Pool!PoolNext, Pool!poolVars
<1>1. ASSUME NEW t \in Tasks, NextAssignment(t) \/ NextAssignmentFor(t)
      PROVE  Pool!PoolNext
  <2>1. MayAdmit /\ Admit(t) /\ UNCHANGED slotVars /\ t \in Eligible
    BY <1>1 DEF NextAssignment, NextAssignmentFor, NextInitial, NextRefill,
                NextLeastActive, NextRoundRobin, IsFirst, PendingInitial, Underfilled
  <2>2. PICK l \in Leases : /\ l \notin Issued /\ TaskOf(l) \in StillOpen
                            /\ active' = active \cup {l} /\ Issued' = Issued \cup {l}
                            /\ UNCHANGED <<known, StillOpen>>
    BY <2>1, AdmitGrants DEF MayAdmit
  <2>3. Cardinality(active) + Cardinality(reserved) + 1 <= MaxParallel
    BY <2>1, FiniteSlots, SchedulerAssumption DEF MayAdmit, Occupied, IInv
  <2>4. Pool!Grant(l)
    BY <2>1, <2>2, <2>3 DEF Pool!Grant, Pool!Grantable, Pool!HasRoom, Issued, StillOpen,
                            slotVars, Known
  <2> QED
    BY <2>4
<1>2. ASSUME NEW n \in 1 .. MaxParallel, AcquireReservation(n)
      PROVE  Pool!PoolNext
  <2> DEFINE U == {next_reservation_id} \X (1 .. n)
  <2>1. Cardinality(U) = n
    <3>1. n \in Nat
      BY SchedulerAssumption
    <3> QED
      BY <3>1, TokenBlock
  <2>2. U \subseteq Tokens
    BY <1>2, SchedulerAssumption DEF AcquireReservation, Tokens, IInv, TypeOK
  <2>3. U \cap reserved = {}
    <3>1. TokensOf(next_reservation_id) = {}
      BY <1>2, SchedulerAssumption DEF AcquireReservation, IInv, ReservationsDense, TypeOK
    <3> QED
      BY <3>1 DEF TokensOf
  <2>4. Pool!Reserve(U)
    BY <1>2, <2>1, <2>3 DEF Pool!Reserve, Pool!HasRoom, AcquireReservation, Occupied,
                            Eligible, Known, taskVars
  <2> QED
    BY <2>2, <2>4
<1>3. ASSUME NEW r \in 1 .. MaxReservations, ReleaseReservation(r)
      PROVE  Pool!PoolNext
  <2>1. TokensOf(r) \subseteq Tokens /\ TokensOf(r) \subseteq reserved
    BY DEF IInv, TypeOK, TokensOf
  <2>2. Pool!GiveBack(TokensOf(r))
    BY <1>3, <2>1 DEF Pool!GiveBack, ReleaseReservation, Eligible, Known, taskVars
  <2> QED
    BY <2>1, <2>2
<1>4. ASSUME NEW r \in 1 .. MaxReservations, NEW t \in Tasks, AdmitReserved(r, t)
      PROVE  Pool!PoolNext
  <2>1. PICK u \in Tokens : u \in reserved /\ reserved' = reserved \ {u}
    BY <1>4, AdmitReservedStep
  <2>2. PICK l \in Leases : /\ l \notin Issued /\ TaskOf(l) \in StillOpen
                            /\ active' = active \cup {l} /\ Issued' = Issued \cup {l}
                            /\ UNCHANGED <<known, StillOpen>>
    BY <1>4, AdmitGrants DEF AdmitReserved
  <2>3. Pool!Convert(l, u)
    BY <2>1, <2>2 DEF Pool!Convert, Pool!Grantable, Issued, StillOpen, Known
  <2> QED
    BY <2>3
<1>5. ASSUME NEW L \in SUBSET active, active' = active \ L,
             UNCHANGED <<next_generation, reserved, known>>,
             StillOpen' \subseteq StillOpen
      PROVE  Pool!PoolNext
  <2> DEFINE Closing == StillOpen \ StillOpen'
  <2>1. L \in SUBSET Leases
    BY DEF IInv, TypeOK
  <2>2. Closing \in SUBSET Tasks
    BY SchedulerAssumption DEF StillOpen, Eligible, Known, Tasks, IInv, TypeOK
  <2>3. StillOpen' = StillOpen \ Closing
    BY <1>5
  <2>4. Pool!Return(L, Closing)
    BY <1>5, <2>3 DEF Pool!Return, StillOpen, Known
  <2> QED
    BY <2>1, <2>2, <2>4
<1>6. ASSUME NEW l \in Leases, NEW o \in Outcomes, Finish(l, o)
      PROVE  Pool!PoolNext
  <2>1. {l} \in SUBSET active /\ active' = active \ {l}
    BY <1>6 DEF Finish
  <2>2. UNCHANGED <<next_generation, reserved, known, expired>>
    BY <1>6 DEF Finish, slotVars
  <2>3. Eligible' \subseteq Eligible
    <3>1. l[1] \in Tasks
      BY DEF Leases
    <3>2. CASE UNCHANGED <<solved, retired>>
      BY <2>2, <3>2 DEF Eligible, Known
    <3>3. CASE Solve(l[1]) \/ Retire(l[1])
      BY <2>2, <3>1, <3>3, ClosingStep DEF IInv
    <3> QED
      BY <1>6, <3>2, <3>3 DEF Finish
  <2> QED
    BY <1>5, <2>1, <2>2, <2>3 DEF StillOpen
<1>7. ASSUME NEW t \in Tasks, TaskSolved(t) \/ RetireTask(t)
      PROVE  Pool!PoolNext
  <2>1. {} \in SUBSET active /\ active' = active \ {}
    BY <1>7 DEF TaskSolved, RetireTask
  <2>2. UNCHANGED <<next_generation, reserved, known, expired>>
    BY <1>7 DEF TaskSolved, RetireTask, slotVars
  <2>3. Eligible' \subseteq Eligible
    BY <1>7, <2>2, ClosingStep DEF TaskSolved, RetireTask, IInv
  <2> QED
    BY <1>5, <2>1, <2>2, <2>3 DEF StillOpen
<1>8. ASSUME NEW t \in Tasks, CancelTask(t)
      PROVE  Pool!PoolNext
  <2>1. active_by_task[t] \in SUBSET active
    BY DEF IInv, IndexesAgree
  <2>2. UNCHANGED <<next_generation, reserved, StillOpen, known>>
    BY <1>8 DEF CancelTask, slotVars, taskVars, StillOpen, Eligible, Known
  <2> QED
    BY <1>5, <1>8, <2>1, <2>2 DEF CancelTask
<1>9. ASSUME HorizonPasses
      PROVE  Pool!PoolNext
  <2>1. {} \in SUBSET active /\ active' = active \ {}
    BY <1>9 DEF HorizonPasses
  <2>2. UNCHANGED <<next_generation, reserved, known>> /\ StillOpen' \subseteq StillOpen
    BY <1>9 DEF HorizonPasses, slotVars, taskVars, StillOpen
  <2> QED
    BY <1>5, <2>1, <2>2
<1>10. ASSUME AddTask
       PROVE  Pool!PoolNext
  <2> DEFINE t == known + 1
  <2>1. t \in Tasks /\ t \notin Known /\ Known' = Known \cup {t}
    BY <1>10, SchedulerAssumption DEF AddTask, Known, Tasks, IInv, TypeOK
  <2>2. StillOpen' = StillOpen \/ StillOpen' = StillOpen \cup {t}
    BY <1>10, <2>1 DEF AddTask, StillOpen, Eligible
  <2>3. UNCHANGED <<active, next_generation, reserved>>
    BY <1>10 DEF AddTask, slotVars
  <2>4. Pool!Open(t)
    BY <2>1, <2>2, <2>3 DEF Pool!Open, StillOpen
  <2> QED
    BY <2>1, <2>4
<1>11. CASE UNCHANGED vars
  BY <1>11 DEF vars, Eligible, Known
<1> QED
  BY <1>1, <1>2, <1>3, <1>4, <1>6, <1>7, <1>8, <1>9, <1>10, <1>11 DEF Next

\* Every behaviour of the scheduler is one of the pool of leases.
THEOREM ImplementsPool == Spec => PoolSpec
<1>1. IInv /\ [Next]_vars => [Pool!PoolNext]_(Pool!poolVars)
  BY NextMaps
<1> QED
  BY <1>1, InitMaps, Inductive, PTL DEF Spec, PoolSpec, Pool!PoolSpec
================================================================================
