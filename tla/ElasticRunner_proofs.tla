------------------------- MODULE ElasticRunner_proofs -------------------------
(***************************************************************************)
(* Proofs about ElasticRunner for every number of workers and tasks, every *)
(* cap, backlog and number of faults.                                      *)
(***************************************************************************)
EXTENDS ElasticRunner, ElasticScheduler_proofs

Places == {"unborn", "idle", "busy", "finishing", "waiting", "settling", "claiming",
           "unlocked", "thinking", "raising", "ended"}
Stages == {"none", "queued", "running", "yielded", "settling", "judging", "done", "lost"}

RunnerTypes ==
  /\ filling \in BOOLEAN /\ failed \in BOOLEAN
  /\ at \in [Workers -> Places] /\ job \in [Workers -> Leases \cup {NoLease}]
  /\ ticket \in [Workers -> 0 .. MaxReservations]
  /\ stage \in [Leases -> Stages]
  /\ skipped \subseteq Leases /\ positive \subseteq Leases
  /\ completed \in [Tasks -> Nat]
  /\ best \in [Tasks -> Leases \cup {Baseline(t) : t \in Tasks}]
  /\ permits \in Nat

\* The reservations that are out are the tickets of the workers whose model thinks.
Ticketed == {w \in Workers : ticket[w] # 0}
TicketsOut ==
  /\ \A w \in Workers : ticket[w] # 0 => at[w] \in {"unlocked", "thinking"} /\ policy = "llm_scheduler"
  /\ \A w \in Workers : ticket[w] < next_reservation_id
  /\ \A w, v \in Workers : ticket[w] = ticket[v] => w = v \/ ticket[w] = 0
  /\ reserved = {<<ticket[w], 1>> : w \in Ticketed}

\* What a worker's place says of its lease.
PlaceFits(w) ==
  /\ at[w] \in {"busy", "finishing"} => job[w] \in Leases /\ stage[job[w]] = "running"
  /\ at[w] = "waiting" => job[w] \in Leases /\ stage[job[w]] = "yielded"
  /\ at[w] = "settling" =>
       job[w] \in Leases /\ stage[job[w]] \in {"settling", "judging", "done", "lost"}
  /\ at[w] = "raising" =>
       /\ failed
       /\ job[w] = NoLease \/ (job[w] \in Leases /\ stage[job[w]] \in {"running", "yielded"})
  /\ at[w] \in {"unborn", "idle", "claiming", "unlocked", "thinking", "ended"} => job[w] = NoLease
JobsFit ==
  /\ \A w \in Workers : PlaceFits(w)
  /\ \A w, v \in Workers : job[w] = job[v] => w = v \/ job[w] = NoLease

\* What a lease's stage says of the scheduler, and who has it.
StageFits(l) ==
  /\ stage[l] = "none" <=> l[2] >= next_generation[l[1]]
  /\ stage[l] \in {"queued", "running"} => l \in active
  /\ l \in active => stage[l] \in {"queued", "running", "lost"}
  /\ stage[l] = "lost" => failed
  /\ stage[l] \in {"running", "yielded"} => \E w \in Workers : job[w] = l
  /\ l \in skipped => stage[l] \in {"running", "yielded", "settling", "lost"}
StagesFit == \A l \in Leases : StageFits(l)

\* Before the workers start, and after they have ended.
Ends ==
  /\ filling => /\ ~failed /\ \A w \in Workers : at[w] = "unborn"
                /\ \A l \in Leases : stage[l] \in {"none", "queued"}
  /\ (\A w \in Workers : at[w] = "ended") => failed \/ Queued = {}

\* The leases whose attempt has been counted, and those that take room in the backlog.
Counted(t) == {l \in Leases : TaskOf(l) = t /\ (stage[l] = "done" \/ l \in skipped)}
Pooled == {l \in Leases : stage[l] \in {"settling", "judging"} /\ ~Inline(l)}
Books ==
  /\ \A t \in Tasks : completed[t] = Cardinality(Counted(t))
  /\ permits + Cardinality(Pooled) = BacklogLimit

RunnerInv ==
  /\ IInv /\ RunnerTypes /\ TicketsOut /\ JobsFit /\ StagesFit /\ Ends /\ Books
  /\ AttemptCap /\ OneProof /\ NoIdleSlot
--------------------------------------------------------------------------------
\* What the runner calls of the scheduler.
RunnerCall ==
  \/ UNCHANGED vars
  \/ \E t \in Tasks : NextAssignment(t) \/ NextAssignmentFor(t) \/ TaskSolved(t) \/ RetireTask(t)
  \/ AcquireReservation(1)
  \/ \E r \in 1 .. MaxReservations : ReleaseReservation(r)
  \/ \E r \in 1 .. MaxReservations, t \in Tasks : AdmitReserved(r, t)
  \/ \E l \in Leases : Finish(l, "released")
  \/ HorizonPasses

\* A worker and a lease are what the typing says.
LEMMA WorkerFacts ==
  /\ NoLease \notin Leases
  /\ \A l \in Leases : TaskOf(l) \in Tasks /\ l[1] \in Tasks /\ l[2] \in 1 .. MaxGeneration
  /\ \A l \in Leases : l = <<l[1], l[2]>>
BY SchedulerAssumption DEF NoLease, Leases, Tasks, TaskOf

\* A worker's own step is a call of the scheduler, or leaves it alone.
LEMMA WorkerCalls ==
  ASSUME IInv, RunnerTypes, NEW w \in Workers, WorkerStep(w)
  PROVE  RunnerCall
<1> DEFINE r == ticket[w]
<1>1. r \in 0 .. MaxReservations /\ active \subseteq Leases
  BY DEF RunnerTypes, IInv, TypeOK
<1>2. GiveBackTicket(w) => RunnerCall
  <2>1. r # 0 => r \in 1 .. MaxReservations
    BY <1>1, SchedulerAssumption
  <2> QED
    BY <2>1 DEF GiveBackTicket, RunnerCall
<1>3. CASE \/ \E l \in Leases : TakeJob(w, l)
           \/ LeaveLoop(w) \/ SolverReturns(w) \/ AdmitToPool(w) \/ GiveUpWaiting(w)
           \/ InlineSettled(w) \/ ClaimNothing(w) \/ AskAgent(w) \/ ReadReserved(w)
  BY <1>3 DEF TakeJob, LeaveLoop, SolverReturns, AdmitToPool, GiveUpWaiting, InlineSettled,
              ClaimNothing, AskAgent, ReadReserved, RunnerCall
<1>4. CASE FinishLease(w) \/ WorkerFails(w)
  BY <1>1, <1>4 DEF FinishLease, WorkerFails, Finish, RunnerCall
<1>5. CASE ReserveSlot(w)
  BY <1>5 DEF ReserveSlot, RunnerCall
<1>6. CASE \E t \in Tasks : ClaimInitial(w, t) \/ ClaimDirect(w, t)
  BY <1>6 DEF ClaimInitial, ClaimDirect, RunnerCall
<1>7. CASE AbortChoice(w) \/ DropDecision(w)
  BY <1>2, <1>7 DEF AbortChoice, DropDecision
<1>8. CASE \E t \in Tasks : AdmitDecision(w, t)
  <2>1. r # 0 => r \in 1 .. MaxReservations
    BY <1>1, SchedulerAssumption
  <2> QED
    BY <1>8, <2>1 DEF AdmitDecision, RunnerCall
<1> QED
  BY <1>3, <1>4, <1>5, <1>6, <1>7, <1>8 DEF WorkerStep

\* So is every other step.
LEMMA StepCalls ==
  ASSUME IInv, RunnerTypes, [RunnerNext]_allVars
  PROVE  RunnerCall
<1>1. CASE StartWorkers \/ UNCHANGED allVars \/ \E w \in Workers : EarlyProofFails(w)
  BY <1>1 DEF StartWorkers, allVars, EarlyProofFails, RunnerCall
<1>2. CASE \E t \in Tasks : FillOne(t) \/ RetireExhausted(t)
  BY <1>2 DEF FillOne, RetireExhausted, RunnerCall
<1>3. CASE Horizon
  BY <1>3 DEF Horizon, RunnerCall
<1>4. CASE \E w \in Workers : WorkerStep(w)
  BY <1>4, WorkerCalls
<1>5. CASE \E l \in Leases : Settle(l) \/ EarlyProof(l) \/ LateProof(l)
  BY <1>5, WorkerFacts DEF Settle, BeginSettle, JudgeAnswers, SettleFails, EarlyProof, LateProof,
                          AdmitProof, RunnerCall
<1> QED
  BY <1>1, <1>2, <1>3, <1>4, <1>5 DEF RunnerNext, MainStep

\* These calls are steps of the scheduler.
LEMMA CallIsStep == RunnerCall => [Next]_vars
BY SchedulerAssumption DEF RunnerCall, Next, Outcomes

\* No task is opened or reopened, no generation given back.
LEMMA CallGrows ==
  ASSUME IInv, RunnerCall
  PROVE  /\ Eligible' \subseteq Eligible
         /\ \A t \in Tasks : next_generation'[t] >= next_generation[t]
         /\ expired => expired'
         /\ next_reservation_id' >= next_reservation_id
<1>1. /\ solved \in [Tasks -> BOOLEAN] /\ retired \in [Tasks -> BOOLEAN]
      /\ next_generation \in [Tasks -> 1 .. MaxGeneration + 1]
      /\ next_reservation_id \in 1 .. MaxReservations + 1
      /\ \A t \in Tasks : next_generation[t] \in Int
      /\ Known \subseteq Tasks
  BY SchedulerAssumption DEF IInv, TypeOK, Known, Tasks
<1>2. CASE UNCHANGED vars
  BY <1>1, <1>2 DEF vars, Eligible, Known
<1>3. CASE \E t \in Tasks : TaskSolved(t) \/ RetireTask(t)
  <2>1. PICK t \in Tasks : TaskSolved(t) \/ RetireTask(t)
    BY <1>3
  <2>2. /\ known' = known /\ next_generation' = next_generation /\ expired' = expired
        /\ next_reservation_id' = next_reservation_id
    BY <2>1 DEF TaskSolved, RetireTask, slotVars
  <2>3. \A u \in Known : (~solved'[u] /\ ~retired'[u]) => (~solved[u] /\ ~retired[u])
    BY <1>1, <2>1 DEF TaskSolved, RetireTask, Solve, Retire
  <2> QED
    BY <1>1, <2>2, <2>3 DEF Eligible, Known
<1>4. CASE \/ \E t \in Tasks : NextAssignment(t) \/ NextAssignmentFor(t)
           \/ \E r \in 1 .. MaxReservations, t \in Tasks : AdmitReserved(r, t)
  <2>1. PICK t \in Tasks : Admit(t) /\ UNCHANGED next_reservation_id
    BY <1>4 DEF NextAssignment, NextInitial, NextRefill, NextLeastActive, NextRoundRobin,
                NextAssignmentFor, AdmitReserved, slotVars
  <2> QED
    BY <1>1, <2>1 DEF Admit, taskVars, Eligible, Known
<1>5. CASE \/ AcquireReservation(1) \/ HorizonPasses
           \/ \E r \in 1 .. MaxReservations : ReleaseReservation(r)
           \/ \E l \in Leases : Finish(l, "released")
  BY <1>1, <1>5 DEF AcquireReservation, HorizonPasses, ReleaseReservation, Finish, taskVars,
                    slotVars, Eligible, Known
<1> QED
  BY <1>2, <1>3, <1>4, <1>5 DEF RunnerCall
--------------------------------------------------------------------------------
\* A worker that drops its decision claims again or goes idle.
LEMMA DropMoves ==
  ASSUME NEW w \in Workers, DropDecision(w)
  PROVE  at[w] = "thinking" /\ \E to \in {"claiming", "idle"} : at' = [at EXCEPT ![w] = to]
<1>1. \E valid \in BOOLEAN : IF valid /\ ~expired /\ Eligible # {}
                                  /\ (ticket[w] # 0 \/ Occupied < MaxParallel)
                             THEN Go(w, "thinking", "claiming") ELSE Go(w, "thinking", "idle")
  BY Zenon DEF DropDecision
<1> QED
  BY <1>1 DEF Go

\* A worker's own step keeps the types.
LEMMA WorkerTypes ==
  ASSUME IInv, RunnerTypes, NEW w \in Workers, WorkerStep(w)
  PROVE  RunnerTypes'
<1> USE DEF RunnerTypes, Go, Put, Places, Stages
<1>1. next_reservation_id \in 1 .. MaxReservations + 1 /\ MaxReservations \in Nat
  BY SchedulerAssumption DEF IInv, TypeOK
<1>2. CASE \E l \in Leases : TakeJob(w, l)
  <2>1. PICK l \in Leases : TakeJob(w, l)
    BY <1>2
  <2>2. UNCHANGED <<filling, ticket, positive, best, permits>> /\ failed' \in BOOLEAN
    BY <2>1 DEF TakeJob, claimVars, errorVars, Fails
  <2>3. stage' \in [Leases -> Stages] /\ job' \in [Workers -> Leases \cup {NoLease}]
    BY <2>1 DEF TakeJob
  <2>4. at' \in [Workers -> Places]
    BY <2>1 DEF TakeJob
  <2>5. skipped' \subseteq Leases /\ completed' \in [Tasks -> Nat]
    BY <2>1, WorkerFacts DEF TakeJob
  <2> QED
    BY <2>5, <2>4, <2>3, <2>2
<1>3. CASE LeaveLoop(w) \/ SolverReturns(w)
  BY <1>3 DEF LeaveLoop, SolverReturns, claimVars, errorVars, proofVars, Fails
<1>4. CASE FinishLease(w) \/ AdmitToPool(w) \/ GiveUpWaiting(w)
  <2>1. permits' \in Nat
    BY <1>4 DEF FinishLease, AdmitToPool, GiveUpWaiting
  <2>2. at' \in [Workers -> Places] /\ job' \in [Workers -> Leases \cup {NoLease}]
    BY <1>4 DEF FinishLease, AdmitToPool, GiveUpWaiting
  <2>3. stage' \in [Leases -> Stages]
    BY <1>4 DEF FinishLease, AdmitToPool, GiveUpWaiting
  <2> QED
    BY <1>4, <2>1, <2>2, <2>3 DEF FinishLease, AdmitToPool, GiveUpWaiting, claimVars, errorVars,
                                  proofVars
<1>5. CASE InlineSettled(w) \/ WorkerFails(w)
  BY <1>5 DEF InlineSettled, WorkerFails, claimVars, proofVars, errorVars
<1>6. CASE ClaimNothing(w) \/ AskAgent(w) \/ ReadReserved(w)
  BY <1>6 DEF ClaimNothing, AskAgent, ReadReserved, proofVars, errorVars, Fails
<1>7. CASE ReserveSlot(w)
  <2>1. next_reservation_id \in 0 .. MaxReservations
    BY <1>1, <1>7 DEF ReserveSlot, AcquireReservation
  <2> QED
    BY <1>7, <2>1 DEF ReserveSlot, proofVars, errorVars
<1>8. CASE AbortChoice(w) \/ DropDecision(w)
  <2>1. ticket' \in [Workers -> 0 .. MaxReservations] /\ failed' \in BOOLEAN
    <3>1. ticket' = [ticket EXCEPT ![w] = 0]
      BY <1>8 DEF AbortChoice, DropDecision, GiveBackTicket
    <3>2. failed' = failed \/ failed' = TRUE
      BY <1>8 DEF AbortChoice, DropDecision, errorVars, Fails
    <3>3. 0 \in 0 .. MaxReservations
      BY <1>1
    <3> QED
      BY <3>1, <3>2, <3>3 DEF RunnerTypes
  <2>2. \/ at' = [at EXCEPT ![w] = "raising"] \/ at' = [at EXCEPT ![w] = "claiming"]
        \/ at' = [at EXCEPT ![w] = "idle"]
    <3>1. CASE AbortChoice(w)
      BY <3>1 DEF AbortChoice
    <3>2. CASE DropDecision(w)
      BY <3>2, DropMoves
    <3> QED
      BY <1>8, <3>1, <3>2
  <2> QED
    BY <1>8, <2>1, <2>2 DEF AbortChoice, DropDecision, proofVars
<1>9. CASE \E t \in Tasks : ClaimInitial(w, t) \/ ClaimDirect(w, t) \/ AdmitDecision(w, t)
  <2>1. PICK t \in Tasks : Accept(w, t)
    BY <1>9 DEF ClaimInitial, ClaimDirect, AdmitDecision
  <2>2. ticket' \in [Workers -> 0 .. MaxReservations]
    BY <1>1, <1>9 DEF ClaimInitial, ClaimDirect, AdmitDecision
  <2>3. /\ stage' \in [Leases -> Stages] /\ at' \in [Workers -> Places]
        /\ failed' \in BOOLEAN
    BY <2>1 DEF Accept, errorVars, Fails
  <2> QED
    BY <2>1, <2>2, <2>3 DEF Accept, proofVars
<1> QED
  BY <1>2, <1>4, <1>5, <1>6, <1>7, <1>8, <1>9, <1>3 DEF WorkerStep

\* So does every other step.
LEMMA StepTypes ==
  ASSUME IInv, RunnerTypes, [RunnerNext]_allVars
  PROVE  RunnerTypes'
<1> USE DEF Put, Places, Stages
<1>1. CASE StartWorkers \/ Horizon \/ \E w \in Workers : EarlyProofFails(w)
  BY <1>1 DEF RunnerTypes, StartWorkers, Horizon, EarlyProofFails, runnerVars, claimVars, proofVars,
              errorVars, Fails
<1>2. CASE UNCHANGED allVars
  BY <1>2 DEF RunnerTypes, allVars, runnerVars, claimVars, proofVars, errorVars
<1>3. CASE \E t \in Tasks : FillOne(t) \/ RetireExhausted(t)
  BY <1>3 DEF RunnerTypes, FillOne, RetireExhausted, runnerVars, claimVars, proofVars, errorVars
<1>4. CASE \E w \in Workers : WorkerStep(w)
  BY <1>4, WorkerTypes
<1>5. CASE \E l \in Leases : Settle(l) \/ EarlyProof(l) \/ LateProof(l)
  <2>1. PICK l \in Leases : Settle(l) \/ EarlyProof(l) \/ LateProof(l)
    BY <1>5
  <2>2. /\ UNCHANGED <<filling, at, job, ticket>> /\ failed' \in BOOLEAN
        /\ skipped' \subseteq Leases
    BY <2>1 DEF RunnerTypes, Settle, BeginSettle, JudgeAnswers, SettleFails, EarlyProof, LateProof,
                Fails, claimVars, proofVars, errorVars
  <2>3. stage' = stage \/ \E x \in Stages : stage' = [stage EXCEPT ![l] = x]
    BY <2>1 DEF Settle, BeginSettle, JudgeAnswers, SettleFails, EarlyProof, LateProof, Leave
  <2>4. completed' = completed \/ CompleteAttempt(l)
    BY <2>1 DEF Settle, BeginSettle, JudgeAnswers, SettleFails, EarlyProof, LateProof, proofVars
  <2>5. permits' = permits \/ permits' = permits + 1
    BY <2>1 DEF Settle, BeginSettle, JudgeAnswers, SettleFails, EarlyProof, LateProof, Leave
  <2>6. /\ best' = best \/ best' = [best EXCEPT ![TaskOf(l)] = l]
        /\ positive' = positive \/ positive' = positive \cup {l}
    BY <2>1 DEF Settle, BeginSettle, JudgeAnswers, SettleFails, EarlyProof, LateProof, AdmitProof,
                proofVars
  <2>7. /\ stage' \in [Leases -> Stages] /\ completed' \in [Tasks -> Nat] /\ permits' \in Nat
        /\ positive' \subseteq Leases
    BY <2>1, <2>3, <2>4, <2>5, <2>6, WorkerFacts DEF RunnerTypes, CompleteAttempt
  <2>8. best' \in [Tasks -> Leases \cup {Baseline(t) : t \in Tasks}]
    BY <2>1, <2>6, WorkerFacts DEF RunnerTypes
  <2> QED
    BY <2>2, <2>7, <2>8 DEF RunnerTypes
<1> QED
  BY <1>1, <1>2, <1>3, <1>4, <1>5 DEF RunnerNext, MainStep
--------------------------------------------------------------------------------
\* A reservation that is out is one slot.
LEMMA OneSlot ==
  ASSUME TicketsOut, NEW w \in Workers, ticket[w] # 0
  PROVE  TokensOf(ticket[w]) = {<<ticket[w], 1>>} /\ Cardinality(TokensOf(ticket[w])) = 1
<1>1. TokensOf(ticket[w]) = {<<ticket[w], 1>>}
  BY DEF TicketsOut, TokensOf, Ticketed
<1> QED
  BY <1>1, FS_Singleton

\* The tickets stay as they are.
LEMMA TicketsStay ==
  ASSUME TicketsOut, RunnerTypes, IInv, next_reservation_id' >= next_reservation_id,
         UNCHANGED <<ticket, policy, reserved>>, next_reservation_id' \in Int,
         \A w \in Workers : ticket[w] # 0 => at'[w] \in {"unlocked", "thinking"}
  PROVE  TicketsOut'
<1>1. \A w \in Workers : ticket[w] \in Int
  BY SchedulerAssumption DEF RunnerTypes
<1>2. next_reservation_id \in Int
  BY DEF IInv, TypeOK
<1>3. Ticketed' = Ticketed
  BY DEF Ticketed
<1> QED
  BY <1>1, <1>2, <1>3 DEF TicketsOut

\* A worker whose model has thought has no ticket any more.
LEMMA TicketBack ==
  ASSUME TicketsOut, RunnerTypes, IInv, NEW w \in Workers, NEW place,
         ticket' = [ticket EXCEPT ![w] = 0], UNCHANGED <<policy, next_reservation_id>>,
         at' = [at EXCEPT ![w] = place],
         reserved' = IF ticket[w] # 0 THEN reserved \ {<<ticket[w], 1>>} ELSE reserved
  PROVE  TicketsOut'
<1>1. 0 < next_reservation_id
  BY DEF IInv, TypeOK
<1>2. Ticketed' = Ticketed \ {w}
  BY DEF Ticketed, RunnerTypes
<1>3. reserved' = {<<ticket'[v], 1>> : v \in Ticketed'}
  <2>1. \A v \in Ticketed : v # w => ticket'[v] = ticket[v] /\ ticket[v] # ticket[w]
    BY DEF RunnerTypes, TicketsOut, Ticketed
  <2>2. {<<ticket'[v], 1>> : v \in Ticketed'} = {<<ticket[v], 1>> : v \in Ticketed \ {w}}
    BY <1>2, <2>1
  <2>3. CASE ticket[w] = 0
    BY <2>2, <2>3 DEF TicketsOut, Ticketed
  <2>4. CASE ticket[w] # 0
    <3>1. w \in Ticketed
      BY <2>4 DEF Ticketed
    <3>2. reserved \ {<<ticket[w], 1>>} = {<<ticket[v], 1>> : v \in Ticketed \ {w}}
      BY <2>1, <3>1 DEF TicketsOut
    <3> QED
      BY <2>2, <2>4, <3>2
  <2> QED
    BY <2>3, <2>4
<1>4. \A v \in Workers : v # w => ticket'[v] = ticket[v] /\ at'[v] = at[v]
  BY DEF RunnerTypes
<1>5. ticket'[w] = 0
  BY DEF RunnerTypes
<1> QED
  BY <1>1, <1>3, <1>4, <1>5 DEF TicketsOut

\* The tickets are the reservations, whatever a worker does.
LEMMA WorkerTickets ==
  ASSUME IInv, RunnerTypes, TicketsOut, NEW w \in Workers, WorkerStep(w)
  PROVE  TicketsOut'
<1>0. next_reservation_id \in Int /\ 0 < next_reservation_id
  BY DEF IInv, TypeOK
<1>1. ASSUME UNCHANGED <<ticket, policy, reserved, next_reservation_id>>,
             at' = at \/ \E to \in Places : Go(w, at[w], to) /\ ticket[w] = 0
      PROVE  TicketsOut'
  BY <1>0, <1>1, TicketsStay DEF TicketsOut, RunnerTypes, Go
<1>2. ASSUME at[w] \notin {"unlocked", "thinking"} PROVE ticket[w] = 0
  BY <1>2 DEF TicketsOut
<1>3. CASE \E l \in Leases : TakeJob(w, l)
  BY <1>1, <1>2, <1>3 DEF TakeJob, Go, Places, claimVars, vars
<1>4. CASE LeaveLoop(w) \/ SolverReturns(w) \/ FinishLease(w)
  BY <1>1, <1>2, <1>4 DEF LeaveLoop, SolverReturns, FinishLease, Finish, Go, Places, claimVars, vars,
                          slotVars
<1>5. CASE AdmitToPool(w) \/ GiveUpWaiting(w) \/ InlineSettled(w)
  BY <1>1, <1>2, <1>5 DEF AdmitToPool, GiveUpWaiting, InlineSettled, Go, Places, claimVars, vars
<1>6. CASE ClaimNothing(w) \/ AskAgent(w)
  BY <1>1, <1>2, <1>6 DEF ClaimNothing, AskAgent, Go, Places, vars
<1>7. CASE WorkerFails(w)
  BY <1>1, <1>2, <1>7 DEF WorkerFails, Finish, Go, Places, claimVars, vars, slotVars
<1>8. CASE \E t \in Tasks : ClaimInitial(w, t) \/ ClaimDirect(w, t)
  <2>1. PICK t \in Tasks : ClaimInitial(w, t) \/ ClaimDirect(w, t)
    BY <1>8
  <2>2. at[w] = "claiming" /\ ticket[w] = 0
    BY <1>2, <2>1 DEF ClaimInitial, ClaimDirect, Claims, Adaptive
  <2>3. UNCHANGED <<ticket, policy, reserved, next_reservation_id>>
    BY <2>1 DEF ClaimInitial, ClaimDirect, Accept, NextAssignment, NextInitial, NextRefill,
                NextLeastActive, NextRoundRobin, NextAssignmentFor, slotVars
  <2>4. \E to \in Places : Go(w, at[w], to)
    BY <2>1 DEF ClaimInitial, ClaimDirect, Accept, Go, Places
  <2> QED
    BY <1>1, <2>2, <2>3, <2>4
<1>9. CASE ReadReserved(w)
  <2>1. \A v \in Workers : ticket[v] # 0 => at'[v] \in {"unlocked", "thinking"}
    BY <1>9 DEF ReadReserved, Go, TicketsOut, RunnerTypes
  <2> QED
    BY <1>0, <1>9, <2>1, TicketsStay DEF ReadReserved, vars
<1>10. CASE ReserveSlot(w)
  <2> DEFINE r == next_reservation_id
  <2>1. /\ ticket' = [ticket EXCEPT ![w] = r] /\ at' = [at EXCEPT ![w] = "unlocked"]
        /\ policy' = policy /\ policy = "llm_scheduler" /\ r' = r + 1 /\ ticket[w] = 0
        /\ reserved' = reserved \cup ({r} \X (1 .. 1))
    BY <1>2, <1>10 DEF ReserveSlot, AcquireReservation, Adaptive, Go
  <2>2. /\ \A v \in Workers : v # w => ticket'[v] = ticket[v] /\ at'[v] = at[v]
        /\ ticket'[w] = r /\ at'[w] = "unlocked"
    BY <2>1 DEF RunnerTypes
  <2>3. \A v \in Workers : ticket[v] \in Int /\ ticket[v] < r
    BY SchedulerAssumption DEF RunnerTypes, TicketsOut
  <2>4. Ticketed' = Ticketed \cup {w} /\ w \notin Ticketed
    BY <1>0, <2>1, <2>2 DEF Ticketed
  <2>5. {r} \X (1 .. 1) = {<<r, 1>>}
    OBVIOUS
  <2>6. reserved' = {<<ticket'[v], 1>> : v \in Ticketed'}
    BY <2>1, <2>2, <2>4, <2>5 DEF TicketsOut, Ticketed
  <2> QED
    BY <1>0, <2>3, <2>2, <2>1, <2>6 DEF TicketsOut
<1>11. CASE AbortChoice(w) \/ DropDecision(w)
  <2>1. /\ ticket' = [ticket EXCEPT ![w] = 0] /\ policy' = policy
        /\ ticket[w] # 0 => ReleaseReservation(ticket[w])
        /\ ticket[w] = 0 => UNCHANGED vars
    BY <1>11 DEF AbortChoice, DropDecision, GiveBackTicket
  <2>2. \E place \in {"raising", "claiming", "idle"} : at' = [at EXCEPT ![w] = place]
    <3>1. CASE AbortChoice(w)
      BY <3>1 DEF AbortChoice, Go
    <3>2. CASE DropDecision(w)
      BY <3>2, DropMoves
    <3> QED
      BY <1>11, <3>1, <3>2
  <2>3. /\ reserved' = IF ticket[w] # 0 THEN reserved \ {<<ticket[w], 1>>} ELSE reserved
        /\ next_reservation_id' = next_reservation_id
    BY <2>1, OneSlot DEF ReleaseReservation, vars
  <2> QED
    BY <2>1, <2>2, <2>3, TicketBack
<1>12. CASE \E t \in Tasks : AdmitDecision(w, t)
  <2>1. PICK t \in Tasks : AdmitDecision(w, t)
    BY <1>12
  <2>2. ticket' = [ticket EXCEPT ![w] = 0] /\ policy' = policy
    BY <2>1 DEF AdmitDecision, Accept
  <2>3. \E place \in Places : at' = [at EXCEPT ![w] = place]
    BY <2>1 DEF AdmitDecision, Accept, Places
  <2>4. /\ reserved' = IF ticket[w] # 0 THEN reserved \ {<<ticket[w], 1>>} ELSE reserved
        /\ next_reservation_id' = next_reservation_id
    BY <2>1, OneSlot DEF AdmitDecision, AdmitReserved, NextAssignmentFor, slotVars
  <2> QED
    BY <2>2, <2>3, <2>4, TicketBack
<1> QED
  BY <1>3, <1>4, <1>5, <1>6, <1>7, <1>8, <1>9, <1>10, <1>11, <1>12 DEF WorkerStep

\* The other threads do not touch the tickets.
LEMMA StepTickets ==
  ASSUME IInv, RunnerTypes, TicketsOut, Ends, [RunnerNext]_allVars
  PROVE  TicketsOut'
<1>0. next_reservation_id \in Int
  BY DEF IInv, TypeOK
<1>1. CASE \E w \in Workers : WorkerStep(w)
  BY <1>1, WorkerTickets
<1>2. CASE UNCHANGED allVars \/ Horizon \/ \E w \in Workers : EarlyProofFails(w)
  BY <1>0, <1>2, TicketsStay DEF allVars, runnerVars, vars, claimVars, Horizon, EarlyProofFails,
                                 HorizonPasses, slotVars, TicketsOut
<1>3. CASE StartWorkers
  BY <1>0, <1>3, TicketsStay DEF StartWorkers, claimVars, vars, TicketsOut, Ends
<1>4. CASE \E t \in Tasks : FillOne(t) \/ RetireExhausted(t)
  BY <1>0, <1>4, TicketsStay DEF FillOne, RetireExhausted, runnerVars, claimVars, TicketsOut, slotVars,
         NextAssignment, NextInitial, NextRefill, NextLeastActive, NextRoundRobin, RetireTask
<1>5. CASE \E l \in Leases : Settle(l) \/ EarlyProof(l) \/ LateProof(l)
  BY <1>0, <1>5, TicketsStay DEF Settle, BeginSettle, JudgeAnswers, SettleFails, EarlyProof, LateProof,
         AdmitProof, TaskSolved, claimVars, vars, slotVars, TicketsOut
<1> QED
  BY <1>1, <1>2, <1>3, <1>4, <1>5 DEF RunnerNext, MainStep
--------------------------------------------------------------------------------
\* What a step does not change of a lease.
SameLease(l) ==
  /\ l \in active' <=> l \in active
  /\ l[2] >= next_generation'[l[1]] <=> l[2] >= next_generation[l[1]]
  /\ l \in skipped' => l \in skipped

\* A worker moves, and its lease, or one nobody has, moves with it.
LEMMA WorkerAndLease ==
  ASSUME RunnerTypes, JobsFit, StagesFit, failed => failed',
         NEW w \in Workers, NEW place \in Places, at' = [at EXCEPT ![w] = place],
         NEW j \in Leases \cup {NoLease}, job' = [job EXCEPT ![w] = j],
         NEW l \in Leases, NEW s \in Stages, stage' = [stage EXCEPT ![l] = s],
         \A v \in Workers : v # w => job[v] # l /\ (job[v] = j => j = NoLease),
         job[w] \in {l, NoLease}, PlaceFits(w)', StageFits(l)',
         \A k \in Leases : k # l => SameLease(k)
  PROVE  JobsFit' /\ StagesFit'
<1>1. \A v \in Workers : v # w => at'[v] = at[v] /\ job'[v] = job[v]
  BY DEF RunnerTypes
<1>2. at'[w] = place /\ job'[w] = j
  BY DEF RunnerTypes
<1>3. \A k \in Leases : k # l => stage'[k] = stage[k]
  BY DEF RunnerTypes
<1>4. ASSUME NEW v \in Workers, v # w PROVE PlaceFits(v)'
  <2>1. job[v] \in Leases => stage'[job[v]] = stage[job[v]]
    BY <1>3, <1>4
  <2> QED
    BY <1>1, <1>4, <2>1 DEF JobsFit, PlaceFits
<1>5. JobsFit'
  BY <1>1, <1>2, <1>4 DEF JobsFit
<1>6. ASSUME NEW k \in Leases, k # l PROVE StageFits(k)'
  <2>1. stage[k] \in {"running", "yielded"} => \E v \in Workers : job'[v] = k
    BY <1>1, <1>6, WorkerFacts DEF StagesFit, StageFits
  <2> QED
    BY <1>3, <1>6, <2>1 DEF StagesFit, StageFits, SameLease
<1> QED
  BY <1>5, <1>6 DEF StagesFit

\* A worker moves, and no lease.
LEMMA WorkerAlone ==
  ASSUME RunnerTypes, JobsFit, StagesFit, failed => failed',
         NEW w \in Workers, NEW place \in Places, at' = [at EXCEPT ![w] = place],
         NEW j \in {job[w], NoLease}, job' = [job EXCEPT ![w] = j],
         stage' = stage, PlaceFits(w)', \A k \in Leases : SameLease(k),
         j = job[w] \/ stage[job[w]] \notin {"running", "yielded"}
  PROVE  JobsFit' /\ StagesFit'
<1>1. \A v \in Workers : v # w => at'[v] = at[v] /\ job'[v] = job[v]
  BY DEF RunnerTypes
<1>2. at'[w] = place /\ job'[w] = j
  BY DEF RunnerTypes
<1>3. ASSUME NEW v \in Workers, v # w PROVE PlaceFits(v)'
  BY <1>1, <1>3 DEF JobsFit, PlaceFits
<1>4. JobsFit'
  BY <1>1, <1>2, <1>3 DEF JobsFit
<1>5. ASSUME NEW k \in Leases PROVE StageFits(k)'
  <2>1. stage[k] \in {"running", "yielded"} => \E v \in Workers : job'[v] = k
    BY <1>1, <1>2, <1>5 DEF StagesFit, StageFits
  <2> QED
    BY <1>5, <2>1 DEF StagesFit, StageFits, SameLease
<1> QED
  BY <1>4, <1>5 DEF StagesFit

\* A lease moves, and no worker.
LEMMA LeaseAlone ==
  ASSUME RunnerTypes, JobsFit, StagesFit, failed => failed', UNCHANGED <<at, job>>,
         NEW l \in Leases, NEW s \in Stages, stage' = [stage EXCEPT ![l] = s],
         \A v \in Workers : job[v] = l => PlaceFits(v)', StageFits(l)',
         \A k \in Leases : k # l => SameLease(k)
  PROVE  JobsFit' /\ StagesFit'
<1>1. \A k \in Leases : k # l => stage'[k] = stage[k]
  BY DEF RunnerTypes
<1>2. ASSUME NEW v \in Workers, job[v] # l PROVE PlaceFits(v)'
  BY <1>1, <1>2 DEF JobsFit, PlaceFits
<1>3. ASSUME NEW k \in Leases, k # l PROVE StageFits(k)'
  BY <1>1, <1>3 DEF StagesFit, StageFits, SameLease
<1> QED
  BY <1>2, <1>3 DEF JobsFit, StagesFit

\* An admitted lease is one nobody had, and all others are as they were.
LEMMA AdmittedIsNew ==
  ASSUME IInv, RunnerTypes, JobsFit, StagesFit, NEW t \in Tasks, Admit(t), skipped' = skipped
  PROVE  /\ NextLease(t) \in Leases /\ stage[NextLease(t)] = "none" /\ NextLease(t) \in active'
         /\ \A v \in Workers : job[v] # NextLease(t)
         /\ NextLease(t) \notin skipped
         /\ ~(NextLease(t)[2] >= next_generation'[NextLease(t)[1]])
         /\ \A k \in Leases : k # NextLease(t) => SameLease(k)
<1> DEFINE l == NextLease(t)
<1>1. l = <<t, next_generation[t]>> /\ l \in Leases /\ l[1] = t /\ l[2] = next_generation[t]
  BY DEF NextLease, IInv, TypeOK, Leases, Admit
<1>2. next_generation[t] \in Int /\ next_generation'[t] = next_generation[t] + 1
  BY DEF IInv, TypeOK, Admit
<1>3. stage[l] = "none" /\ l \notin skipped
  BY <1>1, <1>2 DEF StagesFit, StageFits
<1>4. \A v \in Workers : job[v] # l
  BY <1>1, <1>3, WorkerFacts DEF JobsFit, PlaceFits, RunnerTypes, Places
<1>5. ASSUME NEW k \in Leases, k # l PROVE SameLease(k)
  <2>1. k \in active' <=> k \in active
    BY <1>1, <1>5 DEF Admit
  <2>2. k[1] \in Tasks /\ k[2] \in Int /\ (k[1] = t => k[2] # next_generation[t])
    BY <1>1, <1>5, WorkerFacts
  <2>3. k[2] >= next_generation'[k[1]] <=> k[2] >= next_generation[k[1]]
    <3>1. CASE k[1] = t
      BY <1>2, <2>2, <3>1
    <3>2. CASE k[1] # t
      BY <2>2, <3>2 DEF Admit, IInv, TypeOK
    <3> QED
      BY <3>1, <3>2
  <2> QED
    BY <2>1, <2>3 DEF SameLease
<1> QED
  BY <1>1, <1>2, <1>3, <1>4, <1>5 DEF Admit

\* Every admission that the runner asks for admits a lease.
LEMMA AdmissionAdmits ==
  /\ \A t \in Tasks : NextAssignment(t) \/ NextAssignmentFor(t) => Admit(t) /\ t \in Eligible
  /\ \A r \in 1 .. MaxReservations, t \in Tasks : AdmitReserved(r, t) => Admit(t) /\ t \in Eligible
BY DEF NextAssignment, NextInitial, NextRefill, NextLeastActive, NextRoundRobin, IsFirst,
       PendingInitial, Underfilled, NextAssignmentFor, AdmitReserved

\* A claim that succeeds.
LEMMA ClaimAdmits ==
  ASSUME IInv, RunnerTypes, NEW w \in Workers, NEW t \in Tasks,
         ClaimInitial(w, t) \/ ClaimDirect(w, t) \/ AdmitDecision(w, t)
  PROVE  /\ Admit(t) /\ Accept(w, t) /\ t \in Eligible /\ NoneExhausted
         /\ at[w] \in {"claiming", "thinking"} /\ ~expired
<1>1. ticket[w] # 0 => ticket[w] \in 1 .. MaxReservations
  BY SchedulerAssumption DEF RunnerTypes
<1>2. CASE ClaimInitial(w, t) \/ ClaimDirect(w, t)
  <2>1. ~expired
    BY <1>2 DEF ClaimInitial, ClaimDirect, NextAssignment, NextInitial, NextRefill, NextLeastActive,
                NextRoundRobin, NextAssignmentFor, MayAdmit
  <2> QED
    BY <1>2, <2>1, AdmissionAdmits DEF ClaimInitial, ClaimDirect, Claims, Adaptive
<1>3. CASE AdmitDecision(w, t)
  <2>1. ~expired
    BY <1>3 DEF AdmitDecision, AdmitReserved, NextAssignmentFor, MayAdmit
  <2> QED
    BY <1>1, <1>3, <2>1, AdmissionAdmits DEF AdmitDecision, Decided
<1> QED
  BY <1>2, <1>3

\* Places and stages agree after a worker's step.
LEMMA WorkerFits ==
  ASSUME IInv, RunnerTypes, JobsFit, StagesFit, NEW w \in Workers, WorkerStep(w)
  PROVE  JobsFit' /\ StagesFit'
<1>1. CASE \E l \in Leases : TakeJob(w, l)
  <2>1. PICK l \in Leases : TakeJob(w, l)
    BY <1>1
  <2>2. /\ stage[l] = "queued" /\ stage' = [stage EXCEPT ![l] = "running"] /\ at[w] = "idle"
        /\ job' = [job EXCEPT ![w] = l] /\ UNCHANGED <<active, next_generation>>
        /\ failed => failed'
    BY <2>1 DEF TakeJob, Put, Go, vars, Fails, errorVars
  <2>3. /\ skipped' \subseteq skipped \cup {l}
        /\ \E place \in {"busy", "finishing", "raising"} :
              at' = [at EXCEPT ![w] = place] /\ (place = "raising" => failed')
    BY <2>1 DEF TakeJob, Go, Fails
  <2>4. PICK place \in {"busy", "finishing", "raising"} :
          at' = [at EXCEPT ![w] = place] /\ (place = "raising" => failed')
    BY <2>3
  <2>5. job[w] = NoLease /\ \A v \in Workers : job[v] # l
    BY <2>2, WorkerFacts DEF JobsFit, PlaceFits, RunnerTypes, Places
  <2>6. job'[w] = l /\ stage'[l] = "running" /\ at'[w] = place
    BY <2>2, <2>4 DEF RunnerTypes
  <2>7. PlaceFits(w)'
    BY <2>4, <2>6 DEF PlaceFits
  <2>8. StageFits(l)'
    BY <2>2, <2>6 DEF StagesFit, StageFits
  <2>9. \A k \in Leases : k # l => SameLease(k)
    BY <2>2, <2>3 DEF SameLease
  <2> HIDE DEF SameLease
  <2> QED
    BY <2>2, <2>4, <2>5, <2>7, <2>8, <2>9, WorkerAndLease DEF Places, Stages
<1>2. CASE \/ LeaveLoop(w) \/ SolverReturns(w) \/ ClaimNothing(w) \/ AskAgent(w)
           \/ ReserveSlot(w) \/ ReadReserved(w) \/ AbortChoice(w) \/ DropDecision(w)
  <2>1. /\ UNCHANGED <<active, next_generation, stage, job, skipped>>
        /\ failed => failed'
    <3>1. CASE LeaveLoop(w) \/ SolverReturns(w)
      BY <3>1 DEF LeaveLoop, SolverReturns, vars, proofVars, errorVars, Fails
    <3>2. CASE ClaimNothing(w) \/ AskAgent(w) \/ ReserveSlot(w) \/ ReadReserved(w)
      BY <3>2 DEF ClaimNothing, AskAgent, ReserveSlot, ReadReserved, AcquireReservation, vars,
                  proofVars, errorVars, Fails
    <3>3. CASE AbortChoice(w) \/ DropDecision(w)
      BY <3>3 DEF AbortChoice, DropDecision, GiveBackTicket, ReleaseReservation, vars,
                  proofVars, errorVars, Fails
    <3> QED
      BY <1>2, <3>1, <3>2, <3>3
  <2>2. \/ /\ at[w] = "busy" /\ \E to \in {"finishing", "raising"} : at' = [at EXCEPT ![w] = to]
           /\ at'[w] = "raising" => failed'
        \/ /\ at[w] \in {"idle", "claiming", "unlocked", "thinking"}
           /\ \E to \in {"ended", "idle", "thinking", "unlocked", "claiming", "raising"} :
                 at' = [at EXCEPT ![w] = to]
           /\ at'[w] = "raising" => failed'
    <3>1. CASE LeaveLoop(w) \/ SolverReturns(w)
      BY <3>1 DEF LeaveLoop, SolverReturns, Go, Fails, RunnerTypes
    <3>2. CASE ClaimNothing(w) \/ AskAgent(w) \/ ReserveSlot(w) \/ ReadReserved(w)
      BY <3>2 DEF ClaimNothing, AskAgent, ReserveSlot, ReadReserved, Go, RunnerTypes
    <3>3. CASE AbortChoice(w)
      BY <3>3 DEF AbortChoice, Go, Fails, RunnerTypes
    <3>4. CASE DropDecision(w)
      BY <3>4, DropMoves DEF RunnerTypes
    <3> QED
      BY <1>2, <3>1, <3>2, <3>3, <3>4
  <2>3. PICK to \in Places : at' = [at EXCEPT ![w] = to]
    BY <2>2 DEF Places
  <2>4. at'[w] = to /\ at[w] \in {"busy", "idle", "claiming", "unlocked", "thinking"}
    BY <2>2, <2>3 DEF RunnerTypes
  <2>5. PlaceFits(w)'
    BY <2>1, <2>2, <2>4 DEF JobsFit, PlaceFits, RunnerTypes
  <2>6. \A k \in Leases : SameLease(k)
    BY <2>1 DEF SameLease
  <2>7. job' = [job EXCEPT ![w] = job[w]]
    BY <2>1 DEF RunnerTypes
  <2> QED
    BY <2>1, <2>3, <2>5, <2>6, <2>7, WorkerAlone
<1>3. CASE FinishLease(w) \/ AdmitToPool(w) \/ GiveUpWaiting(w)
  <2>1. PICK l \in Leases :
           /\ l = job[w] /\ at[w] \in {"finishing", "waiting"} /\ skipped' = skipped
           /\ next_generation' = next_generation /\ failed' = failed
    <3>1. at[w] \in {"finishing", "waiting"}
      BY <1>3 DEF FinishLease, AdmitToPool, GiveUpWaiting, Go
    <3>2. job[w] \in Leases
      BY <3>1 DEF JobsFit, PlaceFits
    <3> QED
      BY <1>3, <3>1, <3>2 DEF FinishLease, AdmitToPool, GiveUpWaiting, proofVars, Finish, vars,
                              errorVars
  <2>2. \A v \in Workers : v # w => job[v] # l
    BY <2>1, WorkerFacts DEF JobsFit
  <2>3. CASE FinishLease(w)
    <3>1. /\ at' = [at EXCEPT ![w] = "waiting"] /\ job' = [job EXCEPT ![w] = l]
          /\ stage' = [stage EXCEPT ![l] = "yielded"] /\ active' = active \ {l}
          /\ at[w] = "finishing"
      BY <2>1, <2>3 DEF FinishLease, Go, Put, Finish, RunnerTypes
    <3>2. stage[l] = "running" /\ stage'[l] = "yielded" /\ at'[w] = "waiting" /\ job'[w] = l
      BY <2>1, <3>1 DEF RunnerTypes, JobsFit, PlaceFits
    <3>3. PlaceFits(w)' /\ StageFits(l)'
      BY <2>1, <3>1, <3>2 DEF PlaceFits, StagesFit, StageFits
    <3>4. \A k \in Leases : k # l => SameLease(k)
      BY <2>1, <3>1 DEF SameLease
    <3> QED
      BY <2>1, <2>2, <3>1, <3>3, <3>4, WorkerAndLease, WorkerFacts DEF Places, Stages
  <2>4. CASE AdmitToPool(w) \/ (GiveUpWaiting(w) /\ stage' # stage)
    <3>1. PICK place \in {"claiming", "settling"}, j \in {l, NoLease} :
             /\ at' = [at EXCEPT ![w] = place] /\ job' = [job EXCEPT ![w] = j]
             /\ stage' = [stage EXCEPT ![l] = "settling"] /\ active' = active
             /\ at[w] = "waiting" /\ (place = "settling" <=> j = l)
      BY <2>1, <2>4, WorkerFacts DEF AdmitToPool, GiveUpWaiting, Go, Put, vars, RunnerTypes
    <3>2. stage[l] = "yielded" /\ stage'[l] = "settling" /\ at'[w] = place /\ job'[w] = j
      BY <2>1, <3>1 DEF RunnerTypes, JobsFit, PlaceFits
    <3>3. PlaceFits(w)' /\ StageFits(l)'
      BY <2>1, <3>1, <3>2 DEF PlaceFits, StagesFit, StageFits
    <3>4. \A k \in Leases : k # l => SameLease(k)
      BY <2>1, <3>1 DEF SameLease
    <3> QED
      BY <2>1, <2>2, <3>1, <3>3, <3>4, WorkerAndLease DEF Places, Stages
  <2>5. CASE GiveUpWaiting(w) /\ stage' = stage
    <3>1. /\ at' = [at EXCEPT ![w] = "raising"] /\ failed /\ job' = job /\ active' = active
      BY <2>1, <2>5, WorkerFacts DEF GiveUpWaiting, Go, Put, vars, RunnerTypes, JobsFit, PlaceFits
    <3>2. stage[l] = "yielded" /\ at'[w] = "raising" /\ job' = [job EXCEPT ![w] = l]
      BY <2>1, <2>5, <3>1 DEF RunnerTypes, JobsFit, PlaceFits, GiveUpWaiting, Go
    <3>3. PlaceFits(w)'
      BY <2>1, <2>5, <3>1, <3>2 DEF PlaceFits
    <3>4. \A k \in Leases : SameLease(k)
      BY <2>1, <3>1 DEF SameLease
    <3> QED
      BY <2>1, <2>5, <3>1, <3>2, <3>3, <3>4, WorkerAlone DEF Places
  <2> QED
    BY <1>3, <2>3, <2>4, <2>5
<1>4. CASE InlineSettled(w)
  <2>1. /\ at' = [at EXCEPT ![w] = "claiming"] /\ job' = [job EXCEPT ![w] = NoLease]
        /\ stage' = stage /\ stage[job[w]] \in {"done", "lost"}
        /\ UNCHANGED <<active, next_generation, skipped, failed>>
    BY <1>4 DEF InlineSettled, Go, vars, proofVars, errorVars
  <2>2. PlaceFits(w)'
    BY <2>1 DEF PlaceFits, RunnerTypes
  <2>3. \A k \in Leases : SameLease(k)
    BY <2>1 DEF SameLease
  <2> QED
    BY <2>1, <2>2, <2>3, WorkerAlone DEF Places
<1>5. CASE \E t \in Tasks : ClaimInitial(w, t) \/ ClaimDirect(w, t) \/ AdmitDecision(w, t)
  <2>1. PICK t \in Tasks : ClaimInitial(w, t) \/ ClaimDirect(w, t) \/ AdmitDecision(w, t)
    BY <1>5
  <2>2. Admit(t) /\ Accept(w, t) /\ at[w] \in {"claiming", "thinking"}
    BY <2>1, ClaimAdmits
  <2>a. PICK l : l = NextLease(t)
    OBVIOUS
  <2>3. PICK place \in {"idle", "raising"}, s \in {"queued", "lost"} :
          /\ at' = [at EXCEPT ![w] = place] /\ stage' = [stage EXCEPT ![l] = s]
          /\ (s = "lost" <=> place = "raising") /\ (place = "raising" => failed')
    BY <2>2, <2>a DEF Accept, Put, Fails
  <2>4. job' = job /\ skipped' = skipped /\ (failed => failed')
    BY <2>2 DEF Accept, proofVars, errorVars, Fails
  <2>5. /\ l \in Leases /\ stage[l] = "none" /\ l \in active' /\ l \notin skipped
        /\ ~(l[2] >= next_generation'[l[1]])
        /\ \A v \in Workers : job[v] # l
        /\ \A k \in Leases : k # l => SameLease(k)
    BY <2>2, <2>4, <2>a, AdmittedIsNew
  <2>6. job[w] = NoLease /\ job' = [job EXCEPT ![w] = NoLease]
    BY <2>2, <2>4 DEF JobsFit, PlaceFits, RunnerTypes
  <2>7. at'[w] = place /\ stage'[l] = s /\ job'[w] = NoLease
    BY <2>3, <2>5, <2>6 DEF RunnerTypes
  <2>8. PlaceFits(w)'
    BY <2>3, <2>7 DEF PlaceFits
  <2>9. StageFits(l)'
    BY <2>3, <2>4, <2>5, <2>7 DEF StageFits
  <2> QED
    BY <2>3, <2>4, <2>5, <2>6, <2>8, <2>9, WorkerAndLease DEF Places, Stages
<1>6. CASE WorkerFails(w)
  <2>a. PICK l : l = job[w]
    OBVIOUS
  <2>1. /\ at' = [at EXCEPT ![w] = "ended"] /\ job' = [job EXCEPT ![w] = NoLease]
        /\ next_generation' = next_generation /\ skipped' = skipped /\ failed' = failed /\ failed
        /\ active' = active \ {l} /\ at[w] = "raising"
    BY <1>6, <2>a DEF WorkerFails, Go, Finish, vars, proofVars, errorVars, JobsFit, PlaceFits
  <2>2. PlaceFits(w)'
    BY <2>1 DEF PlaceFits, RunnerTypes
  <2>3. CASE l = NoLease
    <3>1. stage' = stage /\ active' = active
      BY <1>6, <2>1, <2>3, <2>a, WorkerFacts DEF WorkerFails, IInv, TypeOK
    <3>2. \A k \in Leases : SameLease(k)
      BY <2>1, <3>1 DEF SameLease
    <3> QED
      BY <2>3, <2>2, <2>1, <2>a, <3>1, <3>2, WorkerAlone DEF Places
  <2>4. CASE l # NoLease
    <3>1. /\ l \in Leases /\ stage' = [stage EXCEPT ![l] = "lost"]
          /\ stage[l] \in {"running", "yielded"}
      BY <1>6, <2>1, <2>4, <2>a DEF WorkerFails, Put, JobsFit, PlaceFits
    <3>2. \A v \in Workers : v # w => job[v] # l
      BY <2>4, <2>a DEF JobsFit
    <3>3. StageFits(l)'
      BY <2>1, <3>1 DEF StagesFit, StageFits, RunnerTypes
    <3>4. \A k \in Leases : k # l => SameLease(k)
      BY <2>1 DEF SameLease
    <3> QED
      BY <2>1, <2>2, <2>a, <3>1, <3>2, <3>3, <3>4, WorkerAndLease DEF Places, Stages
  <2> QED
    BY <2>3, <2>4
<1> QED
  BY <1>1, <1>2, <1>3, <1>4, <1>5, <1>6 DEF WorkerStep

\* And after every other step.
LEMMA StepFits ==
  ASSUME IInv, RunnerTypes, JobsFit, StagesFit, Ends, [RunnerNext]_allVars
  PROVE  JobsFit' /\ StagesFit'
<1>1. CASE \E w \in Workers : WorkerStep(w)
  BY <1>1, WorkerFits
<1>2. ASSUME UNCHANGED <<at, job, stage, active, next_generation, skipped>>,
             failed => failed'
      PROVE  JobsFit' /\ StagesFit'
  BY <1>2 DEF JobsFit, StagesFit, PlaceFits, StageFits
<1>3. CASE \/ UNCHANGED allVars \/ Horizon \/ \E t \in Tasks : RetireExhausted(t)
           \/ \E w \in Workers : EarlyProofFails(w)
  BY <1>2, <1>3 DEF allVars, runnerVars, vars, Horizon, HorizonPasses, RetireExhausted, RetireTask,
                    EarlyProofFails, proofVars, Fails
<1>4. CASE \E l \in Leases : EarlyProof(l) \/ LateProof(l)
  BY <1>2, <1>4 DEF EarlyProof, LateProof, AdmitProof, TaskSolved, errorVars
<1>5. CASE StartWorkers
  <2>1. UNCHANGED <<job, stage, active, next_generation, skipped, failed>>
    BY <1>5 DEF StartWorkers, vars, proofVars, errorVars
  <2>2. \A w \in Workers : at[w] = "unborn" /\ at'[w] \in {"idle", "ended"}
    BY <1>5 DEF StartWorkers, Ends
  <2>3. \A w \in Workers : PlaceFits(w)'
    BY <2>1, <2>2 DEF JobsFit, PlaceFits
  <2> QED
    BY <2>1, <2>3 DEF JobsFit, StagesFit, StageFits
<1>6. CASE \E t \in Tasks : FillOne(t)
  <2>1. PICK t \in Tasks : FillOne(t)
    BY <1>6
  <2>2. PICK l : l = NextLease(t)
    OBVIOUS
  <2>3. /\ Admit(t) /\ stage' = [stage EXCEPT ![l] = "queued"]
        /\ UNCHANGED <<at, job, skipped, failed>>
    BY <2>1, <2>2, AdmissionAdmits DEF FillOne, Put, proofVars, errorVars
  <2>4. /\ l \in Leases /\ l \in active' /\ l \notin skipped
        /\ ~(l[2] >= next_generation'[l[1]])
        /\ \A v \in Workers : job[v] # l
        /\ \A k \in Leases : k # l => SameLease(k)
    BY <2>2, <2>3, AdmittedIsNew
  <2>5. StageFits(l)'
    BY <2>3, <2>4 DEF StageFits, RunnerTypes
  <2> QED
    BY <2>3, <2>4, <2>5, LeaseAlone DEF Stages
<1>7. CASE \E l \in Leases : Settle(l)
  <2>1. PICK l \in Leases : Settle(l)
    BY <1>7
  <2>2. PICK s \in {"judging", "done", "lost"} :
           /\ stage' = [stage EXCEPT ![l] = s] /\ (s = "lost" => failed')
    BY <2>1 DEF Settle, BeginSettle, JudgeAnswers, SettleFails, Leave, Put, Fails
  <2>3. /\ UNCHANGED <<at, job, active, next_generation>>
        /\ failed => failed'
        /\ stage[l] \in {"settling", "judging"}
        /\ skipped' \subseteq skipped
        /\ stage[l] = "settling" => l \notin skipped'
    BY <2>1 DEF Settle, BeginSettle, JudgeAnswers, SettleFails, Fails, AdmitProof, TaskSolved, vars,
                proofVars, errorVars
  <2>4. l \notin skipped' /\ stage'[l] = s
    BY <2>2, <2>3 DEF StagesFit, StageFits, RunnerTypes
  <2>5. ASSUME NEW v \in Workers, job[v] = l PROVE PlaceFits(v)'
    <3>1. at[v] = "settling"
      BY <2>3, <2>5, WorkerFacts DEF JobsFit, PlaceFits, RunnerTypes, Places
    <3> QED
      BY <2>5, <2>4, <2>3, <2>2, <3>1 DEF PlaceFits
  <2>6. StageFits(l)'
    BY <2>2, <2>3, <2>4 DEF StagesFit, StageFits
  <2>7. \A k \in Leases : k # l => SameLease(k)
    BY <2>3 DEF SameLease
  <2> QED
    BY <2>2, <2>3, <2>5, <2>6, <2>7, LeaseAlone DEF Stages
<1> QED
  BY <1>1, <1>3, <1>4, <1>5, <1>6, <1>7 DEF RunnerNext, MainStep
--------------------------------------------------------------------------------
\* How far the run as a whole has come.
LEMMA StepProgress ==
  ASSUME IInv, RunnerTypes, RunnerNext
  PROVE  /\ failed => failed'
         /\ filling' => filling
         /\ filling /\ ~filling' => StartWorkers
<1>1. CASE \E w \in Workers : WorkerStep(w)
  BY <1>1 DEF WorkerStep, TakeJob, LeaveLoop, SolverReturns, FinishLease, AdmitToPool, GiveUpWaiting,
              InlineSettled, ClaimNothing, AskAgent, ReserveSlot, ClaimInitial, ClaimDirect,
              ReadReserved, AbortChoice, DropDecision, AdmitDecision, Accept, WorkerFails,
              Fails, errorVars
<1>2. CASE Horizon \/ \E t \in Tasks : FillOne(t) \/ RetireExhausted(t)
  BY <1>2 DEF Horizon, FillOne, RetireExhausted, runnerVars, errorVars
<1>3. CASE StartWorkers \/ \E w \in Workers : EarlyProofFails(w)
  BY <1>3 DEF StartWorkers, EarlyProofFails, errorVars, Fails
<1>4. CASE \E l \in Leases : Settle(l) \/ EarlyProof(l) \/ LateProof(l)
  BY <1>4 DEF Settle, BeginSettle, JudgeAnswers, SettleFails, EarlyProof, LateProof, errorVars, Fails
<1> QED
  BY <1>1, <1>2, <1>3, <1>4 DEF RunnerNext, MainStep

\* Nothing runs during the fill, and a run whose workers have ended has an empty queue.
LEMMA StepEnds ==
  ASSUME IInv, RunnerTypes, JobsFit, StagesFit, Ends, RunnerNext
  PROVE  Ends'
<1>1. ASSUME filling'
      PROVE  /\ ~failed' /\ \A w \in Workers : at'[w] = "unborn"
             /\ \A l \in Leases : stage'[l] \in {"none", "queued"}
  <2>1. /\ filling /\ ~failed /\ \A w \in Workers : at[w] = "unborn"
        /\ \A l \in Leases : stage[l] \in {"none", "queued"}
    BY <1>1, StepProgress DEF Ends
  <2>2. CASE \E t \in Tasks : FillOne(t)
    BY <2>1, <2>2 DEF FillOne, Put, errorVars, RunnerTypes
  <2>3. CASE Horizon \/ \E t \in Tasks : RetireExhausted(t)
    <3>1. UNCHANGED <<at, stage, failed>>
      BY <2>3 DEF Horizon, RetireExhausted, runnerVars, errorVars
    <3> QED
      BY <2>1, <3>1
  <2>4. ~StartWorkers
    BY <1>1 DEF StartWorkers
  <2>5. \A w \in Workers : ~WorkerStep(w)
    BY <2>1 DEF WorkerStep, TakeJob, LeaveLoop, SolverReturns, FinishLease, AdmitToPool,
              GiveUpWaiting, InlineSettled, ClaimNothing, AskAgent, ReserveSlot, ClaimInitial,
              ClaimDirect, ReadReserved, AbortChoice, DropDecision, AdmitDecision, WorkerFails,
              Go, Adaptive, Claims, Decided
  <2>6. \A w \in Workers : ~EarlyProofFails(w)
    BY <2>1 DEF EarlyProofFails
  <2>7. \A l \in Leases : ~Settle(l) /\ ~EarlyProof(l) /\ ~LateProof(l)
    BY <2>1 DEF Settle, BeginSettle, JudgeAnswers, SettleFails, EarlyProof, LateProof, Open
  <2> QED
    BY <2>7, <2>6, <2>5, <2>4, <2>3, <2>2 DEF RunnerNext, MainStep
<1>2. ASSUME \A w \in Workers : at'[w] = "ended", ~failed' PROVE Queued' = {}
  <2>1. ~failed /\ Workers # {}
    BY <1>2, StepProgress, SchedulerAssumption DEF Workers
  <2>2. CASE StartWorkers
    <3>1. \A w \in Workers : ~(w <= Cardinality(active))
      BY <1>2, <2>2 DEF StartWorkers
    <3>2. IsFiniteSet(active) /\ Cardinality(active) \in Nat /\ 1 \in Workers
      BY FiniteSlots, SchedulerAssumption DEF IInv, Workers
    <3>3. active = {}
      BY <3>1, <3>2, FS_EmptySet
    <3>4. UNCHANGED <<active, stage>>
      BY <2>2 DEF StartWorkers, vars
    <3> QED
      BY <3>3, <3>4 DEF Queued, StagesFit, StageFits
  <2>3. CASE \A w \in Workers : at[w] = "ended"
    <3>1. Queued = {}
      BY <2>1, <2>3 DEF Ends
    <3>2. ASSUME NEW t \in Tasks, FillOne(t) PROVE FALSE
      BY <2>1, <2>3, <3>2 DEF FillOne, Ends
    <3>3. \A w \in Workers : ~WorkerStep(w)
      BY <2>3 DEF WorkerStep, TakeJob, LeaveLoop, SolverReturns, FinishLease, AdmitToPool,
              GiveUpWaiting, InlineSettled, ClaimNothing, AskAgent, ReserveSlot, ClaimInitial,
              ClaimDirect, ReadReserved, AbortChoice, DropDecision, AdmitDecision, WorkerFails,
              Go, Adaptive, Claims, Decided
    <3>4. CASE StartWorkers
      BY <2>2, <3>4
    <3>5. CASE Horizon \/ \E t \in Tasks : RetireExhausted(t)
      BY <3>1, <3>5 DEF Horizon, RetireExhausted, runnerVars, Queued
    <3>6. CASE \E w \in Workers : EarlyProofFails(w)
      BY <3>1, <3>6 DEF EarlyProofFails, Queued
    <3>7. CASE \E l \in Leases : Settle(l) \/ EarlyProof(l) \/ LateProof(l)
      BY <3>1, <3>7 DEF Settle, BeginSettle, JudgeAnswers, SettleFails, EarlyProof, LateProof, Queued,
                        Leave, Put, RunnerTypes
    <3> QED
      BY <3>2, <3>3, <3>4, <3>5, <3>6, <3>7 DEF RunnerNext, MainStep
  <2>4. CASE ~StartWorkers /\ \E w \in Workers : at[w] # "ended"
    <3>1. at' # at
      BY <1>2, <2>4
    <3>2. PICK w \in Workers : WorkerStep(w)
      BY <2>4, <3>1 DEF RunnerNext, MainStep, FillOne, Horizon, RetireExhausted, runnerVars,
                        EarlyProofFails, Settle, BeginSettle, JudgeAnswers, SettleFails, EarlyProof,
                        LateProof
    <3>3. at'[w] = "ended"
      BY <1>2
    <3>4. CASE LeaveLoop(w)
      BY <3>4 DEF LeaveLoop, Queued
    <3>5. CASE WorkerFails(w)
      BY <2>1, <3>5 DEF WorkerFails, Go, JobsFit, PlaceFits
    <3>6. CASE DropDecision(w)
      BY <3>3, <3>6, DropMoves DEF RunnerTypes
    <3>7. CASE AbortChoice(w) \/ \E l \in Leases : TakeJob(w, l)
      BY <3>3, <3>7 DEF AbortChoice, TakeJob, Go, RunnerTypes
    <3>8. CASE \/ SolverReturns(w) \/ FinishLease(w) \/ AdmitToPool(w) \/ GiveUpWaiting(w)
               \/ InlineSettled(w) \/ ClaimNothing(w) \/ AskAgent(w) \/ ReserveSlot(w)
               \/ ReadReserved(w)
      BY <3>3, <3>8 DEF SolverReturns, FinishLease, AdmitToPool, GiveUpWaiting, InlineSettled,
                        ClaimNothing, AskAgent, ReserveSlot, ReadReserved, Go, RunnerTypes
    <3>9. CASE \E t \in Tasks : ClaimInitial(w, t) \/ ClaimDirect(w, t) \/ AdmitDecision(w, t)
      BY <3>3, <3>9 DEF ClaimInitial, ClaimDirect, AdmitDecision, Accept, RunnerTypes
    <3> QED
      BY <3>2, <3>4, <3>5, <3>6, <3>7, <3>8, <3>9 DEF WorkerStep
  <2> QED
    BY <2>2, <2>3, <2>4
<1> QED
  BY <1>1, <1>2 DEF Ends
--------------------------------------------------------------------------------
\* A lease is only given out for a task that has attempts left.
LEMMA StepAdmits ==
  ASSUME IInv, RunnerTypes, RunnerNext
  PROVE  \/ next_generation' = next_generation
         \/ \E t \in Tasks : Admit(t) /\ t \in Eligible /\ NoneExhausted
<1>1. CASE \E w \in Workers : WorkerStep(w)
  <2>1. PICK w \in Workers : WorkerStep(w)
    BY <1>1
  <2>2. CASE \E t \in Tasks : ClaimInitial(w, t) \/ ClaimDirect(w, t) \/ AdmitDecision(w, t)
    BY <2>2, ClaimAdmits
  <2>3. CASE FinishLease(w) \/ WorkerFails(w) \/ \E l \in Leases : TakeJob(w, l)
    BY <2>3 DEF FinishLease, WorkerFails, TakeJob, Finish, vars
  <2>4. CASE \/ LeaveLoop(w) \/ SolverReturns(w) \/ AdmitToPool(w) \/ GiveUpWaiting(w)
             \/ InlineSettled(w) \/ ClaimNothing(w) \/ AskAgent(w) \/ ReserveSlot(w)
             \/ ReadReserved(w) \/ AbortChoice(w) \/ DropDecision(w)
    BY <2>4 DEF LeaveLoop, SolverReturns, AdmitToPool, GiveUpWaiting, InlineSettled, ClaimNothing,
                AskAgent, ReserveSlot, ReadReserved, AbortChoice, DropDecision, GiveBackTicket,
                AcquireReservation, ReleaseReservation, vars
  <2> QED
    BY <2>4, <2>3, <2>2, <2>1 DEF WorkerStep
<1>2. CASE StartWorkers \/ Horizon \/ \E w \in Workers : EarlyProofFails(w)
  BY <1>2 DEF StartWorkers, Horizon, HorizonPasses, EarlyProofFails, vars
<1>3. CASE \E t \in Tasks : FillOne(t) \/ RetireExhausted(t)
  BY <1>3, AdmissionAdmits DEF FillOne, RetireExhausted, RetireTask
<1>4. CASE \E l \in Leases : Settle(l) \/ EarlyProof(l) \/ LateProof(l)
  BY <1>4 DEF Settle, BeginSettle, JudgeAnswers, SettleFails, EarlyProof, LateProof, AdmitProof,
              TaskSolved, vars
<1> QED
  BY <1>1, <1>2, <1>3, <1>4 DEF RunnerNext, MainStep

\* So no task gets more attempts than it may have.
LEMMA StepCap ==
  ASSUME IInv, RunnerTypes, AttemptCap, RunnerNext
  PROVE  AttemptCap'
<1> SUFFICES ASSUME MaxAttempts > 0, NEW u \in Tasks PROVE next_generation'[u] - 1 <= MaxAttempts
  BY DEF AttemptCap, Attempts
<1>1. /\ next_generation \in [Tasks -> 1 .. MaxGeneration + 1]
      /\ next_generation[u] \in Int /\ next_generation[u] - 1 <= MaxAttempts /\ MaxAttempts \in Nat
  BY RunnerAssumption DEF IInv, TypeOK, AttemptCap, Attempts
<1>2. CASE next_generation' = next_generation
  BY <1>1, <1>2
<1>3. CASE \E t \in Tasks : Admit(t) /\ t \in Eligible /\ NoneExhausted
  <2>1. PICK t \in Tasks : Admit(t) /\ t \in Eligible /\ NoneExhausted
    BY <1>3
  <2>2. next_generation' = [next_generation EXCEPT ![t] = @ + 1]
    BY <2>1 DEF Admit
  <2>3. ~(next_generation[t] - 1 >= MaxAttempts)
    BY <2>1 DEF NoneExhausted, Exhausted, Attempts
  <2> QED
    BY <1>1, <2>2, <2>3
<1> QED
  BY <1>2, <1>3, StepAdmits

\* Who may touch the proofs of a task.
LEMMA StepVerdicts ==
  ASSUME IInv, RunnerTypes, RunnerNext
  PROVE  \/ \E l \in Leases : AdmitProof(l)
         \/ /\ UNCHANGED <<solved, positive>>
            /\ \/ best' = best
               \/ \E l \in Leases : ~solved[TaskOf(l)] /\ best' = [best EXCEPT ![TaskOf(l)] = l]
<1>1. CASE \E w \in Workers : WorkerStep(w)
  <2>1. PICK w \in Workers : WorkerStep(w)
    BY <1>1
  <2>2. CASE \E t \in Tasks : ClaimInitial(w, t) \/ ClaimDirect(w, t) \/ AdmitDecision(w, t)
    BY <2>2, ClaimAdmits DEF Admit, Accept, taskVars, proofVars
  <2>3. CASE FinishLease(w) \/ WorkerFails(w) \/ \E l \in Leases : TakeJob(w, l)
    BY <2>3 DEF FinishLease, WorkerFails, TakeJob, Finish, vars, proofVars
  <2>4. CASE \/ LeaveLoop(w) \/ SolverReturns(w) \/ AdmitToPool(w) \/ GiveUpWaiting(w)
             \/ InlineSettled(w) \/ ClaimNothing(w) \/ AskAgent(w) \/ ReserveSlot(w)
             \/ ReadReserved(w) \/ AbortChoice(w) \/ DropDecision(w)
    BY <2>4 DEF LeaveLoop, SolverReturns, AdmitToPool, GiveUpWaiting, InlineSettled, ClaimNothing,
                AskAgent, ReserveSlot, ReadReserved, AbortChoice, DropDecision, GiveBackTicket,
                AcquireReservation, ReleaseReservation, vars, taskVars, proofVars
  <2> QED
    BY <2>4, <2>3, <2>2, <2>1 DEF WorkerStep
<1>2. CASE StartWorkers \/ Horizon \/ \E w \in Workers : EarlyProofFails(w)
  BY <1>2 DEF StartWorkers, Horizon, HorizonPasses, EarlyProofFails, vars, taskVars, proofVars,
              runnerVars
<1>3. CASE \E t \in Tasks : FillOne(t) \/ RetireExhausted(t)
  BY <1>3, AdmissionAdmits DEF FillOne, RetireExhausted, RetireTask, Retire, Admit, taskVars,
                               proofVars, runnerVars
<1>4. CASE \E l \in Leases : EarlyProof(l) \/ LateProof(l) \/ BeginSettle(l) \/ SettleFails(l)
  BY <1>4 DEF BeginSettle, SettleFails, EarlyProof, LateProof, vars, proofVars
<1>5. CASE \E l \in Leases : JudgeAnswers(l)
  BY <1>5 DEF JudgeAnswers, vars
<1> QED
  BY <1>1, <1>2, <1>3, <1>4, <1>5 DEF RunnerNext, MainStep, Settle

\* A task keeps its one proof.
LEMMA StepProofs ==
  ASSUME IInv, RunnerTypes, OneProof, RunnerNext
  PROVE  OneProof'
<1> DEFINE proofs(t) == {l \in positive : TaskOf(l) = t}
<1> SUFFICES ASSUME NEW t \in Tasks
             PROVE  IF solved'[t] THEN proofs(t)' = {best'[t]} ELSE proofs(t)' = {}
  BY DEF OneProof
<1>1. /\ IF solved[t] THEN proofs(t) = {best[t]} ELSE proofs(t) = {}
      /\ solved \in [Tasks -> BOOLEAN] /\ DOMAIN best = Tasks
  BY DEF OneProof, IInv, TypeOK, RunnerTypes
<1>2. ASSUME NEW l \in Leases, AdmitProof(l)
      PROVE  IF solved'[t] THEN proofs(t)' = {best'[t]} ELSE proofs(t)' = {}
  <2>1. /\ TaskOf(l) \in Tasks /\ ~solved[TaskOf(l)]
        /\ solved' = [solved EXCEPT ![TaskOf(l)] = TRUE]
        /\ best' = [best EXCEPT ![TaskOf(l)] = l] /\ positive' = positive \cup {l}
    BY <1>2, WorkerFacts DEF AdmitProof, TaskSolved, Solve
  <2>2. CASE TaskOf(l) = t
    <3>1. proofs(t) = {} /\ solved'[t] /\ best'[t] = l
      BY <1>1, <2>1, <2>2
    <3>2. proofs(t)' = proofs(t) \cup {l}
      BY <2>1, <2>2
    <3> QED
      BY <3>1, <3>2
  <2>3. CASE TaskOf(l) # t
    <3>1. solved'[t] = solved[t] /\ best'[t] = best[t]
      BY <1>1, <2>1, <2>3
    <3>2. proofs(t)' = proofs(t)
      BY <2>1, <2>3
    <3> QED
      BY <1>1, <3>1, <3>2
  <2> QED
    BY <2>2, <2>3
<1>3. ASSUME UNCHANGED <<solved, positive>>,
             \/ best' = best
             \/ \E l \in Leases : ~solved[TaskOf(l)] /\ best' = [best EXCEPT ![TaskOf(l)] = l]
      PROVE  IF solved'[t] THEN proofs(t)' = {best'[t]} ELSE proofs(t)' = {}
  BY <1>1, <1>3
<1> QED
  BY <1>2, <1>3, StepVerdicts
--------------------------------------------------------------------------------
\* The books as the settlements keep them: an attempt is counted when it is done or
\* skipped, and takes room in the backlog while a thread of the pool settles it.
Over(l) == stage[l] = "done" \/ l \in skipped
InPool(l) == stage[l] \in {"settling", "judging"} /\ ~Inline(l)

\* The leases that are counted are finitely many.
LEMMA FiniteBooks ==
  /\ IsFiniteSet(Leases)
  /\ \A S \in SUBSET Leases : IsFiniteSet(S) /\ Cardinality(S) \in Nat
<1>1. IsFiniteSet(1 .. MaxTasks) /\ IsFiniteSet(1 .. MaxGeneration)
  BY FS_Interval, SchedulerAssumption
<1>2. IsFiniteSet(Leases)
  BY <1>1, FS_Product DEF Leases, Tasks
<1> QED
  BY <1>2, FS_Subset, FS_CardinalityType

\* The attempts counted are those that are over, also when one more is.
LEMMA CountKept ==
  ASSUME Books, completed' = completed, \A l \in Leases : Over(l)' <=> Over(l)
  PROVE  \A t \in Tasks : completed'[t] = Cardinality(Counted(t)')
<1>1. \A t \in Tasks : Counted(t)' = Counted(t)
  BY DEF Counted, Over
<1> QED
  BY <1>1 DEF Books

\* One more attempt is over, and counted.
LEMMA CountGrows ==
  ASSUME Books, RunnerTypes, NEW l \in Leases, CompleteAttempt(l), ~Over(l), Over(l)',
         \A k \in Leases : k # l => (Over(k)' <=> Over(k))
  PROVE  \A t \in Tasks : completed'[t] = Cardinality(Counted(t)')
<1> SUFFICES ASSUME NEW t \in Tasks PROVE completed'[t] = Cardinality(Counted(t)')
  OBVIOUS
<1>1. IsFiniteSet(Counted(t)) /\ completed[t] = Cardinality(Counted(t))
  <2>1. Counted(t) \in SUBSET Leases
    BY DEF Counted
  <2> QED
    BY <2>1, FiniteBooks DEF Books
<1>2. CASE TaskOf(l) = t
  <2>1. Counted(t)' = Counted(t) \cup {l} /\ l \notin Counted(t)
    BY <1>2 DEF Counted, Over
  <2>2. completed'[t] = completed[t] + 1
    BY <1>2 DEF CompleteAttempt, RunnerTypes
  <2> QED
    BY <1>1, <2>1, <2>2, FS_AddElement
<1>3. CASE TaskOf(l) # t
  <2>1. Counted(t)' = Counted(t)
    BY <1>3 DEF Counted, Over
  <2>2. completed'[t] = completed[t]
    BY <1>3 DEF CompleteAttempt, RunnerTypes
  <2> QED
    BY <1>1, <2>1, <2>2
<1> QED
  BY <1>2, <1>3

\* A permit is out for each settlement in the pool: here none starts or ends.
LEMMA PoolKept ==
  ASSUME Books, permits' = permits, \A l \in Leases : InPool(l)' <=> InPool(l)
  PROVE  permits' + Cardinality(Pooled') = BacklogLimit
<1>1. Pooled' = Pooled
  BY DEF Pooled, InPool
<1> QED
  BY <1>1 DEF Books

\* One more settlement is in the pool.
LEMMA PoolGrows ==
  ASSUME Books, RunnerTypes, NEW l \in Leases, permits' = permits - 1, ~InPool(l), InPool(l)',
         \A k \in Leases : k # l => (InPool(k)' <=> InPool(k))
  PROVE  permits' + Cardinality(Pooled') = BacklogLimit
<1>1. Pooled' = Pooled \cup {l} /\ l \notin Pooled
  BY DEF Pooled, InPool
<1>2. Pooled \in SUBSET Leases
  BY DEF Pooled
<1>3. IsFiniteSet(Pooled) /\ Cardinality(Pooled) \in Nat
  BY <1>2, FiniteBooks
<1>4. Cardinality(Pooled') = Cardinality(Pooled) + 1
  BY <1>1, <1>3, FS_AddElement
<1> QED
  BY <1>3, <1>4 DEF Books, RunnerTypes

\* One settlement has left the pool.
LEMMA PoolShrinks ==
  ASSUME Books, RunnerTypes, NEW l \in Leases, permits' = permits + 1, InPool(l), ~InPool(l)',
         \A k \in Leases : k # l => (InPool(k)' <=> InPool(k))
  PROVE  permits' + Cardinality(Pooled') = BacklogLimit
<1>1. Pooled' = Pooled \ {l} /\ l \in Pooled
  BY DEF Pooled, InPool
<1>2. Pooled \in SUBSET Leases
  BY DEF Pooled
<1>3. IsFiniteSet(Pooled) /\ Cardinality(Pooled) \in Nat
  BY <1>2, FiniteBooks
<1>4. Cardinality(Pooled') = Cardinality(Pooled) - 1
  BY <1>1, <1>3, FS_RemoveElement
<1> QED
  BY <1>3, <1>4 DEF Books, RunnerTypes

\* A step of workers that are not settling, by which no lease begins or ends to be
\* settled, leaves the books alone.
SettlersStay ==
  \A v \in Workers : /\ at'[v] = "settling" <=> at[v] = "settling"
                     /\ at[v] = "settling" => job'[v] = job[v]
LeasesStay ==
  LET early == {"none", "queued", "running", "yielded", "lost"}
  IN \A k \in Leases : stage'[k] = stage[k] \/ (stage[k] \in early /\ stage'[k] \in early)

\* The books stay right when the leases, the settlers and the tallies stay as they are.
LEMMA BooksKept ==
  ASSUME Books, SettlersStay, LeasesStay, UNCHANGED <<skipped, completed, permits>>
  PROVE  Books'
<1>1. \A k \in Leases : Inline(k)' <=> Inline(k)
  BY DEF Inline, SettlersStay
<1>2. \A k \in Leases : Over(k)' <=> Over(k)
  BY DEF Over, LeasesStay
<1>3. \A k \in Leases : InPool(k)' <=> InPool(k)
  BY <1>1 DEF InPool, LeasesStay
<1> QED
  BY <1>2, <1>3, CountKept, PoolKept DEF Books

\* A worker keeps the books.
LEMMA WorkerBooks ==
  ASSUME IInv, RunnerTypes, JobsFit, StagesFit, Books, NEW w \in Workers, WorkerStep(w)
  PROVE  Books'
<1>1. CASE \E l \in Leases : TakeJob(w, l)
  <2>1. PICK l \in Leases : TakeJob(w, l)
    BY <1>1
  <2>2. PICK place \in {"busy", "finishing", "raising"} : at' = [at EXCEPT ![w] = place]
    BY <2>1 DEF TakeJob, Go
  <2>3. /\ stage' = [stage EXCEPT ![l] = "running"] /\ job' = [job EXCEPT ![w] = l]
        /\ stage[l] = "queued" /\ at[w] = "idle" /\ permits' = permits
    BY <2>1 DEF TakeJob, Put, Go
  <2>4. CASE UNCHANGED <<skipped, completed>>
    <3>1. SettlersStay /\ LeasesStay
      BY <2>2, <2>3 DEF SettlersStay, LeasesStay, RunnerTypes
    <3> QED
      BY <2>3, <2>4, <3>1, BooksKept
  <2>5. CASE skipped' = skipped \cup {l} /\ CompleteAttempt(l)
    <3>1. \A k \in Leases : Inline(k)' <=> Inline(k)
      BY <2>2, <2>3 DEF Inline, RunnerTypes
    <3>2. \A k \in Leases : InPool(k)' <=> InPool(k)
      BY <2>3, <3>1 DEF InPool, RunnerTypes
    <3>3. ~Over(l) /\ Over(l)' /\ \A k \in Leases : k # l => (Over(k)' <=> Over(k))
      BY <2>3, <2>5 DEF Over, StagesFit, StageFits, RunnerTypes
    <3> QED
      BY <2>3, <2>5, <3>2, <3>3, CountGrows, PoolKept DEF Books
  <2> QED
    BY <2>1, <2>4, <2>5 DEF TakeJob, CompleteAttempt
<1>2. CASE \/ LeaveLoop(w) \/ SolverReturns(w) \/ ClaimNothing(w) \/ AskAgent(w)
           \/ ReserveSlot(w) \/ ReadReserved(w) \/ AbortChoice(w) \/ DropDecision(w)
  <2>1. UNCHANGED <<stage, job, skipped, completed, permits>>
    BY <1>2 DEF LeaveLoop, SolverReturns, ClaimNothing, AskAgent, ReserveSlot, ReadReserved,
                AbortChoice, DropDecision, proofVars
  <2>2. at[w] # "settling" /\ \E to \in Places \ {"settling"} : at' = [at EXCEPT ![w] = to]
    <3>1. CASE LeaveLoop(w) \/ SolverReturns(w) \/ AbortChoice(w)
      BY <3>1 DEF LeaveLoop, SolverReturns, AbortChoice, Go, Places
    <3>2. CASE ClaimNothing(w) \/ AskAgent(w) \/ ReserveSlot(w) \/ ReadReserved(w)
      BY <3>2 DEF ClaimNothing, AskAgent, ReserveSlot, ReadReserved, Go, Places
    <3>3. CASE DropDecision(w)
      BY <3>3, DropMoves DEF Places
    <3> QED
      BY <1>2, <3>1, <3>2, <3>3
  <2>3. SettlersStay /\ LeasesStay
    BY <2>1, <2>2 DEF SettlersStay, LeasesStay, RunnerTypes
  <2> QED
    BY <2>1, <2>3, BooksKept
<1>3. CASE FinishLease(w) \/ WorkerFails(w) \/ (GiveUpWaiting(w) /\ stage' = stage)
  <2>1. UNCHANGED <<skipped, completed, permits>>
    BY <1>3 DEF FinishLease, WorkerFails, GiveUpWaiting, proofVars
  <2>2. CASE FinishLease(w)
    <3>1. job[w] \in Leases /\ stage[job[w]] = "running"
      BY <2>2 DEF FinishLease, Go, JobsFit, PlaceFits
    <3> QED
      BY <2>1, <2>2, <3>1, BooksKept DEF FinishLease, Go, Put, SettlersStay, LeasesStay, RunnerTypes
  <2>3. CASE WorkerFails(w)
    <3>1. \/ job[w] = NoLease /\ stage' = stage
          \/ /\ job[w] \in Leases /\ stage[job[w]] \in {"running", "yielded"}
             /\ stage' = [stage EXCEPT ![job[w]] = "lost"]
      BY <2>3, WorkerFacts DEF WorkerFails, Go, Put, JobsFit, PlaceFits
    <3>2. SettlersStay
      BY <2>3 DEF WorkerFails, Go, SettlersStay, RunnerTypes
    <3>3. LeasesStay
      BY <3>1 DEF LeasesStay, RunnerTypes
    <3> QED
      BY <2>1, <3>2, <3>3, BooksKept
  <2>4. CASE GiveUpWaiting(w) /\ stage' = stage
    <3>1. job[w] \in Leases /\ stage[job[w]] = "yielded" /\ at[w] = "waiting" /\ job' = job
      BY <2>4 DEF GiveUpWaiting, Go, JobsFit, PlaceFits
    <3>2. at' = [at EXCEPT ![w] = "raising"]
      BY <2>4, <3>1 DEF GiveUpWaiting, Go, Put, RunnerTypes
    <3>3. SettlersStay /\ LeasesStay
      BY <2>4, <3>1, <3>2 DEF SettlersStay, LeasesStay, RunnerTypes
    <3> QED
      BY <2>1, <3>3, BooksKept
  <2> QED
    BY <1>3, <2>2, <2>3, <2>4
<1>4. CASE AdmitToPool(w) \/ (GiveUpWaiting(w) /\ stage' # stage)
  <2>1. PICK l \in Leases :
          /\ l = job[w] /\ stage[l] = "yielded" /\ stage' = [stage EXCEPT ![l] = "settling"]
          /\ at[w] = "waiting" /\ UNCHANGED <<skipped, completed>>
    BY <1>4 DEF AdmitToPool, GiveUpWaiting, Go, Put, JobsFit, PlaceFits, proofVars
  <2>2. \A k \in Leases : Over(k)' <=> Over(k)
    BY <2>1 DEF Over, RunnerTypes
  <2>3. \A v \in Workers : v # w => at'[v] = at[v] /\ job'[v] = job[v] /\ job[v] # l
    BY <1>4, <2>1, WorkerFacts DEF AdmitToPool, GiveUpWaiting, Go, JobsFit, RunnerTypes
  <2>4. CASE AdmitToPool(w)
    <3>1. at'[w] = "claiming" /\ permits' = permits - 1 /\ job'[w] = NoLease
      BY <2>4 DEF AdmitToPool, Go, RunnerTypes
    <3>2. ~Inline(l)' /\ \A k \in Leases : Inline(k)' <=> Inline(k)
      BY <2>1, <2>3, <3>1 DEF Inline
    <3>3. ~InPool(l) /\ InPool(l)' /\ \A k \in Leases : k # l => (InPool(k)' <=> InPool(k))
      BY <2>1, <3>2 DEF InPool, RunnerTypes
    <3> QED
      BY <2>1, <2>2, <3>1, <3>3, CountKept, PoolGrows DEF Books
  <2>5. CASE GiveUpWaiting(w) /\ stage' # stage
    <3>1. at'[w] = "settling" /\ permits' = permits /\ job'[w] = l
      BY <2>1, <2>5 DEF GiveUpWaiting, Go, RunnerTypes
    <3>2. Inline(l)' /\ \A k \in Leases : k # l => (Inline(k)' <=> Inline(k))
      BY <2>1, <2>3, <3>1 DEF Inline
    <3>3. \A k \in Leases : InPool(k)' <=> InPool(k)
      BY <2>1, <3>2 DEF InPool, RunnerTypes
    <3> QED
      BY <2>1, <2>2, <3>1, <3>3, CountKept, PoolKept DEF Books
  <2> QED
    BY <1>4, <2>4, <2>5
<1>5. CASE InlineSettled(w)
  <2>1. /\ at[w] = "settling" /\ stage[job[w]] \in {"done", "lost"}
        /\ at' = [at EXCEPT ![w] = "claiming"] /\ job' = [job EXCEPT ![w] = NoLease]
        /\ UNCHANGED <<stage, skipped, completed, permits>>
    BY <1>5 DEF InlineSettled, Go, proofVars
  <2>2. \A k \in Leases : k # job[w] => (Inline(k)' <=> Inline(k))
    BY <2>1, WorkerFacts DEF Inline, RunnerTypes
  <2>3. \A k \in Leases : (InPool(k)' <=> InPool(k)) /\ (Over(k)' <=> Over(k))
    BY <2>1, <2>2 DEF InPool, Over
  <2> QED
    BY <2>1, <2>3, CountKept, PoolKept DEF Books
<1>6. CASE \E t \in Tasks : ClaimInitial(w, t) \/ ClaimDirect(w, t) \/ AdmitDecision(w, t)
  <2>1. PICK t \in Tasks : ClaimInitial(w, t) \/ ClaimDirect(w, t) \/ AdmitDecision(w, t)
    BY <1>6
  <2>2. Admit(t) /\ Accept(w, t) /\ at[w] \in {"claiming", "thinking"}
    BY <2>1, ClaimAdmits
  <2>3. UNCHANGED <<job, skipped, completed, permits>>
    BY <2>2 DEF Accept, proofVars
  <2>4. PICK l : l = NextLease(t)
    OBVIOUS
  <2>5. stage[l] = "none"
    BY <2>2, <2>3, <2>4, AdmittedIsNew
  <2>6. PICK place \in {"idle", "raising"}, s \in {"queued", "lost"} :
           at' = [at EXCEPT ![w] = place] /\ stage' = [stage EXCEPT ![l] = s]
    BY <2>2, <2>4 DEF Accept, Put
  <2>7. SettlersStay /\ LeasesStay
    BY <2>2, <2>3, <2>5, <2>6 DEF SettlersStay, LeasesStay, RunnerTypes
  <2> QED
    BY <2>3, <2>7, BooksKept
<1> QED
  BY <1>1, <1>2, <1>3, <1>4, <1>5, <1>6 DEF WorkerStep

\* So does every other thread: a settlement gives its permit back however it ends, and an
\* attempt counts when it is completed.
LEMMA StepBooks ==
  ASSUME IInv, RunnerTypes, JobsFit, StagesFit, Ends, Books, RunnerNext
  PROVE  Books'
<1>1. CASE \E w \in Workers : WorkerStep(w)
  BY <1>1, WorkerBooks
<1>2. ASSUME UNCHANGED <<skipped, completed, permits>>,
             \A l \in Leases : Inline(l)' <=> Inline(l),
             \/ stage' = stage
             \/ \E l \in Leases : stage[l] = "none" /\ stage' = [stage EXCEPT ![l] = "queued"]
      PROVE  Books'
  <2>1. \A l \in Leases : (InPool(l)' <=> InPool(l)) /\ (Over(l)' <=> Over(l))
    BY <1>2 DEF InPool, Over, RunnerTypes
  <2> QED
    BY <1>2, <2>1, CountKept, PoolKept DEF Books
<1>3. CASE Horizon \/ (\E w \in Workers : EarlyProofFails(w)) \/ \E t \in Tasks : RetireExhausted(t)
  BY <1>2, <1>3 DEF Horizon, EarlyProofFails, RetireExhausted, runnerVars, proofVars, Inline
<1>4. CASE \E l \in Leases : EarlyProof(l) \/ LateProof(l)
  BY <1>2, <1>4 DEF EarlyProof, LateProof, Inline
<1>5. CASE StartWorkers
  <2>1. \A w \in Workers : at[w] = "unborn" /\ at'[w] \in {"idle", "ended"}
    BY <1>5 DEF StartWorkers, Ends
  <2> QED
    BY <1>2, <1>5, <2>1 DEF StartWorkers, proofVars, Inline
<1>6. CASE \E t \in Tasks : FillOne(t)
  <2>1. PICK t \in Tasks : FillOne(t)
    BY <1>6
  <2>2. /\ UNCHANGED <<at, job, skipped, completed, permits>> /\ Admit(t)
        /\ stage' = [stage EXCEPT ![NextLease(t)] = "queued"]
    BY <2>1, AdmissionAdmits DEF FillOne, Put, proofVars
  <2>3. NextLease(t) \in Leases /\ stage[NextLease(t)] = "none"
    BY <2>2, AdmittedIsNew
  <2> QED
    BY <1>2, <2>2, <2>3 DEF Inline
<1>7. ASSUME NEW l \in Leases, stage[l] \in {"settling", "judging"},
             NEW s \in {"done", "lost"}, Leave(l, s), UNCHANGED <<at, job>>
      PROVE  permits' + Cardinality(Pooled') = BacklogLimit
  <2>1. \A k \in Leases : Inline(k)' <=> Inline(k)
    BY <1>7 DEF Inline
  <2>2. ~InPool(l)' /\ \A k \in Leases : k # l => (InPool(k)' <=> InPool(k))
    BY <1>7, <2>1 DEF InPool, Leave, Put, RunnerTypes
  <2>3. CASE Inline(l)
    BY <1>7, <2>2, <2>3, PoolKept DEF Leave, InPool
  <2>4. CASE ~Inline(l)
    BY <1>7, <2>2, <2>4, PoolShrinks DEF Leave, InPool
  <2> QED
    BY <2>3, <2>4
<1>8. CASE \E l \in Leases : BeginSettle(l)
  <2>1. PICK l \in Leases : BeginSettle(l)
    BY <1>8
  <2>2. /\ stage[l] = "settling" /\ skipped' = skipped \ {l} /\ UNCHANGED <<at, job>>
    BY <2>1 DEF BeginSettle
  <2>3. CASE Put(l, "judging") /\ l \notin skipped /\ UNCHANGED <<completed, permits>>
    <3>1. \A k \in Leases : Inline(k)' <=> Inline(k)
      BY <2>2 DEF Inline
    <3>2. \A k \in Leases : (InPool(k)' <=> InPool(k)) /\ (Over(k)' <=> Over(k))
      BY <2>2, <2>3, <3>1 DEF InPool, Over, Put, RunnerTypes
    <3> QED
      BY <2>3, <3>2, CountKept, PoolKept DEF Books
  <2>4. CASE Leave(l, "done")
    <3>1. Over(l)' /\ \A k \in Leases : k # l => (Over(k)' <=> Over(k))
      BY <2>2, <2>4 DEF Over, Leave, Put, RunnerTypes
    <3>2. CASE l \in skipped /\ UNCHANGED completed
      BY <1>7, <2>2, <2>4, <3>1, <3>2, CountKept DEF Books, Over
    <3>3. CASE l \notin skipped /\ CompleteAttempt(l)
      <4>1. ~Over(l)
        BY <2>2, <3>3 DEF Over
      <4> QED
        BY <1>7, <2>2, <2>4, <3>1, <3>3, <4>1, CountGrows DEF Books
    <3> QED
      BY <2>1, <2>4, <3>2, <3>3 DEF BeginSettle, Leave, Put, RunnerTypes
  <2> QED
    BY <2>1, <2>3, <2>4 DEF BeginSettle
<1>9. CASE \E l \in Leases : JudgeAnswers(l)
  <2>1. PICK l \in Leases : JudgeAnswers(l)
    BY <1>9
  <2>2. /\ stage[l] = "judging" /\ CompleteAttempt(l) /\ Leave(l, "done")
        /\ UNCHANGED <<at, job, skipped>>
    BY <2>1 DEF JudgeAnswers
  <2>3. ~Over(l) /\ Over(l)' /\ \A k \in Leases : k # l => (Over(k)' <=> Over(k))
    BY <2>2 DEF Over, Leave, Put, RunnerTypes, StagesFit, StageFits
  <2> QED
    BY <1>7, <2>2, <2>3, CountGrows DEF Books
<1>10. CASE \E l \in Leases : SettleFails(l)
  <2>1. PICK l \in Leases : SettleFails(l)
    BY <1>10
  <2>2. /\ stage[l] = "judging" /\ Leave(l, "lost") /\ UNCHANGED <<at, job, skipped, completed>>
    BY <2>1 DEF SettleFails, proofVars
  <2>3. \A k \in Leases : Over(k)' <=> Over(k)
    BY <2>2 DEF Over, Leave, Put, RunnerTypes
  <2> QED
    BY <1>7, <2>2, <2>3, CountKept DEF Books
<1> QED
  BY <1>1, <1>3, <1>4, <1>5, <1>6, <1>8, <1>9, <1>10 DEF RunnerNext, MainStep, Settle
--------------------------------------------------------------------------------
\* What the busy workers and the reservations take of the budget.
Working == {w \in Workers : at[w] \in {"busy", "finishing"}}
Spent == \A t \in Eligible : Exhausted(t)

\* The workers are finitely many.
LEMMA FiniteWorkers ==
  /\ IsFiniteSet(Workers) /\ Cardinality(Workers) = MaxParallel
  /\ \A S \in SUBSET Workers : /\ IsFiniteSet(S) /\ Cardinality(S) \in Nat
                               /\ Cardinality(S) <= MaxParallel
<1>1. IsFiniteSet(Workers) /\ Cardinality(Workers) = MaxParallel
  BY FS_Interval, SchedulerAssumption DEF Workers
<1> QED
  BY <1>1, FS_Subset, FS_CardinalityType

\* The active leases of a run that has not failed are queued or with a busy worker.
LEMMA ActiveLeases ==
  ASSUME IInv, RunnerTypes, JobsFit, StagesFit, ~failed
  PROVE  Cardinality(active) <= Cardinality(Queued) + Cardinality(Working)
<1> DEFINE running == {job[w] : w \in Working}
<1>1. IsFiniteSet(Working) /\ Cardinality(Working) \in Nat
  BY FiniteWorkers DEF Working
<1>2. IsFiniteSet(Queued) /\ Cardinality(Queued) \in Nat
  BY FiniteBooks DEF Queued
<1>3. IsFiniteSet(running) /\ Cardinality(running) <= Cardinality(Working)
        /\ Cardinality(running) \in Nat
  <2> DEFINE f == [w \in Working |-> job[w]]
  <2>1. f \in Surjection(Working, running)
    BY DEF Surjection
  <2> QED
    BY <1>1, <2>1, FS_Surjection, FS_CardinalityType
<1>4. active \subseteq Queued \cup running
  <2> SUFFICES ASSUME NEW l \in active PROVE l \in Queued \cup running
    OBVIOUS
  <2>1. l \in Leases /\ stage[l] \in {"queued", "running"}
    BY DEF IInv, TypeOK, StagesFit, StageFits
  <2>2. CASE stage[l] = "running"
    <3>1. PICK w \in Workers : job[w] = l
      BY <2>1, <2>2 DEF StagesFit, StageFits
    <3>2. at[w] \in {"busy", "finishing"}
      BY <2>1, <2>2, <3>1, WorkerFacts DEF JobsFit, PlaceFits, RunnerTypes, Places
    <3> QED
      BY <3>1, <3>2 DEF Working
  <2> QED
    BY <2>1, <2>2 DEF Queued
<1>5. /\ IsFiniteSet(Queued \cup running)
      /\ Cardinality(Queued \cup running)
           = Cardinality(Queued) + Cardinality(running) - Cardinality(Queued \cap running)
  BY <1>2, <1>3, FS_Union
<1>6. Cardinality(Queued \cap running) \in Nat
  BY <1>2, FS_Intersection, FS_CardinalityType
<1>7. Cardinality(active) <= Cardinality(Queued \cup running) /\ Cardinality(active) \in Nat
  BY <1>4, <1>5, FS_Subset, FS_CardinalityType
<1> QED
  BY <1>1, <1>2, <1>3, <1>5, <1>6, <1>7

\* The reserved slots are with the workers whose model thinks.
LEMMA ReservedSlots ==
  ASSUME TicketsOut
  PROVE  Cardinality(reserved) <= Cardinality(Ticketed) /\ Cardinality(reserved) \in Nat
<1> DEFINE f == [w \in Ticketed |-> <<ticket[w], 1>>]
<1>1. IsFiniteSet(Ticketed)
  BY FiniteWorkers DEF Ticketed
<1>2. f \in Surjection(Ticketed, reserved)
  BY DEF Surjection, TicketsOut
<1> QED
  BY <1>1, <1>2, FS_Surjection, FS_CardinalityType

\* When the budget is used up, a worker without a reservation that gives up claiming finds
\* as many jobs queued as there are workers at rest.
LEMMA FullBudget ==
  ASSUME IInv, RunnerTypes, TicketsOut, JobsFit, StagesFit, ~failed,
         NEW w \in Workers, at[w] \in {"claiming", "thinking"}, ticket[w] = 0,
         ~(Occupied < MaxParallel)
  PROVE  Cardinality(Resting \cup {w}) <= Cardinality(Queued)
<1> DEFINE R == Resting \cup {w}
<1>1. /\ R \subseteq Workers /\ Working \subseteq Workers /\ Ticketed \subseteq Workers
      /\ R \cap Working = {} /\ (R \cup Working) \cap Ticketed = {}
      /\ R \cup Working \cup Ticketed \subseteq Workers
  BY DEF Resting, Working, Ticketed, TicketsOut
<1>2. /\ IsFiniteSet(R) /\ Cardinality(R) \in Nat
      /\ IsFiniteSet(Working) /\ Cardinality(Working) \in Nat
      /\ IsFiniteSet(Ticketed) /\ Cardinality(Ticketed) \in Nat
      /\ Cardinality(R \cup Working \cup Ticketed) <= MaxParallel
  BY <1>1, FiniteWorkers
<1>3. IsFiniteSet(R \cup Working) /\ Cardinality(R \cup Working) = Cardinality(R) + Cardinality(Working)
  <2> HIDE DEF R
  <2>1. Cardinality(R \cap Working) = 0
    BY <1>1, FS_EmptySet
  <2>2. /\ IsFiniteSet(R \cup Working)
        /\ Cardinality(R \cup Working) = Cardinality(R) + Cardinality(Working) - Cardinality(R \cap Working)
    BY <1>2, FS_Union, Zenon
  <2> QED
    BY <1>2, <2>1, <2>2
<1>4. Cardinality(R \cup Working \cup Ticketed) = Cardinality(R \cup Working) + Cardinality(Ticketed)
  <2> DEFINE B == R \cup Working
  <2> HIDE DEF R, B
  <2>1. IsFiniteSet(B) /\ Cardinality(B) \in Nat
    BY <1>3, FS_CardinalityType DEF B
  <2>2. Cardinality(B \cap Ticketed) = 0
    BY <1>1, FS_EmptySet DEF B
  <2>3. Cardinality(B \cup Ticketed) = Cardinality(B) + Cardinality(Ticketed)
    <3>1. Cardinality(B \cup Ticketed)
            = Cardinality(B) + Cardinality(Ticketed) - Cardinality(B \cap Ticketed)
      BY <1>2, <2>1, FS_Union, Zenon
    <3> QED
      BY <1>2, <2>1, <2>2, <3>1
  <2> QED
    BY <2>3 DEF B
<1>5. Cardinality(Queued) \in Nat
  BY FiniteBooks DEF Queued
<1>6. Cardinality(active) \in Nat /\ MaxParallel \in Nat
  BY FiniteSlots, SchedulerAssumption DEF IInv
<1> QED
  BY <1>2, <1>3, <1>4, <1>5, <1>6, ActiveLeases, ReservedSlots DEF Occupied

\* Once all open tasks have used their attempts up, that stays so.
LEMMA SpentStays ==
  ASSUME IInv, RunnerCall, Spent
  PROVE  Spent'
<1>1. Eligible' \subseteq Eligible /\ Eligible \subseteq Tasks /\ MaxAttempts \in Int
      /\ \A t \in Tasks : next_generation'[t] >= next_generation[t]
  BY CallGrows, RunnerAssumption, SchedulerAssumption DEF Eligible, Known, Tasks, IInv, TypeOK
<1>2. IInv'
  BY CallIsStep, NextIInv
<1>3. \A t \in Tasks : next_generation[t] \in Int /\ next_generation'[t] \in Int
  BY <1>2 DEF IInv, TypeOK
<1> QED
  BY <1>1, <1>3 DEF Spent, Exhausted, Attempts

\* The workers at rest and the jobs that wait are counted.
LEMMA RestAndQueue ==
  /\ IsFiniteSet(Resting) /\ Cardinality(Resting) \in Nat
  /\ IsFiniteSet(Queued) /\ Cardinality(Queued) \in Nat
BY FiniteWorkers, FiniteBooks DEF Resting, Queued

\* No worker rests while a job waits for it that it could have: what a worker's step does
\* to the two counts.
LEMMA WorkerRests ==
  ASSUME IInv, RunnerTypes, TicketsOut, JobsFit, StagesFit, ~failed', ~expired, ~Spent,
         Cardinality(Resting) <= Cardinality(Queued), NEW w \in Workers, WorkerStep(w)
  PROVE  Cardinality(Resting') <= Cardinality(Queued')
<1>0. /\ IsFiniteSet(Resting) /\ Cardinality(Resting) \in Nat
      /\ IsFiniteSet(Queued) /\ Cardinality(Queued) \in Nat
  BY RestAndQueue
<1>a. ~failed
  BY StepProgress DEF RunnerNext
<1>b. Eligible # {}
  BY DEF Spent
<1>1. ASSUME UNCHANGED stage, NEW to \in Places, at' = [at EXCEPT ![w] = to],
             to \in {"idle", "ended"} => at[w] \in {"idle", "ended"}
      PROVE  Cardinality(Resting') <= Cardinality(Queued')
  <2>1. Queued' = Queued
    BY <1>1 DEF Queued
  <2>2. Resting' \subseteq Resting
    BY <1>1 DEF Resting, RunnerTypes
  <2>3. Cardinality(Resting') <= Cardinality(Resting) /\ Cardinality(Resting') \in Nat
    BY <1>0, <2>2, FS_Subset, FS_CardinalityType
  <2> QED
    BY <1>0, <2>1, <2>3
<1>2. ASSUME UNCHANGED stage, at' = [at EXCEPT ![w] = "idle"],
             at[w] \in {"claiming", "thinking"}, ticket[w] = 0, ~(Occupied < MaxParallel)
      PROVE  Cardinality(Resting') <= Cardinality(Queued')
  <2>1. Queued' = Queued /\ Resting' = Resting \cup {w}
    BY <1>2 DEF Queued, Resting, RunnerTypes
  <2> QED
    BY <1>2, <1>a, <2>1, FullBudget
<1>3. CASE \E l \in Leases : TakeJob(w, l)
  <2>1. PICK l \in Leases : TakeJob(w, l)
    BY <1>3
  <2>2. /\ at[w] = "idle" /\ \E to \in {"busy", "finishing", "raising"} : at' = [at EXCEPT ![w] = to]
        /\ stage[l] = "queued" /\ stage' = [stage EXCEPT ![l] = "running"]
    BY <2>1 DEF TakeJob, Go, Put
  <2>3. Resting' = Resting \ {w} /\ w \in Resting
    BY <2>2 DEF Resting, RunnerTypes
  <2>4. Queued' = Queued \ {l} /\ l \in Queued
    BY <2>2 DEF Queued, RunnerTypes
  <2>5. /\ Cardinality(Resting') = Cardinality(Resting) - 1
        /\ Cardinality(Queued') = Cardinality(Queued) - 1
    BY <1>0, <2>3, <2>4, FS_RemoveElement
  <2> QED
    BY <1>0, <2>5
<1>4. CASE \E t \in Tasks : ClaimInitial(w, t) \/ ClaimDirect(w, t) \/ AdmitDecision(w, t)
  <2>1. PICK t \in Tasks : Admit(t) /\ Accept(w, t) /\ at[w] \in {"claiming", "thinking"}
    BY <1>4, ClaimAdmits
  <2>2. PICK l : l = NextLease(t)
    OBVIOUS
  <2>3. l \in Leases /\ stage[l] = "none"
    BY <2>1, <2>2, AdmittedIsNew DEF Accept, proofVars
  <2>4. at' = [at EXCEPT ![w] = "idle"] /\ stage' = [stage EXCEPT ![l] = "queued"]
    BY <2>1, <2>2 DEF Accept, Put, Fails
  <2>5. Resting' = Resting \cup {w} /\ w \notin Resting
    BY <2>1, <2>4 DEF Resting, RunnerTypes
  <2>6. Queued' = Queued \cup {l} /\ l \notin Queued
    BY <2>3, <2>4 DEF Queued, RunnerTypes
  <2>7. /\ Cardinality(Resting') = Cardinality(Resting) + 1
        /\ Cardinality(Queued') = Cardinality(Queued) + 1
    BY <1>0, <2>5, <2>6, FS_AddElement
  <2> QED
    BY <1>0, <2>7
<1>5. CASE FinishLease(w) \/ AdmitToPool(w) \/ GiveUpWaiting(w) \/ WorkerFails(w)
  <2>1. ~WorkerFails(w)
    BY <1>a DEF WorkerFails, Go, JobsFit, PlaceFits
  <2>2. /\ at[w] \in {"finishing", "waiting"} /\ at'[w] \notin {"idle", "ended"}
        /\ \A v \in Workers : v # w => at'[v] = at[v]
    BY <1>5, <2>1 DEF FinishLease, AdmitToPool, GiveUpWaiting, Go, RunnerTypes
  <2>3. job[w] \in Leases /\ stage[job[w]] \in {"running", "yielded"}
    BY <2>2 DEF JobsFit, PlaceFits
  <2>4. stage' = stage \/ \E s \in {"yielded", "settling"} : stage' = [stage EXCEPT ![job[w]] = s]
    BY <1>5, <2>1 DEF FinishLease, AdmitToPool, GiveUpWaiting, Put
  <2>5. Queued' = Queued
    BY <2>3, <2>4 DEF Queued, RunnerTypes
  <2>6. Resting' = Resting
    BY <2>2 DEF Resting
  <2> QED
    BY <2>5, <2>6
<1>6. CASE ClaimNothing(w)
  <2>1. at[w] = "claiming" /\ at' = [at EXCEPT ![w] = "idle"] /\ UNCHANGED stage
    BY <1>6 DEF ClaimNothing, Go
  <2>2. ~MayAdmit
    BY <1>6, <1>b DEF ClaimNothing, Fails
  <2>3. ticket[w] = 0
    BY <2>1 DEF TicketsOut
  <2> QED
    BY <1>2, <2>1, <2>2, <2>3 DEF MayAdmit
<1>7. CASE DropDecision(w)
  <2>1. at[w] = "thinking" /\ UNCHANGED stage
    BY <1>7, DropMoves DEF DropDecision
  <2>2. CASE at' = [at EXCEPT ![w] = "claiming"]
    BY <1>1, <2>1, <2>2 DEF Places
  <2>3. CASE at' # [at EXCEPT ![w] = "claiming"]
    <3>1. at' = [at EXCEPT ![w] = "idle"]
      BY <1>7, <2>3, DropMoves
    <3>2. PICK valid \in BOOLEAN :
             /\ expired \/ Eligible = {} \/ (policy = "agent" /\ ~MayAdmit) \/ valid
             /\ IF valid /\ ~expired /\ Eligible # {} /\ (ticket[w] # 0 \/ Occupied < MaxParallel)
                THEN Go(w, "thinking", "claiming") ELSE Go(w, "thinking", "idle")
      BY <1>7, Zenon DEF DropDecision
    <3>3. CASE policy = "agent" /\ ~MayAdmit
      BY <1>2, <2>1, <3>1, <3>3 DEF MayAdmit, TicketsOut
    <3>4. CASE valid
      <4>1. ~(ticket[w] # 0 \/ Occupied < MaxParallel)
        BY <1>b, <2>3, <3>2, <3>4 DEF Go
      <4> QED
        BY <1>2, <2>1, <3>1, <4>1
    <3> QED
      BY <1>b, <3>2, <3>3, <3>4
  <2> QED
    BY <2>2, <2>3
<1>8. CASE \/ LeaveLoop(w) \/ SolverReturns(w) \/ InlineSettled(w) \/ AskAgent(w)
           \/ ReserveSlot(w) \/ ReadReserved(w) \/ AbortChoice(w)
  <2>1. /\ UNCHANGED stage
        /\ \E to \in Places : /\ at' = [at EXCEPT ![w] = to]
                              /\ to \in {"idle", "ended"} => at[w] \in {"idle", "ended"}
    BY <1>8 DEF LeaveLoop, SolverReturns, InlineSettled, AskAgent, ReserveSlot, ReadReserved,
                AbortChoice, Go, Places
  <2> QED
    BY <1>1, <2>1
<1> QED
  BY <1>3, <1>4, <1>5, <1>6, <1>7, <1>8 DEF WorkerStep

\* A worker rests while there could be work for it only if a job waits for it.
LEMMA StepRests ==
  ASSUME IInv, RunnerTypes, TicketsOut, JobsFit, StagesFit, Ends, NoIdleSlot, RunnerNext
  PROVE  NoIdleSlot'
<1> SUFFICES ASSUME ~filling', ~failed', ~expired', Cardinality(Resting') > Cardinality(Queued')
             PROVE  Spent'
  BY DEF NoIdleSlot, Spent
<1>1. RunnerCall
  BY StepCalls
<1>2. ~failed /\ ~expired /\ (filling => StartWorkers)
  BY <1>1, CallGrows, StepProgress
<1>3. CASE Spent
  BY <1>1, <1>3, SpentStays
<1>4. ASSUME ~Spent PROVE FALSE
  <2>0. Cardinality(Resting') \in Nat /\ Cardinality(Queued') \in Nat
    <3>1. Resting' \in SUBSET Workers /\ Queued' \in SUBSET Leases
      BY DEF Resting, Queued
    <3> QED
      BY <3>1, FiniteWorkers, FiniteBooks
  <2> SUFFICES Cardinality(Resting') <= Cardinality(Queued')
    BY <2>0
  <2>1. CASE StartWorkers
    <3>1. /\ Eligible # {} /\ Occupied = MaxParallel /\ UNCHANGED stage
          /\ at' = [w \in Workers |-> IF w <= Cardinality(active) THEN "idle" ELSE "ended"]
      BY <1>2, <1>4, <2>1 DEF StartWorkers, Spent
    <3>2. Ticketed = {}
      BY <2>1 DEF StartWorkers, Ends, Ticketed, TicketsOut
    <3>3. reserved = {}
      BY <3>2 DEF TicketsOut
    <3>4. Working = {}
      BY <2>1 DEF StartWorkers, Ends, Working
    <3>5. /\ Cardinality(reserved) = 0 /\ Cardinality(Working) = 0 /\ Cardinality(active) \in Nat
          /\ Cardinality(Queued) \in Nat
      BY <3>3, <3>4, FS_EmptySet, FiniteSlots, RestAndQueue DEF IInv
    <3>6. MaxParallel <= Cardinality(Queued)
      BY <1>2, <3>1, <3>5, ActiveLeases DEF Occupied
    <3>7. Cardinality(Resting') <= MaxParallel
      BY FiniteWorkers DEF Resting
    <3>8. Queued' = Queued
      BY <3>1 DEF Queued
    <3> QED
      BY <2>0, <3>5, <3>6, <3>7, <3>8, SchedulerAssumption
  <2>2. CASE ~filling
    <3>1. Cardinality(Resting) <= Cardinality(Queued)
      BY <1>2, <1>4, <2>2, RestAndQueue DEF NoIdleSlot, Spent
    <3>2. CASE \E w \in Workers : WorkerStep(w)
      BY <1>2, <1>4, <3>1, <3>2, WorkerRests
    <3>3. CASE \/ Horizon \/ \E t \in Tasks : RetireExhausted(t)
               \/ \E w \in Workers : EarlyProofFails(w)
               \/ \E l \in Leases : EarlyProof(l) \/ LateProof(l)
      <4>1. UNCHANGED <<at, stage>>
        BY <3>3 DEF Horizon, RetireExhausted, runnerVars, EarlyProofFails, EarlyProof, LateProof
      <4>2. Resting' = Resting /\ Queued' = Queued
        BY <4>1 DEF Resting, Queued
      <4> QED
        BY <3>1, <4>2
    <3>4. CASE \E l \in Leases : Settle(l)
      <4>1. PICK l \in Leases : Settle(l)
        BY <3>4
      <4>2. /\ UNCHANGED at /\ stage[l] \in {"settling", "judging"}
            /\ \E s \in {"judging", "done", "lost"} : stage' = [stage EXCEPT ![l] = s]
        BY <4>1 DEF Settle, BeginSettle, JudgeAnswers, SettleFails, Leave, Put
      <4>3. Resting' = Resting /\ Queued' = Queued
        BY <4>2 DEF Resting, Queued, RunnerTypes
      <4> QED
        BY <3>1, <4>3
    <3>5. ~StartWorkers /\ \A t \in Tasks : ~FillOne(t)
      BY <2>2 DEF StartWorkers, FillOne
    <3> QED
      BY <3>2, <3>3, <3>4, <3>5 DEF RunnerNext, MainStep
  <2> QED
    BY <1>2, <2>1, <2>2
<1> QED
  BY <1>3, <1>4
--------------------------------------------------------------------------------
\* The invariant holds when the run begins.
LEMMA RunnerInitInv == RunnerInit => RunnerInv
<1> SUFFICES ASSUME RunnerInit PROVE RunnerInv
  OBVIOUS
<1> USE DEF RunnerInit
<1>1. IInv
  BY InitIInv
<1>2. RunnerTypes
  <2>1. MaxReservations \in Nat /\ BacklogLimit \in Nat
    BY SchedulerAssumption, RunnerAssumption
  <2>2. best \in [Tasks -> Leases \cup {Baseline(t) : t \in Tasks}]
    OBVIOUS
  <2>3. /\ at \in [Workers -> Places] /\ stage \in [Leases -> Stages] /\ permits \in Nat
        /\ ticket \in [Workers -> 0 .. MaxReservations] /\ completed \in [Tasks -> Nat]
    BY <2>1 DEF Places, Stages
  <2> QED
    BY <2>2, <2>3 DEF RunnerTypes
<1>3. TicketsOut
  <2>1. Ticketed = {} /\ reserved = {} /\ next_reservation_id = 1
    BY DEF Ticketed, Init
  <2>2. \A w \in Workers : ticket[w] = 0
    OBVIOUS
  <2>3. reserved = {<<ticket[w], 1>> : w \in Ticketed}
    BY <2>1
  <2> QED
    BY <2>1, <2>2, <2>3 DEF TicketsOut
<1>4. JobsFit
  BY DEF JobsFit, PlaceFits
<1>5. StagesFit
  BY WorkerFacts DEF StagesFit, StageFits, Init
<1>6. Ends
  BY SchedulerAssumption DEF Ends, Queued
<1>7. Books
  <2>1. (\A t \in Tasks : Counted(t) = {}) /\ Pooled = {}
    BY DEF Counted, Pooled
  <2> QED
    BY <2>1, FS_EmptySet, RunnerAssumption DEF Books
<1>8. AttemptCap
  BY RunnerAssumption DEF AttemptCap, Attempts, Init
<1>9. OneProof /\ NoIdleSlot
  BY DEF OneProof, NoIdleSlot, Init
<1> QED
  BY <1>1, <1>2, <1>3, <1>4, <1>5, <1>6, <1>7, <1>8, <1>9 DEF RunnerInv

\* A step that changes nothing keeps it.
LEMMA RunnerStutters == RunnerInv /\ UNCHANGED allVars => RunnerInv'
<1> SUFFICES ASSUME RunnerInv, UNCHANGED allVars PROVE RunnerInv'
  OBVIOUS
<1> USE DEF RunnerInv, allVars, runnerVars, vars, claimVars, proofVars, errorVars
<1>1. IInv'
  BY NextIInv
<1>2. RunnerTypes' /\ JobsFit' /\ StagesFit'
  BY StepTypes, StepFits
<1>3. TicketsOut'
  BY StepTickets
<1>4. Ends'
  BY DEF Ends, Queued
<1>5. Books'
  BY DEF Books, Counted, Pooled, Inline
<1>6. AttemptCap' /\ OneProof'
  BY DEF AttemptCap, Attempts, OneProof
<1>7. NoIdleSlot'
  BY DEF NoIdleSlot, Resting, Queued, Eligible, Known, Exhausted, Attempts
<1> QED
  BY <1>1, <1>2, <1>3, <1>4, <1>5, <1>6, <1>7

\* Every step keeps it.
LEMMA RunnerStepInv == RunnerInv /\ [RunnerNext]_allVars => RunnerInv'
<1>1. ASSUME RunnerInv, RunnerNext PROVE RunnerInv'
  <2> USE <1>1 DEF RunnerInv
  <2>1. IInv'
    BY StepCalls, CallIsStep, NextIInv
  <2>2. RunnerTypes' /\ TicketsOut'
    BY StepTypes, StepTickets
  <2>3. JobsFit' /\ StagesFit' /\ Ends'
    BY StepFits, StepEnds
  <2>4. Books'
    BY StepBooks
  <2>5. AttemptCap' /\ OneProof' /\ NoIdleSlot'
    BY StepCap, StepProofs, StepRests
  <2> QED
    BY <2>5, <2>4, <2>3, <2>2, <2>1
<1> QED
  BY <1>1, RunnerStutters

\* So it holds throughout every run.
LEMMA RunnerInductive == RunnerSpec => []RunnerInv
BY RunnerInitInv, RunnerStepInv, PTL DEF RunnerSpec

\* When the run is over the books are closed.
LEMMA InvCloses == RunnerInv => ClosesOut
<1> SUFFICES ASSUME RunnerInv, RunOver PROVE /\ reserved = {} /\ permits = BacklogLimit
                                             /\ \A l \in active : failed /\ stage[l] \in {"queued", "lost"}
                                             /\ ~failed => \A t \in Tasks : completed[t] = Attempts(t)
  BY DEF ClosesOut
<1>1. (\A w \in Workers : at[w] = "ended") /\ \A l \in Leases : stage[l] \notin {"settling", "judging"}
  BY DEF RunOver
<1>2. \A w \in Workers : ticket[w] = 0 /\ job[w] = NoLease
  BY <1>1 DEF RunnerInv, TicketsOut, JobsFit, PlaceFits
<1>3. reserved = {}
  BY <1>2 DEF RunnerInv, TicketsOut, Ticketed
<1>4. permits = BacklogLimit
  <2>1. Cardinality(Pooled) = 0
    BY <1>1, FS_EmptySet DEF Pooled
  <2> QED
    BY <2>1 DEF RunnerInv, Books, RunnerTypes
<1>5. \A l \in Leases : stage[l] \notin {"running", "yielded"}
  BY <1>2, WorkerFacts DEF RunnerInv, StagesFit, StageFits
<1>6. failed \/ \A l \in Leases : stage[l] # "queued"
  BY <1>1 DEF RunnerInv, Ends, Queued
<1>7. \A l \in active : failed /\ stage[l] \in {"queued", "lost"}
  BY <1>5, <1>6 DEF RunnerInv, StagesFit, StageFits, IInv, TypeOK
<1>8. ASSUME ~failed, NEW t \in Tasks PROVE completed[t] = Attempts(t)
  <2>1. next_generation[t] \in 1 .. MaxGeneration + 1 /\ Attempts(t) \in Nat /\ MaxGeneration \in Nat
    BY SchedulerAssumption DEF RunnerInv, IInv, TypeOK, Attempts
  <2>2. \A l \in Leases : stage[l] \in {"none", "done"}
    BY <1>1, <1>5, <1>6, <1>8 DEF RunnerInv, RunnerTypes, Stages, StagesFit, StageFits
  <2>3. \A l \in Leases : (stage[l] = "done" \/ l \in skipped) <=> l[2] < next_generation[l[1]]
    <3>1. \A l \in Leases : l[2] \in Int /\ next_generation[l[1]] \in Int
      BY WorkerFacts DEF RunnerInv, IInv, TypeOK
    <3> QED
      BY <2>2, <3>1 DEF RunnerInv, StagesFit, StageFits
  <2>4. Counted(t) = {t} \X (1 .. Attempts(t))
    BY <2>1, <2>3 DEF Counted, TaskOf, Leases, Attempts
  <2> QED
    BY <2>1, <2>4, TokenBlock DEF RunnerInv, Books
<1> QED
  BY <1>3, <1>4, <1>7, <1>8

\* The attempts cap holds on every admission path, whatever the policy, the number of
\* workers and the failures.
THEOREM CapHolds == RunnerSpec => []AttemptCap
BY RunnerInductive, PTL DEF RunnerInv

\* The callbacks, the settlements and the late answers of all workers publish at most one
\* proof of a task, which stays its best verdict.
THEOREM OneProofHolds == RunnerSpec => []OneProof
BY RunnerInductive, PTL DEF RunnerInv

\* In a run that has not failed no worker rests without a job waiting for it while a task
\* has attempts left before the horizon.
THEOREM SlotsAreUsed == RunnerSpec => []NoIdleSlot
BY RunnerInductive, PTL DEF RunnerInv

\* When the run is over its reservations, backlog permits, leases and attempts add up.
THEOREM RunClosesOut == RunnerSpec => []ClosesOut
<1>1. RunnerInv => ClosesOut
  BY InvCloses
<1> QED
  BY <1>1, RunnerInductive, PTL

\* The runner uses the scheduler only through its methods, so that everything proved of the
\* scheduler, its budget and its leases, holds of the run.
THEOREM RunsTheScheduler == RunnerSpec => UsesScheduler
<1>1. RunnerInit => Init
  BY DEF RunnerInit
<1>2. RunnerInv /\ [RunnerNext]_allVars => [Next]_vars
  BY StepCalls, CallIsStep DEF RunnerInv
<1> QED
  BY <1>1, <1>2, RunnerInductive, PTL DEF RunnerSpec, UsesScheduler, Spec
================================================================================
