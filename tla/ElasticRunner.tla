---------------------------- MODULE ElasticRunner ----------------------------
(***************************************************************************)
(* contextswarm_mini/runner.py, _run_elastic_cps: the workers that claim   *)
(* leases from ElasticScheduler, run one solver each, hand the lease back, *)
(* and settle the candidate on a bounded evaluator pool while the slot is  *)
(* already refilled.  allocation_lock is held across scheduler calls and   *)
(* given up while a model chooses the next task.                           *)
(*                                                                         *)
(* An assignment is a lease.  state.attempts is incremented with each      *)
(* admission, so it is the generation count; state.solved and              *)
(* state.retired change under allocation_lock together with the            *)
(* scheduler's own flags, so they are the scheduler's variables here.      *)
(***************************************************************************)
EXTENDS ElasticScheduler

CONSTANTS AllocationPolicies,  \* the values config.allocation.policy may have
          MaxAttempts,         \* max_attempts_per_task, 0 for no cap
          BacklogLimit,        \* evaluation_backlog_limit
          MaxFaults            \* bound: failures of the disk, a model or the Judge, and
                               \* proofs that arrive after their session has ended

ASSUME RunnerAssumption ==
  /\ AllocationPolicies \subseteq {"deterministic", "agent", "llm_scheduler"}
  /\ MaxAttempts \in Nat /\ BacklogLimit \in Nat \ {0} /\ MaxFaults \in Nat

Workers == 1 .. MaxParallel
Baseline(t) == <<t, 0>>
NoLease == <<0, 0>>

VARIABLES
  policy,      \* config.allocation.policy; every arm but the model ones is deterministic
  filling,     \* the main thread is still filling the initial pool
  at,          \* where each worker is
  job,         \* the lease each worker executes, or NoLease
  ticket,      \* the reservation each worker holds, or 0
  view,        \* what the snapshot says that each worker's model thinks about
  stage,       \* how far each lease has come
  skipped,     \* leases whose task a peer had solved before the solver started
  credit,      \* early_proofs, until the attempt is settled
  completed,   \* completed_attempts
  best,        \* best_verdict: the lease it came from
  positive,    \* history: leases whose proof was published as the task's proof
  permits,     \* evaluation_backlog_gate
  failed,      \* callback_failure
  faults       \* bound: faults still to come

claimVars == <<ticket, view>>
proofVars == <<skipped, credit, completed, best, positive>>
errorVars == <<failed, faults>>
runnerVars == <<policy, filling, at, job, ticket, view, stage, skipped, credit, completed,
                best, positive, permits, failed, faults>>
allVars == <<vars, runnerVars>>

Attempts(t) == next_generation[t] - 1
\* Faulty variant of Exhausted: one attempt too many.
ExhaustedLate(t) == MaxAttempts > 0 /\ t \in Eligible /\ Attempts(t) > MaxAttempts

Exhausted(t) == MaxAttempts > 0 /\ t \in Eligible /\ Attempts(t) >= MaxAttempts
NoneExhausted == \A t \in Tasks : ~Exhausted(t)

\* What a decision was based on.  The agent's choice is compared with the row of
\* its task only, the LLM scheduler's with all rows and the capacity.
Row(t) == <<t \in Eligible, Cardinality(active_by_task[t]), best[t],
            IF policy = "agent" THEN <<Attempts(t), completed[t]>> ELSE <<>> >>
Rows == [t \in Tasks |-> Row(t)]
Snapshot == [rows |-> Rows, eligible |-> Eligible, busy |-> Cardinality(active), held |-> 0]
NoView == [rows |-> <<>>, eligible |-> {}, busy |-> 0, held |-> 0]

RunnerInit ==
  /\ Init /\ known \in 1 .. MaxTasks
  /\ policy \in AllocationPolicies
  /\ filling = TRUE
  /\ at = [w \in Workers |-> "unborn"]
  /\ job = [w \in Workers |-> NoLease]
  /\ ticket = [w \in Workers |-> 0]
  /\ view = [w \in Workers |-> NoView]
  /\ stage = [l \in Leases |-> "none"]
  /\ skipped = {} /\ credit = {} /\ positive = {}
  /\ completed = [t \in Tasks |-> 0]
  /\ best = [t \in Tasks |-> Baseline(t)]
  /\ permits = BacklogLimit
  /\ failed = FALSE /\ faults \in 0 .. MaxFaults

Go(w, from, to) == at[w] = from /\ at' = [at EXCEPT ![w] = to]
Put(l, s) == stage' = [stage EXCEPT ![l] = s]
NextLease(t) == <<t, next_generation[t]>>
Fault == faults > 0 /\ faults' = faults - 1
\* A failure somewhere, after which the latch is set: one of now, or an earlier one.
Fails == /\ failed' = TRUE
         /\ (failed /\ UNCHANGED faults) \/ Fault
--------------------------------------------------------------------------------
\* The main thread's claim_next(initial_fill=True), and retire_exhausted_tasks,
\* which runs before every look for a task: the guard NoneExhausted below.
FillOne(t) ==
  /\ filling /\ NoneExhausted
  /\ NextAssignment(t)
  /\ Put(NextLease(t), "queued")
  /\ UNCHANGED <<policy, filling, at, job, claimVars, proofVars, permits, errorVars>>

\* Faulty variant of RetireExhausted: the runner's flag is set for a solved task too.
RetireSolvedToo(t) ==
  /\ filling \/ \E w \in Workers : at[w] \in {"claiming", "thinking"}
  /\ MaxAttempts > 0 /\ Attempts(t) >= MaxAttempts
  /\ retired' = [retired EXCEPT ![t] = TRUE]
  /\ UNCHANGED <<assignment_policy, known, solved, initial_agents, initial_admitted,
                 next_generation, active, active_by_task, slotVars, cursors, expired>>
  /\ UNCHANGED runnerVars

RetireExhausted(t) ==
  /\ filling \/ \E w \in Workers : at[w] \in {"claiming", "thinking"}
  /\ Exhausted(t) /\ RetireTask(t)
  /\ UNCHANGED runnerVars

\* As many workers as the initial pool has assignments.
StartWorkers ==
  /\ filling
  /\ Occupied = MaxParallel \/ expired \/ (NoneExhausted /\ Eligible = {})
  /\ filling' = FALSE
  /\ at' = [w \in Workers |-> IF w <= Cardinality(active) THEN "idle" ELSE "ended"]
  /\ UNCHANGED <<vars, policy, job, claimVars, stage, proofVars, permits, errorVars>>
--------------------------------------------------------------------------------
\* worker_loop takes an assignment from the queue; execute_assignment checks the
\* failure latch, stages the workspace, and skips a task solved in the meantime.
TakeJob(w, l) ==
  /\ stage[l] = "queued" /\ Put(l, "running")
  /\ job' = [job EXCEPT ![w] = l]
  /\ \/ /\ ~failed /\ ~solved[TaskOf(l)]
        /\ Go(w, "idle", "busy") /\ UNCHANGED <<skipped, completed, errorVars>>
     \/ /\ ~failed /\ solved[TaskOf(l)]
        /\ Go(w, "idle", "finishing")
        /\ skipped' = skipped \cup {l}
        /\ completed' = [completed EXCEPT ![TaskOf(l)] = @ + 1]
        /\ UNCHANGED errorVars
     \/ Fails /\ Go(w, "idle", "raising") /\ UNCHANGED <<skipped, completed>>
  /\ UNCHANGED <<vars, policy, filling, claimVars, credit, best, positive, permits>>

\* The queue is empty and there is a reason to stop.
LeaveLoop(w) ==
  /\ \A l \in Leases : stage[l] # "queued"
  /\ failed \/ expired \/ Done
  /\ Go(w, "idle", "ended")
  /\ UNCHANGED <<vars, policy, filling, job, claimVars, stage, proofVars, permits, errorVars>>

\* admit_task_proof: the first proof of a task is promoted, published, and the task
\* is solved, in one critical section; a later one changes nothing.
AdmitProof(l) ==
  /\ TaskSolved(TaskOf(l))
  /\ best' = [best EXCEPT ![TaskOf(l)] = l]
  /\ positive' = positive \cup {l}

\* The broker's callback, while the solver's session is open.
Open(l) == \E w \in Workers : at[w] = "busy" /\ job[w] = l
EarlyProof(l) ==
  /\ Open(l) /\ AdmitProof(l)
  /\ credit' = credit \cup {l}
  /\ UNCHANGED <<policy, filling, at, job, claimVars, stage, skipped, completed, permits, errorVars>>

\* A judge_check still at the Judge when its session ends is not waited for: the proof
\* may arrive while the attempt is being settled or later.  MaxFaults bounds these too.
LateProof(l) ==
  /\ stage[l] \in {"running", "yielded", "settling", "judging", "done"}
  /\ ~Open(l) /\ l \notin skipped /\ Fault
  /\ AdmitProof(l)
  /\ credit' = IF stage[l] \in {"judging", "done"} THEN credit ELSE credit \cup {l}
  /\ UNCHANGED <<policy, filling, at, job, claimVars, stage, skipped, completed, permits, failed>>

\* An artifact of the proof cannot be written: the callback latches the failure.
EarlyProofFails(w) ==
  /\ at[w] = "busy" /\ ~solved[TaskOf(job[w])]
  /\ ~failed /\ Fails
  /\ UNCHANGED <<vars, policy, filling, at, job, claimVars, stage, proofVars, permits>>

\* The solver is over: the latches are read before the assignment yields.
SolverReturns(w) ==
  /\ \/ ~failed /\ Go(w, "busy", "finishing") /\ UNCHANGED errorVars
     \/ Fails /\ Go(w, "busy", "raising")
  /\ UNCHANGED <<vars, policy, filling, job, claimVars, stage, proofVars, permits>>

FinishLease(w) ==
  /\ Go(w, "finishing", "waiting")
  /\ Finish(job[w], "released")
  /\ Put(job[w], "yielded")
  /\ UNCHANGED <<policy, filling, job, claimVars, proofVars, permits, errorVars>>
--------------------------------------------------------------------------------
\* The settlement goes to the evaluator pool once the backlog has room.
AdmitToPool(w) ==
  /\ permits > 0 /\ permits' = permits - 1
  /\ Go(w, "waiting", "claiming")
  /\ Put(job[w], "settling")
  /\ job' = [job EXCEPT ![w] = NoLease]
  /\ UNCHANGED <<vars, policy, filling, claimVars, proofVars, errorVars>>

\* No room: at the horizon the worker settles on its own thread; on a failure
\* elsewhere the assignment is closed without settlement.
GiveUpWaiting(w) ==
  /\ permits = 0
  /\ \/ expired /\ Go(w, "waiting", "settling") /\ Put(job[w], "settling")
     \/ failed /\ Go(w, "waiting", "raising") /\ UNCHANGED stage
  /\ UNCHANGED <<vars, policy, filling, job, claimVars, proofVars, permits, errorVars>>

\* Faulty variant of InlineSettled: only a settlement that succeeds comes back.
InlineSettledDone(w) ==
  /\ job[w] # NoLease /\ stage[job[w]] = "done"
  /\ Go(w, "settling", "claiming")
  /\ job' = [job EXCEPT ![w] = NoLease]
  /\ UNCHANGED <<vars, policy, filling, claimVars, stage, proofVars, permits, errorVars>>

\* The worker goes on, whatever became of the settlement on its own thread.
InlineSettled(w) ==
  /\ job[w] # NoLease /\ stage[job[w]] \in {"done", "lost"}
  /\ Go(w, "settling", "claiming")
  /\ job' = [job EXCEPT ![w] = NoLease]
  /\ UNCHANGED <<vars, policy, filling, claimVars, stage, proofVars, permits, errorVars>>

\* Faulty variant of Leave: an attempt that raises keeps its place in the backlog.
LeaveLosingPermit(l, s) ==
  /\ Put(l, s)
  /\ permits' = IF s = "lost" THEN permits ELSE permits + 1

\* The end of settle_execution, whatever happened in it.
Inline(l) == \E w \in Workers : at[w] = "settling" /\ job[w] = l
Leave(l, s) ==
  /\ Put(l, s)
  /\ permits' = IF Inline(l) THEN permits ELSE permits + 1

\* One more attempt of the task is over.
CompleteAttempt(l) == completed' = [completed EXCEPT ![TaskOf(l)] = @ + 1]

\* What needs no verdict: a skipped task, a credited proof, a failed solver, a task
\* solved by a peer; anything else goes to the Judge.
BeginSettle(l) ==
  /\ stage[l] = "settling"
  /\ \/ l \in skipped /\ Leave(l, "done") /\ UNCHANGED completed
     \/ l \notin skipped /\ CompleteAttempt(l) /\ Leave(l, "done")
     \/ /\ l \notin skipped \cup credit /\ ~solved[TaskOf(l)]
        /\ Put(l, "judging") /\ UNCHANGED <<completed, permits>>
  /\ skipped' = skipped \ {l} /\ credit' = credit \ {l}
  /\ UNCHANGED <<vars, policy, filling, at, job, claimVars, best, positive, errorVars>>

\* Faulty variant of JudgeAnswers: a better verdict is recorded although a peer has
\* solved the task in the meantime.
JudgeAnswersLate(l) ==
  /\ stage[l] = "judging"
  /\ CompleteAttempt(l) /\ Leave(l, "done")
  /\ \/ AdmitProof(l)
     \/ /\ UNCHANGED <<vars, positive>>
        /\ UNCHANGED best \/ best' = [best EXCEPT ![TaskOf(l)] = l]
  /\ UNCHANGED <<policy, filling, at, job, claimVars, skipped, credit, errorVars>>

\* The verdict is in: a proof, or a candidate that improves on the best one; both
\* count only if no peer has solved the task in the meantime.
JudgeAnswers(l) ==
  /\ stage[l] = "judging"
  /\ CompleteAttempt(l) /\ Leave(l, "done")
  /\ \/ AdmitProof(l)
     \/ /\ UNCHANGED <<vars, positive>>
        /\ \/ UNCHANGED best
           \/ ~solved[TaskOf(l)] /\ best' = [best EXCEPT ![TaskOf(l)] = l]
  /\ UNCHANGED <<policy, filling, at, job, claimVars, skipped, credit, errorVars>>

\* settle_execution catches what the settlement raises.
SettleFails(l) ==
  /\ stage[l] = "judging" /\ Fails /\ Leave(l, "lost")
  /\ UNCHANGED <<vars, policy, filling, at, job, claimVars, proofVars>>
--------------------------------------------------------------------------------
\* claim_next, in the sections that allocation_lock makes atomic.
Claims(w) == at[w] = "claiming" /\ ~failed /\ NoneExhausted
Adaptive(w) == Claims(w) /\ PendingInitial = {}

\* Nothing to claim: the run is over or has failed (the evaluator's own latch is
\* looked at here), no task is left, or no slot is.
ClaimNothing(w) ==
  /\ \/ expired /\ UNCHANGED errorVars
     \/ Fails
     \/ Claims(w) /\ Eligible = {} /\ UNCHANGED errorVars
     \/ /\ Claims(w) /\ ~MayAdmit /\ (policy # "agent" \/ PendingInitial # {})
        /\ UNCHANGED errorVars
  /\ Go(w, "claiming", "idle")
  /\ UNCHANGED <<vars, policy, filling, job, ticket, view, stage, proofVars, permits>>

\* accept_assignment, then jobs.put; recording the assignment may fail, and then
\* nobody owns the lease.
Accept(w, t) ==
  /\ \/ Put(NextLease(t), "queued") /\ at' = [at EXCEPT ![w] = "idle"] /\ UNCHANGED errorVars
     \/ Put(NextLease(t), "lost") /\ at' = [at EXCEPT ![w] = "raising"] /\ Fails
  /\ view' = [view EXCEPT ![w] = NoView]
  /\ UNCHANGED <<policy, filling, job, proofVars, permits>>

ClaimInitial(w, t) ==
  /\ Claims(w) /\ PendingInitial # {}
  /\ NextAssignment(t) /\ Accept(w, t) /\ UNCHANGED ticket

\* The deterministic arms choose among the eligible tasks under the lock.
ClaimDirect(w, t) ==
  /\ Adaptive(w) /\ policy = "deterministic"
  /\ NextAssignmentFor(t) /\ Accept(w, t) /\ UNCHANGED ticket

\* The agent arm lets go of the lock while its model thinks.
AskAgent(w) ==
  /\ Adaptive(w) /\ policy = "agent" /\ Eligible # {} /\ ~expired
  /\ Go(w, "claiming", "thinking")
  /\ view' = [view EXCEPT ![w] = Snapshot]
  /\ UNCHANGED <<vars, policy, filling, job, ticket, stage, proofVars, permits, errorVars>>

\* The LLM scheduler holds a slot for its decision meanwhile.
ReserveSlot(w) ==
  /\ Adaptive(w) /\ policy = "llm_scheduler" /\ Eligible # {}
  /\ AcquireReservation(1)
  /\ Go(w, "claiming", "unlocked")
  /\ view' = [view EXCEPT ![w] = Snapshot]
  /\ ticket' = [ticket EXCEPT ![w] = next_reservation_id]
  /\ UNCHANGED <<policy, filling, job, stage, proofVars, permits, errorVars>>

\* scheduler.reservation_slots is read after the lock was given up.
Held == Cardinality(reserved)
ReadReserved(w) ==
  /\ Go(w, "unlocked", "thinking") /\ view[w].busy + Held <= MaxParallel
  /\ view' = [view EXCEPT ![w].held = Held]
  /\ UNCHANGED <<vars, policy, filling, job, ticket, stage, proofVars, permits, errorVars>>

GiveBackTicket(w) ==
  /\ IF ticket[w] # 0 THEN ReleaseReservation(ticket[w]) ELSE UNCHANGED vars
  /\ ticket' = [ticket EXCEPT ![w] = 0]

\* An exception while choosing releases the reservation and propagates: a fault, or
\* the snapshot, which refuses capacities that do not add up, more reserved now
\* than the rows read before leave room for.
AbortChoice(w) ==
  /\ \/ Go(w, "thinking", "raising") /\ Fails
     \/ /\ Go(w, "unlocked", "raising") /\ view[w].busy + Held > MaxParallel
        /\ failed' = TRUE /\ UNCHANGED faults
  /\ GiveBackTicket(w) /\ view' = [view EXCEPT ![w] = NoView]
  /\ UNCHANGED <<policy, filling, job, stage, proofVars, permits>>

\* The state a decision of worker w for task t was made in has not changed.
Fresh(w, t) ==
  IF policy = "agent" THEN view[w].rows[t] = Row(t)
  ELSE /\ view[w].rows = Rows
       /\ view[w].busy = Cardinality(active) /\ view[w].held = Held

\* Decided(w, t, valid): the model names an eligible task of its snapshot (valid), or
\* the agent policy's fallback does; the lock is taken again.
Decided(w, t, valid) ==
  /\ at[w] = "thinking" /\ NoneExhausted /\ t \in view[w].eligible
  /\ policy = "llm_scheduler" => valid

\* Faulty variant of DropDecision: the worker gives up instead of claiming again.
DropForGood(w) ==
  /\ \E t \in Tasks, valid \in BOOLEAN :
       Decided(w, t, valid) /\ (expired \/ Eligible = {} \/ valid)
  /\ Go(w, "thinking", "idle")
  /\ GiveBackTicket(w) /\ view' = [view EXCEPT ![w] = NoView]
  /\ UNCHANGED <<policy, filling, job, stage, proofVars, permits, errorVars>>

\* The decision is not carried out: the horizon has passed, it is stale (also by what
\* the rows do not show, such as new pieces), or nothing is left.  The reservation is
\* given back, and the claim starts over if that can lead to something.
DropDecision(w) ==
  LET again == ~expired /\ Eligible # {} /\ (ticket[w] # 0 \/ Occupied < MaxParallel)
  IN /\ \E t \in Tasks, valid \in BOOLEAN :
          /\ Decided(w, t, valid)
          /\ \/ expired \/ Eligible = {} \/ (policy = "agent" /\ ~MayAdmit)
             \/ valid
          /\ IF valid /\ again THEN Go(w, "thinking", "claiming") ELSE Go(w, "thinking", "idle")
     /\ GiveBackTicket(w) /\ view' = [view EXCEPT ![w] = NoView]
     /\ UNCHANGED <<policy, filling, job, stage, proofVars, permits, errorVars>>

\* Admission of the chosen task; a fallback decision is not revalidated, and falls back
\* once more if its task was closed while the lock was away.
AdmitDecision(w, t) ==
  /\ \E chosen \in Tasks, valid \in BOOLEAN :
       /\ Decided(w, chosen, valid)
       /\ IF valid THEN t = chosen /\ Fresh(w, t) ELSE t = chosen \/ chosen \notin Eligible
  /\ IF ticket[w] # 0 THEN AdmitReserved(ticket[w], t) ELSE NextAssignmentFor(t)
  /\ ticket' = [ticket EXCEPT ![w] = 0]
  /\ Accept(w, t)

\* An exception has reached worker_loop: hand the lease back if that has not been
\* done, close the execution, leave.
WorkerFails(w) ==
  /\ Go(w, "raising", "ended")
  /\ IF job[w] \in active THEN Finish(job[w], "released") ELSE UNCHANGED vars
  /\ IF job[w] # NoLease THEN Put(job[w], "lost") ELSE UNCHANGED stage
  /\ job' = [job EXCEPT ![w] = NoLease]
  /\ UNCHANGED <<policy, filling, claimVars, proofVars, permits, errorVars>>

Horizon == HorizonPasses /\ UNCHANGED runnerVars
--------------------------------------------------------------------------------
WorkerStep(w) ==
  \/ \E l \in Leases : TakeJob(w, l)
  \/ LeaveLoop(w) \/ SolverReturns(w) \/ FinishLease(w)
  \/ AdmitToPool(w) \/ GiveUpWaiting(w) \/ InlineSettled(w)
  \/ ClaimNothing(w) \/ AskAgent(w) \/ ReserveSlot(w)
  \/ \E t \in Tasks : ClaimInitial(w, t) \/ ClaimDirect(w, t)
  \/ ReadReserved(w) \/ AbortChoice(w) \/ DropDecision(w)
  \/ \E t \in Tasks : AdmitDecision(w, t)
  \/ WorkerFails(w)

Settle(l) == BeginSettle(l) \/ JudgeAnswers(l) \/ SettleFails(l)

MainStep == StartWorkers \/ \E t \in Tasks : FillOne(t) \/ RetireExhausted(t)

RunnerNext ==
  \/ MainStep \/ Horizon
  \/ \E w \in Workers : WorkerStep(w) \/ EarlyProofFails(w)
  \/ \E l \in Leases : Settle(l) \/ EarlyProof(l) \/ LateProof(l)

RunnerSpec == RunnerInit /\ [][RunnerNext]_allVars

\* As long as the clock has not reached the horizon or a thread can run, something goes
\* on: a solver is ended by its deadline and an evaluation by its own.
RunnerProgress ==
  Horizon \/ MainStep \/ (\E w \in Workers : WorkerStep(w)) \/ \E l \in Leases : Settle(l)
RunnerFairness == WF_allVars(RunnerProgress)

FairRunnerSpec == RunnerSpec /\ RunnerFairness
--------------------------------------------------------------------------------
\* max_attempts_per_task bounds the leases of a task on every admission path, also
\* for a decision a model made before a peer used up the last attempt.
AttemptCap == MaxAttempts > 0 => \A t \in Tasks : Attempts(t) <= MaxAttempts

\* A task has at most one published proof, it is solved exactly if it has one, and
\* the proof stays its best verdict: callbacks, final evaluations and late partial
\* results race for it.
OneProof ==
  \A t \in Tasks :
    LET proofs == {l \in positive : TaskOf(l) = t} IN
    IF solved[t] THEN proofs = {best[t]} ELSE proofs = {}

\* A slot stays empty only if nothing is left to work on: there are never more
\* workers without work than jobs waiting while a task could be leased.
Resting == {w \in Workers : at[w] \in {"idle", "ended"}}
Queued == {l \in Leases : stage[l] = "queued"}
NoIdleSlot ==
  (~filling /\ ~failed /\ ~expired /\ Cardinality(Resting) > Cardinality(Queued))
    => \A t \in Eligible : Exhausted(t)

\* When all threads have ended, no reservation and no backlog permit is out.  In a run
\* that did not fail every attempt is completed exactly once and every lease is
\* back; in a failed one only leases nobody took or accepted are still out.
RunOver ==
  /\ ~filling /\ \A w \in Workers : at[w] = "ended"
  /\ \A l \in Leases : stage[l] \notin {"settling", "judging"}
ClosesOut ==
  RunOver =>
    /\ reserved = {} /\ permits = BacklogLimit
    /\ \A l \in active : failed /\ stage[l] \in {"queued", "lost"}
    /\ ~failed => \A t \in Tasks : completed[t] = Attempts(t)

\* The run uses the scheduler as specified: every step is one of its methods, or
\* does not touch it.
UsesScheduler == Spec

\* After the horizon every worker ends and every settlement is over.
RunEnds == <>RunOver

\* Without a fault of the disk, the Judge or a model the run never fails: what the
\* comment at runner.py:1833 promises of a stale free-slot count.
NoSpuriousFailure == failed => faults < MaxFaults
================================================================================
