# ContextSwarm: formal models and proofs

TLA+ models of `src/contextswarm_mini` and of the supervisor of the formal matrix in
`src/scripts`: how solver leases are handed out, how one Judge evaluation travels
through the broker, the evaluator and the remote Judge, how proofs become scores, and
what the stores and readers beside them keep consistent. TLC checks the models on small
instances; TLAPS proves the central invariants for every value of the constants.

## 1. The system

An *experiment* runs many LLM solvers on a set of proof or programming tasks until a
horizon. The runner claims worker slots from a scheduler, starts one Pi process per
solver, gives it an HTTP capability to a broker, and through the broker the solver asks a
remote Judge for verdicts and shares notes with the other solvers. Every use of the Judge
takes one permit of a semaphore, `evaluator_gate`. A supervisor script runs several
experiments (arms) side by side.

| Component | Source | State | Operations |
|---|---|---|---|
| Elastic scheduler | `elastic_scheduler.py` | tasks (solved, retired, quota, generation), active leases twice indexed, reservations, two cursors | add_task, next_assignment, next_assignment_for, acquire/release_reservation, admit_reserved, finish, task_solved, retire_task, cancel_task |
| Evaluator gate | `judge_broker.py`, `runner.py` | semaphore, FIFO of broker waiters | acquire, release |
| LeanEvaluator | `evaluator.py` | one-way latch `remote_unsettled_jobs`, records of deferred settlements, probe cache | evaluate, evaluate_fresh, probe, watchers |
| Coding evaluator | `evaluator.py` 2326-2724 | the same latch and watchers | evaluate |
| Judge broker | `judge_broker.py` | claims by token, handler and settlement counters, formal budgets and caches | session, judge_check, formal tools, cps_*, close, drain_state |
| CPS store | `cps.py` | SQLite tables of pieces, messages, events | create_piece, search, send, inbox, ack |
| Elastic CPS runner | `runner.py` 3085-5065 | task states, attempts, backlog semaphore, failure latch, books of scheduler calls | claim_next, execute_assignment, admit_task_proof, settle_execution, worker_loop |
| Task-worker and mono runners | `runner.py` 2797-3085, 5071-5515 | candidate files and backups, credits, episodes | solve, refill, collect |
| Closeout | `runner.py` 5692-6071 | frozen candidates, final verdicts | freeze, close, evaluate, finalize |
| Agent recovery, Pi adapter | `agent_recovery.py`, `pi_agent.py` | restart counter, backoff, process group and pipes | run_with_recovery, run |
| Allocation | `allocation*.py` | round-robin cursor, decisions, projections of the trace store | choose, read, project |
| Selection | `selection*.py`, `allocator_selection.py` | request store, exposures, feedback | search, feedback, export |
| Matrix supervisor | `scripts/run_figure4_formal_matrix.py` | child processes, persisted rows | launch, refresh, cull, adopt, restart |
| Config, preflight, launch contract, prompts, artifacts, CLI, audits | the files of these names | none that another thread sees | validation, formatting, offline analysis |

How they interact. Runner workers call the scheduler under its own lock and under
`allocation_lock`, which they give up while a model chooses the next task. Broker handlers
run in HTTP server threads and share `claim.lock`, `cps_lock`, `_formal_lock`, the admission
condition and the gate; runner threads use the gate directly. A deferred cancellation hands
the caller's permit to a watcher thread, which runs the caller's release callback. The
broker calls back into the runner to make a proof durable; the runner freezes candidates,
closes the broker and judges the frozen bytes afresh. Sessions end in the runner's threads
while their handlers may still run. Only the Judge and the models are remote: their
answers may be lost or late, and a Judge job outlives the call that made it.

What makes each component correct, and hard:

* **Scheduler.** One capacity for agents and reservations, with an admission path
  (`admit_reserved`) that does not look at it; three admission paths with one quota; closed
  tasks stay closed; refills are fair.
* **Gate and evaluators.** A permit is given back exactly once although the handler, the
  runner and a watcher may each be the one to do it; a job that may still run is charged to
  a permit; unknown outcomes latch the run; nobody waits for ever although the Judge may
  never answer; a verdict is about the text that was submitted.
* **Close, session.** A successful close means nothing is left, although its evidence is
  four counters read at four moments. Budgets, one probe in flight, proofs durable before
  they are announced, audit before answer, no store write after the session was left.
* **Runner.** Attempt cap, no idle slot, one proof per task, no lost lease, permit or
  reservation, books that agree with each other, workers that end.
* **Closeout.** The credited proof is what is frozen and judged; a score rests on a receipt.
* **Recovery, supervisor.** No solver start after the horizon, none beside its living
  predecessor; one child per arm across supervisor restarts; a wave ends.
* **Stores and readers.** Retries answer alike; the event log is the store; a reader sees
  one moment; the order in which rows arrive does not matter.

## 2. Modules

An action is one critical section, one blocking call with its outcome, or one handler
step between two points where other threads can interfere. Time, names, texts, hashes and
JSON are abstracted to what the properties tell apart; every module's header says to what.
Definitions commented as *faulty variants* belong to no specification: each is a plausible
bug in the definition beside it, and replacing that one by it breaks the property that
`PROJECT.json` names with it, which shows that the property can fail.

| Module | Models |
|---|---|
| `LeasePool` | abstract pool: leases granted once to open tasks within a capacity, units put aside and converted, tasks closed for good. The promise of the scheduler and of the gate |
| `ElasticScheduler` | every locked method of `elastic_scheduler.py`; implements `LeasePool` |
| `ElasticRunner` | `_run_elastic_cps`, composed with `ElasticScheduler` (it EXTENDS it and calls its actions) |
| `SchedulerLedger` | the books about the model calls of the allocation arm |
| `AllocationChoice` | `choose` of every arm but `FormulaAllocationPolicy` (allocation.py:308): scores, model replies, fallbacks, round robin |
| `TraceView` | the reads of the trace store by `allocation_trace_bridge.py` |
| `TraceProjection` | `project_full_records`: rows in any order to the state of a trace |
| `TraceSelection` | `selection_runtime.py`, `selection_store.py`, the joins of the export |
| `JudgeGate` | gate, FIFO, `_evaluate`, cancellation, settlement watchers, latch; implements `LeasePool` |
| `LeanReceipts` | identity of receipts, order of lifecycle and verdict fields, resubmission, probe cache |
| `CodingJudge` | the coding evaluator under the gate |
| `BrokerClose` | `close`, `_wait_for_drain`, `drain_state`, composed with `JudgeGate` |
| `ProbeSession` | claims, `_judge_check`, `_cps_operation`, the end of `session()` |
| `FormalTools` | `evaluate_local` and `formal_query`: budgets, caches, gate, refunds |
| `CPSStore` | pieces, messages, inboxes, acknowledgements, the event log |
| `VerdictAuthority` | provenance of verdicts, the best candidate, prior proofs, the score |
| `RunCloseout` | mono and parallel runners, and the closeout of `run_experiment` |
| `SolverLife` | `run_with_recovery` around `PiAgent.run` |
| `FormalMatrix` | one wave of the matrix supervisor |
| `MC*` | instances, history variables and sums of components for TLC |
| `*_proofs` | theorems; `JudgeBroker_proofs` is about gate and close, `Records_proofs`, `Allocation_proofs` and `Supervision_proofs` are about several components each |
| `FiniteFacts` | least and greatest elements, sizes of images: facts the proofs share |

**ElasticScheduler.** `_tasks` is the sequence of tasks 1..known. A lease is a pair of task
and generation, which is what `agent_id` spells. The reservation `r` with n slots left is
the set of tokens `<<r,1>>..<<r,n>>`. The clock is the flag `expired`, which only grows
because the code reads a monotonic clock. Calls that return `None` or `False` change
nothing and are no steps.

**ElasticRunner.** `at` says where each worker is, `stage` how far each lease has come
(queued, running, proof seen, settling, judging, done or lost). `Attempts` is the
generation count, which the code increments with every admission. A model arm reserves,
takes a snapshot, leaves the lock, and comes back to a world that may have changed: `view`
is what the snapshot said, and the comparison with the present is the code's own, row by row
for the agent, for all rows and the capacity for the LLM scheduler. A fault is a failure of
the disk, of a model or of the Judge, or a proof that arrives after its session has ended;
`MaxFaults` bounds them together. Tasks out of attempts are retired in an action of their
own (`RetireExhausted`), which may come later than the code's, inside the same critical
section: the model has more interleavings than the code.

**SchedulerLedger.** One decision index passes from `begin` over staging, the finished
event and reconciliation to its decision row; an exception may end a worker at each point.
`CloseBooks` is the runner's own final check, and `LedgersAgree` the comparison in the
health report.

**AllocationChoice.** `Charged` is what the policy makes of a reply (rejected prompt,
exception, other type), `Outcome` why a reply is not used. Scores are data: any eligible
task may be the best. The allocation cursor is shared by the uniform arm and the agent's
fallback. **TraceView** reads in one transaction, page by page with a pin, or one bounded
batch, while `AppendRows` and `GiveFeedback` go on; the source that is read in pages is a
protocol that in the repository only tests implement. **TraceProjection** compares what is
materialized, whatever the arrival order, with a definition on the set of rows. A row has a
kind and, apart from it, its own `lifecycle`, `active` and `actionable`, each of which may be
missing; `Word` says which of the two decides. A row in force replaces the marks, and the
scalars it has a word on: a newer active row revives a trace that an older row declared stale,
a later arrival of an older row does not. Receipts, which `_excluded_by_ordinary` and the
filter on sources drop, say nothing of the state but use up their id.

**TraceSelection.** A search looks for a committed chain, reads pieces, reads feedback,
ranks and commits, in separate transactions; two callers may use one request key. Feedback
is checked against the exposure. `ExportPasses` is the audit that the closeout makes of the
export.

**JudgeGate.** A call is a judge_check (`Probes`), a formal-tool call (`Formal`) or one of
the runner's own (`Direct`); its `pc` runs through waiting, holding, checking, posting,
polling, cancelling and returned. The HTTP exchange is its outcome: accepted, rejected
before admission, failed, ambiguous. `Coalesce` says whether the Judge may answer a
submission with a job another call already has: the code's record of callbacks and its
comment on duplicate cancellations are written for that case. A watcher's stages are
polling, expiring (latched, the record not yet removed), draining (callbacks run in batches)
and closing (an empty batch seen, the record not yet removed). The remote Judge is
external (`JudgeFinishes`). Two paths cannot be reached and are left out: a release
callback that raises (the semaphore would have to be released beyond its initial value,
which `PermitsAreAccounted` excludes) and the broker's own unsettled counter (for evaluators
without one).

**LeanReceipts.** One caller, but an adversarial Judge: a receipt may lack its id, show
another job or an earlier state; a failed job may still carry a PROVED marker.

**FormalTools.** A handler's `todo` is the portfolio of texts still to be judged. The gate is
one slot, `Parked` when a job that has not settled keeps it. `EndProbe` joins the steps
between which nothing else reads what they change.

**CPSStore.** An operation asks, begins the write transaction when no other writes
(capability checked), changes, and commits (capability checked again). What the broker
looked up before (the inbox of `cps_ack`) is read at the request, not in the
transaction. **ProbeSession** has the lock order of the end of a session; its store writes
are two steps around that second check. `admits` says whether the session was given
`on_authoritative_verdict`; without it a proof is answered and nothing is published. The
runner always gives one, and the runs start there; the theorems hold for both.

**VerdictAuthority.** One task. The file may change between the evaluator's read, the
provenance check and the promotion; a verdict may be for other bytes, another contract, or
without a job. `receipts` is the history of what the Judge issued and when.

**RunCloseout.** `Bundle` makes the tasks of a mono run share one solver. The Judge is sound:
it proves the contents in `Proofs`. The deadline and cancellation may come at any time, so
what they permit is always allowed. The credit is read once (`TakeCredit`), before the file is
judged (`CollectTask`); one that comes later is not in `prompt`. `Freeze` records for each task
the digest it read, or none, and in `uncopied` the tasks whose copy failed: such a task is
MISSING_CANDIDATE at the closeout, keeps no earlier proof, and degrades the run
(`CloseoutIncomplete`). `ProofsKept` therefore has two parts: without a failed copy the
credited proof is what is frozen; with one it is at least never a failed proof, and the run is
not reported as completed.

**SolverLife.** The process of an invocation has a leader and perhaps a descendant that
keeps the pipes open; killing reaches the group only while the leader lives. Time counts in
units of the backoff.

**FormalMatrix.** Rows in memory and on disk, children with what they have written; the
supervisor may die between any two steps and starts again from the disk.

**BrokerClose.** `ReadDomain` reads one of the four counters of `drain_state`; everything of
`JudgeGate` may happen between two of them.

## 3. Runs

| Run | Bounds | Shows |
|---|---|---|
| `MCElasticRunner` | 2 workers, agent and LLM arm, backlog 1, 2 attempts; 1 task with 2 faults, 2 tasks without | `AttemptCap`, `OneProof`, `NoIdleSlot`; each step is one of the scheduler (`UsesScheduler`) |
| `MCRunnerEnds` | 2 workers, 3 tasks, one attempt each, one fault, deterministic and LLM arm | `ClosesOut`: nothing leaked; `RunEnds`: everybody comes to an end |
| `MCElasticScheduler` | 2 tasks, 2 slots, quotas 0..2, 3 generations, 2 reservations | `PoolSpec` (refinement), `NoOvertaking` |
| `MCJudgeGate` | one call of each kind, 2 jobs, 2 permits, shared jobs, no resubmission; the close starts in a run without a judge_check | `JobsCovered`, `ReleaseOwed`, `CleanClose`, `ReleasedAfterReceipt`, `PoolSpec` (refinement) |
| `MCProgress` | close: a formal and a direct call, 1 job, 1 permit, 1 resubmission; session: 2 checks, 1 CPS write, budget 1; coding: 2 calls, 1 permit; supervision: horizon 4, 1 restart | `CloseEnds`, `EveryCallReturns`; `NoCommitAfterExit`, `ExitCompletes`; `PermitReturns`; `EverySolverReturns`, and `StartsClean`: no start after the run is over or beside a living leader |
| `MCComponents` | twelve components, bounds in the cfg | the table below |
| `MCLostRelease`, `MCProbeOverlap`, `MCSpuriousFailure`, `MCWaveSettles`, `MCLateCredit`, `MCUnboundJob` | smallest that show it | **violated**: findings 1 to 6 |

`MCComponents` in detail:

| Component | Bounds | Properties |
|---|---|---|
| ProbeSession | 3 checks, budget 1 | `BudgetExact`: of two checks past the entry test one is counted, the other refused; `ProofIsDurable`, `AnswersAudited` |
| FormalMatrix | 1 arm, 2 launches, 2 restarts of the supervisor | `OneArm`: one live child; `SparesAdmitted`: the burst spares what it saw admitted |
| TraceSelection | 2 callers, 2 traces, 3 feedback keys, 2 kinds | `SameAnswer` to a retry; `ExportPasses` |
| RunCloseout | 2 tasks, 1 proof, 2 episodes, 1 refill | `ProofsKept` |
| AllocationChoice | 3 tasks | `DecisionUsable`, `EveryoneGetsATurn` |
| SchedulerLedger | 2 workers, 2 decisions | `LedgersAgree` |
| CPSStore | 3 actors, 2 tasks, 1 piece, 1 message | `LogReplaysStore`, `AckedByReader` |
| TraceView | 4 rows, at most 3 read, pages of 1 | `ViewIsOneCut` |
| TraceProjection | 3 ids, 3 instants, 7 shapes of rows, 3 arrivals | `FeaturesOfTheSet` |
| FormalTools | 2 callers, 2 texts, 2 calls, 1 unit, portfolios of 2 | `BudgetCoversJobs`, `VerdictOfTheText` |
| VerdictAuthority | 2 texts, 2 evaluations and the closeout's | `BestIsJudged`, `ScoreRestsOnReceipts` |
| LeanReceipts | 2 texts, 2 jobs, 2 calls, 1 resubmission | `VerdictIsTheJobs` |

*Sums.* `MCProgress` and `MCComponents` put components that share no state into one
run. The first state chooses the component, and only that one moves: the states are the sum of
the components' states, not their product, and every property is about one of them.

*Why the bounds are enough.* Two slots and two tasks make every pair of scheduler methods
compete for the last slot and for one task; quotas 0, 1 and 2 lie below, at and above one
worker. A round-robin order needs three tasks: the one that waits, the one served and one more.
In the runner two workers meet on one task (with faults and late proofs), or choose between two
(without); the run for liveness has one task more than workers, so that a third has to be
claimed by a decision. In `MCSmallInit` the agent arm gives one task two initial workers, so
that decisions follow the fill. In the gate one call of each kind is one of each release rule;
two permits let a call proceed while another's is retained, and two jobs let the Judge give two
calls one job or a job each. Resubmission needs one job only and is in `MCProgress`. Jobs of
`MCJudgeGate` are interchanged (SYMMETRY): it checks no liveness, and its refinement is a
safety property that does not name jobs. The race for the last call of a session takes three
checks, and so does `MCProbeOverlap`: one fails early, and because it clears `probe_active`
twice, both others pass the entry test while the call is left. Leaving a session needs a check
that fails and one that follows. Checks arrive in the order of their numbers in both sums,
because nothing else tells them apart. With one inbox row per message the clause of
`LogReplaysStore` on the order of writes is left to the theorem `LogIsTheHistory`. `MoreCalls`
lets the formal tools exceed their call limit by one. The deterministic policy of
`ElasticScheduler` only orders the initial pool, and the runner's runs take one of the two.

*Deadlock* checking is off everywhere: all of these systems stop when the horizon has
passed and the last call has returned.

*Fairness.* In `JudgeGate`, `BrokerClose` and `CodingJudge` the horizon comes and threads that can
go on do, and nothing is assumed of the Judge: every wait has a timeout (the 0.1 s slices of
the gate, the poll deadline, `cancel_grace_seconds`,
`deferred_settlement_timeout_seconds`), which is the enabled alternative in the model. A call
that has not arrived is not required to. A session assumes the same of its handlers and of
the thread that leaves it. The runner needs only that something goes on as long as something
can (one weak fairness condition, on the disjunction of all thread steps and the horizon):
the runner's threads do not wait for each other in cycles, so no single thread has to be
favoured. In `SolverLife` the logical solver's thread runs and the clock ticks, while the Pi
process and its descendants may do nothing for ever.

## 4. Findings

1. *A permit can be lost* (`MCLostRelease`). The watcher sees an empty batch
   (evaluator.py:642-651) and removes the record in a later critical section (663). A
   cancellation of the same job by a second call that registers in between is told that
   the settlement is deferred, and its callback goes with the record. The comment at
   636-640 describes the re-check as made for this case. It takes a Judge that gives two
   calls the same job, and it is the only way to lose a permit: `LateReleasesOnly`.
2. *Two probes of one session can be in flight* (`MCProbeOverlap`). `_finish_judge_check`
   clears `probe_active` (judge_broker.py:1362) and the caller's `finally` clears it again
   (1239). Between them a second check may have set it; the second clear admits a third.
   The message at 843 and the comment at 1005 say that only one may be in flight. The
   call budget is safe all the same, because it is tested again where it is consumed
   (`BudgetExact`).
3. *A run can fail on a stale slot count* (`MCSpuriousFailure`). The snapshot for a model's
   decision combines `reservation_slots`, read after `allocation_lock` was given up, with
   counts taken before (runner.py:4006-4011). When another worker has reserved in between,
   the snapshot's constructor finds more slots than there are and raises
   (allocation_core.py:833-839), which fails the run. The comment at runner.py:1833-1837
   promises that the invariant is preserved.
4. *A wave may never settle* (`MCWaveSettles`). The loop ends when all arms are finished
   (run_figure4_formal_matrix.py:1035) or all are out of attempts (1037). With one of each it
   goes on for ever; the docstring (line 7) says that it waits for the wave to settle.
5. *A late proof is credited but not frozen* (`MCLateCredit`). `_judge_check` calls the runner
   back (judge_broker.py:1256) without looking whether the session is over, and the end of a
   session waits for `cps_lock` only. The published proof is then not the frozen candidate,
   which tests/test_mini_runtime.py:1694 asserts of every mode.
6. *The coding evaluator forgets an unbound job* (`MCUnboundJob`). A POST or poll that fails
   in transport is answered EVALUATOR_ERROR (evaluator.py:2721) without latch or watcher,
   while README.md:321 of the repository says that whatever cannot be bound to a terminal
   receipt stops admission for good.

Two observations without a run. A single `drain_state` can read zero everywhere while a
watcher times out between two of its reads; `close()` looks twice and is right
(`CleanClose`), the runner's last look (runner.py:2603) is one. And the resumable watermark of
`project_records` (allocation_projection.py:1404-1428) can pass over rows that share the last
sequence when `max_records` cuts between them, but nothing in the repository resumes from it.

## 5. Proofs

Assumptions: only the named `...Assumption`s of the modules, which say that the parameters
are of the right kind (finite sets, positive capacities, names that differ from the special
ones). TLC evaluates them in the runs. All theorems hold for every value of the constants.

| Module | About | Theorems | Inductive invariant |
|---|---|---|---|
| `ElasticScheduler_proofs` | `ElasticScheduler` | `TypeCorrect`, `CapacityHolds`, `QuotaHolds`, `LeasesConsistent`, `ImplementsPool` | `IInv` |
| `ElasticRunner_proofs` | `ElasticRunner` | `CapHolds`, `OneProofHolds`, `SlotsAreUsed`, `RunClosesOut`, `RunsTheScheduler` | `RunnerInv` |
| `JudgeBroker_proofs` | `JudgeGate` | `TypeCorrect`, `PermitsAreAccounted`, `JobsAreCovered`, `ReceiptFirst`, `QueueIsExact`, `LatchKeeps`, `LateReleasesOnly`, `ImplementsPool` | `IInv`, `OweInv` |
| | `BrokerClose` | `CloseIsClean` | `CloseInv` |
| `ProbeSession_proofs` | `ProbeSession` | `SessionTypeCorrect`, `SessionBudgetHolds`, `ProofsAreDurable`, `AnswersAreAudited`, `ExitIsFinal` | `SessionInv` |
| `Records_proofs` | `VerdictAuthority` | `BestCandidateJudged`, `ScoreReceipts` | `AuthorityInv` |
| | `LeanReceipts` | `VerdictsAreReceipts` | `ReceiptInv` |
| | `RunCloseout` | `ProofsAreKept` | `CloseoutInv` |
| | `CPSStore` | `OnlyReadersAcknowledge`, `LogIsTheHistory` | `CpsInv` |
| | `TraceSelection` | `OneAnswer`, `ExportAlwaysPasses` | `SelectionInv` |
| | `FormalTools` | `BudgetTheorem`, `CacheTheorem` | `FormalInv` |
| `Allocation_proofs` | `AllocationChoice` | `DecisionsAreUsable`, `TurnsAreShared` | `DecisionInv` |
| | `SchedulerLedger` | `BooksAgree` | `LedgerInv` |
| | `TraceView` | `OneCut` | `ViewInv` |
| | `TraceProjection` | `OrderDoesNotMatter` | the types; see below |
| `Supervision_proofs` | `SolverLife` | `SolverStartsClean` | `LifeInv` |
| | `FormalMatrix` | `OneChildPerArm`, `AdmittedAreSpared` | `MatrixInv` |
| `FiniteFacts` | sets of numbers | lemmas the proofs share | |

Each proof shows that the initial states satisfy the invariant, that every action keeps it
(one lemma or step per action), and that it implies the property. What the strengthenings
are for:

* **Scheduler.** Density of reservations is needed for the budget: `admit_reserved` removes
  the token with the number of slots left, and only if that token is held does a slot really
  move from the reservation to the active set. Freshness of generations shows that an
  admission adds a lease that is not active yet. `ImplementsPool` maps each action to one
  step of `LeasePool`.
* **Runner.** `RunsTheScheduler` shows that each step is a call of the scheduler that its
  guards allow, so the scheduler's `IInv` holds in every run and is part of `RunnerInv`. The
  rest says who has what: each reservation is the ticket of the one worker whose model thinks
  (`TicketsOut`), a worker's place fits the stage of its lease and no two workers have one
  lease (`JobsFit`), a lease that is running or yielded is some worker's and one that is lost
  means a failed run (`StagesFit`), and the counts of attempts and of backlog permits are the
  sizes of the sets of leases in the stages they stand for (`Books`). `NoIdleSlot` is a
  comparison of two counts. A worker that gives up claiming found either every open task out
  of attempts, which stays so (`SpentStays`), or the budget used up; then as many jobs are
  queued as there are workers at rest (`FullBudget`), because every active lease is queued or
  with a worker that is not at rest, and every reservation is such a worker's.
* **Gate.** `PcInv` says what a call's place tells of its verdict and its job, `HoldInv` what
  it tells of its permit, `WatchInv` that a callback is in one record or one batch, of a
  deferred call that still has its permit, and that only a watcher with a receipt runs
  callbacks. `StuckInv` names the call that keeps its permit for ever once the latch is set.
  The FIFO needs that leaving it by position keeps the order and uniqueness of the rest.
  `LateReleasesOnly` is about shared jobs too, and says exactly what can go wrong with them: a
  permit that nothing will give back is that of a call whose job had already released another
  call's. `OweInv` adds that a record in which no callback is left has run one
  (`RecordInv`), and what a verdict tells of the latch and of the job (`ToldInv`).
* **Close.** `CloseInv` says what each of the four reads has shown by the time it is used. No
  handler starts once the server has stopped, so the handlers read as gone stay gone, and
  after that the broker holds a permit only with the latch set, which a later read sees, or
  for a call that came late to a shared job. That exception is finding 1: no read shows such a
  permit, and `CleanClose` names it.
* **Session.** A handler's place says what it has, and has not, counted, published and
  audited (`HandlerFits`); the holder of `cps_lock` is the only one between lock and commit.
  A session that has been left is revoked and nobody is past the second check (`ExitFits`).
* **VerdictAuthority.** Every verdict that passed the provenance check has a receipt; the
  best candidate and the set of proved texts only take such verdicts in.
* **LeanReceipts.** Admitted jobs are an initial segment, so a new job is newer than all
  the call saw; what has been said of a job stays true as the Judge learns more.
* **RunCloseout.** A timely credit belongs to the present episode until it is read, and is then
  what was taken (`PromptKept`), a proved attempt means the task is over (`AuthorityKept`), and
  that is stable only because the tasks of a mono run leave the solver together
  (`SharedSolver`). After that only `FrozenCandidates` ties the digest to the file, except
  where the copy failed; `FailuresReal` and `CompletedJudged` say what a final verdict and a
  completed run presuppose.
* **CPSStore.** What a waiting acknowledgement names was addressed to its actor when it was
  read, and messages never change. The log replays the store because the rows of one kind up
  to a place are counted: a commit appends one row, which is the next of its kind, and leaves
  every earlier count as it is.
* **TraceSelection.** A committed chain never changes and says what every caller with its key
  was answered. An event is effective exactly if it names no conflict, and the event it
  conflicts with is effective and about the same item; one item has one effective event.
* **FormalTools.** Units in use are the reported ones and the ones that handlers hold; jobs are
  reported ones or being judged, so they stay within the units: only an outcome that proves
  that no job ran gives a unit back.
* **AllocationChoice.** Whoever waits is nearer to the cursor than everyone served since
  (`WaitersFirst`); one turn shifts all distances but keeps their order (`CursorMoves`).
* **SchedulerLedger.** As long as nobody has raised, a decision index is one worker's or its
  row is written, and `Fits` says for each place what staging, results, events, decisions and
  rows hold of it.
* **TraceView.** What a pinned read has got is what a cut taken since it began has up to the
  cursor. A page ends at its greatest row (`Greatest`), so pages leave no gaps.
* **TraceProjection.** The difficulty is the algorithm, not the steps. `Positions` shows that
  the stable sort puts each row at one place, `FoldExists` that the fold over the sorted rows
  is well defined, and `AccumulateRow` that after each row the entity describes the set of
  rows taken so far (`Describes`): its newest state row is that of the set, and each scalar is
  the last word on it among the rows that are in force.
  A repeated row is recognized by its id only because `Consistent` excludes two contents.
* **SolverLife.** Outside `running` and `draining` only processes that survived SIGKILL live.
* **FormalMatrix.** `ArmInv` cannot say that the state file knows the living child: a
  supervisor may die between launch and record. It says that there is one child at
  most, that a slot which was looked at since the restart (`KnownTo`) has its pid, and that a
  child nobody has seen at work yet is the one launched last.

Where a proof needs induction it takes a least or a greatest element (`FiniteFacts`), since
the library's induction theorems have an operator as parameter, which the provers cannot
instantiate.

`TypeOK`, `CapacityRespected`, `QuotaAccounting`, `IndexesAgree`, `GenerationsFresh`,
`PermitsAccounted`, `QueueExact`, `LatchKeepsPermit` and `SessionTypeOK` are proved, and the
runs do not spend time on them.

Only model-checked:

* liveness: `RunEnds`, `CloseEnds`, `EveryCallReturns`, `ExitCompletes`, `PermitReturns`,
  `EverySolverReturns`. Fairness and ENABLED are outside the prover;
* `NoOvertaking`, which is about a history variable of its MC module.

No module uses RECURSIVE operators.

## 6. Not modelled, and why

* *Configuration, preflight, launch contract*: they validate values before the first thread
  starts and keep no state.
* *Artifacts, prompts, secure I/O, CLI*: layout and wording. Where a failed write matters to
  the control, it is a fault of `ElasticRunner`, `SchedulerLedger` or `RunCloseout`.
* *Audits, exports and analysis scripts*: offline programs on finished runs. The joins that
  the closeout itself demands of the selection export are `ExportPasses`.
* *Pi adapter* (partly): start, the reasons to leave the RPC loop, draining and killing are in
  `SolverLife`; command lines, the JSON of events and token accounting are data.
* *CPS store* (partly): full-text search, digests and the progress snapshot only read.
* *Allocation and selection* (partly): the formulas of scores, weights and rankers are
  arithmetic on features; the models let any eligible choice win. `FormulaAllocationPolicy`
  (allocation.py:308) is a score and a sort of its own and is left out. Evidence and relation rows
  and the statistics of the export are left out. The feedback that the broker gives itself is
  always terminal, so other feedback of it is not modelled; the selection arms never run
  with task workers.
* *Formal tools* (partly): the policy on a snippet and the reduction of a verdict to an answer
  are pure functions of texts.
* *LeanEvaluator* (partly): the payloads of HTTP and the sanitizing of identifiers.
* The scheduler calls of the runner, the gate inside its evaluations, and the broker session of
  each solver are modelled in modules of their own; only scheduler and runner, and gate and
  close, are composed, because the others meet in a single call with an outcome that either
  side takes as a choice.
