--------------------------- MODULE SchedulerLedger ---------------------------
(***************************************************************************)
(* contextswarm_mini/runner.py: the books the elastic runner keeps about   *)
(* the model calls of its allocation arm.  Workers decide concurrently;    *)
(* a call leaves a result, an event and a decision row, written under      *)
(* different locks or none, and an exception may end a worker in between.  *)
(* At the end the runner checks its own books, and the health report       *)
(* compares the artifacts with each other.                                 *)
(***************************************************************************)
EXTENDS Integers, FiniteSets

CONSTANTS Deciders,      \* workers of the run
          DecisionLimit  \* bound: decisions of a run

ASSUME LedgerAssumption == IsFiniteSet(Deciders) /\ DecisionLimit \in Nat

Decisions == 1 .. DecisionLimit
Dispositions ==
  {"assigned", "not_admitted_horizon", "not_admitted_stale", "not_admitted_ineligible"}
\* What a charged call comes to; all the reasons to use the fallback are one.
Charges == {"accepted", "fallback", "horizon_truncated"}

VARIABLES
  ledgerArm,   \* config.allocation.policy
  claims,      \* what each worker is doing
  issued,      \* decision_index
  staged,      \* scheduler_unfinalized_results: indexes
  finalized,   \* scheduler_result_decisions
  results,     \* scheduler_result_sink: how many results each index has
  finished,    \* allocation_scheduler_finished events per index
  decided,     \* allocator.decisions: <<index, outcome>>
  rows,        \* allocation_decisions.jsonl: <<index, outcome, disposition>>
  runFailed,   \* callback_failure
  verdict      \* how the run ended

books == <<staged, finalized, results, finished, decided, rows>>
ledgerVars == <<ledgerArm, claims, issued, books, runFailed, verdict>>

Claim(at, index, outcome) == [at |-> at, index |-> index, outcome |-> outcome]

LedgerInit ==
  /\ ledgerArm \in {"agent", "llm_scheduler"}
  /\ claims = [w \in Deciders |-> Claim("idle", 0, "none")]
  /\ issued = 0 /\ runFailed = FALSE /\ verdict = "none"
  /\ staged = {} /\ finalized = {} /\ decided = {} /\ rows = {}
  /\ results = [i \in Decisions |-> 0] /\ finished = results

At(w, place) == claims[w].at = place
Go(w, at, outcome) == claims' = [claims EXCEPT ![w] = Claim(at, claims[w].index, outcome)]
Raise(w) == claims' = [claims EXCEPT ![w].at = "raised"]
--------------------------------------------------------------------------------
\* claim_next takes an index and a snapshot, and gives up the lock to ask the model.
BeginDecision(w) ==
  /\ At(w, "idle") /\ issued < DecisionLimit /\ ~runFailed
  /\ issued' = issued + 1
  /\ claims' = [claims EXCEPT ![w] = Claim("choosing", issued', "none")]
  /\ UNCHANGED <<ledgerArm, books, runFailed, verdict>>

\* The snapshot has no task, or no time left: no call, no cost.
SkipCall(w) ==
  /\ ledgerArm = "llm_scheduler" /\ At(w, "choosing") /\ Go(w, "returned", "not_invoked")
  /\ UNCHANGED <<ledgerArm, issued, books, runFailed, verdict>>

\* invoke_core_scheduler_agent: the process result is staged before it is parsed.
StageResult(w, outcome) ==
  /\ ledgerArm = "llm_scheduler" /\ At(w, "choosing")
  /\ IF claims[w].index \in finalized \cup staged
     THEN Raise(w) /\ UNCHANGED staged
     ELSE Go(w, "returned", outcome) /\ staged' = staged \cup {claims[w].index}
  /\ UNCHANGED <<ledgerArm, issued, finalized, results, finished, decided, rows, runFailed, verdict>>

\* The prompt is rejected, or the invoker raises, and the policy charges a fallback.
CallNeverRan(w) ==
  /\ ledgerArm = "llm_scheduler" /\ At(w, "choosing") /\ Go(w, "returned", "fallback")
  /\ UNCHANGED <<ledgerArm, issued, books, runFailed, verdict>>

\* Publish one result for the index: both arms do so under scheduler_results_lock.
Publish(i) == finalized' = finalized \cup {i} /\ results' = [results EXCEPT ![i] = @ + 1]

\* Faulty variant of Reconcile: a call that never ran leaves no result.
ReconcileStaged(w) ==
  LET i == claims[w].index IN
  /\ At(w, "returned")
  /\ IF i \in staged THEN Publish(i) /\ Go(w, "event", claims[w].outcome)
     ELSE UNCHANGED <<finalized, results>> /\ Go(w, "logged", claims[w].outcome)
  /\ staged' = staged \ {i}
  /\ UNCHANGED <<ledgerArm, issued, finished, decided, rows, runFailed, verdict>>

\* reconcile_scheduler_result: the staged result of a charged decision, or a synthetic
\* one; a staged result without a cost, or a second result, is an error.
Reconcile(w) ==
  LET i == claims[w].index
      charged == claims[w].outcome # "not_invoked"
  IN
  /\ At(w, "returned")
  /\ \/ /\ (~charged /\ i \in staged) \/ (charged /\ i \in finalized)
        /\ Raise(w) /\ UNCHANGED <<staged, finalized, results>>
     \/ /\ ~charged /\ i \notin staged
        /\ Go(w, "logged", claims[w].outcome) /\ UNCHANGED <<staged, finalized, results>>
     \/ /\ charged /\ i \notin finalized
        /\ Publish(i) /\ staged' = staged \ {i} /\ Go(w, "event", claims[w].outcome)
  /\ UNCHANGED <<ledgerArm, issued, finished, decided, rows, runFailed, verdict>>

\* invoke_scheduler_agent: the agent arm records the result at once, whatever it says.
RecordResult(w, outcome) ==
  /\ ledgerArm = "agent" /\ At(w, "choosing")
  /\ IF claims[w].index \in finalized
     THEN Raise(w) /\ UNCHANGED <<finalized, results>>
     ELSE Publish(claims[w].index) /\ Go(w, "event", outcome)
  /\ UNCHANGED <<ledgerArm, issued, staged, finished, decided, rows, runFailed, verdict>>

\* The event is logged outside the lock.
LogFinished(w) ==
  /\ At(w, "event") /\ Go(w, "logged", claims[w].outcome)
  /\ finished' = [finished EXCEPT ![claims[w].index] = @ + 1]
  /\ UNCHANGED <<ledgerArm, issued, staged, finalized, results, decided, rows, runFailed, verdict>>

\* The policy, or its adapter, adds the decision to its list.
KeepDecision(w) ==
  /\ At(w, "logged") /\ Go(w, "decided", claims[w].outcome)
  /\ decided' = decided \cup {<<claims[w].index, claims[w].outcome>>}
  /\ UNCHANGED <<ledgerArm, issued, staged, finalized, results, finished, rows, runFailed, verdict>>

\* Back under the lock every decision gets its row, admitted or not; a stale one may
\* be followed by a new decision with an index of its own.
RecordDecision(w, d) ==
  /\ At(w, "decided") /\ Go(w, "idle", "none")
  /\ claims[w].outcome = "horizon_truncated" => d = "not_admitted_horizon"
  /\ rows' = rows \cup {<<claims[w].index, claims[w].outcome, d>>}
  /\ UNCHANGED <<ledgerArm, issued, staged, finalized, results, finished, decided, runFailed, verdict>>

\* An exception between two of these steps: a policy, a file, an admission.
Interrupt(w) ==
  /\ claims[w].at \notin {"idle", "raised", "over"} /\ Raise(w)
  /\ UNCHANGED <<ledgerArm, issued, books, runFailed, verdict>>

\* The worker loop latches the failure and ends.
LatchFailure(w) ==
  /\ At(w, "raised") /\ Go(w, "over", "none") /\ runFailed' = TRUE
  /\ UNCHANGED <<ledgerArm, issued, books, verdict>>

EndWorker(w) ==
  /\ At(w, "idle") /\ Go(w, "over", "none")
  /\ UNCHANGED <<ledgerArm, issued, books, runFailed, verdict>>
--------------------------------------------------------------------------------
ChargedDecisions == {d \in decided : d[2] # "not_invoked"}
ChargedIndexes == {d[1] : d \in ChargedDecisions}

\* check_scheduler_result_lifecycle.
LifecycleBroken ==
  \/ staged # {}
  \/ /\ ledgerArm = "llm_scheduler"
     /\ Cardinality(ChargedDecisions) # Cardinality(ChargedIndexes) \/ finalized # ChargedIndexes

\* All workers have returned: the worker's failure goes before the books' own.
CloseBooks ==
  /\ verdict = "none" /\ \A w \in Deciders : At(w, "over")
  /\ verdict' = IF runFailed THEN "worker_failure"
                ELSE IF LifecycleBroken THEN "lifecycle_failure" ELSE "closed"
  /\ UNCHANGED <<ledgerArm, claims, issued, books, runFailed>>

LedgerNext ==
  \/ \E w \in Deciders :
       \/ BeginDecision(w) \/ SkipCall(w) \/ CallNeverRan(w) \/ Reconcile(w) \/ LogFinished(w)
       \/ \E o \in Charges : StageResult(w, o) \/ RecordResult(w, o)
       \/ KeepDecision(w) \/ Interrupt(w) \/ LatchFailure(w) \/ EndWorker(w)
       \/ \E d \in Dispositions : RecordDecision(w, d)
  \/ CloseBooks

LedgerSpec == LedgerInit /\ [][LedgerNext]_ledgerVars
--------------------------------------------------------------------------------
\* _scheduler_decision_ledger: the rows of charged decisions.
ChargedRows == {r \in rows : r[2] # "not_invoked"}
RowsOf(i) == Cardinality({r \in ChargedRows : r[1] = i})

\* _run_health: results, events and rows have the same indexes equally often, and as
\* many as the allocator counted calls.
CloseoutMismatch ==
  \/ \E i \in Decisions : results[i] # RowsOf(i) \/ finished[i] # RowsOf(i)
  \/ Cardinality(ChargedDecisions) # Cardinality(ChargedRows)

LedgerTypeOK ==
  /\ staged \subseteq Decisions /\ finalized \subseteq Decisions /\ issued \in 0 .. DecisionLimit
  /\ \A w \in Deciders : claims[w].index \in 0 .. issued

\* A run without an exception never fails its own lifecycle check, and its artifacts
\* agree: each charged call has one result, one event and one row, and nothing else has
\* any, however the calls overlapped, failed before they ran, or became stale.
LedgersAgree ==
  verdict # "lifecycle_failure" /\ (verdict = "closed" => ~CloseoutMismatch)
================================================================================
