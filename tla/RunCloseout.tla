----------------------------- MODULE RunCloseout -----------------------------
(***************************************************************************)
(* contextswarm_mini/runner.py, run_experiment with _run_mono and          *)
(* _run_task_workers: solvers edit candidate files and have snapshots of   *)
(* them judged, proofs are credited by a broker callback, failed solvers   *)
(* are refilled on restored files, and the run freezes one candidate per   *)
(* task, closes the broker and judges the frozen bytes afresh.             *)
(*                                                                         *)
(* The Judge is sound: it proves exactly the contents in Proofs.  A check  *)
(* of anything else, and of a task already credited, changes nothing here  *)
(* and is left out.  The deadline and cancellation may come at any time,   *)
(* so what they permit is always allowed.  The elastic runner's solver     *)
(* phase is the module ElasticRunner.                                      *)
(***************************************************************************)
EXTENDS Integers, FiniteSets

CONSTANTS RunTasks, Proofs,
          EpisodeLimit,  \* episodes_per_task
          RefillLimit    \* pi_recovery_max_restarts, as a number of replacements

ASSUME CloseoutAssumption ==
  /\ IsFiniteSet(RunTasks) /\ {"none", "baseline"} \cap Proofs = {}
  /\ EpisodeLimit \in Nat \ {0} /\ RefillLimit \in Nat

\* The baseline stands for every text that is no proof.
Contents == {"baseline"} \cup Proofs

VARIABLES
  mode,       \* config.mode: mono, or parallel
  run,        \* how far run_experiment has come
  solver,     \* what the solver of each task is doing; in mono all are one
  succeeded,  \* its last result has returncode 0
  episode,    \* its episode
  refills,    \* replacements left in this episode
  file,       \* the candidate file of each task
  backup,     \* .best-<candidate>, or "none"
  asked,      \* the snapshot a judge_check of the task has at the Judge, or "none"
  credit,     \* early_credit: the credited source, or "none"
  creditOf,   \* the episode it was credited to
  authority,  \* attempt_verdicts: the content of a proved attempt, or "none"
  taken,      \* the credit read for the collection of the task, or "none"
  broken,     \* callback_failure
  frozen,     \* closeout_candidates: the recorded digest, "none" if the file was not read
  uncopied,   \* the tasks whose copy was recorded as an error
  final,      \* the closeout verdict
  prompt      \* history: tasks credited before their credit was read

solverVars == <<solver, succeeded, episode, refills>>
fileVars == <<file, backup>>
creditVars == <<asked, credit, creditOf, broken, prompt>>
endVars == <<frozen, uncopied, final>>
closeoutVars == <<mode, run, solverVars, fileVars, creditVars, taken, authority, endVars>>

\* The tasks that share the solver of t.
Bundle(t) == IF mode = "mono" THEN RunTasks ELSE {t}
Overlay(f, S, e(_)) == [t \in RunTasks |-> IF t \in S THEN e(t) ELSE f[t]]

CloseoutInit ==
  /\ mode \in {"mono", "parallel"} /\ run = "solving" /\ broken = FALSE /\ prompt = {}
  /\ solver = [t \in RunTasks |-> "ready"] /\ succeeded = [t \in RunTasks |-> FALSE]
  /\ episode = [t \in RunTasks |-> 1] /\ refills = [t \in RunTasks |-> RefillLimit]
  /\ file = [t \in RunTasks |-> "baseline"] /\ creditOf = [t \in RunTasks |-> 0]
  /\ backup = [t \in RunTasks |-> "none"] /\ asked = backup /\ credit = backup
  /\ taken = backup /\ authority = backup /\ frozen = backup /\ final = backup
  /\ uncopied = {}
--------------------------------------------------------------------------------
Solving == run = "solving"
Moves(t, from, to) ==
  /\ Solving /\ solver[t] = from
  /\ solver' = Overlay(solver, Bundle(t), LAMBDA u : to)
RunFails == run' = "error"

\* The solver starts, on a candidate of which a copy is kept.
StartSolver(t) ==
  /\ Moves(t, "ready", "running")
  /\ backup' = Overlay(backup, Bundle(t),
                       LAMBDA u : IF backup[u] = "none" THEN file[u] ELSE backup[u])
  /\ IF broken THEN RunFails ELSE UNCHANGED run
  /\ UNCHANGED <<mode, succeeded, episode, refills, file, creditVars, taken, authority,
                 endVars>>

EditCandidate(t, c) ==
  /\ Solving /\ solver[t] = "running" /\ file' = [file EXCEPT ![t] = c]
  /\ UNCHANGED <<mode, run, solverVars, backup, creditVars, taken, authority, endVars>>

AskJudge(t) ==
  /\ Solving /\ solver[t] = "running" /\ asked[t] = "none" /\ credit[t] = "none"
  /\ file[t] \in Proofs
  /\ asked' = [asked EXCEPT ![t] = file[t]]
  /\ UNCHANGED <<mode, run, solverVars, fileVars, credit, creditOf, broken, prompt,
                 taken, authority, endVars>>

\* admit_early_proof: the first proof of a task is credited, to the episode that is
\* current when it arrives.
AdmitProof(t) ==
  /\ credit[t] = "none" /\ credit' = [credit EXCEPT ![t] = asked[t]]
  /\ creditOf' = [creditOf EXCEPT ![t] = episode[t]]
  /\ prompt' = IF solver[t] \in {"running", "exited", "collecting"} THEN prompt \cup {t}
               ELSE prompt

\* An artifact of the credit that cannot be written latches the failure.  A check
\* cancelled with its session, or too late, comes to nothing.
CheckAnswered(t) ==
  /\ run \in {"solving", "frozen"} /\ asked[t] # "none"
  /\ asked' = [asked EXCEPT ![t] = "none"]
  /\ \/ UNCHANGED <<credit, creditOf, broken, prompt>>
     \/ AdmitProof(t) /\ UNCHANGED broken
     \/ credit[t] = "none" /\ broken' = TRUE /\ UNCHANGED <<credit, creditOf, prompt>>
  /\ UNCHANGED <<mode, run, solverVars, fileVars, taken, authority, endVars>>

SolverExits(t, ok) ==
  /\ Moves(t, "running", "exited")
  /\ succeeded' = Overlay(succeeded, Bundle(t), LAMBDA u : ok)
  /\ UNCHANGED <<mode, run, episode, refills, fileVars, creditVars, taken, authority, endVars>>

\* A credit of the present episode; mono has one episode.
Credited(t) == credit[t] # "none" /\ creditOf[t] = episode[t]

\* A failed solver is replaced while a proof is missing,
MayRefill(t) == ~succeeded[t] /\ refills[t] > 0 /\ \E u \in Bundle(t) : ~Credited(u)

\* on the restored files.
RefillSolver(t) ==
  /\ MayRefill(t) /\ Moves(t, "exited", "running")
  /\ refills' = Overlay(refills, Bundle(t), LAMBDA u : refills[u] - 1)
  /\ file' = Overlay(file, Bundle(t), LAMBDA u : backup[u])
  /\ UNCHANGED <<mode, run, succeeded, episode, backup, creditVars, taken, authority, endVars>>

\* The result and the count of replacements are the episode's own.
ForgetSolver(t) ==
  /\ succeeded' = Overlay(succeeded, Bundle(t), LAMBDA u : FALSE)
  /\ refills' = Overlay(refills, Bundle(t), LAMBDA u : RefillLimit)

\* Faulty variant of AfterSolver: a failed solver is given up whatever was credited.
AfterSolverFailed(t) ==
  /\ Moves(t, "exited", IF succeeded[t] THEN "collecting" ELSE "over")
  /\ ForgetSolver(t)
  /\ IF broken THEN RunFails ELSE UNCHANGED run
  /\ UNCHANGED <<mode, episode, fileVars, creditVars, taken, authority, endVars>>

\* The candidates of a failed solver without any credit are not judged.
IsJudged(t) == succeeded[t] \/ \E u \in Bundle(t) : Credited(u)

\* No replacement, or none allowed.
AfterSolver(t) ==
  /\ Moves(t, "exited", IF IsJudged(t) THEN "collecting" ELSE "over")
  /\ ForgetSolver(t)
  /\ IF broken THEN RunFails ELSE UNCHANGED run
  /\ UNCHANGED <<mode, episode, fileVars, creditVars, taken, authority, endVars>>

\* The credit is read once, before the file is judged; mono takes its tasks in turn.
TakeCredit(t) ==
  /\ Solving /\ solver[t] = "collecting" /\ \A u \in Bundle(t) : solver[u] # "judging"
  /\ solver' = [solver EXCEPT ![t] = "judging"]
  /\ taken' = [taken EXCEPT ![t] = IF Credited(t) THEN credit[t] ELSE "none"]
  /\ UNCHANGED <<mode, run, succeeded, episode, refills, fileVars, creditVars, authority,
                 endVars>>

\* A credited source becomes the candidate again; otherwise the file is judged.
Collected(t) == IF taken[t] # "none" THEN taken[t] ELSE file[t]

\* With a proof the task is over, as it is after its last episode.
CollectTask(t) ==
  LET more == mode = "parallel" /\ episode[t] < EpisodeLimit
      Next(s) == solver' = [solver EXCEPT ![t] = s]
  IN
  /\ Solving /\ solver[t] = "judging" /\ taken' = [taken EXCEPT ![t] = "none"]
  /\ \/ /\ Collected(t) \in Proofs /\ Next("over")
        /\ file' = [file EXCEPT ![t] = Collected(t)]
        /\ authority' = [authority EXCEPT ![t] = Collected(t)]
        /\ backup' = [backup EXCEPT ![t] = Collected(t)]
        /\ UNCHANGED <<run, episode>>
     \/ /\ taken[t] = "none" /\ UNCHANGED <<run, file, authority>>
        /\ Next(IF more THEN "ready" ELSE "over")
        /\ episode' = [episode EXCEPT ![t] = IF more THEN @ + 1 ELSE @]
        /\ backup' = [backup EXCEPT ![t] = file[t]]
     \/ RunFails /\ UNCHANGED <<solver, episode, fileVars, authority>>
  /\ UNCHANGED <<mode, succeeded, refills, creditVars, endVars>>
--------------------------------------------------------------------------------
\* All solvers have returned: one candidate per task is frozen.  A file that cannot be
\* read, or a copy that cannot be written, is recorded, and the run goes on.
Freeze ==
  /\ Solving /\ \A t \in RunTasks : solver[t] = "over"
  /\ run' = "frozen" /\ uncopied' \in SUBSET RunTasks
  /\ \E unread \in SUBSET uncopied' :
       frozen' = [t \in RunTasks |-> IF t \in unread THEN "none" ELSE file[t]]
  /\ UNCHANGED <<mode, solverVars, fileVars, creditVars, taken, authority, final>>

\* close() waits for the handlers, or gives up.
CloseBroker ==
  /\ run = "frozen"
  /\ \/ (\A t \in RunTasks : asked[t] = "none") /\ run' = "closeout"
     \/ RunFails
  /\ UNCHANGED <<mode, solverVars, fileVars, creditVars, taken, authority, endVars>>

\* _prior_authoritative_proof: an attempt proved the very bytes whose digest was recorded.
HasPrior(t) == authority[t] # "none" /\ authority[t] = frozen[t]

\* What a fresh evaluation of the frozen bytes may bring; without a copy there is none.
Observed(t) ==
  IF t \in uncopied THEN {"MISSING_CANDIDATE"}
  ELSE {"RESOURCE_LIMIT", "RETRYABLE", "EVALUATOR_ERROR", "UNSETTLED",
        IF frozen[t] \in Proofs THEN "PROVED" ELSE "VERIFY_FAIL"}

\* The decision of _run_closeout's evaluate().
Decision(t, observed) ==
  IF observed \in {"PROVED", "RETRYABLE", "RESOURCE_LIMIT", "UNSETTLED"} \/ ~HasPrior(t)
  THEN observed ELSE "AUTHORITY_CONFLICT"

EvaluateFrozen(t) ==
  /\ run = "closeout" /\ final[t] = "none"
  /\ \E observed \in Observed(t) : final' = [final EXCEPT ![t] = Decision(t, observed)]
  /\ UNCHANGED <<mode, run, solverVars, fileVars, creditVars, taken, authority, frozen,
                 uncopied>>

\* An artifact of the closeout that cannot be written makes the run an error.
ArtifactFails ==
  /\ run = "closeout" /\ RunFails
  /\ UNCHANGED <<mode, solverVars, fileVars, creditVars, taken, authority, endVars>>

\* _run_health: a closeout that did not come to a verdict of the Judge on every task.
CloseoutIncomplete ==
  \E t \in RunTasks :
    final[t] \in {"AUTHORITY_CONFLICT", "EVALUATOR_ERROR", "MISSING_CANDIDATE", "RETRYABLE"}

\* The final counters decide between an error and a result, and the health between
\* COMPLETED and DEGRADED; other issues degrade a run as well.
FinishRun ==
  /\ run = "closeout" /\ \A t \in RunTasks : final[t] # "none"
  /\ \/ (\E t \in RunTasks : final[t] = "UNSETTLED") /\ RunFails
     \/ (\A t \in RunTasks : final[t] # "UNSETTLED") /\ run' = "degraded"
     \/ (\A t \in RunTasks : final[t] # "UNSETTLED") /\ ~CloseoutIncomplete /\ run' = "completed"
  /\ UNCHANGED <<mode, solverVars, fileVars, creditVars, taken, authority, endVars>>

CloseoutNext ==
  \/ \E t \in RunTasks :
       \/ StartSolver(t) \/ AskJudge(t) \/ CheckAnswered(t)
       \/ \E c \in Contents : EditCandidate(t, c)
       \/ \E ok \in BOOLEAN : SolverExits(t, ok)
       \/ RefillSolver(t) \/ AfterSolver(t) \/ TakeCredit(t) \/ CollectTask(t)
       \/ EvaluateFrozen(t)
  \/ Freeze \/ CloseBroker \/ ArtifactFails \/ FinishRun

CloseoutSpec == CloseoutInit /\ [][CloseoutNext]_closeoutVars
--------------------------------------------------------------------------------
CloseoutTypeOK ==
  /\ run \in {"solving", "frozen", "closeout", "completed", "degraded", "error"}
  /\ uncopied \subseteq RunTasks
  /\ \A t \in RunTasks :
       /\ solver[t] \in {"ready", "running", "exited", "collecting", "judging", "over"}
       /\ episode[t] \in 1 .. EpisodeLimit /\ refills[t] \in 0 .. RefillLimit
       /\ file[t] \in Contents /\ {backup[t], frozen[t]} \subseteq Contents \cup {"none"}
       /\ {asked[t], credit[t], taken[t], authority[t]} \subseteq Proofs \cup {"none"}

\* A proof credited before the runner read the credit, or counted as a proved attempt, is
\* the candidate that the closeout judges, whatever the solver wrote afterwards, however
\* it ended and whatever a refill restored, unless its copy failed.  It is never scored as
\* a failed proof, and a run in which it was not judged, because the copy failed or the
\* evaluator did, is not reported as completed.
ProofsKept ==
  \A t \in RunTasks :
    /\ run \in {"closeout", "completed", "degraded"} /\ t \notin uncopied =>
         /\ t \in prompt => frozen[t] = credit[t]
         /\ authority[t] # "none" => frozen[t] = authority[t]
    /\ t \in prompt \/ authority[t] # "none" =>
         /\ final[t] # "VERIFY_FAIL"
         /\ run = "completed" => final[t] \in {"PROVED", "RESOURCE_LIMIT"}

\* Every credited proof is the frozen candidate, as test_mini_runtime.py:1694 has it.
CreditedIsFrozen ==
  run = "closeout" =>
    \A t \in RunTasks : credit[t] # "none" /\ t \notin uncopied => frozen[t] = credit[t]
================================================================================
