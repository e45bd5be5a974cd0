--------------------------- MODULE VerdictAuthority ---------------------------
(***************************************************************************)
(* contextswarm_mini/runner.py: what a verdict is worth.  The candidate    *)
(* file of an elastic attempt may change between the evaluator's read and  *)
(* each of the runner's; the evaluator may answer for other bytes, for     *)
(* another task or contract, without a job, or not at all; and the Judge   *)
(* may answer differently when it is asked again.  The attempts leave a    *)
(* best candidate, which is frozen, judged afresh and scored, and the      *)
(* health of the run says whether the score means anything.                *)
(*                                                                         *)
(* One task.  RESOURCE_LIMIT stands also for EXECUTION_TIMEOUT, RUNNING    *)
(* for every status that is not terminal, EVALUATOR_ERROR for every other  *)
(* infrastructure status.  Health is what it says of the verdicts.         *)
(***************************************************************************)
EXTENDS Integers, FiniteSets

CONSTANTS Texts,     \* the contents a candidate file may have
          AnswerLimit  \* bound on the evaluations of the solver phase

ASSUME AuthorityAssumption ==
  IsFiniteSet(Texts) /\ Texts # {} /\ "none" \notin Texts /\ AnswerLimit \in Nat

\* normalize_verdict_status and the sets of statuses it is compared with.
Authoritative == {"PROVED", "COMPILES_WITH_SORRY", "VERIFY_FAIL"}
CandidateAttempt == Authoritative \cup {"RESOURCE_LIMIT"}
Infrastructure == {"EVALUATOR_ERROR", "PROVENANCE_INVALID", "UNSETTLED"}
Incomplete == {"AUTHORITY_CONFLICT", "EVALUATOR_ERROR", "MISSING_CANDIDATE", "UNSETTLED"}
Statuses == CandidateAttempt \cup {"EVALUATOR_ERROR", "RUNNING", "LOCAL_REJECTED", "UNSETTLED"}

Verdicts == [status : Statuses \cup {"PROVENANCE_INVALID", "MISSING_CANDIDATE", "OUT_OF_HORIZON"},
             text : Texts,            \* candidate_sha256
             ours : BOOLEAN,          \* the task and its contract are the expected ones
             job : BOOLEAN,           \* there is a well-formed judge_job_id
             retryable : BOOLEAN]
NoVerdict == [status |-> "none"]

VARIABLES
  stage,    \* where the attempt is, then where the run is
  wrote,    \* the candidate file of the attempt
  reply,    \* the verdict it is about
  best,     \* the content of the best candidate
  bestBy,   \* best_verdict
  proofs,   \* the contents for which an attempt's verdict is an authoritative proof
  taint,    \* issues that the attempts raise
  evaluations, \* how many so far
  receipts, \* history: what the Judge has issued, and when
  sealed,   \* the frozen candidate, or "none"
  settled   \* its final verdict

authorityVars == <<stage, wrote, reply, best, bestBy, proofs, taint, evaluations, receipts,
                   sealed, settled>>

AuthorityInit ==
  /\ stage = "working" /\ reply = NoVerdict /\ bestBy = NoVerdict /\ settled = NoVerdict
  /\ \E x \in Texts : wrote = x /\ best = x
  /\ proofs = {} /\ taint = {} /\ evaluations = 0 /\ receipts = {} /\ sealed = "none"
--------------------------------------------------------------------------------
\* An evaluation of text x: the Judge issues a receipt for each outcome with a job.
Evaluates(x, when) ==
  \E status \in Statuses, text \in Texts, ours, job, retryable \in BOOLEAN :
    LET v == [status |-> status, text |-> text, ours |-> ours, job |-> job,
              retryable |-> retryable] IN
    /\ status \notin CandidateAttempt => text = x /\ ours   \* the evaluator's own words
    /\ reply' = v
    /\ receipts' = receipts \cup
         IF status \in CandidateAttempt /\ job
         THEN {[text |-> text, ours |-> ours, status |-> status, when |-> when]} ELSE {}

WriteCandidate(x) ==
  /\ stage \notin {"sealed", "judged", "scored", "failed"} /\ wrote' = x
  /\ UNCHANGED <<stage, reply, best, bestBy, proofs, taint, evaluations, receipts, sealed,
                 settled>>

EvaluateAttempt ==
  /\ stage = "working" /\ evaluations < AnswerLimit /\ stage' = "answered"
  /\ evaluations' = evaluations + 1 /\ Evaluates(wrote, "attempt")
  /\ UNCHANGED <<wrote, best, bestBy, proofs, taint, sealed, settled>>

\* _has_candidate_attempt_provenance, which hashes the candidate once more.
IsBound(v, text) ==
  v.status \in CandidateAttempt /\ v.ours /\ v.job /\ v.text = text

\* _enforce_verdict_provenance
Enforce(v, text) ==
  IF v.status \in CandidateAttempt /\ ~IsBound(v, text)
  THEN [v EXCEPT !.status = "PROVENANCE_INVALID"] ELSE v

\* What _run_health says of one verdict of an attempt.
Raises(v) ==
  (IF v.status \in Infrastructure THEN {"infrastructure"} ELSE {}) \cup
  (IF v.status = "RUNNING" THEN {"nonterminal"} ELSE {})

\* _within_horizon: the deadline may have passed while the Judge was at it.
WithinHorizon(v) == {v, [v EXCEPT !.status = "OUT_OF_HORIZON"]}

\* A remote job without a receipt stops the run; a late verdict is worth nothing.
EnforceAttempt ==
  /\ stage = "answered"
  /\ IF reply.status = "UNSETTLED" THEN stage' = "failed" /\ UNCHANGED reply
     ELSE /\ stage' = "enforced"
          /\ reply' \in {Enforce(v, wrote) : v \in WithinHorizon(reply)}
  /\ UNCHANGED <<wrote, best, bestBy, proofs, taint, evaluations, receipts, sealed, settled>>

\* _verdict_priority
Priority(v) ==
  CASE v.status = "PROVED" -> 4 [] v.status = "COMPILES_WITH_SORRY" -> 2
    [] v.status = "VERIFY_FAIL" -> 1 [] OTHER -> -1

\* candidate_attempt_is_bound, then proof_candidate or improved.  With the task solved
\* meanwhile the attempt counts as cancelled; else its verdict is kept as it is.
BindAttempt ==
  /\ stage = "enforced"
  /\ stage' = IF /\ IsBound(reply, wrote) /\ reply.status \in Authoritative
                 /\ Priority(reply) > Priority(bestBy)
              THEN "bound" ELSE "working"
  /\ IF bestBy.status = "PROVED" THEN UNCHANGED <<proofs, taint>>
     ELSE /\ taint' = taint \cup Raises(reply)
          /\ proofs' = proofs \cup IF reply.status = "PROVED" THEN {reply.text} ELSE {}
  /\ UNCHANGED <<wrote, reply, best, bestBy, evaluations, receipts, sealed, settled>>

\* Faulty variant of Promote: the candidate is copied without another look.
PromoteUnread ==
  /\ stage = "bound" /\ stage' = "working" /\ best' = wrote /\ bestBy' = reply
  /\ UNCHANGED <<wrote, reply, proofs, taint, evaluations, receipts, sealed, settled>>

\* _atomic_promote_candidate: a file that has changed since fails the worker and the run.
Promote ==
  /\ stage = "bound"
  /\ IF wrote = reply.text
     THEN stage' = "working" /\ best' = wrote /\ bestBy' = reply
     ELSE stage' = "failed" /\ UNCHANGED <<best, bestBy>>
  /\ UNCHANGED <<wrote, reply, proofs, taint, evaluations, receipts, sealed, settled>>

\* A probe's proof of the snapshot x is credited (_has_authoritative_snapshot_provenance,
\* _atomic_promote_source); the attempt then ends with that verdict.
CreditSnapshot(x) ==
  /\ stage = "working" /\ evaluations < AnswerLimit /\ evaluations' = evaluations + 1
  /\ Evaluates(x, "attempt")
  /\ IF IsBound(reply', x) /\ reply'.status = "PROVED" /\ bestBy.status # "PROVED"
     THEN best' = x /\ bestBy' = reply' /\ proofs' = proofs \cup {x}
     ELSE UNCHANGED <<best, bestBy, proofs>>
  /\ UNCHANGED <<stage, wrote, taint, sealed, settled>>
--------------------------------------------------------------------------------
\* _freeze_closeout_candidates; a copy may fail once the bytes are read.
FreezeBest(copied) ==
  /\ stage = "working" /\ stage' = "sealed" /\ sealed' = best
  /\ reply' = IF copied THEN NoVerdict ELSE
       [status |-> "MISSING_CANDIDATE", text |-> best, ours |-> TRUE, job |-> FALSE,
        retryable |-> FALSE]
  /\ UNCHANGED <<wrote, best, bestBy, proofs, taint, evaluations, receipts, settled>>

\* _evaluate_closeout_candidate: evaluate_fresh, never an earlier result.
EvaluateSealed ==
  /\ stage = "sealed" /\ stage' = "judged"
  /\ IF reply.status = "MISSING_CANDIDATE" THEN UNCHANGED <<reply, receipts>>
     ELSE Evaluates(sealed, "closeout")
  /\ UNCHANGED <<wrote, best, bestBy, proofs, taint, evaluations, sealed, settled>>

Scored(status, score) == [status |-> status, score |-> score]
HasPriorProof == sealed \in proofs

\* A bound outcome of the submitted candidate, whatever hint the provider adds; and an
\* evaluation that may be tried again.
TerminalFailure(v) == v.status = "RESOURCE_LIMIT" /\ IsBound(v, sealed)
RetryableFailure(v) == v.status = "EVALUATOR_ERROR" /\ v.retryable

\* Faulty variant of Decide: a prior proof stands in for an evaluation that failed.
DecideReusing(v) ==
  IF HasPriorProof /\ RetryableFailure(v) THEN Scored("PROVED", 1)
  ELSE IF HasPriorProof /\ v.status \notin {"PROVED", "RESOURCE_LIMIT", "UNSETTLED"}
       THEN Scored("AUTHORITY_CONFLICT", 0)
  ELSE Scored(v.status, IF v.status = "PROVED" THEN 1 ELSE 0)

\* The decision of _run_closeout on a fresh, enforced verdict.
Decide(v) ==
  CASE v.status = "PROVED" -> Scored("PROVED", 1)
    [] v.status = "UNSETTLED" \/ TerminalFailure(v) \/ ~HasPriorProof -> Scored(v.status, 0)
    [] HasPriorProof /\ RetryableFailure(v) -> Scored("EVALUATOR_ERROR", 0)
    [] OTHER -> Scored("AUTHORITY_CONFLICT", 0)

\* The closeout's verdict and what _run_health says of it; a remote job without a
\* receipt fails the run.
ScoreTask ==
  /\ stage = "judged"
  /\ settled' = Decide(Enforce(reply, sealed))
  /\ taint' = taint \cup Raises(settled')
                    \cup IF settled'.status \in Incomplete \cup {"RUNNING"}
                         THEN {"closeout_incomplete"} ELSE {}
  /\ stage' = IF reply.status = "UNSETTLED" THEN "failed" ELSE "scored"
  /\ UNCHANGED <<wrote, reply, best, bestBy, proofs, evaluations, receipts, sealed>>

AuthorityNext ==
  \/ \E x \in Texts : WriteCandidate(x) \/ CreditSnapshot(x)
  \/ EvaluateAttempt \/ EnforceAttempt \/ BindAttempt \/ Promote
  \/ (\E copied \in BOOLEAN : FreezeBest(copied)) \/ EvaluateSealed \/ ScoreTask

AuthoritySpec == AuthorityInit /\ [][AuthorityNext]_authorityVars
--------------------------------------------------------------------------------
AuthorityTypeOK ==
  /\ stage \in {"working", "answered", "enforced", "bound", "sealed", "judged", "scored", "failed"}
  /\ {wrote, best} \subseteq Texts /\ proofs \subseteq Texts /\ evaluations \in 0 .. AnswerLimit
  /\ {reply, bestBy} \subseteq Verdicts \cup {NoVerdict} /\ sealed \in Texts \cup {"none"}
  /\ settled = NoVerdict \/ settled.score \in {0, 1}

Issued(text, status, whens) ==
  \E r \in receipts : /\ r.text = text /\ r.ours /\ r.status = status /\ r.when \in whens

\* The best candidate holds the very bytes that its verdict was issued for, whatever was
\* written to the attempt's file while the verdict was checked three times.
BestIsJudged ==
  bestBy # NoVerdict => bestBy.text = best /\ Issued(best, bestBy.status, {"attempt"})

\* A point is given only for a receipt that the closeout itself obtained for the frozen
\* bytes; a proof of them by an attempt can only be confirmed, be superseded by a receipt of
\* a resource limit, or be reported as a failure or a conflict; and a healthy run's score
\* rests on such a receipt or on a candidate that is not even submitted.
ScoreRestsOnReceipts ==
  stage = "scored" =>
    /\ settled.score = 1 => Issued(sealed, "PROVED", {"closeout"})
    /\ sealed \in proofs => settled.status \in
         {"PROVED", "RESOURCE_LIMIT", "EVALUATOR_ERROR", "AUTHORITY_CONFLICT"}
    /\ taint = {} => \/ settled.status = "LOCAL_REJECTED"
                     \/ Issued(sealed, settled.status, {"closeout"})
================================================================================
