------------------------------ MODULE CodingJudge ------------------------------
(***************************************************************************)
(* CodingEvaluator of contextswarm_mini/evaluator.py under the evaluator   *)
(* gate of the broker: submit a program, poll its job, and at a            *)
(* cancellation or the deadline delete it and wait for its receipt, in the *)
(* foreground first and then in a settlement watcher.  Unlike the Lean     *)
(* evaluator of JudgeGate it neither retries nor replays a submission, and *)
(* every transport failure is one answer.  Each call has one job.          *)
(***************************************************************************)
EXTENDS Integers, FiniteSets

CONSTANTS Coders,    \* calls of evaluate
          JudgeSlots \* permits of the evaluator gate

ASSUME CodingAssumption == JudgeSlots \in Nat \ {0}

VARIABLES
  coder,      \* where each call is, or how it ended
  codingJob,  \* its job, at the Judge
  permit,     \* the calls whose permit is not back
  watched,    \* the calls with a settlement watcher
  stopped,    \* the calls whose cancel_event is set
  cutoff,     \* deadline_monotonic has passed
  codingLatch \* remote_unsettled_jobs > 0

codingVars == <<coder, codingJob, permit, watched, stopped, cutoff, codingLatch>>

Ended == {"verdict", "error", "refused", "deferred", "unconfirmed"}

CodingInit ==
  /\ coder = [c \in Coders |-> "idle"] /\ codingJob = [c \in Coders |-> "none"]
  /\ permit = {} /\ watched = {} /\ stopped = {} /\ cutoff = FALSE /\ codingLatch = FALSE

\* The caller releases the gate unless the answer is deferred or unconfirmed.
Answer(c, outcome) ==
  /\ coder' = [coder EXCEPT ![c] = outcome]
  /\ permit' = IF outcome \in {"deferred", "unconfirmed"} THEN permit ELSE permit \ {c}
  /\ codingLatch' = (codingLatch \/ outcome = "unconfirmed")
  /\ watched' = IF outcome = "deferred" THEN watched \cup {c} ELSE watched

Continue(c, place) ==
  coder' = [coder EXCEPT ![c] = place] /\ UNCHANGED <<permit, watched, codingLatch>>
--------------------------------------------------------------------------------
\* evaluate, evaluate_fresh, probe and probe_source are one call: none of them looks at
\* an earlier verdict.
CallsJudge(c) == coder' = [coder EXCEPT ![c] = "entered"]

\* _acquire_evaluator_gate.
EnterGate(c) ==
  /\ coder[c] = "idle" /\ ~codingLatch /\ Cardinality(permit) < JudgeSlots
  /\ CallsJudge(c) /\ permit' = permit \cup {c}
  /\ UNCHANGED <<codingJob, watched, stopped, cutoff, codingLatch>>

\* The early returns of _evaluate_code: nothing in the candidate, a cancellation or the
\* deadline; an unsettled job of another call.
AnswerAtOnce(c) ==
  /\ coder[c] = "entered"
  /\ \/ Answer(c, "refused")
     \/ codingLatch /\ Answer(c, "unconfirmed")
  /\ UNCHANGED <<codingJob, stopped, cutoff>>

\* POST: a job with an identifier, a job without one, a rejection, or a transport
\* failure, after which a job may exist.
PostCode(c) ==
  /\ coder[c] = "entered" /\ ~codingLatch /\ c \notin stopped /\ ~cutoff
  /\ \/ /\ Continue(c, "polling") /\ codingJob' = [codingJob EXCEPT ![c] = "live"]
     \/ /\ Answer(c, "unconfirmed") /\ codingJob' = [codingJob EXCEPT ![c] = "live"]
     \/ /\ Answer(c, "error")
        /\ \E made \in {"none", "live"} : codingJob' = [codingJob EXCEPT ![c] = made]
  /\ UNCHANGED <<stopped, cutoff>>

\* GET says that the job is terminal: _response_status is the verdict.
PollEnds(c) ==
  /\ coder[c] = "polling" /\ codingJob[c] = "over" /\ Answer(c, "verdict")
  /\ UNCHANGED <<codingJob, stopped, cutoff>>

\* _request raises EvaluatorError: HTTP error, transport failure, malformed answer.
PollFails(c) ==
  /\ coder[c] = "polling" /\ Answer(c, "error")
  /\ UNCHANGED <<codingJob, stopped, cutoff>>

\* Faulty variant of DeleteJob: the deadline does not end the poll loop.
DeleteOnCancel(c) ==
  /\ coder[c] = "polling" /\ c \in stopped /\ Continue(c, "cancelling")
  /\ UNCHANGED <<codingJob, stopped, cutoff>>

\* The poll loop is left at a cancellation or the deadline: DELETE.
DeleteJob(c) ==
  /\ coder[c] = "polling" /\ (c \in stopped \/ cutoff) /\ Continue(c, "cancelling")
  /\ UNCHANGED <<codingJob, stopped, cutoff>>

\* _cancel_and_reconcile_details: a terminal receipt inside the grace, a watcher that
\* goes on asking, or neither.
ReconcileDelete(c) ==
  /\ coder[c] = "cancelling"
  /\ \/ codingJob[c] = "over" /\ Answer(c, "verdict")
     \/ Answer(c, "deferred")
     \/ Answer(c, "unconfirmed")
  /\ UNCHANGED <<codingJob, stopped, cutoff>>

\* The watcher's receipt frees the permit; its own deadline sets the latch.
WatcherReports(c) ==
  /\ c \in watched /\ watched' = watched \ {c}
  /\ \/ codingJob[c] = "over" /\ permit' = permit \ {c} /\ UNCHANGED codingLatch
     \/ codingLatch' = TRUE /\ UNCHANGED permit
  /\ UNCHANGED <<coder, codingJob, stopped, cutoff>>

JobEnds(c) ==
  /\ codingJob[c] = "live" /\ codingJob' = [codingJob EXCEPT ![c] = "over"]
  /\ UNCHANGED <<coder, permit, watched, stopped, cutoff, codingLatch>>

StopCoder(c) ==
  /\ c \notin stopped /\ stopped' = stopped \cup {c}
  /\ UNCHANGED <<coder, codingJob, permit, watched, cutoff, codingLatch>>

CutoffPasses ==
  /\ ~cutoff /\ cutoff' = TRUE
  /\ UNCHANGED <<coder, codingJob, permit, watched, stopped, codingLatch>>

\* The steps of a running call: its requests are answered or time out.
CoderStep(c) ==
  AnswerAtOnce(c) \/ PostCode(c) \/ PollEnds(c) \/ DeleteJob(c) \/ ReconcileDelete(c)

CodingNext ==
  \/ \E c \in Coders :
       EnterGate(c) \/ CoderStep(c) \/ PollFails(c) \/ WatcherReports(c) \/ JobEnds(c) \/ StopCoder(c)
  \/ CutoffPasses

\* The clock runs, and so do callers and watchers.  The Judge need not end a job.
CodingFairness ==
  /\ WF_codingVars(CutoffPasses)
  /\ \A c \in Coders : WF_codingVars(CoderStep(c)) /\ WF_codingVars(WatcherReports(c))

CodingSpec == CodingInit /\ [][CodingNext]_codingVars /\ CodingFairness
--------------------------------------------------------------------------------
CodingTypeOK ==
  /\ coder \in [Coders -> {"idle", "entered", "polling", "cancelling"} \cup Ended]
  /\ codingJob \in [Coders -> {"none", "live", "over"}]
  /\ permit \subseteq Coders /\ watched \subseteq Coders /\ Cardinality(permit) <= JudgeSlots

\* A permit is not held for ever by a job the Judge never ends: it comes back, or the
\* arm is latched and no call is admitted any more.
PermitReturns == \A c \in Coders : c \in permit ~> (c \notin permit \/ codingLatch)

\* README.md: every submission, cancellation or reconciliation that cannot be bound to
\* a terminal receipt is latched.  A job that may still run after its call has
\* answered is watched, or admission has stopped.
UnboundIsLatched ==
  \A c \in Coders :
    (coder[c] \in Ended /\ codingJob[c] = "live") => (c \in watched \/ codingLatch)
================================================================================
