------------------------------- MODULE JudgeGate -------------------------------
(***************************************************************************)
(* The path of one Judge evaluation through judge_broker.py, evaluator.py  *)
(* and the runner's _evaluate_candidate: the FIFO of broker handlers, the  *)
(* shared evaluator_gate semaphore, the submission, polling, cancellation  *)
(* and reconciliation of the remote job, the settlement watchers that give *)
(* retained permits back, and the one-way latch remote_unsettled_jobs.     *)
(*                                                                         *)
(* Each read of shared state that a thread acts on later is a step of its  *)
(* own.  The clock is abstracted to whether the horizon has passed, which  *)
(* is every call's deadline; grace periods may end at any moment.  The     *)
(* remote Judge is external: it admits, rejects, loses and finishes jobs   *)
(* as it likes.                                                            *)
(***************************************************************************)
EXTENDS Integers, Sequences, FiniteSets

CONSTANTS Calls,          \* the evaluations ever asked for
          Direct,         \* of those, the runner's own, which bypass the broker
          Formal,         \* and those of the formal tools; the others are judge_check
          Jobs,           \* the remote jobs the Judge can ever create
          NoJob,
          Capacity,       \* permits of evaluator_gate
          MaxResubmits,   \* terminal_overload_retries
          Coalesce        \* whether the Judge may answer a submission with a live job

ASSUME GateAssumption ==
  /\ Direct \subseteq Calls /\ Formal \subseteq Calls \ Direct
  /\ IsFiniteSet(Calls)
  /\ NoJob \notin Jobs
  /\ Capacity \in Nat \ {0} /\ MaxResubmits \in Nat /\ Coalesce \in BOOLEAN

VARIABLES
  pc,          \* where each call is
  fifo,        \* _admission_queue
  permits,     \* the value of evaluator_gate
  holding,     \* the calls whose permit has not been given back
  revoked,     \* the calls whose session is revoked or whose task is cancelled
  expired,     \* the horizon has passed
  unsettled,   \* remote_unsettled_jobs
  before,      \* evaluator_unsettled_before of a formal call
  resubmits,   \* resubmissions after a terminal overload
  verdict,     \* the class of the Verdict the evaluator returned
  job,         \* the job a call submitted
  remote,      \* the state of each job at the Judge
  watcher,     \* the stage of each job's settlement watcher
  callbacks,   \* its record's "callbacks", named by the call that registered them
  batch        \* the callbacks it has taken out of the record

callVars == <<before, resubmits, verdict, job>>
watchVars == <<watcher, callbacks, batch>>
gateVars == <<fifo, permits, holding>>
vars == <<pc, fifo, permits, holding, revoked, expired, unsettled, before,
          resubmits, verdict, job, remote, watcher, callbacks, batch>>

Latched == unsettled > 0
Brokered == Calls \ Direct
Probes == Brokered \ Formal
Final == {"refused", "done", "kept"}
Evaluating == {"checking", "posting", "polling", "cancelling", "returned"}

Init ==
  /\ pc = [c \in Calls |-> "idle"]
  /\ fifo = <<>> /\ permits = Capacity /\ holding = {}
  /\ revoked = {} /\ expired = FALSE /\ unsettled = 0
  /\ before = [c \in Calls |-> 0]
  /\ resubmits = [c \in Calls |-> 0]
  /\ verdict = [c \in Calls |-> "none"]
  /\ job = [c \in Calls |-> NoJob]
  /\ remote = [j \in Jobs |-> "unused"]
  /\ watcher = [j \in Jobs |-> "none"]
  /\ callbacks = [j \in Jobs |-> {}]
  /\ batch = [j \in Jobs |-> {}]

Move(c, from, to) == pc[c] = from /\ pc' = [pc EXCEPT ![c] = to]
Waits(c) == \E i \in DOMAIN fifo : fifo[i] = c
LeaveQueue(c) ==
  \/ ~Waits(c) /\ UNCHANGED fifo
  \/ \E i \in DOMAIN fifo :
       /\ fifo[i] = c
       /\ fifo' = [k \in 1 .. Len(fifo) - 1 |-> IF k < i THEN fifo[k] ELSE fifo[k + 1]]
TakePermit(c) == permits' = permits - 1 /\ holding' = holding \cup {c}
GivePermit(c) == permits' = permits + 1 /\ holding' = holding \ {c}
--------------------------------------------------------------------------------
\* A broker request with a live claim queues; the runner's own call does not.
\* A handler that finds the latch, the horizon or its cancellation answers at once.
Arrive(c) ==
  /\ \/ /\ c \in Brokered /\ (Latched \/ c \in revoked \/ expired)
        /\ Move(c, "idle", "refused") /\ UNCHANGED fifo
     \/ /\ c \in Brokered /\ ~Latched /\ c \notin revoked /\ ~expired
        /\ Move(c, "idle", "queued") /\ fifo' = Append(fifo, c)
     \/ /\ c \in Direct
        /\ Move(c, "idle", "queued") /\ UNCHANGED fifo
  /\ UNCHANGED <<permits, holding, revoked, expired, unsettled, callVars, remote, watchVars>>

\* _acquire_evaluator_gate returns False before it got the semaphore.  Broker
\* callers may also have an admission deadline of their own.
GiveUp(c) ==
  /\ Latched \/ expired \/ c \in Brokered
  /\ Move(c, "queued", "refused")
  /\ LeaveQueue(c)
  /\ UNCHANGED <<permits, holding, revoked, expired, unsettled, callVars, remote, watchVars>>

\* Only the FIFO head competes for the semaphore, together with direct calls.
AcquireGate(c) ==
  /\ permits > 0
  /\ c \in Direct \/ (fifo # <<>> /\ Head(fifo) = c)
  /\ Move(c, "queued", "acquired")
  /\ TakePermit(c)
  /\ UNCHANGED <<fifo, revoked, expired, unsettled, callVars, remote, watchVars>>

\* Faulty variant of Admit: the latch is not read again.
AdmitLatched(c) ==
  /\ Move(c, "acquired", "admitted")
  /\ LeaveQueue(c)
  /\ UNCHANGED <<permits, holding, revoked, expired, unsettled, callVars, remote, watchVars>>

\* The latch is read again after the acquisition, then the waiter leaves the queue.
Admit(c) ==
  /\ \/ ~Latched /\ Move(c, "acquired", "admitted") /\ UNCHANGED <<permits, holding>>
     \/ Latched /\ Move(c, "acquired", "refused") /\ GivePermit(c)
  /\ LeaveQueue(c)
  /\ UNCHANGED <<revoked, expired, unsettled, callVars, remote, watchVars>>

\* judge_check looks once more at the latch, the cancellation and the horizon.
LoseAdmission(c) ==
  /\ c \in Probes /\ (Latched \/ c \in revoked \/ expired)
  /\ Move(c, "admitted", "done")
  /\ GivePermit(c)
  /\ UNCHANGED <<fifo, revoked, expired, unsettled, callVars, remote, watchVars>>

StartEvaluation(c) ==
  /\ c \in Probes => ~(Latched \/ c \in revoked \/ expired)
  /\ Move(c, "admitted", "checking")
  /\ before' = [before EXCEPT ![c] = IF c \in Formal THEN unsettled ELSE 0]
  /\ UNCHANGED <<gateVars, revoked, expired, unsettled, resubmits, verdict, job,
                 remote, watchVars>>
--------------------------------------------------------------------------------
\* LeanEvaluator._evaluate.  The caller's event is combined with the latch.
CancelRequested(c) == Latched \/ c \in revoked

Return(c, from, v) ==
  /\ Move(c, from, "returned")
  /\ verdict' = [verdict EXCEPT ![c] = v]

\* The checks at entry, at the head of the submission loop and in _request.
CheckSubmission(c) ==
  /\ \/ Latched /\ Return(c, "checking", "unconfirmed")
     \/ c \in revoked /\ Return(c, "checking", "cancelled")
     \/ expired /\ Return(c, "checking", "failed")
     \/ /\ ~(CancelRequested(c) \/ expired)
        /\ Move(c, "checking", "posting") /\ UNCHANGED verdict
  /\ UNCHANGED <<gateVars, revoked, expired, unsettled, before, resubmits, job,
                 remote, watchVars>>

\* A cached probe verdict or a local contract rejection needs no remote job.
AnswerLocally(c) ==
  /\ ~Latched /\ resubmits[c] = 0
  /\ Return(c, "checking", "settled")
  /\ UNCHANGED <<gateVars, revoked, expired, unsettled, before, resubmits, job,
                 remote, watchVars>>

\* POST was accepted with a bindable id; a coalescing Judge may name a live job.
PostAccepted(c, j) ==
  /\ remote[j] = "unused" \/ (Coalesce /\ remote[j] = "live")
  /\ Move(c, "posting", "polling")
  /\ remote' = [remote EXCEPT ![j] = "live"]
  /\ job' = [job EXCEPT ![c] = j]
  /\ UNCHANGED <<gateVars, revoked, expired, unsettled, before, resubmits, verdict, watchVars>>

\* Confirmed rejection before admission: the loop runs again.
PostRejected(c) ==
  /\ Move(c, "posting", "checking")
  /\ UNCHANGED <<gateVars, revoked, expired, unsettled, callVars, remote, watchVars>>

\* A plain transport or request error that created no job.
PostFailed(c) ==
  /\ Return(c, "posting", "failed")
  /\ UNCHANGED <<gateVars, revoked, expired, unsettled, before, resubmits, job,
                 remote, watchVars>>

\* The outcome is unknown, or the receipt names no job: latch.  A job may run.
PostAmbiguous(c) ==
  /\ Return(c, "posting", "unconfirmed")
  /\ unsettled' = unsettled + 1
  /\ \/ UNCHANGED <<job, remote>>
     \/ \E j \in Jobs :
          /\ remote[j] = "unused"
          /\ remote' = [remote EXCEPT ![j] = "live"]
          /\ job' = [job EXCEPT ![c] = j]
  /\ UNCHANGED <<gateVars, revoked, expired, before, resubmits, watchVars>>

\* A poll returns the terminal receipt.
PollTerminal(c) ==
  /\ job[c] # NoJob /\ remote[job[c]] = "settled"
  /\ Return(c, "polling", "settled")
  /\ UNCHANGED <<gateVars, revoked, expired, unsettled, before, resubmits, job,
                 remote, watchVars>>

\* The receipt is a retryable overload: _retry_terminal_overload submits again,
\* also when a call without a horizon met it while reconciling an abandoned job.
PollOverload(c) ==
  /\ job[c] # NoJob /\ remote[job[c]] = "settled"
  /\ resubmits[c] < MaxResubmits /\ ~expired
  /\ \/ Move(c, "polling", "checking")
     \/ c \in Direct /\ Move(c, "cancelling", "checking")
  /\ resubmits' = [resubmits EXCEPT ![c] = @ + 1]
  /\ job' = [job EXCEPT ![c] = NoJob]
  /\ UNCHANGED <<gateVars, revoked, expired, unsettled, before, verdict, remote, watchVars>>

\* Faulty variant of StartCancel: the poll loop does not look at the deadline.
StartCancelOnRequest(c) ==
  /\ CancelRequested(c)
  /\ Move(c, "polling", "cancelling")
  /\ UNCHANGED <<gateVars, revoked, expired, unsettled, callVars, remote, watchVars>>

\* _cancel_and_reconcile_details: DELETE is sent, then polled for a grace period.
\* A direct call has no horizon: its own lifecycle budget may end at any time.
StartCancel(c) ==
  /\ CancelRequested(c) \/ expired \/ c \in Direct
  /\ Move(c, "polling", "cancelling")
  /\ UNCHANGED <<gateVars, revoked, expired, unsettled, callVars, remote, watchVars>>

\* A terminal receipt: our own cancellation, or a completion that raced with it.
CancelSettled(c) ==
  /\ job[c] # NoJob /\ remote[job[c]] = "settled"
  /\ \E v \in {"cancelled", "settled"} : Return(c, "cancelling", v)
  /\ UNCHANGED <<gateVars, revoked, expired, unsettled, before, resubmits, job,
                 remote, watchVars>>

\* Grace is over without a receipt and without a known reason: latch.
CancelUnconfirmed(c) ==
  /\ Return(c, "cancelling", "unconfirmed")
  /\ unsettled' = unsettled + 1
  /\ UNCHANGED <<gateVars, revoked, expired, before, resubmits, job, remote, watchVars>>

\* _start_settlement_watcher: a known job is left to a watcher, with a callback
\* that will release this call's permit; an existing record gets one callback more.
CancelDeferred(c) ==
  LET j == job[c] IN
  /\ j # NoJob
  /\ Return(c, "cancelling", "deferred")
  /\ watcher' = [watcher EXCEPT ![j] = IF @ = "none" THEN "polling" ELSE @]
  /\ callbacks' = [callbacks EXCEPT ![j] = @ \cup {c}]
  /\ UNCHANGED <<gateVars, revoked, expired, unsettled, before, resubmits, job,
                 remote, batch>>

\* Faulty variant of Retains: the verdict's own flags are not looked at.
RetainsByLatch(c) == IF c \in Formal THEN unsettled > before[c] ELSE Latched
\* Whether the caller keeps the permit: judge_check and the runner look at the
\* latch itself, the formal tools at whether it moved during their call.
Retains(c) ==
  \/ verdict[c] \in {"unconfirmed", "deferred"}
  \/ IF c \in Formal THEN unsettled > before[c] ELSE Latched

FinishCall(c) ==
  /\ \/ Retains(c) /\ Move(c, "returned", "kept") /\ UNCHANGED <<permits, holding>>
     \/ ~Retains(c) /\ Move(c, "returned", "done") /\ GivePermit(c)
  /\ UNCHANGED <<fifo, revoked, expired, unsettled, callVars, remote, watchVars>>
--------------------------------------------------------------------------------
\* Faulty variant of WatcherSettles: any answer of the Judge counts as a receipt.
WatcherSettlesEarly(j) ==
  /\ watcher[j] = "polling"
  /\ watcher' = [watcher EXCEPT ![j] = "draining"]
  /\ UNCHANGED <<pc, gateVars, revoked, expired, unsettled, callVars, remote,
                 callbacks, batch>>

\* _settlement_watcher_loop.
WatcherSettles(j) ==
  /\ watcher[j] = "polling" /\ remote[j] = "settled"
  /\ watcher' = [watcher EXCEPT ![j] = "draining"]
  /\ UNCHANGED <<pc, gateVars, revoked, expired, unsettled, callVars, remote,
                 callbacks, batch>>

\* No receipt in time: the latch is published before the record goes.
WatcherTimesOut(j) ==
  /\ watcher[j] = "polling"
  /\ watcher' = [watcher EXCEPT ![j] = "expiring"]
  /\ unsettled' = unsettled + 1
  /\ UNCHANGED <<pc, gateVars, revoked, expired, callVars, remote, callbacks, batch>>

\* The callbacks are taken out under the lock, and run outside it.
TakeBatch(j) ==
  /\ watcher[j] = "draining" /\ batch[j] = {} /\ callbacks[j] # {}
  /\ batch' = [batch EXCEPT ![j] = callbacks[j]]
  /\ callbacks' = [callbacks EXCEPT ![j] = {}]
  /\ UNCHANGED <<pc, gateVars, revoked, expired, unsettled, callVars, remote, watcher>>

RunCallback(j, c) ==
  /\ watcher[j] = "draining" /\ c \in batch[j]
  /\ batch' = [batch EXCEPT ![j] = @ \ {c}]
  /\ GivePermit(c)
  /\ UNCHANGED <<pc, fifo, revoked, expired, unsettled, callVars, remote, watcher, callbacks>>

\* Faulty variant of FindNoBatch: one batch is taken to be all there is.
FindNoBatchOnce(j) ==
  /\ watcher[j] = "draining" /\ batch[j] = {}
  /\ watcher' = [watcher EXCEPT ![j] = "closing"]
  /\ UNCHANGED <<pc, gateVars, revoked, expired, unsettled, callVars, remote,
                 callbacks, batch>>

\* An empty batch ends the loop; the record is removed under the lock again later.
FindNoBatch(j) ==
  /\ watcher[j] = "draining" /\ batch[j] = {} /\ callbacks[j] = {}
  /\ watcher' = [watcher EXCEPT ![j] = "closing"]
  /\ UNCHANGED <<pc, gateVars, revoked, expired, unsettled, callVars, remote,
                 callbacks, batch>>

PopRecord(j) ==
  /\ watcher[j] \in {"expiring", "closing"}
  /\ watcher' = [watcher EXCEPT ![j] = "none"]
  /\ callbacks' = [callbacks EXCEPT ![j] = {}]
  /\ UNCHANGED <<pc, gateVars, revoked, expired, unsettled, callVars, remote, batch>>
--------------------------------------------------------------------------------
\* The environment: the Judge finishes a job, a session ends or its task is
\* cancelled, the horizon passes.
JudgeFinishes(j) ==
  /\ remote[j] = "live"
  /\ remote' = [remote EXCEPT ![j] = "settled"]
  /\ UNCHANGED <<pc, gateVars, revoked, expired, unsettled, callVars, watchVars>>

Revoke(c) ==
  /\ c \notin revoked
  /\ revoked' = revoked \cup {c}
  /\ UNCHANGED <<pc, gateVars, expired, unsettled, callVars, remote, watchVars>>

HorizonPasses ==
  /\ ~expired /\ expired' = TRUE
  /\ UNCHANGED <<pc, gateVars, revoked, unsettled, callVars, remote, watchVars>>

Submit(c) ==
  \/ CheckSubmission(c) \/ AnswerLocally(c)
  \/ \E j \in Jobs : PostAccepted(c, j)
  \/ PostRejected(c) \/ PostFailed(c) \/ PostAmbiguous(c)

Reconcile(c) ==
  \/ PollTerminal(c) \/ PollOverload(c) \/ StartCancel(c)
  \/ CancelSettled(c) \/ CancelUnconfirmed(c) \/ CancelDeferred(c)

CallStep(c) ==
  \/ GiveUp(c) \/ AcquireGate(c) \/ Admit(c) \/ LoseAdmission(c) \/ StartEvaluation(c)
  \/ Submit(c) \/ Reconcile(c) \/ FinishCall(c)

WatcherStep(j) ==
  \/ WatcherSettles(j) \/ WatcherTimesOut(j) \/ TakeBatch(j)
  \/ \E c \in Calls : RunCallback(j, c)
  \/ FindNoBatch(j) \/ PopRecord(j)

Next ==
  \/ \E c \in Calls : Arrive(c) \/ CallStep(c) \/ Revoke(c)
  \/ \E j \in Jobs : WatcherStep(j) \/ JudgeFinishes(j)
  \/ HorizonPasses

Spec == Init /\ [][Next]_vars

\* Threads run, every wait in them is bounded, and the horizon is reached.
Fairness ==
  /\ WF_vars(HorizonPasses)
  /\ \A c \in Calls : WF_vars(CallStep(c))
  /\ \A j \in Jobs : WF_vars(WatcherStep(j))

FairSpec == Spec /\ Fairness
--------------------------------------------------------------------------------
TypeOK ==
  /\ pc \in [Calls -> {"idle", "queued", "acquired", "admitted"} \cup Evaluating \cup Final]
  /\ fifo \in Seq(Calls)
  /\ permits \in 0 .. Capacity /\ holding \subseteq Calls
  /\ revoked \subseteq Calls /\ expired \in BOOLEAN
  /\ unsettled \in Nat
  /\ before \in [Calls -> Nat] /\ resubmits \in [Calls -> 0 .. MaxResubmits]
  /\ verdict \in [Calls -> {"none", "settled", "cancelled", "failed", "unconfirmed", "deferred"}]
  /\ job \in [Calls -> Jobs \cup {NoJob}]
  /\ remote \in [Jobs -> {"unused", "live", "settled"}]
  /\ watcher \in [Jobs -> {"none", "polling", "expiring", "draining", "closing"}]
  /\ callbacks \in [Jobs -> SUBSET Calls] /\ batch \in [Jobs -> SUBSET Calls]

\* The semaphore and the calls agree: a permit is given back exactly once,
\* although three different threads may be the one to do it.
PermitsAccounted == permits + Cardinality(holding) = Capacity

\* The Judge concurrency contract: every job that may still run is charged to a
\* permit of a call that submitted it, also after that call has returned.
JobsCovered ==
  \A j \in Jobs : remote[j] = "live" => \E c \in holding : job[c] = j

\* _admission_queue holds each waiting broker call once, and nobody else.
QueueExact ==
  /\ \A c \in Calls : Waits(c) <=> (c \in Brokered /\ pc[c] \in {"queued", "acquired"})
  /\ \A i, k \in DOMAIN fifo : fifo[i] = fifo[k] => i = k

\* Unconfirmed remote work permanently consumes capacity: once the latch is set
\* some permit is never given back.
LatchKeepsPermit == Latched => holding # {}

\* The record of the call's job has already given another call its permit back.
CameLate(c) == \E d \in Calls \ holding : verdict[d] = "deferred" /\ job[d] = job[c]

\* A call that returned with its permit while nothing is latched is owed the release by a
\* watcher, unless it shares its job with a call that has had its own: a Judge that gives
\* no job twice never loses a permit, and of the calls of one job not all are forgotten.
ReleaseOwed ==
  \A c \in holding :
    (pc[c] = "kept" /\ ~Latched) =>
       \/ \E j \in Jobs : watcher[j] # "none" /\ c \in callbacks[j] \cup batch[j]
       \/ CameLate(c)

\* A call that returned with its permit while nothing is latched is one that a
\* watcher still owes the release to, as the code's callbacks are meant to have it.
NoLostRelease ==
  \A c \in holding :
    (pc[c] = "kept" /\ ~Latched) =>
       \E j \in Jobs : watcher[j] # "none" /\ c \in callbacks[j] \cup batch[j]

\* A job is settled before the permit of a deferred call comes home.
ReleasedAfterReceipt ==
  \A c \in Calls :
    (verdict[c] = "deferred" /\ c \notin holding) => remote[job[c]] = "settled"

\* The gate is a pool of permits: each call is granted one at most once, never
\* more than Capacity at a time, and none after the latch is set.
Granted == {c \in Calls : pc[c] \in {"admitted", "done", "kept"} \cup Evaluating}
StillOpen == IF Latched THEN {} ELSE Calls
Itself(c) == c
Pool == INSTANCE LeasePool WITH
          Tasks <- Calls, Leases <- Calls, Units <- {}, TaskOf <- Itself,
          Size <- Cardinality, Capacity <- Capacity,
          held <- holding \cap Granted, issued <- Granted, units <- {},
          opened <- Calls, open <- StillOpen
PoolSpec == Pool!PoolSpec

\* Every request is answered, whatever the Judge does: a permit that is retained for a job
\* that never ends holds up no other call for ever.
EveryCallReturns == \A c \in Calls : pc[c] = "queued" ~> pc[c] \in Final
================================================================================
