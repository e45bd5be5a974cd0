----------------------------- MODULE LeanReceipts -----------------------------
(***************************************************************************)
(* contextswarm_mini/evaluator.py, LeanEvaluator: what the evaluator makes *)
(* of the Judge's receipts.  A submission may be answered by a receipt, a  *)
(* rejection, or not intelligibly; a poll may show the job without its id, *)
(* another job, an earlier state, or nothing; a failed job may still carry *)
(* an old PROVED marker; and a probe's verdict is kept for later calls.    *)
(*                                                                         *)
(* One caller makes one call after another.  The gate, the permits and the *)
(* concurrent callers are the module JudgeGate.                            *)
(***************************************************************************)
EXTENDS Integers, FiniteSets

CONSTANTS LeanTexts,   \* candidate texts; the task contract is the same for all
          JobLimit,    \* bound on the jobs the Judge admits
          CallBound,   \* bound on the calls
          Resubmits    \* terminal_overload_retries

ASSUME ReceiptAssumption ==
  /\ IsFiniteSet(LeanTexts) /\ "none" \notin LeanTexts
  /\ JobLimit \in Nat /\ CallBound \in Nat /\ Resubmits \in Nat

JobIds == 1 .. JobLimit
CallKinds == {"evaluate", "evaluate_fresh", "probe"}
\* How a job can end: its lifecycle status and the verdict fields beside it.
Ends == {<<"SUCCEEDED", "PROVED">>, <<"SUCCEEDED", "WITH_SORRY">>, <<"SUCCEEDED", "NONE">>,
         <<"FAILED", "VERIFY_FAIL">>, <<"FAILED", "PROVED">>, <<"TIMED_OUT", "NONE">>,
         <<"CANCELLED", "PROVED">>, <<"REJECTED_OVERLOADED", "NONE">>}
Running == <<"RUNNING", "NONE">>
NoAnswer == [status |-> "none", kind |-> "none", text |-> "none", job |-> 0, since |-> 0]

VARIABLES
  jobText,   \* the Judge: the text of each job, or "none"
  jobEnd,    \* the Judge: how it ended
  asks,      \* the call: [kind, text, at, job, since, retries, cancelled, seen]
  answered,  \* its verdict
  madeCalls, \* calls made
  probeCache, \* _probe_cache
  unsettled,  \* remote_unsettled_jobs > 0
  watched     \* the jobs the settlement watcher has

judgeSide == <<jobText, jobEnd>>
receiptVars == <<judgeSide, asks, answered, madeCalls, probeCache, unsettled, watched>>

IdleCall == [kind |-> "none", text |-> "none", at |-> "idle", job |-> 0, since |-> 0,
         retries |-> 0, stopped |-> FALSE, seen |-> Running]

ReceiptInit ==
  /\ jobText = [j \in JobIds |-> "none"] /\ jobEnd = [j \in JobIds |-> Running]
  /\ asks = IdleCall /\ answered = NoAnswer /\ madeCalls = 0
  /\ probeCache = [x \in LeanTexts |-> NoAnswer] /\ unsettled = FALSE /\ watched = {}

Admitted == {j \in JobIds : jobText[j] # "none"}
Live == {j \in Admitted : jobEnd[j] = Running}
--------------------------------------------------------------------------------
\* The Judge.
AdmitJob(j) ==
  /\ j = Cardinality(Admitted) + 1 /\ j \in JobIds
  /\ jobText' = [jobText EXCEPT ![j] = asks.text] /\ UNCHANGED jobEnd

JobIsOver(j, end) ==
  /\ j \in Live /\ jobEnd' = [jobEnd EXCEPT ![j] = end]
  /\ UNCHANGED <<jobText, asks, answered, madeCalls, probeCache, unsettled, watched>>

\* A receipt of j as it is, or as it was, with its id, or without.
Shows(j) == {[id |-> i, body |-> b] : i \in {j, 0}, b \in {Running, jobEnd[j]}}
--------------------------------------------------------------------------------
\* _NON_CACHEABLE_PROBE_STATUSES
Transient == {"EVALUATOR_ERROR", "EVALUATOR_TIMEOUT", "UNSETTLED", "REJECTED_OVERLOADED",
              "OUT_OF_HORIZON", "CANCELLED", "TASK_CANCELLED"}

\* A call returns, and a probe keeps what is final.
Returns(status, j) ==
  LET v == [status |-> status, kind |-> asks.kind, text |-> asks.text, job |-> j,
            since |-> asks.since] IN
  /\ answered' = v /\ asks' = IdleCall
  /\ probeCache' = IF asks.kind = "probe" /\ status \notin Transient
                   THEN [probeCache EXCEPT ![asks.text] = v] ELSE probeCache
  /\ UNCHANGED madeCalls

Latch == unsettled' = TRUE

\* evaluate, evaluate_fresh and probe: only the second looks past the cache.
Reusable(kind) == kind # "evaluate_fresh"

\* _cached_verdict: a copy for this call, with the job it came from.
CachedVerdict(kind, x) == [probeCache[x] EXCEPT !.kind = kind, !.since = Cardinality(Admitted)]

BeginCall(kind, x) ==
  /\ asks.at = "idle" /\ madeCalls < CallBound /\ madeCalls' = madeCalls + 1
  /\ \/ /\ ~unsettled /\ Reusable(kind) /\ probeCache[x] # NoAnswer
        /\ answered' = CachedVerdict(kind, x)
        /\ UNCHANGED asks
     \/ /\ ~unsettled /\ ~(Reusable(kind) /\ probeCache[x] # NoAnswer)
        /\ asks' = [IdleCall EXCEPT !.kind = kind, !.text = x, !.at = "submit",
                                !.since = Cardinality(Admitted), !.retries = Resubmits]
        /\ UNCHANGED answered
     \/ /\ unsettled /\ UNCHANGED asks
        /\ answered' = [NoAnswer EXCEPT !.status = "UNSETTLED", !.kind = kind, !.text = x]
  /\ UNCHANGED <<judgeSide, probeCache, unsettled, watched>>

\* The text is refused locally, the caller cancels, the horizon passes, or the evaluator
\* has been latched meanwhile.
EndBeforePost ==
  /\ asks.at = "submit"
  /\ \E status \in {"LOCAL_REJECTED", "TASK_CANCELLED", "OUT_OF_HORIZON"}
                   \cup (IF unsettled THEN {"UNSETTLED"} ELSE {}) : Returns(status, 0)
  /\ UNCHANGED <<judgeSide, unsettled, watched>>

\* The submission is answered by a receipt with the job's id.
PostBound(j) ==
  /\ asks.at = "submit" /\ AdmitJob(j)
  /\ asks' = [asks EXCEPT !.at = "poll", !.job = j, !.seen = Running]
  /\ UNCHANGED <<answered, madeCalls, probeCache, unsettled, watched>>

\* _confirmed_pre_admission_rejection: there is no job, and the call may try again.
PostRejectedEarly ==
  /\ asks.at = "submit"
  /\ \/ UNCHANGED <<asks, answered, madeCalls, probeCache>>
     \/ \E status \in {"REJECTED_OVERLOADED", "OUT_OF_HORIZON", "TASK_CANCELLED"} :
          Returns(status, 0)
  /\ UNCHANGED <<judgeSide, unsettled, watched>>

\* A 429 or 5xx without a terminal receipt, a lost connection, an answer that is empty,
\* malformed or without an id: there may be a job.
PostUnbound ==
  /\ asks.at = "submit" /\ Latch /\ Returns("UNSETTLED", 0)
  /\ \/ UNCHANGED judgeSide
     \/ \E j \in JobIds : AdmitJob(j)
  /\ UNCHANGED watched

\* Another 4xx: the request was refused.
PostRefused ==
  /\ asks.at = "submit" /\ Returns("EVALUATOR_ERROR", 0)
  /\ UNCHANGED <<judgeSide, unsettled, watched>>

Sees(body, at) ==
  /\ asks' = [asks EXCEPT !.seen = body, !.at = at]
  /\ UNCHANGED <<judgeSide, answered, madeCalls, probeCache, unsettled, watched>>
\* _terminal
NextPlace(body) == IF body = Running THEN "poll" ELSE "settled"

\* Faulty variant of PollReceipt: whatever the poll shows is taken for the job's.
PollAnyReceipt ==
  /\ asks.at = "poll"
  /\ \E j \in Admitted : \E r \in Shows(j) :
       /\ r.id = 0 => j = asks.job
       /\ Sees(r.body, NextPlace(r.body))

\* GET of the job: a receipt without an id is the job's; one of another job is ignored.
PollReceipt ==
  /\ asks.at = "poll"
  /\ \E j \in Admitted : \E r \in Shows(j) :
       /\ r.id = 0 => j = asks.job   \* the Judge answers about another job by name only
       /\ IF r.id \in {0, asks.job} THEN Sees(r.body, NextPlace(r.body))
          ELSE Sees(Running, "poll")

\* Cancelled, past its lifecycle, or stopped by an error: the job is to be cancelled.
AbandonJob(cancelled) ==
  /\ asks.at = "poll"
  /\ asks' = [asks EXCEPT !.at = "cancel", !.stopped = cancelled]
  /\ UNCHANGED <<judgeSide, answered, madeCalls, probeCache, unsettled, watched>>

\* DELETE, and polls until the grace is over.  Only a terminal receipt with the very id
\* of the job counts (_authoritative_terminal_receipt).
CancelReceipt ==
  /\ asks.at = "cancel"
  /\ \E j \in Admitted : \E r \in Shows(j) :
       /\ r.id = asks.job /\ r.body # Running
       /\ asks' = [asks EXCEPT !.seen = r.body, !.at = IF asks.stopped THEN "stopped" ELSE "abandoned"]
  /\ UNCHANGED <<judgeSide, answered, madeCalls, probeCache, unsettled, watched>>

\* No receipt in time: a watcher takes the job, or the evaluator latches.
CancelWithout ==
  /\ asks.at = "cancel"
  /\ \/ watched' = watched \cup {asks.job} /\ Returns("TASK_CANCELLED", asks.job)
        /\ UNCHANGED unsettled
     \/ Latch /\ UNCHANGED watched
        /\ Returns(IF asks.stopped THEN "TASK_CANCELLED" ELSE "UNSETTLED", asks.job)
  /\ UNCHANGED judgeSide

\* _settlement_watcher_loop: a terminal receipt, or the time is up.
WatcherEnds(j) ==
  /\ j \in watched
  /\ Latch \/ (j \notin Live /\ UNCHANGED unsettled)
  /\ watched' = watched \ {j}
  /\ UNCHANGED <<judgeSide, asks, answered, madeCalls, probeCache>>
--------------------------------------------------------------------------------
\* The lifecycle goes before the verdict fields: a failed job's old marker proves nothing.
IsProved(body) == body = <<"SUCCEEDED", "PROVED">>

\* _settled_outcome with _verdict_status.
JudgeOutcome(body) ==
  CASE body[1] \in {"CANCELLED", "REJECTED_OVERLOADED"} -> body[1]
    [] body[1] = "TIMED_OUT" -> "EXECUTION_TIMEOUT"
    [] IsProved(body) -> "PROVED"
    [] body = <<"SUCCEEDED", "WITH_SORRY">> -> "COMPILES_WITH_SORRY"
    [] body = <<"FAILED", "VERIFY_FAIL">> -> "VERIFY_FAIL"
    [] OTHER -> "EVALUATOR_ERROR"

\* _retry_terminal_overload: a job that was turned away is submitted again.
Resubmit ==
  /\ asks.at \in {"settled", "abandoned"} /\ JudgeOutcome(asks.seen) = "REJECTED_OVERLOADED"
  /\ asks.retries > 0
  /\ asks' = [asks EXCEPT !.at = "submit", !.job = 0, !.retries = @ - 1]
  /\ UNCHANGED <<judgeSide, answered, madeCalls, probeCache, unsettled, watched>>

\* The receipt becomes the verdict: a completion that races with the DELETE counts, a
\* cancellation of the evaluator's own is its failure.  The horizon ends resubmission.
ReturnReceipt ==
  /\ asks.at \in {"settled", "abandoned"}
  /\ \/ ~(asks.at = "abandoned" /\ JudgeOutcome(asks.seen) = "CANCELLED")
        /\ Returns(JudgeOutcome(asks.seen), asks.job)
     \/ /\ asks.at = "abandoned" /\ JudgeOutcome(asks.seen) = "CANCELLED"
        /\ \E status \in {"OUT_OF_HORIZON", "EVALUATOR_TIMEOUT", "EVALUATOR_ERROR"} :
             Returns(status, asks.job)
  /\ UNCHANGED <<judgeSide, unsettled, watched>>

\* _cancelled_verdict: whatever the job came to, the caller has gone.
ReturnCancelled ==
  /\ asks.at = "stopped" /\ Returns("TASK_CANCELLED", asks.job)
  /\ UNCHANGED <<judgeSide, unsettled, watched>>

ReceiptNext ==
  \/ \E j \in JobIds : PostBound(j) \/ WatcherEnds(j) \/ \E end \in Ends : JobIsOver(j, end)
  \/ \E kind \in CallKinds, x \in LeanTexts : BeginCall(kind, x)
  \/ EndBeforePost \/ PostRejectedEarly \/ PostUnbound \/ PostRefused
  \/ PollReceipt \/ CancelReceipt \/ CancelWithout \/ Resubmit
  \/ (\E cancelled \in BOOLEAN : AbandonJob(cancelled)) \/ ReturnReceipt \/ ReturnCancelled

ReceiptSpec == ReceiptInit /\ [][ReceiptNext]_receiptVars
--------------------------------------------------------------------------------
ReceiptTypeOK ==
  /\ asks.at \in {"idle", "submit", "poll", "cancel", "settled", "abandoned", "stopped"}
  /\ asks.job \in 0 .. JobLimit /\ asks.retries \in 0 .. Resubmits
  /\ jobText \in [JobIds -> LeanTexts \cup {"none"}] /\ jobEnd \in [JobIds -> Ends \cup {Running}]
  /\ watched \subseteq Admitted /\ unsettled \in BOOLEAN

\* What the end of a job is worth, in the Judge's own terms.
Worth(end) ==
  CASE end = <<"SUCCEEDED", "PROVED">> -> "PROVED"
    [] end = <<"SUCCEEDED", "WITH_SORRY">> -> "COMPILES_WITH_SORRY"
    [] end = <<"FAILED", "VERIFY_FAIL">> -> "VERIFY_FAIL"
    [] end[1] = "TIMED_OUT" -> "EXECUTION_TIMEOUT" [] OTHER -> "nothing"

\* A verdict on the candidate is what the job that it names came to, that job was for
\* this very text, and a fresh evaluation's job was admitted after the call began;
\* nothing else is ever kept for later calls.
VerdictIsTheJobs ==
  /\ answered.status \in {"PROVED", "COMPILES_WITH_SORRY", "VERIFY_FAIL", "EXECUTION_TIMEOUT"} =>
       /\ answered.job \in Admitted /\ jobText[answered.job] = answered.text
       /\ Worth(jobEnd[answered.job]) = answered.status
       /\ answered.kind = "evaluate_fresh" => answered.job > answered.since
  /\ \A x \in LeanTexts :
       probeCache[x] # NoAnswer =>
         \/ probeCache[x].status = "LOCAL_REJECTED"
         \/ probeCache[x].job \in Admitted /\ jobEnd[probeCache[x].job] # Running

================================================================================
