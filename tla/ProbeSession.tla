------------------------------ MODULE ProbeSession -----------------------------
(***************************************************************************)
(* One solver session of judge_broker.py: the claim a token stands for,    *)
(* the judge_check and CPS handlers that run under it, and its end.        *)
(* Admission to the Judge and the evaluation are JudgeGate's; here they    *)
(* are outcomes.  Handler threads interleave between the critical sections *)
(* of claim.lock and claim.cps_lock.                                       *)
(***************************************************************************)
EXTENDS Integers, FiniteSets

CONSTANTS Checks,     \* handlers of judge_check requests
          Notes,      \* handlers of cps_* requests
          MaxCalls,   \* max_probe_calls_per_session
          NoOne

ASSUME SessionAssumption ==
  /\ MaxCalls \in Nat \ {0}
  /\ Checks \cap Notes = {} /\ NoOne \notin Checks \cup Notes

Handlers == Checks \cup Notes

VARIABLES
  place,            \* where each handler is
  result,        \* the status a judge_check will report
  index,         \* its call_index, 0 when it was not counted
  probe_active, probe_calls, judge_checkpoint_reached,
  cooling,       \* min_probe_interval_seconds has not elapsed since the last admission
  cps_lock,      \* who holds it
  registered,    \* the token is in _claims
  claimRevoked,       \* revoked_event, or the task's cancel_event
  exit,          \* how far the session context has exited
  claimExpired,       \* the deadline has passed
  latched,       \* remote settlement is unconfirmed
  durable,       \* the checks whose proof the runner has admitted
  audited,       \* the checks whose audit row is written
  committed,     \* the CPS operations that reached the store
  admits         \* the session was given on_authoritative_verdict; the runner's are

claimVars == <<probe_active, probe_calls, cooling>>
worldVars == <<registered, claimRevoked, exit, claimExpired, latched, admits>>
effects == <<durable, audited, committed>>
sessionVars == <<place, result, index, probe_active, probe_calls, judge_checkpoint_reached,
          cooling, cps_lock, registered, claimRevoked, exit, claimExpired, latched,
          durable, audited, committed, admits>>

Shut == claimExpired \/ claimRevoked \/ latched
Terminal == {"PROVED", "VERIFY_FAIL"}
InFlight == {"snapshot", "admission", "admitting", "evaluating", "closing"}

SessionInit ==
  /\ place = [h \in Handlers |-> "idle"]
  /\ result = [h \in Handlers |-> "none"]
  /\ index = [h \in Handlers |-> 0]
  /\ probe_active = FALSE /\ probe_calls = 0 /\ cooling = FALSE
  /\ judge_checkpoint_reached = FALSE
  /\ cps_lock = NoOne
  /\ registered = TRUE /\ claimRevoked = FALSE /\ exit = "open"
  /\ claimExpired = FALSE /\ latched = FALSE
  /\ durable = {} /\ audited = {} /\ committed = {} /\ admits \in BOOLEAN

HandlerMoves(h, from, to) == place[h] = from /\ place' = [place EXCEPT ![h] = to]
Result(h, r) == result' = [result EXCEPT ![h] = r]
--------------------------------------------------------------------------------
\* _handle_http resolves the token; the claim object outlives the map entry.
Resolve(h) ==
  /\ \/ registered /\ HandlerMoves(h, "idle", "resolved")
     \/ ~registered /\ HandlerMoves(h, "idle", "done")
  /\ UNCHANGED <<result, index, claimVars, judge_checkpoint_reached, cps_lock,
                 worldVars, effects>>

\* The first critical section of _judge_check.  A refusal is audited in it.
EnterCheck(h) ==
  /\ h \in Checks
  /\ \/ /\ probe_active \/ probe_calls >= MaxCalls \/ cooling \/ Shut
        /\ HandlerMoves(h, "resolved", "done") /\ Result(h, "REFUSED")
        /\ audited' = audited \cup {h}
        /\ UNCHANGED probe_active
     \/ /\ ~(probe_active \/ probe_calls >= MaxCalls \/ cooling \/ Shut)
        /\ HandlerMoves(h, "resolved", "snapshot")
        /\ probe_active' = TRUE
        /\ UNCHANGED <<result, audited>>
  /\ UNCHANGED <<index, probe_calls, cooling, judge_checkpoint_reached, cps_lock,
                 worldVars, durable, committed>>

TakeSnapshot(h) ==
  /\ HandlerMoves(h, "snapshot", "admission")
  /\ UNCHANGED <<result, index, claimVars, judge_checkpoint_reached, cps_lock,
                 worldVars, effects>>

\* _finish_judge_check, reached when the snapshot or the admission raises.
FinishEarly(h, from) ==
  /\ HandlerMoves(h, from, "aborting")
  /\ probe_active' = FALSE
  /\ Result(h, "REFUSED")
  /\ audited' = audited \cup {h}
  /\ UNCHANGED <<index, probe_calls, cooling, judge_checkpoint_reached, cps_lock,
                 worldVars, durable, committed>>

SnapshotFails(h) == FinishEarly(h, "snapshot")
AdmissionFails(h) == FinishEarly(h, "admission")

\* Not acquired, or shut by the time it was: a control result.
MissAdmission(h) ==
  /\ HandlerMoves(h, "admission", "closing")
  /\ Result(h, "REFUSED")
  /\ UNCHANGED <<index, claimVars, judge_checkpoint_reached, cps_lock, worldVars, effects>>

WinAdmission(h) ==
  /\ ~Shut
  /\ HandlerMoves(h, "admission", "admitting")
  /\ UNCHANGED <<result, index, claimVars, judge_checkpoint_reached, cps_lock,
                 worldVars, effects>>

\* Faulty variant of CountCall: the entry test is enough, since one probe is in flight.
CountCallUnchecked(h) ==
  /\ HandlerMoves(h, "admitting", "evaluating")
  /\ probe_calls' = probe_calls + 1 /\ cooling' = TRUE
  /\ index' = [index EXCEPT ![h] = probe_calls + 1]
  /\ UNCHANGED <<result, probe_active, judge_checkpoint_reached, cps_lock,
                 worldVars, effects>>

\* The budget is read again next to the count.
CountCall(h) ==
  /\ probe_calls < MaxCalls
  /\ HandlerMoves(h, "admitting", "evaluating")
  /\ probe_calls' = probe_calls + 1 /\ cooling' = TRUE
  /\ index' = [index EXCEPT ![h] = probe_calls + 1]
  /\ UNCHANGED <<result, probe_active, judge_checkpoint_reached, cps_lock,
                 worldVars, effects>>

BudgetGone(h) == probe_calls >= MaxCalls /\ FinishEarly(h, "admitting")

\* The verdict.  A proof counts only before the deadline and with provenance that
\* binds it to the snapshot; a retained call is never authoritative.
Evaluate(h) ==
  /\ HandlerMoves(h, "evaluating", "closing")
  /\ \/ Result(h, "VERIFY_FAIL")
     \/ ~claimExpired /\ Result(h, "PROVED")
     \/ claimExpired /\ Result(h, "OUT_OF_HORIZON")
     \/ \E r \in {"PROVENANCE_INVALID", "EVALUATOR_ERROR", "UNSETTLED"} : Result(h, r)
  /\ UNCHANGED <<index, claimVars, judge_checkpoint_reached, cps_lock, worldVars, effects>>

\* The finally block clears probe_active, whoever set it.
FinallyBlock(h) ==
  /\ \/ HandlerMoves(h, "closing", "publishing")
     \/ HandlerMoves(h, "aborting", "done")
  /\ probe_active' = FALSE
  /\ UNCHANGED <<result, index, probe_calls, cooling, judge_checkpoint_reached,
                 cps_lock, worldVars, effects>>

\* Faulty variant of PublishProof: a runner that raises changes nothing.
PublishProofAnyway(h) ==
  /\ HandlerMoves(h, "publishing", "auditing")
  /\ durable' \in {durable, durable \cup (IF result[h] = "PROVED" THEN {h} ELSE {})}
  /\ UNCHANGED <<result, index, claimVars, judge_checkpoint_reached, cps_lock, worldVars,
                 audited, committed>>

\* on_authoritative_verdict: the runner admits the proof durably, or raises.  A session
\* without it answers all the same.
PublishProof(h) ==
  /\ HandlerMoves(h, "publishing", "auditing")
  /\ IF admits /\ result[h] = "PROVED"
     THEN \/ durable' = durable \cup {h} /\ UNCHANGED result
          \/ Result(h, "BROKER_ERROR") /\ UNCHANGED durable
     ELSE UNCHANGED <<result, durable>>
  /\ UNCHANGED <<index, claimVars, judge_checkpoint_reached, cps_lock, worldVars,
                 audited, committed>>

Audit(h) ==
  /\ HandlerMoves(h, "auditing", "replying")
  /\ audited' = audited \cup {h}
  /\ UNCHANGED <<result, index, claimVars, judge_checkpoint_reached, cps_lock,
                 worldVars, durable, committed>>

\* Faulty variant of Reply: any answer opens the CPS operations.
ReplyOpening(h) ==
  /\ HandlerMoves(h, "replying", "done")
  /\ judge_checkpoint_reached' = TRUE
  /\ UNCHANGED <<result, index, claimVars, cps_lock, worldVars, effects>>

\* A terminal result of a counted check opens the CPS operations.
Reply(h) ==
  /\ HandlerMoves(h, "replying", "done")
  /\ judge_checkpoint_reached' =
       (judge_checkpoint_reached \/ (index[h] > 0 /\ result[h] \in Terminal))
  /\ UNCHANGED <<result, index, claimVars, cps_lock, worldVars, effects>>
--------------------------------------------------------------------------------
\* _cps_operation, all of it under cps_lock.
LockCps(h) ==
  /\ h \in Notes /\ cps_lock = NoOne
  /\ HandlerMoves(h, "resolved", "locked")
  /\ cps_lock' = h
  /\ UNCHANGED <<result, index, claimVars, judge_checkpoint_reached, worldVars, effects>>

RefuseCps(h) ==
  /\ claimExpired \/ claimRevoked \/ ~judge_checkpoint_reached
  /\ HandlerMoves(h, "locked", "done")
  /\ cps_lock' = NoOne
  /\ UNCHANGED <<result, index, claimVars, judge_checkpoint_reached, worldVars, effects>>

PassCps(h) ==
  /\ ~(claimExpired \/ claimRevoked) /\ judge_checkpoint_reached
  /\ HandlerMoves(h, "locked", "writing")
  /\ UNCHANGED <<result, index, claimVars, judge_checkpoint_reached, cps_lock,
                 worldVars, effects>>

\* Faulty variant of ValidateCps: the refusal does not release the lock.
ValidateCpsLocked(h) ==
  /\ \/ ~(claimExpired \/ claimRevoked) /\ HandlerMoves(h, "writing", "committing")
     \/ (claimExpired \/ claimRevoked) /\ HandlerMoves(h, "writing", "done")
  /\ UNCHANGED <<result, index, claimVars, judge_checkpoint_reached, cps_lock, worldVars, effects>>

\* The store validates the claim once more before COMMIT, which is a later step.
ValidateCps(h) ==
  /\ \/ ~(claimExpired \/ claimRevoked) /\ HandlerMoves(h, "writing", "committing") /\ UNCHANGED cps_lock
     \/ (claimExpired \/ claimRevoked) /\ HandlerMoves(h, "writing", "done") /\ cps_lock' = NoOne
  /\ UNCHANGED <<result, index, claimVars, judge_checkpoint_reached, worldVars, effects>>

CommitCps(h) ==
  /\ HandlerMoves(h, "committing", "done")
  /\ committed' = committed \cup {h}
  /\ cps_lock' = NoOne
  /\ UNCHANGED <<result, index, claimVars, judge_checkpoint_reached, worldVars,
                 durable, audited>>
--------------------------------------------------------------------------------
\* The finally block of session(): revoke, forget the token, drain cps_lock.
ExitRevokes ==
  /\ exit = "open" /\ exit' = "revoked"
  /\ claimRevoked' = TRUE
  /\ UNCHANGED <<place, result, index, claimVars, judge_checkpoint_reached, cps_lock,
                 registered, claimExpired, latched, admits, effects>>

ExitForgets ==
  /\ exit = "revoked" /\ exit' = "draining"
  /\ registered' = FALSE
  /\ UNCHANGED <<place, result, index, claimVars, judge_checkpoint_reached, cps_lock,
                 claimRevoked, claimExpired, latched, admits, effects>>

\* Faulty variant: the exit does not wait for the lock.
ExitDrainsNothing ==
  /\ exit = "draining"
  /\ exit' = "left"
  /\ UNCHANGED <<place, result, index, claimVars, judge_checkpoint_reached, cps_lock,
                 registered, claimRevoked, claimExpired, latched, admits, effects>>

ExitDrains ==
  /\ exit = "draining" /\ cps_lock = NoOne
  /\ exit' = "left"
  /\ UNCHANGED <<place, result, index, claimVars, judge_checkpoint_reached, cps_lock,
                 registered, claimRevoked, claimExpired, latched, admits, effects>>

\* The task's cancel event, the deadline, the latch, the probe interval.
WorldMoves ==
  /\ \/ ~claimRevoked /\ claimRevoked' = TRUE /\ UNCHANGED <<claimExpired, latched, cooling>>
     \/ ~claimExpired /\ claimExpired' = TRUE /\ UNCHANGED <<claimRevoked, latched, cooling>>
     \/ ~latched /\ latched' = TRUE /\ UNCHANGED <<claimRevoked, claimExpired, cooling>>
     \/ cooling /\ cooling' = FALSE /\ UNCHANGED <<claimRevoked, claimExpired, latched>>
  /\ UNCHANGED <<place, result, index, probe_active, probe_calls,
                 judge_checkpoint_reached, cps_lock, registered, exit, admits, effects>>

CheckStep(h) ==
  \/ EnterCheck(h) \/ TakeSnapshot(h) \/ SnapshotFails(h) \/ AdmissionFails(h)
  \/ MissAdmission(h) \/ WinAdmission(h) \/ CountCall(h) \/ BudgetGone(h)
  \/ Evaluate(h) \/ FinallyBlock(h) \/ PublishProof(h) \/ Audit(h) \/ Reply(h)

CpsStep(h) ==
  LockCps(h) \/ RefuseCps(h) \/ PassCps(h) \/ ValidateCps(h) \/ CommitCps(h)

ExitStep == ExitRevokes \/ ExitForgets \/ ExitDrains

SessionNext ==
  \/ \E h \in Handlers : Resolve(h) \/ CheckStep(h) \/ CpsStep(h)
  \/ ExitStep
  \/ WorldMoves

SessionSpec == SessionInit /\ [][SessionNext]_sessionVars

\* Handler threads and the exiting thread run.
SessionFairness ==
  /\ \A h \in Handlers : WF_sessionVars(CheckStep(h) \/ CpsStep(h))
  /\ WF_sessionVars(ExitForgets \/ ExitDrains)

FairSessionSpec == SessionSpec /\ SessionFairness
--------------------------------------------------------------------------------
SessionTypeOK ==
  /\ place \in [Handlers -> {"idle", "resolved", "aborting", "publishing", "auditing",
                          "replying", "locked", "writing", "committing", "done"} \cup InFlight]
  /\ result \in [Handlers -> {"none", "REFUSED", "OUT_OF_HORIZON", "PROVENANCE_INVALID",
                              "EVALUATOR_ERROR", "UNSETTLED", "BROKER_ERROR"} \cup Terminal]
  /\ index \in [Handlers -> 0 .. MaxCalls]
  /\ probe_calls \in 0 .. MaxCalls
  /\ {probe_active, cooling, judge_checkpoint_reached, registered, claimRevoked,
      claimExpired, latched, admits} \subseteq BOOLEAN
  /\ cps_lock \in Handlers \cup {NoOne}
  /\ exit \in {"open", "revoked", "draining", "left"}
  /\ durable \subseteq Checks /\ audited \subseteq Checks /\ committed \subseteq Notes

\* The session's call budget holds, and call_index numbers the counted checks without a gap
\* or a repetition, also when several checks have passed the entry test while a call was
\* left (judge_broker.py:1008 tests again).
BudgetExact ==
  /\ probe_calls <= MaxCalls
  /\ Cardinality({h \in Checks : index[h] > 0}) = probe_calls
  /\ \A h, k \in Checks : (index[h] > 0 /\ index[h] = index[k]) => h = k

\* A solver of the runner is told "proved" only after the runner has durably admitted the
\* proof; nothing is admitted for a session that has no callback.
ProofIsDurable ==
  /\ admits => \A h \in Checks : (place[h] = "done" /\ result[h] = "PROVED") => h \in durable
  /\ ~admits => durable = {}

\* No request is answered before its audit row is written, and the CPS tools open
\* only for a session with a counted, audited, terminal check.
AnswersAudited ==
  /\ \A h \in Checks : (place[h] = "done" /\ result[h] # "none") => h \in audited
  /\ judge_checkpoint_reached =>
       \E h \in audited : index[h] > 0 /\ result[h] \in Terminal

\* Once the session context has been left, none of its handlers reaches the store,
\* although a handler may have resolved the claim long before.
NoCommitAfterExit == [][exit = "left" => committed' = committed]_sessionVars

\* Only one judge_check of a session is in flight.
OneProbeInFlight == Cardinality({h \in Checks : place[h] \in InFlight}) <= 1

\* Leaving a session never blocks on its handlers for good.
ExitCompletes == exit = "revoked" ~> exit = "left"
================================================================================
