-------------------------- MODULE ProbeSession_proofs --------------------------
(***************************************************************************)
(* Proofs about ProbeSession for every number of requests and every budget *)
(* of Judge calls: the budget is spent exactly once per call, a proof is   *)
(* durable before it is answered, every answer is audited, and a session   *)
(* that has been left commits nothing more.                                *)
(***************************************************************************)
EXTENDS ProbeSession, FiniteSetTheorems, TLAPS

\* Where a request is before it has a result, before it is counted, and under cps_lock.
Fresh == {"idle", "resolved", "snapshot", "admission", "admitting", "evaluating"}
Uncounted == Fresh \ {"evaluating"}
CpsPlaces == {"locked", "writing", "committing"}
CheckPlaces == InFlight \cup {"aborting", "publishing", "auditing", "replying"}

\* What a handler's place says of its result, its audit row, its proof and the lock.
HandlerFits(h) ==
  /\ place[h] \in Fresh \/ h \in Notes => result[h] = "none"
  /\ place[h] \in Uncounted => index[h] = 0
  /\ index[h] <= probe_calls
  /\ place[h] \in CheckPlaces => h \in Checks
  /\ place[h] \in CpsPlaces <=> cps_lock = h
  /\ place[h] \in CpsPlaces => h \in Notes
  /\ h \in audited => place[h] \in {"aborting", "replying", "done"}
  /\ place[h] \in {"aborting", "replying"} => h \in audited
  /\ place[h] = "done" /\ result[h] # "none" => h \in audited
  /\ admits /\ place[h] \in {"auditing", "replying", "done"} /\ result[h] = "PROVED" =>
       h \in durable
  /\ h \in durable => admits
  /\ place[h] = "aborting" => result[h] = "REFUSED"

\* A session that has been left is revoked, and nobody is past the test of it.
ExitFits ==
  /\ exit # "open" => claimRevoked
  /\ exit = "left" => \A h \in Handlers : place[h] \notin {"writing", "committing"}

CountedChecks == {h \in Checks : index[h] > 0}

SessionInv ==
  /\ SessionTypeOK /\ \A h \in Handlers : HandlerFits(h)
  /\ IsFiniteSet(CountedChecks) /\ BudgetExact /\ ProofIsDurable /\ AnswersAudited /\ ExitFits
--------------------------------------------------------------------------------
\* The types are kept.
LEMMA SessionTypes ==
  ASSUME SessionInv, SessionNext
  PROVE  SessionTypeOK'
<1> USE SessionAssumption DEF SessionTypeOK, InFlight, Terminal, Handlers, HandlerMoves, Result
<1>0. SessionTypeOK /\ \A h \in Handlers : HandlerFits(h)
  BY DEF SessionInv
<1>1. ASSUME NEW h \in Handlers, Resolve(h) \/ CpsStep(h) PROVE SessionTypeOK'
  <2>1. UNCHANGED <<result, index, claimVars, judge_checkpoint_reached, worldVars, durable, audited>>
    BY <1>1 DEF Resolve, CpsStep, LockCps, RefuseCps, PassCps, ValidateCps, CommitCps, effects
  <2>2. committed' = committed \/ (committed' = committed \cup {h} /\ h \in Notes)
    BY <1>0, <1>1 DEF Resolve, CpsStep, LockCps, RefuseCps, PassCps, ValidateCps, CommitCps, effects,
                      HandlerFits, CpsPlaces
  <2>3. cps_lock' \in Handlers \cup {NoOne}
    BY <1>0, <1>1 DEF Resolve, CpsStep, LockCps, RefuseCps, PassCps, ValidateCps, CommitCps
  <2>4. \E p \in {"resolved", "done", "locked", "writing", "committing"} :
           place' = [place EXCEPT ![h] = p]
    BY <1>1 DEF Resolve, CpsStep, LockCps, RefuseCps, PassCps, ValidateCps, CommitCps
  <2> QED
    BY <1>0, <2>4, <2>3, <2>2, <2>1 DEF claimVars, worldVars
<1>2. ASSUME NEW h \in Handlers, CheckStep(h) PROVE SessionTypeOK'
  <2>1. h \in Checks
    BY <1>0, <1>2 DEF CheckStep, EnterCheck, TakeSnapshot, SnapshotFails, AdmissionFails, FinishEarly,
              MissAdmission, WinAdmission, CountCall, BudgetGone, Evaluate, FinallyBlock, PublishProof,
              Audit, Reply, HandlerFits, CheckPlaces
  <2>2. /\ UNCHANGED <<cps_lock, worldVars, committed>>
        /\ durable' \subseteq Checks /\ audited' \subseteq Checks
    BY <1>0, <1>2, <2>1 DEF CheckStep, EnterCheck, TakeSnapshot, SnapshotFails, AdmissionFails, FinishEarly,
              MissAdmission, WinAdmission, CountCall, BudgetGone, Evaluate, FinallyBlock, PublishProof,
              Audit, Reply, effects
  <2>A. probe_calls \in 0 .. MaxCalls /\ MaxCalls \in Nat
        /\ probe_active \in BOOLEAN /\ cooling \in BOOLEAN /\ judge_checkpoint_reached \in BOOLEAN
    BY <1>0
  <2>3. /\ probe_active' \in BOOLEAN
        /\ \/ UNCHANGED <<index, probe_calls, cooling>>
           \/ /\ index' = [index EXCEPT ![h] = probe_calls + 1] /\ probe_calls < MaxCalls
              /\ probe_calls' = probe_calls + 1 /\ cooling' = TRUE
        /\ judge_checkpoint_reached' \in BOOLEAN
    BY <1>0, <2>A, <1>2, <2>1 DEF CheckStep, EnterCheck, TakeSnapshot, SnapshotFails, AdmissionFails, FinishEarly,
              MissAdmission, WinAdmission, CountCall, BudgetGone, Evaluate, FinallyBlock, PublishProof,
              Audit, Reply, claimVars
  <2>4. \E p \in InFlight \cup {"aborting", "publishing", "auditing", "replying", "done"} :
           place' = [place EXCEPT ![h] = p]
    BY <1>2 DEF CheckStep, EnterCheck, TakeSnapshot, SnapshotFails, AdmissionFails, FinishEarly,
              MissAdmission, WinAdmission, CountCall, BudgetGone, Evaluate, FinallyBlock, PublishProof,
              Audit, Reply
  <2>5. result' = result \/ \E r \in Terminal \cup {"REFUSED", "OUT_OF_HORIZON", "PROVENANCE_INVALID",
                                                   "EVALUATOR_ERROR", "UNSETTLED", "BROKER_ERROR"} :
                              result' = [result EXCEPT ![h] = r]
    BY <1>2 DEF CheckStep, EnterCheck, TakeSnapshot, SnapshotFails, AdmissionFails, FinishEarly,
              MissAdmission, WinAdmission, CountCall, BudgetGone, Evaluate, FinallyBlock, PublishProof,
              Audit, Reply
  <2>6. index' \in [Handlers -> 0 .. MaxCalls]
    BY <1>0, <2>A, <2>3
  <2>7. probe_calls' \in 0 .. MaxCalls /\ cooling' \in BOOLEAN
    <3>1. probe_calls' \in 0 .. MaxCalls
      BY <2>A, <2>3
    <3>2. cooling' \in BOOLEAN
      BY <2>A, <2>3, Zenon
    <3> QED
      BY <3>1, <3>2
  <2>8. /\ cps_lock' \in Handlers \cup {NoOne} /\ committed' \subseteq Notes
        /\ exit' \in {"open", "revoked", "draining", "left"}
        /\ registered' \in BOOLEAN /\ claimRevoked' \in BOOLEAN /\ claimExpired' \in BOOLEAN
        /\ latched' \in BOOLEAN /\ admits' \in BOOLEAN
    <3>1. /\ registered \in BOOLEAN /\ claimRevoked \in BOOLEAN /\ claimExpired \in BOOLEAN
          /\ latched \in BOOLEAN /\ admits \in BOOLEAN
      BY <1>0
    <3> QED
      BY <1>0, <2>2, <3>1 DEF worldVars
  <2>9. /\ place' \in [Handlers -> {"idle", "resolved", "aborting", "publishing", "auditing",
                          "replying", "locked", "writing", "committing", "done"} \cup InFlight]
        /\ result' \in [Handlers -> {"none", "REFUSED", "OUT_OF_HORIZON", "PROVENANCE_INVALID",
                              "EVALUATOR_ERROR", "UNSETTLED", "BROKER_ERROR"} \cup Terminal]
    BY <1>0, <2>4, <2>5
  <2> QED
    BY <2>2, <2>3, <2>6, <2>7, <2>8, <2>9
<1>3. CASE ExitStep \/ WorldMoves
  BY <1>0, <1>3 DEF ExitStep, ExitRevokes, ExitForgets, ExitDrains, WorldMoves, claimVars, effects
<1> QED
  BY <1>1, <1>2, <1>3 DEF SessionNext

\* What a step leaves as it is of a handler.
Same(k) ==
  /\ place'[k] = place[k] /\ result'[k] = result[k] /\ index'[k] = index[k]
  /\ k \in audited' <=> k \in audited
  /\ k \in durable' <=> k \in durable
  /\ cps_lock' = k <=> cps_lock = k
  /\ admits' = admits

\* A handler that takes no part in a step fits as before.
LEMMA OthersFit ==
  ASSUME SessionTypeOK, NEW k \in Handlers, HandlerFits(k), Same(k), probe_calls' \in Int,
         probe_calls' >= probe_calls
  PROVE  HandlerFits(k)'
<1>1. index[k] \in Int /\ probe_calls \in Int
  BY SessionAssumption DEF SessionTypeOK
<1> QED
  BY <1>1 DEF HandlerFits, Same

\* A judge_check moves on: its audit row, its proof and its count go with it.
LEMMA CheckFits ==
  ASSUME SessionInv, NEW h \in Handlers, CheckStep(h)
  PROVE  \A k \in Handlers : HandlerFits(k)'
<1>0. SessionTypeOK /\ (\A k \in Handlers : HandlerFits(k)) /\ HandlerFits(h)
  BY DEF SessionInv
<1>5. admits' = admits
  BY DEF CheckStep, EnterCheck, TakeSnapshot, SnapshotFails, AdmissionFails, FinishEarly,
              MissAdmission, WinAdmission, CountCall, BudgetGone, Evaluate, FinallyBlock, PublishProof,
              Audit, Reply, worldVars
<1>1. /\ h \in Checks /\ h \notin Notes /\ cps_lock # h /\ cps_lock' = cps_lock
      /\ probe_calls \in Int /\ index[h] \in Int
  BY <1>0, SessionAssumption DEF CheckStep, EnterCheck, TakeSnapshot, SnapshotFails, AdmissionFails,
              FinishEarly, MissAdmission, WinAdmission, CountCall, BudgetGone, Evaluate, FinallyBlock,
              PublishProof, Audit, Reply, HandlerMoves, HandlerFits, CheckPlaces, CpsPlaces, InFlight,
              SessionTypeOK
<1>2. \A k \in Handlers : k # h => Same(k)
  BY <1>0, <1>5 DEF CheckStep, EnterCheck, TakeSnapshot, SnapshotFails, AdmissionFails, FinishEarly,
              MissAdmission, WinAdmission, CountCall, BudgetGone, Evaluate, FinallyBlock, PublishProof,
              Audit, Reply, HandlerMoves, Result, SessionTypeOK, effects, Same
<1>3. probe_calls' \in Int /\ probe_calls' >= probe_calls
  BY <1>1 DEF CheckStep, EnterCheck, TakeSnapshot, SnapshotFails, AdmissionFails, FinishEarly,
              MissAdmission, WinAdmission, CountCall, BudgetGone, Evaluate, FinallyBlock, PublishProof,
              Audit, Reply, claimVars
<1>4. HandlerFits(h)'
  <2> USE <1>0, <1>1, <1>5 DEF HandlerFits, Fresh, Uncounted, CpsPlaces, CheckPlaces, InFlight,
                        HandlerMoves, Result, SessionTypeOK
  <2>1. CASE EnterCheck(h) \/ SnapshotFails(h) \/ AdmissionFails(h) \/ BudgetGone(h)
    BY <2>1 DEF EnterCheck, SnapshotFails, AdmissionFails, BudgetGone, FinishEarly
  <2>2. CASE TakeSnapshot(h) \/ MissAdmission(h) \/ WinAdmission(h)
    BY <2>2 DEF TakeSnapshot, MissAdmission, WinAdmission, claimVars, effects
  <2>3. CASE CountCall(h)
    BY <2>3 DEF CountCall, effects
  <2>4. CASE Evaluate(h)
    BY <2>4 DEF Evaluate, claimVars, effects
  <2>5. CASE FinallyBlock(h)
    BY <2>5 DEF FinallyBlock, effects
  <2>6. CASE PublishProof(h)
    BY <2>6 DEF PublishProof, claimVars
  <2>7. CASE Audit(h) \/ Reply(h)
    BY <2>7 DEF Audit, Reply, claimVars, effects
  <2> QED
    BY <2>7, <2>6, <2>5, <2>4, <2>3, <2>2, <2>1 DEF CheckStep
<1> QED
  BY <1>0, <1>2, <1>3, <1>4, OthersFit

\* A cps_* request moves on, and has cps_lock from one end of the operation to the other.
LEMMA CpsFits ==
  ASSUME SessionInv, NEW h \in Handlers, Resolve(h) \/ CpsStep(h)
  PROVE  \A k \in Handlers : HandlerFits(k)'
<1>0. SessionTypeOK /\ (\A k \in Handlers : HandlerFits(k)) /\ HandlerFits(h)
  BY DEF SessionInv
<1>1. /\ NoOne # h /\ probe_calls \in Int /\ probe_calls' = probe_calls /\ NoOne \notin Handlers
      /\ UNCHANGED <<result, index, durable, audited, admits>>
  BY <1>0, SessionAssumption DEF Handlers, Resolve, CpsStep, LockCps, RefuseCps, PassCps, ValidateCps,
              CommitCps, claimVars, worldVars, effects, SessionTypeOK
<1>2. \A k \in Handlers : k # h => Same(k)
  BY <1>0, <1>1 DEF Resolve, CpsStep, LockCps, RefuseCps, PassCps, ValidateCps, CommitCps, HandlerMoves,
              HandlerFits, CpsPlaces, SessionTypeOK, Same
<1>3. HandlerFits(h)'
  <2> USE <1>0, <1>1 DEF HandlerFits, Fresh, Uncounted, CpsPlaces, CheckPlaces, InFlight, HandlerMoves,
                        SessionTypeOK
  <2>1. CASE Resolve(h)
    BY <2>1 DEF Resolve
  <2>2. CASE LockCps(h)
    BY <2>2 DEF LockCps
  <2>3. CASE RefuseCps(h) \/ PassCps(h)
    BY <2>3 DEF RefuseCps, PassCps
  <2>4. CASE ValidateCps(h) \/ CommitCps(h)
    BY <2>4 DEF ValidateCps, CommitCps
  <2> QED
    BY <2>4, <2>3, <2>2, <2>1 DEF CpsStep
<1> QED
  BY <1>0, <1>1, <1>2, <1>3, OthersFit

\* Every step keeps every handler's place, result and traces together.
LEMMA SessionFits ==
  ASSUME SessionInv, SessionNext
  PROVE  \A k \in Handlers : HandlerFits(k)'
<1>1. CASE \E h \in Handlers : Resolve(h) \/ CheckStep(h) \/ CpsStep(h)
  BY <1>1, CheckFits, CpsFits
<1>2. CASE ExitStep \/ WorldMoves
  BY <1>2 DEF SessionInv, HandlerFits, ExitStep, ExitRevokes, ExitForgets, ExitDrains, WorldMoves,
              claimVars, effects
<1> QED
  BY <1>1, <1>2 DEF SessionNext

\* Who counts: only a check that has been admitted, with the number after the last.
LEMMA WhoCounts ==
  ASSUME SessionInv, SessionNext
  PROVE  \/ UNCHANGED <<index, probe_calls>>
         \/ \E h \in Checks : /\ index[h] = 0 /\ index' = [index EXCEPT ![h] = probe_calls + 1]
                              /\ probe_calls' = probe_calls + 1
<1>1. CASE \E h \in Handlers : CheckStep(h)
  <2>1. PICK h \in Handlers : CheckStep(h)
    BY <1>1
  <2>2. CASE CountCall(h)
    BY <2>2 DEF CountCall, HandlerMoves, SessionInv, HandlerFits, Uncounted, Fresh, CheckPlaces, InFlight
  <2>3. CASE ~CountCall(h)
    BY <2>1, <2>3 DEF CheckStep, EnterCheck, TakeSnapshot, SnapshotFails, AdmissionFails, FinishEarly,
              MissAdmission, WinAdmission, BudgetGone, Evaluate, FinallyBlock, PublishProof,
              Audit, Reply, claimVars
  <2> QED
    BY <2>2, <2>3
<1>2. CASE \E h \in Handlers : Resolve(h) \/ CpsStep(h)
  BY <1>2 DEF Resolve, CpsStep, LockCps, RefuseCps, PassCps, ValidateCps, CommitCps, claimVars
<1>3. CASE ExitStep \/ WorldMoves
  BY <1>3 DEF ExitStep, ExitRevokes, ExitForgets, ExitDrains, WorldMoves, claimVars
<1> QED
  BY <1>1, <1>2, <1>3 DEF SessionNext

\* Each count gives the next number to one more check.
LEMMA SessionBudget ==
  ASSUME SessionInv, SessionNext
  PROVE  BudgetExact' /\ IsFiniteSet(CountedChecks')
<1>0. probe_calls' <= MaxCalls
  BY SessionTypes, SessionAssumption DEF SessionTypeOK
<1>1. CASE UNCHANGED <<index, probe_calls>>
  BY <1>1 DEF SessionInv, BudgetExact, CountedChecks
<1>2. ASSUME NEW h \in Checks, index[h] = 0, index' = [index EXCEPT ![h] = probe_calls + 1],
             probe_calls' = probe_calls + 1
      PROVE  BudgetExact' /\ IsFiniteSet(CountedChecks')
  <2>1. /\ DOMAIN index = Handlers /\ probe_calls \in Nat
        /\ \A k \in Checks : k \in Handlers /\ index[k] \in Nat /\ index[k] <= probe_calls
        /\ \A k, g \in Checks : (index[k] > 0 /\ index[k] = index[g]) => k = g
    BY SessionAssumption DEF SessionInv, SessionTypeOK, HandlerFits, BudgetExact, Handlers
  <2>2. index'[h] = probe_calls + 1 /\ \A k \in Checks : k # h => index'[k] = index[k]
    BY <1>2, <2>1
  <2>3. CountedChecks' = CountedChecks \cup {h} /\ h \notin CountedChecks
    BY <1>2, <2>1, <2>2 DEF CountedChecks
  <2>4. IsFiniteSet(CountedChecks) /\ Cardinality(CountedChecks) = probe_calls
    BY DEF SessionInv, BudgetExact, CountedChecks
  <2>5. IsFiniteSet(CountedChecks') /\ Cardinality(CountedChecks') = probe_calls'
    BY <1>2, <2>3, <2>4, FS_AddElement
  <2>6. \A k, g \in Checks : (index'[k] > 0 /\ index'[k] = index'[g]) => k = g
    BY <2>1, <2>2
  <2> QED
    BY <1>0, <2>5, <2>6 DEF BudgetExact, CountedChecks
<1> QED
  BY <1>1, <1>2, WhoCounts

\* An audited check that has a verdict keeps it, its number and its row.
LEMMA VerdictStays ==
  ASSUME SessionInv, SessionNext, NEW k \in audited, result[k] \in Terminal
  PROVE  k \in audited' /\ result'[k] = result[k] /\ index'[k] = index[k]
<1>0. /\ SessionTypeOK /\ k \in Handlers /\ HandlerFits(k)
      /\ place[k] \in {"replying", "done"}
  BY DEF SessionInv, SessionTypeOK, Handlers, HandlerFits, Terminal
<1>1. ASSUME NEW h \in Handlers, CheckStep(h)
      PROVE  k \in audited' /\ result'[k] = result[k] /\ index'[k] = index[k]
  BY <1>0, <1>1 DEF CheckStep, EnterCheck, TakeSnapshot, SnapshotFails, AdmissionFails, FinishEarly,
              MissAdmission, WinAdmission, CountCall, BudgetGone, Evaluate, FinallyBlock, PublishProof,
              Audit, Reply, HandlerMoves, Result, SessionTypeOK, effects
<1>2. CASE \E h \in Handlers : Resolve(h) \/ CpsStep(h)
  BY <1>2 DEF Resolve, CpsStep, LockCps, RefuseCps, PassCps, ValidateCps, CommitCps, effects
<1>3. CASE ExitStep \/ WorldMoves
  BY <1>3 DEF ExitStep, ExitRevokes, ExitForgets, ExitDrains, WorldMoves, effects
<1> QED
  BY <1>1, <1>2, <1>3 DEF SessionNext

\* Proofs that were reported are durable, answers audited, and the CPS tools open by a
\* counted and audited verdict.
LEMMA SessionAnswers ==
  ASSUME SessionInv, SessionNext
  PROVE  ProofIsDurable' /\ AnswersAudited'
<1>1. /\ \A k \in Handlers : HandlerFits(k)'
      /\ Checks \subseteq Handlers
  BY SessionFits DEF Handlers
<1>2. ProofIsDurable' /\ \A h \in Checks : (place'[h] = "done" /\ result'[h] # "none") => h \in audited'
  <2>1. durable' \subseteq Handlers
    BY <1>1, SessionTypes DEF SessionTypeOK
  <2>2. \A h \in Handlers : h \in durable' => admits'
    BY <1>1 DEF HandlerFits
  <2>3. ~admits' => durable' = {}
    BY <2>1, <2>2
  <2> QED
    BY <1>1, <2>3 DEF ProofIsDurable, HandlerFits
<1>3. ASSUME judge_checkpoint_reached'
      PROVE  \E h \in audited' : index'[h] > 0 /\ result'[h] \in Terminal
  <2>1. CASE judge_checkpoint_reached
    <3>1. PICK k \in audited : index[k] > 0 /\ result[k] \in Terminal
      BY <2>1 DEF SessionInv, AnswersAudited
    <3> QED
      BY <3>1, VerdictStays
  <2>2. CASE ~judge_checkpoint_reached
    <3>1. PICK h \in Handlers : Reply(h)
      BY <1>3, <2>2 DEF SessionNext, CheckStep, EnterCheck, TakeSnapshot, SnapshotFails, AdmissionFails,
              FinishEarly, MissAdmission, WinAdmission, CountCall, BudgetGone, Evaluate, FinallyBlock,
              PublishProof, Audit, Resolve, CpsStep, LockCps, RefuseCps, PassCps, ValidateCps, CommitCps,
              ExitStep, ExitRevokes, ExitForgets, ExitDrains, WorldMoves
    <3>2. /\ index[h] > 0 /\ result[h] \in Terminal /\ place[h] = "replying"
          /\ UNCHANGED <<index, result, audited>>
      BY <1>3, <2>2, <3>1 DEF Reply, HandlerMoves, effects
    <3>3. h \in audited
      BY <3>2 DEF SessionInv, HandlerFits
    <3> QED
      BY <3>2, <3>3
  <2> QED
    BY <2>1, <2>2
<1> QED
  BY <1>2, <1>3 DEF AnswersAudited

\* A session is left only when cps_lock is free, and from then on it stays revoked.
LEMMA SessionExits ==
  ASSUME SessionInv, SessionNext
  PROVE  ExitFits' /\ (exit = "left" => committed' = committed)
<1>0. /\ ExitFits /\ \A h \in Handlers : HandlerFits(h)
      /\ NoOne \notin Handlers /\ SessionTypeOK
  BY SessionAssumption DEF SessionInv, Handlers
<1>1. ASSUME NEW h \in Handlers, CheckStep(h)
      PROVE  ExitFits' /\ (exit = "left" => committed' = committed)
  <2>1. UNCHANGED <<exit, claimRevoked, committed>>
    BY <1>1 DEF CheckStep, EnterCheck, TakeSnapshot, SnapshotFails, AdmissionFails, FinishEarly,
              MissAdmission, WinAdmission, CountCall, BudgetGone, Evaluate, FinallyBlock, PublishProof,
              Audit, Reply, worldVars, effects
  <2>2. \A k \in Handlers : place'[k] \in {"writing", "committing"} => place'[k] = place[k]
    BY <1>0, <1>1 DEF CheckStep, EnterCheck, TakeSnapshot, SnapshotFails, AdmissionFails, FinishEarly,
              MissAdmission, WinAdmission, CountCall, BudgetGone, Evaluate, FinallyBlock, PublishProof,
              Audit, Reply, HandlerMoves, SessionTypeOK
  <2> QED
    BY <1>0, <2>1, <2>2 DEF ExitFits
<1>2. ASSUME NEW h \in Handlers, Resolve(h) \/ CpsStep(h)
      PROVE  ExitFits' /\ (exit = "left" => committed' = committed)
  <2>1. UNCHANGED <<exit, claimRevoked>>
    BY <1>2 DEF Resolve, CpsStep, LockCps, RefuseCps, PassCps, ValidateCps, CommitCps, worldVars
  <2>2. exit = "left" => claimRevoked /\ place[h] \notin {"writing", "committing"}
    BY <1>0 DEF ExitFits
  <2>3. exit = "left" => committed' = committed
    BY <1>2, <2>2 DEF Resolve, CpsStep, LockCps, RefuseCps, PassCps, ValidateCps, CommitCps, HandlerMoves,
                      effects
  <2>4. exit = "left" => \A k \in Handlers : place'[k] \in {"writing", "committing"} => place'[k] = place[k]
    BY <1>0, <1>2, <2>2 DEF Resolve, CpsStep, LockCps, RefuseCps, PassCps, ValidateCps, CommitCps,
                            HandlerMoves, SessionTypeOK
  <2> QED
    BY <1>0, <2>1, <2>3, <2>4 DEF ExitFits
<1>3. CASE ExitDrains
  BY <1>0, <1>3 DEF ExitDrains, ExitFits, HandlerFits, CpsPlaces, effects
<1>4. CASE ExitRevokes \/ ExitForgets \/ WorldMoves
  BY <1>0, <1>4 DEF ExitRevokes, ExitForgets, WorldMoves, ExitFits, effects
<1> QED
  BY <1>1, <1>2, <1>3, <1>4 DEF SessionNext, ExitStep
--------------------------------------------------------------------------------
\* A session starts with nobody in it.
LEMMA SessionInitInv == SessionInit => SessionInv
<1> SUFFICES ASSUME SessionInit PROVE SessionInv
  OBVIOUS
<1> USE SessionAssumption DEF SessionInit
<1>1. SessionTypeOK
  <2>1. MaxCalls \in Nat /\ probe_calls \in 0 .. MaxCalls /\ index \in [Handlers -> 0 .. MaxCalls]
    OBVIOUS
  <2>2. {probe_active, cooling, judge_checkpoint_reached, registered, claimRevoked,
         claimExpired, latched, admits} \subseteq BOOLEAN
    OBVIOUS
  <2> QED
    BY <2>1, <2>2 DEF SessionTypeOK
<1>2. \A h \in Handlers : HandlerFits(h)
  BY DEF HandlerFits, Fresh, Uncounted, CpsPlaces, CheckPlaces, InFlight, Handlers
<1>3. CountedChecks = {} /\ \A h \in Checks : index[h] = 0
  BY DEF CountedChecks, Handlers
<1>4. IsFiniteSet(CountedChecks) /\ BudgetExact
  BY <1>3, FS_EmptySet, SessionAssumption DEF BudgetExact, CountedChecks
<1>5. ProofIsDurable /\ AnswersAudited /\ ExitFits
  BY DEF ProofIsDurable, AnswersAudited, ExitFits, Handlers
<1> QED
  BY <1>1, <1>2, <1>4, <1>5 DEF SessionInv

\* Every step keeps the invariant.
LEMMA SessionStepInv == SessionInv /\ [SessionNext]_sessionVars => SessionInv'
<1>1. SessionInv /\ SessionNext => SessionInv'
  BY SessionTypes, SessionFits, SessionBudget, SessionAnswers, SessionExits DEF SessionInv
<1>2. SessionInv /\ UNCHANGED sessionVars => SessionInv'
  BY DEF SessionInv, sessionVars, SessionTypeOK, HandlerFits, CountedChecks, BudgetExact, ProofIsDurable,
         AnswersAudited, ExitFits
<1> QED
  BY <1>1, <1>2

\* The invariant of every session.
LEMMA SessionInductive == SessionSpec => []SessionInv
BY SessionInitInv, SessionStepInv, PTL DEF SessionSpec

\* Types: a session's bookkeeping stays in its ranges, the count within the budget.
THEOREM SessionTypeCorrect == SessionSpec => []SessionTypeOK
BY SessionInductive, PTL DEF SessionInv

\* The call budget holds and its count is exact, for any number of racing checks.
THEOREM SessionBudgetHolds == SessionSpec => []BudgetExact
BY SessionInductive, PTL DEF SessionInv

\* A solver is told of a proof only when the runner has it, if the session reports proofs.
THEOREM ProofsAreDurable == SessionSpec => []ProofIsDurable
BY SessionInductive, PTL DEF SessionInv

\* No answer without its audit row, no CPS tool without an audited verdict.
THEOREM AnswersAreAudited == SessionSpec => []AnswersAudited
BY SessionInductive, PTL DEF SessionInv

\* After the exit no handler of the session reaches the store.
THEOREM ExitIsFinal == SessionSpec => NoCommitAfterExit
<1>1. SessionInv /\ [SessionNext]_sessionVars => [exit = "left" => committed' = committed]_sessionVars
  BY SessionExits
<1> QED
  BY <1>1, SessionInductive, PTL DEF SessionSpec, NoCommitAfterExit
================================================================================
