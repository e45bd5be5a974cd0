--------------------------- MODULE JudgeBroker_proofs --------------------------
(***************************************************************************)
(* Proofs about JudgeGate, for any number of calls, jobs and permits, and  *)
(* whether or not the Judge coalesces submissions; at the end, about       *)
(* BrokerClose.                                                            *)
(***************************************************************************)
EXTENDS BrokerClose, FiniteSetTheorems, TLAPS

\* What the place of a call says about its verdict and its job.
Submitting == {"idle", "queued", "acquired", "admitted", "checking", "posting"}
PcInv ==
  \A c \in Calls :
    /\ pc[c] \in Submitting \cup {"refused"} => job[c] = NoJob
    /\ pc[c] \in {"polling", "cancelling"} => job[c] # NoJob
    /\ pc[c] \in Submitting \cup {"refused", "polling", "cancelling"} => verdict[c] = "none"
    /\ pc[c] \in {"returned", "kept"} => verdict[c] # "none"
    /\ verdict[c] = "deferred" => pc[c] \in {"returned", "kept"} /\ job[c] # NoJob
    /\ job[c] # NoJob => remote[job[c]] # "unused"
    /\ verdict[c] \in {"settled", "cancelled", "failed"} =>
         job[c] = NoJob \/ remote[job[c]] = "settled"

\* What it says about its permit; only a deferred call's may be gone already.
HoldInv ==
  \A c \in Calls :
    /\ pc[c] \in {"idle", "queued", "refused", "done"} => c \notin holding
    /\ pc[c] \in {"acquired", "admitted", "checking", "posting", "polling", "cancelling"} =>
         c \in holding
    /\ pc[c] \in {"returned", "kept"} /\ verdict[c] # "deferred" => c \in holding

\* A registered callback belongs to one deferred call that still has its permit,
\* and only a watcher that saw the receipt runs callbacks.
WatchInv ==
  \A j \in Jobs :
    /\ watcher[j] = "none" => callbacks[j] = {}
    /\ watcher[j] = "polling" => callbacks[j] # {}
    /\ batch[j] # {} => watcher[j] = "draining"
    /\ watcher[j] \in {"draining", "closing"} => remote[j] = "settled"
    /\ callbacks[j] \cap batch[j] = {}
    /\ \A c \in callbacks[j] \cup batch[j] :
         verdict[c] = "deferred" /\ job[c] = j /\ c \in holding

\* A call whose permit nobody will ever give back.
Stuck(c) ==
  /\ c \in holding
  /\ \/ verdict[c] = "unconfirmed"
     \/ /\ verdict[c] = "deferred"
        /\ \A j \in Jobs :
             /\ c \notin batch[j]
             /\ c \in callbacks[j] => watcher[j] = "expiring"
StuckInv == Latched => \E c \in Calls : Stuck(c)

\* The jobs whose record has given a permit back.
Emptied == {j \in Jobs : \E d \in Calls \ holding : verdict[d] = "deferred" /\ job[d] = j}

\* A record is closed only after it gave a permit back, or with the latch set.
RecordInv ==
  \A j \in Jobs :
    /\ watcher[j] = "draining" => callbacks[j] # {} \/ batch[j] # {} \/ j \in Emptied
    /\ watcher[j] = "closing" => j \in Emptied
    /\ watcher[j] = "expiring" => Latched

\* A call that keeps its permit was deferred, or left the latch behind.
ToldInv ==
  \A c \in Calls :
    /\ verdict[c] = "unconfirmed" => Latched
    /\ pc[c] = "kept" => verdict[c] = "deferred" \/ Latched
    /\ pc[c] = "done" => verdict[c] # "none" \/ job[c] = NoJob

\* Who owes a deferred call its permit.
Owed(c, j) == Latched \/ c \in callbacks[j] \/ c \in batch[j] \/ j \in Emptied
OweInv ==
  /\ RecordInv /\ ToldInv
  /\ \A c \in holding, j \in Jobs : verdict[c] = "deferred" /\ job[c] = j => Owed(c, j)

CoreInv ==
  /\ TypeOK /\ PcInv /\ HoldInv /\ WatchInv
  /\ JobsCovered /\ ReleasedAfterReceipt /\ StuckInv
IInv == CoreInv /\ PermitsAccounted /\ QueueExact

--------------------------------------------------------------------------------
\* One lemma per part of the invariant, one step per action in each.  What a call
\* has submitted and been told agrees with where it is, after every step.
LEMMA PcStep ==
  ASSUME TypeOK, PcInv, WatchInv, [Next]_vars
  PROVE  PcInv'
<1> USE GateAssumption DEF TypeOK, PcInv, Submitting, Evaluating, Final, Retains, WatchInv,
    Move, Return, TakePermit, GivePermit, CancelRequested, Latched, Brokered, Probes,
    callVars, watchVars, gateVars, vars
<1>1. ASSUME NEW c \in Calls, Arrive(c) PROVE PcInv'
  BY <1>1 DEF Arrive
<1>2. ASSUME NEW c \in Calls, GiveUp(c) PROVE PcInv'
  BY <1>2 DEF GiveUp
<1>3. ASSUME NEW c \in Calls, AcquireGate(c) PROVE PcInv'
  BY <1>3 DEF AcquireGate
<1>4. ASSUME NEW c \in Calls, Admit(c) PROVE PcInv'
  BY <1>4 DEF Admit
<1>5. ASSUME NEW c \in Calls, LoseAdmission(c) PROVE PcInv'
  BY <1>5 DEF LoseAdmission
<1>6. ASSUME NEW c \in Calls, StartEvaluation(c) PROVE PcInv'
  BY <1>6 DEF StartEvaluation
<1>7. ASSUME NEW c \in Calls, CheckSubmission(c) PROVE PcInv'
  <2>1. CASE \E v \in {"unconfirmed", "cancelled", "failed"} :
               /\ Return(c, "checking", v)
               /\ UNCHANGED <<job, remote>>
    BY <2>1
  <2>2. CASE Move(c, "checking", "posting") /\ UNCHANGED <<verdict, job, remote>>
    BY <2>2
  <2> QED
    BY <1>7, <2>1, <2>2 DEF CheckSubmission
<1>8. ASSUME NEW c \in Calls, AnswerLocally(c) PROVE PcInv'
  BY <1>8 DEF AnswerLocally
<1>9. ASSUME NEW c \in Calls, PostRejected(c) PROVE PcInv'
  BY <1>9 DEF PostRejected
<1>10. ASSUME NEW c \in Calls, PostFailed(c) PROVE PcInv'
  BY <1>10 DEF PostFailed
<1>11. ASSUME NEW c \in Calls, PostAmbiguous(c) PROVE PcInv'
  BY <1>11 DEF PostAmbiguous
<1>12. ASSUME NEW c \in Calls, PollTerminal(c) PROVE PcInv'
  BY <1>12 DEF PollTerminal
<1>13. ASSUME NEW c \in Calls, PollOverload(c) PROVE PcInv'
  BY <1>13 DEF PollOverload
<1>14. ASSUME NEW c \in Calls, StartCancel(c) PROVE PcInv'
  BY <1>14 DEF StartCancel
<1>15. ASSUME NEW c \in Calls, CancelSettled(c) PROVE PcInv'
  BY <1>15 DEF CancelSettled
<1>16. ASSUME NEW c \in Calls, CancelUnconfirmed(c) PROVE PcInv'
  BY <1>16 DEF CancelUnconfirmed
<1>17. ASSUME NEW c \in Calls, CancelDeferred(c) PROVE PcInv'
  BY <1>17 DEF CancelDeferred
<1>18. ASSUME NEW c \in Calls, FinishCall(c) PROVE PcInv'
  BY <1>18 DEF FinishCall
<1>19. ASSUME NEW c \in Calls, Revoke(c) PROVE PcInv'
  BY <1>19 DEF Revoke
<1>20. ASSUME NEW c \in Calls, NEW j \in Jobs, PostAccepted(c, j) PROVE PcInv'
  BY <1>20 DEF PostAccepted
<1>21. ASSUME NEW j \in Jobs, WatcherSettles(j) PROVE PcInv'
  BY <1>21 DEF WatcherSettles
<1>22. ASSUME NEW j \in Jobs, WatcherTimesOut(j) PROVE PcInv'
  BY <1>22 DEF WatcherTimesOut
<1>23. ASSUME NEW j \in Jobs, TakeBatch(j) PROVE PcInv'
  BY <1>23 DEF TakeBatch
<1>24. ASSUME NEW j \in Jobs, FindNoBatch(j) PROVE PcInv'
  BY <1>24 DEF FindNoBatch
<1>25. ASSUME NEW j \in Jobs, PopRecord(j) PROVE PcInv'
  BY <1>25 DEF PopRecord
<1>26. ASSUME NEW j \in Jobs, JudgeFinishes(j) PROVE PcInv'
  BY <1>26 DEF JudgeFinishes
<1>27. ASSUME NEW c \in Calls, NEW j \in Jobs, RunCallback(j, c) PROVE PcInv'
  BY <1>27 DEF RunCallback
<1>28. CASE HorizonPasses
  BY <1>28 DEF HorizonPasses
<1>29. CASE UNCHANGED vars
  BY <1>29
<1> QED
  BY <1>1, <1>2, <1>3, <1>4, <1>5, <1>6, <1>7, <1>8, <1>9, <1>10, <1>11, <1>12, <1>13, <1>14,
      <1>15, <1>16, <1>17, <1>18, <1>19, <1>20, <1>21, <1>22, <1>23, <1>24, <1>25, <1>26,
      <1>27, <1>28, <1>29 DEF Next, CallStep, WatcherStep, Submit, Reconcile

\* A permit is taken and given back only where the code is written to do so.
LEMMA HoldStep ==
  ASSUME TypeOK, PcInv, HoldInv, WatchInv, [Next]_vars
  PROVE  HoldInv'
<1> USE GateAssumption DEF TypeOK, PcInv, HoldInv, WatchInv, Submitting, Evaluating, Final,
    Retains, Move, Return, TakePermit, GivePermit, CancelRequested, Latched, Brokered, Probes,
    callVars, watchVars, gateVars, vars
<1>1. ASSUME NEW c \in Calls, Arrive(c) PROVE HoldInv'
  BY <1>1 DEF Arrive
<1>2. ASSUME NEW c \in Calls, GiveUp(c) PROVE HoldInv'
  BY <1>2 DEF GiveUp
<1>3. ASSUME NEW c \in Calls, AcquireGate(c) PROVE HoldInv'
  BY <1>3 DEF AcquireGate
<1>4. ASSUME NEW c \in Calls, Admit(c) PROVE HoldInv'
  BY <1>4 DEF Admit
<1>5. ASSUME NEW c \in Calls, LoseAdmission(c) PROVE HoldInv'
  BY <1>5 DEF LoseAdmission
<1>6. ASSUME NEW c \in Calls, StartEvaluation(c) PROVE HoldInv'
  BY <1>6 DEF StartEvaluation
<1>7. ASSUME NEW c \in Calls, CheckSubmission(c) PROVE HoldInv'
  BY <1>7 DEF CheckSubmission
<1>8. ASSUME NEW c \in Calls, AnswerLocally(c) PROVE HoldInv'
  BY <1>8 DEF AnswerLocally
<1>9. ASSUME NEW c \in Calls, PostRejected(c) PROVE HoldInv'
  BY <1>9 DEF PostRejected
<1>10. ASSUME NEW c \in Calls, PostFailed(c) PROVE HoldInv'
  BY <1>10 DEF PostFailed
<1>11. ASSUME NEW c \in Calls, PostAmbiguous(c) PROVE HoldInv'
  BY <1>11 DEF PostAmbiguous
<1>12. ASSUME NEW c \in Calls, PollTerminal(c) PROVE HoldInv'
  BY <1>12 DEF PollTerminal
<1>13. ASSUME NEW c \in Calls, PollOverload(c) PROVE HoldInv'
  BY <1>13 DEF PollOverload
<1>14. ASSUME NEW c \in Calls, StartCancel(c) PROVE HoldInv'
  BY <1>14 DEF StartCancel
<1>15. ASSUME NEW c \in Calls, CancelSettled(c) PROVE HoldInv'
  BY <1>15 DEF CancelSettled
<1>16. ASSUME NEW c \in Calls, CancelUnconfirmed(c) PROVE HoldInv'
  BY <1>16 DEF CancelUnconfirmed
<1>17. ASSUME NEW c \in Calls, CancelDeferred(c) PROVE HoldInv'
  BY <1>17 DEF CancelDeferred
<1>18. ASSUME NEW c \in Calls, FinishCall(c) PROVE HoldInv'
  BY <1>18 DEF FinishCall
<1>19. ASSUME NEW c \in Calls, Revoke(c) PROVE HoldInv'
  BY <1>19 DEF Revoke
<1>20. ASSUME NEW c \in Calls, NEW j \in Jobs, PostAccepted(c, j) PROVE HoldInv'
  BY <1>20 DEF PostAccepted
<1>21. ASSUME NEW j \in Jobs, WatcherSettles(j) PROVE HoldInv'
  BY <1>21 DEF WatcherSettles
<1>22. ASSUME NEW j \in Jobs, WatcherTimesOut(j) PROVE HoldInv'
  BY <1>22 DEF WatcherTimesOut
<1>23. ASSUME NEW j \in Jobs, TakeBatch(j) PROVE HoldInv'
  BY <1>23 DEF TakeBatch
<1>24. ASSUME NEW j \in Jobs, FindNoBatch(j) PROVE HoldInv'
  BY <1>24 DEF FindNoBatch
<1>25. ASSUME NEW j \in Jobs, PopRecord(j) PROVE HoldInv'
  BY <1>25 DEF PopRecord
<1>26. ASSUME NEW j \in Jobs, JudgeFinishes(j) PROVE HoldInv'
  BY <1>26 DEF JudgeFinishes
<1>27. ASSUME NEW c \in Calls, NEW j \in Jobs, RunCallback(j, c) PROVE HoldInv'
  BY <1>27 DEF RunCallback
<1>28. CASE HorizonPasses
  BY <1>28 DEF HorizonPasses
<1>29. CASE UNCHANGED vars
  BY <1>29
<1> QED
  BY <1>1, <1>2, <1>3, <1>4, <1>5, <1>6, <1>7, <1>8, <1>9, <1>10, <1>11, <1>12, <1>13, <1>14,
      <1>15, <1>16, <1>17, <1>18, <1>19, <1>20, <1>21, <1>22, <1>23, <1>24, <1>25, <1>26,
      <1>27, <1>28, <1>29 DEF Next, CallStep, WatcherStep, Submit, Reconcile

\* Each callback is in one record or one batch at a time, and runs once.
LEMMA WatchStep ==
  ASSUME TypeOK, PcInv, HoldInv, WatchInv, [Next]_vars
  PROVE  WatchInv'
<1> USE GateAssumption DEF TypeOK, PcInv, HoldInv, WatchInv, Submitting, Evaluating, Final,
    Retains, Move, Return, TakePermit, GivePermit, CancelRequested, Latched, Brokered, Probes,
    callVars, watchVars, gateVars, vars
<1>1. ASSUME NEW c \in Calls, Arrive(c) PROVE WatchInv'
  BY <1>1 DEF Arrive
<1>2. ASSUME NEW c \in Calls, GiveUp(c) PROVE WatchInv'
  BY <1>2 DEF GiveUp
<1>3. ASSUME NEW c \in Calls, AcquireGate(c) PROVE WatchInv'
  BY <1>3 DEF AcquireGate
<1>4. ASSUME NEW c \in Calls, Admit(c) PROVE WatchInv'
  BY <1>4 DEF Admit
<1>5. ASSUME NEW c \in Calls, LoseAdmission(c) PROVE WatchInv'
  BY <1>5 DEF LoseAdmission
<1>6. ASSUME NEW c \in Calls, StartEvaluation(c) PROVE WatchInv'
  BY <1>6 DEF StartEvaluation
<1>7. ASSUME NEW c \in Calls, CheckSubmission(c) PROVE WatchInv'
  BY <1>7 DEF CheckSubmission
<1>8. ASSUME NEW c \in Calls, AnswerLocally(c) PROVE WatchInv'
  BY <1>8 DEF AnswerLocally
<1>9. ASSUME NEW c \in Calls, PostRejected(c) PROVE WatchInv'
  BY <1>9 DEF PostRejected
<1>10. ASSUME NEW c \in Calls, PostFailed(c) PROVE WatchInv'
  BY <1>10 DEF PostFailed
<1>11. ASSUME NEW c \in Calls, PostAmbiguous(c) PROVE WatchInv'
  BY <1>11 DEF PostAmbiguous
<1>12. ASSUME NEW c \in Calls, PollTerminal(c) PROVE WatchInv'
  BY <1>12 DEF PollTerminal
<1>13. ASSUME NEW c \in Calls, PollOverload(c) PROVE WatchInv'
  BY <1>13 DEF PollOverload
<1>14. ASSUME NEW c \in Calls, StartCancel(c) PROVE WatchInv'
  BY <1>14 DEF StartCancel
<1>15. ASSUME NEW c \in Calls, CancelSettled(c) PROVE WatchInv'
  BY <1>15 DEF CancelSettled
<1>16. ASSUME NEW c \in Calls, CancelUnconfirmed(c) PROVE WatchInv'
  BY <1>16 DEF CancelUnconfirmed
<1>17. ASSUME NEW c \in Calls, CancelDeferred(c) PROVE WatchInv'
  BY <1>17 DEF CancelDeferred
<1>18. ASSUME NEW c \in Calls, FinishCall(c) PROVE WatchInv'
  BY <1>18 DEF FinishCall
<1>19. ASSUME NEW c \in Calls, Revoke(c) PROVE WatchInv'
  BY <1>19 DEF Revoke
<1>20. ASSUME NEW c \in Calls, NEW j \in Jobs, PostAccepted(c, j) PROVE WatchInv'
  BY <1>20 DEF PostAccepted
<1>21. ASSUME NEW j \in Jobs, WatcherSettles(j) PROVE WatchInv'
  BY <1>21 DEF WatcherSettles
<1>22. ASSUME NEW j \in Jobs, WatcherTimesOut(j) PROVE WatchInv'
  BY <1>22 DEF WatcherTimesOut
<1>23. ASSUME NEW j \in Jobs, TakeBatch(j) PROVE WatchInv'
  BY <1>23 DEF TakeBatch
<1>24. ASSUME NEW j \in Jobs, FindNoBatch(j) PROVE WatchInv'
  BY <1>24 DEF FindNoBatch
<1>25. ASSUME NEW j \in Jobs, PopRecord(j) PROVE WatchInv'
  BY <1>25 DEF PopRecord
<1>26. ASSUME NEW j \in Jobs, JudgeFinishes(j) PROVE WatchInv'
  BY <1>26 DEF JudgeFinishes
<1>27. ASSUME NEW c \in Calls, NEW j \in Jobs, RunCallback(j, c) PROVE WatchInv'
  BY <1>27 DEF RunCallback
<1>28. CASE HorizonPasses
  BY <1>28 DEF HorizonPasses
<1>29. CASE UNCHANGED vars
  BY <1>29
<1> QED
  BY <1>1, <1>2, <1>3, <1>4, <1>5, <1>6, <1>7, <1>8, <1>9, <1>10, <1>11, <1>12, <1>13, <1>14,
      <1>15, <1>16, <1>17, <1>18, <1>19, <1>20, <1>21, <1>22, <1>23, <1>24, <1>25, <1>26,
      <1>27, <1>28, <1>29 DEF Next, CallStep, WatcherStep, Submit, Reconcile

\* A live job keeps a permit: who gives one back has seen its job settled.
LEMMA CoverStep ==
  ASSUME TypeOK, PcInv, HoldInv, WatchInv, JobsCovered, [Next]_vars
  PROVE  JobsCovered'
<1> USE GateAssumption DEF TypeOK, PcInv, HoldInv, WatchInv, JobsCovered, Submitting,
    Evaluating, Final, Retains, Move, Return, TakePermit, GivePermit, CancelRequested,
    Latched, Brokered, Probes, callVars, watchVars, gateVars, vars
<1>1. ASSUME NEW c \in Calls, Arrive(c) PROVE JobsCovered'
  BY <1>1 DEF Arrive
<1>2. ASSUME NEW c \in Calls, GiveUp(c) PROVE JobsCovered'
  BY <1>2 DEF GiveUp
<1>3. ASSUME NEW c \in Calls, AcquireGate(c) PROVE JobsCovered'
  BY <1>3 DEF AcquireGate
<1>4. ASSUME NEW c \in Calls, Admit(c) PROVE JobsCovered'
  BY <1>4 DEF Admit
<1>5. ASSUME NEW c \in Calls, LoseAdmission(c) PROVE JobsCovered'
  BY <1>5 DEF LoseAdmission
<1>6. ASSUME NEW c \in Calls, StartEvaluation(c) PROVE JobsCovered'
  BY <1>6 DEF StartEvaluation
<1>7. ASSUME NEW c \in Calls, CheckSubmission(c) PROVE JobsCovered'
  BY <1>7 DEF CheckSubmission
<1>8. ASSUME NEW c \in Calls, AnswerLocally(c) PROVE JobsCovered'
  BY <1>8 DEF AnswerLocally
<1>9. ASSUME NEW c \in Calls, PostRejected(c) PROVE JobsCovered'
  BY <1>9 DEF PostRejected
<1>10. ASSUME NEW c \in Calls, PostFailed(c) PROVE JobsCovered'
  BY <1>10 DEF PostFailed
<1>11. ASSUME NEW c \in Calls, PostAmbiguous(c) PROVE JobsCovered'
  BY <1>11 DEF PostAmbiguous
<1>12. ASSUME NEW c \in Calls, PollTerminal(c) PROVE JobsCovered'
  BY <1>12 DEF PollTerminal
<1>13. ASSUME NEW c \in Calls, PollOverload(c) PROVE JobsCovered'
  BY <1>13 DEF PollOverload
<1>14. ASSUME NEW c \in Calls, StartCancel(c) PROVE JobsCovered'
  BY <1>14 DEF StartCancel
<1>15. ASSUME NEW c \in Calls, CancelSettled(c) PROVE JobsCovered'
  BY <1>15 DEF CancelSettled
<1>16. ASSUME NEW c \in Calls, CancelUnconfirmed(c) PROVE JobsCovered'
  BY <1>16 DEF CancelUnconfirmed
<1>17. ASSUME NEW c \in Calls, CancelDeferred(c) PROVE JobsCovered'
  BY <1>17 DEF CancelDeferred
<1>18. ASSUME NEW c \in Calls, FinishCall(c) PROVE JobsCovered'
  <2>1. UNCHANGED <<job, remote>> /\ pc[c] = "returned"
    BY <1>18 DEF FinishCall
  <2>2. CASE UNCHANGED holding
    BY <2>1, <2>2
  <2>3. CASE ~Retains(c) /\ holding' = holding \ {c}
    <3>1. verdict[c] \in {"settled", "cancelled", "failed"}
      BY <2>1, <2>3
    <3>2. job[c] = NoJob \/ remote[job[c]] = "settled"
      BY <3>1
    <3> QED
      BY <2>1, <2>3, <3>2
  <2> QED
    BY <1>18, <2>2, <2>3 DEF FinishCall
<1>19. ASSUME NEW c \in Calls, Revoke(c) PROVE JobsCovered'
  BY <1>19 DEF Revoke
<1>20. ASSUME NEW c \in Calls, NEW j \in Jobs, PostAccepted(c, j) PROVE JobsCovered'
  BY <1>20 DEF PostAccepted
<1>21. ASSUME NEW j \in Jobs, WatcherSettles(j) PROVE JobsCovered'
  BY <1>21 DEF WatcherSettles
<1>22. ASSUME NEW j \in Jobs, WatcherTimesOut(j) PROVE JobsCovered'
  BY <1>22 DEF WatcherTimesOut
<1>23. ASSUME NEW j \in Jobs, TakeBatch(j) PROVE JobsCovered'
  BY <1>23 DEF TakeBatch
<1>24. ASSUME NEW j \in Jobs, FindNoBatch(j) PROVE JobsCovered'
  BY <1>24 DEF FindNoBatch
<1>25. ASSUME NEW j \in Jobs, PopRecord(j) PROVE JobsCovered'
  BY <1>25 DEF PopRecord
<1>26. ASSUME NEW j \in Jobs, JudgeFinishes(j) PROVE JobsCovered'
  BY <1>26 DEF JudgeFinishes
<1>27. ASSUME NEW c \in Calls, NEW j \in Jobs, RunCallback(j, c) PROVE JobsCovered'
  BY <1>27 DEF RunCallback
<1>28. CASE HorizonPasses
  BY <1>28 DEF HorizonPasses
<1>29. CASE UNCHANGED vars
  BY <1>29
<1> QED
  BY <1>1, <1>2, <1>3, <1>4, <1>5, <1>6, <1>7, <1>8, <1>9, <1>10, <1>11, <1>12, <1>13, <1>14,
      <1>15, <1>16, <1>17, <1>18, <1>19, <1>20, <1>21, <1>22, <1>23, <1>24, <1>25, <1>26,
      <1>27, <1>28, <1>29 DEF Next, CallStep, WatcherStep, Submit, Reconcile

\* A deferred call loses its permit only to a watcher that saw the receipt.
LEMMA ReceiptStep ==
  ASSUME TypeOK, PcInv, HoldInv, WatchInv, ReleasedAfterReceipt, [Next]_vars
  PROVE  ReleasedAfterReceipt'
<1> USE GateAssumption DEF TypeOK, PcInv, HoldInv, WatchInv, ReleasedAfterReceipt, Submitting,
    Evaluating, Final, Retains, Move, Return, TakePermit, GivePermit, CancelRequested,
    Latched, Brokered, Probes, callVars, watchVars, gateVars, vars
<1>1. ASSUME NEW c \in Calls, Arrive(c) PROVE ReleasedAfterReceipt'
  BY <1>1 DEF Arrive
<1>2. ASSUME NEW c \in Calls, GiveUp(c) PROVE ReleasedAfterReceipt'
  BY <1>2 DEF GiveUp
<1>3. ASSUME NEW c \in Calls, AcquireGate(c) PROVE ReleasedAfterReceipt'
  BY <1>3 DEF AcquireGate
<1>4. ASSUME NEW c \in Calls, Admit(c) PROVE ReleasedAfterReceipt'
  BY <1>4 DEF Admit
<1>5. ASSUME NEW c \in Calls, LoseAdmission(c) PROVE ReleasedAfterReceipt'
  BY <1>5 DEF LoseAdmission
<1>6. ASSUME NEW c \in Calls, StartEvaluation(c) PROVE ReleasedAfterReceipt'
  BY <1>6 DEF StartEvaluation
<1>7. ASSUME NEW c \in Calls, CheckSubmission(c) PROVE ReleasedAfterReceipt'
  BY <1>7 DEF CheckSubmission
<1>8. ASSUME NEW c \in Calls, AnswerLocally(c) PROVE ReleasedAfterReceipt'
  BY <1>8 DEF AnswerLocally
<1>9. ASSUME NEW c \in Calls, PostRejected(c) PROVE ReleasedAfterReceipt'
  BY <1>9 DEF PostRejected
<1>10. ASSUME NEW c \in Calls, PostFailed(c) PROVE ReleasedAfterReceipt'
  BY <1>10 DEF PostFailed
<1>11. ASSUME NEW c \in Calls, PostAmbiguous(c) PROVE ReleasedAfterReceipt'
  BY <1>11 DEF PostAmbiguous
<1>12. ASSUME NEW c \in Calls, PollTerminal(c) PROVE ReleasedAfterReceipt'
  BY <1>12 DEF PollTerminal
<1>13. ASSUME NEW c \in Calls, PollOverload(c) PROVE ReleasedAfterReceipt'
  BY <1>13 DEF PollOverload
<1>14. ASSUME NEW c \in Calls, StartCancel(c) PROVE ReleasedAfterReceipt'
  BY <1>14 DEF StartCancel
<1>15. ASSUME NEW c \in Calls, CancelSettled(c) PROVE ReleasedAfterReceipt'
  BY <1>15 DEF CancelSettled
<1>16. ASSUME NEW c \in Calls, CancelUnconfirmed(c) PROVE ReleasedAfterReceipt'
  BY <1>16 DEF CancelUnconfirmed
<1>17. ASSUME NEW c \in Calls, CancelDeferred(c) PROVE ReleasedAfterReceipt'
  BY <1>17 DEF CancelDeferred
<1>18. ASSUME NEW c \in Calls, FinishCall(c) PROVE ReleasedAfterReceipt'
  BY <1>18 DEF FinishCall
<1>19. ASSUME NEW c \in Calls, Revoke(c) PROVE ReleasedAfterReceipt'
  BY <1>19 DEF Revoke
<1>20. ASSUME NEW c \in Calls, NEW j \in Jobs, PostAccepted(c, j) PROVE ReleasedAfterReceipt'
  BY <1>20 DEF PostAccepted
<1>21. ASSUME NEW j \in Jobs, WatcherSettles(j) PROVE ReleasedAfterReceipt'
  BY <1>21 DEF WatcherSettles
<1>22. ASSUME NEW j \in Jobs, WatcherTimesOut(j) PROVE ReleasedAfterReceipt'
  BY <1>22 DEF WatcherTimesOut
<1>23. ASSUME NEW j \in Jobs, TakeBatch(j) PROVE ReleasedAfterReceipt'
  BY <1>23 DEF TakeBatch
<1>24. ASSUME NEW j \in Jobs, FindNoBatch(j) PROVE ReleasedAfterReceipt'
  BY <1>24 DEF FindNoBatch
<1>25. ASSUME NEW j \in Jobs, PopRecord(j) PROVE ReleasedAfterReceipt'
  BY <1>25 DEF PopRecord
<1>26. ASSUME NEW j \in Jobs, JudgeFinishes(j) PROVE ReleasedAfterReceipt'
  BY <1>26 DEF JudgeFinishes
<1>27. ASSUME NEW c \in Calls, NEW j \in Jobs, RunCallback(j, c) PROVE ReleasedAfterReceipt'
  BY <1>27 DEF RunCallback
<1>28. CASE HorizonPasses
  BY <1>28 DEF HorizonPasses
<1>29. CASE UNCHANGED vars
  BY <1>29
<1> QED
  BY <1>1, <1>2, <1>3, <1>4, <1>5, <1>6, <1>7, <1>8, <1>9, <1>10, <1>11, <1>12, <1>13, <1>14,
      <1>15, <1>16, <1>17, <1>18, <1>19, <1>20, <1>21, <1>22, <1>23, <1>24, <1>25, <1>26,
      <1>27, <1>28, <1>29 DEF Next, CallStep, WatcherStep, Submit, Reconcile

\* Whoever sets the latch is stuck with a permit, and stays so.
LEMMA StuckStep ==
  ASSUME TypeOK, PcInv, HoldInv, WatchInv, StuckInv, [Next]_vars
  PROVE  StuckInv'
<1> USE GateAssumption DEF TypeOK, PcInv, HoldInv, WatchInv, StuckInv, Stuck, Submitting,
    Evaluating, Final, Retains, Move, Return, TakePermit, GivePermit, CancelRequested,
    Latched, Brokered, Probes, callVars, watchVars, gateVars, vars
<1>1. ASSUME NEW c \in Calls, Arrive(c) PROVE StuckInv'
  BY <1>1 DEF Arrive
<1>2. ASSUME NEW c \in Calls, GiveUp(c) PROVE StuckInv'
  BY <1>2 DEF GiveUp
<1>3. ASSUME NEW c \in Calls, AcquireGate(c) PROVE StuckInv'
  BY <1>3 DEF AcquireGate
<1>4. ASSUME NEW c \in Calls, Admit(c) PROVE StuckInv'
  BY <1>4 DEF Admit
<1>5. ASSUME NEW c \in Calls, LoseAdmission(c) PROVE StuckInv'
  BY <1>5 DEF LoseAdmission
<1>6. ASSUME NEW c \in Calls, StartEvaluation(c) PROVE StuckInv'
  BY <1>6 DEF StartEvaluation
<1>7. ASSUME NEW c \in Calls, CheckSubmission(c) PROVE StuckInv'
  BY <1>7 DEF CheckSubmission
<1>8. ASSUME NEW c \in Calls, AnswerLocally(c) PROVE StuckInv'
  BY <1>8 DEF AnswerLocally
<1>9. ASSUME NEW c \in Calls, PostRejected(c) PROVE StuckInv'
  BY <1>9 DEF PostRejected
<1>10. ASSUME NEW c \in Calls, PostFailed(c) PROVE StuckInv'
  BY <1>10 DEF PostFailed
<1>11. ASSUME NEW c \in Calls, PostAmbiguous(c) PROVE StuckInv'
  BY <1>11 DEF PostAmbiguous
<1>12. ASSUME NEW c \in Calls, PollTerminal(c) PROVE StuckInv'
  BY <1>12 DEF PollTerminal
<1>13. ASSUME NEW c \in Calls, PollOverload(c) PROVE StuckInv'
  BY <1>13 DEF PollOverload
<1>14. ASSUME NEW c \in Calls, StartCancel(c) PROVE StuckInv'
  BY <1>14 DEF StartCancel
<1>15. ASSUME NEW c \in Calls, CancelSettled(c) PROVE StuckInv'
  BY <1>15 DEF CancelSettled
<1>16. ASSUME NEW c \in Calls, CancelUnconfirmed(c) PROVE StuckInv'
  BY <1>16 DEF CancelUnconfirmed
<1>17. ASSUME NEW c \in Calls, CancelDeferred(c) PROVE StuckInv'
  BY <1>17 DEF CancelDeferred
<1>18. ASSUME NEW c \in Calls, FinishCall(c) PROVE StuckInv'
  BY <1>18 DEF FinishCall
<1>19. ASSUME NEW c \in Calls, Revoke(c) PROVE StuckInv'
  BY <1>19 DEF Revoke
<1>20. ASSUME NEW c \in Calls, NEW j \in Jobs, PostAccepted(c, j) PROVE StuckInv'
  BY <1>20 DEF PostAccepted
<1>21. ASSUME NEW j \in Jobs, WatcherSettles(j) PROVE StuckInv'
  BY <1>21 DEF WatcherSettles
<1>22. ASSUME NEW j \in Jobs, WatcherTimesOut(j) PROVE StuckInv'
  BY <1>22 DEF WatcherTimesOut
<1>23. ASSUME NEW j \in Jobs, TakeBatch(j) PROVE StuckInv'
  BY <1>23 DEF TakeBatch
<1>24. ASSUME NEW j \in Jobs, FindNoBatch(j) PROVE StuckInv'
  BY <1>24 DEF FindNoBatch
<1>25. ASSUME NEW j \in Jobs, PopRecord(j) PROVE StuckInv'
  BY <1>25 DEF PopRecord
<1>26. ASSUME NEW j \in Jobs, JudgeFinishes(j) PROVE StuckInv'
  BY <1>26 DEF JudgeFinishes
<1>27. ASSUME NEW c \in Calls, NEW j \in Jobs, RunCallback(j, c) PROVE StuckInv'
  BY <1>27 DEF RunCallback
<1>28. CASE HorizonPasses
  BY <1>28 DEF HorizonPasses
<1>29. CASE UNCHANGED vars
  BY <1>29
<1> QED
  BY <1>1, <1>2, <1>3, <1>4, <1>5, <1>6, <1>7, <1>8, <1>9, <1>10, <1>11, <1>12, <1>13, <1>14,
      <1>15, <1>16, <1>17, <1>18, <1>19, <1>20, <1>21, <1>22, <1>23, <1>24, <1>25, <1>26,
      <1>27, <1>28, <1>29 DEF Next, CallStep, WatcherStep, Submit, Reconcile

--------------------------------------------------------------------------------
\* The two operations on the semaphore: one permit and one holder, together.
LEMMA TakeKeeps ==
  ASSUME NEW c \in Calls \ holding, TypeOK, PermitsAccounted, permits > 0, TakePermit(c)
  PROVE  PermitsAccounted' /\ permits' \in 0 .. Capacity /\ holding' \subseteq Calls
<1>1. IsFiniteSet(holding)
  BY GateAssumption, FS_Subset DEF TypeOK
<1>2. Cardinality(holding \cup {c}) = Cardinality(holding) + 1
  BY <1>1, FS_AddElement
<1>3. Cardinality(holding) \in Nat
  BY <1>1, FS_CardinalityType
<1>4. permits \in Nat /\ Capacity \in Nat /\ holding \subseteq Calls
  BY GateAssumption DEF TypeOK
<1> QED
  BY <1>2, <1>3, <1>4 DEF PermitsAccounted, TakePermit

\* A permit given back is accounted for.
LEMMA GiveKeeps ==
  ASSUME NEW c \in holding, TypeOK, PermitsAccounted, GivePermit(c)
  PROVE  PermitsAccounted' /\ permits' \in 0 .. Capacity /\ holding' \subseteq Calls
<1>1. IsFiniteSet(holding)
  BY GateAssumption, FS_Subset DEF TypeOK
<1>2. /\ Cardinality(holding \ {c}) = Cardinality(holding) - 1
      /\ Cardinality(holding \ {c}) \in Nat
  BY <1>1, FS_RemoveElement, FS_CardinalityType, FS_Subset
<1>3. Cardinality(holding) \in Nat
  BY <1>1, FS_CardinalityType
<1>4. permits \in Nat /\ Capacity \in Nat /\ holding \subseteq Calls
  BY GateAssumption DEF TypeOK
<1> QED
  BY <1>2, <1>3, <1>4 DEF PermitsAccounted, GivePermit

\* Who takes a permit has none, who gives one back has it, and every other step
\* leaves the semaphore alone.
LEMMA PermitMoves ==
  ASSUME TypeOK, HoldInv, PcInv, WatchInv, [Next]_vars
  PROVE  \/ \E c \in Calls \ holding : permits > 0 /\ TakePermit(c)
         \/ \E c \in holding : GivePermit(c)
         \/ UNCHANGED <<permits, holding>>
<1> DEFINE Fine == \/ \E c \in Calls \ holding : permits > 0 /\ TakePermit(c)
                   \/ \E c \in holding : GivePermit(c)
                   \/ UNCHANGED <<permits, holding>>
<1>1. ASSUME NEW c \in Calls, AcquireGate(c) PROVE Fine
  BY <1>1 DEF AcquireGate, Move, HoldInv
<1>2. ASSUME NEW c \in Calls, Admit(c) PROVE Fine
  BY <1>2 DEF Admit, Move, HoldInv
<1>3. ASSUME NEW c \in Calls, LoseAdmission(c) PROVE Fine
  BY <1>3 DEF LoseAdmission, Move, HoldInv
<1>4. ASSUME NEW c \in Calls, FinishCall(c) PROVE Fine
  BY <1>4 DEF FinishCall, Retains, Move, HoldInv
<1>5. ASSUME NEW j \in Jobs, NEW c \in Calls, RunCallback(j, c) PROVE Fine
  BY <1>5 DEF RunCallback, WatchInv
<1>6. ASSUME NEW c \in Calls,
    Arrive(c) \/ GiveUp(c) \/ StartEvaluation(c) \/ Revoke(c) PROVE Fine
  BY <1>6 DEF Arrive, GiveUp, StartEvaluation, Revoke, gateVars
<1>7. ASSUME NEW c \in Calls, Submit(c) \/ Reconcile(c) PROVE Fine
  BY <1>7 DEF Submit, CheckSubmission, AnswerLocally, PostAccepted, PostRejected, PostFailed,
      PostAmbiguous, Reconcile, PollTerminal, PollOverload, StartCancel, CancelSettled,
      CancelUnconfirmed, CancelDeferred, gateVars
<1>8. ASSUME NEW j \in Jobs,
             \/ WatcherSettles(j) \/ WatcherTimesOut(j) \/ TakeBatch(j) \/ FindNoBatch(j)
             \/ PopRecord(j) \/ JudgeFinishes(j)
      PROVE Fine
  BY <1>8 DEF WatcherSettles, WatcherTimesOut, TakeBatch, FindNoBatch, PopRecord,
      JudgeFinishes, gateVars
<1>9. CASE HorizonPasses \/ UNCHANGED vars
  BY <1>9 DEF HorizonPasses, gateVars, vars
<1> QED
  BY <1>1, <1>2, <1>3, <1>4, <1>5, <1>6, <1>7, <1>8, <1>9 DEF Next, CallStep, WatcherStep

\* The count is exact after every step, and stays within the semaphore's bound.
LEMMA PermitStep ==
  ASSUME TypeOK, PermitsAccounted, HoldInv, PcInv, WatchInv, [Next]_vars
  PROVE  PermitsAccounted' /\ permits' \in 0 .. Capacity /\ holding' \subseteq Calls
<1>1. CASE UNCHANGED <<permits, holding>>
  BY <1>1 DEF TypeOK, PermitsAccounted
<1> QED
  BY <1>1, PermitMoves, TakeKeeps, GiveKeeps DEF TypeOK
--------------------------------------------------------------------------------
\* Leaving the queue is what its name says, wherever in the queue the caller is.
LEMMA LeaveKeeps ==
  ASSUME NEW c \in Calls, TypeOK, LeaveQueue(c)
  PROVE  fifo' \in Seq(Calls)
<1>1. CASE UNCHANGED fifo
  BY <1>1 DEF TypeOK
<1>2. ASSUME NEW i \in DOMAIN fifo,
             fifo' = [k \in 1 .. Len(fifo) - 1 |-> IF k < i THEN fifo[k] ELSE fifo[k + 1]]
      PROVE  fifo' \in Seq(Calls)
  <2>1. \A k \in 1 .. Len(fifo) - 1 : fifo[k] \in Calls /\ fifo[k + 1] \in Calls
    BY DEF TypeOK
  <2>2. Len(fifo) - 1 \in Nat
    BY <1>2 DEF TypeOK
  <2> QED
    BY <1>2, <2>1, <2>2
<1> QED
  BY <1>1, <1>2 DEF LeaveQueue

\* Every step keeps the types, given that permits are accounted for.
LEMMA TypeStep ==
  ASSUME TypeOK, PermitsAccounted, HoldInv, PcInv, WatchInv, [Next]_vars
  PROVE  TypeOK'
<1> DEFINE Rest ==
      /\ pc \in [Calls -> {"idle", "queued", "acquired", "admitted"} \cup Evaluating \cup Final]
      /\ fifo \in Seq(Calls)
      /\ revoked \subseteq Calls /\ expired \in BOOLEAN
      /\ unsettled \in Nat
      /\ before \in [Calls -> Nat] /\ resubmits \in [Calls -> 0 .. MaxResubmits]
      /\ verdict \in [Calls -> {"none", "settled", "cancelled", "failed", "unconfirmed", "deferred"}]
      /\ job \in [Calls -> Jobs \cup {NoJob}]
      /\ remote \in [Jobs -> {"unused", "live", "settled"}]
      /\ watcher \in [Jobs -> {"none", "polling", "expiring", "draining", "closing"}]
      /\ callbacks \in [Jobs -> SUBSET Calls] /\ batch \in [Jobs -> SUBSET Calls]
<1>1. SUFFICES Rest'
  BY PermitStep DEF TypeOK
<1> USE DEF TypeOK, Evaluating, Final, Move, callVars, watchVars, gateVars
<1>2. ASSUME NEW c \in Calls, Arrive(c) PROVE Rest'
  <2>1. fifo' \in Seq(Calls)
    <3>1. fifo' = fifo \/ fifo' = Append(fifo, c)
      BY <1>2 DEF Arrive
    <3>2. fifo \in Seq(Calls)
      OBVIOUS
    <3>3. Append(fifo, c) \in Seq(Calls)
      BY ONLY <3>2, c \in Calls
    <3> QED
      BY <3>1, <3>2, <3>3
  <2>2. pc' \in [Calls -> {"idle", "queued", "acquired", "admitted"} \cup Evaluating \cup Final]
    BY <1>2 DEF Arrive
  <2> QED
    BY <1>2, <2>1, <2>2 DEF Arrive
<1>3. ASSUME NEW c \in Calls, GiveUp(c) PROVE Rest'
  BY <1>3, LeaveKeeps DEF GiveUp
<1>4. ASSUME NEW c \in Calls, AcquireGate(c) PROVE Rest'
  BY <1>4 DEF AcquireGate
<1>5. ASSUME NEW c \in Calls, Admit(c) PROVE Rest'
  BY <1>5, LeaveKeeps DEF Admit
<1>6. ASSUME NEW c \in Calls, LoseAdmission(c) PROVE Rest'
  BY <1>6 DEF LoseAdmission
<1>7. ASSUME NEW c \in Calls, StartEvaluation(c) PROVE Rest'
  BY <1>7 DEF StartEvaluation
<1>8. ASSUME NEW c \in Calls, CheckSubmission(c) PROVE Rest'
  <2>1. pc' \in [Calls -> {"idle", "queued", "acquired", "admitted"} \cup Evaluating \cup Final]
    <3>1. \E s \in {"returned", "posting"} : pc' = [pc EXCEPT ![c] = s]
      BY <1>8 DEF CheckSubmission, Return
    <3> QED
      BY <3>1
  <2>2. verdict' \in [Calls -> {"none", "settled", "cancelled", "failed", "unconfirmed",
      "deferred"}]
    BY <1>8 DEF CheckSubmission, Return
  <2> QED
    BY <1>8, <2>1, <2>2 DEF CheckSubmission
<1>9. ASSUME NEW c \in Calls, AnswerLocally(c) PROVE Rest'
  BY <1>9 DEF AnswerLocally, Return
<1>10. ASSUME NEW c \in Calls, PostRejected(c) PROVE Rest'
  BY <1>10 DEF PostRejected
<1>11. ASSUME NEW c \in Calls, PostFailed(c) PROVE Rest'
  BY <1>11 DEF PostFailed, Return
<1>12. ASSUME NEW c \in Calls, PostAmbiguous(c) PROVE Rest'
  <2>1. /\ job' \in [Calls -> Jobs \cup {NoJob}]
        /\ remote' \in [Jobs -> {"unused", "live", "settled"}]
    <3>1. CASE UNCHANGED <<job, remote>>
      BY <3>1
    <3>2. ASSUME NEW j \in Jobs, remote' = [remote EXCEPT ![j] = "live"],
                 job' = [job EXCEPT ![c] = j]
          PROVE  /\ job' \in [Calls -> Jobs \cup {NoJob}]
                 /\ remote' \in [Jobs -> {"unused", "live", "settled"}]
      BY <3>2
    <3> QED
      BY <1>12, <3>1, <3>2 DEF PostAmbiguous
  <2>2. /\ pc' = [pc EXCEPT ![c] = "returned"]
        /\ verdict' = [verdict EXCEPT ![c] = "unconfirmed"]
        /\ unsettled' = unsettled + 1
        /\ UNCHANGED <<gateVars, revoked, expired, before, resubmits, watchVars>>
    BY <1>12 DEF PostAmbiguous, Return
  <2> QED
    BY <2>1, <2>2
<1>13. ASSUME NEW c \in Calls, PollTerminal(c) PROVE Rest'
  BY <1>13 DEF PollTerminal, Return
<1>14. ASSUME NEW c \in Calls, PollOverload(c) PROVE Rest'
  BY <1>14, GateAssumption DEF PollOverload
<1>15. ASSUME NEW c \in Calls, StartCancel(c) PROVE Rest'
  BY <1>15 DEF StartCancel
<1>16. ASSUME NEW c \in Calls, CancelSettled(c) PROVE Rest'
  BY <1>16 DEF CancelSettled, Return
<1>17. ASSUME NEW c \in Calls, CancelUnconfirmed(c) PROVE Rest'
  BY <1>17 DEF CancelUnconfirmed, Return
<1>18. ASSUME NEW c \in Calls, CancelDeferred(c) PROVE Rest'
  BY <1>18 DEF CancelDeferred, Return
<1>19. ASSUME NEW c \in Calls, FinishCall(c) PROVE Rest'
  BY <1>19 DEF FinishCall
<1>20. ASSUME NEW c \in Calls, Revoke(c) PROVE Rest'
  BY <1>20 DEF Revoke
<1>21. ASSUME NEW c \in Calls, NEW j \in Jobs, PostAccepted(c, j) PROVE Rest'
  BY <1>21 DEF PostAccepted
<1>22. ASSUME NEW j \in Jobs, WatcherSettles(j) PROVE Rest'
  BY <1>22 DEF WatcherSettles
<1>23. ASSUME NEW j \in Jobs, WatcherTimesOut(j) PROVE Rest'
  BY <1>23 DEF WatcherTimesOut
<1>24. ASSUME NEW j \in Jobs, TakeBatch(j) PROVE Rest'
  BY <1>24 DEF TakeBatch
<1>25. ASSUME NEW j \in Jobs, FindNoBatch(j) PROVE Rest'
  BY <1>25 DEF FindNoBatch
<1>26. ASSUME NEW j \in Jobs, PopRecord(j) PROVE Rest'
  BY <1>26 DEF PopRecord
<1>27. ASSUME NEW j \in Jobs, JudgeFinishes(j) PROVE Rest'
  BY <1>27 DEF JudgeFinishes
<1>28. ASSUME NEW c \in Calls, NEW j \in Jobs, RunCallback(j, c) PROVE Rest'
  BY <1>28 DEF RunCallback
<1>29. CASE HorizonPasses \/ UNCHANGED vars
  BY <1>29 DEF HorizonPasses, vars
<1> QED
  BY <1>2, <1>3, <1>4, <1>5, <1>6, <1>7, <1>8, <1>9, <1>10, <1>11, <1>12, <1>13, <1>14, <1>15,
      <1>16, <1>17, <1>18, <1>19, <1>20, <1>21, <1>22, <1>23, <1>24, <1>25, <1>26, <1>27,
      <1>28, <1>29 DEF Next, CallStep, WatcherStep, Submit, Reconcile
--------------------------------------------------------------------------------
\* A call waits in the FIFO exactly while its handler does.
LEMMA LeaveExact ==
  ASSUME NEW c \in Calls, TypeOK, QueueExact, LeaveQueue(c)
  PROVE  /\ \A d \in Calls : Waits(d)' <=> (Waits(d) /\ d # c)
         /\ \A i, k \in DOMAIN fifo' : fifo'[i] = fifo'[k] => i = k
<1>1. CASE ~Waits(c) /\ UNCHANGED fifo
  BY <1>1 DEF Waits, QueueExact
<1>2. ASSUME NEW i \in DOMAIN fifo, fifo[i] = c,
             fifo' = [k \in 1 .. Len(fifo) - 1 |-> IF k < i THEN fifo[k] ELSE fifo[k + 1]]
      PROVE  /\ \A d \in Calls : Waits(d)' <=> (Waits(d) /\ d # c)
             /\ \A p, k \in DOMAIN fifo' : fifo'[p] = fifo'[k] => p = k
  <2>1. /\ Len(fifo) \in Nat /\ DOMAIN fifo = 1 .. Len(fifo)
        /\ DOMAIN fifo' = 1 .. Len(fifo) - 1
    BY <1>2 DEF TypeOK
  <2>2. \A p, k \in DOMAIN fifo : fifo[p] = fifo[k] => p = k
    BY DEF QueueExact
  <2>3. \A p, k \in DOMAIN fifo' : fifo'[p] = fifo'[k] => p = k
    BY <1>2, <2>1, <2>2
  <2>4. ASSUME NEW d \in Calls, NEW k \in DOMAIN fifo', fifo'[k] = d
        PROVE  (\E p \in DOMAIN fifo : fifo[p] = d) /\ d # c
    BY <1>2, <2>1, <2>2, <2>4
  <2>5. ASSUME NEW d \in Calls, NEW p \in DOMAIN fifo, fifo[p] = d, d # c
        PROVE  \E k \in DOMAIN fifo' : fifo'[k] = d
    <3>1. CASE p < i
      BY <1>2, <2>1, <2>5, <3>1
    <3>2. CASE p > i
      <4>1. p - 1 \in DOMAIN fifo' /\ fifo'[p - 1] = d
        BY <1>2, <2>1, <2>5, <3>2
      <4> QED
        BY <4>1
    <3> QED
      BY <1>2, <2>1, <2>5, <3>1, <3>2
  <2> QED
    BY <2>3, <2>4, <2>5 DEF Waits
<1> QED
  BY <1>1, <1>2 DEF LeaveQueue

\* A handler enters the FIFO once and leaves it when it stops waiting.
LEMMA QueueStep ==
  ASSUME TypeOK, QueueExact, [Next]_vars
  PROVE  QueueExact'
<1> DEFINE Waiting(c) == c \in Brokered /\ pc[c] \in {"queued", "acquired"}
<1>1. ASSUME UNCHANGED fifo,
             \A d \in Brokered : pc'[d] \in {"queued", "acquired"} <=> pc[d] \in {"queued", "acquired"}
      PROVE  QueueExact'
  BY <1>1 DEF QueueExact, Waits, Brokered
<1>2. ASSUME NEW c \in Calls, NEW s, s \notin {"queued", "acquired"}, LeaveQueue(c),
             pc' = [pc EXCEPT ![c] = s]
      PROVE  QueueExact'
  BY <1>2, LeaveExact DEF QueueExact, TypeOK
<1>3. ASSUME NEW c \in Calls, Arrive(c) PROVE QueueExact'
  <2>1. CASE UNCHANGED fifo
    BY <1>1, <1>3, <2>1 DEF Arrive, Move, TypeOK, Brokered
  <2>2. CASE /\ c \in Brokered /\ pc[c] = "idle"
             /\ pc' = [pc EXCEPT ![c] = "queued"] /\ fifo' = Append(fifo, c)
    <3>1. /\ DOMAIN fifo' = 1 .. Len(fifo) + 1 /\ Len(fifo) \in Nat /\ DOMAIN fifo = 1 .. Len(fifo)
          /\ fifo'[Len(fifo) + 1] = c /\ \A i \in DOMAIN fifo : fifo'[i] = fifo[i]
      BY <2>2 DEF TypeOK
    <3>2. \A i \in DOMAIN fifo : fifo[i] # c
      BY <2>2 DEF QueueExact, Waits
    <3>3. \A i, k \in DOMAIN fifo' : fifo'[i] = fifo'[k] => i = k
      BY <3>1, <3>2 DEF QueueExact
    <3>4. \A d \in Calls : Waits(d)' <=> Waits(d) \/ d = c
      <4>1. \A d \in Calls : Waits(d) \/ d = c => Waits(d)'
        BY <3>1 DEF Waits
      <4>2. \A d \in Calls : Waits(d)' => Waits(d) \/ d = c
        BY <3>1 DEF Waits
      <4> QED
        BY <4>1, <4>2
    <3> QED
      BY <2>2, <3>3, <3>4 DEF QueueExact, TypeOK
  <2> QED
    BY <1>3, <2>1, <2>2 DEF Arrive, Move
<1>4. ASSUME NEW c \in Calls, GiveUp(c) \/ Admit(c) PROVE QueueExact'
  BY <1>2, <1>4 DEF GiveUp, Admit, Move
<1>5. ASSUME NEW c \in Calls,
             AcquireGate(c) \/ LoseAdmission(c) \/ StartEvaluation(c) \/ FinishCall(c) \/ Revoke(c)
      PROVE  QueueExact'
  BY <1>1, <1>5 DEF AcquireGate, LoseAdmission, StartEvaluation, FinishCall, Revoke, Move,
      gateVars, TypeOK, Brokered
<1>6. ASSUME NEW c \in Calls, Submit(c) PROVE QueueExact'
  BY <1>1, <1>6 DEF Submit, CheckSubmission, AnswerLocally, PostAccepted, PostRejected,
      PostFailed,
      PostAmbiguous, Return, Move, gateVars, TypeOK, Brokered
<1>7. ASSUME NEW c \in Calls, Reconcile(c) PROVE QueueExact'
  BY <1>1, <1>7 DEF Reconcile, PollTerminal, PollOverload, StartCancel, CancelSettled,
      CancelUnconfirmed, CancelDeferred, Return, Move, gateVars, TypeOK, Brokered
<1>8. ASSUME NEW j \in Jobs, WatcherStep(j) \/ JudgeFinishes(j) PROVE QueueExact'
  BY <1>1, <1>8 DEF WatcherStep, WatcherSettles, WatcherTimesOut, TakeBatch, RunCallback,
      FindNoBatch,
      PopRecord, JudgeFinishes, gateVars
<1>9. CASE HorizonPasses \/ UNCHANGED vars
  BY <1>1, <1>9 DEF HorizonPasses, gateVars, vars
<1> QED
  BY <1>3, <1>4, <1>5, <1>6, <1>7, <1>8, <1>9 DEF Next, CallStep
--------------------------------------------------------------------------------
\* The inductive invariant.
LEMMA InitIInv == Init => IInv
<1> SUFFICES ASSUME Init PROVE IInv
  OBVIOUS
<1> USE GateAssumption DEF Init
<1>1. TypeOK
  <2>1. /\ pc \in [Calls -> {"idle"}] /\ verdict \in [Calls -> {"none"}]
        /\ job \in [Calls -> {NoJob}] /\ before \in [Calls -> {0}]
        /\ resubmits \in [Calls -> {0}] /\ remote \in [Jobs -> {"unused"}]
        /\ watcher \in [Jobs -> {"none"}]
        /\ callbacks \in [Jobs -> {{}}] /\ batch \in [Jobs -> {{}}]
    OBVIOUS
  <2>2. permits \in 0 .. Capacity /\ fifo \in Seq(Calls) /\ 0 \in 0 .. MaxResubmits
    OBVIOUS
  <2> QED
    BY <2>1, <2>2 DEF TypeOK
<1>2. PcInv /\ HoldInv /\ WatchInv
  BY DEF PcInv, HoldInv, WatchInv, Submitting
<1>3. JobsCovered /\ ReleasedAfterReceipt /\ StuckInv
  BY DEF JobsCovered, ReleasedAfterReceipt, StuckInv, Latched
<1>4. PermitsAccounted
  BY FS_EmptySet DEF PermitsAccounted
<1>5. QueueExact
  BY DEF QueueExact, Waits
<1> QED
  BY <1>1, <1>2, <1>3, <1>4, <1>5 DEF IInv, CoreInv

\* It is preserved by every step.
LEMMA StepIInv == IInv /\ [Next]_vars => IInv'
<1> SUFFICES ASSUME IInv, [Next]_vars PROVE IInv'
  OBVIOUS
<1>1. /\ TypeOK /\ PcInv /\ HoldInv /\ WatchInv /\ JobsCovered /\ ReleasedAfterReceipt
      /\ StuckInv /\ PermitsAccounted /\ QueueExact
  BY DEF IInv, CoreInv
<1> QED
  BY <1>1, TypeStep, PcStep, HoldStep, WatchStep, CoverStep, ReceiptStep, StuckStep,
      PermitStep, QueueStep DEF IInv, CoreInv

\* So it holds in every reachable state.
THEOREM Invariance == Spec => []IInv
  BY InitIInv, StepIInv, PTL DEF Spec

\* The variables have their types: in particular the semaphore never holds more
\* permits than it was created with, which is when its release would raise.
THEOREM TypeCorrect == Spec => []TypeOK
<1>1. IInv => TypeOK
  BY DEF IInv, CoreInv
<1> QED
  BY <1>1, Invariance, PTL

\* Every permit is in the semaphore or with one call, whichever of the handler,
\* the runner and the settlement watcher gives it back.
THEOREM PermitsAreAccounted == Spec => []PermitsAccounted
<1>1. IInv => PermitsAccounted
  BY DEF IInv
<1> QED
  BY <1>1, Invariance, PTL

\* A remote job that may still run is charged to a permit.
THEOREM JobsAreCovered == Spec => []JobsCovered
<1>1. IInv => JobsCovered
  BY DEF IInv, CoreInv
<1> QED
  BY <1>1, Invariance, PTL

\* A deferred permit comes home only after the terminal receipt of its job.
THEOREM ReceiptFirst == Spec => []ReleasedAfterReceipt
<1>1. IInv => ReleasedAfterReceipt
  BY DEF IInv, CoreInv
<1> QED
  BY <1>1, Invariance, PTL

\* The admission queue holds exactly the waiting handlers.
THEOREM QueueIsExact == Spec => []QueueExact
<1>1. IInv => QueueExact
  BY DEF IInv
<1> QED
  BY <1>1, Invariance, PTL

\* Once the latch is set, some permit stays out: whoever set it is stuck with one.
THEOREM LatchKeeps == Spec => []LatchKeepsPermit
<1>1. IInv => LatchKeepsPermit
  BY DEF IInv, CoreInv, StuckInv, Stuck, LatchKeepsPermit
<1> QED
  BY <1>1, Invariance, PTL
--------------------------------------------------------------------------------
\* The refinement.  Granting is one step, Admit; every other step gives back at
\* most the leases L and may latch, which closes the pool.
LEMMA InitMaps == Init => Pool!PoolInit
<1> SUFFICES ASSUME Init PROVE Pool!PoolInit
  OBVIOUS
<1>1. Granted = {} /\ holding = {}
  BY DEF Init, Granted, Evaluating
<1> QED
  BY <1>1 DEF Pool!PoolInit, StillOpen

\* Admit grants: the permit it was given leaves room for it in the pool.
LEMMA GrantMaps ==
  ASSUME IInv, NEW c \in Calls, Admit(c), ~Latched
  PROVE  Pool!PoolNext
<1>1. /\ pc[c] = "acquired" /\ pc' = [pc EXCEPT ![c] = "admitted"]
      /\ UNCHANGED <<permits, holding, unsettled>>
  BY DEF Admit, Move
<1>2. c \notin Granted /\ Granted' = Granted \cup {c}
  BY <1>1 DEF Granted, Evaluating, IInv, CoreInv, TypeOK
<1>3. c \in holding
  BY <1>1 DEF IInv, CoreInv, HoldInv
<1>4. Cardinality(holding \cap Granted) + 1 <= Capacity
  <2>1. holding \subseteq Calls /\ IsFiniteSet(holding) /\ permits \in Nat
    BY GateAssumption, FS_Subset DEF IInv, CoreInv, TypeOK
  <2>2. IsFiniteSet(holding \cap Granted) /\ IsFiniteSet(holding \ {c})
    BY <2>1, FS_Subset
  <2>3. Cardinality(holding \cap Granted) <= Cardinality(holding \ {c})
    BY <1>2, <2>2, FS_Subset
  <2>4. Cardinality(holding \ {c}) = Cardinality(holding) - 1
    BY <1>3, <2>1, FS_RemoveElement
  <2>5. /\ Cardinality(holding \cap Granted) \in Nat /\ Cardinality(holding) \in Nat
        /\ Cardinality(holding \ {c}) \in Nat
    BY <2>1, <2>2, FS_CardinalityType
  <2>6. permits + Cardinality(holding) = Capacity
    BY DEF IInv, PermitsAccounted
  <2> QED
    BY <2>1, <2>3, <2>4, <2>5, <2>6, GateAssumption
<1>5. Pool!HasRoom(1)
  <2>1. Cardinality(holding \cap Granted) \in Nat /\ Cardinality({}) = 0
    BY GateAssumption, FS_Subset, FS_CardinalityType, FS_EmptySet DEF IInv, CoreInv, TypeOK
  <2> QED
    BY <1>4, <2>1 DEF Pool!HasRoom
<1>6. Pool!Grantable(c)
  BY <1>2 DEF Pool!Grantable, Itself, StillOpen
<1>7. Pool!Grant(c)
  BY <1>1, <1>2, <1>3, <1>5, <1>6 DEF Pool!Grant, StillOpen, Latched
<1> QED
  BY <1>7 DEF Pool!PoolNext

\* Giving back L and possibly latching is the pool's Return.
LEMMA ReturnMaps ==
  ASSUME TypeOK, TypeOK', Granted' = Granted, unsettled' \in {unsettled, unsettled + 1},
         NEW L \in SUBSET (holding \cap Granted),
         (holding \cap Granted)' = (holding \cap Granted) \ L
  PROVE  Pool!PoolNext
<1> DEFINE Closing == IF unsettled' > 0 THEN Calls ELSE {}
<1>1. StillOpen' = StillOpen \ Closing
  BY DEF TypeOK, StillOpen, Latched
<1>2. Pool!Return(L, Closing)
  BY <1>1 DEF Pool!Return
<1>3. L \in SUBSET Calls /\ Closing \in SUBSET Calls
  BY DEF TypeOK
<1> QED
  BY <1>2, <1>3 DEF Pool!PoolNext

\* Every step maps to one of these.
LEMMA NextMaps ==
  ASSUME IInv, IInv', [Next]_vars
  PROVE  [Pool!PoolNext]_(Pool!poolVars)
<1>1. /\ TypeOK /\ TypeOK' /\ HoldInv /\ PcInv /\ WatchInv
  BY DEF IInv, CoreInv
<1> DEFINE Maps == \/ Pool!PoolNext
                   \/ /\ Granted' = Granted /\ unsettled' \in {unsettled, unsettled + 1}
                      /\ \E L \in SUBSET (holding \cap Granted) :
                           (holding \cap Granted)' = (holding \cap Granted) \ L
<1> USE DEF Granted, Evaluating
<1>2. ASSUME Granted' = Granted, UNCHANGED holding, unsettled' \in {unsettled, unsettled + 1}
      PROVE  Maps
  <2>1. (holding \cap Granted)' = (holding \cap Granted) \ {}
    BY <1>2
  <2> QED
    BY <1>2, <2>1
<1>3. ASSUME NEW c \in Calls, Admit(c) PROVE Maps
  <2>1. CASE ~Latched
    BY <1>3, <2>1, GrantMaps
  <2>2. CASE Latched
    <3>1. /\ pc[c] = "acquired" /\ pc' = [pc EXCEPT ![c] = "refused"]
          /\ holding' = holding \ {c} /\ UNCHANGED unsettled
      BY <1>3, <2>2 DEF Admit, Move, GivePermit
    <3>2. Granted' = Granted /\ c \notin Granted
      BY <1>1, <3>1 DEF TypeOK
    <3>3. (holding \cap Granted)' = (holding \cap Granted) \ {}
      BY <3>1, <3>2
    <3> QED
      BY <3>1, <3>2, <3>3
  <2> QED
    BY <2>1, <2>2
<1>4. ASSUME NEW c \in Calls, AcquireGate(c) PROVE Maps
  <2>1. /\ pc[c] = "queued" /\ pc' = [pc EXCEPT ![c] = "acquired"]
        /\ holding' = holding \cup {c} /\ UNCHANGED unsettled
    BY <1>4 DEF AcquireGate, Move, TakePermit
  <2>2. Granted' = Granted /\ c \notin Granted
    BY <1>1, <2>1 DEF TypeOK
  <2>3. (holding \cap Granted)' = (holding \cap Granted) \ {}
    BY <2>1, <2>2
  <2> QED
    BY <2>1, <2>2, <2>3
<1>5. ASSUME NEW c \in Granted, c \in holding, Granted' = Granted, UNCHANGED unsettled,
             GivePermit(c)
      PROVE  Maps
  <2>1. {c} \in SUBSET (holding \cap Granted)
    BY <1>5
  <2>2. (holding \cap Granted)' = (holding \cap Granted) \ {c}
    BY <1>5 DEF GivePermit
  <2> QED
    BY <1>5, <2>1, <2>2
<1>6. ASSUME NEW c \in Calls, LoseAdmission(c) \/ FinishCall(c) PROVE Maps
  <2>1. Granted' = Granted /\ c \in Granted /\ UNCHANGED unsettled
    BY <1>1, <1>6 DEF LoseAdmission, FinishCall, Move, TypeOK
  <2>2. CASE UNCHANGED holding
    BY <1>2, <2>1, <2>2
  <2>3. CASE GivePermit(c)
    <3>1. c \in holding
      BY <1>1, <1>6, <2>3 DEF LoseAdmission, FinishCall, Move, Retains, HoldInv, GivePermit,
          TypeOK
    <3> QED
      BY <1>5, <2>1, <2>3, <3>1
  <2> QED
    BY <1>6, <2>2, <2>3 DEF LoseAdmission, FinishCall
<1>7. ASSUME NEW j \in Jobs, NEW c \in Calls, RunCallback(j, c) PROVE Maps
  <2>1. c \in holding /\ verdict[c] = "deferred"
    BY <1>1, <1>7 DEF RunCallback, WatchInv
  <2>2. c \in Granted
    BY <1>1, <2>1 DEF PcInv
  <2> QED
    BY <1>5, <1>7, <2>1, <2>2 DEF RunCallback
<1>8. ASSUME NEW c \in Calls,
    Arrive(c) \/ GiveUp(c) \/ StartEvaluation(c) \/ Revoke(c) PROVE Maps
  <2>1. \/ UNCHANGED pc
        \/ \E s \in {"queued", "refused"} : Move(c, "idle", s)
        \/ Move(c, "queued", "refused")
        \/ Move(c, "admitted", "checking")
    BY <1>8 DEF Arrive, GiveUp, StartEvaluation, Revoke
  <2>2. Granted' = Granted
    <3>1. CASE UNCHANGED pc
      BY <3>1
    <3>2. ASSUME NEW s \in {"queued", "refused"}, Move(c, "idle", s) \/ Move(c, "queued", s)
          PROVE  Granted' = Granted
      BY <1>1, <3>2 DEF Move, TypeOK
    <3>3. CASE Move(c, "admitted", "checking")
      BY <1>1, <3>3 DEF Move, TypeOK
    <3> QED
      BY <2>1, <3>1, <3>2, <3>3
  <2> QED
    BY <1>2, <1>8, <2>2 DEF Arrive, GiveUp, StartEvaluation, Revoke, gateVars
<1>9. ASSUME NEW c \in Calls, Submit(c) \/ Reconcile(c) PROVE Maps
  <2>1. /\ pc[c] \in Evaluating /\ \E s \in Evaluating : pc' = [pc EXCEPT ![c] = s]
        /\ UNCHANGED holding /\ unsettled' \in {unsettled, unsettled + 1}
    BY <1>9 DEF Submit, CheckSubmission, AnswerLocally, PostAccepted, PostRejected, PostFailed,
        PostAmbiguous, Reconcile, PollTerminal, PollOverload, StartCancel, CancelSettled,
        CancelUnconfirmed, CancelDeferred, Return, Move, gateVars
  <2>2. Granted' = Granted
    BY <1>1, <2>1 DEF TypeOK
  <2> QED
    BY <1>2, <2>1, <2>2
<1>10. ASSUME NEW j \in Jobs,
              \/ WatcherSettles(j) \/ WatcherTimesOut(j) \/ TakeBatch(j) \/ FindNoBatch(j)
              \/ PopRecord(j) \/ JudgeFinishes(j)
       PROVE Maps
  BY <1>2, <1>10 DEF WatcherSettles, WatcherTimesOut, TakeBatch, FindNoBatch, PopRecord,
      JudgeFinishes, gateVars
<1>11. ASSUME HorizonPasses PROVE Maps
  BY <1>2, <1>11 DEF HorizonPasses, gateVars
<1>12. ASSUME UNCHANGED vars PROVE Maps
  BY <1>2, <1>12 DEF vars, gateVars
<1> HIDE DEF Maps
<1>13. Maps
  BY <1>3, <1>4, <1>6, <1>7, <1>8, <1>9, <1>10, <1>11, <1>12 DEF Next, CallStep, WatcherStep
<1> QED
  BY <1>1, <1>13, ReturnMaps DEF Maps

\* Seen from its callers the gate is a pool of Capacity permits: a call is granted
\* one at most once, and none after the latch.
THEOREM ImplementsPool == Spec => PoolSpec
<1>1. IInv /\ IInv' /\ [Next]_vars => [Pool!PoolNext]_(Pool!poolVars)
  BY NextMaps
<1> QED
  BY <1>1, InitMaps, Invariance, PTL DEF Spec, PoolSpec, Pool!PoolSpec
--------------------------------------------------------------------------------
\* What a deferred call was told does not change, and it is given no second permit.
LEMMA DeferredRests ==
  ASSUME TypeOK, PcInv, [Next]_vars, NEW d \in Calls, verdict[d] = "deferred"
  PROVE  verdict'[d] = "deferred" /\ job'[d] = job[d] /\ (d \in holding' => d \in holding)
<1>0. pc[d] \in {"returned", "kept"}
  BY DEF PcInv
<1> USE <1>0 DEF TypeOK, Move, Return, TakePermit, GivePermit, callVars, watchVars, gateVars
<1>1. ASSUME NEW c \in Calls, Arrive(c) \/ Revoke(c) \/ GiveUp(c) \/ AcquireGate(c) \/ Admit(c)
                              \/ LoseAdmission(c) \/ StartEvaluation(c) \/ FinishCall(c)
      PROVE  verdict'[d] = "deferred" /\ job'[d] = job[d] /\ (d \in holding' => d \in holding)
  BY <1>1 DEF Arrive, Revoke, GiveUp, AcquireGate, Admit, LoseAdmission, StartEvaluation, FinishCall
<1>2. ASSUME NEW c \in Calls, Submit(c)
      PROVE  verdict'[d] = "deferred" /\ job'[d] = job[d] /\ (d \in holding' => d \in holding)
  BY <1>2 DEF Submit, CheckSubmission, AnswerLocally, PostAccepted, PostRejected, PostFailed,
      PostAmbiguous
<1>3. ASSUME NEW c \in Calls, Reconcile(c)
      PROVE  verdict'[d] = "deferred" /\ job'[d] = job[d] /\ (d \in holding' => d \in holding)
  BY <1>3 DEF Reconcile, PollTerminal, PollOverload, StartCancel, CancelSettled,
      CancelUnconfirmed, CancelDeferred
<1>4. ASSUME NEW j \in Jobs, WatcherStep(j) \/ JudgeFinishes(j)
      PROVE  verdict'[d] = "deferred" /\ job'[d] = job[d] /\ (d \in holding' => d \in holding)
  BY <1>4 DEF WatcherStep, WatcherSettles, WatcherTimesOut, TakeBatch, RunCallback, FindNoBatch,
      PopRecord, JudgeFinishes
<1>5. CASE HorizonPasses \/ UNCHANGED vars
  BY <1>5 DEF HorizonPasses, vars
<1> QED
  BY <1>1, <1>2, <1>3, <1>4, <1>5 DEF Next, CallStep

LEMMA EmptiedStays ==
  ASSUME TypeOK, PcInv, [Next]_vars
  PROVE  Emptied \subseteq Emptied'
<1>1. ASSUME NEW j \in Emptied PROVE j \in Emptied'
  <2>1. j \in Jobs
    BY <1>1 DEF Emptied
  <2>2. PICK d \in Calls \ holding : verdict[d] = "deferred" /\ job[d] = j
    BY <1>1 DEF Emptied
  <2>3. verdict'[d] = "deferred" /\ job'[d] = job[d] /\ d \notin holding'
    BY <2>2, DeferredRests
  <2> QED
    BY <2>1, <2>2, <2>3 DEF Emptied
<1> QED
  BY <1>1

\* The latch is never taken back.
LEMMA LatchStays ==
  ASSUME TypeOK, [Next]_vars, Latched
  PROVE  Latched'
<1> USE DEF Latched, TypeOK, gateVars, callVars
<1>1. ASSUME NEW c \in Calls, Arrive(c) \/ Revoke(c) \/ CallStep(c) PROVE Latched'
  BY <1>1 DEF Arrive, Revoke, CallStep, Submit, Reconcile, GiveUp, AcquireGate, Admit, LoseAdmission,
      StartEvaluation, CheckSubmission, AnswerLocally, PostAccepted, PostRejected, PostFailed,
      PostAmbiguous, PollTerminal, PollOverload, StartCancel, CancelSettled, CancelUnconfirmed,
      CancelDeferred, FinishCall
<1>2. ASSUME NEW j \in Jobs, WatcherStep(j) \/ JudgeFinishes(j) PROVE Latched'
  BY <1>2 DEF WatcherStep, WatcherSettles, WatcherTimesOut, TakeBatch, RunCallback, FindNoBatch,
      PopRecord, JudgeFinishes
<1>3. CASE HorizonPasses \/ UNCHANGED vars
  BY <1>3 DEF HorizonPasses, vars
<1> QED
  BY <1>1, <1>2, <1>3 DEF Next

\* Only a call that is deferred touches a record from outside.
LEMMA WatchersOnly ==
  ASSUME TypeOK, NEW d \in Calls, CallStep(d) \/ Arrive(d) \/ Revoke(d), ~CancelDeferred(d)
  PROVE  UNCHANGED watchVars /\ \A c \in Calls : verdict'[c] = "deferred" => verdict[c] = "deferred"
<1> USE DEF TypeOK, Return, Move, watchVars, callVars
<1>1. CASE Submit(d)
  BY <1>1 DEF Submit, CheckSubmission, AnswerLocally, PostAccepted, PostRejected, PostFailed,
      PostAmbiguous
<1>2. CASE Reconcile(d)
  BY <1>2 DEF Reconcile, PollTerminal, PollOverload, StartCancel, CancelSettled, CancelUnconfirmed
<1>3. CASE Arrive(d) \/ Revoke(d)
  BY <1>3 DEF Arrive, Revoke
<1>4. CASE GiveUp(d) \/ AcquireGate(d) \/ Admit(d) \/ LoseAdmission(d) \/ StartEvaluation(d)
           \/ FinishCall(d)
  BY <1>4 DEF GiveUp, AcquireGate, Admit, LoseAdmission, StartEvaluation, FinishCall
<1> QED
  BY <1>1, <1>2, <1>3, <1>4 DEF CallStep

\* A callback is run, passed on, or dropped with its record.
LEMMA OwedStays ==
  ASSUME CoreInv, RecordInv, [Next]_vars, NEW c \in Calls, c \in holding', NEW j \in Jobs,
         c \in callbacks[j] \/ c \in batch[j]
  PROVE  Owed(c, j)'
<1>0. TypeOK /\ PcInv /\ WatchInv /\ Emptied \subseteq Emptied'
  BY EmptiedStays DEF CoreInv
<1>1. ASSUME NEW i \in Jobs, TakeBatch(i) PROVE Owed(c, j)'
  BY <1>0, <1>1 DEF TakeBatch, TypeOK, Owed
<1>2. ASSUME NEW i \in Jobs, NEW d \in Calls, RunCallback(i, d) PROVE Owed(c, j)'
  BY <1>0, <1>2 DEF RunCallback, GivePermit, TypeOK, Owed
<1>3. ASSUME NEW i \in Jobs, PopRecord(i) PROVE Owed(c, j)'
  <2>1. UNCHANGED <<unsettled, batch>> /\ callbacks' = [callbacks EXCEPT ![i] = {}]
        /\ watcher[i] \in {"expiring", "closing"}
    BY <1>3 DEF PopRecord
  <2>2. Latched \/ i \in Emptied'
    BY <1>0, <2>1 DEF RecordInv
  <2> QED
    BY <1>0, <2>1, <2>2 DEF TypeOK, Owed, Latched
<1>4. ASSUME NEW d \in Calls, CancelDeferred(d) PROVE Owed(c, j)'
  BY <1>0, <1>4 DEF CancelDeferred, TypeOK, Owed
<1>5. ASSUME UNCHANGED watchVars PROVE Owed(c, j)'
  BY <1>5 DEF watchVars, Owed
<1>6. ASSUME NEW i \in Jobs, WatcherSettles(i) \/ WatcherTimesOut(i) \/ FindNoBatch(i)
      PROVE  Owed(c, j)'
  BY <1>6 DEF WatcherSettles, WatcherTimesOut, FindNoBatch, Owed
<1>7. ASSUME NEW i \in Jobs, JudgeFinishes(i) PROVE UNCHANGED watchVars
  BY <1>7 DEF JudgeFinishes
<1>8. HorizonPasses \/ UNCHANGED vars => UNCHANGED watchVars
  BY DEF HorizonPasses, vars, watchVars
<1> QED
  BY <1>0, <1>1, <1>2, <1>3, <1>4, <1>5, <1>6, <1>7, <1>8, WatchersOnly DEF Next, WatcherStep

\* So a deferred call is owed its permit from the moment it is deferred.
LEMMA OwedStep ==
  ASSUME CoreInv, OweInv, [Next]_vars, NEW c \in holding', NEW j \in Jobs,
         verdict'[c] = "deferred", job'[c] = j, TypeOK'
  PROVE  Owed(c, j)'
<1>0. TypeOK /\ PcInv /\ RecordInv /\ c \in Calls
  BY DEF CoreInv, OweInv, TypeOK
<1>1. CASE verdict[c] = "deferred"
  <2>1. job[c] = j /\ c \in holding
    BY <1>0, <1>1, DeferredRests
  <2>2. Owed(c, j)
    BY <1>1, <2>1 DEF OweInv
  <2>3. CASE Latched
    BY <1>0, <2>3, LatchStays DEF Owed
  <2>4. CASE j \in Emptied
    BY <1>0, <2>4, EmptiedStays DEF Owed
  <2>5. CASE c \in callbacks[j] \/ c \in batch[j]
    BY <1>0, <2>5, OwedStays
  <2> QED
    BY <2>2, <2>3, <2>4, <2>5 DEF Owed
<1>2. CASE verdict[c] # "deferred"
  <2>1. ASSUME NEW d \in Calls, CancelDeferred(d) PROVE Owed(c, j)'
    <3>1. c = d
      BY <1>0, <1>2, <2>1 DEF CancelDeferred, Return, TypeOK
    <3> QED
      BY <1>0, <2>1, <3>1 DEF CancelDeferred, TypeOK, Owed
  <2>2. ASSUME UNCHANGED verdict PROVE FALSE
    BY <1>2, <2>2
  <2>3. ASSUME NEW i \in Jobs, WatcherStep(i) \/ JudgeFinishes(i) PROVE UNCHANGED verdict
    BY <2>3 DEF WatcherStep, WatcherSettles, WatcherTimesOut, TakeBatch, RunCallback, FindNoBatch,
        PopRecord, JudgeFinishes, callVars
  <2>4. HorizonPasses \/ UNCHANGED vars => UNCHANGED verdict
    BY DEF HorizonPasses, vars, callVars
  <2> QED
    BY <1>0, <1>2, <2>1, <2>2, <2>3, <2>4, WatchersOnly DEF Next
<1> QED
  BY <1>1, <1>2

\* Whatever jobs the Judge names, a record is not closed before it gave a permit back.
LEMMA RecordStep ==
  ASSUME CoreInv, RecordInv, [Next]_vars
  PROVE  RecordInv'
<1>0. TypeOK /\ PcInv /\ WatchInv /\ \A j \in Jobs : j \in Emptied => j \in Emptied'
  BY EmptiedStays DEF CoreInv
<1> USE <1>0 DEF RecordInv, TypeOK, Latched
<1>1. ASSUME NEW d \in Calls, CancelDeferred(d) PROVE RecordInv'
  <2>1. job[d] \in Jobs /\ callbacks' = [callbacks EXCEPT ![job[d]] = @ \cup {d}]
        /\ watcher' = [watcher EXCEPT ![job[d]] = IF @ = "none" THEN "polling" ELSE @]
        /\ UNCHANGED <<batch, unsettled>>
    BY <1>1 DEF CancelDeferred
  <2> QED
    BY <2>1
<1>2. ASSUME NEW d \in Calls, CallStep(d) \/ Arrive(d) \/ Revoke(d), ~CancelDeferred(d)
      PROVE  RecordInv'
  <2>1. UNCHANGED <<watcher, callbacks, batch>>
    BY <1>2, WatchersOnly DEF watchVars
  <2>2. Latched => Latched'
    BY LatchStays
  <2> QED
    BY <2>1, <2>2
<1>3. ASSUME NEW i \in Jobs, WatcherSettles(i) PROVE RecordInv'
  <2>1. /\ watcher[i] = "polling" /\ watcher' = [watcher EXCEPT ![i] = "draining"]
        /\ UNCHANGED <<callbacks, batch, unsettled>>
    BY <1>3 DEF WatcherSettles
  <2>2. callbacks[i] # {}
    BY <2>1 DEF WatchInv
  <2> QED
    BY <2>1, <2>2
<1>4. ASSUME NEW i \in Jobs, WatcherTimesOut(i) PROVE RecordInv'
  <2>1. watcher' = [watcher EXCEPT ![i] = "expiring"] /\ UNCHANGED <<callbacks, batch>>
    BY <1>4 DEF WatcherTimesOut
  <2>2. unsettled' > 0
    BY <1>4 DEF WatcherTimesOut
  <2> QED
    BY <2>1, <2>2
<1>5. ASSUME NEW i \in Jobs, TakeBatch(i) PROVE RecordInv'
  BY <1>5 DEF TakeBatch
<1>6. ASSUME NEW c \in Calls, NEW i \in Jobs, RunCallback(i, c) PROVE RecordInv'
  <2>1. verdict[c] = "deferred" /\ job[c] = i
    BY <1>6 DEF RunCallback, WatchInv
  <2>2. c \notin holding' /\ verdict'[c] = "deferred" /\ job'[c] = i
    BY <1>6, <2>1 DEF RunCallback, GivePermit, callVars
  <2>3. i \in Emptied'
    BY <2>2 DEF Emptied
  <2> QED
    BY <1>6, <2>3 DEF RunCallback
<1>7. ASSUME NEW i \in Jobs, FindNoBatch(i) PROVE RecordInv'
  BY <1>7 DEF FindNoBatch
<1>8. ASSUME NEW i \in Jobs, PopRecord(i) PROVE RecordInv'
  BY <1>8 DEF PopRecord
<1>9. (\E i \in Jobs : JudgeFinishes(i)) \/ HorizonPasses \/ UNCHANGED vars => RecordInv'
  BY DEF JudgeFinishes, HorizonPasses, vars, watchVars
<1> QED
  BY <1>1, <1>2, <1>3, <1>4, <1>5, <1>6, <1>7, <1>8, <1>9 DEF Next, WatcherStep

LEMMA ToldStep ==
  ASSUME TypeOK, PcInv, ToldInv, [Next]_vars
  PROVE  ToldInv'
<1>0. Latched => Latched'
  BY LatchStays
<1> USE <1>0 DEF ToldInv, TypeOK, PcInv, Submitting, Move, Return, callVars, watchVars
<1>1. ASSUME NEW d \in Calls, Arrive(d) \/ Revoke(d) \/ GiveUp(d) \/ AcquireGate(d) \/ Admit(d)
                              \/ LoseAdmission(d) \/ StartEvaluation(d)
      PROVE  ToldInv'
  BY <1>1 DEF Arrive, Revoke, GiveUp, AcquireGate, Admit, LoseAdmission, StartEvaluation
<1>2. ASSUME NEW d \in Calls, Submit(d) PROVE ToldInv'
  BY <1>2 DEF Submit, CheckSubmission, AnswerLocally, PostAccepted, PostRejected, PostFailed,
      PostAmbiguous, Latched
<1>3. ASSUME NEW d \in Calls, Reconcile(d) PROVE ToldInv'
  BY <1>3 DEF Reconcile, PollTerminal, PollOverload, StartCancel, CancelSettled,
      CancelUnconfirmed, CancelDeferred, Latched
<1>4. ASSUME NEW d \in Calls, FinishCall(d) PROVE ToldInv'
  BY <1>4 DEF FinishCall, Retains, Latched
<1>5. ASSUME NEW i \in Jobs, WatcherStep(i) \/ JudgeFinishes(i) PROVE ToldInv'
  BY <1>5 DEF WatcherStep, WatcherSettles, WatcherTimesOut, TakeBatch, RunCallback, FindNoBatch,
      PopRecord, JudgeFinishes
<1>6. HorizonPasses \/ UNCHANGED vars => ToldInv'
  BY DEF HorizonPasses, vars
<1> QED
  BY <1>1, <1>2, <1>3, <1>4, <1>5, <1>6 DEF Next, CallStep

LEMMA OweStep ==
  ASSUME CoreInv, OweInv, [Next]_vars, TypeOK'
  PROVE  OweInv'
<1>1. RecordInv' /\ ToldInv'
  BY RecordStep, ToldStep DEF OweInv, CoreInv
<1> QED
  BY <1>1, OwedStep DEF OweInv

\* A permit kept by a call while nothing is latched is owed to it by a live watcher, or
\* another call of the same job has had its own.
THEOREM LateReleasesOnly == Spec => []ReleaseOwed
<1>1. Init => OweInv
  BY GateAssumption DEF Init, OweInv, RecordInv, ToldInv, Latched
<1>2. IInv /\ OweInv /\ [Next]_vars => OweInv'
  BY OweStep, StepIInv DEF IInv, CoreInv
<1>3. IInv => CoreInv
  BY DEF IInv
<1>4. CoreInv /\ OweInv => ReleaseOwed
  <2>1. SUFFICES ASSUME CoreInv, OweInv, NEW c \in holding, pc[c] = "kept", ~Latched
                 PROVE  \/ \E j \in Jobs : watcher[j] # "none" /\ c \in callbacks[j] \cup batch[j]
                        \/ CameLate(c)
    BY DEF ReleaseOwed
  <2>2. c \in Calls /\ verdict[c] = "deferred"
    BY <2>1 DEF OweInv, ToldInv, CoreInv, TypeOK
  <2>3. job[c] \in Jobs
    BY <2>1, <2>2 DEF CoreInv, PcInv, TypeOK
  <2>4. CASE c \in callbacks[job[c]] \/ c \in batch[job[c]]
    BY <2>1, <2>3, <2>4 DEF CoreInv, WatchInv
  <2>5. CASE job[c] \in Emptied
    BY <2>5 DEF Emptied, CameLate
  <2> QED
    BY <2>1, <2>2, <2>3, <2>4, <2>5 DEF OweInv, Owed
<1> QED
  BY <1>1, <1>2, <1>3, <1>4, Invariance, PTL DEF Spec
--------------------------------------------------------------------------------
\* close().  Once the server no longer accepts, the broker's calls only end.
Away == phase \notin {"open", "revoked"}
Resting(c) == pc[c] \in {"idle"} \cup Final
Late(c) == job[c] \in Emptied
Unwatched == \A j \in Jobs : callbacks[j] \cup batch[j] \subseteq Direct
BrokerClean ==
  /\ \A c \in Brokered : verdict[c] # "unconfirmed"
  /\ \A c \in holding \cap Brokered : verdict[c] = "deferred" /\ Late(c)

\* What each read of drain_state has shown by the time it is used.
CloseInv ==
  /\ serving \in BOOLEAN /\ (serving <=> ~Away)
  /\ done \in 0 .. 4 /\ sample \in [1 .. 4 -> BOOLEAN]
  /\ Away /\ done > 0 /\ ~sample[HandlerDomain] => ActiveHandlers = {}
  /\ phase \in {"final", "ok"} =>
       ActiveHandlers = {} /\ Unwatched
  /\ phase = "final" /\ done > 1 /\ ~sample[Unsettled] => BrokerClean
  /\ phase = "ok" => BrokerClean

\* A call that is in the middle of its evaluation changes nothing of another call
\* but may latch; only a call that runs takes a permit.
LEMMA OneCallSteps ==
  ASSUME TypeOK, NEW d \in Calls, CallStep(d)
  PROVE  /\ ~Resting(d) /\ unsettled' \in {unsettled, unsettled + 1}
         /\ \A c \in Calls \ {d} :
              pc'[c] = pc[c] /\ verdict'[c] = verdict[c] /\ (c \in holding' => c \in holding)
<1> USE DEF TypeOK, Resting, Final, Move, Return, TakePermit, GivePermit, gateVars, callVars
<1>1. CASE GiveUp(d) \/ AcquireGate(d) \/ Admit(d) \/ LoseAdmission(d) \/ StartEvaluation(d)
  BY <1>1 DEF GiveUp, AcquireGate, Admit, LoseAdmission, StartEvaluation
<1>2. CASE Submit(d)
  BY <1>2 DEF Submit, CheckSubmission, AnswerLocally, PostAccepted, PostRejected, PostFailed,
      PostAmbiguous
<1>3. CASE Reconcile(d)
  BY <1>3 DEF Reconcile, PollTerminal, PollOverload, StartCancel, CancelSettled,
      CancelUnconfirmed, CancelDeferred
<1>4. CASE FinishCall(d)
  BY <1>4 DEF FinishCall
<1> QED
  BY <1>1, <1>2, <1>3, <1>4 DEF CallStep

\* So a broker call that rests goes on resting, with the verdict it has, and is
\* given no permit.
LEMMA BrokerRests ==
  ASSUME TypeOK, [Next]_vars,
         NEW c \in Brokered, Resting(c), pc[c] = "idle" => pc'[c] = "idle"
  PROVE  /\ Resting(c)' /\ verdict'[c] = verdict[c]
         /\ (c \in holding' => c \in holding)
<1>0. c \in Calls
  BY DEF Brokered
<1> DEFINE Rests == pc'[c] = pc[c] /\ verdict'[c] = verdict[c] /\ (c \in holding' => c \in holding)
<1>1. ASSUME NEW d \in Calls, CallStep(d) PROVE Rests
  <2>1. c # d
    BY <1>1, OneCallSteps
  <2> QED
    BY <1>0, <1>1, <2>1, OneCallSteps
<1>2. ASSUME NEW d \in Calls, Arrive(d) PROVE Rests
  BY <1>0, <1>2 DEF Arrive, Move, TypeOK, callVars
<1>3. ASSUME NEW d \in Calls, Revoke(d) PROVE Rests
  BY <1>3 DEF Revoke, gateVars, callVars
<1>4. ASSUME NEW j \in Jobs, WatcherStep(j) \/ JudgeFinishes(j) PROVE Rests
  BY <1>4 DEF WatcherStep, WatcherSettles, WatcherTimesOut, TakeBatch, RunCallback, FindNoBatch,
      PopRecord, JudgeFinishes, GivePermit, gateVars, callVars
<1>5. ASSUME HorizonPasses PROVE Rests
  BY <1>5 DEF HorizonPasses, gateVars, callVars
<1>6. ASSUME UNCHANGED vars PROVE Rests
  BY <1>6 DEF vars
<1> HIDE DEF Rests
<1>7. Rests
  BY <1>1, <1>2, <1>3, <1>4, <1>5, <1>6 DEF Next
<1> QED
  BY <1>7 DEF Rests, Resting

\* A broker call that rests registers no callback, and only a watcher passes one on.
LEMMA RestsUnwatched ==
  ASSUME TypeOK, [Next]_vars, Unwatched, \A c \in Brokered : pc[c] # "cancelling"
  PROVE  Unwatched'
<1> USE DEF Unwatched, TypeOK, Brokered, watchVars
<1>1. ASSUME NEW d \in Calls, CancelDeferred(d) PROVE Unwatched'
  <2>1. d \in Direct
    BY <1>1 DEF CancelDeferred, Return, Move
  <2> QED
    BY <1>1, <2>1 DEF CancelDeferred
<1>2. ASSUME NEW d \in Calls, CallStep(d), ~CancelDeferred(d) PROVE Unwatched'
  BY <1>2 DEF CallStep, Submit, Reconcile, GiveUp, AcquireGate, Admit, LoseAdmission,
      StartEvaluation, CheckSubmission, AnswerLocally, PostAccepted, PostRejected, PostFailed,
      PostAmbiguous, PollTerminal, PollOverload, StartCancel, CancelSettled, CancelUnconfirmed,
      FinishCall
<1>3. ASSUME NEW d \in Calls, Arrive(d) \/ Revoke(d) PROVE Unwatched'
  BY <1>3 DEF Arrive, Revoke
<1>4. ASSUME NEW j \in Jobs, WatcherStep(j) \/ JudgeFinishes(j) PROVE Unwatched'
  BY <1>4 DEF WatcherStep, WatcherSettles, WatcherTimesOut, TakeBatch, RunCallback, FindNoBatch,
      PopRecord, JudgeFinishes
<1>5. CASE HorizonPasses \/ UNCHANGED vars
  BY <1>5 DEF HorizonPasses, vars
<1> QED
  BY <1>1, <1>2, <1>3, <1>4, <1>5 DEF Next

\* Without watchers nobody is owed a release.
LEMMA NobodyWatched == ASSUME IInv, PendingWatchers = {} PROVE Unwatched
BY DEF IInv, CoreInv, WatchInv, PendingWatchers, Unwatched

\* Without the latch and without callbacks the broker owns nothing but what came late.
LEMMA NothingKept ==
  ASSUME IInv, OweInv, ActiveHandlers = {}, ~Latched, Unwatched
  PROVE  BrokerClean
<1>1. TypeOK /\ PcInv /\ HoldInv
  BY DEF IInv, CoreInv
<1>2. \A c \in Brokered : verdict[c] # "unconfirmed"
  BY DEF OweInv, ToldInv, Brokered
<1>3. ASSUME NEW c \in holding \cap Brokered PROVE verdict[c] = "deferred" /\ Late(c)
  <2>1. c \in Calls /\ c \in holding /\ c \notin Direct
    BY <1>3 DEF Brokered
  <2>2. pc[c] = "kept"
    BY <1>1, <1>3, <2>1 DEF ActiveHandlers, Final, HoldInv
  <2>3. verdict[c] = "deferred"
    BY <2>1, <2>2 DEF OweInv, ToldInv
  <2>4. job[c] \in Jobs
    BY <1>1, <2>1, <2>3 DEF PcInv, TypeOK
  <2>5. c \notin callbacks[job[c]] /\ c \notin batch[job[c]]
    BY <2>1, <2>4 DEF Unwatched
  <2> QED
    BY <2>1, <2>3, <2>4, <2>5 DEF OweInv, Owed, Late
<1> QED
  BY <1>2, <1>3 DEF BrokerClean

\* Revoking the claims touches nothing else.
LEMMA RevokingIsSafe == RevokeClaims /\ IInv /\ OweInv => (IInv /\ OweInv)'
<1> SUFFICES ASSUME RevokeClaims, IInv, OweInv PROVE (IInv /\ OweInv)'
  OBVIOUS
<1>1. /\ UNCHANGED <<pc, fifo, permits, holding, expired, unsettled, before, resubmits, verdict,
                     job, remote, watcher, callbacks, batch>>
      /\ revoked' = revoked \cup Brokered
  BY DEF RevokeClaims, gateVars, callVars, watchVars
<1>2. TypeOK'
  BY <1>1 DEF IInv, CoreInv, TypeOK, Brokered
<1>3. (PcInv /\ HoldInv /\ WatchInv /\ JobsCovered /\ ReleasedAfterReceipt)'
  BY <1>1 DEF IInv, CoreInv, PcInv, HoldInv, WatchInv, JobsCovered, ReleasedAfterReceipt
<1>4. (StuckInv /\ PermitsAccounted /\ QueueExact)'
  BY <1>1 DEF IInv, CoreInv, StuckInv, Stuck, Latched, PermitsAccounted, QueueExact, Waits
<1>5. OweInv'
  BY <1>1 DEF OweInv, RecordInv, ToldInv, Owed, Latched, Emptied
<1> QED
  BY <1>2, <1>3, <1>4, <1>5 DEF IInv, CoreInv

\* What the reads have shown stays true while the calls and watchers go on.
LEMMA GateKeepsClose ==
  ASSUME IInv, OweInv, CloseInv, GateStep
  PROVE  CloseInv'
<1>1. TypeOK /\ Next /\ UNCHANGED closeVars
  BY DEF IInv, CoreInv, GateStep
<1>2. Away' = Away /\ UNCHANGED <<phase, serving, done, sample>>
  BY <1>1 DEF Away, closeVars
<1>3. ASSUME Away, ActiveHandlers = {}, NEW c \in Brokered
      PROVE  Resting(c)' /\ verdict'[c] = verdict[c] /\ (c \in holding' => c \in holding)
  <2>1. Resting(c) /\ (pc[c] = "idle" => pc'[c] = "idle")
    BY <1>3 DEF ActiveHandlers, Resting, GateStep, CloseInv
  <2> QED
    BY <1>1, <1>3, <2>1, BrokerRests
<1>4. Away /\ ActiveHandlers = {} => ActiveHandlers' = {}
  BY <1>3 DEF ActiveHandlers, Resting
<1>5. Away /\ ActiveHandlers = {} /\ BrokerClean => BrokerClean'
  <2> SUFFICES ASSUME Away, ActiveHandlers = {}, BrokerClean PROVE BrokerClean'
    OBVIOUS
  <2>1. \A c \in Brokered : verdict'[c] # "unconfirmed"
    BY <1>3 DEF BrokerClean
  <2>2. ASSUME NEW c \in holding' \cap Brokered PROVE verdict'[c] = "deferred" /\ Late(c)'
    <3>1. c \in holding \cap Brokered /\ c \in Calls
      BY <1>3, <2>2 DEF Brokered
    <3>2. verdict[c] = "deferred" /\ job[c] \in Emptied
      BY <3>1 DEF BrokerClean, Late
    <3>3. verdict'[c] = "deferred" /\ job'[c] = job[c]
      BY <1>1, <3>1, <3>2, DeferredRests DEF IInv, CoreInv
    <3> QED
      BY <1>1, <3>2, <3>3, EmptiedStays DEF IInv, CoreInv, Late
  <2> QED
    BY <2>1, <2>2 DEF BrokerClean
<1>6. Away /\ ActiveHandlers = {} /\ Unwatched => Unwatched'
  BY <1>1, RestsUnwatched DEF ActiveHandlers, Final
<1>7. phase \in {"final", "ok"} => Away
  BY DEF Away
<1> QED
  BY <1>2, <1>4, <1>5, <1>6, <1>7 DEF CloseInv

\* And each step of close() uses what it has read.
LEMMA CloseKeepsClose ==
  ASSUME IInv, OweInv, CloseInv, CloseStep
  PROVE  CloseInv'
<1> USE DEF Enter, Nothing, HandlerDomain, Unsettled, Depth
<1>1. CASE RevokeClaims
  BY <1>1 DEF RevokeClaims, CloseInv, Away
<1>2. CASE Shutdown
  <2>1. /\ phase' = "waiting" /\ serving' = FALSE /\ done' = 0
        /\ sample' = [i \in 1 .. 4 |-> FALSE]
    BY <1>2 DEF Shutdown
  <2>2. sample' \in [1 .. 4 -> BOOLEAN]
    BY <2>1
  <2>3. Away' /\ serving' \in BOOLEAN /\ ~serving'
    BY <2>1 DEF Away
  <2>4. phase' \notin {"final", "ok"} /\ ~(done' > 0) /\ done' \in 0 .. 4
    BY <2>1
  <2> QED
    BY <2>2, <2>3, <2>4 DEF CloseInv
<1>3. CASE ReadDomain
  <2>1. /\ UNCHANGED <<phase, serving, pc, holding, unsettled, verdict, job, callbacks, batch>>
        /\ done < 4
        /\ done' = done + 1 /\ phase \in {"waiting", "boundary", "final"}
        /\ sample' = [sample EXCEPT ![done + 1] = Busy[done + 1]]
    BY <1>3 DEF ReadDomain, vars
  <2>2. Away' = Away /\ ActiveHandlers' = ActiveHandlers /\ BrokerClean' = BrokerClean
        /\ Latched' = Latched /\ Away /\ Unwatched' = Unwatched
    BY <2>1 DEF Away, ActiveHandlers, BrokerClean, Latched, Late, Emptied, Unwatched
  <2>3. done' \in 0 .. 4 /\ done + 1 \in 1 .. 4
    BY <2>1 DEF CloseInv
  <2>4. Busy[1] = (ActiveHandlers # {}) /\ Busy[2] = Latched
    BY DEF Busy
  <2>5. Busy[done + 1] \in BOOLEAN
    <3>1. Latched \in BOOLEAN
      BY DEF Latched
    <3>2. /\ Busy[1] \in BOOLEAN /\ Busy[2] \in BOOLEAN
          /\ Busy[3] \in BOOLEAN /\ Busy[4] \in BOOLEAN
      BY <3>1 DEF Busy
    <3>3. done + 1 \in {1, 2, 3, 4}
      BY <2>3
    <3> QED
      BY <3>2, <3>3
  <2>6. sample' \in [1 .. 4 -> BOOLEAN]
    BY <2>1, <2>3, <2>5 DEF CloseInv
  <2>7. ~sample'[1] => ActiveHandlers = {}
    <3>1. CASE done = 0
      <4>1. sample'[1] = Busy[1]
        BY <2>1, <3>1 DEF CloseInv
      <4> QED
        BY <2>4, <4>1
    <3>2. CASE done # 0
      BY <2>1, <2>2, <3>2 DEF CloseInv
    <3> QED
      BY <3>1, <3>2
  <2>8. phase = "final" /\ done' > 1 /\ ~sample'[2] => BrokerClean
    <3>1. CASE done = 1
      <4>1. sample'[2] = Busy[2]
        BY <2>1, <3>1 DEF CloseInv
      <4> QED
        BY <2>4, <4>1, NothingKept DEF CloseInv
    <3>2. CASE done # 1
      BY <2>1, <3>2 DEF CloseInv
    <3> QED
      BY <3>1, <3>2
  <2> QED
    BY <2>3, <2>2, <2>1, <2>6, <2>7, <2>8 DEF CloseInv
<1>4. CASE JudgeWaiting \/ JudgeBoundary
  <2>1. /\ UNCHANGED <<serving, pc, callbacks, batch>> /\ done = 4 /\ done' = 0
        /\ sample' = Nothing /\ phase \in {"waiting", "boundary"}
        /\ phase' \in {"waiting", "boundary", "final", "failed"}
    BY <1>4 DEF JudgeWaiting, JudgeBoundary, vars
  <2>2. phase' = "final" => Quiet
    BY <1>4 DEF JudgeWaiting, JudgeBoundary
  <2>3. Quiet => ActiveHandlers = {} /\ PendingWatchers = {}
    BY <2>1 DEF Quiet, CloseInv, Away
  <2>4. Quiet => Unwatched
    BY <2>3, NobodyWatched
  <2>5. /\ ActiveHandlers' = ActiveHandlers /\ Unwatched' = Unwatched /\ Away /\ Away'
        /\ UNCHANGED serving
    BY <2>1 DEF ActiveHandlers, Unwatched, Away
  <2> QED
    BY <2>5, <2>4, <2>3, <2>2, <2>1 DEF CloseInv
<1>5. CASE JudgeFinal
  <2>1. /\ UNCHANGED <<serving, pc, holding, verdict, job, callbacks, batch>>
        /\ done = 4 /\ done' = 0 /\ sample' = Nothing /\ phase = "final"
        /\ phase' = IF sample = Nothing THEN "ok" ELSE "failed"
    BY <1>5 DEF JudgeFinal, vars
  <2>2. phase' = "ok" => BrokerClean
    BY <2>1 DEF CloseInv
  <2>3. /\ ActiveHandlers' = ActiveHandlers /\ Unwatched' = Unwatched /\ Away /\ Away'
        /\ BrokerClean' = BrokerClean /\ UNCHANGED serving
    BY <2>1 DEF ActiveHandlers, Unwatched, Away, BrokerClean, Late, Emptied
  <2> QED
    BY <2>1, <2>2, <2>3 DEF CloseInv
<1> QED
  BY <1>1, <1>2, <1>3, <1>4, <1>5 DEF CloseStep

\* A successful close is the truth, although its evidence was read in four steps
\* and the calls and watchers went on meanwhile: the broker has no request, no
\* unsettled answer, no job that may still run, nobody waiting for a watcher, and no permit
\* but of a call that came late to a shared job.
THEOREM CloseIsClean == CloseSpec => []CleanClose
<1> DEFINE All == IInv /\ OweInv /\ CloseInv
<1>1. CloseInit => All
  <2> SUFFICES ASSUME CloseInit PROVE All
    OBVIOUS
  <2>1. IInv /\ OweInv
    BY InitIInv, GateAssumption DEF CloseInit, Init, OweInv, RecordInv, ToldInv, Latched
  <2>2. CloseInv
    BY DEF CloseInit, CloseInv, Away, Nothing
  <2> QED
    BY <2>1, <2>2
<1>2. All /\ [CloseNext]_allVars => All'
  <2> SUFFICES ASSUME All, [CloseNext]_allVars PROVE All'
    OBVIOUS
  <2>1. CoreInv
    BY DEF IInv
  <2>2. CASE GateStep
    <3>1. [Next]_vars
      BY <2>2 DEF GateStep
    <3> QED
      BY <2>1, <2>2, <3>1, StepIInv, OweStep, GateKeepsClose DEF IInv, CoreInv
  <2>3. CASE CloseStep
    <3>1. RevokeClaims \/ UNCHANGED vars
      BY <2>3 DEF CloseStep, Shutdown, ReadDomain, JudgeWaiting, JudgeBoundary, JudgeFinal
    <3>2. CASE UNCHANGED vars
      <4>1. [Next]_vars
        BY <3>2
      <4> QED
        BY <2>1, <2>3, <4>1, StepIInv, OweStep, CloseKeepsClose DEF IInv, CoreInv
    <3> QED
      BY <2>3, <3>1, <3>2, RevokingIsSafe, CloseKeepsClose
  <2>4. CASE UNCHANGED allVars
    <3>1. UNCHANGED vars /\ UNCHANGED closeVars
      BY <2>4 DEF allVars
    <3>2. [Next]_vars
      BY <3>1
    <3>3. CloseInv'
      BY <3>1 DEF CloseInv, closeVars, vars, Away, ActiveHandlers, BrokerClean, Latched, Late,
          Emptied, Unwatched
    <3> QED
      BY <2>1, <3>2, <3>3, StepIInv, OweStep DEF IInv, CoreInv
  <2> QED
    BY <2>2, <2>3, <2>4 DEF CloseNext
<1>3. All => CleanClose
  <2> SUFFICES ASSUME All, phase = "ok" PROVE CleanClose
    BY DEF CleanClose
  <2>1. ActiveHandlers = {} /\ BrokerClean /\ Unwatched
    BY DEF CloseInv
  <2>2. fifo = <<>>
    <3>1. \A c \in Calls : ~Waits(c)
      BY <2>1 DEF ActiveHandlers, IInv, QueueExact, Final
    <3>2. \A i \in DOMAIN fifo : fifo[i] \in Calls
      BY DEF IInv, CoreInv, TypeOK
    <3>3. DOMAIN fifo = {}
      BY <3>1, <3>2 DEF Waits
    <3> QED
      BY <3>3 DEF IInv, CoreInv, TypeOK
  <2>3. ASSUME NEW c \in Calls, verdict[c] = "deferred", c \notin holding
        PROVE  remote[job[c]] = "settled"
    BY <2>3 DEF IInv, CoreInv, ReleasedAfterReceipt
  <2>4. ASSUME NEW c \in Calls, Late(c)
        PROVE  CameLate(c) /\ remote[job[c]] = "settled"
    <3>1. PICK d \in Calls \ holding : verdict[d] = "deferred" /\ job[d] = job[c]
      BY <2>4 DEF Late, Emptied
    <3>2. remote[job[d]] = "settled"
      BY <2>3, <3>1
    <3> QED
      BY <3>1, <3>2 DEF CameLate
  <2>5. ASSUME NEW c \in Brokered PROVE c \in holding => CameLate(c)
    BY <2>1, <2>4, <2>5 DEF BrokerClean, Brokered
  <2>6. ASSUME NEW c \in Brokered, job[c] # NoJob PROVE remote[job[c]] = "settled"
    <3>1. c \in Calls /\ pc[c] \in {"idle", "refused", "done", "kept"}
      BY <2>1, <2>6 DEF ActiveHandlers, Final, Brokered, IInv, CoreInv, TypeOK
    <3>2. verdict[c] \in {"settled", "cancelled", "failed", "deferred"}
      <4>1. verdict[c] # "unconfirmed"
        BY <2>1, <2>6 DEF BrokerClean
      <4>2. verdict[c] # "none"
        BY <2>6, <3>1 DEF IInv, CoreInv, PcInv, Submitting, OweInv, ToldInv
      <4> QED
        BY <3>1, <4>1, <4>2 DEF IInv, CoreInv, TypeOK
    <3>3. CASE verdict[c] # "deferred"
      BY <2>6, <3>1, <3>2, <3>3 DEF IInv, CoreInv, PcInv
    <3>4. CASE verdict[c] = "deferred"
      BY <2>1, <2>3, <2>4, <2>6, <3>1, <3>4 DEF BrokerClean
    <3> QED
      BY <3>3, <3>4
  <2> QED
    BY <2>1, <2>2, <2>5, <2>6 DEF CleanClose, BrokerClean, Unwatched, PendingWatchers
<1> HIDE DEF All
<1> QED
  BY <1>1, <1>2, <1>3, PTL DEF CloseSpec
================================================================================
