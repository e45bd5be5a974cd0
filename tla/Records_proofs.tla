---------------------------- MODULE Records_proofs -----------------------------
(***************************************************************************)
(* Proofs about the records a run leaves, for every size of the run: who   *)
(* may write a verdict, for which text, and what the stores, the closeout  *)
(* and the final trace agree on, although each is written in several steps *)
(* that others interleave with.                                            *)
(***************************************************************************)
EXTENDS VerdictAuthority, LeanReceipts, RunCloseout, CPSStore, TraceSelection, FormalTools,
        FiniteSetTheorems, SequenceTheorems, TLAPS

--------------------------------------------------------------------------------
\* VerdictAuthority: no interleaving of edits with the looks at the candidate file, and no
\* answer of the evaluator, makes a verdict stand for other bytes.

\* A verdict that names our task, a job and an outcome of the candidate.
Claims(v) == v.status \in CandidateAttempt /\ v.ours /\ v.job

\* What the evaluator answers is a verdict, and the Judge issued a receipt for its claim.
Backed(when) ==
  /\ reply \in Verdicts
  /\ Claims(reply) => Issued(reply.text, reply.status, {when})

\* While an attempt's verdict is checked it is backed by a receipt of an attempt; a bound
\* one makes a claim; the closeout's verdict is backed by a receipt of the closeout.
ReplyBacked ==
  /\ stage \in {"answered", "enforced", "bound"} => Backed("attempt")
  /\ stage = "bound" => Claims(reply) /\ reply.status \in Authoritative
  /\ stage = "sealed" => reply.status \in {"none", "MISSING_CANDIDATE"}
  /\ stage = "judged" =>
       \/ reply.status = "MISSING_CANDIDATE"
       \/ reply.status \in Statuses /\ Backed("closeout")

AuthorityInv == ReplyBacked /\ BestIsJudged /\ ScoreRestsOnReceipts

\* Receipts are never withdrawn.
LEMMA IssuedStays ==
  ASSUME receipts \subseteq receipts', NEW text, NEW status, NEW whens,
         Issued(text, status, whens)
  PROVE  Issued(text, status, whens)'
BY DEF Issued

\* One evaluation: its answer is a verdict with a status of the evaluator, and a claim in
\* it has a receipt of that moment.
LEMMA EvaluationBacked ==
  ASSUME NEW x, NEW when, Evaluates(x, when)
  PROVE  /\ Backed(when)' /\ reply'.status \in Statuses
         /\ receipts \subseteq receipts'
<1>1. PICK status \in Statuses, text \in Texts, ours, job, retryable \in BOOLEAN :
        LET v == [status |-> status, text |-> text, ours |-> ours, job |-> job,
                  retryable |-> retryable] IN
        /\ reply' = v
        /\ receipts' = receipts \cup
             IF status \in CandidateAttempt /\ job
             THEN {[text |-> text, ours |-> ours, status |-> status, when |-> when]} ELSE {}
  BY DEF Evaluates
<1> DEFINE r == [text |-> text, ours |-> ours, status |-> status, when |-> when]
<1>2. reply' \in Verdicts /\ reply'.status \in Statuses
  BY <1>1 DEF Verdicts
<1>3. Claims(reply') => Issued(reply.text, reply.status, {when})'
  <2> SUFFICES ASSUME Claims(reply') PROVE Issued(reply.text, reply.status, {when})'
    OBVIOUS
  <2>1. r \in receipts' /\ r.ours /\ r.text = reply'.text /\ r.status = reply'.status
        /\ r.when \in {when}
    BY <1>1 DEF Claims
  <2> QED
    BY <2>1 DEF Issued
<1> QED
  BY <1>1, <1>2, <1>3 DEF Backed, Claims

\* Enforcement keeps a claim as it is, or takes it away; what it leaves claims the text it
\* was compared with.
LEMMA EnforcedIsBound ==
  ASSUME NEW v \in Verdicts, NEW text
  PROVE  /\ Enforce(v, text) \in Verdicts
         /\ Enforce(v, text).text = v.text /\ Enforce(v, text).ours = v.ours
         /\ Enforce(v, text).job = v.job
         /\ Enforce(v, text).status \in CandidateAttempt =>
              /\ Enforce(v, text) = v /\ v.ours /\ v.job /\ v.text = text
BY DEF Enforce, IsBound, Verdicts, CandidateAttempt, Authoritative

\* As long as the best candidate and its verdict stay, so does what was issued for them.
LEMMA BestStays ==
  ASSUME BestIsJudged, best' = best, bestBy' = bestBy, receipts \subseteq receipts'
  PROVE  BestIsJudged'
BY DEF BestIsJudged, Issued

\* A run begins without a verdict.
LEMMA AuthorityInitInv == ASSUME AuthorityInit PROVE AuthorityInv
BY DEF AuthorityInit, AuthorityInv, ReplyBacked, BestIsJudged, ScoreRestsOnReceipts

\* The verdict of the closeout, scored.
LEMMA ScoreHasReceipt ==
  ASSUME AuthorityInv, ScoreTask
  PROVE  ScoreRestsOnReceipts'
<1> DEFINE v == Enforce(reply, sealed)
<1>1. CASE reply.status = "MISSING_CANDIDATE"
  <2>1. v = reply
    BY <1>1 DEF Enforce, CandidateAttempt, Authoritative
  <2>2. /\ settled'.score = 0
        /\ settled'.status \in {"MISSING_CANDIDATE", "AUTHORITY_CONFLICT"}
        /\ HasPriorProof => settled'.status = "AUTHORITY_CONFLICT"
    BY <1>1, <2>1 DEF ScoreTask, Decide, Scored, TerminalFailure, RetryableFailure
  <2>3. "closeout_incomplete" \in taint'
    BY <2>2 DEF ScoreTask, Incomplete
  <2> QED
    BY <2>2, <2>3 DEF ScoreRestsOnReceipts, HasPriorProof, ScoreTask
<1>2. CASE reply.status \in Statuses /\ Backed("closeout")
  <2>1. /\ v \in Verdicts /\ v.status \in Statuses \cup {"PROVENANCE_INVALID"}
        /\ v.status \in CandidateAttempt => Issued(sealed, v.status, {"closeout"})
    BY <1>2, EnforcedIsBound DEF Backed, Claims, Enforce, Verdicts
  <2>2. /\ settled'.score = 1 => settled'.status = "PROVED" /\ v.status = "PROVED"
        /\ settled'.status \in {v.status, "AUTHORITY_CONFLICT"}
        /\ HasPriorProof => settled'.status \in {"PROVED", "RESOURCE_LIMIT", "EVALUATOR_ERROR",
                                    "AUTHORITY_CONFLICT", "UNSETTLED"}
        /\ HasPriorProof /\ settled'.status = "UNSETTLED" => v.status = "UNSETTLED"
    BY <2>1 DEF ScoreTask, Decide, Scored, TerminalFailure, RetryableFailure, IsBound, Statuses,
                CandidateAttempt, Authoritative
  <2>3. v.status = "UNSETTLED" => stage' = "failed"
    BY <1>2 DEF ScoreTask, Enforce, CandidateAttempt, Authoritative, Backed, Verdicts
  <2>4. taint' = {} =>
          settled'.status \in CandidateAttempt \cup {"LOCAL_REJECTED"}
    BY <2>1, <2>2 DEF ScoreTask, Raises, Incomplete, Infrastructure, Statuses
  <2>5. receipts' = receipts /\ sealed' = sealed /\ proofs' = proofs
    BY DEF ScoreTask
  <2>6. \A status : Issued(sealed, status, {"closeout"})' <=> Issued(sealed, status, {"closeout"})
    BY <2>5 DEF Issued
  <2>7. stage' = "scored" /\ sealed' \in proofs' => settled'.status \in
           {"PROVED", "RESOURCE_LIMIT", "EVALUATOR_ERROR", "AUTHORITY_CONFLICT"}
    BY <2>2, <2>3, <2>5 DEF HasPriorProof
  <2>8. settled'.score = 1 => Issued(sealed, "PROVED", {"closeout"})
    BY <2>1, <2>2 DEF CandidateAttempt, Authoritative
  <2>9. taint' = {} => \/ settled'.status = "LOCAL_REJECTED"
                       \/ Issued(sealed, settled'.status, {"closeout"})
    BY <2>1, <2>2, <2>4 DEF CandidateAttempt, Authoritative
  <2> QED
    BY <2>6, <2>7, <2>8, <2>9 DEF ScoreRestsOnReceipts
<1> QED
  BY <1>1, <1>2 DEF AuthorityInv, ReplyBacked, ScoreTask

\* Every step keeps the invariant.
LEMMA AuthorityStep ==
  ASSUME AuthorityInv, [AuthorityNext]_authorityVars
  PROVE  AuthorityInv'
<1> USE DEF AuthorityInv
<1>1. ASSUME NEW x \in Texts, WriteCandidate(x) PROVE AuthorityInv'
  BY <1>1 DEF WriteCandidate, ReplyBacked, BestIsJudged, ScoreRestsOnReceipts, Backed, Claims,
              Issued
<1>2. ASSUME NEW x \in Texts, CreditSnapshot(x) PROVE AuthorityInv'
  <2>1. Backed("attempt")' /\ receipts \subseteq receipts'
    BY <1>2, EvaluationBacked DEF CreditSnapshot
  <2>2. BestIsJudged'
    <3>1. CASE best' = best /\ bestBy' = bestBy
      BY <3>1, <2>1, IssuedStays DEF BestIsJudged
    <3>2. CASE IsBound(reply', x) /\ best' = x /\ bestBy' = reply'
      BY <3>2, <2>1 DEF BestIsJudged, IsBound, Backed, Claims, Issued
    <3> QED
      BY <1>2, <3>1, <3>2 DEF CreditSnapshot
  <2>3. stage' = "working"
    BY <1>2 DEF CreditSnapshot
  <2> QED
    BY <2>2, <2>3 DEF ReplyBacked, ScoreRestsOnReceipts
<1>3. CASE EvaluateAttempt
  <2>1. Backed("attempt")' /\ receipts \subseteq receipts'
    BY <1>3, EvaluationBacked DEF EvaluateAttempt
  <2>2. BestIsJudged'
    BY <1>3, <2>1, BestStays DEF EvaluateAttempt
  <2>3. stage' = "answered"
    BY <1>3 DEF EvaluateAttempt
  <2> QED
    BY <2>1, <2>2, <2>3 DEF ReplyBacked, ScoreRestsOnReceipts
<1>4. CASE EnforceAttempt
  <2>1. receipts' = receipts /\ BestIsJudged'
    BY <1>4, BestStays DEF EnforceAttempt
  <2>2. CASE stage' = "failed"
    BY <2>1, <2>2 DEF ReplyBacked, ScoreRestsOnReceipts
  <2>3. CASE reply' = Enforce(reply, wrote) /\ stage' = "enforced"
    <3>1. reply \in Verdicts /\ (Claims(reply) => Issued(reply.text, reply.status, {"attempt"}))
      BY <1>4 DEF EnforceAttempt, ReplyBacked, Backed
    <3>2. reply' \in Verdicts /\ (Claims(reply') => reply' = reply)
      BY <2>3, <3>1, EnforcedIsBound DEF Claims
    <3>3. Backed("attempt")'
      BY <2>1, <3>1, <3>2 DEF Backed, Claims, Issued
    <3> QED
      BY <2>1, <2>3, <3>3 DEF ReplyBacked, ScoreRestsOnReceipts
  <2>4. CASE reply' = [reply EXCEPT !.status = "OUT_OF_HORIZON"] /\ stage' = "enforced"
    <3>1. reply' \in Verdicts /\ reply'.status = "OUT_OF_HORIZON"
      BY <1>4, <2>4 DEF EnforceAttempt, ReplyBacked, Backed, Verdicts
    <3>2. Backed("attempt")'
      BY <3>1 DEF Backed, Claims, CandidateAttempt, Authoritative
    <3> QED
      BY <2>1, <2>4, <3>2 DEF ReplyBacked, ScoreRestsOnReceipts
  <2> QED
    <3>1. Enforce([reply EXCEPT !.status = "OUT_OF_HORIZON"], wrote)
            = [reply EXCEPT !.status = "OUT_OF_HORIZON"]
      <4>1. reply \in Verdicts
        BY <1>4 DEF EnforceAttempt, ReplyBacked, Backed
      <4> QED
        BY <4>1 DEF Enforce, Verdicts, CandidateAttempt, Authoritative
    <3> QED
      BY <1>4, <2>2, <2>3, <2>4, <3>1 DEF EnforceAttempt, WithinHorizon
<1>5. CASE BindAttempt
  <2>1. BestIsJudged' /\ stage' \in {"bound", "working"}
    BY <1>5, BestStays DEF BindAttempt
  <2>2. stage' = "bound" => Backed("attempt")' /\ Claims(reply') /\ reply'.status \in Authoritative
    BY <1>5 DEF BindAttempt, ReplyBacked, Backed, Issued, Claims, IsBound
  <2> QED
    BY <2>1, <2>2 DEF ReplyBacked, ScoreRestsOnReceipts, Claims
<1>6. CASE Promote
  <2>1. stage' \in {"working", "failed"}
    BY <1>6 DEF Promote
  <2>2. BestIsJudged'
    <3>1. CASE wrote = reply.text
      BY <1>6, <3>1 DEF Promote, ReplyBacked, Backed, BestIsJudged, Issued
    <3>2. CASE wrote # reply.text
      BY <1>6, <3>2, BestStays DEF Promote
    <3> QED
      BY <3>1, <3>2
  <2> QED
    BY <2>1, <2>2 DEF ReplyBacked, ScoreRestsOnReceipts
<1>7. ASSUME NEW copied \in BOOLEAN, FreezeBest(copied) PROVE AuthorityInv'
  <2>1. BestIsJudged' /\ stage' = "sealed" /\ reply'.status \in {"none", "MISSING_CANDIDATE"}
    BY <1>7, BestStays DEF FreezeBest, NoVerdict
  <2> QED
    BY <2>1 DEF ReplyBacked, ScoreRestsOnReceipts
<1>8. CASE EvaluateSealed
  <2>1. CASE reply.status = "MISSING_CANDIDATE"
    BY <1>8, <2>1, BestStays DEF EvaluateSealed, ReplyBacked, ScoreRestsOnReceipts
  <2>2. CASE reply.status # "MISSING_CANDIDATE"
    <3>1. Evaluates(sealed, "closeout") /\ stage' = "judged" /\ best' = best /\ bestBy' = bestBy
      BY <1>8, <2>2 DEF EvaluateSealed
    <3>2. Backed("closeout")' /\ reply'.status \in Statuses /\ receipts \subseteq receipts'
      BY <3>1, EvaluationBacked
    <3> QED
      BY <3>1, <3>2, BestStays DEF ReplyBacked, ScoreRestsOnReceipts
  <2> QED
    BY <2>1, <2>2
<1>9. CASE ScoreTask
  <2>1. ScoreRestsOnReceipts'
    BY <1>9, ScoreHasReceipt
  <2>2. BestIsJudged' /\ stage' \in {"scored", "failed"}
    BY <1>9, BestStays DEF ScoreTask
  <2> QED
    BY <2>1, <2>2 DEF ReplyBacked
<1>10. CASE UNCHANGED authorityVars
  BY <1>10 DEF authorityVars, ReplyBacked, BestIsJudged, ScoreRestsOnReceipts, Backed, Claims,
               Issued
<1> QED
  BY <1>1, <1>2, <1>3, <1>4, <1>5, <1>6, <1>7, <1>8, <1>9, <1>10 DEF AuthorityNext

\* The invariant holds in every behaviour.
LEMMA AuthorityInvariant == AuthoritySpec => []AuthorityInv
<1>1. AuthorityInit => AuthorityInv
  BY AuthorityInitInv
<1>2. AuthorityInv /\ [AuthorityNext]_authorityVars => AuthorityInv'
  BY AuthorityStep
<1> QED
  BY <1>1, <1>2, PTL DEF AuthoritySpec

\* The best candidate of a task always holds the bytes that its verdict was issued for,
\* however often the solver rewrites its file between the three times the runner looks.
THEOREM BestCandidateJudged == AuthoritySpec => []BestIsJudged
<1>1. AuthorityInv => BestIsJudged
  BY DEF AuthorityInv
<1> QED
  BY <1>1, AuthorityInvariant, PTL

\* Every point of the final score, and every clean score, rests on a receipt that the
\* closeout itself obtained for the frozen bytes.
THEOREM ScoreReceipts == AuthoritySpec => []ScoreRestsOnReceipts
<1>1. AuthorityInv => ScoreRestsOnReceipts
  BY DEF AuthorityInv
<1> QED
  BY <1>1, AuthorityInvariant, PTL

--------------------------------------------------------------------------------
\* LeanReceipts: a verdict is what its own job came to.

Places == {"idle", "submit", "poll", "cancel", "settled", "abandoned", "stopped"}
Calls ==
  [kind : CallKinds \cup {"none"}, text : LeanTexts \cup {"none"}, at : Places,
   job : 0 .. JobLimit, since : 0 .. JobLimit, retries : Int, stopped : BOOLEAN,
   seen : Ends \cup {Running}]
Final == {"PROVED", "COMPILES_WITH_SORRY", "VERIFY_FAIL", "EXECUTION_TIMEOUT"}
StatusWords == Transient \cup Final \cup {"LOCAL_REJECTED", "none"}
Answers ==
  [status : StatusWords, kind : CallKinds \cup {"none"}, text : LeanTexts \cup {"none"},
   job : 0 .. JobLimit, since : 0 .. JobLimit]

ReceiptTypes ==
  /\ asks \in Calls /\ answered \in Answers /\ probeCache \in [LeanTexts -> Answers]
  /\ jobText \in [JobIds -> LeanTexts \cup {"none"}] /\ jobEnd \in [JobIds -> Ends \cup {Running}]

\* Jobs are admitted one after another: a later job has a greater number.
JobsDense == \E n \in 0 .. JobLimit : Admitted = 1 .. n

\* A call that has a job has its own job, admitted since the call began; what it goes by in
\* the end is how that job ended.
CallOK ==
  /\ asks.at \notin {"idle", "submit"} =>
       /\ asks.job \in Admitted /\ jobText[asks.job] = asks.text /\ asks.since < asks.job
  /\ asks.at # "idle" =>
       /\ asks.kind \in CallKinds /\ asks.text \in LeanTexts /\ 1 .. asks.since \subseteq Admitted
  /\ asks.at \in {"settled", "abandoned"} => asks.seen = jobEnd[asks.job] /\ asks.seen # Running

AnswerOK(v) ==
  v.status \in Final =>
    /\ v.job \in Admitted /\ jobText[v.job] = v.text /\ Worth(jobEnd[v.job]) = v.status
    /\ v.kind = "evaluate_fresh" => v.job > v.since

KeptOK(v) ==
  v = NoAnswer \/ /\ v.kind # "evaluate_fresh"
                  /\ v.status = "LOCAL_REJECTED" \/ (v.job \in Admitted /\ jobEnd[v.job] # Running)

ReceiptInv ==
  /\ ReceiptTypes /\ JobsDense /\ CallOK /\ AnswerOK(answered)
  /\ \A x \in LeanTexts : AnswerOK(probeCache[x]) /\ KeptOK(probeCache[x])

\* The outcome of a receipt is what the Judge means by it; a running job means nothing.
LEMMA OutcomeIsWorth ==
  /\ \A end \in Ends : JudgeOutcome(end) \in StatusWords \ {"none"}
                       /\ (JudgeOutcome(end) \in Final => Worth(end) = JudgeOutcome(end))
  /\ Worth(Running) \notin Final
<1>1. Worth(Running) \notin Final
  <2>1. Worth(Running) = "nothing"
    BY DEF Worth, Running
  <2> QED
    BY <2>1 DEF Final
<1>2. ASSUME NEW end \in Ends
      PROVE  /\ JudgeOutcome(end) \in StatusWords \ {"none"}
             /\ JudgeOutcome(end) \in Final => Worth(end) = JudgeOutcome(end)
  <2>1. CASE end = <<"SUCCEEDED", "PROVED">>
    <3>1. JudgeOutcome(end) = "PROVED" /\ Worth(end) = "PROVED"
      BY <2>1 DEF JudgeOutcome, IsProved, Worth
    <3> QED
      BY <3>1 DEF Final, StatusWords, Transient
  <2>2. CASE end = <<"SUCCEEDED", "WITH_SORRY">>
    <3>1. JudgeOutcome(end) = "COMPILES_WITH_SORRY" /\ Worth(end) = "COMPILES_WITH_SORRY"
      BY <2>2 DEF JudgeOutcome, IsProved, Worth
    <3> QED
      BY <3>1 DEF Final, StatusWords, Transient
  <2>3. CASE end = <<"FAILED", "VERIFY_FAIL">>
    <3>1. JudgeOutcome(end) = "VERIFY_FAIL" /\ Worth(end) = "VERIFY_FAIL"
      BY <2>3 DEF JudgeOutcome, IsProved, Worth
    <3> QED
      BY <3>1 DEF Final, StatusWords, Transient
  <2>4. CASE end = <<"TIMED_OUT", "NONE">>
    <3>1. JudgeOutcome(end) = "EXECUTION_TIMEOUT" /\ Worth(end) = "EXECUTION_TIMEOUT"
      BY <2>4 DEF JudgeOutcome, IsProved, Worth
    <3> QED
      BY <3>1 DEF Final, StatusWords, Transient
  <2>5. CASE end = <<"CANCELLED", "PROVED">>
    <3>1. JudgeOutcome(end) = "CANCELLED"
      BY <2>5 DEF JudgeOutcome, IsProved
    <3> QED
      BY <3>1 DEF Final, StatusWords, Transient
  <2>6. CASE end = <<"REJECTED_OVERLOADED", "NONE">>
    <3>1. JudgeOutcome(end) = "REJECTED_OVERLOADED"
      BY <2>6 DEF JudgeOutcome, IsProved
    <3> QED
      BY <3>1 DEF Final, StatusWords, Transient
  <2>7. CASE end \in {<<"SUCCEEDED", "NONE">>, <<"FAILED", "PROVED">>}
    <3>1. JudgeOutcome(end) = "EVALUATOR_ERROR"
      BY <2>7 DEF JudgeOutcome, IsProved
    <3> QED
      BY <3>1 DEF Final, StatusWords, Transient
  <2> QED
    BY <2>7, <2>6, <2>5, <2>4, <2>3, <2>2, <2>1 DEF Ends
<1> QED
  BY <1>1, <1>2

\* The Judge's side only grows: admitted jobs keep their texts, ended ones their ends.
JudgeGrows ==
  \A j \in Admitted :
    /\ j \in Admitted' /\ jobText'[j] = jobText[j]
    /\ jobEnd[j] # Running => jobEnd'[j] = jobEnd[j]

\* What a verdict says of a job stays true while the Judge only learns more.
LEMMA AnswersStay ==
  ASSUME ReceiptTypes, JudgeGrows, NEW v
  PROVE  (AnswerOK(v) => AnswerOK(v)') /\ (KeptOK(v) => KeptOK(v)')
BY OutcomeIsWorth DEF JudgeGrows, AnswerOK, KeptOK, Final

\* A new job is the next one: the Judge forgets none.
LEMMA AdmitGrows ==
  ASSUME ReceiptInv, NEW j \in JobIds, AdmitJob(j), asks.text \in LeanTexts
  PROVE  /\ JudgeGrows /\ JobsDense' /\ j \in Admitted' /\ jobText'[j] = asks.text
         /\ \A i \in Admitted : i < j
         /\ jobText' \in [JobIds -> LeanTexts \cup {"none"}] /\ jobEnd' = jobEnd
<1>1. PICK n \in 0 .. JobLimit : Admitted = 1 .. n
  BY DEF ReceiptInv, JobsDense
<1>2. Cardinality(Admitted) = n
  BY <1>1, FS_Interval, ReceiptAssumption
<1>3. j = n + 1 /\ jobText' = [jobText EXCEPT ![j] = asks.text] /\ jobEnd' = jobEnd
  BY <1>2 DEF AdmitJob
<1>4. Admitted' = 1 .. (n + 1) /\ n + 1 \in 0 .. JobLimit
  BY <1>1, <1>3, ReceiptAssumption DEF ReceiptInv, ReceiptTypes, Admitted, JobIds
<1>5. \A i \in Admitted : i < j /\ i \in Admitted' /\ jobText'[i] = jobText[i]
  BY <1>1, <1>3, <1>4, ReceiptAssumption DEF ReceiptInv, ReceiptTypes, Admitted, JobIds
<1> QED
  BY <1>3, <1>4, <1>5 DEF JudgeGrows, JobsDense, ReceiptInv, ReceiptTypes

\* Without a verdict there is nothing to show.
LEMMA NothingOK == AnswerOK(NoAnswer) /\ KeptOK(NoAnswer) /\ NoAnswer \in Answers
BY ReceiptAssumption DEF AnswerOK, KeptOK, NoAnswer, Final, Answers, StatusWords

\* The Judge keeps what it has: so does everything the evaluator has said.
LEMMA JudgeStands ==
  ASSUME ReceiptInv, UNCHANGED judgeSide
  PROVE  JudgeGrows /\ JobsDense' /\ Admitted' = Admitted
BY DEF judgeSide, JudgeGrows, ReceiptInv, JobsDense, Admitted

\* A move of the call alone.
LEMMA CallMoves ==
  ASSUME ReceiptInv, asks' \in Calls, CallOK', UNCHANGED <<judgeSide, answered, probeCache>>
  PROVE  ReceiptInv'
<1>1. JudgeGrows /\ JobsDense' /\ UNCHANGED <<jobText, jobEnd, answered, probeCache>>
  BY JudgeStands DEF judgeSide
<1>2. ReceiptTypes'
  BY <1>1 DEF ReceiptInv, ReceiptTypes
<1>3. \A v : (AnswerOK(v) => AnswerOK(v)') /\ (KeptOK(v) => KeptOK(v)')
  BY <1>1, AnswersStay DEF ReceiptInv
<1> QED
  BY <1>1, <1>2, <1>3 DEF ReceiptInv, AnswerOK, KeptOK

\* A call returns with a verdict that its job bears out.
LEMMA ReturnsOK ==
  ASSUME ReceiptInv, JudgeGrows, JobsDense', asks.at # "idle",
         jobText' \in [JobIds -> LeanTexts \cup {"none"}],
         jobEnd' \in [JobIds -> Ends \cup {Running}],
         NEW status \in StatusWords \ {"none"}, NEW j \in 0 .. JobLimit, Returns(status, j),
         status \in Final => /\ j \in Admitted' /\ jobText'[j] = asks.text
                             /\ Worth(jobEnd'[j]) = status /\ asks.since < j,
         status \notin Transient =>
           status = "LOCAL_REJECTED" \/ (j \in Admitted' /\ jobEnd'[j] # Running)
  PROVE  ReceiptInv'
<1> DEFINE v == [status |-> status, kind |-> asks.kind, text |-> asks.text, job |-> j,
                 since |-> asks.since]
<1>1. /\ answered' = v /\ asks' = IdleCall
      /\ probeCache' = IF asks.kind = "probe" /\ status \notin Transient
                       THEN [probeCache EXCEPT ![asks.text] = v] ELSE probeCache
  BY DEF Returns
<1>2. /\ v \in Answers /\ asks.text \in LeanTexts
      /\ v.status = status /\ v.job = j /\ v.text = asks.text /\ v.kind = asks.kind
      /\ v.since = asks.since
  BY DEF ReceiptInv, ReceiptTypes, CallOK, Calls, Answers
<1>3. IdleCall \in Calls /\ IdleCall.at = "idle"
  BY ReceiptAssumption DEF IdleCall, Calls, Places
<1>4. CallOK'
  BY <1>1, <1>3 DEF CallOK
<1>5. AnswerOK(answered)'
  BY <1>1, <1>2 DEF AnswerOK, ReceiptInv, ReceiptTypes, Calls
<1>6. ASSUME NEW x \in LeanTexts PROVE (AnswerOK(probeCache[x]) /\ KeptOK(probeCache[x]))'
  <2>1. CASE probeCache'[x] = probeCache[x]
    <3>1. \A w : (AnswerOK(w) => AnswerOK(w)') /\ (KeptOK(w) => KeptOK(w)')
      BY AnswersStay DEF ReceiptInv
    <3> QED
      BY <2>1, <3>1 DEF ReceiptInv, AnswerOK, KeptOK
  <2>2. CASE asks.kind = "probe" /\ status \notin Transient /\ probeCache'[x] = v
    BY <1>1, <1>2, <1>5, <2>2 DEF AnswerOK, KeptOK
  <2> QED
    BY <1>1, <2>1, <2>2 DEF ReceiptInv, ReceiptTypes
<1>7. ReceiptTypes'
  BY <1>1, <1>2, <1>3 DEF ReceiptInv, ReceiptTypes
<1> QED
  BY <1>4, <1>5, <1>6, <1>7 DEF ReceiptInv

\* Nothing submitted yet.
LEMMA ReceiptInitInv == ASSUME ReceiptInit PROVE ReceiptInv
<1>1. Admitted = {} /\ 1 .. 0 = {}
  BY DEF ReceiptInit, Admitted
<1>2. JobsDense
  BY <1>1, ReceiptAssumption DEF JobsDense
<1>3. ReceiptTypes /\ CallOK
  BY NothingOK, ReceiptAssumption DEF ReceiptInit, ReceiptTypes, CallOK, IdleCall, Calls, Places
<1> QED
  BY <1>2, <1>3, NothingOK DEF ReceiptInit, ReceiptInv

\* A call begins: from the cache, at the Judge, or not at all.
LEMMA BeginCallStep ==
  ASSUME ReceiptInv, NEW kind \in CallKinds, NEW x \in LeanTexts, BeginCall(kind, x)
  PROVE  ReceiptInv'
<1>1. PICK n \in 0 .. JobLimit : Admitted = 1 .. n /\ Cardinality(Admitted) = n
  BY FS_Interval, ReceiptAssumption DEF ReceiptInv, JobsDense
<1>2. /\ JudgeGrows /\ JobsDense' /\ Admitted' = Admitted
      /\ UNCHANGED <<jobText, jobEnd, probeCache>>
  BY JudgeStands DEF BeginCall, judgeSide
<1>3. \A v : (AnswerOK(v) => AnswerOK(v)') /\ (KeptOK(v) => KeptOK(v)')
  BY <1>2, AnswersStay DEF ReceiptInv
<1>4. \A y \in LeanTexts : (AnswerOK(probeCache[y]) /\ KeptOK(probeCache[y]))'
  BY <1>2, <1>3 DEF ReceiptInv, AnswerOK, KeptOK
<1>5. CASE asks' = asks
  <2>1. answered' \in Answers /\ AnswerOK(answered')
    <3>1. CASE unsettled
      <4>1. answered' = [NoAnswer EXCEPT !.status = "UNSETTLED", !.kind = kind, !.text = x]
        BY <3>1 DEF BeginCall
      <4>2. answered'.status = "UNSETTLED" /\ answered' \in Answers
        <5>1. "UNSETTLED" \in StatusWords
          BY DEF StatusWords, Transient
        <5> QED
          BY <4>1, <5>1, NothingOK DEF Answers
      <4> QED
        BY <4>2 DEF AnswerOK, Final
    <3>2. CASE ~unsettled
      <4> DEFINE v == probeCache[x]
      <4>1. /\ kind # "evaluate_fresh"
            /\ answered' = [v EXCEPT !.kind = kind, !.since = Cardinality(Admitted)]
        <5>1. \/ /\ Reusable(kind)
                 /\ answered' = [v EXCEPT !.kind = kind, !.since = Cardinality(Admitted)]
              \/ asks'.at = "submit" /\ asks.at = "idle"
          BY <3>2 DEF BeginCall, CachedVerdict, IdleCall
        <5> QED
          BY <1>5, <5>1 DEF Reusable
      <4>2. v \in Answers /\ AnswerOK(v)
        BY DEF ReceiptInv, ReceiptTypes
      <4>3. answered' \in Answers
        BY <1>1, <4>1, <4>2 DEF Answers
      <4>4. /\ answered'.status = v.status /\ answered'.job = v.job /\ answered'.text = v.text
            /\ answered'.kind = kind
        BY <4>1, <4>2 DEF Answers
      <4> QED
        BY <4>1, <4>2, <4>3, <4>4 DEF AnswerOK
    <3> QED
      BY <3>1, <3>2
  <2>2. CallOK'
    BY <1>2, <1>5 DEF ReceiptInv, CallOK
  <2> QED
    BY <1>2, <1>4, <1>5, <2>1, <2>2 DEF ReceiptInv, ReceiptTypes, AnswerOK
<1>6. CASE asks' # asks
  <2> DEFINE c == [IdleCall EXCEPT !.kind = kind, !.text = x, !.at = "submit",
                                   !.since = Cardinality(Admitted), !.retries = Resubmits]
  <2>1. asks' = c /\ answered' = answered
    BY <1>6 DEF BeginCall
  <2>2. /\ c \in Calls /\ c.at = "submit" /\ c.kind = kind /\ c.text = x
        /\ 1 .. c.since \subseteq Admitted
    <3>1. IdleCall \in Calls /\ Cardinality(Admitted) \in 0 .. JobLimit /\ Resubmits \in Int
      BY <1>1, ReceiptAssumption DEF IdleCall, Calls, Places
    <3>2. c \in Calls
      BY <3>1 DEF Calls, Places
    <3>3. /\ c.at = "submit" /\ c.kind = kind /\ c.text = x
          /\ c.since = Cardinality(Admitted)
      BY <3>1 DEF Calls
    <3> QED
      BY <1>1, <3>2, <3>3
  <2>3. CallOK'
    BY <1>2, <2>1, <2>2 DEF CallOK
  <2> QED
    BY <1>2, <2>1, <2>2, <2>3, CallMoves DEF judgeSide
<1> QED
  BY <1>5, <1>6

\* A submission is answered, or cannot be.
LEMMA PostStep ==
  ASSUME ReceiptInv,
         EndBeforePost \/ PostRejectedEarly \/ PostRefused \/ PostUnbound
           \/ \E j \in JobIds : PostBound(j)
  PROVE  ReceiptInv'
<1>1. asks.at = "submit" /\ asks.text \in LeanTexts /\ 0 \in 0 .. JobLimit
  <2>1. asks.at = "submit"
    BY DEF EndBeforePost, PostRejectedEarly, PostRefused, PostUnbound, PostBound
  <2> QED
    BY <2>1, ReceiptAssumption DEF ReceiptInv, CallOK
<1>2. ASSUME NEW j \in JobIds, AdmitJob(j)
      PROVE  /\ JudgeGrows /\ JobsDense' /\ j \in Admitted' /\ jobText'[j] = asks.text
             /\ \A i \in Admitted : i < j /\ i \in Admitted'
             /\ jobText' \in [JobIds -> LeanTexts \cup {"none"}] /\ jobEnd' = jobEnd
  BY <1>1, <1>2, AdmitGrows DEF JudgeGrows
<1>3. CASE EndBeforePost \/ PostRefused
  <2>1. PICK status \in {"LOCAL_REJECTED", "TASK_CANCELLED", "OUT_OF_HORIZON", "UNSETTLED",
                         "EVALUATOR_ERROR"} :
          Returns(status, 0) /\ UNCHANGED judgeSide
    BY <1>3 DEF EndBeforePost, PostRefused
  <2>2. status \in StatusWords \ {"none"} /\ status \notin Final
        /\ (status \notin Transient => status = "LOCAL_REJECTED")
    BY DEF StatusWords, Transient, Final
  <2> QED
    BY <1>1, <2>1, <2>2, JudgeStands, ReturnsOK DEF ReceiptInv, ReceiptTypes, judgeSide
<1>4. CASE PostRejectedEarly
  <2>1. CASE UNCHANGED <<asks, answered, probeCache>>
    <3>1. UNCHANGED judgeSide
      BY <1>4 DEF PostRejectedEarly
    <3>2. CallOK'
      BY <2>1, <3>1, JudgeStands DEF ReceiptInv, CallOK, judgeSide
    <3> QED
      BY <2>1, <3>1, <3>2, CallMoves DEF ReceiptInv, ReceiptTypes
  <2>2. ASSUME NEW status \in {"REJECTED_OVERLOADED", "OUT_OF_HORIZON", "TASK_CANCELLED"},
               Returns(status, 0)
        PROVE  ReceiptInv'
    <3>1. status \in StatusWords \ {"none"} /\ status \notin Final /\ status \in Transient
      BY DEF StatusWords, Transient, Final
    <3>2. UNCHANGED judgeSide
      BY <1>4 DEF PostRejectedEarly
    <3> QED
      BY <1>1, <2>2, <3>1, <3>2, JudgeStands, ReturnsOK DEF ReceiptInv, ReceiptTypes, judgeSide
  <2> QED
    BY <1>4, <2>1, <2>2 DEF PostRejectedEarly
<1>5. CASE PostUnbound
  <2>1. /\ JudgeGrows /\ JobsDense' /\ jobText' \in [JobIds -> LeanTexts \cup {"none"}]
        /\ jobEnd' = jobEnd
    <3>1. CASE UNCHANGED judgeSide
      BY <3>1, JudgeStands DEF ReceiptInv, ReceiptTypes, judgeSide
    <3>2. CASE \E j \in JobIds : AdmitJob(j)
      BY <1>2, <3>2
    <3> QED
      BY <1>5, <3>1, <3>2 DEF PostUnbound
  <2>2. "UNSETTLED" \in StatusWords \ {"none"} /\ "UNSETTLED" \notin Final
        /\ "UNSETTLED" \in Transient
    BY DEF StatusWords, Transient, Final
  <2> QED
    BY <1>1, <1>5, <2>1, <2>2, ReturnsOK DEF PostUnbound, ReceiptInv, ReceiptTypes
<1>6. ASSUME NEW j \in JobIds, PostBound(j) PROVE ReceiptInv'
  <2> DEFINE c == [asks EXCEPT !.at = "poll", !.job = j, !.seen = Running]
  <2>1. AdmitJob(j) /\ asks' = c /\ UNCHANGED <<answered, probeCache>>
    BY <1>6 DEF PostBound
  <2>2. /\ c \in Calls /\ c.at = "poll" /\ c.job = j /\ c.kind = asks.kind
        /\ c.text = asks.text /\ c.since = asks.since
    <3>1. asks \in Calls /\ j \in 0 .. JobLimit
      BY DEF ReceiptInv, ReceiptTypes, JobIds
    <3> QED
      BY <3>1 DEF Calls, Places
  <2>3. asks.since < j /\ asks.kind \in CallKinds /\ 1 .. asks.since \subseteq Admitted
    <3>1. asks.since \in Nat /\ 1 .. asks.since \subseteq Admitted /\ asks.kind \in CallKinds
      BY <1>1 DEF ReceiptInv, ReceiptTypes, Calls, CallOK
    <3>2. CASE asks.since = 0
      BY <3>1, <3>2 DEF JobIds
    <3>3. CASE asks.since # 0
      BY <1>2, <2>1, <3>1, <3>3
    <3> QED
      BY <3>1, <3>2, <3>3
  <2>4. CallOK'
    BY <1>1, <1>2, <2>1, <2>2, <2>3 DEF CallOK
  <2>5. \A v : (AnswerOK(v) => AnswerOK(v)') /\ (KeptOK(v) => KeptOK(v)')
    BY <1>2, <2>1, AnswersStay DEF ReceiptInv
  <2> QED
    BY <1>2, <2>1, <2>2, <2>4, <2>5 DEF ReceiptInv, ReceiptTypes, AnswerOK, KeptOK
<1> QED
  BY <1>3, <1>4, <1>5, <1>6

\* While the call has its job: polls, cancellation, another submission.
LEMMA PollStep ==
  ASSUME ReceiptInv,
         PollReceipt \/ CancelReceipt \/ Resubmit \/ \E cancelled \in BOOLEAN : AbandonJob(cancelled)
  PROVE  ReceiptInv'
<1>1. /\ asks \in Calls /\ UNCHANGED <<judgeSide, answered, probeCache>>
      /\ \A j \in Admitted : jobEnd[j] \in Ends \cup {Running} /\ j \in JobIds
  <2>1. UNCHANGED <<judgeSide, answered, probeCache>>
    BY DEF PollReceipt, CancelReceipt, Resubmit, AbandonJob, Sees
  <2> QED
    BY <2>1 DEF ReceiptInv, ReceiptTypes, Admitted
<1>2. jobText' = jobText /\ jobEnd' = jobEnd /\ Admitted' = Admitted
  BY <1>1, JudgeStands DEF judgeSide
<1>3. CASE PollReceipt
  <2>1. PICK body \in Ends \cup {Running}, at \in {"poll", "settled"} :
          /\ asks' = [asks EXCEPT !.seen = body, !.at = at]
          /\ at = "settled" => body = jobEnd[asks.job] /\ body # Running
    <3>0. PICK j \in Admitted :
            \E r \in Shows(j) :
              /\ r.id = 0 => j = asks.job
              /\ IF r.id \in {0, asks.job} THEN Sees(r.body, NextPlace(r.body))
                 ELSE Sees(Running, "poll")
      BY <1>3 DEF PollReceipt
    <3>1. PICK r \in Shows(j) :
            /\ r.id = 0 => j = asks.job
            /\ IF r.id \in {0, asks.job} THEN Sees(r.body, NextPlace(r.body))
               ELSE Sees(Running, "poll")
      BY <3>0
    <3>2. r.id \in {j, 0} /\ r.body \in {Running, jobEnd[j]}
      BY DEF Shows
    <3>3. CASE r.id \in {0, asks.job}
      <4>1. j = asks.job
        BY <1>1, <3>1, <3>2, <3>3 DEF JobIds
      <4>2. asks' = [asks EXCEPT !.seen = r.body, !.at = NextPlace(r.body)]
        BY <3>1, <3>3 DEF Sees
      <4> QED
        BY <1>1, <3>2, <4>1, <4>2 DEF NextPlace
    <3>4. CASE r.id \notin {0, asks.job}
      BY <3>1, <3>4 DEF Sees
    <3> QED
      BY <3>3, <3>4
  <2> DEFINE c == [asks EXCEPT !.seen = body, !.at = at]
  <2>2. /\ c \in Calls /\ c.at = at /\ c.seen = body /\ c.job = asks.job /\ c.text = asks.text
        /\ c.kind = asks.kind /\ c.since = asks.since
    BY <1>1 DEF Calls, Places
  <2>3. asks.at = "poll"
    BY <1>3 DEF PollReceipt
  <2>4. CallOK'
    BY <1>2, <2>1, <2>2, <2>3 DEF ReceiptInv, CallOK
  <2> QED
    BY <1>1, <2>1, <2>2, <2>4, CallMoves
<1>4. CASE CancelReceipt
  <2>0. PICK j \in Admitted :
          \E r \in Shows(j) :
            /\ r.id = asks.job /\ r.body # Running
            /\ asks' = [asks EXCEPT !.seen = r.body,
                                    !.at = IF asks.stopped THEN "stopped" ELSE "abandoned"]
    BY <1>4 DEF CancelReceipt
  <2>1. PICK r \in Shows(j) :
          /\ r.id = asks.job /\ r.body # Running
          /\ asks' = [asks EXCEPT !.seen = r.body,
                                  !.at = IF asks.stopped THEN "stopped" ELSE "abandoned"]
    BY <2>0
  <2> DEFINE at == IF asks.stopped THEN "stopped" ELSE "abandoned"
             c == [asks EXCEPT !.seen = r.body, !.at = at]
  <2>2. asks.at = "cancel" /\ asks.job \in Admitted
    BY <1>4 DEF CancelReceipt, ReceiptInv, CallOK
  <2>3. r.id \in {j, 0} /\ r.body \in {Running, jobEnd[j]}
    BY DEF Shows
  <2>4. j = asks.job /\ r.body = jobEnd[asks.job] /\ r.body \in Ends \cup {Running}
    BY <1>1, <2>1, <2>2, <2>3 DEF JobIds
  <2>5. /\ c \in Calls /\ c.at = at /\ c.seen = r.body /\ c.job = asks.job
        /\ c.text = asks.text /\ c.kind = asks.kind /\ c.since = asks.since
    BY <1>1, <2>4 DEF Calls, Places
  <2>6. CallOK'
    BY <1>2, <2>1, <2>2, <2>4, <2>5 DEF ReceiptInv, CallOK
  <2> QED
    BY <1>1, <2>1, <2>5, <2>6, CallMoves
<1>5. CASE Resubmit
  <2> DEFINE c == [asks EXCEPT !.at = "submit", !.job = 0, !.retries = @ - 1]
  <2>1. asks' = c /\ asks.at \in {"settled", "abandoned"}
    BY <1>5 DEF Resubmit
  <2>2. /\ c \in Calls /\ c.at = "submit"
        /\ c.text = asks.text /\ c.kind = asks.kind /\ c.since = asks.since
    <3>1. 0 \in 0 .. JobLimit /\ asks.retries - 1 \in Int
      BY <1>1, ReceiptAssumption DEF Calls
    <3> QED
      BY <1>1, <3>1 DEF Calls, Places
  <2>3. CallOK'
    BY <1>2, <2>1, <2>2 DEF ReceiptInv, CallOK
  <2> QED
    BY <1>1, <2>1, <2>2, <2>3, CallMoves
<1>6. ASSUME NEW cancelled \in BOOLEAN, AbandonJob(cancelled) PROVE ReceiptInv'
  <2> DEFINE c == [asks EXCEPT !.at = "cancel", !.stopped = cancelled]
  <2>1. asks' = c /\ asks.at = "poll"
    BY <1>6 DEF AbandonJob
  <2>2. /\ c \in Calls /\ c.at = "cancel" /\ c.job = asks.job
        /\ c.text = asks.text /\ c.kind = asks.kind /\ c.since = asks.since
    BY <1>1 DEF Calls, Places
  <2>3. CallOK'
    BY <1>2, <2>1, <2>2 DEF ReceiptInv, CallOK
  <2> QED
    BY <1>1, <2>1, <2>2, <2>3, CallMoves
<1> QED
  BY <1>3, <1>4, <1>5, <1>6

\* The call returns what its receipt says, or that it has none.
LEMMA ReturnStep ==
  ASSUME ReceiptInv, CancelWithout \/ ReturnReceipt \/ ReturnCancelled
  PROVE  ReceiptInv'
<1>1. /\ UNCHANGED judgeSide /\ asks.at \in {"cancel", "settled", "abandoned", "stopped"}
      /\ asks.job \in 0 .. JobLimit /\ asks.job \in Admitted
  BY DEF CancelWithout, ReturnReceipt, ReturnCancelled, ReceiptInv, ReceiptTypes, Calls, CallOK
<1>2. /\ JudgeGrows /\ JobsDense' /\ Admitted' = Admitted
      /\ jobText' = jobText /\ jobEnd' = jobEnd
      /\ jobText \in [JobIds -> LeanTexts \cup {"none"}] /\ jobEnd \in [JobIds -> Ends \cup {Running}]
  BY <1>1, JudgeStands DEF judgeSide, ReceiptInv, ReceiptTypes
<1>3. ASSUME NEW status \in Transient, Returns(status, asks.job) PROVE ReceiptInv'
  <2>1. status \in StatusWords \ {"none"} /\ status \notin Final
    BY DEF StatusWords, Transient, Final
  <2> QED
    BY <1>1, <1>2, <1>3, <2>1, ReturnsOK
<1>4. CASE CancelWithout \/ ReturnCancelled
  <2>1. \E status \in {"TASK_CANCELLED", "UNSETTLED"} : Returns(status, asks.job)
    BY <1>4 DEF CancelWithout, ReturnCancelled
  <2> QED
    BY <1>3, <2>1 DEF Transient
<1>5. CASE ReturnReceipt
  <2>1. /\ asks.seen = jobEnd[asks.job] /\ asks.seen # Running /\ asks.seen \in Ends
        /\ jobText[asks.job] = asks.text /\ asks.since < asks.job
    BY <1>1, <1>2, <1>5 DEF ReturnReceipt, ReceiptInv, CallOK, Admitted
  <2>2. CASE Returns(JudgeOutcome(asks.seen), asks.job)
    <3> DEFINE status == JudgeOutcome(asks.seen)
    <3>1. status \in StatusWords \ {"none"} /\ (status \in Final => Worth(jobEnd[asks.job]) = status)
      BY <2>1, OutcomeIsWorth
    <3>2. Returns(status, asks.job)
      BY <2>2
    <3> HIDE DEF status
    <3> QED
      BY <1>1, <1>2, <2>1, <3>1, <3>2, ReturnsOK
  <2>3. CASE \E status \in {"OUT_OF_HORIZON", "EVALUATOR_TIMEOUT", "EVALUATOR_ERROR"} :
               Returns(status, asks.job)
    BY <1>3, <2>3 DEF Transient
  <2> QED
    BY <1>5, <2>2, <2>3 DEF ReturnReceipt
<1> QED
  BY <1>4, <1>5

\* Every step keeps the invariant.
LEMMA ReceiptStep == ReceiptInv /\ [ReceiptNext]_receiptVars => ReceiptInv'
<1> SUFFICES ASSUME ReceiptInv, [ReceiptNext]_receiptVars PROVE ReceiptInv'
  OBVIOUS
<1>1. ASSUME NEW j \in JobIds, NEW end \in Ends, JobIsOver(j, end) PROVE ReceiptInv'
  <2>1. /\ jobEnd[j] = Running /\ jobEnd' = [jobEnd EXCEPT ![j] = end]
        /\ UNCHANGED <<jobText, asks, answered, probeCache>>
    BY <1>1 DEF JobIsOver, Live
  <2>2. Admitted' = Admitted /\ JudgeGrows /\ jobEnd' \in [JobIds -> Ends \cup {Running}]
    BY <2>1 DEF Admitted, JudgeGrows, ReceiptInv, ReceiptTypes
  <2>3. CallOK'
    BY <2>1, <2>2 DEF ReceiptInv, ReceiptTypes, CallOK, JudgeGrows
  <2>4. \A v : (AnswerOK(v) => AnswerOK(v)') /\ (KeptOK(v) => KeptOK(v)')
    BY <2>2, AnswersStay DEF ReceiptInv
  <2> QED
    BY <2>4, <2>3, <2>2, <2>1 DEF ReceiptInv, ReceiptTypes, JobsDense, AnswerOK, KeptOK
<1>2. CASE UNCHANGED receiptVars \/ \E j \in JobIds : WatcherEnds(j)
  <2>1. UNCHANGED <<judgeSide, asks, answered, probeCache>>
    BY <1>2 DEF receiptVars, WatcherEnds
  <2>2. CallOK'
    BY <2>1, JudgeStands DEF ReceiptInv, CallOK, judgeSide
  <2> QED
    BY <2>1, <2>2, CallMoves DEF ReceiptInv, ReceiptTypes
<1>3. ASSUME NEW kind \in CallKinds, NEW x \in LeanTexts, BeginCall(kind, x) PROVE ReceiptInv'
  BY <1>3, BeginCallStep
<1> QED
  BY <1>1, <1>2, <1>3, PostStep, PollStep, ReturnStep DEF ReceiptNext

\* The invariant of every run.
LEMMA ReceiptInvariant == ReceiptSpec => []ReceiptInv
<1>1. ReceiptInit => ReceiptInv
  BY ReceiptInitInv
<1> QED
  BY <1>1, ReceiptStep, PTL DEF ReceiptSpec

\* A verdict on a candidate is what the very job it names came to, a job for this text and,
\* for a fresh evaluation, one admitted after the call began; the cache holds nothing else.
THEOREM VerdictsAreReceipts == ReceiptSpec => []VerdictIsTheJobs
<1>1. ReceiptInv => VerdictIsTheJobs
  BY DEF ReceiptInv, VerdictIsTheJobs, AnswerOK, KeptOK, Final
<1> QED
  BY <1>1, ReceiptInvariant, PTL

--------------------------------------------------------------------------------
\* RunCloseout: a proof credited before its credit was read is what the closeout judges.

SolverStates == {"ready", "running", "exited", "collecting", "judging", "over"}

\* The part of the type invariant the proof rests on.
Typed ==
  /\ solver \in [RunTasks -> SolverStates] /\ prompt \subseteq RunTasks
  /\ DOMAIN file = RunTasks
  /\ asked \in [RunTasks -> Proofs \cup {"none"}]
  /\ credit \in [RunTasks -> Proofs \cup {"none"}]
  /\ authority \in [RunTasks -> Proofs \cup {"none"}]
  /\ taken \in [RunTasks -> Proofs \cup {"none"}] /\ uncopied \subseteq RunTasks
  /\ final \in [RunTasks -> {"none", "PROVED", "VERIFY_FAIL", "RESOURCE_LIMIT", "RETRYABLE",
                             "EVALUATOR_ERROR", "UNSETTLED", "AUTHORITY_CONFLICT",
                             "MISSING_CANDIDATE"}]
  /\ DOMAIN creditOf = RunTasks /\ DOMAIN episode = RunTasks /\ DOMAIN backup = RunTasks

Early == {"ready", "running", "exited"}

\* The tasks of a mono run share their solver until their candidates are collected.
SharedSolver ==
  mode = "mono" =>
    \A t, u \in RunTasks : solver[t] \in Early => solver[u] = solver[t]

\* A task credited in time keeps the credit of its episode, which is the one read for its
\* collection, and in the end has the credited source as its candidate.
PromptKept ==
  \A t \in prompt :
    /\ credit[t] \in Proofs /\ creditOf[t] = episode[t] /\ solver[t] # "ready"
    /\ run = "solving" /\ solver[t] = "judging" => taken[t] = credit[t]
    /\ solver[t] = "over" => file[t] = credit[t]

\* A task with a proved attempt is over, and its candidate is what was proved.
AuthorityKept ==
  \A t \in RunTasks : authority[t] # "none" => solver[t] = "over" /\ file[t] = authority[t]

\* What was frozen is the candidate of every solver's end, unless the copy failed.
FrozenCandidates ==
  run \notin {"solving", "error"} =>
    \A t \in RunTasks : solver[t] = "over" /\ (t \notin uncopied => frozen[t] = file[t])

\* No task with a proof has a failed proof as its verdict.
FailuresReal ==
  \A t \in RunTasks :
    final[t] = "VERIFY_FAIL" =>
      run \notin {"solving", "frozen"} /\ t \notin prompt /\ authority[t] = "none"

\* A completed run has a verdict of the Judge on every task.
CompletedJudged ==
  run = "completed" =>
    \A t \in RunTasks : final[t] \in {"PROVED", "VERIFY_FAIL", "RESOURCE_LIMIT"}

CloseoutInv ==
  /\ Typed /\ SharedSolver /\ PromptKept /\ AuthorityKept
  /\ FrozenCandidates /\ FailuresReal /\ CompletedJudged

\* A run that has just begun.
LEMMA CloseoutInitInv ==
  ASSUME CloseoutInit
  PROVE  CloseoutInv
BY CloseoutAssumption
DEF CloseoutInit, CloseoutInv, Typed, SharedSolver, PromptKept, AuthorityKept,
    FrozenCandidates, FailuresReal, CompletedJudged, SolverStates, Contents, Early

\* Whose solver moves with that of t.
LEMMA BundleIs ==
  ASSUME CloseoutInv, NEW t \in RunTasks, solver[t] \in Early
  PROVE  /\ t \in Bundle(t) /\ Bundle(t) \subseteq RunTasks
         /\ \A u \in Bundle(t) : solver[u] = solver[t]
BY DEF CloseoutInv, SharedSolver, Bundle

\* A solver that moves to another state than its last keeps the tasks of its bundle together.
LEMMA MovesTogether ==
  ASSUME CloseoutInv, NEW t \in RunTasks, NEW from \in Early, NEW to \in SolverStates,
         Moves(t, from, to), mode' = mode
  PROVE  /\ solver' \in [RunTasks -> SolverStates] /\ SharedSolver'
         /\ t \in Bundle(t) /\ run = "solving" /\ solver[t] = from
         /\ \A u \in RunTasks :
              /\ u \in Bundle(t) => solver[u] = from /\ solver'[u] = to
              /\ u \notin Bundle(t) => solver'[u] = solver[u]
<1>1. /\ run = "solving" /\ solver[t] = from
      /\ solver' = [u \in RunTasks |-> IF u \in Bundle(t) THEN to ELSE solver[u]]
  BY DEF Moves, Solving, Overlay
<1>2. solver' \in [RunTasks -> SolverStates]
  BY <1>1 DEF CloseoutInv, Typed
<1>3. SharedSolver'
  BY <1>1 DEF SharedSolver, Bundle
<1> QED
  BY <1>1, <1>2, <1>3, BundleIs

\* The solver starts.
LEMMA StartStep ==
  ASSUME CloseoutInv, NEW t \in RunTasks, StartSolver(t)
  PROVE  CloseoutInv'
<1>1. mode' = mode /\ Moves(t, "ready", "running")
  BY DEF StartSolver
<1>2. /\ solver' \in [RunTasks -> SolverStates] /\ SharedSolver' /\ run = "solving"
      /\ \A u \in RunTasks :
           /\ u \in Bundle(t) => solver[u] = "ready" /\ solver'[u] = "running"
           /\ u \notin Bundle(t) => solver'[u] = solver[u]
  BY <1>1, MovesTogether DEF Early, SolverStates
<1>3. /\ UNCHANGED <<mode, episode, file, asked, credit, creditOf, prompt, taken, authority,
                     frozen, uncopied, final>>
      /\ DOMAIN backup' = RunTasks /\ run' \in {"solving", "error"}
  BY <1>2 DEF StartSolver, Overlay, RunFails, creditVars, endVars
<1>4. Typed'
  BY <1>2, <1>3 DEF CloseoutInv, Typed
<1>5. PromptKept' /\ AuthorityKept'
  BY <1>2, <1>3 DEF CloseoutInv, Typed, PromptKept, AuthorityKept
<1>6. FrozenCandidates' /\ FailuresReal' /\ CompletedJudged'
  BY <1>2, <1>3 DEF CloseoutInv, FrozenCandidates, FailuresReal, CompletedJudged
<1> QED
  BY <1>2, <1>4, <1>5, <1>6 DEF CloseoutInv

\* The solver rewrites a candidate, or has it judged.
LEMMA EditStep ==
  ASSUME CloseoutInv, NEW t \in RunTasks,
         AskJudge(t) \/ \E c \in Contents : EditCandidate(t, c)
  PROVE  CloseoutInv'
<1>1. /\ run = "solving" /\ solver[t] = "running"
      /\ UNCHANGED <<mode, run, solver, episode, backup, credit, creditOf, prompt, taken,
                     authority, frozen, uncopied, final>>
  BY DEF AskJudge, EditCandidate, Solving, solverVars, fileVars, creditVars, endVars
<1>2. /\ DOMAIN file' = RunTasks /\ asked' \in [RunTasks -> Proofs \cup {"none"}]
      /\ \A u \in RunTasks : u # t => file'[u] = file[u]
  BY DEF AskJudge, EditCandidate, creditVars, fileVars, CloseoutInv, Typed
<1>3. Typed' /\ SharedSolver'
  BY <1>1, <1>2 DEF CloseoutInv, Typed, SharedSolver
<1>4. PromptKept' /\ AuthorityKept'
  BY <1>1, <1>2 DEF CloseoutInv, Typed, PromptKept, AuthorityKept
<1>5. FrozenCandidates' /\ FailuresReal' /\ CompletedJudged'
  BY <1>1 DEF CloseoutInv, FrozenCandidates, FailuresReal, CompletedJudged
<1> QED
  BY <1>3, <1>4, <1>5 DEF CloseoutInv

\* An answer arrives: a first proof is credited, to the episode of the moment.
LEMMA AnswerStep ==
  ASSUME CloseoutInv, NEW t \in RunTasks, CheckAnswered(t)
  PROVE  CloseoutInv'
<1>1. /\ UNCHANGED <<mode, run, solver, episode, file, backup, taken, authority, frozen,
                     uncopied, final>>
      /\ run \in {"solving", "frozen"} /\ asked[t] \in Proofs /\ asked' = [asked EXCEPT ![t] = "none"]
  BY DEF CheckAnswered, solverVars, fileVars, endVars, CloseoutInv, Typed
<1>2. CASE UNCHANGED <<credit, creditOf, prompt>>
  BY <1>1, <1>2 DEF CloseoutInv, Typed, SharedSolver, PromptKept, AuthorityKept,
                    FrozenCandidates, FailuresReal, CompletedJudged
<1>3. CASE AdmitProof(t)
  <2>1. /\ credit' = [credit EXCEPT ![t] = asked[t]]
        /\ creditOf' = [creditOf EXCEPT ![t] = episode[t]]
        /\ credit[t] = "none" /\ t \notin prompt
    BY <1>3, CloseoutAssumption DEF AdmitProof, CloseoutInv, PromptKept
  <2>2. /\ prompt' \subseteq prompt \cup {t}
        /\ t \in prompt' => solver[t] \in {"running", "exited", "collecting"}
    BY <1>3, <2>1 DEF AdmitProof
  <2>3. Typed'
    BY <1>1, <2>1, <2>2 DEF CloseoutInv, Typed
  <2>4. PromptKept'
    <3>1. ASSUME NEW u \in prompt'
          PROVE  /\ credit'[u] \in Proofs /\ creditOf'[u] = episode'[u]
                 /\ solver'[u] # "ready"
                 /\ run' = "solving" /\ solver'[u] = "judging" => taken'[u] = credit'[u]
                 /\ solver'[u] = "over" => file'[u] = credit'[u]
      <4>1. CASE u = t
        BY <1>1, <2>1, <2>2, <4>1 DEF CloseoutInv, Typed
      <4>2. CASE u # t
        BY <1>1, <2>1, <2>2, <4>2 DEF CloseoutInv, Typed, PromptKept
      <4> QED
        BY <4>1, <4>2
    <3> QED
      BY <3>1 DEF PromptKept
  <2>5. SharedSolver' /\ AuthorityKept' /\ FrozenCandidates' /\ FailuresReal' /\ CompletedJudged'
    BY <1>1 DEF CloseoutInv, SharedSolver, AuthorityKept, FrozenCandidates, FailuresReal,
                CompletedJudged
  <2> QED
    BY <2>3, <2>4, <2>5 DEF CloseoutInv
<1> QED
  BY <1>2, <1>3 DEF CheckAnswered

\* The solver ends, and is refilled on restored files.
LEMMA RefillStep ==
  ASSUME CloseoutInv, NEW t \in RunTasks,
         RefillSolver(t) \/ \E ok \in BOOLEAN : SolverExits(t, ok)
  PROVE  CloseoutInv'
<1> DEFINE from == IF RefillSolver(t) THEN "exited" ELSE "running"
           to == IF RefillSolver(t) THEN "running" ELSE "exited"
<1>1. mode' = mode /\ Moves(t, from, to)
  BY DEF RefillSolver, SolverExits
<1>2. from \in {"running", "exited"} /\ to \in {"running", "exited"}
  OBVIOUS
<1> HIDE DEF from, to
<1>3. /\ solver' \in [RunTasks -> SolverStates] /\ SharedSolver' /\ run = "solving"
      /\ \A u \in RunTasks :
           /\ u \in Bundle(t) => solver[u] = from /\ solver'[u] = to
           /\ u \notin Bundle(t) => solver'[u] = solver[u]
  BY <1>1, <1>2, MovesTogether DEF Early, SolverStates
<1>4. /\ UNCHANGED <<mode, run, episode, asked, credit, creditOf, prompt, taken, authority,
                     backup, frozen, uncopied, final>>
      /\ DOMAIN file' = RunTasks
      /\ \A u \in RunTasks : u \notin Bundle(t) => file'[u] = file[u]
  BY DEF RefillSolver, SolverExits, Overlay, creditVars, endVars, fileVars, CloseoutInv, Typed
<1>5. Typed'
  BY <1>3, <1>4 DEF CloseoutInv, Typed
<1>6. PromptKept' /\ AuthorityKept'
  BY <1>2, <1>3, <1>4 DEF CloseoutInv, Typed, PromptKept, AuthorityKept
<1>7. FrozenCandidates' /\ FailuresReal' /\ CompletedJudged'
  BY <1>3, <1>4 DEF CloseoutInv, FrozenCandidates, FailuresReal, CompletedJudged
<1> QED
  BY <1>3, <1>5, <1>6, <1>7 DEF CloseoutInv

\* The solver is given up, or its candidates are judged: a credit of the episode makes sure
\* of the latter.
LEMMA AfterStep ==
  ASSUME CloseoutInv, NEW t \in RunTasks, AfterSolver(t)
  PROVE  CloseoutInv'
<1> DEFINE to == IF IsJudged(t) THEN "collecting" ELSE "over"
<1>1. mode' = mode /\ Moves(t, "exited", to)
  BY DEF AfterSolver
<1>2. to \in {"collecting", "over"}
      /\ (to = "over" => \A u \in Bundle(t) : ~Credited(u))
  BY DEF IsJudged
<1> HIDE DEF to
<1>3. /\ solver' \in [RunTasks -> SolverStates] /\ SharedSolver' /\ run = "solving"
      /\ \A u \in RunTasks :
           /\ u \in Bundle(t) => solver[u] = "exited" /\ solver'[u] = to
           /\ u \notin Bundle(t) => solver'[u] = solver[u]
  BY <1>1, <1>2, MovesTogether DEF Early, SolverStates
<1>4. /\ UNCHANGED <<mode, episode, file, asked, credit, creditOf, prompt, taken, authority,
                     backup, frozen, uncopied, final>>
      /\ run' \in {"solving", "error"}
  BY <1>3 DEF AfterSolver, RunFails, creditVars, endVars, fileVars
<1>5. \A u \in prompt : Credited(u)
  BY CloseoutAssumption DEF CloseoutInv, PromptKept, Credited
<1>6. Typed'
  BY <1>3, <1>4 DEF CloseoutInv, Typed
<1>7. PromptKept' /\ AuthorityKept'
  BY <1>2, <1>3, <1>4, <1>5 DEF CloseoutInv, Typed, PromptKept, AuthorityKept
<1>8. FrozenCandidates' /\ FailuresReal' /\ CompletedJudged'
  BY <1>3, <1>4 DEF CloseoutInv, FrozenCandidates, FailuresReal, CompletedJudged
<1> QED
  BY <1>3, <1>6, <1>7, <1>8 DEF CloseoutInv

\* The credit is read for the collection.
LEMMA TakeStep ==
  ASSUME CloseoutInv, NEW t \in RunTasks, TakeCredit(t)
  PROVE  CloseoutInv'
<1>1. /\ run = "solving" /\ solver[t] = "collecting"
      /\ solver' = [solver EXCEPT ![t] = "judging"]
      /\ taken' = [taken EXCEPT ![t] = IF Credited(t) THEN credit[t] ELSE "none"]
      /\ UNCHANGED <<mode, run, episode, file, backup, asked, credit, creditOf, prompt,
                     authority, frozen, uncopied, final>>
  BY DEF TakeCredit, Solving, creditVars, fileVars, endVars
<1>2. t \in prompt => Credited(t)
  BY CloseoutAssumption DEF CloseoutInv, PromptKept, Credited
<1>3. Typed' /\ SharedSolver'
  BY <1>1 DEF CloseoutInv, Typed, SharedSolver, SolverStates, Early
<1>4. PromptKept' /\ AuthorityKept'
  BY <1>1, <1>2 DEF CloseoutInv, Typed, PromptKept, AuthorityKept
<1>5. FrozenCandidates' /\ FailuresReal' /\ CompletedJudged'
  BY <1>1 DEF CloseoutInv, FrozenCandidates, FailuresReal, CompletedJudged
<1> QED
  BY <1>5, <1>4, <1>3 DEF CloseoutInv

\* A candidate is collected: the credited source, or what the judge says of the file.
LEMMA CollectStep ==
  ASSUME CloseoutInv, NEW t \in RunTasks, CollectTask(t)
  PROVE  CloseoutInv'
<1>1. /\ run = "solving" /\ solver[t] = "judging" /\ taken' = [taken EXCEPT ![t] = "none"]
      /\ UNCHANGED <<mode, asked, credit, creditOf, prompt, frozen, uncopied, final>>
  BY DEF CollectTask, Solving, creditVars, endVars
<1>2. t \in prompt => taken[t] = credit[t] /\ credit[t] \in Proofs /\ taken[t] # "none"
  BY <1>1, CloseoutAssumption DEF CloseoutInv, PromptKept
<1>3. CASE /\ Collected(t) \in Proofs /\ solver' = [solver EXCEPT ![t] = "over"]
           /\ file' = [file EXCEPT ![t] = Collected(t)]
           /\ authority' = [authority EXCEPT ![t] = Collected(t)]
           /\ backup' = [backup EXCEPT ![t] = Collected(t)]
           /\ UNCHANGED <<run, episode>>
  <2>1. Typed' /\ SharedSolver'
    BY <1>1, <1>3 DEF CloseoutInv, Typed, SharedSolver, SolverStates, Early
  <2>2. PromptKept'
    BY <1>1, <1>2, <1>3 DEF CloseoutInv, Typed, PromptKept, Collected
  <2>3. AuthorityKept'
    BY <1>1, <1>3 DEF CloseoutInv, Typed, AuthorityKept
  <2>4. FrozenCandidates' /\ FailuresReal' /\ CompletedJudged'
    BY <1>1, <1>3 DEF CloseoutInv, FrozenCandidates, FailuresReal, CompletedJudged
  <2> QED
    BY <2>4, <2>3, <2>2, <2>1 DEF CloseoutInv
<1>4. ASSUME NEW s \in {"ready", "over"}, mode = "mono" => s = "over", taken[t] = "none",
             solver' = [solver EXCEPT ![t] = s], UNCHANGED <<run, file, authority>>,
             \A u \in RunTasks : u # t => episode'[u] = episode[u],
             DOMAIN episode' = RunTasks, DOMAIN backup' = RunTasks
      PROVE  CloseoutInv'
  <2>1. Typed' /\ SharedSolver'
    BY <1>1, <1>4 DEF CloseoutInv, Typed, SharedSolver, SolverStates, Early
  <2>2. PromptKept' /\ AuthorityKept'
    BY <1>1, <1>2, <1>4 DEF CloseoutInv, Typed, PromptKept, AuthorityKept
  <2>3. FrozenCandidates' /\ FailuresReal' /\ CompletedJudged'
    BY <1>1, <1>4 DEF CloseoutInv, FrozenCandidates, FailuresReal, CompletedJudged
  <2> QED
    BY <2>1, <2>2, <2>3 DEF CloseoutInv
<1>5. CASE RunFails /\ UNCHANGED <<solver, episode, fileVars, authority>>
  <2>1. run' = "error" /\ UNCHANGED <<solver, episode, file, backup, authority>>
    BY <1>5 DEF RunFails, fileVars
  <2>2. Typed' /\ SharedSolver'
    BY <1>1, <2>1 DEF CloseoutInv, Typed, SharedSolver
  <2>3. PromptKept' /\ AuthorityKept'
    BY <1>1, <2>1 DEF CloseoutInv, PromptKept, AuthorityKept
  <2>4. FrozenCandidates' /\ FailuresReal' /\ CompletedJudged'
    BY <1>1, <2>1 DEF CloseoutInv, FrozenCandidates, FailuresReal, CompletedJudged
  <2> QED
    BY <2>4, <2>3, <2>2 DEF CloseoutInv
<1> DEFINE more == mode = "parallel" /\ episode[t] < EpisodeLimit
<1>6. CASE /\ taken[t] = "none" /\ UNCHANGED <<run, file, authority>>
           /\ solver' = [solver EXCEPT ![t] = IF more THEN "ready" ELSE "over"]
           /\ episode' = [episode EXCEPT ![t] = IF more THEN @ + 1 ELSE @]
           /\ backup' = [backup EXCEPT ![t] = file[t]]
  <2>1. mode = "mono" => ~more
    OBVIOUS
  <2>2. /\ \A u \in RunTasks : u # t => episode'[u] = episode[u]
        /\ DOMAIN episode' = RunTasks /\ DOMAIN backup' = RunTasks
    BY <1>6 DEF CloseoutInv, Typed
  <2> QED
    BY <1>4, <1>6, <2>1, <2>2
<1> QED
  BY <1>3, <1>5, <1>6 DEF CollectTask

\* The end of the run: candidates are frozen, the broker closes, the frozen bytes are judged.
LEMMA EndStep ==
  ASSUME CloseoutInv, Freeze \/ CloseBroker \/ ArtifactFails \/ FinishRun
  PROVE  CloseoutInv'
<1>1. UNCHANGED <<mode, solver, episode, file, backup, asked, credit, creditOf, prompt, taken,
                  authority, final>>
  BY DEF Freeze, CloseBroker, ArtifactFails, FinishRun, solverVars, fileVars, creditVars,
         endVars
<1>2. uncopied' \subseteq RunTasks
  BY DEF Freeze, CloseBroker, ArtifactFails, FinishRun, endVars, CloseoutInv, Typed
<1>3. Typed' /\ SharedSolver'
  BY <1>1, <1>2 DEF CloseoutInv, Typed, SharedSolver
<1>4. PromptKept' /\ AuthorityKept'
  <2>1. run' = "solving" => run = "solving"
    BY DEF Freeze, CloseBroker, ArtifactFails, FinishRun, RunFails
  <2> QED
    BY <1>1, <2>1 DEF CloseoutInv, PromptKept, AuthorityKept
<1>5. FrozenCandidates'
  <2>1. CASE Freeze
    <3>1. PICK unread \in SUBSET uncopied' :
            frozen' = [t \in RunTasks |-> IF t \in unread THEN "none" ELSE file[t]]
      BY <2>1 DEF Freeze
    <3>2. \A t \in RunTasks : solver[t] = "over"
      BY <2>1 DEF Freeze
    <3>3. \A t \in RunTasks : t \notin uncopied' => frozen'[t] = file'[t]
      BY <1>1, <3>1
    <3> QED
      BY <1>1, <3>2, <3>3 DEF FrozenCandidates
  <2>2. CASE CloseBroker \/ ArtifactFails \/ FinishRun
    <3>1. UNCHANGED <<frozen, uncopied>> /\ run \notin {"solving", "error"}
      BY <2>2 DEF CloseBroker, ArtifactFails, FinishRun, endVars
    <3> QED
      BY <1>1, <3>1 DEF CloseoutInv, FrozenCandidates
  <2> QED
    BY <2>1, <2>2
<1>6. FailuresReal'
  BY <1>1 DEF CloseoutInv, FailuresReal, Freeze, CloseBroker, ArtifactFails, FinishRun,
              RunFails, Solving
<1>7. CompletedJudged'
  <2>1. CASE FinishRun /\ run' = "completed"
    <3>1. \A t \in RunTasks : final[t] \notin {"none", "UNSETTLED"}
      BY <2>1 DEF FinishRun, RunFails
    <3>2. ~CloseoutIncomplete
      BY <2>1 DEF FinishRun, RunFails
    <3> QED
      BY <1>1, <3>1, <3>2 DEF CloseoutInv, Typed, CompletedJudged, CloseoutIncomplete
  <2>2. CASE run' # "completed"
    BY <2>2 DEF CompletedJudged
  <2> QED
    BY <2>1, <2>2 DEF Freeze, CloseBroker, ArtifactFails, FinishRun, RunFails
<1> QED
  BY <1>7, <1>6, <1>5, <1>4, <1>3 DEF CloseoutInv

\* A frozen text is judged afresh: that of a task with a proof is the proof.
LEMMA EvaluateStep ==
  ASSUME CloseoutInv, NEW t \in RunTasks, EvaluateFrozen(t)
  PROVE  CloseoutInv'
<1>1. /\ UNCHANGED <<mode, run, solver, episode, file, backup, asked, credit, creditOf, prompt,
                     taken, authority, frozen, uncopied>>
      /\ run = "closeout"
  BY DEF EvaluateFrozen, solverVars, fileVars, creditVars
<1>2. PICK observed \in Observed(t) : final' = [final EXCEPT ![t] = Decision(t, observed)]
  BY DEF EvaluateFrozen
<1>3. /\ Decision(t, observed) = observed \/ Decision(t, observed) = "AUTHORITY_CONFLICT"
      /\ observed \in {"PROVED", "VERIFY_FAIL", "RESOURCE_LIMIT", "RETRYABLE",
                       "EVALUATOR_ERROR", "UNSETTLED", "MISSING_CANDIDATE"}
  BY <1>2 DEF Decision, Observed
<1>4. observed = "VERIFY_FAIL" => t \notin prompt /\ authority[t] = "none"
  <2>1. SUFFICES ASSUME observed = "VERIFY_FAIL", t \in prompt \/ authority[t] # "none"
                 PROVE  FALSE
    OBVIOUS
  <2>2. t \notin uncopied /\ frozen[t] \notin Proofs
    BY <1>2, <2>1 DEF Observed
  <2>3. solver[t] = "over" /\ frozen[t] = file[t]
    BY <1>1, <2>2 DEF CloseoutInv, FrozenCandidates
  <2>4. file[t] \in Proofs
    BY <2>1, <2>3 DEF CloseoutInv, Typed, PromptKept, AuthorityKept
  <2> QED
    BY <2>2, <2>3, <2>4
<1>5. Typed' /\ SharedSolver'
  BY <1>1, <1>2, <1>3 DEF CloseoutInv, Typed, SharedSolver
<1>6. PromptKept' /\ AuthorityKept' /\ FrozenCandidates' /\ CompletedJudged'
  BY <1>1 DEF CloseoutInv, PromptKept, AuthorityKept, FrozenCandidates, CompletedJudged
<1>7. FailuresReal'
  BY <1>1, <1>2, <1>3, <1>4 DEF CloseoutInv, Typed, FailuresReal
<1> QED
  BY <1>7, <1>6, <1>5 DEF CloseoutInv

\* A proof credited before its credit was read, or counted as a proved attempt, is the text
\* that the closeout judges unless its copy failed, is never scored as a failed proof, and
\* has been judged in a run reported as completed.
THEOREM ProofsAreKept == CloseoutSpec => []ProofsKept
<1>1. CloseoutInv /\ UNCHANGED closeoutVars => CloseoutInv'
  BY DEF closeoutVars, solverVars, fileVars, creditVars, endVars, CloseoutInv, Typed,
         SharedSolver, PromptKept, AuthorityKept, FrozenCandidates, FailuresReal,
         CompletedJudged
<1>2. CloseoutInv /\ CloseoutNext => CloseoutInv'
  BY StartStep, EditStep, AnswerStep, RefillStep, AfterStep, TakeStep, CollectStep, EndStep,
     EvaluateStep
  DEF CloseoutNext
<1>3. CloseoutInv => ProofsKept
  BY DEF CloseoutInv, Typed, PromptKept, AuthorityKept, FrozenCandidates, FailuresReal,
         CompletedJudged, ProofsKept
<1> QED
  BY CloseoutInitInv, <1>1, <1>2, <1>3, PTL DEF CloseoutSpec

--------------------------------------------------------------------------------
\* CPSStore: the log is the history of the store, and only readers acknowledge.

Pieces ==
  [task : Homes \cup {Global}, author : Publishers, kind : {"handoff", "validation_result"}]
Messages == [task : Homes \cup {Global}, from : CpsActors, to : CpsActors \cup {Everyone}]
Ops ==
  {NoOp} \cup {Create("piece_created", p) : p \in Pieces}
         \cup {Create("message_sent", m) : m \in Messages} \cup {Acknowledge(i) : i \in Nat}
Entries == [actor : Publishers, op : Ops]

\* An acknowledgement is by a reader of the message.
ByReader(a, op) ==
  op.type = "message_acked" => op.message \in DOMAIN mail /\ Addressed(a, mail[op.message])

CpsInv ==
  /\ mail \in Seq(Messages) /\ board \in Seq(Pieces) /\ log \in Seq(Entries)
  /\ doing \in [Publishers -> Ops]
  /\ IsFiniteSet(acked) /\ LogReplaysStore
  /\ \A a \in Publishers : ByReader(a, doing[a])
  /\ \A i \in DOMAIN log : ByReader(log[i].actor, log[i].op)

\* Messages stay where they are.
LEMMA MailGrows ==
  ASSUME CpsInv, mail' = mail \/ \E m \in Messages : mail' = Append(mail, m)
  PROVE  /\ mail' \in Seq(Messages)
         /\ \A i \in DOMAIN mail : i \in DOMAIN mail' /\ mail'[i] = mail[i]
<1>1. CASE mail' = mail
  BY <1>1 DEF CpsInv
<1>2. ASSUME NEW m \in Messages, mail' = Append(mail, m)
      PROVE  /\ mail' \in Seq(Messages)
             /\ \A i \in DOMAIN mail : i \in DOMAIN mail' /\ mail'[i] = mail[i]
  BY <1>2, AppendProperties, LenProperties DEF CpsInv
<1> QED
  BY <1>1, <1>2

\* What the operations look like.
LEMMA OpShapes ==
  ASSUME NEW op \in Ops
  PROVE  /\ op.type = "message_sent" => op.row \in Messages
         /\ op.type = "piece_created" => op.row \in Pieces
         /\ NoOp \in Ops /\ NoOp.type = "none"
<1>1. ASSUME NEW type, NEW row
      PROVE  Create(type, row).type = type /\ Create(type, row).row = row
  BY DEF Create, NoOp
<1>2. ASSUME NEW i
      PROVE  Acknowledge(i).type = "message_acked"
  BY DEF Acknowledge, NoOp
<1>3. CASE op = NoOp
  BY <1>3 DEF NoOp, Ops
<1>4. CASE \E p \in Pieces : op = Create("piece_created", p)
  BY <1>1, <1>4 DEF NoOp, Ops
<1>5. CASE \E m \in Messages : op = Create("message_sent", m)
  BY <1>1, <1>5 DEF NoOp, Ops
<1>6. CASE \E i \in Nat : op = Acknowledge(i)
  BY <1>2, <1>6 DEF NoOp, Ops
<1> QED
  BY <1>3, <1>4, <1>5, <1>6 DEF Ops

\* What a new event does to the places of the events of a type.
LEMMA LoggedGrows ==
  ASSUME log \in Seq(Entries), NEW e \in Entries, log' = Append(log, e), NEW type,
         NEW n, n = Len(log) + 1
  PROVE  /\ \A i \in Logged(type) :
              /\ i \in Nat /\ i < n /\ log'[i] = log[i]
              /\ UpTo(i, type)' = UpTo(i, type)
         /\ n \notin Logged(type) /\ log'[n] = e
         /\ e.op.type # type => Logged(type)' = Logged(type)
         /\ e.op.type = type => Logged(type)' = Logged(type) \cup {n}
         /\ UpTo(n, type)' = Logged(type)'
         /\ IsFiniteSet(Logged(type)) /\ Cardinality(Logged(type)) \in Nat
<1>1. /\ n \in Nat \ {0} /\ DOMAIN log = 1 .. (n - 1) /\ DOMAIN log' = 1 .. n
      /\ log'[n] = e /\ \A i \in 1 .. (n - 1) : log'[i] = log[i]
  BY AppendProperties, LenProperties
<1>2. \A i \in Logged(type) : i \in 1 .. (n - 1)
  BY <1>1 DEF Logged
<1>3. ASSUME NEW i
      PROVE  i \in Logged(type)' <=> i \in Logged(type) \/ (i = n /\ e.op.type = type)
  <2>1. CASE i = n
    BY <1>1, <2>1 DEF Logged
  <2>2. CASE i # n
    BY <1>1, <2>2 DEF Logged
  <2> QED
    BY <2>1, <2>2
<1>4. ASSUME NEW i \in Logged(type) PROVE UpTo(i, type)' = UpTo(i, type)
  <2>1. ASSUME NEW j PROVE j \in UpTo(i, type)' <=> j \in UpTo(i, type)
    BY <1>1, <1>2, <1>3, <1>4 DEF UpTo
  <2> QED
    BY <2>1 DEF UpTo
<1>5. UpTo(n, type)' = Logged(type)'
  <2>1. ASSUME NEW j \in Logged(type)' PROVE j <= n
    BY <1>1, <1>2, <1>3, <2>1
  <2> QED
    BY <2>1 DEF UpTo
<1>6. IsFiniteSet(Logged(type)) /\ Cardinality(Logged(type)) \in Nat
  <2>1. IsFiniteSet(1 .. (n - 1))
    BY <1>1, FS_Interval
  <2>2. Logged(type) \in SUBSET (1 .. (n - 1))
    BY <1>2
  <2> QED
    BY <2>1, <2>2, FS_Subset, FS_CardinalityType
<1>7. /\ n \notin Logged(type)
      /\ \A i \in Logged(type) : i \in Nat /\ i < n /\ log'[i] = log[i]
  BY <1>1, <1>2
<1>8. /\ e.op.type # type => Logged(type)' = Logged(type)
      /\ e.op.type = type => Logged(type)' = Logged(type) \cup {n}
  BY <1>3
<1> QED
  BY <1>1, <1>4, <1>5, <1>6, <1>7, <1>8

\* An event of another type leaves the table recounted.
LEMMA OtherRecount ==
  ASSUME log \in Seq(Entries), NEW e \in Entries, log' = Append(log, e),
         NEW type, e.op.type # type, NEW table, Recounts(type, table)
  PROVE  Recounts(type, table)'
<1> PICK n : n = Len(log) + 1
  OBVIOUS
<1>1. /\ Logged(type)' = Logged(type)
      /\ \A i \in Logged(type) : log'[i] = log[i] /\ UpTo(i, type)' = UpTo(i, type)
  BY LoggedGrows
<1>2. /\ Cardinality(Logged(type)) = Len(table)
      /\ \A i \in Logged(type) : table[Cardinality(UpTo(i, type))] = log[i].op.row
  BY DEF Recounts
<1>3. /\ Cardinality(Logged(type)') = Len(table)
      /\ \A i \in Logged(type)' : table[Cardinality(UpTo(i, type)')] = log'[i].op.row
  BY <1>1, <1>2
<1> QED
  BY <1>3 DEF Recounts

\* An event of its type recounts the table with the row it brings.
LEMMA NextRecount ==
  ASSUME log \in Seq(Entries), NEW e \in Entries, log' = Append(log, e),
         NEW R, NEW table \in Seq(R), NEW longer, e.op.row \in R,
         longer = Append(table, e.op.row), Recounts(e.op.type, table)
  PROVE  Recounts(e.op.type, longer)'
<1> PICK type, n : type = e.op.type /\ n = Len(log) + 1
  OBVIOUS
<1> PICK c : c = Cardinality(Logged(type))
  OBVIOUS
<1>0. Cardinality(Logged(type)) \in Nat
  BY LoggedGrows
<1>1. /\ Logged(type)' = Logged(type) \cup {n} /\ n \notin Logged(type) /\ log'[n] = e
      /\ IsFiniteSet(Logged(type)) /\ UpTo(n, type)' = Logged(type)'
      /\ \A i \in Logged(type) :
           i \in Nat /\ log'[i] = log[i] /\ UpTo(i, type)' = UpTo(i, type)
  <2>1. IsFiniteSet(Logged(type)) /\ UpTo(n, type)' = Logged(type)'
    BY LoggedGrows
  <2>2. Logged(type)' = Logged(type) \cup {n} /\ n \notin Logged(type) /\ log'[n] = e
    BY LoggedGrows
  <2>3. ASSUME NEW i \in Logged(type)
        PROVE  i \in Nat /\ log'[i] = log[i] /\ UpTo(i, type)' = UpTo(i, type)
    <3>1. i \in Nat /\ log'[i] = log[i]
      BY LoggedGrows
    <3>2. UpTo(i, type)' = UpTo(i, type)
      BY LoggedGrows
    <3> QED
      BY <3>1, <3>2
  <2> QED
    BY <2>1, <2>2, <2>3
<1>2. Cardinality(Logged(type)') = c + 1
  BY <1>0, <1>1, FS_AddElement
<1>3. Len(table) = c /\ \A i \in Logged(type) : table[Cardinality(UpTo(i, type))] = log[i].op.row
  BY DEF Recounts
<1>4. Len(longer) = c + 1 /\ longer[c + 1] = e.op.row /\ \A k \in 1 .. c : longer[k] = table[k]
  BY <1>0, <1>3, AppendProperties, LenProperties
<1>5. ASSUME NEW i \in Logged(type) PROVE longer[Cardinality(UpTo(i, type)')] = log'[i].op.row
  <2>1. UpTo(i, type) \in SUBSET Logged(type) /\ i \in UpTo(i, type)
    BY <1>1 DEF UpTo
  <2>2. PICK k : k = Cardinality(UpTo(i, type))
    OBVIOUS
  <2>3. k \in 1 .. c
    <3>1. IsFiniteSet(UpTo(i, type)) /\ k <= c /\ k \in Nat
      BY <1>0, <1>1, <2>1, <2>2, FS_Subset, FS_CardinalityType
    <3>2. k # 0
      BY <2>1, <2>2, <3>1, FS_EmptySet
    <3> QED
      BY <1>1, <3>1, <3>2
  <2>4. table[k] = log[i].op.row
    BY <1>3, <2>2
  <2> QED
    BY <1>1, <1>4, <2>2, <2>3, <2>4
<1>6. longer[Cardinality(UpTo(n, type)')] = log'[n].op.row
  BY <1>1, <1>2, <1>4
<1> QED
  BY <1>1, <1>2, <1>4, <1>5, <1>6 DEF Recounts

\* A step that leaves the store and its log alone leaves them in agreement.
LEMMA ReplayStays ==
  ASSUME LogReplaysStore, UNCHANGED <<board, mail, acked, log>>
  PROVE  LogReplaysStore'
BY DEF LogReplaysStore, Recounts, Logged, UpTo

\* A committed write adds its event and its row, or its acknowledgement, together.
LEMMA ReplayGrows ==
  ASSUME CpsInv, NEW a \in Publishers, NEW e, e = [actor |-> a, op |-> doing[a]],
         ~ChangesNothing(doing[a]),
         board' = InsertPiece(e.op), mail' = InsertMessage(e.op), acked' = UpdateAcked(e.op),
         log' = Append(log, e)
  PROVE  LogReplaysStore' /\ IsFiniteSet(acked')
<1>1. log \in Seq(Entries) /\ e \in Entries /\ e.op = doing[a] /\ e.op \in Ops
  BY DEF CpsInv, Entries
<1>2. PICK b, m : b = board' /\ m = mail'
  OBVIOUS
<1>3. Recounts("piece_created", b)'
  <2>1. Recounts("piece_created", board) /\ board \in Seq(Pieces)
    BY DEF CpsInv, LogReplaysStore
  <2>2. CASE e.op.type = "piece_created"
    <3>1. b = Append(board, e.op.row) /\ e.op.row \in Pieces
      BY <1>1, <1>2, <2>2, OpShapes DEF InsertPiece
    <3> QED
      BY <1>1, <2>1, <2>2, <3>1, NextRecount
  <2>3. CASE e.op.type # "piece_created"
    <3>1. b = board /\ Recounts("piece_created", b)
      BY <1>2, <2>1, <2>3 DEF InsertPiece
    <3> QED
      BY <1>1, <2>3, <3>1, OtherRecount
  <2> QED
    BY <2>2, <2>3
<1>4. Recounts("message_sent", m)'
  <2>1. Recounts("message_sent", mail) /\ mail \in Seq(Messages)
    BY DEF CpsInv, LogReplaysStore
  <2>2. CASE e.op.type = "message_sent"
    <3>1. m = Append(mail, e.op.row) /\ e.op.row \in Messages
      BY <1>1, <1>2, <2>2, OpShapes DEF InsertMessage
    <3> QED
      BY <1>1, <2>1, <2>2, <3>1, NextRecount
  <2>3. CASE e.op.type # "message_sent"
    <3>1. m = mail /\ Recounts("message_sent", m)
      BY <1>2, <2>1, <2>3 DEF InsertMessage
    <3> QED
      BY <1>1, <2>3, <3>1, OtherRecount
  <2> QED
    BY <2>2, <2>3
<1>5. /\ {log[i].op.message : i \in Logged("message_acked")}' = acked'
      /\ Cardinality(Logged("message_acked"))' = Cardinality(acked')
      /\ IsFiniteSet(acked')
  <2> PICK L, n : L = Logged("message_acked") /\ n = Len(log) + 1
    OBVIOUS
  <2>1. /\ IsFiniteSet(L) /\ n \notin L /\ log'[n] = e
        /\ \A i \in L : log'[i] = log[i]
        /\ Logged("message_acked")' = IF e.op.type = "message_acked" THEN L \cup {n} ELSE L
    BY <1>1, LoggedGrows
  <2>2. /\ {log[i].op.message : i \in L} = acked /\ Cardinality(L) = Cardinality(acked)
        /\ IsFiniteSet(acked)
    BY DEF CpsInv, LogReplaysStore
  <2>3. CASE e.op.type = "message_acked"
    <3>1. acked' = acked \cup {e.op.message} /\ e.op.message \notin acked
      BY <1>1, <2>3 DEF UpdateAcked, ChangesNothing
    <3>2. Cardinality(L \cup {n}) = Cardinality(acked') /\ IsFiniteSet(acked')
      <4> PICK A, x : A = acked /\ x = e.op.message
        OBVIOUS
      <4>1. Cardinality(L \cup {n}) = Cardinality(L) + 1
        BY <2>1, FS_AddElement
      <4>2. Cardinality(A \cup {x}) = Cardinality(A) + 1 /\ IsFiniteSet(A \cup {x})
        BY <2>2, <3>1, FS_AddElement
      <4>3. acked' = A \cup {x} /\ Cardinality(L) = Cardinality(A)
        BY <2>2, <3>1
      <4> QED
        BY <4>1, <4>2, <4>3
    <3>3. {log'[i].op.message : i \in L \cup {n}} = acked'
      <4>1. ASSUME NEW x PROVE x \in acked' <=> \E i \in L \cup {n} : x = log'[i].op.message
        <5>1. x \in acked <=> \E i \in L : x = log[i].op.message
          BY <2>2
        <5>2. x \in acked' <=> x \in acked \/ x = e.op.message
          BY <3>1
        <5> QED
          BY <2>1, <5>1, <5>2
      <4> QED
        BY <4>1
    <3> QED
      BY <2>1, <2>3, <3>2, <3>3
  <2>4. CASE e.op.type # "message_acked"
    <3>1. acked' = acked
      BY <1>1, <2>4 DEF UpdateAcked
    <3>2. Logged("message_acked")' = L
      BY <2>1, <2>4
    <3>3. ASSUME NEW x
          PROVE  (\E i \in Logged("message_acked")' : x = log'[i].op.message)
                   <=> \E i \in L : x = log[i].op.message
      BY <2>1, <3>2
    <3>4. {log[i].op.message : i \in Logged("message_acked")}' = {log[i].op.message : i \in L}
      BY <3>3
    <3>5. Cardinality(Logged("message_acked"))' = Cardinality(acked') /\ IsFiniteSet(acked')
      BY <2>2, <3>1, <3>2
    <3>6. {log[i].op.message : i \in Logged("message_acked")}' = acked'
      BY <2>2, <3>1, <3>4, Zenon
    <3> QED
      BY <3>5, <3>6, Zenon
  <2> QED
    BY <2>3, <2>4
<1> QED
  BY <1>2, <1>3, <1>4, <1>5 DEF LogReplaysStore

\* The store starts empty.
LEMMA CpsInitInv == ASSUME CpsInit PROVE CpsInv
<1>0. LogReplaysStore /\ IsFiniteSet(acked)
  <2>1. /\ Logged("piece_created") = {} /\ Logged("message_sent") = {}
        /\ Logged("message_acked") = {} /\ board = <<>> /\ mail = <<>> /\ acked = {}
    BY DEF CpsInit, Logged
  <2>2. Cardinality({}) = 0 /\ IsFiniteSet({})
    BY FS_EmptySet
  <2> QED
    BY <2>1, <2>2 DEF LogReplaysStore, Recounts
<1>1. /\ mail \in Seq(Messages) /\ log \in Seq(Entries) /\ DOMAIN log = {}
      /\ board \in Seq(Pieces)
  BY EmptySeq DEF CpsInit
<1>2. doing \in [Publishers -> Ops] /\ \A a \in Publishers : doing[a].type = "none"
  BY DEF CpsInit, Ops, NoOp
<1> QED
  BY <1>0, <1>1, <1>2 DEF CpsInv, ByReader

\* A request is an operation, and one of an acknowledgement comes from a reader.
LEMMA AskOK ==
  ASSUME CpsInv, NEW a \in Publishers, NEW op \in Ops, ByReader(a, op), Ask(a, op)
  PROVE  CpsInv'
<1>1. \A b, o : ByReader(b, o)' <=> ByReader(b, o)
  BY DEF Ask, ByReader, Addressed, Scopes
<1>2. UNCHANGED <<mail, board, acked, log>> /\ doing' = [doing EXCEPT ![a] = op]
  BY DEF Ask
<1>3. LogReplaysStore'
  BY <1>2, ReplayStays DEF CpsInv
<1> QED
  BY <1>1, <1>2, <1>3 DEF CpsInv

\* The end of a write: the event it adds is the operation that was asked for.
LEMMA EndWriteStep ==
  ASSUME CpsInv, NEW a \in Publishers, EndWrite(a)
  PROVE  CpsInv'
<1> DEFINE op == doing[a]
           e == [actor |-> a, op |-> op]
<1>1. op \in Ops /\ surface' = surface /\ doing' = [doing EXCEPT ![a] = NoOp]
  BY DEF CpsInv, EndWrite, Finish
<1>2. /\ mail' = mail \/ \E m \in Messages : mail' = Append(mail, m)
      /\ log' = log \/ log' = Append(log, e)
  BY <1>1, OpShapes DEF EndWrite, InsertMessage
<1>3. /\ mail' \in Seq(Messages)
      /\ \A i \in DOMAIN mail : i \in DOMAIN mail' /\ mail'[i] = mail[i]
  BY <1>2, MailGrows
<1>4. ASSUME NEW b \in Publishers PROVE ByReader(b, doing[b])'
  <2>1. CASE b = a
    BY <1>1, <2>1, OpShapes DEF ByReader, CpsInv
  <2>2. CASE b # a
    BY <1>1, <1>3, <2>2 DEF ByReader, CpsInv, Addressed, Scopes
  <2> QED
    BY <2>1, <2>2
<1>5. /\ log' \in Seq(Entries)
      /\ \A i \in DOMAIN log' : log'[i] = e \/ (i \in DOMAIN log /\ log'[i] = log[i])
  <2>1. e \in Entries
    BY <1>1 DEF Entries
  <2>2. CASE log' = log
    BY <2>2 DEF CpsInv
  <2>3. CASE log' = Append(log, e)
    BY <2>1, <2>3, AppendProperties, LenProperties DEF CpsInv
  <2> QED
    BY <1>2, <2>2, <2>3
<1>6. ASSUME NEW i \in DOMAIN log' PROVE ByReader(log[i].actor, log[i].op)'
  <2>1. CASE log'[i] = e
    BY <1>1, <1>3, <2>1 DEF ByReader, CpsInv, Addressed, Scopes
  <2>2. CASE i \in DOMAIN log /\ log'[i] = log[i]
    BY <1>1, <1>3, <2>2 DEF ByReader, CpsInv, Addressed, Scopes
  <2> QED
    BY <1>5, <2>1, <2>2
<1>7. doing' \in [Publishers -> Ops]
  BY <1>1, OpShapes DEF CpsInv
<1>8. LogReplaysStore' /\ IsFiniteSet(acked') /\ board' \in Seq(Pieces)
  <2>1. CASE UNCHANGED <<board, mail, acked, log>>
    BY <2>1, ReplayStays DEF CpsInv
  <2>2. CASE /\ board' = InsertPiece(op) /\ mail' = InsertMessage(op) /\ acked' = UpdateAcked(op)
             /\ log' = Append(log, e) /\ ~ChangesNothing(op)
    <3>1. board' \in Seq(Pieces)
      BY <1>1, <2>2, OpShapes, AppendProperties DEF InsertPiece, CpsInv
    <3> QED
      BY <2>2, <3>1, ReplayGrows
  <2> QED
    BY <2>1, <2>2 DEF EndWrite
<1> QED
  BY <1>3, <1>4, <1>5, <1>6, <1>7, <1>8 DEF CpsInv

\* The requests are operations, and an acknowledgement is asked for out of the inbox.
LEMMA AskStep ==
  ASSUME CpsInv, NEW a \in CpsActors, AskPublish(a) \/ AskSend(a) \/ AskAck(a)
  PROVE  CpsInv'
<1>1. a \in Publishers /\ Scopes(a) \subseteq Homes \cup {Global}
  BY DEF Publishers, Scopes, Homes
<1>2. CASE AskPublish(a)
  <2>1. PICK s \in Scopes(a) :
          Ask(a, Create("piece_created", [task |-> s, author |-> a, kind |-> "handoff"]))
    BY <1>2 DEF AskPublish
  <2> DEFINE op == Create("piece_created", [task |-> s, author |-> a, kind |-> "handoff"])
  <2>2. op \in Ops /\ op.type = "piece_created"
    BY <1>1 DEF Ops, Pieces, Create, NoOp
  <2> QED
    BY <1>1, <2>1, <2>2, AskOK DEF ByReader
<1>3. CASE AskSend(a)
  <2>1. PICK s \in Scopes(a), to \in CpsActors \cup {Everyone} :
          Ask(a, Create("message_sent", [task |-> s, from |-> a, to |-> to]))
    BY <1>3 DEF AskSend
  <2> DEFINE op == Create("message_sent", [task |-> s, from |-> a, to |-> to])
  <2>2. op \in Ops /\ op.type = "message_sent"
    BY <1>1 DEF Ops, Messages, Create, NoOp
  <2> QED
    BY <1>1, <2>1, <2>2, AskOK DEF ByReader
<1>4. CASE AskAck(a)
  <2>1. PICK i \in Inbox(a) : Ask(a, Acknowledge(i))
    BY <1>4 DEF AskAck
  <2>2. i \in DOMAIN mail /\ Addressed(a, mail[i]) /\ i \in Nat
    BY <2>1, LenProperties DEF Inbox, CpsInv
  <2>3. Acknowledge(i) \in Ops /\ Acknowledge(i).message = i
    BY <2>2 DEF Ops, Acknowledge, NoOp
  <2> QED
    BY <1>1, <2>1, <2>2, <2>3, AskOK DEF ByReader
<1> QED
  BY <1>2, <1>3, <1>4

\* The runner posts, registers, briefs and ends: nobody acknowledges by it.
LEMMA RunnerStep ==
  ASSUME CpsInv, RunnerPublishes
  PROVE  CpsInv'
<1> DEFINE op(t) == Create("piece_created",
                      [task |-> t, author |-> Runner, kind |-> "validation_result"])
<1>1. PICK t \in Homes : Ask(Runner, op(t))
  BY DEF RunnerPublishes
<1>2. op(t) \in Ops /\ op(t).type = "piece_created" /\ Runner \in Publishers
  BY DEF Ops, Pieces, Create, NoOp, Publishers
<1> QED
  BY <1>1, <1>2, AskOK DEF ByReader

\* Every step keeps the invariant.
LEMMA CpsStep == CpsInv /\ [CpsNext]_cpsVars => CpsInv'
<1> SUFFICES ASSUME CpsInv, [CpsNext]_cpsVars PROVE CpsInv'
  OBVIOUS
<1>1. ASSUME NEW a \in Publishers, BeginWrite(a) PROVE CpsInv'
  <2>1. /\ UNCHANGED <<surface, board, mail, acked, log>>
        /\ doing' = doing \/ doing' = [doing EXCEPT ![a] = NoOp]
    BY <1>1 DEF BeginWrite, Finish
  <2>2. doing' \in [Publishers -> Ops]
    BY <2>1, OpShapes DEF CpsInv
  <2>3. ASSUME NEW b \in Publishers PROVE ByReader(b, doing[b])'
    <3>1. doing'[b] = doing[b] \/ doing'[b].type = "none"
      BY <2>1, OpShapes DEF CpsInv
    <3> QED
      BY <2>1, <3>1 DEF ByReader, CpsInv, Addressed, Scopes
  <2>4. ASSUME NEW i \in DOMAIN log' PROVE ByReader(log[i].actor, log[i].op)'
    BY <2>1 DEF ByReader, CpsInv, Addressed, Scopes
  <2>5. LogReplaysStore'
    BY <2>1, ReplayStays DEF CpsInv
  <2> QED
    BY <2>5, <2>4, <2>3, <2>2, <2>1 DEF CpsInv
<1>2. CASE UNCHANGED cpsVars \/ \E a \in Publishers : CloseCapability(a)
  <2>1. UNCHANGED <<surface, board, mail, acked, log, doing>>
    BY <1>2 DEF CloseCapability, cpsVars
  <2>2. LogReplaysStore'
    BY <2>1, ReplayStays DEF CpsInv
  <2> QED
    BY <2>1, <2>2 DEF CpsInv, ByReader, Addressed, Scopes
<1> QED
  BY <1>1, <1>2, AskStep, RunnerStep, EndWriteStep DEF CpsNext

\* The invariant of every run of the store.
LEMMA CpsInvariant == CpsSpec => []CpsInv
<1>1. CpsInit => CpsInv
  BY CpsInitInv
<1> QED
  BY <1>1, CpsStep, PTL DEF CpsSpec

\* Only an actor that a message was addressed to can make it disappear: between the read
\* of the inbox and the write, messages and acknowledgements of others may be committed,
\* and the acknowledgement still names the message that was read.
THEOREM OnlyReadersAcknowledge == CpsSpec => []AckedByReader
<1>1. CpsInv => AckedByReader
  BY DEF CpsInv, ByReader, AckedByReader
<1> QED
  BY <1>1, CpsInvariant, PTL

\* The exported log recounts the store: every committed operation has left its event
\* with its row, in the same order, and a rolled-back or repeated one has left neither.
THEOREM LogIsTheHistory == CpsSpec => []LogReplaysStore
<1>1. CpsInv => LogReplaysStore
  BY DEF CpsInv
<1> QED
  BY <1>1, CpsInvariant, PTL

--------------------------------------------------------------------------------
\* TraceSelection: one answer per request, and an export that passes its own checks.

\* A chain is committed whole: it selects something, and only what was a candidate.
ChainOK(chain) ==
  /\ chain.selected # {} /\ chain.selected \subseteq Traces
  /\ chain.selected \subseteq DOMAIN chain.standing
ChainsOK == \A k \in SearchKeys : chains[k] = NoChain \/ ChainOK(chains[k])

\* What a caller ranks are the pieces it read.
CallsOK ==
  \A c \in Callers :
    /\ DOMAIN calls[c] = {"at", "key", "query", "seen", "standing"}
    /\ calls[c].seen \subseteq Traces
    /\ calls[c].at # "rest" => calls[c].key \in SearchKeys
    /\ calls[c].at = "ranked" => DOMAIN calls[c].standing = calls[c].seen

\* An event is about a delivered item, and effective unless it names the one that was.
EventOK(f) ==
  /\ feedback[f].item \in Items /\ Exposed(feedback[f].item)
  /\ feedback[f].effective \in BOOLEAN
  /\ feedback[f].effective <=> feedback[f].conflict = "none"
  /\ ~feedback[f].effective =>
       /\ feedback[f].conflict \in FeedbackKeys
       /\ feedback[feedback[f].conflict].effective
       /\ feedback[feedback[f].conflict].item = feedback[f].item
EventsOK ==
  /\ \A f \in FeedbackKeys : feedback[f] = NoEvent \/ EventOK(f)
  /\ \A f, g \in FeedbackKeys :
       feedback[f].effective /\ feedback[g].effective /\ feedback[f].item = feedback[g].item
         => f = g

VerdictsOK ==
  \A v \in verdicts :
    /\ v[1] \in FeedbackKeys /\ feedback[v[1]] # NoEvent
    /\ v[4] = Status(feedback[v[1]])

SelectionInv ==
  /\ pieces \subseteq Traces
  /\ DOMAIN chains = SearchKeys /\ DOMAIN calls = Callers /\ DOMAIN feedback = FeedbackKeys
  /\ CallsOK /\ ChainsOK /\ SameAnswer /\ \A a \in answers : a[1] \in SearchKeys
  /\ EventsOK /\ VerdictsOK

\* A run starts without answers, chains or feedback.
LEMMA SelectionInitInv == SelectionInit => SelectionInv
BY SelectionAssumption DEF SelectionInit, SelectionInv, CallsOK, ChainsOK, SameAnswer, EventsOK, VerdictsOK,
    Resting, NoEvent

\* A committed chain stays as it is.
LEMMA SearchStep ==
  ASSUME SelectionInv, NEW c \in Callers,
         \/ ReadStanding(c) \/ RecordSearch(c) \/ AbandonSearch(c)
         \/ \E k \in SearchKeys, q \in Queries : BeginSearch(c, k, q)
  PROVE  SelectionInv'
<1>1. UNCHANGED <<pieces, feedback, verdicts>>
  BY DEF ReadStanding, RecordSearch, AbandonSearch, BeginSearch
<1>2. ASSUME \A k \in SearchKeys : Committed(k) => chains'[k] = chains[k]
      PROVE  EventsOK' /\ VerdictsOK'
  <2>1. \A i \in Items : Exposed(i) => Exposed(i)'
    BY <1>2 DEF SelectionInv, Items, Exposed, Committed, NoChain
  <2>2. EventsOK'
    BY <1>1, <2>1 DEF SelectionInv, EventsOK, EventOK
  <2>3. VerdictsOK'
    BY <1>1 DEF SelectionInv, VerdictsOK, Status
  <2> QED
    BY <2>2, <2>3
<1>3. CASE ReadStanding(c)
  <2>1. /\ calls' = [calls EXCEPT ![c] = [calls[c] EXCEPT !.at = "ranked",
                       !.standing = [t \in calls[c].seen |-> Standing(t)]]]
        /\ UNCHANGED <<chains, answers>>
    BY <1>3 DEF ReadStanding, Become
  <2>2. PICK s : s = [t \in calls[c].seen |-> Standing(t)]
    OBVIOUS
  <2>3. PICK r : r = [calls[c] EXCEPT !.at = "ranked", !.standing = s]
    OBVIOUS
  <2>4. DOMAIN calls[c] = {"at", "key", "query", "seen", "standing"} /\ calls[c].at = "pieces"
    BY <1>3 DEF ReadStanding, SelectionInv, CallsOK
  <2>5. /\ DOMAIN r = {"at", "key", "query", "seen", "standing"}
        /\ r.at = "ranked" /\ r.key = calls[c].key /\ r.seen = calls[c].seen /\ r.standing = s
    BY <2>3, <2>4
  <2>6. CallsOK' /\ DOMAIN calls' = Callers
    BY <2>5, <2>4, <2>3, <2>2, <2>1 DEF SelectionInv, CallsOK
  <2> QED
    BY <1>1, <1>2, <2>1, <2>6 DEF SelectionInv, ChainsOK, SameAnswer
<1>4. CASE AbandonSearch(c)
  <2>1. calls' = [calls EXCEPT ![c] = Resting] /\ UNCHANGED <<chains, answers>>
    BY <1>4 DEF AbandonSearch, Become
  <2>2. CallsOK'
    BY <2>1 DEF SelectionInv, CallsOK, Resting
  <2> QED
    BY <1>1, <1>2, <2>1, <2>2 DEF SelectionInv, ChainsOK, SameAnswer
<1>5. ASSUME NEW k \in SearchKeys, NEW q \in Queries, BeginSearch(c, k, q) PROVE SelectionInv'
  <2>1. UNCHANGED chains
    BY <1>5 DEF BeginSearch
  <2>2. CallsOK' /\ DOMAIN calls' = Callers
    BY <1>5 DEF BeginSearch, Become, SelectionInv, CallsOK
  <2>3. SameAnswer' /\ \A a \in answers' : a[1] \in SearchKeys
    <3>1. \/ UNCHANGED answers
          \/ chains[k].query = q /\ answers' = answers \cup {<<k, q, chains[k].selected>>}
      BY <1>5 DEF BeginSearch, ReplayOrRefuse, Answer, Delivered
    <3> QED
      BY <2>1, <3>1 DEF SelectionInv, SameAnswer
  <2> QED
    BY <1>1, <1>2, <2>1, <2>2, <2>3 DEF SelectionInv, ChainsOK
<1>6. CASE RecordSearch(c)
  <2>1. calls[c].at = "ranked" /\ calls' = [calls EXCEPT ![c] = Resting]
    BY <1>6 DEF RecordSearch, Become
  <2>2. PICK r : r = calls[c]
    OBVIOUS
  <2>3. PICK sel \in Selections(r) :
          \/ sel = {} /\ Answer(r.key, r.query, sel) /\ UNCHANGED chains
          \/ /\ sel # {} /\ ~Committed(r.key)
             /\ chains' = [chains EXCEPT ![r.key] = Chain(r, sel)]
             /\ Answer(r.key, r.query, Delivered(Chain(r, sel)))
          \/ /\ sel # {} /\ Committed(r.key) /\ UNCHANGED chains
             /\ IF SameSearch(chains[r.key], r, sel)
                THEN Answer(r.key, r.query, Delivered(chains[r.key])) ELSE UNCHANGED answers
    BY <1>6, <2>2 DEF RecordSearch
  <2>4. CallsOK' /\ DOMAIN calls' = Callers
    BY <2>1 DEF SelectionInv, CallsOK, Resting
  <2>5. r.key \in SearchKeys /\ sel \subseteq Traces /\ sel \subseteq DOMAIN r.standing
    BY <2>1, <2>2 DEF SelectionInv, CallsOK, Selections
  <2>6. CASE sel = {} /\ Answer(r.key, r.query, sel) /\ UNCHANGED chains
    <3>1. SameAnswer' /\ \A a \in answers' : a[1] \in SearchKeys
      BY <2>5, <2>6 DEF Answer, SelectionInv, SameAnswer
    <3> QED
      BY <1>1, <1>2, <2>4, <2>6, <3>1 DEF SelectionInv, ChainsOK
  <2>7. CASE /\ sel # {} /\ ~Committed(r.key)
             /\ chains' = [chains EXCEPT ![r.key] = Chain(r, sel)]
             /\ Answer(r.key, r.query, Delivered(Chain(r, sel)))
    <3>1. /\ chains'[r.key] = Chain(r, sel) /\ DOMAIN chains' = SearchKeys
          /\ \A k \in SearchKeys \ {r.key} : chains'[k] = chains[k]
      BY <2>5, <2>7 DEF SelectionInv
    <3>2. ChainOK(Chain(r, sel)) /\ chains[r.key] = NoChain
      BY <2>5, <2>7 DEF ChainOK, Chain, Committed
    <3>3. ChainsOK'
      BY <3>1, <3>2 DEF SelectionInv, ChainsOK
    <3>4. \A a \in answers : a[3] # {} => a[1] # r.key
      BY <3>2 DEF SelectionInv, SameAnswer, NoChain
    <3>5. answers' = answers \cup {<<r.key, r.query, sel>>}
      BY <2>7 DEF Answer, Delivered, Chain
    <3>6. chains'[r.key].query = r.query /\ chains'[r.key].selected = sel
      BY <3>1 DEF Chain
    <3>7. SameAnswer' /\ \A a \in answers' : a[1] \in SearchKeys
      BY <2>5, <3>1, <3>4, <3>5, <3>6 DEF SelectionInv, SameAnswer
    <3>8. EventsOK' /\ VerdictsOK'
      BY <1>2, <2>7, <3>1
    <3> QED
      BY <1>1, <2>4, <3>1, <3>3, <3>7, <3>8 DEF SelectionInv
  <2>8. CASE /\ sel # {} /\ Committed(r.key) /\ UNCHANGED chains
             /\ IF SameSearch(chains[r.key], r, sel)
                THEN Answer(r.key, r.query, Delivered(chains[r.key])) ELSE UNCHANGED answers
    <3>1. SameAnswer' /\ \A a \in answers' : a[1] \in SearchKeys
      BY <2>5, <2>8 DEF Answer, SameSearch, Delivered, SelectionInv, SameAnswer
    <3> QED
      BY <1>1, <1>2, <2>4, <2>8, <3>1 DEF SelectionInv, ChainsOK
  <2> QED
    BY <2>3, <2>6, <2>7, <2>8
<1> QED
  BY <1>3, <1>4, <1>5, <1>6

\* Feedback on a delivered item.
LEMMA FeedbackStep ==
  ASSUME SelectionInv, NEW f \in FeedbackKeys, NEW i \in Items, NEW kind \in Kinds,
         RecordFeedback(f, i, kind)
  PROVE  SelectionInv'
<1>1. UNCHANGED <<pieces, calls, chains, answers>> /\ Exposed(i)
  BY DEF RecordFeedback
<1>2. CallsOK' /\ ChainsOK' /\ SameAnswer' /\ \A a \in answers' : a[1] \in SearchKeys
  BY <1>1 DEF SelectionInv, CallsOK, ChainsOK, SameAnswer
<1>3. CASE feedback[f] # NoEvent /\ UNCHANGED feedback
  <2>1. \/ UNCHANGED verdicts
        \/ verdicts' = verdicts \cup {<<f, i, kind, Status(feedback[f])>>}
    BY <1>3 DEF RecordFeedback, Say
  <2>2. VerdictsOK'
    BY <1>3, <2>1 DEF SelectionInv, VerdictsOK, Status
  <2>3. EventsOK'
    BY <1>1, <1>3 DEF SelectionInv, EventsOK, EventOK, Exposed
  <2> QED
    BY <1>1, <1>2, <1>3, <2>2, <2>3 DEF SelectionInv
<1>4. CASE feedback[f] = NoEvent
  <2>1. PICK w \in IF Winner(i, kind) = {} THEN {"none"} ELSE Winner(i, kind) :
          feedback' = [feedback EXCEPT ![f] =
            [item |-> i, kind |-> kind, effective |-> w = "none", conflict |-> w]]
    BY <1>4, Zenon DEF RecordFeedback
  <2>2. /\ feedback'[f].item = i /\ feedback'[f].conflict = w
        /\ feedback'[f].effective = (w = "none") /\ DOMAIN feedback' = FeedbackKeys
        /\ \A g \in FeedbackKeys \ {f} : feedback'[g] = feedback[g]
    BY <2>1 DEF SelectionInv
  <2>6. feedback'[f] # NoEvent
    <3>1. i # <<>>
      BY DEF Items
    <3> QED
      BY <2>2, <3>1 DEF NoEvent
  <2>3. verdicts' = verdicts \cup {<<f, i, kind, Status(feedback'[f])>>}
    BY <1>4 DEF RecordFeedback, Say
  <2>4. VerdictsOK'
    BY <1>4, <2>2, <2>3, <2>6 DEF SelectionInv, VerdictsOK, Status
  <2>7. ASSUME NEW g \in FeedbackKeys, feedback[g].effective PROVE g # f
    BY <1>4, <2>7 DEF NoEvent
  <2>8. \/ w = "none" /\ Winner(i, kind) = {}
        \/ w # "none" /\ w \in Winner(i, kind)
    BY <2>1, SelectionAssumption DEF Winner
  <2>9. ASSUME NEW g \in FeedbackKeys, feedback[g].effective, feedback[g].item = i PROVE g = w
    <3>1. g \in Winner(i, kind)
      BY <2>9 DEF Winner
    <3> QED
      BY <2>8, <2>9, <3>1 DEF Winner, SelectionInv, EventsOK
  <2>10. EventOK(f)'
    <3>1. ASSUME w # "none"
          PROVE  w \in FeedbackKeys /\ feedback'[w].effective /\ feedback'[w].item = i
      <4>1. w \in FeedbackKeys /\ feedback[w].effective /\ feedback[w].item = i
        BY <2>8, <3>1 DEF Winner
      <4> QED
        BY <2>2, <2>7, <4>1
    <3> QED
      BY <1>1, <2>2, <3>1 DEF EventOK, Exposed
  <2>11. ASSUME NEW g \in FeedbackKeys \ {f}, feedback[g] # NoEvent PROVE EventOK(g)'
    <3>1. EventOK(g)
      BY <2>11 DEF SelectionInv, EventsOK
    <3> QED
      <4>1. feedback'[g] = feedback[g]
        BY <2>2
      <4>2. ASSUME ~feedback[g].effective
            PROVE  LET h == feedback[g].conflict IN
                   h \in FeedbackKeys /\ feedback'[h].effective /\ feedback'[h].item = feedback[g].item
        <5>1. PICK h : h = feedback[g].conflict
          OBVIOUS
        <5>2. h \in FeedbackKeys /\ feedback[h].effective /\ feedback[h].item = feedback[g].item
          BY <3>1, <4>2, <5>1 DEF EventOK
        <5>3. feedback'[h] = feedback[h]
          BY <2>2, <2>7, <5>2
        <5> QED
          BY <5>1, <5>2, <5>3
      <4> QED
        BY <1>1, <3>1, <4>1, <4>2 DEF EventOK, Exposed
  <2>12. ASSUME NEW g \in FeedbackKeys, NEW h \in FeedbackKeys, g # h,
                feedback'[g].effective, feedback'[h].effective, feedback'[g].item = feedback'[h].item
         PROVE  FALSE
    <3>1. CASE g # f /\ h # f
      BY <2>2, <2>12, <3>1 DEF SelectionInv, EventsOK
    <3>2. ASSUME NEW d \in FeedbackKeys \ {f}, feedback'[f].effective, feedback'[d].effective,
                 feedback'[d].item = i
          PROVE  FALSE
      <4>1. w = "none"
        BY <2>2, <3>2
      <4>2. feedback[d].effective /\ feedback[d].item = i
        BY <2>2, <3>2
      <4> QED
        BY <2>9, <4>1, <4>2, SelectionAssumption
    <3> QED
      BY <2>2, <2>12, <3>1, <3>2
  <2>5. EventsOK'
    BY <2>2, <2>10, <2>11, <2>12 DEF EventsOK
  <2> QED
    BY <1>1, <1>2, <2>2, <2>4, <2>5 DEF SelectionInv
<1> QED
  BY <1>3, <1>4 DEF RecordFeedback
\* Publishing a piece.
LEMMA SelectionStepInv == SelectionInv /\ [SelectionNext]_selectionVars => SelectionInv'
<1> SUFFICES ASSUME SelectionInv, [SelectionNext]_selectionVars PROVE SelectionInv'
  OBVIOUS
<1>1. ASSUME NEW t \in Traces, PublishPiece(t) PROVE SelectionInv'
  BY <1>1 DEF PublishPiece, SelectionInv, CallsOK, ChainsOK, SameAnswer, EventsOK, EventOK,
      Exposed, VerdictsOK, Status
<1>2. CASE UNCHANGED selectionVars
  BY <1>2 DEF selectionVars, SelectionInv, CallsOK, ChainsOK, SameAnswer, EventsOK, EventOK,
      Exposed, VerdictsOK, Status
<1> QED
  BY <1>1, <1>2, SearchStep, FeedbackStep DEF SelectionNext

\* The invariant of every run.
LEMMA SelectionInductive == SelectionSpec => []SelectionInv
BY SelectionInitInv, SelectionStepInv, PTL DEF SelectionSpec

\* A key has one answer, for the request it was first used for, also when two callers
\* with the same key rank different snapshots.
THEOREM OneAnswer == SelectionSpec => []SameAnswer
<1>1. SelectionInv => SameAnswer
  BY DEF SelectionInv
<1> QED
  BY <1>1, SelectionInductive, PTL

\* Whatever the interleaving of searches and feedback, the audit of an export taken at
\* any moment passes, and each caller was told what the stored event says.
THEOREM ExportAlwaysPasses == SelectionSpec => []ExportPasses
<1>1. SelectionInv => ExportPasses
  <2> SUFFICES ASSUME SelectionInv PROVE ExportPasses
    OBVIOUS
  <2>1. PICK rows : rows = Exported
    OBVIOUS
  <2>2. /\ rows.searches = {k \in SearchKeys : chains[k] # NoChain}
        /\ rows.items = {i \in Items : i[2] \in chains[i[1]].selected}
        /\ rows.events = {f \in FeedbackKeys : feedback[f] # NoEvent}
    BY <2>1 DEF Exported, Committed, Exposed
  <2>3. ASSUME NEW k \in rows.searches
        PROVE  /\ chains[k].selected # {} /\ chains[k].selected \subseteq Candidates(chains[k])
               /\ {i[2] : i \in {j \in rows.items : j[1] = k}} = chains[k].selected
    <3>1. k \in SearchKeys /\ ChainOK(chains[k])
      BY <2>2, <2>3 DEF SelectionInv, ChainsOK
    <3>2. ASSUME NEW i \in {j \in rows.items : j[1] = k} PROVE i[2] \in chains[k].selected
      BY <2>2, <3>2
    <3>3. ASSUME NEW t \in chains[k].selected
          PROVE  <<k, t>> \in {j \in rows.items : j[1] = k} /\ <<k, t>>[2] = t
      BY <2>2, <3>1, <3>3 DEF ChainOK, Items
    <3>4. {i[2] : i \in {j \in rows.items : j[1] = k}} = chains[k].selected
      <4>1. PICK I : I = {j \in rows.items : j[1] = k}
        OBVIOUS
      <4>2. ASSUME NEW t \in chains[k].selected PROVE \E i \in I : t = i[2]
        BY <3>3, <4>1, <4>2
      <4>3. ASSUME NEW i \in I PROVE i[2] \in chains[k].selected
        BY <3>2, <4>1, <4>3
      <4>4. {i[2] : i \in I} = chains[k].selected
        BY <4>2, <4>3, Zenon
      <4> QED
        BY <4>1, <4>4
    <3> QED
      BY <3>1, <3>4 DEF ChainOK, Candidates
  <2>4. ASSUME NEW f \in rows.events
        PROVE  EventOK(f) /\ feedback[f].item \in rows.items
    BY <2>2, <2>4 DEF SelectionInv, EventsOK, EventOK, Exposed
  <2>5. ASSUME NEW f \in rows.events, NEW g \in rows.events \ {f},
               feedback[f].effective, feedback[g].effective, feedback[g].item = feedback[f].item
        PROVE  FALSE
    BY <2>2, <2>5 DEF SelectionInv, EventsOK
  <2>6. ASSUME NEW f \in rows.events, ~feedback[f].effective
        PROVE  /\ feedback[f].conflict \in rows.events
               /\ feedback[feedback[f].conflict].effective
               /\ feedback[feedback[f].conflict].item = feedback[f].item
    <3>1. PICK h : h = feedback[f].conflict
      OBVIOUS
    <3>2. h \in FeedbackKeys /\ feedback[h].effective /\ feedback[h].item = feedback[f].item
      BY <2>4, <2>6, <3>1 DEF EventOK
    <3>3. h \in rows.events
      BY <2>2, <3>2 DEF NoEvent
    <3> QED
      BY <3>1, <3>2, <3>3
  <2>7. JoinsHold(rows)
    BY <2>3, <2>4, <2>5, <2>6 DEF JoinsHold
  <2>8. ASSUME NEW v \in verdicts PROVE (v[4] = "RECORDED") <=> feedback[v[1]].effective
    <3>1. v[1] \in FeedbackKeys /\ EventOK(v[1]) /\ v[4] = Status(feedback[v[1]])
      BY <2>8 DEF SelectionInv, VerdictsOK, EventsOK
    <3> QED
      BY <3>1 DEF EventOK, Status
  <2> QED
    BY <2>1, <2>7, <2>8 DEF ExportPasses
<1> QED
  BY <1>1, SelectionInductive, PTL

--------------------------------------------------------------------------------
\* FormalTools: the units in use cover the Judge calls, and a cached verdict answers for
\* the text it is stored under.

\* The calls that have a Judge call under way.
Judging(tool) == {c \in FormalCallers : request[c].tool = tool /\ request[c].at = "judging"}

Requests ==
  [tool : Tools \cup {"none"}, at : {"idle", "lookup", "missed", "reserved", "judging"},
   todo : Seq(Sources), judged : Seq(Sources)]

\* A handler at work has a tool and a text, and the Judge was given that text.
RequestOK(r) ==
  /\ r \in Requests
  /\ r.at # "idle" => r.tool \in Tools /\ r.todo # <<>>
  /\ r.at = "judging" => r.judged = <<Head(r.todo)>>

CountsOK ==
  /\ callCount \in [Tools -> Nat] /\ units \in [Tools -> Nat]
  /\ jobs \in [Tools -> Nat] /\ reported \in [Tools -> Nat]
CacheOK == \A t \in Tools : \A text \in DOMAIN formalCache[t] : formalCache[t][text] = text

\* Each unit is reported by an answer or held by a call, and each Judge call without proof
\* that nothing ran is reported by an answer or under way.
UnitsCounted ==
  \A t \in Tools :
    /\ units[t] = reported[t] + Cardinality(Holding(t))
    /\ jobs[t] = reported[t] + Cardinality(Judging(t))
    /\ units[t] <= UnitLimit

FormalInv ==
  /\ candidate \in Sources /\ CountsOK /\ CacheOK /\ UnitsCounted
  /\ DOMAIN formalCache = Tools
  /\ request \in [FormalCallers -> Requests]
  /\ \A c \in FormalCallers : RequestOK(request[c])

Holds(r, t) == r.tool = t /\ r.at \in {"reserved", "judging"}
Judges(r, t) == r.tool = t /\ r.at = "judging"

\* Sets that differ in one element.
LEMMA OneElement ==
  ASSUME NEW S, NEW T, NEW c, IsFiniteSet(S), T \ {c} = S \ {c}
  PROVE  /\ Cardinality(S) \in Nat /\ (c \in S => Cardinality(S) > 0)
         /\ Cardinality(T) = (Cardinality(S) + (IF c \in T THEN 1 ELSE 0))
                               - (IF c \in S THEN 1 ELSE 0)
<1> DEFINE R == S \ {c}
<1>1. IsFiniteSet(R) /\ Cardinality(R) \in Nat /\ Cardinality(S) \in Nat
  BY FS_RemoveElement, FS_CardinalityType
<1>2. Cardinality(S) = Cardinality(R) + (IF c \in S THEN 1 ELSE 0)
  <2>1. CASE c \in S
    <3>1. S = R \cup {c} /\ c \notin R
      BY <2>1
    <3> QED
      BY <1>1, <2>1, <3>1, FS_AddElement
  <2>2. CASE c \notin S
    <3>1. S = R
      BY <2>2
    <3> QED
      BY <1>1, <2>2, <3>1
  <2> QED
    BY <2>1, <2>2
<1>3. Cardinality(T) = Cardinality(R) + (IF c \in T THEN 1 ELSE 0)
  <2>1. CASE c \in T
    <3>1. T = R \cup {c} /\ c \notin R
      BY <2>1
    <3> QED
      BY <1>1, <2>1, <3>1, FS_AddElement
  <2>2. CASE c \notin T
    <3>1. T = R
      BY <2>2
    <3> QED
      BY <1>1, <2>2, <3>1
  <2> QED
    BY <2>1, <2>2
<1> QED
  BY <1>1, <1>2, <1>3

\* How the sets change when handler c becomes r.
Counted(c, r, t) ==
  /\ Cardinality(Holding(t)) \in Nat /\ Cardinality(Judging(t)) \in Nat
  /\ Holds(request[c], t) => Cardinality(Holding(t)) > 0
  /\ Judges(request[c], t) => Cardinality(Judging(t)) > 0
  /\ Cardinality(Holding(t))' =
       (Cardinality(Holding(t)) + (IF Holds(r, t) THEN 1 ELSE 0))
         - (IF Holds(request[c], t) THEN 1 ELSE 0)
  /\ Cardinality(Judging(t))' =
       (Cardinality(Judging(t)) + (IF Judges(r, t) THEN 1 ELSE 0))
         - (IF Judges(request[c], t) THEN 1 ELSE 0)

\* A step of one handler counts only in what that handler holds.
LEMMA HandlerCounts ==
  ASSUME FormalInv, NEW c \in FormalCallers, NEW r, request' = [request EXCEPT ![c] = r],
         NEW t \in Tools
  PROVE  Counted(c, r, t)
<1>1. /\ IsFiniteSet(Holding(t)) /\ IsFiniteSet(Judging(t))
  BY FormalAssumption, FS_Subset DEF Holding, Judging
<1>2. /\ request'[c] = r
      /\ \A d \in FormalCallers \ {c} : request'[d] = request[d]
  BY DEF FormalInv
<1>3. /\ Holding(t)' \ {c} = Holding(t) \ {c} /\ Judging(t)' \ {c} = Judging(t) \ {c}
      /\ c \in Holding(t) <=> Holds(request[c], t)
      /\ c \in Judging(t) <=> Judges(request[c], t)
      /\ c \in Holding(t)' <=> Holds(r, t)
      /\ c \in Judging(t)' <=> Judges(r, t)
  BY <1>2 DEF Holding, Judging, Holds, Judges
<1>4. /\ Cardinality(Holding(t)) \in Nat /\ (c \in Holding(t) => Cardinality(Holding(t)) > 0)
      /\ Cardinality(Holding(t)') =
           (Cardinality(Holding(t)) + (IF c \in Holding(t)' THEN 1 ELSE 0))
             - (IF c \in Holding(t) THEN 1 ELSE 0)
  BY <1>1, <1>3, OneElement
<1>5. /\ Cardinality(Judging(t)) \in Nat /\ (c \in Judging(t) => Cardinality(Judging(t)) > 0)
      /\ Cardinality(Judging(t)') =
           (Cardinality(Judging(t)) + (IF c \in Judging(t)' THEN 1 ELSE 0))
             - (IF c \in Judging(t) THEN 1 ELSE 0)
  BY <1>1, <1>3, OneElement
<1> QED
  BY <1>3, <1>4, <1>5 DEF Counted

\* What is left of a portfolio.
LEMMA AdvanceOK ==
  ASSUME FormalInv, NEW c \in FormalCallers, NEW stop, Advance(c, stop),
         request[c].at # "idle"
  PROVE  \E r : /\ request' = [request EXCEPT ![c] = r] /\ RequestOK(r)
                /\ r.at \in {"idle", "lookup"}
<1> DEFINE q == request[c]
           n == [q EXCEPT !.at = "lookup", !.todo = Tail(q.todo)]
           r == IF stop \/ Len(q.todo) = 1 THEN NoRequest ELSE n
<1>1. request' = [request EXCEPT ![c] = r]
  BY DEF Advance, FormalInv
<1>2. RequestOK(q)
  BY DEF FormalInv
<1>3. RequestOK(NoRequest) /\ NoRequest.at = "idle"
  BY DEF RequestOK, NoRequest, Requests
<1>4. ASSUME Len(q.todo) # 1
      PROVE  RequestOK(n) /\ n.at = "lookup"
  <2>1. q.todo \in Seq(Sources) /\ q.todo # <<>> /\ q.tool \in Tools
    BY <1>2 DEF RequestOK, Requests
  <2>2. Tail(q.todo) \in Seq(Sources) /\ Len(Tail(q.todo)) = Len(q.todo) - 1
    BY <2>1, HeadTailProperties
  <2>3. Tail(q.todo) # <<>>
    <3>1. Len(q.todo) \in Nat /\ Len(Tail(q.todo)) # 0
      BY <1>4, <2>1, <2>2, LenProperties
    <3> QED
      BY <3>1, EmptySeq
  <2> QED
    BY <1>2, <2>1, <2>2, <2>3 DEF RequestOK, Requests
<1> QED
  BY <1>1, <1>3, <1>4

\* No call yet, an empty cache, the whole budget.
LEMMA FormalInitInv == ASSUME FormalInit PROVE FormalInv
<1>1. \A t \in Tools : Holding(t) = {} /\ Judging(t) = {}
  BY DEF FormalInit, Holding, Judging, NoRequest
<1>2. UnitsCounted
  <2>1. ASSUME NEW t \in Tools
        PROVE  Cardinality(Holding(t)) = 0 /\ Cardinality(Judging(t)) = 0
    BY <1>1, FS_EmptySet, Zenon
  <2>2. ASSUME NEW t \in Tools
        PROVE  units[t] = 0 /\ jobs[t] = 0 /\ reported[t] = 0 /\ UnitLimit \in Nat
    BY FormalAssumption DEF FormalInit, PerTool
  <2> QED
    BY <2>1, <2>2 DEF UnitsCounted
<1>3. \A c \in FormalCallers : RequestOK(request[c])
  BY DEF FormalInit, RequestOK, Requests, NoRequest
<1> QED
  BY <1>2, <1>3 DEF FormalInit, FormalInv, CountsOK, CacheOK, PerTool, RequestOK

\* A handler's move that touches neither the budget nor a Judge call.
LEMMA QuietMove ==
  ASSUME FormalInv, NEW c \in FormalCallers, NEW r, request' = [request EXCEPT ![c] = r],
         RequestOK(r), candidate' = candidate, formalCache' = formalCache,
         callCount' \in [Tools -> Nat], UNCHANGED <<units, jobs, reported>>,
         r.at \notin {"reserved", "judging"}, request[c].at \notin {"reserved", "judging"}
  PROVE  FormalInv'
<1>1. ASSUME NEW t \in Tools
      PROVE  /\ Cardinality(Holding(t))' = Cardinality(Holding(t))
             /\ Cardinality(Judging(t))' = Cardinality(Judging(t))
  <2>1. ~Holds(r, t) /\ ~Judges(r, t) /\ ~Holds(request[c], t) /\ ~Judges(request[c], t)
    BY DEF Holds, Judges
  <2>2. Counted(c, r, t)
    BY HandlerCounts
  <2> QED
    BY <2>1, <2>2 DEF Counted
<1>2. UnitsCounted'
  BY <1>1 DEF FormalInv, UnitsCounted
<1>3. /\ request' \in [FormalCallers -> Requests]
      /\ \A d \in FormalCallers : RequestOK(request'[d])
  BY DEF FormalInv, RequestOK
<1> QED
  BY <1>2, <1>3 DEF FormalInv, CountsOK, CacheOK

\* A call begins: its text and context are taken down.
LEMMA BeginStep ==
  ASSUME FormalInv, NEW c \in FormalCallers, NEW tool \in Tools, NEW texts \in SUBSET Seq(Sources),
         Begin(c, tool, texts)
  PROVE  FormalInv'
<1>1. callCount' \in [Tools -> Nat] /\ request[c].at = "idle"
  BY DEF FormalInv, CountsOK, Begin, CountTool, NoRequest
<1>2. PICK r : request' = [request EXCEPT ![c] = r] /\ RequestOK(r) /\ r.at \in {"idle", "lookup"}
  <2>1. CASE UNCHANGED request
    BY <1>1, <2>1 DEF FormalInv
  <2>2. CASE request' # request
    <3>1. PICK todo \in texts :
            request' = [request EXCEPT ![c] =
              IF todo = <<>> THEN NoRequest
              ELSE [tool |-> tool, at |-> "lookup", todo |-> todo, judged |-> <<>>]]
      BY <2>2 DEF Begin
    <3> DEFINE n == [tool |-> tool, at |-> "lookup", todo |-> todo, judged |-> <<>>]
    <3>2. todo \in Seq(Sources) /\ <<>> \in Seq(Sources)
      BY EmptySeq
    <3>3. RequestOK(NoRequest) /\ NoRequest.at = "idle"
      BY <3>2 DEF RequestOK, NoRequest, Requests
    <3>4. ASSUME todo # <<>> PROVE RequestOK(n) /\ n.at = "lookup"
      BY <3>2, <3>4 DEF RequestOK, Requests
    <3> QED
      BY <3>1, <3>3, <3>4
  <2> QED
    BY <2>1, <2>2
<1> QED
  BY <1>1, <1>2, QuietMove DEF Begin

\* The cache answers, or the call goes on.
LEMMA LookUpStep ==
  ASSUME FormalInv, NEW c \in FormalCallers, LookUp(c)
  PROVE  FormalInv'
<1>1. request[c].at = "lookup" /\ callCount' \in [Tools -> Nat]
  BY DEF LookUp, budgetVars, FormalInv, CountsOK
<1>2. PICK r : /\ request' = [request EXCEPT ![c] = r] /\ RequestOK(r)
               /\ r.at \in {"idle", "lookup", "missed"}
  <2>1. CASE Goto(c, "missed")
    <3> DEFINE n == [request[c] EXCEPT !.at = "missed"]
    <3>1. RequestOK(n) /\ n.at = "missed"
      BY <1>1 DEF FormalInv, RequestOK, Requests
    <3> QED
      BY <2>1, <3>1 DEF Goto
  <2>2. CASE \E closed \in BOOLEAN : Advance(c, closed)
    BY <1>1, <2>2, AdvanceOK
  <2> QED
    BY <2>1, <2>2 DEF LookUp
<1> QED
  BY <1>1, <1>2, QuietMove DEF LookUp, budgetVars

\* A probe is reserved against the budget, or the call ends without one.
LEMMA ReserveStep ==
  ASSUME FormalInv, NEW c \in FormalCallers, Reserve(c)
  PROVE  FormalInv'
<1> DEFINE tool == request[c].tool
           n == [request[c] EXCEPT !.at = "reserved"]
<1>1. request[c].at = "missed" /\ tool \in Tools /\ callCount' \in [Tools -> Nat]
  BY DEF Reserve, FormalInv, CountsOK, RequestOK
<1>2. CASE units[tool] >= UnitLimit
  <2>1. PICK r : /\ request' = [request EXCEPT ![c] = r] /\ RequestOK(r)
                 /\ r.at \in {"idle", "lookup"}
    BY <1>1, <1>2, AdvanceOK DEF Reserve
  <2> QED
    BY <1>1, <1>2, <2>1, QuietMove DEF Reserve
<1>3. CASE ~(units[tool] >= UnitLimit)
  <2>1. /\ request' = [request EXCEPT ![c] = n]
        /\ units' = [units EXCEPT ![tool] = @ + 1]
        /\ UNCHANGED <<candidate, callCount, formalCache, jobs, reported>>
    BY <1>3 DEF Reserve, Goto
  <2>2. RequestOK(n) /\ n.at = "reserved" /\ n.tool = tool
    BY <1>1 DEF FormalInv, RequestOK, Requests
  <2>3. ASSUME NEW t \in Tools
        PROVE  /\ Cardinality(Holding(t)) \in Nat /\ Cardinality(Judging(t)) \in Nat
               /\ Cardinality(Holding(t))' =
                    Cardinality(Holding(t)) + (IF t = tool THEN 1 ELSE 0)
               /\ Cardinality(Judging(t))' = Cardinality(Judging(t))
    <3>1. /\ Holds(n, t) <=> t = tool
          /\ ~Judges(n, t) /\ ~Holds(request[c], t) /\ ~Judges(request[c], t)
      BY <1>1, <2>2 DEF Holds, Judges
    <3>2. Counted(c, n, t)
      BY <2>1, HandlerCounts
    <3> QED
      BY <3>1, <3>2 DEF Counted
  <2>4. UnitsCounted'
    BY <1>1, <1>3, <2>1, <2>3, FormalAssumption DEF FormalInv, UnitsCounted, CountsOK
  <2>5. CountsOK'
    BY <1>1, <2>1 DEF FormalInv, CountsOK
  <2> QED
    BY <2>1, <2>2, <2>4, <2>5 DEF FormalInv, CacheOK, RequestOK
<1> QED
  BY <1>2, <1>3

\* The probe gets its job.
LEMMA StartProbeStep ==
  ASSUME FormalInv, NEW c \in FormalCallers, StartProbe(c)
  PROVE  FormalInv'
<1> DEFINE tool == request[c].tool
           n == [request[c] EXCEPT !.at = "judging", !.judged = <<ProbeText(c)>>]
<1>1. request[c].at = "reserved" /\ tool \in Tools
  BY DEF StartProbe, FormalInv, RequestOK
<1>2. RequestOK(n) /\ n.at = "judging" /\ n.tool = tool
  <2>1. Head(request[c].todo) \in Sources
    BY <1>1, HeadTailProperties DEF FormalInv, RequestOK, Requests
  <2>2. <<Head(request[c].todo)>> \in Seq(Sources)
    BY <2>1
  <2>3. request[c] \in Requests /\ request[c].todo # <<>>
    BY <1>1 DEF FormalInv, RequestOK
  <2>4. n \in Requests /\ n.at = "judging" /\ n.tool = tool /\ n.todo = request[c].todo
        /\ n.judged = <<Head(request[c].todo)>>
    BY <2>2, <2>3 DEF Requests, ProbeText
  <2> QED
    BY <1>1, <2>3, <2>4 DEF RequestOK
<1>3. /\ request' = [request EXCEPT ![c] = n]
      /\ jobs' = [jobs EXCEPT ![tool] = @ + 1]
      /\ UNCHANGED <<candidate, callCount, units, reported, formalCache>>
  BY DEF StartProbe, FormalInv
<1>4. ASSUME NEW t \in Tools
      PROVE  /\ Cardinality(Holding(t)) \in Nat /\ Cardinality(Judging(t)) \in Nat
             /\ Cardinality(Holding(t))' = Cardinality(Holding(t))
             /\ Cardinality(Judging(t))' = Cardinality(Judging(t)) + (IF t = tool THEN 1 ELSE 0)
  <2>1. /\ Holds(n, t) <=> t = tool
        /\ Judges(n, t) <=> t = tool
        /\ Holds(request[c], t) <=> t = tool
        /\ ~Judges(request[c], t)
    BY <1>1, <1>2 DEF Holds, Judges
  <2>2. Counted(c, n, t)
    BY <1>3, HandlerCounts
  <2> QED
    BY <2>1, <2>2 DEF Counted
<1>5. UnitsCounted'
  BY <1>1, <1>3, <1>4 DEF FormalInv, UnitsCounted, CountsOK
<1>6. CountsOK'
  BY <1>1, <1>3 DEF FormalInv, CountsOK
<1> QED
  BY <1>2, <1>3, <1>5, <1>6 DEF FormalInv, CacheOK, RequestOK

\* The gate refuses the probe: its reservation goes back.
LEMMA GateRefusedStep ==
  ASSUME FormalInv, NEW c \in FormalCallers, GateRefused(c)
  PROVE  FormalInv'
<1> DEFINE tool == request[c].tool
<1>1. request[c].at = "reserved" /\ tool \in Tools
  BY DEF GateRefused, FormalInv, RequestOK
<1>2. PICK r : /\ request' = [request EXCEPT ![c] = r] /\ RequestOK(r)
               /\ r.at \in {"idle", "lookup"}
  BY <1>1, AdvanceOK DEF GateRefused
<1>3. ASSUME NEW t \in Tools
      PROVE  /\ Cardinality(Holding(t)) \in Nat /\ Cardinality(Judging(t)) \in Nat
             /\ t = tool => Cardinality(Holding(t)) > 0
             /\ Cardinality(Holding(t))' = Cardinality(Holding(t)) - (IF t = tool THEN 1 ELSE 0)
             /\ Cardinality(Judging(t))' = Cardinality(Judging(t))
  <2>1. /\ Holds(request[c], t) <=> t = tool
        /\ ~Holds(r, t) /\ ~Judges(r, t) /\ ~Judges(request[c], t)
    BY <1>1, <1>2 DEF Holds, Judges
  <2>2. Counted(c, r, t)
    BY <1>2, HandlerCounts
  <2> QED
    BY <2>1, <2>2 DEF Counted
<1>4. units[tool] \in Nat \ {0}
  BY <1>1, <1>3 DEF FormalInv, UnitsCounted, CountsOK
<1>5. /\ units' = [units EXCEPT ![tool] = @ - 1]
      /\ UNCHANGED <<candidate, callCount, jobs, reported, formalCache>>
  BY <1>1, <1>4 DEF GateRefused, Refund
<1>6. UnitsCounted'
  BY <1>1, <1>3, <1>4, <1>5, FormalAssumption DEF FormalInv, UnitsCounted, CountsOK
<1>7. CountsOK'
  BY <1>1, <1>4, <1>5 DEF FormalInv, CountsOK
<1> QED
  BY <1>2, <1>5, <1>6, <1>7 DEF FormalInv, CacheOK, RequestOK

\* The end of a call takes its unit and its job with it, or leaves both to the report.
LEMMA EndProbeCounts ==
  ASSUME FormalInv, NEW c \in FormalCallers, NEW outcome \in Outcomes, EndProbe(c, outcome)
  PROVE  UnitsCounted' /\ CountsOK'
<1> DEFINE tool == request[c].tool
<1>1. request[c].at = "judging" /\ tool \in Tools
  BY DEF EndProbe, FormalInv, RequestOK
<1>2. PICK r : /\ request' = [request EXCEPT ![c] = r] /\ RequestOK(r)
               /\ r.at \in {"idle", "lookup"}
  BY <1>1, AdvanceOK DEF EndProbe
<1>3. ASSUME NEW t \in Tools
      PROVE  /\ Cardinality(Holding(t)) \in Nat /\ Cardinality(Judging(t)) \in Nat
             /\ t = tool => Cardinality(Holding(t)) > 0 /\ Cardinality(Judging(t)) > 0
             /\ Cardinality(Holding(t))' = Cardinality(Holding(t)) - (IF t = tool THEN 1 ELSE 0)
             /\ Cardinality(Judging(t))' = Cardinality(Judging(t)) - (IF t = tool THEN 1 ELSE 0)
  <2>1. /\ Holds(request[c], t) <=> t = tool
        /\ Judges(request[c], t) <=> t = tool
        /\ ~Holds(r, t) /\ ~Judges(r, t)
    BY <1>1, <1>2 DEF Holds, Judges
  <2>2. Counted(c, r, t)
    BY <1>2, HandlerCounts
  <2> QED
    BY <2>1, <2>2 DEF Counted
<1>4. units[tool] \in Nat \ {0} /\ jobs[tool] \in Nat \ {0} /\ callCount' = callCount
  BY <1>1, <1>3 DEF FormalInv, UnitsCounted, CountsOK, EndProbe
<1>5. CASE ProvesNoJob(outcome)
  <2>1. /\ units' = [units EXCEPT ![tool] = @ - 1] /\ reported' = reported
        /\ jobs' = [jobs EXCEPT ![tool] = @ - 1]
    BY <1>1, <1>4, <1>5 DEF EndProbe, Refund, ProvesNoJob, RanNoJob
  <2> QED
    BY <1>1, <1>3, <1>4, <2>1, FormalAssumption DEF FormalInv, UnitsCounted, CountsOK
<1>6. CASE ~ProvesNoJob(outcome)
  <2>1. /\ units' = units /\ jobs' = jobs
        /\ reported' = [reported EXCEPT ![tool] = @ + 1]
    BY <1>6 DEF EndProbe, Consume, ProvesNoJob, RanNoJob
  <2>2. CountsOK'
    BY <1>1, <1>4, <2>1 DEF FormalInv, CountsOK
  <2>3. ASSUME NEW t \in Tools
        PROVE  /\ units'[t] = reported'[t] + Cardinality(Holding(t))'
               /\ jobs'[t] = reported'[t] + Cardinality(Judging(t))'
               /\ units'[t] <= UnitLimit
    <3>1. /\ units[t] = reported[t] + Cardinality(Holding(t))
          /\ jobs[t] = reported[t] + Cardinality(Judging(t))
          /\ units[t] <= UnitLimit /\ reported[t] \in Nat
      BY DEF FormalInv, UnitsCounted, CountsOK
    <3>2. reported'[t] = reported[t] + (IF t = tool THEN 1 ELSE 0)
      BY <1>1, <2>1 DEF FormalInv, CountsOK
    <3> QED
      BY <1>3, <2>1, <3>1, <3>2
  <2> QED
    BY <2>2, <2>3 DEF UnitsCounted
<1> QED
  BY <1>5, <1>6

\* The probe's answer is passed on, and kept when it may be.
LEMMA EndProbeStep ==
  ASSUME FormalInv, NEW c \in FormalCallers, NEW outcome \in Outcomes, EndProbe(c, outcome)
  PROVE  FormalInv'
<1> DEFINE tool == request[c].tool
           text == Head(request[c].todo)
           old == formalCache[tool]
           new == [t \in DOMAIN old \cup {text} |->
                     IF t = text THEN request[c].judged[1] ELSE old[t]]
<1>1. /\ request[c].at = "judging" /\ tool \in Tools /\ request[c].judged[1] = text
      /\ candidate' = candidate
  BY DEF EndProbe, FormalInv, RequestOK
<1>2. PICK r : request' = [request EXCEPT ![c] = r] /\ RequestOK(r)
  BY <1>1, AdvanceOK DEF EndProbe
<1>3. \/ formalCache' = formalCache
      \/ formalCache' = [formalCache EXCEPT ![tool] = new]
  BY DEF EndProbe, Remember
<1>4. \A t \in DOMAIN new : new[t] = t
  BY <1>1 DEF FormalInv, CacheOK
<1>5. CacheOK' /\ DOMAIN formalCache' = Tools
  BY <1>1, <1>3, <1>4 DEF FormalInv, CacheOK
<1>6. UnitsCounted' /\ CountsOK'
  BY EndProbeCounts
<1> QED
  BY <1>1, <1>2, <1>5, <1>6 DEF FormalInv, RequestOK

\* Every step keeps the invariant.
LEMMA FormalStep == FormalInv /\ [FormalNext]_formalVars => FormalInv'
<1> SUFFICES ASSUME FormalInv, [FormalNext]_formalVars PROVE FormalInv'
  OBVIOUS
<1>1. ASSUME NEW c \in FormalCallers, BeginEvaluate(c) PROVE FormalInv'
  <2>1. {<<candidate>>} \in SUBSET Seq(Sources)
    <3>1. <<candidate>> \in Seq(Sources)
      BY DEF FormalInv
    <3> QED
      BY <3>1
  <2> QED
    BY <1>1, <2>1, BeginStep DEF BeginEvaluate, Tools
<1>2. ASSUME NEW c \in FormalCallers, BeginQuery(c) PROVE FormalInv'
  <2>1. QueryTexts \in SUBSET Seq(Sources)
    BY FormalAssumption DEF QueryTexts
  <2> QED
    BY <1>2, <2>1, BeginStep DEF BeginQuery, Tools
<1>3. ASSUME NEW c \in FormalCallers,
             LookUp(c) \/ Reserve(c) \/ StartProbe(c) \/ GateRefused(c)
      PROVE  FormalInv'
  BY <1>3, LookUpStep, ReserveStep, StartProbeStep, GateRefusedStep
<1>4. ASSUME NEW c \in FormalCallers, NEW outcome \in Outcomes, EndProbe(c, outcome)
      PROVE  FormalInv'
  BY <1>4, EndProbeStep
<1>5. CASE \/ JobSettles \/ EditFormalCandidate \/ UNCHANGED formalVars
           \/ \E c \in FormalCallers : RevokeCaller(c)
  <2>1. /\ UNCHANGED <<callCount, units, jobs, reported, formalCache, request>>
        /\ candidate' \in Sources
    BY <1>5 DEF JobSettles, EditFormalCandidate, RevokeCaller, formalVars, budgetVars, FormalInv
  <2>2. \A t \in Tools : Holding(t)' = Holding(t) /\ Judging(t)' = Judging(t)
    BY <2>1 DEF Holding, Judging
  <2>3. UnitsCounted'
    BY <2>1, <2>2 DEF FormalInv, UnitsCounted
  <2> QED
    BY <2>1, <2>3 DEF FormalInv, CountsOK, CacheOK
<1> QED
  BY <1>1, <1>2, <1>3, <1>4, <1>5 DEF FormalNext

\* The invariant of every run of the tools.
LEMMA FormalInvariant == FormalSpec => []FormalInv
<1>1. FormalInit => FormalInv
  BY FormalInitInv
<1> QED
  BY <1>1, FormalStep, PTL DEF FormalSpec

\* Whatever calls overlap, fail, are refunded or leave a job behind, a tool's Judge calls
\* stay within the task's budget, and each unit is accounted for by one answer or call.
THEOREM BudgetTheorem == FormalSpec => []BudgetCoversJobs
<1>1. FormalInv => BudgetCoversJobs
  <2> SUFFICES ASSUME FormalInv, NEW t \in Tools
               PROVE  /\ jobs[t] <= UnitLimit
                      /\ units[t] = reported[t] + Cardinality(Holding(t))
    BY DEF BudgetCoversJobs
  <2>1. /\ Cardinality(Judging(t)) <= Cardinality(Holding(t))
        /\ Cardinality(Judging(t)) \in Nat /\ Cardinality(Holding(t)) \in Nat
    <3>1. Judging(t) \subseteq Holding(t) /\ IsFiniteSet(Holding(t)) /\ IsFiniteSet(Judging(t))
      BY FormalAssumption, FS_Subset DEF Holding, Judging
    <3> QED
      BY <3>1, FS_Subset, FS_CardinalityType
  <2> QED
    BY <2>1, FormalAssumption DEF FormalInv, UnitsCounted, CountsOK
<1> QED
  BY <1>1, FormalInvariant, PTL

\* A cached verdict answers for the text it is stored under, whatever the agent does to
\* its candidate between the lookup and the Judge call.
THEOREM CacheTheorem == FormalSpec => []VerdictOfTheText
<1>1. FormalInv => VerdictOfTheText
  BY DEF FormalInv, CacheOK, VerdictOfTheText
<1> QED
  BY <1>1, FormalInvariant, PTL
================================================================================
