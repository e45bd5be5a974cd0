--------------------------- MODULE Allocation_proofs ---------------------------
(***************************************************************************)
(* Proofs about the allocation of a run, for every number of tasks,        *)
(* workers and records: what may be chosen, what the books say of the      *)
(* calls, what a read of the trace store shows, and what its rows make of  *)
(* a trace.                                                                *)
(***************************************************************************)
EXTENDS AllocationChoice, SchedulerLedger, TraceView, TraceProjection, FiniteFacts

--------------------------------------------------------------------------------
\* AllocationChoice: an answer ends in a decision that can be represented, and round robin
\* serves nobody twice before everybody who waits.

\* Counting modulo the number of tasks.
LEMMA Modulo ==
  ASSUME NEW a \in Nat
  PROVE  /\ a < TaskCount => a % TaskCount = a
         /\ TaskCount <= a /\ a < 2 * TaskCount => a % TaskCount = a - TaskCount
BY ChoiceAssumption

\* How far a task is from the cursor.
LEMMA DistanceIs ==
  ASSUME turn \in TaskIds, NEW t \in TaskIds
  PROVE  Distance(t) = IF t >= turn THEN t - turn ELSE (t - turn) + TaskCount
BY Modulo, ChoiceAssumption DEF Distance, TaskIds

\* Whoever waits comes before those who were served since: the next turn is not theirs.
WaitersFirst ==
  \A t \in TaskIds : \A u \in passedBy[t] : Distance(t) < Distance(u)

ChoiceInv ==
  /\ turn \in TaskIds /\ passedBy \in [TaskIds -> SUBSET TaskIds]
  /\ WaitersFirst

\* The next task is the nearest one.
LEMMA RoundRobinIsNearest ==
  ASSUME turn \in TaskIds, NEW E \in SUBSET TaskIds, E # {}
  PROVE  RoundRobin(E) \in E /\ \A u \in E : Distance(RoundRobin(E)) <= Distance(u)
<1>1. \A u \in TaskIds : Distance(u) \in Nat
  BY DistanceIs, ChoiceAssumption DEF TaskIds
<1> DEFINE D == {Distance(u) : u \in E}
<1>2. \E d \in D : \A e \in D : d <= e
  <2>1. D \in SUBSET Nat /\ D # {}
    BY <1>1
  <2> HIDE DEF D
  <2> DEFINE R == {ss \in Nat \X Nat : ss[1] < ss[2]}
  <2>2. IsWellFoundedOn(R, Nat)
    BY NatLessThanWellFounded, Zenon DEF OpToRel
  <2>3. PICK d \in D : \A e \in D : ~ (<<e, d>> \in R)
    <3> HIDE DEF R
    <3> QED
      BY <2>1, <2>2, WFMin
  <2>4. ASSUME NEW e \in D PROVE d <= e
    <3>1. e \in Nat /\ d \in Nat /\ <<e, d>> \notin R
      BY <2>1, <2>3
    <3>2. ~(e < d)
      BY <3>1
    <3> QED
      BY <3>1, <3>2
  <2> QED
    BY <2>4
<1>3. \E t \in E : \A u \in E : Distance(t) <= Distance(u)
  BY <1>2
<1> QED
  BY <1>3 DEF RoundRobin

\* Once the nearest task has had its turn it is the last, and the order of the tasks that
\* were further away is what it was.
LEMMA CursorMoves ==
  ASSUME turn \in TaskIds, NEW x \in TaskIds, turn' = NextTurn(x)
  PROVE  /\ turn' \in TaskIds
         /\ \A t \in TaskIds :
              Distance(t)' = IF Distance(t) > Distance(x)
                             THEN (Distance(t) - Distance(x)) - 1
                             ELSE (Distance(t) - Distance(x)) + (TaskCount - 1)
<1>1. /\ turn' \in TaskIds
      /\ turn' = IF x = TaskCount THEN 1 ELSE x + 1
  BY Modulo, ChoiceAssumption DEF NextTurn, TaskIds
<1>2. ASSUME NEW t \in TaskIds
      PROVE  Distance(t)' = IF t >= turn' THEN t - turn' ELSE (t - turn') + TaskCount
  BY <1>1, Modulo, ChoiceAssumption DEF Distance, TaskIds
<1>3. ASSUME NEW t \in TaskIds
      PROVE  Distance(t) = IF t >= turn THEN t - turn ELSE (t - turn) + TaskCount
  BY <1>3, DistanceIs
<1>4. ASSUME NEW t \in TaskIds
      PROVE  Distance(t)' = IF Distance(t) > Distance(x)
                            THEN (Distance(t) - Distance(x)) - 1
                            ELSE (Distance(t) - Distance(x)) + (TaskCount - 1)
  <2>1. /\ Distance(t)' = IF t >= turn' THEN t - turn' ELSE (t - turn') + TaskCount
        /\ Distance(t) = IF t >= turn THEN t - turn ELSE (t - turn) + TaskCount
        /\ Distance(x) = IF x >= turn THEN x - turn ELSE (x - turn) + TaskCount
    BY <1>2, <1>3
  <2>2. CASE x = TaskCount
    BY <1>1, <2>1, <2>2, ChoiceAssumption DEF TaskIds
  <2>3. CASE x # TaskCount
    BY <1>1, <2>1, <2>3, ChoiceAssumption DEF TaskIds
  <2> QED
    BY <2>2, <2>3
<1> QED
  BY <1>1, <1>4

\* A round-robin turn keeps the order.
LEMMA TurnKeepsOrder ==
  ASSUME ChoiceInv, NEW E \in SUBSET TaskIds, E # {}, TakeTurn(E)
  PROVE  ChoiceInv'
<1> DEFINE x == RoundRobin(E)
<1>1. /\ x \in E /\ \A u \in E : Distance(x) <= Distance(u)
      /\ turn' = NextTurn(x)
      /\ passedBy' = [u \in TaskIds |-> IF u \in E \ {x} THEN passedBy[u] \cup {x} ELSE {}]
  BY RoundRobinIsNearest DEF ChoiceInv, TakeTurn
<1> HIDE DEF x
<1>2. /\ turn' \in TaskIds
      /\ \A t \in TaskIds :
           Distance(t)' = IF Distance(t) > Distance(x)
                          THEN (Distance(t) - Distance(x)) - 1
                          ELSE (Distance(t) - Distance(x)) + (TaskCount - 1)
  BY <1>1, CursorMoves DEF ChoiceInv
<1>3. \A t \in TaskIds : Distance(t) \in 0 .. (TaskCount - 1)
  BY DistanceIs, ChoiceAssumption DEF ChoiceInv, TaskIds
<1>4. ASSUME NEW t \in TaskIds, NEW u \in passedBy'[t]
      PROVE  Distance(t)' < Distance(u)'
  <2>1. t \in E /\ t # x /\ (u \in passedBy[t] \/ u = x) /\ u \in TaskIds
    BY <1>1 DEF ChoiceInv
  <2>2. Distance(t) > Distance(x)
    <3>1. Distance(t) # Distance(x)
      BY <1>1, <2>1, DistanceIs, ChoiceAssumption DEF ChoiceInv, TaskIds
    <3> QED
      BY <1>1, <1>3, <2>1, <3>1
  <2>3. CASE u = x
    BY <1>1, <1>2, <1>3, <2>2, <2>3, ChoiceAssumption
  <2>4. CASE u \in passedBy[t]
    <3>1. Distance(t) < Distance(u)
      BY <2>4 DEF ChoiceInv, WaitersFirst
    <3> QED
      BY <1>1, <1>2, <1>3, <2>1, <2>2, <3>1, ChoiceAssumption
  <2> QED
    BY <2>1, <2>3, <2>4
<1>5. passedBy' \in [TaskIds -> SUBSET TaskIds]
  BY <1>1 DEF ChoiceInv
<1> QED
  BY <1>2, <1>4, <1>5 DEF ChoiceInv, WaitersFirst

\* A turn of somebody is never a second one past a task that waits.
LEMMA TurnIsFair ==
  ASSUME ChoiceInv, NEW E \in SUBSET TaskIds, E # {}, TakeTurn(E),
         NEW t \in TaskIds, RoundRobin(E) \in passedBy[t]
  PROVE  passedBy'[t] = {}
<1> DEFINE x == RoundRobin(E)
<1>1. /\ x \in E /\ \A u \in E : Distance(x) <= Distance(u)
      /\ passedBy' = [u \in TaskIds |-> IF u \in E \ {x} THEN passedBy[u] \cup {x} ELSE {}]
  BY RoundRobinIsNearest DEF ChoiceInv, TakeTurn
<1>2. Distance(t) < Distance(x) /\ Distance(t) \in Nat /\ Distance(x) \in Nat
  BY <1>1, DistanceIs, ChoiceAssumption DEF ChoiceInv, WaitersFirst, TaskIds
<1>3. t \notin E
  BY <1>1, <1>2
<1> QED
  BY <1>1, <1>3

\* The arms that ask a model for the decision itself never take a round-robin turn.
CoreArmsWait == arm \in CoreArms => \A t \in TaskIds : passedBy[t] = {}

\* What DecisionUsable needs of the arms that take turns: nothing.
DecisionInv == ChoiceInv /\ CoreArmsWait /\ DecisionUsable

\* A fresh policy.
LEMMA ChoiceInitInv ==
  ASSUME ChoiceInit
  PROVE  DecisionInv
<1>1. turn \in TaskIds
  BY ChoiceAssumption DEF ChoiceInit, TaskIds
<1>2. passedBy = [t \in TaskIds |-> {}]
  BY DEF ChoiceInit
<1>3. DecisionUsable
  BY DEF ChoiceInit, DecisionUsable, Representable, Unasked
<1> QED
  BY <1>1, <1>2, <1>3 DEF DecisionInv, ChoiceInv, WaitersFirst, CoreArmsWait

\* The flags of a decision, as its outcome wants them.
FlagsAre(d, fallback, invalid, recoverable, horizon) ==
  <<d.fallback, d.invalid, d.recoverable, d.horizon>>
    = <<fallback, invalid, recoverable, horizon>>

\* The outcomes a decision can be constructed with, one at a time.
LEMMA Represented ==
  ASSUME NEW d, d.costed <=> d.outcome # "not_invoked",
         \/ d.outcome = "not_invoked" /\ FlagsAre(d, FALSE, FALSE, FALSE, FALSE)
         \/ d.outcome = "accepted" /\ FlagsAre(d, FALSE, FALSE, FALSE, FALSE)
         \/ d.outcome = "invalid_output" /\ FlagsAre(d, TRUE, TRUE, FALSE, FALSE)
         \/ d.outcome = "provider_error" /\ FlagsAre(d, TRUE, FALSE, TRUE, FALSE)
         \/ d.outcome = "policy_timeout" /\ FlagsAre(d, TRUE, FALSE, FALSE, FALSE)
         \/ d.outcome = "horizon_truncated" /\ FlagsAre(d, FALSE, FALSE, FALSE, TRUE)
  PROVE  Representable(d)
<1>1. CASE d.outcome = "not_invoked" /\ FlagsAre(d, FALSE, FALSE, FALSE, FALSE)
  BY <1>1 DEF FlagsAre, Representable
<1>2. CASE d.outcome = "accepted" /\ FlagsAre(d, FALSE, FALSE, FALSE, FALSE)
  BY <1>2 DEF FlagsAre, Representable
<1>3. CASE d.outcome = "invalid_output" /\ FlagsAre(d, TRUE, TRUE, FALSE, FALSE)
  BY <1>3 DEF FlagsAre, Representable
<1>4. CASE d.outcome = "provider_error" /\ FlagsAre(d, TRUE, FALSE, TRUE, FALSE)
  BY <1>4 DEF FlagsAre, Representable
<1>5. CASE d.outcome = "policy_timeout" /\ FlagsAre(d, TRUE, FALSE, FALSE, FALSE)
  BY <1>5 DEF FlagsAre, Representable
<1>6. CASE d.outcome = "horizon_truncated" /\ FlagsAre(d, FALSE, FALSE, FALSE, TRUE)
  BY <1>6 DEF FlagsAre, Representable
<1> QED
  BY <1>1, <1>2, <1>3, <1>4, <1>5, <1>6

\* What a step of a core arm has to leave.
UsableNext ==
  /\ Representable(decision')
  /\ open' /\ ~decision'.horizon => decision'.task # NoTask

\* The scored arms: the best eligible task, or none.
LEMMA ScoredStep ==
  ASSUME DecisionInv, NEW s \in Snapshots, ChooseScored(s)
  PROVE  DecisionInv'
<1>1. arm' = arm /\ turn' = turn /\ passedBy' = passedBy
  BY DEF ChooseScored
<1>2. ChoiceInv' /\ CoreArmsWait'
  BY <1>1 DEF DecisionInv, ChoiceInv, WaitersFirst, CoreArmsWait, Distance
<1>3. \A t \in s.eligible : t # NoTask
  BY ChoiceAssumption DEF Snapshots, NoTask, TaskIds
<1>4. /\ decision'.outcome = "not_invoked" /\ decision'.costed = FALSE
      /\ FlagsAre(decision', FALSE, FALSE, FALSE, FALSE)
      /\ open' => decision'.task # NoTask
  <2>1. CASE open'
    <3>1. PICK t \in s.eligible : decision' = [Unasked EXCEPT !.task = t]
      BY <2>1 DEF ChooseScored
    <3> QED
      BY <1>3, <3>1 DEF Unasked, FlagsAre
  <2>2. CASE ~open'
    <3>1. decision' = Unasked
      BY <2>2 DEF ChooseScored
    <3> QED
      BY <2>2, <3>1 DEF Unasked, FlagsAre
  <2> QED
    BY <2>1, <2>2
<1>5. UsableNext
  BY <1>4, Represented DEF UsableNext
<1> QED
  BY <1>2, <1>5 DEF DecisionInv, DecisionUsable, UsableNext

\* Whatever a reply is, the response the policy goes on with has its fields.
LEMMA ChargedHasFields ==
  ASSUME NEW r \in Replies
  PROVE  Charged(r) \in Replies
BY DEF Charged, Replies

\* The model's arm: used, unused, or too late, the decision can be represented.
LEMMA ModelStep ==
  ASSUME DecisionInv, NEW s \in Snapshots, NEW reply \in Replies, ChooseByModel(s, reply)
  PROVE  DecisionInv'
<1> DEFINE r == Charged(reply)
<1>1. arm' = arm /\ turn' = turn /\ passedBy' = passedBy
  BY DEF ChooseByModel
<1>2. ChoiceInv' /\ CoreArmsWait'
  BY <1>1 DEF DecisionInv, ChoiceInv, WaitersFirst, CoreArmsWait, Distance
<1>3. r \in Replies /\ s.eligible \in SUBSET TaskIds
  BY ChargedHasFields DEF Snapshots
<1>4. r.recoverable \in BOOLEAN /\ r.timedOut \in BOOLEAN /\ r.horizon \in BOOLEAN
  BY <1>3 DEF Replies
<1> HIDE DEF r
<1>t. \A t \in s.eligible : t # NoTask
  BY <1>3, ChoiceAssumption DEF NoTask, TaskIds
<1>5. ASSUME ~open', decision' = Unasked
      PROVE  UsableNext
  <2>1. decision'.outcome = "not_invoked" /\ decision'.costed = FALSE
        /\ FlagsAre(decision', FALSE, FALSE, FALSE, FALSE)
    BY <1>5 DEF Unasked, FlagsAre
  <2> QED
    BY <1>5, <2>1, Represented DEF UsableNext
<1>6. ASSUME decision' = [[Unasked EXCEPT !.outcome = "horizon_truncated", !.horizon = TRUE]
                            EXCEPT !.costed = TRUE]
      PROVE  UsableNext
  <2>1. /\ decision'.outcome = "horizon_truncated" /\ decision'.costed = TRUE
        /\ FlagsAre(decision', FALSE, FALSE, FALSE, TRUE) /\ decision'.horizon = TRUE
    BY <1>6 DEF Unasked, FlagsAre
  <2> QED
    BY <2>1, Represented DEF UsableNext
<1>7. ASSUME r.task \in s.eligible,
             decision' = [[Unasked EXCEPT !.outcome = "accepted", !.task = r.task]
                            EXCEPT !.costed = TRUE]
      PROVE  UsableNext
  <2>1. /\ decision'.outcome = "accepted" /\ decision'.costed = TRUE
        /\ FlagsAre(decision', FALSE, FALSE, FALSE, FALSE) /\ decision'.task # NoTask
    BY <1>t, <1>7 DEF Unasked, FlagsAre
  <2> QED
    BY <2>1, Represented DEF UsableNext
<1>8. ASSUME NEW t \in s.eligible,
             decision' = [[Unasked EXCEPT !.outcome = Outcome(r), !.task = t, !.fallback = TRUE,
                             !.invalid = Outcome(r) = "invalid_output",
                             !.recoverable = r.recoverable \/ Outcome(r) = "provider_error"]
                            EXCEPT !.costed = TRUE]
      PROVE  UsableNext
  <2>1. /\ decision'.outcome = Outcome(r) /\ decision'.costed = TRUE
        /\ decision'.task = t /\ decision'.fallback = TRUE /\ decision'.horizon = FALSE
        /\ decision'.invalid = (Outcome(r) = "invalid_output")
        /\ decision'.recoverable = (r.recoverable \/ Outcome(r) = "provider_error")
    BY <1>8 DEF Unasked
  <2>2. CASE Outcome(r) = "provider_error"
    <3>1. FlagsAre(decision', TRUE, FALSE, TRUE, FALSE)
      BY <2>1, <2>2 DEF FlagsAre
    <3> QED
      BY <1>t, <2>1, <2>2, <3>1, Represented DEF UsableNext
  <2>3. CASE Outcome(r) = "policy_timeout"
    <3>1. r.recoverable = FALSE
      BY <1>4, <2>3 DEF Outcome
    <3>2. FlagsAre(decision', TRUE, FALSE, FALSE, FALSE)
      BY <2>1, <2>3, <3>1 DEF FlagsAre
    <3> QED
      BY <1>t, <2>1, <2>3, <3>2, Represented DEF UsableNext
  <2>4. CASE Outcome(r) = "invalid_output"
    <3>1. r.recoverable = FALSE
      BY <1>4, <2>4 DEF Outcome
    <3>2. FlagsAre(decision', TRUE, TRUE, FALSE, FALSE)
      BY <2>1, <2>4, <3>1 DEF FlagsAre
    <3> QED
      BY <1>t, <2>1, <2>4, <3>2, Represented DEF UsableNext
  <2> QED
    BY <2>2, <2>3, <2>4 DEF Outcome
<1>9. UsableNext
  BY <1>5, <1>6, <1>7, <1>8, Zenon DEF ChooseByModel, FallbackTasks, r
<1> QED
  BY <1>2, <1>9 DEF DecisionInv, DecisionUsable, UsableNext

\* A turn is taken by the arms that go round.
LEMMA UniformStep ==
  ASSUME DecisionInv, NEW s \in Snapshots, ChooseUniform(s)
  PROVE  DecisionInv'
<1>1. s.eligible \in SUBSET TaskIds /\ s.eligible # {} /\ TakeTurn(s.eligible)
  BY DEF Snapshots, ChooseUniform
<1>2. arm' \notin CoreArms
  BY DEF ChooseUniform, CoreArms, RoundRobinArms
<1> QED
  BY <1>1, <1>2, TurnKeepsOrder DEF DecisionInv, CoreArmsWait, DecisionUsable

\* The agent's own choice takes tasks off the lists of those who wait, and adds none.
LEMMA AgentStep ==
  ASSUME DecisionInv, NEW s \in Snapshots, NEW r \in Replies, ChooseByAgent(s, r)
  PROVE  DecisionInv'
<1>1. s.eligible \in SUBSET TaskIds /\ s.eligible # {}
  BY DEF Snapshots, ChooseByAgent
<1>2. arm' \notin CoreArms
  BY DEF ChooseByAgent, CoreArms
<1>3. ASSUME TakeTurn(s.eligible) PROVE ChoiceInv'
  BY <1>1, <1>3, TurnKeepsOrder DEF DecisionInv
<1>4. ASSUME UNCHANGED <<turn, passedBy>> PROVE ChoiceInv'
  BY <1>4 DEF DecisionInv, ChoiceInv, WaitersFirst, Distance
<1>5. ASSUME passedBy' = [u \in TaskIds |->
                            IF u \in s.eligible \ {r.task} THEN passedBy[u] ELSE {}],
             UNCHANGED turn
      PROVE  ChoiceInv'
  <2>1. passedBy' \in [TaskIds -> SUBSET TaskIds]
    BY <1>5 DEF DecisionInv, ChoiceInv
  <2>2. \A t \in TaskIds : passedBy'[t] \subseteq passedBy[t]
    BY <1>5
  <2> QED
    BY <1>5, <2>1, <2>2 DEF DecisionInv, ChoiceInv, WaitersFirst, Distance
<1>6. ChoiceInv'
  BY <1>3, <1>4, <1>5 DEF ChooseByAgent
<1> QED
  BY <1>2, <1>6 DEF DecisionInv, CoreArmsWait, DecisionUsable

\* The invariant of every run of a policy.
LEMMA ChoiceInvariant == ChoiceSpec => []DecisionInv
<1>1. DecisionInv /\ UNCHANGED choiceVars => DecisionInv'
  <2> SUFFICES ASSUME DecisionInv, UNCHANGED choiceVars PROVE DecisionInv'
    OBVIOUS
  <2>1. ChoiceInv' /\ CoreArmsWait'
    BY DEF choiceVars, DecisionInv, ChoiceInv, WaitersFirst, Distance, CoreArmsWait
  <2>2. DecisionUsable'
    BY DEF choiceVars, DecisionInv, DecisionUsable
  <2> QED
    BY <2>1, <2>2 DEF DecisionInv
<1>2. DecisionInv /\ ChoiceNext => DecisionInv'
  BY ScoredStep, ModelStep, UniformStep, AgentStep DEF ChoiceNext
<1> QED
  BY ChoiceInitInv, <1>1, <1>2, PTL DEF ChoiceSpec

\* However the model call ends, the decision can be represented, and with a task, time and
\* a slot it names a task unless the run is over.
THEOREM DecisionsAreUsable == ChoiceSpec => []DecisionUsable
<1>1. DecisionInv => DecisionUsable
  BY DEF DecisionInv
<1> QED
  BY <1>1, ChoiceInvariant, PTL

\* Nobody has a second round-robin turn while a task that stayed eligible waits for its own.
THEOREM TurnsAreShared == ChoiceSpec => EveryoneGetsATurn
<1> DEFINE Shared == \A t, u \in TaskIds :
         (arm = "uniform" \/ decision'.fallback) /\ decision'.task = u /\ u \in passedBy[t]
           => passedBy'[t] = {}
<1>1. ASSUME DecisionInv, ChoiceNext, NEW t \in TaskIds, NEW u \in TaskIds,
             arm = "uniform" \/ decision'.fallback, decision'.task = u, u \in passedBy[t]
      PROVE  passedBy'[t] = {}
  <2>1. arm \notin CoreArms
    BY <1>1 DEF DecisionInv, CoreArmsWait
  <2>2. PICK s \in Snapshots :
          ChooseUniform(s) \/ \E r \in Replies : ChooseByAgent(s, r)
    BY <1>1, <2>1 DEF ChoiceNext, ChooseScored, ChooseByModel, CoreArms
  <2>3. s.eligible \in SUBSET TaskIds /\ s.eligible # {}
    BY <2>2 DEF Snapshots, ChooseUniform, ChooseByAgent
  <2>4. TakeTurn(s.eligible) /\ decision'.task = RoundRobin(s.eligible)
    <3>1. CASE ChooseUniform(s)
      BY <3>1 DEF ChooseUniform, Unasked
    <3>2. ASSUME NEW r \in Replies, ChooseByAgent(s, r)
          PROVE  TakeTurn(s.eligible) /\ decision'.task = RoundRobin(s.eligible)
      BY <1>1, <3>2 DEF ChooseByAgent, Unasked
    <3> QED
      BY <2>2, <3>1, <3>2
  <2> QED
    BY <1>1, <2>3, <2>4, TurnIsFair DEF DecisionInv
<1>2. DecisionInv /\ [ChoiceNext]_choiceVars => [Shared]_choiceVars
  BY <1>1
<1> QED
  BY <1>2, ChoiceInvariant, PTL DEF ChoiceSpec, EveryoneGetsATurn

--------------------------------------------------------------------------------
\* SchedulerLedger: the books of the calls agree at the end of a run without a failure.

Outcomes == Charges \cup {"not_invoked"}
InHand == {"choosing", "returned", "event", "logged", "decided"}

DecisionsOn(i) == {d \in decided : d[1] = i}
RowsOn(i) == {r \in rows : r[1] = i}

\* What the books say of a decision that is at `at` with the outcome o.
Fits(i, at, o) ==
  /\ i \in staged => at = "returned" /\ o \in Charges
  /\ at \in {"event", "logged", "decided", "recorded"} => o \in Outcomes
  /\ at = "event" => o \in Charges
  /\ IF at \in {"event", "logged", "decided", "recorded"} /\ o \in Charges
     THEN i \in finalized /\ results[i] = 1 /\ finished[i] = IF at = "event" THEN 0 ELSE 1
     ELSE i \notin finalized /\ results[i] = 0 /\ finished[i] = 0
  /\ DecisionsOn(i) = IF at \in {"decided", "recorded"} THEN {<<i, o>>} ELSE {}
  /\ IF at = "recorded" THEN \E d \in Dispositions : RowsOn(i) = {<<i, o, d>>} ELSE RowsOn(i) = {}

Index(w) == claims[w].index
Owned(i) == \E w \in Deciders : claims[w].at \in InHand /\ Index(w) = i
NoneRaised == ~runFailed /\ \A w \in Deciders : claims[w].at # "raised"

LedgerTypes ==
  /\ issued \in 0 .. DecisionLimit /\ runFailed \in BOOLEAN
  /\ staged \subseteq Decisions /\ finalized \subseteq Decisions
  /\ results \in [Decisions -> Nat] /\ finished \in [Decisions -> Nat]
  /\ decided \subseteq Decisions \X Outcomes /\ rows \subseteq Decisions \X Outcomes \X Dispositions
  /\ claims \in [Deciders -> [at : InHand \cup {"idle", "raised", "over"}, index : 0 .. issued,
                              outcome : Outcomes \cup {"none"}]]

\* Every decision has one owner until its row is written; as long as nobody has raised,
\* nothing of it is ever lost.
LedgerInv ==
  /\ LedgerTypes
  /\ \A w \in Deciders : claims[w].at \in InHand => Index(w) > 0
  /\ \A w, v \in Deciders :
       claims[w].at \in InHand /\ claims[v].at \in InHand /\ Index(w) = Index(v) => w = v
  /\ \A w \in Deciders :
       claims[w].at \in InHand \ {"choosing"} => claims[w].outcome \in Outcomes
  /\ NoneRaised =>
       /\ \A w \in Deciders, i \in Decisions, at \in InHand, o \in Outcomes \cup {"none"} :
            claims[w] = Claim(at, i, o) => Fits(i, at, o)
       /\ \A i \in Decisions : ~Owned(i) =>
            IF i > issued THEN Fits(i, "choosing", "none")
            ELSE \E o \in Outcomes : Fits(i, "recorded", o)
  /\ verdict # "none" => \A w \in Deciders : At(w, "over")
  /\ LedgersAgree

\* A decision's entries in the books stay as they are.
Kept(i) ==
  /\ (i \in staged)' = (i \in staged) /\ (i \in finalized)' = (i \in finalized)
  /\ results'[i] = results[i] /\ finished'[i] = finished[i]
  /\ DecisionsOn(i)' = DecisionsOn(i) /\ RowsOn(i)' = RowsOn(i)

\* What is said of a decision depends on its own entries only.
LEMMA KeptFits ==
  ASSUME NEW i, Kept(i), NEW at, NEW o
  PROVE  Fits(i, at, o)' <=> Fits(i, at, o)
BY DEF Kept, Fits

\* A worker that goes on with its decision, or is done with it.
LEMMA WorkerGoesOn ==
  ASSUME LedgerInv, NEW w \in Deciders, NEW at1 \in InHand, NEW n \in Decisions,
         NEW o1 \in Outcomes \cup {"none"}, claims[w] = Claim(at1, n, o1),
         NEW at2 \in InHand \cup {"idle"}, NEW o2 \in Outcomes \cup {"none"},
         claims' = [claims EXCEPT ![w] = Claim(at2, n, o2)],
         at2 \in InHand \ {"choosing"} => o2 \in Outcomes,
         at2 = "idle" => o1 \in Outcomes,
         UNCHANGED <<issued, runFailed, verdict>>, LedgerTypes',
         \A i \in Decisions \ {n} : Kept(i),
         NoneRaised => IF at2 = "idle" THEN Fits(n, "recorded", o1)' ELSE Fits(n, at2, o2)'
  PROVE  LedgerInv'
<1>1. /\ claims'[w] = Claim(at2, n, o2) /\ claims'[w].at = at2 /\ claims'[w].index = n
      /\ claims'[w].outcome = o2 /\ claims[w].at = at1 /\ Index(w) = n
      /\ \A v \in Deciders \ {w} : claims'[v] = claims[v]
  BY DEF LedgerInv, LedgerTypes, Claim, Index
<1>2. n <= issued
  BY <1>1, LedgerAssumption DEF LedgerInv, LedgerTypes, Index, Decisions
<1>3. verdict' = "none"
  BY <1>1 DEF LedgerInv, At, InHand
<1>4. \A v \in Deciders : claims'[v].at \in InHand => claims'[v].index > 0
  BY <1>1 DEF LedgerInv, Index
<1>5. \A u, v \in Deciders :
        claims'[u].at \in InHand /\ claims'[v].at \in InHand /\ claims'[u].index = claims'[v].index
          => u = v
  BY <1>1 DEF LedgerInv, Index
<1>6. \A v \in Deciders : claims'[v].at \in InHand \ {"choosing"} => claims'[v].outcome \in Outcomes
  BY <1>1 DEF LedgerInv
<1>7. ASSUME NoneRaised'
      PROVE  /\ \A v \in Deciders, i \in Decisions, at \in InHand, o \in Outcomes \cup {"none"} :
                  claims'[v] = Claim(at, i, o) => Fits(i, at, o)'
             /\ \A i \in Decisions : ~Owned(i)' =>
                  IF i > issued THEN Fits(i, "choosing", "none")'
                  ELSE \E o \in Outcomes : Fits(i, "recorded", o)'
  <2>1. NoneRaised
    BY <1>1, <1>7 DEF NoneRaised, InHand
  <2>2. ASSUME NEW v \in Deciders, NEW i \in Decisions, NEW at \in InHand,
               NEW o \in Outcomes \cup {"none"}, claims'[v] = Claim(at, i, o)
        PROVE  Fits(i, at, o)'
    <3>0. claims'[v].at = at /\ claims'[v].index = i /\ claims'[v].outcome = o
      BY <2>2 DEF Claim
    <3>1. CASE v = w
      <4>1. i = n /\ at = at2 /\ o = o2 /\ at2 # "idle"
        BY <1>1, <3>0, <3>1 DEF InHand
      <4> QED
        BY <2>1, <4>1
    <3>2. CASE v # w
      <4>1. claims[v] = Claim(at, i, o) /\ claims[v].at \in InHand /\ Index(v) = i
        BY <1>1, <2>2, <3>0, <3>2 DEF Index
      <4>2. Fits(i, at, o) /\ i # n
        BY <1>1, <2>1, <3>2, <4>1 DEF LedgerInv
      <4> QED
        BY <4>2, KeptFits
    <3> QED
      BY <3>1, <3>2
  <2>3. ASSUME NEW i \in Decisions, ~Owned(i)'
        PROVE  IF i > issued THEN Fits(i, "choosing", "none")'
               ELSE \E o \in Outcomes : Fits(i, "recorded", o)'
    <3>1. CASE i = n
      <4>1. at2 = "idle"
        BY <1>1, <2>3, <3>1 DEF Owned, Index
      <4>2. Fits(i, "recorded", o1)' /\ o1 \in Outcomes
        BY <2>1, <3>1, <4>1
      <4>3. ~(i > issued)
        BY <1>2, <3>1, LedgerAssumption DEF LedgerInv, LedgerTypes, Decisions
      <4> QED
        BY <4>2, <4>3
    <3>2. CASE i # n
      <4>1. ~Owned(i)
        BY <1>1, <2>3, <3>2 DEF Owned, Index
      <4>2. IF i > issued THEN Fits(i, "choosing", "none")
            ELSE \E o \in Outcomes : Fits(i, "recorded", o)
        BY <2>1, <2>3, <4>1 DEF LedgerInv
      <4>3. Kept(i)
        BY <2>3, <3>2
      <4> QED
        BY <4>2, <4>3, KeptFits
    <3> QED
      BY <3>1, <3>2
  <2> QED
    BY <2>2, <2>3
<1>8. LedgersAgree'
  BY <1>3 DEF LedgersAgree
<1> QED
  BY <1>3, <1>4, <1>5, <1>6, <1>7, <1>8 DEF LedgerInv, Index

\* The same for a worker that goes on, without the case of the one that is done.
LEMMA WorkerProceeds ==
  ASSUME LedgerInv, NEW w \in Deciders, NEW at1 \in InHand, NEW n \in Decisions,
         NEW o1 \in Outcomes \cup {"none"}, claims[w] = Claim(at1, n, o1),
         NEW at2 \in InHand, NEW o2 \in Outcomes,
         claims' = [claims EXCEPT ![w] = Claim(at2, n, o2)],
         UNCHANGED <<issued, runFailed, verdict>>, LedgerTypes',
         \A i \in Decisions \ {n} : Kept(i),
         NoneRaised => Fits(n, at2, o2)'
  PROVE  LedgerInv'
<1>1. /\ at2 \in InHand \cup {"idle"} /\ at2 # "idle" /\ o2 \in Outcomes \cup {"none"}
  BY DEF InHand
<1>2. NoneRaised =>
        IF at2 = "idle" THEN Fits(n, "recorded", o1)' ELSE Fits(n, at2, o2)'
  BY <1>1
<1> QED
  BY <1>1, <1>2, WorkerGoesOn

\* A worker that raises: nothing is promised of a run that has failed.
LEMMA WorkerRaises ==
  ASSUME LedgerInv, NEW w \in Deciders, claims[w].at \in InHand, Raise(w),
         UNCHANGED <<issued, runFailed, verdict>>, LedgerTypes'
  PROVE  LedgerInv'
<1>1. /\ claims'[w].at = "raised"
      /\ \A v \in Deciders \ {w} : claims'[v] = claims[v]
  BY DEF Raise, LedgerInv, LedgerTypes
<1>2. ~NoneRaised' /\ "raised" \notin InHand
  BY <1>1 DEF NoneRaised, InHand
<1>3. verdict' = "none"
  BY DEF LedgerInv, At, InHand
<1>4. LedgersAgree'
  BY <1>3 DEF LedgersAgree
<1> QED
  BY <1>1, <1>2, <1>3, <1>4 DEF LedgerInv, Index

\* What a worker has in hand.
LEMMA WorkerHolds ==
  ASSUME LedgerInv, NEW w \in Deciders, NEW at \in InHand, At(w, at)
  PROVE  \E n \in Decisions, o \in Outcomes \cup {"none"} :
           /\ claims[w] = Claim(at, n, o) /\ claims[w].index = n /\ claims[w].outcome = o
           /\ at # "choosing" => o \in Outcomes
           /\ NoneRaised => Fits(n, at, o)
<1>1. PICK n, o : n = claims[w].index /\ o = claims[w].outcome
  OBVIOUS
<1>2. claims[w] = Claim(at, n, o) /\ o \in Outcomes \cup {"none"} /\ claims[w].at = at
  BY <1>1 DEF LedgerInv, LedgerTypes, At, Claim
<1>3. n \in Decisions
  <2>1. n \in 0 .. issued /\ issued \in 0 .. DecisionLimit
    BY <1>1 DEF LedgerInv, LedgerTypes
  <2>2. n > 0
    BY <1>1, <1>2 DEF LedgerInv, Index
  <2> QED
    BY <2>1, <2>2, LedgerAssumption DEF Decisions
<1> QED
  BY <1>1, <1>2, <1>3 DEF LedgerInv

\* The types are kept by whoever changes only its own place.
LEMMA PlaceTypes ==
  ASSUME LedgerTypes, NEW w \in Deciders, UNCHANGED <<issued, books, runFailed>>,
         NEW at \in InHand \cup {"idle", "raised", "over"}, NEW n \in 0 .. issued,
         NEW o \in Outcomes \cup {"none"}, claims' = [claims EXCEPT ![w] = Claim(at, n, o)]
  PROVE  LedgerTypes'
BY DEF LedgerTypes, books, Claim

\* The books are empty at first.
LEMMA LedgerInitInv == LedgerInit => LedgerInv
<1> SUFFICES ASSUME LedgerInit PROVE LedgerInv
  OBVIOUS
<1> USE LedgerAssumption DEF LedgerInit, Claim
<1>1. LedgerTypes
  <2>1. claims \in [Deciders -> [at : InHand \cup {"idle", "raised", "over"}, index : 0 .. issued,
                                 outcome : Outcomes \cup {"none"}]]
    BY DEF InHand
  <2>2. results \in [Decisions -> Nat] /\ finished \in [Decisions -> Nat]
    OBVIOUS
  <2>3. issued \in 0 .. DecisionLimit
    OBVIOUS
  <2>4. runFailed \in BOOLEAN
    OBVIOUS
  <2> QED
    BY <2>4, <2>3, <2>2, <2>1 DEF LedgerTypes
<1>2. \A w \in Deciders : claims[w].at = "idle" /\ "idle" \notin InHand
  BY DEF InHand
<1>3. \A i \in Decisions : i > issued /\ Fits(i, "choosing", "none")
  BY DEF Fits, Decisions, DecisionsOn, RowsOn
<1>4. \A w \in Deciders, i \in Decisions, at \in InHand, o \in Outcomes \cup {"none"} :
        claims[w] # Claim(at, i, o)
  BY <1>2 DEF Claim
<1> QED
  BY <1>1, <1>2, <1>3, <1>4 DEF LedgerInv, LedgersAgree, Index

\* A new decision takes the next index, of which the books know nothing.
LEMMA LedgerBegins ==
  ASSUME LedgerInv, NEW w \in Deciders, BeginDecision(w)
  PROVE  LedgerInv'
<1> PICK n : n = issued + 1
  OBVIOUS
<1>1. /\ At(w, "idle") /\ issued < DecisionLimit /\ issued' = n /\ n \in Decisions
      /\ claims' = [claims EXCEPT ![w] = Claim("choosing", n, "none")]
      /\ UNCHANGED <<books, runFailed, verdict>>
  BY LedgerAssumption DEF BeginDecision, LedgerInv, LedgerTypes, Decisions
<1>2. LedgerTypes'
  <2>1. n \in 0 .. DecisionLimit /\ 0 .. issued \subseteq 0 .. n /\ n \in 0 .. n
    BY <1>1, LedgerAssumption DEF LedgerInv, LedgerTypes, Decisions
  <2>2. Claim("choosing", n, "none") \in
          [at : InHand \cup {"idle", "raised", "over"}, index : 0 .. n,
           outcome : Outcomes \cup {"none"}]
    BY <2>1 DEF Claim, InHand
  <2>3. claims \in [Deciders -> [at : InHand \cup {"idle", "raised", "over"}, index : 0 .. n,
                                 outcome : Outcomes \cup {"none"}]]
    BY <2>1 DEF LedgerInv, LedgerTypes
  <2>4. claims' \in [Deciders -> [at : InHand \cup {"idle", "raised", "over"}, index : 0 .. n,
                                 outcome : Outcomes \cup {"none"}]]
    BY <1>1, <2>2, <2>3
  <2> QED
    BY <1>1, <2>1, <2>4 DEF LedgerInv, LedgerTypes, books
<1>3. /\ claims'[w] = Claim("choosing", n, "none") /\ claims'[w].at = "choosing"
      /\ claims'[w].index = n /\ claims'[w].outcome = "none"
      /\ \A v \in Deciders \ {w} : claims'[v] = claims[v]
  BY <1>1 DEF LedgerInv, LedgerTypes, Claim
<1>4. \A v \in Deciders : claims[v].index # n /\ claims[v].index \in Nat
  BY <1>1 DEF LedgerInv, LedgerTypes
<1>5. verdict' = "none"
  BY <1>1 DEF LedgerInv, At
<1>6. \A i \in Decisions : Kept(i)
  BY <1>1 DEF Kept, books, DecisionsOn, RowsOn
<1>7. ASSUME NoneRaised'
      PROVE  /\ \A v \in Deciders, i \in Decisions, at \in InHand, o \in Outcomes \cup {"none"} :
                  claims'[v] = Claim(at, i, o) => Fits(i, at, o)'
             /\ \A i \in Decisions : ~Owned(i)' =>
                  IF i > n THEN Fits(i, "choosing", "none")'
                  ELSE \E o \in Outcomes : Fits(i, "recorded", o)'
  <2>1. NoneRaised
    BY <1>1, <1>3, <1>7 DEF NoneRaised, At
  <2>2. ASSUME NEW v \in Deciders, NEW i \in Decisions, NEW at \in InHand,
               NEW o \in Outcomes \cup {"none"}, claims'[v] = Claim(at, i, o)
        PROVE  Fits(i, at, o)'
    <3>1. CASE v = w
      <4>1. i = n /\ at = "choosing" /\ o = "none"
        BY <1>3, <2>2, <3>1 DEF Claim
      <4>2. ~Owned(i) /\ i > issued
        BY <1>1, <1>4, <4>1 DEF Owned, Index, LedgerInv, LedgerTypes
      <4>3. Fits(i, "choosing", "none")
        BY <2>1, <4>2 DEF LedgerInv
      <4> QED
        BY <1>6, <4>1, <4>3, KeptFits
    <3>2. CASE v # w
      <4>1. Fits(i, at, o)
        BY <1>3, <2>1, <2>2, <3>2 DEF LedgerInv
      <4> QED
        BY <1>6, <4>1, KeptFits
    <3> QED
      BY <3>1, <3>2
  <2>3. ASSUME NEW i \in Decisions, ~Owned(i)'
        PROVE  IF i > n THEN Fits(i, "choosing", "none")'
               ELSE \E o \in Outcomes : Fits(i, "recorded", o)'
    <3>1. i # n /\ ~Owned(i)
      <4>1. claims[w].at \notin InHand /\ "choosing" \in InHand
        BY <1>1 DEF At, InHand
      <4> QED
        BY <1>3, <2>3, <4>1 DEF Owned, Index
    <3>2. i > n <=> i > issued
      BY <1>1, <3>1, LedgerAssumption DEF LedgerInv, LedgerTypes, Decisions
    <3>3. IF i > issued THEN Fits(i, "choosing", "none")
          ELSE \E o \in Outcomes : Fits(i, "recorded", o)
      BY <2>1, <3>1 DEF LedgerInv
    <3> QED
      BY <1>6, <3>2, <3>3, KeptFits
  <2> QED
    BY <2>2, <2>3
<1>8. LedgersAgree'
  BY <1>5 DEF LedgersAgree
<1>9. \A v \in Deciders : claims'[v].at \in InHand => claims'[v].index > 0
  BY <1>1, <1>3 DEF LedgerInv, Index, Decisions
<1>10. \A u, v \in Deciders :
        claims'[u].at \in InHand /\ claims'[v].at \in InHand /\ claims'[u].index = claims'[v].index
          => u = v
  BY <1>3, <1>4 DEF LedgerInv, Index
<1>11. \A v \in Deciders : claims'[v].at \in InHand \ {"choosing"} => claims'[v].outcome \in Outcomes
  BY <1>3 DEF LedgerInv
<1> QED
  BY <1>1, <1>2, <1>5, <1>7, <1>8, <1>9, <1>10, <1>11 DEF LedgerInv, Index

\* Before the call is charged the books know nothing of it.
LEMMA NothingYet ==
  ASSUME NEW i, NEW at \in {"choosing", "returned"}, NEW o
  PROVE  Fits(i, at, o) <=>
           /\ i \in staged => at = "returned" /\ o \in Charges
           /\ i \notin finalized /\ results[i] = 0 /\ finished[i] = 0
           /\ DecisionsOn(i) = {} /\ RowsOn(i) = {}
BY DEF Fits

\* The call: skipped, staged or never run; in the agent arm its result is recorded.
LEMMA LedgerCalls ==
  ASSUME LedgerInv, NEW w \in Deciders,
         \/ SkipCall(w) \/ CallNeverRan(w)
         \/ \E o \in Charges : StageResult(w, o) \/ RecordResult(w, o)
  PROVE  LedgerInv'
<1>1. At(w, "choosing") /\ "choosing" \in InHand
  BY DEF SkipCall, CallNeverRan, StageResult, RecordResult, InHand
<1>2. PICK n \in Decisions, o1 \in Outcomes \cup {"none"} :
        /\ claims[w] = Claim("choosing", n, o1) /\ claims[w].index = n
        /\ NoneRaised => Fits(n, "choosing", o1)
  BY <1>1, WorkerHolds
<1>3. n \in 0 .. issued /\ LedgerTypes
  BY <1>2 DEF LedgerInv, LedgerTypes
<1>4. ASSUME NEW o \in Outcomes, claims' = [claims EXCEPT ![w] = Claim("returned", n, o)],
             UNCHANGED <<issued, books, runFailed, verdict>>
      PROVE  LedgerInv'
  <2>1. LedgerTypes'
    BY <1>3, <1>4, PlaceTypes DEF InHand
  <2>2. \A i \in Decisions : Kept(i)
    BY <1>4 DEF Kept, books, DecisionsOn, RowsOn
  <2>3. ASSUME Fits(n, "choosing", o1) PROVE Fits(n, "returned", o)
    <3>1. /\ n \notin staged /\ n \notin finalized /\ results[n] = 0 /\ finished[n] = 0
          /\ DecisionsOn(n) = {} /\ RowsOn(n) = {}
      BY <2>3, NothingYet
    <3> QED
      BY <3>1, NothingYet
  <2>4. NoneRaised => Fits(n, "returned", o)'
    BY <1>2, <2>2, <2>3, KeptFits
  <2>5. "returned" \in InHand /\ \A i \in Decisions \ {n} : Kept(i)
    BY <2>2 DEF InHand
  <2> QED
    BY <1>1, <1>2, <1>4, <2>1, <2>4, <2>5, WorkerProceeds
<1>5. CASE SkipCall(w) \/ CallNeverRan(w)
  <2>1. /\ \E o \in Outcomes : claims' = [claims EXCEPT ![w] = Claim("returned", n, o)]
        /\ UNCHANGED <<issued, books, runFailed, verdict>>
    BY <1>2, <1>5 DEF SkipCall, CallNeverRan, Go, Outcomes, Charges
  <2> QED
    BY <1>4, <2>1
<1>6. ASSUME NEW o \in Charges, StageResult(w, o) PROVE LedgerInv'
  <2>1. CASE n \in finalized \cup staged
    <3>1. Raise(w) /\ UNCHANGED <<issued, books, runFailed, verdict>>
      BY <1>2, <1>6, <2>1 DEF StageResult, books
    <3>2. LedgerTypes'
      BY <1>3, <3>1 DEF Raise, LedgerTypes, books
    <3> QED
      BY <1>1, <3>1, <3>2, WorkerRaises DEF At
  <2>2. CASE n \notin finalized \cup staged
    <3>1. /\ claims' = [claims EXCEPT ![w] = Claim("returned", n, o)] /\ staged' = staged \cup {n}
          /\ UNCHANGED <<issued, finalized, results, finished, decided, rows, runFailed, verdict>>
      BY <1>2, <1>6, <2>2 DEF StageResult, Go
    <3>2. LedgerTypes'
      BY <1>3, <3>1 DEF LedgerTypes, Claim, InHand, Outcomes
    <3>3. \A i \in Decisions \ {n} : Kept(i)
      BY <3>1 DEF Kept, DecisionsOn, RowsOn
    <3>4. Fits(n, "choosing", o1) => Fits(n, "returned", o)'
      <4>1. Fits(n, "choosing", o1) =>
              /\ n \notin finalized /\ results[n] = 0 /\ finished[n] = 0
              /\ DecisionsOn(n) = {} /\ RowsOn(n) = {}
        BY NothingYet
      <4>2. DecisionsOn(n)' = DecisionsOn(n) /\ RowsOn(n)' = RowsOn(n)
        BY <3>1 DEF DecisionsOn, RowsOn
      <4>3. Fits(n, "returned", o)' <=>
              /\ n \in staged' => o \in Charges
              /\ n \notin finalized' /\ results'[n] = 0 /\ finished'[n] = 0
              /\ DecisionsOn(n)' = {} /\ RowsOn(n)' = {}
        BY DEF Fits
      <4> QED
        BY <3>1, <4>1, <4>2, <4>3
    <3>5. "returned" \in InHand /\ o \in Outcomes
      BY DEF InHand, Outcomes
    <3> QED
      BY <1>1, <1>2, <3>1, <3>2, <3>3, <3>4, <3>5, WorkerProceeds
  <2> QED
    BY <2>1, <2>2
<1>7. ASSUME NEW o \in Charges, RecordResult(w, o) PROVE LedgerInv'
  <2>1. CASE n \in finalized
    <3>1. Raise(w) /\ UNCHANGED <<issued, books, runFailed, verdict>>
      BY <1>2, <1>7, <2>1 DEF RecordResult, books
    <3>2. LedgerTypes'
      BY <1>3, <3>1 DEF Raise, LedgerTypes, books
    <3> QED
      BY <1>1, <3>1, <3>2, WorkerRaises DEF At
  <2>2. CASE n \notin finalized
    <3>1. /\ claims' = [claims EXCEPT ![w] = Claim("event", n, o)] /\ finalized' = finalized \cup {n}
          /\ results' = [results EXCEPT ![n] = @ + 1]
          /\ UNCHANGED <<issued, staged, finished, decided, rows, runFailed, verdict>>
      BY <1>2, <1>7, <2>2 DEF RecordResult, Publish, Go
    <3>2. LedgerTypes'
      BY <1>3, <3>1 DEF LedgerTypes, Claim, InHand, Outcomes
    <3>3. \A i \in Decisions \ {n} : Kept(i)
      BY <1>3, <3>1 DEF Kept, DecisionsOn, RowsOn, LedgerTypes
    <3>4. Fits(n, "choosing", o1) => Fits(n, "event", o)'
      <4>1. Fits(n, "choosing", o1) =>
              /\ n \notin staged /\ results[n] = 0 /\ finished[n] = 0
              /\ DecisionsOn(n) = {} /\ RowsOn(n) = {}
        BY NothingYet
      <4>2. DecisionsOn(n)' = DecisionsOn(n) /\ RowsOn(n)' = RowsOn(n)
        BY <3>1 DEF DecisionsOn, RowsOn
      <4>3. n \in finalized' /\ results'[n] = results[n] + 1
        BY <1>3, <3>1 DEF LedgerTypes
      <4>4. Fits(n, "event", o)' <=>
              /\ n \notin staged' /\ o \in Outcomes
              /\ n \in finalized' /\ results'[n] = 1 /\ finished'[n] = 0
              /\ DecisionsOn(n)' = {} /\ RowsOn(n)' = {}
        BY DEF Fits
      <4> QED
        BY <3>1, <4>1, <4>2, <4>3, <4>4 DEF Outcomes
    <3>5. "event" \in InHand /\ o \in Outcomes
      BY DEF InHand, Outcomes
    <3> QED
      BY <1>1, <1>2, <3>1, <3>2, <3>3, <3>4, <3>5, WorkerProceeds
  <2> QED
    BY <2>1, <2>2
<1> QED
  BY <1>5, <1>6, <1>7

\* The result is reconciled: published exactly once for a charged call, and for no other.
LEMMA LedgerReconciles ==
  ASSUME LedgerInv, NEW w \in Deciders, Reconcile(w)
  PROVE  LedgerInv'
<1>1. At(w, "returned") /\ {"returned", "event", "logged"} \subseteq InHand
  BY DEF Reconcile, InHand
<1>2. PICK n \in Decisions, o \in Outcomes \cup {"none"} :
        /\ claims[w] = Claim("returned", n, o) /\ claims[w].index = n /\ claims[w].outcome = o
        /\ o \in Outcomes
        /\ NoneRaised => Fits(n, "returned", o)
  BY <1>1, WorkerHolds
<1>3. n \in 0 .. issued /\ LedgerTypes
  BY <1>2 DEF LedgerInv, LedgerTypes
<1>4. UNCHANGED <<issued, runFailed, verdict>>
  BY DEF Reconcile
<1>5. CASE Raise(w) /\ UNCHANGED <<staged, finalized, results>>
  <2>1. LedgerTypes'
    BY <1>3, <1>5 DEF Raise, LedgerTypes, Reconcile
  <2> QED
    BY <1>1, <1>4, <1>5, <2>1, WorkerRaises DEF At
<1>6. CASE /\ o = "not_invoked" /\ n \notin staged
           /\ Go(w, "logged", o) /\ UNCHANGED <<staged, finalized, results>>
  <2>1. /\ claims' = [claims EXCEPT ![w] = Claim("logged", n, o)]
        /\ UNCHANGED <<staged, finalized, results, finished, decided, rows>>
    BY <1>2, <1>6 DEF Go, Reconcile
  <2>2. LedgerTypes'
    BY <1>1, <1>2, <1>3, <1>4, <2>1, PlaceTypes DEF books
  <2>3. \A i \in Decisions : Kept(i)
    BY <2>1 DEF Kept, DecisionsOn, RowsOn
  <2>4. Fits(n, "returned", o) => Fits(n, "logged", o)
    <3>1. o \notin Charges /\ o \in Outcomes
      BY <1>6 DEF Charges, Outcomes
    <3> QED
      BY <1>6, <3>1 DEF Fits
  <2>5. NoneRaised => Fits(n, "logged", o)'
    BY <1>2, <2>3, <2>4, KeptFits
  <2>6. "logged" \in InHand /\ \A i \in Decisions \ {n} : Kept(i)
    BY <1>1, <2>3
  <2> QED
    BY <1>1, <1>2, <1>4, <2>1, <2>2, <2>5, <2>6, WorkerProceeds
<1>7. CASE /\ o # "not_invoked" /\ n \notin finalized
           /\ Publish(n) /\ staged' = staged \ {n} /\ Go(w, "event", o)
  <2>1. /\ claims' = [claims EXCEPT ![w] = Claim("event", n, o)]
        /\ staged' = staged \ {n} /\ finalized' = finalized \cup {n}
        /\ results' = [results EXCEPT ![n] = @ + 1]
        /\ UNCHANGED <<finished, decided, rows>>
    BY <1>2, <1>7 DEF Go, Publish, Reconcile
  <2>2. LedgerTypes'
    <3>1. results' \in [Decisions -> Nat]
      <4>1. results[n] + 1 \in Nat /\ results \in [Decisions -> Nat]
        BY <1>3 DEF LedgerTypes
      <4> QED
        BY <2>1, <4>1
    <3>3. staged' \subseteq Decisions /\ finalized' \subseteq Decisions
      BY <1>3, <2>1 DEF LedgerTypes
    <3>2. claims' \in [Deciders -> [at : InHand \cup {"idle", "raised", "over"}, index : 0 .. issued,
                                    outcome : Outcomes \cup {"none"}]]
      BY <1>1, <1>3, <2>1 DEF LedgerTypes, Claim
    <3> QED
      BY <1>3, <1>4, <2>1, <3>1, <3>2, <3>3 DEF LedgerTypes
  <2>3. \A i \in Decisions \ {n} : Kept(i)
    BY <1>3, <2>1 DEF Kept, DecisionsOn, RowsOn, LedgerTypes
  <2>4. o \in Charges
    BY <1>2, <1>7 DEF Outcomes
  <2>5. Fits(n, "returned", o) => Fits(n, "event", o)'
    <3>1. Fits(n, "returned", o) =>
            /\ results[n] = 0 /\ finished[n] = 0 /\ DecisionsOn(n) = {} /\ RowsOn(n) = {}
      BY NothingYet
    <3>2. DecisionsOn(n)' = DecisionsOn(n) /\ RowsOn(n)' = RowsOn(n)
      BY <2>1 DEF DecisionsOn, RowsOn
    <3>3. n \in finalized' /\ n \notin staged' /\ results'[n] = results[n] + 1
      BY <1>3, <2>1 DEF LedgerTypes
    <3>4. Fits(n, "event", o)' <=>
            /\ n \notin staged' /\ o \in Outcomes
            /\ n \in finalized' /\ results'[n] = 1 /\ finished'[n] = 0
            /\ DecisionsOn(n)' = {} /\ RowsOn(n)' = {}
      BY <2>4 DEF Fits
    <3> QED
      BY <1>2, <2>1, <3>1, <3>2, <3>3, <3>4
  <2> QED
    BY <1>1, <1>2, <1>4, <2>3, <2>2, <2>1, <2>5, WorkerProceeds
<1> QED
  BY <1>2, <1>5, <1>6, <1>7 DEF Reconcile

\* The event is logged: once, because the owner of the decision logs it.
LEMMA LedgerLogs ==
  ASSUME LedgerInv, NEW w \in Deciders, LogFinished(w)
  PROVE  LedgerInv'
<1>1. At(w, "event") /\ {"event", "logged"} \subseteq InHand
  BY DEF LogFinished, InHand
<1>2. PICK n \in Decisions, o \in Outcomes \cup {"none"} :
        /\ claims[w] = Claim("event", n, o) /\ claims[w].index = n /\ claims[w].outcome = o
        /\ o \in Outcomes
        /\ NoneRaised => Fits(n, "event", o)
  BY <1>1, WorkerHolds
<1>3. n \in 0 .. issued /\ LedgerTypes
  BY <1>2 DEF LedgerInv, LedgerTypes
<1>4. /\ claims' = [claims EXCEPT ![w] = Claim("logged", n, o)]
      /\ finished' = [finished EXCEPT ![n] = @ + 1]
      /\ UNCHANGED <<issued, staged, finalized, results, decided, rows, runFailed, verdict>>
  BY <1>2 DEF LogFinished, Go
<1>5. LedgerTypes'
  BY <1>2, <1>3, <1>4 DEF LedgerTypes, Claim, InHand
<1>6. \A i \in Decisions \ {n} : Kept(i)
  BY <1>3, <1>4 DEF Kept, DecisionsOn, RowsOn, LedgerTypes
<1>7. Fits(n, "event", o) => Fits(n, "logged", o)'
  <2>1. Fits(n, "event", o) =>
          /\ n \notin staged /\ o \in Charges /\ n \in finalized
          /\ results[n] = 1 /\ finished[n] = 0 /\ DecisionsOn(n) = {} /\ RowsOn(n) = {}
    BY DEF Fits
  <2>2. DecisionsOn(n)' = DecisionsOn(n) /\ RowsOn(n)' = RowsOn(n)
    BY <1>4 DEF DecisionsOn, RowsOn
  <2>3. finished'[n] = finished[n] + 1
    BY <1>3, <1>4 DEF LedgerTypes
  <2>4. o \in Charges =>
          (Fits(n, "logged", o)' <=>
             /\ n \notin staged' /\ o \in Outcomes
             /\ n \in finalized' /\ results'[n] = 1 /\ finished'[n] = 1
             /\ DecisionsOn(n)' = {} /\ RowsOn(n)' = {})
    BY DEF Fits
  <2> QED
    BY <1>2, <1>4, <2>4, <2>3, <2>2, <2>1
<1> QED
  BY <1>1, <1>2, <1>4, <1>5, <1>6, <1>7, WorkerProceeds

\* The policy keeps the decision: under its own index, of which it has no other.
LEMMA LedgerKeeps ==
  ASSUME LedgerInv, NEW w \in Deciders, KeepDecision(w)
  PROVE  LedgerInv'
<1>1. At(w, "logged") /\ {"logged", "decided"} \subseteq InHand
  BY DEF KeepDecision, InHand
<1>2. PICK n \in Decisions, o \in Outcomes \cup {"none"} :
        /\ claims[w] = Claim("logged", n, o) /\ claims[w].index = n /\ claims[w].outcome = o
        /\ o \in Outcomes
        /\ NoneRaised => Fits(n, "logged", o)
  BY <1>1, WorkerHolds
<1>3. n \in 0 .. issued /\ LedgerTypes
  BY <1>2 DEF LedgerInv, LedgerTypes
<1>4. /\ claims' = [claims EXCEPT ![w] = Claim("decided", n, o)]
      /\ decided' = decided \cup {<<n, o>>}
      /\ UNCHANGED <<issued, staged, finalized, results, finished, rows, runFailed, verdict>>
  BY <1>2 DEF KeepDecision, Go
<1>5. LedgerTypes'
  BY <1>2, <1>3, <1>4 DEF LedgerTypes, Claim, InHand
<1>6. \A i \in Decisions \ {n} : Kept(i)
  BY <1>4 DEF Kept, DecisionsOn, RowsOn
<1>7. Fits(n, "logged", o) => Fits(n, "decided", o)'
  <2>1. DecisionsOn(n)' = DecisionsOn(n) \cup {<<n, o>>} /\ RowsOn(n)' = RowsOn(n)
    BY <1>4 DEF DecisionsOn, RowsOn
  <2>2. Fits(n, "logged", o) => DecisionsOn(n) = {} /\ RowsOn(n) = {}
    BY DEF Fits
  <2>3. Fits(n, "logged", o) => DecisionsOn(n)' = {<<n, o>>} /\ RowsOn(n)' = {}
    BY <2>1, <2>2
  <2> QED
    BY <1>4, <2>3 DEF Fits
<1> QED
  BY <1>1, <1>2, <1>4, <1>5, <1>6, <1>7, WorkerProceeds

\* The row is written, and the worker is free for another decision.
LEMMA LedgerRecords ==
  ASSUME LedgerInv, NEW w \in Deciders, NEW d \in Dispositions, RecordDecision(w, d)
  PROVE  LedgerInv'
<1>1. At(w, "decided") /\ "decided" \in InHand
  BY DEF RecordDecision, InHand
<1>2. PICK n \in Decisions, o \in Outcomes \cup {"none"} :
        /\ claims[w] = Claim("decided", n, o) /\ claims[w].index = n /\ claims[w].outcome = o
        /\ o \in Outcomes
        /\ NoneRaised => Fits(n, "decided", o)
  BY <1>1, WorkerHolds
<1>3. n \in 0 .. issued /\ LedgerTypes
  BY <1>2 DEF LedgerInv, LedgerTypes
<1>4. /\ claims' = [claims EXCEPT ![w] = Claim("idle", n, "none")]
      /\ rows' = rows \cup {<<n, o, d>>}
      /\ UNCHANGED <<issued, staged, finalized, results, finished, decided, runFailed, verdict>>
  BY <1>2 DEF RecordDecision, Go
<1>5. LedgerTypes'
  BY <1>2, <1>3, <1>4 DEF LedgerTypes, Claim
<1>6. \A i \in Decisions \ {n} : Kept(i)
  BY <1>4 DEF Kept, DecisionsOn, RowsOn
<1>7. Fits(n, "decided", o) => Fits(n, "recorded", o)'
  <2>1. RowsOn(n)' = RowsOn(n) \cup {<<n, o, d>>} /\ DecisionsOn(n)' = DecisionsOn(n)
    BY <1>4 DEF DecisionsOn, RowsOn
  <2>2. Fits(n, "decided", o) => RowsOn(n) = {}
    BY DEF Fits
  <2>3. Fits(n, "decided", o) => RowsOn(n)' = {<<n, o, d>>}
    BY <2>1, <2>2
  <2> QED
    BY <1>4, <2>1, <2>3 DEF Fits
<1>8. /\ "idle" \in InHand \cup {"idle"} /\ "none" \in Outcomes \cup {"none"}
      /\ "idle" \notin InHand
  BY DEF InHand
<1>9. NoneRaised =>
        IF "idle" = "idle" THEN Fits(n, "recorded", o)' ELSE Fits(n, "idle", "none")'
  BY <1>2, <1>7
<1> QED
  BY <1>1, <1>2, <1>4, <1>5, <1>6, <1>8, <1>9, WorkerGoesOn

\* An exception takes the decision with it.
LEMMA LedgerInterrupted ==
  ASSUME LedgerInv, NEW w \in Deciders, Interrupt(w)
  PROVE  LedgerInv'
<1>1. claims[w].at \in InHand /\ Raise(w) /\ UNCHANGED <<issued, books, runFailed, verdict>>
  BY DEF Interrupt, LedgerInv, LedgerTypes
<1>2. LedgerTypes'
  BY <1>1 DEF LedgerInv, LedgerTypes, Raise, books
<1> QED
  BY <1>1, <1>2, WorkerRaises

\* The end of a worker, with a failure or without.
LEMMA LedgerWorkerEnds ==
  ASSUME LedgerInv, NEW w \in Deciders, LatchFailure(w) \/ EndWorker(w)
  PROVE  LedgerInv'
<1>1. /\ claims[w].at \in {"raised", "idle"} /\ Go(w, "over", "none")
      /\ UNCHANGED <<issued, books, verdict>> /\ runFailed' \in BOOLEAN
      /\ EndWorker(w) => runFailed' = runFailed
      /\ LatchFailure(w) => runFailed' = TRUE
      /\ EndWorker(w) => claims[w].at = "idle"
  BY DEF LatchFailure, EndWorker, At, LedgerInv, LedgerTypes
<1>2. /\ claims'[w].at = "over" /\ claims'[w].index = claims[w].index
      /\ \A v \in Deciders \ {w} : claims'[v] = claims[v]
      /\ {"raised", "idle", "over"} \cap InHand = {}
  BY <1>1 DEF Go, Claim, LedgerInv, LedgerTypes, InHand
<1>3. LedgerTypes'
  <2>1. Claim("over", claims[w].index, "none") \in
          [at : InHand \cup {"idle", "raised", "over"}, index : 0 .. issued,
           outcome : Outcomes \cup {"none"}]
    BY DEF Claim, LedgerInv, LedgerTypes
  <2> QED
    BY <1>1, <2>1 DEF LedgerInv, LedgerTypes, Go, books
<1>4. verdict' = "none"
  BY <1>1 DEF LedgerInv, At
<1>5. ASSUME NoneRaised'
      PROVE  /\ \A v \in Deciders, i \in Decisions, at \in InHand, o \in Outcomes \cup {"none"} :
                  claims'[v] = Claim(at, i, o) => Fits(i, at, o)'
             /\ \A i \in Decisions : ~Owned(i)' =>
                  IF i > issued THEN Fits(i, "choosing", "none")'
                  ELSE \E o \in Outcomes : Fits(i, "recorded", o)'
  <2>1. EndWorker(w) /\ NoneRaised
    <3>1. EndWorker(w)
      BY <1>1, <1>5 DEF NoneRaised
    <3> QED
      BY <1>1, <1>2, <1>5, <3>1 DEF NoneRaised
  <2>2. \A i : Kept(i)
    BY <1>1 DEF Kept, books, DecisionsOn, RowsOn
  <2>3. ASSUME NEW v \in Deciders, NEW i \in Decisions, NEW at \in InHand,
               NEW o \in Outcomes \cup {"none"}, claims'[v] = Claim(at, i, o)
        PROVE  Fits(i, at, o)'
    <3>1. v # w
      BY <1>2, <2>3 DEF Claim
    <3>2. Fits(i, at, o)
      BY <1>2, <2>1, <2>3, <3>1 DEF LedgerInv
    <3> QED
      BY <2>2, <3>2, KeptFits
  <2>4. ASSUME NEW i \in Decisions, ~Owned(i)'
        PROVE  IF i > issued THEN Fits(i, "choosing", "none")'
               ELSE \E o \in Outcomes : Fits(i, "recorded", o)'
    <3>1. ~Owned(i)
      BY <1>1, <1>2, <2>4 DEF Owned, Index
    <3>2. IF i > issued THEN Fits(i, "choosing", "none")
          ELSE \E o \in Outcomes : Fits(i, "recorded", o)
      BY <2>1, <3>1 DEF LedgerInv
    <3> QED
      BY <2>2, <3>2, KeptFits
  <2> QED
    BY <2>3, <2>4
<1>6. LedgersAgree'
  BY <1>4 DEF LedgersAgree
<1>7. \A v \in Deciders : claims'[v].at \in InHand => v # w
  BY <1>2
<1> QED
  BY <1>1, <1>2, <1>3, <1>4, <1>5, <1>6, <1>7 DEF LedgerInv, Index

ChargedOn(i) == {d \in ChargedDecisions : d[1] = i}
ChargedRowsOn(i) == {r \in ChargedRows : r[1] = i}

\* What the books say of an index when all of its work is done.
Booked(i) ==
  /\ i \notin staged
  /\ \/ /\ i \notin finalized /\ results[i] = 0 /\ finished[i] = 0
        /\ ChargedOn(i) = {} /\ ChargedRowsOn(i) = {}
     \/ \E o \in Charges, d \in Dispositions :
          /\ i \in finalized /\ results[i] = 1 /\ finished[i] = 1
          /\ ChargedOn(i) = {<<i, o>>} /\ ChargedRowsOn(i) = {<<i, o, d>>}

\* A decision that nobody owns is booked.
LEMMA FitsAreBooked ==
  ASSUME NEW i \in Decisions,
         Fits(i, "choosing", "none") \/ \E o \in Outcomes : Fits(i, "recorded", o)
  PROVE  Booked(i)
<1>1. /\ ChargedOn(i) = {d \in DecisionsOn(i) : d[2] # "not_invoked"}
      /\ ChargedRowsOn(i) = {r \in RowsOn(i) : r[2] # "not_invoked"}
  BY DEF ChargedOn, ChargedRowsOn, DecisionsOn, RowsOn, ChargedDecisions, ChargedRows
<1>2. CASE Fits(i, "choosing", "none")
  <2>1. /\ i \notin staged /\ i \notin finalized /\ results[i] = 0 /\ finished[i] = 0
        /\ DecisionsOn(i) = {} /\ RowsOn(i) = {}
    BY <1>2, NothingYet
  <2> QED
    BY <1>1, <2>1 DEF Booked
<1>3. ASSUME NEW o \in Outcomes, Fits(i, "recorded", o) PROVE Booked(i)
  <2>1. PICK d \in Dispositions : RowsOn(i) = {<<i, o, d>>}
    BY <1>3 DEF Fits
  <2>2. DecisionsOn(i) = {<<i, o>>} /\ i \notin staged
    BY <1>3 DEF Fits
  <2>3. CASE o \in Charges
    <3>1. i \in finalized /\ results[i] = 1 /\ finished[i] = 1
      BY <1>3, <2>3 DEF Fits
    <3>2. ChargedOn(i) = {<<i, o>>} /\ ChargedRowsOn(i) = {<<i, o, d>>}
      BY <1>1, <2>1, <2>2, <2>3 DEF Charges
    <3> QED
      BY <2>2, <2>3, <3>1, <3>2 DEF Booked
  <2>4. CASE o = "not_invoked"
    <3>1. i \notin finalized /\ results[i] = 0 /\ finished[i] = 0
      BY <1>3, <2>4 DEF Fits, Charges
    <3>2. ChargedOn(i) = {} /\ ChargedRowsOn(i) = {}
      BY <1>1, <2>1, <2>2, <2>4
    <3> QED
      BY <2>2, <3>1, <3>2 DEF Booked
  <2> QED
    BY <2>3, <2>4 DEF Outcomes
<1> QED
  BY <1>2, <1>3

\* Books in which every index is booked pass the lifecycle check and the health report.
LEMMA BookedAgrees ==
  ASSUME LedgerTypes, \A i \in Decisions : Booked(i)
  PROVE  ~LifecycleBroken /\ ~CloseoutMismatch
<1>1. /\ \A d \in ChargedDecisions : d[1] \in Decisions /\ d \in ChargedOn(d[1])
      /\ \A r \in ChargedRows : r[1] \in Decisions /\ r \in ChargedRowsOn(r[1])
  BY DEF LedgerTypes, ChargedDecisions, ChargedRows, ChargedOn, ChargedRowsOn
<1>2. staged = {}
  BY DEF Booked, LedgerTypes
<1>3. \A i \in Decisions : i \in finalized <=> ChargedOn(i) # {}
  BY DEF Booked
<1>4. finalized = ChargedIndexes
  <2>1. ASSUME NEW i \in finalized PROVE i \in ChargedIndexes
    BY <1>3 DEF LedgerTypes, ChargedIndexes, ChargedOn
  <2>2. ASSUME NEW i \in ChargedIndexes PROVE i \in finalized
    <3>1. PICK d \in ChargedDecisions : i = d[1]
      BY <2>2 DEF ChargedIndexes
    <3> QED
      BY <1>1, <1>3, <3>1
  <2> QED
    BY <2>1, <2>2
<1>5. \A d, e \in ChargedDecisions : d[1] = e[1] => d = e
  <2> SUFFICES ASSUME NEW d \in ChargedDecisions, NEW e \in ChargedDecisions, d[1] = e[1]
               PROVE  d = e
    OBVIOUS
  <2> PICK i \in Decisions : i = d[1]
    BY <1>1
  <2>1. d \in ChargedOn(i) /\ e \in ChargedOn(i)
    BY <1>1
  <2>2. PICK x : ChargedOn(i) = {x}
    BY <2>1 DEF Booked
  <2> QED
    BY <2>1, <2>2
<1>6. IsFiniteSet(ChargedDecisions)
  <2>1. [d \in ChargedDecisions |-> d[1]] \in Injection(ChargedDecisions, Decisions)
    BY <1>1, <1>5 DEF Injection, IsInjective
  <2>2. IsFiniteSet(Decisions)
    BY LedgerAssumption, FS_Interval DEF Decisions
  <2> QED
    BY <2>1, <2>2, FS_Injection
<1>7. Cardinality(ChargedDecisions) = Cardinality(ChargedIndexes)
  <2> PICK f : f = [d \in ChargedDecisions |-> d[1]]
    OBVIOUS
  <2>1. f \in Surjection(ChargedDecisions, ChargedIndexes)
    BY DEF ChargedIndexes, Surjection
  <2>2. f \in Injection(ChargedDecisions, ChargedIndexes)
    BY <1>5, <2>1 DEF Injection, IsInjective, Surjection
  <2> QED
    BY <1>6, <2>1, <2>2, FS_Surjection
<1>8. \A i \in Decisions : results[i] = RowsOf(i) /\ finished[i] = RowsOf(i)
  <2> SUFFICES ASSUME NEW i \in Decisions
               PROVE  results[i] = RowsOf(i) /\ finished[i] = RowsOf(i)
    OBVIOUS
  <2>1. RowsOf(i) = Cardinality(ChargedRowsOn(i))
    BY DEF RowsOf, ChargedRowsOn
  <2>2. \/ results[i] = 0 /\ finished[i] = 0 /\ ChargedRowsOn(i) = {}
        \/ results[i] = 1 /\ finished[i] = 1 /\ \E x : ChargedRowsOn(i) = {x}
    BY DEF Booked
  <2> QED
    BY <2>1, <2>2, FS_EmptySet, FS_Singleton
<1>9. Cardinality(ChargedRows) = Cardinality(ChargedDecisions)
  <2> PICK f : f = [r \in ChargedRows |-> <<r[1], r[2]>>]
    OBVIOUS
  <2>1. ASSUME NEW r \in ChargedRows PROVE f[r] \in ChargedDecisions
    <3> PICK i \in Decisions : i = r[1]
      BY <1>1
    <3>1. r \in ChargedRowsOn(i)
      BY <1>1
    <3>2. PICK o \in Charges, d \in Dispositions :
            ChargedOn(i) = {<<i, o>>} /\ ChargedRowsOn(i) = {<<i, o, d>>}
      BY <3>1 DEF Booked
    <3>3. r = <<i, o, d>> /\ f[r] = <<i, o>>
      BY <3>1, <3>2
    <3> QED
      BY <3>2, <3>3 DEF ChargedOn
  <2>2. ASSUME NEW e \in ChargedDecisions PROVE \E r \in ChargedRows : f[r] = e
    <3> PICK i \in Decisions : i = e[1]
      BY <1>1
    <3>1. e \in ChargedOn(i)
      BY <1>1
    <3>2. PICK o \in Charges, d \in Dispositions :
            ChargedOn(i) = {<<i, o>>} /\ ChargedRowsOn(i) = {<<i, o, d>>}
      BY <3>1 DEF Booked
    <3>3. e = <<i, o>> /\ <<i, o, d>> \in ChargedRows
      BY <3>1, <3>2 DEF ChargedRowsOn
    <3> QED
      BY <3>3
  <2>3. \A r, s \in ChargedRows : f[r] = f[s] => r = s
    <3> SUFFICES ASSUME NEW r \in ChargedRows, NEW s \in ChargedRows, f[r] = f[s]
                 PROVE  r = s
      OBVIOUS
    <3> PICK i \in Decisions : i = r[1]
      BY <1>1
    <3>1. s[1] = i
      OBVIOUS
    <3>2. r \in ChargedRowsOn(i) /\ s \in ChargedRowsOn(i)
      BY <1>1, <3>1
    <3>3. PICK x : ChargedRowsOn(i) = {x}
      BY <3>2 DEF Booked
    <3> QED
      BY <3>2, <3>3
  <2>4. IsFiniteSet(ChargedRows)
    <3>1. f \in Injection(ChargedRows, ChargedDecisions)
      BY <2>1, <2>3 DEF Injection, IsInjective
    <3> QED
      BY <1>6, <3>1, FS_Injection
  <2>5. f \in Surjection(ChargedRows, ChargedDecisions)
    BY <2>1, <2>2 DEF Surjection
  <2>6. f \in Injection(ChargedRows, ChargedDecisions)
    BY <2>3, <2>5 DEF Injection, IsInjective, Surjection
  <2> QED
    BY <2>4, <2>5, <2>6, FS_Surjection
<1> QED
  BY <1>2, <1>4, <1>7, <1>8, <1>9 DEF LifecycleBroken, CloseoutMismatch

\* The end of a run without a failure.
LEMMA LedgerCloses ==
  ASSUME LedgerInv, CloseBooks
  PROVE  LedgerInv'
<1>1. /\ \A w \in Deciders : At(w, "over") /\ claims[w].at \notin InHand
      /\ UNCHANGED <<ledgerArm, claims, issued, books, runFailed>>
      /\ verdict' = IF runFailed THEN "worker_failure"
                    ELSE IF LifecycleBroken THEN "lifecycle_failure" ELSE "closed"
  BY DEF CloseBooks, At, InHand
<1>2. ASSUME ~runFailed PROVE ~LifecycleBroken /\ ~CloseoutMismatch
  <2>1. NoneRaised
    BY <1>1, <1>2 DEF NoneRaised, At
  <2>2. \A i \in Decisions : ~Owned(i)
    BY <1>1 DEF Owned
  <2>3. \A i \in Decisions :
          Fits(i, "choosing", "none") \/ \E o \in Outcomes : Fits(i, "recorded", o)
    BY <2>1, <2>2 DEF LedgerInv
  <2>4. \A i \in Decisions : Booked(i)
    BY <2>3, FitsAreBooked
  <2> QED
    BY <2>4, BookedAgrees DEF LedgerInv
<1>3. CloseoutMismatch' <=> CloseoutMismatch
  BY <1>1 DEF CloseoutMismatch, RowsOf, ChargedRows, ChargedDecisions, books
<1>4. LedgersAgree'
  BY <1>1, <1>2, <1>3 DEF LedgersAgree
<1>5. LedgerTypes' /\ (NoneRaised' <=> NoneRaised)
  BY <1>1 DEF LedgerInv, LedgerTypes, books, NoneRaised
<1>6. /\ \A i : Kept(i)
      /\ \A i : Owned(i)' <=> Owned(i)
  BY <1>1 DEF Kept, books, DecisionsOn, RowsOn, Owned, Index
<1>7. ASSUME NoneRaised
      PROVE  /\ \A v \in Deciders, i \in Decisions, at \in InHand, o \in Outcomes \cup {"none"} :
                  claims'[v] = Claim(at, i, o) => Fits(i, at, o)'
             /\ \A i \in Decisions : ~Owned(i)' =>
                  IF i > issued THEN Fits(i, "choosing", "none")'
                  ELSE \E o \in Outcomes : Fits(i, "recorded", o)'
  BY <1>1, <1>6, <1>7, KeptFits DEF LedgerInv
<1> QED
  BY <1>1, <1>4, <1>5, <1>7 DEF LedgerInv, Index, At

\* Every step keeps the books in order.
LEMMA LedgerStepInv == LedgerInv /\ [LedgerNext]_ledgerVars => LedgerInv'
<1> SUFFICES ASSUME LedgerInv, [LedgerNext]_ledgerVars PROVE LedgerInv'
  OBVIOUS
<1>1. CASE UNCHANGED ledgerVars
  <2>1. /\ UNCHANGED <<ledgerArm, claims, issued, runFailed, verdict>>
        /\ UNCHANGED <<staged, finalized, results, finished, decided, rows>>
    BY <1>1 DEF ledgerVars, books
  <2>2. CloseoutMismatch' <=> CloseoutMismatch
    BY <2>1 DEF CloseoutMismatch, RowsOf, ChargedRows, ChargedDecisions
  <2>3. LedgersAgree'
    BY <2>1, <2>2 DEF LedgerInv, LedgersAgree
  <2>4. /\ \A i : Kept(i)
        /\ \A i : Owned(i)' <=> Owned(i)
    BY <2>1 DEF Kept, DecisionsOn, RowsOn, Owned, Index
  <2>5. LedgerTypes' /\ (NoneRaised' <=> NoneRaised)
    BY <2>1 DEF LedgerInv, LedgerTypes, NoneRaised
  <2>6. ASSUME NoneRaised
        PROVE  /\ \A v \in Deciders, i \in Decisions, at \in InHand, o \in Outcomes \cup {"none"} :
                    claims'[v] = Claim(at, i, o) => Fits(i, at, o)'
               /\ \A i \in Decisions : ~Owned(i)' =>
                    IF i > issued THEN Fits(i, "choosing", "none")'
                    ELSE \E o \in Outcomes : Fits(i, "recorded", o)'
    BY <2>1, <2>4, <2>6, KeptFits DEF LedgerInv
  <2> QED
    BY <2>1, <2>3, <2>5, <2>6 DEF LedgerInv, Index, At
<1>2. ASSUME NEW w \in Deciders,
             \/ BeginDecision(w) \/ SkipCall(w) \/ CallNeverRan(w) \/ Reconcile(w) \/ LogFinished(w)
             \/ \E o \in Charges : StageResult(w, o) \/ RecordResult(w, o)
             \/ KeepDecision(w) \/ Interrupt(w) \/ LatchFailure(w) \/ EndWorker(w)
             \/ \E d \in Dispositions : RecordDecision(w, d)
      PROVE  LedgerInv'
  BY <1>2, LedgerBegins, LedgerCalls, LedgerReconciles, LedgerLogs, LedgerKeeps,
     LedgerInterrupted, LedgerWorkerEnds, LedgerRecords, Zenon
<1> QED
  BY <1>1, <1>2, LedgerCloses DEF LedgerNext

\* Every run ends with books that pass the runner's lifecycle check and the comparisons of
\* the health report, unless an exception ended one of its workers.
THEOREM BooksAgree == LedgerSpec => []LedgersAgree
<1>1. LedgerInv => LedgersAgree
  BY DEF LedgerInv
<1> QED
  BY <1>1, LedgerInitInv, LedgerStepInv, PTL DEF LedgerSpec

--------------------------------------------------------------------------------
\* TraceView: the pages of a view are one cut of the records.

\* A row is known by its id.
RowsOK ==
  \A r \in table : r.id \in RowIds /\ \A s \in table : r.id = s.id => r = s

\* What the read in progress has got is what the rows up to its cursor were at a
\* moment since it began.
ReaderOK ==
  /\ reader.path \in {"none", "sqlite", "feedback", "paged", "legacy"}
  /\ reader.path # "none" => table \in cuts
  /\ reader.path = "feedback" => reader.asOf \in cuts /\ reader.got = Exposures(reader.asOf)
  /\ reader.path = "paged" =>
       /\ reader.cursor \in Nat
       /\ IF reader.cursor = 0 THEN reader.got = {}
          ELSE reader.got = {r \in reader.asOf : r.id <= reader.cursor}

ViewInv == RowsOK /\ ReaderOK /\ ViewIsOneCut

\* The rows of a store are finitely many, as their ids are.
LEMMA RowsAreFinite ==
  ASSUME RowsOK
  PROVE  IsFiniteSet(table) /\ \A r \in table : r.id \in Nat \ {0}
<1> DEFINE f == [r \in table |-> r.id]
<1>1. f \in Injection(table, RowIds)
  BY DEF RowsOK, Injection, IsInjective
<1>2. IsFiniteSet(table)
  BY <1>1, FS_Injection, ViewAssumption
<1> QED
  BY <1>2, ViewAssumption DEF RowsOK

\* A page has the rows after the cursor up to the last id of the page.
LEMMA PageIsPrefix ==
  ASSUME RowsOK, NEW cursor \in Nat, Page(cursor) # After(cursor)
  PROVE  /\ LastId(Page(cursor)) \in Nat /\ LastId(Page(cursor)) > cursor
         /\ Page(cursor) = {r \in After(cursor) : r.id <= LastId(Page(cursor))}
<1> DEFINE A == After(cursor)
           Upto(r) == {s \in A : s.id <= r.id}
           P == Page(cursor)
           Ids(S) == {r.id : r \in S}
<1>1. /\ IsFiniteSet(A) /\ \A r \in A : r \in table /\ r.id \in Nat /\ r.id > cursor
      /\ P = {r \in A : Cardinality(Upto(r)) <= PageSize}
  BY RowsAreFinite, FS_Subset, ViewAssumption DEF After, Page
<1>2. \A r \in A : IsFiniteSet(Upto(r)) /\ Cardinality(Upto(r)) \in Nat
  BY <1>1, FS_Subset, FS_CardinalityType
<1>3. \A r, s \in A : r.id = s.id => r = s
  BY <1>1 DEF RowsOK
<1> HIDE DEF A, P
<1>4. P # {}
  <2>1. A # {}
    BY <1>1 DEF A, P
  <2>2. Ids(A) \in SUBSET Nat /\ Ids(A) # {}
    BY <1>1, <2>1
  <2>3. PICK n \in Ids(A) : \A m \in Ids(A) : n <= m
    BY <2>2, Smallest
  <2>4. PICK r \in A : n = r.id
    BY <2>3
  <2>5. Upto(r) = {r}
    <3>1. ASSUME NEW s \in Upto(r) PROVE s = r
      <4>1. s \in A /\ s.id <= r.id
        BY <3>1
      <4>2. r.id <= s.id
        BY <2>3, <2>4, <4>1
      <4> QED
        BY <1>1, <1>3, <4>1, <4>2
    <3>2. r \in Upto(r)
      BY <1>1
    <3> QED
      BY <3>1, <3>2
  <2>6. Cardinality(Upto(r)) = 1
    BY <2>5, FS_Singleton
  <2>7. 1 <= PageSize
    BY ViewAssumption
  <2> QED
    BY <1>1, <2>6, <2>7
<1>5. P \subseteq A /\ IsFiniteSet(Ids(P)) /\ Ids(P) \in SUBSET Nat /\ Ids(P) # {}
  <2>1. P \in SUBSET A /\ IsFiniteSet(P)
    BY <1>1, FS_Subset
  <2>2. PICK f : f = [r \in P |-> r.id]
    OBVIOUS
  <2>3. Ids(P) = {f[r] : r \in P}
    BY <2>2
  <2>4. IsFiniteSet(Ids(P))
    BY <2>1, <2>3, ImageSize
  <2> QED
    BY <1>1, <1>4, <2>1, <2>4
<1>6. PICK n \in Ids(P) : \A m \in Ids(P) : m <= n
  BY <1>5, Greatest
<1>7. LastId(P) \in Ids(P) /\ \A r \in P : r.id <= LastId(P)
  BY <1>6 DEF LastId
<1>8. PICK l \in P : l.id = LastId(P)
  BY <1>7
<1>9. ASSUME NEW r \in A, r.id <= l.id PROVE r \in P
  <2>1. l \in A /\ Cardinality(Upto(l)) <= PageSize
    BY <1>1, <1>8
  <2>2. Upto(r) \in SUBSET Upto(l)
    BY <1>1, <1>9, <2>1
  <2>3. Cardinality(Upto(r)) <= Cardinality(Upto(l))
    <3>1. PICK U, V : U = Upto(r) /\ V = Upto(l)
      OBVIOUS
    <3>2. IsFiniteSet(V) /\ U \in SUBSET V
      BY <1>2, <2>1, <2>2, <3>1
    <3>3. Cardinality(U) <= Cardinality(V)
      BY <3>2, FS_Subset
    <3> QED
      BY <3>1, <3>3
  <2>4. Cardinality(Upto(r)) <= PageSize
    <3>1. PICK a, b : a = Cardinality(Upto(r)) /\ b = Cardinality(Upto(l))
      OBVIOUS
    <3>2. a \in Nat /\ b \in Nat /\ PageSize \in Nat /\ a <= b /\ b <= PageSize
      BY <1>2, <2>1, <2>3, <3>1, ViewAssumption
    <3>3. a <= PageSize
      BY <3>2
    <3> QED
      BY <3>1, <3>3
  <2> QED
    BY <1>1, <2>4
<1>10. P = {r \in A : r.id <= LastId(P)}
  BY <1>5, <1>7, <1>8, <1>9
<1> QED
  BY <1>1, <1>5, <1>8, <1>10 DEF A, P
\* Nothing has been read of an empty store.
LEMMA ViewInitInv == ViewInit => ViewInv
BY DEF ViewInit, ViewInv, RowsOK, ReaderOK, ViewIsOneCut, Idle

\* A complete read of a moment since it began gives the features of that moment, or
\* none if there are too many rows.
LEMMA ReadEndsWell ==
  ASSUME RowsOK, NEW S \in cuts, ReadEnds(S)
  PROVE  ViewInv'
BY DEF ReadEnds, ViewInv, RowsOK, ReaderOK, ViewIsOneCut, Idle, Zero

\* Rows are only added; a read in progress keeps what it has got.
LEMMA AppendStep ==
  ASSUME ViewInv, NEW added, AppendRows(added), RowsOK'
  PROVE  ViewInv'
<1>1. /\ cuts' = IF reader.path = "none" THEN cuts ELSE cuts \cup {table'}
      /\ UNCHANGED <<reader, view>>
  BY DEF AppendRows
<1>2. cuts \subseteq cuts' /\ (reader.path # "none" => table' \in cuts')
  BY <1>1
<1>3. ReaderOK'
  BY <1>1, <1>2 DEF ViewInv, ReaderOK
<1>4. ViewIsOneCut'
  BY <1>1, <1>2 DEF ViewInv, ViewIsOneCut
<1> QED
  BY <1>3, <1>4 DEF ViewInv

\* One page.
LEMMA PageStep ==
  ASSUME ViewInv, ReadPage
  PROVE  ViewInv'
<1> DEFINE page == Page(reader.cursor)
           got == reader.got \cup page
<1>1. /\ reader.path = "paged" /\ SamePin /\ table \in cuts /\ reader.cursor \in Nat /\ RowsOK
      /\ page \subseteq After(reader.cursor)
  BY DEF ReadPage, ViewInv, ReaderOK, Page
<1>2. reader.got = {r \in table : r.id <= reader.cursor}
  <2>1. CASE reader.cursor = 0
    BY <1>1, <2>1, RowsAreFinite DEF ViewInv, ReaderOK
  <2>2. CASE reader.cursor # 0
    BY <1>1, <2>2 DEF ViewInv, ReaderOK, SamePin
  <2> QED
    BY <2>1, <2>2
<1>3. CASE page = After(reader.cursor)
  <2>1. \A r \in table : r.id <= reader.cursor \/ r.id > reader.cursor
    BY <1>1, RowsAreFinite
  <2>2. got = table
    BY <1>2, <1>3, <2>1 DEF After
  <2>3. ReadEnds(table)
    BY <1>3, <2>2 DEF ReadPage
  <2> QED
    BY <1>1, <2>3, ReadEndsWell
<1>4. CASE page # After(reader.cursor)
  <2>1. PICK last : last = LastId(page)
    OBVIOUS
  <2>2. last \in Nat /\ last > reader.cursor /\ page = {r \in After(reader.cursor) : r.id <= last}
    BY <1>1, <1>4, <2>1, PageIsPrefix
  <2>3. /\ reader' = [reader EXCEPT !.got = got, !.asOf = table, !.cursor = last]
        /\ UNCHANGED <<table, head, view, cuts>>
    BY <1>4, <2>1 DEF ReadPage
  <2>4. got = {r \in table : r.id <= last}
    <3>1. \A r \in table : r.id \in Nat
      BY <1>1, RowsAreFinite
    <3>2. \A r \in table : r.id <= last <=> r.id <= reader.cursor \/ (r.id > reader.cursor /\ r.id <= last)
      BY <1>1, <2>2, <3>1
    <3> QED
      BY <1>2, <2>2, <3>2 DEF After
  <2>5. /\ reader'.path = "paged" /\ reader'.got = got /\ reader'.asOf = table
        /\ reader'.cursor = last
    BY <1>1, <2>3
  <2>6. RowsOK' /\ ViewIsOneCut'
    BY <2>3 DEF ViewInv, RowsOK, ViewIsOneCut
  <2>7. ReaderOK'
    BY <1>1, <2>5, <2>4, <2>3, <2>2 DEF ReaderOK
  <2> QED
    BY <2>6, <2>7 DEF ViewInv
<1> QED
  BY <1>3, <1>4

\* Every step keeps the invariant.
LEMMA ViewStepInv == ViewInv /\ [ViewNext]_viewVars => ViewInv'
<1> SUFFICES ASSUME ViewInv, [ViewNext]_viewVars PROVE ViewInv'
  OBVIOUS
<1>0. RowsOK /\ ReaderOK /\ ViewIsOneCut
  BY DEF ViewInv
<1>1. ASSUME NEW ids \in SUBSET (RowIds \ Used), DeliverItems(ids) PROVE ViewInv'
  <2>1. PICK added : added = {[id |-> i, seq |-> head + 1, about |-> 0] : i \in ids}
    OBVIOUS
  <2>2. AppendRows(added) /\ table' = table \cup added
    BY <1>1, <2>1 DEF DeliverItems, AppendRows
  <2>3. \A r \in added : r.id \in RowIds \ Used /\ \A s \in added : r.id = s.id => r = s
    BY <2>1
  <2>4. RowsOK'
    BY <1>0, <2>2, <2>3 DEF RowsOK, Used
  <2> QED
    BY <2>2, <2>4, AppendStep
<1>2. ASSUME NEW id \in RowIds \ Used, NEW r \in table, GiveFeedback(id, r) PROVE ViewInv'
  <2>1. PICK added : added = {[id |-> id, seq |-> head + 1, about |-> r.id]}
    OBVIOUS
  <2>2. AppendRows(added) /\ table' = table \cup added
    BY <1>2, <2>1 DEF GiveFeedback, AppendRows
  <2>3. RowsOK'
    BY <1>0, <1>2, <2>1, <2>2 DEF RowsOK, Used
  <2> QED
    BY <2>2, <2>3, AppendStep
<1>3. ASSUME NEW path \in {"sqlite", "paged", "legacy"}, BeginRead(path) PROVE ViewInv'
  BY <1>0, <1>3 DEF BeginRead, Idle, ViewInv, RowsOK, ReaderOK, ViewIsOneCut
<1>4. CASE ReadFails
  BY <1>0, <1>4 DEF ReadFails, Idle, ViewInv, RowsOK, ReaderOK, ViewIsOneCut
<1>5. CASE SelectExposures
  BY <1>0, <1>5 DEF SelectExposures, ViewInv, RowsOK, ReaderOK, ViewIsOneCut
<1>6. CASE SelectFeedback
  <2>1. /\ reader.got \cup Feedback(reader.asOf) = reader.asOf
        /\ reader.asOf \in cuts
    BY <1>0, <1>6 DEF SelectFeedback, ReaderOK, Exposures, Feedback
  <2> QED
    BY <1>0, <1>6, <2>1, ReadEndsWell DEF SelectFeedback
<1>7. CASE ReadPage
  BY <1>7, PageStep
<1>8. CASE ReadBatch
  <2>1. ReadEnds(table) /\ table \in cuts
    BY <1>0, <1>8 DEF ReadBatch, ReaderOK
  <2> QED
    BY <1>0, <2>1, ReadEndsWell
<1>9. CASE UNCHANGED viewVars
  BY <1>0, <1>9 DEF viewVars, ViewInv, RowsOK, ReaderOK, ViewIsOneCut
<1> QED
  BY <1>1, <1>2, <1>3, <1>4, <1>5, <1>6, <1>7, <1>8, <1>9 DEF ViewNext

\* The allocator's view is of one moment of the store, although the store is appended
\* to between the queries of a transaction and between the pages of a read.
THEOREM OneCut == ViewSpec => []ViewIsOneCut
<1>1. ViewInv => ViewIsOneCut
  BY DEF ViewInv
<1> QED
  BY <1>1, ViewInitInv, ViewStepInv, PTL DEF ViewSpec

--------------------------------------------------------------------------------
\* TraceProjection: rows in any order give the features of the set of rows.

\* The fields that the orders compare are numbers, and the words on the scalars are words.
LEMMA RowFields ==
  ASSUME NEW r \in TraceRow
  PROVE  /\ r.id \in Nat /\ r.seq \in Nat \ {0} /\ r.time \in Nat /\ Precedence(r) \in 0 .. 3
         /\ \A f \in Scalars : Word(f, r) \in Lifecycles \cup Bits
<1>1. /\ r.id \in Nat /\ r.seq \in Nat \ {0} /\ r.time \in Nat
      /\ r.lifecycle \in Lifecycles /\ r.active \in Bits /\ r.actionable \in Bits
  BY DEF TraceRow
<1>2. Precedence(r) \in 0 .. 3
  <2>1. PICK word :
          word = IF r.lifecycle # "" THEN r.lifecycle ELSE IF r.alias THEN "" ELSE r.kind
    OBVIOUS
  <2>2. Precedence(r) =
          CASE word \in {"refuted", "retired"} -> 3 [] word \in {"stale", "inactive"} -> 2
            [] word \in {"active", "frontier"} -> 1 [] OTHER -> 0
    BY <2>1 DEF Precedence
  <2> QED
    BY <2>2
<1>3. \A f \in Scalars : Word(f, r) \in Lifecycles \cup Bits
  BY <1>1 DEF Scalars, Word, Lifecycles, Bits, Dead
<1> QED
  BY <1>1, <1>2, <1>3

\* Both orders are strict; only rows with one id are not ordered.
LEMMA RowOrders ==
  ASSUME NEW r \in TraceRow, NEW s \in TraceRow, NEW q \in TraceRow
  PROVE  /\ Outranks(r, s) /\ Outranks(s, q) => Outranks(r, q)
         /\ ~(Outranks(r, s) /\ Outranks(s, r))
         /\ r.id # s.id => Outranks(r, s) \/ Outranks(s, r)
         /\ r.id # s.id => SortsBefore(r, s) \/ SortsBefore(s, r)
         /\ ~(SortsBefore(r, s) /\ SortsBefore(s, r))
         /\ Outranks(r, NoRow)
<1>1. /\ r.id \in Nat /\ r.seq \in Nat \ {0} /\ r.time \in Nat
      /\ s.id \in Nat /\ s.seq \in Nat \ {0} /\ s.time \in Nat
      /\ q.id \in Nat /\ q.seq \in Nat \ {0} /\ q.time \in Nat
  BY RowFields
<1>2. Precedence(r) \in 0 .. 3 /\ Precedence(s) \in 0 .. 3 /\ Precedence(q) \in 0 .. 3
  BY RowFields
<1>3. NoRow.seq = 0
  BY DEF NoRow
<1> QED
  BY <1>1, <1>2, <1>3 DEF Outranks, SortsBefore

\* The sort orders the arrivals totally: rows with one key by their arrival.
LEMMA ArrivalsOrdered ==
  ASSUME NEW given \in Seq(TraceRow), NEW i \in DOMAIN given, NEW j \in DOMAIN given,
         NEW k \in DOMAIN given
  PROVE  /\ Precedes(given, i, i)
         /\ Precedes(given, i, j) /\ Precedes(given, j, k) => Precedes(given, i, k)
         /\ i # j => (Precedes(given, i, j) <=> ~Precedes(given, j, i))
<1>1. i \in Nat /\ j \in Nat /\ k \in Nat
  OBVIOUS
<1>2. given[i] \in TraceRow /\ given[j] \in TraceRow /\ given[k] \in TraceRow
  OBVIOUS
<1>3. /\ given[i].id \in Nat /\ given[i].seq \in Nat
      /\ given[j].id \in Nat /\ given[j].seq \in Nat
      /\ given[k].id \in Nat /\ given[k].seq \in Nat
  BY <1>2, RowFields
<1> QED
  BY <1>1, <1>3 DEF Precedes, SortsBefore

\* The positions of the arrivals are 1..Len(rows), each taken once, in the order of the sort.
LEMMA Positions ==
  ASSUME NEW given \in Seq(TraceRow)
  PROVE  /\ \A i \in DOMAIN given : Position(given, i) \in DOMAIN given
         /\ \A i, j \in DOMAIN given :
              Position(given, i) <= Position(given, j) => Precedes(given, i, j)
         /\ \A n \in DOMAIN given : \E i \in DOMAIN given : Position(given, i) = n
<1> DEFINE B(i) == {j \in DOMAIN given : Precedes(given, j, i)}
<1>1. PICK len \in Nat : len = Len(given) /\ DOMAIN given = 1 .. len
  OBVIOUS
<1>2. IsFiniteSet(DOMAIN given) /\ Cardinality(DOMAIN given) = len
  <2>1. IsFiniteSet(1 .. len) /\ Cardinality(1 .. len) = len
    BY FS_Interval
  <2> QED
    BY <1>1, <2>1
<1>3. \A i \in DOMAIN given : Position(given, i) = Cardinality(B(i))
  BY DEF Position
<1>4. ASSUME NEW i \in DOMAIN given
      PROVE  IsFiniteSet(B(i)) /\ i \in B(i) /\ Cardinality(B(i)) \in 1 .. len
  <2>1. i \in B(i)
    BY ArrivalsOrdered
  <2>2. IsFiniteSet(B(i)) /\ Cardinality(B(i)) <= len /\ Cardinality(B(i)) \in Nat
    BY <1>2, FS_Subset, FS_CardinalityType
  <2>3. Cardinality(B(i)) # 0
    BY <2>1, <2>2, FS_EmptySet
  <2> QED
    BY <1>1, <2>1, <2>2, <2>3
<1>5. ASSUME NEW i \in DOMAIN given, NEW j \in DOMAIN given, ~Precedes(given, i, j)
      PROVE  Cardinality(B(j)) < Cardinality(B(i))
  <2>1. i # j /\ Precedes(given, j, i)
    BY <1>5, ArrivalsOrdered
  <2>2. B(j) \subseteq B(i)
    BY <2>1, ArrivalsOrdered
  <2>3. B(j) # B(i)
    BY <1>4, <1>5
  <2>4. IsFiniteSet(B(i)) /\ Cardinality(B(i)) \in Nat /\ Cardinality(B(j)) \in Nat
    <3> HIDE DEF B
    <3> QED
      BY <1>1, <1>4
  <2>5. Cardinality(B(j)) <= Cardinality(B(i)) /\ Cardinality(B(j)) # Cardinality(B(i))
    <3>1. B(j) \in SUBSET B(i)
      BY <2>2
    <3>2. /\ Cardinality(B(j)) <= Cardinality(B(i))
          /\ Cardinality(B(i)) = Cardinality(B(j)) => B(i) = B(j)
      <4> HIDE DEF B
      <4> QED
        BY <2>4, <3>1, FS_Subset
    <3> QED
      BY <2>3, <3>2
  <2> HIDE DEF B
  <2> QED
    BY <2>4, <2>5
<1>6. ASSUME NEW i \in DOMAIN given, NEW j \in DOMAIN given, Cardinality(B(i)) <= Cardinality(B(j))
      PROVE  Precedes(given, i, j)
  <2> HIDE DEF B
  <2>1. Cardinality(B(i)) \in Nat /\ Cardinality(B(j)) \in Nat
    BY <1>1, <1>4
  <2>2. ~(Cardinality(B(j)) < Cardinality(B(i)))
    BY <1>6, <2>1
  <2> QED
    BY <1>5, <2>2
<1>7. ASSUME NEW n \in DOMAIN given
      PROVE  \E i \in DOMAIN given : Cardinality(B(i)) = n
  <2> DEFINE f == [i \in DOMAIN given |-> Cardinality(B(i))]
  <2>1. f \in [DOMAIN given -> DOMAIN given]
    BY <1>1, <1>4
  <2>2. \A i, j \in DOMAIN given : f[i] = f[j] => i = j
    <3>1. ASSUME NEW i \in DOMAIN given, NEW j \in DOMAIN given, f[i] = f[j]
          PROVE  i = j
      <4>1. Cardinality(B(i)) = Cardinality(B(j)) /\ Cardinality(B(i)) \in Nat
        <5> HIDE DEF B
        <5> QED
          BY <1>1, <1>4, <3>1
      <4>2. Cardinality(B(i)) <= Cardinality(B(j)) /\ Cardinality(B(j)) <= Cardinality(B(i))
        <5> HIDE DEF B
        <5> QED
          BY <4>1
      <4>3. Precedes(given, i, j) /\ Precedes(given, j, i)
        BY <1>6, <4>2
      <4> QED
        BY <4>3, ArrivalsOrdered
    <3> QED
      BY <3>1
  <2>3. f \in Injection(DOMAIN given, DOMAIN given)
    BY <2>1, <2>2 DEF Injection, IsInjective
  <2>4. f \in Surjection(DOMAIN given, DOMAIN given)
    BY <1>2, <2>3, FS_Injection
  <2> QED
    BY <2>4 DEF Surjection
<1> QED
  BY <1>1, <1>3, <1>4, <1>6, <1>7

\* Sorting keeps the rows, and no row sorts before an earlier one.
LEMMA SortedRows ==
  ASSUME NEW given \in Seq(TraceRow)
  PROVE  /\ Sorted(given) \in [DOMAIN given -> TraceRow]
         /\ {Sorted(given)[n] : n \in DOMAIN given} = {given[i] : i \in DOMAIN given}
         /\ \A m, n \in DOMAIN given :
              m <= n => ~SortsBefore(Sorted(given)[n], Sorted(given)[m])
<1> DEFINE at == [n \in DOMAIN given |-> CHOOSE i \in DOMAIN given : Position(given, i) = n]
<1>1. \A n \in DOMAIN given : at[n] \in DOMAIN given /\ Position(given, at[n]) = n
  BY Positions
<1>2. \A n \in DOMAIN given : Sorted(given)[n] = given[at[n]]
  BY DEF Sorted
<1>3. \A n \in DOMAIN given : given[n] \in TraceRow /\ n \in Nat
  OBVIOUS
<1>4. Sorted(given) \in [DOMAIN given -> TraceRow]
  BY <1>1, <1>3 DEF Sorted
<1>5. ASSUME NEW i \in DOMAIN given
      PROVE  \E n \in DOMAIN given : at[n] = i
  <2>1. PICK n : n = Position(given, i)
    OBVIOUS
  <2>2. n \in DOMAIN given
    BY <2>1, Positions
  <2>3. at[n] \in DOMAIN given /\ Position(given, at[n]) = n /\ n \in Int
    BY <1>1, <2>2
  <2> HIDE DEF at
  <2>4. /\ Position(given, at[n]) <= Position(given, i)
        /\ Position(given, i) <= Position(given, at[n])
    BY <2>1, <2>3
  <2>5. Precedes(given, at[n], i) /\ Precedes(given, i, at[n])
    BY <2>3, <2>4, Positions
  <2>6. at[n] = i
    BY <2>3, <2>5, ArrivalsOrdered
  <2> QED
    BY <2>2, <2>6
<1>6. {Sorted(given)[n] : n \in DOMAIN given} = {given[i] : i \in DOMAIN given}
  <2>1. ASSUME NEW r
        PROVE  (\E n \in DOMAIN given : Sorted(given)[n] = r)
                 <=> \E i \in DOMAIN given : given[i] = r
    <3>1. ASSUME NEW n \in DOMAIN given, Sorted(given)[n] = r
          PROVE  \E i \in DOMAIN given : given[i] = r
      BY <1>1, <1>2, <3>1
    <3>2. ASSUME NEW i \in DOMAIN given, given[i] = r
          PROVE  \E n \in DOMAIN given : Sorted(given)[n] = r
      <4>1. PICK n \in DOMAIN given : at[n] = i
        BY <1>5
      <4>2. Sorted(given)[n] = given[at[n]]
        BY <1>2
      <4> QED
        BY <3>2, <4>1, <4>2
    <3> QED
      BY <3>1, <3>2
  <2> QED
    BY <2>1
<1>7. ASSUME NEW m \in DOMAIN given, NEW n \in DOMAIN given, m <= n
      PROVE  ~SortsBefore(Sorted(given)[n], Sorted(given)[m])
  <2>1. /\ Position(given, at[m]) <= Position(given, at[n])
        /\ at[m] \in DOMAIN given /\ at[n] \in DOMAIN given
    BY <1>1, <1>7
  <2>2. Precedes(given, at[m], at[n])
    <3> HIDE DEF at
    <3> QED
      BY <2>1, Positions
  <2>3. given[at[m]] \in TraceRow /\ given[at[n]] \in TraceRow
    BY <1>1, <1>3
  <2>4. ~SortsBefore(given[at[n]], given[at[m]])
    BY <2>2, <2>3, RowOrders DEF Precedes
  <2> QED
    BY <1>2, <2>4
<1> QED
  BY <1>4, <1>6, <1>7

\* What the rows taken so far have made of the trace exists: the recursion is on the number
\* of rows.
LEMMA FoldExists ==
  ASSUME NEW len \in Nat, NEW s
  PROVE  \E f : f = [n \in 0 .. len |->
                       IF n = 0 THEN NewEntity ELSE Accumulate(f[n - 1], s[n])]
<1> DEFINE Folds(f, m) ==
             f = [n \in 0 .. m |-> IF n = 0 THEN NewEntity ELSE Accumulate(f[n - 1], s[n])]
           T == {m \in Nat : ~ \E f : Folds(f, m)}
<1>1. SUFFICES ASSUME T # {} PROVE FALSE
  OBVIOUS
<1>2. PICK m \in T : \A k \in T : m <= k
  BY <1>1, Smallest
<1>3. CASE m = 0
  <2> DEFINE g == [n \in 0 .. 0 |-> NewEntity]
  <2>1. \A n \in 0 .. 0 : n = 0
    OBVIOUS
  <2>2. g = [n \in 0 .. 0 |-> IF n = 0 THEN NewEntity ELSE Accumulate(g[n - 1], s[n])]
    BY <2>1
  <2> QED
    BY <1>2, <1>3, <2>2
<1>4. CASE m # 0
  <2>0. m \in Nat /\ m - 1 \in Nat /\ ~(m <= m - 1)
    BY <1>2, <1>4
  <2>1. m \in Nat /\ m - 1 \in Nat /\ m - 1 \notin T
    <3> HIDE DEF T
    <3> QED
      BY <1>2, <2>0
  <2>2. PICK f : Folds(f, m - 1)
    BY <2>1
  <2> DEFINE g == [n \in 0 .. m |-> IF n = m THEN Accumulate(f[m - 1], s[m]) ELSE f[n]]
             Value(n) == IF n = 0 THEN NewEntity ELSE Accumulate(g[n - 1], s[n])
  <2>3. ASSUME NEW n \in 0 .. m PROVE g[n] = Value(n)
    <3>1. CASE n = m
      BY <1>4, <2>1, <3>1
    <3>2. CASE n # m
      <4>1. n \in 0 .. m - 1 /\ g[n] = f[n]
        BY <2>1, <3>2
      <4>2. f[n] = IF n = 0 THEN NewEntity ELSE Accumulate(f[n - 1], s[n])
        BY <2>2, <4>1
      <4>3. n # 0 => g[n - 1] = f[n - 1]
        BY <2>1, <4>1
      <4> QED
        BY <4>1, <4>2, <4>3
    <3> QED
      BY <3>1, <3>2
  <2>4. g = [n \in 0 .. m |-> Value(n)]
    BY <2>3
  <2>5. Folds(g, m)
    BY <2>4
  <2> QED
    BY <1>2, <2>5
<1> QED
  BY <1>3, <1>4

\* Of the rows of P: those on the state of the trace; of those: which were in force, and
\* which then had a word on a scalar.
StatesOf(P) == {r \in P : SaysState(r)}
InForce(P) == {r \in P : \A s \in P : SortsBefore(s, r) => Outranks(r, s)}
Speaking(f, P) == {r \in InForce(P) : Word(f, r) # ""}
IsLast(r, S) == r \in S /\ \A s \in S : r = s \/ Outranks(r, s)

\* The word is that of the last of the rows in force that have one.
IsWord(w, f, P) ==
  IF Speaking(f, P) = {} THEN w = ""
  ELSE \E r \in Speaking(f, P) : IsLast(r, Speaking(f, P)) /\ w = Word(f, r)

\* The entity describes the rows of P.
IsNewest(x, P) == IF P = {} THEN x = NoRow ELSE IsLast(x, P)
Describes(e, P) ==
  /\ e.seen = {r.id : r \in P} /\ IsNewest(e.newest, StatesOf(P))
  /\ \A f \in Scalars : IsWord(e.said[f], f, StatesOf(P))

Entities ==
  [newest : TraceRow \cup {NoRow}, seen : SUBSET Nat,
   said : [Scalars -> Lifecycles \cup Bits]]

\* A row that no earlier one sorts behind is in force if it outranks the newest one, and
\* then it is the last; what was in force stays so.
LEMMA OneMoreRow ==
  ASSUME NEW P \in SUBSET TraceRow, NEW r \in TraceRow, NEW x,
         IsNewest(x, P), \A s \in P : s.id # r.id /\ ~SortsBefore(r, s)
  PROVE  /\ Outranks(r, x) <=> \A s \in P : Outranks(r, s)
         /\ InForce(P \cup {r}) = IF Outranks(r, x) THEN InForce(P) \cup {r} ELSE InForce(P)
         /\ IF Outranks(r, x) THEN IsLast(r, P \cup {r}) ELSE IsLast(x, P \cup {r})
<1>1. \A s \in P : SortsBefore(s, r)
  BY RowOrders
<1>2. Outranks(r, x) <=> \A s \in P : Outranks(r, s)
  <2>1. CASE P = {}
    BY <2>1, RowOrders DEF IsNewest
  <2>2. CASE P # {}
    BY <2>2, RowOrders DEF IsNewest, IsLast
  <2> QED
    BY <2>1, <2>2
<1>3. ~SortsBefore(r, r)
  BY RowOrders
<1>4. ASSUME NEW q
      PROVE  q \in InForce(P \cup {r}) <=>
               q \in IF Outranks(r, x) THEN InForce(P) \cup {r} ELSE InForce(P)
  <2>1. CASE q = r
    <3>1. r \notin P
      OBVIOUS
    <3>2. r \in InForce(P \cup {r}) <=> \A s \in P : Outranks(r, s)
      BY <1>1, <1>3 DEF InForce
    <3>3. r \notin InForce(P)
      BY <3>1 DEF InForce
    <3> QED
      BY <1>2, <2>1, <3>2, <3>3
  <2>2. CASE q # r
    <3>1. q \in InForce(P \cup {r}) <=> q \in InForce(P)
      BY <2>2 DEF InForce
    <3> QED
      BY <2>2, <3>1
  <2> QED
    BY <2>1, <2>2
<1>5. IF Outranks(r, x) THEN IsLast(r, P \cup {r}) ELSE IsLast(x, P \cup {r})
  <2>1. CASE Outranks(r, x)
    BY <1>2, <2>1 DEF IsNewest, IsLast
  <2>2. CASE ~Outranks(r, x)
    <3>1. P # {}
      BY <2>2, RowOrders DEF IsNewest
    <3>2. IsLast(x, P) /\ x \in TraceRow /\ x.id # r.id
      BY <3>1 DEF IsNewest, IsLast
    <3>3. Outranks(x, r)
      BY <2>2, <3>2, RowOrders
    <3>4. \A s \in P \cup {r} : x = s \/ Outranks(x, s)
      <4>1. \A s \in P : x = s \/ Outranks(x, s)
        BY <3>2 DEF IsNewest, IsLast
      <4> QED
        BY <3>3, <4>1
    <3>5. x \in P
      BY <3>2 DEF IsNewest, IsLast
    <3> QED
      BY <2>2, <3>4, <3>5 DEF IsNewest, IsLast
  <2> QED
    BY <2>1, <2>2
<1>6. InForce(P \cup {r}) = IF Outranks(r, x) THEN InForce(P) \cup {r} ELSE InForce(P)
  BY <1>4
<1> QED
  BY <1>2, <1>5, <1>6

\* What a row that was not in force before does to the word on a scalar.
LEMMA OneMoreWord ==
  ASSUME NEW f \in Scalars, NEW P \in SUBSET TraceRow, NEW r \in TraceRow, NEW w,
         IsWord(w, f, P), InForce(P \cup {r}) = InForce(P) \cup {r}, IsLast(r, P \cup {r})
  PROVE  IsWord(IF Word(f, r) = "" THEN w ELSE Word(f, r), f, P \cup {r})
<1>1. CASE Word(f, r) = ""
  <2>1. Speaking(f, P \cup {r}) = Speaking(f, P)
    BY <1>1 DEF Speaking
  <2> QED
    BY <1>1, <2>1 DEF IsWord
<1>2. CASE Word(f, r) # ""
  <2>1. r \in Speaking(f, P \cup {r}) /\ Speaking(f, P \cup {r}) \subseteq P \cup {r}
    BY <1>2 DEF Speaking, InForce
  <2>2. IsLast(r, Speaking(f, P \cup {r}))
    BY <2>1 DEF IsLast
  <2> QED
    BY <1>2, <2>1, <2>2 DEF IsWord
<1> QED
  BY <1>1, <1>2

\* The row that comes next in the sorted order is accumulated rightly.
LEMMA AccumulateRow ==
  ASSUME NEW P \in SUBSET TraceRow, NEW e \in Entities, Describes(e, P), NEW r \in TraceRow,
         \A s \in P : s.id = r.id => s = r,
         \A s \in P : ~SortsBefore(r, s)
  PROVE  Accumulate(e, r) \in Entities /\ Describes(Accumulate(e, r), P \cup {r})
<1>1. PICK seen : seen = e.seen \cup {r.id}
  OBVIOUS
<1>2. seen \in SUBSET Nat /\ seen = {s.id : s \in P \cup {r}}
  BY <1>1, RowFields DEF Entities, Describes
<1> DEFINE a == Accumulate(e, r)
           S == StatesOf(P)
           T == StatesOf(P \cup {r})
<1>3. e.newest \in TraceRow \cup {NoRow} /\ e.said \in [Scalars -> Lifecycles \cup Bits]
  BY DEF Entities
<1>4. /\ IsNewest(e.newest, S) /\ S \in SUBSET TraceRow
      /\ \A f \in Scalars : IsWord(e.said[f], f, S)
  BY DEF Describes, StatesOf
<1>5. CASE r \in P \/ ~SaysState(r) \/ ~Outranks(r, e.newest)
  <2>1. a = [e EXCEPT !.seen = seen]
    BY <1>1, <1>5 DEF Accumulate, Describes
  <2>2. a \in Entities /\ a.seen = seen /\ a.newest = e.newest /\ a.said = e.said
    <3> HIDE DEF a
    <3> QED
      BY <1>2, <2>1 DEF Entities
  <2>3. IsNewest(e.newest, T) /\ InForce(T) = InForce(S)
    <3>1. CASE r \in P \/ ~SaysState(r)
      <4>1. T = S
        BY <3>1 DEF StatesOf
      <4> QED
        BY <1>4, <4>1
    <3>2. CASE r \notin P /\ SaysState(r) /\ ~Outranks(r, e.newest)
      <4>1. T = S \cup {r} /\ \A s \in S : s.id # r.id /\ ~SortsBefore(r, s)
        BY <3>2 DEF StatesOf
      <4>2. InForce(T) = InForce(S) /\ IsLast(e.newest, T) /\ T # {}
        <5> HIDE DEF S, T
        <5> QED
          BY <1>4, <3>2, <4>1, OneMoreRow
      <4> QED
        BY <4>2 DEF IsNewest
    <3> QED
      BY <1>5, <3>1, <3>2
  <2>4. \A f \in Scalars : IsWord(e.said[f], f, T)
    BY <1>4, <2>3 DEF IsWord, Speaking
  <2>5. Describes(a, P \cup {r})
    <3> HIDE DEF a
    <3> QED
      BY <1>2, <2>2, <2>3, <2>4 DEF Describes
  <2> QED
    BY <2>2, <2>5
<1>6. CASE r \notin P /\ SaysState(r) /\ Outranks(r, e.newest)
  <2>1. PICK said : said = [f \in Scalars |-> IF Word(f, r) = "" THEN e.said[f] ELSE Word(f, r)]
    OBVIOUS
  <2>2. r.id \notin e.seen
    BY <1>6 DEF Describes
  <2>3. a = [newest |-> r, seen |-> seen, said |-> said]
    BY <1>1, <1>6, <2>1, <2>2 DEF Accumulate
  <2>4. said \in [Scalars -> Lifecycles \cup Bits]
    BY <1>3, <2>1, RowFields
  <2>5. a \in Entities /\ a.seen = seen /\ a.newest = r /\ a.said = said
    <3> HIDE DEF a
    <3> QED
      BY <1>2, <2>3, <2>4 DEF Entities
  <2>6. T = S \cup {r} /\ \A s \in S : s.id # r.id /\ ~SortsBefore(r, s)
    BY <1>6 DEF StatesOf
  <2>7. InForce(S \cup {r}) = InForce(S) \cup {r} /\ IsLast(r, S \cup {r})
    <3> HIDE DEF S, T
    <3> QED
      BY <1>4, <1>6, <2>6, OneMoreRow
  <2>8. IsNewest(r, T)
    BY <2>6, <2>7 DEF IsNewest
  <2>9. ASSUME NEW f \in Scalars PROVE IsWord(said[f], f, T)
    <3>1. said[f] = IF Word(f, r) = "" THEN e.said[f] ELSE Word(f, r)
      BY <2>1
    <3>2. IsWord(IF Word(f, r) = "" THEN e.said[f] ELSE Word(f, r), f, S \cup {r})
      <4> HIDE DEF S, T
      <4> QED
        BY <1>4, <2>7, OneMoreWord
    <3> QED
      BY <2>6, <3>1, <3>2
  <2>10. Describes(a, P \cup {r})
    <3> HIDE DEF a
    <3> QED
      BY <1>2, <2>5, <2>8, <2>9 DEF Describes
  <2> QED
    BY <2>5, <2>10
<1> QED
  BY <1>5, <1>6

\* What is materialized describes the set of the rows.
LEMMA Materialized ==
  ASSUME NEW given \in Seq(TraceRow), Consistent(given)
  PROVE  /\ Materialize(given) \in Entities
         /\ Describes(Materialize(given), {given[i] : i \in DOMAIN given})
<1> DEFINE s == Sorted(given)
           after == CHOOSE f : f = [n \in 0 .. Len(given) |->
                      IF n = 0 THEN NewEntity ELSE Accumulate(f[n - 1], s[n])]
           P(n) == {s[k] : k \in 1 .. n}
           Good(n) == after[n] \in Entities /\ Describes(after[n], P(n))
<1>1. Materialize(given) = after[Len(given)]
  BY DEF Materialize
<1>2. PICK len \in Nat : len = Len(given) /\ DOMAIN given = 1 .. len
  OBVIOUS
<1>3. after = [n \in 0 .. Len(given) |->
                 IF n = 0 THEN NewEntity ELSE Accumulate(after[n - 1], s[n])]
  BY <1>2, FoldExists
<1>4. after[0] = NewEntity /\ \A n \in 1 .. len : after[n] = Accumulate(after[n - 1], s[n])
  <2>1. 0 \in 0 .. Len(given) /\ \A n \in 1 .. len : n \in 0 .. Len(given) /\ n # 0
    BY <1>2
  <2> HIDE DEF after, s
  <2> QED
    BY <1>3, <2>1
<1>5. /\ s \in [1 .. len -> TraceRow] /\ P(len) = {given[i] : i \in DOMAIN given}
      /\ \A k, m \in 1 .. len : k <= m => ~SortsBefore(s[m], s[k])
  BY <1>2, SortedRows
<1>6. \A k, m \in 1 .. len : s[k].id = s[m].id => s[k] = s[m]
  <2>1. ASSUME NEW k \in 1 .. len PROVE \E i \in DOMAIN given : s[k] = given[i]
    BY <1>2, <1>5
  <2> QED
    BY <2>1 DEF Consistent
<1> HIDE DEF after, s
<1>7. \A n \in 0 .. len : Good(n)
  <2> DEFINE T == {n \in 0 .. len : ~Good(n)}
  <2>1. SUFFICES ASSUME T # {} PROVE FALSE
    OBVIOUS
  <2>2. T \in SUBSET Nat
    OBVIOUS
  <2>3. PICK m \in T : \A k \in T : m <= k
    BY <2>1, <2>2, Smallest
  <2>4. CASE m = 0
    <3>1. P(0) = {}
      OBVIOUS
    <3>2. NewEntity \in Entities
      BY DEF NewEntity, Entities, Lifecycles, Bits
    <3>3. Describes(NewEntity, {})
      BY DEF NewEntity, Describes, StatesOf, IsNewest, IsWord, Speaking, InForce
    <3> QED
      BY <1>4, <2>3, <2>4, <3>1, <3>2, <3>3
  <2>5. CASE m # 0
    <3>1. m \in 1 .. len /\ m - 1 \in 0 .. len /\ m - 1 \notin T
      <4>1. m \in 1 .. len /\ m - 1 \in 0 .. len /\ ~(m <= m - 1)
        BY <2>3, <2>5
      <4> HIDE DEF T
      <4> QED
        BY <2>3, <4>1
    <3>2. Good(m - 1)
      BY <3>1
    <3>3. P(m - 1) \in SUBSET TraceRow /\ s[m] \in TraceRow /\ P(m) = P(m - 1) \cup {s[m]}
      BY <1>5, <3>1
    <3>4. \A q \in P(m - 1) : (q.id = s[m].id => q = s[m]) /\ ~SortsBefore(s[m], q)
      <4>1. ASSUME NEW k \in 1 .. m - 1 PROVE k \in 1 .. len /\ k <= m
        BY <3>1
      <4> QED
        BY <1>5, <1>6, <3>1, <4>1
    <3>5. Good(m)
      <4> HIDE DEF P
      <4>1. after[m] = Accumulate(after[m - 1], s[m])
        BY <1>4, <3>1
      <4> QED
        BY <3>2, <3>3, <3>4, <4>1, AccumulateRow
    <3> QED
      BY <2>3, <3>5
  <2> QED
    BY <2>4, <2>5
<1>8. Good(len)
  <2>1. len \in 0 .. len
    OBVIOUS
  <2> HIDE DEF Good
  <2> QED
    BY <1>7, <2>1
<1> QED
  BY <1>1, <1>2, <1>5, <1>8

\* The last of some rows is the one that outranks the others.
LEMMA LastIs ==
  ASSUME NEW S \in SUBSET TraceRow, NEW r, IsLast(r, S)
  PROVE  Last(S) = r
<1>1. \A q : q \in S /\ (\A p \in S : q = p \/ Outranks(q, p)) => q = r
  BY RowOrders DEF IsLast
<1>2. r \in S /\ \A p \in S : r = p \/ Outranks(r, p)
  BY DEF IsLast
<1> QED
  BY <1>1, <1>2 DEF Last

\* An accepted snapshot has the features of its set of rows.
LEMMA AcceptedSnapshot ==
  ASSUME arrived \in Seq(TraceRow)
  PROVE  FeaturesOfTheSet
<1> DEFINE P == {arrived[i] : i \in DOMAIN arrived}
           mark == IF StateRows = {} THEN "trace" ELSE Last(StateRows).kind
           said == [f \in Scalars |-> LastWord(f)]
<1> SUFFICES ASSUME Consistent(arrived)
             PROVE  Counts(Materialize(arrived)) = Features(mark, said)
  BY DEF FeaturesOfTheSet
<1>1. PICK e : e = Materialize(arrived)
  OBVIOUS
<1>2. Describes(e, P) /\ e \in Entities
  BY <1>1, Materialized
<1>3. P \in SUBSET TraceRow
  OBVIOUS
<1>4. StateRows = StatesOf(P) /\ Applied = InForce(StateRows) /\ StateRows \in SUBSET TraceRow
  BY <1>3 DEF StateRows, StatesOf, Applied, InForce
<1> HIDE DEF P
<1>5. IsNewest(e.newest, StateRows) /\ \A f \in Scalars : IsWord(e.said[f], f, StateRows)
  BY <1>2, <1>4 DEF Describes
<1>6. e.newest.kind = mark
  <2>1. CASE StateRows = {}
    <3>1. e.newest = NoRow
      BY <1>5, <2>1 DEF IsNewest
    <3>2. NoRow.kind = "trace"
      BY DEF NoRow
    <3> QED
      BY <2>1, <3>1, <3>2
  <2>2. CASE StateRows # {}
    BY <1>4, <1>5, <2>2, LastIs DEF IsNewest
  <2> QED
    BY <2>1, <2>2
<1>7. ASSUME NEW f \in Scalars PROVE e.said[f] = LastWord(f)
  <2>1. PICK S : S = {r \in Applied : Word(f, r) # ""}
    OBVIOUS
  <2>2. LastWord(f) = IF S = {} THEN "" ELSE Word(f, Last(S))
    BY <2>1 DEF LastWord
  <2>3. S = Speaking(f, StateRows) /\ S \in SUBSET TraceRow
    BY <1>4, <2>1 DEF Speaking, InForce
  <2>4. IF S = {} THEN e.said[f] = "" ELSE \E r \in S : IsLast(r, S) /\ e.said[f] = Word(f, r)
    BY <1>5, <2>3 DEF IsWord
  <2>5. CASE S = {}
    BY <2>2, <2>4, <2>5
  <2>6. CASE S # {}
    <3>1. PICK r \in S : IsLast(r, S) /\ e.said[f] = Word(f, r)
      BY <2>4, <2>6
    <3>2. Last(S) = r
      BY <2>3, <3>1, LastIs
    <3> QED
      BY <2>2, <2>6, <3>1, <3>2
  <2> QED
    BY <2>5, <2>6
<1>8. e.said = said
  BY <1>2, <1>7 DEF Entities
<1> QED
  BY <1>1, <1>6, <1>8 DEF Counts

\* However the pages order and repeat the rows of a snapshot, the projection that the
\* allocator reads is the one of the set of rows.
THEOREM OrderDoesNotMatter == ProjectionSpec => []FeaturesOfTheSet
<1> DEFINE Typed == arrived \in Seq(TraceRow)
<1>1. ProjectionInit => Typed
  BY DEF ProjectionInit
<1>2. Typed /\ [PageArrives]_arrived => Typed'
  <2>1. SnapshotRows \subseteq TraceRow
    BY ProjectionAssumption
  <2> QED
    BY <2>1 DEF PageArrives
<1>3. Typed => FeaturesOfTheSet
  BY AcceptedSnapshot
<1> QED
  BY <1>1, <1>2, <1>3, PTL DEF ProjectionSpec
================================================================================
