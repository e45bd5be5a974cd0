--------------------------- MODULE AllocationChoice ---------------------------
(***************************************************************************)
(* contextswarm_mini/allocation_core.py and allocation.py: how an arm      *)
(* turns a snapshot into a decision.  A model is asked by two arms; its    *)
(* answer may be late, malformed, an error, or never come, and then a      *)
(* deterministic choice takes its place.  Scores and prompts are data: any *)
(* eligible task may have the highest score.                               *)
(***************************************************************************)
EXTENDS Integers, FiniteSets

CONSTANT TaskCount  \* the tasks, in the order round robin goes through them

ASSUME ChoiceAssumption == TaskCount \in Nat \ {0}

TaskIds == 1 .. TaskCount
NoTask == 0

\* Snapshots: who may be chosen, whether time is left, and the slots that are free or
\* held by the caller for this very decision.
Snapshots == [eligible : SUBSET TaskIds, timeLeft : BOOLEAN, free : 0 .. 1, owned : 0 .. 1]

\* What a model call comes to; task is what a parsed answer names.
Replies == [prompt : {"fits", "rejected"}, raised : BOOLEAN, horizon : BOOLEAN,
            recoverable : BOOLEAN, timedOut : BOOLEAN, code : {0, 1},
            task : TaskIds \cup {NoTask}]

Unasked == [task |-> NoTask, outcome |-> "not_invoked", costed |-> FALSE, fallback |-> FALSE,
            invalid |-> FALSE, recoverable |-> FALSE, horizon |-> FALSE]

VARIABLES
  arm,        \* which policy the run has
  turn,       \* _cursor: the task round robin looks at first
  decision,   \* the last decision
  open,       \* history: the snapshot of it had a task, time, and a slot for it
  passedBy    \* history: the tasks round robin took since each eligible one's last turn

choiceVars == <<arm, turn, decision, open, passedBy>>

CoreArms == {"uniform_refill", "task_state", "trace_state", "llm_scheduler"}
RoundRobinArms == {"uniform", "agent"}

ChoiceInit ==
  /\ arm \in CoreArms \cup RoundRobinArms
  /\ turn = 1 /\ decision = Unasked /\ open = FALSE
  /\ passedBy = [t \in TaskIds |-> {}]
--------------------------------------------------------------------------------
\* _admission_capacity_available: physical slots, or the reservation of this decision.
Capacity(s, mayOwn) == s.timeLeft /\ (s.free > 0 \/ (mayOwn /\ s.owned > 0))

\* What the callers ask for: a reservation is held only by the LLM scheduler.
Asked(s) ==
  /\ s.owned = 0 \/ arm = "llm_scheduler"
  /\ open' = (s.eligible # {} /\ Capacity(s, TRUE))

\* Task-State, Trace-State and Uniform-Refill: the best eligible task, if any.
ChooseScored(s) ==
  /\ arm \in CoreArms \ {"llm_scheduler"} /\ Asked(s)
  /\ \/ open' /\ \E t \in s.eligible : decision' = [Unasked EXCEPT !.task = t]
     \/ ~open' /\ decision' = Unasked
  /\ UNCHANGED <<arm, turn, passedBy>>

\* The response the policy goes on with: its own after a rejected prompt, or for a
\* call that raised or returned something else.
Charged(r) ==
  IF r.prompt = "rejected"
  THEN [r EXCEPT !.code = 1, !.raised = FALSE, !.recoverable = FALSE, !.timedOut = FALSE,
                 !.horizon = FALSE]
  ELSE IF r.raised
  THEN [r EXCEPT !.code = 1, !.recoverable = TRUE, !.timedOut = FALSE, !.horizon = FALSE]
  ELSE r

\* Why a model's decision is not used.
Outcome(r) ==
  IF r.recoverable \/ (r.code # 0 /\ ~r.timedOut /\ r.prompt = "fits") THEN "provider_error"
  ELSE IF r.timedOut THEN "policy_timeout" ELSE "invalid_output"

\* Faulty variant of FallbackTasks: the fallback is a Task-State decision like any other.
FallbackGated(s) == IF Capacity(s, FALSE) THEN s.eligible ELSE {NoTask}

\* The fallback scores the snapshot past the capacity gate: the slot is held already.
FallbackTasks(s) == s.eligible

\* ReadOnlyLLMSchedulerPolicy.choose.
ChooseByModel(s, reply) ==
  LET r == Charged(reply)
      Costed(d) == decision' = [d EXCEPT !.costed = TRUE]
      usable == r.code = 0 /\ ~r.recoverable /\ ~r.timedOut /\ r.task \in s.eligible
  IN
  /\ arm = "llm_scheduler" /\ Asked(s)
  /\ \/ ~open' /\ decision' = Unasked
     \/ /\ open' /\ r.horizon
        /\ Costed([Unasked EXCEPT !.outcome = "horizon_truncated", !.horizon = TRUE])
     \/ /\ open' /\ ~r.horizon /\ usable
        /\ Costed([Unasked EXCEPT !.outcome = "accepted", !.task = r.task])
     \/ /\ open' /\ ~r.horizon /\ ~usable
        /\ \E t \in FallbackTasks(s) :
             Costed([Unasked EXCEPT !.outcome = Outcome(r), !.task = t, !.fallback = TRUE,
                       !.invalid = Outcome(r) = "invalid_output",
                       !.recoverable = r.recoverable \/ Outcome(r) = "provider_error"])
  /\ UNCHANGED <<arm, turn, passedBy>>
--------------------------------------------------------------------------------
\* Faulty variant of NextTurn: the cursor counts decisions.
NextTurnByOne(t) == (turn % TaskCount) + 1

\* The cursor moves past the task taken.
NextTurn(t) == (t % TaskCount) + 1

\* UniformAllocationPolicy._select.
Distance(t) == (t - turn + TaskCount) % TaskCount
RoundRobin(E) == CHOOSE t \in E : \A u \in E : Distance(t) <= Distance(u)

TakeTurn(E) ==
  LET t == RoundRobin(E) IN
  /\ turn' = NextTurn(t)
  /\ passedBy' = [u \in TaskIds |-> IF u \in E \ {t} THEN passedBy[u] \cup {t} ELSE {}]

\* The uniform arm, and the runner's fallback to it once a decision has gone stale.
ChooseUniform(s) ==
  /\ arm \in RoundRobinArms /\ s.eligible # {} /\ Asked(s)
  /\ TakeTurn(s.eligible)
  /\ decision' = [Unasked EXCEPT !.task = RoundRobin(s.eligible), !.fallback = arm = "agent"]
  /\ UNCHANGED arm

\* AgentAllocationPolicy.choose: the agent's own choice leaves the cursor alone.
ChooseByAgent(s, r) ==
  /\ arm = "agent" /\ s.eligible # {} /\ Asked(s)
  /\ \/ /\ r.horizon /\ decision' = [Unasked EXCEPT !.horizon = TRUE]
        /\ UNCHANGED <<turn, passedBy>>
     \/ /\ ~r.horizon /\ r.code = 0 /\ r.task \in s.eligible
        /\ decision' = [Unasked EXCEPT !.task = r.task]
        /\ passedBy' = [u \in TaskIds |-> IF u \in s.eligible \ {r.task} THEN passedBy[u] ELSE {}]
        /\ UNCHANGED turn
     \/ /\ ~r.horizon /\ (r.code # 0 \/ r.task \notin s.eligible)
        /\ TakeTurn(s.eligible)
        /\ decision' = [Unasked EXCEPT !.task = RoundRobin(s.eligible), !.fallback = TRUE]
  /\ UNCHANGED arm

ChoiceNext ==
  \E s \in Snapshots :
    \/ ChooseScored(s) \/ ChooseUniform(s)
    \/ \E r \in Replies : ChooseByModel(s, r) \/ ChooseByAgent(s, r)

ChoiceSpec == ChoiceInit /\ [][ChoiceNext]_choiceVars
--------------------------------------------------------------------------------
\* AllocationDecision.__post_init__: the closed set of outcomes; anything else raises.
Representable(d) ==
  LET flags == <<d.fallback, d.invalid, d.recoverable, d.horizon>> IN
  /\ d.costed <=> d.outcome # "not_invoked"
  /\ CASE d.outcome \in {"not_invoked", "accepted"} -> flags = <<FALSE, FALSE, FALSE, FALSE>>
       [] d.outcome = "invalid_output"    -> flags = <<TRUE, TRUE, FALSE, FALSE>>
       [] d.outcome = "provider_error"    -> flags = <<TRUE, FALSE, TRUE, FALSE>>
       [] d.outcome = "policy_timeout"    -> flags = <<TRUE, FALSE, FALSE, FALSE>>
       [] d.outcome = "horizon_truncated" -> flags = <<FALSE, FALSE, FALSE, TRUE>>

ChoiceTypeOK ==
  /\ turn \in TaskIds /\ decision.task \in TaskIds \cup {NoTask}
  /\ passedBy \in [TaskIds -> SUBSET TaskIds]

\* Whatever becomes of the model call, the decision can be represented (its constructor
\* does not raise, which would fail the run), and with a task, time and a slot it names
\* a task unless the run is over: nothing spins on empty decisions.
DecisionUsable ==
  arm \in CoreArms =>
    /\ Representable(decision)
    /\ open /\ ~decision.horizon => decision.task # NoTask

\* No task gets a second round-robin turn while another stays eligible without its own,
\* though tasks close, the agent's choices come in between, and fallbacks share the cursor.
EveryoneGetsATurn ==
  [][\A t, u \in TaskIds :
       (arm = "uniform" \/ decision'.fallback) /\ decision'.task = u /\ u \in passedBy[t]
         => passedBy'[t] = {}]_choiceVars
================================================================================
