------------------------------ MODULE FormalTools ------------------------------
(***************************************************************************)
(* The bounded formal tools of contextswarm_mini/judge_broker.py:          *)
(* evaluate_local judges the agent's own candidate, formal_query probes    *)
(* one snippet or a portfolio of tactics.  Both count calls and backend    *)
(* units per task, look in a cache of their own, and borrow the evaluator  *)
(* gate for one Judge call at a time.  The handlers of all sessions of a   *)
(* task interleave between the critical sections of _formal_lock and of    *)
(* the gate; the agent edits its candidate meanwhile.                      *)
(***************************************************************************)
EXTENDS Integers, Sequences, FiniteSets

CONSTANTS FormalCallers,  \* request threads of the sessions of one task
          Sources,        \* source texts an evaluation can be about
          CallLimit,      \* evaluate_calls_per_task, query_calls_per_task
          UnitLimit,      \* evaluate_backend_jobs_per_task, query_backend_probes_per_task
          PortfolioLimit  \* bound: tactics of one formal_query

ASSUME FormalAssumption ==
  /\ IsFiniteSet(FormalCallers)
  /\ CallLimit \in Nat /\ UnitLimit \in Nat /\ PortfolioLimit \in Nat

Tools == {"evaluate_local", "formal_query"}

VARIABLES
  candidate,   \* text of the task's candidate file
  callCount,   \* _formal_counts: calls of each tool
  units,       \* _formal_counts: backend units in use, of each tool
  formalCache,    \* _formal_evaluate_cache, _formal_query_cache: the text each verdict is about
  request,     \* what each handler does
  gateHolder,  \* who holds the evaluator gate
  unconfirmed, \* _remote_settlement_unconfirmed
  revokedCallers,     \* callers whose capability is closed
  jobs,        \* Judge calls that ran or may still run, of each tool
  reported     \* units that answers reported as consumed, of each tool

formalVars == <<candidate, callCount, units, formalCache, request, gateHolder, unconfirmed, revokedCallers,
                jobs, reported>>
budgetVars == <<callCount, units, jobs, reported>>
gateVars == <<gateHolder, unconfirmed>>

NoHolder == "nobody"
Parked == "remote job"   \* the gate stays with a job that has not settled
NoRequest == [tool |-> "none", at |-> "idle", todo |-> <<>>, judged |-> <<>>]
PerTool(x) == [t \in Tools |-> x]

FormalInit ==
  /\ candidate \in Sources /\ callCount = PerTool(0) /\ units = PerTool(0)
  /\ formalCache = PerTool(<<>>) /\ request = [c \in FormalCallers |-> NoRequest]
  /\ gateHolder = NoHolder /\ unconfirmed = FALSE /\ revokedCallers = {}
  /\ jobs = PerTool(0) /\ reported = PerTool(0)
--------------------------------------------------------------------------------
Goto(c, place) == request' = [request EXCEPT ![c].at = place]

\* The handler goes on with the next tactic, or answers.
Advance(c, stop) ==
  LET r == request[c] IN
  request' = [request EXCEPT ![c] =
                IF stop \/ Len(r.todo) = 1 THEN NoRequest
                ELSE [r EXCEPT !.at = "lookup", !.todo = Tail(r.todo)]]

\* _formal_kernel_query: imports with each tactic in turn, one snippet, or nothing for the
\* commands that only read the index and for a refused request.
QueryTexts == UNION {[1 .. n -> Sources] : n \in 0 .. PortfolioLimit}

\* _formal_increment.
CountTool(tool) == callCount' = [callCount EXCEPT ![tool] = @ + 1]

\* The call is counted before anything else is looked at.
Begin(c, tool, texts) ==
  /\ request[c] = NoRequest
  /\ CountTool(tool)
  /\ IF callCount'[tool] > CallLimit \/ c \in revokedCallers \/ unconfirmed
     THEN UNCHANGED request
     ELSE \E todo \in texts :
            request' = [request EXCEPT ![c] =
                          IF todo = <<>> THEN NoRequest
                          ELSE [tool |-> tool, at |-> "lookup", todo |-> todo, judged |-> <<>>]]
  /\ UNCHANGED <<candidate, units, formalCache, gateVars, revokedCallers, jobs, reported>>

\* _evaluate_local reads the candidate once.
BeginEvaluate(c) == Begin(c, "evaluate_local", {<<candidate>>})
BeginQuery(c) == Begin(c, "formal_query", QueryTexts)

\* The cache lookup under _formal_lock.  A tactic that closes the goal ends the portfolio.
LookUp(c) ==
  LET r == request[c] IN
  /\ r.at = "lookup"
  /\ IF Head(r.todo) \in DOMAIN formalCache[r.tool]
     THEN \E closed \in BOOLEAN : Advance(c, closed)
     ELSE Goto(c, "missed")
  /\ UNCHANGED <<candidate, budgetVars, formalCache, gateVars, revokedCallers>>

\* _formal_reserve; an exhausted budget ends the request.
Reserve(c) ==
  LET tool == request[c].tool IN
  /\ request[c].at = "missed"
  /\ IF units[tool] >= UnitLimit THEN Advance(c, TRUE) /\ UNCHANGED units
     ELSE Goto(c, "reserved") /\ units' = [units EXCEPT ![tool] = @ + 1]
  /\ UNCHANGED <<candidate, callCount, formalCache, gateVars, revokedCallers, jobs, reported>>

\* _formal_release.
Refund(tool) ==
  units' = [units EXCEPT ![tool] = IF @ = 0 THEN 0 ELSE @ - 1] /\ UNCHANGED reported
Consume(tool) == reported' = [reported EXCEPT ![tool] = @ + 1] /\ UNCHANGED units

\* Faulty variant of ProbeText: the candidate is read again.
ProbeTextAgain(c) ==
  IF request[c].tool = "evaluate_local" THEN candidate ELSE Head(request[c].todo)

\* What probe_source is given: the text of the lookup.
ProbeText(c) == Head(request[c].todo)

\* _acquire_evaluator_gate, and the call.
StartProbe(c) ==
  /\ request[c].at = "reserved" /\ gateHolder = NoHolder /\ ~unconfirmed /\ c \notin revokedCallers
  /\ gateHolder' = c
  /\ request' = [request EXCEPT ![c].at = "judging", ![c].judged = <<ProbeText(c)>>]
  /\ jobs' = [jobs EXCEPT ![request[c].tool] = @ + 1]
  /\ UNCHANGED <<candidate, callCount, units, reported, formalCache, unconfirmed, revokedCallers>>

\* The gate is closed, the capability is revoked, or the deadline passes in the queue.
GateRefused(c) ==
  /\ request[c].at = "reserved" /\ Refund(request[c].tool) /\ Advance(c, unconfirmed)
  /\ UNCHANGED <<candidate, callCount, jobs, formalCache, gateVars, revokedCallers>>
--------------------------------------------------------------------------------
\* What one probe_source call can come to.
Outcomes == {
  "answered",     \* a verdict about the text
  "inconclusive", \* a status in _FORMAL_NONCACHEABLE_STATUSES
  "raised",       \* an exception
  "reused",       \* verdict.cache_reused: the evaluator had the answer
  "rejected",     \* LOCAL_REJECTED: a verdict without a job
  "turned away",  \* overloaded, cancelled or too late, or no probe_source at all
  "deferred",     \* the job is still queued; its settlement callback frees the gate
  "unsettled"}    \* the job may still run and nobody will tell

Retains(outcome) == outcome \in {"deferred", "unsettled"}

\* Faulty variant of ProvesNoJob: whatever has no verdict is refunded.
ProvesNoJobLoosely(outcome) == outcome \notin {"answered", "unsettled"}
ProvesNoJob(outcome) == outcome \in {"reused", "rejected", "turned away"}

RanNoJob(outcome) == outcome \in {"reused", "rejected", "turned away"}
Cacheable(outcome) == outcome \in {"answered", "reused", "rejected"}

\* The store under _formal_lock: the verdict about a text is kept for the lookup's text.
Remember(tool, text, about) ==
  formalCache' = [formalCache EXCEPT ![tool] =
                    [t \in DOMAIN @ \cup {text} |-> IF t = text THEN about ELSE @[t]]]

\* The rest of _formal_kernel_probe, and of _evaluate_local after its call.  The gate is
\* given back before the unit; the answer is stored last.  Nothing reads in between, so
\* it is one step.
EndProbe(c, outcome) ==
  LET r == request[c] IN
  /\ r.at = "judging"
  /\ gateHolder' = IF Retains(outcome) THEN Parked ELSE NoHolder
  /\ unconfirmed' = (unconfirmed \/ outcome = "unsettled")
  /\ IF ProvesNoJob(outcome) THEN Refund(r.tool) ELSE Consume(r.tool)
  /\ jobs' = IF RanNoJob(outcome) THEN [jobs EXCEPT ![r.tool] = @ - 1] ELSE jobs
  /\ IF Cacheable(outcome) THEN Remember(r.tool, Head(r.todo), r.judged[1])
     ELSE UNCHANGED formalCache
  /\ \E ends \in BOOLEAN :
       /\ outcome = "unsettled" => ends
       /\ ends => outcome \in {"unsettled", "answered", "reused", "deferred"}
       /\ Advance(c, ends)
  /\ UNCHANGED <<candidate, callCount, revokedCallers>>

\* The settlement callback of a deferred job: _release_evaluator_gate.
JobSettles ==
  /\ gateHolder = Parked /\ ~unconfirmed /\ gateHolder' = NoHolder
  /\ UNCHANGED <<candidate, budgetVars, formalCache, request, unconfirmed, revokedCallers>>

EditFormalCandidate ==
  /\ candidate' \in Sources \ {candidate}
  /\ UNCHANGED <<budgetVars, formalCache, request, gateVars, revokedCallers>>

RevokeCaller(c) ==
  /\ c \notin revokedCallers /\ revokedCallers' = revokedCallers \cup {c}
  /\ UNCHANGED <<candidate, budgetVars, formalCache, request, gateVars>>

\* Bound: one call more than a tool allows, of both tools together.
MoreCalls == callCount["evaluate_local"] + callCount["formal_query"] <= CallLimit

FormalNext ==
  \/ EditFormalCandidate \/ JobSettles
  \/ \E c \in FormalCallers :
       \/ MoreCalls /\ (BeginEvaluate(c) \/ BeginQuery(c))
       \/ LookUp(c) \/ Reserve(c) \/ StartProbe(c) \/ GateRefused(c)
       \/ \E outcome \in Outcomes : EndProbe(c, outcome)
       \/ RevokeCaller(c)

FormalSpec == FormalInit /\ [][FormalNext]_formalVars
--------------------------------------------------------------------------------
Holding(tool) ==
  {c \in FormalCallers : request[c].tool = tool /\ request[c].at \in {"reserved", "judging"}}

FormalTypeOK ==
  /\ candidate \in Sources /\ revokedCallers \subseteq FormalCallers
  /\ gateHolder \in FormalCallers \cup {NoHolder, Parked}

\* The task's budget is real: whatever calls overlap, fail, are refunded or leave a job
\* behind, the Judge is called at most UnitLimit times for the task and tool without
\* proof that nothing ran, and every unit in use is reported by one answer or held by
\* one call.
BudgetCoversJobs ==
  \A t \in Tools :
    /\ jobs[t] <= UnitLimit
    /\ units[t] = reported[t] + Cardinality(Holding(t))

\* A stored verdict answers for the text it is stored under, although the candidate
\* may have been edited between the lookup and the Judge call.
VerdictOfTheText ==
  \A t \in Tools : \A text \in DOMAIN formalCache[t] : formalCache[t][text] = text
================================================================================
