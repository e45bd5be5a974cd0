----------------------------- MODULE SolverLife -----------------------------
(***************************************************************************)
(* contextswarm_mini/agent_recovery.py, run_with_recovery, around          *)
(* pi_agent.py, PiAgent.run: one logical solver whose Pi process is        *)
(* started, watched, drained and, after a failure that is worth it,        *)
(* started again on the same session and workspace.  Time is counted in    *)
(* units of the backoff's resolution up to the run's fixed horizon.        *)
(***************************************************************************)
EXTENDS Integers

CONSTANTS RestartLimit,   \* pi_recovery_max_restarts
          BaseDelay,      \* pi_recovery_base_delay_ms, in units
          LifeHorizon     \* deadline_monotonic, in units

ASSUME LifeAssumption ==
  RestartLimit \in Nat /\ BaseDelay \in Nat /\ LifeHorizon \in Nat \ {0}

Invocations == 0 .. RestartLimit

VARIABLES
  now,        \* the clock, which stops at the horizon
  cancelled,  \* cancel_event
  step,       \* where the logical solver is
  attempt,    \* recovery_attempt
  leaders,    \* invocations whose Pi process is alive
  holders,    \* invocations with a descendant that keeps the pipes open
  exitCode,   \* how the present invocation's process ended: 0, 1, or -1 for not yet
  stop,       \* why the RPC loop was left
  due,        \* when the backoff ends
  outcome,    \* why the logical solver returned
  overAt,     \* history: where it was when the run was over
  immortal    \* history: invocations whose process survived SIGKILL

lifeVars == <<now, cancelled, step, attempt, leaders, holders, exitCode, stop, due,
              outcome, overAt, immortal>>
processVars == <<leaders, holders, exitCode, immortal>>
clockVars == <<now, cancelled, overAt>>

Over == cancelled \/ now >= LifeHorizon
Delay == BaseDelay * 2^attempt
Drained == attempt \notin leaders \cup holders

LifeInit ==
  /\ now = 0 /\ cancelled = FALSE /\ overAt = "none"
  /\ step = "guard" /\ attempt = 0 /\ due = 0
  /\ leaders = {} /\ holders = {} /\ exitCode = -1 /\ immortal = {}
  /\ stop = "none" /\ outcome = "none"
--------------------------------------------------------------------------------
\* The surroundings: the clock, the runner's cancellation, and the processes.
NoteOver == overAt' = IF overAt = "none" THEN step ELSE overAt

LifeTick ==
  /\ now < LifeHorizon /\ now' = now + 1
  /\ IF now' = LifeHorizon THEN NoteOver ELSE UNCHANGED overAt
  /\ UNCHANGED <<cancelled, step, attempt, stop, due, outcome, processVars>>

CancelSolver ==
  /\ ~cancelled /\ cancelled' = TRUE /\ NoteOver
  /\ UNCHANGED <<now, step, attempt, stop, due, outcome, processVars>>

SpawnHelper ==
  /\ step = "running" /\ attempt \in leaders
  /\ holders' = holders \cup {attempt}
  /\ UNCHANGED <<clockVars, step, attempt, leaders, exitCode, immortal, stop, due, outcome>>

HelperExits(a) ==
  /\ a \in holders /\ holders' = holders \ {a}
  /\ UNCHANGED <<clockVars, step, attempt, leaders, exitCode, immortal, stop, due, outcome>>

LeaderExits(a, code) ==
  /\ a \in leaders /\ leaders' = leaders \ {a}
  /\ exitCode' = IF a = attempt /\ step \in {"running", "draining", "killed"}
                 THEN code ELSE exitCode
  /\ UNCHANGED <<clockVars, step, attempt, holders, immortal, stop, due, outcome>>
--------------------------------------------------------------------------------
SolverAnswers(why) ==
  /\ step' = "returned" /\ outcome' = why
  /\ UNCHANGED <<clockVars, processVars, attempt, stop, due>>
Proceed(s) ==
  /\ step' = s
  /\ UNCHANGED <<clockVars, processVars, attempt, stop, due, outcome>>

\* The head of the loop: nothing is started once the run is over.
CheckLifecycle ==
  /\ step = "guard"
  /\ IF Over THEN SolverAnswers("over") ELSE Proceed("checked")

\* invoke(): the process is started and given the prompt; either may fail.
LaunchPi ==
  /\ step = "checked" /\ step' = "running"
  /\ leaders' = leaders \cup {attempt} /\ exitCode' = -1 /\ stop' = "none"
  /\ UNCHANGED <<clockVars, attempt, holders, immortal, due, outcome>>

LaunchFails ==
  /\ step = "checked" /\ step' = "classify"
  /\ stop' = "error" /\ exitCode' = 1
  /\ UNCHANGED <<clockVars, attempt, leaders, holders, immortal, due, outcome>>

LeaveRpc(why) ==
  /\ step = "running" /\ step' = "draining" /\ stop' = why
  /\ UNCHANGED <<clockVars, processVars, attempt, due, outcome>>

\* agent_settled, without or with a final error; the prompt rejected; a broken pipe.
Reported(why) ==
  /\ why \in {"settled", "failed", "rejected", "error"} /\ attempt \in leaders
  /\ LeaveRpc(why)
\* The inner timeout is shorter than the horizon or the same.
TimesOut == LeaveRpc("timeout")
Interrupted == now < LifeHorizon /\ cancelled /\ LeaveRpc("cancelled")
FoundDead == attempt \notin leaders /\ LeaveRpc("dead")

\* _drain_process: stdin is closed or SIGTERM sent; communicate() returns when the
\* process has exited and nobody holds its pipes.
DrainEnds ==
  /\ step \in {"draining", "killed", "spared"} /\ Drained
  /\ Proceed("classify")

\* Faulty variant of DrainTimesOut: no limit once the process itself is gone.
DrainTimesOutLive ==
  /\ step = "draining" /\ attempt \in leaders
  /\ step' = "killed"
  /\ leaders' = leaders \ {attempt} /\ holders' = holders \ {attempt}
  /\ exitCode' = 1 /\ UNCHANGED immortal
  /\ UNCHANGED <<clockVars, attempt, stop, due, outcome>>

\* Faulty variant of DrainTimesOut: gives up without SIGKILL.
DrainGivesUp == step = "draining" /\ ~Drained /\ Proceed("classify")

\* The grace is over: SIGKILL for the group, unless its leader has exited, in which
\* case _signal_process returns and whoever holds the pipes is left alone.
DrainTimesOut ==
  /\ step = "draining" /\ ~Drained
  /\ \/ /\ attempt \in leaders /\ step' = "killed"
        /\ \/ /\ leaders' = leaders \ {attempt} /\ holders' = holders \ {attempt}
              /\ exitCode' = 1 /\ UNCHANGED immortal
           \/ /\ immortal' = immortal \cup {attempt}
              /\ UNCHANGED <<leaders, holders, exitCode>>
     \/ /\ attempt \notin leaders /\ step' = "spared"
        /\ UNCHANGED processVars
  /\ UNCHANGED <<clockVars, attempt, stop, due, outcome>>

\* Five more seconds; a process not reaped by then counts as failed.
KillTimesOut ==
  /\ step \in {"killed", "spared"} /\ ~Drained
  /\ step' = "classify"
  /\ exitCode' = IF step = "killed" THEN 1 ELSE exitCode
  /\ UNCHANGED <<clockVars, attempt, leaders, holders, immortal, stop, due, outcome>>

Succeeded == exitCode = 0 /\ stop = "settled"
Recoverable == ~Succeeded /\ stop # "cancelled" /\ ~Over

RestartsLeft == attempt < RestartLimit
BackoffFits == LifeHorizon - now > Delay

\* The verdict on the invocation, and the backoff before the next one.
Classify ==
  /\ step = "classify"
  /\ \/ Succeeded /\ SolverAnswers("success")
     \/ ~Succeeded /\ ~Recoverable /\ SolverAnswers("over")
     \/ Recoverable /\ ~RestartsLeft /\ SolverAnswers("restart_limit")
     \/ Recoverable /\ RestartsLeft /\ ~BackoffFits /\ SolverAnswers("no_time")
     \/ /\ Recoverable /\ RestartsLeft /\ BackoffFits
        /\ step' = "backoff" /\ due' = now + Delay
        /\ UNCHANGED <<clockVars, processVars, attempt, stop, outcome>>

\* The wait ends early when cancelled; both conditions are looked at again after it.
Relaunch ==
  /\ step = "backoff" /\ (now >= due \/ cancelled)
  /\ \/ Over /\ SolverAnswers("over")
     \/ /\ ~Over /\ step' = "guard" /\ attempt' = attempt + 1
        /\ UNCHANGED <<clockVars, processVars, stop, due, outcome>>

SolverStep ==
  \/ CheckLifecycle \/ LaunchPi \/ LaunchFails
  \/ \E why \in {"settled", "failed", "rejected", "error"} : Reported(why)
  \/ TimesOut \/ Interrupted \/ FoundDead
  \/ DrainEnds \/ DrainTimesOut \/ KillTimesOut \/ Classify \/ Relaunch

Surroundings ==
  \/ LifeTick \/ CancelSolver \/ SpawnHelper
  \/ \E a \in Invocations : HelperExits(a)
  \/ \E a \in Invocations, code \in {0, 1} : LeaderExits(a, code)

LifeNext == SolverStep \/ Surroundings
LifeFairness == WF_lifeVars(SolverStep) /\ WF_lifeVars(LifeTick)
LifeSpec == LifeInit /\ [][LifeNext]_lifeVars
FairLifeSpec == LifeSpec /\ LifeFairness
--------------------------------------------------------------------------------
LifeTypeOK ==
  /\ now \in 0 .. LifeHorizon /\ cancelled \in BOOLEAN
  /\ step \in {"guard", "checked", "running", "draining", "killed", "spared",
               "classify", "backoff", "returned"}
  /\ attempt \in Invocations /\ due \in Nat
  /\ leaders \subseteq Invocations /\ holders \subseteq Invocations
  /\ immortal \subseteq Invocations /\ exitCode \in {-1, 0, 1}
  /\ stop \in {"none", "settled", "failed", "rejected", "error", "timeout", "cancelled",
               "dead"}
  /\ outcome \in {"none", "success", "over", "restart_limit", "no_time"}
  /\ overAt \in {"none", "guard", "checked", "running", "draining", "killed", "spared",
                 "classify", "backoff", "returned"}

\* A restart scheduled before the horizon or a cancellation starts no process after
\* it, except in the window between the last check and Popen; and the workspace of a
\* restarted solver has no other live Pi process, except one that survived SIGKILL.
StartsClean ==
  step = "running" =>
    /\ overAt \in {"none", "checked", "running"}
    /\ leaders \subseteq {attempt} \cup immortal

\* Whatever the process and its descendants do, the logical solver returns.
LifeEnds == <>(step = "returned")
================================================================================
