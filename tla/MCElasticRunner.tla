---------------------------- MODULE MCElasticRunner ----------------------------
(***************************************************************************)
(* The elastic runner on small instances.  The scheduler's own policy only *)
(* orders the initial pool, so one of the two is enough here.              *)
(***************************************************************************)
EXTENDS ElasticRunner

MCRunnerInit == RunnerInit /\ assignment_policy = "round_robin"

\* All tasks without a fault, and one task, on which two workers may meet, with faults.
\* The agent arm has more initial workers than slots, so that they go on after the fill.
MCSmallInit ==
  /\ MCRunnerInit
  /\ \/ known = 1 /\ faults = MaxFaults /\ \A t \in Tasks : initial_agents[t] = 1
     \/ /\ known = MaxTasks /\ faults = 0
        /\ \A t \in Tasks : initial_agents[t] = (IF policy = "agent" /\ t = known THEN 2 ELSE 1)
MCSmallSpec == MCSmallInit /\ [][RunnerNext]_allVars

\* One more task than workers, which only a decision of the arm can assign, with a fault.
MCFairInit == MCRunnerInit /\ known = MaxTasks /\ faults = MaxFaults
MCFairRunnerSpec == MCFairInit /\ [][RunnerNext]_allVars /\ RunnerFairness
================================================================================
