------------------------------ MODULE MCJudgeGate ------------------------------
(***************************************************************************)
(* JudgeGate on a small instance, a judge_check, a formal-tool call and an *)
(* evaluation by the runner, whose jobs the Judge may give out twice; and  *)
(* the close of the broker, with the last two of them.  Only safety is     *)
(* checked, so the jobs, which nothing orders, may be interchanged.        *)
(***************************************************************************)
EXTENDS BrokerClose, TLC

JobSymmetry == Permutations(Jobs)

\* To keep the state space small nobody asks for a judge_check while the broker closes.
ClosesWithoutChecks == phase' = "open" \/ \A c \in Probes : pc'[c] = "idle"

MCSpec == CloseInit /\ [][CloseNext /\ ClosesWithoutChecks]_allVars
================================================================================
