------------------------------- MODULE MCProgress -------------------------------
(***************************************************************************)
(* The components that must get somewhere, on small instances: the close   *)
(* of the broker, the exit of a session, a call of the coding evaluator,   *)
(* the supervision of a solver.  They do not interact here.  A behaviour   *)
(* is one of exactly one of them, chosen at the start: the states are the  *)
(* sum of theirs, not the product.                                         *)
(***************************************************************************)
EXTENDS BrokerClose, ProbeSession, CodingJudge, SolverLife

VARIABLE part  \* the component this behaviour is of

partVars == <<part, allVars, sessionVars, codingVars, lifeVars>>

MCInit ==
  /\ part \in {"BrokerClose", "ProbeSession", "CodingJudge", "SolverLife"}
  /\ CloseInit /\ SessionInit /\ CodingInit /\ LifeInit
  /\ admits  \* as in every session of the runner

Closing == part = "BrokerClose"
InSession == part = "ProbeSession"
Coding == part = "CodingJudge"
Supervising == part = "SolverLife"
OnlyClose == Closing /\ UNCHANGED <<part, sessionVars, codingVars, lifeVars>>
OnlySession == InSession /\ UNCHANGED <<part, allVars, codingVars, lifeVars>>
OnlyCoding == Coding /\ UNCHANGED <<part, allVars, sessionVars, lifeVars>>
OnlyLife == Supervising /\ UNCHANGED <<part, allVars, sessionVars, codingVars>>

\* Requests of a session are numbered in the order in which they arrive, since nothing
\* else tells them apart.
Arrived == {h \in Handlers : place[h] # "idle"}
Arrivals == \A h, g \in Checks : h < g /\ g \in Arrived' => h \in Arrived'

MCNext ==
  \/ OnlyClose /\ CloseNext
  \/ OnlySession /\ SessionNext /\ Arrivals
  \/ OnlyCoding /\ CodingNext
  \/ OnlyLife /\ LifeNext

\* The fairness of each component, in its own behaviours.
MCFairness ==
  /\ WF_allVars(Closing /\ HorizonPasses /\ UNCHANGED closeVars)
  /\ \A c \in Calls : WF_allVars(Closing /\ CallStep(c) /\ UNCHANGED closeVars)
  /\ \A j \in Jobs : WF_allVars(Closing /\ WatcherStep(j) /\ UNCHANGED closeVars)
  /\ WF_allVars(Closing /\ CloseStep)
  /\ \A h \in Handlers : WF_sessionVars(InSession /\ (CheckStep(h) \/ CpsStep(h)))
  /\ WF_sessionVars(InSession /\ (ExitForgets \/ ExitDrains))
  /\ WF_codingVars(Coding /\ CutoffPasses)
  /\ \A c \in Coders : /\ WF_codingVars(Coding /\ CoderStep(c))
                       /\ WF_codingVars(Coding /\ WatcherReports(c))
  /\ WF_lifeVars(Supervising /\ SolverStep)
  /\ WF_lifeVars(Supervising /\ LifeTick)

MCSpec == MCInit /\ [][MCNext]_partVars /\ MCFairness

\* SolverLife's LifeEnds, in the behaviours of SolverLife: whatever the Pi process and
\* its descendants do, the logical solver returns.
EverySolverReturns == Supervising => LifeEnds
================================================================================
