-------------------------- MODULE Supervision_proofs ---------------------------
(***************************************************************************)
(* Proofs about the two supervisors of processes: SolverLife, for any      *)
(* limit of restarts and any horizon, and FormalMatrix, for any number of  *)
(* arms, launches and restarts of the supervisor.                          *)
(***************************************************************************)
EXTENDS SolverLife, FormalMatrix, FiniteFacts

--------------------------------------------------------------------------------
\* SolverLife: a process is started only where no other one is left.

\* Where a Pi process may be alive that the solver has not given up, and what has been
\* noted of the end of the run.
Between == {"guard", "checked", "killed", "spared", "classify", "backoff", "returned"}
LifeInv ==
  /\ now \in 0 .. LifeHorizon /\ cancelled \in BOOLEAN
  /\ step \in Between \cup {"running", "draining"}
  /\ (overAt = "none") <=> ~Over
  /\ step = "checked" => overAt \in {"none", "checked"}
  /\ step = "running" => overAt \in {"none", "checked", "running"}
  /\ leaders \subseteq (IF step \in Between THEN {} ELSE {attempt}) \cup immortal

\* Nothing runs at first.
LEMMA LifeInitInv == LifeInit => LifeInv
<1> SUFFICES ASSUME LifeInit PROVE LifeInv
  OBVIOUS
<1>1. now \in 0 .. LifeHorizon /\ ~(now >= LifeHorizon)
  BY LifeAssumption DEF LifeInit
<1>2. ~Over
  BY <1>1 DEF LifeInit, Over
<1>3. cancelled \in BOOLEAN /\ overAt = "none" /\ leaders = {} /\ step = "guard"
  BY DEF LifeInit
<1> QED
  BY <1>1, <1>2, <1>3 DEF LifeInv, Between

\* One step per action: only LaunchPi makes a leader, right after the check.
LEMMA LifeStepInv == LifeInv /\ [LifeNext]_lifeVars => LifeInv'
<1> SUFFICES ASSUME LifeInv, [LifeNext]_lifeVars PROVE LifeInv'
  OBVIOUS
<1> USE LifeAssumption DEF LifeInv, Between, Over, processVars, clockVars
<1>1. CASE LifeTick
  BY <1>1 DEF LifeTick, NoteOver
<1>2. CASE CancelSolver
  BY <1>2 DEF CancelSolver, NoteOver
<1>3. CASE SpawnHelper
  BY <1>3 DEF SpawnHelper
<1>4. ASSUME NEW a \in Invocations, HelperExits(a) PROVE LifeInv'
  BY <1>4 DEF HelperExits
<1>5. ASSUME NEW a \in Invocations, NEW code \in {0, 1}, LeaderExits(a, code) PROVE LifeInv'
  BY <1>5 DEF LeaderExits
<1>6. CASE CheckLifecycle
  BY <1>6 DEF CheckLifecycle, SolverAnswers, Proceed
<1>7. CASE LaunchPi
  BY <1>7 DEF LaunchPi
<1>8. CASE LaunchFails
  BY <1>8 DEF LaunchFails
<1>9. ASSUME NEW why, LeaveRpc(why) PROVE LifeInv'
  BY <1>9 DEF LeaveRpc
<1>10. CASE DrainEnds
  BY <1>10 DEF DrainEnds, Drained, Proceed
<1>11. CASE DrainTimesOut
  BY <1>11 DEF DrainTimesOut
<1>12. CASE KillTimesOut
  BY <1>12 DEF KillTimesOut
<1>13. CASE Classify
  BY <1>13 DEF Classify, SolverAnswers
<1>14. CASE Relaunch
  BY <1>14 DEF Relaunch, SolverAnswers
<1>15. CASE UNCHANGED lifeVars
  BY <1>15 DEF lifeVars
<1> QED
  BY <1>1, <1>2, <1>3, <1>4, <1>5, <1>6, <1>7, <1>8, <1>9, <1>10, <1>11, <1>12, <1>13, <1>14,
      <1>15 DEF LifeNext, SolverStep, Surroundings, Reported, TimesOut, Interrupted, FoundDead

\* A process is started only before the run is over or in the window between the last
\* check and Popen, and never beside another one that was not at least sent SIGKILL.
THEOREM SolverStartsClean == LifeSpec => []StartsClean
<1>1. LifeInv => StartsClean
  BY DEF LifeInv, StartsClean, Between
<1> QED
  BY <1>1, LifeInitInv, LifeStepInv, PTL DEF LifeSpec

--------------------------------------------------------------------------------
\* FormalMatrix: one child per arm, and admitted runs are spared.

\* The supervisor has looked at the slot since it started.
KnownTo(s) == phase \in {"refresh", "handle", "over"} \/ (phase = "resume" /\ s \notin todo)
\* A child of the slot that nobody has seen at work yet is the one launched last.
Fresh(s) == slot[s].horizon = 0 /\ slot[s].pid # 0

\* What the supervisor knows of the slot's children.
ArmInv(s) ==
  /\ children[s] \subseteq 1 .. launched[s] /\ recorded[s] \subseteq 1 .. launched[s]
  /\ admitted[s] \subseteq recorded[s] /\ valid[s] \subseteq admitted[s]
  /\ \E k \in Nat : children[s] \subseteq {k}
  /\ KnownTo(s) => children[s] \subseteq {slot[s].pid}
  /\ KnownTo(s) /\ Fresh(s) => slot[s].pid = launched[s]
  /\ phase = "refresh" /\ s \notin todo /\ Fresh(s) => slot[s].pid \notin looked[s]
  /\ culled[s] # {} => valid[s] # {}

SlotRows ==
  [attempts : Nat, pid : Nat, horizon : Nat,
   status : {"pending", "running", "finished", "attempt_limit_exhausted", "closeout_pending",
             "starting"},
   failures : Nat, rejected : BOOLEAN]
SavedRows == [attempts : Nat, pid : Nat, horizon : Nat]
RunSets == [Slots -> SUBSET (Nat \ {0})]

MatrixTypes ==
  /\ children \in RunSets /\ recorded \in RunSets /\ admitted \in RunSets /\ valid \in RunSets
  /\ looked \in RunSets /\ culled \in RunSets /\ launched \in [Slots -> Nat]
  /\ slot \in [Slots -> SlotRows] /\ saved \in [Slots -> SavedRows]

MatrixInv == MatrixTypes /\ \A s \in Slots : ArmInv(s)

\* The newest of a slot's runs.
LEMMA NewestRun ==
  ASSUME NEW S \in SUBSET (Nat \ {0}), IsFiniteSet(S)
  PROVE  /\ Newest(S) \in Nat
         /\ S = {} => Newest(S) = 0
         /\ S # {} => Newest(S) \in S /\ \A k \in S : k <= Newest(S)
<1>1. CASE S = {}
  BY <1>1 DEF Newest
<1>2. CASE S # {}
  <2>1. \E x \in S : \A y \in S : y <= x
    BY <1>2, Greatest
  <2>2. \E x \in S : \A y \in S : x >= y
    BY <2>1
  <2>3. Newest(S) \in S /\ \A y \in S : Newest(S) >= y
    BY <1>2, <2>2 DEF Newest, Max
  <2> QED
    BY <1>2, <2>3
<1> QED
  BY <1>1, <1>2

\* What the disk says of a slot.
LEMMA DiskFacts ==
  ASSUME MatrixInv, NEW s \in Slots
  PROVE  /\ Completed(s) \in Nat /\ Latest(s) \in Nat
         /\ Completed(s) = 0 <=> valid[s] = {}
         /\ recorded[s] # {} => Latest(s) \in recorded[s]
         /\ \A k \in recorded[s] : k <= Latest(s)
         /\ IsFiniteSet(recorded[s]) /\ IsFiniteSet(admitted[s]) /\ IsFiniteSet(children[s])
         /\ 0 \notin admitted[s]
<1>1. /\ recorded[s] \in SUBSET (1 .. launched[s]) /\ valid[s] \in SUBSET recorded[s]
      /\ admitted[s] \in SUBSET recorded[s] /\ children[s] \in SUBSET (1 .. launched[s])
      /\ recorded[s] \in SUBSET (Nat \ {0}) /\ valid[s] \in SUBSET (Nat \ {0})
      /\ launched[s] \in Nat
  BY DEF MatrixInv, ArmInv, MatrixTypes, RunSets
<1>2. IsFiniteSet(1 .. launched[s])
  <2>1. PICK n \in Nat : n = launched[s]
    BY <1>1
  <2>2. IsFiniteSet(1 .. n)
    BY FS_Interval
  <2> QED
    BY <2>1, <2>2
<1>3. /\ IsFiniteSet(recorded[s]) /\ IsFiniteSet(children[s])
  BY <1>1, <1>2, FS_Subset
<1>4. IsFiniteSet(valid[s]) /\ IsFiniteSet(admitted[s])
  BY <1>1, <1>3, FS_Subset
<1>5. /\ Completed(s) \in Nat /\ (valid[s] = {} => Completed(s) = 0)
      /\ (valid[s] # {} => Completed(s) \in valid[s])
  BY <1>1, <1>4, NewestRun DEF Completed
<1>6. /\ Latest(s) \in Nat /\ (recorded[s] = {} => Latest(s) = 0)
      /\ (recorded[s] # {} => Latest(s) \in recorded[s] /\ \A k \in recorded[s] : k <= Latest(s))
  BY <1>1, <1>3, NewestRun DEF Latest
<1> QED
  BY <1>1, <1>3, <1>4, <1>5, <1>6

\* A live child and an open run can be matched.
LEMMA SomePair ==
  ASSUME MatrixInv, NEW s \in Slots, LiveHorizons(s) = {}, valid[s] = {}
  PROVE  children[s] = {} \/ admitted[s] = {}
<1> SUFFICES ASSUME children[s] # {}, admitted[s] # {} PROVE FALSE
  OBVIOUS
<1> DEFINE Apart(p) == IF p[1] >= p[2] THEN p[1] - p[2] ELSE p[2] - p[1]
           pairs == children[s] \X (admitted[s] \ valid[s])
<1>1. ASSUME NEW p \in pairs PROVE Apart(p) \in Nat
  <2>1. p[1] \in Nat /\ p[2] \in Nat
    BY <1>1 DEF MatrixInv, MatrixTypes, RunSets
  <2> QED
    BY <2>1
<1>2. pairs # {}
  <2>1. PICK a, b : a \in children[s] /\ b \in admitted[s]
    OBVIOUS
  <2>2. <<a, b>> \in pairs
    BY <2>1
  <2> QED
    BY <2>2
<1>3. LiveHorizons(s) = {p \in pairs : \A q \in pairs : Apart(p) <= Apart(q)}
  BY DEF LiveHorizons, TrustedChildren
<1> HIDE DEF Apart, pairs
<1> PICK T : T = {Apart(p) : p \in pairs}
  OBVIOUS
<1>4. T \in SUBSET Nat /\ T # {}
  BY <1>1, <1>2
<1>5. PICK n \in T : \A m \in T : n <= m
  BY <1>4, Smallest
<1>6. PICK p \in pairs : n = Apart(p)
  BY <1>5
<1>7. \A q \in pairs : Apart(p) <= Apart(q)
  BY <1>5, <1>6
<1> QED
  BY <1>3, <1>7

\* A slot that the step is not about.
SameArm(s) ==
  /\ children'[s] = children[s] /\ recorded'[s] = recorded[s] /\ admitted'[s] = admitted[s]
  /\ valid'[s] = valid[s] /\ looked'[s] = looked[s] /\ culled'[s] = culled[s]
  /\ launched'[s] = launched[s] /\ slot'[s] = slot[s]

\* It stays as it is.
LEMMA OtherArm ==
  ASSUME NEW s, ArmInv(s), SameArm(s), phase' = phase, (s \in todo') = (s \in todo)
  PROVE  ArmInv(s)'
BY DEF ArmInv, SameArm, KnownTo, Fresh

\* The entries of a row are changed one at a time.
LEMMA RowChanges ==
  ASSUME NEW r \in SlotRows, NEW n \in Nat
  PROVE  /\ [r EXCEPT !.failures = n] \in SlotRows /\ [r EXCEPT !.failures = n].pid = r.pid
         /\ [r EXCEPT !.horizon = n] \in SlotRows /\ [r EXCEPT !.horizon = n].pid = r.pid
         /\ [r EXCEPT !.horizon = n, !.status = "finished"] \in SlotRows
         /\ [r EXCEPT !.horizon = n, !.status = "finished"].pid = r.pid
BY DEF SlotRows

\* A row loses its child.
LEMMA RowEnds ==
  ASSUME NEW r \in SlotRows, NEW st \in {"finished", "pending"}
  PROVE  [r EXCEPT !.pid = 0, !.status = st] \in SlotRows
         /\ [r EXCEPT !.pid = 0, !.status = st].pid = 0
BY DEF SlotRows

\* Nothing is known of a wave that has not begun.
LEMMA MatrixInitInv == MatrixInit => MatrixInv
<1> SUFFICES ASSUME MatrixInit PROVE MatrixInv
  OBVIOUS
<1>1. MatrixTypes
  BY DEF MatrixInit, MatrixTypes, None, NoRows, RunSets, EmptyRow, SlotRows, SavedRows
<1>2. ASSUME NEW s \in Slots PROVE ArmInv(s)
  BY DEF MatrixInit, ArmInv, None, KnownTo
<1> QED
  BY <1>1, <1>2 DEF MatrixInv

\* A child writes what it has done, or ends.
LEMMA ChildKeeps ==
  ASSUME MatrixInv, NEW s \in Slots, NEW k \in Runs,
         WritesMeta(s, k) \/ IsAdmitted(s, k) \/ Finalises(s, k) \/ ChildExits(s, k)
  PROVE  MatrixInv'
<1> USE DEF WritesMeta, IsAdmitted, Finalises, ChildExits, Child, diskVars
<1>1. /\ UNCHANGED <<saved, slot, phase, todo, launched, looked, culled>> /\ k \in children[s]
      /\ k \in Nat \ {0}
  BY DEF MatrixInv, MatrixTypes, RunSets
<1>2. MatrixTypes'
  BY <1>1 DEF MatrixInv, MatrixTypes, RunSets
<1>3. ASSUME NEW t \in Slots PROVE ArmInv(t)'
  <2>1. CASE t # s
    <3>1. SameArm(t)
      BY <1>1, <2>1 DEF SameArm, MatrixInv, MatrixTypes, RunSets
    <3> QED
      BY <1>1, <3>1, OtherArm DEF MatrixInv
  <2>2. CASE t = s
    <3>1. /\ children'[s] \subseteq children[s] /\ recorded'[s] \subseteq recorded[s] \cup {k}
          /\ recorded[s] \subseteq recorded'[s] /\ admitted[s] \subseteq admitted'[s]
          /\ valid[s] \subseteq valid'[s]
          /\ admitted'[s] \subseteq recorded'[s] /\ valid'[s] \subseteq admitted'[s]
      BY DEF MatrixInv, MatrixTypes, RunSets, ArmInv
    <3> QED
      BY <1>1, <2>2, <3>1 DEF MatrixInv, ArmInv, KnownTo, Fresh
  <2> QED
    BY <2>1, <2>2
<1> QED
  BY <1>2, <1>3 DEF MatrixInv

\* The steps of the supervisor itself: it starts, is killed, or goes on to another phase.
LEMMA PhaseSteps ==
  ASSUME MatrixInv, Boot \/ SupervisorDies \/ Heartbeat \/ NoBurst
  PROVE  MatrixInv'
<1>1. /\ UNCHANGED <<children, diskVars, launched, looked, culled>>
      /\ UNCHANGED <<recorded, admitted, valid, invalid>>
  BY DEF Boot, SupervisorDies, Heartbeat, NoBurst, diskVars
<1>2. CASE Boot \/ SupervisorDies
  <2>1. /\ \A s \in Slots : ~KnownTo(s)'
        /\ phase' # "refresh"
    BY <1>2 DEF Boot, SupervisorDies, Enter, KnownTo
  <2>2. EmptyRow \in SlotRows
    BY DEF EmptyRow, SlotRows
  <2>3. saved' = saved /\ slot' \in [Slots -> SlotRows]
    BY <1>2, <2>2 DEF Boot, SupervisorDies, MatrixInv, MatrixTypes
  <2>4. MatrixTypes'
    BY <1>1, <2>3 DEF MatrixInv, MatrixTypes
  <2> QED
    BY <1>1, <2>1, <2>4 DEF MatrixInv, ArmInv
<1>3. CASE Heartbeat \/ NoBurst
  <2>1. slot' = slot /\ \A s \in Slots : KnownTo(s)
    BY <1>3 DEF Heartbeat, NoBurst, KnownTo
  <2>2. phase' = "refresh" => todo' = Slots
    BY <1>3 DEF Heartbeat, NoBurst, Enter
  <2>3. saved' \in [Slots -> SavedRows]
    BY <1>3 DEF Heartbeat, NoBurst, Rows, Row, MatrixInv, MatrixTypes, SlotRows, SavedRows
  <2>4. MatrixTypes'
    BY <1>1, <2>1, <2>3 DEF MatrixInv, MatrixTypes
  <2> QED
    BY <1>1, <2>1, <2>2, <2>4 DEF MatrixInv, ArmInv, Fresh
<1> QED
  BY <1>2, <1>3

\* A burst of provider errors ends only children that no look has seen at work.
LEMMA BurstSpares ==
  ASSUME MatrixInv, ProviderBurst
  PROVE  MatrixInv'
<1> PICK ended : ended = {s \in Slots : slot[s].horizon = 0 /\ slot[s].pid # 0}
  OBVIOUS
<1>1. /\ phase = "refresh" /\ todo = {} /\ phase' = "down"
      /\ children' = [s \in Slots |-> IF s \in ended THEN children[s] \ {slot[s].pid}
                                      ELSE children[s]]
      /\ culled' = [s \in Slots |-> IF s \in ended THEN culled[s] \cup ({slot[s].pid} \cap looked[s])
                                    ELSE culled[s]]
      /\ saved' = [s \in Slots |-> IF s \in ended THEN [Row(s) EXCEPT !.pid = 0] ELSE Row(s)]
      /\ slot' = [s \in Slots |-> EmptyRow]
      /\ UNCHANGED <<recorded, admitted, valid, launched, looked>>
  BY DEF ProviderBurst, diskVars
<1>2. culled' = culled
  <2>1. \A s \in ended : slot[s].pid \notin looked[s]
    BY <1>1 DEF MatrixInv, ArmInv, Fresh
  <2>2. \A s \in Slots : culled'[s] = culled[s]
    BY <1>1, <2>1
  <2> QED
    BY <1>1, <2>2 DEF MatrixInv, MatrixTypes, RunSets
<1>3. MatrixTypes'
  <2>1. \A s \in Slots : Row(s) \in SavedRows /\ [Row(s) EXCEPT !.pid = 0] \in SavedRows
    BY DEF MatrixInv, MatrixTypes, SlotRows, SavedRows, Row
  <2>2. children' \in RunSets
    BY <1>1 DEF MatrixInv, MatrixTypes, RunSets
  <2>3. EmptyRow \in SlotRows
    BY DEF EmptyRow, SlotRows
  <2> QED
    BY <1>1, <1>2, <2>1, <2>2, <2>3 DEF MatrixInv, MatrixTypes
<1>4. \A s \in Slots : children'[s] \subseteq children[s]
  BY <1>1
<1> QED
  BY <1>1, <1>2, <1>3, <1>4 DEF MatrixInv, ArmInv, KnownTo

\* The row of a slot after a look at the disk.
LEMMA RefreshFacts ==
  ASSUME MatrixInv, NEW s \in Slots
  PROVE  /\ Refreshed(s) \in SlotRows /\ Refreshed(s).pid = slot[s].pid
         /\ Refreshed(s).horizon = 0 => slot[s].horizon = 0
         /\ Refreshed(s).horizon = 0 => valid[s] = {} /\ Latest(s) \notin admitted[s]
<1>1. /\ Completed(s) \in Nat /\ Latest(s) \in Nat /\ slot[s] \in SlotRows
      /\ Completed(s) = 0 <=> valid[s] = {}
      /\ 0 \notin admitted[s]
  BY DiskFacts DEF MatrixInv, MatrixTypes
<1> PICK k, c, b, row : /\ k = Latest(s) /\ c = Completed(s) /\ b = (k \in invalid[s])
                        /\ row = [slot[s] EXCEPT !.rejected = b]
  OBVIOUS
<1>2. /\ row \in SlotRows /\ row.pid = slot[s].pid /\ row.horizon = slot[s].horizon
  <2>1. b \in BOOLEAN
    OBVIOUS
  <2> QED
    BY <1>1, <2>1 DEF SlotRows
<1>3. CASE c # 0
  <2>1. Refreshed(s) = [row EXCEPT !.horizon = c, !.status = "finished", !.rejected = FALSE]
    BY <1>3 DEF Refreshed
  <2> QED
    BY <1>1, <1>2, <1>3, <2>1 DEF SlotRows
<1>4. CASE c = 0 /\ k \notin admitted[s]
  <2>1. Refreshed(s) = row
    BY <1>4 DEF Refreshed
  <2> QED
    BY <1>1, <1>2, <1>4, <2>1
<1>5. CASE c = 0 /\ k \in admitted[s]
  <2>1. PICK st : st = IF k \in invalid[s] THEN (IF row.pid = 0 THEN "pending" ELSE row.status)
                       ELSE IF row.pid = 0 THEN "closeout_pending" ELSE "running"
    OBVIOUS
  <2>2. Refreshed(s) = [row EXCEPT !.horizon = k, !.status = st]
    BY <1>5, <2>1 DEF Refreshed
  <2>3. st \in {"pending", "running", "finished", "attempt_limit_exhausted", "closeout_pending",
                "starting"}
    BY <1>2, <2>1 DEF SlotRows
  <2>4. k # 0
    BY <1>1, <1>5
  <2> QED
    BY <1>1, <1>2, <2>2, <2>3, <2>4 DEF SlotRows
<1> QED
  BY <1>3, <1>4, <1>5

\* A look at a slot: a child of it that is at work has its run as the horizon.
LEMMA RefreshKeeps ==
  ASSUME MatrixInv, NEW s \in Slots, Refresh(s)
  PROVE  MatrixInv'
<1>1. /\ phase = "refresh" /\ s \in todo /\ todo' = todo \ {s} /\ phase' = phase
      /\ looked' = [looked EXCEPT ![s] = admitted[s]]
      /\ slot' = [slot EXCEPT ![s] = Refreshed(s)]
      /\ UNCHANGED <<children, recorded, admitted, valid, saved, launched, culled>>
  BY DEF Refresh, Look, diskVars
<1>2. /\ Refreshed(s) \in SlotRows /\ Refreshed(s).pid = slot[s].pid
      /\ Refreshed(s).horizon = 0 => slot[s].horizon = 0 /\ Latest(s) \notin admitted[s]
  BY RefreshFacts
<1>3. MatrixTypes' /\ looked'[s] = admitted[s] /\ slot'[s] = Refreshed(s)
  BY <1>1, <1>2 DEF MatrixInv, MatrixTypes, RunSets
<1>4. ASSUME NEW t \in Slots PROVE ArmInv(t)'
  <2>1. CASE t # s
    <3>1. SameArm(t)
      BY <1>1, <2>1 DEF SameArm, MatrixInv, MatrixTypes, RunSets
    <3> QED
      BY <1>1, <2>1, <3>1, OtherArm DEF MatrixInv
  <2>2. CASE t = s
    <3>1. KnownTo(s)
      BY <1>1 DEF KnownTo
    <3>2. ASSUME Fresh(s)' PROVE slot'[s].pid = launched[s] /\ slot'[s].pid \notin looked'[s]
      <4>1. Fresh(s) /\ Latest(s) \notin admitted[s]
        BY <1>2, <1>3, <3>2 DEF Fresh
      <4>2. slot[s].pid = launched[s]
        BY <3>1, <4>1 DEF MatrixInv, ArmInv
      <4>3. ASSUME launched[s] \in admitted[s] PROVE FALSE
        <5>1. launched[s] \in recorded[s] /\ recorded[s] \subseteq 1 .. launched[s]
          BY <4>3 DEF MatrixInv, ArmInv
        <5>2. launched[s] <= Latest(s) /\ Latest(s) \in recorded[s]
          BY <5>1, DiskFacts
        <5>3. Latest(s) = launched[s]
          BY <5>1, <5>2 DEF MatrixInv, MatrixTypes
        <5> QED
          BY <4>1, <4>3, <5>3
      <4> QED
        BY <1>2, <1>3, <4>2, <4>3
    <3> QED
      BY <1>1, <1>2, <1>3, <2>2, <3>1, <3>2 DEF MatrixInv, ArmInv
  <2> QED
    BY <2>1, <2>2
<1> QED
  BY <1>3, <1>4 DEF MatrixInv

\* A slot is resumed: what lives is adopted, or else ended before anything is launched.
LEMMA ResumeKeeps ==
  ASSUME MatrixInv, NEW s \in Slots, Resume(s)
  PROVE  MatrixInv'
<1> PICK latest, row :
      /\ latest = IF saved[s].horizon \in recorded[s] THEN saved[s].horizon ELSE Latest(s)
      /\ row = [EmptyRow EXCEPT !.attempts = saved[s].attempts]
  OBVIOUS
<1>1. /\ phase = "resume" /\ s \in todo /\ todo' = todo \ {s} /\ phase' = phase
      /\ looked' = [looked EXCEPT ![s] = admitted[s]]
      /\ UNCHANGED <<recorded, admitted, valid, saved, launched>>
  BY DEF Resume, Look, diskVars
<1>2. /\ row \in SlotRows /\ row.pid = 0 /\ saved[s] \in SavedRows
      /\ children[s] \in SUBSET (Nat \ {0}) /\ admitted[s] \in SUBSET (Nat \ {0})
      /\ Completed(s) \in Nat
      /\ Completed(s) = 0 <=> valid[s] = {}
      /\ IsFiniteSet(recorded[s])
  BY DiskFacts DEF MatrixInv, MatrixTypes, EmptyRow, SlotRows, SavedRows, RunSets
<1>3. ASSUME NEW new \in SlotRows, slot' = [slot EXCEPT ![s] = new],
             children' \in RunSets, culled' \in RunSets,
             \A t \in Slots \ {s} : children'[t] = children[t] /\ culled'[t] = culled[t],
             children'[s] \subseteq children[s] \cap {new.pid}, new.horizon = 0 => new.pid = 0,
             culled'[s] # {} => valid[s] # {}
      PROVE  MatrixInv'
  <2>1. MatrixTypes' /\ slot'[s] = new
    BY <1>1, <1>2, <1>3 DEF MatrixInv, MatrixTypes, RunSets
  <2>2. ASSUME NEW t \in Slots PROVE ArmInv(t)'
    <3>1. CASE t # s
      <4>1. SameArm(t)
        BY <1>1, <1>3, <3>1 DEF SameArm, MatrixInv, MatrixTypes, RunSets
      <4> QED
        BY <1>1, <3>1, <4>1, OtherArm DEF MatrixInv
    <3>2. CASE t = s
      <4>1. ~Fresh(s)'
        BY <1>3, <2>1 DEF Fresh
      <4> QED
        BY <1>1, <1>3, <2>1, <3>2, <4>1 DEF MatrixInv, ArmInv
    <3> QED
      BY <3>1, <3>2
  <2> QED
    BY <2>1, <2>2 DEF MatrixInv
<1>4. ASSUME NEW new \in SlotRows, slot' = [slot EXCEPT ![s] = new], SparesAll,
             children[s] \subseteq {new.pid}, new.horizon = 0 => new.pid = 0
      PROVE  MatrixInv'
  <2>1. children' \in RunSets /\ culled' \in RunSets /\ children' = children /\ culled' = culled
    BY <1>4 DEF SparesAll, MatrixInv, MatrixTypes
  <2>2. culled'[s] # {} => valid[s] # {}
    BY <2>1 DEF MatrixInv, ArmInv
  <2>3. \A t \in Slots \ {s} : children'[t] = children[t] /\ culled'[t] = culled[t]
    BY <2>1
  <2> QED
    BY <1>3, <1>4, <2>1, <2>2, <2>3
<1>5. ASSUME NEW new \in SlotRows, slot' = [slot EXCEPT ![s] = new], Quarantine(s),
             new.pid = 0, valid[s] # {} \/ children[s] \cap admitted[s] = {}
      PROVE  MatrixInv'
  <2>1. /\ children' = [children EXCEPT ![s] = {}]
        /\ culled' = [culled EXCEPT ![s] = @ \cup (children[s] \cap admitted[s])]
    BY <1>5 DEF Quarantine, TrustedChildren, MatrixInv, MatrixTypes, RunSets
  <2>2. children' \in RunSets /\ culled' \in RunSets
    BY <2>1 DEF MatrixInv, MatrixTypes, RunSets
  <2>3. /\ children'[s] = {} /\ culled'[s] = culled[s] \cup (children[s] \cap admitted[s])
        /\ \A t \in Slots \ {s} : children'[t] = children[t] /\ culled'[t] = culled[t]
    BY <2>1 DEF MatrixInv, MatrixTypes, RunSets
  <2>4. culled'[s] # {} => valid[s] # {}
    BY <1>5, <2>3 DEF MatrixInv, ArmInv
  <2> QED
    BY <1>3, <1>5, <2>2, <2>3, <2>4
<1>6. CASE /\ Completed(s) # 0
           /\ Resumed(s, [row EXCEPT !.horizon = Completed(s), !.status = "finished"])
           /\ Quarantine(s)
  <2> PICK c, new : c = Completed(s) /\ new = [row EXCEPT !.horizon = c, !.status = "finished"]
    OBVIOUS
  <2>0. c \in Nat
    BY <1>2
  <2>1. new \in SlotRows /\ new.pid = 0
    BY <1>2, <2>0, RowChanges
  <2>2. slot' = [slot EXCEPT ![s] = new] /\ Quarantine(s) /\ valid[s] # {}
    BY <1>2, <1>6 DEF Resumed
  <2> QED
    BY <1>5, <2>1, <2>2
<1>7. ASSUME NEW pid \in children[s], NEW run \in admitted[s], Adopt(s, row, pid, run)
      PROVE  MatrixInv'
  <2> PICK new : new = [row EXCEPT !.pid = pid, !.horizon = run, !.status = "running"]
    OBVIOUS
  <2>1. new \in SlotRows /\ new.pid = pid /\ new.horizon # 0
    BY <1>2, <1>7 DEF SlotRows
  <2>2. slot' = [slot EXCEPT ![s] = new] /\ SparesAll
    BY <1>7 DEF Adopt, Resumed
  <2>3. children[s] \subseteq {new.pid}
    BY <1>7, <2>1 DEF MatrixInv, ArmInv
  <2> QED
    BY <1>4, <2>1, <2>2, <2>3
<1>8. ASSUME NEW p \in LiveHorizons(s), Adopt(s, row, p[1], p[2])
      PROVE  MatrixInv'
  <2>1. p[1] \in children[s] /\ p[2] \in admitted[s]
    BY <1>8 DEF LiveHorizons, TrustedChildren
  <2> QED
    BY <1>7, <1>8, <2>1
<1>9. CASE /\ Completed(s) = 0 /\ LiveHorizons(s) = {}
           /\ Resumed(s, [row EXCEPT !.attempts = Max({@, Cardinality(recorded[s])})])
           /\ IF latest \in admitted[s] THEN SparesAll ELSE Quarantine(s)
  <2> PICK n, new : /\ n = Max({row.attempts, Cardinality(recorded[s])})
                    /\ new = [row EXCEPT !.attempts = n]
    OBVIOUS
  <2>1. n \in Nat
    <3>1. row.attempts \in Nat /\ Cardinality(recorded[s]) \in Nat
      BY <1>2, FS_CardinalityType DEF SlotRows
    <3>2. PICK a, b : a = row.attempts /\ b = Cardinality(recorded[s])
      OBVIOUS
    <3>3. \E x \in {a, b} : \A y \in {a, b} : x >= y
      BY <3>1, <3>2
    <3>4. n \in {a, b}
      BY <3>2, <3>3 DEF Max
    <3> QED
      BY <3>1, <3>2, <3>4
  <2>2. new \in SlotRows /\ new.pid = 0
    BY <1>2, <2>1 DEF SlotRows
  <2>3. slot' = [slot EXCEPT ![s] = new]
    BY <1>9 DEF Resumed
  <2>4. children[s] = {} \/ admitted[s] = {}
    BY <1>2, <1>9, SomePair
  <2>5. CASE latest \in admitted[s]
    <3>1. children[s] = {} /\ SparesAll
      BY <1>9, <2>4, <2>5
    <3> QED
      BY <1>4, <2>2, <2>3, <3>1
  <2>6. CASE latest \notin admitted[s]
    <3>1. Quarantine(s) /\ children[s] \cap admitted[s] = {}
      BY <1>9, <2>4, <2>6
    <3> QED
      BY <1>5, <2>2, <2>3, <3>1
  <2> QED
    BY <2>5, <2>6
<1>10. CASE /\ latest \in admitted[s] /\ saved[s].pid \in TrustedChildren(s)
            /\ Adopt(s, row, saved[s].pid, latest)
  BY <1>7, <1>10 DEF TrustedChildren
<1> QED
  BY <1>6, <1>8, <1>9, <1>10 DEF Resume

\* The row of a slot whose child has ended.
LEMMA ReapedFacts ==
  ASSUME MatrixInv, NEW s \in Slots, slot[s].pid # 0
  PROVE  Reaped(s) \in SlotRows /\ Reaped(s).pid = 0
<1> PICK c, st : c = Completed(s) /\ st = IF c # 0 THEN "finished" ELSE "pending"
  OBVIOUS
<1> PICK r \in SlotRows : r = Refreshed(s)
  BY RefreshFacts
<1>1. PICK q : q = [r EXCEPT !.pid = 0, !.status = st]
  OBVIOUS
<1>2. q \in SlotRows /\ q.pid = 0
  <2>1. st \in {"finished", "pending"}
    OBVIOUS
  <2> QED
    BY <1>1, <2>1, RowEnds
<1>3. PICK m : m = q.failures + 1
  OBVIOUS
<1>4. m \in Nat
  <2>1. q.failures \in Nat
    BY <1>2 DEF SlotRows
  <2> QED
    BY <1>3, <2>1
<1>5. Reaped(s) = [q EXCEPT !.failures = m] \/ Reaped(s) = q
  BY <1>1, <1>3 DEF Reaped
<1>6. [q EXCEPT !.failures = m] \in SlotRows /\ [q EXCEPT !.failures = m].pid = q.pid
  BY <1>2, <1>4, RowChanges
<1> QED
  BY <1>2, <1>5, <1>6

\* A slot is handled: a launch is the only child of the slot.
LEMMA HandleKeeps ==
  ASSUME MatrixInv, NEW s \in Slots, Handle(s)
  PROVE  MatrixInv'
<1> PICK row : row = Reaped(s)
  OBVIOUS
<1>1. /\ phase = "handle" /\ s \in todo /\ todo' = todo \ {s} /\ phase' = phase
      /\ looked' = [looked EXCEPT ![s] = admitted[s]] /\ slot[s].pid \notin children[s]
      /\ UNCHANGED <<recorded, admitted, valid, saved, culled>>
  BY DEF Handle, Handling, Look, diskVars
<1>2. children[s] = {} /\ launched[s] \in Nat
  BY <1>1 DEF MatrixInv, ArmInv, KnownTo, MatrixTypes
<1>3. row \in SlotRows /\ row.pid = 0
  <2>1. CASE slot[s].pid = 0
    BY <2>1 DEF Reaped, MatrixInv, MatrixTypes
  <2>2. CASE slot[s].pid # 0
    BY <2>2, ReapedFacts
  <2> QED
    BY <2>1, <2>2
<1>4. ASSUME NEW t \in Slots \ {s}, NEW new, slot' = [slot EXCEPT ![s] = new],
             children'[t] = children[t], launched'[t] = launched[t]
      PROVE  ArmInv(t)'
  <2>1. SameArm(t)
    BY <1>1, <1>4 DEF SameArm, MatrixInv, MatrixTypes, RunSets
  <2> QED
    BY <1>1, <1>4, <2>1, OtherArm DEF MatrixInv
<1>5. ASSUME NEW new \in SlotRows, new.pid = 0, slot' = [slot EXCEPT ![s] = new],
             UNCHANGED <<children, launched>>
      PROVE  MatrixInv'
  <2>1. MatrixTypes' /\ slot'[s] = new
    BY <1>1, <1>5 DEF MatrixInv, MatrixTypes, RunSets
  <2>2. ArmInv(s)'
    BY <1>1, <1>2, <1>5, <2>1 DEF MatrixInv, ArmInv, Fresh
  <2> QED
    BY <1>4, <1>5, <2>1, <2>2 DEF MatrixInv
<1>6. ASSUME NEW new \in SlotRows, NEW n, n = launched[s] + 1, new.pid = n,
             slot' = [slot EXCEPT ![s] = new], launched' = [launched EXCEPT ![s] = n],
             children' = [children EXCEPT ![s] = @ \cup {n}]
      PROVE  MatrixInv'
  <2>1. n \in Nat \ {0}
    BY <1>2, <1>6
  <2>2. MatrixTypes' /\ slot'[s] = new /\ children'[s] = {n} /\ launched'[s] = n
    BY <1>1, <1>2, <1>6, <2>1 DEF MatrixInv, MatrixTypes, RunSets
  <2>3. 1 .. launched[s] \subseteq 1 .. n /\ n \in 1 .. n
    BY <1>2, <1>6
  <2>4. ArmInv(s)'
    BY <1>1, <1>6, <2>1, <2>2, <2>3 DEF MatrixInv, ArmInv
  <2>5. \A t \in Slots \ {s} : children'[t] = children[t] /\ launched'[t] = launched[t]
    BY <1>6 DEF MatrixInv, MatrixTypes, RunSets
  <2> QED
    BY <1>4, <1>6, <2>2, <2>4, <2>5 DEF MatrixInv
<1>7. CASE slot' = [slot EXCEPT ![s] = row] /\ UNCHANGED <<children, launched>>
  BY <1>3, <1>5, <1>7
<1>8. CASE /\ slot' = [slot EXCEPT ![s] = [row EXCEPT !.status = "attempt_limit_exhausted"]]
           /\ UNCHANGED <<children, launched>>
  <2> PICK new : new = [row EXCEPT !.status = "attempt_limit_exhausted"]
    OBVIOUS
  <2>1. new \in SlotRows /\ new.pid = 0
    BY <1>3 DEF SlotRows
  <2> QED
    BY <1>5, <1>8, <2>1
<1>9. CASE /\ launched' = [launched EXCEPT ![s] = @ + 1]
           /\ children' = [children EXCEPT ![s] = @ \cup {launched'[s]}]
           /\ slot' = [slot EXCEPT ![s] =
                [row EXCEPT !.attempts = @ + 1, !.pid = launched'[s], !.status = "starting"]]
  <2> PICK n : n = launched[s] + 1
    OBVIOUS
  <2> PICK m, new : /\ m = row.attempts + 1
                    /\ new = [row EXCEPT !.attempts = m, !.pid = n, !.status = "starting"]
    OBVIOUS
  <2>0. m \in Nat
    BY <1>3 DEF SlotRows
  <2>1. launched' = [launched EXCEPT ![s] = n] /\ launched'[s] = n /\ n \in Nat
    BY <1>2, <1>9 DEF MatrixInv, MatrixTypes
  <2>2. new \in SlotRows /\ new.pid = n
    BY <1>3, <2>0, <2>1 DEF SlotRows
  <2> QED
    BY <1>6, <1>9, <2>1, <2>2
<1>10. CASE /\ slot' = [slot EXCEPT ![s] =
                 [row EXCEPT !.attempts = @ + 1, !.status = "pending"]]
            /\ UNCHANGED <<children, launched>>
  <2> PICK m, new : /\ m = row.attempts + 1
                    /\ new = [row EXCEPT !.attempts = m, !.status = "pending"]
    OBVIOUS
  <2>0. m \in Nat
    BY <1>3 DEF SlotRows
  <2>1. new \in SlotRows /\ new.pid = 0
    BY <1>3, <2>0 DEF SlotRows
  <2> QED
    BY <1>5, <1>10, <2>1
<1> QED
  BY <1>7, <1>8, <1>9, <1>10 DEF Handle

\* A child that runs is left alone; or the supervisor gives up the wave.
LEMMA OtherHandling ==
  ASSUME MatrixInv, NEW s \in Slots, LeaveRunning(s) \/ InfrastructureStop(s)
  PROVE  MatrixInv'
<1>1. CASE LeaveRunning(s)
  <2>1. /\ phase = "handle" /\ phase' = phase
        /\ UNCHANGED <<children, recorded, admitted, valid, saved, slot, launched, looked, culled>>
    BY <1>1 DEF LeaveRunning, Handling, diskVars
  <2> QED
    BY <2>1 DEF MatrixInv, MatrixTypes, ArmInv, KnownTo, Fresh
<1>2. CASE InfrastructureStop(s)
  <2>1. /\ phase' = "down" /\ slot' = [t \in Slots |-> EmptyRow]
        /\ looked' = [looked EXCEPT ![s] = admitted[s]]
        /\ saved' = [Rows EXCEPT ![s] = [Row(s) EXCEPT !.pid = 0, !.horizon = Refreshed(s).horizon]]
        /\ UNCHANGED <<children, recorded, admitted, valid, launched, culled>>
    BY <1>2 DEF InfrastructureStop, Look, diskVars
  <2>2. saved' \in [Slots -> SavedRows]
    <3>1. Refreshed(s).horizon \in Nat
      BY RefreshFacts DEF SlotRows
    <3>2. \A t \in Slots : Row(t) \in SavedRows
      BY DEF MatrixInv, MatrixTypes, SlotRows, SavedRows, Row
    <3>3. [Row(s) EXCEPT !.pid = 0, !.horizon = Refreshed(s).horizon] \in SavedRows
      BY <3>1, <3>2 DEF SavedRows
    <3> QED
      BY <2>1, <3>2, <3>3 DEF Rows
  <2>3. MatrixTypes'
    <3>1. EmptyRow \in SlotRows
      BY DEF EmptyRow, SlotRows
    <3> QED
      BY <2>1, <2>2, <3>1 DEF MatrixInv, MatrixTypes, RunSets
  <2> QED
    BY <2>1, <2>3 DEF MatrixInv, ArmInv, KnownTo
<1> QED
  BY <1>1, <1>2

\* Every step keeps the invariant.
LEMMA MatrixStepInv == MatrixInv /\ [MatrixNext]_matrixVars => MatrixInv'
<1> SUFFICES ASSUME MatrixInv, [MatrixNext]_matrixVars PROVE MatrixInv'
  OBVIOUS
<1>1. CASE UNCHANGED matrixVars
  <2>1. /\ UNCHANGED <<children, recorded, admitted, valid, saved, slot, launched, looked, culled>>
        /\ UNCHANGED <<phase, todo>>
    BY <1>1 DEF matrixVars, diskVars
  <2> QED
    BY <2>1 DEF MatrixInv, MatrixTypes, ArmInv, KnownTo, Fresh
<1>2. CASE SupervisorStep
  BY <1>2, PhaseSteps, BurstSpares, ResumeKeeps, RefreshKeeps, OtherHandling, HandleKeeps
     DEF SupervisorStep
<1>3. CASE ChildStep
  BY <1>3, ChildKeeps DEF ChildStep
<1>4. CASE Boot \/ SupervisorDies
  BY <1>4, PhaseSteps
<1> QED
  BY <1>1, <1>2, <1>3, <1>4 DEF MatrixNext

\* The invariant of every wave.
LEMMA MatrixInvariant == MatrixSpec => []MatrixInv
BY MatrixInitInv, MatrixStepInv, PTL DEF MatrixSpec

\* No arm of the wave has two live children, whenever the supervisor was killed.
THEOREM OneChildPerArm == MatrixSpec => []OneArm
<1>1. ASSUME MatrixInv PROVE OneArm
  <2> SUFFICES ASSUME NEW s \in Slots PROVE Cardinality(children[s]) <= 1
    BY DEF OneArm
  <2>1. PICK k : children[s] \subseteq {k}
    BY <1>1 DEF MatrixInv, ArmInv
  <2>2. children[s] = {} \/ children[s] = {k}
    BY <2>1
  <2>3. Cardinality(children[s]) = 0 \/ Cardinality(children[s]) = 1
    BY <2>2, FS_EmptySet, FS_Singleton
  <2> QED
    BY <2>3
<1> QED
  BY <1>1, MatrixInvariant, PTL

\* The supervisor ends no run that it has seen at work, but for a slot that has its result.
THEOREM AdmittedAreSpared == MatrixSpec => []SparesAdmitted
<1>1. MatrixInv => SparesAdmitted
  BY DEF MatrixInv, ArmInv, SparesAdmitted
<1> QED
  BY <1>1, MatrixInvariant, PTL
================================================================================
