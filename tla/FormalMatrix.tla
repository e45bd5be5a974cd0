---------------------------- MODULE FormalMatrix ----------------------------
(***************************************************************************)
(* scripts/run_figure4_formal_matrix.py: the supervisor of one wave.  It   *)
(* launches one child per slot, watches what the children leave on disk,   *)
(* and can be killed and started again while they run.  A run is one       *)
(* launch of one slot; its run_meta.json appears first, the horizon is     *)
(* added on admission, and final.json with the artifacts at the end.       *)
(***************************************************************************)
EXTENDS Integers, FiniteSets, FiniteSetsExt

CONSTANTS Slots,          \* the arms of the wave
          LaunchLimit,    \* --max-attempts
          ArtifactLimit,  \* --max-infrastructure-failures
          MaxRestarts     \* bound: how often the supervisor is started again

ASSUME MatrixAssumption ==
  /\ IsFiniteSet(Slots) /\ MaxRestarts \in Nat
  /\ LaunchLimit \in Nat \ {0} /\ ArtifactLimit \in Nat \ {0}

Runs == 1 .. LaunchLimit * (MaxRestarts + 1)

VARIABLES
  children,   \* processes: the runs of each slot whose launcher is alive
  recorded,   \* disk: runs with a run_meta.json
  admitted,   \* disk: runs whose run_meta.json has horizon_started_at
  valid,      \* disk: runs whose artifacts are eligible
  invalid,    \* disk: runs with a final.json that are not eligible
  saved,      \* disk: the state file's row for each slot
  slot,       \* memory: the supervisor's row for each slot
  phase,      \* what the supervisor does
  todo,       \* the slots still to be handled in this phase
  launched,   \* history: launches of each slot, which number the runs
  looked,     \* history: runs seen as admitted at the last look at the slot
  culled,     \* history: runs it ended though it had seen them as admitted
  restarts    \* bound: starts still to come

diskVars == <<recorded, admitted, valid, invalid>>
matrixVars == <<children, diskVars, saved, slot, phase, todo, launched, looked, culled, restarts>>

EmptyRow == [attempts |-> 0, pid |-> 0, horizon |-> 0, status |-> "pending",
             failures |-> 0, rejected |-> FALSE]
Row(s) == [attempts |-> slot[s].attempts, pid |-> slot[s].pid, horizon |-> slot[s].horizon]
Rows == [s \in Slots |-> Row(s)]
NoRows == [s \in Slots |-> [attempts |-> 0, pid |-> 0, horizon |-> 0]]
None == [s \in Slots |-> {}]

Newest(S) == IF S = {} THEN 0 ELSE Max(S)
\* _completed_run and _latest_run.
Completed(s) == Newest(valid[s])
Latest(s) == Newest(recorded[s])

MatrixInit ==
  /\ children = None /\ recorded = None /\ admitted = None /\ valid = None /\ invalid = None
  /\ saved = NoRows /\ slot = [s \in Slots |-> EmptyRow]
  /\ phase = "down" /\ todo = {}
  /\ launched = [s \in Slots |-> 0] /\ looked = None /\ culled = None
  /\ restarts = MaxRestarts + 1
--------------------------------------------------------------------------------
\* A child: it can end at any point, and then leaves what it has written.
Child(s, k) ==
  /\ k \in children[s]
  /\ UNCHANGED <<saved, slot, phase, todo, launched, looked, culled, restarts>>
WritesMeta(s, k) ==
  /\ Child(s, k) /\ k \notin recorded[s]
  /\ recorded' = [recorded EXCEPT ![s] = @ \cup {k}]
  /\ UNCHANGED <<children, admitted, valid, invalid>>
IsAdmitted(s, k) ==
  /\ Child(s, k) /\ k \in recorded[s] \ admitted[s]
  /\ admitted' = [admitted EXCEPT ![s] = @ \cup {k}]
  /\ UNCHANGED <<children, recorded, valid, invalid>>
Finalises(s, k) ==
  /\ Child(s, k) /\ k \in admitted[s] \ (valid[s] \cup invalid[s])
  /\ \/ valid' = [valid EXCEPT ![s] = @ \cup {k}] /\ UNCHANGED invalid
     \/ invalid' = [invalid EXCEPT ![s] = @ \cup {k}] /\ UNCHANGED valid
  /\ UNCHANGED <<children, recorded, admitted>>
ChildExits(s, k) ==
  /\ Child(s, k) /\ children' = [children EXCEPT ![s] = @ \ {k}]
  /\ UNCHANGED diskVars
--------------------------------------------------------------------------------
Look(s) == looked' = [looked EXCEPT ![s] = admitted[s]]
Enter(p) == phase' = p /\ todo' = Slots

\* The supervisor starts, with the state file of the one before.
Boot ==
  /\ phase = "down" /\ restarts > 0 /\ restarts' = restarts - 1
  /\ Enter("resume")
  /\ UNCHANGED <<children, diskVars, saved, slot, launched, looked, culled>>

\* Killed at any time; what it knew is lost.
SupervisorDies ==
  /\ phase \notin {"down", "over"}
  /\ phase' = "down" /\ todo' = {} /\ slot' = [s \in Slots |-> EmptyRow]
  /\ UNCHANGED <<children, diskVars, saved, launched, looked, culled, restarts>>

\* Faulty variant of TrustedChildren: only the process the state file names.
SavedChild(s) == children[s] \cap {saved[s].pid}

\* The processes that can be shown to belong to the slot.
TrustedChildren(s) == children[s]

\* _live_horizon_for_slot: a live child and an admitted run without a valid artifact,
\* those whose start times are closest.
LiveHorizons(s) ==
  LET open == admitted[s] \ valid[s]
      Apart(p) == IF p[1] >= p[2] THEN p[1] - p[2] ELSE p[2] - p[1]
      pairs == TrustedChildren(s) \X open
  IN {p \in pairs : \A q \in pairs : Apart(p) <= Apart(q)}

Quarantine(s) ==
  /\ children' = [children EXCEPT ![s] = @ \ TrustedChildren(s)]
  /\ culled' = [culled EXCEPT ![s] = @ \cup (TrustedChildren(s) \cap admitted[s])]
SparesAll == UNCHANGED <<children, culled>>

Resumed(s, row) == slot' = [slot EXCEPT ![s] = row]
Adopt(s, row, pid, run) ==
  /\ Resumed(s, [row EXCEPT !.pid = pid, !.horizon = run, !.status = "running"])
  /\ SparesAll

\* _resume_slot: a valid artifact wins; else the persisted owner of the run, else any
\* live child with an admitted run; a child without one is ended before a relaunch.
Resume(s) ==
  LET row == [EmptyRow EXCEPT !.attempts = saved[s].attempts]
      latest == IF saved[s].horizon \in recorded[s] THEN saved[s].horizon ELSE Latest(s)
      owned == latest \in admitted[s] /\ saved[s].horizon = latest
               /\ saved[s].pid \in TrustedChildren(s)
      again == [row EXCEPT !.attempts = Max({@, Cardinality(recorded[s])})]
  IN
  /\ phase = "resume" /\ s \in todo /\ todo' = todo \ {s} /\ Look(s)
  /\ \/ /\ Completed(s) # 0
        /\ Resumed(s, [row EXCEPT !.horizon = Completed(s), !.status = "finished"])
        /\ Quarantine(s)
     \/ /\ Completed(s) = 0 /\ owned
        /\ Adopt(s, row, saved[s].pid, latest)
     \/ /\ Completed(s) = 0 /\ ~owned
        /\ \E p \in LiveHorizons(s) : Adopt(s, row, p[1], p[2])
     \/ /\ Completed(s) = 0 /\ ~owned /\ LiveHorizons(s) = {}
        /\ Resumed(s, again)
        /\ IF latest \in admitted[s] THEN SparesAll ELSE Quarantine(s)
  /\ UNCHANGED <<diskVars, saved, phase, launched, restarts>>

\* The wave starts, or another round of the loop: the state file is written first.
Heartbeat ==
  /\ phase \in {"resume", "handle"} /\ todo = {}
  /\ saved' = Rows
  /\ \/ /\ phase = "handle" /\ \A s \in Slots : slot[s].status = "finished"
        /\ phase' = "over" /\ UNCHANGED <<slot, todo>>
     \/ /\ phase = "handle" /\ \A s \in Slots : slot[s].status = "attempt_limit_exhausted"
        /\ phase' = "over" /\ UNCHANGED <<slot, todo>>
     \/ /\ phase = "resume" \/ \E s, t \in Slots :
             slot[s].status # "finished" /\ slot[t].status # "attempt_limit_exhausted"
        /\ Enter("refresh") /\ UNCHANGED slot
  /\ UNCHANGED <<children, diskVars, launched, looked, culled, restarts>>

\* Faulty variant of Refreshed: a run is bound to its slot only by its final.json.
RefreshedLate(s) ==
  LET k == Latest(s) IN
  IF Completed(s) # 0
  THEN [slot[s] EXCEPT !.horizon = Completed(s), !.status = "finished", !.rejected = FALSE]
  ELSE IF k \in invalid[s]
  THEN [slot[s] EXCEPT !.horizon = k, !.rejected = TRUE,
                       !.status = IF slot[s].pid = 0 THEN "pending" ELSE @]
  ELSE [slot[s] EXCEPT !.rejected = FALSE]

\* _refresh: what the disk says of the slot now.
Refreshed(s) ==
  LET k == Latest(s)
      row == [slot[s] EXCEPT !.rejected = k \in invalid[s]]
  IN
  IF Completed(s) # 0
  THEN [row EXCEPT !.horizon = Completed(s), !.status = "finished", !.rejected = FALSE]
  ELSE IF k \notin admitted[s] THEN row
  ELSE [row EXCEPT !.horizon = k,
          !.status = IF k \in invalid[s] THEN (IF row.pid = 0 THEN "pending" ELSE @)
                     ELSE IF row.pid = 0 THEN "closeout_pending" ELSE "running"]

Refresh(s) ==
  /\ phase = "refresh" /\ s \in todo /\ Look(s)
  /\ slot' = [slot EXCEPT ![s] = Refreshed(s)]
  /\ todo' = todo \ {s}
  /\ UNCHANGED <<children, diskVars, saved, phase, launched, culled, restarts>>

\* _provider_infra_burst finds enough provider errors in the event files: children not
\* known to be admitted are ended, and the supervisor returns.
ProviderBurst ==
  /\ phase = "refresh" /\ todo = {} /\ \E s \in Slots : recorded[s] # {}
  /\ LET ended == {s \in Slots : slot[s].horizon = 0 /\ slot[s].pid # 0} IN
     /\ children' = [s \in Slots |-> IF s \in ended THEN children[s] \ {slot[s].pid}
                                     ELSE children[s]]
     /\ culled' = [s \in Slots |-> IF s \in ended THEN culled[s] \cup ({slot[s].pid} \cap looked[s])
                                   ELSE culled[s]]
     /\ saved' = [s \in Slots |-> IF s \in ended THEN [Row(s) EXCEPT !.pid = 0] ELSE Row(s)]
  /\ phase' = "down" /\ slot' = [s \in Slots |-> EmptyRow] /\ UNCHANGED todo
  /\ UNCHANGED <<diskVars, launched, looked, restarts>>

NoBurst ==
  /\ phase = "refresh" /\ todo = {} /\ Enter("handle")
  /\ UNCHANGED <<children, diskVars, saved, slot, launched, looked, culled, restarts>>
--------------------------------------------------------------------------------
Handling(s) == phase = "handle" /\ s \in todo /\ todo' = todo \ {s}
Settled(row) == row.status \in {"finished", "attempt_limit_exhausted"}

\* A child that runs is left alone.
LeaveRunning(s) ==
  /\ Handling(s) /\ slot[s].pid \in children[s]
  /\ UNCHANGED <<children, diskVars, saved, slot, phase, launched, looked, culled, restarts>>

\* The slot's row once the exit of its child has been noticed.
Reaped(s) ==
  IF slot[s].pid = 0 THEN slot[s]
  ELSE LET row == [Refreshed(s) EXCEPT !.pid = 0,
                     !.status = IF Completed(s) # 0 THEN "finished" ELSE "pending"]
       IN IF row.rejected /\ Completed(s) = 0 THEN [row EXCEPT !.failures = @ + 1] ELSE row

\* Too many runs of the slot ended with artifacts that are not eligible.
InfrastructureStop(s) ==
  /\ Handling(s) /\ slot[s].pid \notin children[s] /\ slot[s].pid # 0
  /\ Reaped(s).failures >= ArtifactLimit
  /\ saved' = [Rows EXCEPT ![s] = [Row(s) EXCEPT !.pid = 0, !.horizon = Refreshed(s).horizon]]
  /\ phase' = "down" /\ slot' = [t \in Slots |-> EmptyRow] /\ Look(s)
  /\ UNCHANGED <<children, diskVars, launched, culled, restarts>>

\* Nothing runs: the slot is finished, out of attempts, waits for its backoff or the
\* Judge's health, or is launched again; a launch may fail.
Handle(s) ==
  LET row == Reaped(s) IN
  /\ Handling(s) /\ slot[s].pid \notin children[s]
  /\ slot[s].pid = 0 \/ row.failures < ArtifactLimit
  /\ Look(s)
  /\ \/ /\ row.status = "finished" \/ row.attempts < LaunchLimit
        /\ slot' = [slot EXCEPT ![s] = row] /\ UNCHANGED <<children, launched>>
     \/ /\ row.status # "finished" /\ row.attempts >= LaunchLimit
        /\ slot' = [slot EXCEPT ![s] = [row EXCEPT !.status = "attempt_limit_exhausted"]]
        /\ UNCHANGED <<children, launched>>
     \/ /\ row.status # "finished" /\ row.attempts < LaunchLimit
        /\ \/ /\ launched' = [launched EXCEPT ![s] = @ + 1]
              /\ children' = [children EXCEPT ![s] = @ \cup {launched'[s]}]
              /\ slot' = [slot EXCEPT ![s] =
                   [row EXCEPT !.attempts = @ + 1, !.pid = launched'[s], !.status = "starting"]]
           \/ /\ slot' = [slot EXCEPT ![s] =
                   [row EXCEPT !.attempts = @ + 1, !.status = "pending"]]
              /\ UNCHANGED <<children, launched>>
  /\ UNCHANGED <<diskVars, saved, phase, culled, restarts>>

SupervisorStep ==
  \/ Heartbeat \/ ProviderBurst \/ NoBurst
  \/ \E s \in Slots : Resume(s) \/ Refresh(s) \/ LeaveRunning(s) \/ InfrastructureStop(s)
                      \/ Handle(s)

ChildStep ==
  \E s \in Slots, k \in Runs :
    WritesMeta(s, k) \/ IsAdmitted(s, k) \/ Finalises(s, k) \/ ChildExits(s, k)

MatrixNext == SupervisorStep \/ ChildStep \/ Boot \/ SupervisorDies
MatrixSpec == MatrixInit /\ [][MatrixNext]_matrixVars
FairMatrixSpec == MatrixSpec /\ WF_matrixVars(SupervisorStep)
--------------------------------------------------------------------------------
MatrixTypeOK ==
  /\ \A s \in Slots : /\ children[s] \subseteq Runs /\ recorded[s] \subseteq Runs
                      /\ admitted[s] \subseteq recorded[s]
                      /\ valid[s] \cup invalid[s] \subseteq admitted[s]
                      /\ slot[s].pid \in Runs \cup {0} /\ slot[s].attempts \in Runs \cup {0}
  /\ phase \in {"down", "resume", "refresh", "handle", "over"}
  /\ todo \subseteq Slots /\ restarts \in 0 .. MaxRestarts + 1

\* However the supervisor dies and comes back, no arm ever has two live children: a
\* child the state file does not know yet is adopted or ended before a relaunch.
OneArm == \A s \in Slots : Cardinality(children[s]) <= 1

\* A run that was admitted when the supervisor last looked at its slot is never ended
\* by it, unless the slot has a valid artifact already.
SparesAdmitted == \A s \in Slots : culled[s] # {} => valid[s] # {}

\* A wave whose arms have all finished or run out of attempts ends.
WaveSettles ==
  (phase = "handle" /\ todo = {} /\ \A s \in Slots : Settled(slot[s]))
    ~> phase \in {"over", "down"}
================================================================================
