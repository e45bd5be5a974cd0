------------------------------ MODULE BrokerClose ------------------------------
(***************************************************************************)
(* JudgeBroker.close() running against the calls and watchers of           *)
(* JudgeGate.  Its evidence is drain_state, which reads four accounting    *)
(* domains one after the other, under three different locks: the reads are *)
(* separate steps, and anything may happen between them.                   *)
(***************************************************************************)
EXTENDS JudgeGate

VARIABLES
  phase,    \* where the closing thread is
  serving,  \* the server accepts requests
  done,     \* how many domains the current drain_state has read
  sample    \* what it found in them: whether each is nonzero

closeVars == <<phase, serving, done, sample>>
allVars == <<vars, closeVars>>

ActiveHandlers == {c \in Brokered : pc[c] \notin {"idle"} \cup Final}
PendingWatchers == {j \in Jobs : watcher[j] # "none"}

\* The domains in the order drain_state reads them.
Busy == <<ActiveHandlers # {}, Latched, PendingWatchers # {}, fifo # <<>>>>
HandlerDomain == 1
Unsettled == 2
Depth == 4
Nothing == [i \in 1 .. 4 |-> FALSE]

CloseInit == Init /\ phase = "open" /\ serving = TRUE /\ done = 0 /\ sample = Nothing

\* drain_state is called at the start of a phase.
Enter(p) == phase' = p /\ done' = 0 /\ sample' = Nothing

\* Every claim is revoked and forgotten; server.shutdown() then stops the accepts.
RevokeClaims ==
  /\ phase = "open" /\ phase' = "revoked"
  /\ revoked' = revoked \cup Brokered
  /\ UNCHANGED <<pc, gateVars, expired, unsettled, callVars, remote, watchVars,
                 serving, done, sample>>

Shutdown ==
  /\ phase = "revoked" /\ Enter("waiting")
  /\ serving' = FALSE
  /\ UNCHANGED vars

ReadDomain ==
  /\ phase \in {"waiting", "boundary", "final"} /\ done < 4
  /\ done' = done + 1
  /\ sample' = [sample EXCEPT ![done + 1] = Busy[done + 1]]
  /\ UNCHANGED <<vars, phase, serving>>

\* Faulty variants of Quiet, for testing the properties: the watchers are not asked
\* for again; unsettled work is waited for.
QuietUnwatched == ~sample[HandlerDomain] /\ ~sample[Depth]
QuietSettled == QuietUnwatched /\ ~sample[Unsettled] /\ PendingWatchers = {}

\* _wait_for_drain asks for the watchers once more.  Unsettled work does not keep
\* it waiting, but it makes the result "not drained".
Quiet == ~sample[HandlerDomain] /\ ~sample[Depth] /\ PendingWatchers = {}

\* Not quiet: sleep and sample again, or, at the deadline, once more at the boundary.
JudgeWaiting ==
  /\ phase = "waiting" /\ done = 4
  /\ \/ Quiet /\ Enter(IF sample[Unsettled] THEN "failed" ELSE "final")
     \/ ~Quiet /\ Enter("waiting")
     \/ ~Quiet /\ Enter("boundary")
  /\ UNCHANGED <<vars, serving>>

JudgeBoundary ==
  /\ phase = "boundary" /\ done = 4
  /\ Enter(IF Quiet /\ ~sample[Unsettled] THEN "final" ELSE "failed")
  /\ UNCHANGED <<vars, serving>>

\* A successful close is observed a second time.
JudgeFinal ==
  /\ phase = "final" /\ done = 4
  /\ Enter(IF sample = Nothing THEN "ok" ELSE "failed")
  /\ UNCHANGED <<vars, serving>>

CloseStep ==
  RevokeClaims \/ Shutdown \/ ReadDomain \/ JudgeWaiting \/ JudgeBoundary \/ JudgeFinal

\* Without the server a broker request does not arrive.
GateStep ==
  /\ Next
  /\ \A c \in Brokered : pc[c] = "idle" /\ pc'[c] # "idle" => serving
  /\ UNCHANGED closeVars

CloseNext == CloseStep \/ GateStep
CloseSpec == CloseInit /\ [][CloseNext]_allVars

\* The deadline of _wait_for_drain comes: it does not sample forever.
FairCloseSpec ==
  /\ CloseSpec
  /\ WF_allVars(HorizonPasses /\ UNCHANGED closeVars)
  /\ \A c \in Calls : WF_allVars(CallStep(c) /\ UNCHANGED closeVars)
  /\ \A j \in Jobs : WF_allVars(WatcherStep(j) /\ UNCHANGED closeVars)
  /\ WF_allVars(CloseStep)
--------------------------------------------------------------------------------
\* When close() reports success the broker owns nothing any more: no request, no watcher,
\* no unsettled answer, no job that may still run, and no permit but one whose release was
\* lost, because another call of the same job had its own first.  (A direct call of the
\* runner may still set the latch or start a watcher afterwards.)
CleanClose ==
  phase = "ok" =>
    /\ ActiveHandlers = {} /\ fifo = <<>>
    /\ \A c \in Brokered :
         /\ verdict[c] # "unconfirmed" /\ (job[c] # NoJob => remote[job[c]] # "live")
         /\ c \in holding => CameLate(c)
    /\ \A j \in PendingWatchers : callbacks[j] \cup batch[j] \subseteq Direct

\* Once every call and watcher has ended, close() ends too.
CloseEnds == phase = "revoked" ~> phase \in {"ok", "failed"}
================================================================================
