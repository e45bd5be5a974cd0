----------------------------- MODULE MCComponents -----------------------------
(***************************************************************************)
(* The components that share no state with each other, on small instances. *)
(* A behaviour is one of exactly one of them, chosen at the start: the     *)
(* states are the sum of theirs, not the product.                          *)
(***************************************************************************)
EXTENDS FormalMatrix, TraceSelection, RunCloseout, AllocationChoice,
        SchedulerLedger, CPSStore, TraceView, TraceProjection, FormalTools,
        VerdictAuthority, LeanReceipts, ProbeSession

VARIABLE part  \* the component this behaviour is of

modelVars ==
  <<matrixVars, selectionVars, closeoutVars, choiceVars, ledgerVars, cpsVars,
    viewVars, arrived, formalVars, authorityVars, receiptVars, sessionVars>>
componentVars == <<part, modelVars>>

MCHome == [a \in CpsActors |-> IF a = "a3" THEN "t2" ELSE "t1"]

\* Rows with one of three ids and instants, and the shapes that tests and store write.
MCRows ==
  {[id |-> id, seq |-> at[1], time |-> at[2], kind |-> is[1], alias |-> is[1] = "refuted",
    lifecycle |-> is[2], active |-> is[3], actionable |-> is[4]] :
      id \in 1 .. 3, at \in {<<1, 0>>, <<1, 1>>, <<2, 0>>},
      is \in {<<"duplicate", "", "", "">>, <<"frontier", "", "", "yes">>,
              <<"frontier", "", "yes", "no">>, <<"refuted", "", "", "">>,
              <<"lifecycle", "active", "yes", "">>, <<"lifecycle", "stale", "no", "">>,
              <<"receipt", "active", "yes", "yes">>}}

MCInit ==
  /\ part \in {"FormalMatrix", "TraceSelection", "RunCloseout",
            "AllocationChoice", "SchedulerLedger", "CPSStore", "TraceView",
            "TraceProjection", "FormalTools", "VerdictAuthority", "LeanReceipts",
            "ProbeSession"}
  /\ MatrixInit /\ SelectionInit /\ CloseoutInit /\ ChoiceInit /\ LedgerInit
     /\ CpsInit /\ ViewInit /\ ProjectionInit /\ FormalInit /\ AuthorityInit /\
     ReceiptInit /\ SessionInit
  \* The components that choose their initial state do so in their own behaviours.
  /\ part = "RunCloseout" \/ mode = "mono"
  /\ part = "AllocationChoice" \/ arm = "uniform"
  /\ part = "SchedulerLedger" \/ ledgerArm = "agent"
  /\ part = "CPSStore" \/ surface = "task"
  /\ part = "FormalTools" \/ candidate = CHOOSE s \in Sources : TRUE
  /\ part = "VerdictAuthority" \/ wrote = CHOOSE x \in Texts : TRUE
  /\ part = "ProbeSession" \/ admits

OnlyMatrix ==
  /\ part = "FormalMatrix"
  /\ UNCHANGED <<part, selectionVars, closeoutVars,
     choiceVars, ledgerVars, cpsVars, viewVars, arrived, formalVars, authorityVars,
     receiptVars, sessionVars>>
OnlySelection ==
  /\ part = "TraceSelection"
  /\ UNCHANGED <<part, matrixVars, closeoutVars,
     choiceVars, ledgerVars, cpsVars, viewVars, arrived, formalVars, authorityVars,
     receiptVars, sessionVars>>
OnlyCloseout ==
  /\ part = "RunCloseout"
  /\ UNCHANGED <<part, matrixVars, selectionVars,
     choiceVars, ledgerVars, cpsVars, viewVars, arrived, formalVars, authorityVars,
     receiptVars, sessionVars>>
OnlyChoice ==
  /\ part = "AllocationChoice"
  /\ UNCHANGED <<part, matrixVars,
     selectionVars, closeoutVars, ledgerVars, cpsVars, viewVars, arrived, formalVars,
     authorityVars, receiptVars, sessionVars>>
OnlyLedger ==
  /\ part = "SchedulerLedger"
  /\ UNCHANGED <<part, matrixVars,
     selectionVars, closeoutVars, choiceVars, cpsVars, viewVars, arrived, formalVars,
     authorityVars, receiptVars, sessionVars>>
OnlyCps ==
  /\ part = "CPSStore"
  /\ UNCHANGED <<part, matrixVars, selectionVars,
     closeoutVars, choiceVars, ledgerVars, viewVars, arrived, formalVars, authorityVars,
     receiptVars, sessionVars>>
OnlyView ==
  /\ part = "TraceView"
  /\ UNCHANGED <<part, matrixVars, selectionVars,
     closeoutVars, choiceVars, ledgerVars, cpsVars, arrived, formalVars, authorityVars,
     receiptVars, sessionVars>>
OnlyProjection ==
  /\ part = "TraceProjection"
  /\ UNCHANGED <<part, matrixVars,
     selectionVars, closeoutVars, choiceVars, ledgerVars, cpsVars, viewVars, formalVars,
     authorityVars, receiptVars, sessionVars>>
OnlyFormal ==
  /\ part = "FormalTools"
  /\ UNCHANGED <<part, matrixVars, selectionVars,
     closeoutVars, choiceVars, ledgerVars, cpsVars, viewVars, arrived, authorityVars,
     receiptVars, sessionVars>>
OnlyAuthority ==
  /\ part = "VerdictAuthority"
  /\ UNCHANGED <<part, matrixVars,
     selectionVars, closeoutVars, choiceVars, ledgerVars, cpsVars, viewVars, arrived,
     formalVars, receiptVars, sessionVars>>
OnlyReceipt ==
  /\ part = "LeanReceipts"
  /\ UNCHANGED <<part, matrixVars, selectionVars,
     closeoutVars, choiceVars, ledgerVars, cpsVars, viewVars, arrived, formalVars,
     authorityVars, sessionVars>>
OnlySession ==
  /\ part = "ProbeSession"
  /\ UNCHANGED <<part, matrixVars, selectionVars,
     closeoutVars, choiceVars, ledgerVars, cpsVars, viewVars, arrived, formalVars,
     authorityVars, receiptVars>>

\* Checks of a session are numbered in the order in which they arrive, since nothing else
\* tells them apart.
ArrivedChecks == {h \in Checks : place[h] # "idle"}
InTurn == \A h, g \in Checks : h < g /\ g \in ArrivedChecks' => h \in ArrivedChecks'

MCNext ==
  \/ OnlyMatrix /\ MatrixNext
  \/ OnlySelection /\ SelectionNext
  \/ OnlyCloseout /\ CloseoutNext
  \/ OnlyChoice /\ ChoiceNext
  \/ OnlyLedger /\ LedgerNext
  \/ OnlyCps /\ CpsNext
  \/ OnlyView /\ ViewNext
  \/ OnlyProjection /\ PageArrives
  \/ OnlyFormal /\ FormalNext
  \/ OnlyAuthority /\ AuthorityNext
  \/ OnlyReceipt /\ ReceiptNext
  \/ OnlySession /\ SessionNext /\ InTurn

MCSpec == MCInit /\ [][MCNext]_componentVars
================================================================================
