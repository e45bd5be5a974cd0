------------------------------- MODULE LeasePool -------------------------------
(***************************************************************************)
(* What an elastic scheduler promises its callers, with no policy in it: a *)
(* fixed number of slots, leases that are handed out at most once, units   *)
(* of capacity that may be put aside and later turned into a lease without *)
(* ever passing through "free", and tasks that, once closed, stay closed.  *)
(* ElasticScheduler is shown to implement it.                              *)
(***************************************************************************)
EXTENDS Integers

CONSTANTS Tasks,        \* what leases are for
          Leases,       \* every lease there could ever be
          Units,        \* every unit of capacity that could be put aside
          TaskOf(_),    \* the task a lease is for
          Size(_),      \* the size of a finite set: Cardinality
          Capacity      \* how many slots there are

VARIABLES held,         \* the leases now out
          issued,       \* every lease ever handed out
          units,        \* the units of capacity now put aside
          opened,       \* the tasks ever made known
          open          \* the tasks that may still be leased

poolVars == <<held, issued, units, opened, open>>

PoolInit ==
  /\ held = {} /\ issued = {} /\ units = {}
  /\ opened \subseteq Tasks
  /\ open \subseteq opened

HasRoom(n) == Size(held) + Size(units) + n <= Capacity

\* A lease is granted once, to an open task only.
Grantable(l) == l \notin issued /\ TaskOf(l) \in open

Grant(l) ==
  /\ Grantable(l) /\ HasRoom(1)
  /\ held' = held \cup {l}
  /\ issued' = issued \cup {l}
  /\ UNCHANGED <<units, opened, open>>

\* A unit put aside becomes a lease: the room is never given up in between.
Convert(l, u) ==
  /\ Grantable(l) /\ u \in units
  /\ held' = held \cup {l}
  /\ issued' = issued \cup {l}
  /\ units' = units \ {u}
  /\ UNCHANGED <<opened, open>>

Reserve(U) ==
  /\ U \cap units = {} /\ HasRoom(Size(U))
  /\ units' = units \cup U
  /\ UNCHANGED <<held, issued, opened, open>>

GiveBack(U) ==
  /\ U \subseteq units
  /\ units' = units \ U
  /\ UNCHANGED <<held, issued, opened, open>>

\* Leases come back, and the tasks in Closing are closed by the same step.
Return(L, Closing) ==
  /\ L \subseteq held
  /\ held' = held \ L
  /\ open' = open \ Closing
  /\ UNCHANGED <<issued, units, opened>>

Open(t) ==
  /\ t \notin opened
  /\ opened' = opened \cup {t}
  /\ open' \in {open, open \cup {t}}
  /\ UNCHANGED <<held, issued, units>>

PoolNext ==
  \/ \E l \in Leases : Grant(l)
  \/ \E l \in Leases, u \in Units : Convert(l, u)
  \/ \E U \in SUBSET Units : Reserve(U) \/ GiveBack(U)
  \/ \E L \in SUBSET Leases, Closing \in SUBSET Tasks : Return(L, Closing)
  \/ \E t \in Tasks : Open(t)

PoolSpec == PoolInit /\ [][PoolNext]_poolVars
================================================================================
