--------------------------- MODULE TraceProjection ---------------------------
(***************************************************************************)
(* contextswarm_mini/allocation_projection.py, project_full_records: the   *)
(* rows of a pinned snapshot, which arrive page by page, in any order and  *)
(* perhaps twice, are materialized into the present state of a trace.      *)
(*                                                                         *)
(* Here all rows are of one trace of one lineage.  Its proportions,        *)
(* weights, times and exposures are sums over traces that add nothing to   *)
(* the question of order, and are left out.                                *)
(***************************************************************************)
EXTENDS Integers, Sequences, FiniteSets

CONSTANTS SnapshotRows,  \* the rows that pages may bring
          ArrivalLimit   \* bound: rows that arrive

\* What a kind, or the kind of a relation, stands for: "trace" is a plain trace or piece,
\* "duplicate" also a mark of stagnation, "evidence" an association, exposure or feedback,
\* "receipt" any row that is no evidence of a worker: of a verifier's kind, from a source
\* that is no worker, or an ordinary outcome by its ids.
RowKinds ==
  {"trace", "lifecycle", "frontier", "duplicate", "refuted", "stale", "evidence", "receipt"}
Lifecycles == {"", "active", "refuted", "stale", "retired", "inactive"}
Bits == {"", "yes", "no"}  \* "" is None

\* id is the canonical identity, seq the sequence in the store, time created_at; alias
\* says that the kind is spelled otherwise, or is that of the relation.
TraceRow ==
  [id : Nat, seq : Nat \ {0}, time : Nat, kind : RowKinds, alias : BOOLEAN,
   lifecycle : Lifecycles, active : Bits, actionable : Bits]

ASSUME ProjectionAssumption == SnapshotRows \subseteq TraceRow /\ ArrivalLimit \in Nat

VARIABLE arrived  \* the rows of the pages, in the order in which they came

ProjectionInit == arrived = <<>>

\* _lifecycle_precedence, of the lifecycle or else the kind as it is spelled.
Precedence(r) ==
  LET word == IF r.lifecycle # "" THEN r.lifecycle ELSE IF r.alias THEN "" ELSE r.kind
  IN CASE word \in {"refuted", "retired"} -> 3 [] word \in {"stale", "inactive"} -> 2
       [] word \in {"active", "frontier"} -> 1 [] OTHER -> 0

\* The order of the sort, and the order of state_key.
SortsBefore(r, s) == r.seq < s.seq \/ (r.seq = s.seq /\ r.id < s.id)
Outranks(r, s) ==
  \/ r.seq > s.seq
  \/ r.seq = s.seq /\ r.time > s.time
  \/ r.seq = s.seq /\ r.time = s.time /\ Precedence(r) > Precedence(s)
  \/ r.seq = s.seq /\ r.time = s.time /\ Precedence(r) = Precedence(s) /\ r.id > s.id

\* Faulty variant of Consistent: the bridge trusts its pages.
ConsistentTrusted(rows) == TRUE

\* _validate_snapshot_records: a record with two contents is refused.
Consistent(rows) == \A i, j \in DOMAIN rows : rows[i].id = rows[j].id => rows[i] = rows[j]

PageArrives ==
  /\ Len(arrived) < ArrivalLimit /\ \E r \in SnapshotRows : arrived' = Append(arrived, r)

\* converted.sort() is stable: of rows with one key the first to arrive comes first.
Precedes(rows, j, i) ==
  SortsBefore(rows[j], rows[i]) \/ (~SortsBefore(rows[i], rows[j]) /\ j <= i)
Position(rows, i) == Cardinality({j \in DOMAIN rows : Precedes(rows, j, i)})
Sorted(rows) == [n \in DOMAIN rows |-> rows[CHOOSE i \in DOMAIN rows : Position(rows, i) = n]]

\* _excluded_by_ordinary, the filter of verifiers, and _is_state_record.
SaysState(r) ==
  /\ r.kind # "receipt"
  /\ r.kind # "evidence" \/ ~(r.lifecycle = "" /\ r.active = "" /\ r.actionable = "")

\* What a row in force says of a scalar of the trace, "" if nothing.  The word of the row
\* itself comes before that of its kind, except for the lifecycle.
Scalars == {"lifecycle", "active", "actionable"}
Dead == {"refuted", "stale", "retired", "inactive"}
Word(f, r) ==
  CASE f = "lifecycle" -> IF r.kind \in Dead THEN r.kind ELSE r.lifecycle
    [] f = "active" -> IF r.active = "" /\ r.kind \in Dead THEN "no" ELSE r.active
    [] f = "actionable" ->
         IF r.actionable = "" /\ r.kind = "frontier" THEN "yes" ELSE r.actionable

NoRow == [id |-> 0, seq |-> 0, time |-> 0, kind |-> "trace", alias |-> FALSE,
          lifecycle |-> "", active |-> "", actionable |-> ""]

\* _TraceEntity: the row whose state_key it has, and the last words on its scalars; seen
\* are the identities that came before.
NewEntity == [newest |-> NoRow, seen |-> {}, said |-> [f \in Scalars |-> ""]]

\* _entity_for and _accumulate_full: a row that outranks the present state replaces the
\* marks and what it has a word on; another one changes nothing.
Accumulate(e, r) ==
  LET seen == e.seen \cup {r.id} IN
  IF r.id \in e.seen \/ ~SaysState(r) \/ ~Outranks(r, e.newest) THEN [e EXCEPT !.seen = seen]
  ELSE [newest |-> r, seen |-> seen,
        said |-> [f \in Scalars |-> IF Word(f, r) = "" THEN e.said[f] ELSE Word(f, r)]]

Materialize(rows) ==
  LET sorted == Sorted(rows)
      after[n \in 0 .. Len(rows)] ==
        IF n = 0 THEN NewEntity ELSE Accumulate(after[n - 1], sorted[n])
  IN after[Len(rows)]

\* _finish_full: what a trace counts as.  The marks are those of the newest row.
Features(mark, said) ==
  [duplicate |-> mark = "duplicate",
   refuted |-> "refuted" \in {mark, said["lifecycle"]},
   stale |-> "stale" \in {mark, said["lifecycle"]},
   frontier |-> /\ said["actionable"] = "yes" /\ said["active"] # "no"
                /\ said["lifecycle"] \notin Dead]
Counts(e) == Features(e.newest.kind, e.said)

ProjectionSpec == ProjectionInit /\ [][PageArrives]_arrived
--------------------------------------------------------------------------------
\* The rows on the state of the trace, those that were in force, and the last of some.
StateRows == {r \in {arrived[i] : i \in DOMAIN arrived} : SaysState(r)}
Applied == {r \in StateRows : \A s \in StateRows : SortsBefore(s, r) => Outranks(r, s)}
Last(S) == CHOOSE r \in S : \A s \in S : r = s \/ Outranks(r, s)
LastWord(f) ==
  LET S == {r \in Applied : Word(f, r) # ""} IN IF S = {} THEN "" ELSE Word(f, Last(S))

\* The features of an accepted snapshot depend on the set of its rows only, never on the
\* order or the repetitions in which pages brought them: they are what the last rows in
\* force that have a word on the matter say, so that a newer word revives a trace and an
\* older one, wherever it comes, does not; the marks are those of the newest row.
FeaturesOfTheSet ==
  Consistent(arrived) =>
    Counts(Materialize(arrived)) =
      Features(IF StateRows = {} THEN "trace" ELSE Last(StateRows).kind,
               [f \in Scalars |-> LastWord(f)])
================================================================================
