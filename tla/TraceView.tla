------------------------------ MODULE TraceView ------------------------------
(***************************************************************************)
(* contextswarm_mini/allocation_trace_bridge.py and project_records of     *)
(* allocation_projection.py: the allocator reads the trace store while     *)
(* solvers append to it, in one SQLite transaction, page by page, or in    *)
(* one bounded batch, and uses the features of what it read, or zero.      *)
(*                                                                         *)
(* A row is an exposure or an effective feedback on one.  The rows of one  *)
(* event share its sequence.  Polarities, weights and the hash of the      *)
(* content, which serves as its watermark, are abstracted to the content.  *)
(***************************************************************************)
EXTENDS Integers, FiniteSets

CONSTANTS RowIds,       \* record ids, numbers; unrelated to the order of events
          RecordLimit,  \* max_records
          PageSize      \* rows a paged source returns at once

ASSUME ViewAssumption ==
  /\ RowIds \subseteq Nat \ {0} /\ IsFiniteSet(RowIds)
  /\ RecordLimit \in Nat \ {0} /\ PageSize \in Nat \ {0}

VARIABLES
  table,  \* the rows of the store: [id, seq, about], about = 0 for an exposure
  head,   \* the last sequence
  reader, \* the read in progress
  view,   \* the AllocationTraceView of the last read
  cuts    \* history: the contents of the store since that read began

viewVars == <<table, head, reader, view, cuts>>

Exposures(S) == {r \in S : r.about = 0}
Feedback(S) == {r \in S : r.about # 0}
\* The features: a feedback counts for an exposure of the same materialization.
Project(S) ==
  [exposed |-> {r.id : r \in Exposures(S)},
   rated |-> {r.about : r \in Feedback(S)} \cap {r.id : r \in Exposures(S)}]
Zero == Project({})

Idle == [path |-> "none", got |-> {}, asOf |-> {}, cursor |-> 0]

ViewInit ==
  /\ table = {} /\ head = 0 /\ reader = Idle /\ view = Zero /\ cuts = {{}}

Used == {r.id : r \in table}
AppendRows(rows) ==
  /\ table' = table \cup rows /\ head' = head + 1
  /\ cuts' = IF reader.path = "none" THEN cuts ELSE cuts \cup {table'}
  /\ UNCHANGED <<reader, view>>

\* One search delivers several pieces; one feedback is about one delivered piece.
DeliverItems(ids) ==
  ids # {} /\ AppendRows({[id |-> i, seq |-> head + 1, about |-> 0] : i \in ids})
GiveFeedback(id, r) ==
  r.about = 0 /\ AppendRows({[id |-> id, seq |-> head + 1, about |-> r.id]})
--------------------------------------------------------------------------------
\* read(): a new view, from the store as it is or as it will be.
BeginRead(path) ==
  /\ reader.path = "none" /\ reader' = [Idle EXCEPT !.path = path]
  /\ cuts' = {table} /\ view' = Zero
  /\ UNCHANGED <<table, head>>

\* Every exception, and every bound exceeded, gives the zero view.
ReadFails ==
  /\ reader.path # "none" /\ reader' = Idle /\ view' = Zero
  /\ UNCHANGED <<table, head, cuts>>
ReadEnds(S) ==
  /\ reader' = Idle /\ view' = IF Cardinality(S) > RecordLimit THEN Zero ELSE Project(S)
  /\ UNCHANGED <<table, head, cuts>>

\* read_complete_records: the first SELECT fixes what the transaction sees.
SelectExposures ==
  /\ reader.path = "sqlite"
  /\ reader' = [reader EXCEPT !.path = "feedback", !.got = Exposures(table), !.asOf = table]
  /\ UNCHANGED <<table, head, view, cuts>>
SelectFeedback ==
  reader.path = "feedback" /\ ReadEnds(reader.got \cup Feedback(reader.asOf))

\* The rows after the cursor of the source's present content, a page at a time.
After(cursor) == {r \in table : r.id > cursor}
Page(cursor) ==
  {r \in After(cursor) : Cardinality({s \in After(cursor) : s.id <= r.id}) <= PageSize}
LastId(S) == CHOOSE i \in {r.id : r \in S} : \A r \in S : r.id <= i

\* Faulty variant of SamePin: the watermark of later pages is not looked at.
AnyPin == TRUE

\* Every page must be of the content the first page was of.
SamePin == reader.cursor = 0 \/ reader.asOf = table

ReadPage ==
  LET page == Page(reader.cursor)
      got == reader.got \cup page
  IN
  /\ reader.path = "paged" /\ SamePin
  /\ IF page = After(reader.cursor) THEN ReadEnds(got)
     ELSE /\ Cardinality(got) <= RecordLimit
          /\ reader' = [reader EXCEPT !.got = got, !.asOf = table, !.cursor = LastId(page)]
          /\ UNCHANGED <<table, head, view, cuts>>

\* The first rows in the order of sequence and id, as many as allowed.
Earlier(r, s) == r.seq < s.seq \/ (r.seq = s.seq /\ r.id <= s.id)
Batch == {r \in table : Cardinality({s \in table : Earlier(s, r)}) <= RecordLimit}

\* _legacy_batch_is_complete: everything up to the reported watermark, no siblings.
ReadBatch ==
  /\ reader.path = "legacy" /\ Batch = table
  /\ \A r, s \in table : r.seq = s.seq => r = s
  /\ ReadEnds(table)

ViewNext ==
  \/ \E ids \in SUBSET (RowIds \ Used) : DeliverItems(ids)
  \/ \E id \in RowIds \ Used, r \in table : GiveFeedback(id, r)
  \/ \E path \in {"sqlite", "paged", "legacy"} : BeginRead(path)
  \/ ReadFails \/ SelectExposures \/ SelectFeedback \/ ReadPage \/ ReadBatch

ViewSpec == ViewInit /\ [][ViewNext]_viewVars
--------------------------------------------------------------------------------
ViewTypeOK ==
  /\ head \in 0 .. Cardinality(RowIds) /\ Cardinality(Used) = Cardinality(table)
  /\ reader.path \in {"none", "sqlite", "feedback", "paged", "legacy"}

\* The allocator never decides on a mixture: its view is zero, or has the features of
\* the complete store as it was at one moment of the read, whatever was appended to the
\* store between two queries or two pages.
ViewIsOneCut == view = Zero \/ \E cut \in cuts : view = Project(cut)
================================================================================
