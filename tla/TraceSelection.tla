--------------------------- MODULE TraceSelection ---------------------------
(***************************************************************************)
(* contextswarm_mini/selection_runtime.py and selection_store.py: a search *)
(* looks for a committed chain, reads the pieces, reads the feedback on    *)
(* them, ranks, and commits the ranking with the exposure it delivers, in  *)
(* separate transactions; solvers give feedback on what they were shown.   *)
(* A request key makes a retry return what is already committed.  The run  *)
(* closes with an export that selection_artifacts.py audits.               *)
(***************************************************************************)
EXTENDS Integers, FiniteSets

CONSTANTS Callers,       \* threads in search(); two of them may retry one request
          SearchKeys,    \* request keys of searches and digests
          Traces,        \* pieces that may be published
          FeedbackKeys,  \* request keys the solvers choose for their feedback
          Kinds,         \* feedback kinds
          SlotLimit      \* trace_slot_limit

\* "none" stands for the NULL of a column, which no key is.
ASSUME SelectionAssumption == SlotLimit \in Nat \ {0} /\ "none" \notin FeedbackKeys

\* All that identifies a request beside its key: task, actor, text, episode.
Queries == {"plain", "other"}
Items == SearchKeys \X Traces
NoChain == [query |-> "none", selected |-> {}, standing |-> <<>>]
NoEvent == [item |-> <<>>, kind |-> "none", effective |-> FALSE, conflict |-> "none"]
Resting == [at |-> "rest", key |-> "none", query |-> "none", seen |-> {}, standing |-> <<>>]

VARIABLES
  pieces,    \* CPS: the committed pieces
  calls,     \* what each caller is doing
  chains,    \* search_events with their rankings and exposure items, by request key
  feedback,  \* feedback_events, by request key
  answers,   \* history: <<key, query, traces>> of every search that answered
  verdicts   \* history: <<key, item, kind, status>> of every feedback call that answered

selectionVars == <<pieces, calls, chains, feedback, answers, verdicts>>

SelectionInit ==
  /\ pieces = {} /\ answers = {} /\ verdicts = {}
  /\ calls = [c \in Callers |-> Resting]
  /\ chains = [k \in SearchKeys |-> NoChain]
  /\ feedback = [f \in FeedbackKeys |-> NoEvent]

Committed(k) == chains[k] # NoChain
Exposed(i) == i[2] \in chains[i[1]].selected
\* The effective feedback on a piece, over all the exposures of it.
Standing(t) == Cardinality({f \in FeedbackKeys : feedback[f].effective /\ feedback[f].item[2] = t})
--------------------------------------------------------------------------------
PublishPiece(t) ==
  /\ t \notin pieces /\ pieces' = pieces \cup {t}
  /\ UNCHANGED <<calls, chains, feedback, answers, verdicts>>

Become(c, state) == calls' = [calls EXCEPT ![c] = state]
Answer(k, q, sel) == answers' = answers \cup {<<k, q, sel>>}

\* The rows of a search that ranked `sel` into its slots: every piece it read, with the
\* feedback it counted, is a candidate and is ranked; the selected ones are exposed.
Chain(r, sel) == [query |-> r.query, selected |-> sel, standing |-> r.standing]
Candidates(chain) == DOMAIN chain.standing

\* A committed chain is read back with its items.
Delivered(chain) == chain.selected

\* _assert_search_retry_matches: identities, rankings, candidates and watermarks.
SameSearch(chain, r, sel) ==
  chain.query = r.query /\ chain.standing = r.standing /\ chain.selected = sel

\* A committed chain is replayed, for the request it was made for only.
ReplayOrRefuse(k, q) ==
  IF chains[k].query = q THEN Answer(k, q, Delivered(chains[k])) ELSE UNCHANGED answers

\* search(): a committed chain answers; else _eligible reads the pieces.
BeginSearch(c, k, q) ==
  /\ calls[c].at = "rest"
  /\ \/ Committed(k) /\ ReplayOrRefuse(k, q) /\ UNCHANGED calls
     \/ /\ ~Committed(k) /\ UNCHANGED answers
        /\ Become(c, [at |-> "pieces", key |-> k, query |-> q, seen |-> pieces,
                      standing |-> <<>>])
  /\ UNCHANGED <<pieces, chains, feedback, verdicts>>

\* _trace_stats: feedback, evidence and relations of those pieces, as they are now.
ReadStanding(c) ==
  /\ calls[c].at = "pieces"
  /\ Become(c, [calls[c] EXCEPT !.at = "ranked",
                                !.standing = [t \in calls[c].seen |-> Standing(t)]])
  /\ UNCHANGED <<pieces, chains, feedback, answers, verdicts>>

\* What the ranker may pack into the slots and the token budget.
Selections(r) == {sel \in SUBSET r.seen : Cardinality(sel) <= SlotLimit}

\* Faulty variant of RecordSearch: the key is not looked up again in the transaction.
RecordAnyway(c) ==
  LET r == calls[c] IN
  /\ r.at = "ranked" /\ Become(c, Resting)
  /\ \E sel \in Selections(r) :
       /\ Answer(r.key, r.query, sel)
       /\ IF sel = {} THEN UNCHANGED chains
          ELSE chains' = [chains EXCEPT ![r.key] = Chain(r, sel)]
  /\ UNCHANGED <<pieces, feedback, verdicts>>

\* Nothing is stored when nothing fits.  record_search: a chain committed in the meantime
\* is the answer if it is for the same request and the same ranking of the same
\* snapshot, else a conflict.
RecordSearch(c) ==
  LET r == calls[c] IN
  /\ r.at = "ranked" /\ Become(c, Resting)
  /\ \E sel \in Selections(r) :
          \/ sel = {} /\ Answer(r.key, r.query, sel) /\ UNCHANGED chains
          \/ /\ sel # {} /\ ~Committed(r.key)
             /\ chains' = [chains EXCEPT ![r.key] = Chain(r, sel)]
             /\ Answer(r.key, r.query, Delivered(Chain(r, sel)))
          \/ /\ sel # {} /\ Committed(r.key) /\ UNCHANGED chains
             /\ IF SameSearch(chains[r.key], r, sel)
                THEN Answer(r.key, r.query, Delivered(chains[r.key])) ELSE UNCHANGED answers
  /\ UNCHANGED <<pieces, feedback, verdicts>>

\* The caller dies, or its answer is lost, before anything is committed.
AbandonSearch(c) ==
  /\ calls[c].at # "rest" /\ Become(c, Resting)
  /\ UNCHANGED <<pieces, chains, feedback, answers, verdicts>>

\* Faulty variant of Winner: feedback on any item of the exposure competes.
WinnerOfExposure(i, kind) ==
  {f \in FeedbackKeys : feedback[f].effective /\ feedback[f].item[1] = i[1]}

\* The effective terminal feedback on an exposure item.
Winner(i, kind) == {f \in FeedbackKeys : feedback[f].effective /\ feedback[f].item = i}

Status(event) == IF event.conflict = "none" THEN "RECORDED" ELSE "ALREADY_FINAL"
Say(f, i, kind, status) == verdicts' = verdicts \cup {<<f, i, kind, status>>}

\* record_feedback: a known key returns its event, or is refused for another
\* interaction; a new one is effective if it is the first on its item.
RecordFeedback(f, i, kind) ==
  /\ Exposed(i)
  /\ \/ /\ feedback[f] # NoEvent /\ UNCHANGED feedback
        /\ IF feedback[f].item = i /\ feedback[f].kind = kind
           THEN Say(f, i, kind, Status(feedback[f])) ELSE UNCHANGED verdicts
     \/ /\ feedback[f] = NoEvent
        /\ \E w \in IF Winner(i, kind) = {} THEN {"none"} ELSE Winner(i, kind) :
             feedback' = [feedback EXCEPT ![f] =
               [item |-> i, kind |-> kind, effective |-> w = "none", conflict |-> w]]
        /\ Say(f, i, kind, Status(feedback'[f]))
  /\ UNCHANGED <<pieces, calls, chains, answers>>

\* export_jsonl: all tables in one read transaction, in referential order.
Exported ==
  [searches |-> {k \in SearchKeys : Committed(k)},
   items    |-> {i \in Items : Exposed(i)},
   events   |-> {f \in FeedbackKeys : feedback[f] # NoEvent}]

\* _validate_store_joins: what closeout demands of the exported rows.
JoinsHold(rows) ==
  /\ \A k \in rows.searches :
       /\ chains[k].selected # {} /\ chains[k].selected \subseteq Candidates(chains[k])
       /\ {i[2] : i \in {j \in rows.items : j[1] = k}} = chains[k].selected
  /\ \A f \in rows.events : LET e == feedback[f] IN
       /\ e.item \in rows.items
       /\ e.effective => \A g \in rows.events \ {f} :
                            ~(feedback[g].effective /\ feedback[g].item = e.item)
       /\ ~e.effective => /\ e.conflict \in rows.events
                          /\ feedback[e.conflict].effective /\ feedback[e.conflict].item = e.item

SelectionNext ==
  \/ \E t \in Traces : PublishPiece(t)
  \/ \E c \in Callers, k \in SearchKeys, q \in Queries : BeginSearch(c, k, q)
  \/ \E c \in Callers : ReadStanding(c) \/ RecordSearch(c) \/ AbandonSearch(c)
  \/ \E f \in FeedbackKeys, i \in Items, kind \in Kinds : RecordFeedback(f, i, kind)

SelectionSpec == SelectionInit /\ [][SelectionNext]_selectionVars
--------------------------------------------------------------------------------
SelectionTypeOK ==
  /\ pieces \subseteq Traces
  /\ \A c \in Callers : calls[c].at \in {"rest", "pieces", "ranked"} /\ calls[c].seen \subseteq Traces
  /\ \A k \in SearchKeys : chains[k].selected \subseteq Traces
  /\ \A f \in FeedbackKeys : feedback[f] = NoEvent \/ feedback[f].item \in Items
  /\ \A a \in answers : a[1] \in SearchKeys /\ a[3] \subseteq Traces

\* A retry, or a second caller with the same key, is never shown other pieces than the
\* ones committed, whatever was published and fed back in between; an empty selection
\* alone is not committed.
SameAnswer ==
  \A a \in answers : a[3] # {} => a[2] = chains[a[1]].query /\ a[3] = chains[a[1]].selected

\* An export may be taken at any moment, and the audit of the run accepts it: it never
\* finds feedback on what was not delivered, two effective events on one item, or a
\* conflict that names an event of another item; and everybody who gave feedback was told
\* what it says, also on a retry.
ExportPasses ==
  /\ JoinsHold(Exported)
  /\ \A v \in verdicts : (v[4] = "RECORDED") <=> feedback[v[1]].effective
================================================================================
