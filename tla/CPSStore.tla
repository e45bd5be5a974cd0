------------------------------- MODULE CPSStore -------------------------------
(***************************************************************************)
(* contextswarm_mini/cps.py and the cps_* operations of the broker: solver *)
(* actors and the runner share one SQLite store of pieces and messages and *)
(* an event log that is exported at the end.  An operation is one short    *)
(* write transaction, which checks the caller's capability when it begins  *)
(* and before it commits; what the broker looked up for it was read before.*)
(*                                                                         *)
(* The lock order of a session's end is in ProbeSession; here a capability *)
(* (session, task or horizon) may close at any time.  The inbox shows the  *)
(* newest 8 messages, cps_ack looks at the newest 50, and created_at has a *)
(* resolution of a second: a message that is pushed out is one nobody asks *)
(* to acknowledge.                                                         *)
(***************************************************************************)
EXTENDS Integers, Sequences, FiniteSets

CONSTANTS CpsActors,     \* solver actors with a session that reached a judge_check
          HomeTask,      \* the task of each
          RowLimit,      \* bound: messages, and pieces, of a run
          Everyone       \* recipient NULL or '*'

Runner == "runner"
ASSUME CpsAssumption ==
  /\ Runner \notin CpsActors /\ Everyone \notin CpsActors \cup {Runner}
  /\ DOMAIN HomeTask = CpsActors /\ RowLimit \in Nat

Global == "__global__"
Homes == {HomeTask[a] : a \in CpsActors}
Publishers == CpsActors \cup {Runner}

VARIABLES
  surface,   \* communication and selection of the run
  cpsClosed, \* actors whose capability is closed
  doing,     \* the operation each actor waits for
  writer,    \* who holds the SQLite write lock
  board,     \* table pieces
  mail,      \* table messages, without acked_at
  acked,     \* the messages with an acked_at, by their place in mail
  log        \* table events

cpsVars == <<surface, cpsClosed, doing, writer, board, mail, acked, log>>

Nobody == "nobody"
NoOp == [type |-> "none", row |-> <<>>, message |-> 0]
Create(type, row) == [NoOp EXCEPT !.type = type, !.row = row]
Acknowledge(i) == [NoOp EXCEPT !.type = "message_acked", !.message = i]

CpsInit ==
  /\ surface \in {"task", "hybrid", "selection"}
  /\ cpsClosed = {} /\ writer = Nobody /\ board = <<>> /\ mail = <<>> /\ acked = {} /\ log = <<>>
  /\ doing = [a \in Publishers |-> NoOp]

\* _scope: only hybrid communication has a global scope.
Scopes(a) == {HomeTask[a]} \cup (IF surface = "hybrid" THEN {Global} ELSE {})

\* inbox: unacknowledged, in the actor's scopes, to the actor or to everyone.
Addressed(a, m) == m.task \in Scopes(a) /\ m.to \in {a, Everyone}
Inbox(a) == {i \in DOMAIN mail : i \notin acked /\ Addressed(a, mail[i])}
--------------------------------------------------------------------------------
Ask(a, op) ==
  /\ doing[a].type = "none" /\ doing' = [doing EXCEPT ![a] = op]
  /\ UNCHANGED <<surface, cpsClosed, writer, board, mail, acked, log>>

\* cps_publish: a solver may not use the runner's kind.
AskPublish(a) ==
  \E s \in Scopes(a) : Ask(a, Create("piece_created", [task |-> s, author |-> a, kind |-> "handoff"]))

\* _publish_runner_validation.
RunnerPublishes ==
  \E t \in Homes :
    Ask(Runner, Create("piece_created",
                       [task |-> t, author |-> Runner, kind |-> "validation_result"]))

\* cps_send; selection runs have no direct messages.
AskSend(a) ==
  /\ surface # "selection"
  /\ \E s \in Scopes(a), to \in CpsActors \cup {Everyone} :
       Ask(a, Create("message_sent", [task |-> s, from |-> a, to |-> to]))

\* Faulty variant of AskAck: any message of the store.
AskAckAny(a) == surface # "selection" /\ \E i \in DOMAIN mail : Ask(a, Acknowledge(i))

\* cps_ack reads the inbox in a transaction of its own.
AskAck(a) == surface # "selection" /\ \E i \in Inbox(a) : Ask(a, Acknowledge(i))

Finish(a) == doing' = [doing EXCEPT ![a] = NoOp]

\* _begin_write: take the lock, then validate.
BeginWrite(a) ==
  /\ doing[a].type # "none" /\ writer = Nobody
  /\ IF a \in cpsClosed THEN Finish(a) /\ UNCHANGED writer
     ELSE writer' = a /\ UNCHANGED doing
  /\ UNCHANGED <<surface, cpsClosed, board, mail, acked, log>>

\* The statements of create_piece, send_message and ack_message.
InsertPiece(op) == IF op.type = "piece_created" THEN Append(board, op.row) ELSE board
InsertMessage(op) == IF op.type = "message_sent" THEN Append(mail, op.row) ELSE mail
UpdateAcked(op) == IF op.type = "message_acked" THEN acked \cup {op.message} ELSE acked

\* Faulty variant of ChangesNothing: an acknowledgement overwrites an earlier one.
OverwritesAck(op) == FALSE

\* UPDATE ... WHERE acked_at IS NULL may find that somebody else has acknowledged the
\* message in the meantime; then there is no event either.
ChangesNothing(op) == op.type = "message_acked" /\ op.message \in acked

\* _commit_write validates once more: a closed capability rolls everything back.
EndWrite(a) ==
  LET op == doing[a] IN
  /\ writer = a /\ writer' = Nobody /\ Finish(a)
  /\ IF a \in cpsClosed \/ ChangesNothing(op) THEN UNCHANGED <<board, mail, acked, log>>
     ELSE /\ board' = InsertPiece(op) /\ mail' = InsertMessage(op) /\ acked' = UpdateAcked(op)
          /\ log' = Append(log, [actor |-> a, op |-> op])
  /\ UNCHANGED <<surface, cpsClosed>>

CloseCapability(a) ==
  /\ a \notin cpsClosed /\ cpsClosed' = cpsClosed \cup {a}
  /\ UNCHANGED <<surface, doing, writer, board, mail, acked, log>>

RoomFor(type, table) ==
  Len(table) + Cardinality({a \in Publishers : doing[a].type = type}) < RowLimit

CpsNext ==
  \/ \E a \in CpsActors :
       \/ RoomFor("piece_created", board) /\ AskPublish(a)
       \/ RoomFor("message_sent", mail) /\ AskSend(a)
       \/ AskAck(a)
  \/ RoomFor("piece_created", board) /\ RunnerPublishes
  \/ \E a \in Publishers : BeginWrite(a) \/ EndWrite(a) \/ CloseCapability(a)

CpsSpec == CpsInit /\ [][CpsNext]_cpsVars
--------------------------------------------------------------------------------
CpsTypeOK ==
  /\ cpsClosed \subseteq Publishers /\ writer \in Publishers \cup {Nobody}
  /\ acked \subseteq DOMAIN mail /\ Len(mail) <= RowLimit /\ Len(board) <= RowLimit

\* The exported events of one type: where they are in the log.
Logged(type) == {i \in DOMAIN log : log[i].op.type = type}
UpTo(i, type) == {j \in Logged(type) : j <= i}

\* The n-th event of the type has the n-th row of the table, and no row is without one.
Recounts(type, table) ==
  /\ Cardinality(Logged(type)) = Len(table)
  /\ \A i \in Logged(type) : table[Cardinality(UpTo(i, type))] = log[i].op.row

\* The exported log is the history of the store: it has every piece and every message
\* in the order they were written, and one acknowledgement of each acknowledged
\* message, whatever operations raced or were rolled back.
LogReplaysStore ==
  /\ Recounts("piece_created", board) /\ Recounts("message_sent", mail)
  /\ {log[i].op.message : i \in Logged("message_acked")} = acked
  /\ Cardinality(Logged("message_acked")) = Cardinality(acked)

\* A message disappears from its readers' inboxes only when one of them acknowledged
\* it: nobody else, of this task or another, can hide it.  (A message to everyone has
\* one acknowledgement, so the first reader hides it from the others.)
AckedByReader ==
  \A i \in DOMAIN log :
    log[i].op.type = "message_acked" => Addressed(log[i].actor, mail[log[i].op.message])
================================================================================
