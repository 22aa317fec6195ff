------------------------------- MODULE ChatHistory -------------------------------
(***************************************************************************)
(* The history of one chat session: its rows in sessions and messages as   *)
(* concurrent turns write them, its rolling summary (condense_history), and *)
(* the retention job (app/services/retention_service.py).                   *)
(*                                                                         *)
(* A turn runs two transactions. The first stores the question, and with a *)
(* new session its title; the second, the graph's, may rewrite the summary *)
(* and stores the reply. messages.created_at is now(), which PostgreSQL    *)
(* fixes when the transaction begins; history_summary_updated_at is the    *)
(* time at which the model has answered. Statements run READ COMMITTED.    *)
(*                                                                         *)
(* The clock is a counter that every reading advances, so no two stamps    *)
(* are equal.                                                              *)
(***************************************************************************)
EXTENDS Integers, FiniteSets

CONSTANTS
  NumTurns, \* the turns of the session, numbered as they arrive
  MaxTurns  \* CONTEXT_CONDENSATION_MAX_TURNS, in rows of messages

ASSUME MaxTurnsAssumption == MaxTurns \in Nat
ASSUME NumTurnsAssumption == NumTurns \in Nat

Turns == 1..NumTurns
NoTurn == 0

VARIABLES
  now,       \* the clock
  pc,        \* where each turn is
  began,     \* when each turn's open transaction began
  row,       \* sessions.history_summary and _updated_at, as each turn read them
  draft,     \* what each turn is to write there
  title,     \* the turn whose question the session is named after
  messages,  \* the committed rows of messages
  summary,   \* the committed history_summary and _updated_at
  holder,    \* the turn that holds the lock of the session's row
  condensed, \* turns whose summary was committed (history)
  overlaps   \* pairs of turns that were under way together (history)

vars == <<now, pc, began, row, draft, title, messages, summary, holder, condensed, overlaps>>

Answering == {"read", "list", "fold", "flush", "reply"}
UnderWay == {t \in Turns : pc[t] \in {"ask", "asked"} \cup Answering}

Id == [turn : Turns, role : {"user", "assistant"}]
Message(t, role, at) == [id |-> [turn |-> t, role |-> role], at |-> at]

\* The messages a summary tells of, and when it was made: 0 for never.
NoSummary == [tells |-> {}, at |-> 0]

Init ==
  /\ now = 1
  /\ pc = [t \in Turns |-> "idle"]
  /\ began = [t \in Turns |-> 0]
  /\ row = [t \in Turns |-> NoSummary]
  /\ draft = [t \in Turns |-> NoSummary]
  /\ title = NoTurn
  /\ messages = {}
  /\ summary = NoSummary
  /\ holder = NoTurn
  /\ condensed = {}
  /\ overlaps = {}

-----------------------------------------------------------------------------
(* The handler: the question *)

\* The first turn creates the session; the others learn of it when that is committed.
Ask(t) ==
  /\ pc[t] = "idle"
  /\ \A u \in 1..(t - 1) : pc[u] # "idle"
  /\ title # NoTurn \/ UnderWay = {}
  /\ pc' = [pc EXCEPT ![t] = "ask"]
  /\ began' = [began EXCEPT ![t] = now]
  /\ now' = now + 1
  /\ overlaps' = overlaps \cup {{t, u} : u \in UnderWay}
  /\ UNCHANGED <<row, draft, title, messages, summary, holder, condensed>>

\* The user's message is committed, and the title where there is none.
StoreQuestion(t) ==
  /\ pc[t] = "ask"
  /\ pc' = [pc EXCEPT ![t] = "asked"]
  /\ messages' = messages \cup {Message(t, "user", began[t])}
  /\ title' = IF title = NoTurn THEN t ELSE title
  /\ UNCHANGED <<now, began, row, draft, summary, holder, condensed, overlaps>>

-----------------------------------------------------------------------------
(* The graph: the reply *)

\* The graph's first statement opens its transaction: that of the similarity search, and
\* condensation follows, or that of a canned reply, which skips it.
BeginReply(t) ==
  /\ pc[t] = "asked"
  /\ \E next \in {"read", "reply"} : pc' = [pc EXCEPT ![t] = next]
  /\ began' = [began EXCEPT ![t] = now]
  /\ now' = now + 1
  /\ UNCHANGED <<row, draft, title, messages, summary, holder, condensed, overlaps>>

ReadSession(t) ==
  /\ pc[t] = "read"
  /\ pc' = [pc EXCEPT ![t] = "list"]
  /\ row' = [row EXCEPT ![t] = summary]
  /\ UNCHANGED <<now, began, draft, title, messages, summary, holder, condensed, overlaps>>

NewMessages(t) == {m \in messages : m.at > row[t].at}

\* Few messages, or none since the summary: it is used as it stands.
KeepSummary(t) ==
  /\ pc[t] = "list"
  /\ Cardinality(messages) <= MaxTurns \/ NewMessages(t) = {}
  /\ pc' = [pc EXCEPT ![t] = "reply"]
  /\ UNCHANGED <<now, began, row, draft, title, messages, summary, holder, condensed, overlaps>>

\* Mutant: the model is given the new messages without the previous summary.
ListMessagesFromScratch(t) ==
  /\ pc[t] = "list"
  /\ Cardinality(messages) > MaxTurns /\ NewMessages(t) # {}
  /\ pc' = [pc EXCEPT ![t] = "fold"]
  /\ draft' = [draft EXCEPT ![t].tells = {m.id : m \in NewMessages(t)}]
  /\ UNCHANGED <<now, began, row, title, messages, summary, holder, condensed, overlaps>>

\* The model is asked to fold the messages since the summary into it.
ListMessages(t) ==
  /\ pc[t] = "list"
  /\ Cardinality(messages) > MaxTurns /\ NewMessages(t) # {}
  /\ pc' = [pc EXCEPT ![t] = "fold"]
  /\ draft' = [draft EXCEPT ![t].tells = row[t].tells \cup {m.id : m \in NewMessages(t)}]
  /\ UNCHANGED <<now, began, row, title, messages, summary, holder, condensed, overlaps>>

\* Mutant: the process's clock runs ahead of the database's.
FoldClockAhead(t) ==
  /\ pc[t] = "fold"
  /\ pc' = [pc EXCEPT ![t] = "flush"]
  /\ draft' = [draft EXCEPT ![t].at = now + 1]
  /\ now' = now + 1
  /\ UNCHANGED <<began, row, title, messages, summary, holder, condensed, overlaps>>

\* The model has answered, and the time is read.
Fold(t) ==
  /\ pc[t] = "fold"
  /\ pc' = [pc EXCEPT ![t] = "flush"]
  /\ draft' = [draft EXCEPT ![t].at = now]
  /\ now' = now + 1
  /\ UNCHANGED <<began, row, title, messages, summary, holder, condensed, overlaps>>

\* Mutant: the summary is committed as soon as it is made, without the turn's reply.
FlushCommits(t) ==
  /\ pc[t] = "flush"
  /\ holder = NoTurn
  /\ pc' = [pc EXCEPT ![t] = "reply"]
  /\ summary' = draft[t]
  /\ condensed' = condensed \cup {t}
  /\ UNCHANGED <<now, began, row, draft, title, messages, holder, overlaps>>

\* The UPDATE waits for the lock of the row, then overwrites what was committed meanwhile.
Flush(t) ==
  /\ pc[t] = "flush"
  /\ holder = NoTurn
  /\ pc' = [pc EXCEPT ![t] = "reply"]
  /\ holder' = t
  /\ UNCHANGED <<now, began, row, draft, title, messages, summary, condensed, overlaps>>

Release(t) == holder' = IF holder = t THEN NoTurn ELSE holder

\* The answer is streamed, the reply stored, and the transaction committed.
StoreReply(t) ==
  /\ pc[t] = "reply"
  /\ pc' = [pc EXCEPT ![t] = "done"]
  /\ messages' = messages \cup {Message(t, "assistant", began[t])}
  /\ IF holder = t
       THEN summary' = draft[t] /\ condensed' = condensed \cup {t}
       ELSE UNCHANGED <<summary, condensed>>
  /\ Release(t)
  /\ UNCHANGED <<now, began, row, draft, title, overlaps>>

\* Mutant: the failed turn's transaction stays open.
FailWithoutRollback(t) ==
  /\ t \in UnderWay
  /\ pc' = [pc EXCEPT ![t] = "failed"]
  /\ UNCHANGED <<now, began, row, draft, title, messages, summary, holder, condensed, overlaps>>

\* A statement, the lock's wait or the model fails, or the client goes away: rolled back.
Fail(t) ==
  /\ t \in UnderWay
  /\ pc' = [pc EXCEPT ![t] = "failed"]
  /\ Release(t)
  /\ UNCHANGED <<now, began, row, draft, title, messages, summary, condensed, overlaps>>

-----------------------------------------------------------------------------
(* Retention *)

\* The messages older than some time are deleted, and only they. A turn is shorter than
\* the retention, so those of a turn under way stay.
Purge ==
  \E cutoff \in 1..now :
    /\ \A t \in UnderWay : \A m \in messages : m.id.turn = t => cutoff <= m.at
    /\ \E m \in messages : m.at < cutoff
    /\ messages' = {m \in messages : m.at >= cutoff}
    /\ UNCHANGED <<now, pc, began, row, draft, title, summary, holder, condensed, overlaps>>

-----------------------------------------------------------------------------

Answer(t) ==
  \/ BeginReply(t) \/ ReadSession(t) \/ KeepSummary(t)
  \/ ListMessages(t) \/ Fold(t) \/ Flush(t) \/ StoreReply(t)

Next ==
  \/ \E t \in Turns : Ask(t) \/ StoreQuestion(t) \/ Answer(t) \/ Fail(t)
  \/ Purge

Spec == Init /\ [][Next]_vars

\* A statement ends within its timeout, a call to the model within its retries.
FairSpec == Spec /\ \A t \in Turns : WF_vars(Answer(t))

-----------------------------------------------------------------------------
(* Properties *)

Summaries == [tells : SUBSET Id, at : Nat]

\* Every variable has its type, and every stamp was read from the clock.
TypeOK ==
  /\ now \in Nat \ {0}
  /\ pc \in [Turns -> {"idle", "ask", "asked", "done", "failed"} \cup Answering]
  /\ began \in [Turns -> 0..(now - 1)]
  /\ row \in [Turns -> Summaries]
  /\ draft \in [Turns -> Summaries]
  /\ title \in Turns \cup {NoTurn}
  /\ messages \subseteq [id : Id, at : 1..(now - 1)]
  /\ summary \in Summaries /\ summary.at < now
  /\ holder \in Turns \cup {NoTurn}
  /\ condensed \subseteq Turns
  /\ overlaps \subseteq SUBSET Turns

\* A turn that fails leaves no trace in the summary: it is committed with a reply, and
\* tells of no reply of a turn that was rolled back.
SummaryComesWithReply ==
  /\ \A t \in condensed : pc[t] = "done"
  /\ \A id \in summary.tells : id.role = "assistant" => pc[id.turn] = "done"

\* A message the summary will never tell of: it is older than the summary and not in it.
Forgotten(m) == m.id \notin summary.tells /\ m.at <= summary.at

\* The summary forgets nothing but the replies of the turns that made a summary, and
\* messages of turns that overlapped another.
ForgottenOnlyByOverlap ==
  \A m \in messages : Forgotten(m) =>
    \/ m.id.role = "assistant" /\ m.id.turn \in condensed
    \/ \E u \in Turns \ {m.id.turn} : {m.id.turn, u} \in overlaps

\* The lock of the session's row is not held for ever: a turn waiting for it is not
\* blocked by one that has failed.
LockReleased == \A t \in Turns : holder = t ~> holder # t

\* docs/17-memory-strategy.md says that condensation folds the messages added since
\* history_summary_updated_at into the summary: while turns follow one another, no message
\* is left out for good.
NothingForgotten == overlaps = {} => \A m \in messages : ~Forgotten(m)
=============================================================================
