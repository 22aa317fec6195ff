-------------------------------- MODULE ChatTurn --------------------------------
(***************************************************************************)
(* The turns of /api/chat and /api/opr/chat in one process: the handlers   *)
(* (app/api/user_router.py, app/api/operator_router.py), the two chat      *)
(* graphs (app/graphs), the streaming of their output with keepalives      *)
(* (_stream_chat_graph in app/services/chat_service.py over                *)
(* stream_with_keepalive in app/utils/sse.py), and the drain of the        *)
(* streams on shutdown (StreamDrain).                                      *)
(*                                                                         *)
(* A graph runs in a task of its own and fills a queue; the response       *)
(* generator empties it into the event stream. The graph's writes belong   *)
(* to one database transaction, which the generator commits or rolls back. *)
(* What the session's history holds is ChatHistory's subject.              *)
(***************************************************************************)
EXTENDS Integers, Sequences, FiniteSets, SequencesExt

CONSTANTS
  Requests,       \* the chat requests
  Questions,      \* the questions each of them may carry, a set of them for each
  MaxTokens,      \* bound on the tokens of an answer
  MaxKeepalives   \* bound on the keepalives of all streams

Persona == {"user", "operator"}
\* What the classifiers make of the question, the description of its image merged in.
Topic == {"greeting", "add_knowledge", "out_of_topic", "summary", "other"}

\* A greeting is the whole of a question, so no question with an image is one.
Question ==
  {q \in [persona : Persona, image : BOOLEAN, topic : Topic] :
     q.image => q.topic # "greeting"}

ASSUME RequestsAssumption == IsFiniteSet(Requests)
ASSUME QuestionsAssumption == Questions \in [Requests -> SUBSET Question]
ASSUME BoundsAssumption == MaxTokens \in Nat /\ MaxKeepalives \in Nat

VARIABLES
  pc,        \* where each request is: before its stream, in a node, or after the graph
  question,  \* what each request asks
  reply,     \* what answers it: a short-circuit tier, "qa" or "summary"
  called,    \* per request: the nodes whose call Bedrock has answered
  tokens,    \* number of tokens each graph has produced
  queue,     \* tokens each graph has produced and the stream has not sent
  sent,      \* events sent to each client
  pending,   \* rows each open transaction has written
  stored,    \* rows of each turn that are committed
  lost,      \* requests whose COMMIT took effect and whose answer was lost
  active, drained, waiter,  \* as in StreamDrain
  awaited    \* streams in flight when the shutdown began

Drain == INSTANCE StreamDrain

drainVars == <<active, drained, waiter>>
turnVars == <<question, reply, called, tokens, queue, sent, pending, stored, lost>>
vars == <<pc, turnVars, drainVars, awaited>>

Nodes == {"preprocess", "classify", "embed", "search", "condense", "generate",
          "persist", "log"}
\* After the graph: its items are relayed, then the transaction is committed and "done"
\* is sent, or it is rolled back and "error" is sent.
Closing == {"ended", "committing", "committed", "failing"}
Over == {"rejected", "closed", "aborted", "gone", "killed"}

Tiers == {"greeting", "add_knowledge_intent", "out_of_topic", "low_similarity"}
Terminal == {"done", "error"}
\* An event of the stream; a canned answer is a token with content 0.
Token(i) == [type |-> "token", content |-> i]
Event(type) == [type |-> type, content |-> 0]
ChatStreamEvent == [type : {"token", "keepalive"} \cup Terminal, content : 0..MaxTokens]
Rows == {"summary", "reply", "metric"}
Calls == {"describe", "embed", "condense", "generate"}

\* Inside track_stream.
Streaming == {r \in Requests : pc[r] \in Nodes \cup Closing}

NoQuestion == [persona |-> "user", image |-> FALSE, topic |-> "other"]

Init ==
  /\ pc = [r \in Requests |-> "idle"]
  /\ question = [r \in Requests |-> NoQuestion]
  /\ reply = [r \in Requests |-> "none"]
  /\ called = [r \in Requests |-> {}]
  /\ tokens = [r \in Requests |-> 0]
  /\ queue = [r \in Requests |-> <<>>]
  /\ sent = [r \in Requests |-> <<>>]
  /\ pending = [r \in Requests |-> {}]
  /\ stored = [r \in Requests |-> {}]
  /\ lost = {}
  /\ Drain!Init
  /\ awaited = {}

-----------------------------------------------------------------------------
(* Before the stream *)

\* The handler resolves the session and commits the user's message. The server takes
\* no request once the shutdown has begun.
Ask(r) ==
  /\ pc[r] = "idle"
  /\ waiter = "none"
  /\ \E q \in Questions[r] : question' = [question EXCEPT ![r] = q]
  /\ pc' = [pc EXCEPT ![r] = "asked"]
  /\ UNCHANGED <<reply, called, tokens, queue, sent, pending, stored, lost, drainVars, awaited>>

\* 400, 404, 413 or 415 before the stream opens, or a database error.
Reject(r) ==
  /\ pc[r] = "idle"
  /\ waiter = "none"
  /\ pc' = [pc EXCEPT ![r] = "rejected"]
  /\ UNCHANGED <<turnVars, drainVars, awaited>>

\* The response is first consumed, whether or not the shutdown has begun since.
OpenStream(r) ==
  /\ pc[r] = "asked"
  /\ pc' = [pc EXCEPT ![r] = "preprocess"]
  /\ Drain!EnterStream
  /\ UNCHANGED <<turnVars, awaited>>

-----------------------------------------------------------------------------
(* The graph's nodes *)

MovesTo(r, node) == pc' = [pc EXCEPT ![r] = node]
HasCalled(r, calls) == called' = [called EXCEPT ![r] = @ \cup calls]

\* Mutant: the question is embedded while its image, if any, is described.
PreprocessEmbeds(r) ==
  /\ pc[r] = "preprocess"
  /\ MovesTo(r, "classify")
  /\ HasCalled(r, {"embed"})
  /\ UNCHANGED <<question, reply, tokens, queue, sent, pending, stored, lost, drainVars, awaited>>

\* preprocess_input calls the text model for an image, and for nothing else.
Described(q) == IF q.image THEN {"describe"} ELSE {}

\* An image is described before anything is classified.
Preprocess(r) ==
  /\ pc[r] = "preprocess"
  /\ MovesTo(r, "classify")
  /\ HasCalled(r, Described(question[r]))
  /\ UNCHANGED <<question, reply, tokens, queue, sent, pending, stored, lost, drainVars, awaited>>

\* The tier that answers a question without retrieval, in the graphs' order; only the
\* operator's graph knows the add-knowledge intent.
CannedTier(q) ==
  CASE q.topic = "greeting" -> "greeting"
    [] q.topic = "add_knowledge" /\ q.persona = "operator" -> "add_knowledge_intent"
    [] q.topic = "out_of_topic" -> "out_of_topic"
    [] OTHER -> "none"

Classify(r) ==
  /\ pc[r] = "classify"
  /\ reply' = [reply EXCEPT ![r] = CannedTier(question[r])]
  /\ MovesTo(r, IF CannedTier(question[r]) = "none" THEN "embed" ELSE "persist")
  /\ UNCHANGED <<question, called, tokens, queue, sent, pending, stored, lost, drainVars, awaited>>

Embed(r) ==
  /\ pc[r] = "embed"
  /\ MovesTo(r, "search")
  /\ HasCalled(r, {"embed"})
  /\ UNCHANGED <<question, reply, tokens, queue, sent, pending, stored, lost, drainVars, awaited>>

BelowThreshold(r) ==
  /\ pc[r] = "search"
  /\ reply' = [reply EXCEPT ![r] = "low_similarity"]
  /\ MovesTo(r, "persist")
  /\ UNCHANGED <<question, called, tokens, queue, sent, pending, stored, lost, drainVars, awaited>>

Continue(r) ==
  /\ pc[r] = "search"
  /\ MovesTo(r, "condense")
  /\ UNCHANGED <<turnVars, drainVars, awaited>>

\* route_by_intent, which only the operator's graph has.
Mode(q) == IF q.persona = "operator" /\ q.topic = "summary" THEN "summary" ELSE "qa"

\* condense_history may fold the history into the session's summary.
Condense(r) ==
  /\ pc[r] = "condense"
  /\ \/ UNCHANGED <<called, pending>>
     \/ /\ HasCalled(r, {"condense"})
        /\ pending' = [pending EXCEPT ![r] = @ \cup {"summary"}]
  /\ reply' = [reply EXCEPT ![r] = Mode(question[r])]
  /\ MovesTo(r, "generate")
  /\ UNCHANGED <<question, tokens, queue, sent, stored, lost, drainVars, awaited>>

\* A token of the answer goes to the stream writer. (Bound: MaxTokens.)
Generate(r) ==
  /\ pc[r] = "generate"
  /\ tokens[r] < MaxTokens
  /\ tokens' = [tokens EXCEPT ![r] = @ + 1]
  /\ queue' = [queue EXCEPT ![r] = Append(@, tokens[r] + 1)]
  /\ UNCHANGED <<pc, question, reply, called, sent, pending, stored, lost, drainVars, awaited>>

AppendSources(r) ==
  /\ pc[r] = "generate"
  /\ MovesTo(r, "persist")
  /\ HasCalled(r, {"generate"})
  /\ UNCHANGED <<question, reply, tokens, queue, sent, pending, stored, lost, drainVars, awaited>>

PersistMessage(r) ==
  /\ pc[r] = "persist"
  /\ MovesTo(r, "log")
  /\ pending' = [pending EXCEPT ![r] = @ \cup {"reply"}]
  /\ UNCHANGED <<question, reply, called, tokens, queue, sent, stored, lost, drainVars, awaited>>

LogMetrics(r) ==
  /\ pc[r] = "log"
  /\ MovesTo(r, "ended")
  /\ pending' = [pending EXCEPT ![r] = @ \cup {"metric"}]
  /\ UNCHANGED <<question, reply, called, tokens, queue, sent, stored, lost, drainVars, awaited>>

\* The nodes that await Bedrock or the database.
MayFail(r) == pc[r] \in Nodes \ {"classify"} /\ (pc[r] = "preprocess" => question[r].image)

\* A node raises. What the graph had queued may not be delivered any more.
NodeFails(r) ==
  /\ MayFail(r)
  /\ MovesTo(r, "failing")
  /\ queue' = [queue EXCEPT ![r] = <<>>]
  /\ UNCHANGED <<question, reply, called, tokens, sent, pending, stored, lost, drainVars, awaited>>

-----------------------------------------------------------------------------
(* The stream *)

Send(r, event) == sent' = [sent EXCEPT ![r] = Append(@, event)]

Graph(r) == pc[r] \in Nodes \cup {"ended"}

\* Mutant: tokens the graph queued before it ended are relayed only while it runs.
RelayWhileRunning(r) ==
  /\ pc[r] \in Nodes
  /\ queue[r] # <<>>
  /\ Send(r, Token(Head(queue[r])))
  /\ queue' = [queue EXCEPT ![r] = Tail(@)]
  /\ UNCHANGED <<pc, question, reply, called, tokens, pending, stored, lost, drainVars, awaited>>

\* The pending __anext__ of the graph yields an item.
Relay(r) ==
  /\ Graph(r)
  /\ queue[r] # <<>>
  /\ Send(r, Token(Head(queue[r])))
  /\ queue' = [queue EXCEPT ![r] = Tail(@)]
  /\ UNCHANGED <<pc, question, reply, called, tokens, pending, stored, lost, drainVars, awaited>>

\* (Bound: MaxKeepalives, of all streams together.)
MayKeepAlive ==
  FoldFunction(LAMBDA events, n : n + Len(SelectSeq(events, LAMBDA e : e.type = "keepalive")),
               0, sent) < MaxKeepalives

\* Mutant: the timeout cancels the pending __anext__, and an item that was arriving is lost.
KeepaliveCancels(r) ==
  /\ Graph(r)
  /\ MayKeepAlive
  /\ Send(r, Event("keepalive"))
  /\ queue' = [queue EXCEPT ![r] = IF @ = <<>> THEN @ ELSE Tail(@)]
  /\ UNCHANGED <<pc, question, reply, called, tokens, pending, stored, lost, drainVars, awaited>>

\* The interval passes with nothing to relay; the pending __anext__ is kept, so an item
\* that arrives just then stays queued.
Keepalive(r) ==
  /\ Graph(r)
  /\ MayKeepAlive
  /\ Send(r, Event("keepalive"))
  /\ UNCHANGED <<pc, question, reply, called, tokens, queue, pending, stored, lost, drainVars, awaited>>

ShortCircuited(r) == reply[r] \in Tiers

\* Mutant: "done" is sent before the transaction is committed.
FinishAnnouncesDone(r) ==
  /\ pc[r] = "ended" /\ queue[r] = <<>>
  /\ MovesTo(r, "committing")
  /\ Send(r, Event("done"))
  /\ UNCHANGED <<question, reply, called, tokens, queue, pending, stored, lost, drainVars, awaited>>

\* The graph is exhausted. A canned answer is sent as one token.
Finish(r) ==
  /\ pc[r] = "ended" /\ queue[r] = <<>>
  /\ MovesTo(r, "committing")
  /\ IF ShortCircuited(r) THEN Send(r, Token(0)) ELSE UNCHANGED sent
  /\ UNCHANGED <<question, reply, called, tokens, queue, pending, stored, lost, drainVars, awaited>>

Commit(r) ==
  /\ pc[r] = "committing"
  /\ MovesTo(r, "committed")
  /\ stored' = [stored EXCEPT ![r] = pending[r]]
  /\ pending' = [pending EXCEPT ![r] = {}]
  /\ UNCHANGED <<question, reply, called, tokens, queue, sent, lost, drainVars, awaited>>

\* COMMIT raises, and took effect or not.
CommitFails(r) ==
  /\ pc[r] = "committing"
  /\ MovesTo(r, "failing")
  /\ \/ /\ stored' = [stored EXCEPT ![r] = pending[r]]
        /\ lost' = lost \cup {r}
     \/ UNCHANGED <<stored, lost>>
  /\ pending' = [pending EXCEPT ![r] = {}]
  /\ UNCHANGED <<question, reply, called, tokens, queue, sent, drainVars, awaited>>

SendDone(r) ==
  /\ pc[r] = "committed"
  /\ MovesTo(r, "closed")
  /\ Send(r, Event("done"))
  /\ Drain!ExitStream
  /\ UNCHANGED <<question, reply, called, tokens, queue, pending, stored, lost, awaited>>

\* Mutant: the handler ends the transaction with COMMIT.
SendErrorCommits(r) ==
  /\ pc[r] = "failing"
  /\ MovesTo(r, "closed")
  /\ Send(r, Event("error"))
  /\ stored' = [stored EXCEPT ![r] = @ \cup pending[r]]
  /\ pending' = [pending EXCEPT ![r] = {}]
  /\ Drain!ExitStream
  /\ UNCHANGED <<question, reply, called, tokens, queue, lost, awaited>>

\* Mutant: the handler does not roll back.
SendErrorWithoutRollback(r) ==
  /\ pc[r] = "failing"
  /\ MovesTo(r, "closed")
  /\ Send(r, Event("error"))
  /\ Drain!ExitStream
  /\ UNCHANGED <<question, reply, called, tokens, queue, pending, stored, lost, awaited>>

\* The handler of any Exception rolls back and sends "error".
SendError(r) ==
  /\ pc[r] = "failing"
  /\ MovesTo(r, "closed")
  /\ Send(r, Event("error"))
  /\ pending' = [pending EXCEPT ![r] = {}]
  /\ Drain!ExitStream
  /\ UNCHANGED <<question, reply, called, tokens, queue, stored, lost, awaited>>

\* The rollback itself raises, for want of a connection, and leaves the generator.
RollbackFails(r) ==
  /\ pc[r] = "failing"
  /\ MovesTo(r, "aborted")
  /\ pending' = [pending EXCEPT ![r] = {}]
  /\ Drain!ExitStream
  /\ UNCHANGED <<question, reply, called, tokens, queue, sent, stored, lost, awaited>>

\* The generator and its graph go, with all they hold, and the events no one reads.
Forget(R) ==
  /\ question' = [r \in Requests |-> IF r \in R THEN NoQuestion ELSE question[r]]
  /\ reply' = [r \in Requests |-> IF r \in R THEN "none" ELSE reply[r]]
  /\ called' = [r \in Requests |-> IF r \in R THEN {} ELSE called[r]]
  /\ tokens' = [r \in Requests |-> IF r \in R THEN 0 ELSE tokens[r]]
  /\ queue' = [r \in Requests |-> IF r \in R THEN <<>> ELSE queue[r]]
  /\ sent' = [r \in Requests |-> IF r \in R THEN <<>> ELSE sent[r]]
  /\ pending' = [r \in Requests |-> IF r \in R THEN {} ELSE pending[r]]

\* Mutant: the count is decremented only where the generator ends by itself.
DisconnectUncounted(r) ==
  /\ r \in Streaming
  /\ MovesTo(r, "gone")
  /\ Forget({r})
  /\ UNCHANGED <<stored, lost, drainVars, awaited>>

\* The client goes away: CancelledError or GeneratorExit passes the handler, the session's
\* close rolls back. A COMMIT that was under way may have taken effect.
Disconnect(r) ==
  /\ r \in Streaming
  /\ MovesTo(r, "gone")
  /\ \/ UNCHANGED stored
     \/ pc[r] = "committing" /\ stored' = [stored EXCEPT ![r] = pending[r]]
  /\ Forget({r})
  /\ Drain!ExitStream
  /\ UNCHANGED <<lost, awaited>>

\* The client goes away before its stream is consumed.
LeaveEarly(r) ==
  /\ pc[r] = "asked"
  /\ MovesTo(r, "gone")
  /\ Forget({r})
  /\ UNCHANGED <<stored, lost, drainVars, awaited>>

-----------------------------------------------------------------------------
(* Shutdown *)

BeginShutdown ==
  /\ Drain!BeginShutdown
  /\ awaited' = Streaming
  /\ UNCHANGED <<pc, turnVars>>

WaitReturns == Drain!WaitReturns /\ UNCHANGED <<pc, turnVars, awaited>>
GraceElapses == Drain!GraceElapses /\ UNCHANGED <<pc, turnVars, awaited>>

\* lifespan has returned and the process ends, with whatever still runs. COMMITs that were
\* under way may have taken effect.
Running == {r \in Requests : pc[r] \notin Over}

Exit ==
  /\ waiter \in {"clean", "late"}
  /\ Running # {}
  /\ pc' = [r \in Requests |-> IF r \in Running THEN "killed" ELSE pc[r]]
  /\ \E R \in SUBSET {r \in Running : pc[r] = "committing"} :
       stored' = [r \in Requests |-> IF r \in R THEN pending[r] ELSE stored[r]]
  /\ Forget(Running)
  /\ active' = 0
  /\ drained' = TRUE
  /\ UNCHANGED <<lost, waiter, awaited>>

-----------------------------------------------------------------------------

RunNode(r) ==
  \/ Preprocess(r) \/ Classify(r) \/ Embed(r)
  \/ BelowThreshold(r) \/ Continue(r) \/ Condense(r)
  \/ Generate(r) \/ AppendSources(r)
  \/ PersistMessage(r) \/ LogMetrics(r) \/ NodeFails(r)

Close(r) ==
  \/ Finish(r) \/ Commit(r) \/ CommitFails(r) \/ SendDone(r)
  \/ SendError(r) \/ RollbackFails(r)

Next ==
  \/ \E r \in Requests :
       \/ Ask(r) \/ Reject(r) \/ OpenStream(r)
       \/ RunNode(r) \/ Relay(r) \/ Keepalive(r) \/ Close(r)
       \/ Disconnect(r) \/ LeaveEarly(r)
  \/ BeginShutdown \/ WaitReturns \/ GraceElapses \/ Exit

Spec == Init /\ [][Next]_vars

\* Calls to Bedrock and statements of the database end, by their timeouts; a client reads
\* its stream or goes away.
Serve(r) == OpenStream(r) \/ RunNode(r) \/ Relay(r) \/ Close(r)

FairSpec == Spec /\ \A r \in Requests : WF_vars(Serve(r))

-----------------------------------------------------------------------------
(* Properties *)

\* Every variable has its type, and only a stream in flight has a transaction open or
\* tokens queued.
TypeOK ==
  /\ pc \in [Requests -> {"idle", "asked"} \cup Nodes \cup Closing \cup Over]
  /\ question \in [Requests -> Question]
  /\ reply \in [Requests -> Tiers \cup {"none", "qa", "summary"}]
  /\ called \in [Requests -> SUBSET Calls]
  /\ tokens \in [Requests -> 0..MaxTokens]
  /\ queue \in [Requests -> Seq(1..MaxTokens)]
  /\ sent \in [Requests -> Seq(ChatStreamEvent)]
  /\ pending \in [Requests -> SUBSET Rows]
  /\ stored \in [Requests -> SUBSET Rows]
  /\ lost \subseteq Requests
  /\ Drain!TypeOK
  /\ awaited \subseteq Requests
  /\ \A r \in Requests \ Streaming : pending[r] = {} /\ queue[r] = <<>>

\* A stream sends nothing after a terminal event, and has sent one exactly when its
\* generator ended by itself: with neither client, database nor process lost.
OneTerminal ==
  \A r \in Requests :
    /\ \A i \in 1..Len(sent[r]) : sent[r][i].type \in Terminal => i = Len(sent[r])
    /\ pc[r] = "closed" <=> \E i \in 1..Len(sent[r]) : sent[r][i].type \in Terminal

\* The turn as Conversation has it: over when its request is, told by the last event.
Conv == INSTANCE Conversation WITH
  rows <- stored,
  told <- [r \in Requests |-> IF pc[r] = "closed" THEN Last(sent[r]).type ELSE "nothing"],
  doubt <- lost,
  over <- {r \in Requests : pc[r] \in Over}

\* However a turn ends, its reply, its metric and its summary are stored in one step, or
\* not at all; what was committed is never taken back, nothing is committed once the
\* client has heard how the turn ended or has gone, and it hears "done" only of a turn
\* whose COMMIT answered, "error" only of one that stored nothing it knows of.
ImplementsConversation == Conv!Spec

\* Where the tokens are among the events of a stream.
TokensIn(events) == {i \in 1..Len(events) : events[i].type = "token"}

\* Which token of its stream the i-th event is.
Ordinal(events, i) == Cardinality({j \in TokensIn(events) : j <= i})

AnswerLength(r) == IF ShortCircuited(r) THEN 1 ELSE tokens[r]

\* The n-th token that was sent is the n-th of the answer; a canned answer has but one.
Numbered(r) ==
  \A i \in TokensIn(sent[r]) :
    sent[r][i].content = IF ShortCircuited(r) THEN 0 ELSE Ordinal(sent[r], i)

\* Keepalives neither lose nor reorder tokens: a client has received a prefix of the
\* answer, the whole of it when the turn is done, and a canned answer exactly once.
TokensInOrder ==
  \A r \in Requests :
    /\ Numbered(r)
    /\ Cardinality(TokensIn(sent[r])) <= AnswerLength(r)
    /\ pc[r] = "closed" /\ Last(sent[r]).type = "done" =>
         Cardinality(TokensIn(sent[r])) = AnswerLength(r)

\* Whichever way streams end, the count is that of the streams in flight and the event
\* is set exactly when there is none.
CountMatches ==
  /\ active = Cardinality(Streaming)
  /\ drained <=> Streaming = {}

\* When wait_drained returns True no stream that was in flight at the shutdown is left;
\* requests accepted before it may since have opened new ones.
CleanDrain == waiter = "clean" => awaited \cap Streaming = {}

\* Every stream that opens ends.
StreamsEnd == \A r \in Requests : r \in Streaming ~> r \notin Streaming

\* The tiers are tried in the order of what they cost: a question answered before the
\* retrieval has called no model but for its image, so that without one it is answered, for
\* nothing, while Bedrock is down; one whose best match is too far has called none of those
\* that write; and no answer is given without the embedding that retrieved for it.
TiersCallInOrder ==
  \A r \in Requests :
    CASE reply[r] \in Tiers \ {"low_similarity"} -> called[r] \subseteq Described(question[r])
      [] reply[r] = "low_similarity" ->
           called[r] \subseteq Described(question[r]) \cup {"embed"}
      [] reply[r] = "none" -> TRUE
      [] OTHER -> "embed" \in called[r]
=============================================================================
