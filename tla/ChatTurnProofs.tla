----------------------------- MODULE ChatTurnProofs -----------------------------
(***************************************************************************)
(* The chat turns of ChatTurn, any number of them with any questions, and  *)
(* answers and keepalives of any length: what clients are told is what is  *)
(* committed, tokens arrive in order and all of them, and streams are      *)
(* counted in and out.                                                     *)
(***************************************************************************)
EXTENDS ChatTurn, FiniteSetTheorems, TLAPS

USE RequestsAssumption, QuestionsAssumption, BoundsAssumption
USE DEF Nodes, Closing, Over, Tiers, Terminal, Rows, Drain!drainVars

PcType == {"idle", "asked"} \cup Nodes \cup Closing \cup Over

\* A stream that is closing has nothing queued, and after its COMMIT nothing pending.
QuietInv ==
  \A r \in Requests :
    /\ pc[r] \in {"committing", "committed", "failing"} => queue[r] = <<>>
    /\ pc[r] = "committed" => pending[r] = {}

\* Before its COMMIT a turn has stored nothing, and comes to it with its reply and its
\* metric; after it they are stored, unless the COMMIT failed.
RowsInv ==
  \A r \in Requests :
    /\ pc[r] \in {"idle", "asked", "ended", "committing"} \cup Nodes =>
         stored[r] = {} /\ r \notin lost
    /\ pc[r] = "log" => "reply" \in pending[r]
    /\ pc[r] \in {"ended", "committing"} => {"reply", "metric"} \subseteq pending[r]
    /\ pc[r] = "committed" => stored[r] # {} /\ r \notin lost
    /\ pc[r] = "failing" => stored[r] = {} \/ r \in lost
    /\ stored[r] # {} => {"reply", "metric"} \subseteq stored[r]

-----------------------------------------------------------------------------
(* Types *)

LEMMA Helpers ==
  /\ NoQuestion \in Question
  /\ \A q \in Question : CannedTier(q) \in Tiers \cup {"none"} /\ Mode(q) \in {"qa", "summary"}
  /\ \A q \in Question : Described(q) \in SUBSET Calls
  /\ \A i \in 0..MaxTokens : Token(i) \in ChatStreamEvent
  /\ \A type \in {"keepalive"} \cup Terminal : Event(type) \in ChatStreamEvent
BY DEF NoQuestion, Question, Persona, Topic, CannedTier, Mode, Described, Calls, Token,
       Event, ChatStreamEvent

LEMMA InitType == Init => TypeOK
<1> SUFFICES ASSUME Init PROVE TypeOK
  OBVIOUS
<1> USE DEF Init
<1>1. Drain!TypeOK
  BY DEF Drain!Init, Drain!TypeOK, Drain!Waiter
<1>2. \A r \in Requests : pending[r] = {} /\ queue[r] = <<>>
  OBVIOUS
<1>3. /\ pc \in [Requests -> {"idle", "asked"} \cup Nodes \cup Closing \cup Over]
      /\ question \in [Requests -> Question]
      /\ reply \in [Requests -> Tiers \cup {"none", "qa", "summary"}]
      /\ tokens \in [Requests -> 0..MaxTokens]
  BY Helpers
<1>4. /\ queue \in [Requests -> Seq(1..MaxTokens)]
      /\ sent \in [Requests -> Seq(ChatStreamEvent)]
  OBVIOUS
<1> QED
  BY <1>1, <1>2, <1>3, <1>4 DEF TypeOK

LEMMA SendType ==
  ASSUME NEW r \in Requests, sent \in [Requests -> Seq(ChatStreamEvent)],
         NEW e \in ChatStreamEvent, Send(r, e)
  PROVE  sent' \in [Requests -> Seq(ChatStreamEvent)]
BY DEF Send

LEMMA DrainType ==
  ASSUME Drain!TypeOK,
         \/ Drain!EnterStream \/ Drain!ExitStream \/ Drain!BeginShutdown
         \/ Drain!WaitReturns \/ Drain!GraceElapses
  PROVE  Drain!TypeOK'
<1>1. active' \in Nat
  BY DEF Drain!TypeOK, Drain!EnterStream, Drain!ExitStream, Drain!BeginShutdown,
         Drain!WaitReturns, Drain!GraceElapses
<1>2. drained' \in BOOLEAN
  BY Zenon DEF Drain!TypeOK, Drain!EnterStream, Drain!ExitStream, Drain!BeginShutdown,
               Drain!WaitReturns, Drain!GraceElapses
<1>3. waiter' \in Drain!Waiter
  BY DEF Drain!TypeOK, Drain!EnterStream, Drain!ExitStream, Drain!BeginShutdown,
         Drain!WaitReturns, Drain!GraceElapses, Drain!Wake, Drain!Waiter
<1> QED
  BY <1>1, <1>2, <1>3 DEF Drain!TypeOK

\* The calls of a turn only add up.
LEMMA CallsAdded ==
  ASSUME TypeOK, NEW r \in Requests, NEW calls \in SUBSET Calls, HasCalled(r, calls)
  PROVE  called' \in [Requests -> SUBSET Calls] /\ called'[r] = called[r] \cup calls
BY DEF TypeOK, HasCalled

LEMMA NodeType ==
  ASSUME TypeOK, NEW r \in Requests, RunNode(r)
  PROVE  TypeOK'
<1> USE Helpers DEF TypeOK, MovesTo, drainVars, turnVars, Streaming, Drain!TypeOK
<1>1. CASE Preprocess(r)
  BY <1>1, CallsAdded, Helpers DEF Preprocess
<1>2. CASE Classify(r)
  BY <1>2 DEF Classify
<1>3. CASE Embed(r)
  BY <1>3, CallsAdded DEF Embed, Calls
<1>4. CASE BelowThreshold(r)
  BY <1>4 DEF BelowThreshold
<1>5. CASE Continue(r)
  BY <1>5 DEF Continue
<1>6. CASE Condense(r)
  <2>1. pending' \in [Requests -> SUBSET Rows]
    <3>1. CASE pending' = pending
      BY <3>1
    <3>2. CASE pending' = [pending EXCEPT ![r] = @ \cup {"summary"}]
      <4>1. pending[r] \cup {"summary"} \in SUBSET Rows
        OBVIOUS
      <4> QED
        BY <3>2, <4>1
    <3> QED
      BY <1>6, <3>1, <3>2 DEF Condense
  <2>2. called' \in [Requests -> SUBSET Calls]
    BY <1>6, CallsAdded DEF Condense, Calls
  <2> QED
    BY <1>6, <2>1, <2>2 DEF Condense
<1>7. CASE Generate(r)
  <2>1. tokens[r] + 1 \in 1..MaxTokens
    BY <1>7 DEF Generate
  <2>2. Append(queue[r], tokens[r] + 1) \in Seq(1..MaxTokens)
    BY <2>1
  <2>3. tokens' \in [Requests -> 0..MaxTokens] /\ queue' \in [Requests -> Seq(1..MaxTokens)]
    BY <1>7, <2>1, <2>2 DEF Generate
  <2> QED
    BY <1>7, <2>3 DEF Generate
<1>8. CASE AppendSources(r)
  BY <1>8, CallsAdded DEF AppendSources, Calls
<1>9. CASE PersistMessage(r)
  BY <1>9 DEF PersistMessage
<1>10. CASE LogMetrics(r)
  BY <1>10 DEF LogMetrics
<1>11. CASE NodeFails(r)
  <2>1. queue' \in [Requests -> Seq(1..MaxTokens)]
    BY <1>11 DEF NodeFails
  <2> QED
    BY <1>11, <2>1 DEF NodeFails, MayFail
<1> QED
  BY <1>1, <1>2, <1>3, <1>4, <1>5, <1>6, <1>7, <1>8, <1>9, <1>10, <1>11 DEF RunNode

LEMMA StreamType ==
  ASSUME TypeOK, QuietInv, NEW r \in Requests, Relay(r) \/ Keepalive(r) \/ Close(r)
  PROVE  TypeOK'
<1> USE Helpers DEF TypeOK, MovesTo, Streaming
<1>1. CASE Relay(r)
  <2>1. Head(queue[r]) \in 1..MaxTokens /\ Tail(queue[r]) \in Seq(1..MaxTokens)
    BY <1>1 DEF Relay
  <2>2. Token(Head(queue[r])) \in ChatStreamEvent
    BY <2>1
  <2>3. /\ queue' \in [Requests -> Seq(1..MaxTokens)]
        /\ sent' \in [Requests -> Seq(ChatStreamEvent)]
    BY <1>1, <2>1, <2>2, SendType DEF Relay
  <2> QED
    BY <1>1, <2>3 DEF Relay, drainVars, Drain!TypeOK, Graph
<1>2. CASE Keepalive(r)
  <2>1. sent' \in [Requests -> Seq(ChatStreamEvent)]
    BY <1>2, SendType DEF Keepalive
  <2> QED
    BY <1>2, <2>1 DEF Keepalive, drainVars, Drain!TypeOK
<1>3. CASE Finish(r)
  <2>1. sent' \in [Requests -> Seq(ChatStreamEvent)]
    <3>1. Token(0) \in ChatStreamEvent
      OBVIOUS
    <3> QED
      BY <1>3, <3>1, SendType DEF Finish
  <2> QED
    BY <1>3, <2>1 DEF Finish, drainVars, Drain!TypeOK
<1>4. CASE Commit(r)
  BY <1>4 DEF Commit, drainVars, Drain!TypeOK
<1>5. CASE CommitFails(r)
  <2>1. stored' \in [Requests -> SUBSET Rows] /\ lost' \subseteq Requests
    BY <1>5 DEF CommitFails
  <2> QED
    BY <1>5, <2>1 DEF CommitFails, drainVars, Drain!TypeOK
<1>6. CASE SendDone(r) \/ SendError(r)
  <2>1. sent' \in [Requests -> Seq(ChatStreamEvent)]
    BY <1>6, SendType DEF SendDone, SendError
  <2>2. Drain!TypeOK'
    BY <1>6, DrainType DEF SendDone, SendError
  <2>3. pc[r] \in {"committed", "failing"} /\ UNCHANGED queue
    BY <1>6 DEF SendDone, SendError
  <2>4. queue[r] = <<>> /\ pending'[r] = {}
    BY <1>6 DEF SendDone, SendError, QuietInv
  <2> QED
    BY <1>6, <2>1, <2>2, <2>3, <2>4 DEF SendDone, SendError
<1>7. CASE RollbackFails(r)
  <2>1. Drain!TypeOK'
    BY <1>7, DrainType DEF RollbackFails
  <2>2. queue[r] = <<>>
    BY <1>7 DEF RollbackFails, QuietInv
  <2> QED
    BY <1>7, <2>1, <2>2 DEF RollbackFails
<1> QED
  BY <1>1, <1>2, <1>3, <1>4, <1>5, <1>6, <1>7 DEF Close

LEMMA ForgetType ==
  ASSUME TypeOK, NEW R \in SUBSET Requests, Forget(R)
  PROVE  /\ question' \in [Requests -> Question]
         /\ reply' \in [Requests -> Tiers \cup {"none", "qa", "summary"}]
         /\ called' \in [Requests -> SUBSET Calls]
         /\ tokens' \in [Requests -> 0..MaxTokens]
         /\ queue' \in [Requests -> Seq(1..MaxTokens)]
         /\ sent' \in [Requests -> Seq(ChatStreamEvent)]
         /\ pending' \in [Requests -> SUBSET Rows]
         /\ \A r \in Requests : r \in R => queue'[r] = <<>> /\ pending'[r] = {}
         /\ \A r \in Requests : r \notin R => queue'[r] = queue[r] /\ pending'[r] = pending[r]
<1> USE DEF Forget, TypeOK
<1>1. question' \in [Requests -> Question] /\ called' \in [Requests -> SUBSET Calls]
  BY Helpers
<1>2. reply' \in [Requests -> Tiers \cup {"none", "qa", "summary"}]
  OBVIOUS
<1>3. tokens' \in [Requests -> 0..MaxTokens] /\ pending' \in [Requests -> SUBSET Rows]
  OBVIOUS
<1>4. queue' \in [Requests -> Seq(1..MaxTokens)]
  <2> DEFINE Queues == Seq(1..MaxTokens)
  <2>1. <<>> \in Queues /\ queue \in [Requests -> Queues]
    OBVIOUS
  <2> HIDE DEF Queues
  <2>2. queue' \in [Requests -> Queues]
    BY <2>1
  <2> QED
    BY <2>2 DEF Queues
<1>5. sent' \in [Requests -> Seq(ChatStreamEvent)]
  OBVIOUS
<1> QED
  BY <1>1, <1>2, <1>3, <1>4, <1>5

LEMMA LeaveQuiet ==
  ASSUME TypeOK, NEW r \in Requests, pc' = [pc EXCEPT ![r] = "gone"], Forget({r})
  PROVE  \A q \in Requests \ Streaming' : pending'[q] = {} /\ queue'[q] = <<>>
<1> SUFFICES ASSUME NEW q \in Requests, q \notin Streaming'
             PROVE  pending'[q] = {} /\ queue'[q] = <<>>
  OBVIOUS
<1>1. CASE q = r
  BY <1>1, ForgetType
<1>2. CASE q # r
  <2>1. pc'[q] = pc[q] /\ queue'[q] = queue[q] /\ pending'[q] = pending[q]
    BY <1>2 DEF Forget, TypeOK
  <2> QED
    BY <2>1 DEF Streaming, TypeOK
<1> QED
  BY <1>1, <1>2

LEMMA RequestType ==
  ASSUME TypeOK, NEW r \in Requests,
         Ask(r) \/ Reject(r) \/ OpenStream(r) \/ Disconnect(r) \/ LeaveEarly(r)
  PROVE  TypeOK'
<1> USE DEF TypeOK, Streaming, MovesTo
<1>1. CASE Ask(r)
  <2>1. question' \in [Requests -> Question]
    BY <1>1 DEF Ask
  <2> QED
    BY <1>1, <2>1 DEF Ask, drainVars, Drain!TypeOK
<1>2. CASE Reject(r)
  BY <1>2 DEF Reject, turnVars, drainVars, Drain!TypeOK
<1>3. CASE OpenStream(r)
  <2>1. Drain!TypeOK'
    BY <1>3, DrainType DEF OpenStream
  <2> QED
    BY <1>3, <2>1 DEF OpenStream, turnVars
<1>4. CASE Disconnect(r)
  <2>1. Drain!TypeOK'
    BY <1>4, DrainType DEF Disconnect
  <2>2. stored' \in [Requests -> SUBSET Rows]
    BY <1>4 DEF Disconnect
  <2>3. pc' = [pc EXCEPT ![r] = "gone"] /\ Forget({r}) /\ UNCHANGED <<lost, awaited>>
    BY <1>4 DEF Disconnect
  <2>4. \A q \in Requests \ Streaming' : pending'[q] = {} /\ queue'[q] = <<>>
    BY <2>3, LeaveQuiet
  <2> QED
    BY <2>1, <2>2, <2>3, <2>4, ForgetType
<1>5. CASE LeaveEarly(r)
  <2>1. Drain!TypeOK' /\ stored' \in [Requests -> SUBSET Rows]
    BY <1>5 DEF LeaveEarly, drainVars, Drain!TypeOK
  <2>2. pc' = [pc EXCEPT ![r] = "gone"] /\ Forget({r}) /\ UNCHANGED <<lost, awaited>>
    BY <1>5 DEF LeaveEarly
  <2>3. \A q \in Requests \ Streaming' : pending'[q] = {} /\ queue'[q] = <<>>
    BY <2>2, LeaveQuiet
  <2> QED
    BY <2>1, <2>2, <2>3, ForgetType
<1> QED
  BY <1>1, <1>2, <1>3, <1>4, <1>5

LEMMA ShutdownType ==
  ASSUME TypeOK, BeginShutdown \/ WaitReturns \/ GraceElapses \/ Exit
  PROVE  TypeOK'
<1>1. CASE BeginShutdown \/ WaitReturns \/ GraceElapses
  <2>1. Drain!TypeOK'
    BY <1>1, DrainType DEF BeginShutdown, WaitReturns, GraceElapses, TypeOK
  <2>2. UNCHANGED <<pc, turnVars>> /\ awaited' \subseteq Requests
    BY <1>1 DEF BeginShutdown, WaitReturns, GraceElapses, TypeOK, Streaming
  <2> QED
    BY <2>1, <2>2 DEF TypeOK, turnVars, Streaming
<1>2. CASE Exit
  <2>1. Drain!TypeOK'
    BY <1>2 DEF Exit, TypeOK, Drain!TypeOK
  <2>2. stored' \in [Requests -> SUBSET Rows]
    BY <1>2 DEF Exit, TypeOK, Running
  <2>3. pc' \in [Requests -> PcType] /\ Running \in SUBSET Requests
    BY <1>2 DEF Exit, TypeOK, Running, PcType
  <2>4. \A r \in Requests : r \in Running => queue'[r] = <<>> /\ pending'[r] = {}
    BY <1>2, <2>3, ForgetType DEF Exit
  <2>5. \A r \in Requests \ Running : queue'[r] = <<>> /\ pending'[r] = {}
    BY <1>2, <2>3, ForgetType DEF Exit, TypeOK, Running, Streaming
  <2> QED
    BY <1>2, <2>1, <2>2, <2>3, <2>4, <2>5, ForgetType DEF Exit, TypeOK, PcType
<1> QED
  BY <1>1, <1>2

-----------------------------------------------------------------------------
(* What is stored when *)

LEMMA RowsKept ==
  ASSUME TypeOK, QuietInv, RowsInv, [Next]_vars
  PROVE  QuietInv' /\ RowsInv'
<1> USE DEF TypeOK, QuietInv, RowsInv, MovesTo
<1>1. ASSUME NEW r \in Requests, Ask(r) \/ Reject(r) \/ OpenStream(r)
      PROVE  QuietInv' /\ RowsInv'
  <2>1. CASE Ask(r)
    BY <2>1 DEF Ask
  <2>2. CASE Reject(r)
    BY <2>2 DEF Reject, turnVars
  <2>3. CASE OpenStream(r)
    BY <2>3 DEF OpenStream, turnVars
  <2> QED
    BY <1>1, <2>1, <2>2, <2>3
<1>2. ASSUME NEW r \in Requests, RunNode(r)
      PROVE  QuietInv' /\ RowsInv'
  <2>1. CASE Preprocess(r) \/ Embed(r) \/ BelowThreshold(r) \/ Continue(r)
    BY <2>1 DEF Preprocess, Embed, BelowThreshold, Continue, turnVars
  <2>6. CASE Classify(r)
    BY <2>6 DEF Classify
  <2>2. CASE Condense(r)
    BY <2>2 DEF Condense
  <2>3. CASE Generate(r) \/ AppendSources(r)
    BY <2>3 DEF Generate, AppendSources, turnVars
  <2>4. CASE PersistMessage(r) \/ LogMetrics(r)
    BY <2>4 DEF PersistMessage, LogMetrics
  <2>5. CASE NodeFails(r)
    BY <2>5 DEF NodeFails, MayFail
  <2> QED
    BY <1>2, <2>1, <2>2, <2>3, <2>4, <2>5, <2>6 DEF RunNode
<1>3. ASSUME NEW r \in Requests, Relay(r) \/ Keepalive(r)
      PROVE  QuietInv' /\ RowsInv'
  BY <1>3 DEF Relay, Keepalive, Graph
<1>4. ASSUME NEW r \in Requests, Close(r)
      PROVE  QuietInv' /\ RowsInv'
  <2>1. CASE Finish(r)
    BY <2>1 DEF Finish
  <2>2. CASE Commit(r)
    BY <2>2 DEF Commit
  <2>3. CASE CommitFails(r)
    BY <2>3 DEF CommitFails
  <2>4. CASE SendDone(r)
    BY <2>4 DEF SendDone
  <2>5. CASE SendError(r)
    BY <2>5 DEF SendError
  <2>6. CASE RollbackFails(r)
    BY <2>6 DEF RollbackFails
  <2> QED
    BY <1>4, <2>1, <2>2, <2>3, <2>4, <2>5, <2>6 DEF Close
<1>5. ASSUME NEW r \in Requests, Disconnect(r) \/ LeaveEarly(r)
      PROVE  QuietInv' /\ RowsInv'
  <2>1. /\ pc' = [pc EXCEPT ![r] = "gone"]
        /\ \A q \in Requests \ {r} : queue'[q] = queue[q] /\ pending'[q] = pending[q]
        /\ UNCHANGED lost
        /\ \/ UNCHANGED stored
           \/ pc[r] = "committing" /\ stored' = [stored EXCEPT ![r] = pending[r]]
    BY <1>5 DEF Disconnect, LeaveEarly, Forget
  <2> QED
    BY <2>1
<1>6. CASE BeginShutdown \/ WaitReturns \/ GraceElapses
  BY <1>6 DEF BeginShutdown, WaitReturns, GraceElapses, turnVars
<1>7. CASE Exit
  BY <1>7 DEF Exit, Forget, Running
<1>8. CASE UNCHANGED vars
  BY <1>8 DEF vars, turnVars
<1> QED
  BY <1>1, <1>2, <1>3, <1>4, <1>5, <1>6, <1>7, <1>8 DEF Next

\* Types, and what is stored when: together they are inductive.
IInv == TypeOK /\ QuietInv /\ RowsInv

LEMMA InitIInv == Init => IInv
<1> SUFFICES ASSUME Init PROVE IInv
  OBVIOUS
<1>1. TypeOK
  BY InitType
<1>2. QuietInv /\ RowsInv
  BY DEF Init, QuietInv, RowsInv
<1> QED
  BY <1>1, <1>2 DEF IInv

LEMMA NextIInv == IInv /\ [Next]_vars => IInv'
<1> SUFFICES ASSUME IInv, [Next]_vars PROVE IInv'
  OBVIOUS
<1> USE DEF IInv
<1>1. TypeOK'
  <2>1. CASE UNCHANGED vars
    BY <2>1 DEF vars, turnVars, drainVars, TypeOK, Streaming, Drain!TypeOK
  <2> QED
    BY <2>1, NodeType, StreamType, RequestType, ShutdownType DEF Next
<1> QED
  BY <1>1, RowsKept

LEMMA SpecIInv == Spec => []IInv
BY InitIInv, NextIInv, PTL DEF Spec

\* Every variable has its type, and only a stream in flight has a transaction open or
\* tokens queued.
THEOREM TypeCorrect == Spec => []TypeOK
<1>1. IInv => TypeOK
  BY DEF IInv
<1> QED
  BY <1>1, SpecIInv, PTL

-----------------------------------------------------------------------------
(* What clients are told *)

Silent(s) == \A i \in 1..Len(s) : s[i].type \notin Terminal
EndsWith(s, type) ==
  /\ Len(s) > 0
  /\ s[Len(s)].type = type
  /\ \A i \in 1..(Len(s) - 1) : s[i].type \notin Terminal

\* Only a stream that is closed has sent a terminal event, as its last.
SentInv ==
  \A r \in Requests :
    IF pc[r] = "closed" THEN \E type \in Terminal : EndsWith(sent[r], type)
                        ELSE Silent(sent[r])

LEMMA AppendEvent ==
  ASSUME NEW s \in Seq(ChatStreamEvent), NEW e \in ChatStreamEvent, Silent(s)
  PROVE  /\ e.type \notin Terminal => Silent(Append(s, e))
         /\ e.type \in Terminal => EndsWith(Append(s, e), e.type)
BY DEF Silent, EndsWith

LEMMA EventTypes ==
  /\ \A i \in 0..MaxTokens : Token(i) \in ChatStreamEvent /\ Token(i).type = "token"
  /\ \A type \in {"keepalive"} \cup Terminal :
       Event(type) \in ChatStreamEvent /\ Event(type).type = type
BY DEF Token, Event, ChatStreamEvent

\* A stream in flight sends one more event that is not terminal.
LEMMA SendsMore ==
  ASSUME TypeOK, SentInv, NEW r \in Requests, pc[r] # "closed",
         NEW e \in ChatStreamEvent, e.type \notin Terminal,
         Send(r, e), pc' \in [Requests -> PcType], pc'[r] # "closed",
         \A q \in Requests \ {r} : pc'[q] = pc[q]
  PROVE  SentInv'
<1>1. Silent(sent'[r]) /\ \A q \in Requests \ {r} : sent'[q] = sent[q]
  BY AppendEvent DEF Send, SentInv, TypeOK
<1> QED
  BY <1>1 DEF SentInv

LEMMA SendsLast ==
  ASSUME TypeOK, SentInv, NEW r \in Requests, pc[r] # "closed", NEW type \in Terminal,
         Send(r, Event(type)), pc' = [pc EXCEPT ![r] = "closed"]
  PROVE  SentInv' /\ EndsWith(sent'[r], type)
<1>1. EndsWith(sent'[r], type) /\ \A q \in Requests \ {r} : sent'[q] = sent[q]
  BY AppendEvent, EventTypes DEF Send, SentInv, TypeOK
<1> QED
  BY <1>1 DEF SentInv, TypeOK

\* Whatever else happens to streams, they send nothing, or what they sent is forgotten.
LEMMA SendsNothing ==
  ASSUME TypeOK, SentInv,
         \A r \in Requests : /\ pc'[r] = "closed" <=> pc[r] = "closed"
                             /\ \/ sent'[r] = sent[r]
                                \/ pc[r] # "closed" /\ sent'[r] = <<>>
  PROVE  SentInv'
<1>1. Silent(<<>>)
  BY DEF Silent
<1> QED
  BY <1>1 DEF SentInv

LEMMA SentKept ==
  ASSUME IInv, SentInv, [Next]_vars
  PROVE  SentInv'
<1> USE DEF IInv
<1>1. ASSUME NEW r \in Requests, Ask(r) \/ Reject(r) \/ OpenStream(r) \/ RunNode(r)
      PROVE  SentInv'
  <2>1. UNCHANGED sent /\ \A q \in Requests : pc'[q] = "closed" <=> pc[q] = "closed"
    BY <1>1 DEF Ask, Reject, OpenStream, RunNode, Preprocess, Classify, Embed,
                BelowThreshold, Continue, Condense, Generate, AppendSources,
                PersistMessage, LogMetrics, NodeFails, MayFail, MovesTo, TypeOK, turnVars
  <2> QED
    BY <2>1, SendsNothing
<1>2. ASSUME NEW r \in Requests, Relay(r) PROVE SentInv'
  <2>1. Head(queue[r]) \in 1..MaxTokens /\ pc[r] # "closed" /\ UNCHANGED pc
    BY <1>2 DEF Relay, Graph, TypeOK
  <2>2. /\ Token(Head(queue[r])) \in ChatStreamEvent
        /\ Token(Head(queue[r])).type \notin Terminal
    BY <2>1, EventTypes
  <2>3. Send(r, Token(Head(queue[r]))) /\ pc' \in [Requests -> PcType]
    BY <1>2, <2>1 DEF Relay, TypeOK, PcType
  <2> QED
    BY <2>1, <2>2, <2>3, SendsMore
<1>3. ASSUME NEW r \in Requests, Keepalive(r) PROVE SentInv'
  <2>1. Event("keepalive") \in ChatStreamEvent /\ Event("keepalive").type \notin Terminal
    BY EventTypes
  <2>2. Send(r, Event("keepalive")) /\ pc[r] # "closed" /\ UNCHANGED pc
    BY <1>3 DEF Keepalive, Graph
  <2>3. pc' \in [Requests -> PcType]
    BY <2>2 DEF TypeOK, PcType
  <2> QED
    BY <2>1, <2>2, <2>3, SendsMore
<1>4. ASSUME NEW r \in Requests, Close(r) PROVE SentInv'
  <2>1. CASE Finish(r) /\ ShortCircuited(r)
    <3>1. Token(0) \in ChatStreamEvent /\ Token(0).type = "token"
      BY EventTypes
    <3>2. pc[r] = "ended" /\ pc' = [pc EXCEPT ![r] = "committing"] /\ Send(r, Token(0))
      BY <2>1 DEF Finish, MovesTo
    <3> QED
      BY <3>1, <3>2, SendsMore DEF TypeOK, PcType
  <2>2. CASE (Finish(r) /\ ~ShortCircuited(r)) \/ Commit(r) \/ CommitFails(r) \/ RollbackFails(r)
    <3>1. UNCHANGED sent /\ \A q \in Requests : pc'[q] = "closed" <=> pc[q] = "closed"
      BY <2>2 DEF Finish, Commit, CommitFails, RollbackFails, MovesTo, TypeOK
    <3> QED
      BY <3>1, SendsNothing
  <2>3. CASE SendDone(r)
    BY <2>3, SendsLast DEF SendDone, MovesTo
  <2>4. CASE SendError(r)
    BY <2>4, SendsLast DEF SendError, MovesTo
  <2> QED
    BY <1>4, <2>1, <2>2, <2>3, <2>4 DEF Close
<1>5. ASSUME NEW r \in Requests, Disconnect(r) \/ LeaveEarly(r) PROVE SentInv'
  <2>1. /\ pc[r] # "closed"
        /\ \A q \in Requests : pc'[q] = "closed" <=> pc[q] = "closed"
        /\ \A q \in Requests : sent'[q] = IF q \in {r} THEN <<>> ELSE sent[q]
    BY <1>5 DEF Disconnect, LeaveEarly, Forget, MovesTo, TypeOK, Streaming
  <2> QED
    BY <2>1, SendsNothing
<1>6. CASE BeginShutdown \/ WaitReturns \/ GraceElapses \/ UNCHANGED vars
  <2>1. UNCHANGED <<pc, sent>>
    BY <1>6 DEF BeginShutdown, WaitReturns, GraceElapses, vars, turnVars
  <2> QED
    BY <2>1, SendsNothing
<1>7. CASE Exit
  <2>1. /\ \A q \in Requests : pc'[q] = "closed" <=> pc[q] = "closed"
        /\ \A q \in Requests : sent'[q] = IF q \in Running THEN <<>> ELSE sent[q]
        /\ \A q \in Running : q \in Requests /\ pc[q] # "closed"
    BY <1>7 DEF Exit, Forget, Running, TypeOK
  <2> QED
    BY <2>1, SendsNothing
<1> QED
  BY <1>1, <1>2, <1>3, <1>4, <1>5, <1>6, <1>7 DEF Next

LEMMA SpecSent == Spec => [](IInv /\ SentInv)
<1>1. Init => SentInv
  BY DEF Init, SentInv, Silent
<1> QED
  BY <1>1, InitIInv, NextIInv, SentKept, PTL DEF Spec

\* A stream sends nothing after a terminal event, and has sent one exactly when its
\* generator ended by itself.
THEOREM TerminalOnce == Spec => []OneTerminal
<1>1. IInv /\ SentInv => OneTerminal
  <2> SUFFICES ASSUME IInv, SentInv, NEW r \in Requests
               PROVE  /\ \A i \in 1..Len(sent[r]) :
                           sent[r][i].type \in Terminal => i = Len(sent[r])
                      /\ pc[r] = "closed" <=>
                           \E i \in 1..Len(sent[r]) : sent[r][i].type \in Terminal
    BY DEF OneTerminal
  <2>1. Len(sent[r]) \in Nat
    BY DEF IInv, TypeOK
  <2>2. CASE pc[r] = "closed"
    BY <2>1, <2>2 DEF SentInv, EndsWith
  <2>3. CASE pc[r] # "closed"
    BY <2>3 DEF SentInv, Silent
  <2> QED
    BY <2>2, <2>3
<1> QED
  BY <1>1, SpecSent, PTL
-----------------------------------------------------------------------------
(* The turn as Conversation has it *)

Told == [r \in Requests |-> IF pc[r] = "closed" THEN Last(sent[r]).type ELSE "nothing"]
OverNow == {r \in Requests : pc[r] \in Over}

LEMMA ConvVars == Conv!vars = <<stored, Told, lost, OverNow>>
BY DEF Conv!vars, Told, OverNow

\* A step that stores nothing, tells nothing and ends nothing.
LEMMA ConvStutters ==
  ASSUME IInv, UNCHANGED <<stored, lost>>,
         \A r \in Requests : /\ pc'[r] \in Over <=> pc[r] \in Over
                             /\ pc'[r] = "closed" <=> pc[r] = "closed"
                             /\ pc[r] = "closed" => sent'[r] = sent[r]
  PROVE  UNCHANGED Conv!vars
<1>1. Told' = Told /\ OverNow' = OverNow
  BY DEF Told, OverNow, Last
<1> QED
  BY <1>1, ConvVars DEF Told, OverNow, Conv!vars

LEMMA TurnRows ==
  ASSUME TypeOK, NEW r \in Requests, {"reply", "metric"} \subseteq pending[r]
  PROVE  pending[r] \in Conv!TurnRows
BY DEF TypeOK, Conv!TurnRows, Conv!Answered

LEMMA CommitStores ==
  ASSUME IInv, NEW r \in Requests, Commit(r) \/ (CommitFails(r) /\ stored' # stored)
  PROVE  Conv!Store(r)
<1> USE DEF IInv
<1>1. /\ pc[r] = "committing" /\ stored[r] = {}
      /\ stored' = [stored EXCEPT ![r] = pending[r]]
      /\ lost' \in {lost, lost \cup {r}}
      /\ UNCHANGED sent
      /\ \A q \in Requests : /\ pc'[q] \in Over <=> pc[q] \in Over
                             /\ pc'[q] = "closed" <=> pc[q] = "closed"
  BY DEF Commit, CommitFails, RowsInv, MovesTo, TypeOK
<1>2. pending[r] \in Conv!TurnRows
  BY <1>1, TurnRows DEF RowsInv
<1>3. Told' = Told /\ OverNow' = OverNow
  BY <1>1 DEF Told, OverNow, Last
<1> QED
  BY <1>1, <1>2, <1>3 DEF Conv!Store, Told, OverNow

\* The last event of the stream tells how the turn ended.
LEMMA EventTells ==
  ASSUME IInv, SentInv, NEW r \in Requests, pc[r] # "closed", NEW type \in Terminal,
         Send(r, Event(type)), pc' = [pc EXCEPT ![r] = "closed"]
  PROVE  Told' = [Told EXCEPT ![r] = type] /\ OverNow' = OverNow \cup {r}
<1>1. EndsWith(sent'[r], type)
  BY SendsLast DEF IInv
<1>2. Last(sent'[r]).type = type
  BY <1>1 DEF EndsWith, Last
<1>3. \A q \in Requests \ {r} : sent'[q] = sent[q] /\ pc'[q] = pc[q]
  BY DEF Send, IInv, TypeOK
<1>4. pc'[r] = "closed"
  BY DEF IInv, TypeOK
<1> QED
  BY <1>2, <1>3, <1>4 DEF Told, OverNow, Last

LEMMA SendTells ==
  ASSUME IInv, SentInv, NEW r \in Requests
  PROVE  /\ SendDone(r) => Conv!TellDone(r)
         /\ SendError(r) => Conv!TellError(r)
<1> USE DEF MovesTo, IInv
<1>1. ASSUME SendDone(r) PROVE Conv!TellDone(r)
  <2>1. Told' = [Told EXCEPT ![r] = "done"] /\ OverNow' = OverNow \cup {r}
    BY <1>1, EventTells DEF SendDone
  <2>2. r \notin OverNow /\ stored[r] # {} /\ r \notin lost
    BY <1>1 DEF SendDone, OverNow, RowsInv
  <2> QED
    BY <1>1, <2>1, <2>2 DEF SendDone, Conv!TellDone, Told, OverNow
<1>2. ASSUME SendError(r) PROVE Conv!TellError(r)
  <2>1. Told' = [Told EXCEPT ![r] = "error"] /\ OverNow' = OverNow \cup {r}
    BY <1>2, EventTells DEF SendError
  <2>2. r \notin OverNow /\ (stored[r] = {} \/ r \in lost)
    BY <1>2 DEF SendError, OverNow, RowsInv
  <2> QED
    BY <1>2, <2>1, <2>2 DEF SendError, Conv!TellError, Told, OverNow
<1> QED
  BY <1>1, <1>2

\* A request ends untold: refused, abandoned by its client or killed with the process.
LEMMA AbandonsTurns ==
  ASSUME IInv, NEW R \in SUBSET Requests,
         \A r \in R : pc[r] \notin Over /\ pc'[r] \in Over \ {"closed"},
         \A r \in Requests \ R : pc'[r] = pc[r] /\ sent'[r] = sent[r],
         stored' \in [Requests -> SUBSET Rows], UNCHANGED lost,
         \A r \in Requests : \/ stored'[r] = stored[r]
                             \/ r \in R /\ pc[r] = "committing" /\ stored'[r] = pending[r]
  PROVE  Conv!Abandon(R)
<1> USE DEF IInv
<1>1. OverNow' = OverNow \cup R /\ R \cap OverNow = {}
  BY DEF OverNow
<1>2. \A r \in Requests : r \in R => pc[r] # "closed" /\ pc'[r] # "closed"
  OBVIOUS
<1>3. Told' = Told
  BY <1>2 DEF Told, Last
<1>4. \A r \in Requests : stored[r] \in {{}} \cup Conv!TurnRows
  BY DEF RowsInv, TypeOK, Conv!TurnRows, Conv!Answered
<1>5. \A r \in Requests : pc[r] = "committing" =>
        stored[r] = {} /\ pending[r] \in Conv!TurnRows
  BY TurnRows DEF RowsInv
<1>6. stored' \in [Requests -> {{}} \cup Conv!TurnRows]
  BY <1>4, <1>5
<1>7. \A r \in Requests : stored'[r] = stored[r] \/ (r \in R /\ stored[r] = {})
  BY <1>5
<1> QED
  BY <1>1, <1>3, <1>6, <1>7 DEF Conv!Abandon, Told, OverNow

LEMMA NextConv ==
  ASSUME IInv, SentInv, [Next]_vars
  PROVE  [Conv!Next]_(Conv!vars)
<1> USE DEF IInv, MovesTo
<1>1. ASSUME NEW r \in Requests,
             Ask(r) \/ OpenStream(r) \/ RunNode(r) \/ Finish(r)
      PROVE  UNCHANGED Conv!vars
  <2>1. /\ UNCHANGED <<stored, lost>>
        /\ \A q \in Requests : /\ pc'[q] \in Over <=> pc[q] \in Over
                               /\ pc'[q] = "closed" <=> pc[q] = "closed"
    BY <1>1 DEF Ask, OpenStream, RunNode, Preprocess, Classify, Embed, BelowThreshold,
                Continue, Condense, Generate, AppendSources, PersistMessage, LogMetrics,
                NodeFails, MayFail, Finish, TypeOK, turnVars
  <2>2. UNCHANGED sent \/ (pc[r] = "ended" /\ Send(r, Token(0)))
    BY <1>1 DEF Ask, OpenStream, RunNode, Preprocess, Classify, Embed, BelowThreshold,
                Continue, Condense, Generate, AppendSources, PersistMessage, LogMetrics,
                NodeFails, Finish, turnVars
  <2>3. \A q \in Requests : pc[q] = "closed" => sent'[q] = sent[q]
    BY <2>2 DEF Send, TypeOK
  <2> QED
    BY <2>1, <2>3, ConvStutters
<1>2. ASSUME NEW r \in Requests, Relay(r) \/ Keepalive(r) PROVE UNCHANGED Conv!vars
  <2>1. UNCHANGED <<stored, lost, pc>> /\ pc[r] # "closed"
    BY <1>2 DEF Relay, Keepalive, Graph
  <2>2. \A q \in Requests : pc[q] = "closed" => sent'[q] = sent[q]
    BY <1>2, <2>1 DEF Relay, Keepalive, Send, TypeOK
  <2> QED
    BY <2>1, <2>2, ConvStutters
<1>3. ASSUME NEW r \in Requests, Commit(r) \/ CommitFails(r)
      PROVE  Conv!Store(r) \/ UNCHANGED Conv!vars
  <2>1. CASE Commit(r) \/ stored' # stored
    BY <1>3, <2>1, CommitStores
  <2>2. CASE CommitFails(r) /\ stored' = stored
    <3>1. pc[r] = "committing" /\ UNCHANGED sent
      BY <2>2 DEF CommitFails
    <3>2. CASE lost' = lost
      <4>1. \A q \in Requests : /\ pc'[q] \in Over <=> pc[q] \in Over
                                /\ pc'[q] = "closed" <=> pc[q] = "closed"
        BY <2>2 DEF CommitFails, TypeOK
      <4> QED
        BY <2>2, <3>1, <3>2, <4>1, ConvStutters
    <3>3. CASE lost' # lost
      <4>1. stored' = [stored EXCEPT ![r] = pending[r]]
        BY <2>2, <3>3 DEF CommitFails
      <4>2. stored[r] = {} /\ pending[r] # {}
        BY <3>1 DEF RowsInv
      <4> QED
        BY <2>2, <4>1, <4>2 DEF TypeOK
    <3> QED
      BY <3>2, <3>3
  <2> QED
    BY <1>3, <2>1, <2>2
<1>4. ASSUME NEW r \in Requests,
             Reject(r) \/ RollbackFails(r) \/ Disconnect(r) \/ LeaveEarly(r)
      PROVE  Conv!Abandon({r})
  <2>1. /\ pc[r] \notin Over /\ pc'[r] \in Over \ {"closed"}
        /\ \A q \in Requests \ {r} : pc'[q] = pc[q]
        /\ UNCHANGED lost
    BY <1>4 DEF Reject, RollbackFails, Disconnect, LeaveEarly, TypeOK, Streaming, turnVars
  <2>2. \A q \in Requests \ {r} : sent'[q] = sent[q]
    BY <1>4 DEF Reject, RollbackFails, Disconnect, LeaveEarly, Forget, turnVars
  <2>3. \/ UNCHANGED stored
        \/ pc[r] = "committing" /\ stored' = [stored EXCEPT ![r] = pending[r]]
    BY <1>4 DEF Reject, RollbackFails, Disconnect, LeaveEarly, turnVars
  <2>4. /\ stored' \in [Requests -> SUBSET Rows]
        /\ \A q \in Requests :
             \/ stored'[q] = stored[q]
             \/ q \in {r} /\ pc[q] = "committing" /\ stored'[q] = pending[q]
    <3>1. CASE UNCHANGED stored
      BY <3>1 DEF TypeOK
    <3>2. CASE pc[r] = "committing" /\ stored' = [stored EXCEPT ![r] = pending[r]]
      BY <3>2 DEF TypeOK
    <3> QED
      BY <2>3, <3>1, <3>2
  <2>5. {r} \in SUBSET Requests
    OBVIOUS
  <2> QED
    BY <2>1, <2>2, <2>4, <2>5, AbandonsTurns
<1>5. ASSUME Exit PROVE \E R \in SUBSET Requests : Conv!Abandon(R)
  <2>1. PICK R \in SUBSET Requests : R = Running
    BY DEF Running
  <2>2. /\ \A r \in R : pc[r] \notin Over /\ pc'[r] \in Over \ {"closed"}
        /\ \A r \in Requests \ R : pc'[r] = pc[r] /\ sent'[r] = sent[r]
        /\ UNCHANGED lost
    BY <1>5, <2>1 DEF Exit, Forget, Running
  <2>3. /\ stored' \in [Requests -> SUBSET Rows]
        /\ \A r \in Requests :
             \/ stored'[r] = stored[r]
             \/ r \in R /\ pc[r] = "committing" /\ stored'[r] = pending[r]
    BY <1>5, <2>1 DEF Exit, TypeOK
  <2> QED
    BY <2>2, <2>3, AbandonsTurns
<1>6. CASE BeginShutdown \/ WaitReturns \/ GraceElapses \/ UNCHANGED vars
  <2>1. UNCHANGED <<pc, sent, stored, lost>>
    BY <1>6 DEF BeginShutdown, WaitReturns, GraceElapses, vars, turnVars
  <2> QED
    BY <2>1, ConvStutters
<1> QED
  <2>1. ASSUME NEW r \in Requests, SendDone(r) \/ SendError(r)
        PROVE  Conv!TellDone(r) \/ Conv!TellError(r)
    BY <2>1, SendTells
  <2>2. ASSUME NEW r \in Requests, Close(r)
        PROVE  \/ Conv!Store(r) \/ Conv!TellDone(r) \/ Conv!TellError(r)
               \/ Conv!Abandon({r}) \/ UNCHANGED Conv!vars
    BY <1>1, <1>3, <1>4, <2>1, <2>2 DEF Close
  <2>3. \A r \in Requests : {r} \in SUBSET Requests
    OBVIOUS
  <2>4. CASE \E r \in Requests :
               \/ Ask(r) \/ Reject(r) \/ OpenStream(r)
               \/ RunNode(r) \/ Relay(r) \/ Keepalive(r) \/ Close(r)
               \/ Disconnect(r) \/ LeaveEarly(r)
    <3>1. PICK r \in Requests :
               \/ Ask(r) \/ Reject(r) \/ OpenStream(r)
               \/ RunNode(r) \/ Relay(r) \/ Keepalive(r) \/ Close(r)
               \/ Disconnect(r) \/ LeaveEarly(r)
      BY <2>4
    <3>2. \/ Conv!Store(r) \/ Conv!TellDone(r) \/ Conv!TellError(r)
          \/ Conv!Abandon({r}) \/ UNCHANGED Conv!vars
      BY <1>1, <1>2, <1>4, <2>2, <3>1
    <3> QED
      BY <2>3, <3>2 DEF Conv!Next
  <2>5. CASE BeginShutdown \/ WaitReturns \/ GraceElapses \/ Exit \/ UNCHANGED vars
    BY <1>5, <1>6, <2>5 DEF Conv!Next
  <2> QED
    BY <2>4, <2>5 DEF Next

\* However a turn ends, its rows are stored in one step or not at all, before its client
\* hears of them, and the client hears "done" only of a turn whose COMMIT answered,
\* "error" only of one that stored nothing it knows of.
THEOREM Implements == Spec => ImplementsConversation
<1>1. Init => Conv!Init
  <2> SUFFICES ASSUME Init PROVE Conv!Init
    OBVIOUS
  <2>1. Told = [r \in Requests |-> "nothing"] /\ OverNow = {}
    BY DEF Init, Told, OverNow
  <2> QED
    BY <2>1 DEF Init, Conv!Init, Told, OverNow
<1>2. IInv /\ SentInv /\ [Next]_vars => [Conv!Next]_(Conv!vars)
  BY NextConv
<1> QED
  BY <1>1, <1>2, SpecSent, PTL DEF Spec, ImplementsConversation, Conv!Spec
-----------------------------------------------------------------------------
(* Calls to Bedrock *)

\* What has been called by the time a question reaches a node, and what is its answer.
Calling(r) ==
  /\ pc[r] \in {"idle", "asked", "preprocess"} => reply[r] = "none" /\ called[r] = {}
  /\ pc[r] \in {"classify", "embed"} =>
       reply[r] = "none" /\ called[r] \subseteq Described(question[r])
  /\ pc[r] \in {"search", "condense"} =>
       /\ reply[r] = "none" /\ "embed" \in called[r]
       /\ called[r] \subseteq Described(question[r]) \cup {"embed"}
  /\ pc[r] = "generate" => reply[r] \in {"qa", "summary"}

\* What has been called for an answer, by its tier.
Tiered(r) ==
  /\ reply[r] \in Tiers \ {"low_similarity"} => called[r] \subseteq Described(question[r])
  /\ reply[r] = "low_similarity" => called[r] \subseteq Described(question[r]) \cup {"embed"}
  /\ reply[r] \in {"qa", "summary"} => "embed" \in called[r]

CallInv == \A r \in Requests : Calling(r) /\ Tiered(r)

LEMMA Canned ==
  \A q \in Question : /\ CannedTier(q) \in (Tiers \ {"low_similarity"}) \cup {"none"}
                     /\ Mode(q) \in {"qa", "summary"}
BY DEF CannedTier, Question, Persona, Topic, Mode

\* What does not touch a turn leaves its calls as they are.
LEMMA CallsUntouched ==
  ASSUME NEW r \in Requests, Calling(r), Tiered(r), pc'[r] = pc[r], reply'[r] = reply[r],
         called'[r] = called[r], question'[r] = question[r]
  PROVE  Calling(r)' /\ Tiered(r)'
BY DEF Calling, Tiered, Described

\* A turn that is over, or about to be, may have any answer that fits its calls.
LEMMA CallsClosed ==
  ASSUME NEW r \in Requests, Tiered(r), pc'[r] \in Closing \cup Over \cup {"persist", "log"},
         reply'[r] = reply[r], called'[r] = called[r], question'[r] = question[r]
  PROVE  Calling(r)' /\ Tiered(r)'
BY DEF Calling, Tiered, Described

\* A turn whose generator is gone has called nothing any more.
LEMMA CallsForgotten ==
  ASSUME NEW r \in Requests, pc'[r] \in Over, reply'[r] = "none"
  PROVE  Calling(r)' /\ Tiered(r)'
BY DEF Calling, Tiered

\* What a step of a turn leaves alone in the others.
OtherCallsKept(r) ==
  \A q \in Requests \ {r} :
    /\ pc'[q] = pc[q] /\ reply'[q] = reply[q]
    /\ called'[q] = called[q] /\ question'[q] = question[q]

LEMMA NodeCalls ==
  ASSUME TypeOK, NEW r \in Requests, Calling(r), Tiered(r), RunNode(r)
  PROVE  Calling(r)' /\ Tiered(r)'
<1> USE DEF TypeOK, MovesTo
<1>1. CASE Preprocess(r)
  <2>1. /\ pc[r] = "preprocess" /\ pc'[r] = "classify" /\ UNCHANGED <<reply, question>>
        /\ HasCalled(r, Described(question[r])) /\ Described(question[r]) \in SUBSET Calls
    BY <1>1, Helpers DEF Preprocess
  <2>2. called'[r] = called[r] \cup Described(question[r])
    BY <2>1, CallsAdded
  <2>3. reply'[r] = "none" /\ called'[r] \subseteq Described(question'[r])
    BY <2>1, <2>2 DEF Calling
  <2> QED
    BY <2>1, <2>3 DEF Calling, Tiered
<1>2. CASE Classify(r)
  <2>1. /\ pc[r] = "classify" /\ UNCHANGED <<called, question>>
        /\ reply'[r] = CannedTier(question[r])
        /\ pc'[r] = IF CannedTier(question[r]) = "none" THEN "embed" ELSE "persist"
    BY <1>2 DEF Classify
  <2>2. called'[r] \subseteq Described(question'[r])
    BY <2>1 DEF Calling
  <2>3. reply'[r] \in (Tiers \ {"low_similarity"}) \cup {"none"}
    BY <2>1, Canned
  <2> QED
    BY <2>1, <2>2, <2>3 DEF Calling, Tiered
<1>3. CASE Embed(r)
  <2>1. /\ pc[r] = "embed" /\ pc'[r] = "search" /\ UNCHANGED <<reply, question>>
        /\ called'[r] = called[r] \cup {"embed"}
    BY <1>3, CallsAdded DEF Embed, Calls
  <2>2. /\ reply'[r] = "none" /\ "embed" \in called'[r]
        /\ called'[r] \subseteq Described(question'[r]) \cup {"embed"}
    BY <2>1 DEF Calling
  <2> QED
    BY <2>1, <2>2 DEF Calling, Tiered
<1>4. CASE BelowThreshold(r) \/ Continue(r)
  <2>1. /\ pc[r] = "search" /\ UNCHANGED <<called, question>>
        /\ \/ reply'[r] = "low_similarity" /\ pc'[r] = "persist"
           \/ reply'[r] = reply[r] /\ pc'[r] = "condense"
    BY <1>4 DEF BelowThreshold, Continue, turnVars
  <2>2. /\ reply[r] = "none" /\ "embed" \in called'[r]
        /\ called'[r] \subseteq Described(question'[r]) \cup {"embed"}
    BY <2>1 DEF Calling
  <2> QED
    BY <2>1, <2>2 DEF Calling, Tiered
<1>5. CASE Condense(r)
  <2>1. pc[r] = "condense" /\ pc'[r] = "generate" /\ reply'[r] = Mode(question[r])
    BY <1>5 DEF Condense
  <2>2. called[r] \subseteq called'[r]
    BY <1>5, CallsAdded DEF Condense, Calls
  <2>3. "embed" \in called'[r]
    BY <2>1, <2>2 DEF Calling
  <2>4. reply'[r] \in {"qa", "summary"}
    BY <2>1, Canned
  <2> QED
    BY <2>1, <2>3, <2>4 DEF Calling, Tiered
<1>6. CASE Generate(r)
  BY <1>6, CallsUntouched DEF Generate
<1>7. CASE AppendSources(r)
  <2>1. /\ pc[r] = "generate" /\ pc'[r] = "persist" /\ reply'[r] = reply[r]
        /\ HasCalled(r, {"generate"}) /\ {"generate"} \in SUBSET Calls
    BY <1>7 DEF AppendSources, Calls
  <2>2. called[r] \subseteq called'[r]
    BY <2>1, CallsAdded
  <2>3. reply'[r] \in {"qa", "summary"} /\ "embed" \in called'[r]
    BY <2>1, <2>2 DEF Calling, Tiered
  <2> QED
    BY <2>1, <2>3 DEF Calling, Tiered
<1>8. CASE PersistMessage(r) \/ LogMetrics(r) \/ NodeFails(r)
  <2>1. /\ UNCHANGED <<reply, called, question>>
        /\ pc'[r] \in Closing \cup Over \cup {"persist", "log"}
    BY <1>8 DEF PersistMessage, LogMetrics, NodeFails
  <2> QED
    BY <2>1, CallsClosed
<1> QED
  BY <1>1, <1>2, <1>3, <1>4, <1>5, <1>6, <1>7, <1>8 DEF RunNode

LEMMA CallsKept ==
  ASSUME IInv, CallInv, [Next]_vars
  PROVE  CallInv'
<1> USE DEF IInv
<1>0. ASSUME NEW r \in Requests, OtherCallsKept(r), Calling(r)', Tiered(r)' PROVE CallInv'
  BY <1>0, CallsUntouched DEF OtherCallsKept, CallInv
<1>1. ASSUME NEW r \in Requests, Ask(r) \/ Reject(r) \/ OpenStream(r) PROVE CallInv'
  <2>1. /\ pc[r] \in {"idle", "asked"} /\ pc'[r] \in {"asked", "rejected", "preprocess"}
        /\ UNCHANGED <<reply, called>> /\ OtherCallsKept(r)
    BY <1>1 DEF Ask, Reject, OpenStream, turnVars, OtherCallsKept, TypeOK
  <2>2. Calling(r)' /\ Tiered(r)'
    BY <2>1 DEF CallInv, Calling, Tiered
  <2> QED
    BY <1>0, <2>1, <2>2
<1>2. ASSUME NEW r \in Requests, RunNode(r) PROVE CallInv'
  <2>1. OtherCallsKept(r)
    BY <1>2 DEF RunNode, Preprocess, Classify, Embed, BelowThreshold, Continue, Condense,
                Generate, AppendSources, PersistMessage, LogMetrics, NodeFails, MovesTo,
                HasCalled, turnVars, OtherCallsKept, TypeOK
  <2> QED
    BY <1>0, <1>2, <2>1, NodeCalls DEF CallInv
<1>3. ASSUME NEW r \in Requests, Relay(r) \/ Keepalive(r) PROVE CallInv'
  <2>1. UNCHANGED <<pc, reply, called, question>>
    BY <1>3 DEF Relay, Keepalive
  <2> QED
    BY <2>1, CallsUntouched DEF CallInv
<1>4. ASSUME NEW r \in Requests, Close(r) PROVE CallInv'
  <2>1. /\ UNCHANGED <<question, reply, called>>
        /\ \E to \in Closing \cup Over : pc' = [pc EXCEPT ![r] = to]
    BY <1>4 DEF Close, Finish, Commit, CommitFails, SendDone, SendError, RollbackFails, MovesTo
  <2>2. pc'[r] \in Closing \cup Over /\ OtherCallsKept(r)
    BY <2>1 DEF OtherCallsKept, TypeOK
  <2> QED
    BY <1>0, <2>1, <2>2, CallsClosed DEF CallInv
<1>5. ASSUME NEW r \in Requests, Disconnect(r) \/ LeaveEarly(r) PROVE CallInv'
  <2>1. pc'[r] = "gone" /\ reply'[r] = "none" /\ OtherCallsKept(r)
    BY <1>5 DEF Disconnect, LeaveEarly, Forget, MovesTo, OtherCallsKept, TypeOK
  <2> QED
    BY <1>0, <2>1, CallsForgotten
<1>6. CASE BeginShutdown \/ WaitReturns \/ GraceElapses \/ UNCHANGED vars
  <2>1. UNCHANGED <<pc, reply, called, question>>
    BY <1>6 DEF BeginShutdown, WaitReturns, GraceElapses, vars, turnVars
  <2> QED
    BY <2>1, CallsUntouched DEF CallInv
<1>7. CASE Exit
  <2>1. ASSUME NEW r \in Requests PROVE Calling(r)' /\ Tiered(r)'
    <3>1. CASE r \in Running
      <4>1. pc'[r] = "killed" /\ reply'[r] = "none"
        BY <1>7, <3>1 DEF Exit, Forget
      <4> QED
        BY <4>1, CallsForgotten
    <3>2. CASE r \notin Running
      <4>1. /\ pc'[r] = pc[r] /\ reply'[r] = reply[r]
            /\ called'[r] = called[r] /\ question'[r] = question[r]
        BY <1>7, <3>2 DEF Exit, Forget
      <4> QED
        BY <4>1, CallsUntouched DEF CallInv
    <3> QED
      BY <3>1, <3>2
  <2> QED
    BY <2>1 DEF CallInv
<1> QED
  BY <1>1, <1>2, <1>3, <1>4, <1>5, <1>6, <1>7 DEF Next

LEMMA InitCalls == Init => CallInv
BY DEF Init, CallInv, Calling, Tiered

\* A question answered before the retrieval has called no model but for its image, one
\* whose best match is too far nothing beyond its embedding, and no answer is given
\* without the embedding that retrieved for it.
THEOREM ShortCircuits == Spec => []TiersCallInOrder
<1>1. TypeOK /\ CallInv => TiersCallInOrder
  BY DEF TypeOK, CallInv, Tiered, TiersCallInOrder
<1> QED
  BY <1>1, InitCalls, CallsKept, SpecIInv, PTL DEF Spec, IInv

-----------------------------------------------------------------------------
(* Tokens, sent and queued *)

Sent(r) == Cardinality(TokensIn(sent[r]))

\* Nothing has been generated.
Fresh(r) == tokens[r] = 0 /\ queue[r] = <<>> /\ TokensIn(sent[r]) = {}

\* The tokens that were generated are those sent and, after them, those queued.
Relaying(r) ==
  /\ tokens[r] = Sent(r) + Len(queue[r])
  /\ \A k \in 1..Len(queue[r]) : queue[r][k] = Sent(r) + k

\* How far the answer has come, while its graph runs and after it.
Ordered(r) ==
  /\ Numbered(r)
  /\ Sent(r) <= AnswerLength(r)
  /\ pc[r] \in {"idle", "asked", "preprocess", "classify", "embed", "search", "condense"} =>
       Fresh(r)
  /\ pc[r] = "generate" => ~ShortCircuited(r)
  /\ pc[r] \in {"generate", "persist", "log", "ended"} =>
       IF ShortCircuited(r) THEN Fresh(r) ELSE Relaying(r)
  /\ pc[r] \in {"committing", "committed"} => Sent(r) = AnswerLength(r)
  /\ pc[r] = "closed" /\ Last(sent[r]).type = "done" => Sent(r) = AnswerLength(r)

OrderInv == \A r \in Requests : Ordered(r)

LEMMA Counts ==
  ASSUME NEW s \in Seq(ChatStreamEvent)
  PROVE  /\ IsFiniteSet(TokensIn(s)) /\ Cardinality(TokensIn(s)) \in Nat
<1>1. IsFiniteSet(1..Len(s))
  BY FS_Interval
<1>2. IsFiniteSet(TokensIn(s))
  BY <1>1, FS_Subset DEF TokensIn
<1> QED
  BY <1>2, FS_CardinalityType

\* A token is sent after the others and is counted.
LEMMA SendsToken ==
  ASSUME TypeOK, NEW r \in Requests, NEW e \in ChatStreamEvent, e.type = "token", Send(r, e)
  PROVE  /\ TokensIn(sent'[r]) = TokensIn(sent[r]) \cup {Len(sent[r]) + 1}
         /\ Sent(r)' = Sent(r) + 1
         /\ \A i \in TokensIn(sent[r]) : /\ sent'[r][i] = sent[r][i]
                                        /\ Ordinal(sent'[r], i) = Ordinal(sent[r], i)
         /\ sent'[r][Len(sent[r]) + 1] = e
         /\ Ordinal(sent'[r], Len(sent[r]) + 1) = Sent(r)'
<1> DEFINE s == sent[r]
           t == sent'[r]
<1>0. s \in Seq(ChatStreamEvent) /\ t = Append(s, e)
  BY DEF Send, TypeOK
<1> HIDE DEF s, t
<1>1. /\ Len(t) = Len(s) + 1 /\ t[Len(s) + 1] = e
      /\ \A i \in 1..Len(s) : t[i] = s[i]
  BY <1>0
<1>2. TokensIn(t) = TokensIn(s) \cup {Len(s) + 1}
  BY <1>0, <1>1 DEF TokensIn
<1>3. Len(s) + 1 \notin TokensIn(s) /\ Len(s) \in Nat
  BY <1>0 DEF TokensIn
<1>4. Cardinality(TokensIn(s) \cup {Len(s) + 1}) = Cardinality(TokensIn(s)) + 1
  BY <1>0, <1>3, Counts, FS_AddElement
<1>5. TokensIn(s) \subseteq 1..Len(s)
  BY DEF TokensIn
<1>6. \A i \in TokensIn(s) : {j \in TokensIn(t) : j <= i} = {j \in TokensIn(s) : j <= i}
  <2> SUFFICES ASSUME NEW i \in TokensIn(s)
               PROVE  {j \in TokensIn(t) : j <= i} = {j \in TokensIn(s) : j <= i}
    OBVIOUS
  <2>1. i \in 1..Len(s) /\ ~(Len(s) + 1 <= i)
    BY <1>3, <1>5
  <2> QED
    BY <1>2, <2>1
<1>7. {j \in TokensIn(t) : j <= Len(s) + 1} = TokensIn(t)
  <2>1. \A j \in TokensIn(t) : j <= Len(s) + 1
    BY <1>2, <1>3, <1>5
  <2> QED
    BY <2>1
<1>8. /\ \A i \in TokensIn(s) : Ordinal(t, i) = Ordinal(s, i)
      /\ Ordinal(t, Len(s) + 1) = Cardinality(TokensIn(t))
  BY <1>6, <1>7 DEF Ordinal
<1> QED
  BY <1>1, <1>2, <1>4, <1>5, <1>8 DEF s, t, Sent

\* Any other event leaves the tokens where they are.
LEMMA AppendOther ==
  ASSUME NEW s \in Seq(ChatStreamEvent), NEW e \in ChatStreamEvent, e.type # "token",
         NEW t, t = Append(s, e)
  PROVE  /\ TokensIn(t) = TokensIn(s)
         /\ \A i \in TokensIn(s) : t[i] = s[i]
         /\ t[Len(t)] = e
BY DEF TokensIn

\* What does not touch a turn leaves its answer as it is.
LEMMA Untouched ==
  ASSUME NEW r \in Requests, Ordered(r), pc'[r] = pc[r], reply'[r] = reply[r],
         tokens'[r] = tokens[r], queue'[r] = queue[r], sent'[r] = sent[r]
  PROVE  Ordered(r)'
BY DEF Ordered, Numbered, Sent, AnswerLength, ShortCircuited, Fresh, Relaying

\* A turn whose generator is gone has nothing left.
LEMMA Forgotten ==
  ASSUME NEW r \in Requests, sent'[r] = <<>>, tokens'[r] = 0,
         pc'[r] \in Over \ {"closed"}
  PROVE  Ordered(r)'
<1>1. TokensIn(sent'[r]) = {}
  BY DEF TokensIn
<1>2. Sent(r)' = 0
  BY <1>1, FS_EmptySet DEF Sent
<1>3. Numbered(r)' /\ Sent(r)' <= AnswerLength(r)'
  BY <1>1, <1>2 DEF Numbered, AnswerLength
<1> QED
  BY <1>3 DEF Ordered

\* A keepalive or a terminal event.
LEMMA SendsOther ==
  ASSUME TypeOK, NEW r \in Requests, Ordered(r), NEW e \in ChatStreamEvent,
         e.type # "token", Send(r, e), UNCHANGED <<reply, tokens, queue>>,
         \/ pc'[r] = pc[r] /\ pc[r] # "closed"
         \/ pc[r] = "committed" /\ pc'[r] = "closed"
         \/ pc[r] = "failing" /\ pc'[r] = "closed" /\ e.type = "error"
  PROVE  Ordered(r)'
<1>1. /\ TokensIn(sent'[r]) = TokensIn(sent[r])
      /\ \A i \in TokensIn(sent[r]) : sent'[r][i] = sent[r][i]
      /\ sent'[r][Len(sent'[r])] = e
  <2>1. sent[r] \in Seq(ChatStreamEvent) /\ sent'[r] = Append(sent[r], e)
    BY DEF Send, TypeOK
  <2> QED
    BY <2>1, AppendOther
<1>2. Sent(r)' = Sent(r) /\ AnswerLength(r)' = AnswerLength(r)
      /\ ShortCircuited(r)' = ShortCircuited(r)
  BY <1>1 DEF Sent, AnswerLength, ShortCircuited
<1>3. Numbered(r)'
  BY <1>1, <1>2 DEF Numbered, Ordered, Ordinal
<1>4. Fresh(r)' = Fresh(r) /\ Relaying(r)' = Relaying(r)
  BY <1>1, <1>2 DEF Fresh, Relaying
<1> QED
  BY <1>1, <1>2, <1>3, <1>4 DEF Ordered, Last

\* The head of the queue is the next token.
LEMMA RelayOrdered ==
  ASSUME TypeOK, NEW r \in Requests, Ordered(r), Relay(r)
  PROVE  Ordered(r)'
<1> DEFINE e == Token(Head(queue[r]))
           n == Sent(r)
<1>1. /\ Head(queue[r]) \in 1..MaxTokens /\ Len(queue[r]) \in Nat \ {0}
      /\ Head(queue[r]) = queue[r][1]
      /\ Len(Tail(queue[r])) = Len(queue[r]) - 1
      /\ \A k \in 1..Len(Tail(queue[r])) : Tail(queue[r])[k] = queue[r][k + 1]
  BY DEF Relay, TypeOK
<1>2. e \in ChatStreamEvent /\ e.type = "token" /\ e.content = Head(queue[r])
  BY <1>1, EventTypes DEF Token
<1>3. /\ sent'[r] = Append(sent[r], e) /\ queue'[r] = Tail(queue[r])
      /\ UNCHANGED <<pc, reply, tokens>>
  BY DEF Relay, Send, TypeOK
<1>4. pc[r] \in {"generate", "persist", "log", "ended"} /\ ~ShortCircuited(r) /\ Relaying(r)
  BY DEF Relay, Graph, Ordered, Fresh
<1>5. n \in Nat /\ tokens[r] \in Nat
  BY Counts DEF Sent, TypeOK
<1>6. ~ShortCircuited(r)' /\ AnswerLength(r)' = tokens[r]
  BY <1>3, <1>4 DEF ShortCircuited, AnswerLength
<1>sends. /\ TokensIn(sent'[r]) = TokensIn(sent[r]) \cup {Len(sent[r]) + 1}
          /\ Sent(r)' = n + 1
          /\ \A i \in TokensIn(sent[r]) : /\ sent'[r][i] = sent[r][i]
                                         /\ Ordinal(sent'[r], i) = Ordinal(sent[r], i)
          /\ sent'[r][Len(sent[r]) + 1].content = e.content
          /\ Ordinal(sent'[r], Len(sent[r]) + 1) = n + 1
  <2>1. Send(r, e)
    BY DEF Relay
  <2> HIDE DEF e
  <2>2. Sent(r)' = n + 1
    BY <1>2, <2>1, SendsToken
  <2>3. sent'[r][Len(sent[r]) + 1] = e /\ Ordinal(sent'[r], Len(sent[r]) + 1) = Sent(r)'
    BY <1>2, <2>1, SendsToken
  <2> QED
    BY <1>2, <2>1, <2>2, <2>3, SendsToken
<1>7. e.content = n + 1
  BY <1>1, <1>2, <1>4 DEF Relaying
<1>8. Numbered(r)'
  <2> SUFFICES ASSUME NEW i \in TokensIn(sent'[r])
               PROVE  sent'[r][i].content = Ordinal(sent'[r], i)
    BY <1>6 DEF Numbered
  <2>1. CASE i \in TokensIn(sent[r])
    <3>1. sent[r][i].content = Ordinal(sent[r], i)
      BY <2>1, <1>4 DEF Ordered, Numbered
    <3> QED
      BY <1>sends, <2>1, <3>1
  <2>2. CASE i = Len(sent[r]) + 1
    <3>1. sent'[r][Len(sent[r]) + 1].content = Ordinal(sent'[r], Len(sent[r]) + 1)
      BY <1>7, <1>sends
    <3> QED
      BY ONLY <3>1, <2>2
  <2> QED
    BY <1>sends, <2>1, <2>2
<1>9. Relaying(r)'
  <2>1. tokens'[r] = Sent(r)' + Len(queue'[r])
    BY <1>1, <1>3, <1>4, <1>5, <1>6, <1>sends DEF Relaying
  <2>2. ASSUME NEW k \in 1..Len(queue'[r]) PROVE queue'[r][k] = Sent(r)' + k
    <3>1. queue'[r][k] = queue[r][k + 1] /\ k + 1 \in 1..Len(queue[r])
      BY <2>2, <1>1, <1>3
    <3>2. queue[r][k + 1] = n + (k + 1)
      BY <3>1, <1>4 DEF Relaying
    <3> QED
      BY <3>1, <3>2, <1>5, <1>6, <1>sends
  <2> QED
    BY <2>1, <2>2 DEF Relaying
<1>10. Sent(r)' <= AnswerLength(r)'
  BY <1>1, <1>4, <1>5, <1>6, <1>sends DEF Relaying
<1> QED
  BY <1>3, <1>4, <1>6, <1>sends, <1>8, <1>9, <1>10 DEF Ordered

LEMMA FinishOrdered ==
  ASSUME TypeOK, NEW r \in Requests, Ordered(r), Finish(r)
  PROVE  Ordered(r)'
<1>1. /\ pc[r] = "ended" /\ pc'[r] = "committing" /\ queue[r] = <<>>
      /\ UNCHANGED <<reply, tokens, queue>>
  BY DEF Finish, MovesTo, TypeOK
<1>2. ShortCircuited(r)' = ShortCircuited(r) /\ AnswerLength(r)' = AnswerLength(r)
  BY <1>1 DEF ShortCircuited, AnswerLength
<1>3. CASE ShortCircuited(r)
  <2>1. Fresh(r) /\ sent'[r] = Append(sent[r], Token(0))
    BY <1>1, <1>3 DEF Ordered, Finish, Send, TypeOK
  <2>2. Token(0) \in ChatStreamEvent /\ Token(0).type = "token" /\ Token(0).content = 0
    BY EventTypes DEF Token
  <2>3. /\ TokensIn(sent'[r]) = {Len(sent[r]) + 1}
        /\ Sent(r)' = Sent(r) + 1
        /\ sent'[r][Len(sent[r]) + 1] = Token(0)
    <3>1. PICK e \in ChatStreamEvent : e = Token(0)
      BY <2>2
    <3>2. e.type = "token" /\ Send(r, e)
      BY <1>3, <2>2, <3>1 DEF Finish
    <3> QED
      BY <2>1, <3>1, <3>2, SendsToken DEF Fresh
  <2>4. Sent(r)' = 1
    BY <2>1, <2>3, FS_EmptySet DEF Fresh, Sent
  <2>5. Numbered(r)'
    BY <1>2, <1>3, <2>2, <2>3 DEF Numbered
  <2> QED
    BY <1>1, <1>2, <1>3, <2>4, <2>5 DEF Ordered, AnswerLength
<1>4. CASE ~ShortCircuited(r)
  <2>1. sent'[r] = sent[r] /\ Relaying(r)
    BY <1>1, <1>4 DEF Ordered, Finish
  <2>2. Sent(r)' = Sent(r) /\ Numbered(r)' /\ Sent(r) \in Nat
    BY <1>2, <2>1, Counts DEF Numbered, Sent, Ordered, TypeOK
  <2>3. Sent(r) = AnswerLength(r)
    BY <1>1, <1>4, <2>1, <2>2 DEF Relaying, AnswerLength
  <2> QED
    BY <1>1, <1>2, <2>2, <2>3 DEF Ordered
<1> QED
  BY <1>3, <1>4

LEMMA NodeOrdered ==
  ASSUME TypeOK, NEW r \in Requests, Ordered(r), RunNode(r)
  PROVE  Ordered(r)'
<1>1. CASE Preprocess(r) \/ Embed(r) \/ Continue(r)
  <2>1. /\ pc[r] \in {"preprocess", "embed", "search"} /\ pc'[r] \in {"classify", "search", "condense"}
        /\ UNCHANGED <<reply, tokens, queue, sent>>
    BY <1>1 DEF Preprocess, Embed, Continue, MovesTo, TypeOK, turnVars
  <2> QED
    BY <2>1 DEF Ordered, Numbered, Sent, AnswerLength, ShortCircuited, Fresh
<1>2. CASE Classify(r) \/ BelowThreshold(r) \/ Condense(r)
  <2>1. /\ pc[r] \in {"classify", "search", "condense"}
        /\ pc'[r] \in {"embed", "persist", "generate"}
        /\ UNCHANGED <<tokens, queue, sent>>
    BY <1>2 DEF Classify, BelowThreshold, Condense, MovesTo, TypeOK
  <2>2. pc'[r] = "generate" => ~ShortCircuited(r)'
    <3>1. CASE Classify(r) \/ BelowThreshold(r)
      BY <3>1 DEF Classify, BelowThreshold, MovesTo, TypeOK
    <3>2. CASE Condense(r)
      <4>1. reply'[r] = Mode(question[r]) /\ Mode(question[r]) \in {"qa", "summary"}
        BY <3>2, Canned DEF Condense, TypeOK
      <4> QED
        BY <4>1 DEF ShortCircuited
    <3> QED
      BY <1>2, <3>1, <3>2
  <2>3. Fresh(r)' /\ TokensIn(sent'[r]) = {} /\ tokens'[r] = 0 /\ Len(queue'[r]) = 0
    BY <2>1 DEF Ordered, Fresh
  <2>4. Sent(r)' = 0
    BY <2>3, FS_EmptySet DEF Sent
  <2>5. Numbered(r)' /\ Relaying(r)' /\ Sent(r)' <= AnswerLength(r)'
    BY <2>3, <2>4 DEF Numbered, Relaying, AnswerLength
  <2> QED
    BY <2>1, <2>2, <2>3, <2>5 DEF Ordered
<1>3. CASE Generate(r)
  <2> DEFINE n == Sent(r)
  <2>1. /\ pc[r] = "generate" /\ UNCHANGED <<pc, reply, sent>>
        /\ tokens'[r] = tokens[r] + 1
        /\ queue'[r] = Append(queue[r], tokens[r] + 1)
        /\ tokens[r] \in Nat /\ tokens[r] + 1 \in 1..MaxTokens
    BY <1>3 DEF Generate, TypeOK
  <2>2. ~ShortCircuited(r) /\ Relaying(r)
    BY <2>1 DEF Ordered
  <2>3. n \in Nat /\ Sent(r)' = n /\ Numbered(r)' /\ ~ShortCircuited(r)'
    BY <2>1, <2>2, Counts DEF Sent, Numbered, ShortCircuited, Ordered, TypeOK
  <2>4. /\ Len(queue'[r]) = Len(queue[r]) + 1 /\ Len(queue[r]) \in Nat
        /\ \A k \in 1..Len(queue[r]) : queue'[r][k] = queue[r][k]
        /\ queue'[r][Len(queue[r]) + 1] = tokens[r] + 1
    BY <2>1 DEF TypeOK
  <2>5. Relaying(r)'
    <3>1. tokens'[r] = n + Len(queue'[r])
      BY <2>1, <2>2, <2>3, <2>4 DEF Relaying
    <3>2. ASSUME NEW k \in 1..Len(queue'[r]) PROVE queue'[r][k] = n + k
      <4>1. CASE k \in 1..Len(queue[r])
        BY <4>1, <2>2, <2>4 DEF Relaying
      <4>2. CASE k = Len(queue[r]) + 1
        BY <4>2, <3>1, <2>1, <2>4
      <4> QED
        BY <3>2, <4>1, <4>2, <2>4
    <3> QED
      BY <3>1, <3>2, <2>3 DEF Relaying
  <2>6. Sent(r)' <= AnswerLength(r)'
    BY <2>1, <2>2, <2>3 DEF Ordered, AnswerLength
  <2> QED
    BY <2>1, <2>2, <2>3, <2>5, <2>6 DEF Ordered
<1>4. CASE AppendSources(r) \/ PersistMessage(r) \/ LogMetrics(r)
  <2>1. /\ pc[r] \in {"generate", "persist", "log"} /\ pc'[r] \in {"persist", "log", "ended"}
        /\ UNCHANGED <<reply, tokens, queue, sent>>
    BY <1>4 DEF AppendSources, PersistMessage, LogMetrics, MovesTo, TypeOK, turnVars
  <2> QED
    BY <2>1 DEF Ordered, Numbered, Sent, AnswerLength, ShortCircuited, Fresh, Relaying
<1>5. CASE NodeFails(r)
  <2>1. pc'[r] = "failing" /\ UNCHANGED <<reply, tokens, sent>>
    BY <1>5 DEF NodeFails, MovesTo, TypeOK
  <2> QED
    BY <2>1 DEF Ordered, Numbered, Sent, AnswerLength, ShortCircuited
<1> QED
  BY <1>1, <1>2, <1>3, <1>4, <1>5 DEF RunNode

\* What a step of a turn leaves alone in the others.
OthersKept(r) ==
  \A q \in Requests \ {r} :
    /\ pc'[q] = pc[q] /\ reply'[q] = reply[q] /\ tokens'[q] = tokens[q]
    /\ queue'[q] = queue[q] /\ sent'[q] = sent[q]

LEMMA OrderKept ==
  ASSUME IInv, OrderInv, [Next]_vars
  PROVE  OrderInv'
<1> USE DEF IInv
<1>0. ASSUME NEW r \in Requests, OthersKept(r), Ordered(r)' PROVE OrderInv'
  BY <1>0, Untouched DEF OthersKept, OrderInv
<1>1. ASSUME NEW r \in Requests, Ask(r) \/ Reject(r) \/ OpenStream(r)
      PROVE  OrderInv'
  <2>1. /\ pc[r] \in {"idle", "asked"} /\ pc'[r] \in {"asked", "rejected", "preprocess"}
        /\ UNCHANGED <<reply, tokens, queue, sent>> /\ OthersKept(r)
    BY <1>1 DEF Ask, Reject, OpenStream, MovesTo, turnVars, OthersKept, TypeOK
  <2>2. Ordered(r)'
    BY <2>1 DEF OrderInv, Ordered, Numbered, Sent, AnswerLength, ShortCircuited, Fresh
  <2> QED
    BY <1>0, <2>1, <2>2
<1>2. ASSUME NEW r \in Requests, RunNode(r) PROVE OrderInv'
  <2>1. OthersKept(r)
    BY <1>2 DEF RunNode, Preprocess, Classify, Embed, BelowThreshold, Continue, Condense,
                Generate, AppendSources, PersistMessage, LogMetrics, NodeFails, MovesTo,
                turnVars, OthersKept, TypeOK
  <2> QED
    BY <1>0, <1>2, <2>1, NodeOrdered DEF OrderInv
<1>3. ASSUME NEW r \in Requests, Relay(r) PROVE OrderInv'
  BY <1>0, <1>3, RelayOrdered DEF OrderInv, Relay, Send, OthersKept, TypeOK
<1>4. ASSUME NEW r \in Requests, Keepalive(r) PROVE OrderInv'
  <2>1. Event("keepalive") \in ChatStreamEvent /\ Event("keepalive").type = "keepalive"
    BY EventTypes
  <2>2. /\ Send(r, Event("keepalive")) /\ pc[r] # "closed"
        /\ UNCHANGED <<pc, reply, tokens, queue>>
    BY <1>4 DEF Keepalive, Graph
  <2>3. Ordered(r)'
    BY <2>1, <2>2, SendsOther DEF OrderInv
  <2>4. OthersKept(r)
    BY <2>2 DEF Send, OthersKept, TypeOK
  <2> QED
    BY <1>0, <2>3, <2>4
<1>5. ASSUME NEW r \in Requests, Close(r) PROVE OrderInv'
  <2>1. OthersKept(r)
    BY <1>5 DEF Close, Finish, Commit, CommitFails, SendDone, SendError, RollbackFails,
                Send, MovesTo, OthersKept, TypeOK
  <2>2. CASE Finish(r)
    BY <1>0, <2>1, <2>2, FinishOrdered DEF OrderInv
  <2>3. CASE Commit(r) \/ CommitFails(r) \/ RollbackFails(r)
    <3>1. /\ UNCHANGED <<reply, tokens, queue, sent>>
          /\ \/ pc[r] = "committing" /\ pc'[r] = "committed"
             \/ pc'[r] \in {"failing", "aborted"}
      BY <2>3 DEF Commit, CommitFails, RollbackFails, MovesTo, TypeOK
    <3>2. Ordered(r)'
      BY <3>1 DEF OrderInv, Ordered, Numbered, Sent, AnswerLength, ShortCircuited
    <3> QED
      BY <1>0, <2>1, <3>2
  <2>4. CASE SendDone(r) \/ SendError(r)
    <3>1. \A type \in Terminal :
            /\ Event(type) \in ChatStreamEvent
            /\ Event(type).type = type /\ type # "token"
      BY EventTypes
    <3>2. /\ UNCHANGED <<reply, tokens, queue>>
          /\ \/ pc[r] = "committed" /\ pc'[r] = "closed" /\ Send(r, Event("done"))
             \/ pc[r] = "failing" /\ pc'[r] = "closed" /\ Send(r, Event("error"))
      BY <2>4 DEF SendDone, SendError, MovesTo, TypeOK
    <3>3. Ordered(r)'
      BY <3>1, <3>2, SendsOther DEF OrderInv
    <3> QED
      BY <1>0, <2>1, <3>3
  <2> QED
    BY <1>5, <2>2, <2>3, <2>4 DEF Close
<1>6. ASSUME NEW r \in Requests, Disconnect(r) \/ LeaveEarly(r) PROVE OrderInv'
  <2>1. sent'[r] = <<>> /\ tokens'[r] = 0 /\ pc'[r] = "gone" /\ OthersKept(r)
    BY <1>6 DEF Disconnect, LeaveEarly, Forget, MovesTo, OthersKept, TypeOK
  <2> QED
    BY <1>0, <2>1, Forgotten
<1>7. CASE BeginShutdown \/ WaitReturns \/ GraceElapses \/ UNCHANGED vars
  <2>1. UNCHANGED <<pc, reply, tokens, queue, sent>>
    BY <1>7 DEF BeginShutdown, WaitReturns, GraceElapses, vars, turnVars
  <2> QED
    BY <2>1, Untouched DEF OrderInv
<1>8. CASE Exit
  <2>1. ASSUME NEW r \in Requests PROVE Ordered(r)'
    <3>1. CASE r \in Running
      <4>1. sent'[r] = <<>> /\ tokens'[r] = 0 /\ pc'[r] = "killed"
        BY <1>8, <3>1 DEF Exit, Forget
      <4> QED
        BY <4>1, Forgotten
    <3>2. CASE r \notin Running
      <4>1. /\ pc'[r] = pc[r] /\ reply'[r] = reply[r] /\ tokens'[r] = tokens[r]
            /\ queue'[r] = queue[r] /\ sent'[r] = sent[r]
        BY <1>8, <3>2 DEF Exit, Forget
      <4> QED
        BY <4>1, Untouched DEF OrderInv
    <3> QED
      BY <3>1, <3>2
  <2> QED
    BY <2>1 DEF OrderInv
<1> QED
  BY <1>1, <1>2, <1>3, <1>4, <1>5, <1>6, <1>7, <1>8 DEF Next

\* Keepalives neither lose nor reorder tokens: a client has received a prefix of the
\* answer, and the whole of it when it hears "done".
THEOREM TokensArriveInOrder == Spec => []TokensInOrder
<1>1. Init => OrderInv
  <2> SUFFICES ASSUME Init PROVE OrderInv
    OBVIOUS
  <2>1. TokensIn(<<>>) = {} /\ Cardinality({}) = 0
    BY FS_EmptySet DEF TokensIn
  <2>2. ASSUME NEW r \in Requests PROVE Ordered(r)
    <3>1. /\ pc[r] = "idle" /\ tokens[r] = 0 /\ queue[r] = <<>>
          /\ TokensIn(sent[r]) = {} /\ Sent(r) = 0
      BY <2>1 DEF Init, Sent
    <3> QED
      BY <3>1 DEF Ordered, Numbered, AnswerLength, Fresh
  <2> QED
    BY <2>2 DEF OrderInv
<1>2. OrderInv => TokensInOrder
  BY DEF OrderInv, Ordered, Sent, TokensInOrder
<1> QED
  BY <1>1, <1>2, OrderKept, SpecIInv, PTL DEF Spec

-----------------------------------------------------------------------------
(* The count of streams, and the drain *)

\* When no stream of those in flight at the shutdown can be left, and why none of them
\* is opened again.
WaitInv ==
  /\ waiter = "none" => awaited = {}
  /\ waiter \in {"woken", "clean"} => awaited \cap Streaming = {}
  /\ \A r \in awaited : pc[r] \notin {"idle", "asked"}

\* What a step does to the streams in flight and to their count.
Opens(r) ==
  /\ pc[r] = "asked"
  /\ Streaming' = Streaming \cup {r}
  /\ Drain!EnterStream /\ UNCHANGED awaited
Ends(r) ==
  /\ r \in Streaming
  /\ Streaming' = Streaming \ {r}
  /\ Drain!ExitStream /\ UNCHANGED awaited
Waits ==
  /\ Streaming' = Streaming
  /\ \/ Drain!BeginShutdown /\ awaited' = Streaming
     \/ Drain!WaitReturns /\ UNCHANGED awaited
     \/ Drain!GraceElapses /\ UNCHANGED awaited
     \/ UNCHANGED <<drainVars, awaited>>
Dies ==
  /\ Streaming' = {}
  /\ active' = 0 /\ drained' = TRUE
  /\ UNCHANGED <<waiter, awaited>>

LEMMA DrainSteps ==
  ASSUME TypeOK, [Next]_vars
  PROVE  /\ (\E r \in Requests : Opens(r) \/ Ends(r)) \/ Waits \/ Dies
         /\ \A r \in Requests :
              pc[r] \notin {"idle", "asked"} => pc'[r] \notin {"idle", "asked"}
<1> USE DEF TypeOK, MovesTo, Streaming
<1>1. ASSUME NEW r \in Requests,
             Ask(r) \/ Reject(r) \/ RunNode(r) \/ Finish(r) \/ Commit(r)
             \/ CommitFails(r) \/ LeaveEarly(r)
      PROVE  /\ Waits
             /\ \A q \in Requests :
                  pc[q] \notin {"idle", "asked"} => pc'[q] \notin {"idle", "asked"}
  <2>1. CASE Ask(r) \/ Reject(r) \/ LeaveEarly(r)
    BY <2>1 DEF Ask, Reject, LeaveEarly, Waits
  <2>2. CASE RunNode(r)
    <3>1. /\ UNCHANGED <<drainVars, awaited>> /\ pc[r] \in Nodes
          /\ UNCHANGED pc \/ \E to \in Nodes \cup Closing : pc' = [pc EXCEPT ![r] = to]
      BY <2>2, Canned DEF RunNode, Preprocess, Classify, Embed, BelowThreshold, Continue,
                  Condense, Generate, AppendSources, PersistMessage, LogMetrics,
                  NodeFails, MayFail
    <3>2. \A q \in Requests : pc'[q] = pc[q] \/ {pc[q], pc'[q]} \subseteq Nodes \cup Closing
      BY <3>1
    <3>3. Streaming' = Streaming
      BY <3>2
    <3> QED
      BY <3>1, <3>2, <3>3 DEF Waits
  <2>3. CASE Finish(r) \/ Commit(r) \/ CommitFails(r)
    BY <2>3 DEF Finish, Commit, CommitFails, Waits
  <2> QED
    BY <1>1, <2>1, <2>2, <2>3
<1>2. ASSUME NEW r \in Requests, Relay(r) \/ Keepalive(r)
      PROVE  Waits /\ UNCHANGED pc
  BY <1>2 DEF Relay, Keepalive, Waits
<1>3. ASSUME NEW r \in Requests, OpenStream(r)
      PROVE  /\ Opens(r)
             /\ \A q \in Requests :
                  pc[q] \notin {"idle", "asked"} => pc'[q] \notin {"idle", "asked"}
  BY <1>3 DEF OpenStream, Opens, turnVars
<1>4. ASSUME NEW r \in Requests,
             SendDone(r) \/ SendError(r) \/ RollbackFails(r) \/ Disconnect(r)
      PROVE  /\ Ends(r)
             /\ \A q \in Requests :
                  pc[q] \notin {"idle", "asked"} => pc'[q] \notin {"idle", "asked"}
  <2>1. /\ r \in Streaming /\ Drain!ExitStream /\ UNCHANGED awaited
        /\ \E to \in Over : pc' = [pc EXCEPT ![r] = to]
    BY <1>4 DEF SendDone, SendError, RollbackFails, Disconnect
  <2> QED
    BY <2>1 DEF Ends
<1>5. CASE BeginShutdown \/ WaitReturns \/ GraceElapses \/ UNCHANGED vars
  BY <1>5 DEF BeginShutdown, WaitReturns, GraceElapses, Waits, vars
<1>6. CASE Exit
  BY <1>6 DEF Exit, Running, Dies
<1> QED
  BY <1>1, <1>2, <1>3, <1>4, <1>5, <1>6 DEF Next, Close

LEMMA CountKept ==
  ASSUME IInv, CountMatches, WaitInv, [Next]_vars
  PROVE  CountMatches' /\ WaitInv'
<1> USE DEF IInv, CountMatches, WaitInv
<1>1. /\ IsFiniteSet(Streaming)
      /\ Cardinality(Streaming) \in Nat
      /\ Cardinality(Streaming) = 0 <=> Streaming = {}
  BY FS_Subset, FS_CardinalityType, FS_EmptySet DEF Streaming
<1>2. \A r \in awaited : r \in Requests /\ pc'[r] \notin {"idle", "asked"}
  BY DrainSteps DEF TypeOK
<1>3. ASSUME NEW r \in Requests, Opens(r) PROVE CountMatches' /\ WaitInv'
  <2>1. r \notin Streaming
    BY <1>3 DEF Opens, Streaming
  <2>2. Cardinality(Streaming') = Cardinality(Streaming) + 1
    BY <1>1, <1>3, <2>1, FS_AddElement DEF Opens
  <2>3. r \notin awaited
    BY <1>3 DEF Opens
  <2> QED
    BY <1>2, <1>3, <2>2, <2>3 DEF Opens, Drain!EnterStream
<1>4. ASSUME NEW r \in Requests, Ends(r) PROVE CountMatches' /\ WaitInv'
  <2>1. /\ Cardinality(Streaming') = Cardinality(Streaming) - 1
        /\ IsFiniteSet(Streaming')
    BY <1>1, <1>4, FS_RemoveElement DEF Ends
  <2>2. Cardinality(Streaming') = 0 <=> Streaming' = {}
    BY <2>1, FS_EmptySet
  <2>3. active > 0 /\ active' = active - 1 /\ drained = FALSE
    BY <1>1, <1>4 DEF Ends, Drain!ExitStream
  <2>4. CASE active <= 1
    BY <1>1, <1>2, <1>4, <2>1, <2>2, <2>3, <2>4 DEF Ends, Drain!ExitStream, Drain!Wake
  <2>5. CASE active > 1
    BY <1>1, <1>2, <1>4, <2>1, <2>2, <2>3, <2>5 DEF Ends, Drain!ExitStream
  <2> QED
    BY <1>1, <2>4, <2>5
<1>5. CASE Waits
  <2>1. UNCHANGED <<active, drained>>
    BY <1>5 DEF Waits, drainVars, Drain!BeginShutdown, Drain!WaitReturns,
                Drain!GraceElapses
  <2>2. CountMatches'
    BY <1>5, <2>1 DEF Waits
  <2>3. CASE Drain!BeginShutdown /\ awaited' = Streaming
    <3>1. \A r \in Streaming : pc[r] \notin {"idle", "asked"} /\ r \in Requests
      BY DEF Streaming
    <3>2. \A r \in Streaming : pc'[r] \notin {"idle", "asked"}
      BY <3>1, DrainSteps
    <3> QED
      BY <1>1, <1>5, <2>2, <2>3, <3>2 DEF Waits, Drain!BeginShutdown
  <2>4. CASE UNCHANGED awaited /\ (Drain!WaitReturns \/ Drain!GraceElapses \/ UNCHANGED drainVars)
    BY <1>2, <1>5, <2>2, <2>4 DEF Waits, Drain!WaitReturns, Drain!GraceElapses, drainVars
  <2> QED
    BY <1>5, <2>3, <2>4 DEF Waits
<1>6. CASE Dies
  BY <1>2, <1>6, FS_EmptySet DEF Dies
<1> QED
  BY <1>3, <1>4, <1>5, <1>6, DrainSteps

LEMMA SpecCount == Spec => [](CountMatches /\ WaitInv)
<1>1. Init => CountMatches /\ WaitInv
  <2> SUFFICES ASSUME Init PROVE CountMatches /\ WaitInv
    OBVIOUS
  <2>1. Streaming = {}
    BY DEF Init, Streaming
  <2> QED
    BY <2>1, FS_EmptySet DEF Init, Drain!Init, CountMatches, WaitInv
<1> QED
  BY <1>1, CountKept, SpecIInv, PTL DEF Spec

\* Whichever way streams end, the count is that of the streams in flight and the event
\* is set exactly when there is none.
THEOREM CountIsRight == Spec => []CountMatches
BY SpecCount, PTL

\* When wait_drained returns True no stream that was in flight at the shutdown is left.
THEOREM DrainIsClean == Spec => []CleanDrain
<1>1. WaitInv => CleanDrain
  BY DEF WaitInv, CleanDrain
<1> QED
  BY <1>1, SpecCount, PTL
-----------------------------------------------------------------------------
(* Turns only go on *)

TurnStage ==
  [idle |-> 0, asked |-> 1,
   preprocess |-> 2, classify |-> 3, embed |-> 4, search |-> 5, condense |-> 6,
   generate |-> 7, persist |-> 8, log |-> 9,
   ended |-> 10, committing |-> 11, failing |-> 12, committed |-> 12,
   rejected |-> 13, closed |-> 13, aborted |-> 13, gone |-> 13, killed |-> 13]

\* What a stage has left to do with the tokens: to produce them, and to relay them.
ItemsLeft(r) == 2 * (MaxTokens - tokens[r]) + Len(queue[r])

\* A step takes a turn to a later stage, or produces or relays a token of it, or leaves
\* the turn where it is: a keepalive, the shutdown, or the step of another turn.
TurnsAdvance ==
  \A r \in Requests :
    \/ UNCHANGED <<pc[r], tokens[r], queue[r]>>
    \/ TurnStage[pc[r]] < TurnStage[pc'[r]]
    \/ UNCHANGED pc[r] /\ ItemsLeft(r)' < ItemsLeft(r)

\* A step of a request's turn is of that turn alone.
LEMMA OneTurn ==
  ASSUME TypeOK, NEW q \in Requests, NEW r \in Requests \ {q},
         \/ Ask(q) \/ Reject(q) \/ OpenStream(q) \/ RunNode(q) \/ Relay(q) \/ Keepalive(q)
         \/ Close(q) \/ Disconnect(q) \/ LeaveEarly(q)
  PROVE  UNCHANGED <<pc[r], tokens[r], queue[r]>>
<1> USE DEF TypeOK, MovesTo, turnVars
<1>1. CASE Ask(q) \/ Reject(q) \/ OpenStream(q)
  BY <1>1 DEF Ask, Reject, OpenStream
<1>2. CASE RunNode(q)
  BY <1>2 DEF RunNode, Preprocess, Classify, Embed, BelowThreshold, Continue, Condense, Generate,
              AppendSources, PersistMessage, LogMetrics, NodeFails
<1>3. CASE Relay(q) \/ Keepalive(q)
  BY <1>3 DEF Relay, Keepalive
<1>4. CASE Close(q)
  BY <1>4 DEF Close, Finish, Commit, CommitFails, SendDone, SendError, RollbackFails
<1>5. CASE Disconnect(q) \/ LeaveEarly(q)
  BY <1>5 DEF Disconnect, LeaveEarly, Forget
<1> QED
  BY <1>1, <1>2, <1>3, <1>4, <1>5

LEMMA FewerItems ==
  ASSUME NEW m \in Nat, NEW t \in Nat, NEW n \in Nat
  PROVE  /\ 2 * (m - (t + 1)) + (n + 1) < 2 * (m - t) + n
         /\ 2 * (m - t) + (n - 1) < 2 * (m - t) + n
OBVIOUS

LEMMA TurnAdvances ==
  ASSUME TypeOK, NEW r \in Requests,
         \/ Ask(r) \/ Reject(r) \/ OpenStream(r) \/ RunNode(r) \/ Relay(r) \/ Keepalive(r)
         \/ Close(r) \/ Disconnect(r) \/ LeaveEarly(r)
  PROVE  \/ UNCHANGED <<pc[r], tokens[r], queue[r]>>
         \/ TurnStage[pc[r]] < TurnStage[pc'[r]]
         \/ UNCHANGED pc[r] /\ ItemsLeft(r)' < ItemsLeft(r)
<1> USE DEF TypeOK, MovesTo, turnVars, TurnStage
<1>1. CASE Ask(r) \/ Reject(r) \/ OpenStream(r)
  BY <1>1 DEF Ask, Reject, OpenStream
<1>2. CASE RunNode(r) /\ ~Generate(r) /\ ~NodeFails(r)
  BY <1>2, Helpers DEF RunNode, Preprocess, Classify, Embed, BelowThreshold, Continue, Condense,
                       AppendSources, PersistMessage, LogMetrics
<1>3. CASE NodeFails(r)
  BY <1>3 DEF NodeFails, MayFail
<1>4. CASE Generate(r)
  <2>1. /\ UNCHANGED pc /\ tokens'[r] = tokens[r] + 1
        /\ queue'[r] = Append(queue[r], tokens[r] + 1)
        /\ tokens[r] \in Nat /\ queue[r] \in Seq(1..MaxTokens)
        /\ tokens[r] + 1 \in 1..MaxTokens
    BY <1>4 DEF Generate
  <2>2. Len(queue'[r]) = Len(queue[r]) + 1 /\ Len(queue[r]) \in Nat
    BY <2>1
  <2>3. PICK t \in Nat, n \in Nat : t = tokens[r] /\ n = Len(queue[r])
    BY <2>1, <2>2
  <2> HIDE DEF TypeOK
  <2>4. /\ ItemsLeft(r) = 2 * (MaxTokens - t) + n
        /\ ItemsLeft(r)' = 2 * (MaxTokens - (t + 1)) + (n + 1)
    BY <2>1, <2>2, <2>3 DEF ItemsLeft
  <2>5. ItemsLeft(r)' < ItemsLeft(r)
    BY <2>4, FewerItems
  <2> QED
    BY <2>1, <2>5
<1>5. CASE Relay(r)
  <2>1. /\ UNCHANGED <<pc, tokens>> /\ queue'[r] = Tail(queue[r]) /\ queue[r] # <<>>
        /\ tokens[r] \in Nat /\ queue[r] \in Seq(1..MaxTokens)
    BY <1>5 DEF Relay
  <2>2. Len(queue'[r]) = Len(queue[r]) - 1 /\ Len(queue[r]) \in Nat
    BY <2>1
  <2>3. PICK t \in Nat, n \in Nat : t = tokens[r] /\ n = Len(queue[r])
    BY <2>1, <2>2
  <2> HIDE DEF TypeOK
  <2>4. /\ ItemsLeft(r) = 2 * (MaxTokens - t) + n
        /\ ItemsLeft(r)' = 2 * (MaxTokens - t) + (n - 1)
    BY <2>1, <2>2, <2>3 DEF ItemsLeft
  <2>5. ItemsLeft(r)' < ItemsLeft(r)
    BY <2>4, FewerItems
  <2> QED
    BY <2>1, <2>5
<1>6. CASE Keepalive(r)
  BY <1>6 DEF Keepalive
<1>7. CASE Close(r)
  BY <1>7 DEF Close, Finish, Commit, CommitFails, SendDone, SendError, RollbackFails
<1>8. CASE Disconnect(r) \/ LeaveEarly(r)
  BY <1>8 DEF Disconnect, LeaveEarly, Streaming
<1> QED
  BY <1>1, <1>2, <1>3, <1>4, <1>5, <1>6, <1>7, <1>8

\* No turn goes back or round in a circle, whatever fails, disconnects or shuts down: a
\* stream ends after at most as many steps as it has stages and tokens, keepalives aside.
THEOREM StreamsGoOn == Spec => [][TurnsAdvance]_vars
<1>1. ASSUME IInv, [Next]_vars PROVE TurnsAdvance
  <2> SUFFICES ASSUME NEW r \in Requests
               PROVE  \/ UNCHANGED <<pc[r], tokens[r], queue[r]>>
                      \/ TurnStage[pc[r]] < TurnStage[pc'[r]]
                      \/ UNCHANGED pc[r] /\ ItemsLeft(r)' < ItemsLeft(r)
    BY DEF TurnsAdvance
  <2>0. TypeOK
    BY <1>1 DEF IInv
  <2>1. ASSUME NEW q \in Requests,
               \/ Ask(q) \/ Reject(q) \/ OpenStream(q) \/ RunNode(q) \/ Relay(q) \/ Keepalive(q)
               \/ Close(q) \/ Disconnect(q) \/ LeaveEarly(q)
        PROVE  \/ UNCHANGED <<pc[r], tokens[r], queue[r]>>
               \/ TurnStage[pc[r]] < TurnStage[pc'[r]]
               \/ UNCHANGED pc[r] /\ ItemsLeft(r)' < ItemsLeft(r)
    BY <2>0, <2>1, OneTurn, TurnAdvances
  <2>2. CASE BeginShutdown \/ WaitReturns \/ GraceElapses \/ UNCHANGED vars
    BY <2>2 DEF BeginShutdown, WaitReturns, GraceElapses, turnVars, vars
  <2>3. CASE Exit
    <3>1. CASE r \in Running
      BY <2>0, <2>3, <3>1 DEF Exit, Running, TypeOK, TurnStage
    <3>2. CASE r \notin Running
      BY <2>3, <3>2 DEF Exit, Forget
    <3> QED
      BY <3>1, <3>2
  <2> QED
    BY <1>1, <2>1, <2>2, <2>3 DEF Next
<1>2. IInv /\ [Next]_vars => [TurnsAdvance]_vars
  BY <1>1
<1> QED
  BY <1>2, SpecIInv, PTL DEF Spec
=============================================================================
