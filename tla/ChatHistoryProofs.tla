---------------------------- MODULE ChatHistoryProofs ----------------------------
(***************************************************************************)
(* Proofs about ChatHistory, for any number of turns in a session and any  *)
(* threshold of condensation.                                              *)
(***************************************************************************)
EXTENDS ChatHistory, TLAPS

USE MaxTurnsAssumption, NumTurnsAssumption DEF Turns, NoTurn

\* The row's lock is held from the UPDATE to the end of the transaction.
LockInv == holder # NoTurn => pc[holder] = "reply"

\* Turns that are under way together are remembered.
OverlapInv == \A t, u \in UnderWay : t # u => {t, u} \in overlaps

\* The replies a set of messages tells of are committed.
Committed(ids) == \A id \in ids : id.role = "assistant" => pc[id.turn] = "done"

ReplyInv ==
  /\ Committed({m.id : m \in messages})
  /\ \A t \in Turns : Committed(row[t].tells) /\ Committed(draft[t].tells)

\* No summary is made in the future.
TimeInv == \A t \in Turns : draft[t].at < now

\* What ForgottenOnlyByOverlap excuses.
Excused(m) ==
  \/ m.id.role = "assistant" /\ m.id.turn \in condensed
  \/ \E u \in Turns \ {m.id.turn} : {m.id.turn, u} \in overlaps

Alone(t) == \A u \in Turns \ {t} : {t, u} \notin overlaps

\* While a turn is alone under way, the summary is older than its transactions.
BeganInv == \A t \in UnderWay : began[t] # 0 /\ (Alone(t) => summary.at < began[t])

\* A turn that has read the session can still tell of every message the summary it read
\* does not tell of.
ReadInv ==
  \A t \in Turns : pc[t] = "list" =>
    \A m \in messages : m.id \in row[t].tells \/ m.at > row[t].at \/ Excused(m)

\* A turn that is to write a summary tells of every message.
DraftInv ==
  \A t \in Turns : pc[t] \in {"fold", "flush"} \/ holder = t =>
    \A m \in messages : m.id \in draft[t].tells \/ Excused(m)

IInv ==
  /\ TypeOK
  /\ TimeInv
  /\ LockInv
  /\ OverlapInv
  /\ ReplyInv
  /\ SummaryComesWithReply
  /\ BeganInv
  /\ ReadInv
  /\ DraftInv
  /\ ForgottenOnlyByOverlap

-----------------------------------------------------------------------------
LEMMA InitIInv == Init => IInv
<1> SUFFICES ASSUME Init PROVE IInv
  OBVIOUS
<1>1. TypeOK
  BY DEF Init, TypeOK, NoSummary, Summaries
<1>2. TimeInv
  BY DEF Init, TimeInv, NoSummary
<1>3. LockInv /\ OverlapInv /\ ReplyInv /\ SummaryComesWithReply
  BY DEF Init, LockInv, OverlapInv, ReplyInv, Committed, SummaryComesWithReply, UnderWay, Answering,
         NoSummary
<1>4. BeganInv /\ ReadInv /\ DraftInv /\ ForgottenOnlyByOverlap
  BY DEF Init, BeganInv, ReadInv, DraftInv, ForgottenOnlyByOverlap, UnderWay, Answering
<1> QED
  BY <1>1, <1>2, <1>3, <1>4 DEF IInv

LEMMA MessageType ==
  ASSUME TypeOK, NEW t \in Turns, NEW role \in {"user", "assistant"}, began[t] # 0
  PROVE  Message(t, role, began[t]) \in [id : Id, at : 1..(now - 1)]
BY DEF TypeOK, Message, Id

LEMMA TypeKept ==
  ASSUME TypeOK, TimeInv, BeganInv, [Next]_vars
  PROVE  TypeOK'
<1>1. ASSUME NEW t \in Turns, Ask(t) \/ BeginReply(t) PROVE TypeOK'
  <2>1. now' = now + 1 /\ began' = [began EXCEPT ![t] = now]
    BY <1>1 DEF Ask, BeginReply
  <2>2. began' \in [Turns -> 0..(now' - 1)]
    BY <2>1 DEF TypeOK
  <2>3. messages' \subseteq [id : Id, at : 1..(now' - 1)]
    <3>1. 1..(now - 1) \subseteq 1..(now' - 1)
      BY <2>1 DEF TypeOK
    <3> QED
      BY <1>1, <3>1 DEF Ask, BeginReply, TypeOK
  <2>4. pc' \in [Turns -> {"idle", "ask", "asked", "done", "failed"} \cup Answering]
    BY <1>1 DEF Ask, BeginReply, TypeOK, Answering
  <2>5. overlaps' \subseteq SUBSET Turns
    <3>1. UnderWay \subseteq Turns
      BY DEF UnderWay
    <3>2. \A u \in UnderWay : {t, u} \in SUBSET Turns
      BY <3>1
    <3>3. overlaps' \subseteq overlaps \cup {{t, u} : u \in UnderWay}
      BY <1>1 DEF Ask, BeginReply
    <3>4. \A o \in overlaps' : o \in overlaps \/ \E u \in UnderWay : o = {t, u}
      BY <3>3
    <3>5. \A o \in overlaps : o \in SUBSET Turns
      BY DEF TypeOK
    <3>6. ASSUME NEW o \in overlaps' PROVE o \in SUBSET Turns
      <4>1. CASE o \in overlaps
        BY <3>5, <4>1
      <4>2. ASSUME NEW u \in UnderWay, o = {t, u} PROVE o \in SUBSET Turns
        BY <3>2, <4>2
      <4> QED
        BY <3>4, <4>1, <4>2
    <3> QED
      BY <3>6
  <2>6. summary' = summary /\ summary.at < now'
    BY <1>1, <2>1 DEF Ask, BeginReply, TypeOK, Summaries
  <2>7. UNCHANGED <<row, draft, title, holder, condensed>> /\ now' \in Nat \ {0}
    BY <1>1, <2>1 DEF Ask, BeginReply, TypeOK
  <2> QED
    BY <2>2, <2>3, <2>4, <2>5, <2>6, <2>7 DEF TypeOK
<1>2. ASSUME NEW t \in Turns, StoreQuestion(t) PROVE TypeOK'
  <2>1. Message(t, "user", began[t]) \in [id : Id, at : 1..(now - 1)]
    BY <1>2, MessageType DEF StoreQuestion, BeganInv, UnderWay
  <2> QED
    BY <1>2, <2>1 DEF StoreQuestion, TypeOK
<1>3. ASSUME NEW t \in Turns, ReadSession(t) \/ KeepSummary(t) \/ Flush(t) PROVE TypeOK'
  <2>1. CASE ReadSession(t)
    BY <2>1 DEF ReadSession, TypeOK, Answering
  <2>2. CASE KeepSummary(t) \/ Flush(t)
    BY <2>2 DEF KeepSummary, Flush, TypeOK, Answering
  <2> QED
    BY <1>3, <2>1, <2>2
<1>4. ASSUME NEW t \in Turns, ListMessages(t) PROVE TypeOK'
  <2>1. row[t].tells \cup {m.id : m \in NewMessages(t)} \in SUBSET Id
    <3>1. row[t].tells \in SUBSET Id
      BY DEF TypeOK, Summaries
    <3>2. \A m \in NewMessages(t) : m.id \in Id
      BY DEF TypeOK, NewMessages
    <3> QED
      BY <3>1, <3>2
  <2>2. draft' \in [Turns -> Summaries]
    BY <1>4, <2>1 DEF ListMessages, TypeOK, Summaries
  <2> QED
    BY <1>4, <2>2 DEF ListMessages, TypeOK, Answering
<1>5. ASSUME NEW t \in Turns, Fold(t) PROVE TypeOK'
  <2>1. draft' \in [Turns -> Summaries] /\ now' = now + 1
    BY <1>5 DEF Fold, TypeOK, Summaries
  <2>2. 0..(now - 1) \subseteq 0..(now' - 1) /\ 1..(now - 1) \subseteq 1..(now' - 1)
    BY <2>1 DEF TypeOK
  <2>3. messages' \subseteq [id : Id, at : 1..(now' - 1)]
    BY <1>5, <2>2 DEF Fold, TypeOK
  <2>4. summary' \in Summaries /\ summary'.at < now'
    <3>1. summary' = summary /\ summary.at \in Nat
      BY <1>5 DEF Fold, TypeOK, Summaries
    <3> QED
      BY <2>1, <3>1 DEF TypeOK
  <2>5. began' \in [Turns -> 0..(now' - 1)]
    BY <1>5, <2>1, <2>2 DEF Fold, TypeOK
  <2>6. pc' \in [Turns -> {"idle", "ask", "asked", "done", "failed"} \cup Answering]
    BY <1>5 DEF Fold, TypeOK, Answering
  <2>7. UNCHANGED <<row, title, holder, condensed, overlaps>> /\ now' \in Nat \ {0}
    BY <1>5, <2>1 DEF Fold, TypeOK
  <2> QED
    BY <2>1, <2>3, <2>4, <2>5, <2>6, <2>7 DEF TypeOK
<1>6. ASSUME NEW t \in Turns, StoreReply(t) PROVE TypeOK'
  <2>1. Message(t, "assistant", began[t]) \in [id : Id, at : 1..(now - 1)]
    BY <1>6, MessageType DEF StoreReply, BeganInv, UnderWay, Answering
  <2>2. summary' \in {summary, draft[t]} /\ summary' \in Summaries /\ summary'.at < now
    BY <1>6 DEF StoreReply, TypeOK, TimeInv
  <2>3. condensed' \subseteq Turns /\ holder' \in Turns \cup {NoTurn}
    BY <1>6 DEF StoreReply, Release, TypeOK
  <2> QED
    BY <1>6, <2>1, <2>2, <2>3 DEF StoreReply, TypeOK
<1>7. ASSUME NEW t \in Turns, Fail(t) PROVE TypeOK'
  BY <1>7 DEF Fail, Release, TypeOK
<1>8. CASE Purge
  BY <1>8 DEF Purge, TypeOK
<1>9. CASE UNCHANGED vars
  BY <1>9 DEF vars, TypeOK
<1> QED
  BY <1>1, <1>2, <1>3, <1>4, <1>5, <1>6, <1>7, <1>8, <1>9 DEF Next, Answer

\* How the turns that are under way change: one step begins one turn or moves one on.
LEMMA UnderWayKept ==
  ASSUME TypeOK, [Next]_vars
  PROVE  /\ UnderWay' \subseteq UnderWay \/ \E t \in Turns : Ask(t) /\ UnderWay' = UnderWay \cup {t}
         /\ \A t \in Turns : pc[t] = "done" => pc'[t] = "done"
<1>1. ASSUME NEW t \in Turns, Ask(t)
      PROVE  UnderWay' = UnderWay \cup {t} /\ \A u \in Turns : pc[u] = "done" => pc'[u] = "done"
  BY <1>1 DEF Ask, UnderWay, TypeOK
<1>2. ASSUME NEW t \in Turns, StoreQuestion(t) \/ Answer(t) \/ Fail(t)
      PROVE  UnderWay' \subseteq UnderWay /\ \A u \in Turns : pc[u] = "done" => pc'[u] = "done"
  <2>1. /\ t \in UnderWay
        /\ \A u \in Turns \ {t} : pc'[u] = pc[u]
    BY <1>2 DEF StoreQuestion, Answer, BeginReply, ReadSession, KeepSummary, ListMessages, Fold,
                Flush, StoreReply, Fail, UnderWay, Answering, TypeOK
  <2> QED
    BY <2>1 DEF UnderWay, Answering
<1>3. CASE Purge \/ UNCHANGED vars
  BY <1>3 DEF Purge, UnderWay, vars
<1> QED
  BY <1>1, <1>2, <1>3 DEF Next

LEMMA OverlapKept ==
  ASSUME TypeOK, OverlapInv, [Next]_vars
  PROVE  OverlapInv'
<1>1. overlaps \subseteq overlaps'
  BY DEF Next, Ask, StoreQuestion, Answer, BeginReply, ReadSession, KeepSummary, ListMessages, Fold,
         Flush, StoreReply, Fail, Purge, vars
<1>2. CASE UnderWay' \subseteq UnderWay
  BY <1>1, <1>2 DEF OverlapInv
<1>3. ASSUME NEW t \in Turns, Ask(t), UnderWay' = UnderWay \cup {t} PROVE OverlapInv'
  <2>1. \A u \in UnderWay : {t, u} \in overlaps' /\ {u, t} \in overlaps'
    BY <1>3 DEF Ask
  <2> QED
    BY <1>1, <1>3, <2>1 DEF OverlapInv
<1> QED
  BY <1>2, <1>3, UnderWayKept

LEMMA LockKept ==
  ASSUME TypeOK, LockInv, [Next]_vars
  PROVE  LockInv'
<1>1. ASSUME NEW t \in Turns, Ask(t) \/ StoreQuestion(t) \/ Answer(t) \/ Fail(t) PROVE LockInv'
  BY <1>1 DEF LockInv, Ask, StoreQuestion, Answer, BeginReply, ReadSession, KeepSummary,
         ListMessages, Fold, Flush, StoreReply, Fail, Release, TypeOK, Answering
<1>2. CASE Purge \/ UNCHANGED vars
  BY <1>2 DEF Purge, vars, LockInv
<1> QED
  BY <1>1, <1>2 DEF Next

LEMMA DraftKept ==
  ASSUME [Next]_vars
  PROVE  draft' = draft \/ \E t \in Turns : ListMessages(t) \/ Fold(t)
BY DEF Next, Ask, StoreQuestion, Answer, BeginReply, ReadSession, KeepSummary, Flush, StoreReply,
       Fail, Purge, vars

LEMMA TimeKept ==
  ASSUME TypeOK, TimeInv, [Next]_vars
  PROVE  TimeInv'
<1>1. now \in Nat /\ now' \in {now, now + 1}
  BY DEF TypeOK, Next, Ask, StoreQuestion, Answer, BeginReply, ReadSession, KeepSummary,
         ListMessages, Fold, Flush, StoreReply, Fail, Purge, vars
<1>2. \A t \in Turns : draft[t].at \in Nat
  BY DEF TypeOK, Summaries
<1>3. \A t \in Turns : draft'[t].at = draft[t].at \/ (draft'[t].at = now /\ now' = now + 1)
  <2>1. \A t \in Turns : ListMessages(t) => \A u \in Turns : draft'[u].at = draft[u].at
    BY DEF ListMessages, TypeOK, Summaries
  <2>2. \A t \in Turns : Fold(t) =>
          \A u \in Turns : draft'[u].at = draft[u].at \/ (draft'[u].at = now /\ now' = now + 1)
    BY DEF Fold, TypeOK, Summaries
  <2>3. draft' = draft \/ \E t \in Turns : ListMessages(t) \/ Fold(t)
    BY DraftKept
  <2> QED
    BY <2>1, <2>2, <2>3
<1> QED
  BY <1>1, <1>2, <1>3 DEF TimeInv

LEMMA ReplyKept ==
  ASSUME TypeOK, ReplyInv, SummaryComesWithReply, [Next]_vars
  PROVE  ReplyInv' /\ SummaryComesWithReply'
<1>1. \A t \in Turns : pc[t] = "done" => pc'[t] = "done"
  BY UnderWayKept
<1>3. /\ \A t \in Turns : row[t].tells \in SUBSET Id /\ draft[t].tells \in SUBSET Id
      /\ summary.tells \in SUBSET Id
      /\ \A m \in messages : m.id \in Id
  BY DEF TypeOK, Summaries
<1>4. \A m \in messages : m.id.role = "assistant" => pc[m.id.turn] = "done"
  BY DEF ReplyInv, Committed
<1>5. \A m \in messages' : m.id.role = "assistant" => pc'[m.id.turn] = "done"
  <2>1. messages' \subseteq messages
          \/ \E t \in Turns : StoreQuestion(t) \/ StoreReply(t)
    BY DEF Next, Ask, Answer, BeginReply, ReadSession, KeepSummary, ListMessages, Fold, Flush, Fail,
           Purge, vars
  <2>2. \A m \in messages : m.id.role = "assistant" => pc'[m.id.turn] = "done"
    BY <1>1, <1>3, <1>4 DEF Id
  <2>3. ASSUME NEW t \in Turns, StoreQuestion(t) \/ StoreReply(t)
        PROVE  \A m \in messages' : m.id.role = "assistant" => pc'[m.id.turn] = "done"
    <3>1. \A m \in messages' : m \in messages
             \/ (m.id.turn = t /\ (m.id.role = "user" \/ pc'[t] = "done"))
      BY <2>3 DEF StoreQuestion, StoreReply, Message, TypeOK
    <3> QED
      BY <2>2, <3>1
  <2> QED
    BY <2>1, <2>2, <2>3
<1>6. \A t \in Turns : Committed(row[t].tells)'
  <2>1. row' = row \/ \E t \in Turns : ReadSession(t)
    BY DEF Next, Ask, StoreQuestion, Answer, BeginReply, KeepSummary, ListMessages, Fold, Flush,
           StoreReply, Fail, Purge, vars
  <2>2. \A t \in Turns : row'[t] \in {row[t], summary}
    BY <2>1 DEF ReadSession, TypeOK
  <2>3. Committed(summary.tells)
    BY DEF SummaryComesWithReply, Committed
  <2> QED
    BY <1>1, <1>3, <2>2, <2>3 DEF ReplyInv, Committed, Id
<1>7. \A t \in Turns : Committed(draft[t].tells)'
  <2>1. ASSUME NEW t \in Turns, ListMessages(t)
        PROVE  \A u \in Turns : \A id \in draft'[u].tells :
                 id \in draft[u].tells \/ id \in row[u].tells \/ \E m \in messages : id = m.id
    BY <2>1 DEF ListMessages, NewMessages, TypeOK, Summaries
  <2>2. ASSUME NEW t \in Turns, Fold(t) PROVE \A u \in Turns : draft'[u].tells = draft[u].tells
    BY <2>2 DEF Fold, TypeOK, Summaries
  <2>3. \A u \in Turns : \A id \in draft'[u].tells :
          id \in draft[u].tells \/ id \in row[u].tells \/ \E m \in messages : id = m.id
    BY <2>1, <2>2, DraftKept
  <2>4. \A u \in Turns : \A id \in draft'[u].tells :
          id \in Id /\ (id.role = "assistant" => pc[id.turn] = "done")
    BY <1>3, <1>4, <2>3 DEF ReplyInv, Committed
  <2> QED
    BY <1>1, <2>4 DEF Committed, Id
<1>8. SummaryComesWithReply'
  <2>1. \/ summary' = summary /\ condensed' = condensed
        \/ \E t \in Turns : StoreReply(t)
    BY DEF Next, Ask, StoreQuestion, Answer, BeginReply, ReadSession, KeepSummary, ListMessages,
           Fold, Flush, Fail, Purge, vars
  <2>2. \/ summary' = summary /\ condensed' = condensed
        \/ \E t \in Turns :
             /\ summary' \in {summary, draft[t]}
             /\ condensed' = condensed \/ (condensed' = condensed \cup {t} /\ pc'[t] = "done")
    BY <2>1 DEF StoreReply, TypeOK
  <2>3. \A id \in summary'.tells : id \in Id /\ (id.role = "assistant" => pc[id.turn] = "done")
    BY <1>3, <2>2 DEF ReplyInv, SummaryComesWithReply, Committed
  <2>4. \A t \in condensed : pc'[t] = "done"
    BY <1>1 DEF SummaryComesWithReply, TypeOK
  <2> QED
    BY <1>1, <2>2, <2>3, <2>4 DEF SummaryComesWithReply, Id
<1> QED
  BY <1>5, <1>6, <1>7, <1>8 DEF ReplyInv, Committed

-----------------------------------------------------------------------------
(* What the summary forgets *)

LEMMA ExcusedKept ==
  ASSUME [Next]_vars
  PROVE  /\ condensed \subseteq condensed' /\ overlaps \subseteq overlaps'
         /\ \A m : Excused(m) => Excused(m)'
<1>1. condensed \subseteq condensed' /\ overlaps \subseteq overlaps'
  BY DEF Next, Ask, StoreQuestion, Answer, BeginReply, ReadSession, KeepSummary, ListMessages, Fold,
         Flush, StoreReply, Fail, Purge, vars
<1> QED
  BY <1>1 DEF Excused

\* A message appears when its turn stores it.
Stores(m, t) ==
  /\ StoreQuestion(t) \/ StoreReply(t)
  /\ m.id.turn = t
  /\ m.id.role = (IF StoreReply(t) THEN "assistant" ELSE "user")
  /\ m.at = began[t]

LEMMA MessagesKept ==
  ASSUME [Next]_vars, NEW m \in messages', m \notin messages
  PROVE  \E t \in UnderWay : Stores(m, t)
<1>1. PICK t \in Turns : StoreQuestion(t) \/ StoreReply(t)
  BY DEF Next, Ask, Answer, BeginReply, ReadSession, KeepSummary, ListMessages, Fold, Flush, Fail,
         Purge, vars
<1>2. t \in UnderWay
  BY <1>1 DEF StoreQuestion, StoreReply, UnderWay, Answering
<1>3. CASE StoreReply(t)
  <2>1. m = Message(t, "assistant", began[t])
    BY <1>3 DEF StoreReply
  <2>2. m.id.turn = t /\ m.id.role = "assistant" /\ m.at = began[t]
    BY <2>1 DEF Message
  <2> QED
    BY <1>2, <1>3, <2>2 DEF Stores
<1>4. CASE ~StoreReply(t)
  BY <1>1, <1>2, <1>4 DEF StoreQuestion, Message, Stores
<1> QED
  BY <1>3, <1>4

\* A turn's messages are excused if another turn is under way with it.
LEMMA OthersExcused ==
  ASSUME OverlapInv, [Next]_vars, NEW u \in UnderWay, NEW m \in messages', m \notin messages
  PROVE  Excused(m)' \/ Stores(m, u)
<1>1. PICK t \in UnderWay : Stores(m, t)
  BY MessagesKept
<1>2. CASE t # u
  <2>1. {t, u} \in overlaps' /\ u \in Turns \ {t}
    BY <1>2, ExcusedKept DEF OverlapInv, UnderWay
  <2> QED
    BY <1>1, <2>1 DEF Excused, Stores
<1> QED
  BY <1>1, <1>2

LEMMA BeganKept ==
  ASSUME TypeOK, OverlapInv, BeganInv, [Next]_vars
  PROVE  BeganInv'
<1> SUFFICES ASSUME NEW t \in UnderWay'
             PROVE  began'[t] # 0 /\ (Alone(t)' => summary'.at < began'[t])
  BY DEF BeganInv
<1>0. t \in Turns
  BY DEF UnderWay
<1>1. CASE Ask(t) \/ BeginReply(t)
  BY <1>0, <1>1 DEF Ask, BeginReply, TypeOK
<1>2. CASE ~(Ask(t) \/ BeginReply(t))
  <2>1. t \in UnderWay
    <3>1. CASE UnderWay' \subseteq UnderWay
      BY <3>1
    <3>2. ASSUME NEW u \in Turns, Ask(u), UnderWay' = UnderWay \cup {u} PROVE t \in UnderWay
      BY <1>2, <3>2
    <3> QED
      BY <3>1, <3>2, UnderWayKept
  <2>2. began'[t] = began[t]
    <3>1. began' = began \/ \E u \in Turns : Ask(u) \/ BeginReply(u)
      BY DEF Next, StoreQuestion, Answer, ReadSession, KeepSummary, ListMessages, Fold, Flush,
             StoreReply, Fail, Purge, vars
    <3>2. ASSUME NEW u \in Turns, Ask(u) \/ BeginReply(u) PROVE began'[t] = began[t]
      <4>1. u # t
        BY <1>2, <3>2
      <4> QED
        BY <1>0, <3>2, <4>1 DEF Ask, BeginReply, TypeOK
    <3> QED
      BY <3>1, <3>2
  <2>3. CASE summary' = summary
    BY <2>1, <2>2, <2>3, ExcusedKept DEF BeganInv, Alone
  <2>4. CASE summary' # summary
    <3>1. PICK u \in Turns : StoreReply(u)
      BY <2>4 DEF Next, Ask, StoreQuestion, Answer, BeginReply, ReadSession, KeepSummary,
         ListMessages, Fold, Flush, Fail, Purge, vars
    <3>2. u \in UnderWay /\ u # t
      BY <1>0, <3>1 DEF StoreReply, UnderWay, Answering, TypeOK
    <3>3. {t, u} \in overlaps'
      BY <2>1, <3>2, ExcusedKept DEF OverlapInv
    <3> QED
      BY <2>1, <2>2, <3>2, <3>3 DEF Alone, BeganInv
  <2> QED
    BY <2>3, <2>4
<1> QED
  BY <1>1, <1>2

LEMMA ReadKept ==
  ASSUME TypeOK, OverlapInv, ReadInv, ForgottenOnlyByOverlap, [Next]_vars
  PROVE  ReadInv'
<1> SUFFICES ASSUME NEW t \in Turns, pc'[t] = "list", NEW m \in messages'
             PROVE  m.id \in row'[t].tells \/ m.at > row'[t].at \/ Excused(m)'
  BY DEF ReadInv
<1>1. CASE ReadSession(t)
  <2>1. row'[t] = summary /\ messages' = messages
    BY <1>1 DEF ReadSession, TypeOK
  <2>2. m.at \in Nat /\ summary.at \in Nat
    BY <2>1 DEF TypeOK, Summaries
  <2>3. Forgotten(m) => Excused(m)
    BY <2>1 DEF ForgottenOnlyByOverlap, Excused
  <2> QED
    BY <2>1, <2>2, <2>3, ExcusedKept DEF Forgotten
<1>2. CASE ~ReadSession(t)
  <2>1. pc[t] = "list" /\ row'[t] = row[t]
    BY <1>2 DEF Next, Ask, StoreQuestion, Answer, BeginReply, ReadSession, KeepSummary,
                ListMessages, Fold, Flush, StoreReply, Fail, Purge, vars, TypeOK
  <2>2. CASE m \in messages
    BY <2>1, <2>2, ExcusedKept DEF ReadInv
  <2>3. CASE m \notin messages
    <3>1. ~Stores(m, t) /\ t \in UnderWay
      BY <2>1 DEF Stores, StoreQuestion, StoreReply, UnderWay, Answering
    <3> QED
      BY <2>3, <3>1, OthersExcused
  <2> QED
    BY <2>2, <2>3
<1> QED
  BY <1>1, <1>2

LEMMA WritersKept ==
  ASSUME TypeOK, LockInv, OverlapInv, ReadInv, DraftInv, [Next]_vars
  PROVE  DraftInv'
<1> SUFFICES ASSUME NEW t \in Turns, pc'[t] \in {"fold", "flush"} \/ holder' = t,
                    NEW m \in messages'
             PROVE  m.id \in draft'[t].tells \/ Excused(m)'
  BY DEF DraftInv
<1>1. CASE ListMessages(t)
  <2>1. /\ messages' = messages /\ pc[t] = "list"
        /\ draft'[t].tells = row[t].tells \cup {n.id : n \in NewMessages(t)}
    BY <1>1 DEF ListMessages, TypeOK, Summaries
  <2> QED
    BY <2>1, ExcusedKept DEF ReadInv, NewMessages
<1>2. CASE ~ListMessages(t)
  <2>1. pc[t] \in {"fold", "flush"} \/ holder = t
    <3>1. ASSUME NEW u \in Turns, Ask(u) \/ StoreQuestion(u) \/ BeginReply(u) \/ ReadSession(u)
                                   \/ KeepSummary(u)
          PROVE  pc[t] \in {"fold", "flush"} \/ holder = t
      BY <3>1 DEF Ask, StoreQuestion, BeginReply, ReadSession, KeepSummary, TypeOK
    <3>2. ASSUME NEW u \in Turns, ListMessages(u) \/ Fold(u) \/ Flush(u)
          PROVE  pc[t] \in {"fold", "flush"} \/ holder = t
      BY <1>2, <3>2 DEF ListMessages, Fold, Flush, TypeOK
    <3>3. ASSUME NEW u \in Turns, StoreReply(u) \/ Fail(u)
          PROVE  pc[t] \in {"fold", "flush"} \/ holder = t
      BY <3>3 DEF StoreReply, Fail, Release, TypeOK
    <3>4. CASE Purge \/ UNCHANGED vars
      BY <3>4 DEF Purge, vars
    <3> QED
      BY <3>1, <3>2, <3>3, <3>4 DEF Next, Answer
  <2>2. draft'[t].tells = draft[t].tells
    <3>1. ASSUME NEW u \in Turns \ {t}, ListMessages(u) PROVE draft'[t] = draft[t]
      BY <3>1 DEF ListMessages, TypeOK
    <3>2. ASSUME NEW u \in Turns, Fold(u) PROVE draft'[t].tells = draft[t].tells
      BY <3>2 DEF Fold, TypeOK, Summaries
    <3> QED
      BY <1>2, <3>1, <3>2, DraftKept
  <2>3. CASE m \in messages
    BY <2>1, <2>2, <2>3, ExcusedKept DEF DraftInv
  <2>4. CASE m \notin messages
    <3>1. t \in UnderWay
      BY <2>1 DEF LockInv, UnderWay, Answering
    <3>2. ~Stores(m, t)
      BY <2>1 DEF LockInv, Stores, StoreQuestion, StoreReply, Release, TypeOK
    <3> QED
      BY <2>4, <3>1, <3>2, OthersExcused
  <2> QED
    BY <2>3, <2>4
<1> QED
  BY <1>1, <1>2

LEMMA ForgettingKept ==
  ASSUME TypeOK, OverlapInv, BeganInv, DraftInv, ForgottenOnlyByOverlap, [Next]_vars
  PROVE  ForgottenOnlyByOverlap'
<1> SUFFICES ASSUME NEW m \in messages', Forgotten(m)' PROVE Excused(m)'
  BY DEF ForgottenOnlyByOverlap, Excused
<1>1. CASE summary' # summary
  <2>1. PICK t \in Turns : StoreReply(t)
    BY <1>1 DEF Next, Ask, StoreQuestion, Answer, BeginReply, ReadSession, KeepSummary,
       ListMessages, Fold, Flush, Fail, Purge, vars
  <2>2. holder = t /\ summary' = draft[t] /\ t \in condensed'
    BY <1>1, <2>1 DEF StoreReply
  <2>3. CASE m \in messages
    BY <2>2, <2>3, ExcusedKept DEF Forgotten, DraftInv
  <2>4. CASE m \notin messages
    BY <2>1, <2>2, <2>4 DEF StoreReply, Message, Excused
  <2> QED
    BY <2>3, <2>4
<1>2. CASE summary' = summary /\ m \in messages
  BY <1>2, ExcusedKept DEF Forgotten, ForgottenOnlyByOverlap, Excused
<1>3. CASE summary' = summary /\ m \notin messages
  <2>1. PICK t \in UnderWay : Stores(m, t)
    BY <1>3, MessagesKept
  <2>2. t \in Turns /\ began[t] \in Nat /\ summary.at \in Nat
    BY DEF UnderWay, TypeOK, Summaries
  <2>3. ~Alone(t)
    BY <1>3, <2>1, <2>2 DEF Forgotten, Stores, BeganInv
  <2> QED
    BY <2>1, <2>3, ExcusedKept DEF Alone, Excused, Stores
<1> QED
  BY <1>1, <1>2, <1>3

-----------------------------------------------------------------------------
LEMMA SpecIInv == Spec => []IInv
<1>1. IInv /\ [Next]_vars => IInv'
  BY TypeKept, TimeKept, LockKept, OverlapKept, ReplyKept, BeganKept, ReadKept, WritersKept,
     ForgettingKept DEF IInv
<1> QED
  BY <1>1, InitIInv, PTL DEF Spec

\* Every variable has its type, and every stamp was read from the clock.
THEOREM TypeCorrect == Spec => []TypeOK
<1>1. IInv => TypeOK
  BY DEF IInv
<1> QED
  BY <1>1, SpecIInv, PTL

\* A summary is stored with its turn's reply, and tells of no reply that was rolled back.
THEOREM SummaryHasReply == Spec => []SummaryComesWithReply
<1>1. IInv => SummaryComesWithReply
  BY DEF IInv
<1> QED
  BY <1>1, SpecIInv, PTL

\* The rolling summary leaves out nothing but the replies of the turns that made one, and
\* messages of turns that overlapped, whatever fails or is purged.
THEOREM ForgetsOnlyOverlaps == Spec => []ForgottenOnlyByOverlap
<1>1. IInv => ForgottenOnlyByOverlap
  BY DEF IInv
<1> QED
  BY <1>1, SpecIInv, PTL

-----------------------------------------------------------------------------
(* What a step may do to the session's lock and to its summary *)

\* The lock is taken free, kept by a turn that has only its reply to store, and given back
\* by the step that ends that turn.
LockGoesWithTurn ==
  \A t \in Turns :
    /\ holder' = t /\ holder # t => holder = NoTurn
    /\ holder = t => \/ holder' = t /\ pc'[t] = "reply"
                     \/ holder' = NoTurn /\ pc'[t] \in {"done", "failed"}

\* The summary is replaced only by the turn that holds the lock, and together with its
\* reply: no two summaries are written in between each other.
SummaryUnderLock ==
  summary' # summary =>
    /\ holder \in Turns /\ holder' = NoTurn
    /\ summary' = draft[holder] /\ pc'[holder] = "done"
    /\ \E m \in messages' : m.id = [turn |-> holder, role |-> "assistant"]

LEMMA LockStep ==
  ASSUME IInv, [Next]_vars
  PROVE  LockGoesWithTurn /\ SummaryUnderLock
<1> USE DEF IInv, TypeOK, LockInv, LockGoesWithTurn, SummaryUnderLock
<1>1. ASSUME NEW t \in Turns, Flush(t)
      PROVE  LockGoesWithTurn /\ SummaryUnderLock
  BY <1>1 DEF Flush
<1>2. ASSUME NEW t \in Turns, StoreReply(t)
      PROVE  LockGoesWithTurn /\ SummaryUnderLock
  <2>1. holder = t => holder' = NoTurn /\ summary' = draft[t]
    BY <1>2 DEF StoreReply, Release
  <2>2. holder # t => UNCHANGED <<holder, summary>>
    BY <1>2 DEF StoreReply, Release
  <2>3. pc'[t] = "done" /\ \A u \in Turns \ {t} : pc'[u] = pc[u]
    BY <1>2 DEF StoreReply
  <2>4. \E m \in messages' : m.id = [turn |-> t, role |-> "assistant"]
    <3>1. Message(t, "assistant", began[t]) \in messages'
      BY <1>2 DEF StoreReply
    <3>2. Message(t, "assistant", began[t]).id = [turn |-> t, role |-> "assistant"]
      BY DEF Message
    <3> QED
      BY <3>1, <3>2
  <2> QED
    BY <2>1, <2>2, <2>3, <2>4
<1>3. ASSUME NEW t \in Turns, Fail(t)
      PROVE  LockGoesWithTurn /\ SummaryUnderLock
  BY <1>3 DEF Fail, Release
<1>4. ASSUME NEW t \in Turns,
             \/ Ask(t) \/ StoreQuestion(t) \/ BeginReply(t) \/ ReadSession(t)
             \/ KeepSummary(t) \/ ListMessages(t) \/ Fold(t)
      PROVE  LockGoesWithTurn /\ SummaryUnderLock
  BY <1>4 DEF Ask, StoreQuestion, BeginReply, ReadSession, KeepSummary, ListMessages, Fold
<1>5. CASE Purge \/ UNCHANGED vars
  BY <1>5 DEF Purge, vars
<1> QED
  BY <1>1, <1>2, <1>3, <1>4, <1>5 DEF Next, Answer

\* The safety half of LockReleased: a turn that holds the lock has one step left, which
\* stores its reply or rolls it back, and gives the lock back.
THEOREM LockEndsWithTurn == Spec => [][LockGoesWithTurn]_vars
<1>1. IInv /\ [Next]_vars => [LockGoesWithTurn]_vars
  BY LockStep
<1> QED
  BY <1>1, SpecIInv, PTL DEF Spec

\* Condensations of overlapping turns do not interleave their writes: the summary changes
\* only with the reply of the turn that holds the lock.
THEOREM SummariesAreSerial == Spec => [][SummaryUnderLock]_vars
<1>1. IInv /\ [Next]_vars => [SummaryUnderLock]_vars
  BY LockStep
<1> QED
  BY <1>1, SpecIInv, PTL DEF Spec
=============================================================================
