---------------------------- MODULE RateLimiterProofs ----------------------------
(***************************************************************************)
(* The optimistic transactions of RateLimiter make every update of the     *)
(* bucket atomic, and bound what a caller is admitted, for any number of   *)
(* requests and any capacity, cost and lifetime of the hash.               *)
(***************************************************************************)
EXTENDS RateLimiter, FiniteSetTheorems, TLAPS

USE CapacityAssumption, CostAssumption, TtlAssumption, MaxAttemptsAssumption, MaxTimeAssumption
USE DEF InFlight, Verdict, NotFound

\* What the request was told is still what the hash holds, unless it will be refused.
WatchInv ==
  \A r \in Requests :
    pc[r] = "read" /\ r \notin dirty =>
      found[r] = [hash |-> hash, tokens |-> tokens, ts |-> ts]

\* Attempts are counted up to the bound, which only a failed request has used up.
AttemptInv == \A r \in Requests : pc[r] \in InFlight \cup {"idle"} => attempts[r] < MaxAttempts

\* A held hash has credited refills up to its ts; the requests admitted so far and
\* the tokens left have come out of those.  An absent one is full, and so must have
\* been refilled since.
LedgerInv ==
  /\ hash = "held" => /\ spent + tokens <= Capacity + ts + regress
                /\ asOf = ts
                /\ ts <= written
  /\ hash = "absent" => spent <= asOf + regress

IInv == TypeOK /\ WatchInv /\ AttemptInv /\ LedgerInv

-----------------------------------------------------------------------------

LEMMA InitIInv == Init => IInv
<1> SUFFICES ASSUME Init PROVE IInv
  OBVIOUS
<1> USE DEF Init, Bucket!Init
<1>1. Bucket!TypeOK /\ LedgerInv
  BY DEF Bucket!TypeOK, LedgerInv
<1>2. TypeOK
  BY <1>1 DEF TypeOK
<1>3. WatchInv
  BY DEF WatchInv
<1>4. AttemptInv
  BY DEF AttemptInv
<1> QED
  BY <1>1, <1>2, <1>3, <1>4 DEF IInv

\* The bucket after an update is in range.
LEMMA UnitsInRange ==
  ASSUME NEW f \in {"absent", "held"}, NEW tok \in 0..Capacity, NEW last \in Int, NEW t \in Int
  PROVE  /\ Bucket!Refilled(f, tok, last, t) \in 0..Capacity
         /\ Bucket!Left(Bucket!Refilled(f, tok, last, t)) \in 0..Capacity
  BY DEF Bucket!Refilled, Bucket!Left, Bucket!Admits, Bucket!Least, Bucket!Positive

\* An unconflicted EXEC is one atomic update at the time the request read.
LEMMA ExecIsUpdate ==
  ASSUME IInv, NEW r \in Requests, Apply(r)
  PROVE  Bucket!Update(at[r])
<1>1. found[r] = [hash |-> hash, tokens |-> tokens, ts |-> ts]
  BY DEF Apply, IInv, WatchInv
<1>2. Units(r) = Bucket!Refilled(hash, tokens, ts, at[r])
  BY <1>1 DEF Units
<1> QED
  BY <1>2 DEF Apply, Bucket!Update

\* One update keeps the ledger.
LEMMA UpdateKeepsLedger ==
  ASSUME Bucket!TypeOK, LedgerInv, NEW t \in 0..now, Bucket!Update(t)
  PROVE  Bucket!TypeOK' /\ LedgerInv'
<1> DEFINE units == Bucket!Refilled(hash, tokens, ts, t)
<1>1. units \in 0..Capacity /\ Bucket!Left(units) \in 0..Capacity
  BY UnitsInRange DEF Bucket!TypeOK
<1>2. Bucket!TypeOK'
  BY <1>1 DEF Bucket!TypeOK, Bucket!Update, Bucket!Positive
<1>3. spent' + tokens' = spent + units
  BY <1>1 DEF Bucket!TypeOK, Bucket!Update, Bucket!Left, Bucket!Admits
<1>4. spent + units <= Capacity + t + regress'
  BY DEF Bucket!TypeOK, LedgerInv, Bucket!Update, Bucket!Refilled, Bucket!Least, Bucket!Positive
<1> QED
  BY <1>2, <1>3, <1>4 DEF LedgerInv, Bucket!Update, Bucket!TypeOK

\* An expired hash has had the time to refill.
LEMMA ExpiryKeepsLedger ==
  ASSUME Bucket!TypeOK, LedgerInv, Bucket!Expire
  PROVE  Bucket!TypeOK' /\ LedgerInv'
  BY DEF Bucket!TypeOK, LedgerInv, Bucket!Expire

LEMMA NextIInv == IInv /\ [Next]_vars => IInv'
<1> SUFFICES ASSUME IInv, [Next]_vars PROVE IInv'
  OBVIOUS
<1> USE DEF bucketVars, requestVars
<1>1. CASE Tick
  <2> USE <1>1 DEF Tick, Bucket!Tick, IInv
  <2>1. Bucket!TypeOK' /\ 0..now \subseteq 0..now'
    BY DEF TypeOK, Bucket!TypeOK
  <2>2. TypeOK'
    BY <2>1 DEF TypeOK
  <2>3. WatchInv' /\ AttemptInv'
    BY DEF WatchInv, AttemptInv
  <2>4. LedgerInv'
    BY DEF LedgerInv
  <2> QED
    BY <2>2, <2>3, <2>4
<1>2. CASE Expire
  <2>1. Bucket!TypeOK' /\ LedgerInv'
    BY <1>2, ExpiryKeepsLedger DEF Expire, IInv, TypeOK
  <2>2. TypeOK'
    BY <1>2, <2>1 DEF Expire, Bucket!Expire, IInv, TypeOK, Watchers
  <2>3. WatchInv' /\ AttemptInv'
    BY <1>2 DEF Expire, IInv, TypeOK, WatchInv, AttemptInv, Watchers
  <2> QED
    BY <2>1, <2>2, <2>3 DEF IInv
<1>3. ASSUME NEW r \in Requests, Arrive(r) PROVE IInv'
  <2> USE <1>3 DEF Arrive, IInv
  <2>1. Bucket!TypeOK' /\ LedgerInv'
    BY DEF TypeOK, Bucket!TypeOK, LedgerInv
  <2>2. TypeOK'
    <3>1. at' \in [Requests -> 0..now']
      BY DEF TypeOK, Bucket!TypeOK
    <3>2. pc' \in [Requests -> InFlight \cup Verdict \cup {"idle"}]
      BY DEF TypeOK
    <3> QED
      BY <2>1, <3>1, <3>2 DEF TypeOK
  <2>3. WatchInv'
    BY DEF TypeOK, WatchInv
  <2>4. AttemptInv'
    BY DEF TypeOK, AttemptInv
  <2> QED
    BY <2>1, <2>2, <2>3, <2>4
<1>4. ASSUME NEW r \in Requests, Watch(r) PROVE IInv'
  <2> USE <1>4 DEF Watch, IInv
  <2>1. Bucket!TypeOK' /\ LedgerInv'
    BY DEF TypeOK, Bucket!TypeOK, LedgerInv
  <2>2. TypeOK' /\ AttemptInv'
    BY <2>1 DEF TypeOK, AttemptInv
  <2>3. WatchInv'
    BY DEF TypeOK, WatchInv
  <2> QED
    BY <2>1, <2>2, <2>3
<1>5. ASSUME NEW r \in Requests, Read(r) PROVE IInv'
  <2> USE <1>5 DEF Read, IInv
  <2>1. Bucket!TypeOK' /\ LedgerInv'
    BY DEF TypeOK, Bucket!TypeOK, LedgerInv
  <2>2. TypeOK'
    BY <2>1 DEF TypeOK, Bucket!TypeOK
  <2>3. WatchInv'
    BY DEF TypeOK, WatchInv
  <2>4. AttemptInv'
    BY DEF TypeOK, AttemptInv
  <2> QED
    BY <2>1, <2>2, <2>3, <2>4
<1>6. ASSUME NEW r \in Requests, Exec(r) \/ LoseAnswer(r) PROVE IInv'
  <2>1. Bucket!Update(at[r]) /\ at[r] \in 0..now
    BY <1>6, ExecIsUpdate DEF Exec, LoseAnswer, IInv, TypeOK
  <2>2. Bucket!TypeOK' /\ LedgerInv'
    BY <2>1, UpdateKeepsLedger DEF IInv, TypeOK
  <2>3. TypeOK' /\ AttemptInv'
    <3>1. CASE Exec(r)
      BY <3>1, <2>2 DEF Exec, Apply, IInv, TypeOK, AttemptInv, Watchers
    <3>2. CASE LoseAnswer(r)
      BY <3>2, <2>2 DEF LoseAnswer, Apply, TryAgain, IInv, TypeOK, AttemptInv, Watchers
    <3> QED
      BY <1>6, <3>1, <3>2
  <2>4. WatchInv'
    BY <1>6 DEF Exec, LoseAnswer, Apply, TryAgain, IInv, TypeOK, WatchInv, Watchers
  <2> QED
    BY <2>2, <2>3, <2>4 DEF IInv
<1>7. ASSUME NEW r \in Requests, Conflict(r) \/ LoseExec(r) \/ LoseConnection(r) PROVE IInv'
  <2> USE DEF IInv
  <2>0. UNCHANGED <<bucketVars, at, found, dirty, lost>>
    BY <1>7 DEF Conflict, LoseExec, LoseConnection
  <2>1. Bucket!TypeOK' /\ LedgerInv'
    BY <2>0 DEF TypeOK, Bucket!TypeOK, LedgerInv
  <2>2. TypeOK' /\ AttemptInv'
    <3>1. CASE LoseConnection(r)
      BY <3>1, <2>0, <2>1 DEF LoseConnection, TypeOK, AttemptInv
    <3>2. CASE Conflict(r) \/ LoseExec(r)
      <4>1. attempts[r] < MaxAttempts /\ TryAgain(r)
        BY <3>2 DEF Conflict, LoseExec, AttemptInv
      <4> QED
        BY <4>1, <2>0, <2>1 DEF TryAgain, TypeOK, AttemptInv
    <3> QED
      BY <1>7, <3>1, <3>2
  <2>3. WatchInv'
    BY <1>7, <2>0 DEF Conflict, LoseExec, LoseConnection, TryAgain, TypeOK, WatchInv
  <2> QED
    BY <2>1, <2>2, <2>3
<1>8. CASE UNCHANGED vars
  BY <1>8 DEF vars, IInv, TypeOK, Bucket!TypeOK, WatchInv, AttemptInv, LedgerInv
<1> QED
  BY <1>1, <1>2, <1>3, <1>4, <1>5, <1>6, <1>7, <1>8 DEF Next, Serve, Fault

LEMMA Inductive == Spec => []IInv
  BY InitIInv, NextIInv, PTL DEF Spec

\* Every variable has its type, and no request makes more than MaxAttempts attempts.
THEOREM TypeCorrect == Spec => []TypeOK
<1>1. IInv => TypeOK
  BY DEF IInv
<1> QED
  BY Inductive, <1>1, PTL

\* However requests interleave, what a caller is admitted is bounded by one burst, the
\* refill since the start and what late updates refill twice.
THEOREM AdmissionIsBounded == Spec => []AdmissionBounded
<1>1. IInv => AdmissionBounded
  BY DEF IInv, TypeOK, Bucket!TypeOK, LedgerInv, AdmissionBounded, Bucket!AdmissionBounded
<1> QED
  BY Inductive, <1>1, PTL

\* WATCH, HGETALL, EXEC and the retries of any number of requests implement a bucket
\* whose updates are atomic.
THEOREM Implements == Spec => ImplementsTokenBucket
<1>1. Init => Bucket!Init
  BY DEF Init
<1>2. IInv /\ [Next]_vars => [Bucket!Next]_(Bucket!vars)
  <2> SUFFICES ASSUME IInv, [Next]_vars PROVE [Bucket!Next]_(Bucket!vars)
    OBVIOUS
  <2> USE DEF Bucket!Next, Bucket!vars, bucketVars
  <2>1. ASSUME NEW r \in Requests, Exec(r) \/ LoseAnswer(r) PROVE Bucket!Next
    BY <2>1, ExecIsUpdate DEF Exec, LoseAnswer, IInv, TypeOK
  <2>2. CASE Tick \/ Expire
    BY <2>2 DEF Tick, Expire
  <2>3. ASSUME NEW r \in Requests, \/ Arrive(r) \/ Watch(r) \/ Read(r) \/ Conflict(r)
                                   \/ LoseExec(r) \/ LoseConnection(r)
        PROVE  UNCHANGED Bucket!vars
    BY <2>3 DEF Arrive, Watch, Read, Conflict, LoseExec, LoseConnection
  <2>4. CASE UNCHANGED vars
    BY <2>4 DEF vars
  <2> QED
    BY <2>1, <2>2, <2>3, <2>4 DEF Next, Serve, Fault
<1> QED
  BY <1>1, <1>2, Inductive, PTL DEF Spec, ImplementsTokenBucket, Bucket!Spec

-----------------------------------------------------------------------------
(* Payment                                                                 *)

Admitted == {r \in Requests : pc[r] = "allowed"}

LEMMA PaymentStep ==
  ASSUME IsFiniteSet(Requests), IInv, AdmittedArePaid, [Next]_vars
  PROVE  AdmittedArePaid'
<1> USE DEF Admitted
<1>1. IsFiniteSet(Admitted)
  BY FS_Subset
<1>2. AdmittedArePaid <=> spent = Cost * (Cardinality(Admitted) + lost)
  BY DEF AdmittedArePaid
<1>3. AdmittedArePaid' <=> spent' = Cost * (Cardinality(Admitted') + lost')
  BY DEF AdmittedArePaid
<1>4. ASSUME UNCHANGED <<spent, lost>>, Admitted' = Admitted PROVE AdmittedArePaid'
  BY <1>2, <1>3, <1>4
<1>5. ASSUME NEW r \in Requests, Exec(r) \/ LoseAnswer(r) PROVE AdmittedArePaid'
  <2>1. r \notin Admitted /\ Cardinality(Admitted) \in Nat /\ lost \in Nat /\ spent \in Nat
    BY <1>1, <1>5, FS_CardinalityType DEF Exec, LoseAnswer, Apply, IInv, TypeOK, Bucket!TypeOK
  <2>2. CASE Bucket!Admits(Units(r))
    <3>1. Cardinality(Admitted') + lost' = Cardinality(Admitted) + lost + 1
      <4>1. CASE Exec(r)
        <5>1. Admitted' = Admitted \cup {r} /\ lost' = lost
          BY <4>1, <2>2 DEF Exec, IInv, TypeOK
        <5>2. Cardinality(Admitted') = Cardinality(Admitted) + 1
          BY <5>1, <2>1, <1>1, FS_AddElement
        <5> HIDE DEF Admitted
        <5> QED
          BY <5>1, <5>2, <2>1
      <4>2. CASE LoseAnswer(r)
        <5>1. Admitted' = Admitted /\ lost' = lost + 1
          BY <4>2, <2>1, <2>2 DEF LoseAnswer, TryAgain, IInv, TypeOK
        <5> HIDE DEF Admitted
        <5> QED
          BY <5>1, <2>1
      <4> QED
        BY <1>5, <4>1, <4>2
    <3>2. spent' = spent + Cost
      BY <1>5, <2>2 DEF Exec, LoseAnswer, Apply
    <3>3. Cost * (Cardinality(Admitted) + lost + 1) = Cost * (Cardinality(Admitted) + lost) + Cost
      BY <2>1
    <3> QED
      BY <1>2, <1>3, <3>1, <3>2, <3>3
  <2>3. CASE ~Bucket!Admits(Units(r))
    <3>1. Admitted' = Admitted /\ UNCHANGED <<spent, lost>>
      BY <1>5, <2>1, <2>3 DEF Exec, LoseAnswer, Apply, TryAgain, IInv, TypeOK
    <3> QED
      BY <3>1, <1>4
  <2> QED
    BY <2>2, <2>3
<1>6. ASSUME NEW r \in Requests, \/ Arrive(r) \/ Watch(r) \/ Read(r) \/ Conflict(r)
                                 \/ LoseExec(r) \/ LoseConnection(r)
      PROVE  AdmittedArePaid'
  <2>1. Admitted' = Admitted /\ UNCHANGED <<spent, lost>>
    BY <1>6 DEF Arrive, Watch, Read, Conflict, LoseExec, LoseConnection, TryAgain, bucketVars, IInv, TypeOK
  <2> QED
    BY <2>1, <1>4
<1>7. CASE Tick \/ Expire \/ UNCHANGED vars
  <2>1. Admitted' = Admitted /\ UNCHANGED <<spent, lost>>
    BY <1>7 DEF Tick, Bucket!Tick, Expire, Bucket!Expire, vars, bucketVars, requestVars
  <2> QED
    BY <2>1, <1>4
<1> QED
  BY <1>5, <1>6, <1>7 DEF Next, Serve, Fault

\* Each of the finitely many requests that is admitted has paid, and nothing else is
\* taken from the bucket than what answers that were lost had paid for.
THEOREM AdmittedHavePaid == ASSUME IsFiniteSet(Requests) PROVE Spec => []AdmittedArePaid
<1>1. Init => AdmittedArePaid
  <2> SUFFICES ASSUME Init PROVE AdmittedArePaid
    OBVIOUS
  <2>1. {r \in Requests : pc[r] = "allowed"} = {}
    BY DEF Init
  <2> QED
    BY <2>1, FS_EmptySet DEF Init, Bucket!Init, AdmittedArePaid
<1>2. IInv /\ AdmittedArePaid /\ [Next]_vars => AdmittedArePaid'
  BY PaymentStep
<1> QED
  BY <1>1, <1>2, Inductive, PTL DEF Spec
-----------------------------------------------------------------------------
(* Contention *)

\* No connection is lost and the hash does not expire.
QuietStep == Tick \/ \E r \in Requests : Arrive(r) \/ Serve(r)
Quiet == [][QuietStep]_vars

Answered(r) == {q \in Requests \ {r} : pc[q] \in {"allowed", "denied"}}
Conflicting(r) == pc[r] \in {"watching", "read"} /\ r \in dirty

\* Each conflict a request has met, and the one it is about to meet, is the update of
\* another request, which that one has had its answer from.
ConflictInv ==
  \A r \in Requests :
    attempts[r] + (IF Conflicting(r) THEN 1 ELSE 0) <= Cardinality(Answered(r))

\* Without faults a request fails by running out of attempts.
FailedInv == \A r \in Requests : pc[r] = "error" => attempts[r] = MaxAttempts

\* Out of attempts are requests only that MaxAttempts others have overtaken.
ErrorIsOvertaken ==
  \A r \in Requests : pc[r] = "error" => Cardinality(Answered(r)) >= MaxAttempts

LEMMA AnsweredType ==
  ASSUME IsFiniteSet(Requests), NEW r
  PROVE  IsFiniteSet(Answered(r)) /\ Cardinality(Answered(r)) \in Nat
BY FS_Subset, FS_CardinalityType DEF Answered

\* What the step of another request makes of a request's conflicts.
LEMMA OthersStep ==
  ASSUME IInv, NEW r \in Requests, NEW q \in Requests \ {r}, Arrive(q) \/ Serve(q)
  PROVE  /\ attempts'[r] = attempts[r] /\ pc'[r] = pc[r]
         /\ \/ Answered(r)' = Answered(r) /\ (Conflicting(r)' => Conflicting(r))
            \/ Answered(r)' = Answered(r) \cup {q} /\ q \notin Answered(r)
<1> USE DEF IInv, TypeOK
<1>1. CASE Arrive(q) \/ Watch(q) \/ Read(q)
  BY <1>1 DEF Arrive, Watch, Read, Answered, Conflicting
<1>2. CASE Conflict(q)
  <2>1. /\ pc[q] = "read" /\ pc'[q] \in {"arrived", "error"}
        /\ \A p \in Requests \ {q} : pc'[p] = pc[p] /\ attempts'[p] = attempts[p]
        /\ UNCHANGED dirty
    BY <1>2 DEF Conflict, TryAgain
  <2> QED
    BY <2>1 DEF Answered, Conflicting
<1>3. CASE Exec(q)
  <2>1. /\ pc[q] = "read" /\ pc'[q] \in {"allowed", "denied"}
        /\ \A p \in Requests \ {q} : pc'[p] = pc[p]
        /\ UNCHANGED attempts
    BY <1>3 DEF Exec, Apply
  <2>2. Answered(r)' = Answered(r) \cup {q} /\ q \notin Answered(r)
    BY <2>1 DEF Answered
  <2> QED
    BY <2>1, <2>2
<1> QED
  BY <1>1, <1>2, <1>3 DEF Serve

\* What its own step does.
LEMMA OwnStep ==
  ASSUME IInv, NEW r \in Requests, Arrive(r) \/ Serve(r)
  PROVE  /\ Answered(r)' = Answered(r)
         /\ \/ attempts'[r] = attempts[r] /\ (Conflicting(r)' => Conflicting(r))
               /\ pc'[r] # "error"
            \/ /\ attempts'[r] = attempts[r] + 1 /\ Conflicting(r) /\ ~Conflicting(r)'
               /\ pc'[r] = "error" => attempts'[r] = MaxAttempts
<1> USE DEF IInv, TypeOK
<1>1. CASE Arrive(r) \/ Watch(r) \/ Read(r)
  BY <1>1 DEF Arrive, Watch, Read, Answered, Conflicting
<1>2. CASE Conflict(r)
  BY <1>2 DEF Conflict, TryAgain, Answered, Conflicting
<1>3. CASE Exec(r)
  BY <1>3 DEF Exec, Apply, Answered, Conflicting
<1> QED
  BY <1>1, <1>2, <1>3 DEF Serve

LEMMA ConflictStep ==
  ASSUME IsFiniteSet(Requests), IInv, ConflictInv, FailedInv, QuietStep
  PROVE  ConflictInv' /\ FailedInv'
<1> DEFINE One(b) == IF b THEN 1 ELSE 0
<1> SUFFICES ASSUME NEW r \in Requests
             PROVE  /\ attempts'[r] + One(Conflicting(r)') <= Cardinality(Answered(r)')
                    /\ pc'[r] = "error" => attempts'[r] = MaxAttempts
  BY DEF ConflictInv, FailedInv
<1>1. /\ attempts[r] \in Nat
      /\ IsFiniteSet(Answered(r)) /\ Cardinality(Answered(r)) \in Nat
      /\ attempts[r] + One(Conflicting(r)) <= Cardinality(Answered(r))
      /\ pc[r] = "error" => attempts[r] = MaxAttempts
  BY AnsweredType DEF ConflictInv, FailedInv, IInv, TypeOK
<1>2. ASSUME NEW q \in Requests \ {r}, Arrive(q) \/ Serve(q)
      PROVE  /\ attempts'[r] + One(Conflicting(r)') <= Cardinality(Answered(r)')
             /\ pc'[r] = "error" => attempts'[r] = MaxAttempts
  <2>1. attempts'[r] = attempts[r] /\ pc'[r] = pc[r]
    BY <1>2, OthersStep
  <2>2. CASE Answered(r)' = Answered(r) /\ (Conflicting(r)' => Conflicting(r))
    BY <1>1, <2>1, <2>2
  <2>3. CASE Answered(r)' = Answered(r) \cup {q} /\ q \notin Answered(r)
    <3>1. Cardinality(Answered(r)') = Cardinality(Answered(r)) + 1
      BY <1>1, <2>3, FS_AddElement
    <3>2. attempts[r] <= Cardinality(Answered(r))
      BY <1>1
    <3> QED
      BY <1>1, <2>1, <3>1, <3>2
  <2> QED
    BY <1>2, <2>2, <2>3, OthersStep
<1>3. CASE Arrive(r) \/ Serve(r)
  BY <1>1, <1>3, OwnStep
<1>4. CASE Tick
  BY <1>1, <1>4 DEF Tick, requestVars, Answered, Conflicting
<1> QED
  BY <1>2, <1>3, <1>4 DEF QuietStep

\* Optimistic transactions starve no one: unless a connection is lost or the hash expires,
\* a request gives up only after MaxAttempts others were answered ahead of it, so with
\* fewer rivals each gets its verdict.
THEOREM OnlyOvertakenGiveUp ==
  ASSUME IsFiniteSet(Requests)
  PROVE  Spec /\ Quiet => []ErrorIsOvertaken
<1>1. Init => ConflictInv /\ FailedInv
  <2> SUFFICES ASSUME Init, NEW r \in Requests
               PROVE  /\ attempts[r] + (IF Conflicting(r) THEN 1 ELSE 0) <= Cardinality(Answered(r))
                      /\ pc[r] # "error"
    BY DEF ConflictInv, FailedInv
  <2>1. attempts[r] = 0 /\ ~Conflicting(r) /\ pc[r] # "error"
    BY DEF Init, Conflicting
  <2> QED
    BY <2>1, AnsweredType
<1>2. IInv /\ ConflictInv /\ FailedInv /\ [QuietStep]_vars => ConflictInv' /\ FailedInv'
  <2>1. ASSUME IInv, ConflictInv, FailedInv, UNCHANGED vars PROVE ConflictInv' /\ FailedInv'
    BY <2>1 DEF vars, requestVars, ConflictInv, FailedInv, Conflicting, Answered
  <2> QED
    BY <2>1, ConflictStep
<1>3. IInv /\ ConflictInv /\ FailedInv => ErrorIsOvertaken
  <2> SUFFICES ASSUME IInv, ConflictInv, FailedInv, NEW r \in Requests, pc[r] = "error"
               PROVE  Cardinality(Answered(r)) >= MaxAttempts
    BY DEF ErrorIsOvertaken
  <2>1. attempts[r] = MaxAttempts /\ ~Conflicting(r)
    BY DEF FailedInv, Conflicting
  <2>2. attempts[r] + 0 <= Cardinality(Answered(r))
    BY <2>1 DEF ConflictInv
  <2> QED
    BY <2>1, <2>2, AnsweredType
<1> QED
  BY <1>1, <1>2, <1>3, Inductive, PTL DEF Spec, Quiet
=============================================================================
