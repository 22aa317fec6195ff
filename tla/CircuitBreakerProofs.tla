-------------------------- MODULE CircuitBreakerProofs --------------------------
(***************************************************************************)
(* The invariants of CircuitBreaker, for any set of callers, threshold,    *)
(* cooldown and retry limit.                                               *)
(***************************************************************************)
EXTENDS CircuitBreaker, TLAPS

USE DEF None, CircuitState, Kinds, Ended, InFlight, AtMost

\* What a breaker that is not closed keeps in common, OPEN or HALF_OPEN: the failures
\* since the last success still stand, which is what makes the next counted failure
\* trip it again.  A closed one has counted exactly those failures.  Of the failures,
\* those that used up their retries are a part.
CountInv ==
  /\ exhausted <= streak
  /\ state = "closed" => /\ consecutiveFailures = streak
                         /\ streak < FailureThreshold
  /\ state # "closed" => streak = FailureThreshold

\* A call that waits to retry has a retry left.
RetryInv == \A c \in Calls : pc[c] = "backoff" => attempt[c] < MaxRetries

IInv == TypeOK /\ CountInv /\ RetryInv /\ OpenHasTimestamp /\ HalfOpenIsOwed

-----------------------------------------------------------------------------
\* record_success and record_failure, from any caller in any state, keep the types and
\* the relation between the count, the state and the failures recorded.
LEMMA RecordSuccessKeeps ==
  ASSUME IInv, RecordSuccess
  PROVE  /\ state' \in CircuitState
         /\ consecutiveFailures' \in 0..FailureThreshold
         /\ sinceOpened' \in {None} \cup 0..Cooldown
         /\ prober' \in Calls \cup {NoCall}
         /\ streak' \in 0..FailureThreshold
         /\ exhausted' \in 0..FailureThreshold
         /\ CountInv'
         /\ OpenHasTimestamp'
         /\ state' # "half_open"
BY FailureThresholdAssumption, CooldownAssumption
   DEF IInv, TypeOK, CountInv, OpenHasTimestamp, RecordSuccess

LEMMA RecordFailureKeeps ==
  ASSUME IInv, RecordFailure,
         exhausted' = AtMost(exhausted + 1, FailureThreshold) \/ exhausted' = exhausted
  PROVE  /\ state' \in CircuitState
         /\ consecutiveFailures' \in 0..FailureThreshold
         /\ sinceOpened' \in {None} \cup 0..Cooldown
         /\ prober' \in Calls \cup {NoCall}
         /\ streak' \in 0..FailureThreshold
         /\ exhausted' \in 0..FailureThreshold
         /\ CountInv'
         /\ OpenHasTimestamp'
         /\ state' # "half_open"
BY FailureThresholdAssumption, CooldownAssumption
   DEF IInv, TypeOK, CountInv, OpenHasTimestamp, RecordFailure, Trip

\* Ending a call leaves every call at a place of its own type, and the others as they
\* were.
LEMMA EndKeepsCalls ==
  ASSUME TypeOK, RetryInv, NEW c \in Calls, NEW how \in Ended, End(c, how)
  PROVE  /\ pc' \in [Calls -> InFlight \cup Ended]
         /\ kind' \in [Calls -> Kinds]
         /\ attempt' \in [Calls -> 0..MaxRetries]
         /\ RetryInv'
BY MaxRetriesAssumption DEF TypeOK, RetryInv, End

-----------------------------------------------------------------------------
LEMMA InitIInv == Init => IInv
BY FailureThresholdAssumption, MaxRetriesAssumption
   DEF Init, IInv, TypeOK, CountInv, RetryInv, OpenHasTimestamp, HalfOpenIsOwed, ProbeLost

\* One step per action; the actions that report to the breaker go through the lemmas.
LEMMA NextIInv == IInv /\ [Next]_vars => IInv'
<1> SUFFICES ASSUME IInv, [Next]_vars PROVE IInv'
    OBVIOUS
<1> USE FailureThresholdAssumption, CooldownAssumption, MaxRetriesAssumption,
        NoCallAssumption
<1>1. CASE Tick
  BY <1>1 DEF IInv, TypeOK, CountInv, RetryInv, OpenHasTimestamp,
              HalfOpenIsOwed, ProbeLost, Tick, callVars, historyVars
<1>2. ASSUME NEW c \in Calls, Reject(c) PROVE IInv'
  <2>1. /\ UNCHANGED <<breakerVars, historyVars>>
        /\ pc[c] \in Ended
        /\ End(c, "unavailable")
    BY <1>2 DEF Reject
  <2>2. TypeOK' /\ RetryInv'
    BY <2>1, EndKeepsCalls DEF IInv, TypeOK, breakerVars, historyVars
  <2>3. HalfOpenIsOwed'
    BY <2>1 DEF IInv, TypeOK, HalfOpenIsOwed, ProbeLost, End, breakerVars, historyVars
  <2> QED
    BY <2>1, <2>2, <2>3 DEF IInv, CountInv, OpenHasTimestamp, breakerVars, historyVars
<1>3. ASSUME NEW c \in Calls, NEW k \in Kinds, Admit(c, k) PROVE IInv'
  <2>1. TypeOK'
    BY <1>3 DEF IInv, TypeOK, Admit
  <2>2. CountInv' /\ RetryInv' /\ OpenHasTimestamp'
    BY <1>3 DEF IInv, TypeOK, CountInv, RetryInv, OpenHasTimestamp, Admit
  <2>3. HalfOpenIsOwed'
    BY <1>3 DEF IInv, TypeOK, HalfOpenIsOwed, ProbeLost, Admit, Admits
  <2> QED
    BY <2>1, <2>2, <2>3 DEF IInv
<1>4. ASSUME NEW c \in Calls, NEW how \in Ended, End(c, how), RecordSuccess PROVE IInv'
  BY <1>4, RecordSuccessKeeps, EndKeepsCalls DEF IInv, TypeOK, HalfOpenIsOwed
<1>5. ASSUME NEW c \in Calls, NEW how \in Ended, End(c, how), RecordFailure,
             exhausted' = AtMost(exhausted + 1, FailureThreshold) \/ exhausted' = exhausted
      PROVE  IInv'
  BY <1>5, RecordFailureKeeps, EndKeepsCalls DEF IInv, TypeOK, HalfOpenIsOwed
<1>6. ASSUME NEW c \in Calls, AttemptSucceeds(c) PROVE IInv'
  <2>1. CASE kind[c] = "embed"
    BY <1>6, <2>1, <1>4 DEF AttemptSucceeds
  <2>2. CASE kind[c] = "generate"
    BY <1>6, <2>2 DEF AttemptSucceeds, IInv, TypeOK, CountInv, RetryInv,
                      OpenHasTimestamp, HalfOpenIsOwed, ProbeLost, breakerVars, historyVars
  <2> QED
    BY <1>6, <2>1, <2>2 DEF AttemptSucceeds
<1>7. ASSUME NEW c \in Calls, RetryableError(c) \/ BackoffOver(c) PROVE IInv'
  <2>1. UNCHANGED <<kind, breakerVars, historyVars>>
    BY <1>7 DEF RetryableError, BackoffOver
  <2>2. /\ pc' \in [Calls -> InFlight \cup Ended]
        /\ \A d \in Calls : pc[d] \in InFlight => pc'[d] \in InFlight
    BY <1>7 DEF RetryableError, BackoffOver, IInv, TypeOK
  <2>3. attempt' \in [Calls -> 0..MaxRetries] /\ RetryInv'
    BY <1>7 DEF RetryableError, BackoffOver, IInv, TypeOK, RetryInv
  <2> QED
    BY <2>1, <2>2, <2>3 DEF IInv, TypeOK, CountInv, OpenHasTimestamp, HalfOpenIsOwed,
                            ProbeLost, breakerVars, historyVars
<1>8. ASSUME NEW c \in Calls, CallFails(c) \/ StreamFails(c) PROVE IInv'
  BY <1>8, <1>5 DEF CallFails, StreamFails
<1>9. ASSUME NEW c \in Calls, StreamEnds(c) PROVE IInv'
  BY <1>9, <1>4 DEF StreamEnds
<1>10. ASSUME NEW c \in Calls, Lose(c) PROVE IInv'
  <2>1. End(c, "lost") /\ UNCHANGED <<breakerVars, streak, exhausted>>
        /\ prober' = IF prober = c THEN NoCall ELSE prober
    BY <1>10 DEF Lose
  <2>2. TypeOK' /\ RetryInv'
    BY <2>1, EndKeepsCalls DEF IInv, TypeOK, breakerVars
  <2>3. HalfOpenIsOwed'
    BY <2>1 DEF IInv, TypeOK, HalfOpenIsOwed, ProbeLost, End, breakerVars
  <2> QED
    BY <2>1, <2>2, <2>3 DEF IInv, CountInv, OpenHasTimestamp, breakerVars
<1>11. CASE UNCHANGED vars
  BY <1>11 DEF IInv, TypeOK, CountInv, RetryInv, OpenHasTimestamp, HalfOpenIsOwed,
               ProbeLost, vars, breakerVars, callVars, historyVars
<1> QED
  BY <1>1, <1>2, <1>3, <1>6, <1>7, <1>8, <1>9, <1>10, <1>11 DEF Next, Call, Progress

-----------------------------------------------------------------------------
LEMMA SpecIInv == Spec => []IInv
BY InitIInv, NextIInv, PTL DEF Spec

\* Every variable has its type, for every caller set, threshold, cooldown and retry
\* limit: in particular no call ever makes more than MaxRetries + 1 attempts.
THEOREM TypeCorrect == Spec => []TypeOK
<1>1. IInv => TypeOK
  BY DEF IInv
<1> QED
  BY <1>1, SpecIInv, PTL

\* before_call's assertion that _opened_at is set never fails.
THEOREM AssertionHolds == Spec => []OpenHasTimestamp
<1>1. IInv => OpenHasTimestamp
  BY DEF IInv
<1> QED
  BY <1>1, SpecIInv, PTL

\* A half-open breaker is owed its answer by a probe in flight, or the probe was lost.
THEOREM HalfOpenOwed == Spec => []HalfOpenIsOwed
<1>1. IInv => HalfOpenIsOwed
  BY DEF IInv
<1> QED
  BY <1>1, SpecIInv, PTL

-----------------------------------------------------------------------------
(* What a step may do *)

\* How many steps a call has left before it ends, at most.
StepsLeft(c) ==
  CASE pc[c] = "invoking"  -> 2 * (MaxRetries - attempt[c]) + 2
    [] pc[c] = "backoff"   -> 2 * (MaxRetries - attempt[c]) + 1
    [] pc[c] = "streaming" -> 1
    [] OTHER               -> 0

\* A step of a call brings it closer to its end.
CallAdvances ==
  \A c \in Calls : pc[c] \in InFlight =>
    UNCHANGED <<pc[c], attempt[c]>> \/ StepsLeft(c)' < StepsLeft(c)

\* While the breaker is not closed it admits one call, that finds the cooldown over.
OneProbe ==
  state # "closed" =>
    \A c \in Calls : pc[c] \in Ended /\ pc'[c] \in InFlight =>
      state = "open" /\ CooldownOver /\ state' = "half_open" /\ prober' = c

\* While the breaker stays open the calls in flight get fewer, none of them gains a
\* step, and the cooldown starts again only when one of them fails.
OpenRunsOut ==
  state = "open" /\ state' = "open" =>
    /\ \A c \in Calls :
         pc'[c] \in InFlight => pc[c] \in InFlight /\ StepsLeft(c)' <= StepsLeft(c)
    /\ sinceOpened' < sinceOpened =>
         \E c \in Calls : pc[c] \in InFlight /\ pc'[c] = "failed"

\* A closed breaker opens when that is due.
OpensWhenDue ==
  state = "closed" =>
    /\ exhausted' = FailureThreshold => state' = "open"
    /\ state' = "open" => streak' = FailureThreshold

\* An open breaker ends being open by its probe or by a call admitted before it tripped.
LeavesOpen ==
  state = "open" /\ state' # "open" =>
    \/ state' = "half_open" /\ CooldownOver
    \/ state' = "closed" /\ \E c \in Calls : pc[c] \in InFlight /\ pc'[c] = "ok"

LEMMA StepsLeftType ==
  ASSUME TypeOK, NEW c \in Calls
  PROVE  StepsLeft(c) \in 0..(2 * MaxRetries + 2)
BY MaxRetriesAssumption DEF TypeOK, StepsLeft

\* The step of a call, by what it makes of that call; the others it leaves where they are.
LEMMA CallStep ==
  ASSUME IInv, NEW c \in Calls, Call(c) \/ Progress(c) \/ Lose(c)
  PROVE  /\ \A d \in Calls \ {c} : UNCHANGED <<pc[d], attempt[d]>>
         /\ pc[c] \in InFlight => StepsLeft(c)' < StepsLeft(c)
         /\ pc'[c] \in InFlight => pc[c] \in InFlight \/ \E k \in Kinds : Admit(c, k)
<1> USE MaxRetriesAssumption DEF IInv, TypeOK
<1>1. ASSUME NEW how \in Ended, End(c, how), pc[c] \in InFlight \/ how = "unavailable",
             how = "unavailable" => pc[c] \in Ended
      PROVE  /\ \A d \in Calls \ {c} : UNCHANGED <<pc[d], attempt[d]>>
             /\ pc[c] \in InFlight => StepsLeft(c)' < StepsLeft(c)
             /\ pc'[c] \notin InFlight
  <2>1. pc'[c] = how /\ \A d \in Calls \ {c} : UNCHANGED <<pc[d], attempt[d]>>
    BY <1>1 DEF End
  <2>2. StepsLeft(c)' = 0
    BY <2>1 DEF StepsLeft
  <2>3. pc[c] \in InFlight => StepsLeft(c) \in Nat /\ StepsLeft(c) >= 1
    BY DEF StepsLeft
  <2> QED
    BY <2>1, <2>2, <2>3
<1>2. CASE Reject(c)
  BY <1>1, <1>2 DEF Reject
<1>3. CASE \E k \in Kinds : Admit(c, k)
  BY <1>3 DEF Admit
<1>4. CASE CallFails(c) \/ StreamEnds(c) \/ StreamFails(c) \/ Lose(c)
  BY <1>1, <1>4 DEF CallFails, StreamEnds, StreamFails, Lose
<1>5. CASE AttemptSucceeds(c)
  <2>1. CASE kind[c] = "embed"
    BY <1>1, <1>5, <2>1 DEF AttemptSucceeds
  <2>2. CASE kind[c] = "generate"
    <3>1. /\ pc[c] = "invoking" /\ pc' = [pc EXCEPT ![c] = "streaming"]
          /\ UNCHANGED attempt
      BY <1>5, <2>2 DEF AttemptSucceeds
    <3>2. StepsLeft(c)' = 1 /\ StepsLeft(c) \in Nat /\ StepsLeft(c) >= 2
      BY <3>1 DEF StepsLeft
    <3> QED
      BY <3>1, <3>2
  <2> QED
    BY <1>5, <2>1, <2>2 DEF AttemptSucceeds
<1>6. CASE RetryableError(c)
  <2>1. pc[c] = "invoking" /\ pc' = [pc EXCEPT ![c] = "backoff"] /\ UNCHANGED attempt
    BY <1>6 DEF RetryableError
  <2>2. StepsLeft(c)' < StepsLeft(c)
    BY <2>1 DEF StepsLeft
  <2> QED
    BY <2>1, <2>2
<1>7. CASE BackoffOver(c)
  <2>1. /\ pc[c] = "backoff" /\ pc' = [pc EXCEPT ![c] = "invoking"]
        /\ attempt' = [attempt EXCEPT ![c] = @ + 1]
    BY <1>7 DEF BackoffOver
  <2>2. StepsLeft(c)' < StepsLeft(c)
    BY <2>1 DEF StepsLeft
  <2> QED
    BY <2>1, <2>2
<1> QED
  BY <1>2, <1>3, <1>4, <1>5, <1>6, <1>7 DEF Call, Progress

\* What the step of a call may do to the breaker.
LEMMA BreakerStep ==
  ASSUME IInv, NEW c \in Calls, Call(c) \/ Progress(c) \/ Lose(c)
  PROVE  \/ /\ UNCHANGED breakerVars
            /\ \A k \in Kinds : Admit(c, k) => state = "closed"
         \/ /\ state = "open" /\ CooldownOver
            /\ state' = "half_open" /\ prober' = c
         \/ pc[c] \in InFlight /\ pc'[c] = "failed" /\ RecordFailure
         \/ pc[c] \in InFlight /\ pc'[c] = "ok" /\ RecordSuccess
<1> USE DEF IInv, TypeOK
<1>1. CASE Reject(c) \/ Lose(c)
  BY <1>1 DEF Reject, Lose, Admit, End
<1>2. CASE \E k \in Kinds : Admit(c, k)
  BY <1>2 DEF Admit, Admits, breakerVars
<1>3. CASE CallFails(c) \/ StreamFails(c)
  BY <1>3 DEF CallFails, StreamFails, End
<1>4. CASE StreamEnds(c) \/ (AttemptSucceeds(c) /\ kind[c] = "embed")
  BY <1>4 DEF StreamEnds, AttemptSucceeds, End
<1>5. CASE RetryableError(c) \/ BackoffOver(c) \/ (AttemptSucceeds(c) /\ kind[c] = "generate")
  <2>1. UNCHANGED breakerVars /\ pc[c] \in InFlight
    BY <1>5 DEF RetryableError, BackoffOver, AttemptSucceeds
  <2> QED
    BY <2>1 DEF Admit
<1> QED
  BY <1>1, <1>2, <1>3, <1>4, <1>5 DEF Call, Progress, AttemptSucceeds

LEMMA StepIsRight ==
  ASSUME IInv, [Next]_vars
  PROVE  CallAdvances /\ OneProbe /\ OpenRunsOut /\ LeavesOpen
<1>0. \A c \in Calls : StepsLeft(c)' \in Nat
  BY NextIInv, MaxRetriesAssumption DEF IInv, TypeOK, StepsLeft
<1> USE DEF IInv, TypeOK
<1>1. CASE Tick \/ UNCHANGED vars
  <2>1. UNCHANGED <<state, pc, attempt>>
    BY <1>1 DEF Tick, vars, callVars, breakerVars
  <2>2. \A c \in Calls : StepsLeft(c)' = StepsLeft(c) /\ StepsLeft(c) \in Int
    BY <2>1, StepsLeftType DEF StepsLeft
  <2>3. ~(sinceOpened' < sinceOpened)
    BY <1>1, CooldownAssumption DEF Tick, vars, breakerVars
  <2> QED
    BY <2>1, <2>2, <2>3 DEF CallAdvances, OneProbe, OpenRunsOut, LeavesOpen
<1>2. ASSUME NEW c \in Calls, Call(c) \/ Progress(c) \/ Lose(c)
      PROVE  CallAdvances /\ OneProbe /\ OpenRunsOut /\ LeavesOpen
  <2>1. /\ \A d \in Calls \ {c} : UNCHANGED <<pc[d], attempt[d]>>
        /\ pc[c] \in InFlight => StepsLeft(c)' < StepsLeft(c)
        /\ pc'[c] \in InFlight => pc[c] \in InFlight \/ \E k \in Kinds : Admit(c, k)
    BY <1>2, CallStep
  <2>2. \/ /\ UNCHANGED breakerVars
           /\ \A k \in Kinds : Admit(c, k) => state = "closed"
        \/ /\ state = "open" /\ CooldownOver
           /\ state' = "half_open" /\ prober' = c
        \/ pc[c] \in InFlight /\ pc'[c] = "failed" /\ RecordFailure
        \/ pc[c] \in InFlight /\ pc'[c] = "ok" /\ RecordSuccess
    BY <1>2, BreakerStep
  <2>3. CallAdvances
    BY <2>1 DEF CallAdvances
  <2>4. OneProbe
    BY <2>1, <2>2 DEF OneProbe
  <2>5. ASSUME state = "open", state' = "open" PROVE OpenRunsOut
    <3>1. ASSUME NEW d \in Calls, pc'[d] \in InFlight
          PROVE  pc[d] \in InFlight /\ StepsLeft(d)' <= StepsLeft(d)
      <4>1. CASE d = c
        <5>1. pc[c] \in InFlight
          BY <2>1, <2>2, <2>5, <3>1, <4>1 DEF RecordSuccess
        <5>2. StepsLeft(c)' < StepsLeft(c)
          BY <2>1, <5>1
        <5> QED
          BY <1>0, <4>1, <5>1, <5>2, StepsLeftType
      <4>2. CASE d # c
        BY <2>1, <3>1, <4>2, StepsLeftType DEF StepsLeft
      <4> QED
        BY <4>1, <4>2
    <3>2. sinceOpened' < sinceOpened => pc[c] \in InFlight /\ pc'[c] = "failed"
      BY <2>2, <2>5, CooldownAssumption DEF RecordSuccess, breakerVars
    <3> QED
      BY <3>1, <3>2 DEF OpenRunsOut
  <2>6. OpenRunsOut
    BY <2>5 DEF OpenRunsOut
  <2>7. LeavesOpen
    BY <2>2 DEF LeavesOpen, RecordFailure, RecordSuccess, Trip, breakerVars
  <2> QED
    BY <2>3, <2>4, <2>6, <2>7
<1> QED
  BY <1>1, <1>2 DEF Next

LEMMA StepTripsWhenDue ==
  ASSUME IInv, [Next]_vars
  PROVE  OpensWhenDue
<1> USE FailureThresholdAssumption DEF IInv, TypeOK, CountInv
<1>1. CASE Tick \/ UNCHANGED vars
  BY <1>1 DEF OpensWhenDue, Tick, vars, breakerVars, historyVars
<1>2. ASSUME NEW c \in Calls, Reject(c) \/ Lose(c) \/ RetryableError(c) \/ BackoffOver(c)
      PROVE  OpensWhenDue
  BY <1>2 DEF OpensWhenDue, Reject, Lose, RetryableError, BackoffOver, breakerVars,
              historyVars
<1>3. ASSUME NEW c \in Calls, NEW k \in Kinds, Admit(c, k) PROVE OpensWhenDue
  BY <1>3 DEF OpensWhenDue, Admit
<1>4. ASSUME RecordSuccess PROVE OpensWhenDue
  BY <1>4 DEF OpensWhenDue, RecordSuccess
<1>5. ASSUME RecordFailure,
             exhausted' = AtMost(exhausted + 1, FailureThreshold) \/ exhausted' = exhausted
      PROVE  OpensWhenDue
  BY <1>5 DEF OpensWhenDue, RecordFailure, Trip
<1>6. ASSUME NEW c \in Calls, AttemptSucceeds(c) PROVE OpensWhenDue
  <2>1. CASE kind[c] = "embed"
    BY <1>6, <2>1, <1>4 DEF AttemptSucceeds
  <2>2. CASE kind[c] = "generate"
    BY <1>6, <2>2 DEF OpensWhenDue, AttemptSucceeds, breakerVars, historyVars
  <2> QED
    BY <1>6, <2>1, <2>2 DEF AttemptSucceeds
<1>7. ASSUME NEW c \in Calls, CallFails(c) \/ StreamFails(c) PROVE OpensWhenDue
  BY <1>7, <1>5 DEF CallFails, StreamFails
<1>8. ASSUME NEW c \in Calls, StreamEnds(c) PROVE OpensWhenDue
  BY <1>8, <1>4 DEF StreamEnds
<1> QED
  BY <1>1, <1>2, <1>3, <1>6, <1>7, <1>8 DEF Next, Call, Progress

\* A closed breaker is open by the time FailureThreshold calls have used up their retries
\* since the last success, and never before that many have failed, whatever order
\* overlapping calls report in.
THEOREM TripsAtThreshold == Spec => TripsWhenDue
<1>1. IInv /\ [Next]_vars => [OpensWhenDue]_vars
  BY StepTripsWhenDue
<1>2. Spec => [][OpensWhenDue]_vars
  BY <1>1, SpecIInv, PTL DEF Spec
<1> QED
  BY <1>2 DEF TripsWhenDue, OpensWhenDue

\* _with_retry and the stream end on every path: a call in flight never goes back, and
\* StepsLeft, which nothing raises, bounds what it may still do.
THEOREM CallsAreBounded == Spec => [][CallAdvances]_vars
<1>1. IInv /\ [Next]_vars => [CallAdvances]_vars
  BY StepIsRight
<1> QED
  BY <1>1, SpecIInv, PTL DEF Spec

\* Until the breaker closes, one call gets in: the probe, once the cooldown is over.
THEOREM ProbesAlone == Spec => [][OneProbe]_vars
<1>1. IInv /\ [Next]_vars => [OneProbe]_vars
  BY StepIsRight
<1> QED
  BY <1>1, SpecIInv, PTL DEF Spec

\* OPEN runs out: late failures restart its cooldown, but each uses up a call that was
\* admitted before, and no call is admitted meanwhile.
THEOREM OpenIsBounded == Spec => [][OpenRunsOut]_vars
<1>1. IInv /\ [Next]_vars => [OpenRunsOut]_vars
  BY StepIsRight
<1> QED
  BY <1>1, SpecIInv, PTL DEF Spec

\* OPEN ends by the probe after the cooldown, or by the late success of a call that was
\* admitted before the trip.
THEOREM OpenEndsTwoWays == Spec => [][LeavesOpen]_vars
<1>1. IInv /\ [Next]_vars => [LeavesOpen]_vars
  BY StepIsRight
<1> QED
  BY <1>1, SpecIInv, PTL DEF Spec
=============================================================================
