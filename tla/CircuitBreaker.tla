----------------------------- MODULE CircuitBreaker -----------------------------
(***************************************************************************)
(* The circuit breaker and the bounded retry loop every Bedrock call of    *)
(* the application goes through (app/clients/bedrock_client.py).           *)
(*                                                                         *)
(* One asyncio event loop runs every caller, and each breaker method holds *)
(* an asyncio.Lock without awaiting anything inside it, so a method is one *)
(* atomic step.  Between two methods a call awaits Bedrock, so calls       *)
(* admitted at different times overlap and finish in any order.            *)
(*                                                                         *)
(* A member of Calls is one caller's slot: it makes one call at a time and *)
(* may call again when that call has ended.                                *)
(***************************************************************************)
EXTENDS Integers, FiniteSets

CONSTANTS
  Calls,             \* the callers that may be in the client at once
  FailureThreshold,  \* BEDROCK_CIRCUIT_BREAKER_FAILURE_THRESHOLD
  Cooldown,          \* BEDROCK_CIRCUIT_BREAKER_COOLDOWN_SECONDS, in clock ticks
  MaxRetries,        \* BEDROCK_MAX_RETRIES
  NoCall             \* no caller

\* What Settings._validate enforces, plus a non-negative cooldown.
ASSUME FailureThresholdAssumption == FailureThreshold \in Nat \ {0}
ASSUME CooldownAssumption == Cooldown \in Nat
ASSUME MaxRetriesAssumption == MaxRetries \in Nat
ASSUME NoCallAssumption == NoCall \notin Calls

VARIABLES
  state,                \* CircuitState
  consecutiveFailures,  \* _consecutive_failures, counted up to FailureThreshold
  sinceOpened,          \* time since _opened_at, counted up to Cooldown; -1 is None
  pc,                   \* where each call is, and how its last one ended
  kind,                 \* which operation each caller is in: embed or generate_stream
  attempt,              \* _with_retry's loop variable, per call
  prober,               \* history: the call that moved the breaker to HALF_OPEN
  streak,               \* history: outcomes recorded as failures since the last success
  exhausted             \* history: those of them that had used up their retries

breakerVars == <<state, consecutiveFailures, sinceOpened>>
callVars == <<pc, kind, attempt>>
historyVars == <<prober, streak, exhausted>>
vars == <<breakerVars, callVars, historyVars>>

CircuitState == {"closed", "open", "half_open"}
Kinds == {"embed", "generate"}
None == -1

\* "ok": returned; "failed": raised BedrockInvocationError; "unavailable": rejected
\* by the breaker; "lost": ended without telling the breaker (cancelled, its stream
\* abandoned, or an exception that is not a BedrockInvocationError).
Ended == {"ok", "failed", "unavailable", "lost"}
InFlight == {"invoking", "backoff", "streaming"}

AtMost(n, bound) == IF n < bound THEN n ELSE bound

-----------------------------------------------------------------------------
Init ==
  /\ state = "closed"
  /\ consecutiveFailures = 0
  /\ sinceOpened = None
  /\ pc = [c \in Calls |-> "ok"]
  /\ kind = [c \in Calls |-> "embed"]
  /\ attempt = [c \in Calls |-> 0]
  /\ prober = NoCall
  /\ streak = 0
  /\ exhausted = 0

\* Effect of _trip: opened_at is the current time, the failure count is kept.
Trip ==
  /\ state' = "open"
  /\ sinceOpened' = 0
  /\ prober' = NoCall

\* Mutant: a success closes the breaker but keeps the count.
RecordSuccessKeepsCount ==
  /\ state' = "closed"
  /\ sinceOpened' = None
  /\ prober' = NoCall
  /\ streak' = 0
  /\ exhausted' = 0
  /\ UNCHANGED consecutiveFailures

RecordSuccess ==
  /\ state' = "closed"
  /\ consecutiveFailures' = 0
  /\ sinceOpened' = None
  /\ prober' = NoCall
  /\ streak' = 0
  /\ exhausted' = 0

\* Mutant: only a closed breaker listens to failures.
RecordFailureOnlyWhenClosed ==
  /\ streak' = AtMost(streak + 1, FailureThreshold)
  /\ IF state = "closed"
       THEN /\ consecutiveFailures' = AtMost(consecutiveFailures + 1, FailureThreshold)
            /\ IF consecutiveFailures' >= FailureThreshold
                 THEN Trip ELSE UNCHANGED <<state, sinceOpened, prober>>
       ELSE UNCHANGED <<breakerVars, prober>>

\* A failure seen in HALF_OPEN trips without counting; anywhere else it counts, in
\* OPEN as well, and trips (again) once the threshold is reached.  The count is only
\* ever compared with the threshold, so counting stops there.
RecordFailure ==
  /\ streak' = AtMost(streak + 1, FailureThreshold)
  /\ \/ /\ state = "half_open"
        /\ Trip
        /\ UNCHANGED consecutiveFailures
     \/ /\ state # "half_open"
        /\ consecutiveFailures' = AtMost(consecutiveFailures + 1, FailureThreshold)
        /\ \/ /\ consecutiveFailures' >= FailureThreshold
              /\ Trip
           \/ /\ consecutiveFailures' < FailureThreshold
              /\ UNCHANGED <<state, sinceOpened, prober>>

\* before_call lets a caller in when CLOSED, and the first caller after the cooldown.
CooldownOver == sinceOpened >= Cooldown
Admits == state = "closed" \/ (state = "open" /\ CooldownOver)

-----------------------------------------------------------------------------
\* The call is over; what it was and how often it tried no longer matters.
End(c, how) ==
  /\ pc' = [pc EXCEPT ![c] = how]
  /\ attempt' = [attempt EXCEPT ![c] = 0]
  /\ kind' = [kind EXCEPT ![c] = "embed"]

\* Mutant: a rejection restarts the cooldown.
RejectRestartsCooldown(c) ==
  /\ pc[c] \in Ended
  /\ ~Admits
  /\ End(c, "unavailable")
  /\ sinceOpened' = IF state = "open" THEN 0 ELSE sinceOpened
  /\ UNCHANGED <<state, consecutiveFailures, historyVars>>

\* before_call raises BedrockUnavailableError: nothing but the caller's fate changes.
Reject(c) ==
  /\ pc[c] \in Ended
  /\ ~Admits
  /\ End(c, "unavailable")
  /\ UNCHANGED <<breakerVars, historyVars>>

\* before_call returns, and the first attempt is handed to a worker thread.
Admit(c, k) ==
  /\ pc[c] \in Ended
  /\ Admits
  /\ \/ /\ state = "open"
        /\ state' = "half_open"
        /\ prober' = c
     \/ /\ state = "closed"
        /\ UNCHANGED <<state, prober>>
  /\ pc' = [pc EXCEPT ![c] = "invoking"]
  /\ kind' = [kind EXCEPT ![c] = k]
  /\ UNCHANGED <<consecutiveFailures, sinceOpened, attempt, streak, exhausted>>

\* The attempt succeeds: embed reports at once, generate_stream only starts to stream.
AttemptSucceeds(c) ==
  /\ pc[c] = "invoking"
  /\ \/ /\ kind[c] = "embed"
        /\ RecordSuccess
        /\ End(c, "ok")
     \/ /\ kind[c] = "generate"
        /\ pc' = [pc EXCEPT ![c] = "streaming"]
        /\ UNCHANGED <<kind, attempt, breakerVars, historyVars>>

\* Mutant: one attempt too many.
RetryableErrorOffByOne(c) ==
  /\ pc[c] = "invoking"
  /\ attempt[c] <= MaxRetries
  /\ pc' = [pc EXCEPT ![c] = "backoff"]
  /\ UNCHANGED <<kind, attempt, breakerVars, historyVars>>

\* A retryable error with attempts left: back off.
RetryableError(c) ==
  /\ pc[c] = "invoking"
  /\ attempt[c] < MaxRetries
  /\ pc' = [pc EXCEPT ![c] = "backoff"]
  /\ UNCHANGED <<kind, attempt, breakerVars, historyVars>>

\* Mutant: the retry loop does not count.
BackoffOverUncounted(c) ==
  /\ pc[c] = "backoff"
  /\ pc' = [pc EXCEPT ![c] = "invoking"]
  /\ UNCHANGED <<kind, attempt, breakerVars, historyVars>>

BackoffOver(c) ==
  /\ pc[c] = "backoff"
  /\ pc' = [pc EXCEPT ![c] = "invoking"]
  /\ attempt' = [attempt EXCEPT ![c] = @ + 1]
  /\ UNCHANGED <<kind, breakerVars, historyVars>>

\* A retryable error on the last attempt, or a non-retryable one on any: both are
\* recorded alike.
CallFails(c) ==
  /\ pc[c] = "invoking"
  /\ RecordFailure
  /\ \/ attempt[c] = MaxRetries /\ exhausted' = AtMost(exhausted + 1, FailureThreshold)
     \/ UNCHANGED exhausted
  /\ End(c, "failed")

StreamEnds(c) ==
  /\ pc[c] = "streaming"
  /\ RecordSuccess
  /\ End(c, "ok")

\* An error event in the stream is recorded too, and is never retried.
StreamFails(c) ==
  /\ pc[c] = "streaming"
  /\ RecordFailure
  /\ UNCHANGED exhausted
  /\ End(c, "failed")

\* CancelledError at any await, GeneratorExit at a yield, or an exception `except
\* BedrockInvocationError` does not name: neither record_ method runs.
Lose(c) ==
  /\ pc[c] \in InFlight
  /\ End(c, "lost")
  /\ prober' = IF prober = c THEN NoCall ELSE prober
  /\ UNCHANGED <<breakerVars, streak, exhausted>>

\* time.monotonic() advances; only the time since opened_at is ever looked at.
Tick ==
  /\ state = "open"
  /\ sinceOpened < Cooldown
  /\ sinceOpened' = sinceOpened + 1
  /\ UNCHANGED <<state, consecutiveFailures, callVars, historyVars>>

Call(c) ==
  \/ Reject(c)
  \/ \E k \in Kinds : Admit(c, k)

Progress(c) ==
  \/ AttemptSucceeds(c)
  \/ RetryableError(c)
  \/ BackoffOver(c)
  \/ CallFails(c)
  \/ StreamEnds(c)
  \/ StreamFails(c)

Next ==
  \/ Tick
  \/ \E c \in Calls : Call(c) \/ Progress(c) \/ Lose(c)

Spec == Init /\ [][Next]_vars

\* Requests keep arriving, the clock runs, and a call some coroutine still awaits
\* ends: every attempt has connect and read timeouts, and retries are bounded.
Fairness ==
  /\ WF_vars(Tick)
  /\ \A c \in Calls : WF_vars(Call(c)) /\ WF_vars(Progress(c))

FairSpec == Spec /\ Fairness

-----------------------------------------------------------------------------
(* Properties                                                              *)

\* Every variable has its type: the breaker's fields hold what __init__ and the
\* record_ methods may assign, and each call is at one of its awaits or has ended.
TypeOK ==
  /\ state \in CircuitState
  /\ consecutiveFailures \in 0..FailureThreshold
  /\ sinceOpened \in {None} \cup 0..Cooldown
  /\ pc \in [Calls -> InFlight \cup Ended]
  /\ kind \in [Calls -> Kinds]
  /\ attempt \in [Calls -> 0..MaxRetries]
  /\ prober \in Calls \cup {NoCall}
  /\ streak \in 0..FailureThreshold
  /\ exhausted \in 0..FailureThreshold

\* A closed breaker trips by the time FailureThreshold calls have used up their retries
\* since the last success (docs/14-bedrock-integration.md, section 6), and never before
\* that many have failed at all: whatever overlapping calls reported while it was open or
\* half-open, and whoever closed it, its count starts afresh.  The failures between the
\* two bounds, which are not retried, the code counts too.
TripsWhenDue ==
  [][state = "closed" =>
       /\ exhausted' = FailureThreshold => state' = "open"
       /\ state' = "open" => streak' = FailureThreshold]_vars

\* before_call's assertion that _opened_at is set while OPEN cannot fail, though late
\* record_success calls clear it at any time.
OpenHasTimestamp == state = "open" => sinceOpened # None

\* The probe was admitted and then ended without reporting to the breaker.
ProbeLost == state = "half_open" /\ prober = NoCall

\* A half-open breaker, which rejects every caller, is owed an answer by the call that
\* probes for it, still in flight, unless that very call was lost.
HalfOpenIsOwed ==
  state = "half_open" /\ ~ProbeLost => pc[prober] \in InFlight

\* OPEN never lasts: calls that fail late restart the cooldown, but those admitted
\* before the trip run out.
OpenEnds == []<>(state # "open")

\* A call that was admitted ends: the retry loop is bounded on every path through it.
CallsEnd == \A c \in Calls : pc[c] \in InFlight ~> pc[c] \in Ended

\* What docs/14-bedrock-integration.md section 6 says of HALF_OPEN: it goes back to
\* CLOSED on success or to OPEN on failure of its one probe.
HalfOpenResolves == state = "half_open" ~> state # "half_open"
=============================================================================
