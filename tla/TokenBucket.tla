------------------------------- MODULE TokenBucket -------------------------------
(***************************************************************************)
(* What the Redis hash of one (endpoint, identity) pair promises: every    *)
(* update of it is atomic (app/middleware/rate_limit.py, _consume).        *)
(*                                                                         *)
(* Tokens are counted in units of which one is refilled per clock tick, so *)
(* a request costs 60 / RATE_LIMIT_REQUESTS_PER_MINUTE seconds' worth.     *)
(* RateLimiter implements this with WATCH, MULTI and EXEC.                 *)
(***************************************************************************)
EXTENDS Integers

CONSTANTS
  Capacity,  \* RATE_LIMIT_BURST, in units
  Cost,      \* units of one request
  Ttl,       \* ticks the hash outlives its last write
  MaxTime    \* bound on the clock

VARIABLES
  now,      \* the wall clock
  hash,     \* "held", or "absent": never written, or expired
  tokens,   \* its "tokens" field
  ts,       \* its "ts" field: the time of the last update's request
  written,  \* when the hash was last written
  spent,    \* history: units the admitted requests cost
  asOf,     \* history: the time up to which refills have been credited
  regress   \* history: how far, in total, ts has ever moved backwards

vars == <<now, hash, tokens, ts, written, spent, asOf, regress>>

Least(a, b) == IF a < b THEN a ELSE b
Positive(n) == IF n > 0 THEN n ELSE 0

\* _consume: what is in the bucket for a request that read the clock at time t, given
\* the fields it found.  An absent hash is a full bucket.
Refilled(found, tok, last, t) ==
  IF found = "held" THEN Least(Capacity, tok + Positive(t - last)) ELSE Capacity

Admits(units) == units >= Cost
Left(units) == IF Admits(units) THEN units - Cost ELSE units

Init ==
  /\ now = 0
  /\ hash = "absent"
  /\ tokens = 0
  /\ ts = 0
  /\ written = 0
  /\ spent = 0
  /\ asOf = 0
  /\ regress = 0

Tick ==
  /\ now < MaxTime
  /\ now' = now + 1
  /\ UNCHANGED <<hash, tokens, ts, written, spent, asOf, regress>>

\* A request that read the clock at time t takes its tokens, or finds too few; either
\* way it writes the hash, with its own time.
Update(t) ==
  LET units == Refilled(hash, tokens, ts, t) IN
  /\ hash' = "held"
  /\ tokens' = Left(units)
  /\ ts' = t
  /\ written' = now
  /\ spent' = IF Admits(units) THEN spent + Cost ELSE spent
  /\ asOf' = t
  /\ regress' = regress + Positive(asOf - t)
  /\ UNCHANGED now

\* The hash expires; its fields are as good as absent.
Expire ==
  /\ hash = "held"
  /\ now >= written + Ttl
  /\ hash' = "absent"
  /\ tokens' = 0
  /\ ts' = 0
  /\ asOf' = now
  /\ UNCHANGED <<now, written, spent, regress>>

Next == Tick \/ Expire \/ \E t \in 0..now : Update(t)

Spec == Init /\ [][Next]_vars

-----------------------------------------------------------------------------
(* Properties                                                              *)

TypeOK ==
  /\ now \in 0..MaxTime
  /\ hash \in {"absent", "held"}
  /\ tokens \in 0..Capacity
  /\ ts \in 0..now
  /\ written \in 0..now
  /\ spent \in Nat
  /\ asOf \in 0..now
  /\ regress \in Nat

\* What is admitted never exceeds one burst, the refill since the start, and the time
\* ts was moved back by late updates, which is refilled twice.  In particular an
\* expired hash, which is a full bucket, admits nothing its refill would not have.
AdmissionBounded == spent <= Capacity + now + regress
=============================================================================
