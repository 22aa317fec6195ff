------------------------------- MODULE RateLimiter -------------------------------
(***************************************************************************)
(* The rate limiter of /api/chat, /api/opr/chat and /api/opr/ingest for    *)
(* one (endpoint, identity) pair: TokenBucketRateLimiter.allow             *)
(* (app/middleware/rate_limit.py) over RedisClient.transactional_update    *)
(* (app/clients/redis_client.py).                                          *)
(*                                                                         *)
(* Requests of any number of replicas share the hash and one wall clock.   *)
(* Each awaits Redis between reading the clock, WATCH, HGETALL and EXEC,   *)
(* so they interleave there, and its connection may be lost there, before  *)
(* the command reaches Redis or with the answer on its way back.           *)
(***************************************************************************)
EXTENDS Integers, FiniteSets

CONSTANTS
  Requests,     \* the requests of one caller to one endpoint
  Capacity,     \* RATE_LIMIT_BURST, in units refilled one per tick
  Cost,         \* units of one request
  Ttl,          \* ttl_seconds, in ticks
  MaxAttempts,  \* _MAX_TRANSACTION_ATTEMPTS
  MaxTime       \* bound on the clock

ASSUME CapacityAssumption == Capacity \in Nat
ASSUME CostAssumption == Cost \in Nat \ {0}
\* int(capacity / refill_per_second) + 60 seconds: longer than a full refill.
ASSUME TtlAssumption == Ttl \in Nat /\ Ttl >= Capacity
ASSUME MaxAttemptsAssumption == MaxAttempts \in Nat \ {0}
ASSUME MaxTimeAssumption == MaxTime \in Nat

VARIABLES
  now, hash, tokens, ts, written,  \* the clock and the hash, as in TokenBucket
  spent, asOf, regress,               \* its history
  pc,       \* where each request is, or its verdict
  at,       \* the time each request read from the clock
  found,    \* the fields HGETALL returned to each request
  dirty,    \* requests whose watched hash was written or has expired
  attempts, \* conflicts each request has met
  lost      \* history: admissions Redis made and the request was not told of

bucketVars == <<now, hash, tokens, ts, written, spent, asOf, regress>>
requestVars == <<pc, at, found, dirty, attempts, lost>>
vars == <<bucketVars, requestVars>>

Bucket == INSTANCE TokenBucket

InFlight == {"arrived", "watching", "read"}
Verdict == {"allowed", "denied", "error"}
NotFound == [hash |-> "absent", tokens |-> 0, ts |-> 0]

Init ==
  /\ Bucket!Init
  /\ pc = [r \in Requests |-> "idle"]
  /\ at = [r \in Requests |-> 0]
  /\ found = [r \in Requests |-> NotFound]
  /\ dirty = {}
  /\ attempts = [r \in Requests |-> 0]
  /\ lost = 0

\* The request reads the clock, once for all its attempts.
Arrive(r) ==
  /\ pc[r] = "idle"
  /\ pc' = [pc EXCEPT ![r] = "arrived"]
  /\ at' = [at EXCEPT ![r] = now]
  /\ UNCHANGED <<bucketVars, found, dirty, attempts, lost>>

Watch(r) ==
  /\ pc[r] = "arrived"
  /\ pc' = [pc EXCEPT ![r] = "watching"]
  /\ dirty' = dirty \ {r}
  /\ UNCHANGED <<bucketVars, at, found, attempts, lost>>

\* HGETALL.
Read(r) ==
  /\ pc[r] = "watching"
  /\ pc' = [pc EXCEPT ![r] = "read"]
  /\ found' = [found EXCEPT ![r] = [hash |-> hash, tokens |-> tokens, ts |-> ts]]
  /\ UNCHANGED <<bucketVars, at, dirty, attempts, lost>>

\* Requests that would be told of a write to the hash.
Watchers == {q \in Requests : pc[q] \in {"watching", "read"}}

\* What _consume makes of the fields the request read.
Units(r) == Bucket!Refilled(found[r].hash, found[r].tokens, found[r].ts, at[r])

\* Mutant: the transaction does not fail when the hash was written meanwhile.
ApplyUnwatched(r) ==
  /\ pc[r] = "read"
  /\ dirty' = dirty \cup (Watchers \ {r})
  /\ hash' = "held"
  /\ tokens' = Bucket!Left(Units(r))
  /\ ts' = at[r]
  /\ written' = now
  /\ spent' = IF Bucket!Admits(Units(r)) THEN spent + Cost ELSE spent
  /\ asOf' = at[r]
  /\ regress' = regress + Bucket!Positive(asOf - at[r])
  /\ UNCHANGED <<now, at, found>>

\* Mutant: EXPIRE is not queued, and the hash keeps its former deadline.
ApplyWithoutExpire(r) ==
  /\ pc[r] = "read"
  /\ r \notin dirty
  /\ dirty' = dirty \cup (Watchers \ {r})
  /\ hash' = "held"
  /\ tokens' = Bucket!Left(Units(r))
  /\ ts' = at[r]
  /\ written' = IF hash = "held" THEN written ELSE now
  /\ spent' = IF Bucket!Admits(Units(r)) THEN spent + Cost ELSE spent
  /\ asOf' = at[r]
  /\ regress' = regress + Bucket!Positive(asOf - at[r])
  /\ UNCHANGED <<now, at, found>>

\* EXEC, the hash untouched since WATCH: HSET and EXPIRE take effect together.
Apply(r) ==
  /\ pc[r] = "read"
  /\ r \notin dirty
  /\ dirty' = dirty \cup (Watchers \ {r})
  /\ hash' = "held"
  /\ tokens' = Bucket!Left(Units(r))
  /\ ts' = at[r]
  /\ written' = now
  /\ spent' = IF Bucket!Admits(Units(r)) THEN spent + Cost ELSE spent
  /\ asOf' = at[r]
  /\ regress' = regress + Bucket!Positive(asOf - at[r])
  /\ UNCHANGED <<now, at, found>>

Exec(r) ==
  /\ Apply(r)
  /\ pc' = [pc EXCEPT ![r] = IF Bucket!Admits(Units(r)) THEN "allowed" ELSE "denied"]
  /\ UNCHANGED <<attempts, lost>>

\* Mutant: the bound is compared with the attempts made before this one.
TryAgainOffByOne(r) ==
  /\ attempts' = [attempts EXCEPT ![r] = @ + 1]
  /\ pc' = [pc EXCEPT ![r] = IF attempts[r] = MaxAttempts THEN "error" ELSE "arrived"]

\* The loop's next turn, with the same clock reading, or its end with a RuntimeError.
TryAgain(r) ==
  /\ attempts' = [attempts EXCEPT ![r] = @ + 1]
  /\ pc' = [pc EXCEPT ![r] = IF attempts[r] + 1 = MaxAttempts THEN "error" ELSE "arrived"]

\* The answer to EXEC is lost.  redis-py reports a connection lost while a key is watched
\* as a WatchError, which the loop takes for a conflict.
LoseAnswer(r) ==
  /\ Apply(r)
  /\ TryAgain(r)
  /\ lost' = IF Bucket!Admits(Units(r)) THEN lost + 1 ELSE lost

\* Mutant: the verdict of the failed attempt is returned.
ConflictIgnored(r) ==
  /\ pc[r] = "read"
  /\ r \in dirty
  /\ attempts' = [attempts EXCEPT ![r] = @ + 1]
  /\ pc' = [pc EXCEPT ![r] = IF Bucket!Admits(Units(r)) THEN "allowed" ELSE "denied"]
  /\ UNCHANGED <<bucketVars, at, found, dirty, lost>>

\* WatchError.
Conflict(r) ==
  /\ pc[r] = "read"
  /\ r \in dirty
  /\ TryAgain(r)
  /\ UNCHANGED <<bucketVars, at, found, dirty, lost>>

\* The connection is lost before EXEC takes effect: a WatchError too.
LoseExec(r) ==
  /\ pc[r] = "read"
  /\ TryAgain(r)
  /\ UNCHANGED <<bucketVars, at, found, dirty, lost>>

\* It is lost at WATCH or HGETALL, whose errors nothing catches.
LoseConnection(r) ==
  /\ pc[r] \in {"arrived", "watching"}
  /\ pc' = [pc EXCEPT ![r] = "error"]
  /\ UNCHANGED <<bucketVars, at, found, dirty, attempts, lost>>

\* Redis drops the hash, which a watcher is told of like a write.
Expire ==
  /\ Bucket!Expire
  /\ dirty' = dirty \cup Watchers
  /\ UNCHANGED <<pc, at, found, attempts, lost>>

Tick == Bucket!Tick /\ UNCHANGED requestVars

Serve(r) == Watch(r) \/ Read(r) \/ Exec(r) \/ Conflict(r)
Fault(r) == LoseAnswer(r) \/ LoseExec(r) \/ LoseConnection(r)

Next ==
  \/ Tick
  \/ Expire
  \/ \E r \in Requests : Arrive(r) \/ Serve(r) \/ Fault(r)

Spec == Init /\ [][Next]_vars

-----------------------------------------------------------------------------
(* Properties                                                              *)

\* Every variable has its type; no request makes more than MaxAttempts attempts.
TypeOK ==
  /\ Bucket!TypeOK
  /\ pc \in [Requests -> InFlight \cup Verdict \cup {"idle"}]
  /\ at \in [Requests -> 0..now]
  /\ found \in [Requests -> [hash : {"absent", "held"}, tokens : 0..Capacity, ts : 0..now]]
  /\ dirty \in SUBSET Requests
  /\ attempts \in [Requests -> 0..MaxAttempts]
  /\ lost \in Nat

\* Optimistic transactions make each update atomic, however the requests' reads and
\* writes interleave: none overwrites an update it has not seen.
ImplementsTokenBucket == Bucket!Spec

\* Each admitted request has paid, whatever attempts failed on the way, and nothing else
\* is taken from the bucket than what lost answers had paid for: a request that is
\* refused or gives up has paid nothing, one whose answer was lost pays again.
AdmittedArePaid ==
  spent = Cost * (Cardinality({r \in Requests : pc[r] = "allowed"}) + lost)

\* One burst, the refill since the start, and what late updates refill twice bound what
\* a caller is admitted.
AdmissionBounded == Bucket!AdmissionBounded
=============================================================================
