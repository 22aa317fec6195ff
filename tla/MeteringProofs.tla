------------------------------ MODULE MeteringProofs ------------------------------
(***************************************************************************)
(* What the counters, the budget alert and the report of Metering say is   *)
(* true, for any number of turns, any prices, budget, retention and        *)
(* periods.  The sums come first: those of the community modules are folds *)
(* over a finite set in an order nobody chose, so a sum is shown to be the *)
(* size of a set, from which its laws follow.                              *)
(***************************************************************************)
EXTENDS Metering, FiniteSetTheorems, WellFoundedInduction, TLAPS

-----------------------------------------------------------------------------
(* Sums over finite sets *)

\* f[x] things for each x in S: as many as the sum of f over S.
Pile(f, x) == {x} \X (1..f[x])
Piles(f, S) == UNION {Pile(f, x) : x \in S}
Size(f, S) == Cardinality(Piles(f, S))

NatOn(f, S) == \A x \in S : f[x] \in Nat

\* What the fold's recursive function satisfies.
Recursion(f, S, h) ==
  [s \in SUBSET S |-> IF s = {} THEN 0
                      ELSE f[CHOOSE x \in s : TRUE] + h[s \ {CHOOSE x \in s : TRUE}]]

LEMMA PileSize ==
  ASSUME NEW f, NEW x, f[x] \in Nat
  PROVE  IsFiniteSet(Pile(f, x)) /\ Cardinality(Pile(f, x)) = f[x]
<1>1. IsFiniteSet(1..f[x]) /\ Cardinality(1..f[x]) = f[x]
  BY FS_Interval
<1>2. IsFiniteSet({x}) /\ Cardinality({x}) = 1
  BY FS_Singleton
<1>3. IsFiniteSet({x} \X (1..f[x]))
      /\ Cardinality({x} \X (1..f[x])) = Cardinality({x}) * Cardinality(1..f[x])
  BY <1>1, <1>2, FS_Product
<1>4. Cardinality({x}) * Cardinality(1..f[x]) = f[x]
  BY <1>1, <1>2
<1> QED
  BY <1>3, <1>4 DEF Pile

LEMMA PilesFinite ==
  ASSUME NEW S, IsFiniteSet(S), NEW f, NatOn(f, S)
  PROVE  IsFiniteSet(Piles(f, S)) /\ Size(f, S) \in Nat
<1> DEFINE F == {Pile(f, x) : x \in S}
           g == [x \in S |-> Pile(f, x)]
<1>1. g \in Surjection(S, F)
  BY DEF Surjection
<1>2. IsFiniteSet(F)
  BY <1>1, FS_Surjection
<1>3. \A T \in F : IsFiniteSet(T)
  BY PileSize DEF NatOn
<1>4. IsFiniteSet(UNION F)
  <2> HIDE DEF F
  <2> QED
    BY <1>2, <1>3, FS_UNION
<1> QED
  BY <1>4, FS_CardinalityType DEF Size, Piles

LEMMA SizeAdds ==
  ASSUME NEW S, IsFiniteSet(S), NEW f, NatOn(f, S), NEW x \in S
  PROVE  Size(f, S) = f[x] + Size(f, S \ {x})
<1> DEFINE R == S \ {x}
<1>1. Piles(f, S) = Pile(f, x) \cup Piles(f, R)
  BY DEF Piles
<1>2. Pile(f, x) \cap Piles(f, R) = {}
  BY DEF Pile, Piles
<1>3. IsFiniteSet(R) /\ NatOn(f, R)
  BY FS_Subset DEF NatOn
<1>4. IsFiniteSet(Piles(f, R)) /\ Size(f, R) \in Nat
  BY <1>3, PilesFinite
<1>5. IsFiniteSet(Pile(f, x)) /\ Cardinality(Pile(f, x)) = f[x] /\ f[x] \in Nat
  BY PileSize DEF NatOn
<1> HIDE DEF R
<1>6. Cardinality(Pile(f, x) \cup Piles(f, R)) =
        Cardinality(Pile(f, x)) + Cardinality(Piles(f, R))
          - Cardinality(Pile(f, x) \cap Piles(f, R))
  BY <1>4, <1>5, FS_Union
<1>7. Size(f, S) = f[x] + Size(f, R)
  <2>1. Cardinality(Piles(f, S)) = f[x] + Cardinality(Piles(f, R)) - 0
    BY <1>1, <1>2, <1>5, <1>6, FS_EmptySet
  <2> QED
    BY <1>4, <1>5, <2>1 DEF Size
<1> QED
  BY <1>7 DEF R

LEMMA SizeOfNone ==
  ASSUME NEW f
  PROVE  Size(f, {}) = 0
BY FS_EmptySet DEF Size, Piles

LEMMA Unfold ==
  ASSUME NEW f, NEW S
  PROVE  SumFunctionOnSet(f, S) = (CHOOSE h : h = Recursion(f, S, h))[S]
BY DEF SumFunctionOnSet, FoldFunctionOnSet, MapThenFoldSet, Recursion

LEMMA SizeRecursion ==
  ASSUME NEW S, IsFiniteSet(S), NEW f, NatOn(f, S)
  PROVE  \E g : g = Recursion(f, S, g)
<1> DEFINE g == [s \in SUBSET S |-> Size(f, s)]
<1>1. ASSUME NEW s \in SUBSET S, s # {}
      PROVE  Size(f, s) = f[CHOOSE x \in s : TRUE] + g[s \ {CHOOSE x \in s : TRUE}]
  <2>0. PICK y : y \in s /\ y = CHOOSE x \in s : TRUE
    BY <1>1
  <2>1. IsFiniteSet(s) /\ NatOn(f, s)
    BY FS_Subset DEF NatOn
  <2>2. \A z \in s : Size(f, s) = f[z] + Size(f, s \ {z})
    BY <2>1, SizeAdds
  <2> QED
    BY <2>0, <2>2
<1>2. \A s \in SUBSET S :
        Size(f, s) = IF s = {} THEN 0
                     ELSE f[CHOOSE x \in s : TRUE] + g[s \ {CHOOSE x \in s : TRUE}]
  BY <1>1, SizeOfNone
<1>3. g = Recursion(f, S, g)
  <2> HIDE DEF g
  <2>1. g = [s \in SUBSET S |-> Size(f, s)]
    BY DEF g
  <2> QED
    BY <1>2, <2>1, Zenon DEF Recursion
<1> QED
  BY <1>3

LEMMA RecursionUnique ==
  ASSUME NEW S, IsFiniteSet(S), NEW f, NatOn(f, S),
         NEW h, h = Recursion(f, S, h), NEW s \in SUBSET S
  PROVE  h[s] = Size(f, s)
<1> DEFINE T == {r \in SUBSET S : h[r] # Size(f, r)}
<1> SUFFICES ASSUME T # {} PROVE FALSE
  OBVIOUS
<1>1. IsWellFoundedOn(StrictSubsetOrdering(S), SUBSET S)
  BY FS_StrictSubsetOrderingWellFounded, FS_FiniteSubsetsOfFinite
<1>2. PICK r \in T : \A u \in T : <<u, r>> \notin StrictSubsetOrdering(S)
  BY <1>1, WFMin
<1>3. h[{}] = 0
  BY DEF Recursion
<1>4. r # {} /\ r \in SUBSET S
  BY <1>3, SizeOfNone
<1>5. PICK y : y \in r /\ y = CHOOSE x \in r : TRUE
  BY <1>4
<1>6. r \ {y} \in SUBSET S /\ <<r \ {y}, r>> \in StrictSubsetOrdering(S)
  BY <1>4, <1>5 DEF StrictSubsetOrdering
<1>7. h[r \ {y}] = Size(f, r \ {y})
  BY <1>2, <1>6
<1>8. h[r] = f[y] + h[r \ {y}]
  BY <1>4, <1>5 DEF Recursion
<1>9. Size(f, r) = f[y] + Size(f, r \ {y})
  <2>1. IsFiniteSet(r) /\ NatOn(f, r)
    BY <1>4, FS_Subset DEF NatOn
  <2>2. \A z \in r : Size(f, r) = f[z] + Size(f, r \ {z})
    BY <2>1, SizeAdds
  <2> QED
    BY <1>5, <2>2
<1> QED
  BY <1>2, <1>7, <1>8, <1>9

LEMMA SumIsSize ==
  ASSUME NEW S, IsFiniteSet(S), NEW f, NatOn(f, S)
  PROVE  SumFunctionOnSet(f, S) = Size(f, S)
<1> DEFINE h == CHOOSE g : g = Recursion(f, S, g)
<1>1. h = Recursion(f, S, h)
  BY SizeRecursion, Zenon
<1>2. SumFunctionOnSet(f, S) = h[S]
  BY Unfold
<1> HIDE DEF h
<1> QED
  BY <1>1, <1>2, RecursionUnique

LEMMA SumNat ==
  ASSUME NEW S, IsFiniteSet(S), NEW f, NatOn(f, S)
  PROVE  SumFunctionOnSet(f, S) \in Nat
BY SumIsSize, PilesFinite

LEMMA SumOfNone ==
  ASSUME NEW f
  PROVE  SumFunctionOnSet(f, {}) = 0
<1>1. NatOn(f, {}) /\ IsFiniteSet({})
  BY FS_EmptySet DEF NatOn
<1> QED
  BY <1>1, SumIsSize, SizeOfNone

\* One more element.
LEMMA SumAdds ==
  ASSUME NEW S, IsFiniteSet(S), NEW f, NatOn(f, S), NEW x, x \notin S, f[x] \in Nat
  PROVE  SumFunctionOnSet(f, S \cup {x}) = f[x] + SumFunctionOnSet(f, S)
<1> DEFINE T == S \cup {x}
<1>1. IsFiniteSet(T) /\ NatOn(f, T) /\ x \in T /\ T \ {x} = S
  BY FS_AddElement DEF NatOn
<1> HIDE DEF T
<1>2. Size(f, T) = f[x] + Size(f, T \ {x})
  BY <1>1, SizeAdds
<1>3. SumFunctionOnSet(f, T) = f[x] + SumFunctionOnSet(f, S)
  BY <1>1, <1>2, SumIsSize
<1> QED
  BY <1>3 DEF T

\* A sum depends on nothing but what it adds.
LEMMA SumSame ==
  ASSUME NEW S, IsFiniteSet(S), NEW f, NatOn(f, S), NEW g, \A x \in S : g[x] = f[x]
  PROVE  SumFunctionOnSet(g, S) = SumFunctionOnSet(f, S)
<1>1. NatOn(g, S)
  BY DEF NatOn
<1>2. Piles(f, S) = Piles(g, S)
  BY DEF Piles, Pile
<1>3. Size(f, S) = Size(g, S)
  BY <1>2 DEF Size
<1> QED
  BY <1>1, <1>3, SumIsSize

\* A part adds up to no more than the whole.
LEMMA SumMonotone ==
  ASSUME NEW S, IsFiniteSet(S), NEW f, NatOn(f, S), NEW T \in SUBSET S
  PROVE  SumFunctionOnSet(f, T) <= SumFunctionOnSet(f, S)
<1>1. IsFiniteSet(T) /\ NatOn(f, T)
  BY FS_Subset DEF NatOn
<1>2. Piles(f, T) \in SUBSET Piles(f, S)
  BY DEF Piles
<1>3. IsFiniteSet(Piles(f, S))
  BY PilesFinite
<1>4. Size(f, T) <= Size(f, S)
  BY <1>2, <1>3, FS_Subset DEF Size
<1> QED
  BY <1>1, <1>4, SumIsSize

\* The elements of S counted by class, for the classes in K.
Counts(S, class, K) == [k \in K |-> Cardinality({x \in S : class[x] = k})]
Within(S, class, K) == {x \in S : class[x] \in K}

LEMMA CountsNat ==
  ASSUME NEW S, IsFiniteSet(S), NEW class, NEW K
  PROVE  NatOn(Counts(S, class, K), K)
<1>1. ASSUME NEW k \in K
      PROVE  Cardinality({x \in S : class[x] = k}) \in Nat
  BY FS_Subset, FS_CardinalityType
<1> QED
  BY <1>1 DEF NatOn, Counts

LEMMA WithinAdds ==
  ASSUME NEW S, IsFiniteSet(S), NEW class, NEW K, NEW k \in K
  PROVE  Cardinality(Within(S, class, K)) =
           Cardinality({x \in S : class[x] = k}) + Cardinality(Within(S, class, K \ {k}))
<1> DEFINE A == {x \in S : class[x] = k}
           B == Within(S, class, K \ {k})
<1>1. Within(S, class, K) = A \cup B /\ A \cap B = {}
  BY DEF Within
<1>2. IsFiniteSet(A) /\ IsFiniteSet(B)
  BY FS_Subset DEF Within
<1> HIDE DEF A, B
<1>3. Cardinality(A \cup B) = Cardinality(A) + Cardinality(B) - Cardinality(A \cap B)
  BY <1>2, FS_Union
<1>4. Cardinality(A) \in Nat /\ Cardinality(B) \in Nat
  BY <1>2, FS_CardinalityType
<1>5. Cardinality(Within(S, class, K)) = Cardinality(A) + Cardinality(B)
  <2>1. Cardinality(A \cap B) = 0
    BY <1>1, FS_EmptySet
  <2> QED
    BY <1>1, <1>3, <1>4, <2>1
<1> QED
  BY <1>5 DEF A, B

\* Counted class by class, nothing is missed and nothing counted twice.
LEMMA SumOfCounts ==
  ASSUME NEW S, IsFiniteSet(S), NEW class, NEW K, IsFiniteSet(K), \A x \in S : class[x] \in K
  PROVE  SumFunctionOnSet(Counts(S, class, K), K) = Cardinality(S)
<1> DEFINE f == Counts(S, class, K)
           T == {L \in SUBSET K : Size(f, L) # Cardinality(Within(S, class, L))}
<1>1. NatOn(f, K)
  BY CountsNat
<1> HIDE DEF f
<1>2. T = {}
  <2> SUFFICES ASSUME T # {} PROVE FALSE
    OBVIOUS
  <2>1. IsWellFoundedOn(StrictSubsetOrdering(K), SUBSET K)
    BY FS_StrictSubsetOrderingWellFounded, FS_FiniteSubsetsOfFinite
  <2>2. PICK L \in T : \A M \in T : <<M, L>> \notin StrictSubsetOrdering(K)
    BY <2>1, WFMin
  <2>3. L # {}
    <3>1. Within(S, class, {}) = {}
      BY DEF Within
    <3> QED
      BY <3>1, SizeOfNone, FS_EmptySet
  <2>4. L \in SUBSET K
    BY <2>2
  <2>5. PICK k : k \in L
    BY <2>3
  <2>6. L \ {k} \in SUBSET K /\ <<L \ {k}, L>> \in StrictSubsetOrdering(K)
    BY <2>4, <2>5 DEF StrictSubsetOrdering
  <2>7. Size(f, L \ {k}) = Cardinality(Within(S, class, L \ {k}))
    BY <2>2, <2>6
  <2>8. \A j \in L : Size(f, L) = f[j] + Size(f, L \ {j})
    <3>1. IsFiniteSet(L) /\ NatOn(f, L)
      BY <1>1, <2>4, FS_Subset DEF NatOn
    <3> QED
      BY <3>1, SizeAdds
  <2>9. f[k] = Cardinality({x \in S : class[x] = k})
    BY <2>4, <2>5 DEF f, Counts
  <2>10. Size(f, L) = Cardinality(Within(S, class, L))
    BY <2>5, <2>7, <2>8, <2>9, WithinAdds
  <2> QED
    BY <2>2, <2>10
<1>3. Size(f, K) = Cardinality(Within(S, class, K))
  BY <1>2
<1>4. Within(S, class, K) = S
  BY DEF Within
<1> QED
  BY <1>1, <1>3, <1>4, SumIsSize DEF f

-----------------------------------------------------------------------------
(* Types, turns and the purge *)

USE TurnsAssumption, MoneyAssumption, RetentionAssumption, ClockAssumption

\* A turn that can still commit belongs to the process that runs; no commit is in the future.
TurnInv ==
  \A t \in Turns :
    /\ turn[t].state \in {"open", "logged"} => turn[t].alive
    /\ turn[t].state = "stored" => turn[t].kept <= hour

\* What is purged is older than the retention, and the clock only adds to its age, so no
\* row of the day of a running check is missing. That check is at most one tick behind.
PurgeInv ==
  /\ cutoff # None => cutoff <= Cutoff
  /\ \A t \in Turns : turn[t].state = "stored" /\ t \notin rows => turn[t].began < Cutoff
  /\ check # None => hour <= check + 1

TurnSpace == [state : TurnStates, used : Usages \cup {NoUsage}, began : Nat, kept : Nat,
              alive : BOOLEAN]

TurnsTyped ==
  /\ turn \in [Turns -> TurnSpace]
  /\ \A t \in rows : t \in Turns /\ turn[t].state = "stored"
CountersTyped == counters \in [requests : Nat, cost : Nat]
ClockTyped ==
  /\ hour \in 0..LastHour
  /\ due \in BOOLEAN
  /\ check \in {None} \cup 0..hour
  /\ gauge \in {0, 1}
  /\ checked \in {None} \cup 0..hour
  /\ cutoff \in {None} \cup 0..hour

\* The answers of a report are a sequence of whatever they are.
ReportSpace(S) == [period : [from : Nat, to : Nat], answers : Seq(S),
                   changed : SUBSET {"commit", "purge"}, open : BOOLEAN]
ReportTyped == (\E S : report \in ReportSpace(S)) /\ Len(report.answers) <= Len(Queries)

Base == TurnsTyped /\ CountersTyped /\ ClockTyped /\ ReportTyped /\ TurnInv /\ PurgeInv

LEMMA BaseTypes == Base => TypeOK
<1> SUFFICES ASSUME Base PROVE TypeOK
  OBVIOUS
<1>1. report.open \in BOOLEAN /\ report.changed \subseteq {"commit", "purge"}
  BY DEF Base, ReportTyped, ReportSpace
<1> QED
  BY <1>1 DEF Base, TurnsTyped, CountersTyped, ClockTyped, ReportTyped, TypeOK, TurnSpace

\* The retention is at least a day.
LEMMA RetentionInHours == Retention * DayLength \in Nat /\ DayLength <= Retention * DayLength
<1>1. \A r, d \in Nat \ {0} : r * d \in Nat /\ d <= r * d
  OBVIOUS
<1> QED
  BY <1>1

LEMMA CostNat ==
  ASSUME NEW u \in Usages \cup {NoUsage}
  PROVE  EstimatedCost(u) \in Nat
<1>1. u.input \in Nat /\ u.output \in Nat
  <2>1. CASE u \in Usages
    BY <2>1, UsagesAssumption DEF Usage
  <2>2. CASE u = NoUsage
    BY <2>2 DEF NoUsage
  <2> QED
    BY <2>1, <2>2
<1>2. CASE u.model \in DOMAIN Rate
  <2>1. PICK r : r = Rate[u.model] /\ r.input \in Nat /\ r.output \in Nat
    BY <1>2, RateAssumption
  <2> QED
    BY <1>1, <1>2, <2>1 DEF EstimatedCost
<1>3. CASE u.model \notin DOMAIN Rate
  BY <1>3 DEF EstimatedCost
<1> QED
  BY <1>2, <1>3

LEMMA InitBase == Init => Base
<1> SUFFICES ASSUME Init PROVE Base
  OBVIOUS
<1> USE DEF Init
<1>1. TurnsTyped /\ TurnInv
  <2>1. Idle \in TurnSpace /\ Idle.state = "idle"
    BY DEF Idle, TurnSpace, TurnStates
  <2> QED
    BY <2>1 DEF TurnsTyped, TurnInv
<1>2. CountersTyped
  BY DEF CountersTyped
<1>3. ClockTyped
  <2>1. hour \in 0..LastHour
    OBVIOUS
  <2> QED
    BY <2>1 DEF ClockTyped
<1>4. ReportTyped
  <2>1. report \in ReportSpace({})
    BY DEF NoReport, ReportSpace
  <2>2. Len(report.answers) <= Len(Queries)
    BY DEF NoReport, Queries
  <2> QED
    BY <2>1, <2>2 DEF ReportTyped
<1>5. PurgeInv
  <2>1. \A t \in Turns : turn[t].state = "idle"
    BY DEF Idle
  <2> QED
    BY <2>1 DEF PurgeInv
<1> QED
  BY <1>1, <1>2, <1>3, <1>4, <1>5 DEF Base

\* What a change of the tables does to a report that is open.
LEMMA ChangedKeeps ==
  ASSUME ReportTyped, NEW by \in {"commit", "purge"}, Changed(by)
  PROVE  /\ ReportTyped'
         /\ report'.answers = report.answers /\ report'.period = report.period
         /\ report'.open = report.open
         /\ report'.changed = IF report.open THEN report.changed \cup {by} ELSE report.changed
<1>1. PICK S : report \in ReportSpace(S)
  BY DEF ReportTyped
<1>2. /\ report' \in ReportSpace(S)
      /\ report'.answers = report.answers /\ report'.period = report.period
      /\ report'.open = report.open
      /\ report'.changed = IF report.open THEN report.changed \cup {by} ELSE report.changed
  BY <1>1 DEF Changed, ReportSpace
<1> QED
  BY <1>2 DEF ReportTyped

\* A turn that is not stored moves, possibly into the table.
LEMMA TurnMoves ==
  ASSUME Base, NEW t \in Turns, NEW x \in TurnSpace, turn' = [turn EXCEPT ![t] = x],
         turn[t].state # "stored", x.state \in {"open", "logged"} => x.alive,
         rows' = IF x.state = "stored" THEN rows \cup {t} ELSE rows,
         x.state = "stored" => x.kept <= hour,
         CountersTyped', ReportTyped', UNCHANGED <<hour, checkVars, cutoff>>
  PROVE  Base'
<1>1. TurnsTyped'
  BY DEF Base, TurnsTyped
<1>2. ClockTyped'
  BY DEF Base, ClockTyped, checkVars
<1>3. TurnInv'
  BY DEF Base, TurnsTyped, TurnInv
<1>4. PurgeInv'
  BY DEF Base, TurnsTyped, PurgeInv, checkVars, Cutoff
<1> QED
  BY <1>1, <1>2, <1>3, <1>4 DEF Base

LEMMA TurnKeeps ==
  ASSUME Base, NEW t \in Turns, Turn(t)
  PROVE  Base'
<1>1. turn[t] \in TurnSpace /\ t \in DOMAIN turn /\ hour \in Nat
  BY DEF Base, TurnsTyped, ClockTyped
<1>2. ReportTyped /\ CountersTyped
  BY DEF Base
<1>3. CASE Begin(t)
  <2> DEFINE x == [Idle EXCEPT !.state = "open", !.began = hour, !.alive = TRUE]
  <2>1. x \in TurnSpace /\ x.state = "open" /\ x.alive
    BY <1>1 DEF Idle, TurnSpace, TurnStates
  <2>2. turn' = [turn EXCEPT ![t] = x] /\ turn[t].state = "idle"
    BY <1>3 DEF Begin
  <2> HIDE DEF x
  <2>3. CountersTyped' /\ ReportTyped' /\ rows' = rows /\ UNCHANGED <<hour, checkVars, cutoff>>
    BY <1>2, <1>3 DEF Begin, CountersTyped, ReportTyped
  <2> QED
    BY <2>1, <2>2, <2>3, TurnMoves
<1>4. CASE LogMetrics(t)
  <2>1. PICK u \in Usages :
          turn' = [turn EXCEPT ![t].state = "logged", ![t].used = u] /\ Count(u)
    BY <1>4 DEF LogMetrics
  <2> DEFINE x == [turn[t] EXCEPT !.state = "logged", !.used = u]
  <2>2. turn[t].state = "open" /\ turn[t].alive
    BY <1>4 DEF LogMetrics, Base, TurnInv
  <2>3. x \in TurnSpace /\ x.state = "logged" /\ x.alive
    BY <1>1, <2>2 DEF TurnSpace, TurnStates
  <2>4. turn' = [turn EXCEPT ![t] = x]
    BY <1>1, <2>1
  <2> HIDE DEF x
  <2>5. CountersTyped'
    <3>1. EstimatedCost(u) \in Nat
      BY CostNat
    <3> QED
      BY <1>2, <2>1, <3>1 DEF CountersTyped, Count
  <2>6. ReportTyped' /\ rows' = rows /\ UNCHANGED <<hour, checkVars, cutoff>>
    BY <1>2, <1>4 DEF LogMetrics, ReportTyped
  <2> QED
    BY <2>2, <2>3, <2>4, <2>5, <2>6, TurnMoves
<1>5. CASE Commit(t)
  <2> DEFINE x == [turn[t] EXCEPT !.state = "stored", !.kept = hour]
  <2>1. x \in TurnSpace /\ x.state = "stored" /\ x.kept <= hour
    <3>1. x \in TurnSpace /\ x.state = "stored" /\ x.kept = hour
      BY <1>1 DEF TurnSpace, TurnStates
    <3> QED
      BY <1>1, <3>1
  <2>2. turn' = [turn EXCEPT ![t] = x] /\ turn[t].state = "logged"
    BY <1>1, <1>5 DEF Commit
  <2> HIDE DEF x
  <2>3. CountersTyped' /\ rows' = rows \cup {t} /\ UNCHANGED <<hour, checkVars, cutoff>>
    BY <1>2, <1>5 DEF Commit, CountersTyped
  <2>4. ReportTyped'
    BY <1>2, <1>5, ChangedKeeps DEF Commit
  <2> QED
    BY <2>1, <2>2, <2>3, <2>4, TurnMoves
<1>6. CASE RollBack(t)
  <2> DEFINE x == IF turn[t].state = "open" THEN Failed
                  ELSE [turn[t] EXCEPT !.state = "undone", !.began = 0]
  <2>1. x \in TurnSpace /\ x.state \in {"failed", "undone"}
    BY <1>1 DEF Failed, Idle, TurnSpace, TurnStates
  <2>2. turn' = [turn EXCEPT ![t] = x] /\ turn[t].state # "stored"
    BY <1>6 DEF RollBack
  <2> HIDE DEF x
  <2>3. CountersTyped' /\ ReportTyped' /\ rows' = rows /\ UNCHANGED <<hour, checkVars, cutoff>>
    BY <1>2, <1>6 DEF RollBack, CountersTyped, ReportTyped
  <2> QED
    BY <2>1, <2>2, <2>3, TurnMoves
<1> QED
  BY <1>3, <1>4, <1>5, <1>6 DEF Turn

LEMMA RestartKeeps ==
  ASSUME Base, Restart
  PROVE  Base'
<1>1. Failed \in TurnSpace /\ Failed.state = "failed"
  BY DEF Failed, Idle, TurnSpace, TurnStates
<1>2. /\ turn' = [t \in Turns |->
           IF turn[t].state \in {"idle", "stored"} THEN [turn[t] EXCEPT !.alive = FALSE]
           ELSE Failed]
      /\ UNCHANGED <<hour, rows, checkVars, cutoff, report>>
  BY DEF Restart
<1>3. \A t \in Turns :
        /\ turn'[t] \in TurnSpace
        /\ turn'[t].state = "stored" <=> turn[t].state = "stored"
        /\ turn'[t].state \notin {"open", "logged"}
        /\ turn[t].state = "stored" =>
             turn'[t].kept = turn[t].kept /\ turn'[t].began = turn[t].began
  <2> SUFFICES ASSUME NEW t \in Turns
               PROVE  /\ turn'[t] \in TurnSpace
                      /\ turn'[t].state = "stored" <=> turn[t].state = "stored"
                      /\ turn'[t].state \notin {"open", "logged"}
                      /\ turn[t].state = "stored" =>
                           turn'[t].kept = turn[t].kept /\ turn'[t].began = turn[t].began
    OBVIOUS
  <2>1. turn[t] \in TurnSpace
    BY DEF Base, TurnsTyped
  <2>2. CASE turn[t].state \in {"idle", "stored"}
    <3>1. turn'[t] = [turn[t] EXCEPT !.alive = FALSE]
      BY <1>2, <2>2
    <3> QED
      BY <2>1, <2>2, <3>1 DEF TurnSpace
  <2>3. CASE turn[t].state \notin {"idle", "stored"}
    BY <1>1, <1>2, <2>3
  <2> QED
    BY <2>2, <2>3
<1>4. turn' \in [Turns -> TurnSpace]
  BY <1>2, <1>3
<1>5. TurnsTyped'
  BY <1>2, <1>3, <1>4 DEF Base, TurnsTyped
<1>6. CountersTyped'
  BY DEF Restart, CountersTyped
<1>7. ClockTyped' /\ ReportTyped'
  BY <1>2 DEF Base, ClockTyped, ReportTyped, checkVars
<1>8. TurnInv'
  BY <1>2, <1>3 DEF Base, TurnInv
<1>9. PurgeInv'
  BY <1>2, <1>3 DEF Base, PurgeInv, checkVars, Cutoff
<1> QED
  BY <1>5, <1>6, <1>7, <1>8, <1>9 DEF Base

LEMMA TickKeeps ==
  ASSUME Base, Tick
  PROVE  Base'
<1> USE DEF Base, Tick
<1>1. TurnsTyped' /\ CountersTyped' /\ ReportTyped'
  BY DEF TurnsTyped, CountersTyped, ReportTyped, turnVars
<1>2. ClockTyped'
  BY DEF ClockTyped
<1>3. TurnInv'
  BY DEF TurnsTyped, TurnSpace, TurnInv, ClockTyped, turnVars
<1>4. PurgeInv'
  BY RetentionInHours DEF TurnsTyped, TurnSpace, PurgeInv, ClockTyped, Cutoff, turnVars
<1> QED
  BY <1>1, <1>2, <1>3, <1>4

LEMMA CheckKeeps ==
  ASSUME Base, Check
  PROVE  Base'
<1> USE DEF Base, Check, StartCheck, SkipCheck, EndCheck, CheckFails, RestartScheduler
<1>1. UNCHANGED <<hour, turnVars, cutoff, report>>
  OBVIOUS
<1>2. TurnsTyped' /\ CountersTyped' /\ ReportTyped' /\ TurnInv'
  BY <1>1 DEF TurnsTyped, CountersTyped, ReportTyped, TurnInv, turnVars
<1>3. ClockTyped'
  <2>1. due' \in BOOLEAN /\ gauge' \in {0, 1}
    BY DEF ClockTyped, checkVars
  <2>2. check' \in {check, None, hour} /\ checked' \in {checked, None, check}
    BY DEF checkVars
  <2> QED
    BY <1>1, <2>1, <2>2 DEF ClockTyped
<1>4. PurgeInv'
  BY <1>1 DEF ClockTyped, PurgeInv, Cutoff, turnVars
<1> QED
  BY <1>2, <1>3, <1>4

LEMMA PurgeKeeps ==
  ASSUME Base, Purge
  PROVE  Base'
<1>1. UNCHANGED <<hour, turn, counters, checkVars>> /\ rows' \subseteq rows
  BY DEF Purge, StartPurge, EndPurge, PurgeFails, turnVars
<1>2. TurnsTyped' /\ CountersTyped' /\ TurnInv'
  BY <1>1 DEF Base, TurnsTyped, CountersTyped, TurnInv
<1>3. ClockTyped'
  BY <1>1, RetentionInHours
     DEF Base, ClockTyped, Purge, StartPurge, EndPurge, PurgeFails, checkVars, Cutoff, None
<1>4. ReportTyped'
  BY ChangedKeeps DEF Base, ReportTyped, Purge, StartPurge, EndPurge, PurgeFails
<1>5. PurgeInv'
  BY <1>1, RetentionInHours
     DEF Base, TurnsTyped, TurnSpace, ClockTyped, PurgeInv, Purge, StartPurge, EndPurge, PurgeFails,
         Old, Cutoff, checkVars, turnVars, None
<1> QED
  BY <1>2, <1>3, <1>4, <1>5 DEF Base

LEMMA ReportKeeps ==
  ASSUME Base, Report
  PROVE  Base'
<1>1. UNCHANGED <<hour, turnVars, checkVars, cutoff>>
  BY DEF Report, AskReport, RunQuery, EndReport
<1>2. TurnsTyped' /\ CountersTyped' /\ ClockTyped' /\ TurnInv' /\ PurgeInv'
  BY <1>1
     DEF Base, TurnsTyped, CountersTyped, ClockTyped, TurnInv, PurgeInv, turnVars, checkVars, Cutoff
<1>3. ReportTyped'
  <2>1. CASE AskReport
    <3>1. report' \in ReportSpace({}) /\ report'.answers = <<>>
      BY <2>1, PeriodsAssumption DEF AskReport, ReportSpace
    <3> QED
      BY <3>1 DEF ReportTyped, Queries
  <2>2. CASE RunQuery
    <3>1. PICK S : report \in ReportSpace(S)
      BY DEF Base, ReportTyped
    <3>2. PICK a : report' = [report EXCEPT !.answers = Append(@, a)]
      BY <2>2 DEF RunQuery
    <3>3. report.answers \in Seq(S) /\ Len(report.answers) < Len(Queries)
      BY <2>2, <3>1 DEF RunQuery, ReportSpace
    <3>4. Append(report.answers, a) \in Seq(S \cup {a})
      BY <3>3
    <3>5. report' \in ReportSpace(S \cup {a})
      BY <3>1, <3>2, <3>4 DEF ReportSpace
    <3>6. Len(report'.answers) <= Len(Queries)
      BY <3>1, <3>2, <3>3 DEF ReportSpace, Queries
    <3> QED
      BY <3>5, <3>6 DEF ReportTyped
  <2>3. CASE EndReport
    <3>1. report' \in ReportSpace({}) /\ report'.answers = <<>>
      BY <2>3 DEF EndReport, NoReport, ReportSpace
    <3> QED
      BY <3>1 DEF ReportTyped, Queries
  <2> QED
    BY <2>1, <2>2, <2>3 DEF Report
<1> QED
  BY <1>2, <1>3 DEF Base

LEMMA NextBase == Base /\ [Next]_vars => Base'
<1> SUFFICES ASSUME Base, [Next]_vars PROVE Base'
  OBVIOUS
<1>1. CASE UNCHANGED vars
  BY <1>1 DEF Base, TurnsTyped, CountersTyped, ClockTyped, ReportTyped, TurnInv, PurgeInv, Cutoff,
              vars, turnVars, checkVars
<1> QED
  BY <1>1, TurnKeeps, RestartKeeps, TickKeeps, CheckKeeps, PurgeKeeps, ReportKeeps DEF Next

LEMMA SpecBase == Spec => []Base
BY InitBase, NextBase, PTL DEF Spec

\* Every variable has its type: in particular a row never outlives its turn's commit, and
\* neither a check nor a purge runs ahead of the clock.
THEOREM TypeCorrect == Spec => []TypeOK
BY SpecBase, BaseTypes, PTL

-----------------------------------------------------------------------------
(* The counters *)

Stored == Mine({"stored"})
Ahead == Mine({"logged", "undone"})
StoredCost == SumFunctionOnSet(RowCost, Stored)
AheadCost == SumFunctionOnSet(CountedCost, Ahead)

LEMMA CountersMean ==
  CountersLeadRows <=>
    /\ counters.requests = Cardinality(Stored) + Cardinality(Ahead)
    /\ 2 * Abs(counters.cost - StoredCost - AheadCost) <= Unit * Cardinality(Stored)
BY DEF CountersLeadRows, Stored, Ahead, StoredCost, AheadCost

\* Rounding to the nearest unit is off by half a unit at most.
LEMMA RoundingError ==
  ASSUME NEW c \in Nat
  PROVE  Rounded(c) \in Nat /\ 2 * Abs(c - Rounded(c)) <= Unit
<1> DEFINE q == (2 * c + Unit) \div (2 * Unit)
<1>1. 2 * Unit \in Nat \ {0} /\ 2 * c + Unit \in Nat
  OBVIOUS
<1>2. \A a \in Nat, b \in Nat \ {0} :
        a \div b \in Nat /\ b * (a \div b) <= a /\ a < b * (a \div b) + b
  OBVIOUS
<1>3. q \in Nat /\ (2 * Unit) * q <= 2 * c + Unit /\ 2 * c + Unit < (2 * Unit) * q + 2 * Unit
  BY <1>1, <1>2
<1>4. Rounded(c) = Unit * q
  BY DEF Rounded
<1> HIDE DEF q
<1>5. PICK m \in Nat : m = Unit * q /\ (2 * Unit) * q = 2 * m
  BY <1>3
<1>6. 2 * m <= 2 * c + Unit /\ 2 * c + Unit < 2 * m + 2 * Unit
  BY <1>3, <1>5
<1> QED
  BY <1>4, <1>5, <1>6 DEF Abs

LEMMA CostsTyped ==
  ASSUME Base, NEW t \in Turns
  PROVE  /\ CountedCost[t] \in Nat
         /\ RowCost[t] \in Nat
         /\ RowCost[t] = Rounded(CountedCost[t])
<1>1. turn[t].used \in Usages \cup {NoUsage}
  BY DEF Base, TurnsTyped, TurnSpace
<1>2. EstimatedCost(turn[t].used) \in Nat
  BY <1>1, CostNat
<1> QED
  BY <1>2, RoundingError DEF CountedCost, RowCost

LEMMA SumsTyped ==
  ASSUME Base, NEW S \in SUBSET Turns
  PROVE  /\ IsFiniteSet(S) /\ Cardinality(S) \in Nat
         /\ NatOn(RowCost, S) /\ SumFunctionOnSet(RowCost, S) \in Nat
         /\ NatOn(CountedCost, S) /\ SumFunctionOnSet(CountedCost, S) \in Nat
<1>1. IsFiniteSet(S) /\ Cardinality(S) \in Nat
  BY FS_Subset, FS_CardinalityType
<1>2. NatOn(RowCost, S) /\ NatOn(CountedCost, S)
  BY CostsTyped DEF NatOn
<1> QED
  BY <1>1, <1>2, SumNat

\* What a turn costs is decided when it is logged.
LEMMA SumsStay ==
  ASSUME Base, NEW S \in SUBSET Turns, \A t \in S : turn'[t].used = turn[t].used
  PROVE  /\ SumFunctionOnSet(RowCost', S) = SumFunctionOnSet(RowCost, S)
         /\ SumFunctionOnSet(CountedCost', S) = SumFunctionOnSet(CountedCost, S)
<1>1. IsFiniteSet(S) /\ NatOn(RowCost, S) /\ NatOn(CountedCost, S)
  BY SumsTyped
<1>2. \A t \in S : RowCost'[t] = RowCost[t] /\ CountedCost'[t] = CountedCost[t]
  BY DEF RowCost, CountedCost
<1> QED
  BY <1>1, <1>2, SumSame

LEMMA CountersStay ==
  ASSUME Base, CountersLeadRows, counters' = counters, Stored' = Stored, Ahead' = Ahead,
         \A t \in Stored \cup Ahead : turn'[t].used = turn[t].used
  PROVE  CountersLeadRows'
<1>1. Stored \in SUBSET Turns /\ Ahead \in SUBSET Turns
  BY DEF Stored, Ahead, Mine
<1>2. StoredCost' = StoredCost /\ AheadCost' = AheadCost
  BY <1>1, SumsStay DEF StoredCost, AheadCost
<1>3. /\ counters.requests = Cardinality(Stored) + Cardinality(Ahead)
      /\ 2 * Abs(counters.cost - StoredCost - AheadCost) <= Unit * Cardinality(Stored)
  BY CountersMean
<1>4. /\ counters'.requests = Cardinality(Stored') + Cardinality(Ahead')
      /\ 2 * Abs(counters'.cost - StoredCost' - AheadCost') <= Unit * Cardinality(Stored')
  BY <1>2, <1>3
<1> QED
  BY <1>4, CountersMean DEF CountersLeadRows, Stored, Ahead, StoredCost, AheadCost

\* The row and the counters that a turn logs move together, up to the rounding.
LEMMA LogMetricsCounts ==
  ASSUME Base, CountersLeadRows, NEW t \in Turns, LogMetrics(t)
  PROVE  CountersLeadRows'
<1>1. PICK u \in Usages :
        turn' = [turn EXCEPT ![t].state = "logged", ![t].used = u] /\ Count(u)
  BY DEF LogMetrics
<1>2. turn[t] \in TurnSpace /\ t \in DOMAIN turn /\ turn[t].state = "open" /\ turn[t].alive
  BY DEF Base, TurnsTyped, TurnInv, LogMetrics
<1>3. /\ turn'[t].state = "logged" /\ turn'[t].alive /\ turn'[t].used = u
      /\ \A e \in Turns \ {t} : turn'[e] = turn[e]
  <2>1. turn' = [turn EXCEPT ![t] = [turn[t] EXCEPT !.state = "logged", !.used = u]]
    BY <1>1, <1>2
  <2>2. turn'[t] = [turn[t] EXCEPT !.state = "logged", !.used = u]
    BY <1>2, <2>1
  <2>3. \A e \in Turns \ {t} : turn'[e] = turn[e]
    BY <2>1 DEF Base, TurnsTyped
  <2> QED
    BY <1>2, <2>2, <2>3 DEF TurnSpace
<1>4. Stored' = Stored /\ Ahead' = Ahead \cup {t} /\ t \notin Ahead
  BY <1>2, <1>3 DEF Stored, Ahead, Mine
<1>5. Stored \in SUBSET Turns /\ Ahead \in SUBSET Turns
  BY DEF Stored, Ahead, Mine
<1>6. StoredCost' = StoredCost /\ SumFunctionOnSet(CountedCost', Ahead) = AheadCost
  <2>1. \A e \in Stored : turn'[e].used = turn[e].used
    BY <1>2, <1>3 DEF Stored, Mine
  <2>2. \A e \in Ahead : turn'[e].used = turn[e].used
    BY <1>2, <1>3 DEF Ahead, Mine
  <2> QED
    BY <1>4, <1>5, <2>1, <2>2, SumsStay DEF StoredCost, AheadCost
<1>7. AheadCost' = EstimatedCost(u) + AheadCost
  <2>1. CountedCost'[t] = EstimatedCost(u) /\ EstimatedCost(u) \in Nat
    BY <1>3, CostNat DEF CountedCost
  <2>2. IsFiniteSet(Ahead) /\ NatOn(CountedCost', Ahead)
    <3>1. IsFiniteSet(Ahead) /\ NatOn(CountedCost, Ahead)
      BY <1>5, SumsTyped
    <3>2. \A e \in Ahead : CountedCost'[e] = CountedCost[e]
      BY <1>2, <1>3, <1>5 DEF CountedCost, Ahead, Mine
    <3> QED
      BY <3>1, <3>2 DEF NatOn
  <2>3. SumFunctionOnSet(CountedCost', Ahead \cup {t}) =
          CountedCost'[t] + SumFunctionOnSet(CountedCost', Ahead)
    BY <1>4, <2>1, <2>2, SumAdds
  <2> QED
    BY <1>4, <1>6, <2>1, <2>3 DEF AheadCost
<1>8. Cardinality(Ahead') = Cardinality(Ahead) + 1 /\ Cardinality(Stored') = Cardinality(Stored)
  BY <1>4, <1>5, FS_Subset, FS_AddElement
<1>9. /\ counters'.requests = counters.requests + 1
      /\ counters'.cost = counters.cost + EstimatedCost(u)
  BY <1>1 DEF Count
<1>10. /\ Cardinality(Stored) \in Nat /\ Cardinality(Ahead) \in Nat
       /\ StoredCost \in Nat /\ AheadCost \in Nat
  BY <1>5, SumsTyped DEF StoredCost, AheadCost
<1>11. EstimatedCost(u) \in Nat /\ counters.requests \in Nat /\ counters.cost \in Nat
  BY CostNat DEF Base, CountersTyped
<1>12. counters'.requests = Cardinality(Stored') + Cardinality(Ahead')
  BY <1>8, <1>9, <1>10, <1>11, CountersMean
<1>13. counters'.cost - StoredCost' - AheadCost' = counters.cost - StoredCost - AheadCost
  BY <1>6, <1>7, <1>9, <1>10, <1>11
<1>14. 2 * Abs(counters'.cost - StoredCost' - AheadCost') <= Unit * Cardinality(Stored')
  BY <1>8, <1>13, CountersMean
<1> QED
  BY <1>12, <1>14 DEF CountersLeadRows, Stored, Ahead, StoredCost, AheadCost

\* The row that is committed is rounded, and nothing else happens to the difference.
LEMMA CommitCounts ==
  ASSUME Base, CountersLeadRows, NEW t \in Turns, Commit(t)
  PROVE  CountersLeadRows'
<1>1. turn[t] \in TurnSpace /\ t \in DOMAIN turn /\ turn[t].state = "logged" /\ turn[t].alive
  BY DEF Base, TurnsTyped, TurnInv, Commit
<1>2. /\ turn'[t].state = "stored" /\ turn'[t].alive
      /\ \A e \in Turns : turn'[e].used = turn[e].used
      /\ \A e \in Turns \ {t} : turn'[e] = turn[e]
  BY <1>1 DEF Base, TurnsTyped, TurnSpace, Commit
<1>3. Stored' = Stored \cup {t} /\ Ahead' = Ahead \ {t} /\ t \notin Stored /\ t \in Ahead
  BY <1>1, <1>2 DEF Stored, Ahead, Mine
<1>4. Stored \in SUBSET Turns /\ Ahead \in SUBSET Turns
  BY DEF Stored, Ahead, Mine
<1> DEFINE rest == Ahead \ {t}
<1>5. rest \in SUBSET Turns /\ t \notin rest /\ Ahead = rest \cup {t}
  BY <1>3, <1>4
<1> HIDE DEF rest
<1>6. /\ IsFiniteSet(Stored) /\ NatOn(RowCost, Stored)
      /\ IsFiniteSet(rest) /\ NatOn(CountedCost, rest)
      /\ Cardinality(Stored) \in Nat /\ Cardinality(rest) \in Nat
      /\ StoredCost \in Nat /\ SumFunctionOnSet(CountedCost, rest) \in Nat
  BY <1>4, <1>5, SumsTyped DEF StoredCost
<1>7. /\ RowCost[t] \in Nat /\ CountedCost[t] \in Nat
      /\ 2 * Abs(CountedCost[t] - RowCost[t]) <= Unit
  BY CostsTyped, RoundingError
<1>8. StoredCost' = RowCost[t] + StoredCost
  <2>1. Stored \cup {t} \in SUBSET Turns
    BY <1>4
  <2>2. SumFunctionOnSet(RowCost', Stored \cup {t}) = SumFunctionOnSet(RowCost, Stored \cup {t})
    BY <1>2, <2>1, SumsStay
  <2> QED
    BY <1>3, <1>6, <1>7, <2>2, SumAdds DEF StoredCost
<1>9. AheadCost' = SumFunctionOnSet(CountedCost, rest)
  <2>1. SumFunctionOnSet(CountedCost', rest) = SumFunctionOnSet(CountedCost, rest)
    BY <1>2, <1>5, SumsStay
  <2> QED
    BY <1>3, <2>1 DEF AheadCost, rest
<1>10. AheadCost = CountedCost[t] + SumFunctionOnSet(CountedCost, rest)
  BY <1>5, <1>6, <1>7, SumAdds DEF AheadCost
<1>11. /\ Cardinality(Stored') = Cardinality(Stored) + 1
       /\ Cardinality(Ahead) = Cardinality(rest) + 1 /\ Cardinality(Ahead') = Cardinality(rest)
  <2>1. Cardinality(Stored \cup {t}) = Cardinality(Stored) + 1
    BY <1>3, <1>6, FS_AddElement
  <2>2. Cardinality(rest \cup {t}) = Cardinality(rest) + 1
    BY <1>5, <1>6, FS_AddElement
  <2>3. Ahead' = rest
    BY <1>3 DEF rest
  <2> QED
    BY <1>3, <1>5, <2>1, <2>2, <2>3
<1>12. counters' = counters /\ counters.requests \in Nat /\ counters.cost \in Nat
  BY DEF Commit, Base, CountersTyped
<1>13. counters'.requests = Cardinality(Stored') + Cardinality(Ahead')
  BY <1>6, <1>11, <1>12, CountersMean
<1>14. 2 * Abs(counters'.cost - StoredCost' - AheadCost') <= Unit * Cardinality(Stored')
  <2>1. 2 * Abs(counters.cost - StoredCost - AheadCost) <= Unit * Cardinality(Stored)
    BY CountersMean
  <2>2. /\ Unit * Cardinality(Stored') = Unit * Cardinality(Stored) + Unit
        /\ Unit * Cardinality(Stored) \in Nat
    <3>1. \A u, n \in Nat : u * (n + 1) = u * n + u /\ u * n \in Nat
      OBVIOUS
    <3> QED
      BY <1>6, <1>11, <3>1
  <2>3. PICK m, n \in Nat : /\ m = Unit * Cardinality(Stored)
                            /\ n = Unit * Cardinality(Stored') /\ n = m + Unit
    BY <2>2
  <2>4. PICK s, a, r, x \in Nat : /\ s = StoredCost /\ a = SumFunctionOnSet(CountedCost, rest)
                                  /\ r = RowCost[t] /\ x = CountedCost[t]
    BY <1>6, <1>7
  <2>5. 2 * Abs(counters.cost - s - (x + a)) <= m /\ 2 * Abs(x - r) <= Unit
    BY <1>7, <1>10, <2>1, <2>3, <2>4
  <2>6. 2 * Abs(counters.cost - (r + s) - a) <= n
    <3>1. n = m + Unit
      BY <2>3
    <3> QED
      BY <1>12, <2>5, <3>1 DEF Abs
  <2> QED
    BY <1>8, <1>9, <1>12, <2>3, <2>4, <2>6
<1> QED
  BY <1>13, <1>14 DEF CountersLeadRows, Stored, Ahead, StoredCost, AheadCost

LEMMA NextCounters == Base /\ CountersLeadRows /\ [Next]_vars => CountersLeadRows'
<1> SUFFICES ASSUME Base, CountersLeadRows, [Next]_vars PROVE CountersLeadRows'
  OBVIOUS
<1>1. CASE \E t \in Turns : Turn(t)
  <2>1. PICK t \in Turns : Turn(t)
    BY <1>1
  <2>2. turn[t] \in TurnSpace /\ turn \in [Turns -> TurnSpace]
    BY DEF Base, TurnsTyped
  <2>3. CASE Begin(t)
    <3>1. Stored' = Stored /\ Ahead' = Ahead
      BY <2>2, <2>3 DEF Begin, Idle, Stored, Ahead, Mine
    <3>2. \A e \in Stored \cup Ahead : turn'[e].used = turn[e].used
      BY <2>2, <2>3 DEF Begin, Stored, Ahead, Mine
    <3> QED
      BY <2>3, <3>1, <3>2, CountersStay DEF Begin
  <2>4. CASE RollBack(t)
    <3>1. Stored' = Stored /\ Ahead' = Ahead
      BY <2>2, <2>4 DEF RollBack, Failed, Idle, TurnSpace, Stored, Ahead, Mine
    <3>2. \A e \in Stored \cup Ahead : turn'[e].used = turn[e].used
      BY <2>2, <2>4 DEF RollBack, TurnSpace, Stored, Ahead, Mine
    <3> QED
      BY <2>4, <3>1, <3>2, CountersStay DEF RollBack
  <2> QED
    BY <2>1, <2>3, <2>4, LogMetricsCounts, CommitCounts DEF Turn
<1>2. CASE Restart
  <2>1. Stored' = {} /\ Ahead' = {}
    <3>1. \A t \in Turns : ~turn'[t].alive
      BY <1>2 DEF Restart, Base, TurnsTyped, TurnSpace, Failed, Idle
    <3> QED
      BY <3>1 DEF Stored, Ahead, Mine
  <2>2. StoredCost' = 0 /\ AheadCost' = 0 /\ Cardinality(Stored') = 0 /\ Cardinality(Ahead') = 0
    BY <2>1, SumOfNone, FS_EmptySet DEF StoredCost, AheadCost
  <2>3. counters' = [requests |-> 0, cost |-> 0]
    BY <1>2 DEF Restart
  <2>4. 2 * Abs(counters'.cost - StoredCost' - AheadCost') <= Unit * Cardinality(Stored')
    BY <2>2, <2>3 DEF Abs
  <2> QED
    BY <2>2, <2>3, <2>4 DEF CountersLeadRows, Stored, Ahead, StoredCost, AheadCost
<1>3. CASE Tick \/ Check \/ Purge \/ Report \/ UNCHANGED vars
  <2>1. UNCHANGED <<turn, counters>>
    BY <1>3 DEF Tick, Check, StartCheck, SkipCheck, EndCheck, CheckFails, RestartScheduler,
                Purge, StartPurge, EndPurge, PurgeFails, Report, AskReport, RunQuery, EndReport,
                turnVars, vars
  <2>2. Stored' = Stored /\ Ahead' = Ahead
    BY <2>1 DEF Stored, Ahead, Mine
  <2> QED
    BY <2>1, <2>2, CountersStay
<1> QED
  BY <1>1, <1>2, <1>3 DEF Next

LEMMA InitCounters == Init => CountersLeadRows
<1> SUFFICES ASSUME Init PROVE CountersLeadRows
  OBVIOUS
<1>1. Stored = {} /\ Ahead = {}
  BY DEF Init, Idle, Stored, Ahead, Mine
<1>2. StoredCost = 0 /\ AheadCost = 0 /\ Cardinality(Stored) = 0 /\ Cardinality(Ahead) = 0
  BY <1>1, SumOfNone, FS_EmptySet DEF StoredCost, AheadCost
<1>3. 2 * Abs(counters.cost - StoredCost - AheadCost) <= Unit * Cardinality(Stored)
  BY <1>2 DEF Init, Abs
<1> QED
  BY <1>2, <1>3, CountersMean DEF Init

\* The counters count every turn that stored its row since the process began, and those
\* between the count and the commit or rolled back there; their cost differs from what is
\* stored and counted ahead by no more than the rounding of the rows.
THEOREM CountersAhead == Spec => []CountersLeadRows
BY SpecBase, InitCounters, NextCounters, PTL DEF Spec

-----------------------------------------------------------------------------
(* The alert *)

\* The turns SpentBy(h, by) adds up.
SpentIn(h, by) == {t \in Turns : turn[t].state = "stored" /\ Spent(h, t) /\ turn[t].kept < by}

\* Hours of one day are less than a day apart.
LEMMA SameDay ==
  ASSUME NEW g \in Nat, NEW h \in Nat, Day(g) = Day(h)
  PROVE  h < g + DayLength
<1>1. \A a \in Nat, d \in Nat \ {0} : a \div d \in Nat /\ d * (a \div d) <= a /\ a < d * (a \div d) + d
  OBVIOUS
<1>2. PICK n : n = DayLength * Day(g) /\ n = DayLength * Day(h)
  OBVIOUS
<1>3. n \in Int /\ n <= g /\ h < n + DayLength
  BY <1>1, <1>2 DEF Day
<1> QED
  BY <1>3

LEMMA RowCostsNext ==
  ASSUME Base'
  PROVE  NatOn(RowCost', Turns)
<1> SUFFICES ASSUME NEW t \in Turns PROVE RowCost'[t] \in Nat
  BY DEF NatOn
<1>1. turn'[t].used \in Usages \cup {NoUsage}
  BY DEF Base, TurnsTyped, TurnSpace
<1>2. EstimatedCost(turn'[t].used) \in Nat
  BY <1>1, CostNat
<1>3. Rounded(EstimatedCost(turn'[t].used)) \in Nat
  BY <1>2, RoundingError
<1> QED
  BY <1>3 DEF RowCost

\* No check ended: what it saw of its day only grows, and nothing is committed before it
\* that was not.
LEMMA AlertStays ==
  ASSUME Base, Base', AlertIsTrue, checked' = checked, gauge' = gauge, hour <= hour',
         \A t \in Turns : turn[t].state = "stored" =>
           /\ turn'[t].state = "stored" /\ turn'[t].used = turn[t].used
           /\ turn'[t].began = turn[t].began /\ turn'[t].kept = turn[t].kept,
         \A t \in Turns : turn'[t].state = "stored" =>
           turn[t].state = "stored" \/ turn'[t].kept = hour
  PROVE  AlertIsTrue'
<1> SUFFICES ASSUME checked # None
             PROVE  IF gauge' = 1 THEN SpentBy(checked, hour + 1)' >= Budget
                    ELSE SpentBy(checked, checked)' < Budget
  BY DEF AlertIsTrue
<1>1. PICK k \in Nat : k = checked /\ k <= hour
  BY DEF Base, ClockTyped
<1>2. hour \in Nat /\ hour' \in Nat
  BY DEF Base, ClockTyped
<1>3. SpentIn(k, hour + 1) \in SUBSET Turns /\ SpentIn(k, k) \in SUBSET Turns
  BY DEF SpentIn
<1>4. CASE gauge = 1
  <2>1. SumFunctionOnSet(RowCost, SpentIn(k, hour + 1)) >= Budget
    BY <1>1, <1>4 DEF AlertIsTrue, SpentBy, SpentIn
  <2>2. SumFunctionOnSet(RowCost', SpentIn(k, hour + 1)) =
          SumFunctionOnSet(RowCost, SpentIn(k, hour + 1))
    <3>1. \A t \in SpentIn(k, hour + 1) : turn'[t].used = turn[t].used
      BY DEF SpentIn
    <3> QED
      BY <1>3, <3>1, SumsStay
  <2>3. PICK S : S = SpentIn(k, hour + 1)'
    OBVIOUS
  <2>4. S \in SUBSET Turns /\ SpentIn(k, hour + 1) \in SUBSET S
    <3>1. S = {t \in Turns : turn'[t].state = "stored" /\ Day(turn'[t].began) = Day(k)
                               /\ turn'[t].began < k /\ turn'[t].kept < hour' + 1}
      BY <2>3 DEF SpentIn, Spent
    <3>2. \A t \in SpentIn(k, hour + 1) :
            /\ t \in Turns /\ turn[t].state = "stored" /\ Day(turn[t].began) = Day(k)
            /\ turn[t].began < k /\ turn[t].kept < hour' + 1
      BY <1>2 DEF SpentIn, Spent, Base, TurnsTyped, TurnSpace
    <3> QED
      BY <3>1, <3>2
  <2>5. IsFiniteSet(S) /\ NatOn(RowCost', S)
    BY <2>4, FS_Subset, RowCostsNext DEF NatOn
  <2>6. SumFunctionOnSet(RowCost', SpentIn(k, hour + 1)) <= SumFunctionOnSet(RowCost', S)
    BY <2>4, <2>5, SumMonotone
  <2>7. SumFunctionOnSet(RowCost', S) \in Nat
    BY <2>5, SumNat
  <2>8. SumFunctionOnSet(RowCost, SpentIn(k, hour + 1)) \in Nat
    BY <1>3, SumsTyped
  <2>9. SumFunctionOnSet(RowCost', S) >= Budget
    BY <2>1, <2>2, <2>6, <2>7, <2>8
  <2>10. SpentBy(checked, hour + 1)' = SumFunctionOnSet(RowCost', S)
    BY <1>1, <2>3 DEF SpentBy, SpentIn
  <2> QED
    BY <1>4, <2>9, <2>10
<1>5. CASE gauge # 1
  <2>1. SumFunctionOnSet(RowCost, SpentIn(k, k)) < Budget
    BY <1>1, <1>5 DEF AlertIsTrue, SpentBy, SpentIn
  <2>2. SpentIn(k, k)' = SpentIn(k, k)
    <3>1. \A t \in Turns : turn'[t].state = "stored" /\ turn'[t].kept < k => turn[t].state = "stored"
      BY <1>1, <1>2
    <3> QED
      BY <3>1 DEF SpentIn, Spent
  <2>3. SumFunctionOnSet(RowCost', SpentIn(k, k)) = SumFunctionOnSet(RowCost, SpentIn(k, k))
    <3>1. \A t \in SpentIn(k, k) : turn'[t].used = turn[t].used
      BY DEF SpentIn
    <3> QED
      BY <1>3, <3>1, SumsStay
  <2>4. SpentBy(checked, checked)' = SumFunctionOnSet(RowCost', SpentIn(k, k)')
    BY <1>1 DEF SpentBy, SpentIn
  <2> QED
    BY <1>5, <2>1, <2>2, <2>3, <2>4
<1> QED
  BY <1>4, <1>5

\* A check misses no row of its day committed before it, and counts none of another.
LEMMA EndCheckTrue ==
  ASSUME Base, EndCheck
  PROVE  AlertIsTrue'
<1>1. PICK k \in Nat : k = check /\ k <= hour
  BY DEF EndCheck, Base, ClockTyped
<1>2. checked' = k /\ UNCHANGED <<hour, turn, rows>>
  BY <1>1 DEF EndCheck, turnVars
<1>3. PICK S : S = {t \in rows : Spent(k, t)}
  OBVIOUS
<1>4. gauge' = IF SumFunctionOnSet(RowCost, S) >= Budget THEN 1 ELSE 0
  BY <1>1, <1>3 DEF EndCheck
<1>5. hour \in Nat /\ S \in SUBSET Turns
  BY <1>3 DEF Base, TurnsTyped, ClockTyped
<1>6. SumFunctionOnSet(RowCost, S) \in Nat
  BY <1>5, SumsTyped
<1>7. RowCost' = RowCost
  BY <1>2 DEF RowCost
<1>8. CASE SumFunctionOnSet(RowCost, S) >= Budget
  <2>1. SpentIn(k, hour + 1) \in SUBSET Turns
    BY DEF SpentIn
  <2>2. S \in SUBSET SpentIn(k, hour + 1)
    <3>1. \A t \in rows : t \in Turns /\ turn[t].state = "stored" /\ turn[t].kept < hour + 1
      BY <1>5 DEF Base, TurnsTyped, TurnSpace, TurnInv
    <3> QED
      BY <1>3, <3>1 DEF SpentIn
  <2>3. SumFunctionOnSet(RowCost, S) <= SumFunctionOnSet(RowCost, SpentIn(k, hour + 1))
    BY <2>1, <2>2, SumsTyped, SumMonotone
  <2>4. SumFunctionOnSet(RowCost, SpentIn(k, hour + 1)) >= Budget
    BY <1>6, <1>8, <2>1, <2>3, SumsTyped
  <2>5. SpentBy(checked, hour + 1)' = SumFunctionOnSet(RowCost, SpentIn(k, hour + 1))
    BY <1>2, <1>7 DEF SpentBy, SpentIn, Spent
  <2> QED
    BY <1>4, <1>8, <2>4, <2>5 DEF AlertIsTrue
<1>9. CASE ~(SumFunctionOnSet(RowCost, S) >= Budget)
  <2>1. SpentIn(k, k) \in SUBSET S
    <3> SUFFICES ASSUME NEW t \in SpentIn(k, k) PROVE t \in S
      OBVIOUS
    <3>1. t \in Turns /\ turn[t].state = "stored" /\ Spent(k, t) /\ turn[t].began \in Nat
      BY DEF SpentIn, Base, TurnsTyped, TurnSpace
    <3>2. k < turn[t].began + DayLength
      BY <3>1, SameDay DEF Spent
    <3>3. hour <= k + 1
      BY <1>1 DEF Base, PurgeInv, None
    <3>4. ~(turn[t].began < Cutoff)
      BY <1>5, <3>1, <3>2, <3>3, RetentionInHours DEF Cutoff
    <3>5. t \in rows
      BY <3>1, <3>4 DEF Base, PurgeInv
    <3> QED
      BY <1>3, <3>1, <3>5
  <2>2. SumFunctionOnSet(RowCost, SpentIn(k, k)) <= SumFunctionOnSet(RowCost, S)
    BY <1>5, <2>1, SumsTyped, SumMonotone
  <2>3. SumFunctionOnSet(RowCost, SpentIn(k, k)) < Budget
    <3>1. SumFunctionOnSet(RowCost, SpentIn(k, k)) \in Nat
      BY <1>5, <2>1, SumsTyped
    <3> QED
      BY <1>6, <1>9, <2>2, <3>1
  <2>4. SpentBy(checked, checked)' = SumFunctionOnSet(RowCost, SpentIn(k, k))
    BY <1>2, <1>7 DEF SpentBy, SpentIn, Spent
  <2> QED
    BY <1>4, <1>9, <2>3, <2>4 DEF AlertIsTrue
<1> QED
  BY <1>8, <1>9

LEMMA NextAlert == Base /\ AlertIsTrue /\ [Next]_vars => AlertIsTrue'
<1> SUFFICES ASSUME Base, AlertIsTrue, [Next]_vars PROVE AlertIsTrue'
  OBVIOUS
<1>1. Base' /\ turn \in [Turns -> TurnSpace] /\ hour \in Nat
  BY NextBase DEF Base, TurnsTyped, ClockTyped
<1>2. CASE (\E t \in Turns : Turn(t)) \/ Restart
  <2>1. UNCHANGED <<hour, checked, gauge>>
    BY <1>2 DEF Turn, Begin, LogMetrics, Commit, RollBack, Restart, checkVars
  <2>2. ASSUME NEW e \in Turns
        PROVE  /\ turn[e].state = "stored" =>
                    /\ turn'[e].state = "stored" /\ turn'[e].used = turn[e].used
                    /\ turn'[e].began = turn[e].began /\ turn'[e].kept = turn[e].kept
               /\ turn'[e].state = "stored" => turn[e].state = "stored" \/ turn'[e].kept = hour
    <3>1. turn[e] \in TurnSpace
      BY <1>1
    <3>2. CASE Restart
      BY <3>1, <3>2 DEF Restart, TurnSpace, Failed, Idle
    <3>3. ASSUME NEW t \in Turns, Turn(t)
          PROVE  \/ turn'[e] = turn[e]
                 \/ turn[e].state # "stored" /\ (turn'[e].state # "stored" \/ turn'[e].kept = hour)
      <4>1. CASE Begin(t)
        BY <1>1, <3>1, <4>1 DEF Begin, Idle, TurnSpace
      <4>2. CASE LogMetrics(t)
        <5>1. PICK u \in Usages :
                turn' = [turn EXCEPT ![t] = [turn[t] EXCEPT !.state = "logged", !.used = u]]
          BY <1>1, <4>2 DEF LogMetrics
        <5> QED
          BY <1>1, <3>1, <4>2, <5>1 DEF LogMetrics, TurnSpace
      <4>3. CASE Commit(t)
        BY <1>1, <3>1, <4>3 DEF Commit, TurnSpace
      <4>4. CASE RollBack(t)
        BY <1>1, <3>1, <4>4 DEF RollBack, Failed, Idle, TurnSpace
      <4> QED
        BY <3>3, <4>1, <4>2, <4>3, <4>4 DEF Turn
    <3> QED
      BY <1>2, <3>2, <3>3
  <2> QED
    BY <1>1, <2>1, <2>2, AlertStays
<1>3. CASE EndCheck
  BY <1>3, EndCheckTrue
<1>4. CASE RestartScheduler
  BY <1>4 DEF RestartScheduler, AlertIsTrue
<1>5. CASE \/ Tick \/ StartCheck \/ SkipCheck \/ CheckFails \/ Purge \/ Report
           \/ UNCHANGED vars
  <2>1. UNCHANGED <<turn, gauge, checked>> /\ hour <= hour'
    BY <1>1, <1>5
       DEF Tick, StartCheck, SkipCheck, CheckFails, Purge, StartPurge, EndPurge, PurgeFails,
           Report, AskReport, RunQuery, EndReport, turnVars, checkVars, vars
  <2> QED
    BY <1>1, <2>1, AlertStays
<1> QED
  BY <1>2, <1>3, <1>4, <1>5 DEF Next, Check

LEMMA InitAlert == Init => AlertIsTrue
BY DEF Init, AlertIsTrue

\* The alert is up for a day whose committed turns cost the budget, and down only if those
\* committed before the check that set it did not, purged or not by now.
THEOREM AlertTrue == Spec => []AlertIsTrue
BY SpecBase, InitAlert, NextAlert, PTL DEF Spec

-----------------------------------------------------------------------------
(* The report *)

\* The rows the open report is about.
Found == {t \in rows : InPeriod(report.period, t)}
FoundText == {t \in Found : turn[t].used.model = "text"}
FoundEmbedded == {t \in Found : turn[t].used.embedded}
FoundShort == {t \in Found : turn[t].used.short}

\* How the answers so far relate to the rows that a query would find now.
ReportInv ==
  LET answer == report.answers
      still == report.changed = {}
      grew == "purge" \notin report.changed
  IN
  /\ ~report.open => answer = <<>>
  /\ Len(answer) >= 1 =>
       /\ answer[1] \in Nat
       /\ grew => answer[1] <= Cardinality(Found)
       /\ still => answer[1] = Cardinality(Found)
  /\ Len(answer) >= 2 =>
       /\ Volume \in Nat
       /\ grew => Volume <= Cardinality(Found)
       /\ still => Volume = Cardinality(Found)
  /\ Len(answer) >= 3 /\ still =>
       /\ answer[3].total = Cardinality(Found)
       /\ answer[3].text = Cardinality(FoundText)
       /\ answer[3].embedding = Cardinality(FoundEmbedded)

LEMMA FoundTyped ==
  ASSUME Base
  PROVE  /\ Found \in SUBSET Turns /\ IsFiniteSet(Found) /\ Cardinality(Found) \in Nat
         /\ \A S \in SUBSET Found : IsFiniteSet(S) /\ Cardinality(S) \in Nat
<1>1. Found \in SUBSET Turns
  BY DEF Found, Base, TurnsTyped
<1>2. IsFiniteSet(Found) /\ \A S \in SUBSET Found : IsFiniteSet(S)
  BY <1>1, FS_Subset
<1> QED
  BY <1>1, <1>2, FS_CardinalityType

\* Before its first answer a report claims nothing.
LEMMA NoAnswer ==
  ASSUME report'.answers = <<>>
  PROVE  ReportInv' /\ ReportFitsTogether'
BY DEF ReportInv, ReportFitsTogether

\* No answer is given, and a change of what a query would find is noted.
LEMMA AnswersStay ==
  ASSUME Base, Base', ReportInv, ReportFitsTogether, report.open,
         report'.answers = report.answers, report'.open = report.open,
         report.changed \subseteq report'.changed,
         report'.changed = {} =>
           Found' = Found /\ FoundText' = FoundText /\ FoundEmbedded' = FoundEmbedded,
         "purge" \notin report'.changed => Found \subseteq Found'
  PROVE  ReportInv' /\ ReportFitsTogether'
<1>1. IsFiniteSet(Found') /\ Cardinality(Found') \in Nat /\ Cardinality(Found) \in Nat
  <2>1. Found' \in SUBSET Turns
    BY DEF Found, Base, TurnsTyped
  <2> QED
    BY <2>1, FoundTyped, FS_Subset, FS_CardinalityType
<1>2. "purge" \notin report'.changed => Cardinality(Found) <= Cardinality(Found')
  BY <1>1, FS_Subset
<1>3. Volume' = Volume
  BY DEF Volume
<1>4. /\ "purge" \notin report'.changed => "purge" \notin report.changed
      /\ report'.changed = {} => report.changed = {}
  OBVIOUS
<1>5. ReportInv'
  BY <1>1, <1>2, <1>3, <1>4 DEF ReportInv
<1>6. ReportFitsTogether'
  BY <1>3, <1>4 DEF ReportFitsTogether
<1> QED
  BY <1>5, <1>6

\* The volume by day counts every row of the period once.
LEMMA VolumeCounts ==
  ASSUME Base
  PROVE  SumFunction(Answer("volume_by_day", report.period)) = Cardinality(Found)
<1> DEFINE class == [t \in Turns |-> Day(turn[t].began)]
           days == {Day(turn[t].began) : t \in Found}
           g == [t \in Found |-> Day(turn[t].began)]
<1>1. /\ Found \in SUBSET Turns /\ IsFiniteSet(Found)
      /\ \A t \in rows : t \in Turns
  BY FoundTyped DEF Base, TurnsTyped
<1>2. IsFiniteSet(days)
  <2>1. g \in Surjection(Found, days)
    BY DEF Surjection
  <2> QED
    BY <1>1, <2>1, FS_Surjection
<1>3. Answer("volume_by_day", report.period) =
        [d \in days |-> Cardinality({t \in rows : Day(turn[t].began) = d})]
  BY DEF Answer, Found
<1>4. \A d \in days : {t \in rows : Day(turn[t].began) = d} = {t \in Found : class[t] = d}
  <2> SUFFICES ASSUME NEW e \in Found
               PROVE  {t \in rows : Day(turn[t].began) = Day(turn[e].began)} =
                        {t \in Found : class[t] = Day(turn[e].began)}
    OBVIOUS
  <2> QED
    BY <1>1 DEF Found, InPeriod
<1>5. \A t \in Found : class[t] \in days
  BY <1>1
<1>6. [d \in days |-> Cardinality({t \in rows : Day(turn[t].began) = d})] =
        Counts(Found, class, days)
  BY <1>4, Zenon DEF Counts
<1> HIDE DEF class, days, g
<1>7. SumFunctionOnSet(Counts(Found, class, days), days) = Cardinality(Found)
  BY <1>1, <1>2, <1>5, SumOfCounts
<1>8. DOMAIN Counts(Found, class, days) = days
  BY DEF Counts
<1> QED
  BY <1>3, <1>6, <1>7, <1>8 DEF SumFunction

\* Every turn of the period that was not short-circuited has called both models.
LEMMA ShortOrCalled ==
  ASSUME Base
  PROVE  /\ Cardinality(Found) - Cardinality(FoundShort) \in 0..Cardinality(FoundText)
         /\ Cardinality(Found) - Cardinality(FoundShort) \in 0..Cardinality(FoundEmbedded)
<1> DEFINE long == Found \ FoundShort
<1>1. /\ FoundShort \in SUBSET Found /\ long \in SUBSET Found /\ FoundText \in SUBSET Found
      /\ FoundEmbedded \in SUBSET Found
      /\ Found = FoundShort \cup long /\ FoundShort \cap long = {}
  BY DEF FoundShort, FoundText, FoundEmbedded
<1>2. long \in SUBSET FoundText /\ long \in SUBSET FoundEmbedded
  <2> SUFFICES ASSUME NEW t \in Found, ~turn[t].used.short
               PROVE  turn[t].used.model = "text" /\ turn[t].used.embedded
    BY DEF FoundShort, FoundText, FoundEmbedded
  <2>1. turn[t].used \in Usages \cup {NoUsage}
    BY FoundTyped DEF Base, TurnsTyped, TurnSpace
  <2>2. NoUsage.short
    BY DEF NoUsage
  <2> QED
    BY <2>1, <2>2, UsagesAssumption
<1> HIDE DEF long
<1>3. /\ IsFiniteSet(FoundShort) /\ IsFiniteSet(long) /\ IsFiniteSet(FoundText)
      /\ IsFiniteSet(FoundEmbedded) /\ Cardinality(FoundEmbedded) \in Nat
      /\ Cardinality(FoundShort) \in Nat /\ Cardinality(long) \in Nat
      /\ Cardinality(FoundText) \in Nat /\ Cardinality(Found) \in Nat
  BY <1>1, FoundTyped
<1>4. Cardinality(FoundShort \cup long) =
        Cardinality(FoundShort) + Cardinality(long) - Cardinality(FoundShort \cap long)
  BY <1>3, FS_Union
<1>5. Cardinality(FoundShort \cap long) = 0
  BY <1>1, FS_EmptySet
<1>6. /\ Cardinality(long) <= Cardinality(FoundText)
      /\ Cardinality(long) <= Cardinality(FoundEmbedded)
  BY <1>2, <1>3, FS_Subset
<1>7. Cardinality(Found) = Cardinality(FoundShort) + Cardinality(long)
  BY <1>1, <1>3, <1>4, <1>5
<1> QED
  BY <1>3, <1>6, <1>7

\* Each query answers for the rows of its own moment.
LEMMA RunQueryKeeps ==
  ASSUME Base, ReportInv, ReportFitsTogether, RunQuery
  PROVE  ReportInv' /\ ReportFitsTogether'
<1>1. PICK S : report \in ReportSpace(S)
  BY DEF Base, ReportTyped
<1> DEFINE n == Len(report.answers) + 1
<1>2. PICK a : a = Answer(Queries[n], report.period)
  OBVIOUS
<1>3. report.open /\ Len(report.answers) < 5 /\ report' = [report EXCEPT !.answers = Append(@, a)]
  BY <1>2 DEF RunQuery, Queries
<1>4. report.answers \in Seq(S) /\ n \in 1..5
  BY <1>1, <1>3 DEF ReportSpace
<1>5. /\ report'.answers = Append(report.answers, a) /\ report'.period = report.period
      /\ report'.changed = report.changed /\ report'.open
  BY <1>1, <1>3 DEF ReportSpace
<1>6. /\ Len(report'.answers) = n /\ report'.answers[n] = a /\ Len(report.answers) = n - 1
      /\ \A i \in 1..(n - 1) : report'.answers[i] = report.answers[i]
  BY <1>4, <1>5
<1>7. Found' = Found /\ FoundText' = FoundText /\ FoundEmbedded' = FoundEmbedded
  <2>1. UNCHANGED <<turn, rows>>
    BY DEF RunQuery, turnVars
  <2>2. Found' = Found
    BY <1>5, <2>1 DEF Found, InPeriod
  <2> QED
    BY <2>1, <2>2 DEF FoundText, FoundEmbedded
<1>8. Cardinality(Found) \in Nat
  BY FoundTyped
<1>9. n >= 3 => Volume' = Volume
  BY <1>4, <1>6 DEF Volume
<1> HIDE DEF n
<1>10. CASE n = 1
  <2>1. a = Cardinality(Found)
    BY <1>2, <1>10 DEF Answer, Queries, Found
  <2> QED
    BY <1>5, <1>6, <1>7, <1>8, <1>10, <2>1 DEF ReportInv, ReportFitsTogether
<1>11. CASE n = 2
  <2>1. SumFunction(a) = Cardinality(Found)
    BY <1>2, <1>11, VolumeCounts DEF Queries
  <2>2. Volume' = Cardinality(Found)
    BY <1>6, <1>11, <2>1 DEF Volume
  <2>3. report'.answers[1] = report.answers[1] /\ Len(report.answers) = 1
    BY <1>6, <1>11
  <2> QED
    BY <1>5, <1>6, <1>7, <1>8, <1>11, <2>2, <2>3 DEF ReportInv, ReportFitsTogether
<1>12. CASE n = 3
  <2>1. /\ a.total = Cardinality(Found) /\ a.text = Cardinality(FoundText)
        /\ a.embedding = Cardinality(FoundEmbedded)
    BY <1>2, <1>12 DEF Answer, Queries, Found, FoundText, FoundEmbedded
  <2>2. report'.answers[1] = report.answers[1] /\ Len(report.answers) = 2
    BY <1>6, <1>12
  <2> QED
    BY <1>5, <1>6, <1>7, <1>8, <1>9, <1>12, <2>1, <2>2 DEF ReportInv, ReportFitsTogether
<1>13. CASE n = 4
  <2>1. a = Cardinality(FoundShort)
    BY <1>2, <1>13 DEF Answer, Queries, Found, FoundShort
  <2>2. /\ report'.answers[1] = report.answers[1] /\ report'.answers[3] = report.answers[3]
        /\ Len(report.answers) = 3
    BY <1>6, <1>13
  <2>3. report.changed = {} =>
          /\ report'.answers[3].total - report'.answers[4] \in 0..report'.answers[3].text
          /\ report'.answers[3].total - report'.answers[4] \in 0..report'.answers[3].embedding
    BY <1>6, <1>13, <2>1, <2>2, ShortOrCalled DEF ReportInv
  <2> QED
    BY <1>5, <1>6, <1>7, <1>8, <1>9, <1>13, <2>2, <2>3 DEF ReportInv, ReportFitsTogether
<1>14. CASE n = 5
  <2>1. /\ report'.answers[1] = report.answers[1] /\ report'.answers[3] = report.answers[3]
        /\ report'.answers[4] = report.answers[4] /\ Len(report.answers) = 4
    BY <1>6, <1>14
  <2> QED
    BY <1>5, <1>6, <1>7, <1>8, <1>9, <1>14, <2>1 DEF ReportInv, ReportFitsTogether
<1> QED
  BY <1>4, <1>10, <1>11, <1>12, <1>13, <1>14

LEMMA NextReport ==
  Base /\ ReportInv /\ ReportFitsTogether /\ [Next]_vars => ReportInv' /\ ReportFitsTogether'
<1> SUFFICES ASSUME Base, ReportInv, ReportFitsTogether, [Next]_vars
             PROVE  ReportInv' /\ ReportFitsTogether'
  OBVIOUS
<1>1. /\ Base' /\ turn \in [Turns -> TurnSpace]
      /\ \A t \in rows : t \in Turns /\ turn[t].state = "stored"
  BY NextBase DEF Base, TurnsTyped
<1>2. ~report.open => report.answers = <<>>
  BY DEF ReportInv
<1>3. CASE ~report.open /\ report'.answers = report.answers
  BY <1>2, <1>3, NoAnswer
<1>4. ASSUME report.open, report' = report, UNCHANGED rows,
             \A t \in rows : turn'[t].used = turn[t].used /\ turn'[t].began = turn[t].began
      PROVE  ReportInv' /\ ReportFitsTogether'
  <2>1. Found' = Found
    BY <1>4 DEF Found, InPeriod
  <2>2. FoundText' = FoundText /\ FoundEmbedded' = FoundEmbedded
    BY <1>4, <2>1 DEF FoundText, FoundEmbedded, Found
  <2> QED
    BY <1>1, <1>4, <2>1, <2>2, AnswersStay
<1>5. CASE \E t \in Turns : Turn(t)
  <2>1. PICK t \in Turns : Turn(t)
    BY <1>5
  <2>2. CASE Commit(t)
    <3>1. /\ report'.answers = report.answers /\ report'.period = report.period
          /\ report'.open = report.open
          /\ report'.changed = IF report.open THEN report.changed \cup {"commit"} ELSE report.changed
      BY <2>2, ChangedKeeps DEF Commit, Base
    <3>2. rows' = rows \cup {t} /\ \A e \in rows : turn'[e] = turn[e]
      BY <1>1, <2>1, <2>2 DEF Commit
    <3>3. Found \subseteq Found'
      BY <3>1, <3>2 DEF Found, InPeriod
    <3>4. CASE report.open
      BY <1>1, <3>1, <3>3, <3>4, AnswersStay
    <3> QED
      BY <1>3, <3>1, <3>4
  <2>3. CASE ~Commit(t)
    <3>1. report' = report /\ rows' = rows
      BY <2>1, <2>3 DEF Turn, Begin, LogMetrics, RollBack
    <3>2. \A e \in rows : turn'[e] = turn[e]
      <4> SUFFICES ASSUME NEW e \in rows PROVE turn'[e] = turn[e]
        OBVIOUS
      <4>1. e \in Turns /\ turn[e].state = "stored"
        BY <1>1
      <4>2. CASE LogMetrics(t)
        <5>1. PICK u \in Usages :
                turn' = [turn EXCEPT ![t] = [turn[t] EXCEPT !.state = "logged", !.used = u]]
          BY <1>1, <4>2 DEF LogMetrics
        <5> QED
          BY <1>1, <4>1, <4>2, <5>1 DEF LogMetrics
      <4> QED
        BY <1>1, <2>1, <2>3, <4>1, <4>2 DEF Turn, Begin, RollBack
    <3> QED
      BY <1>3, <1>4, <3>1, <3>2
  <2> QED
    BY <2>2, <2>3
<1>6. CASE Restart
  <2>1. report' = report /\ rows' = rows
    BY <1>6 DEF Restart
  <2>2. \A e \in rows : turn'[e].used = turn[e].used /\ turn'[e].began = turn[e].began
    <3> SUFFICES ASSUME NEW e \in rows
                 PROVE  turn'[e].used = turn[e].used /\ turn'[e].began = turn[e].began
      OBVIOUS
    <3>1. turn[e] \in TurnSpace /\ turn'[e] = [turn[e] EXCEPT !.alive = FALSE]
      BY <1>1, <1>6 DEF Restart
    <3> QED
      BY <3>1 DEF TurnSpace
  <2> QED
    BY <1>3, <1>4, <2>1, <2>2
<1>7. CASE Tick \/ Check \/ StartPurge \/ PurgeFails \/ UNCHANGED vars
  <2>1. UNCHANGED <<turn, rows, report>>
    BY <1>7 DEF Tick, Check, StartCheck, SkipCheck, EndCheck, CheckFails, RestartScheduler,
                StartPurge, PurgeFails, turnVars, vars
  <2> QED
    BY <1>3, <1>4, <2>1
<1>8. CASE EndPurge
  <2>1. CASE Old = {}
    <3>1. UNCHANGED <<turn, rows, report>>
      BY <1>8, <2>1 DEF EndPurge
    <3> QED
      BY <1>3, <1>4, <3>1
  <2>2. CASE Old # {}
    <3>1. /\ report'.answers = report.answers /\ report'.open = report.open
          /\ report'.changed = IF report.open THEN report.changed \cup {"purge"} ELSE report.changed
      BY <1>8, <2>2, ChangedKeeps DEF EndPurge, Base
    <3>2. CASE report.open
      BY <1>1, <3>1, <3>2, AnswersStay
    <3> QED
      BY <1>3, <3>1, <3>2
  <2> QED
    BY <2>1, <2>2
<1>9. CASE Report
  <2>1. CASE AskReport
    <3>1. report'.answers = <<>>
      BY <2>1 DEF AskReport
    <3> QED
      BY <3>1, NoAnswer
  <2>2. CASE EndReport
    <3>1. report'.answers = <<>>
      BY <2>2 DEF EndReport, NoReport
    <3> QED
      BY <3>1, NoAnswer
  <2> QED
    BY <1>9, <2>1, <2>2, RunQueryKeeps DEF Report
<1> QED
  BY <1>5, <1>6, <1>7, <1>8, <1>9 DEF Next, Purge

LEMMA InitReport == Init => ReportInv /\ ReportFitsTogether
BY DEF Init, NoReport, ReportInv, ReportFitsTogether

\* The numbers of a report contradict each other only if rows were purged while it was
\* assembled, and differ only if a turn committed meanwhile.
THEOREM ReportConsistent == Spec => []ReportFitsTogether
BY SpecBase, InitReport, NextReport, PTL DEF Spec

=============================================================================
