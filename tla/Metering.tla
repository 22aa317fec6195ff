-------------------------------- MODULE Metering --------------------------------
(***************************************************************************)
(* What the chat turns cost and how it is watched: the usage_metrics rows  *)
(* and Prometheus counters of log_chat_metrics, the hourly check of the    *)
(* day's budget (cost_budget_service, run by cost_budget_scheduler in a    *)
(* process of its own), the purge of old rows (retention_service, another  *)
(* process) and the operator's report (analytics_service), which is        *)
(* assembled from one query after the other.                               *)
(*                                                                         *)
(* A row belongs to its turn's transaction: others see it once that is     *)
(* committed, and its created_at is when the transaction began.  Time is   *)
(* counted in hours, the period of the checks.  How a turn runs is the     *)
(* subject of ChatTurn.                                                    *)
(***************************************************************************)
EXTENDS Integers, Sequences, FiniteSets, Functions

CONSTANTS
  Turns,      \* the chat turns
  Usages,     \* what a turn may have used
  Rate,       \* bedrock_pricing.yaml: the rates of each model that has any
  Unit,       \* the smallest amount NUMERIC(10,4) tells apart
  Budget,     \* DAILY_COST_BUDGET_USD; unset, no check ever exceeds it
  Retention,  \* USAGE_METRICS_RETENTION_DAYS
  Periods,    \* the periods reports are asked for, as [from, to] in days
  DayLength,  \* hours in a day
  LastHour    \* bound on the clock

\* short_circuited, whether model_embedding_used is set, and the model the turn is rated
\* against: the text model if there is one, or else the embedding model.
Usage == [short : BOOLEAN, embedded : BOOLEAN, model : {"none", "embedding", "text"},
          input : Nat, output : Nat]

ASSUME TurnsAssumption == IsFiniteSet(Turns)
ASSUME UsagesAssumption ==
  /\ Usages \subseteq Usage
  /\ \A u \in Usages : ~u.short => u.embedded /\ u.model = "text"
  /\ \A u \in Usages : u.model # "text" => (u.embedded <=> u.model = "embedding")
  /\ \A u \in Usages : u.short => u.input = 0 /\ u.output = 0
ASSUME RateAssumption ==
  \A m \in DOMAIN Rate : Rate[m] \in [input : Nat, output : Nat]
ASSUME MoneyAssumption == Unit \in Nat \ {0} /\ Budget \in Nat
\* config.py accepts a retention of 0 days too, which would empty the table.
ASSUME RetentionAssumption == Retention \in Nat \ {0}
ASSUME PeriodsAssumption == Periods \subseteq [from : Nat, to : Nat]
ASSUME ClockAssumption == DayLength \in Nat \ {0} /\ LastHour \in Nat

VARIABLES
  hour,      \* the clock
  turn,      \* each turn, its usage, its row's created_at, and when that was committed
  rows,      \* the turns whose row is in the table
  counters,  \* chat_requests_total and estimated_cost_usd_total
  due,       \* whether a check has been fired and not begun
  check,     \* the hour of the check that runs
  gauge,     \* daily_cost_budget_exceeded
  checked,   \* the hour of the check that set the gauge last
  cutoff,    \* the cutoff of the purge that runs
  report     \* the report that is assembled, if any, and its answers so far

turnVars == <<turn, rows, counters>>
checkVars == <<due, check, gauge, checked>>
vars == <<hour, turnVars, checkVars, cutoff, report>>

None == -1
NoUsage == [short |-> TRUE, embedded |-> FALSE, model |-> "none", input |-> 0, output |-> 0]
Idle == [state |-> "idle", used |-> NoUsage, began |-> 0, kept |-> 0, alive |-> FALSE]
Failed == [Idle EXCEPT !.state = "failed"]
NoReport == [period |-> [from |-> 0, to |-> 0], answers |-> <<>>, changed |-> {}, open |-> FALSE]

Day(h) == h \div DayLength

Init ==
  /\ hour = 0
  /\ turn = [t \in Turns |-> Idle]
  /\ rows = {}
  /\ counters = [requests |-> 0, cost |-> 0]
  /\ due = FALSE
  /\ check = None
  /\ gauge = 0
  /\ checked = None
  /\ cutoff = None
  /\ report = NoReport

-----------------------------------------------------------------------------
(* The turns *)

\* estimate_cost_usd: nothing without a model, or with one that has no rate.
EstimatedCost(u) ==
  IF u.model \notin DOMAIN Rate THEN 0
  ELSE u.input * Rate[u.model].input + u.output * Rate[u.model].output

\* NUMERIC(10,4) rounds to the nearest unit, halves up.
Rounded(cost) == Unit * ((2 * cost + Unit) \div (2 * Unit))
RowCost == [t \in Turns |-> Rounded(EstimatedCost(turn[t].used))]

\* The turn's transaction begins.
Begin(t) ==
  /\ turn[t].state = "idle"
  /\ turn' = [turn EXCEPT ![t] = [Idle EXCEPT !.state = "open", !.began = hour, !.alive = TRUE]]
  /\ UNCHANGED <<hour, rows, counters, checkVars, cutoff, report>>

\* Mutant: a short-circuited turn is not counted.
CountGenerated(u) ==
  counters' = IF u.short THEN counters
              ELSE [requests |-> counters.requests + 1, cost |-> counters.cost + EstimatedCost(u)]

Count(u) ==
  counters' = [requests |-> counters.requests + 1, cost |-> counters.cost + EstimatedCost(u)]

\* Mutant: the row is committed as it is written.
LogMetricsCommits(t) ==
  /\ turn[t].state = "open"
  /\ \E u \in Usages :
       /\ turn' = [turn EXCEPT ![t].state = "logged", ![t].used = u]
       /\ Count(u)
  /\ rows' = rows \cup {t}
  /\ UNCHANGED <<hour, checkVars, cutoff, report>>

\* The row is flushed, then the counters move: neither waits for the commit.
LogMetrics(t) ==
  /\ turn[t].state = "open"
  /\ \E u \in Usages :
       /\ turn' = [turn EXCEPT ![t].state = "logged", ![t].used = u]
       /\ Count(u)
  /\ UNCHANGED <<hour, rows, checkVars, cutoff, report>>

\* The tables change under a report that is open.
Changed(by) == report' = IF report.open THEN [report EXCEPT !.changed = @ \cup {by}] ELSE report

\* A COMMIT whose answer is lost does the same to the table and the counters; what the
\* client then hears is ChatTurn's subject.
Commit(t) ==
  /\ turn[t].state = "logged"
  /\ turn' = [turn EXCEPT ![t].state = "stored", ![t].kept = hour]
  /\ rows' = rows \cup {t}
  /\ Changed("commit")
  /\ UNCHANGED <<hour, counters, checkVars, cutoff>>

\* The turn fails or is cancelled, and its transaction is rolled back.
RollBack(t) ==
  /\ turn[t].state \in {"open", "logged"}
  /\ turn' = [turn EXCEPT ![t] =
       IF turn[t].state = "open" THEN Failed ELSE [turn[t] EXCEPT !.state = "undone", !.began = 0]]
  /\ UNCHANGED <<hour, rows, counters, checkVars, cutoff, report>>

\* The process is replaced: open transactions end, and the counters begin at 0 again.
Restart ==
  /\ \E t \in Turns : turn[t].alive
  /\ turn' = [t \in Turns |->
       IF turn[t].state \in {"idle", "stored"} THEN [turn[t] EXCEPT !.alive = FALSE] ELSE Failed]
  /\ counters' = [requests |-> 0, cost |-> 0]
  /\ UNCHANGED <<hour, rows, checkVars, cutoff, report>>

-----------------------------------------------------------------------------
(* The check of the day's budget *)

\* The cron schedule fires at the top of every hour; statement_timeout ends a check in
\* less than one. (Bound: LastHour.)
Tick ==
  /\ ~due
  /\ check \in {None, hour}
  /\ hour < LastHour
  /\ hour' = hour + 1
  /\ due' = TRUE
  /\ UNCHANGED <<turnVars, check, gauge, checked, cutoff, report>>

StartCheck ==
  /\ due
  /\ check = None
  /\ due' = FALSE
  /\ check' = hour
  /\ UNCHANGED <<hour, turnVars, gauge, checked, cutoff, report>>

\* max_instances = 1: the last check still runs, or the scheduler wakes too late.
SkipCheck ==
  /\ due
  /\ due' = FALSE
  /\ UNCHANGED <<hour, turnVars, check, gauge, checked, cutoff, report>>

\* A row of the day of the check fired at hour h, which reads the clock before any
\* other event of that hour.
Spent(h, t) == Day(turn[t].began) = Day(h) /\ turn[t].began < h

\* The sum sees the rows committed by now, and created until the check began.
EndCheck ==
  /\ check # None
  /\ gauge' = IF SumFunctionOnSet(RowCost, {t \in rows : Spent(check, t)}) >= Budget THEN 1 ELSE 0
  /\ checked' = check
  /\ check' = None
  /\ UNCHANGED <<hour, turnVars, due, cutoff, report>>

\* The query fails: the gauge keeps what it said.
CheckFails ==
  /\ check # None
  /\ check' = None
  /\ UNCHANGED <<hour, turnVars, due, gauge, checked, cutoff, report>>

\* The scheduler's process is replaced: it waits for the next hour.
RestartScheduler ==
  /\ due' = FALSE
  /\ check' = None
  /\ gauge' = 0
  /\ checked' = None
  /\ UNCHANGED <<hour, turnVars, cutoff, report>>

-----------------------------------------------------------------------------
(* The purge *)

\* Mutant: the retention counts hours.
CutoffInHours == hour - Retention

Cutoff == hour - Retention * DayLength

StartPurge ==
  /\ cutoff = None
  /\ Cutoff > 0
  /\ cutoff' = Cutoff
  /\ UNCHANGED <<hour, turnVars, checkVars, report>>

Old == {t \in rows : turn[t].began < cutoff}

EndPurge ==
  /\ cutoff # None
  /\ rows' = rows \ Old
  /\ cutoff' = None
  /\ IF Old = {} THEN UNCHANGED report ELSE Changed("purge")
  /\ UNCHANGED <<hour, turn, counters, checkVars>>

\* The deletes are rolled back together.
PurgeFails ==
  /\ cutoff # None
  /\ cutoff' = None
  /\ UNCHANGED <<hour, turnVars, checkVars, report>>

-----------------------------------------------------------------------------
(* The operator's report *)

\* The statements that count or sum rows, in get_operator_analytics' order.
Queries == <<"total_chats", "volume_by_day", "model_usage", "short_circuited_count",
             "total_estimated_cost">>

InPeriod(p, t) == Day(turn[t].began) >= p.from /\ Day(turn[t].began) <= p.to

\* Mutant: the volume by day has no end.
AnswerSince(query, p) ==
  LET found == {t \in rows : InPeriod(p, t)}
      since == {t \in rows : Day(turn[t].began) >= p.from}
  IN  CASE query = "total_chats" -> Cardinality(found)
        [] query = "volume_by_day" ->
             [d \in {Day(turn[t].began) : t \in since} |->
                Cardinality({t \in rows : Day(turn[t].began) = d})]
        [] query = "model_usage" ->
             [embedding |-> Cardinality({t \in found : turn[t].used.embedded}),
              text |-> Cardinality({t \in found : turn[t].used.model = "text"}),
              total |-> Cardinality(found)]
        [] query = "short_circuited_count" -> Cardinality({t \in found : turn[t].used.short})
        [] query = "total_estimated_cost" -> SumFunctionOnSet(RowCost, found)

\* What a query over the period answers now.
Answer(query, p) ==
  LET found == {t \in rows : InPeriod(p, t)}
  IN  CASE query = "total_chats" -> Cardinality(found)
        [] query = "volume_by_day" ->
             [d \in {Day(turn[t].began) : t \in found} |->
                Cardinality({t \in rows : Day(turn[t].began) = d})]
        [] query = "model_usage" ->
             [embedding |-> Cardinality({t \in found : turn[t].used.embedded}),
              text |-> Cardinality({t \in found : turn[t].used.model = "text"}),
              total |-> Cardinality(found)]
        [] query = "short_circuited_count" -> Cardinality({t \in found : turn[t].used.short})
        [] query = "total_estimated_cost" -> SumFunctionOnSet(RowCost, found)

AskReport ==
  /\ ~report.open
  /\ \E p \in Periods : report' = [period |-> p, answers |-> <<>>, changed |-> {}, open |-> TRUE]
  /\ UNCHANGED <<hour, turnVars, checkVars, cutoff>>

\* Each statement of the report has a snapshot of its own (READ COMMITTED).
RunQuery ==
  /\ report.open
  /\ Len(report.answers) < Len(Queries)
  /\ report' = [report EXCEPT !.answers =
       Append(@, Answer(Queries[Len(report.answers) + 1], report.period))]
  /\ UNCHANGED <<hour, turnVars, checkVars, cutoff>>

\* The report is sent. (One that fails half-way tells nobody its numbers.)
EndReport ==
  /\ Len(report.answers) = Len(Queries)
  /\ report' = NoReport
  /\ UNCHANGED <<hour, turnVars, checkVars, cutoff>>

-----------------------------------------------------------------------------

Turn(t) == Begin(t) \/ LogMetrics(t) \/ Commit(t) \/ RollBack(t)
Check == StartCheck \/ SkipCheck \/ EndCheck \/ CheckFails \/ RestartScheduler
Purge == StartPurge \/ EndPurge \/ PurgeFails
Report == AskReport \/ RunQuery \/ EndReport

Next == (\E t \in Turns : Turn(t)) \/ Restart \/ Tick \/ Check \/ Purge \/ Report

Spec == Init /\ [][Next]_vars

-----------------------------------------------------------------------------
(* Properties *)

TurnStates == {"idle", "open", "logged", "stored", "failed", "undone"}

\* Every variable has its type.
TypeOK ==
  /\ hour \in 0..LastHour
  /\ turn \in [Turns -> [state : TurnStates, used : Usages \cup {NoUsage}, began : Nat, kept : Nat,
                         alive : BOOLEAN]]
  /\ rows \subseteq {t \in Turns : turn[t].state = "stored"}
  /\ counters \in [requests : Nat, cost : Nat]
  /\ due \in BOOLEAN
  /\ check \in {None} \cup 0..hour
  /\ gauge \in {0, 1}
  /\ checked \in {None} \cup 0..hour
  /\ cutoff \in {None} \cup 0..hour
  /\ report.open \in BOOLEAN /\ report.changed \subseteq {"commit", "purge"}
  /\ Len(report.answers) <= Len(Queries)

\* This process' turns in the states S.
Mine(S) == {t \in Turns : turn[t].alive /\ turn[t].state \in S}
CountedCost == [t \in Turns |-> EstimatedCost(turn[t].used)]
Abs(n) == IF n < 0 THEN -n ELSE n

\* The counters move before the commit that stores the row, so they may run ahead of the
\* table: by the turns in between and those rolled back after it, and by nothing else
\* than half a unit per row that NUMERIC(10,4) rounds away.  They never fall behind it.
CountersLeadRows ==
  /\ counters.requests = Cardinality(Mine({"stored"})) + Cardinality(Mine({"logged", "undone"}))
  /\ 2 * Abs(counters.cost - SumFunctionOnSet(RowCost, Mine({"stored"}))
                           - SumFunctionOnSet(CountedCost, Mine({"logged", "undone"})))
       <= Unit * Cardinality(Mine({"stored"}))

\* What the turns created on the day of hour h before it, and committed before hour by,
\* add up to, purged or not.
SpentBy(h, by) ==
  SumFunctionOnSet(RowCost, {t \in Turns : turn[t].state = "stored" /\ Spent(h, t)
                                            /\ turn[t].kept < by})

\* The alert is up for a day that has reached its budget and for no other, however turns
\* commit, rows are purged and processes replaced around the checks: no check passes a
\* day whose budget was reached when it began (docs/19-cost-management.md section 4).
AlertIsTrue ==
  checked # None =>
    IF gauge = 1 THEN SpentBy(checked, hour + 1) >= Budget ELSE SpentBy(checked, checked) < Budget

Volume == SumFunction(report.answers[2])

\* The numbers of one report fit together as long as no row is purged while it is
\* assembled: a later query counts what an earlier one did, and when no turn commits
\* meanwhile they are equal, and every turn not short-circuited has called both models.
ReportFitsTogether ==
  LET answer == report.answers
      still == report.changed = {}
  IN  /\ Len(answer) >= 2 /\ "purge" \notin report.changed =>
           answer[1] <= Volume /\ (still => answer[1] = Volume)
      /\ Len(answer) >= 3 /\ "purge" \notin report.changed =>
           Volume <= answer[3].total /\ (still => Volume = answer[3].total)
      /\ Len(answer) >= 4 /\ still =>
           answer[3].total - answer[4] \in (0..answer[3].text) \cap (0..answer[3].embedding)
=============================================================================
