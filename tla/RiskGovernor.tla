---------------------------- MODULE RiskGovernor ----------------------------
(***************************************************************************)
(* The desk's damage and what it still may risk: the equity peak, the day's *)
(* loss and the loss streak of src/engines/performance-engine.ts, written  *)
(* to the event log and read back by a restart; the circuit state that     *)
(* src/domain/risk/risk-config.ts derives; and the checks of               *)
(* src/engines/risk-engine.ts.  Percentages are in thousandths, rounded    *)
(* down, which decides every comparison with a limit as the code does.     *)
(***************************************************************************)
EXTENDS Integers, Sequences, SequencesExt

CONSTANTS
  Limits,        \* loadRiskLimits: the envelope
  Equities,      \* equities the venue reports
  Outcomes,      \* profits and losses of closed trades
  Questions,     \* what a sized proposal asks of evaluateRisk
  MaxStateAge,   \* maxMarketStateAgeMs
  PersistAfter,  \* EQUITY_PERSIST_INTERVAL_MS
  PersistDelta,  \* EQUITY_PERSIST_MIN_DELTA
  PersistParts,  \* one over EQUITY_PERSIST_MIN_PCT
  GovernorView,  \* how many lines hydrate reads back
  DayLength,     \* instants in a UTC day
  LastInstant,   \* bound on time
  MaxHappenings, \* bound on refreshes, closes and other appends
  MaxReboots     \* bound on restarts

ASSUME LimitsAssumption ==
  Limits \in [dailyLoss : Nat, drawdown : Nat, streak : Nat, riskPerTrade : Nat, leverage : Nat,
              positions : Nat, notional : Nat, symbol : Nat, gross : Nat, cluster : Nat]
ASSUME GovernorAssumption ==
  /\ Equities \subseteq Nat \ {0} /\ Outcomes \subseteq Int
  /\ MaxStateAge \in Nat /\ PersistAfter \in Nat \ {0} /\ PersistDelta \in Nat \ {0}
  /\ PersistParts \in Nat \ {0} /\ GovernorView \in Nat \ {0} /\ DayLength \in Nat \ {0}
  /\ LastInstant \in Nat /\ MaxHappenings \in Nat /\ MaxReboots \in Nat

VARIABLES
  perf,       \* PerformanceEngine: peak, drawdown, today's pnl, streak, last persisted equity
  damageLog,  \* the newest GovernorView lines of the event log
  portfolio,    \* the last PortfolioState the engine assembled
  verdict,    \* the last answer of evaluateRisk
  instant,    \* the clock
  happened,   \* bound counter: refreshes, closes and other appends
  reboots,    \* restarts so far
  slid,       \* history: a line of the engine's left the window
  cut         \* history: an append of the engine's failed

governorVars == <<perf, damageLog, portfolio, verdict, instant, happened, reboots, slid, cut>>

AtLeast(a, b) == IF a >= b THEN a ELSE b
Unpersisted == [equity |-> 0, at |-> 0]
FreshPerf == [peak |-> 0, drawdown |-> 0, day |-> 0, pnl |-> 0, streak |-> 0, last |-> Unpersisted]
NoAccount == [equity |-> 0, loss |-> 0, drawdown |-> 0, streak |-> 0]
Day(t) == t \div DayLength
Telegram == [kind |-> "other", v |-> 0, day |-> 0]

GovernorInit ==
  /\ perf = FreshPerf /\ damageLog = <<>> /\ portfolio = NoAccount /\ verdict = "none"
  /\ instant = 0 /\ happened = 0 /\ reboots = 0 /\ slid = FALSE /\ cut = FALSE

-----------------------------------------------------------------------------
(* src/domain/risk/risk-config.ts, src/engines/risk-engine.ts *)

DeriveCircuitState(loss, drawdown, streak) ==
  IF drawdown >= Limits.drawdown THEN "EMERGENCY"
  ELSE IF loss >= Limits.dailyLoss THEN "HALTED"
  ELSE IF 4 * loss >= 3 * Limits.dailyLoss THEN "REDUCED"
  ELSE IF 2 * loss >= Limits.dailyLoss THEN "CAUTION"
  ELSE IF streak >= Limits.streak THEN "REDUCED"
  ELSE IF streak >= AtLeast(1, Limits.streak - 1) THEN "CAUTION"
  ELSE "NORMAL"

\* circuitRiskMultiplier, in quarters
CircuitRiskMultiplier(s) ==
  IF s = "NORMAL" THEN 4 ELSE IF s = "CAUTION" THEN 3 ELSE IF s = "REDUCED" THEN 2 ELSE 0

Circuit(a) == DeriveCircuitState(a.loss, a.drawdown, a.streak)

\* A variant that leaves the streak to the circuit.
MayTradeByCircuit(a) ==
  Circuit(a) \notin {"HALTED", "EMERGENCY"} /\ a.loss < Limits.dailyLoss

\* circuit_breaker, daily_loss and loss_streak
MayTrade(a) ==
  /\ Circuit(a) \notin {"HALTED", "EMERGENCY"}
  /\ a.loss < Limits.dailyLoss /\ a.streak < Limits.streak

\* The share of the risk per trade, in quarters, that the damage leaves.
RiskLeft(a) == IF MayTrade(a) THEN CircuitRiskMultiplier(Circuit(a)) ELSE 0

\* pct: rounded to the nearest thousandth of a percent of the equity
Thousandths(v, equity) ==
  (2 * v * 100000 + AtLeast(1, equity)) \div (2 * AtLeast(1, equity))

PortfolioCheck(q, equity) ==
  /\ Thousandths(q.symbol + q.notional, equity) <= Limits.symbol
  /\ Thousandths(q.gross + q.notional, equity) <= Limits.gross
  /\ Thousandths(q.cluster + q.notional, equity) <= Limits.cluster
  /\ q.notional <= Limits.notional

\* risk_per_trade: the budget, and two percent of grace
WithinBudget(q, a) ==
  q.risk * 100000 * 4 * 100 <= a.equity * Limits.riskPerTrade * CircuitRiskMultiplier(Circuit(a)) * 102

EvaluateRisk(q, a) ==
  /\ MayTrade(a)
  /\ q.valid /\ q.sized /\ q.age <= MaxStateAge
  /\ WithinBudget(q, a) /\ q.leverage <= Limits.leverage
  /\ q.positions + 1 <= Limits.positions
  /\ PortfolioCheck(q, a.equity)

-----------------------------------------------------------------------------
(* src/engines/performance-engine.ts *)

\* A variant that looks at the clock only.
ShouldPersistHourly(p, e) ==
  p.last = Unpersisted \/ instant - p.last.at >= PersistAfter

ShouldPersistEquity(p, e) ==
  LET delta == IF e > p.last.equity THEN e - p.last.equity ELSE p.last.equity - e IN
  \/ p.last = Unpersisted
  \/ instant - p.last.at >= PersistAfter
  \/ delta >= PersistDelta \/ delta * PersistParts >= p.last.equity

RecordEquity(p, e) ==
  LET peak == AtLeast(p.peak, e) IN
  [p EXCEPT !.peak = peak, !.drawdown = ((peak - e) * 100000) \div peak]

\* the day's bucket and the streak; a trade closed at nothing changes no streak
RecordTradeClosed(p, pnl, day) ==
  [p EXCEPT !.pnl = (IF p.day = day THEN @ ELSE 0) + pnl, !.day = day,
            !.streak = IF pnl < 0 THEN @ + 1 ELSE IF pnl > 0 THEN 0 ELSE @]

Counted == happened < MaxHappenings /\ happened' = happened + 1

\* append: the log's newest lines, or nothing when the disk fails (bound: once)
Journals(e) ==
  \/ /\ slid' = (slid \/ (Len(damageLog) = GovernorView /\ Head(damageLog) # Telegram))
     /\ damageLog' = LET l == Append(damageLog, e) IN
                     SubSeq(l, IF Len(l) > GovernorView THEN 2 ELSE 1, Len(l))
     /\ UNCHANGED cut
  \/ /\ e # Telegram /\ ~ cut /\ cut' = TRUE /\ UNCHANGED <<damageLog, slid>>

DailyRealizedPnl(p) == IF p.day = Day(instant) THEN p.pnl ELSE 0

\* PortfolioEngine.assembleState: the loss in thousandths of a percent of the equity
LossPercent(p, e) ==
  IF DailyRealizedPnl(p) < 0 THEN ((0 - DailyRealizedPnl(p)) * 100000) \div AtLeast(1, e) ELSE 0

\* refresh: finalize feeds the engine and assembles the state from it.
RefreshPortfolio(e) ==
  LET p == RecordEquity(perf, e) IN
  /\ Counted
  /\ portfolio' = [equity |-> e, loss |-> LossPercent(p, e), drawdown |-> p.drawdown,
                 streak |-> p.streak]
  /\ IF ShouldPersistEquity(perf, e)
     THEN /\ perf' = [p EXCEPT !.last = [equity |-> e, at |-> instant]]
          /\ Journals([kind |-> "equity", v |-> e, day |-> 0])
     ELSE perf' = p /\ UNCHANGED <<damageLog, slid, cut>>
  /\ verdict' = "none" /\ UNCHANGED <<instant, reboots>>

\* recordLiveClose, recordPaperClose: the engine counts it; it or the trade ledger writes it.
TradeCloses(pnl) ==
  /\ Counted
  /\ perf' = RecordTradeClosed(perf, pnl, Day(instant))
  /\ Journals([kind |-> "closed", v |-> pnl, day |-> Day(instant)])
  /\ UNCHANGED <<portfolio, verdict, instant, reboots>>

KernelJournals ==
  /\ Counted /\ Journals(Telegram)
  /\ UNCHANGED <<perf, portfolio, verdict, instant, reboots>>

Asks(q) ==
  /\ portfolio # NoAccount
  /\ verdict' = IF EvaluateRisk(q, portfolio) THEN "approved" ELSE "rejected"
  /\ UNCHANGED <<perf, damageLog, portfolio, instant, happened, reboots, slid, cut>>

InstantPasses ==
  /\ instant < LastInstant /\ instant' = instant + 1
  /\ UNCHANGED <<perf, damageLog, portfolio, verdict, happened, reboots, slid, cut>>

Rehydrated(p, e) ==
  IF e.kind = "equity" THEN RecordEquity(p, e.v)
  ELSE IF e.kind = "closed" THEN RecordTradeClosed(p, e.v, e.day) ELSE p

\* hydrate: nothing counts as persisted yet
GovernorReboots ==
  /\ reboots < MaxReboots /\ reboots' = reboots + 1
  /\ perf' = FoldLeft(Rehydrated, FreshPerf, damageLog)
  /\ portfolio' = NoAccount /\ verdict' = "none"
  /\ UNCHANGED <<damageLog, instant, happened, slid, cut>>

GovernorNext ==
  \/ \E e \in Equities : RefreshPortfolio(e)
  \/ \E v \in Outcomes : TradeCloses(v)
  \/ \E q \in Questions : Asks(q)
  \/ KernelJournals \/ InstantPasses \/ GovernorReboots

-----------------------------------------------------------------------------
Percents == 0 .. 100000   \* in thousandths
Account == [equity : Nat, loss : Nat, drawdown : Nat, streak : Nat]

GovernorTypeOK ==
  /\ perf \in [peak : {0} \union Equities, drawdown : Percents, day : Nat, pnl : Int,
               streak : Nat, last : [equity : Nat, at : Nat]]
  /\ damageLog \in Seq([kind : {"equity", "closed", "other"}, v : Int, day : Nat])
  /\ Len(damageLog) <= GovernorView
  /\ portfolio \in Account /\ verdict \in {"none", "approved", "rejected"}
  /\ instant \in 0 .. LastInstant /\ happened \in 0 .. MaxHappenings /\ reboots \in 0 .. MaxReboots
  /\ slid \in BOOLEAN /\ cut \in BOOLEAN

MoreDamaged(a, b) == b.loss >= a.loss /\ b.drawdown >= a.drawdown /\ b.streak >= a.streak

\* Damage never buys risk: an account whose day's loss, drawdown and streak are all
\* at least as bad may risk no larger share, although the circuit alone goes back
\* from REDUCED to CAUTION when half the daily loss joins a full streak
\* (risk-config.ts:87-90); the check of the streak is what keeps the order.
MoreDamageNeverMoreRisk ==
  [][portfolio # NoAccount /\ MoreDamaged(portfolio, portfolio')
       => RiskLeft(portfolio') <= RiskLeft(portfolio)]_governorVars

StillKnown(p, q) ==
  /\ q.streak = p.streak
  /\ DailyRealizedPnl(q) = DailyRealizedPnl(p)
  /\ p.peak - q.peak < PersistDelta

\* As long as every line is in the window and every append went through, a restart
\* remembers the streak and the day's result exactly, and the peak to within what
\* the throttle holds back (performance-engine.ts:76-98).
DamageSurvivesRestart ==
  [][reboots' # reboots /\ ~ slid /\ ~ cut => StillKnown(perf, perf')]_governorVars

====
