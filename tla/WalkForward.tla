---- MODULE WalkForward ----
(* The walk-forward replay: decisions bar by bar on a recorded ladder, each     *)
(* trade simulated on the bars that follow it with the venue's sizing, costs    *)
(* and funding, the outcomes split at a boundary into two samples, and every    *)
(* cell gated on both.  What is detected on a slice is TradePlan's; here it is  *)
(* any candidate of a set.  Times are indices of base bars; R is in hundredths. *)
EXTENDS Integers, Sequences, FiniteSets, TLC, SequencesExt

CONSTANTS
  Tapes,       \* recorded base ladders: high, low, close
  HigherSpan,  \* base bars in one candle of a higher timeframe
  Candidates,  \* cell, direction, and stop and target as distances from the entry
  Replay,      \* FuturesReplayConfig: equity risked, lot, minQuantity, minNotional, margin,
               \* leverage, fee and slip (per 1000), funding (per 1000) and its period in bars, slots
  WarmUp, StepBars, MaxHold, History,  \* bars before the first decision, between two, held, of history
  OosPercent,
  ReplayGate   \* checkGate's thresholds: trades, mean, wins (percent), tStat, worst

\* Prices are whole, a stop is a price above zero, and it costs a whole unit more than
\* what funding can pay a position while it is held (with the defaults no funding falls
\* due: 60 bars of 5 minutes are less than 8 hours, futures-replay.ts:88-89).
ASSUME ReplayAssumption ==
  /\ HigherSpan \in Nat \ {0} /\ StepBars \in Nat \ {0} /\ MaxHold \in Nat \ {0} /\ OosPercent \in 5..90
  /\ WarmUp \in Nat /\ Tapes \subseteq Seq([high : Nat, low : Nat, close : Nat \ {0}])
  /\ Replay.risked \in Nat \ {0} /\ Replay.lot \in Nat \ {0} /\ Replay.slots \in Nat
  /\ Replay.fee \in Nat /\ Replay.slip \in 0..1000
  /\ Replay.funding \in Int /\ Replay.fundingBars \in Nat \ {0}
  /\ \A c \in Candidates : c.direction \in {"LONG", "SHORT"} /\ c.stop \in Int /\ c.target \in Int
  /\ \A tape \in Tapes : \A i \in DOMAIN tape, c \in Candidates :
       LET due == tape[i].close * Replay.funding * (MaxHold \div Replay.fundingBars) IN
       c.stop < tape[i].close /\ (c.stop > 0 => due \in -1000 * (c.stop - 1)..1000 * (c.stop - 1))

VARIABLES
  recorded, cursor,
  openUntil,   \* closing times of the open simulated positions, earliest first
  replayed,    \* the trades, in the order they were opened
  unsizable,
  verdicts     \* [cell -> promoted], empty before the evaluation

replayVars == <<recorded, cursor, openUntil, replayed, unsizable, verdicts>>

Summed(s, Of(_)) == FoldLeft(LAMBDA acc, x : acc + Of(x), 0, s)
SmallestOf(set) == CHOOSE x \in set : \A y \in set : x <= y
LargestOf(set) == CHOOSE x \in set : \A y \in set : x >= y
Sign(direction) == IF direction = "LONG" THEN 1 ELSE -1

\* sliceAll keeps the candles opened by now: the last bar each ladder tells of
HigherOpened(i) == {k \in 1..Len(recorded) : (k - 1) * HigherSpan + 1 <= i}
SeesUntil(i) == LargestOf({i} \cup {SmallestOf({k * HigherSpan, Len(recorded)}) : k \in HigherOpened(i)})
HasHistory(i) == i >= History

\* ------------------------------------------------------------ simulation
AtRisk(trade) == IF trade.stop < trade.entry THEN trade.entry - trade.stop ELSE trade.stop - trade.entry

Sized(entry, distance) ==
  LET quantity == (Replay.risked \div (distance * Replay.lot)) * Replay.lot IN
  IF \/ distance <= 0 \/ quantity < Replay.minQuantity \/ quantity * entry < Replay.minNotional
     \/ quantity * entry > Replay.margin * Replay.leverage
  THEN 0 ELSE quantity

StopTouched(trade, bar) ==
  IF trade.direction = "LONG" THEN bar.low <= trade.stop ELSE bar.high >= trade.stop
TargetTouched(trade, bar) ==
  IF trade.direction = "LONG" THEN bar.high >= trade.target ELSE bar.low <= trade.target

HeldBars(at) == {j \in (at + 1)..(at + MaxHold) : j <= Len(recorded)}

\* a variant that reads a bar that touches both as a win
ResolutionTargetFirst(trade) ==
  LET ends == {j \in HeldBars(trade.openedAt) : StopTouched(trade, recorded[j]) \/ TargetTouched(trade, recorded[j])} IN
  IF ends = {} THEN [outcome |-> "TIMEOUT", closedAt |-> SmallestOf({trade.openedAt + MaxHold, Len(recorded)}),
                     exit |-> recorded[SmallestOf({trade.openedAt + MaxHold, Len(recorded)})].close, held |-> MaxHold]
  ELSE LET j == SmallestOf(ends) IN
       IF TargetTouched(trade, recorded[j])
       THEN [outcome |-> "TARGET", closedAt |-> j, exit |-> trade.target, held |-> j - trade.openedAt]
       ELSE [outcome |-> "STOP", closedAt |-> j, exit |-> trade.stop, held |-> j - trade.openedAt]

\* simulate: a bar that touches both is a stop
Resolution(trade) ==
  LET ends == {j \in HeldBars(trade.openedAt) : StopTouched(trade, recorded[j]) \/ TargetTouched(trade, recorded[j])}
      last == SmallestOf({trade.openedAt + MaxHold, Len(recorded)})
      j == SmallestOf(ends)
  IN  IF ends = {} THEN [outcome |-> "TIMEOUT", closedAt |-> last, exit |-> recorded[last].close, held |-> MaxHold]
      ELSE IF StopTouched(trade, recorded[j])
      THEN [outcome |-> "STOP", closedAt |-> j, exit |-> trade.stop, held |-> j - trade.openedAt]
      ELSE [outcome |-> "TARGET", closedAt |-> j, exit |-> trade.target, held |-> j - trade.openedAt]

Slipped(price, worse) == (price * (1000 + worse * Replay.slip)) \div 1000

\* futuresAccounting
\* what the position pays, or is paid, over the whole periods it is held
Funding(trade, held) ==
  (Sign(trade.direction) * Sized(trade.entry, AtRisk(trade)) * trade.entry * Replay.funding
     * (held \div Replay.fundingBars)) \div 1000

Accounted(trade, res) ==
  LET way == Sign(trade.direction)
      quantity == Sized(trade.entry, AtRisk(trade))
      in == Slipped(trade.entry, way)
      out == Slipped(res.exit, -way)
      fees == ((in + out) * quantity * Replay.fee) \div 1000
  IN  (((out - in) * way * quantity - fees - Funding(trade, res.held)) * 100) \div Replay.risked

Simulated(trade) ==
  LET res == Resolution(trade) IN
  [trade EXCEPT !.outcome = res.outcome, !.closedAt = res.closedAt, !.r = Accounted(trade, res)]

\* ------------------------------------------------------------ samples and gates
Boundary == SmallestOf({Len(recorded), 1 + LargestOf({1, (Len(recorded) * (100 - OosPercent)) \div 100})})
Sample(before) == SelectSeq(replayed, LAMBDA t : (t.openedAt < Boundary) = before)
OfCell(trades, cell) == SelectSeq(trades, LAMBDA t : t.cell = cell)

\* computeCellStatistics: what the gate reads of it, sums in place of means
CellStatistics(trades) ==
  [n |-> Len(trades), sum |-> Summed(trades, LAMBDA t : t.r),
   squares |-> Summed(trades, LAMBDA t : t.r * t.r),
   wins |-> Len(SelectSeq(trades, LAMBDA t : t.r > 0)),
   worst |-> IF trades = <<>> THEN 0 ELSE SmallestOf({trades[i].r : i \in DOMAIN trades})]

\* checkGate: the t-statistic compared by its square
CheckGate(trades) ==
  LET c == CellStatistics(trades) IN
  /\ c.n > 0 /\ c.n >= ReplayGate.trades /\ c.sum >= ReplayGate.mean * c.n
  /\ c.wins * 100 >= ReplayGate.wins * c.n
  /\ c.sum # 0
  /\ c.n * c.sum * c.sum >= ReplayGate.tStat * ReplayGate.tStat * (c.n * c.squares - c.sum * c.sum)
  /\ c.worst >= ReplayGate.worst

Cells == {replayed[i].cell : i \in DOMAIN replayed}

----------------------------------------------------------------------------
ReplayInit ==
  recorded \in Tapes /\ cursor = WarmUp + 1 /\ openUntil = <<>> /\ replayed = <<>> /\ unsizable = 0 /\ verdicts = <<>>

\* positions closed by now leave their slots, from the earliest on
StillOpen ==
  LET later == {k \in DOMAIN openUntil : openUntil[k] > cursor} IN
  IF later = {} THEN <<>> ELSE SubSeq(openUntil, SmallestOf(later), Len(openUntil))
\* pushed and sorted
Queued(s, t) == InsertAt(s, 1 + Cardinality({k \in DOMAIN s : s[k] <= t}), t)

\* the trade a candidate asks for at this bar, before it is simulated
Asked(c) ==
  LET entry == recorded[cursor].close IN
  [cell |-> c.cell, direction |-> c.direction, entry |-> entry, openedAt |-> cursor,
   stop |-> entry - Sign(c.direction) * c.stop, target |-> entry + Sign(c.direction) * c.target,
   saw |-> SeesUntil(cursor), outcome |-> "OPEN", closedAt |-> cursor, r |-> 0]

Advance == cursor' = cursor + StepBars /\ UNCHANGED <<recorded, verdicts>>

Waits ==
  /\ cursor < Len(recorded) /\ Advance /\ openUntil' = StillOpen /\ UNCHANGED <<replayed, unsizable>>

Decides ==
  /\ cursor < Len(recorded) /\ Len(StillOpen) < Replay.slots /\ HasHistory(cursor) /\ Advance
  /\ \E c \in Candidates :
       IF Sized(recorded[cursor].close, c.stop) = 0
       THEN unsizable' = unsizable + 1 /\ openUntil' = StillOpen /\ UNCHANGED replayed
       ELSE /\ replayed' = Append(replayed, Simulated(Asked(c)))
            /\ openUntil' = Queued(StillOpen, Simulated(Asked(c)).closedAt)
            /\ UNCHANGED unsizable

\* evaluateOos
Evaluates ==
  /\ cursor >= Len(recorded) /\ verdicts = <<>> /\ Cells # {}
  /\ verdicts' = [cell \in Cells |-> CheckGate(OfCell(Sample(TRUE), cell)) /\ CheckGate(OfCell(Sample(FALSE), cell))]
  /\ UNCHANGED <<recorded, cursor, openUntil, replayed, unsizable>>

ReplayNext == Waits \/ Decides \/ Evaluates

ReplayTypeOK ==
  /\ recorded \in Tapes /\ Len(openUntil) <= Replay.slots
  /\ cursor = WarmUp + 1 \/ cursor \in (WarmUp + 1)..(Len(recorded) + StepBars)
  /\ \A i \in DOMAIN replayed : replayed[i].closedAt > replayed[i].openedAt

\* The replay claims nothing the live kernel could not have had: never more trades
\* open at one bar than there are slots, no target counted once the stop was
\* touched, and no winner among the trades stopped out
\* (walk-forward.ts:142 "ambiguous bars (stop AND target) count as STOP", 201).
ReplayIsConservative ==
  /\ \A b \in DOMAIN recorded :
       Cardinality({i \in DOMAIN replayed : replayed[i].openedAt <= b /\ b < replayed[i].closedAt}) <= Replay.slots
  /\ \A i \in DOMAIN replayed :
       LET t == replayed[i]
           stopped == \E j \in (t.openedAt + 1)..t.closedAt : StopTouched(t, recorded[j]) IN
       /\ t.outcome = "TARGET" => ~stopped
       /\ stopped => t.r < 0

\* What the documentation says of the replay, "historical ladders bar-by-bar"
\* (docs/ROADMAP.md:175): a decision at a bar rests on nothing later than that bar.
DecidesOnThePast == \A i \in DOMAIN replayed : replayed[i].saw <= replayed[i].openedAt

====
