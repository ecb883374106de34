---- MODULE TradePlan ----
(* From a reading of the chart to a sized order: the detectors and the ranking *)
(* of setups, the leverage each is given, the strategist's choice, the gates of *)
(* the strategy and of its evidence, the structural validation, and sizing      *)
(* against the account and the venue's specification.  Prices are whole; facts  *)
(* about a short are the facts about a long with every price negated.           *)
EXTENDS Integers, Sequences, FiniteSets, SequencesExt

CONSTANTS
  Readings,     \* states of the market (MarketState), see Signed for the fields used
  PlanLimits,   \* RiskLimits: minRr (tenths), leverage, riskPerTrade (per 10000),
                \* notional, cost (fee and slippage both ways, per 1000)
  PlanAccounts, \* equity and available margin
  Specs,        \* ContractSpec: lot, minQuantity, maxQuantity, minNotional, leverage
  Studies       \* evidence of each event type, and which types each setup needs

\* What the proofs need: prices and limits are whole, prices and steps positive.
Priced(r) ==
  /\ r.close \in Nat \ {0} /\ r.hair \in Int
  /\ {r.low5, r.high5, r.low1h, r.high1h, r.nearHigh, r.nearLow} \subseteq Int

ASSUME PlanAssumption ==
  /\ \A r \in Readings : Priced(r)
  /\ PlanLimits.minRr \in Nat \ {0} /\ PlanLimits.riskPerTrade \in Nat
  /\ PlanLimits.notional \in Nat /\ PlanLimits.cost \in Nat /\ PlanLimits.leverage \in Nat
  /\ \A a \in PlanAccounts : a.equity \in Int /\ a.margin \in Int
  /\ \A s \in Specs :
       /\ s.lot \in Nat \ {0} /\ s.minQuantity \in Nat /\ s.maxQuantity \in Nat
       /\ s.minNotional \in Nat /\ s.leverage \in Nat

VARIABLES
  planStage, reading, account, circuit,
  setupsFound,  \* detectSetups
  proposal, sizing

planVars == <<planStage, reading, account, circuit, setupsFound, proposal, sizing>>

Least(a, b) == IF a < b THEN a ELSE b
Most(a, b) == IF a > b THEN a ELSE b
Ceiling(a, b) == -((-a) \div b)
FloorToStep(a, b, step) == (a \div (b * step)) * step     \* of a / b
CeilToStep(a, b, step) == Ceiling(a, b * step) * step

Circuits == {"NORMAL", "CAUTION", "REDUCED", "HALTED", "EMERGENCY"}
Trends(d) == IF d = "LONG" THEN [trend |-> "BULLISH", regime |-> "TREND_UP", sweep |-> "SELL_SIDE", flow |-> "BUY"]
             ELSE [trend |-> "BEARISH", regime |-> "TREND_DOWN", sweep |-> "BUY_SIDE", flow |-> "SELL"]
Opposite(d) == IF d = "LONG" THEN "SHORT" ELSE "LONG"

\* the facts a detector uses, as a long sees them
Signed(r, d) ==
  LET s == IF d = "LONG" THEN 1 ELSE -1 IN
  [close |-> s * r.close, price |-> r.close,
   swing5 |-> s * (IF d = "LONG" THEN r.low5 ELSE r.high5),
   broken |-> s * (IF d = "LONG" THEN r.high1h ELSE r.low1h),
   target |-> s * (IF d = "LONG" THEN r.nearHigh ELSE r.nearLow),
   momentum |-> s * r.macd, rsi |-> 50 + s * (r.rsi - 50), imbalance |-> s * r.imbalance]

Raw(type, stop) == [type |-> type, stop |-> stop]

Detected(r, d) ==
  LET f == Signed(r, d)
      with(t) == r.trend[t] = Trends(d).trend
  IN  (IF with("15m") /\ f.close > f.swing5 /\ f.momentum > 0 /\ f.rsi >= 45
       THEN <<Raw("PULLBACK_RECLAIM", f.swing5)>> ELSE <<>>)
      \o (IF r.sweep = Trends(d).sweep /\ (r.choch5 \/ with("5m"))
          THEN <<Raw("LIQUIDITY_SWEEP_REVERSAL", Least(f.swing5, f.close - f.price \div 200))>> ELSE <<>>)
      \o (IF r.bos1h /\ with("1h") /\ f.close >= f.broken - f.price \div 1000
          THEN <<Raw("BREAKOUT_RETEST", Least(f.broken, f.swing5))>> ELSE <<>>)
      \o (IF d = "LONG" /\ with("15m") /\ r.bos15 /\ with("5m")
          THEN <<Raw("TREND_CONTINUATION", f.swing5)>> ELSE <<>>)

\* targetFor: a target near enough is kept; a nearer one is moved to the minimum,
\* where binary fractions may leave the ratio a hair short
Target(f, stop, hair) ==
  LET risk == f.close - stop
      natural == f.target - f.close
  IN  IF risk <= 0 \/ natural * 100 >= PlanLimits.minRr * 9 * risk THEN f.target
      ELSE f.close + (PlanLimits.minRr * risk) \div 10 - hair

Alignment(r, d) == Cardinality({t \in {"4h", "1h", "15m"} : r.trend[t] = Trends(d).trend})

MicroDelta(r, d) ==
  LET i == Signed(r, d).imbalance IN
  CASE i < -20 /\ r.flow = Trends(Opposite(d)).flow -> -10
    [] r.flow = Trends(d).flow /\ i > 10 -> 5
    [] OTHER -> 0

Confidence(r, d) ==
  Most(5, Least(95, 40 + 10 * Alignment(r, d) + (IF r.regime = Trends(d).regime THEN 8 ELSE 0)
                       - (IF r.wild1h THEN 15 ELSE 0) + MicroDelta(r, d)))

CircuitCap(c) == CASE c = "NORMAL" -> 15 [] c = "CAUTION" -> 10 [] c = "REDUCED" -> 7 [] OTHER -> 5

\* resolveLeverage: a score in -2..10 on the band 5..15, rounded
ResolveLeverage(r, d, c) ==
  LET score == (IF r.regime \in {Trends(d).regime, "BREAKOUT"} THEN 2 ELSE 0)
               + (IF r.btc = Trends(d).regime THEN 1 ELSE 0) + Alignment(r, d)
               + (Confidence(r, d) * 3 + 50) \div 100
               + (IF r.flow = Trends(d).flow /\ Signed(r, d).imbalance > 10 THEN 1 ELSE 0)
               - (IF r.wild1h \/ r.wild15 THEN 2 ELSE 0)
      onBand == 5 + ((Most(-2, Least(10, score)) + 2) * 20 + 12) \div 24
  IN  IF "PANIC" \in {r.regime, r.btc} \/ CircuitCap(c) <= 5 THEN 5
      ELSE Most(5, Least(CircuitCap(c), onBand))

Finalized(r, d, raw, c) ==
  LET f == Signed(r, d)
      tp == Target(f, raw.stop, r.hair)
      risk == f.close - raw.stop
  IN  [type |-> raw.type, direction |-> d, entry |-> f.close, stop |-> raw.stop, tp |-> tp,
       confidence |-> Confidence(r, d), leverage |-> ResolveLeverage(r, d, c),
       valid |-> raw.stop < f.close /\ tp > f.close /\ (tp - f.close) * 10 >= PlanLimits.minRr * risk]

BlockedDirection(r, d) ==
  r.regime \in {Trends(Opposite(d)).regime, "PANIC"} \/ r.btc = "PANIC"

Collected(r, c) ==
  LET of(d) == IF BlockedDirection(r, d) THEN <<>>
               ELSE [i \in DOMAIN Detected(r, d) |-> Finalized(r, d, Detected(r, d)[i], c)]
  IN  of("LONG") \o of("SHORT")

\* a valid setup goes behind those it is no more confident than
Placed(ranked, s) ==
  IF s.valid
  THEN InsertAt(ranked, 1 + Cardinality({i \in DOMAIN ranked : ranked[i].confidence >= s.confidence}), s)
  ELSE ranked

DetectSetups(r, c) ==
  LET ranked == FoldLeft(Placed, <<>>, Collected(r, c)) IN SubSeq(ranked, 1, Least(3, Len(ranked)))

----------------------------------------------------------------------------
NoProposal == [type |-> "none"]
NoSizing == [ok |-> FALSE]

PlanInit ==
  /\ planStage = "idle" /\ reading \in Readings /\ account \in PlanAccounts
  /\ circuit \in Circuits /\ setupsFound = <<>> /\ proposal = NoProposal
  /\ sizing = NoSizing

Ends == planStage' = "ended"

Gather ==
  /\ planStage = "idle" /\ setupsFound' = DetectSetups(reading, circuit)
  /\ IF setupsFound' = <<>> THEN Ends ELSE planStage' = "strategize"
  /\ UNCHANGED <<reading, account, circuit, proposal, sizing>>

\* the model may wait, leave, name a candidate, name none (the first is taken), or
\* name one that is not there
ResolvedCandidate(s, i) == IF i = 0 THEN s[1] ELSE s[i]

Strategize ==
  /\ planStage = "strategize"
  /\ \/ Ends /\ UNCHANGED proposal
     \/ \E i \in 0..Len(setupsFound) :
          proposal' = ResolvedCandidate(setupsFound, i) /\ planStage' = "gate"
  /\ UNCHANGED <<reading, account, circuit, setupsFound, sizing>>

\* the evidence of a setup: without a study, or a study of its events, it passes; a
\* blocked status stops it, and under the strict rule all but the robust do
Ranked(status) == CASE status = "robust" -> 5 [] status = "oos_supported" -> 4
                    [] status \in {"exploratory", "train_supported"} -> 3
                    [] status = "descriptive_only" -> 1 [] OTHER -> 0
BlockedStatus == {"confounded", "insufficient_sample", "descriptive_only"}

EvidenceAllows(study, type, strict) ==
  LET mapped == study.needs[type] \cap DOMAIN study.status
      statuses == {study.status[e] : e \in mapped}
      best == CHOOSE s \in statuses : \A t \in statuses : Ranked(s) >= Ranked(t)
  IN  \/ mapped = {}
      \/ statuses \cap BlockedStatus = {} /\ (strict => best = "robust")

ValidProposal(p) ==
  /\ p.stop < p.entry /\ p.entry < p.tp
  /\ (p.tp - p.entry) * 10 >= PlanLimits.minRr * (p.entry - p.stop)
  /\ p.leverage \in 1..PlanLimits.leverage /\ p.confidence \in 0..100

\* strategyCellStage and validateProposal; the cell's own gate is StrategyRegistry's
PassGates ==
  /\ planStage = "gate"
  /\ \E study \in Studies, strict, cellAllowed \in BOOLEAN :
       IF cellAllowed /\ EvidenceAllows(study, proposal.type, strict) /\ ValidProposal(proposal)
       THEN planStage' = "size" ELSE Ends
  /\ UNCHANGED <<reading, account, circuit, setupsFound, proposal, sizing>>

Multiplier(c) == CASE c = "NORMAL" -> 100 [] c = "CAUTION" -> 75 [] c = "REDUCED" -> 50 [] OTHER -> 0

\* budget in hundredths of the account's unit
RiskBudget(a, c) == (a.equity * PlanLimits.riskPerTrade * Multiplier(c)) \div 10000
RiskPerUnit(p) ==
  (p.entry - p.stop) + ((IF p.entry < 0 THEN -p.entry ELSE p.entry) * PlanLimits.cost) \div 1000

Wanted(p, a, c, spec) == FloorToStep(RiskBudget(a, c), 100 * RiskPerUnit(p), spec.lot)
MinimumLotsFloored(p, spec) ==
  Most(FloorToStep(spec.minNotional, reading.close, spec.lot), spec.minQuantity)
MinimumLots(p, spec) ==
  Most(CeilToStep(spec.minNotional, reading.close, spec.lot), spec.minQuantity)
Cap(spec) == Least(PlanLimits.notional, spec.maxQuantity * reading.close)

\* within 2 % of the budget
Affordable(qty, p, a, c) == qty * RiskPerUnit(p) * 10000 <= RiskBudget(a, c) * 102

SizePosition(p, a, c, spec) ==
  LET wanted == Wanted(p, a, c, spec)
      bump == wanted * reading.close < spec.minNotional
      raised == IF bump THEN MinimumLots(p, spec) ELSE wanted
      capped == raised * reading.close > Cap(spec)
      qty == IF capped THEN FloorToStep(Cap(spec), reading.close, spec.lot) ELSE raised
      leverage == Most(1, Least(p.leverage, Least(PlanLimits.leverage, spec.leverage)))
  IN  IF \/ RiskBudget(a, c) <= 0 \/ wanted < spec.minQuantity
         \/ bump /\ ~Affordable(raised, p, a, c)
         \/ capped /\ qty < spec.minQuantity
         \/ qty * reading.close > a.margin * leverage
         \/ ~Affordable(qty, p, a, c)
      THEN NoSizing
      ELSE [ok |-> TRUE, qty |-> qty, leverage |-> leverage, capped |-> capped, spec |-> spec]

\* without a specification of the instrument nothing is sized
Size ==
  /\ planStage = "size" /\ Ends
  /\ \/ sizing' = NoSizing
     \/ \E spec \in Specs : sizing' = SizePosition(proposal, account, circuit, spec)
  /\ UNCHANGED <<reading, account, circuit, setupsFound, proposal>>

PlanNext == Gather \/ Strategize \/ PassGates \/ Size

PlanTypeOK ==
  /\ planStage \in {"idle", "strategize", "gate", "size", "ended"}
  /\ Len(setupsFound) <= 3 /\ circuit \in Circuits
  /\ sizing.ok => planStage = "ended" /\ sizing.leverage \in 1..15

\* A sized order meets the venue's minima and stays within the account: enough
\* quantity on the lot grid, enough notional unless the notional cap cut it, no
\* more than 2 % over the risk budget of the circuit in force, a margin it has
\* (position-sizer.ts:81-84: "ceiling guarantees the minimum notional is met").
OrderFitsVenueAndAccount ==
  sizing.ok =>
    /\ sizing.qty >= sizing.spec.minQuantity /\ sizing.qty % sizing.spec.lot = 0
    /\ ~sizing.capped => sizing.qty * reading.close >= sizing.spec.minNotional
    /\ Affordable(sizing.qty, proposal, account, circuit)
    /\ sizing.qty * reading.close <= account.margin * sizing.leverage

====
