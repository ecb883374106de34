---- MODULE ChartReading ----
(* How the candles of one timeframe are read: pivots, trend, structure breaks,  *)
(* liquidity sweeps, the regime, and the flow of the book.  The last candle of  *)
(* a ladder is the one still forming.  Indicators enter as the facts the regime *)
(* compares; prices are whole and times are positions on the ladder.            *)
EXTENDS Integers, Sequences, FiniteSets

CONSTANTS
  Bars,         \* candles: high, low, close
  PivotWidth,   \* k of findSwings
  MaxBars,      \* bound: closed candles, below the store's cap
  EnoughBars,   \* candles a ladder needs before the store serves it
  Tempers,      \* indicator facts: atr (tenths of a percent), percentile, above50, stack, calm, midRsi
  Books         \* quantities: bid, ask, bought, sold

VARIABLES
  closedBars, formingBar,  \* formingBar: empty, or the one candle not yet closed
  temper, topOfBook,
  heardPrices,                  \* whether last, mark and index have been heard
  shown                    \* the last reading; source "none" before the first

chartReadVars == <<closedBars, formingBar, temper, topOfBook, heardPrices, shown>>

ASSUME ChartAssumption == PivotWidth \in Nat /\ MaxBars \in Nat

Ladder == closedBars \o formingBar

Around(bars, i) == {j \in (i - PivotWidth)..(i + PivotWidth) : j # i}
PivotPlaces(bars) == (1 + PivotWidth)..(Len(bars) - PivotWidth)
\* a variant that takes the newest candles for pivots before their right side is there
PivotsAtOnce(bars) ==
  LET near(i) == {j \in Around(bars, i) : j <= Len(bars)}
      places == (1 + PivotWidth)..Len(bars) IN
  {[at |-> i, kind |-> "HIGH", price |-> bars[i].high] :
     i \in {i \in places : \A j \in near(i) : bars[j].high < bars[i].high}}
  \cup {[at |-> i, kind |-> "LOW", price |-> bars[i].low] :
     i \in {i \in places : \A j \in near(i) : bars[j].low > bars[i].low}}

\* findSwings: strict extremes of the 2k + 1 candles around them
FindSwings(bars) ==
  {[at |-> i, kind |-> "HIGH", price |-> bars[i].high] :
     i \in {i \in PivotPlaces(bars) : \A j \in Around(bars, i) : bars[j].high < bars[i].high}}
  \cup {[at |-> i, kind |-> "LOW", price |-> bars[i].low] :
     i \in {i \in PivotPlaces(bars) : \A j \in Around(bars, i) : bars[j].low > bars[i].low}}

OfKind(swings, kind) == {s \in swings : s.kind = kind}
Latest(swings) == CHOOSE s \in swings : \A t \in swings : t.at <= s.at
Rises(swings) == Latest(swings).price > Latest(swings \ {Latest(swings)}).price
Falls(swings) == Latest(swings).price < Latest(swings \ {Latest(swings)}).price

TrendFromSwings(swings) ==
  LET highs == OfKind(swings, "HIGH")
      lows == OfKind(swings, "LOW") IN
  IF Cardinality(highs) < 2 \/ Cardinality(lows) < 2 THEN "RANGE"
  ELSE IF Rises(highs) /\ Rises(lows) THEN "BULLISH"
  ELSE IF Falls(highs) /\ Falls(lows) THEN "BEARISH" ELSE "RANGE"

\* analyzeStructure, of a ladder with at least one candle
AnalyzeStructure(bars) ==
  LET swings == FindSwings(bars)
      last == bars[Len(bars)]
      highs == OfKind(swings, "HIGH")
      lows == OfKind(swings, "LOW")
      top == IF highs = {} THEN last.high ELSE Latest(highs).price
      bottom == IF lows = {} THEN last.low ELSE Latest(lows).price
      trend == TrendFromSwings(swings)
  IN  [trend |-> trend, swingHigh |-> top, swingLow |-> bottom,
       bos |-> (trend = "BULLISH" /\ last.close > top) \/ (trend = "BEARISH" /\ last.close < bottom),
       choch |-> (trend = "BULLISH" /\ last.close < bottom) \/ (trend = "BEARISH" /\ last.close > top)]

\* the nearest pivots around the price, or 2 % away
LiquidityLevels(swings, price) ==
  LET above == {s.price : s \in {s \in OfKind(swings, "HIGH") : s.price > price}}
      below == {s.price : s \in {s \in OfKind(swings, "LOW") : s.price < price}}
  IN  [nearestHigh |-> IF above = {} THEN (price * 102) \div 100 ELSE CHOOSE p \in above : \A q \in above : p <= q,
       nearestLow |-> IF below = {} THEN (price * 98) \div 100 ELSE CHOOSE p \in below : \A q \in below : p >= q]

\* detectSweep looks at the last candle only
DetectSweep(bars) ==
  LET last == bars[Len(bars)]
      prior == {bars[i] : i \in 1..(Len(bars) - 1)}
      swings == FindSwings(bars) IN
  IF Len(bars) < 3 THEN "NONE"
  ELSE IF \E s \in OfKind(swings, "LOW") :
            last.low < s.price /\ last.close > s.price /\ \E c \in prior : c.low >= s.price
  THEN "SELL_SIDE"
  ELSE IF \E s \in OfKind(swings, "HIGH") :
            last.high > s.price /\ last.close < s.price /\ \E c \in prior : c.high <= s.price
  THEN "BUY_SIDE" ELSE "NONE"

VolatilityRegime(t) ==
  CASE t.atr > 30 -> "HIGH_VOLATILITY" [] t.atr <= 30 /\ t.percentile >= 85 -> "EXPANSION"
    [] t.atr < 4 /\ t.percentile < 85 -> "LOW_VOLATILITY" [] OTHER -> "NORMAL"

Trending(trend) ==
  CASE trend = "BULLISH" -> "TREND_UP" [] trend = "BEARISH" -> "TREND_DOWN" [] OTHER -> "RANGE"

ClassifyRegime(s, t) ==
  LET volatility == VolatilityRegime(t)
      stacked == (s.trend = "BULLISH" /\ t.above50 /\ t.stack = 1)
                 \/ (s.trend = "BEARISH" /\ ~t.above50 /\ t.stack = -1)
  IN  IF t.atr > 60 THEN "PANIC"
      ELSE IF volatility = "HIGH_VOLATILITY" THEN volatility
      ELSE IF volatility = "EXPANSION" /\ s.bos THEN "BREAKOUT"
      ELSE IF volatility = "LOW_VOLATILITY" /\ t.percentile < 20 THEN "COMPRESSION"
      ELSE IF stacked THEN Trending(s.trend)
      ELSE IF t.calm /\ t.midRsi THEN "RANGE"
      ELSE IF volatility \in {"EXPANSION", "LOW_VOLATILITY"} THEN volatility
      ELSE Trending(s.trend)

\* computeMicrostructure: shares in hundredths
Share(a, b) == IF a + b > 0 THEN ((a - b) * 100) \div (a + b) ELSE 0
FlowOf(b) ==
  LET ratio == Share(b.bought, b.sold) IN
  IF ratio > 15 THEN "BUY" ELSE IF ratio < -15 THEN "SELL" ELSE "NEUTRAL"

ReadLadder(source) ==
  LET price == Ladder[Len(Ladder)].close IN
  [source |-> source, structure |-> AnalyzeStructure(Ladder),
   regime |-> ClassifyRegime(AnalyzeStructure(Ladder), temper),
   levels |-> LiquidityLevels(FindSwings(Ladder), price), sweep |-> DetectSweep(Ladder),
   flow |-> FlowOf(topOfBook), imbalance |-> Share(topOfBook.bid, topOfBook.ask)]

Unread == [source |-> "none"]

----------------------------------------------------------------------------
ChartReadInit ==
  /\ closedBars = <<>> /\ formingBar = <<>> /\ heardPrices = FALSE /\ shown = Unread
  /\ temper \in Tempers /\ topOfBook \in Books

\* a kline event of the open candle: its range only widens
Forms ==
  /\ Len(closedBars) < MaxBars
  /\ \E b \in Bars : /\ \A f \in {formingBar[i] : i \in DOMAIN formingBar} : b.high >= f.high /\ b.low <= f.low
                     /\ formingBar' = <<b>>
  /\ UNCHANGED <<closedBars, temper, topOfBook, heardPrices, shown>>

Closes ==
  /\ formingBar # <<>> /\ closedBars' = Ladder /\ formingBar' = <<>>
  /\ \E t \in Tempers, b \in Books : temper' = t /\ topOfBook' = b
  /\ UNCHANGED <<heardPrices, shown>>

PricesHeard == ~heardPrices /\ heardPrices' = TRUE /\ UNCHANGED <<closedBars, formingBar, temper, topOfBook, shown>>

\* buildMtfFromStore, and buildMarketState where the store cannot serve; the
\* venue's answer has no least length and may not come
Reads ==
  /\ Ladder # <<>>
  /\ IF heardPrices /\ Len(Ladder) >= EnoughBars THEN shown' = ReadLadder("store")
     ELSE shown' \in {Unread, ReadLadder("venue")}
  /\ UNCHANGED <<closedBars, formingBar, temper, topOfBook, heardPrices>>

ChartReadNext == Forms \/ Closes \/ PricesHeard \/ Reads

ChartReadTypeOK ==
  /\ Len(closedBars) <= MaxBars /\ Len(formingBar) <= 1
  /\ {Ladder[i] : i \in DOMAIN Ladder} \subseteq Bars /\ heardPrices \in BOOLEAN
  /\ shown.source \in {"none", "store", "venue"}

\* A pivot whose right side has closed stays for good, with its price: what a
\* setup's stop or a level alert rests on is never redrawn by later candles
\* (structure-engine.ts:10-27, "k candles on each side").
NoRepaint ==
  [][\A s \in FindSwings(closedBars) : s \in FindSwings(closedBars' \o formingBar')]_chartReadVars

====
