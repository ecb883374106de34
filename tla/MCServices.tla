---- MODULE MCServices ----
(* The instance of Services a run checks.                                      *)
EXTENDS Services, TLC

GovernorLimits ==
  [dailyLoss |-> 12000, drawdown |-> 15000, streak |-> 2, riskPerTrade |-> 1000, leverage |-> 3,
   positions |-> 2, notional |-> 10, symbol |-> 20000, gross |-> 50000, cluster |-> 35000]
GovernorQuestions ==
  {[risk |-> 1, notional |-> 5, leverage |-> 2, valid |-> TRUE, sized |-> TRUE, age |-> 0,
    positions |-> 0, symbol |-> 0, gross |-> 0, cluster |-> 0]}
GovernorOutcomes == {-6, 3}

PaperRequest(intent, side, quantity, limit, reduceOnly) ==
  [intent |-> intent, pair |-> "btc", side |-> side, quantity |-> quantity, limit |-> limit,
   reduceOnly |-> reduceOnly, leverage |-> 2, worst |-> 0, stop |-> 0, take |-> 0]
PaperRequests ==
  {PaperRequest("a", "buy", 1, 0, FALSE),
   [PaperRequest("b", "sell", 1, 100, FALSE) EXCEPT !.stop = 102, !.take = 98],
   PaperRequest("c", "sell", 2, 0, TRUE),
   [PaperRequest("d", "buy", 1, 0, FALSE) EXCEPT !.worst = 100]}
PaperProtections == {<<98, 0>>, <<0, 102>>}

WatchSights ==
  [stream |-> {"CONNECTING", "LIVE", "RECONNECTING", "DOWN"}, stale |-> {"FRESH", "STALE"},
   circuit |-> {"NORMAL", "REDUCED"}, kill |-> {"NORMAL", "HALTED"},
   store |-> {"HEALTHY", "UNHEALTHY"}]
OperatorsDesks ==
  {LoadSubscriptions({[minSeverity |-> "CRITICAL"]}, {}),
   LoadSubscriptions({}, {[minSeverity |-> "INFO"]})}
DefaultDesk == {DefaultSubscriptions}
ZoneCharts == "l1" :> "BTCUSDT" @@ "l2" :> "ETHUSDT" @@ "z1" :> "BTCUSDT" @@ "z2" :> "ETHUSDT"
ReleaseTimes == "cpi" :> 2 @@ "fomc" :> 8

Trend4(a, b, c, d) ==
  "4h" :> a @@ "1h" :> b @@ "15m" :> c @@ "5m" :> d
PlanReadings ==
  {[regime |-> regime, btc |-> "RANGE", trend |-> trend, bos1h |-> bos, bos15 |-> bos,
    choch5 |-> FALSE, sweep |-> sweep, close |-> 1000, low5 |-> 1000 - stop, high5 |-> 1000 + stop,
    low1h |-> 1000, high1h |-> 1000, nearHigh |-> 1000 + room, nearLow |-> 1000 - room,
    macd |-> macd, rsi |-> 50, imbalance |-> 15 * macd, flow |-> "BUY", wild1h |-> (hair = 1),
    wild15 |-> FALSE, hair |-> hair] :
     regime \in {"TREND_UP", "RANGE", "TREND_DOWN", "PANIC"},
     trend \in {Trend4("BULLISH", "BULLISH", "BULLISH", "BULLISH"),
                Trend4("RANGE", "BEARISH", "BEARISH", "BEARISH")},
     bos \in BOOLEAN, sweep \in {"NONE", "SELL_SIDE"}, stop \in {10, 40}, room \in {60, 90},
     macd \in {-1, 1}, hair \in {0, 1}}
PlanRiskLimits ==
  [minRr |-> 25, leverage |-> 15, riskPerTrade |-> 100, notional |-> 60000, cost |-> 2]
PlanAccountsTried == {[equity |-> e, margin |-> m] : e \in {3550, 30000}, m \in {200, 20000}}
PlanSpecs ==
  {[lot |-> lot, minQuantity |-> lot, maxQuantity |-> 1000, minNotional |-> 2500,
    leverage |-> 10] : lot \in {1, 2}}
PlanStudies ==
  {[needs |-> "PULLBACK_RECLAIM" :> {"choch", "order_block"}
              @@ "LIQUIDITY_SWEEP_REVERSAL" :> {"liquidity_sweep"}
              @@ "BREAKOUT_RETEST" :> {"bos", "fvg"}
              @@ "TREND_CONTINUATION" :> {"bos", "displacement"},
    status |-> "bos" :> "robust" @@ "fvg" :> "confounded" @@ "choch" :> "exploratory"]}

\* a recorded ladder knows no order flow
FunnelStates ==
  {[regime |-> regime, btc |-> "RANGE", trend |-> trend, bos1h |-> FALSE, bos15 |-> FALSE,
    choch5 |-> choch, sweep |-> sweep, close |-> 1000, low5 |-> 1000 - stop, high5 |-> 1000 + stop,
    low1h |-> 1000, high1h |-> 1000, nearHigh |-> 1000 + room, nearLow |-> 1000 - room,
    macd |-> macd, rsi |-> 50, imbalance |-> 0, flow |-> "NEUTRAL", wild1h |-> FALSE,
    wild15 |-> FALSE, hair |-> 1] :
     regime \in {"TREND_UP", "TREND_DOWN"},
     trend \in {Trend4("BULLISH", "BULLISH", "BULLISH", "BULLISH"),
                Trend4("BULLISH", "BEARISH", "BULLISH", "BEARISH"),
                Trend4("BEARISH", "BEARISH", "BEARISH", "BEARISH")},
     choch \in BOOLEAN, sweep \in {"SELL_SIDE", "BUY_SIDE"}, stop \in {3, 40}, room \in {8, 120},
     macd \in {-1, 1}}

Bar(high, low, close) == [high |-> high, low |-> low, close |-> close]
RisingTape ==
  <<Bar(1010, 990, 1000), Bar(1020, 995, 1010), Bar(1030, 1005, 1025), Bar(1040, 1010, 1015),
    Bar(1050, 1000, 1040), Bar(1060, 1020, 1030), Bar(1045, 1000, 1010), Bar(1030, 980, 990)>>
FallingTape ==
  <<Bar(1010, 990, 1000), Bar(1005, 980, 990), Bar(995, 970, 980), Bar(990, 950, 985),
    Bar(1000, 960, 970), Bar(975, 940, 950), Bar(960, 930, 940), Bar(955, 900, 920)>>
ReplayTapes == {RisingTape, FallingTape}
ReplayCandidates ==
  {[cell |-> "pull", direction |-> "LONG", stop |-> 10, target |-> 25],
   [cell |-> "brk", direction |-> "SHORT", stop |-> 10, target |-> 25],
   [cell |-> "brk", direction |-> "LONG", stop |-> 50, target |-> 80],
   [cell |-> "pull", direction |-> "LONG", stop |-> 200, target |-> 25]}
ReplayConfig ==
  [risked |-> 100, lot |-> 1, minQuantity |-> 1, minNotional |-> 500, margin |-> 8000, leverage |-> 3,
   fee |-> 1, slip |-> 1, funding |-> 1, fundingBars |-> 2, slots |-> 2]
ReplayThresholds == [trades |-> 1, mean |-> 15, wins |-> 40, tStat |-> 1, worst |-> -300]

====
