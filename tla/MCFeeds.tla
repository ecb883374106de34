---- MODULE MCFeeds ----
(* The instance of Feeds a run checks.                                            *)
EXTENDS Feeds, TLC

StreamCallers == {"boot", "ensure", "ask"}
StreamWatch ==
  ("boot" :> <<"btc", "eth">>) @@ ("ensure" :> <<"eth">>) @@ ("ask" :> <<"sol">>)

CacheFreshFor == [f \in Facts |-> 1]
CacheUsableFor == ("spec" :> 2) @@ ("study" :> 1)

Bar(high, low, close) == [high |-> high, low |-> low, close |-> close]
ChartBars == {Bar(100, 50, 100), Bar(150, 100, 150), Bar(200, 150, 150), Bar(200, 50, 150)}
ChartTempers ==
  {[atr |-> 10, percentile |-> 90, above50 |-> TRUE, stack |-> 1, calm |-> FALSE, midRsi |-> FALSE]}
ChartBooks == {[bid |-> 3, ask |-> 1, bought |-> 3, sold |-> 1]}
IntelBars == <<<<"e1", "e2">>, <<"e3">>, <<>>, <<>>, <<>>, <<"e4">>>>

====
