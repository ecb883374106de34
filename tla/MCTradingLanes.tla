--------------------------- MODULE MCTradingLanes ---------------------------
(***************************************************************************)
(* Instances of TradingLanes for TLC: decisions of one lot, on two         *)
(* instruments of different clusters or twice on one instrument, against   *)
(* caps one decision fills.                                                *)
(***************************************************************************)
EXTENDS TradingLanes

CONSTANTS a, b, g, sol, btc, solBase, btcBase, ALT, BTC

Lanes      == {a, b}
LanesAndGateway == {a, b, g}
None       == {}
OneGateway == {g}

Instruments == {sol, btc}
Apart    == [r \in Runs |-> IF r = a THEN sol ELSE btc]
\* the two runs on one instrument, one of them outside its lane
Together == [r \in Runs |-> IF r = g THEN btc ELSE sol]
OneLoose == {b}
\* toExposure cuts a pair down to its base, which no proposal names.
BaseNames == [s \in Symbols |-> IF s = sol THEN solBase ELSE btcBase]
BothClusters == {ALT, BTC}
OfCluster == [s \in Symbols |-> IF s = sol THEN ALT ELSE BTC]
OneLot == [r \in Runs |-> 1]

=============================================================================
