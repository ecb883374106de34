------------------------- MODULE MCTradeAccounting --------------------------
(***************************************************************************)
(* Instances of TradeAccounting for TLC: two orders on opposite sides, or  *)
(* two buys that one sell nets down.                                       *)
(***************************************************************************)
EXTENDS TradeAccounting

CONSTANTS b1, b2, s1

Two   == {b1, s1}
Three == {b1, b2, s1}

SideTwo   == (b1 :> "buy") @@ (s1 :> "sell")
SideThree == (b1 :> "buy") @@ (b2 :> "buy") @@ (s1 :> "sell")

=============================================================================
