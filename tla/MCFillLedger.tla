---------------------------- MODULE MCFillLedger ----------------------------
(***************************************************************************)
(* The fill ledger at four fills, each at a price of its own: they open,   *)
(* extend, take from, close and flip a position.  The ids of the first two *)
(* are in the other order than the log.                                    *)
(***************************************************************************)
EXTENDS FillLedger

FourPrices == <<3, 1, 4, 2>>
FourIds == <<2, 1, 3, 4>>

Buys(n) == [side |-> "Buy", qty |-> n]
Sells(n) == [side |-> "Sell", qty |-> n]
FourExecutions == <<{Buys(2)}, {Buys(1), Sells(1)}, {Sells(2)}, {Buys(2), Sells(1)}>>
=============================================================================
