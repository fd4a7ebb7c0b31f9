---------------------------- MODULE MCTradeLoop ----------------------------
EXTENDS TradeLoop

(* Money in twentieths of the unit in which an equity of 100 risks 1: an     *)
(* entry at 20 with its stop at 19 is sized to 20, 17 or 16 units.           *)
OneSymbol == <<"A">>

(* 1% risk, 3% daily loss, 20% drawdown, and caps that one entry fits.       *)
MCLimits == [riskPct |-> 10, dailyLossPct |-> 30, leverage |-> 1000,
             totalExposure |-> 0, concentrationPct |-> 350, maxOpen |-> 1,
             drawdownPct |-> 200, requireStop |-> TRUE]

(* An entry of 20 units (400) is above the band, one of 17 (340) within it.  *)
MCBand == [maxRisk |-> 0, maxNotional |-> 350]

(* 2000 -> 1600 is a drawdown of exactly 20%, 2000 -> 1700 is not.           *)
MCEquities == {2000, 1700, 1600}
MCRealizeds == {0, -60}
NoLosses == {0}
WithRuin == {2000, 1600, 0}
=============================================================================
