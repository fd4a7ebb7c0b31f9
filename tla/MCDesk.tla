------------------------------- MODULE MCDesk -------------------------------
(* The parts of the desk on small numbers. *)
EXTENDS Desk

(* 4% asked (2% allowed), 3% daily loss, 85% gross, 63% in one symbol:       *)
(* with equities of 50 to 100 and prices near 20 each budget falls between   *)
(* two order sizes, and a third symbol is one too many.                      *)
MCBookLimits == [riskPct |-> 40, dailyLossPct |-> 30, leverage |-> 850,
                 totalExposure |-> 0, concentrationPct |-> 630, maxOpen |-> 2,
                 drawdownPct |-> 200, requireStop |-> TRUE]
MCRealizeds == {-3, -2, 0, 3}
=============================================================================
