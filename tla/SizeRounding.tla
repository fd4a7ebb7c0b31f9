---------------------------- MODULE SizeRounding ----------------------------
(***************************************************************************)
(* The size of a playbook's order in the decimals the code computes with:  *)
(* a coefficient of a fixed number of digits and a scale, every result     *)
(* rounded half to even (github.com/govalues/decimal has 19 digits; the    *)
(* instance here has Digits of them, and prices short enough that a stop   *)
(* and its distance are exact: only the products and the quotient of the   *)
(* sizing can round).                                                      *)
(***************************************************************************)
EXTENDS Integers, FiniteSetsExt

CONSTANTS
    Digits,         \* digits of a coefficient
    Equities, Asks, \* whole numbers
    RiskKnobs,      \* max_risk_per_trade in thousandths, within the engine's cap
    StopPcts        \* stopPctFor, in hundredths

VARIABLES equity, ask, risk, stopPct

vars == <<equity, ask, risk, stopPct>>

(* A decimal [c, s] is c / 10^s. *)
Dec(c, s) == [c |-> c, s |-> s]

(* The powers of ten. *)
Ten[n \in Nat] == IF n = 0 THEN 1 ELSE 10 * Ten[n - 1]
Limit == Ten[Digits]

(* n/d rounded half to even. *)
BugHalfEven(n, d) == (n + d - 1) \div d         \* mutant: every result is rounded up
HalfEven(n, d) ==
    LET q == n \div d
        r == 2 * (n % d)
    IN  IF r > d \/ (r = d /\ q % 2 = 1) THEN q + 1 ELSE q

(* The most exact decimal of n/d * 10^-s whose coefficient fits. *)
Scales == 0..2 * Digits
Fit(n, d, s) ==
    LET fits(k) == HalfEven(n * Ten[k], d) < Limit
        k == IF fits(0) THEN Max({i \in 0..Digits : \A j \in 0..i : fits(j)}) ELSE 0
        j == Min({i \in Scales : HalfEven(n, d * Ten[i]) < Limit})
    IN  IF fits(0) THEN Dec(HalfEven(n * Ten[k], d), s + k) ELSE Dec(HalfEven(n, d * Ten[j]), s - j)

Mul(a, b) == IF a.c * b.c < Limit THEN Dec(a.c * b.c, a.s + b.s)
             ELSE Fit(a.c * b.c, 1, a.s + b.s)
Quo(a, b) == Fit(a.c, b.c, a.s - b.s)
Sub(a, b) == IF a.s >= b.s THEN Dec(a.c - b.c * Ten[a.s - b.s], a.s)
                           ELSE Dec(a.c * Ten[b.s - a.s] - b.c, b.s)
Exceeds(a, b) == Sub(a, b).c > 0

(* stopBelow and riskSizedQty. *)
Stop == Mul(Dec(ask, 0), Sub(Dec(1, 0), Dec(stopPct, 2)))
Distance == Sub(Dec(ask, 0), Stop)
Budget == Mul(Dec(equity, 0), Dec(risk, 3))
SizedQty == Quo(Budget, Distance)

(* CheckOrder's perTradeRiskAmount, held against the same budget. *)
PerTradeRisk == Mul(SizedQty, Distance)
Refused == Exceeds(PerTradeRisk, Budget)

Init == /\ equity \in Equities /\ ask \in Asks
        /\ risk \in RiskKnobs /\ stopPct \in StopPcts

QuoteMoves == ask' \in Asks /\ UNCHANGED <<equity, risk, stopPct>>

Next == QuoteMoves
Spec == Init /\ [][Next]_vars

-----------------------------------------------------------------------------
(* The exact product of the quantity and the distance, less the budget, in *)
(* units of the product of their last digits.                              *)
Excess == LET q == SizedQty IN
    q.c * Distance.c * Ten[Budget.s] - Budget.c * Ten[q.s + Distance.s]
RoundedUp == Excess > 0
WithinHalfAUnit == /\ 2 * Excess <= Distance.c * Ten[Budget.s]
                   /\ -2 * Excess <= Distance.c * Ten[Budget.s]

(***************************************************************************)
(* "qty = (equity * riskPct) / |entry - stop|" (playbook_strategy.go)      *)
(* meets the risk budget to half a unit in the last digit of the quantity, *)
(* above or below, and the engine, which recomputes the product against    *)
(* the same budget, refuses the entry only when the quotient was rounded   *)
(* up: there is no margin, so about half of the inexact sizes are refused. *)
(***************************************************************************)
RefusedOnlyByRounding == WithinHalfAUnit /\ (Refused => RoundedUp)
=============================================================================
