--------------------------- MODULE PlaybookSizing ---------------------------
(***************************************************************************)
(* From the owner's playbook to the order it leads to: the risk knobs an   *)
(* owner leaves blank get the default of the risk register                 *)
(* (internal/playbook/intake.go), the register also picks the protective   *)
(* stop distance of the decider (cmd/bucks/playbook_strategy.go) and the   *)
(* concentration cap of the risk engine (internal/playbook/playbook.go).   *)
(* Three tables in three files meet in CheckOrder.                         *)
(***************************************************************************)
EXTENDS RiskEngine

CONSTANTS
    RiskKnobs,      \* max_risk_per_trade answers in thousandths, 0 = left blank
    LossKnobs,      \* max_daily_loss answers, 0 = left blank
    Equities,
    Asks            \* quoted ask prices

VARIABLES
    playbook,       \* the answers: [register, risk, loss]
    equity,
    ask

vars == <<playbook, equity, ask>>

Registers == {"conservative", "moderate", "aggressive"}

Table(register, conservative, moderate, aggressive) ==
    CASE register = "conservative" -> conservative
      [] register = "moderate"     -> moderate
      [] register = "aggressive"   -> aggressive

BugStopPctFor(register) == Table(register, 20, 20, 50)  \* mutant: one wrong entry
StopPctFor(register) == Table(register, 20, 30, 50)

RiskPctOf(pb) == IF pb.risk = 0 THEN Table(pb.register, 5, 10, 20) ELSE pb.risk

DailyLossPctOf(pb) == IF pb.loss = 0 THEN Table(pb.register, 20, 30, 50) ELSE pb.loss

(* Validate: the day's budget covers one trade. *)
Valid(pb) == RiskPctOf(pb) <= DailyLossPctOf(pb)

ToRiskConfig(pb) ==
    [riskPct |-> RiskPctOf(pb), dailyLossPct |-> DailyLossPctOf(pb),
     leverage |-> Thousandths * Table(pb.register, 1, 2, 3),
     totalExposure |-> 0,
     concentrationPct |-> Table(pb.register, 150, 250, 350),
     maxOpen |-> Table(pb.register, 5, 10, 15),
     drawdownPct |-> 200, requireStop |-> TRUE]

(* stopBelow and riskSizedQty, on prices where both are whole numbers. *)
StopBelow(entry, pct) == (entry * (Thousandths - pct)) \div Thousandths
RiskSizedQty(eq, riskPct, entry, stop) ==
    (eq * riskPct) \div (Thousandths * Magnitude(entry - stop))

WholeNumbers == \A pb \in [register : Registers, risk : RiskKnobs, loss : {0}],
                   e \in Equities, a \in Asks :
    /\ (a * StopPctFor(pb.register)) % Thousandths = 0
    /\ (e * RiskPctOf(pb)) % (a * StopPctFor(pb.register)) = 0

ASSUME WholeNumbersAssumption == WholeNumbers

(* The entry the decider proposes on a bullish view of a symbol not held. *)
Entry == LET stop == StopBelow(ask, StopPctFor(playbook.register))
         IN  [sym |-> "S", side |-> "Buy", entry |-> ask, stop |-> stop,
              qty |-> RiskSizedQty(equity, RiskPctOf(playbook), ask, stop)]

FlatBook == [equity |-> equity, realized |-> 0, positions |-> [s \in {} |-> 0]]

Verdict == CheckOrder(ToRiskConfig(playbook), Entry, FlatBook)

Init == /\ playbook \in {pb \in [register : Registers, risk : RiskKnobs, loss : LossKnobs] :
                            Valid(pb)}
        /\ equity \in Equities
        /\ ask \in Asks

QuoteMoves == ask' \in Asks /\ UNCHANGED <<playbook, equity>>
EquityMoves == equity' \in Equities /\ UNCHANGED <<playbook, ask>>

Next == QuoteMoves \/ EquityMoves
Spec == Init /\ [][Next]_vars

-----------------------------------------------------------------------------
(***************************************************************************)
(* Which playbooks can open a position at all: on a flat account an entry  *)
(* risks exactly the playbook's budget, so it is worth risk/stop of the    *)
(* equity, and it passes exactly when the risk knob is within the 2% cap   *)
(* and within the concentration cap times the stop distance.  Neither the  *)
(* equity nor the price matters.                                           *)
(***************************************************************************)
TradableExactlyWhen ==
    LET risk == RiskPctOf(playbook)
        room == Table(playbook.register, 3000, 7500, 17500)
    IN  Verdict = (CASE risk > 20                             -> "PerTradeRisk"
                     [] risk <= 20 /\ risk * Thousandths > room  -> "Concentration"
                     [] risk <= 20 /\ risk * Thousandths <= room -> "None")

=============================================================================
