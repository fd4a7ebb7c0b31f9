----------------------------- MODULE TradeLoop -----------------------------
(***************************************************************************)
(* internal/harness (Tick, Heartbeat, Run) driven by the account source    *)
(* and the playbook decider of cmd/bucks: the goroutine that reads the     *)
(* account, decides, passes the gates and places orders, while another     *)
(* goroutine runs the operator's /halt, /resume and approval taps, the     *)
(* venue fills or expires orders, equity moves, and the process dies and   *)
(* is started again.  The kill switch is the durable status that           *)
(* DurableSwitch specifies.  Reads the source skips (`continue`) change    *)
(* nothing here.  The real-money refusal of placeOnBroker is left out:     *)
(* buildLiveTrader constructs paper traders only.                          *)
(***************************************************************************)
EXTENDS RiskEngine, Sequences

CONSTANTS
    Universe,       \* the decider's symbols, a sequence
    Limits,         \* the risk.Config of the engine
    Band,           \* [maxRisk, maxNotional]
    Equities,       \* account equities the venue may report
    Realizeds,      \* values of today's realized P&L, which the ledger supplies
    Ask,            \* quoted ask price
    Stop,           \* the stop the decider derives from it
    MarketHours,    \* what MarketHours may answer
    MaxSeq,         \* bound: proposals per process
    MaxRestarts     \* bound: process starts after the first

ASSUME UniverseAssumption == Len(Universe) > 0
ASSUME PriceAssumption == Ask \in Nat /\ Stop \in Nat /\ Stop < Ask
ASSUME BoundAssumption == MaxSeq \in Nat /\ MaxRestarts \in Nat /\ MarketHours \subseteq BOOLEAN

Symbols == {Universe[i] : i \in DOMAIN Universe}
None == [qty |-> 0]                 \* a decision without a proposal
NoInput == [equity |-> 0, realized |-> 0, positions |-> [s \in {} |-> 0]]

VARIABLES
    pc,             \* where the loop goroutine is; "stopped": Run returned; "down": no process
    peak,           \* peakEquity, 0 until the first tick
    halted,         \* the trader's own latch
    lossHit,        \* dailyLossHit
    seq, idx,       \* the decider's counters
    in,             \* the TickInput: [equity, realized, positions]
    decision,       \* its proposal, with the clOrdID's sequence, or None
    outcome,        \* the last TradeRecord's outcome
    ks,             \* the durable kill switch
    equity, positions,              \* the venue's account
    orders,         \* clOrdID -> [qty, state]: the orders the venue knows
    restarts,
    high,           \* history: highest equity a tick of this process was given
    tapped,         \* history: the operator approved this iteration's request
    arrived,        \* history: this iteration's order reached the venue as a new one
    leaked          \* history: orders that reached the venue during the present halt

memory  == <<peak, halted, lossHit, seq, idx>>
input   == <<in, decision, tapped, arrived>>
account == <<equity, positions>>
vars == <<pc, memory, input, outcome, ks, account, orders, restarts, leaked, high>>

Bigger(a, b) == IF a > b THEN a ELSE b

Init == /\ pc = "next"
        /\ peak = 0 /\ halted = FALSE /\ lossHit = FALSE
        /\ seq = 0 /\ idx = 0
        /\ in = NoInput
        /\ decision = None
        /\ outcome = "none"
        /\ ks = "None"
        /\ equity \in Equities
        /\ positions = [s \in {} |-> 0]
        /\ orders = [id \in {} |-> 0]
        /\ restarts = 0
        /\ high = 0
        /\ tapped = FALSE /\ arrived = FALSE
        /\ leaked = 0

-----------------------------------------------------------------------------
(* One iteration: the source reads the account, the decider picks a symbol. *)
Sized(sym, n) ==
    [sym |-> sym, side |-> "Buy", entry |-> Ask, stop |-> Stop, seq |-> n,
     qty |-> (in'.equity * EffectiveRiskPct(Limits)) \div (Thousandths * (Ask - Stop))]

NextIdx == (idx + 1) % Len(Universe)

NextSeq == seq + 1

ReadAndDecide ==
    LET sym == Universe[idx + 1]
    IN
    /\ pc = "next"
    /\ \E pnl \in Realizeds :
           in' = [equity |-> equity, realized |-> pnl, positions |-> positions]
    /\ idx' = NextIdx
    /\ \/ decision' = None /\ UNCHANGED seq
       \/ /\ seq < MaxSeq
          /\ QtyHeld(in', sym) <= 0
          /\ Sized(sym, seq).qty > 0
          /\ seq' = NextSeq
          /\ decision' = Sized(sym, seq')
    /\ pc' = "tick"
    /\ UNCHANGED <<peak, halted, lossHit, tapped, arrived, outcome, ks, account, orders,
                   restarts, leaked, high>>

BugNewPeak(e) == e                  \* mutant: the peak follows the equity down
NewPeak(e) == Bigger(peak, e)

(* recordAndMaybeAlertHalt: the alert goes out unless the latch is already set. *)
Latch == halted' = TRUE

(* haltForDrawdown, then `cont`; a failed halt write or alert ends the loop. *)
HaltForDrawdown(cont) ==
    \/ /\ ks = "None"
       /\ pc' = "stopped"
       /\ UNCHANGED <<ks, halted, leaked>>
    \/ /\ ks' = IF ks = "None" THEN "MaxDailyLoss" ELSE ks
       /\ leaked' = IF ks = "None" THEN 0 ELSE leaked
       /\ Latch
       /\ \/ pc' = cont
          \/ ~halted /\ pc' = "stopped"

Drawdown == DrawdownBreached(Limits, NewPeak(in.equity), in.equity)

(* Tick, step 1. *)
DrawdownGate ==
    /\ pc = "tick"
    /\ peak' = NewPeak(in.equity)
    /\ high' = Bigger(high, in.equity)
    /\ \/ /\ Drawdown
          /\ outcome' = "Halted"
          /\ HaltForDrawdown("beat")
       \/ /\ ~Drawdown
          /\ pc' = "gate"
          /\ UNCHANGED <<ks, halted, outcome, leaked>>
    /\ UNCHANGED <<lossHit, seq, idx, input, account, orders, restarts>>

BugSwitchHalted == halted           \* mutant: the latch is asked, not the switch
SwitchHalted == ks # "None"

DailyLoss == CheckDailyLoss(Limits, in)

(* Tick, steps 2 to 7, up to the placement or the approval request. *)
Gate ==
    LET verdict == CheckOrder(Limits, decision, in)
    IN
    /\ pc = "gate"
    /\ \/ /\ SwitchHalted
          /\ Latch
          /\ outcome' = "Halted"
          /\ pc' = "beat"
          /\ UNCHANGED <<lossHit, leaked>>
       \/ /\ ~SwitchHalted /\ DailyLoss = "DailyLoss"
          /\ lossHit' = TRUE
          /\ outcome' = "Halted"
          /\ pc' \in IF lossHit THEN {"beat"} ELSE {"beat", "stopped"}
          /\ UNCHANGED <<halted, leaked>>
       \/ /\ ~SwitchHalted /\ DailyLoss = "InvalidInput"
          /\ outcome' = "RiskRejected"
          /\ pc' = "beat"
          /\ UNCHANGED <<halted, lossHit, leaked>>
       \/ /\ ~SwitchHalted /\ DailyLoss = "None"
          /\ lossHit' = FALSE
          /\ \/ FALSE \in MarketHours /\ outcome' = "MarketClosed" /\ pc' = "beat"
             \/ /\ TRUE \in MarketHours
                /\ \/ decision.qty <= 0 /\ outcome' = "NoSignal" /\ pc' = "beat"
                   \/ /\ decision.qty > 0 /\ verdict # "None"
                      /\ outcome' = "RiskRejected" /\ pc' = "beat"
                   \/ /\ decision.qty > 0 /\ verdict = "None"
                      /\ pc' = IF WithinBand(Band, decision) THEN "place" ELSE "ask"
                      /\ UNCHANGED outcome
          /\ UNCHANGED <<halted, leaked>>
    /\ UNCHANGED <<peak, seq, idx, input, ks, account, orders, restarts, high>>

(* RequestApproval: the post reaches the operator, or fails and is a denial. *)
RequestApproval ==
    /\ pc = "ask"
    /\ \/ pc' = "wait" /\ UNCHANGED outcome
       \/ pc' = "beat" /\ outcome' = "Denied"
    /\ UNCHANGED <<memory, input, ks, account, orders, restarts, leaked, high>>

ApproveTap ==
    /\ pc = "wait"
    /\ pc' = "place"
    /\ tapped' = TRUE
    /\ UNCHANGED <<memory, in, decision, arrived, outcome, ks, account, orders,
                   restarts, leaked, high>>

BugAnswered == FALSE                \* mutant: no deadline and no denial
Answered == pc = "wait"

(* A Deny tap, or ApprovalTimeout with no tap at all: the order is not placed. *)
DenyOrTimeout ==
    /\ Answered
    /\ pc' = "beat"
    /\ outcome' = "Denied"
    /\ UNCHANGED <<memory, input, ks, account, orders, restarts, leaked, high>>

ClOrdID == <<decision.sym, decision.seq>>
NewOrder == [id \in DOMAIN orders \cup {ClOrdID} |->
                IF id = ClOrdID THEN [qty |-> decision.qty, state |-> "open"] ELSE orders[id]]

(* placeOnBroker.  The venue answers a clOrdID it knows with the order it   *)
(* already has; any error, also of a request the venue did receive, is a    *)
(* failed placement and ends Run.                                           *)
Place ==
    /\ pc = "place"
    /\ \/ /\ ClOrdID \notin DOMAIN orders
          /\ orders' = NewOrder
          /\ arrived' = TRUE
          /\ leaked' = IF ks = "None" THEN leaked ELSE leaked + 1
       \/ UNCHANGED <<orders, arrived, leaked>>
    /\ \/ /\ ClOrdID \in DOMAIN orders'
          /\ outcome' = IF tapped THEN "ApprovedPlaced" ELSE "AutoPlaced"
          /\ pc' = "beat"
       \/ /\ outcome' = IF tapped THEN "Denied" ELSE "RiskRejected"
          /\ pc' = "stopped"
    /\ UNCHANGED <<memory, in, decision, tapped, ks, account, restarts, high>>

(* What one iteration holds is gone when it ends. *)
OutOfScope == /\ in' = NoInput /\ decision' = None /\ outcome' = "none"
              /\ tapped' = FALSE /\ arrived' = FALSE

(* Heartbeat: the drawdown check again, on the same equity, then the pulse   *)
(* and MaybeReport, either of which ends the loop when it cannot be sent.    *)
Heartbeat ==
    /\ pc = "beat"
    /\ peak' = NewPeak(in.equity)
    /\ \/ Drawdown /\ HaltForDrawdown("pulse")
       \/ ~Drawdown /\ pc' = "pulse" /\ UNCHANGED <<ks, halted, leaked>>
    /\ UNCHANGED <<lossHit, seq, idx, input, outcome, account, orders, restarts, high>>

Pulse == /\ pc = "pulse"
         /\ pc' \in {"next", "stopped"}
         /\ OutOfScope
         /\ UNCHANGED <<memory, ks, account, orders, restarts, leaked, high>>

-----------------------------------------------------------------------------
(* The gateway goroutine: /halt and /resume. *)
OperatorHalt ==
    /\ pc # "down"
    /\ ks = "None"
    /\ ks' = "Manual"
    /\ leaked' = 0
    /\ UNCHANGED <<pc, memory, input, outcome, account, orders, restarts, high>>

OperatorResume ==
    /\ pc # "down"
    /\ ks # "None"
    /\ ks' = "None"
    /\ leaked' = 0
    /\ UNCHANGED <<pc, memory, input, outcome, account, orders, restarts, high>>

(* The venue and the market. *)
EquityMoves ==
    /\ equity' \in Equities
    /\ UNCHANGED <<pc, memory, input, outcome, ks, positions, orders,
                   restarts, leaked, high>>

Open(id) == id \in DOMAIN orders /\ orders[id].state = "open"

Fill(id) ==
    /\ Open(id)
    /\ orders' = [orders EXCEPT ![id].state = "filled"]
    /\ positions' = [s \in DOMAIN positions \cup {id[1]} |->
                        IF s # id[1] THEN positions[s]
                        ELSE [qty |-> QtyHeld([positions |-> positions], s) + orders[id].qty,
                              mark |-> Ask]]
    /\ UNCHANGED <<pc, memory, input, outcome, ks, equity, restarts, leaked, high>>

(* A day order lapses unfilled. *)
Expire(id) ==
    /\ Open(id)
    /\ orders' = [orders EXCEPT ![id].state = "expired"]
    /\ UNCHANGED <<pc, memory, input, outcome, ks, account, restarts, leaked, high>>

Crash ==
    /\ pc # "down"
    /\ restarts < MaxRestarts
    /\ pc' = "down"
    /\ OutOfScope
    /\ peak' = 0 /\ halted' = FALSE /\ lossHit' = FALSE
    /\ seq' = 0 /\ idx' = 0
    /\ high' = 0
    /\ UNCHANGED <<ks, account, orders, restarts, leaked>>

(* startTradeLoop in a new process; a failed seeding leaves it not started. *)
Restart ==
    /\ pc = "down"
    /\ pc' \in {"next", "stopped"}
    /\ restarts' = restarts + 1
    /\ UNCHANGED <<memory, input, outcome, ks, account, orders, leaked, high>>

LoopStep == \/ ReadAndDecide \/ DrawdownGate \/ Gate \/ RequestApproval \/ Place
            \/ Heartbeat \/ Pulse

Next == \/ LoopStep \/ ApproveTap \/ DenyOrTimeout
        \/ OperatorHalt \/ OperatorResume
        \/ EquityMoves
        \/ \E id \in DOMAIN orders : Fill(id) \/ Expire(id)
        \/ Crash \/ Restart

Spec == Init /\ [][Next]_vars

(* The ticker fires, reads succeed in the end, and ApprovalTimeout bounds a  *)
(* wait; the operator, the venue and the market owe nothing.                 *)
FairSpec == Spec /\ WF_vars(LoopStep) /\ WF_vars(DenyOrTimeout)

-----------------------------------------------------------------------------
Pcs == {"next", "tick", "gate", "ask", "wait", "place", "beat", "pulse", "stopped", "down"}
Outcomes == {"none", "Halted", "RiskRejected", "MarketClosed", "NoSignal", "Denied",
             "AutoPlaced", "ApprovedPlaced"}

TypeOK ==
    /\ pc \in Pcs
    /\ peak \in Equities \cup {0} /\ high \in Equities \cup {0}
    /\ {halted, lossHit, tapped, arrived} \subseteq BOOLEAN
    /\ seq \in Nat /\ idx \in 0..(Len(Universe) - 1)
    /\ in.equity \in Equities \cup {0}
    /\ decision = None \/ decision.sym \in Symbols
    /\ outcome \in Outcomes
    /\ ks \in {"None", "Manual", "MaxDailyLoss"}
    /\ equity \in Equities
    /\ DOMAIN positions \subseteq Symbols
    /\ DOMAIN orders \subseteq Symbols \X Nat
    /\ restarts \in 0..MaxRestarts /\ leaked \in Nat

(***************************************************************************)
(* An order reaches the venue only from an iteration that passed every     *)
(* gate on the account it read: no drawdown from the highest equity this   *)
(* process has ticked on, every engine limit respected, and above the band *)
(* only after the operator's explicit approval of that very request.       *)
(***************************************************************************)
GatedPlacement ==
    [][DOMAIN orders' # DOMAIN orders =>
          /\ ~DrawdownBreached(Limits, high, in.equity)
          /\ CheckOrder(Limits, decision, in) = "None"
          /\ WithinBand(Band, decision) \/ tapped]_vars

(***************************************************************************)
(* What /halt really guarantees: the order already past the gate may still *)
(* leave, a second one never, and a halt the loop raised itself on a       *)
(* drawdown lets none out.                                                 *)
(***************************************************************************)
AtMostOneLeak == leaked <= 1 /\ (ks = "MaxDailyLoss" => leaked = 0)

(***************************************************************************)
(* A drawdown that lasts is acted on: the loop halts, or has ended, or the *)
(* equity recovers, whatever the operator does about pending approvals.    *)
(***************************************************************************)
StandingBreachHalts ==
    (pc \notin {"down", "stopped"} /\ DrawdownBreached(Limits, high, equity))
        ~> (ks # "None" \/ pc \in {"down", "stopped"}
              \/ ~DrawdownBreached(Limits, high, equity))

(* No iteration hangs: a pending approval ends by a tap or by its timeout. *)
IterationEnds == (pc = "tick") ~> (pc \in {"next", "stopped", "down"})

-----------------------------------------------------------------------------
(* What a comment of trader.go says and the code does not do.             *)

(* trader.go, Placed: "this outcome resulted in an order reaching the       *)
(* broker": a new one, or at least one that has not lapsed.                 *)
PlacedMeansArrived ==
    [][pc = "place" /\ outcome' \in {"AutoPlaced", "ApprovedPlaced"}
         => arrived' \/ orders[ClOrdID].state # "expired"]_vars
=============================================================================
