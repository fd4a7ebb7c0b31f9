------------------------- MODULE TradeLoop_proofs -------------------------
(***************************************************************************)
(* What the gates of the trade loop guarantee for every universe, limits,  *)
(* band, price and account, with /halt and /resume landing anywhere.       *)
(***************************************************************************)
EXTENDS TradeLoop, TLAPS

(* The iteration is past the switch check, on its way to the venue. *)
Cleared == pc \in {"ask", "wait", "place"}

(***************************************************************************)
(* Past the gate nothing has leaked yet and the loop has not halted itself;*)
(* a leak takes the loop out of this region, and the gate keeps it out     *)
(* until a resume starts the count again.                                  *)
(***************************************************************************)
LeakInv == /\ leaked \in {0, 1}
           /\ ks \in {"None", "Manual", "MaxDailyLoss"}
           /\ ks # "Manual" => leaked = 0
           /\ Cleared => leaked = 0 /\ ks # "MaxDailyLoss"

(* The loop starts with no order past a halt.                               *)
LEMMA LeakInit == Init => LeakInv
  BY DEF Init, LeakInv, Cleared

(* No action lets a second order past a halt.                               *)
LEMMA LeakStep == LeakInv /\ [Next]_vars => LeakInv'
  <1> SUFFICES ASSUME LeakInv, [Next]_vars PROVE LeakInv'
    OBVIOUS
  <1> USE DEF LeakInv, Cleared, memory, input, account
  <1>1. CASE ReadAndDecide
    BY <1>1 DEF ReadAndDecide
  <1>2. CASE DrawdownGate
    BY <1>2 DEF DrawdownGate, HaltForDrawdown, Latch
  <1>3. CASE Gate
    BY <1>3 DEF Gate, SwitchHalted, Latch
  <1>4. CASE RequestApproval \/ ApproveTap \/ DenyOrTimeout
    BY <1>4 DEF RequestApproval, ApproveTap, DenyOrTimeout
  <1>5. CASE Place
    BY <1>5 DEF Place
  <1>6. CASE Heartbeat
    BY <1>6 DEF Heartbeat, HaltForDrawdown, Latch
  <1>7. CASE Pulse
    BY <1>7 DEF Pulse, OutOfScope
  <1>8. CASE OperatorHalt \/ OperatorResume
    BY <1>8 DEF OperatorHalt, OperatorResume
  <1>9. CASE EquityMoves
    BY <1>9 DEF EquityMoves
  <1>10. ASSUME NEW id \in DOMAIN orders, Fill(id) \/ Expire(id) PROVE LeakInv'
    BY <1>10 DEF Fill, Expire
  <1>11. CASE Crash \/ Restart
    BY <1>11 DEF Crash, Restart, OutOfScope
  <1>12. CASE UNCHANGED vars
    BY <1>12 DEF vars
  <1> QED
    BY <1>1, <1>2, <1>3, <1>4, <1>5, <1>6, <1>7, <1>8, <1>9, <1>10, <1>11, <1>12
       DEF Next, LoopStep

(***************************************************************************)
(* At most the one order already past the gate leaves after an operator's  *)
(* halt, and none after a drawdown halt of the loop itself.                *)
(***************************************************************************)
THEOREM LeakBound == Spec => []AtMostOneLeak
  <1>1. LeakInv => AtMostOneLeak
    BY DEF LeakInv, AtMostOneLeak
  <1> QED BY <1>1, LeakInit, LeakStep, PTL DEF Spec

-----------------------------------------------------------------------------
(* The iteration has been through the drawdown gate. *)
Ticked == pc \in {"gate", "ask", "wait", "place", "beat", "pulse"}

(***************************************************************************)
(* What an iteration carries from gate to gate: the peak is the highest    *)
(* equity ticked on, it already covers this iteration's equity, and each   *)
(* verdict still stands, because its inputs are the iteration's own copy.  *)
(***************************************************************************)
GateInv ==
    /\ peak = high
    /\ Ticked => Bigger(peak, in.equity) = peak
    /\ pc = "gate" \/ Cleared => ~DrawdownBreached(Limits, high, in.equity)
    /\ Cleared => CheckOrder(Limits, decision, in) = "None"
    /\ pc = "place" => WithinBand(Band, decision) \/ tapped

(* The loop starts idle, before any gate.                                   *)
LEMMA GateInit == Init => GateInv
  BY DEF Init, GateInv, Ticked, Cleared

(* Each action keeps what the gates have established so far.                *)
LEMMA GateStep == GateInv /\ [Next]_vars => GateInv'
  <1> SUFFICES ASSUME GateInv, [Next]_vars PROVE GateInv'
    OBVIOUS
  <1> USE DEF GateInv, Ticked, Cleared, memory, input, account
  <1>1. CASE ReadAndDecide
    BY <1>1 DEF ReadAndDecide
  <1>2. CASE DrawdownGate
    <2>1. UNCHANGED in /\ peak' = high' /\ peak' = Bigger(peak, in.equity)
      BY <1>2 DEF DrawdownGate, NewPeak
    <2>2. Bigger(peak', in.equity) = peak'
      BY <2>1 DEF Bigger
    <2>3. pc' = "gate" => ~DrawdownBreached(Limits, high', in.equity)
      BY <1>2, <2>1 DEF DrawdownGate, NewPeak, Drawdown, HaltForDrawdown
    <2>4. pc' \in {"gate", "beat", "stopped"}
      BY <1>2 DEF DrawdownGate, HaltForDrawdown
    <2> QED BY <2>1, <2>2, <2>3, <2>4
  <1>3. CASE Gate
    BY <1>3 DEF Gate
  <1>4. CASE RequestApproval \/ ApproveTap \/ DenyOrTimeout
    BY <1>4 DEF RequestApproval, ApproveTap, DenyOrTimeout, Answered
  <1>5. CASE Place
    BY <1>5 DEF Place
  <1>6. CASE Heartbeat
    BY <1>6 DEF Heartbeat, HaltForDrawdown, Latch, NewPeak
  <1>7. CASE Pulse
    BY <1>7 DEF Pulse, OutOfScope
  <1>8. CASE OperatorHalt \/ OperatorResume
    BY <1>8 DEF OperatorHalt, OperatorResume
  <1>9. CASE EquityMoves
    BY <1>9 DEF EquityMoves
  <1>10. ASSUME NEW id \in DOMAIN orders, Fill(id) \/ Expire(id) PROVE GateInv'
    BY <1>10 DEF Fill, Expire
  <1>11. CASE Crash \/ Restart
    BY <1>11 DEF Crash, Restart, OutOfScope
  <1>12. CASE UNCHANGED vars
    BY <1>12 DEF vars
  <1> QED
    BY <1>1, <1>2, <1>3, <1>4, <1>5, <1>6, <1>7, <1>8, <1>9, <1>10, <1>11, <1>12
       DEF Next, LoopStep

(* Only the placement of the loop adds an order, and only from "place". *)
LEMMA OnlyPlaceAdds ==
  ASSUME [Next]_vars, DOMAIN orders' # DOMAIN orders PROVE pc = "place"
  <1> USE DEF account
  <1>1. ASSUME NEW id \in DOMAIN orders PROVE ~Fill(id) /\ ~Expire(id)
    BY DEF Fill, Expire
  <1>2. ~ReadAndDecide /\ ~DrawdownGate /\ ~Gate /\ ~RequestApproval /\ ~Heartbeat /\ ~Pulse
    BY DEF ReadAndDecide, DrawdownGate, Gate, RequestApproval, Heartbeat, Pulse
  <1>3. ~ApproveTap /\ ~DenyOrTimeout /\ ~OperatorHalt /\ ~OperatorResume
    BY DEF ApproveTap, DenyOrTimeout, OperatorHalt, OperatorResume
  <1>4. ~EquityMoves /\ ~Crash /\ ~Restart /\ ~UNCHANGED vars
    BY DEF EquityMoves, Crash, Restart, vars
  <1> QED BY <1>1, <1>2, <1>3, <1>4 DEF Next, LoopStep, Place

(***************************************************************************)
(* Every order at the venue passed the drawdown gate, the engine and the   *)
(* band (or the operator) on the account its own iteration read.           *)
(***************************************************************************)
THEOREM OrdersAreGated == Spec => GatedPlacement
  <1>1. ASSUME GateInv, [Next]_vars
        PROVE  [DOMAIN orders' # DOMAIN orders =>
                  /\ ~DrawdownBreached(Limits, high, in.equity)
                  /\ CheckOrder(Limits, decision, in) = "None"
                  /\ WithinBand(Band, decision) \/ tapped]_vars
    BY <1>1, OnlyPlaceAdds DEF GateInv, Cleared
  <1> QED BY <1>1, GateInit, GateStep, PTL DEF Spec, GatedPlacement
=============================================================================
