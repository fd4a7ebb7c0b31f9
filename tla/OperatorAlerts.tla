--------------------------- MODULE OperatorAlerts ---------------------------
(***************************************************************************)
(* What the operator is told about halts: the alert latches of the trade   *)
(* loop (internal/harness/trader.go) in front of the quiet-hours channel   *)
(* (internal/channel/quiethours.go), whose sends may fail.  Orders are     *)
(* TradeLoop's; here a tick is its gates and its alerts.                   *)
(***************************************************************************)
EXTENDS Integers

CONSTANTS
    Hours,          \* local hours the clock may show
    StartHour, EndHour,
    MaxHalts        \* bound: times the switch is raised

VARIABLES
    hour,
    switch,         \* the kill switch is halted
    breached,       \* the drawdown limit is breached
    lossHit,        \* today's realized loss is at its limit
    latch,          \* Trader.halted
    lossLatch,      \* Trader.dailyLossHit
    lastBeat,       \* what the last heartbeat said: live or HALTED
    halts,          \* history: times the switch was raised
    seen, told,     \* history: the loop met the present halt, the operator got its alert
    lost,           \* history: a halt alert was sent and failed
    lossTold        \* history: the operator got a daily-loss alert

vars == <<hour, switch, breached, lossHit, latch, lossLatch, lastBeat, halts,
          seen, told, lost, lossTold>>

World == <<hour, breached, lossHit>>

IsQuiet == hour >= StartHour /\ hour < EndHour

BugPassesQuiet(level) == level = "approval"     \* mutant: emergencies are held too
PassesQuiet(level) == level \in {"critical", "approval"}

(* QuietChannel: held, or handed to the transport, which may fail. *)
Outcomes(level) == IF IsQuiet /\ ~PassesQuiet(level) THEN {"held"} ELSE {"delivered", "failed"}

Init == /\ hour \in Hours
        /\ switch \in BOOLEAN                   \* a halt may outlive a restart
        /\ breached = FALSE /\ lossHit = FALSE
        /\ latch = FALSE /\ lossLatch = FALSE /\ lastBeat = "none"
        /\ halts = IF switch THEN 1 ELSE 0
        /\ seen = FALSE /\ told = FALSE /\ lost = FALSE /\ lossTold = FALSE

(* haltForDrawdown and recordAndMaybeAlertHalt: latch, then send once. *)
NoticeHalt ==
    /\ seen' = TRUE
    /\ latch' = TRUE
    /\ IF latch THEN UNCHANGED <<told, lost>>
       ELSE \E o \in Outcomes("critical") :
               /\ told' = (told \/ o = "delivered")
               /\ lost' = (lost \/ o = "failed")

(* A drawdown breach raises the switch if it is not raised already. *)
RaiseForDrawdown ==
    /\ breached
    /\ switch \/ halts < MaxHalts
    /\ switch' = TRUE
    /\ halts' = IF switch THEN halts ELSE halts + 1
    /\ NoticeHalt
    /\ UNCHANGED <<lossLatch, lossTold>>

TickHalted == /\ ~breached /\ switch
              /\ NoticeHalt
              /\ UNCHANGED <<switch, halts, lossLatch, lossTold>>

TickDailyLoss == /\ ~breached /\ ~switch /\ lossHit
                 /\ lossLatch' = TRUE
                 /\ IF lossLatch THEN UNCHANGED lossTold
                    ELSE \E o \in Outcomes("critical") : lossTold' = (o = "delivered")
                 /\ UNCHANGED <<switch, halts, latch, seen, told, lost>>

TickOpen == /\ ~breached /\ ~switch /\ ~lossHit
            /\ lossLatch' = FALSE
            /\ UNCHANGED <<switch, halts, latch, seen, told, lost, lossTold>>

Tick == /\ RaiseForDrawdown \/ TickHalted \/ TickDailyLoss \/ TickOpen
        /\ UNCHANGED <<World, lastBeat>>

(* Heartbeat: the drawdown gate again, then a routine alert of the latch.  *)
(* When the halt's own alert fails, Heartbeat returns before its pulse.    *)
Pulse == \E o \in Outcomes(IF latch' THEN "warn" ELSE "info") :
            lastBeat' = IF o = "delivered" THEN (IF latch' THEN "HALTED" ELSE "live")
                        ELSE lastBeat
Heartbeat ==
    /\ \/ /\ RaiseForDrawdown
          /\ IF lost' = lost THEN Pulse ELSE UNCHANGED lastBeat
       \/ /\ ~breached /\ UNCHANGED <<switch, halts, latch, lossLatch, seen, told, lost, lossTold>>
          /\ Pulse
    /\ UNCHANGED World

OperatorHalts == /\ ~switch /\ halts < MaxHalts
                 /\ switch' = TRUE /\ halts' = halts + 1
                 /\ seen' = FALSE /\ told' = FALSE
                 /\ UNCHANGED <<World, latch, lossLatch, lastBeat, lost, lossTold>>

OperatorResumes == /\ switch
                   /\ switch' = FALSE
                   /\ seen' = FALSE /\ told' = FALSE
                   /\ UNCHANGED <<World, latch, lossLatch, lastBeat, halts, lost, lossTold>>

TimePasses == /\ hour' \in Hours /\ breached' \in BOOLEAN /\ lossHit' \in BOOLEAN
              /\ UNCHANGED <<switch, latch, lossLatch, lastBeat, halts, seen, told, lost, lossTold>>

Next == Tick \/ Heartbeat \/ OperatorHalts \/ OperatorResumes \/ TimePasses
Spec == Init /\ [][Next]_vars

-----------------------------------------------------------------------------
(***************************************************************************)
(* The first halt the loop meets is announced at once, at any hour: the    *)
(* quiet hours hold it back neither by its level nor by its moment, and    *)
(* only a failed send keeps it from the operator.                          *)
(***************************************************************************)
FirstHaltIsAnnounced == seen /\ halts = 1 => told \/ lost
=============================================================================
