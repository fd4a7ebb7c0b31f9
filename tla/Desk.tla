-------------------------------- MODULE Desk --------------------------------
(***************************************************************************)
(* The calculations around a trading decision, checked in one run: the     *)
(* risk engine before a book, the sizing of a playbook and its rounding,   *)
(* the backtester, the rate limiter and the alerts about halts.  They      *)
(* share no state in the program.  "part" says which one an execution is   *)
(* about; the variables of the others keep the values they are given.      *)
(***************************************************************************)
EXTENDS PlaybookSizing

CONSTANTS
    BookLimits, Symbols, Quantities, BookPrices, BookEquities,  \* RiskBook
    Realizeds, MaxHeld,
    Digits, SizedEquities, SizedAsks, SizedRisks, StopPcts,     \* SizeRounding
    Whole, Rate, Burst, MaxTime, MaxGrants, Bases, Caps,        \* RateLimiter
    MaxAttempt,
    Hours, StartHour, EndHour, MaxHalts,                        \* OperatorAlerts
    Prices, MaxBars, FastPeriod, SlowPeriod, Channel,           \* Backtest
    ATRPeriod, StartingCash, Qty, Commission, SlippageBps

VARIABLES
    part,
    positions, realized,                                    \* RiskBook
    money,                                                  \* its equity, the rounding's, the backtest's
    quote, risk, stopPct,                                   \* SizeRounding
    clock, tokens, last, grants,                            \* RateLimiter
    hour, switch, breached, lossHit, latch, lossLatch,      \* OperatorAlerts
    lastBeat, halts, seen, told, lost, lossTold,
    strat, nextOpen, bars, view, pos, pendEntry, pendExit,  \* Backtest
    trades, peak, maxDD, gross, done

bookVars == <<positions, realized>>
roundVars == <<quote, risk, stopPct>>
rateVars == <<clock, tokens, last, grants>>
alertVars == <<hour, switch, breached, lossHit, latch, lossLatch, lastBeat, halts,
               seen, told, lost, lossTold>>
testVars == <<strat, nextOpen, bars, view, pos, pendEntry, pendExit, trades, peak,
              maxDD, gross, done>>
deskVars == <<part, vars, bookVars, money, roundVars, rateVars, alertVars, testVars>>

Engine == INSTANCE RiskBook WITH
    equity <- money, Limits <- BookLimits, Prices <- BookPrices, Equities <- BookEquities

Rounding == INSTANCE SizeRounding WITH
    equity <- money, ask <- quote, Equities <- SizedEquities, Asks <- SizedAsks,
    RiskKnobs <- SizedRisks

Limiter == INSTANCE RateLimiter

Alerts == INSTANCE OperatorAlerts

Replay == INSTANCE Backtest WITH equity <- money

(* The limits of a playbook: no cap in money, and every other one is set. *)
ASSUME BookAssumption ==
    /\ BookLimits \in [riskPct : Nat \ {0}, dailyLossPct : Nat \ {0}, leverage : Nat \ {0},
                      totalExposure : {0}, concentrationPct : Nat \ {0}, maxOpen : Nat \ {0},
                      drawdownPct : Nat, requireStop : {TRUE}]
    /\ Quantities \cup BookPrices \subseteq Nat \ {0}
    /\ BookEquities \cup Realizeds \subseteq Int

(* The answers of a playbook are amounts. *)
ASSUME SizingAssumption ==
    /\ RiskKnobs \cup LossKnobs \subseteq Nat
    /\ Equities \cup Asks \subseteq Nat \ {0}

(* Equities that are a coefficient, prices that leave room for a stop's      *)
(* digits, a fraction of the equity at risk, stops below the price.          *)
ASSUME RoundingAssumption ==
    /\ Digits \in Nat \ {0}
    /\ SizedEquities \subseteq 1..Rounding!Limit - 1
    /\ SizedAsks \subseteq {a \in Nat \ {0} : 100 * a < Rounding!Limit}
    /\ SizedRisks \subseteq 1..1000 /\ StopPcts \subseteq 1..99

(* What NewTokenBucket's clamps and time.Time give, and the backoff's durations. *)
ASSUME LimiterAssumption ==
    /\ {Whole, Rate, Burst} \subseteq Int /\ Whole > 0
    /\ {MaxTime, MaxGrants, MaxAttempt} \subseteq Nat
    /\ Bases \cup Caps \subseteq Nat

ASSUME ReplayAssumption ==
    {StartingCash, Qty, Commission, SlippageBps} \cup Prices \subseteq Int

(* The values of the variables of the parts that do not run. *)
NoSizing == playbook = [register |-> "moderate", risk |-> 0, loss |-> 0] /\ equity = 0 /\ ask = 0
NoBook == positions = [s \in {} |-> 0] /\ realized = 0
NoRounding == quote = 0 /\ risk = 0 /\ stopPct = 0
NoRate == clock = 0 /\ tokens = 0 /\ last = 0 /\ grants = <<>>
NoAlerts == /\ hour = 0 /\ halts = 0 /\ lastBeat = "none"
            /\ switch = FALSE /\ breached = FALSE /\ lossHit = FALSE
            /\ latch = FALSE /\ lossLatch = FALSE
            /\ seen = FALSE /\ told = FALSE /\ lost = FALSE /\ lossTold = FALSE
NoReplay == /\ strat = "none" /\ bars = <<>> /\ trades = <<>> /\ pos = 0
            /\ view = 0 /\ pendEntry = 0 /\ peak = 0 /\ maxDD = 0 /\ gross = 0
            /\ nextOpen = FALSE /\ pendExit = FALSE /\ done = FALSE

DeskInit ==
    \/ /\ part = "book" /\ Engine!Init
       /\ NoSizing /\ NoRounding /\ NoRate /\ NoAlerts /\ NoReplay
    \/ /\ part = "sizing" /\ Init /\ money = 0
       /\ NoBook /\ NoRounding /\ NoRate /\ NoAlerts /\ NoReplay
    \/ /\ part = "rounding" /\ Rounding!Init
       /\ NoSizing /\ NoBook /\ NoRate /\ NoAlerts /\ NoReplay
    \/ /\ part = "rate" /\ Limiter!Init /\ money = 0
       /\ NoSizing /\ NoBook /\ NoRounding /\ NoAlerts /\ NoReplay
    \/ /\ part = "alerts" /\ Alerts!Init /\ money = 0
       /\ NoSizing /\ NoBook /\ NoRounding /\ NoRate /\ NoReplay
    \/ /\ part = "replay" /\ Replay!Init
       /\ NoSizing /\ NoBook /\ NoRounding /\ NoRate /\ NoAlerts

DeskNext ==
    \/ /\ part = "book" /\ Engine!Next
       /\ UNCHANGED <<part, vars, roundVars, rateVars, alertVars, testVars>>
    \/ /\ part = "sizing" /\ Next
       /\ UNCHANGED <<part, bookVars, money, roundVars, rateVars, alertVars, testVars>>
    \/ /\ part = "rounding" /\ Rounding!Next
       /\ UNCHANGED <<part, vars, bookVars, rateVars, alertVars, testVars>>
    \/ /\ part = "rate" /\ Limiter!Next
       /\ UNCHANGED <<part, vars, bookVars, money, roundVars, alertVars, testVars>>
    \/ /\ part = "alerts" /\ Alerts!Next
       /\ UNCHANGED <<part, vars, bookVars, money, roundVars, rateVars, testVars>>
    \/ /\ part = "replay" /\ Replay!Next
       /\ UNCHANGED <<part, vars, bookVars, roundVars, rateVars, alertVars>>

DeskSpec == DeskInit /\ [][DeskNext]_deskVars

-----------------------------------------------------------------------------
(***************************************************************************)
(* The risk engine approves an order exactly when the book after its fill  *)
(* respects every limit (RiskBook).                                        *)
(***************************************************************************)
VerdictIsExact == part = "book" => Engine!VerdictIsExact

(***************************************************************************)
(* An order that is rejected stays rejected when all that changes is that  *)
(* the account is poorer or has lost more today (RiskBook).                *)
(***************************************************************************)
LosingReopensNothing == part = "book" => Engine!LosingReopensNothing

(***************************************************************************)
(* Which playbooks can open a position at all, from the three tables of    *)
(* the risk register (PlaybookSizing).                                     *)
(***************************************************************************)
EntryIsTradableExactlyWhen == part = "sizing" => TradableExactlyWhen

(***************************************************************************)
(* Of entries sized to the risk budget the engine refuses only those whose *)
(* quantity was rounded up (SizeRounding).                                 *)
(***************************************************************************)
RefusedOnlyByRounding == part = "rounding" => Rounding!RefusedOnlyByRounding

(***************************************************************************)
(* Calls never exceed the burst and the refill of any window, whatever the *)
(* clock does, and retries back off to min(cap, base * 2^n) (RateLimiter). *)
(***************************************************************************)
PacingIsBounded == part = "rate" => Limiter!NeverOverRate /\ Limiter!BackoffIsExact

(***************************************************************************)
(* The first halt the loop meets reaches the operator at any hour, unless  *)
(* the transport fails (OperatorAlerts).                                   *)
(***************************************************************************)
FirstHaltIsAnnounced == part = "alerts" => Alerts!FirstHaltIsAnnounced

(***************************************************************************)
(* A strategy's idea of its position is the one the backtester holds or    *)
(* has scheduled (Backtest).                                               *)
(***************************************************************************)
ViewsAgree == part = "replay" => Replay!ViewsAgree

(***************************************************************************)
(* The report's cash, costs and drawdown are those of the trades, and the  *)
(* run ends flat (Backtest).                                               *)
(***************************************************************************)
LedgerAddsUp == part = "replay" => Replay!LedgerAddsUp
=============================================================================
