------------------------------ MODULE Backtest ------------------------------
(***************************************************************************)
(* The backtester (internal/backtest): one pass over the bars that asks a  *)
(* baseline strategy (internal/strategy) for a signal on each and fills it *)
(* with slippage and commission, at the close or at the next bar's open.   *)
(*                                                                         *)
(* Momentum and breakout compute their averages, channels and true ranges. *)
(* Mean reversion's z-score and RSI are floating point over long windows:  *)
(* its reading of a bar is any of five.  The engine ignores Signal.Stop.   *)
(***************************************************************************)
EXTENDS Integers, SequencesExt

CONSTANTS
    Prices,         \* opens and closes of a bar
    MaxBars,        \* bound: bars of a run
    FastPeriod, SlowPeriod, Channel, ATRPeriod,
    StartingCash, Qty, Commission, SlippageBps

VARIABLES
    strat,          \* the strategy's name
    nextOpen,       \* Config.EnterAtNextOpen
    bars,           \* the bars so far: [open, close]
    view,           \* the strategy's own idea of its position: 1 long, -1 short, 0 flat
    pos,            \* the engine's position: [side, px, fee], side 0 for none
    pendEntry,      \* side of an entry that waits for the next open, 0 for none
    pendExit,
    trades,         \* net result of each round trip
    equity, peak, maxDD,
    gross,          \* GrossPnL
    done

vars == <<strat, nextOpen, bars, view, pos, pendEntry, pendExit, trades, equity,
          peak, maxDD, gross, done>>

-----------------------------------------------------------------------------
(* Indicators, as of bar n. *)
High(n) == Max({bars'[n].open, bars'[n].close})
Low(n) == Min({bars'[n].open, bars'[n].close})
Close(n) == bars'[n].close
Window(n, p) == {i \in 1..n : i > n - p}

(* SMA over the last p closes, or over all of them while there are fewer. *)
Sum(n, p) == MapThenSumSet(Close, Window(n, p))
SMAAbove(n, p, q) == Sum(n, p) * Min({n, q}) > Sum(n, q) * Min({n, p})
SMABelow(n, p, q) == Sum(n, p) * Min({n, q}) < Sum(n, q) * Min({n, p})

(* Donchian: the prior bars only, never the one that is judged. *)
Prior(n) == Window(n - 1, Channel)
DonchianReady(n) == n > Channel
BreaksUp(n) == \A i \in Prior(n) : Close(n) > High(i)
BreaksDown(n) == \A i \in Prior(n) : Close(n) < Low(i)

(* The stop's distance is positive once a true range was: an entry needs it. *)
TrueRange(n) == LET reach == {High(n), Low(n)} \cup {Close(i) : i \in Window(n - 1, 1)}
                IN  Max(reach) - Min(reach)
StopValid(n) == n >= ATRPeriod /\ \E i \in 1..n : TrueRange(i) > 0

-----------------------------------------------------------------------------
(* OnBar: the possible [action, view] of a strategy on bar n. *)
Hold == [action |-> "hold", view |-> view]
Enter(side) == [action |-> "enter", view |-> side]
Exit == [action |-> "exit", view |-> 0]

Momentum(n) ==
    LET ready   == n >= FastPeriod /\ n >= SlowPeriod
        crossUp == n > 1 /\ ~SMAAbove(n - 1, FastPeriod, SlowPeriod) /\ SMAAbove(n, FastPeriod, SlowPeriod)
        crossDn == n > 1 /\ ~SMABelow(n - 1, FastPeriod, SlowPeriod) /\ SMABelow(n, FastPeriod, SlowPeriod)
    IN  IF ready /\ view = 1 /\ crossDn THEN Exit
        ELSE IF ready /\ view = 0 /\ crossUp /\ DonchianReady(n) /\ BreaksUp(n) /\ StopValid(n)
        THEN Enter(1)
        ELSE Hold

Breakout(n) ==
    IF DonchianReady(n) /\ view = 1 /\ BreaksDown(n) THEN Exit
    ELSE IF DonchianReady(n) /\ view = 0 /\ BreaksUp(n) /\ StopValid(n) THEN Enter(1)
    ELSE Hold

MeanReversion(reading) ==
    IF view = 1 /\ reading \in {"mean", "above", "overbought"} THEN Exit
    ELSE IF view = -1 /\ reading \in {"mean", "below", "oversold"} THEN Exit
    ELSE IF view = 0 /\ reading = "oversold" THEN Enter(1)
    ELSE IF view = 0 /\ reading = "overbought" THEN Enter(-1)
    ELSE Hold

Signals(n) == CASE strat = "momentum" -> {Momentum(n)}
                [] strat = "breakout" -> {Breakout(n)}
                [] strat = "mean_reversion" ->
                      {MeanReversion(r) : r \in {"oversold", "below", "mean", "above", "overbought"}}

-----------------------------------------------------------------------------
(* Money: fills are adverse, each costs a commission. *)
Slipped(raw, side) == raw + side * ((raw * SlippageBps) \div 10000)

Flat == [side |-> 0, px |-> 0, fee |-> 0]
Opened(side, raw) == [side |-> side, px |-> Slipped(raw, side), fee |-> Commission]

GrossPnL(p, raw) == p.side * (Slipped(raw, -p.side) - p.px) * Qty
NetPnL(p, raw) == GrossPnL(p, raw) - p.fee - Commission

(* The ledger of the run so far: [pos, trades, equity, peak, maxDD, gross]. *)
Book == [pos |-> pos, trades |-> trades, equity |-> equity, peak |-> peak,
         maxDD |-> maxDD, gross |-> gross]

BugPeak(b, eq) == eq                            \* mutant: the peak follows the equity down
Peak(b, eq) == Max({b.peak, eq})

CloseTrade(b, raw) ==
    LET net == NetPnL(b.pos, raw)
        eq  == b.equity + net
    IN  [pos |-> Flat, trades |-> Append(b.trades, net), equity |-> eq,
         peak |-> Peak(b, eq), maxDD |-> Max({b.maxDD, Peak(b, eq) - eq}),
         gross |-> b.gross + GrossPnL(b.pos, raw)]

(* A bar's open: the pending exit, then the pending entry. *)
ExitFills == nextOpen /\ pendExit /\ pos.side # 0
AfterExit(open) == IF ExitFills THEN CloseTrade(Book, open) ELSE Book
EntryFills(b) == nextOpen /\ pendEntry # 0 /\ b.pos.side = 0
AfterOpen(open) ==
    LET b == AfterExit(open)
    IN  IF EntryFills(b) THEN [b EXCEPT !.pos = Opened(pendEntry, open)] ELSE b

BugExitPending == pendExit                      \* mutant: a filled exit stays pending
ExitPending == pendExit /\ ~ExitFills
EntryPending(open) == IF EntryFills(AfterExit(open)) THEN 0 ELSE pendEntry

Record(b) == /\ pos' = b.pos /\ trades' = b.trades /\ equity' = b.equity
             /\ peak' = b.peak /\ maxDD' = b.maxDD /\ gross' = b.gross

(* The signal is filled at the close, scheduled for the next open, or ignored. *)
Route(s, b, entry, close) ==
    LET enters == s.action = "enter" /\ b.pos.side = 0 /\ entry = 0
        exits  == s.action = "exit" /\ b.pos.side # 0 /\ ~ExitPending
    IN  /\ pendEntry' = IF enters /\ nextOpen THEN s.view ELSE entry
        /\ pendExit' = (ExitPending \/ (exits /\ nextOpen))
        /\ Record(IF ~nextOpen /\ enters THEN [b EXCEPT !.pos = Opened(s.view, close)]
                  ELSE IF ~nextOpen /\ exits THEN CloseTrade(b, close)
                  ELSE b)

Init == /\ strat \in {"momentum", "breakout", "mean_reversion"}
        /\ nextOpen \in BOOLEAN
        /\ bars = <<>> /\ view = 0 /\ pos = Flat
        /\ pendEntry = 0 /\ pendExit = FALSE
        /\ trades = <<>> /\ gross = 0 /\ maxDD = 0
        /\ equity = StartingCash /\ peak = StartingCash
        /\ done = FALSE

Bar(open, close) ==
    /\ ~done /\ Len(bars) < MaxBars
    /\ bars' = Append(bars, [open |-> open, close |-> close])
    /\ \E s \in Signals(Len(bars')) :
          /\ view' = s.view
          /\ Route(s, AfterOpen(open), EntryPending(open), close)
    /\ UNCHANGED <<strat, nextOpen, done>>

(* End of data: an open position is closed at the last close. *)
Finish == /\ ~done /\ bars # <<>>
          /\ done' = TRUE
          /\ Record(IF pos.side # 0 THEN CloseTrade(Book, Last(bars).close) ELSE Book)
          /\ UNCHANGED <<strat, nextOpen, bars, view, pendEntry, pendExit>>

Next == (\E o, c \in Prices : Bar(o, c)) \/ Finish
Spec == Init /\ [][Next]_vars

-----------------------------------------------------------------------------
(* Where the engine is heading once its pending fills are done. *)
Heading == IF pendEntry # 0 THEN pendEntry ELSE IF pendExit THEN 0 ELSE pos.side

(***************************************************************************)
(* Strategy and engine never lose each other: the position a strategy      *)
(* believes in is the one the engine holds or has scheduled, although      *)
(* neither tells the other about fills, ignored signals or pending orders. *)
(***************************************************************************)
ViewsAgree == ~done => view = Heading

(* The equity after each of the trades, from the start. *)
Curve == [k \in 0..Len(trades) |-> StartingCash + SumFunctionOnSet(trades, 1..k)]

(* From each of its points down to each later one. *)
Falls == UNION {{Curve[i] - Curve[j] : i \in 0..j} : j \in DOMAIN Curve}

(***************************************************************************)
(* The report is the ledger's: ending cash is the start plus every net     *)
(* result, the costs are two commissions a round trip, and the maximum     *)
(* drawdown is the deepest fall from any earlier point of the curve.       *)
(***************************************************************************)
LedgerAddsUp ==
    /\ equity = Curve[Len(trades)]
    /\ gross - (equity - StartingCash) = 2 * Commission * Len(trades)
    /\ maxDD = Max(Falls)
    /\ done => pos.side = 0
=============================================================================
