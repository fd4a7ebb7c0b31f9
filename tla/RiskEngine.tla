----------------------------- MODULE RiskEngine -----------------------------
(***************************************************************************)
(* internal/risk/engine.go and the band of internal/harness/trader.go: the *)
(* pure decisions of the pre-trade gate.  Money, prices and quantities are *)
(* whole numbers (the code's decimals are exact at any fixed scale);       *)
(* fractions and the leverage are in thousandths, so that every comparison *)
(* is the code's own cross-multiplication.                                 *)
(*                                                                         *)
(*   cfg   [riskPct, dailyLossPct, leverage, totalExposure,                *)
(*          concentrationPct, maxOpen, drawdownPct, requireStop]           *)
(*   p     [sym, side, qty, entry, stop]                                   *)
(*   ps    [equity, realized, positions], positions a function from the    *)
(*         symbols the venue lists to [qty (signed), mark]                 *)
(*                                                                         *)
(* A limit of 0 or less is disabled.  No caller supplies the GrossExposure *)
(* and OpenPositionCount fast paths, so both are derived from positions.   *)
(***************************************************************************)
EXTENDS Integers, FiniteSets, FiniteSetsExt

Thousandths == 1000
HardCapRiskPct == 20        \* hardCapRiskPerTradePct = 0.02
DefaultRiskPct == 10        \* defaultRiskPerTradePct = 0.01

Magnitude(x) == IF x < 0 THEN -x ELSE x

(* x against pct thousandths of base, without a division. *)
Reaches(x, pct, base) == x * Thousandths >= pct * base
Exceeds(x, pct, base) == x * Thousandths > pct * base

(* NewEngine: the default when unset, never above the hard cap. *)
EffectiveRiskPct(cfg) ==
    IF cfg.riskPct <= 0 THEN DefaultRiskPct
    ELSE Min({cfg.riskPct, HardCapRiskPct})

DrawdownBreached(cfg, peak, current) ==
    /\ cfg.drawdownPct > 0
    /\ peak > 0
    /\ peak > current
    /\ Reaches(peak - current, cfg.drawdownPct, peak)

BugCheckDailyLoss(cfg, ps) ==       \* mutant: a gain counts like a loss
    IF cfg.dailyLossPct > 0 /\ Reaches(Magnitude(ps.realized), cfg.dailyLossPct, ps.equity)
    THEN "DailyLoss" ELSE "None"

(* CheckDailyLoss: the limit that trips, or "None". *)
CheckDailyLoss(cfg, ps) ==
    CASE cfg.dailyLossPct <= 0 \/ ps.realized >= 0                      -> "None"
      [] cfg.dailyLossPct > 0 /\ ps.realized < 0 /\ ps.equity <= 0      -> "InvalidInput"
      [] cfg.dailyLossPct > 0 /\ ps.realized < 0 /\ ps.equity > 0       ->
            IF Reaches(-ps.realized, cfg.dailyLossPct, ps.equity) THEN "DailyLoss" ELSE "None"

-----------------------------------------------------------------------------
Held(ps, sym) == sym \in DOMAIN ps.positions
QtyHeld(ps, sym) == IF Held(ps, sym) THEN ps.positions[sym].qty ELSE 0

SymbolExposure(ps, sym) ==
    IF Held(ps, sym) THEN Magnitude(ps.positions[sym].qty * ps.positions[sym].mark) ELSE 0

GrossExposure(ps) ==
    MapThenSumSet(LAMBDA sym : SymbolExposure(ps, sym), DOMAIN ps.positions)

CountOpen(ps) == Cardinality({sym \in DOMAIN ps.positions : QtyHeld(ps, sym) # 0})

SameDirection(p, held) == (held > 0 /\ p.side = "Buy") \/ (held < 0 /\ p.side = "Sell")

BugSymbolExposureAfter(p, ps) ==    \* mutant: an exit is charged like an entry
    SymbolExposure(ps, p.sym) + p.qty * p.entry

(* symbolExposureAfterOrder: add, reduce at the mark, or flip at the entry. *)
SymbolExposureAfter(p, ps) ==
    LET held == QtyHeld(ps, p.sym)
        size == Magnitude(held)
    IN  CASE held = 0                                         -> p.qty * p.entry
          [] held # 0 /\ SameDirection(p, held)               ->
                SymbolExposure(ps, p.sym) + p.qty * p.entry
          [] held # 0 /\ ~SameDirection(p, held) /\ p.qty < size  ->
                SymbolExposure(ps, p.sym) - p.qty * Magnitude(ps.positions[p.sym].mark)
          [] held # 0 /\ ~SameDirection(p, held) /\ p.qty >= size ->
                (p.qty - size) * p.entry

GrossAfter(p, ps) ==
    GrossExposure(ps) - SymbolExposure(ps, p.sym) + SymbolExposureAfter(p, ps)

PerTradeRisk(p) == p.qty * Magnitude(p.entry - p.stop)

StopProtects(p) == /\ p.stop > 0
                   /\ \/ p.side = "Buy" /\ p.stop < p.entry
                      \/ p.side = "Sell" /\ p.stop > p.entry

InputInvalid(p, ps) == \/ p.qty <= 0 \/ p.entry <= 0
                       \/ p.side \notin {"Buy", "Sell"}
                       \/ ps.equity <= 0

(* The controls of CheckOrder in the order it applies them. *)
LimitNames == <<"InvalidInput", "MissingStop", "DailyLoss", "PerTradeRisk",
                "GrossLeverage", "TotalExposure", "Concentration", "MaxOpenPositions">>

Trips(limit, cfg, p, ps) ==
    CASE limit = "InvalidInput"     -> InputInvalid(p, ps)
      [] limit = "MissingStop"      -> cfg.requireStop /\ ~StopProtects(p)
      [] limit = "DailyLoss"        -> CheckDailyLoss(cfg, ps) = "DailyLoss"
      [] limit = "PerTradeRisk"     ->
            p.stop > 0 /\ Exceeds(PerTradeRisk(p), EffectiveRiskPct(cfg), ps.equity)
      [] limit = "GrossLeverage"    ->
            cfg.leverage > 0 /\ Exceeds(GrossAfter(p, ps), cfg.leverage, ps.equity)
      [] limit = "TotalExposure"    ->
            cfg.totalExposure > 0 /\ GrossAfter(p, ps) > cfg.totalExposure
      [] limit = "Concentration"    ->
            /\ cfg.concentrationPct > 0
            /\ Exceeds(SymbolExposureAfter(p, ps), cfg.concentrationPct, ps.equity)
      [] limit = "MaxOpenPositions" ->
            cfg.maxOpen > 0 /\ ~Held(ps, p.sym) /\ CountOpen(ps) + 1 > cfg.maxOpen

(* CheckOrder: the first control that trips, or "None" for an approval. *)
CheckOrder(cfg, p, ps) ==
    LET tripped == {i \in DOMAIN LimitNames : Trips(LimitNames[i], cfg, p, ps)}
    IN  IF tripped = {} THEN "None" ELSE LimitNames[Min(tripped)]

-----------------------------------------------------------------------------
(* trader.go: the money at risk, and whether it fits the automatic band.   *)
RiskAmount(p) == IF p.stop <= 0 THEN 0 ELSE PerTradeRisk(p)

WithinBand(band, p) ==
    /\ band.maxRisk > 0 => RiskAmount(p) <= band.maxRisk
    /\ band.maxNotional > 0 => p.qty * p.entry <= band.maxNotional
=============================================================================
