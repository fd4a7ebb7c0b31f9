------------------------------ MODULE RiskBook ------------------------------
(***************************************************************************)
(* The risk engine in front of a book: a proposal CheckOrder approves is   *)
(* filled at its entry price before the next proposal is judged, equity    *)
(* moves, losses are realized.  The engine projects what an order would do *)
(* to the exposure; here the fill really happens, netted by the venue, and *)
(* the projection is held against the book that results.                   *)
(***************************************************************************)
EXTENDS RiskEngine

CONSTANTS
    Symbols,
    Limits,         \* the risk.Config the engine is built from
    Quantities,     \* order sizes proposed
    Prices,         \* entry and stop prices proposed
    Equities,       \* account equities the venue may report
    Realizeds,      \* today's realized P&L, negative for a loss
    MaxHeld         \* bound: units held of one symbol

VARIABLES
    positions,      \* open symbols -> [qty, mark], as the venue lists them
    equity,
    realized

vars == <<positions, equity, realized>>

Proposals == [sym : Symbols, side : {"Buy", "Sell"}, qty : Quantities,
              entry : Prices, stop : Prices \cup {0}]

(* buildPortfolioState: positions are marked at their average entry. *)
Snapshot == [equity |-> equity, realized |-> realized, positions |-> positions]

Signed(p) == IF p.side = "Buy" THEN p.qty ELSE -p.qty

(* The netted position after a fill, its mark the venue's average entry. *)
Netted(p) ==
    LET held  == QtyHeld(Snapshot, p.sym)
        after == held + Signed(p)
        mark  == IF Held(Snapshot, p.sym) THEN positions[p.sym].mark ELSE 0
    IN  [qty  |-> after,
         mark |-> CASE held * Signed(p) >= 0 ->
                           (Magnitude(held) * mark + p.qty * p.entry) \div Magnitude(after)
                    [] held * Signed(p) < 0 /\ held * after > 0 -> mark
                    [] held * Signed(p) < 0 /\ held * after <= 0 -> p.entry]

(* Averages that are whole: the other ones need a finer scale, no other case. *)
WholeFill(p) ==
    LET held == QtyHeld(Snapshot, p.sym)
    IN  held * Signed(p) > 0 =>
            (Magnitude(held) * positions[p.sym].mark + p.qty * p.entry)
                % (Magnitude(held) + p.qty) = 0

FilledBook(p) ==
    LET open == {s \in DOMAIN positions \cup {p.sym} : s # p.sym \/ Netted(p).qty # 0}
    IN  [s \in open |-> IF s = p.sym THEN Netted(p) ELSE positions[s]]

Init == /\ positions = [s \in {} |-> 0]
        /\ equity \in Equities
        /\ realized = 0

Fill(p) == /\ CheckOrder(Limits, p, Snapshot) = "None"
           /\ WholeFill(p)
           /\ Magnitude(Netted(p).qty) <= MaxHeld
           /\ positions' = FilledBook(p)
           /\ UNCHANGED <<equity, realized>>

EquityMoves == /\ equity' \in Equities
               /\ UNCHANGED <<positions, realized>>

Realizes == /\ realized' \in Realizeds
            /\ UNCHANGED <<positions, equity>>

Next == \/ \E p \in Proposals : Fill(p)
        \/ EquityMoves
        \/ Realizes

Spec == Init /\ [][Next]_vars

-----------------------------------------------------------------------------
TypeOK == /\ DOMAIN positions \subseteq Symbols
          /\ \A s \in DOMAIN positions : /\ positions[s].qty \in Int \ {0}
                                         /\ positions[s].mark \in Prices
          /\ equity \in Equities
          /\ realized \in Realizeds \cup {0}

Value(book, s) == Magnitude(book[s].qty) * book[s].mark
GrossOf(book) == MapThenSumSet(LAMBDA s : Value(book, s), DOMAIN book)

(* What the fill would lose if the stop were hit at its price. *)
LossAtStop(p) == IF p.side = "Buy" THEN p.qty * (p.entry - p.stop)
                                   ELSE p.qty * (p.stop - p.entry)

(* The limits as the owner states them, on the book the fill leaves. *)
FillRespectsLimits(p) ==
    LET book == FilledBook(p)
    IN  /\ p.stop # 0 /\ LossAtStop(p) > 0
        /\ LossAtStop(p) * 1000 <= equity * Min({Limits.riskPct, 20})
        /\ -realized * 1000 < Limits.dailyLossPct * equity
        /\ GrossOf(book) * 1000 <= Limits.leverage * equity
        /\ p.sym \in DOMAIN book =>
               Value(book, p.sym) * 1000 <= Limits.concentrationPct * equity
        /\ p.sym \notin DOMAIN positions => Cardinality(DOMAIN book) <= Limits.maxOpen

(***************************************************************************)
(* The gate is exact: it approves an order if and only if the book after   *)
(* the fill respects every limit, for additions, exits and flips alike and *)
(* whatever orders built the book.                                         *)
(***************************************************************************)
VerdictIsExact ==
    \A p \in Proposals :
        WholeFill(p) => (CheckOrder(Limits, p, Snapshot) = "None" <=> FillRespectsLimits(p))

(***************************************************************************)
(* A rejected order stays rejected when the only change is that the        *)
(* account is poorer or has lost more today: no limit reopens by losing.   *)
(***************************************************************************)
LosingReopensNothing ==
    \A p \in Proposals, e \in Equities, r \in Realizeds :
        LET worse == [Snapshot EXCEPT !.equity = e, !.realized = r]
        IN  e <= equity /\ r <= realized /\ CheckOrder(Limits, p, worse) = "None"
                => CheckOrder(Limits, p, Snapshot) = "None"
=============================================================================
