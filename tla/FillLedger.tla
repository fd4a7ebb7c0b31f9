----------------------------- MODULE FillLedger -----------------------------
(***************************************************************************)
(* Where the daily-loss breaker gets its number from: the venue's fill     *)
(* stream, read in pages (internal/brokers/alpaca), is applied fill by     *)
(* fill to FIFO lots (internal/ledger), and every fill is committed with   *)
(* its profit or loss, the lots and the read cursor in one transaction     *)
(* (internal/memory/store.go).  The first boot seeds the lots from the     *)
(* venue's positions instead (cmd/bucks/live_loop.go).  The venue goes on  *)
(* filling orders meanwhile, reads and commits fail, the process dies.     *)
(*                                                                         *)
(* A lot of n units is n entries of a sequence of entry prices.  One tick  *)
(* of venue time is the nanosecond of queryAfter.  A failed commit is      *)
(* rolled back.  The venue appends fills in the order of their times.      *)
(***************************************************************************)
EXTENDS Integers, SequencesExt

CONSTANTS
    Symbols,
    Price,          \* Price[i] is the price of the venue's i-th fill
    Executions,     \* Executions[i] is the set of the [side, qty] it may be
    ActivityId,     \* ActivityId[i] is its id, which says nothing of the log's order
    PageSize,       \* fillPageSize
    MaxPages,       \* fillMaxPages
    MaxCrashes      \* bound: crashes; MaxFills is the bound on fills

MaxFills == Len(Price)

ASSUME SymbolAssumption == IsFiniteSet(Symbols)
ASSUME PageAssumption == PageSize \in Nat \ {0} /\ MaxPages \in Nat \ {0}
ASSUME FillAssumption == /\ Price \in Seq(Nat \ {0})
                         /\ Executions \in [1..MaxFills ->
                              SUBSET [side : {"Buy", "Sell"}, qty : Nat \ {0}]]
                         /\ ActivityId \in [1..MaxFills -> Nat]
                         /\ IsInjective(ActivityId)
ASSUME BoundAssumption == MaxCrashes \in Nat

VARIABLES
    fills,          \* the venue's activity log; a fill's id is its index
    pc,             \* boot: "load", "positions", "seed", "save"; loop: "idle", "read",
                    \* "apply"; "stopped": the loop was not started; "down": no process
    lots,           \* the Accountant: symbol -> [dir, units]
    after,          \* the reconciler's cursor
    page, pages,    \* the pager: its After cursor and the requests made
    got,            \* ids read and not applied yet
    store,          \* the database: [booted, cursor, basis, seen, booked]
    crashes,
    held,           \* history: fills at the venue when its positions were read
    readAt,         \* history: fills at the venue when the last page was read
    seeded,         \* history: [fills, held, lots] of the seed in the database
    applied,        \* history: ids in the order they were booked
    cuts            \* history: the fills at which a full page ended

venue   == <<fills, readAt>>
memory  == <<lots, after>>
pager   == <<page, pages, got, cuts>>
durable == <<store, seeded, applied>>
vars == <<venue, pc, memory, pager, durable, crashes, held>>

Flat == [dir |-> 0, units |-> <<>>]
Units(n, px) == [i \in 1..n |-> px]
NoLots == [s \in Symbols |-> Flat]

Init == /\ fills = <<>> /\ readAt = 0 /\ held = 0
        /\ pc = "load"
        /\ lots = NoLots /\ after = 0
        /\ page = 0 /\ pages = 0 /\ got = {} /\ cuts = {}
        /\ store = [booted |-> FALSE, cursor |-> 0, basis |-> NoLots, seen |-> {}, booked |-> 0]
        /\ seeded = [fills |-> {}, held |-> 0, lots |-> NoLots]
        /\ applied = <<>>
        /\ crashes = 0

-----------------------------------------------------------------------------
(* Accountant.Apply: open, extend, or take from the oldest units first and  *)
(* flip with what is left of the fill.                                      *)
Dir(f) == IF f.side = "Buy" THEN 1 ELSE -1

Taken(p, f) == IF p.dir = -Dir(f) THEN Min({f.qty, Len(p.units)}) ELSE 0

Gain(p, f) == p.dir * SumFunction([i \in 1..Taken(p, f) |-> f.px - p.units[i]])

BugRest(p, f) ==                    \* mutant: the newest units are taken first
    SubSeq(p.units, 1, Len(p.units) - Taken(p, f))
Rest(p, f) == SubSeq(p.units, Taken(p, f) + 1, Len(p.units))

Applied(p, f) ==
    LET units == Rest(p, f) \o Units(f.qty - Taken(p, f), f.px)
    IN  [dir   |-> IF units = <<>> THEN 0 ELSE IF Taken(p, f) = f.qty THEN p.dir ELSE Dir(f),
         units |-> units]

-----------------------------------------------------------------------------
(* fetchFillsSince: one request.  The venue answers with the oldest fills   *)
(* after the cursor; a full page moves the cursor to its last time.         *)
LastTime == IF fills = <<>> THEN 1 ELSE fills[Len(fills)].at
Beyond(time) == {i \in DOMAIN fills : fills[i].at > time}

Oldest(body) == /\ \A i \in body, j \in Beyond(page) \ body : i < j
                /\ body = Beyond(page) \/ Cardinality(body) = PageSize
                /\ Cardinality(body) <= PageSize

StartRead(from) == page' = from /\ pages' = 0 /\ got' = {}

LastPage(body, next) ==
    /\ body = Beyond(page) /\ Cardinality(body) < PageSize
    /\ got' = got \cup body
    /\ page' = 0 /\ pages' = 0
    /\ pc' = next
    /\ readAt' = Len(fills)
    /\ UNCHANGED cuts

TurnPage(body) ==
    /\ Cardinality(body) = PageSize
    /\ pages + 1 < MaxPages
    /\ got' = got \cup body
    /\ \E last \in body : /\ \A i \in body : i <= last
                          /\ page' = fills[last].at
                          /\ cuts' = cuts \cup {last}
    /\ pages' = pages + 1
    /\ UNCHANGED <<pc, readAt>>

(* An error of the request, or the backlog is longer than MaxPages. *)
ReadFails(next) == pc' = next /\ StartRead(0) /\ UNCHANGED <<cuts, readAt>>

ReadPage(ok, failed) ==
    /\ \/ \E body \in SUBSET Beyond(page) : Oldest(body) /\ (LastPage(body, ok) \/ TurnPage(body))
       \/ ReadFails(failed)
    /\ UNCHANGED <<fills, memory, durable, crashes, held>>

-----------------------------------------------------------------------------
(* Boot: seedLedgerFromBrokerAt.  Any failure leaves the loop not started.  *)
LoadState ==
    /\ pc = "load"
    /\ \/ /\ store.booted
          /\ lots' = store.basis
          /\ after' = store.cursor
          /\ pc' = "idle"
       \/ ~store.booted /\ pc' = "positions" /\ UNCHANGED memory
       \/ pc' = "stopped" /\ UNCHANGED memory
    /\ UNCHANGED <<venue, pager, durable, crashes, held>>

Signed(i) == Dir(fills[i]) * fills[i].qty
Net(s, ids) == MapThenSumSet(Signed, {i \in ids : fills[i].sym = s})
Sign(n) == IF n = 0 THEN 0 ELSE IF n > 0 THEN 1 ELSE -1
Magnitude(n) == IF n < 0 THEN -n ELSE n

(* Broker.Positions and Seed: one lot at the venue's average entry.  The    *)
(* average is the venue's; its last price stands for it.                    *)
SeedPosition(s) ==
    LET qty == Net(s, DOMAIN fills)
    IN  [dir |-> Sign(qty), units |-> Units(Magnitude(qty), Price[Len(fills)])]

ReadPositions ==
    /\ pc = "positions"
    /\ \/ /\ lots' = [s \in Symbols |-> SeedPosition(s)]
          /\ held' = Len(fills)
          /\ StartRead(0)
          /\ pc' = "seed"
       \/ pc' = "stopped" /\ UNCHANGED <<lots, held, page, pages, got>>
    /\ UNCHANGED <<venue, after, cuts, durable, crashes>>

ReadSeedFills == pc = "seed" /\ ReadPage("save", "stopped")

(* The latest time among the seed's fills, or the epoch. *)
SeedCursor(t) == /\ t \in {fills[i].at : i \in got} \cup {0}
                 /\ \A i \in got : fills[i].at <= t

SaveSeedState ==
    /\ pc = "save"
    /\ \/ /\ \E t \in 0..LastTime : SeedCursor(t) /\ after' = t
          /\ store' = [store EXCEPT !.booted = TRUE, !.cursor = after', !.basis = lots,
                                    !.seen = @ \cup got]
          /\ seeded' = [fills |-> got, held |-> held, lots |-> lots]
          /\ pc' = "idle"
       \/ pc' = "stopped" /\ UNCHANGED <<store, after, seeded>>
    /\ got' = {} /\ held' = 0
    /\ UNCHANGED <<venue, lots, page, pages, cuts, applied, crashes>>

-----------------------------------------------------------------------------
(* Reconcile, once per tick. *)
BugQueryAfter == after              \* mutant: no overlap with the cursor's own time
QueryAfter == after - 1

StartReconcile ==
    /\ pc = "idle"
    /\ StartRead(QueryAfter)
    /\ pc' = "read"
    /\ UNCHANGED <<venue, memory, cuts, durable, crashes, held>>

ReadFills == pc = "read" /\ ReadPage("apply", "idle")

BugNextCursor(i) == fills[i].at + 1 \* mutant: past the fill's own time
NextCursor(i) == IF fills[i].at > after THEN fills[i].at ELSE after

(* By time, then by activity id. *)
IsBefore(i, j) == \/ fills[i].at < fills[j].at
                  \/ fills[i].at = fills[j].at /\ ActivityId[i] < ActivityId[j]

IsNext(i) == i \in got /\ \A j \in got \ {i} : IsBefore(i, j)

SkipSeen(i) ==
    /\ i \in store.seen
    /\ store' = IF NextCursor(i) = after THEN store
                ELSE [store EXCEPT !.cursor = NextCursor(i), !.basis = lots]
    /\ after' = NextCursor(i)
    /\ got' = got \ {i}
    /\ UNCHANGED <<pc, lots, applied>>

LotsAfter(i) == [lots EXCEPT ![fills[i].sym] = Applied(@, fills[i])]

BugBasisSaved(i) == lots            \* mutant: the basis is saved as it was before the fill
BasisSaved(i) == LotsAfter(i)

Book(i) ==
    /\ i \notin store.seen
    /\ lots' = LotsAfter(i)
    /\ after' = NextCursor(i)
    /\ store' = [store EXCEPT !.cursor = NextCursor(i), !.basis = BasisSaved(i),
                              !.seen = @ \cup {i},
                              !.booked = @ + Gain(lots[fills[i].sym], fills[i])]
    /\ got' = got \ {i}
    /\ applied' = Append(applied, i)
    /\ UNCHANGED pc

BugUndone(i) == LotsAfter(i)        \* mutant: the lots keep a fill that was not stored
Undone(i) == lots

(* A store call fails, or the lots do not encode: the lots are restored and *)
(* the tick is skipped.                                                     *)
StoreFails(i) ==
    /\ pc' = "idle"
    /\ lots' = IF i \in store.seen THEN lots ELSE Undone(i)
    /\ got' = {}
    /\ UNCHANGED <<after, store, applied>>

Apply(i) ==
    /\ pc = "apply"
    /\ IsNext(i)
    /\ SkipSeen(i) \/ Book(i) \/ StoreFails(i)
    /\ UNCHANGED <<venue, page, pages, cuts, seeded, crashes, held>>

ApplyFill == \E i \in got : Apply(i)

(* Reconcile returns nil: the tick goes on with the figure just booked. *)
Reconciled ==
    /\ pc = "apply" /\ got = {}
    /\ pc' = "idle"
    /\ readAt' = 0
    /\ UNCHANGED <<fills, memory, pager, durable, crashes, held>>

-----------------------------------------------------------------------------
(* The venue, and the process. *)
VenueFills ==
    /\ Len(fills) < MaxFills
    /\ \E s \in Symbols, done \in Executions[Len(fills) + 1],
          at \in {LastTime, LastTime + 1} :
           /\ fills = <<>> => at = LastTime
           /\ fills' = Append(fills, [sym |-> s, side |-> done.side, qty |-> done.qty,
                                      at |-> at, px |-> Price[Len(fills) + 1]])
    /\ UNCHANGED <<readAt, pc, memory, pager, durable, crashes, held>>

Forget == lots' = NoLots /\ after' = 0 /\ StartRead(0) /\ readAt' = 0 /\ held' = 0

Crash ==
    /\ pc # "down" /\ crashes < MaxCrashes
    /\ pc' = "down"
    /\ crashes' = crashes + 1
    /\ Forget
    /\ UNCHANGED <<fills, cuts, durable>>

(* A new process: after a crash, or by an owner who was told that the loop  *)
(* was not started.                                                         *)
Boot == /\ pc \in {"down", "stopped"}
        /\ pc' = "load"
        /\ Forget
        /\ UNCHANGED <<fills, cuts, durable, crashes>>

BootStep == LoadState \/ ReadPositions \/ ReadSeedFills \/ SaveSeedState
LoopStep == StartReconcile \/ ReadFills \/ ApplyFill \/ Reconciled

Next == BootStep \/ LoopStep \/ VenueFills \/ Crash \/ Boot

Spec == Init /\ [][Next]_vars

(* The ticker fires; a request for a given page, and the commit of a given  *)
(* fill, that are tried again and again succeed in the end.  A loop that    *)
(* was not started stays so.                                                *)
FairSpec == /\ Spec
            /\ WF_vars(LoopStep)
            /\ \A n \in 0..MaxPages-1 : SF_vars(ReadFills /\ pages = n /\ pc' # "idle")
            /\ \A i \in 1..MaxFills : SF_vars(i \in got /\ Apply(i) /\ pc' # "idle")

-----------------------------------------------------------------------------
Ids == DOMAIN fills

TypeOK ==
    /\ fills \in Seq([sym : Symbols, side : {"Buy", "Sell"}, qty : Nat \ {0},
                      at : Nat, px : Nat])
    /\ pc \in {"load", "positions", "seed", "save", "idle", "read", "apply", "stopped", "down"}
    /\ lots \in [Symbols -> [dir : {-1, 0, 1}, units : Seq(Nat)]]
    /\ \A s \in Symbols : lots[s].dir = 0 <=> lots[s].units = <<>>
    /\ after \in Nat /\ page \in Int /\ pages \in Nat
    /\ got \subseteq Ids
    /\ store.booted \in BOOLEAN /\ store.cursor \in Nat /\ store.booked \in Int
    /\ store.seen \subseteq Ids
    /\ applied \in Seq(Ids)
    /\ cuts \subseteq Ids

Running == pc \in {"idle", "read", "apply"}

(***************************************************************************)
(* Between two fills the loop's lots and cursor are exactly what a restart *)
(* would reload, also after a commit that failed.                          *)
(***************************************************************************)
MemoryMatchesStore == Running => lots = store.basis /\ after = store.cursor

Booked == ToSet(applied)
CashOf(i) == -Signed(i) * fills[i].px
Cost(book) == LET cost(s) == book[s].dir * SumFunction(book[s].units)
              IN  MapThenSumSet(cost, Symbols)

(* Every unit entered in direction d, oldest first. *)
Entered(s, d) ==
    LET upTo[n \in 0..Len(applied)] ==
            IF n = 0 THEN IF seeded.lots[s].dir = d THEN seeded.lots[s].units ELSE <<>>
            ELSE LET f == fills[applied[n]]
                 IN  IF f.sym = s /\ Dir(f) = d THEN upTo[n - 1] \o Units(f.qty, f.px)
                     ELSE upTo[n - 1]
    IN  upTo[Len(applied)]

FirstInFirstOut == \A s \in Symbols :
    IsSuffix(store.basis[s].units, Entered(s, store.basis[s].dir))

(***************************************************************************)
(* Nothing is booked twice and no loss disappears, however crashes and     *)
(* failed commits fall: the booked profit is the cash the booked fills     *)
(* brought in, plus what the open lots cost, less what the seed cost; and  *)
(* the open lots are the last units entered in the position's direction,   *)
(* so the profit is the first-in-first-out one.                            *)
(***************************************************************************)
BooksBalance ==
    /\ IsInjective(applied)
    /\ store.booked = MapThenSumSet(CashOf, Booked) + Cost(store.basis) - Cost(seeded.lots)
    /\ FirstInFirstOut

(***************************************************************************)
(* A full page ended at an earlier fill of the same time, so that the next *)
(* request, which asks for later times, left this one out.                 *)
(***************************************************************************)
CutOff(i) == \E j \in cuts : j < i /\ fills[j].at = fills[i].at

(***************************************************************************)
(* The cursor never runs past a fill that is not in the database, unless a *)
(* page of the stream ended between two fills of that very time.           *)
(***************************************************************************)
OnlyCutFillsAreSkipped ==
    \A i \in Ids : fills[i].at < store.cursor => i \in store.seen \/ CutOff(i)

(* The venue's fills, when the last page was read, that are not stored. *)
Missed == (1..readAt) \ store.seen

(* What the seed's two reads, of the positions and of the fills, disagree by. *)
SeedError(s) == Net(s, 1..seeded.held) - Net(s, seeded.fills)

(***************************************************************************)
(* After a reconciliation that returned nil the lots add up to the         *)
(* position the venue had when the last page was read, but for the fills a *)
(* page boundary cut off from another fill of their time, and but for what *)
(* the two reads of the seed disagreed by; that error never grows, and     *)
(* nothing else ever comes between the books and the venue.                *)
(***************************************************************************)
LotsMatchVenue ==
    pc = "apply" /\ got = {} =>
        /\ \A i \in Missed : CutOff(i)
        /\ \A s \in Symbols : lots[s].dir * Len(lots[s].units)
                                 = Net(s, (1..readAt) \ Missed) + SeedError(s)

(* The unread fills fill every page a read may ask for: it fails for ever. *)
BacklogTooLong == Cardinality(Beyond(QueryAfter)) >= PageSize * MaxPages

(***************************************************************************)
(* Every fill reaches the database in the end, also one of a time when no  *)
(* process ran, if a loop runs on, the backlog stays within the page limit *)
(* and no page boundary cut this fill off from another one of its time.    *)
(***************************************************************************)
EveryFillCounted ==
    \A i \in 1..MaxFills :
        (i \in Ids /\ Running)
            ~> (i \in store.seen \/ (i \in Ids /\ CutOff(i)) \/ BacklogTooLong \/ ~Running)

=============================================================================
