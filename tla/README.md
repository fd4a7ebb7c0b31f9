# BUCKS: a TLA+ model of the trading program

BUCKS is a trading program written in Go. A daemon trades on a playbook in one
goroutine and listens to the operator on Telegram in another; a dashboard may
be opened beside it; a few small files and one SQLite database are all that
outlives a process. This directory models the parts on which money depends
(kill switch, risk engine, trade loop, gateway, ledger, order journal) and the parts
around them that have state of their own: market data, supervision, alerts,
setup, self-update, chat, memory, backtest. TLC checks them on small instances,
and TLAPS proves nearly all of their safety properties for every instance.

Paths below are relative to `src/`. `PROJECT.json` holds the same information
for tools: components, runs, the source lines of every definition, hazards.

## 1. The system

    operator --Telegram--> gateway --/halt,/resume--> kill switch <--file--> disk
                             |  ^ keyboards, taps          ^
                             v  |                          | IsHalted, Halt
     venue --fills--> ledger -> account source -> decider -> trade loop --orders--> venue
                        |                                      |        \
                      SQLite                              risk engine    alerts --quiet hours--> Telegram

    owner --keys--> wizard -> setup (keychain or secrets file, bucks.yaml) -> next launch
          --lines--> chat -> language models        trades -> memory facade -> SQLite, then linked notes
    feeds -> order book, event kernel -> handlers   supervisor runs feeds and the channel
    releases -> updater -> the executable           bars -> strategy -> backtester

| Part | State it keeps | Operations | Lives on |
|---|---|---|---|
| Kill switch, `internal/risk/killswitch.go` | status, reason, order times; a JSON file | `Open`, `Halt`, `Clear`, `IsHalted`, `RecordOrder` | the file; the order times in memory only |
| Risk engine, `internal/risk/engine.go` | none | `CheckOrder`, `CheckDailyLoss`, `CheckDrawdown`, exposure and concentration checks | - |
| Rate limiter, `internal/risk/ratelimit.go` | tokens, time of the last refill | `Allow`, `Tokens`, `Delay` | memory; no command uses it yet |
| Trade loop, `internal/harness` | equity peak, latches, decider's sequence and rotation | `Tick`, `Heartbeat`, `MaybeReport`, `Run` | memory only |
| Account source and decider, `cmd/bucks/live_source.go`, `playbook_strategy.go` | intent sequence, symbol index | one snapshot and at most one proposal per tick | memory only |
| Alerts, `internal/channel` | the loop's latches | alerts by level, quiet hours, approvals | memory only |
| Operator gateway, `internal/gateway` | offset, trusted chat, pending approvals, token counter | long poll, dispatch, commands, `Request`/`Handle` of approvals | offset file, trust file |
| Fill ledger, `internal/ledger`, `internal/memory/store.go` | FIFO lots, cursor, seen fill ids, booked profit | seed, `Reconcile`, `Apply`, `RememberBrokerFill` | SQLite |
| Orders and journal, `internal/orders`, `brokers/reconcile.go` | order states; a JSON-lines file | append, `Replay`, `ReconcileOnBoot` | the file; no command opens one yet |
| Playbook, `internal/playbook` | knobs of one playbook | intake, derived risk limits, order size | `bucks.yaml` |
| Order book, `internal/data/book.go` | levels, last update id, buffer | snapshot, delta, gap recovery, reconnect | memory |
| Event kernel, `internal/kernel` | queue, subscribers, logical clock, quote cache | `Publish`, drain, `Subscribe`, `Submit` of `kernel.go` | memory |
| Supervisor, `internal/supervisor` | restarts and backoff per component | `Supervise`, `SuperviseAll` | memory |
| Setup, `cmd/bucks/boot.go`, `internal/secrets`, `internal/tui/wizard.go` | answers; secrets and config | the wizard's keys, `SaveSetup`, `LoadSetup`, passphrase prompt | keychain or `secrets.age`, `bucks.yaml` |
| Updater, `internal/updater` | none of its own | check, consent, download, verify, swap | the executable |
| Chat, `internal/chat`, `tui/dashboard.go` | bounded history, transcript | `Say`, failover, delivery | memory |
| Memory, `internal/memory/obsidian.go` | rows, notes and backlinks | `RememberTrade`, `RememberMarket`, `Forget` | SQLite and Markdown files |
| Backtest, `internal/backtest`, `internal/strategy` | position, pending fills, equity curve | one pass over the bars | memory |

What is hard about each, and what makes it correct:

- **Kill switch.** Two goroutines call it while its file is replaced by write,
  fsync, rename, fsync; each of these can fail, and the process or the machine can stop
  between any two. Correct: it behaves as one durable register whose value only
  a Clear lowers, an acknowledged halt is not lost, and the runaway guard counts
  every order of the process.
- **Risk engine, playbook.** Signed positions, orders that reduce, close or flip,
  equity that falls; three tables written apart; quotients in a fixed number of digits.
  Correct: an approval says exactly that the book after the fill respects the
  limits, and the tables leave room for an order.
- **Trade loop and alerts.** The loop reads the account, thinks, asks the operator and only then
  places; everything may change meanwhile. Correct: nothing leaves ungated, a
  halt stops trading within one order and is announced, and no iteration hangs.
- **Gateway.** At-least-once delivery, a batch handled before its offset is
  saved, taps that race timeouts, waiters that vanish, restarts, a second
  process on the same bot. Correct: no command is lost, the last command wins,
  an approval comes from its own keyboard.
- **Ledger.** Fills come in pages with equal times, while seeding, between
  crashes and failed commits. Correct: every fill is booked once, the books
  balance, and lots agree with the venue.
- **Orders and journal.** A write or an fsync fails half way, a crash cuts the file,
  the venue goes on meanwhile. Correct: nothing is sent before its intent is
  durable, nothing acknowledged is lost, and the journal can be read again.
- **Market data.** Updates are lost, repeated, reordered and coalesced; snapshots
  lag; handlers publish and subscribe from within a dispatch. Correct: the book
  is the venue's, gaps are announced, events are handled in their order.
- **Supervisor, rate limiter.** Components that fail, cancellation in the middle
  of a backoff, a clock that jumps. Correct: bounded restarts that end, bounded rates.
- **Setup, updater.** Several files and a keychain written one after another; kills
  and full disks between. Correct: one setup is never mixed with another, an
  executable is always there and is the one agreed to.
- **Chat, memory.** Calls that overlap without a lock, or under one; a failure half way.
  Correct: the history alternates, what was recorded is linked.
- **Backtest.** Strategy and engine keep two ideas of one position. Correct: they agree.

The hazards these come from, each at its line, are listed in `PROJECT.json`.

## 2. Modules

| Module | Models | Uses |
|---|---|---|
| `DurableSwitch` | the abstract promise of the kill switch: one durable status changed atomically by calls | - |
| `KillSwitch` | `killswitch.go`, step by step | `DurableSwitch` as a refinement target |
| `RiskEngine` | `engine.go` as operators on integers, no state | - |
| `RiskBook` | an account that fills what the engine lets through | `RiskEngine` |
| `PlaybookSizing` | playbook knobs, the limits and the order derived from them | `RiskEngine` |
| `SizeRounding` | the decimal quotient of the order size against the engine's product | - |
| `TradeLoop` | `harness` with source, decider, operator, venue, restarts | `RiskEngine` |
| `OperatorAlerts` | the loop's halt and loss alerts through quiet hours and a transport that fails | - |
| `OperatorGateway` | `gateway` as `daemon.go` wires it, Telegram, approvals | - |
| `TwoProcesses` | the dashboard's gateway beside the daemon's, over the same files and bot | - |
| `FillLedger` | seed, reconcile, lots, store, the adapter's pager, the venue | - |
| `OrderJournal` | order states, journal, replay, boot reconciliation, the venue | - |
| `BookFeed` | the sequenced order book with its gap recovery | - |
| `EventKernel` | bus, logical clock, cache, and the ingestor in front of them | - |
| `Supervisor` | `Supervise` and `SuperviseAll` | - |
| `RateLimiter` | token bucket and backoff | - |
| `Wizard` | the first-run wizard as a machine over lines and Esc | - |
| `Setup` | what a setup stores, and what the next launch opens | - |
| `Updater` | releases, downloads and the swap, on both platforms | - |
| `ChatSession` | overlapping `Say` calls on one history | - |
| `MemoryVault` | rows, notes and backlinks of goroutines that remember at once | - |
| `Backtest` | indicators, strategies, fill models, equity curve | - |
| `Desk` | the parts that calculate, one run | `PlaybookSizing`, `RiskBook`, `SizeRounding`, `RateLimiter`, `OperatorAlerts`, `Backtest` |
| `Services` | the parts around the desk, one run | `Setup`, `EventKernel`, `BookFeed`, `Supervisor`, `Wizard`, `Updater`, `ChatSession`, `MemoryVault` |
| `MCTradeLoop`, `MCFillLedger`, `MCDesk` | constants a `.cfg` cannot write: records, functions, negative numbers | the module they instantiate |
| `KillSwitch_proofs`, `TradeLoop_proofs`, `FillLedger_proofs`, `OrderJournal_proofs`, `OperatorGateway_proofs`, `Services_proofs`, `Desk_proofs` | theorems | the module they are about, `Inductions` |
| `Inductions` | lemmas: induction and recursion over numbers, finite sums, sequences cut and joined | - |

`Desk` and `Services` put parts side by side that share no state in the program. A
variable `part` says which of them an execution is about; that part starts in
its own `Init` and takes its own `Next`, and the variables of all others keep
one fixed value. Their product would only multiply independent states, so
nothing is lost and each property is checked on exactly its part's behaviours.
Where parts do interact in the program they are in one module: the loop with the
engine, the switch and the operator, the gateway with approvals, the
ledger with its store and pager, the ingestor with kernel and cache, the vault
with the store.

### How state and actions correspond to the code

**KillSwitch.** `mem` is the state behind the mutex, `holder` the mutex, `disk`
the file that a path lookup finds, and beside it the version a power loss would
leave. Each caller has a program counter, and one action stands for each step
of `persistStateLocked` between which a crash matters. `IsHalted` reads the
flag under the mutex and asks the broker layer outside it, so it is two steps.
`RecordOrder` prunes its window and trips in the same critical section.
`ProcessCrash` drops memory and callers, the list of order times with them; `PowerLoss`
also reverts what was not flushed; `Open` loads the file. History variables record what
has been acknowledged and which orders the guard let through, each with the list that
counted it: a restart and a Clear start an empty one.

**RiskEngine** holds amounts as integers and percentages in thousandths; a
comparison of quotients is a comparison of products. `CheckOrder` returns the
first limit that fails, in the order of the code. **RiskBook** adds an account:
an approved order may fill, the equity, the marks and the realized profit may
move. **SizeRounding** computes the quotient of `riskSizedQty` in decimals of a
few digits, rounded half to even as the decimal library does, and gives it to
the engine's check of the same budget.

**TradeLoop.** `pc` walks through one iteration: `next` (source and decider),
`tick` (drawdown), `gate` (switch, daily loss, market hours, engine, band), `ask` and
`wait` (approval), `place`, `beat`, `pulse`. The operator, the market and the
venue act at any point. `orders` are what the venue knows by client order id,
and a repeated id is answered with the order it already has. `Crash` clears
memory; the switch's status survives, as `DurableSwitch` promises.
**OperatorAlerts** keeps the same gates and adds the two latches, the hour and
an alert's three fates: delivered, failed, held.

**OperatorGateway.** The loop is `poll`, `handle`, `send`, `save`. `sent` is all
that was ever sent to the bot; Telegram deletes up to `confirmed` when a poll
asks for a later update. `Done` is what `safeHandle`'s return does to
offset and batch. A waiter registers a token, posts the keyboard, blocks,
and unregisters; its channel of capacity one is `answer`. Keyboards never leave
the chat. **TwoProcesses** has two such gateways, reduced to fetch, handle and
save, each with its own memory over one offset file and one switch file that
are read at start only.

**FillLedger.** `fills` is the venue's log. A boot without saved state reads
positions and then fills, in two steps; a pass reads page after page, orders
what it has by time and activity id, and applies one fill per step in one transaction. `cuts` are the
fills at which a full page ended; a fill is cut off (`CutOff`) when it has the time of such a
fill and comes behind it. A commit may fail, and the lots are put back.

**OrderJournal.** `lines` is the file up to its last newline, `torn` says that half
a line follows, `synced` how many lines are on stable storage, `broken` that the
`bufio.Writer` keeps an error. An append is two steps, `WriteLine` up to the
flush and then `Appended` or `SyncFails`. `mem` are the orders of the process.
A crash drops memory; a power loss also cuts the file behind `synced`.
`ReplayAndResolve` and `ComparePositions` are the two halves of
`ReconcileOnBoot`, between which the venue may move. Because no command appends to the journal
yet, the user is the one its comments describe: the intent before
the request, each event before it is applied, a failed append tried again, perhaps
after others. `appendRecord` checks nothing, so the user may also record the venue's news
twice or after the order is done; the order of the process refuses it then (`late`), and
the line is in the file.

**BookFeed.** `venue` is the venue's numbered history; a delta carries an update
and the id of the one before it, and may span two updates of one level. `Apply`
has the three ways of `GapRecoverer.Apply`: stale, fitting, gap. A resync takes a
snapshot as of any earlier update, replays the sorted buffer up to the first
gap and prunes it.

**EventKernel.** `frames` is the stack of drains that run, each with its event
and the handlers it still has to call; `dispatching` is the code's guard. `Ingest`
writes the cache and then submits. A handler may publish, submit or subscribe. A
time that goes back is the panic of `kernel.go`.

**Supervisor.** `at` is where each component's goroutine is: running, in
backoff, ended one way or another. Cancellation may come at any moment, and a select with two ready cases
takes either.

**RateLimiter.** Tokens are counted in units of one nanosecond's refill, so the bucket's
arithmetic is exact. The clock may stand, jump and go back; `last` only moves forward.

**Wizard.** One action per prompt and key, with nested prompts as flags, as in
`Update`. **Setup** is the sequence of `SaveSetup` and `LoadSetup`: keychain or
file, then the config created and written, each of which may fail or be cut by a
kill; the keychain comes and goes, and the owner may start over.

**Updater.** A build is published under a tag with its zip and its checksum;
tags move, assets are replaced. Each updater checks, shows the tag, resolves
it again, downloads, verifies and swaps: by one rename, or on Windows by two with a
restore. Two may run at once and each may be killed anywhere.

**ChatSession.** Each line's `Say` is steps of load and store on `turns`, a call
per backend, and a delivery; nothing orders the steps of two lines.

**MemoryVault.** A call inserts its row, writes its note, then reads and writes the
note of the symbol and of the setup under the vault's mutex. A write may fail or
be cut by a kill, which loses the note it was rewriting.

**Backtest.** A bar computes its indicators, gets the strategy's signal and fills,
at the close or at the next open; mean reversion's reading is free.

## 3. Runs

| Run | Question | Instance |
|---|---|---|
| `KillSwitchCrash` | Is the switch one durable register, with failing writes and process crashes (but no power loss)? Do all calls return? | 2 callers, 2 causes, failing flushes, any number of crashes |
| `KillSwitchPower` | Do the runaway guard's count and a committed halt hold with a clock, crashes and power losses? | 2 callers, window 2, 1 order allowed, clock up to 2, 3 recorded orders |
| `TradeLoop` | Are orders gated, halts obeyed, breaches acted on, iterations finite? | one symbol, three equities and zero, 2 proposals per process, 1 restart |
| `OperatorGateway` | Is anything missed, repeated, crossed or stuck? | 2 chats, 2 updates, 2 requests, 1 crash |
| `FillLedger` | Do memory, store and venue agree, do books balance, is every fill counted? | 1 symbol, four fills of one or two units, pages of two, 2 pages, 1 crash |
| `OrderJournal` | Is anything sent or acknowledged forgotten? What makes a replay fail, or a boot report a gap? | a buy and a sell of 2 units, 4 lines, torn writes, failing fsync, 1 crash |
| `Desk` | Is the engine's verdict exact? Which playbooks and sizes trade? Is pacing bounded, a halt announced, a backtest consistent? | engine: 3 symbols of which 2 are held, quantities 1..3, three prices; sizing: both sides of each boundary of the risk knob; rounding: 4 digits, 11 prices; limiter: burst 2, 5 calls, clock up to 4; alerts: 4 hours, 2 halts; backtest: 5 bars of two prices |
| `Services` | Do events, book, supervision, wizard, setup, update, chat and vault keep their promises? | kernel: 2 topics, 2 handlers, 3 events; book: 2 levels, 3 updates, buffer 2; supervisor: 2 components, 2 restarts; wizard: 4 Esc; setup: 2 setups, 2 passphrases; updater: 2 processes, 2 tags, 3 builds; chat: 2 backends, 3 lines of which 2 at once; vault: 2 goroutines, 2 memories |
| `TradeReusedId`, `GatewayToken`, `SetupOrphan`, `TwoProcesses` | disagreements 1, 2, 3 and 4 of section 6 | 1 restart; 1 crash; 2 setups; 3 commands and 2 orders |

**Why the bounds suffice.** Each was chosen so that the case it is about
occurs, and each property has a mutation of the code's model that the same
bounds expose. Two callers are enough for a race on one mutex. One restart is
enough for anything kept in memory to be forgotten and met again on disk; two
requests are enough for a token to be reused, two updates for a batch to be cut
by a crash. Four fills of one or two units (the first buys two, the second buys or sells one, the third
sells two, the last buys or sells two) extend, reduce, close and flip a
position. Pages of two let a page end inside a group of equal times, and every read begins with the
cursor's own fill again: with four fills, reads of a lone page, of a full page and a rest, and of
more than the two pages allowed all occur, and fills on both sides of a cut are counted, found
again or skipped. Four
journal lines hold an intent, a failed append, its retry and what follows, or a completing fill told twice;
a clock up to 2 lets a window of 2 expire, and three orders are one too many in it before and after a
restart;
`RecordedIsKept` looks at every prefix that a further power loss could leave. Two
proposals are enough for one to be past the gate when the halt comes and for
another to try to follow. Three updates with a buffer of two hold a gap, a late
delta and an overflow; three events hold one that is published inside another's
dispatch and one behind it; two setups are what can be mixed; three builds on two
tags are a release, its successor and a replacement under one tag. Three lines with
a history of three turns overflow it. The bounds on clocks, sequences, crashes,
requests and updates stand in guards of the actions and are named constants.

**Fairness.** `KillSwitch`: every caller inside a call goes on (goroutines are
scheduled and Go's mutex is starvation-free, hence strong fairness); nobody has to start a
call, and crashes are free. `TradeLoop`: the loop goroutine goes on, and a
pending approval ends by its timeout, because the code gives it a deadline; the
operator, the market and the venue owe nothing. `OperatorGateway`: the loop polls
on and handles, a poll tried again and again delivers in the end, a waiter
leaves at its deadline, and a crashed daemon is started again by its service
manager; nobody has to write to the bot or to tap. `FillLedger`: the loop reconciles again at each tick, and
strong fairness of each request of a read and of each fill's commit says that one which is tried
again and again succeeds in the end, which is what retrying relies on; it does not assume a restart.
`Supervisor` (in `Services`): each supervising goroutine goes on, a backoff's timer fires, a component
returns after its context is cancelled (its contract in `supervisor.go`), and the collector returns;
no component has to fail or to end otherwise. Crashes are bounded. All other
parts are checked for safety only and assume no fairness.

Deadlock checking is on in every run of the kill switch, loop, gateway and
ledger. `OrderJournal`'s process may have nothing left to record or wait for a
restart with a broken writer; parts of `Desk` and `Services`, `SetupOrphan` and
`TwoProcesses` may end (a finished wizard, an executed update, the last bar).

## 4. What is proved

Proofs hold for every value of the constants that satisfies the named
assumptions: any callers, any causes, any symbols, prices, page
sizes, batches, passphrases, and any number of crashes. Each theorem follows one pattern: the
property is seldom inductive, so an invariant that implies it is named in the proof
module, holds in `Init`, and is kept by every action, one lemma per action. TLC checked each
such invariant on its component's run before it was proved.

**Kill switch** (`KillSwitch_proofs`). `TypeCorrect` and `PersistBeforeCommit`
need no further assumption. `ReportedHaltSurvives`, `NoHaltIsMissed`, `OnlyClear`
and `ImplementsDurableSwitch` assume `~PowerLosses`: a power loss takes the file
back to its last flushed version, and a halt that returns early because another
one is in force flushes nothing. The invariant `IInv` adds to the types what each caller inside the mutex knows:
only the holder is between lock and unlock, the file differs from memory only
between the rename and the assignment, and what is being written is the
effect of the holder's own call. `AckInv` and `AnswerInv` then carry the history of
acknowledgements. The refinement maps the file (or memory, once written) to the
abstract status and shows each step to be an abstract step or a stutter.
`CommittedHaltOutlivesPower` does allow power losses and assumes `~SyncErrors`: the code ignores a
failed flush of the directory, and then a rename may be lost. `PlatterInv` says that while such a halt
is committed the file, the flushed version of it and the memory of a running switch are all halted. `RunawayIsBounded` allows crashes, power losses and failing writes: `GuardInv` says that the
pruned list still holds every order of its own that was let through and that a later window can count, and that no list has
let more than `MaxOrders` through any window so far. The bound is per list: the code keeps it in memory, so
a window with a restart or a Clear in it may hold `MaxOrders` orders for each list.

**Trade loop** (`TradeLoop_proofs`). `LeakBound` needs the invariant that
while an iteration is past the gate nothing has leaked yet in the present halt
and the loop has not halted itself: a leak takes the loop out of this region,
and the switch keeps it out until a resume. `OrdersAreGated` carries the facts established at the gate through the
wait for approval: the input and the decision do not change until the order is
placed.

**Operator gateway** (`OperatorGateway_proofs`). `NoUpdateLostOrRepeated` says
that whatever Telegram has deleted, or a restart would not ask for, was handled,
and that one process handles no update twice. That is not inductive: the
invariant adds that a batch begins right after what is covered (deleted or passed by
the offset) and has no hole, and that a process has handled only what its offset passed.
`LastWordIsObeyed` rests on `WordInv`: as long as no effect has failed, the status is what the commands say up to some
update that is neither behind the loop's position nor behind the saved offset. It must be *some* update:
after a crash the status is ahead of what will be handled again, and handling the commands again passes
through older words on the way to the last one. `ApprovalsNeverCross` rests on `ApprovalInv`: a keyboard of
the running process shows a token its counter has passed, and while that token is registered it stands for the keyboard's own
request; a waiter's request is registered and is its alone; and each decision, in a channel or returned, was tapped on a keyboard of its
own request or of an older process.

**Fill ledger** (`FillLedger_proofs`). The invariant `IInv` consists of the
order of the venue's log, the shape of a read (what has been read is an initial part
of what lies after the query's cursor, except for the cuts), and what an
application in progress still owes; `LogInv`, `ShapeInv`, `ReadInv` and `ApplyInv`
are its parts, and none of the theorems is inductive without them. `MemoryIsDurable` and `OnlyPageCutsSkip` are parts of it.
`BooksAlwaysBalance` and `LotsFollowVenue` are about sums over the booked fills: `BooksInv` says that the books
balance (`BalanceInv`), that a symbol's lots are the last of the units entered in their direction (`FifoInv`), and what the seed and the last page read have
counted (`SeedInv`, `PositionInv`, `ReadAtInv`). `LotsFollowVenue` has no premise about cuts or the seed: it says by how much
the lots may differ from the venue, namely by the fills a page cut off and by what the seed's two reads disagreed by. The steps are lemmas about one fill: what `Applied` makes of the lots when it
extends, reduces, closes or flips them, in units, cost and profit.

**Order journal** (`OrderJournal_proofs`). `SentOrdersAreDurable` rests on an
invariant with three parts: the synced lines are an initial part of the file; while
an append syncs, its record is the last line; and every order that is ready to be
sent, under way or at the venue has its intent among the synced lines. The
second part is what makes the first request after an append safe, and the third must
include `ready` to be inductive. The other three theorems are about what a replay computes.
`Replay` is a recursive function; `ReplayByLine` makes it a table whose entry for `n` lines is one step from the entry before, and
induction over that table does the rest.

- `AcknowledgedIsReplayed`: `KeptInv` says that acknowledged records are among the synced lines, that a process that may write
  knows the orders of all lines that are more than intents, and that no intent is written behind what became of its order. An accepted line
  never undoes another.
- `RefusalHasACause`: `UserInv` says that an order is sent once, that each line is something the venue said, and that an order's
  fills in memory are some of the venue's, each counted once. It carries over to the replay of any prefix. `FollowInv` says that the
  replay of the lines whose append is over agrees with memory, except for orders with a line whose append
  failed. News of an order that is not done is then accepted by the replay; of one that is done, memory refused it as
  well (`late`), unless the order is one of these.
- `GapsAreExplained`: the two positions are sums over orders; an order that is done in the journal, and whose cancellation came after
  its fills, contributes the same to both, and one in flight that has not filled contributes nothing.

**Services** (`Services_proofs`), each for its own part of the composition:

- `NoMixedSetup` needs `MaxSetups \in Nat` only. The invariant adds the order of
  the writes: a wizard runs only while there is no config, the config is written
  only once the backend holds the secrets, and an open setup is the one on disk.
- `MirrorFollows` assumes that "no holder" is not a
  goroutine. `VaultInv` says that a goroutine between read and write holds the mutex and
  its copy is still current, that the number of a memory is its position among its
  kind and so its title is its own, that a note has a title at most once, and that
  each link of a memory on its way is written, lost in a cut rewrite, or still to do.
- `TheBinarySurvives` assumes that there is a release to install. `UpdateInv`: what an updater has downloaded
  is a whole build of the tag it resolved; without an overlap at most one of them runs, and while the executable is away the old
  one is kept and only that updater, or its kill, is responsible.
- `FinishedSetupIsWhole`: `WizardInv` says which answers are accepted at each step, and that going back keeps or drops them as a whole.
- `EventsInOrder`: `KernelInv` says that one drain pops, that the calls due are the calls made followed by what the running event
  still has to call, that queued events are numbered without a hole, and that the cache holds the quote of every queued quote event.
- `BookIsFollowed` needs `MaxBuffer \in Nat` only. `FeedInv` adds to it that the update the book
  names is one of the venue's and that whatever is buffered came from the stream. A delta is
  the venue's word on one level and covers updates of that level only, so a fitting one takes the venue's book of an earlier update
  to that of a later one. The sort is a rearrangement, the pruning a part of the buffer, and the replay keeps the claim from step
  to step by induction over `ReplayStep`.
- `RestartsAreBounded` and `SupervisionIsOrderly` assume of a policy what `Policy.normalize` leaves: positive delays and factor.
  `BackoffFor` is a recursion over the number of the restart: its delays are positive, never shrink and never exceed the
  cap. `SupervisionInv` says that a call waits only while a restart is left, with the delay of the next, and that
  a collected outcome is that of a call which ended. This is the safety part of `SupervisionSettles`.
- `HistoryStaysThreaded`: `ChatInv` follows the history that a single `Say` read and the one it will store; the claim about order ends at the first overlap.

**Desk** (`Desk_proofs`), likewise:

- `CallsArePaced` assumes integer rate, burst and token size with a positive size, what the constructor's clamps give. A
  window's bound is not inductive by itself; `BudgetInv` says what the grants since any earlier
  one have left of a full bucket, which a refill and a grant keep.
- `ApprovalsAreExact` and `LosingNeverHelps` assume limits as a playbook sets them: no cap in money, every other
  limit set, a stop required (`BookAssumption`). The book is finite, its positions are not zero and their marks are
  not negative; that is all they need of a state. The engine's projected exposure is shown to be the exposure of the
  book after the fill, sign by sign, by taking the order's symbol out of the sum.
- `ExitsStayOpen`: an order that only reduces its position is refused for leverage or concentration only when the book is over that
  limit already, and never for the number of positions. It uses the same sums as `ApprovalsAreExact`.
- `RefusalsAreRounding` needs the whole-number constants of `RoundingAssumption`. The powers of ten are a recursive function and so a table, like
  the backoff; the digits dropped are as few as possible; a half-even quotient is within half a unit of the exact one and
  never passes a whole number that the exact one does not pass. So a product over the budget has a quantity that was rounded up.
- `TradableByTheTables` assumes that the amounts given are whole (`WholeNumbersAssumption`), so that a quotient is exact.
- `FirstHaltGetsThrough`: `AlertsInv` ties the latch to what the channel was given before it.
- `StrategyAndEngineAgree` and `ReportAddsUp`: `ReplayInv` has the pending fill that separates strategy and engine, and
  the running peak and drawdown as the extremes of the equity curve so far, of which only the last point is in the state.

**Inductions.** The library's induction theorems take an operator as a parameter, which the provers cannot instantiate.
`SetInduction` says it of a set of numbers instead: if 0 is in it, and n + 1 with n, then all numbers are. From it come the sums
of the community modules' folds (one summand more, a part of the set, two functions that agree),
`FlattenSeq`, a greatest element of a bounded set (`GreatestNat`), and recursion itself: a recursive function over `0..n`
(`RecursionExists`) or over all numbers (`RecursionOverNat`) has a solution, and what each of its steps keeps holds at its
end (`RecursionStays`). This is how the proofs reason about sums, replays, drains, delays and powers of any length.

**Model-checked only.** Liveness (`CallsReturn`, `IterationEnds`,
`StandingBreachHalts`, `EverythingSettles`, `EveryFillCounted`,
`SupervisionSettles`) is out of the prover's reach. Every safety invariant and every action property
of the passing runs is stated by a theorem. The properties of the runs that end in a counterexample
are refuted there. The modules' `TypeOK` document the types; only the kill switch's is a theorem, and each
invariant above has the types it needs in it.

## 5. What the model leaves out of the modelled parts

- Decimals are integers, except in `SizeRounding`, which has fewer digits than the library.
- Telegram texts, alert wording, logs, HTTP, JSON and YAML encodings, colours and layout.
- The daemon's decider: any of its symbols may or may not be proposed. In `Backtest`,
  mean reversion's z-score and RSI are floating point; its reading of a bar is any of five.
- A database error after a commit that did reach the disk: a failed commit is a
  rolled back one.
- SENT and ACK records and average prices of orders, which a replay does not use; `Close`
  of a journal; an order that the venue reports with an unknown status; more than one
  symbol in the reconciliation.
- The real-money refusal of `placeOnBroker`: the daemon builds paper traders.
- Order-book updates that change several levels under one id. The code takes a delta for
  one level, so the second level of such an update would be dropped as stale; the venue is assumed to number each level's change.
- The torn slice header of two racing appends in the chat: a load and a store of the whole history only.
- Encryption: a secrets file opens with its passphrase and no other.
- The typing of a line in the wizard is one step.

## 6. Where the code and its comments disagree

Runs that end in a counterexample:

1. **Reused order ids** (`TradeReusedId`). The intent sequence starts again with
   the process, so an id can name an order that has already lapsed. The venue's
   answer is then recorded as a placement, against `trader.go:145`.
2. **Reused approval tokens** (`GatewayToken`). The token counter starts again
   too, and an Approve tap on a keyboard of the earlier process approves the
   new request, against `approval.go:29-34`.
3. **Orphan config** (`SetupOrphan`). The config is written in place, so a full disk or a
   kill leaves one that does not load, against `boot.go:241-242`.
4. **Two processes** (`TwoProcesses`). The dashboard's gateway may fetch the operator's
   `/halt`; it halts its own switch and writes the file, which the daemon read only when
   it started. The daemon goes on placing orders, against `README.md:235` and `daemon.go:228`.

Exceptions that the properties of passing runs have to make:

- **Blank playbooks never trade** (`EntryIsTradableExactlyWhen`). With no risk knob the
  order is worth 25%, 33% or 40% of the equity in the three registers, and the
  concentration caps are 15%, 25% and 35%. `playbook_strategy.go:66-67`
  expects an aggressive playbook to trade more aggressively; the property's exact condition holds
  for no playbook with a blank knob.
- **The runaway window forgets** (`RunawayBound`). The order times are in memory only, so a restart in the
  middle of a window lets as many orders through again, against `killswitch.go:86-87`. (A Clear does so
  on purpose.) The property counts each list of order times apart.
- **Fills on a page cut** (`OnlyCutFillsAreSkipped`, `LotsMatchVenue`, `EveryFillCounted`). The pager asks for fills strictly
  after the last one's time, so the rest of a group of equal times is
  skipped, against `reconciler.go:157-158`.
- **Later halts are silent** (`FirstHaltIsAnnounced`). Nothing lowers the latch `halted`, so a second
  halt after a resume is not announced, against `trader.go:608-610`, and the heartbeat goes on
  saying HALTED while the loop trades.
- **A key for OAuth** (`SetupIsWhole`). A key pasted for one backend stays when the owner goes
  back and chooses OAuth, against `wizard.go:434-436`.
- **Chat calls overlap** (`ChatStaysThreaded`). A line can be sent while an answer is on
  its way; the history is then unordered and `thinking` false too early, against `dashboard.go:109` and `chat.go:240-241`.
- **Half of the inexact sizes are refused** (`RefusedOnlyByRounding`). The quantity fills the
  risk budget with no margin, and the engine multiplies it out again: whenever the quotient was
  rounded up the order is over its budget. `playbook_strategy.go:79-81` expects that it "can
  never exceed the invariant", and it does not, but the order is not placed.
- **No binary** (`BinarySurvives`). The second rename of Windows restores the executable when
  it fails, "so we never leave the user with no binary" (`updater.go:476`); a kill between the
  two renames does, and so may two updaters at once.
- **Links of a note cut short** (`VaultFollowsStore`). `os.WriteFile` truncates before it writes, so
  it is not the "single durable write" of `obsidian.go:145-146`: a kill or a full disk loses the
  links of the note it was rewriting.

The journal, which no command uses yet, disagrees with four of its comments. The
`OrderJournal` run shows them as the exceptions its properties have to make:

- `journal.go:216-219` says that only the last line may be partial. After a torn
  write the next process appends behind the half line, and every later replay
  fails (`ReplayFailsOnlyWhen`, first exception).
- `order.go:88-91` and `:204-205` call a repeated fill a safe no-op. `ApplyFill` looks at the state first,
  so a repeat of the fill that completed the order makes every later replay fail (`order.go:214`;
  second exception). So do a CANCEL or REJECT told twice and a fill told after the
  cancellation. All it takes is that the append was told twice (`late`), or that it returned an
  error, left its line in the file and was tried again (`failed`).
- `reconcile.go:118-121` leaves orders in flight out of the journal's positions so as
  not to make up a discrepancy; if they have filled, the venue's positions contain
  them and leaving them out is the discrepancy (`GapHasAReason`).
- `reconcile.go:26-29` calls a missing order safe; its request may still be under way and
  fill after the boot.

Smaller ones, read while modelling, without a run of their own:

- `supervisor.go:96` says `LastErr` is nil after a recovery; nothing clears it. A component that
  ends cleanly without ever failing still emits the `EventRecovered` of `:129`.
- `book.go:388` and `:402` say that the deltas a resync drops predate the snapshot; those behind a gap
  are later than it. The book stays right, because the next delta triggers recovery.
- `bus.go:52` calls the enqueue of another goroutine guarded; there is no mutex, and the guard of
  `:66` is against re-entrant drains.
- Two feeds whose timestamps interleave make the kernel panic: the clock is
  common, and the code asks that it never go back.
- `wizard.go:256` says that `done` mirrors the last step; after Esc it stays true.
- A blank answer to an intake question that was answered before overwrites the answer.
- `indicators.go:169` says that the first bar only establishes the close; it counts into the range's average.
- The backtester ignores `Signal.Stop`.
- `obsidian.go:164-165` puts a backlink under its section's header; it goes to the end of the file,
  whatever section is last.
- `obsidian.go:260-262` says that the facade keeps Forget honest across both stores; it has
  no Forget, and the store's leaves the notes behind.

Known limits that contradict no sentence of the source, and have no run:

- An order past the gate may leave after `/halt` (`trader.go:312`);
  `AtMostOneLeak` says it is one at most.
- The equity peak is forgotten at a restart (`trader.go:554`).
- An order that is still open is invisible to the next tick
  (`playbook_strategy.go:154`), so orders can stack until the first fills.
- An order whose reply was lost is recorded as not placed (`trader.go:486`).
- A failed flush of the directory is ignored (`killswitch.go:373`), and a Halt that finds the switch
  halted already flushes nothing: a power loss may then undo a reported halt. `HaltSurvivesRestart` is
  therefore about process crashes only, and `CommittedHaltSurvivesPowerLoss` about halts whose own call wrote the file.
- A command handled just before a crash is handled again after it
  (`offset.go` says so); the message that paired a chat may then run as a command.
- After pairing, the approval registry keeps chat 0 until a restart
  (`daemon.go:307`): requests above the band are denied.
- A fill between the two reads of the seed is counted twice or not at all
  (`live_loop.go:66-76`), and the lots are wrong by it from then on: `SeedError` in `LotsMatchVenue`.
- A backlog of more fills than the pager's pages hold fails every read from then on
  (`alpaca.go:252-300`): `EveryFillCounted` excepts it.
- A launch may pair a config with the secrets of an earlier setup when the keychain came or went since
  (`SetupsAreNotMixed` excepts it): the store that answers first wins.

## 7. Not modelled

| Part | Why |
|---|---|
| Probe and write gate (`internal/probe`) | one table built once and then looked up, used by no command |
| Research, analyst, summaries, understanding | prompts to a language model and text from its answers; the loop takes the outcome as a decision |
| Doctor, license, help, views | checks and text without state |
| Tradier adapter, mock broker | encoding, a test double |
| The scan for the day's profit (`store.go:400`) | timestamps as text are below this abstraction; the loop takes the sum as an input |
| The guard against panicking feeds (`livesafe.go`) | a recover around one call |
| A panic in a supervised component (`supervisor.go`) | nothing recovers it, so the process dies |

## 8. Plan

Present are all modules of section 2. What is left, in this order:

1. The day's boundary in `TradeLoop`: fills with a day, and the realized sum over it.
2. Playbooks, lessons and their text queries in the store; the Tradier adapter's pager beside Alpaca's.

## 9. Running the checks

    tlc -workers 2 -config TradeLoop.cfg MCTradeLoop.tla
    tlc -workers 2 -config Services.cfg Services.tla
    tlapm KillSwitch_proofs.tla

The module of each run is in `PROJECT.json` under `runs`: `TradeLoop.cfg`,
`TradeReusedId.cfg`, `FillLedger.cfg` and `Desk.cfg` are run on the component's `MC` module, `GatewayToken.cfg`
on `OperatorGateway`, `KillSwitch*.cfg` on `KillSwitch`, `SetupOrphan.cfg` on `Setup`, all others on the module of
their name. The runs named `TradeReusedId`, `GatewayToken`, `SetupOrphan` and `TwoProcesses` end in a
counterexample; all others end without error.
