---------------------------- MODULE OrderJournal ----------------------------
(***************************************************************************)
(* internal/orders and the boot reconciliation of internal/brokers: an     *)
(* append-only journal of order intents and what became of them, one line  *)
(* per record, flushed before the append returns; the order state machine  *)
(* that its replay drives; and ReconcileOnBoot, which asks the venue about *)
(* the orders that the journal leaves open.                                *)
(*                                                                         *)
(* No command of the program appends to the journal yet, so its user is    *)
(* the one journal.go describes: the intent before the request, every      *)
(* execution before it is applied, an append that failed is tried again.   *)
(* The journal checks nothing, and so the user may record what the venue   *)
(* tells it twice, or too late for an order that is done.                  *)
(* SENT and ACK records rebuild nothing and are left out, and so are the   *)
(* average price and symbols, of which there is one: reconcile sums each   *)
(* by itself.                                                              *)
(***************************************************************************)
EXTENDS Integers, Sequences, FiniteSets, FiniteSetsExt, Functions

CONSTANTS
    Orders,         \* client order ids
    Sells,          \* those of them that sell
    OrderQty,       \* the size of each order
    TornWrites,     \* TRUE: a failed write or a power loss can leave half a line
    SyncErrors,     \* TRUE: fsync can fail
    MaxLines,       \* bound: lines of the journal
    MaxCrashes      \* bound: process crashes and power losses

ASSUME OrderAssumption == Sells \subseteq Orders /\ OrderQty \in Nat \ {0}
ASSUME FaultAssumption == {TornWrites, SyncErrors} \subseteq BOOLEAN
ASSUME BoundAssumption == {MaxLines, MaxCrashes} \subseteq Nat

VARIABLES
    pc,             \* "run", "sync" (inside appendRecord), "positions" (inside
                    \* ReconcileOnBoot), "down", or "refused": a replay that failed
    lines,          \* the whole lines of the file
    torn,           \* a partial line follows them
    synced,         \* that many lines are on stable storage
    broken,         \* the bufio.Writer keeps the error of a failed flush
    record,         \* the record an append is flushing
    mem,            \* the orders this process knows
    ready,          \* orders whose intent this process recorded and did not send
    net,            \* order requests on their way to the venue
    venue,          \* id -> [status, fills]: the orders the venue has
    asked,          \* how ReconcileOnBoot resolved the orders in flight
    gap,            \* its discrepancy: the venue's position minus the journal's
    crashes,
    acked,          \* history: the records whose append returned nil
    failed,         \* history: the lines whose append returned an error
    late            \* history: the lines whose record the process's own order
                    \* refused when they were written

file  == <<lines, torn, synced, broken>>
boot  == <<asked, gap>>
history == <<acked, failed, late>>
vars  == <<pc, file, record, mem, ready, net, venue, boot, crashes, history>>

Records == [type : {"INTENT", "REJECT", "CANCEL"}, id : Orders, k : {0}, qty : {0}]
    \cup [type : {"FILL"}, id : Orders, k : 1..OrderQty, qty : 1..OrderQty]
Intent(id) == [type |-> "INTENT", id |-> id, k |-> 0, qty |-> 0]
NoRecord == [type |-> "none"]
Garbled == [type |-> "Garbled"]     \* half a line and a whole one: not JSON

-----------------------------------------------------------------------------
(* The order state machine. *)
NewOrder == [state |-> "New", cum |-> 0, seen |-> {}]

IsTerminal(o) == o.state \in {"Filled", "Canceled", "Rejected"}

LegalTransitions == [New             |-> {"PartiallyFilled", "Filled", "Canceled", "Rejected"},
                     PartiallyFilled |-> {"PartiallyFilled", "Filled", "Canceled"},
                     Filled          |-> {},
                     Canceled        |-> {},
                     Rejected        |-> {}]

CanBecome(o, state) == state \in LegalTransitions[o.state]

FillVerdict(o, k, q) == IF IsTerminal(o) THEN "ErrFillOnTerminal"
                        ELSE IF k \in o.seen THEN "ErrFillAlreadyApplied"
                        ELSE IF o.cum + q > OrderQty THEN "ErrOverfill"
                        ELSE "ok"

ApplyFill(o, k, q) ==
    [state |-> IF o.cum + q = OrderQty THEN "Filled" ELSE "PartiallyFilled",
     cum   |-> o.cum + q,
     seen  |-> o.seen \cup {k}]

-----------------------------------------------------------------------------
(* Replay: the orders the lines rebuild, unless a line is refused. *)
BugAccepts(known, r) ==             \* mutant: ErrFillAlreadyApplied ends the replay
    \/ r.type = "INTENT"
    \/ /\ r.type \in {"FILL", "REJECT", "CANCEL"}
       /\ r.id \in DOMAIN known
       /\ r.type = "FILL" => FillVerdict(known[r.id], r.k, r.qty) = "ok"
       /\ r.type = "REJECT" => CanBecome(known[r.id], "Rejected")
       /\ r.type = "CANCEL" => CanBecome(known[r.id], "Canceled")
Accepts(known, r) ==
    \/ r.type = "INTENT"
    \/ /\ r.type \in {"FILL", "REJECT", "CANCEL"}
       /\ r.id \in DOMAIN known
       /\ \/ /\ r.type = "FILL"
             /\ FillVerdict(known[r.id], r.k, r.qty) \in {"ok", "ErrFillAlreadyApplied"}
          \/ r.type = "REJECT" /\ CanBecome(known[r.id], "Rejected")
          \/ r.type = "CANCEL" /\ CanBecome(known[r.id], "Canceled")

Outcome(known, r) ==
    CASE r.type = "INTENT" -> NewOrder
      [] r.type = "FILL"   -> IF r.k \in known[r.id].seen THEN known[r.id]
                              ELSE ApplyFill(known[r.id], r.k, r.qty)
      [] r.type = "REJECT" -> [known[r.id] EXCEPT !.state = "Rejected"]
      [] r.type = "CANCEL" -> [known[r.id] EXCEPT !.state = "Canceled"]

ApplyRecord(known, r) ==
    [id \in DOMAIN known \cup {r.id} |-> IF id = r.id THEN Outcome(known, r) ELSE known[id]]

NoOrders == [id \in {} |-> NewOrder]

Replay(log) ==
    LET upTo[n \in 0..Len(log)] ==
            IF n = 0 THEN [ok |-> TRUE, orders |-> NoOrders]
            ELSE IF upTo[n - 1].ok /\ Accepts(upTo[n - 1].orders, log[n])
                 THEN [ok |-> TRUE, orders |-> ApplyRecord(upTo[n - 1].orders, log[n])]
                 ELSE [upTo[n - 1] EXCEPT !.ok = FALSE]
    IN  upTo[Len(log)]

InFlight(known) == {id \in DOMAIN known : ~IsTerminal(known[id])}

-----------------------------------------------------------------------------
Init == /\ pc = "run"
        /\ lines = <<>> /\ torn = FALSE /\ synced = 0 /\ broken = FALSE
        /\ record = NoRecord
        /\ mem = NoOrders
        /\ ready = {} /\ net = {}
        /\ venue = [id \in {} |-> 0]
        /\ asked = [id \in {} |-> "Missing"] /\ gap = 0
        /\ crashes = 0 /\ acked = {} /\ failed = {} /\ late = {}

(* What the user records: an intent, or what the venue tells it, maybe again. *)
Due(r) ==
    \/ r.type = "INTENT" /\ r.id \notin DOMAIN mem
    \/ /\ r.id \in DOMAIN mem \cap DOMAIN venue
       /\ \/ /\ r.type = "FILL" /\ r.k \in DOMAIN venue[r.id].fills
             /\ r.qty = venue[r.id].fills[r.k]
          \/ r.type = "REJECT" /\ venue[r.id].status = "Rejected"
          \/ r.type = "CANCEL" /\ venue[r.id].status = "Canceled"

(* O_APPEND: a line lands right behind the half line of an earlier process. *)
Landed(r) == IF torn THEN Garbled ELSE r

(* appendRecord up to its flush, then its fsync. *)
WriteLine(r) ==
    /\ pc = "run" /\ ~broken /\ Len(lines) < MaxLines
    /\ Due(r)
    /\ record' = r
    /\ lines' = Append(lines, Landed(r))
    /\ torn' = FALSE
    /\ late' = IF Accepts(mem, r) THEN late ELSE late \cup {Len(lines')}
    /\ pc' = "sync"
    /\ UNCHANGED <<synced, broken, mem, ready, net, venue, boot, crashes, acked, failed>>

(* A flush that fails half way leaves its error in the bufio.Writer. *)
FlushFails ==
    /\ TornWrites /\ pc = "run" /\ ~broken
    /\ broken' = TRUE
    /\ torn' \in {torn, TRUE}
    /\ UNCHANGED <<pc, lines, synced, record, mem, ready, net, venue, boot, crashes, history>>

BugFlushed == UNCHANGED synced      \* mutant: the append returns before the fsync
Flushed == synced' = Len(lines)

(* The append returned nil: the user applies what it recorded, and an order *)
(* that refuses it stays as it is.                                          *)
Appended ==
    /\ pc = "sync"
    /\ Flushed
    /\ mem' = IF Accepts(mem, record) THEN ApplyRecord(mem, record) ELSE mem
    /\ ready' = IF record.type = "INTENT" THEN ready \cup {record.id} ELSE ready
    /\ acked' = acked \cup {record}
    /\ record' = NoRecord
    /\ pc' = "run"
    /\ UNCHANGED <<lines, torn, broken, net, venue, boot, crashes, failed, late>>

(* The line is in the file all the same. *)
SyncFails ==
    /\ SyncErrors /\ pc = "sync"
    /\ record' = NoRecord
    /\ pc' = "run"
    /\ failed' = failed \cup {Len(lines)}
    /\ UNCHANGED <<file, mem, ready, net, venue, boot, crashes, acked, late>>

Send(id) ==
    /\ pc = "run" /\ id \in ready
    /\ ready' = ready \ {id}
    /\ net' = net \cup {id}
    /\ UNCHANGED <<pc, file, record, mem, venue, boot, crashes, history>>

-----------------------------------------------------------------------------
(* The venue, whose requests may be late or lost. *)
Arrives(id) ==
    /\ id \in net
    /\ net' = net \ {id}
    /\ \E status \in {"New", "Rejected"} :
           venue' = [x \in DOMAIN venue \cup {id} |->
                        IF x # id THEN venue[x] ELSE [status |-> status, fills |-> <<>>]]
    /\ UNCHANGED <<pc, file, record, mem, ready, boot, crashes, history>>

GetsLost(id) ==
    /\ id \in net
    /\ net' = net \ {id}
    /\ UNCHANGED <<pc, file, record, mem, ready, venue, boot, crashes, history>>

Filled(id) == FoldFunction(+, 0, venue[id].fills)
Working(id) == id \in DOMAIN venue /\ venue[id].status \in {"New", "PartiallyFilled"}

VenueFills(id, q) ==
    /\ Working(id)
    /\ Filled(id) + q <= OrderQty
    /\ venue' = [venue EXCEPT ![id] =
                    [status |-> IF Filled(id) + q = OrderQty THEN "Filled" ELSE "PartiallyFilled",
                     fills  |-> Append(@.fills, q)]]
    /\ UNCHANGED <<pc, file, record, mem, ready, net, boot, crashes, history>>

(* The owner cancels, or the order expires. *)
VenueCancels(id) ==
    /\ Working(id)
    /\ venue' = [venue EXCEPT ![id].status = "Canceled"]
    /\ UNCHANGED <<pc, file, record, mem, ready, net, boot, crashes, history>>

-----------------------------------------------------------------------------
Forget == /\ mem' = NoOrders /\ ready' = {} /\ record' = NoRecord
          /\ asked' = [id \in {} |-> "Missing"] /\ gap' = 0
          /\ broken' = FALSE

ProcessCrash ==
    /\ pc \notin {"down", "refused"} /\ crashes < MaxCrashes
    /\ crashes' = crashes + 1
    /\ pc' = "down"
    /\ Forget
    /\ UNCHANGED <<lines, torn, synced, net, venue, history>>

(* What was not flushed is gone, or half there. *)
PowerLoss ==
    /\ pc \notin {"down", "refused"} /\ crashes < MaxCrashes
    /\ crashes' = crashes + 1
    /\ \E n \in synced..Len(lines) :
           /\ lines' = SubSeq(lines, 1, n)
           /\ synced' = n
           /\ failed' = failed \cap 1..n /\ late' = late \cap 1..n
           /\ torn' \in {FALSE, TornWrites /\ (torn \/ n < Len(lines))}
    /\ pc' = "down"
    /\ Forget
    /\ UNCHANGED <<net, venue, acked>>

(* ReconcileOnBoot: the replay and the venue's word on each order in flight. *)
Resolve(id) == IF id \notin DOMAIN venue THEN "Missing"
               ELSE IF Working(id) THEN "Open" ELSE venue[id].status

ReplayAndResolve ==
    /\ pc \in {"down", "refused"}
    /\ IF Replay(lines).ok
       THEN /\ mem' = Replay(lines).orders
            /\ asked' = [id \in InFlight(mem') |-> Resolve(id)]
            /\ pc' = "positions"
       ELSE pc' = "refused" /\ UNCHANGED <<mem, asked>>
    /\ UNCHANGED <<file, record, ready, net, venue, gap, crashes, history>>

BugSigned(id, n) == n               \* mutant: a sell adds to the position
Signed(id, n) == IF id \in Sells THEN -n ELSE n

JournalQty == MapThenSumSet(LAMBDA id : Signed(id, mem[id].cum), DOMAIN mem \ InFlight(mem))
BrokerQty == MapThenSumSet(LAMBDA id : IF id \in Sells THEN -Filled(id) ELSE Filled(id),
                           DOMAIN venue)

ComparePositions ==
    /\ pc = "positions"
    /\ gap' = BrokerQty - JournalQty
    /\ pc' = "run"
    /\ UNCHANGED <<file, record, mem, ready, net, venue, asked, crashes, history>>

(* A call of the reconciliation failed: it returns the error. *)
ReconcileFails ==
    /\ pc = "positions"
    /\ pc' = "down"
    /\ Forget
    /\ UNCHANGED <<lines, torn, synced, net, venue, crashes, history>>

JournalStep == \/ \E r \in Records : WriteLine(r)
               \/ FlushFails \/ Appended \/ SyncFails

VenueStep(id) == \/ Arrives(id) \/ GetsLost(id) \/ VenueCancels(id)
                 \/ \E q \in 1..OrderQty : VenueFills(id, q)

Next == \/ JournalStep
        \/ \E id \in Orders : Send(id) \/ VenueStep(id)
        \/ ProcessCrash \/ PowerLoss
        \/ ReplayAndResolve \/ ComparePositions \/ ReconcileFails

Spec == Init /\ [][Next]_vars

-----------------------------------------------------------------------------
States == {"New", "PartiallyFilled", "Filled", "Canceled", "Rejected"}

TypeOK ==
    /\ pc \in {"run", "sync", "positions", "down", "refused"}
    /\ lines \in Seq(Records \cup {Garbled})
    /\ {torn, broken} \subseteq BOOLEAN
    /\ synced \in 0..Len(lines)
    /\ record \in Records \cup {NoRecord}
    /\ DOMAIN mem \subseteq Orders
    /\ \A id \in DOMAIN mem :
           /\ mem[id].state \in States /\ mem[id].cum \in 0..OrderQty
           /\ mem[id].cum = OrderQty <=> mem[id].state = "Filled"
    /\ ready \subseteq DOMAIN mem /\ net \subseteq Orders
    /\ DOMAIN venue \subseteq Orders
    /\ \A id \in DOMAIN venue : venue[id].status \in States /\ Filled(id) \in 0..OrderQty
    /\ DOMAIN asked \subseteq DOMAIN mem /\ gap \in Int
    /\ crashes \in 0..MaxCrashes /\ acked \subseteq Records
    /\ failed \cup late \subseteq DOMAIN lines

(***************************************************************************)
(* Sync before send: whatever the venue has, or may still get, has its     *)
(* intent on stable storage, so that no power loss makes it an unknown     *)
(* order.  (Behind half a line that intent is a line nothing can read.)    *)
(***************************************************************************)
SentIsDurable ==
    \A id \in net \cup DOMAIN venue :
        \E i \in 1..synced : lines[i] \in {Intent(id), Garbled}

(***************************************************************************)
(* What an append acknowledged survives whatever part of the file a later  *)
(* crash leaves: a replay that succeeds has that order, has counted that   *)
(* fill, and does not have the order open again that was done.  (A record  *)
(* behind half a line makes every later replay fail instead.)              *)
(***************************************************************************)
RecordedIsKept ==
    \A n \in synced..Len(lines) :
        LET res == Replay(SubSeq(lines, 1, n))
        IN  res.ok => \A r \in acked :
                /\ r.id \in DOMAIN res.orders
                /\ r.type = "FILL" => r.k \in res.orders[r.id].seen
                /\ r.type = "REJECT" => res.orders[r.id].state = "Rejected"
                /\ r.type = "CANCEL" => res.orders[r.id].state = "Canceled"

(***************************************************************************)
(* Replay refuses only a line appended behind half a line, and news of an  *)
(* order that is done: news the process's own order refused when it was    *)
(* recorded (the completing fill, a cancellation or a rejection told       *)
(* twice, or a fill told after the cancellation), or news behind a FILL,   *)
(* CANCEL or REJECT line that an append left in the file although it       *)
(* returned an error.  A fill told twice while its order works is counted  *)
(* once and refused never.                                                 *)
(***************************************************************************)
ReplayFailsOnlyWhen ==
    \A j \in DOMAIN lines :
        LET before == Replay(SubSeq(lines, 1, j - 1))
            id     == lines[j].id
        IN  before.ok /\ ~Accepts(before.orders, lines[j]) =>
                \/ lines[j] = Garbled
                \/ /\ id \in DOMAIN before.orders /\ IsTerminal(before.orders[id])
                   /\ \/ j \in late
                      \/ \E i \in failed : i < j /\ lines[i].id = id /\ lines[i].type # "INTENT"

(***************************************************************************)
(* A boot reports a discrepancy only where one order explains it: one that *)
(* filled while the journal has it in flight, or one whose cancellation    *)
(* was recorded before all of its fills.                                   *)
(***************************************************************************)
GapHasAReason ==
    [][ComparePositions /\ gap' # 0 =>
          \E id \in DOMAIN mem \cap DOMAIN venue :
              /\ Filled(id) > 0
              /\ \/ id \in DOMAIN asked
                 \/ mem[id].state = "Canceled" /\ mem[id].cum < Filled(id)]_vars
=============================================================================
