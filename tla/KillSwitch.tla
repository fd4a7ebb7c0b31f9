----------------------------- MODULE KillSwitch -----------------------------
(***************************************************************************)
(* internal/risk/killswitch.go: the durable HALTED flag.  Two goroutines   *)
(* share one switch in production (the trade loop halts on a drawdown, the *)
(* Telegram gateway runs /halt and /resume); all state is under one mutex, *)
(* and a state change is written to the file before it is committed to     *)
(* memory.  The file is replaced by write, fsync, rename, directory fsync; *)
(* the process may crash between any two of these, and the machine may     *)
(* lose power, which undoes a rename whose directory was never flushed.    *)
(***************************************************************************)
EXTENDS Integers, FiniteSets

CONSTANTS
    Callers,        \* goroutines that share the switch
    Nobody,         \* the holder of a free mutex
    Causes,         \* HaltKinds passed to Halt
    Window,         \* runawayWindow, in clock ticks
    MaxOrders,      \* maxOrdersPerWindow; 0 disables the guard
    HasBroker,      \* a BrokerKillSwitch is registered
    SyncErrors,     \* the directory fsync after the rename may fail
    PowerLosses,    \* the machine may lose power, not only the process crash
    MaxClock,       \* bound: the injected clock stops here
    MaxRecorded     \* bound: RecordOrder calls in a behaviour

ASSUME CallersAssumption == Nobody \notin Callers
ASSUME GuardAssumption == /\ Window \in Nat /\ MaxOrders \in Nat
                          /\ MaxClock \in Nat /\ MaxRecorded \in Nat
ASSUME FlagAssumption == {HasBroker, SyncErrors, PowerLosses} \subseteq BOOLEAN
ASSUME CausesAssumption ==
    Causes \cap {"None", "none", "Clear", "RecordOrder", "IsHalted", "missing", "corrupt"} = {}

RunawayKind == "RunawayOrderGuard"
Kinds == Causes \cup {RunawayKind, "Manual", "None"}
Ops == {"none", "Clear", "RecordOrder", "IsHalted"} \cup Causes

VARIABLES
    up,             \* the process runs
    mem,            \* k.state: "None" or the kind of the halt
    disk,           \* the file as the file system shows it
    platter,        \* the file as a power loss would leave it
    holder,         \* owner of k.mu
    op,             \* the call each goroutine is in
    pc,             \* where in that call it is
    new,            \* the state being persisted by the holder of the mutex
    orderTimes,     \* the runaway window: one [at, id, since] per recorded order
    clock,          \* the injected clock
    recorded,       \* RecordOrder calls so far; names the entries of orderTimes
    brokerHalted,   \* the broker-native layer's own flag
    result,         \* what the last call of each goroutine returned
    acked,          \* history: a Halt returned nil and no Clear replaced the file since
    committed,      \* history: the same, for the calls that wrote the file themselves
    sure,           \* history: acked held during the whole IsHalted call
    since,          \* history: orders recorded when orderTimes was last emptied
    passed          \* history: the orders recorded without a trip

vars == <<up, mem, disk, platter, holder, op, pc, new, orderTimes, clock,
          recorded, brokerHalted, result, acked, committed, sure, since, passed>>

files    == <<disk, platter>>
calls    == <<op, pc, holder, new, result>>
guard    == <<orderTimes, recorded, since, passed>>
history  == <<acked, committed, sure>>
environment == <<clock, brokerHalted>>

BugLoaded(file) == IF file = "missing" THEN "None" ELSE file  \* mutant: no parse check

(***************************************************************************)
(* Open: a missing file is not a halt, an unparseable one is a manual halt.*)
(* (Any other read error makes Open fail: the process does not come up.)   *)
(***************************************************************************)
Loaded(file) == IF file = "missing" THEN "None"
                ELSE IF file = "corrupt" THEN "Manual" ELSE file

Init == /\ up = TRUE
        /\ disk \in Kinds \cup {"missing", "corrupt"}
        /\ platter = disk
        /\ mem = Loaded(disk)
        /\ holder = Nobody
        /\ op = [c \in Callers |-> "none"]
        /\ pc = [c \in Callers |-> "idle"]
        /\ new = "None"
        /\ orderTimes = {}
        /\ clock = 0
        /\ recorded = 0
        /\ brokerHalted = FALSE
        /\ result = [c \in Callers |-> "none"]
        /\ acked = FALSE
        /\ committed = FALSE
        /\ sure = [c \in Callers |-> FALSE]
        /\ since = 0
        /\ passed = {}

-----------------------------------------------------------------------------
Invoke(c, o) ==
    /\ up
    /\ pc[c] = "idle"
    /\ o = "RecordOrder" => recorded < MaxRecorded
    /\ op' = [op EXCEPT ![c] = o]
    /\ pc' = [pc EXCEPT ![c] = "lock"]
    /\ result' = [result EXCEPT ![c] = "none"]
    /\ sure' = [sure EXCEPT ![c] = acked]
    /\ UNCHANGED <<up, mem, files, holder, new, guard, environment, acked, committed>>

HasMutex(c, o) == up /\ pc[c] = "lock" /\ op[c] = o /\ holder = Nobody

BugUnlock == UNCHANGED holder       \* mutant: a return path that keeps the mutex
Unlock == holder' = Nobody

Return(c, r) == /\ op' = [op EXCEPT ![c] = "none"]
                /\ pc' = [pc EXCEPT ![c] = "idle"]
                /\ result' = [result EXCEPT ![c] = r]
                /\ Unlock
                /\ UNCHANGED new

StartPersist(c, state) == /\ holder' = c
                          /\ new' = state
                          /\ pc' = [pc EXCEPT ![c] = "write"]
                          /\ UNCHANGED <<op, result>>

BugFirstCauseKept == FALSE          \* mutant: a later halt replaces the first cause
FirstCauseKept == mem # "None"

Halt(c, kind) ==
    /\ HasMutex(c, kind)
    /\ kind \in Causes
    /\ \/ /\ FirstCauseKept
          /\ Return(c, "ok")
          /\ acked' = TRUE
       \/ /\ ~FirstCauseKept
          /\ StartPersist(c, kind)
          /\ UNCHANGED acked
    /\ UNCHANGED <<up, mem, files, guard, environment, committed, sure>>

Clear(c) ==
    /\ HasMutex(c, "Clear")
    /\ \/ mem = "None" /\ Return(c, "ok")
       \/ mem # "None" /\ StartPersist(c, "None")
    /\ UNCHANGED <<up, mem, files, guard, environment, history>>

BugInWindow(orders, now) ==         \* mutant: pruned one tick too early
    {o \in orders : o.at > now - Window + 1}
InWindow(orders, now) == {o \in orders : o.at > now - Window}

(* RecordOrder prunes the window, adds the order and trips past MaxOrders. *)
RecordOrder(c) ==
    LET order == [at |-> clock, id |-> recorded, since |-> since]
        kept  == InWindow(orderTimes, clock) \cup {order}
        trips == Cardinality(kept) > MaxOrders /\ mem = "None"
    IN
    /\ HasMutex(c, "RecordOrder")
    /\ \/ /\ MaxOrders = 0 \/ Window = 0
          /\ Return(c, "quiet")
          /\ UNCHANGED guard
       \/ /\ MaxOrders # 0 /\ Window # 0
          /\ recorded' = recorded + 1
          /\ orderTimes' = kept
          /\ UNCHANGED since
          /\ \/ trips /\ StartPersist(c, RunawayKind) /\ UNCHANGED passed
             \/ /\ ~trips /\ Return(c, "quiet")
                /\ passed' = IF mem = "None" THEN passed \cup {order} ELSE passed
    /\ UNCHANGED <<up, mem, files, environment, history>>

BugFlagDecides == mem # "None" /\ ~HasBroker  \* mutant: the broker layer replaces the flag
FlagDecides == mem # "None"

(* IsHalted reads the flag under the mutex, the broker layer without it. *)
IsHalted(c) ==
    /\ HasMutex(c, "IsHalted")
    /\ \/ FlagDecides /\ Return(c, "halted")
       \/ ~FlagDecides /\ ~HasBroker /\ Return(c, "clear")
       \/ /\ ~FlagDecides /\ HasBroker
          /\ pc' = [pc EXCEPT ![c] = "broker"]
          /\ UNCHANGED <<op, holder, new, result>>
    /\ UNCHANGED <<up, mem, files, guard, environment, history>>

(* A broker layer that answers with an error counts as not halted. *)
AskBroker(c) ==
    /\ up
    /\ pc[c] = "broker"
    /\ \E answer \in {brokerHalted, FALSE} :
           result' = [result EXCEPT ![c] = IF answer THEN "halted" ELSE "clear"]
    /\ op' = [op EXCEPT ![c] = "none"]
    /\ pc' = [pc EXCEPT ![c] = "idle"]
    /\ UNCHANGED <<up, mem, files, holder, new, guard, environment, history>>

(***************************************************************************)
(* persistStateLocked.  Any failure up to and including the rename returns *)
(* an error and leaves both the file and the memory as they were.          *)
(***************************************************************************)
BugKeepMemory == mem' = new         \* mutant: committed although the write failed
KeepMemory == UNCHANGED mem

PersistFails(c) ==
    /\ up
    /\ pc[c] = "write"
    /\ Return(c, "err")
    /\ KeepMemory
    /\ UNCHANGED <<up, files, guard, environment, history>>

Rename(c) ==
    /\ up
    /\ pc[c] = "write"
    /\ disk' = new
    /\ pc' = [pc EXCEPT ![c] = "renamed"]
    /\ acked' = (acked /\ new # "None")
    /\ committed' = (committed /\ new # "None")
    /\ sure' = [x \in Callers |-> sure[x] /\ new # "None"]
    /\ UNCHANGED <<up, mem, platter, op, holder, new, result, guard, environment>>

BugSyncDir == UNCHANGED platter     \* mutant: the directory is never flushed
SyncDir == \/ platter' = disk
           \/ SyncErrors /\ UNCHANGED platter

(* The list of order times lives in memory only: a stop of the process      *)
(* loses it and a committed Clear drops it.                                 *)
EmptyWindow == orderTimes' = {} /\ since' = recorded

(* The directory fsync, whose error is dropped, then the commit to memory. *)
Commit(c) ==
    /\ up
    /\ pc[c] = "renamed"
    /\ SyncDir
    /\ mem' = new
    /\ Return(c, IF op[c] = "RecordOrder" THEN "tripped" ELSE "ok")
    /\ acked' = (acked \/ new # "None")
    /\ committed' = (committed \/ new # "None")
    /\ \/ new = "None" /\ EmptyWindow
       \/ new # "None" /\ UNCHANGED <<orderTimes, since>>
    /\ UNCHANGED <<up, disk, recorded, passed, environment, sure>>

-----------------------------------------------------------------------------
(* Environment: the clock, the venue's own halt, the page cache, crashes. *)
Tick == /\ clock < MaxClock
        /\ clock' = clock + 1
        /\ UNCHANGED <<up, mem, files, calls, guard, brokerHalted, history>>

BrokerFlips == /\ HasBroker
               /\ brokerHalted' = ~brokerHalted
               /\ UNCHANGED <<up, mem, files, calls, guard, clock, history>>

Flush == /\ platter' = disk
         /\ UNCHANGED <<up, mem, disk, calls, guard, environment, history>>

StopProcess == /\ up
               /\ up' = FALSE
               /\ holder' = Nobody
               /\ op' = [c \in Callers |-> "none"]
               /\ pc' = [c \in Callers |-> "idle"]
               /\ result' = [c \in Callers |-> "none"]
               /\ EmptyWindow
               /\ UNCHANGED <<mem, platter, new, recorded, passed, environment, history>>

ProcessCrash == StopProcess /\ UNCHANGED disk
PowerLoss == PowerLosses /\ StopProcess /\ disk' = platter

(* Somebody damages the file of a stopped process. *)
DamageFile == /\ ~up
              /\ disk' = "corrupt"
              /\ platter' = "corrupt"
              /\ UNCHANGED <<up, mem, calls, guard, environment, history>>

BugBootState == "None"              \* mutant: a boot that ignores the file
BootState == Loaded(disk)

Open == /\ ~up
        /\ up' = TRUE
        /\ mem' = BootState
        /\ UNCHANGED <<files, calls, guard, environment, history>>

CallStep(c) == \/ \E kind \in Causes : Halt(c, kind)
               \/ Clear(c) \/ RecordOrder(c) \/ IsHalted(c) \/ AskBroker(c)
               \/ PersistFails(c) \/ Rename(c) \/ Commit(c)

Environment == Tick \/ BrokerFlips \/ Flush \/ ProcessCrash \/ PowerLoss
               \/ DamageFile \/ Open

Next == \/ \E c \in Callers : \/ \E o \in Ops \ {"none"} : Invoke(c, o)
                              \/ CallStep(c)
        \/ Environment

Spec == Init /\ [][Next]_vars

(* Go's mutex is starvation-free and the file calls return: a goroutine     *)
(* inside a call takes its next step unless the process dies first.         *)
FairSpec == Spec /\ \A c \in Callers : SF_vars(CallStep(c))

-----------------------------------------------------------------------------
TypeOK ==
    /\ up \in BOOLEAN
    /\ mem \in Kinds
    /\ disk \in Kinds \cup {"missing", "corrupt"}
    /\ platter \in Kinds \cup {"missing", "corrupt"}
    /\ holder \in Callers \cup {Nobody}
    /\ op \in [Callers -> Ops]
    /\ pc \in [Callers -> {"idle", "lock", "broker", "write", "renamed"}]
    /\ new \in Kinds
    /\ orderTimes \in SUBSET [at : Nat, id : Nat, since : Nat]
    /\ clock \in Nat
    /\ recorded \in Nat
    /\ brokerHalted \in BOOLEAN
    /\ result \in [Callers -> {"none", "ok", "err", "quiet", "tripped", "halted", "clear"}]
    /\ acked \in BOOLEAN
    /\ committed \in BOOLEAN
    /\ sure \in [Callers -> BOOLEAN]
    /\ since \in Nat
    /\ passed \in SUBSET [at : Nat, id : Nat, since : Nat]

(* The halt state in force: memory while the process runs, else the file. *)
Effective == IF up THEN mem ELSE Loaded(disk)

(***************************************************************************)
(* Persist-before-commit: whenever no call is inside the mutex, a restart  *)
(* would come up in exactly the state the running process is in.           *)
(***************************************************************************)
MemoryMatchesFile == up /\ holder = Nobody => mem = Loaded(disk)

(***************************************************************************)
(* A halt that was reported as done stays in force, through any number of  *)
(* process crashes, until a Clear has replaced the file (killswitch.go:    *)
(* "it survives a crash/restart").  Only while the machine keeps its       *)
(* power: a power loss may undo a rename whose directory fsync failed, and *)
(* a repeated Halt flushes nothing; see CommittedHaltSurvivesPowerLoss.    *)
(***************************************************************************)
HaltSurvivesRestart == acked => Effective # "None"

(***************************************************************************)
(* A halt whose own call wrote and flushed the file outlives even a power  *)
(* loss.  (A repeated Halt returns at once without flushing anything, so   *)
(* it is not covered.)                                                     *)
(***************************************************************************)
CommittedHaltSurvivesPowerLoss == committed => Effective # "None"

(***************************************************************************)
(* IsHalted never answers "not halted" to a caller that asked after a halt *)
(* was acknowledged and before any Clear, however the calls interleave and *)
(* whatever the broker layer answers.                                      *)
(***************************************************************************)
NoMissedHalt == \A c \in Callers : result[c] = "clear" => ~sure[c]

(***************************************************************************)
(* The runaway guard lets at most MaxOrders orders through any window, for *)
(* each list of order times the window was counted in: the pruning loses   *)
(* no order that still counts.  A window in which the process neither      *)
(* stopped nor resumed from a halt was counted in one list and so holds at *)
(* most MaxOrders orders; a restart and a Clear start a new, empty list    *)
(* (it is kept in memory only), and let MaxOrders more through.            *)
(***************************************************************************)
LetThrough(now) == {o \in passed : now - Window < o.at /\ o.at <= now}
Lists(orders) == {o.since : o \in orders}

RunawayBound ==
    MaxOrders # 0 /\ Window # 0 =>
        \A now \in 0..MaxClock :
            Cardinality(LetThrough(now))
              <= MaxOrders * Cardinality(Lists(LetThrough(now)))

(***************************************************************************)
(* Nothing but a Clear call ends a halt: not a crash, not a restart, not   *)
(* another goroutine's failed or late write.                               *)
(***************************************************************************)
OnlyClearResumes ==
    [][Effective # "None" /\ Effective' = "None"
         => \E c \in Callers : op[c] = "Clear" /\ pc[c] \in {"write", "renamed"}]_vars

(* Every call on the switch returns, unless the process stops first. *)
CallsReturn == \A c \in Callers : (pc[c] # "idle") ~> (pc[c] = "idle")

(* The abstract status knows the calls that may change it. *)
Shown(call) == IF call = "IsHalted" THEN "none" ELSE call
OpenCalls == [c \in Callers |-> Shown(op[c])]

Switch == INSTANCE DurableSwitch WITH status <- Effective, open <- OpenCalls

(* The switch, its file and its mutex behave as one durable status. *)
IsDurableSwitch == Switch!Spec
=============================================================================
