------------------------- MODULE KillSwitch_proofs -------------------------
(***************************************************************************)
(* What the kill switch guarantees for any number of goroutines, any halt  *)
(* kinds and any interleaving, when the machine does not lose power.       *)
(***************************************************************************)
EXTENDS KillSwitch, Inductions, FiniteSetTheorems, TLAPS

Files == Kinds \cup {"missing", "corrupt"}

(* A goroutine between the decision to write the file and the commit. *)
Persisting(c) == pc[c] \in {"write", "renamed"}

(***************************************************************************)
(* Why the switch is safe.  Only the owner of the mutex is writing; memory *)
(* equals the file except between a rename and its commit; and the state   *)
(* being written is the one effect its call may have.                      *)
(***************************************************************************)
MutexInv == \A c \in Callers : Persisting(c) <=> holder = c

StoppedInv == ~up => \A c \in Callers : pc[c] = "idle"

FileInv == /\ up /\ holder = Nobody => mem = Loaded(disk)
           /\ \A c \in Callers : pc[c] = "write" => mem = Loaded(disk)
           /\ \A c \in Callers : pc[c] = "renamed" => disk = new

CallInv == \A c \in Callers :
    /\ pc[c] = "idle" <=> op[c] = "none"
    /\ pc[c] = "broker" => op[c] = "IsHalted"
    /\ Persisting(c) =>
         \/ op[c] = "Clear" /\ new = "None"
         \/ op[c] = "RecordOrder" /\ new = RunawayKind /\ mem = "None"
         \/ op[c] \in Causes /\ new = op[c] /\ mem = "None"

AckInv == /\ acked => Loaded(disk) # "None" /\ (up => mem # "None")
          /\ \A c \in Callers : sure[c] => acked
          /\ \A c \in Callers : pc[c] = "broker" => ~sure[c]

IInv == TypeOK /\ MutexInv /\ StoppedInv /\ FileInv /\ CallInv

-----------------------------------------------------------------------------
(* The kinds of a halt are not the names of the two unreadable files, so   *)
(* reading back what was written gives what was written.                   *)
LEMMA LoadedKind == /\ \A k \in Kinds : Loaded(k) = k
                    /\ \A f \in Files : Loaded(f) \in Kinds
  BY CausesAssumption DEF Loaded, Kinds, Files, RunawayKind

(* A fresh or restarted process satisfies the invariant: memory was just    *)
(* read from the file and nobody holds the mutex.                           *)
LEMMA InitInv == Init => IInv
  <1> SUFFICES ASSUME Init PROVE IInv
    OBVIOUS
  <1>1. mem \in Kinds
    BY LoadedKind DEF Init, Files
  <1>2. TypeOK
    BY <1>1 DEF Init, TypeOK, Ops, Kinds
  <1>3. MutexInv /\ StoppedInv /\ FileInv /\ CallInv
    BY CallersAssumption DEF Init, MutexInv, StoppedInv, FileInv, CallInv, Persisting
  <1> QED BY <1>2, <1>3 DEF IInv

(* Every operation keeps every variable in its type. *)
LEMMA TypeStep == TypeOK /\ [Next]_vars => TypeOK'
  <1> SUFFICES ASSUME TypeOK, [Next]_vars PROVE TypeOK'
    OBVIOUS
  <1> USE DEF TypeOK, files, calls, guard, history, environment
  <1>1. ASSUME NEW c \in Callers, NEW o \in Ops \ {"none"}, Invoke(c, o) PROVE TypeOK'
    BY <1>1 DEF Invoke
  <1>2. ASSUME NEW c \in Callers, NEW kind \in Causes, Halt(c, kind) PROVE TypeOK'
    <2>1. CASE Return(c, "ok") /\ acked' = TRUE
      BY <1>2, <2>1 DEF Halt, HasMutex, Return, Unlock, Kinds, Ops
    <2>2. CASE StartPersist(c, kind) /\ UNCHANGED acked
      BY <1>2, <2>2 DEF Halt, HasMutex, StartPersist, Kinds, Ops
    <2> QED  BY <1>2, <2>1, <2>2 DEF Halt
  <1>3. ASSUME NEW c \in Callers, Clear(c) PROVE TypeOK'
    BY <1>3 DEF Clear, HasMutex, Return, Unlock, StartPersist, Kinds, Ops
  <1>4. ASSUME NEW c \in Callers, RecordOrder(c) PROVE TypeOK'
    <2>1. RunawayKind \in Kinds
      BY DEF Kinds
    <2>2. InWindow(orderTimes, clock)
              \cup {[at |-> clock, id |-> recorded, since |-> since]}
            \in SUBSET [at : Nat, id : Nat, since : Nat]
      BY DEF InWindow
    <2> QED
      BY <1>4, <2>1, <2>2 DEF RecordOrder, HasMutex, Return, Unlock, StartPersist, Ops
  <1>5. ASSUME NEW c \in Callers, IsHalted(c) PROVE TypeOK'
    BY <1>5 DEF IsHalted, HasMutex, Return, Unlock, Ops
  <1>6. ASSUME NEW c \in Callers, AskBroker(c) PROVE TypeOK'
    BY <1>6 DEF AskBroker, Ops
  <1>7. ASSUME NEW c \in Callers, PersistFails(c) PROVE TypeOK'
    BY <1>7 DEF PersistFails, KeepMemory, Return, Unlock, Ops
  <1>8. ASSUME NEW c \in Callers, Rename(c) PROVE TypeOK'
    BY <1>8 DEF Rename
  <1>9. ASSUME NEW c \in Callers, Commit(c) PROVE TypeOK'
    BY <1>9 DEF Commit, EmptyWindow, SyncDir, Return, Unlock, Ops
  <1>10. ASSUME Environment PROVE TypeOK'
    <2>1. CASE Tick
      BY <2>1, GuardAssumption DEF Tick
    <2>2. CASE BrokerFlips
      BY <2>2 DEF BrokerFlips
    <2>3. CASE Flush
      BY <2>3 DEF Flush
    <2>4. ASSUME StopProcess, disk' \in Files PROVE TypeOK'
      BY <2>4 DEF StopProcess, EmptyWindow, Ops, Files
    <2>5. CASE ProcessCrash
      BY <2>4, <2>5 DEF ProcessCrash, Files
    <2>6. CASE PowerLoss
      BY <2>4, <2>6 DEF PowerLoss, Files
    <2>7. CASE DamageFile
      BY <2>7 DEF DamageFile
    <2>8. CASE Open
      <3>1. Loaded(disk) \in Kinds
        BY LoadedKind DEF Files
      <3> QED BY <2>8, <3>1 DEF Open, BootState
    <2> QED
      BY <1>10, <2>1, <2>2, <2>3, <2>5, <2>6, <2>7, <2>8 DEF Environment
  <1>11. CASE UNCHANGED vars
    BY <1>11 DEF vars
  <1> QED
    BY <1>1, <1>2, <1>3, <1>4, <1>5, <1>6, <1>7, <1>8, <1>9, <1>10, <1>11
       DEF Next, CallStep

(***************************************************************************)
(* The inductive step.  A call that returns at once or only reads keeps    *)
(* mem, disk and the mutex; the interesting steps are the start of a       *)
(* write, the rename and the commit.                                       *)
(***************************************************************************)
LEMMA InvStep == IInv /\ [Next]_vars => IInv'
  <1> SUFFICES ASSUME IInv, [Next]_vars PROVE IInv'
    OBVIOUS
  <1>t. TypeOK /\ TypeOK'
    BY TypeStep DEF IInv
  <1> DEFINE Shape == MutexInv /\ StoppedInv /\ FileInv /\ CallInv
  <1> SUFFICES Shape'
    BY <1>t DEF IInv
  <1> USE <1>t, CallersAssumption
      DEF IInv, TypeOK, MutexInv, StoppedInv, FileInv, CallInv, Persisting,
          files, calls, guard, history, environment
  <1>1. ASSUME NEW c \in Callers, NEW o \in Ops \ {"none"}, Invoke(c, o) PROVE Shape'
    BY <1>1 DEF Invoke
  <1>2. ASSUME NEW c \in Callers, NEW kind \in Causes, Halt(c, kind) PROVE Shape'
    BY <1>2 DEF Halt, HasMutex, Return, Unlock, StartPersist, FirstCauseKept
  <1>3. ASSUME NEW c \in Callers, Clear(c) PROVE Shape'
    BY <1>3 DEF Clear, HasMutex, Return, Unlock, StartPersist
  <1>4. ASSUME NEW c \in Callers, RecordOrder(c) PROVE Shape'
    BY <1>4 DEF RecordOrder, HasMutex, Return, Unlock, StartPersist
  <1>5. ASSUME NEW c \in Callers, IsHalted(c) PROVE Shape'
    BY <1>5 DEF IsHalted, HasMutex, Return, Unlock
  <1>6. ASSUME NEW c \in Callers, AskBroker(c) PROVE Shape'
    BY <1>6 DEF AskBroker
  <1>7. ASSUME NEW c \in Callers, PersistFails(c) PROVE Shape'
    BY <1>7 DEF PersistFails, KeepMemory, Return, Unlock
  <1>8. ASSUME NEW c \in Callers, Rename(c) PROVE Shape'
    BY <1>8 DEF Rename
  <1>9. ASSUME NEW c \in Callers, Commit(c) PROVE Shape'
    <2>1. Loaded(new) = new
      BY LoadedKind
    <2> QED BY <1>9, <2>1 DEF Commit, Return, Unlock
  <1>10. ASSUME Environment PROVE Shape'
    <2>1. CASE Tick
      BY <2>1 DEF Tick
    <2>2. CASE BrokerFlips
      BY <2>2 DEF BrokerFlips
    <2>3. CASE Flush
      BY <2>3 DEF Flush
    <2>4. CASE ProcessCrash \/ PowerLoss
      BY <2>4 DEF ProcessCrash, PowerLoss, StopProcess
    <2>5. CASE DamageFile
      BY <2>5 DEF DamageFile
    <2>6. CASE Open
      BY <2>6 DEF Open, BootState
    <2> QED
      BY <1>10, <2>1, <2>2, <2>3, <2>4, <2>5, <2>6 DEF Environment
  <1>11. CASE UNCHANGED vars
    BY <1>11 DEF vars
  <1> QED
    BY <1>1, <1>2, <1>3, <1>4, <1>5, <1>6, <1>7, <1>8, <1>9, <1>10, <1>11
       DEF Next, CallStep

(***************************************************************************)
(* The inductive invariant: at most one goroutine is inside the mutex,     *)
(* memory and file differ only between its rename and its commit, and what *)
(* it is writing fits the call it is in.                                   *)
(***************************************************************************)
THEOREM Invariance == Spec => []IInv
  BY InitInv, InvStep, PTL DEF Spec

(* Type correctness of the switch, its file and its callers. *)
THEOREM TypeCorrect == Spec => []TypeOK
  BY Invariance, PTL DEF IInv

(***************************************************************************)
(* Persist-before-commit: whenever no call holds the mutex, memory and     *)
(* file agree.                                                             *)
(***************************************************************************)
THEOREM PersistBeforeCommit == Spec => []MemoryMatchesFile
  <1>1. IInv => MemoryMatchesFile
    BY DEF IInv, FileInv, MemoryMatchesFile
  <1> QED BY <1>1, Invariance, PTL

-----------------------------------------------------------------------------
(* The acknowledged halts.  A rename to "None" is the only step that takes  *)
(* back what a Halt reported, and it withdraws the acknowledgement too.     *)
LEMMA AckInit == Init => AckInv
  BY DEF Init, AckInv

(* Each action keeps the acknowledgement true to the halt in force.         *)
LEMMA AckStep == ASSUME ~PowerLosses, IInv, AckInv, [Next]_vars PROVE AckInv'
  <1>t. TypeOK /\ TypeOK'
    BY TypeStep DEF IInv
  <1> USE <1>t, CallersAssumption, LoadedKind
      DEF IInv, TypeOK, MutexInv, StoppedInv, FileInv, CallInv, AckInv, Persisting,
          files, calls, guard, history, environment
  <1>1. ASSUME NEW c \in Callers, NEW o \in Ops \ {"none"}, Invoke(c, o) PROVE AckInv'
    BY <1>1 DEF Invoke
  <1>2. ASSUME NEW c \in Callers, NEW kind \in Causes, Halt(c, kind) PROVE AckInv'
    BY <1>2 DEF Halt, HasMutex, Return, Unlock, StartPersist, FirstCauseKept
  <1>3. ASSUME NEW c \in Callers, Clear(c) PROVE AckInv'
    BY <1>3 DEF Clear, HasMutex, Return, Unlock, StartPersist
  <1>4. ASSUME NEW c \in Callers, RecordOrder(c) PROVE AckInv'
    BY <1>4 DEF RecordOrder, HasMutex, Return, Unlock, StartPersist
  <1>5. ASSUME NEW c \in Callers, IsHalted(c) PROVE AckInv'
    BY <1>5 DEF IsHalted, FlagDecides, HasMutex, Return, Unlock
  <1>6. ASSUME NEW c \in Callers, AskBroker(c) PROVE AckInv'
    BY <1>6 DEF AskBroker
  <1>7. ASSUME NEW c \in Callers, PersistFails(c) PROVE AckInv'
    BY <1>7 DEF PersistFails, KeepMemory, Return, Unlock
  <1>8. ASSUME NEW c \in Callers, Rename(c) PROVE AckInv'
    BY <1>8 DEF Rename
  <1>9. ASSUME NEW c \in Callers, Commit(c) PROVE AckInv'
    BY <1>9 DEF Commit, Return, Unlock
  <1>10. ASSUME Environment PROVE AckInv'
    <2>1. CASE Tick
      BY <2>1 DEF Tick
    <2>2. CASE BrokerFlips
      BY <2>2 DEF BrokerFlips
    <2>3. CASE Flush
      BY <2>3 DEF Flush
    <2>4. CASE ProcessCrash
      BY <2>4 DEF ProcessCrash, StopProcess
    <2>5. CASE DamageFile
      BY <2>5 DEF DamageFile, Loaded
    <2>6. CASE Open
      BY <2>6 DEF Open, BootState
    <2>7. ~PowerLoss
      BY DEF PowerLoss
    <2> QED
      BY <1>10, <2>1, <2>2, <2>3, <2>4, <2>5, <2>6, <2>7 DEF Environment
  <1>11. CASE UNCHANGED vars
    BY <1>11 DEF vars
  <1> QED
    BY <1>1, <1>2, <1>3, <1>4, <1>5, <1>6, <1>7, <1>8, <1>9, <1>10, <1>11
       DEF Next, CallStep

(* Without power losses an acknowledged halt is always in force.            *)
LEMMA AckInvariance == ASSUME ~PowerLosses PROVE Spec => []AckInv
  BY AckInit, AckStep, Invariance, PTL DEF Spec

(***************************************************************************)
(* A reported halt outlives every process crash until a Clear replaces the *)
(* file.                                                                   *)
(***************************************************************************)
THEOREM ReportedHaltSurvives ==
  ASSUME ~PowerLosses PROVE Spec => []HaltSurvivesRestart
  <1>1. AckInv => HaltSurvivesRestart
    BY DEF AckInv, HaltSurvivesRestart, Effective
  <1> QED BY <1>1, AckInvariance, PTL

(* The answers of IsHalted: a caller told "clear" carries no standing       *)
(* acknowledgement from before its call.                                    *)
AnswerInv == NoMissedHalt /\ AckInv

(* Each action keeps the answers already given sound.                       *)
LEMMA AnswerStep == ASSUME ~PowerLosses, IInv, AnswerInv, [Next]_vars PROVE AnswerInv'
  <1>1. AckInv'
    BY AckStep DEF AnswerInv
  <1>t. TypeOK /\ TypeOK'
    BY TypeStep DEF IInv
  <1> SUFFICES NoMissedHalt'
    BY <1>1 DEF AnswerInv
  <1> USE <1>t, CallersAssumption
      DEF IInv, TypeOK, AnswerInv, AckInv, NoMissedHalt, FileInv, files, calls, guard, history, environment
  <1>2. ASSUME NEW c \in Callers, NEW o \in Ops \ {"none"}, Invoke(c, o) PROVE NoMissedHalt'
    BY <1>2 DEF Invoke
  <1>3. ASSUME NEW c \in Callers, CallStep(c) PROVE NoMissedHalt'
    <2>1. ASSUME NEW kind \in Causes, Halt(c, kind) PROVE NoMissedHalt'
      BY <2>1 DEF Halt, HasMutex, Return, StartPersist
    <2>2. CASE Clear(c)
      BY <2>2 DEF Clear, HasMutex, Return, StartPersist
    <2>3. CASE RecordOrder(c)
      BY <2>3 DEF RecordOrder, HasMutex, Return, StartPersist
    <2>4. CASE IsHalted(c)
      BY <2>4 DEF IsHalted, FlagDecides, HasMutex, Return
    <2>5. CASE AskBroker(c)
      BY <2>5 DEF AskBroker
    <2>6. CASE PersistFails(c)
      BY <2>6 DEF PersistFails, Return
    <2>7. CASE Rename(c)
      BY <2>7 DEF Rename
    <2>8. CASE Commit(c)
      BY <2>8 DEF Commit, Return
    <2> QED BY <1>3, <2>1, <2>2, <2>3, <2>4, <2>5, <2>6, <2>7, <2>8 DEF CallStep
  <1>4. ASSUME Environment PROVE NoMissedHalt'
    BY <1>4 DEF Environment, Tick, BrokerFlips, Flush, ProcessCrash, PowerLoss,
                StopProcess, DamageFile, Open
  <1>5. CASE UNCHANGED vars
    BY <1>5 DEF vars
  <1> QED BY <1>2, <1>3, <1>4, <1>5 DEF Next

(***************************************************************************)
(* IsHalted never answers "clear" to a caller that asked after a halt was  *)
(* acknowledged, unless a Clear replaced the file meanwhile.               *)
(***************************************************************************)
THEOREM NoHaltIsMissed == ASSUME ~PowerLosses PROVE Spec => []NoMissedHalt
  <1>1. Init => AnswerInv
    BY AckInit DEF AnswerInv, NoMissedHalt, Init
  <1>2. AnswerInv => NoMissedHalt
    BY DEF AnswerInv
  <1> QED BY <1>1, <1>2, AnswerStep, Invariance, PTL DEF Spec

-----------------------------------------------------------------------------
(***************************************************************************)
(* The refinement.  Every step of the switch is a step of the durable      *)
(* status or leaves it alone: the status changes at the commit, or at a    *)
(* crash that catches a call between its rename and its commit.            *)
(***************************************************************************)
LEMMA SwitchInit == Init => Switch!Init
  BY LoadedKind DEF Init, Switch!Init, Effective, OpenCalls, Shown, Kinds, Files, Switch!Kinds,
                    RunawayKind, Switch!RunawayKind

(* The state a call is writing is an effect the abstract call may have. *)
LEMMA WrittenIsEffect ==
  ASSUME IInv, NEW c \in Callers, Persisting(c), mem = Effective
  PROVE  new \in Switch!Effects(Shown(op[c]))
  BY CausesAssumption DEF IInv, CallInv, TypeOK, Switch!Effects, Switch!Kinds, Kinds,
     RunawayKind, Switch!RunawayKind, Shown

(* Every step maps to a step of the durable status or to a stutter.         *)
LEMMA SwitchStep ==
  ASSUME ~PowerLosses, IInv, [Next]_vars
  PROVE  [Switch!Next]_(Switch!vars)
  <1>t. TypeOK /\ TypeOK'
    BY TypeStep DEF IInv
  <1>o. ASSUME NEW c \in Callers, NEW call, op' = [op EXCEPT ![c] = call]
        PROVE  OpenCalls' = [OpenCalls EXCEPT ![c] = Shown(call)]
    BY <1>o, <1>t DEF TypeOK, OpenCalls
  <1>b. ASSUME NEW c \in Callers, NEW o \in Ops \ {"none"}, op[c] = "none",
               op' = [op EXCEPT ![c] = o], UNCHANGED Effective
        PROVE  Switch!Begin(c, o) \/ UNCHANGED Switch!vars
    <2>1. CASE o = "IsHalted"
      <3>1. OpenCalls' = OpenCalls
        BY <1>o, <1>b, <2>1 DEF OpenCalls, Shown
      <3> QED BY <1>b, <3>1 DEF Switch!vars
    <2>2. CASE o # "IsHalted"
      <3>1. OpenCalls' = [OpenCalls EXCEPT ![c] = o] /\ OpenCalls[c] = "none"
        BY <1>o, <1>b, <2>2 DEF OpenCalls, Shown
      <3> QED BY <1>b, <3>1 DEF Switch!Begin
    <2> QED BY <2>1, <2>2
  <1>r. ASSUME NEW c \in Callers, op[c] # "none", op' = [op EXCEPT ![c] = "none"],
               Effective' \in Switch!Effects(Shown(op[c])) \cup {Effective}
        PROVE  [Switch!End(c)]_(Switch!vars)
    <2>1. OpenCalls' = [OpenCalls EXCEPT ![c] = "none"]
      BY <1>o, <1>r DEF Shown
    <2>2. CASE op[c] = "IsHalted"
      <3>1. Effective' = Effective
        BY <1>r, <2>2, CausesAssumption DEF Switch!Effects, Shown
      <3>2. OpenCalls' = OpenCalls
        BY <2>1, <2>2 DEF OpenCalls, Shown
      <3> QED BY <3>1, <3>2 DEF Switch!vars
    <2>3. CASE op[c] # "IsHalted"
      <3>1. OpenCalls[c] = Shown(op[c]) /\ Shown(op[c]) # "none"
        BY <1>r, <2>3 DEF OpenCalls, Shown
      <3> QED BY <1>r, <2>1, <3>1 DEF Switch!End
    <2> QED BY <2>2, <2>3
  <1>q. ASSUME NEW c \in Callers, op[c] # "none", op' = [op EXCEPT ![c] = "none"],
               UNCHANGED Effective
        PROVE  [Switch!End(c)]_(Switch!vars)
    BY <1>q, <1>r
  <1>s. ASSUME UNCHANGED <<op, Effective>> PROVE UNCHANGED Switch!vars
    BY <1>s DEF Switch!vars, OpenCalls
  <1> USE <1>t, CallersAssumption
      DEF IInv, TypeOK, MutexInv, StoppedInv, FileInv, CallInv, Persisting, Effective,
          files, calls, guard, history, environment
  <1> DEFINE Step == [Switch!Next]_(Switch!vars)
  <1>1. ASSUME NEW c \in Callers, NEW o \in Ops \ {"none"}, Invoke(c, o) PROVE Step
    <2>1. op[c] = "none" /\ op' = [op EXCEPT ![c] = o] /\ UNCHANGED <<up, mem, disk>>
      BY <1>1 DEF Invoke, CallInv
    <2>2. Switch!Begin(c, o) \/ UNCHANGED Switch!vars
      BY <2>1, <1>b
    <2>3. Switch!Begin(c, o) => o \in Switch!Calls \ {"none"}
      <3>1. ASSUME o = "IsHalted" PROVE ~Switch!Begin(c, o)
        <4>1. UNCHANGED OpenCalls
          BY <2>1, <3>1, <1>o DEF OpenCalls, Shown
        <4>2. OpenCalls[c] = "none"
          BY <2>1 DEF OpenCalls, Shown
        <4> QED BY <3>1, <4>1, <4>2 DEF Switch!Begin, OpenCalls
      <3> QED BY <1>1, <3>1 DEF Switch!Calls, Ops
    <2> QED BY <2>3, <2>2 DEF Switch!Next
  <1>2. ASSUME NEW c \in Callers, CallStep(c) PROVE Step
    <2>1. [Switch!End(c)]_(Switch!vars) => Step
      BY DEF Switch!Next
    <2>2. ASSUME NEW kind \in Causes, Halt(c, kind) PROVE Step
      BY <2>1, <2>2, <1>q, <1>s DEF Halt, HasMutex, Return, StartPersist
    <2>3. CASE Clear(c)
      BY <2>1, <2>3, <1>q, <1>s DEF Clear, HasMutex, Return, StartPersist
    <2>4. CASE RecordOrder(c)
      BY <2>1, <2>4, <1>q, <1>s DEF RecordOrder, HasMutex, Return, StartPersist
    <2>5. CASE IsHalted(c)
      BY <2>1, <2>5, <1>q, <1>s DEF IsHalted, HasMutex, Return
    <2>6. CASE AskBroker(c)
      BY <2>1, <2>6, <1>q DEF AskBroker
    <2>7. CASE PersistFails(c)
      BY <2>1, <2>7, <1>q DEF PersistFails, KeepMemory, Return
    <2>8. CASE Rename(c)
      BY <2>8, <1>s DEF Rename
    <2>9. CASE Commit(c)
      <3>1. new \in Switch!Effects(Shown(op[c]))
        BY <2>9, WrittenIsEffect DEF Commit
      <3> QED BY <2>1, <2>9, <3>1, <1>r DEF Commit, Return
    <2> QED
      BY <1>2, <2>2, <2>3, <2>4, <2>5, <2>6, <2>7, <2>8, <2>9 DEF CallStep
  <1>3. ASSUME Environment PROVE Step
    <2>1. CASE Tick \/ BrokerFlips \/ Flush
      BY <2>1, <1>s DEF Tick, BrokerFlips, Flush
    <2>2. CASE ProcessCrash
      <3>1. OpenCalls' = [c \in Callers |-> "none"]
        BY <2>2 DEF ProcessCrash, StopProcess, OpenCalls, Shown
      <3>2. CASE Effective' = Effective
        BY <3>1, <3>2 DEF Switch!Crash, Switch!Next
      <3>3. CASE Effective' # Effective
        <4>1. PICK c \in Callers : pc[c] = "renamed"
          BY <2>2, <3>3 DEF ProcessCrash, StopProcess
        <4>2. new \in Switch!Effects(Shown(op[c]))
          BY <2>2, <4>1, WrittenIsEffect DEF ProcessCrash, StopProcess
        <4>3. Effective' = new /\ OpenCalls[c] = Shown(op[c])
          BY <2>2, <4>1, LoadedKind DEF ProcessCrash, StopProcess, OpenCalls
        <4> QED BY <3>1, <4>2, <4>3 DEF Switch!Crash, Switch!Next
      <3> QED BY <3>2, <3>3
    <2>3. CASE DamageFile
      <3>1. Effective' = "Manual" /\ UNCHANGED op
        BY <2>3 DEF DamageFile, Loaded
      <3>2. OpenCalls = [c \in Callers |-> "none"] /\ UNCHANGED OpenCalls
        BY <2>3, <3>1 DEF DamageFile, OpenCalls, Shown
      <3> QED BY <3>1, <3>2 DEF Switch!Damaged, Switch!Next
    <2>4. CASE Open
      BY <2>4, <1>s DEF Open, BootState
    <2>5. ~PowerLoss
      BY DEF PowerLoss
    <2> QED BY <1>3, <2>1, <2>2, <2>3, <2>4, <2>5 DEF Environment
  <1>4. CASE UNCHANGED vars
    BY <1>4, <1>s DEF vars
  <1> QED BY <1>1, <1>2, <1>3, <1>4 DEF Next

(***************************************************************************)
(* The switch with its file, mutex and crashes implements the one durable  *)
(* status of DurableSwitch, for any number of callers.                     *)
(***************************************************************************)
THEOREM ImplementsDurableSwitch ==
  ASSUME ~PowerLosses PROVE Spec => IsDurableSwitch
  BY SwitchInit, SwitchStep, Invariance, PTL DEF Spec, Switch!Spec, IsDurableSwitch

-----------------------------------------------------------------------------
(* A step that ends the halt in force finds a Clear call at its write.      *)
LEMMA ResumeStep ==
  ASSUME ~PowerLosses, IInv, [Next]_vars, Effective # "None", Effective' = "None"
  PROVE  \E c \in Callers : op[c] = "Clear" /\ pc[c] \in {"write", "renamed"}
  <1>t. TypeOK /\ TypeOK'
    BY TypeStep DEF IInv
  <1> USE <1>t, CausesAssumption
      DEF IInv, TypeOK, MutexInv, StoppedInv, FileInv, CallInv, Persisting, Effective,
          files, calls, guard, history, environment
  <1>1. ASSUME NEW c \in Callers, pc[c] = "renamed", new = "None"
        PROVE  op[c] = "Clear"
    BY <1>1 DEF RunawayKind
  <1>2. ASSUME NEW c \in Callers, CallStep(c) PROVE Commit(c) /\ new = "None"
    <2>1. \A kind \in Causes : ~Halt(c, kind)
      BY DEF Halt
    <2>2. ~Clear(c) /\ ~RecordOrder(c) /\ ~IsHalted(c) /\ ~AskBroker(c)
      BY DEF Clear, RecordOrder, IsHalted, AskBroker
    <2>3. ~PersistFails(c) /\ ~Rename(c)
      BY DEF PersistFails, KeepMemory, Rename
    <2> QED BY <1>2, <2>1, <2>2, <2>3 DEF CallStep, Commit
  <1>3. ASSUME Environment
        PROVE  \E c \in Callers : pc[c] = "renamed" /\ new = "None"
    <2>1. ~Tick /\ ~BrokerFlips /\ ~Flush /\ ~PowerLoss
      BY DEF Tick, BrokerFlips, Flush, PowerLoss
    <2>2. ~DamageFile /\ ~Open
      BY LoadedKind DEF DamageFile, Open, BootState, Loaded
    <2>3. CASE ProcessCrash
      <3>1. PICK c \in Callers : pc[c] = "renamed"
        BY <2>3, CallersAssumption DEF ProcessCrash, StopProcess
      <3> QED BY <2>3, <3>1, LoadedKind DEF ProcessCrash, StopProcess
    <2> QED BY <1>3, <2>1, <2>2, <2>3 DEF Environment
  <1>4. ASSUME NEW c \in Callers, NEW o \in Ops, Invoke(c, o) PROVE FALSE
    BY <1>4 DEF Invoke
  <1>5. ~UNCHANGED vars
    BY DEF vars
  <1> QED
    BY <1>1, <1>2, <1>3, <1>4, <1>5 DEF Next, Commit

(***************************************************************************)
(* Only a Clear ends a halt: no crash, restart, failed write or other call *)
(* ever does.                                                              *)
(***************************************************************************)
THEOREM OnlyClear == ASSUME ~PowerLosses PROVE Spec => OnlyClearResumes
  <1>1. ASSUME IInv, [Next]_vars
        PROVE  [Effective # "None" /\ Effective' = "None"
                  => \E c \in Callers : op[c] = "Clear" /\ pc[c] \in {"write", "renamed"}]_vars
    BY <1>1, ResumeStep
  <1> QED BY <1>1, Invariance, PTL DEF Spec, OnlyClearResumes

-----------------------------------------------------------------------------
(***************************************************************************)
(* A power loss.  What a call wrote and flushed itself is on the platter;  *)
(* only the rename of a Clear, which withdraws the commitment, can change  *)
(* that.  SyncErrors is excluded: an fsync whose error is dropped leaves   *)
(* the platter behind.                                                     *)
(***************************************************************************)
PlatterInv == committed => /\ Loaded(disk) # "None" /\ Loaded(platter) # "None"
                           /\ up => mem # "None"

(* Each action keeps a committed halt in memory, in the file and flushed.   *)
LEMMA PlatterStep == ASSUME ~SyncErrors, IInv, PlatterInv, [Next]_vars PROVE PlatterInv'
  <1>t. TypeOK /\ TypeOK'
    BY TypeStep DEF IInv
  <1> USE <1>t, LoadedKind
      DEF IInv, TypeOK, FileInv, CallInv, Persisting, PlatterInv,
          files, calls, guard, history, environment
  <1>1. ASSUME NEW c \in Callers, NEW o \in Ops \ {"none"}, Invoke(c, o) PROVE PlatterInv'
    BY <1>1 DEF Invoke
  <1>2. ASSUME NEW c \in Callers, CallStep(c) PROVE PlatterInv'
    <2>1. ASSUME NEW kind \in Causes, Halt(c, kind) PROVE PlatterInv'
      BY <2>1 DEF Halt
    <2>2. CASE Clear(c) \/ RecordOrder(c) \/ IsHalted(c) \/ AskBroker(c)
      BY <2>2 DEF Clear, RecordOrder, IsHalted, AskBroker
    <2>3. CASE PersistFails(c)
      BY <2>3 DEF PersistFails, KeepMemory
    <2>4. CASE Rename(c)
      BY <2>4 DEF Rename
    <2>5. CASE Commit(c)
      BY <2>5 DEF Commit, SyncDir
    <2> QED BY <1>2, <2>1, <2>2, <2>3, <2>4, <2>5 DEF CallStep
  <1>3. ASSUME Environment PROVE PlatterInv'
    <2>1. CASE Tick \/ BrokerFlips \/ Flush
      BY <2>1 DEF Tick, BrokerFlips, Flush
    <2>2. CASE ProcessCrash \/ PowerLoss
      BY <2>2 DEF ProcessCrash, PowerLoss, StopProcess
    <2>3. CASE DamageFile
      BY <2>3 DEF DamageFile, Loaded
    <2>4. CASE Open
      BY <2>4 DEF Open, BootState
    <2> QED BY <1>3, <2>1, <2>2, <2>3, <2>4 DEF Environment
  <1>4. CASE UNCHANGED vars
    BY <1>4 DEF vars
  <1> QED BY <1>1, <1>2, <1>3, <1>4 DEF Next

(***************************************************************************)
(* A halt whose own call wrote and flushed the file outlives process       *)
(* crashes, power losses and damage to the file, in any order, until a     *)
(* Clear replaces the file: for any callers, and whether or not the        *)
(* machine loses power.                                                    *)
(***************************************************************************)
THEOREM CommittedHaltOutlivesPower ==
  ASSUME ~SyncErrors PROVE Spec => []CommittedHaltSurvivesPowerLoss
  <1>1. Init => PlatterInv
    BY DEF Init, PlatterInv
  <1>2. PlatterInv => CommittedHaltSurvivesPowerLoss
    BY DEF PlatterInv, CommittedHaltSurvivesPowerLoss, Effective
  <1> QED BY <1>1, <1>2, PlatterStep, Invariance, PTL DEF Spec

-----------------------------------------------------------------------------
(***************************************************************************)
(* The runaway guard.  Orders that were counted in one list carry the same *)
(* since; the present list still holds every one of its orders that a      *)
(* later window can count, and in every window, also one that ends after   *)
(* the clock, each list is within the bound.                               *)
(***************************************************************************)
Counted(orders, now, s) ==
  {o \in orders : now - Window < o.at /\ o.at <= now /\ o.since = s}

GuardInv ==
  /\ IsFiniteSet(orderTimes) /\ IsFiniteSet(passed)
  /\ since <= recorded
  /\ \A o \in passed : o.at <= clock /\ o.since < recorded /\ o.since <= since
  /\ \A o \in passed : o.since = since /\ o.at > clock - Window => o \in orderTimes
  /\ \A now, s \in Nat : Cardinality(Counted(passed, now, s)) <= MaxOrders

(* Before the first order every window is empty, within any bound. *)
LEMMA NothingLetThrough == Init => GuardInv
  <1> SUFFICES ASSUME Init PROVE GuardInv
    OBVIOUS
  <1>1. \A now, s \in Nat : Counted(passed, now, s) = {}
    BY DEF Init, Counted
  <1> QED BY <1>1, FS_EmptySet, GuardAssumption DEF Init, GuardInv

(* An order that is let through makes no window larger than the list the    *)
(* guard has just counted.                                                  *)
LEMMA RecordStep ==
  ASSUME TypeOK, GuardInv, NEW c \in Callers, RecordOrder(c) PROVE GuardInv'
  <1> USE GuardAssumption DEF TypeOK
  <1> DEFINE order == [at |-> clock, id |-> recorded, since |-> since]
             kept  == InWindow(orderTimes, clock) \cup {order}
  <1>1. CASE UNCHANGED guard
    BY <1>1 DEF RecordOrder, environment, guard, GuardInv, Counted
  <1>2. CASE orderTimes' = kept /\ recorded' = recorded + 1 /\ since' = since
    <2>1. IsFiniteSet(kept)
      <3>1. IsFiniteSet(InWindow(orderTimes, clock))
        BY FS_Subset DEF GuardInv, InWindow
      <3> QED BY <3>1, FS_AddElement
    <2>2. clock' = clock
      BY DEF RecordOrder, environment
    <2>3. \A o \in passed : o.since = since /\ o.at > clock - Window => o \in kept
      BY DEF GuardInv, InWindow
    <2>4. CASE passed' = passed
      BY <1>2, <2>1, <2>2, <2>3, <2>4 DEF GuardInv, Counted
    <2>5. CASE passed' = passed \cup {order} /\ Cardinality(kept) <= MaxOrders
      <3>1. order.at = clock /\ order.since = since /\ order \in kept
        OBVIOUS
      <3> HIDE DEF kept, order
      <3>2. \A o \in passed' : o.at <= clock /\ o.since < recorded + 1 /\ o.since <= since
        BY <2>5, <3>1 DEF GuardInv
      <3>3. \A o \in passed' : o.since = since /\ o.at > clock - Window => o \in kept
        BY <2>3, <2>5, <3>1
      <3>4. ASSUME NEW now \in Nat, NEW s \in Nat
            PROVE  Cardinality(Counted(passed', now, s)) <= MaxOrders
        <4>1. CASE now < clock \/ s # since
          <5>1. Counted(passed', now, s) = Counted(passed, now, s)
            BY <4>1, <2>5, <3>1 DEF Counted
          <5> QED BY <5>1 DEF GuardInv
        <4>2. CASE now >= clock /\ s = since
          <5>1. Counted(passed', now, s) \subseteq kept
            <6>1. \A o \in passed' : o.at \in Nat
              BY <2>5, <3>1 DEF TypeOK
            <6> QED BY <4>2, <3>3, <6>1 DEF Counted
          <5>2. /\ IsFiniteSet(Counted(passed', now, s))
                /\ Cardinality(Counted(passed', now, s)) <= Cardinality(kept)
            BY <5>1, <2>1, FS_Subset
          <5>3. /\ Cardinality(Counted(passed', now, s)) \in Nat
                /\ Cardinality(kept) \in Nat
            BY <5>2, <2>1, FS_CardinalityType
          <5> QED BY <5>2, <5>3, <2>5
        <4> QED BY <4>1, <4>2
      <3>5. IsFiniteSet(passed')
        BY <2>5, FS_AddElement DEF GuardInv
      <3>6. since <= recorded + 1
        BY DEF GuardInv
      <3> QED BY <1>2, <2>1, <2>2, <3>2, <3>3, <3>4, <3>5, <3>6 DEF GuardInv
    <2>6. passed' = passed \/ (passed' = passed \cup {order} /\ Cardinality(kept) <= MaxOrders)
      <3>1. Cardinality(kept) \in Nat
        BY <2>1, FS_CardinalityType
      <3> QED BY <1>2, <3>1 DEF RecordOrder, guard
    <2> QED BY <2>4, <2>5, <2>6
  <1> QED BY <1>1, <1>2 DEF RecordOrder

(* A new list holds no order yet: those let through carry an older since.   *)
LEMMA EmptiedStep ==
  ASSUME TypeOK, GuardInv, EmptyWindow, UNCHANGED <<clock, recorded, passed>>
  PROVE  GuardInv'
  <1>1. \A o \in passed : o.since < recorded /\ o.since \in Nat
    BY DEF TypeOK, GuardInv
  <1>2. IsFiniteSet(orderTimes')
    BY FS_EmptySet DEF EmptyWindow
  <1> QED BY <1>1, <1>2 DEF TypeOK, GuardInv, EmptyWindow, Counted

(* Each action keeps the guard's list complete and its windows bounded.     *)
LEMMA GuardStep == ASSUME TypeOK, GuardInv, [Next]_vars PROVE GuardInv'
  <1>u. ASSUME UNCHANGED <<guard, clock>> PROVE GuardInv'
    BY <1>u DEF guard, GuardInv, Counted
  <1>1. ASSUME NEW c \in Callers, NEW o \in Ops \ {"none"}, Invoke(c, o) PROVE GuardInv'
    BY <1>1, <1>u DEF Invoke, environment
  <1>2. ASSUME NEW c \in Callers, CallStep(c) PROVE GuardInv'
    <2>1. ASSUME NEW kind \in Causes, Halt(c, kind) PROVE GuardInv'
      BY <2>1, <1>u DEF Halt, environment
    <2>2. CASE Clear(c) \/ IsHalted(c) \/ AskBroker(c) \/ PersistFails(c) \/ Rename(c)
      BY <2>2, <1>u DEF Clear, IsHalted, AskBroker, PersistFails, Rename, environment
    <2>3. CASE RecordOrder(c)
      BY <2>3, RecordStep
    <2>4. CASE Commit(c)
      BY <2>4, <1>u, EmptiedStep DEF Commit, environment, guard
    <2> QED BY <1>2, <2>1, <2>2, <2>3, <2>4 DEF CallStep
  <1>3. ASSUME Environment PROVE GuardInv'
    <2>1. CASE Tick
      <3>1. clock \in Nat /\ clock' = clock + 1 /\ UNCHANGED guard
        BY <2>1 DEF Tick, TypeOK
      <3>2. \A o \in passed : o.at \in Nat
        BY DEF TypeOK
      <3>3. \A o \in passed : o.since = since /\ o.at > clock + 1 - Window => o \in orderTimes
        BY <3>1, <3>2, GuardAssumption DEF GuardInv
      <3>4. \A o \in passed : o.at <= clock + 1
        BY <3>1, <3>2 DEF GuardInv
      <3> QED BY <3>1, <3>3, <3>4, GuardAssumption DEF guard, GuardInv, Counted
    <2>2. CASE BrokerFlips \/ Flush \/ DamageFile \/ Open
      BY <2>2, <1>u DEF BrokerFlips, Flush, DamageFile, Open, environment
    <2>3. CASE ProcessCrash \/ PowerLoss
      BY <2>3, EmptiedStep DEF ProcessCrash, PowerLoss, StopProcess, environment
    <2> QED BY <1>3, <2>1, <2>2, <2>3 DEF Environment
  <1>4. CASE UNCHANGED vars
    BY <1>4, <1>u DEF vars, guard, environment
  <1> QED BY <1>1, <1>2, <1>3, <1>4 DEF Next

(* If each list has at most limit orders in the set, then orders of n lists *)
(* are at most limit times n.                                               *)
LEMMA OrdersOfLists ==
  ASSUME NEW orders, IsFiniteSet(orders), NEW limit \in Nat, NEW top \in Nat,
         \A s \in Nat : Cardinality({o \in orders : o.since = s}) <= limit
  PROVE  \A n \in Nat : \A T \in SUBSET (0..top) :
             Cardinality(T) = n => Cardinality({o \in orders : o.since \in T}) <= limit * n
  <1> DEFINE Of(T) == {o \in orders : o.since \in T}
             Good  == {n \in Nat : \A T \in SUBSET (0..top) :
                           Cardinality(T) = n => Cardinality(Of(T)) <= limit * n}
  <1>f. \A T \in SUBSET (0..top) : IsFiniteSet(T)
    BY FS_Interval, FS_Subset, 0 \in Int, top \in Int
  <1>1. 0 \in Good
    <2>1. ASSUME NEW T \in SUBSET (0..top), Cardinality(T) = 0
          PROVE  Cardinality(Of(T)) <= limit * 0
      <3>1. T = {}
        BY <1>f, <2>1, FS_EmptySet
      <3>2. Of(T) = {}
        BY <3>1
      <3>3. limit * 0 = 0 /\ Cardinality({}) = 0
        BY FS_EmptySet
      <3> HIDE DEF Of
      <3> QED BY <3>2, <3>3
    <2> QED BY <2>1
  <1>2. ASSUME NEW n \in Nat, n \in Good PROVE n + 1 \in Good
    <2>1. ASSUME NEW T \in SUBSET (0..top), Cardinality(T) = n + 1
          PROVE  Cardinality(Of(T)) <= limit * (n + 1)
      <3>1. PICK t \in T : TRUE
        <4>1. T # {}
          BY <2>1, FS_EmptySet
        <4> QED BY <4>1
      <3>2. Cardinality(T \ {t}) = n
        <4>1. Cardinality(T \ {t}) = Cardinality(T) - 1
          BY <1>f, <3>1, FS_RemoveElement
        <4> QED BY <2>1, <4>1
      <3>3. Cardinality(Of(T \ {t})) <= limit * n
        BY <1>2, <3>2
      <3>4. Cardinality(Of({t})) <= limit
        <4>1. t \in Nat /\ Of({t}) = {o \in orders : o.since = t}
          BY <3>1
        <4> QED BY <4>1
      <3>5. Of(T) = Of(T \ {t}) \cup Of({t})
        BY <3>1
      <3>6. IsFiniteSet(Of(T \ {t})) /\ IsFiniteSet(Of({t}))
        BY FS_Subset
      <3>7. Cardinality(Of(T)) <= Cardinality(Of(T \ {t})) + Cardinality(Of({t}))
        <4> HIDE DEF Of
        <4>1. IsFiniteSet(Of(T \ {t}) \cap Of({t}))
          BY <3>6, FS_Subset
        <4>2. /\ Cardinality(Of(T)) = Cardinality(Of(T \ {t})) + Cardinality(Of({t}))
                                       - Cardinality(Of(T \ {t}) \cap Of({t}))
              /\ Cardinality(Of(T \ {t}) \cap Of({t})) \in Nat
              /\ Cardinality(Of(T \ {t})) \in Nat
              /\ Cardinality(Of({t})) \in Nat
          BY <3>5, <3>6, <4>1, FS_Union, FS_CardinalityType
        <4> QED BY <4>2
      <3>8. IsFiniteSet(Of(T)) /\ limit * n \in Nat /\ limit * (n + 1) = limit * n + limit
        BY FS_Subset
      <3>9. /\ Cardinality(Of(T)) \in Nat
            /\ Cardinality(Of(T \ {t})) \in Nat
            /\ Cardinality(Of({t})) \in Nat
        BY <3>6, <3>8, FS_CardinalityType
      <3> HIDE DEF Of
      <3> QED BY <3>3, <3>4, <3>7, <3>8, <3>9
    <2> QED BY <2>1, <1>2
  <1> HIDE DEF Good
  <1>3. \A n \in Nat : n \in Good
    BY <1>1, <1>2, SetInduction
  <1> QED BY <1>3 DEF Good

(***************************************************************************)
(* The runaway guard holds its bound for any number of goroutines, any     *)
(* window and any limit: a window holds at most MaxOrders orders for each  *)
(* list it was counted in, whatever writes fail, halts stand and Clears    *)
(* run meanwhile, and also when a crash or a power loss makes a restart    *)
(* begin with an empty list.                                               *)
(***************************************************************************)
THEOREM RunawayIsBounded == Spec => []RunawayBound
  <1>1. ASSUME TypeOK, GuardInv PROVE RunawayBound
    <2>1. ASSUME NEW now \in 0..MaxClock
          PROVE  Cardinality(LetThrough(now)) <= MaxOrders * Cardinality(Lists(LetThrough(now)))
      <3> DEFINE T == Lists(LetThrough(now))
      <3>1. now \in Nat /\ IsFiniteSet(LetThrough(now))
        BY <1>1, GuardAssumption, FS_Subset DEF GuardInv, LetThrough
      <3>2. ASSUME NEW s \in Nat
            PROVE  Cardinality({o \in LetThrough(now) : o.since = s}) <= MaxOrders
        <4>1. {o \in LetThrough(now) : o.since = s} = Counted(passed, now, s)
          BY DEF LetThrough, Counted
        <4> QED BY <1>1, <3>1, <4>1 DEF GuardInv
      <3>3. T \in SUBSET (0..recorded) /\ recorded \in Nat
        BY <1>1 DEF TypeOK, GuardInv, LetThrough, Lists
      <3>4. IsFiniteSet(T)
        BY <3>3, FS_Interval, FS_Subset, 0 \in Int, recorded \in Int
      <3>5. Cardinality(T) \in Nat
        BY <3>4, FS_CardinalityType
      <3>6. \A n \in Nat : \A U \in SUBSET (0..recorded) :
                Cardinality(U) = n =>
                    Cardinality({o \in LetThrough(now) : o.since \in U}) <= MaxOrders * n
        BY <3>1, <3>2, <3>3, GuardAssumption, OrdersOfLists
      <3>7. {o \in LetThrough(now) : o.since \in T} = LetThrough(now)
        BY DEF Lists
      <3> HIDE DEF T
      <3>8. Cardinality({o \in LetThrough(now) : o.since \in T}) <= MaxOrders * Cardinality(T)
        BY <3>3, <3>5, <3>6
      <3> QED BY <3>7, <3>8 DEF T
    <2> QED BY <2>1 DEF RunawayBound
  <1> QED BY <1>1, NothingLetThrough, GuardStep, TypeCorrect, PTL DEF Spec
=============================================================================
