------------------------ MODULE OrderJournal_proofs ------------------------
(***************************************************************************)
(* The journal, for any orders, sizes, faults and bounds.  An order the    *)
(* venue has, or may still get, has its intent on stable storage (IInv);   *)
(* what an append acknowledged is in every later replay (KeptInv); a       *)
(* replay says of an order only what the venue has of it (UserInv), and,   *)
(* but for appends that failed, what the process knows (FollowInv): so it  *)
(* refuses only the lines ReplayFailsOnlyWhen names, and a gap of the boot *)
(* reconciliation has the reasons GapHasAReason gives.                     *)
(***************************************************************************)
EXTENDS OrderJournal, Inductions

Lines == Records \cup {Garbled}

Durable(id) == \E i \in 1..synced : lines[i] \in {Intent(id), Garbled}

(* While an append syncs, its record is the last line of the file.  An     *)
(* order may be sent only once its intent's append has returned.           *)
IInv ==
    /\ lines \in Seq(Lines) /\ synced \in 0..Len(lines)
    /\ record \in Records \cup {NoRecord}
    /\ pc = "sync" => /\ record \in Records /\ Len(lines) > 0
                      /\ lines[Len(lines)] \in {record, Garbled}
    /\ \A id \in ready \cup net \cup DOMAIN venue : Durable(id)

-----------------------------------------------------------------------------
(* A new journal, and nothing sent. *)
LEMMA InitInv == Init => IInv
  BY DEF Init, IInv, NoRecord, NoOrders

(* An INTENT record is the intent of its order. *)
LEMMA IntentOf == \A r \in Records : r.type = "INTENT" => r = Intent(r.id)
  BY DEF Records, Intent

(* What is synced stays durable while the synced lines stay. *)
LEMMA DurableKept ==
  ASSUME synced \in Nat, synced' \in Nat, synced <= synced',
         \A i \in 1..synced : lines'[i] = lines[i],
         NEW id, Durable(id)
  PROVE  Durable(id)'
  BY DEF Durable

(* A line appended, whole or garbled, keeps the synced ones. *)
LEMMA WriteLineKeeps == ASSUME IInv, NEW r \in Records, WriteLine(r) PROVE IInv'
PROOF
  <1> USE DEF IInv
  <1>1. Landed(r) \in Lines /\ Landed(r) \in {r, Garbled}
    BY DEF Landed, Lines
  <1>2. /\ lines' \in Seq(Lines) /\ Len(lines') = Len(lines) + 1
        /\ lines'[Len(lines')] = Landed(r)
        /\ \A i \in 1..Len(lines) : lines'[i] = lines[i]
    BY <1>1 DEF WriteLine
  <1>3. synced' = synced /\ record' = r /\ UNCHANGED <<ready, net, venue>>
    BY DEF WriteLine
  <1>4. \A id \in ready \cup net \cup DOMAIN venue : Durable(id)'
    BY <1>2, <1>3, DurableKept
  <1> QED
    BY <1>1, <1>2, <1>3, <1>4

(* The append returns: everything in the file is synced, its record too. *)
LEMMA AppendedKeeps == ASSUME IInv, Appended PROVE IInv'
PROOF
  <1> USE DEF IInv
  <1>1. /\ synced' = Len(lines) /\ lines' = lines /\ record' = NoRecord /\ pc' = "run"
        /\ net' = net /\ venue' = venue
        /\ Len(lines) \in Nat /\ synced \in Nat /\ synced <= Len(lines)
    BY DEF Appended, Flushed
  <1>2. \A id \in ready \cup net \cup DOMAIN venue : Durable(id)'
    BY <1>1, DurableKept
  <1>3. ASSUME record.type = "INTENT", NEW id, id = record.id PROVE Durable(id)'
    <2>1. record = Intent(id)
      BY <1>3, IntentOf DEF Appended
    <2>2. Len(lines) \in 1..synced' /\ lines'[Len(lines)] \in {Intent(id), Garbled}
      BY <2>1, <1>1 DEF Appended
    <2> QED
      BY <2>2 DEF Durable
  <1>4. \A id \in ready' : id \in ready \/ (record.type = "INTENT" /\ id = record.id)
    BY DEF Appended
  <1>5. \A id \in (ready \cup net \cup DOMAIN venue)' : Durable(id)'
    BY <1>1, <1>2, <1>3, <1>4
  <1> QED
    BY <1>1, <1>5

(* A power loss cuts the file behind what is synced, if at all. *)
LEMMA PowerLossKeeps == ASSUME IInv, PowerLoss PROVE IInv'
PROOF
  <1> USE DEF IInv
  <1>1. PICK n \in synced..Len(lines) : lines' = SubSeq(lines, 1, n) /\ synced' = n
    BY DEF PowerLoss
  <1>2. n \in Nat /\ n <= Len(lines) /\ synced \in Nat /\ synced <= n
    BY <1>1
  <1>3. lines' \in Seq(Lines) /\ Len(lines') = n /\ \A i \in 1..n : lines'[i] = lines[i]
    BY <1>1, <1>2
  <1>4. /\ ready' = {} /\ net' = net /\ venue' = venue
        /\ record' = NoRecord /\ pc' = "down"
    BY DEF PowerLoss, Forget
  <1>5. \A id \in net \cup DOMAIN venue : Durable(id)'
    BY <1>1, <1>2, <1>3, DurableKept
  <1> QED
    BY <1>1, <1>2, <1>3, <1>4, <1>5

(* Requests and the venue: an order reaches them from ready only. *)
LEMMA VenueKeeps == ASSUME IInv, NEW id \in Orders, Send(id) \/ VenueStep(id) PROVE IInv'
PROOF
  <1> USE DEF IInv
  <1>1. UNCHANGED <<lines, synced, record, pc>>
    BY DEF Send, VenueStep, Arrives, GetsLost, VenueFills, VenueCancels, file
  <1>2. ready' \cup net' \cup DOMAIN venue' \subseteq ready \cup net \cup DOMAIN venue
    <2>1. CASE Send(id)
      BY <2>1 DEF Send
    <2>2. CASE Arrives(id)
      BY <2>2 DEF Arrives
    <2>3. CASE GetsLost(id)
      BY <2>3 DEF GetsLost
    <2>4. CASE VenueCancels(id)
      BY <2>4 DEF VenueCancels
    <2>5. CASE \E q \in 1..OrderQty : VenueFills(id, q)
      BY <2>5 DEF VenueFills
    <2> QED
      BY <2>1, <2>2, <2>3, <2>4, <2>5 DEF VenueStep
  <1> QED
    BY <1>1, <1>2 DEF Durable

(* The other steps leave the lines and the orders sent alone. *)
LEMMA OtherStepsKeep ==
  ASSUME IInv,
         \/ FlushFails \/ SyncFails \/ ProcessCrash
         \/ ReplayAndResolve \/ ComparePositions \/ ReconcileFails
         \/ UNCHANGED vars
  PROVE  IInv'
PROOF
  <1>1. UNCHANGED <<lines, synced, net, venue>> /\ ready' \in {ready, {}}
    BY DEF FlushFails, SyncFails, ProcessCrash, ReplayAndResolve, ComparePositions,
           ReconcileFails, Forget, file, vars
  <1>2. \/ UNCHANGED <<pc, record>>
        \/ pc' \in {"run", "down", "positions", "refused"} /\ record' \in {record, NoRecord}
    BY DEF FlushFails, SyncFails, ProcessCrash, ReplayAndResolve, ComparePositions,
           ReconcileFails, Forget, file, vars
  <1> QED
    BY <1>1, <1>2 DEF IInv, Durable

LEMMA StepInv == IInv /\ [Next]_vars => IInv'
  BY WriteLineKeeps, AppendedKeeps, PowerLossKeeps, VenueKeeps, OtherStepsKeep
     DEF Next, JournalStep

(***************************************************************************)
(* Sync before send (journal.go, AppendIntent): no power loss makes an     *)
(* order at the venue, or on its way there, one the journal never saw.     *)
(***************************************************************************)
THEOREM SentOrdersAreDurable == Spec => []SentIsDurable
PROOF
  <1>1. IInv => SentIsDurable
    BY DEF IInv, SentIsDurable, Durable
  <1> QED
    BY <1>1, InitInv, StepInv, PTL DEF Spec

-----------------------------------------------------------------------------
(***************************************************************************)
(* The replay, one line at a time.  Replay is a recursive function over    *)
(* the lines: it exists, and its value for one more line is a step from    *)
(* its value for the lines before.                                         *)
(***************************************************************************)
Fresh == [ok |-> TRUE, orders |-> NoOrders]

Replayed(res, r) == IF res.ok /\ Accepts(res.orders, r)
                    THEN [ok |-> TRUE, orders |-> ApplyRecord(res.orders, r)]
                    ELSE [res EXCEPT !.ok = FALSE]

(* f[n] is the replay of the first n of at least m lines. *)
ReplayTo(f, log, m) ==
    f = [n \in 0..m |-> IF n = 0 THEN Fresh ELSE Replayed(f[n - 1], log[n])]

LEMMA ReplayToExists ==
    ASSUME NEW log
    PROVE  \A m \in Nat : \E f : ReplayTo(f, log, m)
<1> DEFINE S == {m \in Nat : \E f : ReplayTo(f, log, m)}
<1>1. 0 \in S
  <2>1. ReplayTo([n \in 0..0 |-> Fresh], log, 0)
    BY DEF ReplayTo
  <2> QED  BY <2>1
<1>2. ASSUME NEW m \in Nat, m \in S PROVE m + 1 \in S
  <2>1. PICK f : ReplayTo(f, log, m)
    BY <1>2
  <2> DEFINE g == [n \in 0..m + 1 |-> IF n <= m THEN f[n] ELSE Replayed(f[m], log[m + 1])]
  <2>2. \A n \in 0..m : f[n] = IF n = 0 THEN Fresh ELSE Replayed(f[n - 1], log[n])
    BY <2>1 DEF ReplayTo
  <2>3. \A n \in 0..m + 1 :
            g[n] = IF n = 0 THEN Fresh ELSE Replayed(g[n - 1], log[n])
    <3>1. ASSUME NEW n \in 0..m + 1, n # 0 PROVE g[n - 1] = f[n - 1]
      BY <3>1
    <3>2. ASSUME NEW n \in 0..m + 1
          PROVE  g[n] = IF n = 0 THEN Fresh ELSE Replayed(f[n - 1], log[n])
      BY <2>2, <3>2
    <3> QED  BY <3>1, <3>2
  <2>4. g = [n \in 0..m + 1 |-> g[n]]
    OBVIOUS
  <2> HIDE DEF g
  <2>5. ReplayTo(g, log, m + 1)
    BY <2>3, <2>4 DEF ReplayTo
  <2> QED  BY <2>5
<1> HIDE DEF S
<1>3. \A m \in Nat : m \in S
  BY <1>1, <1>2, SetInduction
<1> QED  BY <1>3 DEF S

LEMMA ReplayIs ==
    ASSUME NEW log, Len(log) \in Nat
    PROVE  \E f : ReplayTo(f, log, Len(log)) /\ Replay(log) = f[Len(log)]
<1> DEFINE Upto(f) == f = [n \in 0..Len(log) |->
                IF n = 0 THEN [ok |-> TRUE, orders |-> NoOrders]
                ELSE IF f[n - 1].ok /\ Accepts(f[n - 1].orders, log[n])
                     THEN [ok |-> TRUE, orders |-> ApplyRecord(f[n - 1].orders, log[n])]
                     ELSE [f[n - 1] EXCEPT !.ok = FALSE]]
<1>1. \E f : Upto(f)
  <2>1. PICK f : ReplayTo(f, log, Len(log))
    BY ReplayToExists
  <2> QED  BY <2>1 DEF ReplayTo, Replayed, Fresh
<1>2. Replay(log) = (CHOOSE f : Upto(f))[Len(log)]
  BY DEF Replay
<1>3. Upto(CHOOSE f : Upto(f))
  BY <1>1
<1>4. \A f : Upto(f) => ReplayTo(f, log, Len(log))
  BY DEF ReplayTo, Replayed, Fresh
<1> HIDE DEF Upto
<1> QED  BY <1>2, <1>3, <1>4

(* Replays of logs that agree on their first m lines agree on them. *)
LEMMA ReplaysAgree ==
    ASSUME NEW f, NEW g, NEW log, NEW other, NEW l \in Nat, NEW m \in Nat, m <= l,
           ReplayTo(f, log, l), ReplayTo(g, other, m),
           \A i \in 1..m : other[i] = log[i]
    PROVE  \A n \in 0..m : f[n] = g[n]
<1> DEFINE S == {n \in Nat : n <= m => f[n] = g[n]}
<1>1. \A n \in 0..l : f[n] = IF n = 0 THEN Fresh ELSE Replayed(f[n - 1], log[n])
  BY DEF ReplayTo
<1>2. \A n \in 0..m : g[n] = IF n = 0 THEN Fresh ELSE Replayed(g[n - 1], other[n])
  BY DEF ReplayTo
<1>3. 0 \in S
  BY <1>1, <1>2
<1>4. ASSUME NEW n \in Nat, n \in S PROVE n + 1 \in S
  <2> SUFFICES ASSUME n + 1 <= m PROVE f[n + 1] = g[n + 1]
    OBVIOUS
  <2>1. n + 1 \in 0..m /\ n + 1 \in 0..l /\ n + 1 # 0 /\ (n + 1) - 1 = n /\ n + 1 \in 1..m
    OBVIOUS
  <2>2. f[n] = g[n] /\ other[n + 1] = log[n + 1]
    BY <1>4, <2>1
  <2>3. f[n + 1] = Replayed(f[n], log[n + 1])
    BY <1>1, <2>1
  <2>4. g[n + 1] = Replayed(g[n], other[n + 1])
    BY <1>2, <2>1
  <2> QED  BY <2>2, <2>3, <2>4
<1> HIDE DEF S
<1>5. \A n \in Nat : n \in S
  BY <1>3, <1>4, SetInduction
<1> QED  BY <1>5 DEF S

(* The replays of a log's prefixes are a function of their length: each is *)
(* one step from the one before.                                           *)
LEMMA ReplayByLine ==
    ASSUME NEW T, NEW log \in Seq(T)
    PROVE  \E f : /\ \A n \in 0..Len(log) : Replay(SubSeq(log, 1, n)) = f[n]
                  /\ Replay(log) = f[Len(log)]
                  /\ f[0] = Fresh
                  /\ \A n \in 1..Len(log) : f[n] = Replayed(f[n - 1], log[n])
<1>0. Len(log) \in Nat
  OBVIOUS
<1>1. PICK f : ReplayTo(f, log, Len(log)) /\ Replay(log) = f[Len(log)]
  BY <1>0, ReplayIs
<1>2. \A n \in 0..Len(log) : f[n] = IF n = 0 THEN Fresh ELSE Replayed(f[n - 1], log[n])
  BY <1>1 DEF ReplayTo
<1>3. ASSUME NEW n \in 0..Len(log) PROVE Replay(SubSeq(log, 1, n)) = f[n]
  <2>1. n \in Nat /\ n <= Len(log) /\ n \in 0..n
    BY <1>0
  <2>2. Len(SubSeq(log, 1, n)) = n /\ \A i \in 1..n : SubSeq(log, 1, n)[i] = log[i]
    BY <2>1
  <2> DEFINE cut == SubSeq(log, 1, n)
  <2>3. Len(cut) = n /\ \A i \in 1..n : cut[i] = log[i]
    BY <2>2
  <2> HIDE DEF cut
  <2>4. PICK g : ReplayTo(g, cut, n) /\ Replay(cut) = g[n]
    BY <2>1, <2>3, ReplayIs
  <2>5. f[n] = g[n]
    BY <1>0, <1>1, <2>1, <2>3, <2>4, ReplaysAgree
  <2> QED  BY <2>4, <2>5 DEF cut
<1> QED  BY <1>0, <1>1, <1>2, <1>3

-----------------------------------------------------------------------------
(* What the orders of a replay say of a line it read. *)
Kept(orders, r) ==
    /\ r \in Records
    /\ r.id \in DOMAIN orders
    /\ r.type = "FILL" => r.k \in orders[r.id].seen
    /\ r.type = "REJECT" => orders[r.id].state = "Rejected"
    /\ r.type = "CANCEL" => orders[r.id].state = "Canceled"

OrderRecords == [state : States, cum : Int, seen : SUBSET Int]

Typed(orders) == \A id \in DOMAIN orders : orders[id] \in OrderRecords

(* An accepted line keeps the orders orders. *)
LEMMA AcceptedIsTyped ==
    ASSUME NEW known, Typed(known), NEW r \in Records, Accepts(known, r)
    PROVE  Typed(ApplyRecord(known, r))
<1>1. /\ r.type \in {"INTENT", "FILL", "REJECT", "CANCEL"}
      /\ r.k \in Int /\ r.qty \in Int
  BY OrderAssumption DEF Records
<1>2. Outcome(known, r) \in OrderRecords
  <2>1. CASE r.type = "INTENT"
    BY <2>1 DEF Outcome, NewOrder, OrderRecords, States
  <2>2. CASE r.type = "FILL"
    BY <2>2, <1>1 DEF Outcome, Typed, Accepts, ApplyFill, OrderRecords, States
  <2>3. CASE r.type = "REJECT"
    BY <2>3 DEF Outcome, Typed, Accepts, OrderRecords, States
  <2>4. CASE r.type = "CANCEL"
    BY <2>4 DEF Outcome, Typed, Accepts, OrderRecords, States
  <2> QED  BY <1>1, <2>1, <2>2, <2>3, <2>4
<1> QED  BY <1>2 DEF Typed, ApplyRecord

(* An accepted line keeps itself, and every earlier one that it does not   *)
(* begin anew.                                                             *)
LEMMA AcceptedIsKept ==
    ASSUME NEW known, Typed(known), NEW r \in Records, Accepts(known, r)
    PROVE  /\ Kept(ApplyRecord(known, r), r)
           /\ \A s : Kept(known, s) /\ ~(r = Intent(s.id) /\ s.type # "INTENT")
                        => Kept(ApplyRecord(known, r), s)
<1>1. /\ r.type \in {"INTENT", "FILL", "REJECT", "CANCEL"}
      /\ r.type = "INTENT" => r = Intent(r.id)
  BY IntentOf DEF Records
<1> DEFINE new == ApplyRecord(known, r)
<1>2. /\ DOMAIN new = DOMAIN known \cup {r.id}
      /\ new[r.id] = Outcome(known, r)
      /\ \A id \in DOMAIN known : id # r.id => new[id] = known[id]
  BY DEF ApplyRecord
<1> HIDE DEF new
<1>3. CASE r.type = "INTENT"
  <2>1. ASSUME NEW s, Kept(known, s), ~(r = Intent(s.id) /\ s.type # "INTENT")
        PROVE  Kept(new, s)
    BY <1>1, <1>2, <1>3, <2>1 DEF Kept
  <2> QED  BY <1>2, <1>3, <2>1 DEF Kept, new
<1>4. CASE r.type = "FILL"
  <2>1. /\ r.id \in DOMAIN known /\ known[r.id] \in OrderRecords
        /\ FillVerdict(known[r.id], r.k, r.qty) \in {"ok", "ErrFillAlreadyApplied"}
    BY <1>4 DEF Accepts, Typed
  <2>2. known[r.id].state \notin {"Rejected", "Canceled"}
    BY <2>1 DEF FillVerdict, IsTerminal
  <2>3. r.k \in new[r.id].seen /\ known[r.id].seen \subseteq new[r.id].seen
    BY <1>2, <1>4, <2>1 DEF Outcome, ApplyFill, OrderRecords
  <2>4. ASSUME NEW s, Kept(known, s) PROVE Kept(new, s)
    BY <1>2, <2>2, <2>3, <2>4 DEF Kept
  <2> QED  BY <1>2, <1>4, <2>3, <2>4 DEF Kept, new
<1>5. CASE r.type = "REJECT"
  <2>1. /\ r.id \in DOMAIN known /\ known[r.id] \in OrderRecords
        /\ CanBecome(known[r.id], "Rejected")
    BY <1>5 DEF Accepts, Typed
  <2>2. known[r.id].state \notin {"Rejected", "Canceled"}
    BY <2>1 DEF CanBecome, LegalTransitions
  <2>3. new[r.id].state = "Rejected" /\ known[r.id].seen \subseteq new[r.id].seen
    BY <1>2, <1>5, <2>1 DEF Outcome, OrderRecords
  <2>4. ASSUME NEW s, Kept(known, s) PROVE Kept(new, s)
    BY <1>2, <2>2, <2>3, <2>4 DEF Kept
  <2> QED  BY <1>2, <1>5, <2>3, <2>4 DEF Kept, new
<1>6. CASE r.type = "CANCEL"
  <2>1. /\ r.id \in DOMAIN known /\ known[r.id] \in OrderRecords
        /\ CanBecome(known[r.id], "Canceled")
    BY <1>6 DEF Accepts, Typed
  <2>2. known[r.id].state \notin {"Rejected", "Canceled"}
    BY <2>1 DEF CanBecome, LegalTransitions
  <2>3. new[r.id].state = "Canceled" /\ known[r.id].seen \subseteq new[r.id].seen
    BY <1>2, <1>6, <2>1 DEF Outcome, OrderRecords
  <2>4. ASSUME NEW s, Kept(known, s) PROVE Kept(new, s)
    BY <1>2, <2>2, <2>3, <2>4 DEF Kept
  <2> QED  BY <1>2, <1>6, <2>3, <2>4 DEF Kept, new
<1> QED  BY <1>1, <1>3, <1>4, <1>5, <1>6 DEF new

(* No intent is written again behind what became of its order. *)
NoLateIntent(log) ==
    \A i, j \in 1..Len(log) :
        i < j /\ log[i] \in Records /\ log[i].type # "INTENT" => log[j] # Intent(log[i].id)

(* A replay that succeeds keeps every line it read. *)
LEMMA ReplayKeeps ==
    ASSUME NEW log \in Seq(Lines), NoLateIntent(log), NEW m \in 0..Len(log),
           Replay(SubSeq(log, 1, m)).ok
    PROVE  \A i \in 1..m : Kept(Replay(SubSeq(log, 1, m)).orders, log[i])
<1>1. PICK f : /\ \A n \in 0..Len(log) : Replay(SubSeq(log, 1, n)) = f[n]
               /\ f[0] = Fresh
               /\ \A n \in 1..Len(log) : f[n] = Replayed(f[n - 1], log[n])
  BY ReplayByLine
<1> DEFINE Holds(n) == f[n].ok => /\ Typed(f[n].orders)
                                  /\ \A i \in 1..n : Kept(f[n].orders, log[i])
           S == {n \in Nat : n <= Len(log) => /\ DOMAIN f[n] = {"ok", "orders"}
                                              /\ Holds(n)}
<1>2. 0 \in S
  BY <1>1 DEF Fresh, NoOrders, Typed
<1>3. ASSUME NEW n \in Nat, n \in S PROVE n + 1 \in S
  <2> SUFFICES ASSUME n + 1 <= Len(log)
               PROVE  DOMAIN f[n + 1] = {"ok", "orders"} /\ Holds(n + 1)
    OBVIOUS
  <2>1. n + 1 \in 1..Len(log) /\ (n + 1) - 1 = n /\ n <= Len(log)
    OBVIOUS
  <2>2. f[n + 1] = Replayed(f[n], log[n + 1])
    BY <1>1, <2>1
  <2>3. DOMAIN f[n] = {"ok", "orders"} /\ Holds(n)
    BY <1>3, <2>1
  <2>4. DOMAIN f[n + 1] = {"ok", "orders"}
    BY <2>2, <2>3 DEF Replayed
  <2>5. ASSUME f[n + 1].ok PROVE Typed(f[n + 1].orders)
                                 /\ \A i \in 1..n + 1 : Kept(f[n + 1].orders, log[i])
    <3> DEFINE known == f[n].orders
               r     == log[n + 1]
    <3>1. /\ f[n].ok /\ Accepts(known, r)
          /\ f[n + 1].orders = ApplyRecord(known, r)
      BY <2>2, <2>3, <2>5 DEF Replayed
    <3>2. Typed(known) /\ \A i \in 1..n : Kept(known, log[i])
      BY <2>3, <3>1
    <3>3. r \in Records
      BY <2>1, <3>1 DEF Lines, Accepts, Garbled
    <3>4. ASSUME NEW i \in 1..n PROVE ~(r = Intent(log[i].id) /\ log[i].type # "INTENT")
      <4>1. log[i] \in Records
        BY <3>2 DEF Kept
      <4>2. i \in 1..Len(log) /\ i < n + 1
        BY <2>1
      <4>3. log[i].type # "INTENT" => log[n + 1] # Intent(log[i].id)
        BY <2>1, <4>1, <4>2 DEF NoLateIntent
      <4> QED  BY <4>3
    <3> HIDE DEF known, r
    <3>5. Kept(ApplyRecord(known, r), r) /\ Typed(ApplyRecord(known, r))
      BY <3>1, <3>2, <3>3, AcceptedIsKept, AcceptedIsTyped
    <3>6. \A i \in 1..n : Kept(ApplyRecord(known, r), log[i])
      BY <3>1, <3>2, <3>3, <3>4, AcceptedIsKept
    <3>7. \A i \in 1..n + 1 : i = n + 1 \/ i \in 1..n
      OBVIOUS
    <3> QED  BY <3>1, <3>5, <3>6, <3>7 DEF r
  <2> QED  BY <2>4, <2>5
<1>4. m \in Nat /\ m <= Len(log)
  OBVIOUS
<1> HIDE DEF S
<1>5. \A n \in Nat : n \in S
  BY <1>2, <1>3, SetInduction
<1>6. Holds(m)
  BY <1>4, <1>5 DEF S
<1> QED  BY <1>1, <1>4, <1>6

-----------------------------------------------------------------------------
(* An acknowledged record is among the synced lines, or half a line in     *)
(* front of it made a line of it that nothing reads.                       *)
AckedInv == \A r \in acked : r \in Records /\ \E i \in 1..synced : lines[i] \in {r, Garbled}

(* Whoever may write knows the orders of which the file says more than     *)
(* the intent: it writes no intent of theirs.                              *)
KnownInv ==
    pc \in {"run", "sync", "positions"} =>
        \A i \in 1..Len(lines) : lines[i] \in Records /\ lines[i].type # "INTENT"
                                     => lines[i].id \in DOMAIN mem

KeptInv == AckedInv /\ KnownInv /\ NoLateIntent(lines)

LEMMA KeptInit == Init => KeptInv
  BY DEF Init, KeptInv, AckedInv, KnownInv, NoLateIntent

(* The records acknowledged stay while the synced lines stay. *)
LEMMA AckedKept ==
    ASSUME AckedInv, synced \in Nat, synced' \in Nat, synced <= synced', acked' = acked,
           \A i \in 1..synced : lines'[i] = lines[i]
    PROVE  AckedInv'
<1>1. ASSUME NEW r \in acked PROVE r \in Records /\ \E i \in 1..synced' : lines'[i] \in {r, Garbled}
  <2>1. PICK i \in 1..synced : lines[i] \in {r, Garbled}
    BY DEF AckedInv
  <2>2. i \in 1..synced' /\ lines'[i] \in {r, Garbled}
    BY <2>1
  <2> QED  BY <2>2 DEF AckedInv
<1> QED  BY <1>1 DEF AckedInv

LEMMA WriteLineIsKept == ASSUME IInv, KeptInv, NEW r \in Records, WriteLine(r) PROVE KeptInv'
<1>1. /\ pc = "run" /\ pc' = "sync" /\ synced' = synced /\ acked' = acked /\ mem' = mem
      /\ Landed(r) \in {r, Garbled}
      /\ r.type = "INTENT" => r.id \notin DOMAIN mem
      /\ r.type # "INTENT" => r.id \in DOMAIN mem
  BY DEF WriteLine, Due, Landed, history
<1>2. /\ Len(lines) \in Nat /\ Len(lines') = Len(lines) + 1
      /\ lines'[Len(lines) + 1] = Landed(r)
      /\ \A i \in 1..Len(lines) : lines'[i] = lines[i]
      /\ synced \in Nat /\ synced <= Len(lines)
  BY DEF WriteLine, IInv
<1>3. AckedInv'
  BY <1>1, <1>2, AckedKept DEF KeptInv
<1>4. Garbled \notin Records
  BY DEF Garbled, Records
<1>5. \A i \in 1..Len(lines') : i \in 1..Len(lines) \/ i = Len(lines) + 1
  BY <1>2
<1>6. KnownInv'
  BY <1>1, <1>2, <1>4, <1>5 DEF KeptInv, KnownInv
<1>7. NoLateIntent(lines')
  <2> SUFFICES ASSUME NEW i \in 1..Len(lines'), NEW j \in 1..Len(lines'), i < j,
                      lines'[i] \in Records, lines'[i].type # "INTENT"
               PROVE  lines'[j] # Intent(lines'[i].id)
    BY DEF NoLateIntent
  <2>1. i \in 1..Len(lines) /\ lines'[i] = lines[i]
    BY <1>2, <1>5
  <2>2. CASE j \in 1..Len(lines)
    BY <1>2, <2>1, <2>2 DEF KeptInv, NoLateIntent
  <2>3. CASE j = Len(lines) + 1
    <3>1. lines[i].id \in DOMAIN mem
      BY <1>1, <2>1 DEF KeptInv, KnownInv
    <3>2. r # Intent(lines[i].id)
      BY <1>1, <3>1 DEF Intent
    <3>3. Garbled # Intent(lines[i].id)
      BY DEF Garbled, Intent
    <3> QED  BY <1>1, <1>2, <2>1, <2>3, <3>2, <3>3
  <2> QED  BY <1>5, <2>2, <2>3
<1> QED  BY <1>3, <1>6, <1>7 DEF KeptInv

LEMMA AppendedIsKept == ASSUME IInv, KeptInv, Appended PROVE KeptInv'
<1>1. /\ pc = "sync" /\ pc' = "run" /\ synced' = Len(lines) /\ lines' = lines
      /\ mem' \in {mem, ApplyRecord(mem, record)} /\ acked' = acked \cup {record}
  BY DEF Appended, Flushed
<1>2. /\ synced \in Nat /\ Len(lines) \in Nat /\ synced <= Len(lines) /\ record \in Records
      /\ Len(lines) \in 1..Len(lines) /\ lines[Len(lines)] \in {record, Garbled}
  BY <1>1 DEF IInv
<1>3. ASSUME NEW r \in acked' PROVE r \in Records /\ \E i \in 1..synced' : lines'[i] \in {r, Garbled}
  <2>1. CASE r = record
    BY <1>1, <1>2, <2>1
  <2>2. CASE r \in acked
    <3>1. r \in Records
      BY <2>2 DEF KeptInv, AckedInv
    <3>2. PICK i \in 1..synced : lines[i] \in {r, Garbled}
      BY <2>2 DEF KeptInv, AckedInv
    <3>3. i \in 1..synced'
      BY <1>1, <1>2, <3>2
    <3> QED  BY <1>1, <3>1, <3>2, <3>3
  <2> QED  BY <1>1, <2>1, <2>2
<1>4. AckedInv'
  BY <1>3 DEF AckedInv
<1>5. DOMAIN mem \subseteq DOMAIN mem'
  BY <1>1 DEF ApplyRecord
<1>6. KnownInv'
  BY <1>1, <1>5 DEF KeptInv, KnownInv
<1> QED  BY <1>1, <1>4, <1>6 DEF KeptInv

(* A power loss leaves the synced lines, and nobody to write. *)
LEMMA PowerLossIsKept == ASSUME IInv, KeptInv, PowerLoss PROVE KeptInv'
<1>1. PICK n \in synced..Len(lines) : lines' = SubSeq(lines, 1, n) /\ synced' = n
  BY DEF PowerLoss
<1>2. n \in Nat /\ n <= Len(lines) /\ synced \in Nat /\ synced <= n /\ lines \in Seq(Lines)
  BY <1>1 DEF IInv
<1>3. Len(lines') = n /\ \A i \in 1..n : lines'[i] = lines[i]
  BY <1>1, <1>2
<1>4. acked' = acked /\ pc' = "down"
  BY DEF PowerLoss
<1>5. AckedInv'
  BY <1>1, <1>2, <1>3, <1>4, AckedKept DEF KeptInv
<1>6. NoLateIntent(lines')
  BY <1>2, <1>3 DEF KeptInv, NoLateIntent
<1> QED  BY <1>4, <1>5, <1>6 DEF KeptInv, KnownInv

(* A boot replays every line: it knows all their orders. *)
LEMMA BootIsKept == ASSUME IInv, KeptInv, ReplayAndResolve PROVE KeptInv'
<1>1. UNCHANGED <<lines, synced, acked>>
  BY DEF ReplayAndResolve, file, history
<1>2. AckedInv' /\ NoLateIntent(lines')
  BY <1>1 DEF KeptInv, AckedInv
<1>3. CASE Replay(lines).ok
  <2>1. mem' = Replay(lines).orders
    BY <1>3 DEF ReplayAndResolve
  <2>2. Len(lines) \in 0..Len(lines) /\ SubSeq(lines, 1, Len(lines)) = lines
    BY DEF IInv
  <2>3. \A i \in 1..Len(lines) : Kept(Replay(lines).orders, lines[i])
    BY <1>3, <2>2, ReplayKeeps DEF IInv, KeptInv
  <2> QED  BY <1>1, <1>2, <2>1, <2>3 DEF KeptInv, KnownInv, Kept
<1>4. CASE ~Replay(lines).ok
  BY <1>2, <1>4 DEF KeptInv, KnownInv, ReplayAndResolve
<1> QED  BY <1>3, <1>4

LEMMA OthersAreKept ==
  ASSUME IInv, KeptInv,
         \/ FlushFails \/ SyncFails \/ ProcessCrash \/ ComparePositions \/ ReconcileFails
         \/ \E id \in Orders : Send(id) \/ VenueStep(id)
         \/ UNCHANGED vars
  PROVE  KeptInv'
<1>1. /\ UNCHANGED <<lines, synced, acked>>
      /\ pc' \in {"run", "sync", "positions"} => pc \in {"run", "sync", "positions"} /\ mem' = mem
  <2>1. CASE FlushFails \/ SyncFails \/ ProcessCrash \/ ComparePositions \/ ReconcileFails
    BY <2>1 DEF FlushFails, SyncFails, ProcessCrash, ComparePositions, ReconcileFails,
                file, history
  <2>2. CASE UNCHANGED vars
    BY <2>2 DEF vars, file, history
  <2>3. CASE \E id \in Orders : Send(id) \/ VenueStep(id)
    BY <2>3 DEF Send, VenueStep, Arrives, GetsLost, VenueFills, VenueCancels, file, history
  <2> QED  BY <2>1, <2>2, <2>3
<1> QED  BY <1>1 DEF KeptInv, AckedInv, KnownInv

LEMMA KeptStep == IInv /\ KeptInv /\ [Next]_vars => KeptInv'
  BY WriteLineIsKept, AppendedIsKept, PowerLossIsKept, BootIsKept, OthersAreKept
     DEF Next, JournalStep

(***************************************************************************)
(* What an append acknowledged (journal.go, appendRecord) is in every      *)
(* Replay that succeeds, whatever part of the file a crash leaves: its     *)
(* order is known, its fill counted, its end final.                        *)
(***************************************************************************)
THEOREM AcknowledgedIsReplayed == Spec => []RecordedIsKept
<1>1. ASSUME IInv, KeptInv PROVE RecordedIsKept
  <2> SUFFICES ASSUME NEW n \in synced..Len(lines), Replay(SubSeq(lines, 1, n)).ok,
                      NEW r \in acked
               PROVE  Kept(Replay(SubSeq(lines, 1, n)).orders, r)
    BY DEF RecordedIsKept, Kept
  <2>1. n \in 0..Len(lines) /\ synced \in Nat /\ synced <= n
    BY <1>1 DEF IInv
  <2>2. PICK i \in 1..synced : lines[i] \in {r, Garbled}
    BY <1>1 DEF KeptInv, AckedInv
  <2>3. Kept(Replay(SubSeq(lines, 1, n)).orders, lines[i])
    BY <1>1, <2>1, <2>2, ReplayKeeps DEF IInv, KeptInv
  <2>4. Garbled \notin Records
    BY DEF Garbled, Records
  <2> QED  BY <2>2, <2>3, <2>4 DEF Kept
<1> QED  BY <1>1, InitInv, StepInv, KeptInit, KeptStep, PTL DEF Spec

-----------------------------------------------------------------------------
(***************************************************************************)
(* The venue and the journal's user.  An order is sent once; what the file *)
(* says of an order, the venue said before; and so every replay, of any    *)
(* part of the file, has of each order only what the venue has of it.      *)
(***************************************************************************)
Active == pc \in {"run", "sync", "positions"}

Ordered(v) == /\ v = [status |-> v.status, fills |-> v.fills]
              /\ v.fills \in Seq(1..OrderQty)
              /\ SumFunction(v.fills) <= OrderQty
              /\ v.status = "Rejected" => v.fills = <<>>

VenueInv == \A id \in DOMAIN venue : Ordered(venue[id])

OnceInv == /\ Active => ready \cup net \cup DOMAIN venue \subseteq DOMAIN mem
           /\ ready \cap (net \cup DOMAIN venue) = {} /\ net \cap DOMAIN venue = {}

(* The venue said so. *)
Honest(r) == r.type # "INTENT" =>
    /\ r.id \in DOMAIN venue
    /\ r.type = "FILL" => r.k \in DOMAIN venue[r.id].fills /\ r.qty = venue[r.id].fills[r.k]
    /\ r.type = "REJECT" => venue[r.id].status = "Rejected"

HonestInv == \A i \in 1..Len(lines) : lines[i] \in Records => Honest(lines[i])

(* The record of an append under way is news of an order the process knows, *)
(* or the intent of one it does not know.                                   *)
NewsInv == pc = "sync" => /\ Honest(record)
                          /\ record.type = "INTENT" <=> record.id \notin DOMAIN mem

(* Every fill of an order is one of the venue's, counted once. *)
TrueOf(o, id) ==
    /\ o \in OrderRecords
    /\ o.seen # {} => id \in DOMAIN venue /\ o.seen \subseteq DOMAIN venue[id].fills
    /\ o.cum = SumFunctionOnSet(venue[id].fills, o.seen)
    /\ o.state = "PartiallyFilled" => o.seen # {}
    /\ o.state = "Filled" => o.cum = OrderQty
    /\ o.state = "Rejected" => id \in DOMAIN venue /\ venue[id].status = "Rejected"

Truthful(orders) == IsFiniteSet(DOMAIN orders) /\ \A id \in DOMAIN orders : TrueOf(orders[id], id)

UserInv == VenueInv /\ OnceInv /\ HonestInv /\ NewsInv /\ Truthful(mem)

(* The venue's fills of an order are amounts, and their sum is Filled. *)
LEMMA FilledIsSum == \A id : Filled(id) = SumFunction(venue[id].fills)
BY DEF Filled, SumFunction, SumFunctionOnSet, FoldFunction

LEMMA VenueFillsAreAmounts ==
    ASSUME NEW v, Ordered(v)
    PROVE  /\ DOMAIN v.fills = 1..Len(v.fills) /\ IsFiniteSet(DOMAIN v.fills)
           /\ \A k \in DOMAIN v.fills : v.fills[k] \in Nat \ {0}
           /\ SumFunction(v.fills) \in Int
           /\ \A S \in SUBSET DOMAIN v.fills :
                  /\ IsFiniteSet(S) /\ SumFunctionOnSet(v.fills, S) \in Int
                  /\ SumFunctionOnSet(v.fills, S) <= OrderQty
<1> DEFINE D == DOMAIN v.fills
<1>1. Len(v.fills) \in Nat /\ D = 1..Len(v.fills) /\ \A k \in D : v.fills[k] \in 1..OrderQty
  <2>1. PICK T : T = 1..OrderQty
    OBVIOUS
  <2>2. PICK u \in Seq(T) : u = v.fills
    BY <2>1 DEF Ordered
  <2>3. Len(u) \in Nat /\ DOMAIN u = 1..Len(u) /\ \A k \in 1..Len(u) : u[k] \in T
    OBVIOUS
  <2> QED  BY <2>1, <2>2, <2>3
<1>2. IsFiniteSet(D)
  BY <1>1, FS_Interval
<1>3. \A k \in D : v.fills[k] \in Nat \ {0}
  BY <1>1, OrderAssumption
<1> HIDE DEF D
<1>4. \A S \in SUBSET D : IsFiniteSet(S) /\ SumFunctionOnSet(v.fills, S) \in Int
  <2> SUFFICES ASSUME NEW S \in SUBSET D
               PROVE  IsFiniteSet(S) /\ SumFunctionOnSet(v.fills, S) \in Int
    OBVIOUS
  <2>1. IsFiniteSet(S) /\ \A y \in S : v.fills[y] \in Int
    BY <1>2, <1>3, FS_Subset
  <2> QED  BY <2>1, SumType
<1>5. \A S \in SUBSET D : SumFunctionOnSet(v.fills, S) <= SumFunctionOnSet(v.fills, D)
  <2>1. \A y \in D : v.fills[y] \in Int /\ v.fills[y] >= 0
    BY <1>3
  <2> QED  BY <1>2, <2>1, SumSubset
<1>6. SumFunction(v.fills) = SumFunctionOnSet(v.fills, D) /\ SumFunction(v.fills) <= OrderQty
  BY DEF SumFunction, Ordered, D
<1>7. D \in SUBSET D /\ OrderQty \in Int
  BY OrderAssumption
<1>8. SumFunctionOnSet(v.fills, D) \in Int
  BY <1>4, <1>7
<1>9. \A S \in SUBSET D : SumFunctionOnSet(v.fills, S) <= OrderQty
  BY <1>4, <1>5, <1>6, <1>7, <1>8
<1> QED  BY <1>1, <1>2, <1>3, <1>4, <1>6, <1>8, <1>9 DEF D

(* What a new order is: nothing yet. *)
LEMMA NewIsTrue == \A id : TrueOf(NewOrder, id)
<1>1. NewOrder \in OrderRecords /\ NewOrder.seen = {} /\ NewOrder.cum = 0 /\ NewOrder.state = "New"
  BY DEF NewOrder, OrderRecords, States
<1>2. \A id : SumFunctionOnSet(venue[id].fills, {}) = 0
  BY SumEmpty
<1> QED  BY <1>1, <1>2 DEF TrueOf

(* One more of the venue's fills. *)
LEMMA FillIsTrue ==
    ASSUME VenueInv, NEW id \in DOMAIN venue, NEW o, TrueOf(o, id),
           NEW k \in DOMAIN venue[id].fills, NEW q, q = venue[id].fills[k],
           FillVerdict(o, k, q) \in {"ok", "ErrFillAlreadyApplied"}
    PROVE  TrueOf(IF k \in o.seen THEN o ELSE ApplyFill(o, k, q), id)
<1> SUFFICES ASSUME k \notin o.seen PROVE TrueOf(ApplyFill(o, k, q), id)
  OBVIOUS
<1>1. PICK fills : fills = venue[id].fills
  OBVIOUS
<1>2. /\ IsFiniteSet(DOMAIN fills) /\ \A i \in DOMAIN fills : fills[i] \in Int
      /\ DOMAIN fills \subseteq Int
  BY <1>1, VenueFillsAreAmounts DEF VenueInv
<1>3. PICK S : S = o.seen
  OBVIOUS
<1>4. /\ o.cum = SumFunctionOnSet(fills, S) /\ o.cum \in Int /\ S \in SUBSET Int
      /\ S \subseteq DOMAIN fills
  BY <1>1, <1>3 DEF TrueOf, OrderRecords
<1>5. IsFiniteSet(S) /\ k \notin S /\ k \in DOMAIN fills /\ \A i \in S \cup {k} : fills[i] \in Int
  BY <1>1, <1>2, <1>3, <1>4, FS_Subset
<1>6. SumFunctionOnSet(fills, S \cup {k}) = fills[k] + SumFunctionOnSet(fills, S)
  BY <1>5, SumAdd
<1>7. PICK n : n = ApplyFill(o, k, q)
  OBVIOUS
<1>8. /\ n = [state |-> n.state, cum |-> o.cum + q, seen |-> S \cup {k}]
      /\ n.state = IF o.cum + q = OrderQty THEN "Filled" ELSE "PartiallyFilled"
  BY <1>3, <1>7 DEF ApplyFill
<1>9. q = fills[k] /\ q \in Int /\ k \in Int
  BY <1>1, <1>2, <1>5
<1>10. n.cum = SumFunctionOnSet(fills, n.seen)
  <2>1. n.cum = o.cum + q /\ n.seen = S \cup {k}
    BY <1>8
  <2>2. SumFunctionOnSet(fills, S) \in Int
    BY <1>4
  <2> QED  BY <1>4, <1>6, <1>9, <2>1, <2>2
<1>11. n.state \in States /\ n.cum \in Int /\ n.seen \in SUBSET Int
  BY <1>4, <1>8, <1>9 DEF States
<1>12. n \in OrderRecords
  BY <1>8, <1>11 DEF OrderRecords
<1>13. n.seen \subseteq DOMAIN venue[id].fills /\ n.seen # {}
  BY <1>1, <1>4, <1>5, <1>8
<1>14. n.state = "Filled" => n.cum = OrderQty
  BY <1>8
<1>15. n.state # "Rejected"
  BY <1>8
<1> QED  BY <1>1, <1>7, <1>10, <1>12, <1>13, <1>14, <1>15 DEF TrueOf

(* An accepted, honest line keeps the orders true. *)
LEMMA AcceptedIsTrue ==
    ASSUME VenueInv, NEW known, Truthful(known), NEW r \in Records, Honest(r), Accepts(known, r)
    PROVE  Truthful(ApplyRecord(known, r))
<1>1. /\ r.type \in {"INTENT", "FILL", "REJECT", "CANCEL"}
      /\ r.k \in Int /\ r.qty \in Int /\ r.type = "FILL" => r.qty \in 1..OrderQty
  BY OrderAssumption DEF Records
<1>2. CASE r.type = "INTENT"
  BY <1>2, NewIsTrue, FS_AddElement DEF Outcome, Truthful, ApplyRecord
<1>3. ASSUME r.type # "INTENT" PROVE r.id \in DOMAIN known /\ TrueOf(known[r.id], r.id) /\ r.id \in DOMAIN venue
  BY <1>3 DEF Accepts, Truthful, Honest
<1>4. CASE r.type = "FILL"
  <2>1. TrueOf(known[r.id], r.id) /\ r.id \in DOMAIN venue /\ r.id \in DOMAIN known
    BY <1>3, <1>4
  <2>2. Outcome(known, r) = IF r.k \in known[r.id].seen THEN known[r.id]
                            ELSE ApplyFill(known[r.id], r.k, r.qty)
    BY <1>4 DEF Outcome
  <2>3. FillVerdict(known[r.id], r.k, r.qty) \in {"ok", "ErrFillAlreadyApplied"}
    BY <1>4 DEF Accepts
  <2>4. r.k \in DOMAIN venue[r.id].fills /\ r.qty = venue[r.id].fills[r.k]
    BY <1>4 DEF Honest
  <2>5. TrueOf(Outcome(known, r), r.id)
    BY <2>1, <2>2, <2>3, <2>4, FillIsTrue
  <2> QED  BY <2>1, <2>5, FS_AddElement DEF Truthful, ApplyRecord
<1>5. CASE r.type = "REJECT"
  <2>1. TrueOf(known[r.id], r.id) /\ r.id \in DOMAIN venue /\ known[r.id] \in OrderRecords
        /\ venue[r.id].status = "Rejected" /\ r.id \in DOMAIN known
    BY <1>3, <1>5 DEF TrueOf, Honest
  <2>2. Outcome(known, r) = [known[r.id] EXCEPT !.state = "Rejected"]
    BY <1>5 DEF Outcome
  <2>3. TrueOf(Outcome(known, r), r.id)
    BY <2>1, <2>2 DEF TrueOf, OrderRecords, States
  <2> QED  BY <2>1, <2>3, FS_AddElement DEF Truthful, ApplyRecord
<1>6. CASE r.type = "CANCEL"
  <2>1. TrueOf(known[r.id], r.id) /\ known[r.id] \in OrderRecords /\ r.id \in DOMAIN known
    BY <1>3, <1>6 DEF TrueOf
  <2>2. Outcome(known, r) = [known[r.id] EXCEPT !.state = "Canceled"]
    BY <1>6 DEF Outcome
  <2>3. TrueOf(Outcome(known, r), r.id)
    BY <2>1, <2>2 DEF TrueOf, OrderRecords, States
  <2> QED  BY <2>1, <2>3, FS_AddElement DEF Truthful, ApplyRecord
<1> QED  BY <1>1, <1>2, <1>4, <1>5, <1>6


(* The venue forgets nothing and takes back no rejection. *)
Later == \A id \in DOMAIN venue :
    /\ id \in DOMAIN venue'
    /\ DOMAIN venue[id].fills \subseteq DOMAIN venue'[id].fills
    /\ \A k \in DOMAIN venue[id].fills : venue'[id].fills[k] = venue[id].fills[k]
    /\ venue[id].status = "Rejected" => venue'[id].status = "Rejected"

LEMMA TrueLater == ASSUME VenueInv, Later, NEW o, NEW id, TrueOf(o, id) PROVE TrueOf(o, id)'
<1>1. o.seen # {} => id \in DOMAIN venue /\ o.seen \subseteq DOMAIN venue[id].fills
  BY DEF TrueOf
<1>2. SumFunctionOnSet(venue'[id].fills, o.seen) = SumFunctionOnSet(venue[id].fills, o.seen)
  <2>1. CASE o.seen = {}
    <3>1. SumFunctionOnSet(venue'[id].fills, {}) = 0 /\ SumFunctionOnSet(venue[id].fills, {}) = 0
      BY SumEmpty
    <3> QED  BY <2>1, <3>1
  <2>2. CASE o.seen # {}
    <3>1. IsFiniteSet(o.seen)
      BY <1>1, <2>2, VenueFillsAreAmounts DEF VenueInv
    <3>2. \A k \in o.seen : venue'[id].fills[k] = venue[id].fills[k]
      BY <1>1, <2>2 DEF Later
    <3>3. PICK S : S = o.seen
      OBVIOUS
    <3>4. PICK f : f = venue[id].fills
      OBVIOUS
    <3>5. PICK g : g = venue'[id].fills
      OBVIOUS
    <3>6. SumFunctionOnSet(g, S) = SumFunctionOnSet(f, S)
      BY <3>1, <3>2, <3>3, <3>4, <3>5, SumSame
    <3> QED  BY <3>3, <3>4, <3>5, <3>6
  <2> QED  BY <2>1, <2>2
<1> QED  BY <1>1, <1>2 DEF TrueOf, Later

(* A step of the venue.  A request that arrives is the only one of its     *)
(* order; a working order is filled by what is left of it.                 *)
LEMMA VenueSteps ==
    ASSUME UserInv, NEW id \in Orders, VenueStep(id)
    PROVE  VenueInv' /\ Later /\ DOMAIN venue' \cup net' \subseteq DOMAIN venue \cup net
           /\ net' \subseteq net /\ net' \cap DOMAIN venue' = {}
<1>1. CASE Arrives(id)
  <2>1. id \in net /\ net' = net \ {id} /\ id \notin DOMAIN venue
    BY <1>1 DEF Arrives, UserInv, OnceInv
  <2>2. PICK status \in {"New", "Rejected"} :
            venue' = [x \in DOMAIN venue \cup {id} |->
                        IF x # id THEN venue[x] ELSE [status |-> status, fills |-> <<>>]]
    BY <1>1 DEF Arrives
  <2>3. Ordered([status |-> status, fills |-> <<>>])
    <3>1. SumFunction(<<>>) = 0
      BY SumEmpty DEF SumFunction
    <3> QED  BY <3>1, OrderAssumption DEF Ordered
  <2>4. /\ DOMAIN venue' = DOMAIN venue \cup {id} /\ \A x \in DOMAIN venue : venue'[x] = venue[x]
        /\ Ordered(venue'[id])
    BY <2>1, <2>2, <2>3
  <2>5. VenueInv' /\ Later
    BY <2>4 DEF VenueInv, Later, UserInv, Ordered
  <2> QED  BY <2>1, <2>4, <2>5 DEF UserInv, OnceInv
<1>2. CASE GetsLost(id)
  <2>1. net' \subseteq net /\ net' = net \ {id} /\ venue' = venue
    BY <1>2 DEF GetsLost
  <2> QED  BY <2>1 DEF UserInv, OnceInv, VenueInv, Later
<1>3. CASE VenueCancels(id)
  <2>1. /\ id \in DOMAIN venue /\ venue[id].status # "Rejected" /\ net' = net
        /\ venue' = [venue EXCEPT ![id].status = "Canceled"]
    BY <1>3 DEF VenueCancels, Working
  <2>2. Ordered(venue[id])
    BY <2>1 DEF UserInv, VenueInv
  <2>3. venue'[id] = [status |-> "Canceled", fills |-> venue[id].fills]
    BY <2>1, <2>2 DEF Ordered
  <2>4. DOMAIN venue' = DOMAIN venue /\ \A x \in DOMAIN venue : x # id => venue'[x] = venue[x]
    BY <2>1
  <2>5. Ordered(venue'[id])
    BY <2>2, <2>3 DEF Ordered
  <2>6. VenueInv' /\ Later
    BY <2>1, <2>3, <2>4, <2>5 DEF VenueInv, Later, UserInv
  <2> QED  BY <2>1, <2>4, <2>6 DEF UserInv, OnceInv
<1>4. ASSUME NEW q \in 1..OrderQty, VenueFills(id, q)
      PROVE  VenueInv' /\ Later /\ DOMAIN venue' = DOMAIN venue /\ net' = net
  <2>1. /\ id \in DOMAIN venue /\ venue[id].status # "Rejected" /\ net' = net
        /\ Filled(id) + q <= OrderQty
    BY <1>4 DEF VenueFills, Working
  <2>2. PICK status \in {"Filled", "PartiallyFilled"} :
            venue' = [venue EXCEPT ![id] = [status |-> status, fills |-> Append(@.fills, q)]]
    BY <1>4 DEF VenueFills
  <2>3. DOMAIN venue' = DOMAIN venue /\ \A x \in DOMAIN venue : x # id => venue'[x] = venue[x]
    BY <2>2
  <2>4. venue'[id] = [status |-> status, fills |-> Append(venue[id].fills, q)]
    BY <2>1, <2>2
  <2>5. PICK T : T = 1..OrderQty
    OBVIOUS
  <2>6. PICK u \in Seq(T) : u = venue[id].fills
    BY <2>1, <2>5 DEF UserInv, VenueInv, Ordered
  <2>7. PICK w \in Seq(T) : w = Append(u, q)
    <3>1. q \in T
      BY <2>5
    <3>2. Append(u, q) \in Seq(T)
      BY <3>1
    <3> QED  BY <3>2
  <2>8. PICK n \in Nat : n = Len(u)
    OBVIOUS
  <2>9. /\ DOMAIN u = 1..n /\ DOMAIN w = 1..n + 1 /\ w[n + 1] = q
        /\ \A k \in 1..n : w[k] = u[k]
        /\ \A k \in 1..n + 1 : w[k] \in T
    BY <2>7, <2>8
  <2>10. venue'[id].status = status /\ venue'[id].fills = w
         /\ venue'[id] = [status |-> status, fills |-> w]
    BY <2>4, <2>6, <2>7
  <2>11. SumFunction(w) = SumFunction(u) + q
    <3>1. \A k \in 1..n + 1 : w[k] \in Int
      BY <2>5, <2>9, OrderAssumption
    <3>2. SumFunctionOnSet(w, 1..n + 1) = SumFunctionOnSet(w, 1..n) + q
      BY <2>9, <3>1, SumTo
    <3>3. IsFiniteSet(1..n) /\ \A k \in 1..n : w[k] = u[k]
      BY <2>9, FS_Interval
    <3>4. SumFunctionOnSet(w, 1..n) = SumFunctionOnSet(u, 1..n)
      BY <3>3, SumSame
    <3> QED  BY <2>9, <3>2, <3>4 DEF SumFunction
  <2>12. Ordered(venue'[id])
    <3>1. SumFunction(w) <= OrderQty
      BY <2>1, <2>6, <2>11, FilledIsSum
    <3> QED  BY <2>5, <2>10, <3>1 DEF Ordered
  <2>13. DOMAIN u \subseteq DOMAIN w /\ \A k \in DOMAIN u : w[k] = u[k]
    BY <2>9
  <2>14. VenueInv'
    BY <2>3, <2>12 DEF VenueInv, UserInv
  <2>15. Later
    BY <2>1, <2>3, <2>6, <2>10, <2>13 DEF Later
  <2> QED  BY <2>1, <2>3, <2>14, <2>15
<1> QED  BY <1>1, <1>2, <1>3, <1>4 DEF VenueStep, UserInv, OnceInv


(* Every replay is true, also of a part of the file. *)
LEMMA ReplayIsTrue ==
    ASSUME VenueInv, NEW log \in Seq(Lines),
           \A i \in 1..Len(log) : log[i] \in Records => Honest(log[i]),
           NEW m \in 0..Len(log)
    PROVE  Truthful(Replay(SubSeq(log, 1, m)).orders)
<1>1. PICK f : /\ \A n \in 0..Len(log) : Replay(SubSeq(log, 1, n)) = f[n]
               /\ f[0] = Fresh
               /\ \A n \in 1..Len(log) : f[n] = Replayed(f[n - 1], log[n])
  BY ReplayByLine
<1> DEFINE S == {n \in Nat : n <= Len(log) => /\ DOMAIN f[n] = {"ok", "orders"}
                                              /\ Truthful(f[n].orders)}
<1>2. 0 \in S
  BY <1>1, FS_EmptySet DEF Fresh, NoOrders, Truthful
<1>3. ASSUME NEW n \in Nat, n \in S PROVE n + 1 \in S
  <2> SUFFICES ASSUME n + 1 <= Len(log)
               PROVE  DOMAIN f[n + 1] = {"ok", "orders"} /\ Truthful(f[n + 1].orders)
    OBVIOUS
  <2>1. n + 1 \in 1..Len(log) /\ (n + 1) - 1 = n /\ n <= Len(log)
    OBVIOUS
  <2>2. f[n + 1] = Replayed(f[n], log[n + 1])
    BY <1>1, <2>1
  <2>3. DOMAIN f[n] = {"ok", "orders"} /\ Truthful(f[n].orders)
    BY <1>3, <2>1
  <2>4. CASE f[n].ok /\ Accepts(f[n].orders, log[n + 1])
    <3>1. log[n + 1] \in Records
      BY <2>1, <2>4 DEF Lines, Accepts, Garbled
    <3>2. Truthful(ApplyRecord(f[n].orders, log[n + 1]))
      BY <2>1, <2>3, <2>4, <3>1, AcceptedIsTrue
    <3> QED  BY <2>2, <2>4, <3>2 DEF Replayed
  <2>5. CASE ~(f[n].ok /\ Accepts(f[n].orders, log[n + 1]))
    <3>1. f[n + 1] = [f[n] EXCEPT !.ok = FALSE]
      BY <2>2, <2>5 DEF Replayed
    <3> QED  BY <2>3, <3>1
  <2> QED  BY <2>4, <2>5
<1>4. m \in Nat /\ m <= Len(log)
  OBVIOUS
<1> HIDE DEF S
<1>5. \A n \in Nat : n \in S
  BY <1>2, <1>3, SetInduction
<1> QED  BY <1>1, <1>4, <1>5 DEF S

-----------------------------------------------------------------------------
LEMMA UserInit == Init => UserInv
<1> SUFFICES ASSUME Init PROVE UserInv
  OBVIOUS
<1>1. Truthful(mem)
  BY FS_EmptySet DEF Init, Truthful, NoOrders
<1> QED  BY <1>1 DEF Init, UserInv, VenueInv, OnceInv, HonestInv, NewsInv, NoOrders

(* What is due the venue said, of an order the process knows. *)
LEMMA DueIsNews ==
    ASSUME NEW r \in Records, Due(r)
    PROVE  Honest(r) /\ (r.type = "INTENT" <=> r.id \notin DOMAIN mem)
<1>1. r.type \in {"INTENT", "FILL", "REJECT", "CANCEL"}
  BY DEF Records
<1> QED  BY <1>1 DEF Due, Honest

LEMMA WriteLineByUser ==
    ASSUME IInv, UserInv, NEW r \in Records, WriteLine(r) PROVE UserInv'
<1>1. /\ pc = "run" /\ pc' = "sync" /\ record' = r /\ mem' = mem /\ venue' = venue
      /\ ready' = ready /\ net' = net /\ Due(r) /\ lines' = Append(lines, Landed(r))
  BY DEF WriteLine
<1>2. Honest(r) /\ (r.type = "INTENT" <=> r.id \notin DOMAIN mem)
  BY <1>1, DueIsNews
<1>3. Garbled \notin Records
  BY DEF Garbled, Records
<1>4. \A i \in 1..Len(lines') : lines'[i] \in Records => Honest(lines'[i])
  <2>1. /\ Len(lines') = Len(lines) + 1 /\ Len(lines) \in Nat
        /\ lines'[Len(lines) + 1] = Landed(r) /\ \A i \in 1..Len(lines) : lines'[i] = lines[i]
    BY <1>1 DEF IInv
  <2>2. \A i \in 1..Len(lines') : i \in 1..Len(lines) \/ i = Len(lines) + 1
    BY <2>1
  <2>3. Landed(r) \in {r, Garbled}
    BY DEF Landed
  <2> QED  BY <1>2, <1>3, <2>1, <2>2, <2>3 DEF UserInv, HonestInv
<1>5. HonestInv'
  BY <1>1, <1>4 DEF HonestInv, Honest
<1>6. NewsInv'
  BY <1>1, <1>2 DEF NewsInv, Honest
<1>7. Truthful(mem)' /\ VenueInv' /\ OnceInv'
  BY <1>1 DEF UserInv, Truthful, TrueOf, VenueInv, OnceInv, Active
<1> QED  BY <1>5, <1>6, <1>7 DEF UserInv

LEMMA AppendedByUser == ASSUME IInv, UserInv, Appended PROVE UserInv'
<1>1. /\ pc = "sync" /\ pc' = "run" /\ lines' = lines /\ venue' = venue /\ net' = net
      /\ mem' = IF Accepts(mem, record) THEN ApplyRecord(mem, record) ELSE mem
      /\ record \in Records
      /\ ready' = IF record.type = "INTENT" THEN ready \cup {record.id} ELSE ready
  BY DEF Appended, IInv
<1>2. Accepts(mem, record) => Truthful(ApplyRecord(mem, record))
  BY <1>1, AcceptedIsTrue DEF UserInv, NewsInv
<1>3. Truthful(mem)'
  <2>1. CASE Accepts(mem, record)
    BY <1>1, <1>2, <2>1 DEF Truthful, TrueOf
  <2>2. CASE ~Accepts(mem, record)
    BY <1>1, <2>2 DEF UserInv, Truthful, TrueOf
  <2> QED  BY <2>1, <2>2
<1>4. DOMAIN mem' = DOMAIN mem \cup {record.id}
  BY <1>1 DEF UserInv, NewsInv, Accepts, ApplyRecord
<1>5. OnceInv'
  BY <1>1, <1>4 DEF UserInv, OnceInv, NewsInv, Active
<1>6. VenueInv' /\ HonestInv' /\ NewsInv'
  BY <1>1 DEF UserInv, VenueInv, HonestInv, Honest, NewsInv
<1> QED  BY <1>3, <1>5, <1>6 DEF UserInv

LEMMA StopsByUser ==
    ASSUME IInv, UserInv, PowerLoss \/ ProcessCrash \/ ReconcileFails PROVE UserInv'
<1>1. /\ pc' = "down" /\ mem' = NoOrders /\ ready' = {} /\ net' = net /\ venue' = venue
  BY DEF PowerLoss, ProcessCrash, ReconcileFails, Forget
<1>2. \A i \in 1..Len(lines') : i \in 1..Len(lines) /\ lines'[i] = lines[i]
  <2>1. CASE PowerLoss
    <3>1. PICK n \in synced..Len(lines) : lines' = SubSeq(lines, 1, n)
      BY <2>1 DEF PowerLoss
    <3>2. n \in Nat /\ n <= Len(lines) /\ lines \in Seq(Lines)
      BY <3>1 DEF IInv
    <3> QED  BY <3>1, <3>2
  <2>2. CASE ProcessCrash \/ ReconcileFails
    BY <2>2 DEF ProcessCrash, ReconcileFails
  <2> QED  BY <2>1, <2>2
<1>3. Truthful(mem)'
  BY <1>1, FS_EmptySet DEF Truthful, NoOrders
<1>4. VenueInv' /\ HonestInv' /\ NewsInv' /\ OnceInv'
  BY <1>1, <1>2 DEF UserInv, VenueInv, HonestInv, Honest, NewsInv, OnceInv, Active
<1> QED  BY <1>3, <1>4 DEF UserInv

(* A boot knows every order that was sent, because its intent is durable. *)
LEMMA BootByUser == ASSUME IInv, KeptInv, UserInv, ReplayAndResolve PROVE UserInv'
<1>1. UNCHANGED <<lines, synced, record, ready, net, venue>>
  BY DEF ReplayAndResolve, file
<1>2. VenueInv' /\ HonestInv' /\ (ready \cap (net \cup DOMAIN venue) = {})' /\ (net \cap DOMAIN venue = {})'
  BY <1>1 DEF UserInv, VenueInv, HonestInv, Honest, OnceInv
<1>3. CASE Replay(lines).ok
  <2>1. mem' = Replay(lines).orders /\ pc' = "positions"
    BY <1>3 DEF ReplayAndResolve
  <2>2. /\ Len(lines) \in 0..Len(lines) /\ SubSeq(lines, 1, Len(lines)) = lines
        /\ lines \in Seq(Lines) /\ synced \in 0..Len(lines)
    BY DEF IInv
  <2>3. \A i \in 1..Len(lines) : Kept(Replay(lines).orders, lines[i])
    BY <1>3, <2>2, ReplayKeeps DEF KeptInv
  <2>4. ASSUME NEW id \in ready \cup net \cup DOMAIN venue PROVE id \in DOMAIN mem'
    <3>1. PICK i \in 1..synced : lines[i] \in {Intent(id), Garbled}
      BY <2>4 DEF IInv, Durable
    <3>2. Kept(Replay(lines).orders, lines[i]) /\ Garbled \notin Records
      BY <2>2, <2>3, <3>1 DEF Garbled, Records
    <3> QED  BY <2>1, <3>1, <3>2 DEF Kept, Intent
  <2>5. Truthful(Replay(lines).orders)
    BY <2>2, ReplayIsTrue DEF UserInv, HonestInv
  <2>6. Truthful(mem)'
    BY <1>1, <2>1, <2>5 DEF Truthful, TrueOf
  <2> QED  BY <1>1, <1>2, <2>1, <2>4, <2>6 DEF UserInv, OnceInv, NewsInv
<1>4. CASE ~Replay(lines).ok
  <2>1. pc' = "refused" /\ mem' = mem
    BY <1>4 DEF ReplayAndResolve
  <2>2. Truthful(mem)'
    BY <1>1, <2>1 DEF UserInv, Truthful, TrueOf
  <2> QED  BY <1>2, <2>1, <2>2 DEF UserInv, OnceInv, NewsInv, Active
<1> QED  BY <1>3, <1>4

LEMMA VenueByUser == ASSUME UserInv, NEW id \in Orders, VenueStep(id) PROVE UserInv'
<1>1. UNCHANGED <<pc, lines, record, mem, ready>>
  BY DEF VenueStep, Arrives, GetsLost, VenueFills, VenueCancels, file
<1>2. /\ VenueInv' /\ Later /\ DOMAIN venue' \cup net' \subseteq DOMAIN venue \cup net
      /\ net' \cap DOMAIN venue' = {}
  BY VenueSteps
<1>3. Truthful(mem)'
  <2>1. \A x \in DOMAIN mem : TrueOf(mem[x], x)'
    <3> SUFFICES ASSUME NEW x \in DOMAIN mem PROVE TrueOf(mem[x], x)'
      OBVIOUS
    <3>1. PICK o : o = mem[x] /\ TrueOf(o, x)
      BY DEF UserInv, Truthful
    <3>2. TrueOf(o, x)'
      BY <1>2, <3>1, TrueLater DEF UserInv
    <3> QED  BY <1>1, <3>1, <3>2 DEF TrueOf
  <2> QED  BY <1>1, <2>1 DEF UserInv, Truthful
<1>4. HonestInv' /\ NewsInv'
  BY <1>1, <1>2 DEF UserInv, HonestInv, NewsInv, Later, Honest
<1>5. OnceInv'
  BY <1>1, <1>2 DEF UserInv, OnceInv, Active
<1> QED  BY <1>2, <1>3, <1>4, <1>5 DEF UserInv

LEMMA OthersByUser ==
    ASSUME UserInv,
           \/ FlushFails \/ SyncFails \/ ComparePositions
           \/ \E id \in Orders : Send(id)
           \/ UNCHANGED vars
    PROVE  UserInv'
<1>1. /\ UNCHANGED <<lines, mem, venue>> /\ ready' \subseteq ready
      /\ pc' = "sync" => pc = "sync" /\ record' = record
      /\ Active' => Active
      /\ net' \cup ready' = net \cup ready /\ ready' \cap net' = {}
  BY DEF UserInv, OnceInv, FlushFails, SyncFails, ComparePositions, Send, vars, file, Active
<1>2. Truthful(mem)'
  BY <1>1 DEF UserInv, Truthful, TrueOf
<1>3. VenueInv' /\ HonestInv' /\ NewsInv'
  BY <1>1 DEF UserInv, VenueInv, HonestInv, Honest, NewsInv
<1>4. OnceInv'
  BY <1>1 DEF UserInv, OnceInv
<1> QED  BY <1>2, <1>3, <1>4 DEF UserInv

LEMMA UserStep == IInv /\ KeptInv /\ UserInv /\ [Next]_vars => UserInv'
BY WriteLineByUser, AppendedByUser, StopsByUser, BootByUser, VenueByUser, OthersByUser
   DEF Next, JournalStep

-----------------------------------------------------------------------------
(* A line an append reported as failed is in the file all the same: of     *)
(* such an order the file may say more than the process knows.             *)
Forgotten(id, n) == \E i \in failed :
    /\ i <= n /\ lines[i] \in Records /\ lines[i].id = id /\ lines[i].type # "INTENT"

Agrees(orders, n) ==
    /\ DOMAIN mem \subseteq DOMAIN orders
    /\ \A id \in DOMAIN orders : \/ id \in DOMAIN mem /\ mem[id] = orders[id]
                                 \/ id \notin DOMAIN mem /\ orders[id] = NewOrder
                                 \/ Forgotten(id, n)

(* The lines whose append is over. *)
Settled == IF pc = "sync" THEN Len(lines) - 1 ELSE Len(lines)

FollowInv ==
    /\ failed \cup late \subseteq 1..Len(lines)
    /\ Active /\ Replay(SubSeq(lines, 1, Settled)).ok
           => Agrees(Replay(SubSeq(lines, 1, Settled)).orders, Settled)

Excused(log, bad, known, j) ==
    LET before == Replay(SubSeq(log, 1, j - 1))
        id     == log[j].id
    IN  before.ok /\ ~Accepts(before.orders, log[j]) =>
            \/ log[j] = Garbled
            \/ /\ id \in DOMAIN before.orders /\ IsTerminal(before.orders[id])
               /\ \/ j \in known
                  \/ \E i \in bad : i < j /\ log[i].id = id /\ log[i].type # "INTENT"

RefusalInv == \A j \in 1..Len(lines) : Excused(lines, failed, late, j)

(* Logs that agree on a prefix have the same prefix. *)
LEMMA SamePrefix ==
    ASSUME NEW T, NEW log \in Seq(T), NEW other \in Seq(T),
           NEW m \in 0..Len(log), m <= Len(other), \A i \in 1..m : other[i] = log[i]
    PROVE  SubSeq(other, 1, m) = SubSeq(log, 1, m)
<1>1. m \in Nat /\ m <= Len(log) /\ m <= Len(other)
  OBVIOUS
<1>2. /\ SubSeq(log, 1, m) \in Seq(T) /\ Len(SubSeq(log, 1, m)) = m
      /\ \A i \in 1..m : SubSeq(log, 1, m)[i] = log[i]
  BY <1>1
<1>3. /\ SubSeq(other, 1, m) \in Seq(T) /\ Len(SubSeq(other, 1, m)) = m
      /\ \A i \in 1..m : SubSeq(other, 1, m)[i] = other[i]
  BY <1>1
<1>4. PICK a \in Seq(T), b \in Seq(T) : a = SubSeq(log, 1, m) /\ b = SubSeq(other, 1, m)
  BY <1>2, <1>3
<1>5. Len(a) = Len(b) /\ \A i \in 1..Len(a) : a[i] = b[i]
  BY <1>2, <1>3, <1>4
<1>6. a = b
  BY <1>5
<1> QED  BY <1>4, <1>6

(* What excuses a refused line is in front of it. *)
LEMMA StillExcused ==
    ASSUME NEW log \in Seq(Lines), NEW other \in Seq(Lines), NEW bad \in SUBSET Int, NEW worse,
           NEW j \in 1..Len(log), j <= Len(other), \A i \in 1..j : other[i] = log[i],
           bad \subseteq 1..Len(log), \A i \in bad : i <= j => i \in worse,
           NEW known, NEW more, j \in known => j \in more,
           Excused(log, bad, known, j)
    PROVE  Excused(other, worse, more, j)
<1>1. /\ j - 1 \in 0..Len(log) /\ j - 1 <= Len(other) /\ other[j] = log[j]
      /\ \A i \in 1..j - 1 : other[i] = log[i]
  OBVIOUS
<1>2. SubSeq(other, 1, j - 1) = SubSeq(log, 1, j - 1)
  BY <1>1, SamePrefix
<1>3. \A i \in bad : i < j => i \in worse /\ other[i] = log[i]
  <2> SUFFICES ASSUME NEW i \in bad, i < j PROVE i \in worse /\ other[i] = log[i]
    OBVIOUS
  <2>1. i \in Int /\ i >= 1 /\ j \in Int
    <3>1. i \in 1..Len(log)
      OBVIOUS
    <3>2. Len(log) \in Nat
      OBVIOUS
    <3> QED  BY <3>1, <3>2
  <2>2. i \in 1..j /\ i <= j
    BY <2>1
  <2> QED  BY <2>2
<1> QED  BY <1>1, <1>2, <1>3 DEF Excused

(* News of an order that is not done is no surprise to any true replay. *)
LEMMA NewsIsAccepted ==
    ASSUME VenueInv, NEW orders, Truthful(orders), NEW r \in Records, Honest(r), Due(r),
           r.type # "INTENT", r.id \in DOMAIN orders, ~IsTerminal(orders[r.id])
    PROVE  Accepts(orders, r)
<1>1. PICK o : o = orders[r.id]
  OBVIOUS
<1>2. TrueOf(o, r.id) /\ o.state \in {"New", "PartiallyFilled"} /\ r.id \in DOMAIN venue
  BY <1>1 DEF Truthful, TrueOf, OrderRecords, States, IsTerminal, Due
<1>3. r.type \in {"FILL", "REJECT", "CANCEL"} /\ r.k \in Int
  BY OrderAssumption DEF Records
<1>4. CASE r.type = "FILL"
  <2>1. PICK v : v = venue[r.id] /\ Ordered(v)
    BY <1>2 DEF VenueInv
  <2>2. r.k \in DOMAIN v.fills /\ r.qty = v.fills[r.k] /\ r.qty \in Int
    BY <1>4, <2>1, VenueFillsAreAmounts DEF Honest
  <2>3. ASSUME r.k \notin o.seen PROVE o.cum + r.qty <= OrderQty
    <3>1. PICK S : S = o.seen
      OBVIOUS
    <3>2. PICK fills : fills = v.fills
      OBVIOUS
    <3>3. S \subseteq DOMAIN fills /\ o.cum = SumFunctionOnSet(fills, S)
      BY <1>2, <2>1, <3>1, <3>2 DEF TrueOf
    <3> DEFINE more == S \cup {r.k}
    <3>8. S \in SUBSET DOMAIN fills /\ more \in SUBSET DOMAIN fills
      BY <2>2, <3>2, <3>3
    <3>9. \A U \in SUBSET DOMAIN fills :
              /\ IsFiniteSet(U) /\ SumFunctionOnSet(fills, U) \in Int
              /\ SumFunctionOnSet(fills, U) <= OrderQty
      BY <2>1, <3>2, VenueFillsAreAmounts
    <3>10. \A k \in DOMAIN fills : fills[k] \in Int
      BY <2>1, <3>2, VenueFillsAreAmounts
    <3>4. /\ IsFiniteSet(S) /\ SumFunctionOnSet(fills, S) \in Int
          /\ SumFunctionOnSet(fills, S \cup {r.k}) <= OrderQty
          /\ \A k \in DOMAIN fills : fills[k] \in Int
      BY <3>8, <3>9, <3>10
    <3>5. r.k \notin S /\ r.k \in DOMAIN fills /\ \A k \in S \cup {r.k} : fills[k] \in Int
      BY <2>2, <2>3, <3>1, <3>2, <3>3, <3>4
    <3>6. SumFunctionOnSet(fills, S \cup {r.k}) = fills[r.k] + SumFunctionOnSet(fills, S)
      BY <3>4, <3>5, SumAdd
    <3>7. r.qty = fills[r.k] /\ fills[r.k] \in Int
      BY <2>2, <3>2, <3>5
    <3> QED  BY <3>3, <3>4, <3>6, <3>7, OrderAssumption
  <2>4. FillVerdict(o, r.k, r.qty) \in {"ok", "ErrFillAlreadyApplied"}
    <3>1. o.cum \in Int
      BY <1>2 DEF TrueOf, OrderRecords
    <3> QED  BY <1>1, <2>2, <2>3, <3>1, OrderAssumption DEF FillVerdict
  <2> QED  BY <1>1, <1>4, <2>4 DEF Accepts
<1>5. CASE r.type = "REJECT"
  <2>1. venue[r.id].fills = <<>>
    BY <1>2, <1>5 DEF Honest, VenueInv, Ordered
  <2>2. DOMAIN venue[r.id].fills = {}
    BY <2>1
  <2>3. o.state = "New"
    BY <1>2, <2>2 DEF TrueOf
  <2> QED  BY <1>1, <1>5, <2>3 DEF Accepts, CanBecome, LegalTransitions
<1>6. CASE r.type = "CANCEL"
  BY <1>1, <1>2, <1>6 DEF Accepts, CanBecome, LegalTransitions
<1> QED  BY <1>3, <1>4, <1>5, <1>6

-----------------------------------------------------------------------------
LEMMA FollowInit == Init => FollowInv /\ RefusalInv
<1> SUFFICES ASSUME Init PROVE FollowInv /\ RefusalInv
  OBVIOUS
<1>1. lines = <<>> /\ Len(lines) = 0 /\ Settled = 0 /\ failed = {} /\ late = {}
  BY DEF Init, Settled
<1>2. PICK log \in Seq(Lines) : log = lines
  <2>1. <<>> \in Seq(Lines)
    OBVIOUS
  <2> QED  BY <1>1, <2>1
<1>3. PICK f : /\ \A n \in 0..Len(log) : Replay(SubSeq(log, 1, n)) = f[n]
               /\ Replay(log) = f[Len(log)]
               /\ f[0] = Fresh
               /\ \A n \in 1..Len(log) : f[n] = Replayed(f[n - 1], log[n])
  BY ReplayByLine
<1>4. Replay(SubSeq(lines, 1, Settled)).orders = NoOrders
  <2>1. 0 \in 0..Len(log) /\ Settled = 0
    BY <1>1, <1>2
  <2> QED  BY <1>2, <1>3, <2>1 DEF Fresh
<1>5. mem = NoOrders
  BY DEF Init
<1>6. Agrees(NoOrders, Settled)
  BY <1>5 DEF Agrees, NoOrders
<1> QED  BY <1>1, <1>4, <1>6 DEF FollowInv, RefusalInv

(* The append writes: nothing has been replayed yet, and the line will be  *)
(* refused only if it lands behind half a line or its order is done.       *)
LEMMA WriteLineFollows ==
    ASSUME IInv, UserInv, FollowInv, RefusalInv, NEW r \in Records, WriteLine(r)
    PROVE  FollowInv' /\ RefusalInv'
<1>1. /\ pc = "run" /\ pc' = "sync" /\ mem' = mem /\ failed' = failed /\ Due(r)
      /\ lines' = Append(lines, Landed(r)) /\ Landed(r) \in {r, Garbled}
      /\ late' = IF Accepts(mem, r) THEN late ELSE late \cup {Len(lines')}
  BY DEF WriteLine, Landed
<1>2. PICK L \in Nat : L = Len(lines)
  BY DEF IInv
<1>3. /\ lines \in Seq(Lines) /\ lines' \in Seq(Lines) /\ Len(lines') = L + 1
      /\ lines'[L + 1] = Landed(r) /\ \A i \in 1..L : lines'[i] = lines[i]
  BY <1>1, <1>2 DEF IInv, Lines
<1>4. SubSeq(lines', 1, L) = SubSeq(lines, 1, L) /\ SubSeq(lines, 1, L) = lines
  <2>1. SubSeq(lines, 1, L) = lines
    BY <1>2, <1>3
  <2>2. L \in 0..Len(lines) /\ L <= Len(lines')
    BY <1>2, <1>3
  <2> QED  BY <1>3, <2>1, <2>2, SamePrefix
<1>5. Settled = L /\ Settled' = L /\ Active /\ Active' /\ failed \cup late \subseteq 1..L
  BY <1>1, <1>2, <1>3 DEF Settled, Active, FollowInv
<1>6. \A id : Forgotten(id, L)' <=> Forgotten(id, L)
  BY <1>1, <1>3, <1>5 DEF Forgotten
<1>7. FollowInv'
  <2>1. failed' \cup late' \subseteq 1..Len(lines')
    BY <1>1, <1>2, <1>3, <1>5
  <2>2. \A orders : Agrees(orders, L) => Agrees(orders, L)'
    BY <1>1, <1>6 DEF Agrees
  <2>3. PICK res : res = Replay(SubSeq(lines, 1, L)) /\ res = Replay(SubSeq(lines', 1, L))
    BY <1>4
  <2>4. res.ok => Agrees(res.orders, L)'
    BY <1>5, <2>2, <2>3 DEF FollowInv
  <2> QED  BY <1>5, <2>1, <2>3, <2>4 DEF FollowInv
<1>8. ASSUME NEW j \in 1..L PROVE Excused(lines', failed', late', j)
  <2>1. /\ j \in 1..Len(lines) /\ j <= Len(lines') /\ \A i \in 1..j : lines'[i] = lines[i]
        /\ failed \in SUBSET Int /\ failed \subseteq 1..Len(lines)
        /\ (\A i \in failed : i <= j => i \in failed') /\ (j \in late => j \in late')
    BY <1>1, <1>2, <1>3, <1>5
  <2> QED  BY <1>3, <2>1, StillExcused DEF RefusalInv
<1>9. Excused(lines', failed', late', L + 1)
  <2>1. PICK res : res = Replay(lines)
    OBVIOUS
  <2>2. (L + 1) - 1 = L
    OBVIOUS
  <2>3. SUFFICES ASSUME res.ok, ~Accepts(res.orders, Landed(r)), Landed(r) = r
                 PROVE  /\ r.id \in DOMAIN res.orders /\ IsTerminal(res.orders[r.id])
                        /\ \/ L + 1 \in late'
                           \/ \E i \in failed' : /\ i < L + 1 /\ lines'[i].id = r.id
                                                 /\ lines'[i].type # "INTENT"
    BY <1>1, <1>3, <1>4, <2>1, <2>2 DEF Excused
  <2>4. Agrees(res.orders, L)
    BY <1>4, <1>5, <2>1, <2>3 DEF FollowInv
  <2>5. r.type # "INTENT" /\ Honest(r) /\ r.id \in DOMAIN mem
    BY <1>1, <2>3, DueIsNews DEF Accepts
  <2>6. r.id \in DOMAIN res.orders
    BY <2>4, <2>5 DEF Agrees
  <2>7. Truthful(res.orders)
    <3>1. L \in 0..Len(lines)
      BY <1>2
    <3> QED  BY <1>3, <1>4, <2>1, <3>1, ReplayIsTrue DEF UserInv, HonestInv
  <2>8. IsTerminal(res.orders[r.id])
    BY <1>1, <2>3, <2>5, <2>6, <2>7, NewsIsAccepted DEF UserInv
  <2>9. CASE ~Accepts(mem, r)
    BY <1>1, <1>3, <2>6, <2>8, <2>9
  <2>10. CASE Accepts(mem, r)
    <3>1. mem[r.id] # res.orders[r.id]
      BY <2>3, <2>5, <2>6, <2>10 DEF Accepts
    <3>2. PICK i \in failed : /\ i <= L /\ lines[i].id = r.id /\ lines[i].type # "INTENT"
      BY <2>4, <2>5, <2>6, <3>1 DEF Agrees, Forgotten
    <3>3. i \in 1..L /\ i < L + 1 /\ lines'[i] = lines[i] /\ i \in failed'
      BY <1>1, <1>3, <1>5, <3>2
    <3> QED  BY <2>6, <2>8, <3>2, <3>3
  <2> QED  BY <2>9, <2>10
<1>10. \A j \in 1..Len(lines') : j \in 1..L \/ j = L + 1
  BY <1>3
<1> QED  BY <1>7, <1>8, <1>9, <1>10 DEF RefusalInv

(* The replay of the last line, which an append under way has written.     *)
LEMMA LastLine ==
    ASSUME IInv, pc = "sync", Replay(SubSeq(lines, 1, Len(lines))).ok
    PROVE  /\ lines[Len(lines)] = record /\ record \in Records
           /\ Replay(SubSeq(lines, 1, Len(lines) - 1)).ok
           /\ Accepts(Replay(SubSeq(lines, 1, Len(lines) - 1)).orders, record)
           /\ Replay(SubSeq(lines, 1, Len(lines))).orders =
                  ApplyRecord(Replay(SubSeq(lines, 1, Len(lines) - 1)).orders, record)
<1>1. PICK L \in Nat : L = Len(lines)
  BY DEF IInv
<1>2. /\ lines \in Seq(Lines) /\ L > 0 /\ record \in Records /\ lines[L] \in {record, Garbled}
      /\ L - 1 \in 0..L /\ L \in 0..L /\ L \in 1..L
  BY <1>1 DEF IInv
<1>3. PICK f : /\ \A n \in 0..L : Replay(SubSeq(lines, 1, n)) = f[n]
               /\ f[0] = Fresh /\ \A n \in 1..L : f[n] = Replayed(f[n - 1], lines[n])
  BY <1>1, <1>2, ReplayByLine
<1>4. f[L] = Replayed(f[L - 1], lines[L]) /\ f[L].ok
  BY <1>1, <1>2, <1>3
<1>5. \/ DOMAIN f[L - 1] = {"ok", "orders"}
      \/ L - 1 = 0
  <2>1. ASSUME NEW n \in 1..L PROVE f[n] = Replayed(f[n - 1], lines[n])
    BY <1>3
  <2> DEFINE S == {n \in Nat : n <= L => DOMAIN f[n] = {"ok", "orders"}}
  <2>2. 0 \in S
    BY <1>3 DEF Fresh
  <2>3. ASSUME NEW n \in Nat, n \in S PROVE n + 1 \in S
    <3> SUFFICES ASSUME n + 1 <= L PROVE DOMAIN f[n + 1] = {"ok", "orders"}
      OBVIOUS
    <3>1. n + 1 \in 1..L /\ (n + 1) - 1 = n /\ DOMAIN f[n] = {"ok", "orders"}
      BY <2>3
    <3>2. f[n + 1] = Replayed(f[n], lines[n + 1])
      BY <2>1, <3>1
    <3> QED  BY <3>1, <3>2 DEF Replayed
  <2> HIDE DEF S
  <2>4. \A n \in Nat : n \in S
    BY <2>2, <2>3, SetInduction
  <2> QED  BY <1>2, <2>4 DEF S
<1>6. DOMAIN f[L - 1] = {"ok", "orders"}
  BY <1>3, <1>5 DEF Fresh
<1>7. /\ f[L - 1].ok /\ Accepts(f[L - 1].orders, lines[L])
      /\ f[L].orders = ApplyRecord(f[L - 1].orders, lines[L])
  BY <1>4, <1>6 DEF Replayed
<1>8. lines[L] = record
  BY <1>2, <1>7 DEF Accepts, Garbled
<1> QED  BY <1>1, <1>2, <1>3, <1>7, <1>8

(* The append returned, and the process applies what the replay would. *)
LEMMA AppendedFollows ==
    ASSUME IInv, UserInv, FollowInv, RefusalInv, Appended PROVE FollowInv' /\ RefusalInv'
<1>1. /\ pc = "sync" /\ pc' = "run" /\ lines' = lines /\ failed' = failed /\ late' = late
      /\ mem' = IF Accepts(mem, record) THEN ApplyRecord(mem, record) ELSE mem
  BY DEF Appended
<1>2. RefusalInv' /\ failed' \cup late' \subseteq 1..Len(lines')
  BY <1>1 DEF RefusalInv, FollowInv
<1>3. Settled = Len(lines) - 1 /\ Settled' = Len(lines) /\ Active /\ Active'
  BY <1>1 DEF Settled, Active
<1>4. ASSUME Replay(SubSeq(lines, 1, Len(lines))).ok
      PROVE  Agrees(Replay(SubSeq(lines, 1, Len(lines))).orders, Len(lines))'
  <2>1. PICK old : old = Replay(SubSeq(lines, 1, Len(lines) - 1)).orders
    OBVIOUS
  <2>2. PICK new : new = Replay(SubSeq(lines, 1, Len(lines))).orders
    OBVIOUS
  <2>3. /\ record \in Records /\ new = ApplyRecord(old, record)
        /\ Accepts(old, record) /\ Agrees(old, Len(lines) - 1)
    BY <1>1, <1>3, <1>4, <2>1, <2>2, LastLine DEF FollowInv
  <2>4. record.type = "INTENT" <=> record.id \notin DOMAIN mem
    BY <1>1 DEF UserInv, NewsInv
  <2>5. /\ DOMAIN new = DOMAIN old \cup {record.id} /\ DOMAIN mem' = DOMAIN mem \cup {record.id}
        /\ new[record.id] = Outcome(old, record)
        /\ Accepts(mem, record) => mem'[record.id] = Outcome(mem, record)
        /\ \A id \in DOMAIN old : id # record.id => new[id] = old[id]
        /\ \A id \in DOMAIN mem : id # record.id => mem'[id] = mem[id]
    BY <1>1, <2>3, <2>4 DEF ApplyRecord, Accepts
  <2>6. \A id : Forgotten(id, Len(lines) - 1) => Forgotten(id, Len(lines))'
    BY <1>1 DEF Forgotten, IInv, FollowInv
  <2>7. ASSUME NEW id \in DOMAIN new
        PROVE  \/ id \in DOMAIN mem' /\ mem'[id] = new[id]
               \/ id \notin DOMAIN mem' /\ new[id] = NewOrder
               \/ Forgotten(id, Len(lines))'
    <3>1. CASE id # record.id
      BY <2>3, <2>5, <2>6, <2>7, <3>1 DEF Agrees
    <3>2. CASE id = record.id /\ record.type = "INTENT"
      BY <2>5, <3>2 DEF Outcome, Accepts
    <3>3. CASE id = record.id /\ record.type # "INTENT"
      <4>1. id \in DOMAIN mem /\ id \in DOMAIN old
        BY <2>3, <2>4, <3>3 DEF Accepts
      <4>2. mem[id] = old[id] \/ Forgotten(id, Len(lines) - 1)
        BY <2>3, <4>1 DEF Agrees
      <4>3. mem[id] = old[id] => Accepts(mem, record) /\ Outcome(mem, record) = Outcome(old, record)
        BY <2>3, <3>3, <4>1 DEF Outcome, Accepts
      <4> QED  BY <2>5, <2>6, <3>3, <4>1, <4>2, <4>3
    <3> QED  BY <3>1, <3>2, <3>3
  <2>8. DOMAIN mem' \subseteq DOMAIN new
    BY <2>3, <2>5 DEF Agrees
  <2> QED  BY <1>1, <2>2, <2>7, <2>8 DEF Agrees
<1> QED  BY <1>1, <1>2, <1>3, <1>4 DEF FollowInv

(* The append failed: its line is in the file, and the process forgets it. *)
LEMMA SyncFailsFollows ==
    ASSUME IInv, UserInv, FollowInv, RefusalInv, SyncFails PROVE FollowInv' /\ RefusalInv'
<1>1. /\ pc = "sync" /\ pc' = "run" /\ lines' = lines /\ mem' = mem
      /\ failed' = failed \cup {Len(lines)} /\ late' = late
  BY DEF SyncFails, file
<1>2. /\ Len(lines) \in Nat /\ Len(lines) > 0 /\ lines \in Seq(Lines)
      /\ failed \subseteq 1..Len(lines) /\ failed \in SUBSET Int /\ late \subseteq 1..Len(lines)
  BY <1>1 DEF IInv, FollowInv
<1>3. failed' \cup late' \subseteq 1..Len(lines')
  <2>1. Len(lines) \in 1..Len(lines)
    BY <1>2
  <2> QED  BY <1>1, <1>2, <2>1
<1>4. RefusalInv'
  <2>1. ASSUME NEW j \in 1..Len(lines) PROVE Excused(lines, failed', late', j)
    <3>1. /\ j <= Len(lines) /\ \A i \in 1..j : lines[i] = lines[i]
          /\ (\A i \in failed : i <= j => i \in failed') /\ (j \in late => j \in late')
      BY <1>1, <1>2
    <3> QED  BY <1>2, <3>1, StillExcused DEF RefusalInv
  <2> QED  BY <1>1, <2>1 DEF RefusalInv
<1>5. Settled = Len(lines) - 1 /\ Settled' = Len(lines) /\ Active /\ Active'
  BY <1>1 DEF Settled, Active
<1>6. ASSUME Replay(SubSeq(lines, 1, Len(lines))).ok
      PROVE  Agrees(Replay(SubSeq(lines, 1, Len(lines))).orders, Len(lines))'
  <2>1. PICK old : old = Replay(SubSeq(lines, 1, Len(lines) - 1)).orders
    OBVIOUS
  <2>2. PICK new : new = Replay(SubSeq(lines, 1, Len(lines))).orders
    OBVIOUS
  <2>3. /\ record \in Records /\ new = ApplyRecord(old, record) /\ lines[Len(lines)] = record
        /\ Agrees(old, Len(lines) - 1)
    BY <1>1, <1>5, <1>6, <2>1, <2>2, LastLine DEF FollowInv
  <2>4. record.type = "INTENT" => record.id \notin DOMAIN mem
    BY <1>1 DEF UserInv, NewsInv
  <2>5. /\ DOMAIN new = DOMAIN old \cup {record.id}
        /\ new[record.id] = Outcome(old, record)
        /\ \A id \in DOMAIN old : id # record.id => new[id] = old[id]
    BY <2>3 DEF ApplyRecord
  <2>6. ASSUME NEW id, Forgotten(id, Len(lines) - 1) PROVE Forgotten(id, Len(lines))'
    <3>1. PICK i \in failed : /\ i <= Len(lines) - 1 /\ lines[i] \in Records
                              /\ lines[i].id = id /\ lines[i].type # "INTENT"
      BY <2>6 DEF Forgotten
    <3>2. i \in failed' /\ i <= Len(lines) /\ lines' = lines
      BY <1>1, <1>2, <3>1
    <3> QED  BY <3>1, <3>2 DEF Forgotten
  <2>7. \A id : id = record.id /\ record.type # "INTENT" => Forgotten(id, Len(lines))'
    <3>1. PICK n \in Nat : n = Len(lines)
      BY <1>2
    <3>2. n \in failed' /\ n <= n /\ lines'[n] = record
      BY <1>1, <2>3, <3>1
    <3> QED  BY <1>1, <2>3, <3>1, <3>2 DEF Forgotten
  <2>8. ASSUME NEW id \in DOMAIN new
        PROVE  \/ id \in DOMAIN mem /\ mem[id] = new[id]
               \/ id \notin DOMAIN mem /\ new[id] = NewOrder
               \/ Forgotten(id, Len(lines))'
    <3>1. CASE id # record.id
      BY <2>3, <2>5, <2>6, <2>8, <3>1 DEF Agrees
    <3>2. CASE id = record.id /\ record.type = "INTENT"
      BY <2>4, <2>5, <3>2 DEF Outcome
    <3>3. CASE id = record.id /\ record.type # "INTENT"
      BY <2>7, <3>3
    <3> QED  BY <3>1, <3>2, <3>3
  <2>9. DOMAIN mem \subseteq DOMAIN new
    BY <2>3, <2>5 DEF Agrees
  <2> QED  BY <1>1, <2>2, <2>8, <2>9 DEF Agrees
<1> QED  BY <1>1, <1>3, <1>4, <1>5, <1>6 DEF FollowInv

(* A power loss takes lines and, with them, appends that failed. *)
LEMMA PowerLossFollows ==
    ASSUME IInv, FollowInv, RefusalInv, PowerLoss PROVE FollowInv' /\ RefusalInv'
<1>1. PICK n \in synced..Len(lines) : /\ lines' = SubSeq(lines, 1, n)
                                      /\ failed' = failed \cap 1..n /\ late' = late \cap 1..n
  BY DEF PowerLoss
<1>2. n \in Nat /\ n <= Len(lines) /\ lines \in Seq(Lines)
  BY <1>1 DEF IInv
<1>3. lines' \in Seq(Lines) /\ Len(lines') = n /\ \A i \in 1..n : lines'[i] = lines[i]
  BY <1>1, <1>2
<1>4. failed' \cup late' \subseteq 1..Len(lines') /\ ~Active'
  BY <1>1, <1>3 DEF PowerLoss, Active
<1>5. ASSUME NEW j \in 1..n PROVE Excused(lines', failed', late', j)
  <2>1. /\ j \in 1..Len(lines) /\ j <= Len(lines') /\ \A i \in 1..j : lines'[i] = lines[i]
        /\ failed \in SUBSET Int /\ failed \subseteq 1..Len(lines)
        /\ (\A i \in failed : i <= j => i \in failed') /\ (j \in late => j \in late')
    BY <1>1, <1>2, <1>3 DEF FollowInv
  <2> QED  BY <1>2, <1>3, <2>1, StillExcused DEF RefusalInv
<1> QED  BY <1>3, <1>4, <1>5 DEF FollowInv, RefusalInv

(* A boot knows exactly what the file says; a process that stops, nothing. *)
LEMMA OthersFollow ==
    ASSUME IInv, FollowInv, RefusalInv,
           \/ FlushFails \/ ProcessCrash \/ ReplayAndResolve \/ ComparePositions \/ ReconcileFails
           \/ \E id \in Orders : Send(id) \/ VenueStep(id)
           \/ UNCHANGED vars
    PROVE  FollowInv' /\ RefusalInv'
<1>1. UNCHANGED <<lines, failed, late>>
  <2>1. CASE \E id \in Orders : Send(id) \/ VenueStep(id)
    BY <2>1 DEF Send, VenueStep, Arrives, GetsLost, VenueFills, VenueCancels, file, history
  <2> QED  BY <2>1 DEF FlushFails, ProcessCrash, ReplayAndResolve, ComparePositions,
                       ReconcileFails, file, history, vars
<1>2. RefusalInv' /\ failed' \cup late' \subseteq 1..Len(lines')
  BY <1>1 DEF RefusalInv, FollowInv
<1>3. CASE ReplayAndResolve /\ Replay(lines).ok
  <2>1. mem' = Replay(lines).orders /\ pc' = "positions"
    BY <1>3 DEF ReplayAndResolve
  <2>2. SubSeq(lines, 1, Len(lines)) = lines
    BY DEF IInv
  <2>3. Settled' = Len(lines)
    BY <1>1, <2>1 DEF Settled
  <2>4. Agrees(Replay(lines).orders, Len(lines))'
    BY <1>1, <2>1 DEF Agrees
  <2> QED  BY <1>1, <1>2, <2>2, <2>3, <2>4 DEF FollowInv
<1>4. CASE ~(ReplayAndResolve /\ Replay(lines).ok)
  <2>1. \/ ~Active'
        \/ Active /\ mem' = mem /\ (pc' = "sync" <=> pc = "sync")
    <3>1. CASE \E id \in Orders : Send(id) \/ VenueStep(id)
      BY <3>1 DEF Send, VenueStep, Arrives, GetsLost, VenueFills, VenueCancels, Active
    <3> QED  BY <1>4, <3>1 DEF FlushFails, ProcessCrash, ReplayAndResolve, ComparePositions,
                               ReconcileFails, vars, Active
  <2>2. CASE Active /\ mem' = mem /\ (pc' = "sync" <=> pc = "sync")
    <3>1. Settled' = Settled
      BY <1>1, <2>2 DEF Settled
    <3>2. \A orders : Agrees(orders, Settled) => Agrees(orders, Settled)'
      BY <1>1, <2>2, <3>1 DEF Agrees, Forgotten
    <3> QED  BY <1>1, <1>2, <2>2, <3>1, <3>2 DEF FollowInv
  <2> QED  BY <1>2, <2>1, <2>2 DEF FollowInv
<1> QED  BY <1>3, <1>4

LEMMA FollowStep ==
    IInv /\ UserInv /\ FollowInv /\ RefusalInv /\ [Next]_vars => FollowInv' /\ RefusalInv'
BY WriteLineFollows, AppendedFollows, SyncFailsFollows, PowerLossFollows, OthersFollow
   DEF Next, JournalStep

(***************************************************************************)
(* Replay (internal/orders/journal.go) refuses a line only for one of      *)
(* three reasons: it was appended behind half a line; or it is news of an  *)
(* order that is done, and the order refused it when it was recorded, or a *)
(* failed append had left other news of that order in the file.  The user  *)
(* may record all the venue tells it, twice and late.                      *)
(***************************************************************************)
THEOREM RefusalHasACause == Spec => []ReplayFailsOnlyWhen
<1>1. ASSUME IInv, RefusalInv PROVE ReplayFailsOnlyWhen
  <2>1. DOMAIN lines = 1..Len(lines)
    BY <1>1 DEF IInv
  <2> QED  BY <1>1, <2>1 DEF RefusalInv, Excused, ReplayFailsOnlyWhen
<1> QED  BY <1>1, InitInv, StepInv, KeptInit, KeptStep, UserInit, UserStep, FollowInit, FollowStep,
            PTL DEF Spec

-----------------------------------------------------------------------------
(* Between the replay and the comparison, the orders in flight are those   *)
(* the venue was asked about.                                              *)
AskedInv == pc = "positions" => InFlight(mem) \subseteq DOMAIN asked

LEMMA AskedStep == AskedInv /\ [Next]_vars => AskedInv'
<1> SUFFICES ASSUME AskedInv, [Next]_vars, pc' = "positions" PROVE InFlight(mem)' \subseteq DOMAIN asked'
  BY DEF AskedInv
<1>1. CASE ReplayAndResolve
  <2>1. asked' = [id \in InFlight(mem)' |-> Resolve(id)]
    BY <1>1 DEF ReplayAndResolve, InFlight
  <2> QED  BY <2>1
<1>2. CASE UNCHANGED <<pc, mem, asked>>
  BY <1>2 DEF AskedInv, InFlight
<1>3. CASE \E id \in Orders : Send(id) \/ VenueStep(id)
  BY <1>2, <1>3 DEF Send, VenueStep, Arrives, GetsLost, VenueFills, VenueCancels, boot
<1> QED
  BY <1>1, <1>2, <1>3 DEF Next, JournalStep, WriteLine, FlushFails, Appended, SyncFails, ProcessCrash,
     PowerLoss, ComparePositions, ReconcileFails, vars, boot

(* What the venue filled of each order the process knows, with its sign.   *)
VenueQty == [id \in DOMAIN mem |-> IF id \in DOMAIN venue THEN Signed(id, Filled(id)) ELSE 0]

(* The two sides of the comparison are sums of signed quantities.          *)
LEMMA BrokerQtyIs ==
    ASSUME NEW V, V = DOMAIN venue, IsFiniteSet(V), V \subseteq DOMAIN mem
    PROVE  BrokerQty = SumFunctionOnSet(VenueQty, V)
<1> DEFINE c(id) == IF id \in Sells THEN -Filled(id) ELSE Filled(id)
           P(g) == g = [t \in SUBSET V |->
                IF t = {} THEN 0
                ELSE c(CHOOSE x \in t : TRUE) + g[t \ {CHOOSE x \in t : TRUE}]]
<1>1. \A id \in V : VenueQty[id] = c(id)
  BY DEF VenueQty, Signed
<1>2. BrokerQty = (CHOOSE g : P(g))[V]
  BY DEF BrokerQty, MapThenSumSet, MapThenFoldSet
<1> HIDE DEF c
<1>3. ASSUME NEW g PROVE P(g) <=> SumTable(g, VenueQty, V)
  <2>1. \A t \in SUBSET V : t # {} => Pick(t) \in V /\ VenueQty[Pick(t)] = c(Pick(t))
    BY <1>1 DEF Pick
  <2>2. P(g) <=> g = [t \in SUBSET V |-> IF t = {} THEN 0 ELSE c(Pick(t)) + g[t \ {Pick(t)}]]
    BY DEF Pick
  <2> HIDE DEF P
  <2> QED  BY <2>1, <2>2 DEF SumTable
<1> HIDE DEF P
<1>4. PICK h : SumTable(h, VenueQty, V) /\ SumFunctionOnSet(VenueQty, V) = h[V]
  BY SumIsInTable
<1>5. P(CHOOSE g : P(g))
  BY <1>3, <1>4
<1>6. PICK g : SumTable(g, VenueQty, V) /\ BrokerQty = g[V]
  BY <1>2, <1>3, <1>5
<1>7. V \in SUBSET V
  OBVIOUS
<1>8. g[V] = h[V]
  BY <1>4, <1>6, <1>7, TablesAgree
<1> QED  BY <1>4, <1>6, <1>8

JournalledQty == [id \in DOMAIN mem |-> Signed(id, mem[id].cum)]

LEMMA JournalQtyIs ==
    ASSUME NEW J, J = DOMAIN mem \ InFlight(mem), IsFiniteSet(J)
    PROVE  JournalQty = SumFunctionOnSet(JournalledQty, J)
<1> DEFINE c(id) == Signed(id, mem[id].cum)
           P(g) == g = [t \in SUBSET J |->
                IF t = {} THEN 0
                ELSE c(CHOOSE x \in t : TRUE) + g[t \ {CHOOSE x \in t : TRUE}]]
<1>1. \A id \in J : JournalledQty[id] = c(id)
  BY DEF JournalledQty
<1>2. JournalQty = (CHOOSE g : P(g))[J]
  BY DEF JournalQty, MapThenSumSet, MapThenFoldSet
<1> HIDE DEF c
<1>3. ASSUME NEW g PROVE P(g) <=> SumTable(g, JournalledQty, J)
  <2>1. \A t \in SUBSET J : t # {} => Pick(t) \in J /\ JournalledQty[Pick(t)] = c(Pick(t))
    BY <1>1 DEF Pick
  <2>2. P(g) <=> g = [t \in SUBSET J |-> IF t = {} THEN 0 ELSE c(Pick(t)) + g[t \ {Pick(t)}]]
    BY DEF Pick
  <2> HIDE DEF P
  <2> QED  BY <2>1, <2>2 DEF SumTable
<1> HIDE DEF P
<1>4. PICK h : SumTable(h, JournalledQty, J) /\ SumFunctionOnSet(JournalledQty, J) = h[J]
  BY SumIsInTable
<1>5. P(CHOOSE g : P(g))
  BY <1>3, <1>4
<1>6. PICK g : SumTable(g, JournalledQty, J) /\ JournalQty = g[J]
  BY <1>2, <1>3, <1>5
<1>7. J \in SUBSET J
  OBVIOUS
<1>8. g[J] = h[J]
  BY <1>4, <1>6, <1>7, TablesAgree
<1> QED  BY <1>4, <1>6, <1>8

(* What the process counted of an order is part of what the venue filled.  *)
LEMMA CountedIsFilled ==
    ASSUME VenueInv, NEW id \in DOMAIN venue, NEW o, TrueOf(o, id)
    PROVE  /\ o.cum \in Int /\ Filled(id) \in Int
           /\ 0 <= o.cum /\ o.cum <= Filled(id) /\ Filled(id) <= OrderQty
<1>1. PICK v : v = venue[id] /\ Ordered(v)
  BY DEF VenueInv
<1>2. PICK fills : fills = v.fills
  OBVIOUS
<1>3. PICK S : S = o.seen
  OBVIOUS
<1>4. PICK D : D = DOMAIN fills
  OBVIOUS
<1>5. /\ IsFiniteSet(D) /\ \A k \in D : fills[k] \in Nat
      /\ SumFunction(fills) \in Int /\ SumFunction(fills) <= OrderQty
  BY <1>1, <1>2, <1>4, VenueFillsAreAmounts DEF Ordered
<1>6. S \in SUBSET D /\ o.cum = SumFunctionOnSet(fills, S)
  BY <1>1, <1>2, <1>3, <1>4 DEF TrueOf
<1>7. Filled(id) = SumFunctionOnSet(fills, D) /\ SumFunction(fills) = SumFunctionOnSet(fills, D)
  BY <1>1, <1>2, <1>4, FilledIsSum DEF SumFunction
<1>8. (\A k \in D : fills[k] \in Int) /\ (\A k \in D \ S : fills[k] >= 0)
  BY <1>5
<1>9. SumFunctionOnSet(fills, S) <= SumFunctionOnSet(fills, D)
  BY <1>5, <1>6, <1>8, SumSubset
<1>10. IsFiniteSet(S) /\ (\A k \in S : fills[k] \in Int) /\ (\A k \in S \ {} : fills[k] >= 0) /\ {} \in SUBSET S
  BY <1>5, <1>6, FS_Subset
<1>11. SumFunctionOnSet(fills, {}) <= SumFunctionOnSet(fills, S)
  BY <1>10, SumSubset
<1>12. SumFunctionOnSet(fills, {}) = 0 /\ SumFunctionOnSet(fills, S) \in Int
  BY <1>10, SumEmpty, SumType
<1> QED  BY <1>5, <1>6, <1>7, <1>9, <1>11, <1>12

(* An order whose end was recorded after all of its fills leaves no gap.   *)
LEMMA DoneIsSettled ==
    ASSUME UserInv, NEW id \in DOMAIN mem, IsTerminal(mem[id]),
           id \in DOMAIN venue => ~(mem[id].state = "Canceled" /\ mem[id].cum < Filled(id)
                                        /\ Filled(id) > 0)
    PROVE  VenueQty[id] = JournalledQty[id]
<1>1. PICK o : o = mem[id] /\ TrueOf(o, id)
  BY DEF UserInv, Truthful
<1>2. CASE id \notin DOMAIN venue
  <2>1. o.seen = {} /\ o.cum = SumFunctionOnSet(venue[id].fills, {})
    BY <1>1, <1>2 DEF TrueOf
  <2>2. o.cum = 0
    BY <2>1, SumEmpty
  <2> QED  BY <1>1, <1>2, <2>2 DEF VenueQty, JournalledQty, Signed
<1>3. CASE id \in DOMAIN venue
  <2>1. /\ o.cum \in Int /\ Filled(id) \in Int
        /\ 0 <= o.cum /\ o.cum <= Filled(id) /\ Filled(id) <= OrderQty
    BY <1>1, <1>3, CountedIsFilled DEF UserInv
  <2>2. o.cum = Filled(id)
    <3>1. CASE o.state = "Filled"
      BY <1>1, <2>1, <3>1, OrderAssumption DEF TrueOf
    <3>2. CASE o.state = "Rejected"
      <4>1. venue[id].fills = <<>>
        BY <1>1, <1>3, <3>2 DEF TrueOf, UserInv, VenueInv, Ordered
      <4>2. SumFunction(<<>>) = 0
        BY SumEmpty DEF SumFunction
      <4> QED  BY <2>1, <4>1, <4>2, FilledIsSum
    <3>3. CASE o.state = "Canceled"
      BY <1>1, <1>3, <2>1, <3>3
    <3> QED  BY <1>1, <3>1, <3>2, <3>3 DEF IsTerminal
  <2> QED  BY <1>1, <1>3, <2>2 DEF VenueQty, JournalledQty
<1> QED  BY <1>2, <1>3

LEMMA NoReasonNoGap ==
    ASSUME UserInv, AskedInv, ComparePositions,
           \A id \in DOMAIN mem \cap DOMAIN venue :
               ~(/\ Filled(id) > 0
                 /\ \/ id \in DOMAIN asked
                    \/ mem[id].state = "Canceled" /\ mem[id].cum < Filled(id))
    PROVE  gap' = 0
<1>1. PICK D : D = DOMAIN mem
  OBVIOUS
<1>2. PICK V : V = DOMAIN venue
  OBVIOUS
<1>3. PICK J : J = D \ InFlight(mem)
  OBVIOUS
<1>4. IsFiniteSet(D) /\ V \in SUBSET D /\ J \in SUBSET D /\ InFlight(mem) \subseteq DOMAIN asked
  BY <1>1, <1>2, <1>3 DEF UserInv, Truthful, OnceInv, Active, ComparePositions, AskedInv, InFlight
<1>5. IsFiniteSet(V) /\ IsFiniteSet(J)
  BY <1>4, FS_Subset
<1>6. ASSUME NEW id \in D PROVE VenueQty[id] \in Int /\ (id \notin V => VenueQty[id] = 0)
  <2>1. CASE id \in V
    <3>1. TrueOf(mem[id], id)
      BY <1>1 DEF UserInv, Truthful
    <3>2. Filled(id) \in Int
      BY <1>2, <2>1, <3>1, CountedIsFilled DEF UserInv
    <3> QED  BY <1>1, <1>2, <2>1, <3>2 DEF VenueQty, Signed
  <2> QED  BY <1>1, <1>2, <2>1 DEF VenueQty
<1>7. \A id \in D \ J : VenueQty[id] = 0
  <2> SUFFICES ASSUME NEW id \in D, id \in InFlight(mem), id \in V PROVE VenueQty[id] = 0
    BY <1>3, <1>6
  <2>1. TrueOf(mem[id], id) /\ id \in DOMAIN asked
    BY <1>1, <1>4 DEF UserInv, Truthful
  <2>2. Filled(id) \in Int /\ 0 <= Filled(id) /\ ~(Filled(id) > 0)
    <3>1. 0 <= mem[id].cum /\ mem[id].cum <= Filled(id) /\ mem[id].cum \in Int /\ Filled(id) \in Int
      BY <1>2, <2>1, CountedIsFilled DEF UserInv
    <3> QED  BY <1>1, <1>2, <2>1, <3>1
  <2>3. Filled(id) = 0
    BY <2>2
  <2>4. PICK n \in Int : n = Filled(id) /\ n = 0
    BY <2>3
  <2>5. VenueQty[id] = Signed(id, n)
    BY <1>1, <1>2, <2>4 DEF VenueQty
  <2>6. \A x \in Int : x = 0 => 0 - x = 0
    OBVIOUS
  <2>7. -n = 0 - n
    OBVIOUS
  <2> QED  BY <2>4, <2>5, <2>6, <2>7 DEF Signed
<1>8. \A id \in J : VenueQty[id] = JournalledQty[id]
  <2> SUFFICES ASSUME NEW id \in J PROVE VenueQty[id] = JournalledQty[id]
    OBVIOUS
  <2>1. id \in DOMAIN mem /\ IsTerminal(mem[id])
    BY <1>1, <1>3 DEF InFlight
  <2>2. id \in DOMAIN venue => ~(mem[id].state = "Canceled" /\ mem[id].cum < Filled(id)
                                     /\ Filled(id) > 0)
    BY <2>1
  <2> QED  BY <2>1, <2>2, DoneIsSettled
<1>9. SumFunctionOnSet(VenueQty, V) = SumFunctionOnSet(VenueQty, D)
  BY <1>4, <1>6, SumSubset
<1>10. SumFunctionOnSet(VenueQty, J) = SumFunctionOnSet(VenueQty, D)
  BY <1>4, <1>6, <1>7, SumSubset
<1>11. SumFunctionOnSet(VenueQty, J) = SumFunctionOnSet(JournalledQty, J)
  BY <1>5, <1>8, SumSame
<1>12. BrokerQty = SumFunctionOnSet(VenueQty, V) /\ JournalQty = SumFunctionOnSet(JournalledQty, J)
  BY <1>1, <1>2, <1>3, <1>4, <1>5, BrokerQtyIs, JournalQtyIs
<1>13. SumFunctionOnSet(VenueQty, D) \in Int
  BY <1>4, <1>6, SumType
<1>14. gap' = BrokerQty - JournalQty
  BY DEF ComparePositions
<1>15. BrokerQty = JournalQty /\ JournalQty \in Int
  BY <1>9, <1>10, <1>11, <1>12, <1>13
<1>16. \A x, y \in Int : x = y => x - y = 0
  OBVIOUS
<1> QED  BY <1>14, <1>15, <1>16

(***************************************************************************)
(* The boot reconciliation (internal/brokers/reconcile.go) reports a       *)
(* discrepancy of positions only where one order explains it: one that     *)
(* filled while the journal has it in flight, or one whose cancellation    *)
(* was recorded before all of its fills.                                   *)
(***************************************************************************)
THEOREM GapsAreExplained == Spec => GapHasAReason
<1>1. Init => AskedInv
  BY DEF Init, AskedInv
<1> DEFINE Explained == ComparePositions /\ gap' # 0 =>
          \E id \in DOMAIN mem \cap DOMAIN venue :
              /\ Filled(id) > 0
              /\ \/ id \in DOMAIN asked
                 \/ mem[id].state = "Canceled" /\ mem[id].cum < Filled(id)
<1>2. UserInv /\ AskedInv => Explained
  BY NoReasonNoGap
<1>3. Spec => [][Explained]_vars
  <2> HIDE DEF Explained
  <2> QED  BY <1>1, <1>2, InitInv, StepInv, KeptInit, KeptStep, UserInit, UserStep, AskedStep, PTL DEF Spec
<1> QED  BY <1>3 DEF GapHasAReason
=============================================================================
