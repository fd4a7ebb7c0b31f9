------------------------- MODULE FillLedger_proofs -------------------------
(***************************************************************************)
(* The fill ledger, for any stream of fills, page size and number of       *)
(* crashes.  First its cursor: memory and database agree, and only a fill  *)
(* that a page boundary cut off can be left behind.  Then its books: the   *)
(* arithmetic of one fill, the sums over all of them, and with these that  *)
(* the books balance, first in is first out, and the lots follow the venue.*)
(***************************************************************************)
EXTENDS FillLedger, Inductions

At(i) == fills[i].at

(* The venue's log: times start after the epoch and never go back. *)
LogInv == /\ fills \in Seq([sym : Symbols, side : {"Buy", "Sell"}, qty : Nat \ {0},
                            at : Nat, px : Nat])
          /\ \A i \in Ids : At(i) > 0 /\ At(i) <= LastTime
          /\ \A i, j \in Ids : i <= j => At(i) <= At(j)

ShapeInv == /\ store = [booted |-> store.booted, cursor |-> store.cursor, basis |-> store.basis,
                        seen |-> store.seen, booked |-> store.booked]
            /\ store.cursor \in 0..LastTime
            /\ after \in Nat /\ page \in Int
            /\ got \subseteq Ids /\ cuts \subseteq Ids
            /\ Running \/ after = 0

(* A fill at or after the cursor is accounted for, or a page cut it off. *)
Known(i) == i \in got \/ i \in store.seen \/ CutOff(i)

(* While the stream is read: nothing up to the page cursor is missing. *)
ReadInv ==
    pc \in {"seed", "read"} =>
        /\ \/ page = after - 1
           \/ page = 0 /\ after = 0
           \/ \E j \in cuts : page = At(j)
        /\ \A i \in Ids : after <= At(i) /\ At(i) <= page => Known(i)

(* While it is applied: nothing older than a fill yet to come is missing. *)
ApplyInv ==
    pc \in {"save", "apply"} =>
        \A i \in Ids, j \in got : after <= At(i) /\ At(i) < At(j) => Known(i)

IInv == LogInv /\ ShapeInv /\ MemoryMatchesStore /\ ReadInv /\ ApplyInv /\ OnlyCutFillsAreSkipped

-----------------------------------------------------------------------------
(* A new database, an empty log and a process that has read nothing.        *)
LEMMA InitInv == Init => IInv
  BY DEF Init, IInv, LogInv, ShapeInv, ReadInv, ApplyInv, OnlyCutFillsAreSkipped,
         MemoryMatchesStore, Running, Ids, LastTime

(* The steps that leave the venue's log alone keep what it says. *)
LEMMA LogKept == ASSUME LogInv, UNCHANGED fills PROVE LogInv' /\ LastTime' = LastTime /\ Ids' = Ids
  BY DEF LogInv, LastTime, Ids, At

(* What the log's type says of indices and times. *)
LEMMA LogTypes ==
  ASSUME LogInv
  PROVE  /\ Len(fills) \in Nat /\ Ids = 1..Len(fills)
         /\ \A i \in Ids : At(i) \in Nat /\ i \in Nat
         /\ LastTime \in Nat
PROOF
  <1> DEFINE R == [sym : Symbols, side : {"Buy", "Sell"}, qty : Nat \ {0}, at : Nat, px : Nat]
  <1>1. fills \in Seq(R)
    BY DEF LogInv
  <1> HIDE DEF R
  <1>2. Len(fills) \in Nat /\ Ids = 1..Len(fills) /\ \A i \in Ids : fills[i] \in R
    BY <1>1 DEF Ids
  <1>3. \A r \in R : r.at \in Nat
    BY DEF R
  <1>4. fills # <<>> => Len(fills) \in Ids
    BY <1>1, <1>2
  <1> QED
    BY <1>2, <1>3, <1>4 DEF At, LastTime

(* A fill that was cut off stays so while the log and the cuts grow. *)
LEMMA StillCutOff ==
  ASSUME ShapeInv, cuts \subseteq cuts', \A j \in Ids : fills'[j] = fills[j],
         NEW i \in Ids, CutOff(i)
  PROVE  CutOff(i)'
  BY DEF ShapeInv, CutOff

(* A request for a page, in the boot or in the loop. *)
LEMMA PageStep ==
  ASSUME IInv, NEW ok, NEW failed, ReadPage(ok, failed),
         \/ pc = "seed" /\ ok = "save" /\ failed = "stopped"
         \/ pc = "read" /\ ok = "apply" /\ failed = "idle"
  PROVE  IInv'
PROOF
  <1>1. LogInv' /\ LastTime' = LastTime /\ Ids' = Ids
    BY LogKept DEF ReadPage, IInv
  <1>c. \A i \in Ids : CutOff(i) => CutOff(i)'
    <2>1. cuts \subseteq cuts' /\ fills' = fills
      BY DEF ReadPage, LastPage, TurnPage, ReadFails
    <2> QED BY <2>1, StillCutOff DEF IInv
  <1>2. MemoryMatchesStore' /\ OnlyCutFillsAreSkipped'
    <2>1. UNCHANGED <<fills, store, lots, after>> /\ (Running' <=> Running)
      BY DEF ReadPage, memory, durable, Running, LastPage, TurnPage, ReadFails
    <2> QED BY <1>1, <1>c, <2>1 DEF IInv, MemoryMatchesStore, OnlyCutFillsAreSkipped
  <1>3. CASE ReadFails(failed)
    BY <1>1, <1>2, <1>3 DEF ReadPage, ReadFails, StartRead, IInv, ShapeInv, ReadInv, ApplyInv,
       memory, durable, Running
  <1>4. ASSUME NEW body \in SUBSET Beyond(page), Oldest(body), LastPage(body, ok) PROVE IInv'
    <2>1. body = Beyond(page)
      BY <1>4 DEF LastPage
    <2>2. ShapeInv'
      BY <1>1, <1>4 DEF ReadPage, LastPage, IInv, ShapeInv, memory, durable, Running, Beyond, Ids
    <2>3. ApplyInv'
      <3> SUFFICES ASSUME NEW i \in Ids, after <= At(i) PROVE Known(i)'
        BY <1>1, <1>4 DEF ApplyInv, ReadPage, memory, At
      <3>1. CASE At(i) <= page
        BY <1>4, <1>c, <3>1 DEF IInv, ReadInv, Known, LastPage, ReadPage, durable
      <3>2. CASE ~(At(i) <= page)
        BY <1>4, <2>1, <3>2, LogTypes
           DEF Beyond, Ids, Known, LastPage, At, IInv, ShapeInv, ReadPage, durable
      <3> QED BY <3>1, <3>2
    <2> QED
      BY <1>1, <1>2, <1>4, <2>2, <2>3 DEF IInv, ReadInv, LastPage
  <1>5. ASSUME NEW body \in SUBSET Beyond(page), Oldest(body), TurnPage(body) PROVE IInv'
    <2>1. PICK last \in body : /\ \A i \in body : i <= last
                               /\ page' = At(last) /\ cuts' = cuts \cup {last}
      BY <1>5 DEF TurnPage, At
    <2>2. last \in Ids /\ At(last) \in Nat /\ At(last) <= LastTime /\ body \subseteq Ids
      BY <2>1, LogTypes DEF Beyond, Ids, IInv, LogInv, At
    <2>3. ShapeInv'
      BY <1>1, <1>5, <2>1, <2>2 DEF ReadPage, TurnPage, IInv, ShapeInv, memory, durable, Running
    <2>4. ReadInv'
      <3>0. fills' = fills /\ store' = store /\ after' = after /\ got' = got \cup body
        BY <1>5 DEF ReadPage, TurnPage, memory, durable
      <3> SUFFICES ASSUME NEW i \in Ids, after <= At(i), At(i) <= page' PROVE Known(i)'
        BY <1>1, <2>1, <3>0 DEF ReadInv, At
      <3>1. CASE At(i) <= page
        BY <1>5, <1>c, <3>0, <3>1 DEF IInv, ReadInv, Known, TurnPage
      <3>2. CASE ~(At(i) <= page)
        <4>1. i \in Beyond(page) /\ i \in Nat /\ last \in Nat
          BY <2>2, <3>2, LogTypes DEF Beyond, Ids, IInv, ShapeInv, At
        <4>2. CASE i <= last
          <5>1. i \in body
            BY <1>5, <2>1, <4>1, <4>2 DEF Oldest
          <5> QED BY <3>0, <5>1 DEF Known
        <4>3. CASE last < i
          <5>1. At(i) = At(last)
            <6>1. At(last) <= At(i)
              BY <2>2, <4>1, <4>3 DEF IInv, LogInv
            <6> QED BY <2>1, <2>2, <6>1, LogTypes DEF IInv
          <5>2. CutOff(i)'
            BY <2>1, <3>0, <4>3, <5>1 DEF CutOff, At
          <5> QED BY <5>2 DEF Known
        <4> QED BY <4>1, <4>2, <4>3
      <3> QED BY <3>1, <3>2
    <2> QED
      BY <1>1, <1>2, <1>5, <2>3, <2>4 DEF IInv, ApplyInv, TurnPage
  <1> QED
    BY <1>3, <1>4, <1>5 DEF ReadPage

(* One fill of the reconciliation: skipped, booked, or not stored. *)
LEMMA ApplyStep == ASSUME IInv, ApplyFill PROVE IInv'
PROOF
  <1> USE DEF IInv
  <1>1. LogInv' /\ LastTime' = LastTime /\ Ids' = Ids /\ UNCHANGED <<fills, cuts, page>>
    BY LogKept DEF ApplyFill, Apply, venue
  <1>2. PICK i \in got : IsNext(i) /\ (SkipSeen(i) \/ Book(i) \/ StoreFails(i))
    BY DEF ApplyFill, Apply
  <1>3. pc = "apply" /\ Running
    BY DEF ApplyFill, Apply, Running
  <1>c. \A k \in Ids : CutOff(k)' <=> CutOff(k)
    BY <1>1 DEF CutOff
  <1>4. CASE StoreFails(i)
    BY <1>1, <1>c, <1>3, <1>4 DEF StoreFails, Undone, ShapeInv, MemoryMatchesStore, ReadInv,
       ApplyInv, OnlyCutFillsAreSkipped, Running
  <1>5. CASE SkipSeen(i) \/ Book(i)
    <2>1. /\ pc' = pc /\ after' = NextCursor(i) /\ got' = got \ {i}
          /\ store'.cursor = NextCursor(i) /\ store'.basis = lots'
          /\ store'.seen = store.seen \cup {i}
          /\ store' = [booted |-> store'.booted, cursor |-> store'.cursor, basis |-> store'.basis,
                       seen |-> store'.seen, booked |-> store'.booked]
      <3>1. CASE SkipSeen(i) /\ NextCursor(i) = after
        BY <1>3, <3>1 DEF SkipSeen, ShapeInv, MemoryMatchesStore
      <3>2. CASE SkipSeen(i) /\ NextCursor(i) # after
        <4>1. store' = [store EXCEPT !.cursor = NextCursor(i), !.basis = lots]
          BY <3>2 DEF SkipSeen
        <4> QED BY <3>2, <4>1 DEF SkipSeen, ShapeInv
      <3>3. CASE Book(i)
        BY <3>3 DEF Book, BasisSaved, ShapeInv
      <3> QED BY <1>5, <3>1, <3>2, <3>3
    <2>2. /\ NextCursor(i) \in 0..LastTime
          /\ after <= NextCursor(i) /\ At(i) <= NextCursor(i)
          /\ NextCursor(i) = after \/ NextCursor(i) = At(i)
      BY <1>3, LogTypes DEF NextCursor, ShapeInv, MemoryMatchesStore, LogInv, At
    <2>3. ASSUME NEW k \in Ids, At(k) < NextCursor(i)
          PROVE  k \in store.seen \cup {i} \/ CutOff(k)
      <3>1. CASE At(k) < after
        BY <1>3, <3>1 DEF MemoryMatchesStore, OnlyCutFillsAreSkipped, At
      <3>2. CASE after <= At(k)
        <4>1. At(k) < At(i)
          BY <2>2, <2>3, <3>2, LogTypes DEF ShapeInv
        <4>2. k \notin got
          BY <1>2, <4>1, LogTypes DEF IsNext, IsBefore, ShapeInv, At
        <4> QED BY <1>3, <3>2, <4>1, <4>2 DEF ApplyInv, Known
      <3> QED BY <3>1, <3>2, LogTypes DEF ShapeInv
    <2>4. ASSUME NEW k \in Ids, NEW j \in got \ {i}, NextCursor(i) <= At(k), At(k) < At(j)
          PROVE  Known(k)'
      <3>1. after <= At(k)
        BY <2>2, <2>4, LogTypes DEF ShapeInv
      <3>2. Known(k)
        BY <1>3, <2>4, <3>1 DEF ApplyInv
      <3> QED BY <1>1, <1>c, <2>1, <3>2 DEF Known
    <2>5. ApplyInv'
      BY <1>1, <2>1, <2>4 DEF ApplyInv, At
    <2>6. OnlyCutFillsAreSkipped'
      BY <1>1, <1>c, <2>1, <2>3 DEF OnlyCutFillsAreSkipped, At
    <2>7. ShapeInv' /\ MemoryMatchesStore' /\ ReadInv'
      BY <1>1, <1>3, <2>1, <2>2, LogTypes DEF ShapeInv, MemoryMatchesStore, ReadInv, Running
    <2> QED BY <1>1, <2>5, <2>6, <2>7
  <1> QED BY <1>2, <1>4, <1>5

(* A new fill is not older than any before it, so neither cursor passed it. *)
LEMMA VenueStep == ASSUME IInv, VenueFills PROVE IInv'
PROOF
  <1> USE DEF IInv
  <1> DEFINE R == [sym : Symbols, side : {"Buy", "Sell"}, qty : Nat \ {0}, at : Nat, px : Nat]
  <1>0. PICK new : new = Len(fills) + 1
    OBVIOUS
  <1>1. PICK s \in Symbols, done \in Executions[new], at \in {LastTime, LastTime + 1} :
            fills' = Append(fills, [sym |-> s, side |-> done.side, qty |-> done.qty, at |-> at,
                                    px |-> Price[new]])
    BY <1>0 DEF VenueFills
  <1> DEFINE fill == [sym |-> s, side |-> done.side, qty |-> done.qty, at |-> at,
                      px |-> Price[new]]
  <1>2. Len(fills) < MaxFills /\ new \in 1..Len(Price) /\ new \in 1..MaxFills
    BY <1>0, LogTypes, FillAssumption DEF VenueFills, MaxFills
  <1>3. fill \in R /\ fill.at = at
    <2>1. done \in [side : {"Buy", "Sell"}, qty : Nat \ {0}]
      BY <1>1, <1>2, FillAssumption
    <2> QED BY <1>2, <1>1, <2>1, LogTypes, FillAssumption
  <1>4. fills \in Seq(R)
    BY DEF LogInv
  <1>5. fills' = Append(fills, fill)
    BY <1>1
  <1> HIDE DEF R, fill
  <1>6. /\ fills' \in Seq(R) /\ Len(fills') = new /\ fills'[new] = fill
        /\ \A i \in 1..Len(fills) : fills'[i] = fills[i]
    BY <1>0, <1>4, <1>3, <1>5
  <1>7. /\ Ids' = Ids \cup {new} /\ new \notin Ids /\ Ids \subseteq Nat /\ new \in Nat
        /\ \A i \in Ids : i < new /\ At(i)' = At(i)
        /\ At(new)' = at
    <2>1. Ids = 1..Len(fills) /\ Ids' = 1..new /\ Len(fills) \in Nat
      BY <1>6, LogTypes DEF Ids
    <2>2. At(new)' = at
      BY <1>3, <1>6 DEF At
    <2>3. \A i \in Ids : At(i)' = At(i)
      BY <1>6, <2>1 DEF At
    <2> QED BY <1>0, <2>1, <2>2, <2>3
  <1>8. LastTime' = at /\ at \in Nat /\ LastTime <= at /\ at > 0
    <2>1. at \in Nat /\ LastTime <= at
      BY LogTypes
    <2>2. LastTime > 0
      <3>1. CASE fills = <<>>
        BY <3>1 DEF LastTime
      <3>2. CASE fills # <<>>
        BY <1>4, <3>2, LogTypes DEF LastTime, LogInv, At
      <3> QED BY <3>1, <3>2
    <2>3. fills' # <<>>
      BY <1>0, <1>6, LogTypes
    <2>4. LastTime' = at
      BY <1>3, <1>6, <2>3 DEF LastTime
    <2> QED BY <2>1, <2>2, <2>4, LogTypes
  <1>9. LogInv'
    <2>1. \A i \in Ids' : At(i)' > 0 /\ At(i)' <= LastTime'
      BY <1>7, <1>8, LogTypes DEF LogInv
    <2>2. \A i, j \in Ids' : i <= j => At(i)' <= At(j)'
      BY <1>7, <1>8, LogTypes DEF LogInv
    <2> QED BY <1>6, <2>1, <2>2 DEF LogInv, R
  <1>10. UNCHANGED <<pc, lots, after, page, got, store, cuts>>
    BY DEF VenueFills, memory, pager, durable
  <1>c. \A i \in Ids : CutOff(i)' <=> CutOff(i)
    <2>1. cuts \subseteq Ids
      BY DEF ShapeInv
    <2> QED BY <1>7, <1>10, <2>1 DEF CutOff, At
  <1>11. \A i \in Ids : Known(i)' <=> Known(i)
    BY <1>c, <1>10 DEF Known
  <1>12. ShapeInv' /\ MemoryMatchesStore'
    BY <1>7, <1>8, <1>10, LogTypes DEF ShapeInv, MemoryMatchesStore, Running
  <1>13. ReadInv'
    <2> SUFFICES ASSUME pc \in {"seed", "read"} PROVE ReadInv'
      BY <1>10 DEF ReadInv
    <2>1. \A j \in cuts : j \in Ids /\ At(j)' = At(j)
      BY <1>7 DEF ShapeInv
    <2>2. \/ page = after - 1
          \/ page = 0 /\ after = 0
          \/ \E j \in cuts : page = At(j)
      BY DEF ReadInv
    <2>3. ASSUME after <= at, at <= page PROVE CutOff(new)'
      <3>1. PICK j \in cuts : page = At(j)
        BY <1>8, <2>2, <2>3 DEF ShapeInv
      <3>2. j \in Ids /\ At(j) <= LastTime /\ j < new /\ At(j) \in Nat
        BY <1>7, <2>1, LogTypes DEF LogInv
      <3>3. At(j)' = At(new)'
        BY <1>7, <1>8, <2>1, <2>3, <3>1, <3>2, LogTypes
      <3> QED BY <1>10, <3>2, <3>3 DEF CutOff, At
    <2>4. ASSUME NEW i \in Ids', after <= At(i)', At(i)' <= page PROVE Known(i)'
      <3>1. CASE i \in Ids
        BY <1>7, <1>11, <2>4, <3>1 DEF ReadInv
      <3>2. CASE i = new
        BY <1>7, <2>3, <2>4, <3>2 DEF Known
      <3> QED BY <1>7, <3>1, <3>2
    <2> QED BY <1>10, <2>1, <2>2, <2>4 DEF ReadInv
  <1>14. ApplyInv'
    <2>1. ASSUME pc \in {"save", "apply"}, NEW i \in Ids', NEW j \in got,
                 after <= At(i)', At(i)' < At(j)'
          PROVE  Known(i)'
      <3>1. j \in Ids /\ At(j)' = At(j) /\ At(j) <= LastTime
        BY <1>7, <1>10, <2>1 DEF ShapeInv, LogInv
      <3>2. i \in Ids /\ At(i)' = At(i)
        BY <1>7, <1>8, <2>1, <3>1, LogTypes
      <3> QED  BY <1>10, <1>11, <2>1, <3>1, <3>2 DEF ApplyInv
    <2> QED  BY <1>10, <2>1 DEF ApplyInv
  <1>15. OnlyCutFillsAreSkipped'
    BY <1>7, <1>8, <1>10, <1>c, LogTypes DEF OnlyCutFillsAreSkipped, ShapeInv, At
  <1> QED BY <1>9, <1>12, <1>13, <1>14, <1>15

(***************************************************************************)
(* The inductive step.  A seed and a booked fill move the cursor; what     *)
(* ApplyInv says of the fills still to come is why it passes over nothing. *)
(***************************************************************************)
LEMMA InvStep == IInv /\ [Next]_vars => IInv'
PROOF
  <1> SUFFICES ASSUME IInv, [Next]_vars PROVE IInv'
    OBVIOUS
  <1> USE DEF IInv
  <1>1. CASE UNCHANGED vars
    <2>1. LogInv' /\ LastTime' = LastTime /\ Ids' = Ids
      BY <1>1, LogKept DEF vars, venue
    <2> QED
      BY <1>1, <2>1 DEF vars, venue, memory, pager, durable, ShapeInv, MemoryMatchesStore, ReadInv,
         ApplyInv, Known, CutOff, OnlyCutFillsAreSkipped, Running, Ids, At
  <1>2. CASE LoadState
    <2>1. LogInv' /\ LastTime' = LastTime /\ Ids' = Ids
      BY <1>2, LogKept DEF LoadState, venue
    <2> QED
      BY <1>2, <2>1, LogTypes DEF LoadState, venue, memory, pager, durable, ShapeInv, MemoryMatchesStore, ReadInv,
         ApplyInv, Known, CutOff, OnlyCutFillsAreSkipped, Running, Ids, At
  <1>3. CASE ReadPositions
    <2>1. LogInv' /\ LastTime' = LastTime /\ Ids' = Ids
      BY <1>3, LogKept DEF ReadPositions, venue
    <2> QED
      BY <1>3, <2>1, LogTypes DEF ReadPositions, StartRead, venue, durable, ShapeInv, MemoryMatchesStore,
         ReadInv, ApplyInv, Known, CutOff, LogInv, OnlyCutFillsAreSkipped, Running, Ids, At
  <1>4. CASE ReadSeedFills
    BY <1>4, PageStep DEF ReadSeedFills
  <1>5. CASE SaveSeedState
    <2>1. LogInv' /\ LastTime' = LastTime /\ Ids' = Ids /\ UNCHANGED <<fills, cuts, lots, page>>
      BY <1>5, LogKept DEF SaveSeedState, venue
    <2>2. got' = {} /\ pc' \in {"idle", "stopped"}
      BY <1>5 DEF SaveSeedState
    <2>c. \A i \in Ids : CutOff(i)' <=> CutOff(i)
      BY <2>1 DEF CutOff
    <2>3. ReadInv' /\ ApplyInv'
      BY <2>2 DEF ReadInv, ApplyInv
    <2>4. CASE pc' = "stopped"
      BY <1>5, <2>1, <2>2, <2>3, <2>4, <2>c DEF SaveSeedState, ShapeInv, MemoryMatchesStore,
         OnlyCutFillsAreSkipped, Running
    <2>5. CASE pc' = "idle"
      <3>1. PICK t \in 0..LastTime : SeedCursor(t) /\ after' = t
        BY <1>5, <2>5 DEF SaveSeedState
      <3>2. store' = [store EXCEPT !.booted = TRUE, !.cursor = t, !.basis = lots,
                                   !.seen = @ \cup got]
        BY <1>5, <2>5, <3>1 DEF SaveSeedState
      <3>3. /\ store'.cursor = t /\ store'.basis = lots
            /\ store'.seen = store.seen \cup got
            /\ store' = [booted |-> store'.booted, cursor |-> store'.cursor, basis |-> store'.basis,
                         seen |-> store'.seen, booked |-> store'.booked]
        BY <3>2 DEF ShapeInv
      <3>4. OnlyCutFillsAreSkipped'
        <4> SUFFICES ASSUME NEW i \in Ids, At(i) < t PROVE i \in store.seen \cup got \/ CutOff(i)
          BY <2>1, <2>c, <3>3 DEF OnlyCutFillsAreSkipped, At
        <4>1. PICK j \in got : At(j) = t
          BY <3>1, LogTypes DEF SeedCursor, At
        <4>2. after <= At(i)
          BY <1>5, LogTypes DEF SaveSeedState, ShapeInv, Running
        <4> QED
          BY <1>5, <4>1, <4>2 DEF SaveSeedState, ApplyInv, Known
      <3> QED
        BY <2>1, <2>2, <2>3, <2>5, <3>1, <3>3, <3>4, LogTypes DEF ShapeInv, MemoryMatchesStore, Running
    <2> QED BY <2>2, <2>4, <2>5
  <1>6. CASE StartReconcile
    <2>1. LogInv' /\ LastTime' = LastTime /\ Ids' = Ids
      BY <1>6, LogKept DEF StartReconcile, venue
    <2> QED
      BY <1>6, <2>1, LogTypes DEF StartReconcile, StartRead, QueryAfter, venue, memory, durable, ShapeInv,
         MemoryMatchesStore, ReadInv, ApplyInv, Known, CutOff, OnlyCutFillsAreSkipped, Running, Ids, At
  <1>7. CASE ReadFills
    BY <1>7, PageStep DEF ReadFills
  <1>8. CASE ApplyFill
    BY <1>8, ApplyStep
  <1>9. CASE Reconciled
    <2>1. LogInv' /\ LastTime' = LastTime /\ Ids' = Ids
      BY <1>9, LogKept DEF Reconciled
    <2> QED
      BY <1>9, <2>1 DEF Reconciled, memory, pager, durable, ShapeInv, MemoryMatchesStore, ReadInv,
         ApplyInv, Known, CutOff, OnlyCutFillsAreSkipped, Running, Ids, At
  <1>10. CASE VenueFills
    BY <1>10, VenueStep
  <1>11. CASE Crash \/ Boot
    <2>1. LogInv' /\ LastTime' = LastTime /\ Ids' = Ids
      BY <1>11, LogKept DEF Crash, Boot
    <2> QED
      BY <1>11, <2>1 DEF Crash, Boot, Forget, StartRead, durable, ShapeInv, MemoryMatchesStore,
         ReadInv, ApplyInv, Known, CutOff, OnlyCutFillsAreSkipped, Running, Ids, At
  <1> QED
    BY <1>1, <1>2, <1>3, <1>4, <1>5, <1>6, <1>7, <1>8, <1>9, <1>10, <1>11
       DEF Next, BootStep, LoopStep

(* The invariant holds in every state the ledger can be in. *)
THEOREM LedgerInvariance == Spec => []IInv
  BY InitInv, InvStep, PTL DEF Spec

(***************************************************************************)
(* What the loop has in memory between two fills is what a restart would   *)
(* reload.                                                                 *)
(***************************************************************************)
THEOREM MemoryIsDurable == Spec => []MemoryMatchesStore
  BY LedgerInvariance, PTL DEF IInv

(***************************************************************************)
(* The cursor passes over a fill only where a page boundary cut the group  *)
(* of fills of its time.                                                   *)
(***************************************************************************)
THEOREM OnlyPageCutsSkip == Spec => []OnlyCutFillsAreSkipped
  BY LedgerInvariance, PTL DEF IInv

-----------------------------------------------------------------------------
(* A position: a direction and the entry prices of its units. *)
IsPosition(p) == /\ p \in [dir : {-1, 0, 1}, units : Seq(Nat)]
                 /\ p.dir = 0 <=> p.units = <<>>
IsFill(f) == f.side \in {"Buy", "Sell"} /\ f.qty \in Nat \ {0} /\ f.px \in Nat

(* The smaller of two numbers. *)
LEMMA LeastOfTwo == ASSUME NEW a \in Int, NEW b \in Int
                    PROVE  Min({a, b}) = IF a <= b THEN a ELSE b
<1> DEFINE m == IF a <= b THEN a ELSE b
<1>1. m \in {a, b} /\ \A y \in {a, b} : m <= y
  OBVIOUS
<1>2. \A x \in {a, b} : (\A y \in {a, b} : x <= y) => x = m
  OBVIOUS
<1> QED  BY <1>1, <1>2 DEF Min

(* n units at one price. *)
LEMMA UnitsAre ==
    ASSUME NEW n \in Nat, NEW px \in Nat
    PROVE  /\ Units(n, px) \in Seq(Nat) /\ Len(Units(n, px)) = n
           /\ \A i \in 1..n : Units(n, px)[i] = px
           /\ SumFunction(Units(n, px)) = n * px
<1>1. px \in Int
  OBVIOUS
<1>2. SumFunction(Units(n, px)) = n * px
  BY <1>1, SumConstant DEF Units
<1> QED  BY <1>2 DEF Units

(* The three things a fill does to a position. *)
Reduces(p, f, q) ==
    /\ p.dir = -Dir(f) /\ f.qty <= Len(p.units) /\ Taken(p, f) = f.qty
    /\ q.units = SubSeq(p.units, f.qty + 1, Len(p.units))
    /\ q.dir = IF f.qty = Len(p.units) THEN 0 ELSE p.dir
Flips(p, f, q) ==
    /\ p.dir = -Dir(f) /\ Len(p.units) < f.qty /\ Taken(p, f) = Len(p.units)
    /\ q.units = Units(f.qty - Len(p.units), f.px)
    /\ q.dir = Dir(f)
Extends(p, f, q) ==
    /\ p.dir \in {0, Dir(f)} /\ Taken(p, f) = 0
    /\ q.units = p.units \o Units(f.qty, f.px)
    /\ q.dir = Dir(f)

(* A fill does one of the three. *)
LEMMA AppliedIs ==
    ASSUME NEW p, IsPosition(p), NEW f, IsFill(f)
    PROVE  LET q == Applied(p, f)
           IN  /\ q = [dir |-> q.dir, units |-> q.units]
               /\ Reduces(p, f, q) \/ Flips(p, f, q) \/ Extends(p, f, q)
<1> DEFINE q == Applied(p, f)
           n == Len(p.units)
           D == Dir(f)
           t == Taken(p, f)
<1>1. /\ p.units \in Seq(Nat) /\ n \in Nat /\ D \in {-1, 1} /\ p.dir \in {-1, 0, 1}
      /\ f.qty \in Nat /\ f.qty > 0 /\ f.px \in Nat
      /\ n = 0 <=> p.dir = 0
  BY DEF IsPosition, IsFill, Dir
<1>2. Min({f.qty, n}) = IF f.qty <= n THEN f.qty ELSE n
  BY <1>1, LeastOfTwo
<1>3. /\ q.units = Rest(p, f) \o Units(f.qty - t, f.px)
      /\ q.dir = IF q.units = <<>> THEN 0 ELSE IF t = f.qty THEN p.dir ELSE D
      /\ q = [dir |-> q.dir, units |-> q.units]
  BY DEF Applied
<1>4. Rest(p, f) = SubSeq(p.units, t + 1, n)
  BY DEF Rest
<1>5. CASE p.dir = -D /\ f.qty <= n
  <2>1. t = f.qty
    BY <1>2, <1>5 DEF Taken
  <2>2. Len(Rest(p, f)) = n - f.qty /\ Rest(p, f) \in Seq(Nat)
    <3>1. f.qty \in 0..n
      BY <1>1, <1>5
    <3>2. LET b == SubSeq(p.units, f.qty + 1, Len(p.units))
          IN  b \in Seq(Nat) /\ Len(b) = Len(p.units) - f.qty
      BY <1>1, <3>1, SuffixOf
    <3> QED  BY <1>4, <2>1, <3>2
  <2>3. Units(f.qty - t, f.px) = <<>>
    BY <1>1, <2>1 DEF Units
  <2>4. q.units = Rest(p, f)
    BY <1>3, <2>2, <2>3
  <2>5. q.units = <<>> <=> f.qty = n
    BY <1>1, <1>5, <2>2, <2>4
  <2> HIDE DEF q
  <2> QED  BY <1>3, <1>4, <1>5, <2>1, <2>4, <2>5 DEF Reduces, q
<1>6. CASE p.dir = -D /\ ~(f.qty <= n)
  <2>1. t = n
    BY <1>2, <1>6 DEF Taken
  <2>2. Rest(p, f) = <<>>
    BY <1>1, <1>4, <2>1
  <2>3. Units(f.qty - t, f.px) \in Seq(Nat) /\ Len(Units(f.qty - t, f.px)) = f.qty - n
    <3>1. f.qty - t = f.qty - n /\ f.qty - n \in Nat
      BY <1>1, <1>6, <2>1
    <3> QED  BY <1>1, <3>1, UnitsAre
  <2>4. q.units = Units(f.qty - n, f.px) /\ q.units # <<>>
    BY <1>1, <1>3, <1>6, <2>1, <2>2, <2>3
  <2> HIDE DEF q
  <2> QED  BY <1>1, <1>3, <1>6, <2>1, <2>4 DEF Flips, q
<1>7. CASE p.dir # -D
  <2>1. t = 0
    BY <1>7 DEF Taken
  <2>2. Rest(p, f) = p.units
    BY <1>1, <1>4, <2>1
  <2>3. Units(f.qty, f.px) \in Seq(Nat) /\ Len(Units(f.qty, f.px)) = f.qty
    BY <1>1, UnitsAre
  <2>4. q.units = p.units \o Units(f.qty, f.px) /\ q.units # <<>>
    <3>1. f.qty - t = f.qty
      BY <1>1, <2>1
    <3>2. q.units = p.units \o Units(f.qty, f.px)
      BY <1>3, <2>2, <3>1
    <3> DEFINE u == p.units
               w == Units(f.qty, f.px)
    <3>3. u \in Seq(Nat) /\ w \in Seq(Nat) /\ Len(w) = f.qty /\ Len(w) > 0
      BY <1>1, <2>3
    <3> HIDE DEF u, w
    <3>4. Len(u \o w) = Len(u) + Len(w) /\ Len(u) \in Nat
      BY <3>3, ConcatOf
    <3>5. u \o w # <<>>
      BY <3>3, <3>4
    <3> QED  BY <3>2, <3>5 DEF u, w
  <2>5. p.dir \in {0, D} /\ q.dir = D
    <3>1. t # f.qty
      BY <1>1, <2>1
    <3> QED  BY <1>1, <1>3, <1>7, <2>4, <3>1
  <2> HIDE DEF q
  <2> QED  BY <1>3, <2>1, <2>4, <2>5 DEF Extends, q
<1> QED  BY <1>3, <1>5, <1>6, <1>7

(* A record with the right fields is a position. *)
LEMMA PositionIs ==
    ASSUME NEW q, q = [dir |-> q.dir, units |-> q.units], q.dir \in {-1, 0, 1},
           q.units \in Seq(Nat), Len(q.units) = 0 <=> q.dir = 0
    PROVE  IsPosition(q)
<1>1. q \in [dir : {-1, 0, 1}, units : Seq(Nat)]
  OBVIOUS
<1>2. q.units = <<>> <=> Len(q.units) = 0
  OBVIOUS
<1> QED  BY <1>1, <1>2 DEF IsPosition

(* Two identities of integers, stated apart for the solver. *)
LEMMA MinusSum == ASSUME NEW a \in Int, NEW b \in Int PROVE -(a + b) = (-a) + (-b)
  OBVIOUS

LEMMA MinusTimes == ASSUME NEW a \in Int, NEW b \in Int, NEW c \in Int
                    PROVE  (a - b) * c = a * c - b * c
  OBVIOUS

(* The arithmetic of a fill: what it adds to the position, and what it     *)
(* leaves of the balance between profit, cash and the cost of what is open. *)
LEMMA FillArithmetic ==
    ASSUME NEW p, IsPosition(p), NEW f, IsFill(f)
    PROVE  LET q == Applied(p, f)
           IN  /\ IsPosition(q)
               /\ q.dir * Len(q.units) = p.dir * Len(p.units) + Dir(f) * f.qty
               /\ Gain(p, f) \in Int
               /\ Gain(p, f) = (q.dir * SumFunction(q.units) - p.dir * SumFunction(p.units))
                                  - (Dir(f) * f.qty) * f.px
<1> DEFINE q == Applied(p, f)
           n == Len(p.units)
           D == Dir(f)
           t == Taken(p, f)
           A == SumFunctionOnSet(p.units, 1..t)
           B == SumFunction(SubSeq(p.units, t + 1, n))
           C == SumFunction(p.units)
<1>1. /\ p.units \in Seq(Nat) /\ p.units \in Seq(Int) /\ n \in Nat /\ D \in {-1, 1}
      /\ p.dir \in {-1, 0, 1} /\ f.qty \in Nat /\ f.qty > 0 /\ f.px \in Nat /\ f.px \in Int
      /\ (n = 0 <=> p.dir = 0) /\ (p.dir = 0 => p.units = <<>>)
  BY DEF IsPosition, IsFill, Dir
<1>2. q = [dir |-> q.dir, units |-> q.units] /\ (Reduces(p, f, q) \/ Flips(p, f, q) \/ Extends(p, f, q))
  BY AppliedIs
<1> HIDE DEF q
<1>3. t \in 0..n
  <2>1. (t = f.qty /\ f.qty <= n) \/ t = n \/ t = 0
    BY <1>2 DEF Reduces, Flips, Extends
  <2> QED  BY <1>1, <2>1
<1>4. A \in Int /\ B \in Int /\ C = A + B
  BY <1>1, <1>3, SumCut
<1>5. Gain(p, f) = p.dir * (t * f.px - A)
  <2>1. t \in Nat /\ \A i \in 1..t : p.units[i] \in Int
    BY <1>1, <1>3
  <2>2. SumFunction([i \in 1..t |-> f.px - p.units[i]]) = t * f.px - A
    BY <1>1, <2>1, SumDifference
  <2> QED  BY <2>2 DEF Gain
<1> HIDE DEF q, A, B, C
<1>6. CASE Reduces(p, f, q)
  <2>1. t = f.qty /\ p.dir = -D /\ SumFunction(q.units) = B /\ q.units = SubSeq(p.units, t + 1, n)
        /\ q.dir = IF t = n THEN 0 ELSE p.dir
    BY <1>6 DEF Reduces, B
  <2>2. q.units \in Seq(Nat) /\ Len(q.units) = n - t
    <3>1. PICK u \in Seq(Nat) : u = p.units /\ n = Len(u)
      BY <1>1
    <3>2. t \in 0..Len(u)
      BY <1>3, <3>1
    <3>3. SubSeq(u, t + 1, Len(u)) \in Seq(Nat) /\ Len(SubSeq(u, t + 1, Len(u))) = Len(u) - t
      BY <3>2, SuffixOf
    <3> QED  BY <2>1, <3>1, <3>3
  <2>3. q.units = <<>> => B = 0
    <3>1. DOMAIN <<>> = {} /\ SumFunctionOnSet(<<>>, {}) = 0
      BY SumEmpty
    <3> QED  BY <2>1, <3>1 DEF SumFunction
  <2>4. t = n => B = 0
    BY <2>2, <2>3, <1>1
  <2>5. IsPosition(q)
    <3>1. (Len(q.units) = 0 <=> q.dir = 0) /\ q.dir \in {-1, 0, 1}
      BY <1>1, <1>3, <2>1, <2>2
    <3> QED  BY <1>2, <2>2, <3>1, PositionIs
  <2>6. q.dir * Len(q.units) = p.dir * n + D * f.qty
    <3>1. CASE D = 1
      BY <1>1, <1>3, <2>1, <2>2, <3>1
    <3>2. CASE D = -1
      BY <1>1, <1>3, <2>1, <2>2, <3>2
    <3> QED  BY <1>1, <3>1, <3>2
  <2>7. q.dir * B = p.dir * B
    BY <1>1, <1>4, <2>1, <2>4
  <2>8. Gain(p, f) \in Int /\ Gain(p, f) = (q.dir * B - p.dir * C) - (D * f.qty) * f.px
    <3> DEFINE m == t * f.px
    <3>1. m \in Int /\ (D * f.qty) * f.px = D * m
      <4>1. CASE D = 1
        BY <1>1, <2>1, <4>1
      <4>2. CASE D = -1
        BY <1>1, <2>1, <4>2
      <4> QED  BY <1>1, <4>1, <4>2
    <3> HIDE DEF m
    <3>2. Gain(p, f) = p.dir * (m - A)
      BY <1>5 DEF m
    <3>3. CASE D = 1
      BY <1>4, <2>1, <2>7, <3>1, <3>2, <3>3
    <3>4. CASE D = -1
      BY <1>4, <2>1, <2>7, <3>1, <3>2, <3>4
    <3> QED  BY <1>1, <3>3, <3>4
  <2> QED  BY <2>1, <2>5, <2>6, <2>8 DEF q, C
<1>7. CASE Flips(p, f, q)
  <2>1. t = n /\ p.dir = -D /\ q.units = Units(f.qty - n, f.px) /\ q.dir = D
        /\ f.qty - n \in Nat /\ f.qty - n > 0
    BY <1>1, <1>7 DEF Flips
  <2>2. /\ q.units \in Seq(Nat) /\ Len(q.units) = f.qty - n
        /\ SumFunction(q.units) = (f.qty - n) * f.px
    <3>1. PICK k \in Nat : k = f.qty - n
      BY <2>1
    <3>2. /\ Units(k, f.px) \in Seq(Nat) /\ Len(Units(k, f.px)) = k
          /\ SumFunction(Units(k, f.px)) = k * f.px
      BY <1>1, UnitsAre
    <3> QED  BY <2>1, <3>1, <3>2
  <2>3. B = 0
    <3>1. DOMAIN <<>> = {} /\ SumFunctionOnSet(<<>>, {}) = 0
      BY SumEmpty
    <3>2. SubSeq(p.units, t + 1, n) = <<>>
      BY <1>1, <2>1
    <3> QED  BY <3>1, <3>2 DEF SumFunction, B
  <2>5. IsPosition(q)
    <3>1. (Len(q.units) = 0 <=> q.dir = 0) /\ q.dir \in {-1, 0, 1}
      BY <1>1, <2>1, <2>2
    <3> QED  BY <1>2, <2>2, <3>1, PositionIs
  <2>6. q.dir * Len(q.units) = p.dir * n + D * f.qty
    BY <1>1, <2>1, <2>2
  <2>8. Gain(p, f) \in Int /\ Gain(p, f) = (q.dir * SumFunction(q.units) - p.dir * C) - (D * f.qty) * f.px
    <3> DEFINE m == n * f.px
               k == f.qty * f.px
    <3>1. m \in Int /\ k \in Int /\ (f.qty - n) * f.px = k - m
      <4>1. f.qty \in Int /\ n \in Int /\ f.px \in Int
        BY <1>1
      <4> QED  BY <4>1, MinusTimes
    <3>2. (D * f.qty) * f.px = D * k
      <4>1. CASE D = 1
        BY <1>1, <4>1
      <4>2. CASE D = -1
        BY <1>1, <4>2
      <4> QED  BY <1>1, <4>1, <4>2
    <3> HIDE DEF m, k
    <3>3. Gain(p, f) = p.dir * (m - A)
      BY <1>5, <2>1 DEF m
    <3>4. CASE D = 1
      BY <1>4, <2>1, <2>2, <2>3, <3>1, <3>2, <3>3, <3>4
    <3>5. CASE D = -1
      BY <1>4, <2>1, <2>2, <2>3, <3>1, <3>2, <3>3, <3>5
    <3> QED  BY <1>1, <3>4, <3>5
  <2> QED  BY <2>5, <2>6, <2>8 DEF q, C
<1>8. CASE Extends(p, f, q)
  <2>1. t = 0 /\ p.dir \in {0, D} /\ q.units = p.units \o Units(f.qty, f.px) /\ q.dir = D
    BY <1>8 DEF Extends
  <2> DEFINE w == Units(f.qty, f.px)
  <2>2. w \in Seq(Nat) /\ w \in Seq(Int) /\ Len(w) = f.qty /\ SumFunction(w) = f.qty * f.px
    <3>1. w \in Seq(Nat) /\ Len(w) = f.qty /\ SumFunction(w) = f.qty * f.px
      BY <1>1, UnitsAre
    <3> HIDE DEF w
    <3> QED  BY <3>1
  <2> HIDE DEF w
  <2>3. q.units \in Seq(Nat) /\ Len(q.units) = n + f.qty
    <3> DEFINE u == p.units
    <3>1. u \in Seq(Nat)
      BY <1>1
    <3> HIDE DEF u
    <3>2. u \o w \in Seq(Nat) /\ Len(u \o w) = Len(u) + Len(w)
      BY <2>2, <3>1, ConcatOf
    <3> QED  BY <2>1, <2>2, <3>2 DEF u, w
  <2>4. SumFunction(q.units) = C + f.qty * f.px
    BY <1>1, <2>1, <2>2, SumConcat DEF w, C
  <2>5. IsPosition(q)
    <3>1. (Len(q.units) = 0 <=> q.dir = 0) /\ q.dir \in {-1, 0, 1}
      BY <1>1, <2>1, <2>3
    <3> QED  BY <1>2, <2>3, <3>1, PositionIs
  <2>6. q.dir * Len(q.units) = p.dir * n + D * f.qty
    <3>1. CASE p.dir = 0
      BY <1>1, <2>1, <2>3, <3>1
    <3>2. CASE p.dir = 1
      <4>1. q.dir = 1 /\ D = 1
        BY <1>1, <2>1, <3>2
      <4> QED  BY <1>1, <2>3, <3>2, <4>1
    <3>3. CASE p.dir = -1
      <4>1. q.dir = -1 /\ D = -1
        BY <1>1, <2>1, <3>3
      <4>2. p.dir * n = -n /\ D * f.qty = -f.qty
        BY <1>1, <3>3, <4>1
      <4>3. q.dir * Len(q.units) = -(n + f.qty)
        BY <1>1, <2>3, <4>1
      <4>4. -(n + f.qty) = (-n) + (-f.qty)
        <5>1. n \in Int /\ f.qty \in Int
          BY <1>1
        <5> QED  BY <5>1, MinusSum
      <4> QED  BY <4>2, <4>3, <4>4
    <3> QED  BY <1>1, <3>1, <3>2, <3>3
  <2>7. p.dir = 0 => C = 0
    <3>1. DOMAIN <<>> = {} /\ SumFunctionOnSet(<<>>, {}) = 0
      BY SumEmpty
    <3> QED  BY <1>1, <3>1 DEF SumFunction, C
  <2>8. Gain(p, f) \in Int /\ Gain(p, f) = (q.dir * SumFunction(q.units) - p.dir * C) - (D * f.qty) * f.px
    <3> DEFINE k == f.qty * f.px
    <3>1. k \in Int
      BY <1>1
    <3>2. (D * f.qty) * f.px = D * k
      <4>1. CASE D = 1
        BY <1>1, <4>1
      <4>2. CASE D = -1
        BY <1>1, <4>2
      <4> QED  BY <1>1, <4>1, <4>2
    <3>3. A = 0 /\ t * f.px = 0
      <4>1. 1..0 = {} /\ SumFunctionOnSet(p.units, {}) = 0
        BY SumEmpty
      <4> QED  BY <1>1, <2>1, <4>1 DEF A
    <3>4. SumFunction(q.units) = C + k
      BY <2>4
    <3> HIDE DEF k
    <3>5. Gain(p, f) = 0
      BY <1>1, <1>5, <3>3
    <3>6. CASE D = 1
      BY <1>4, <2>1, <2>7, <3>1, <3>2, <3>4, <3>5, <3>6
    <3>7. CASE D = -1
      BY <1>4, <2>1, <2>7, <3>1, <3>2, <3>4, <3>5, <3>7
    <3> QED  BY <1>1, <3>6, <3>7
  <2> QED  BY <2>5, <2>6, <2>8 DEF q, C
<1> QED  BY <1>2, <1>6, <1>7, <1>8

-----------------------------------------------------------------------------
(* The model's sums as sums of functions. *)
CostOf(p) == p.dir * SumFunction(p.units)
CostAt(book) == [s \in Symbols |-> CostOf(book[s])]

CashAt(log) == [i \in DOMAIN log |-> -((Dir(log[i]) * log[i].qty) * log[i].px)]
CashIn(log, S) == MapThenSumSet(LAMBDA i : -(Dir(log[i]) * log[i].qty) * log[i].px, S)

SignedAt(log) == [i \in DOMAIN log |-> Dir(log[i]) * log[i].qty]
SignedIn(log, S) == MapThenSumSet(LAMBDA i : Dir(log[i]) * log[i].qty, S)

(* The cost of a book is the sum of CostAt. *)
LEMMA CostIs == ASSUME NEW book
                PROVE  Cost(book) = SumFunctionOnSet(CostAt(book), Symbols)
<1> DEFINE P(g) == g = [t \in SUBSET Symbols |->
                IF t = {} THEN 0
                ELSE book[CHOOSE x \in t : TRUE].dir * SumFunction(book[CHOOSE x \in t : TRUE].units)
                         + g[t \ {CHOOSE x \in t : TRUE}]]
<1>1. ASSUME NEW g PROVE P(g) <=> SumTable(g, CostAt(book), Symbols)
  <2> DEFINE a == [t \in SUBSET Symbols |->
                IF t = {} THEN 0
                ELSE book[CHOOSE x \in t : TRUE].dir * SumFunction(book[CHOOSE x \in t : TRUE].units)
                         + g[t \ {CHOOSE x \in t : TRUE}]]
             b == [t \in SUBSET Symbols |->
                IF t = {} THEN 0 ELSE CostAt(book)[Pick(t)] + g[t \ {Pick(t)}]]
  <2>1. ASSUME NEW t \in SUBSET Symbols, t # {} PROVE a[t] = b[t]
    <3>1. Pick(t) \in Symbols /\ Pick(t) = (CHOOSE x \in t : TRUE)
      BY <2>1 DEF Pick
    <3>2. CostAt(book)[Pick(t)] = book[Pick(t)].dir * SumFunction(book[Pick(t)].units)
      BY <3>1 DEF CostAt, CostOf
    <3> QED  BY <2>1, <3>1, <3>2
  <2>2. a = b
    BY <2>1
  <2> HIDE DEF a, b
  <2>3. P(g) <=> g = a
    BY DEF a
  <2>4. SumTable(g, CostAt(book), Symbols) <=> g = b
    BY DEF SumTable, b
  <2> QED  BY <2>2, <2>3, <2>4
<1>2. Cost(book) = (CHOOSE g : P(g))[Symbols]
  BY DEF Cost, MapThenSumSet, MapThenFoldSet
<1> HIDE DEF P
<1>3. PICK h : SumTable(h, CostAt(book), Symbols) /\ SumFunctionOnSet(CostAt(book), Symbols) = h[Symbols]
  BY SymbolAssumption, SumIsInTable
<1>4. P(CHOOSE g : P(g))
  BY <1>1, <1>3
<1>5. PICK g : SumTable(g, CostAt(book), Symbols) /\ Cost(book) = g[Symbols]
  BY <1>1, <1>2, <1>4
<1>6. \A t \in SUBSET Symbols : g[t] = h[t]
  BY <1>3, <1>5, SymbolAssumption, TablesAgree
<1> QED  BY <1>3, <1>5, <1>6

(* The cash of a set of fills is the sum of CashAt. *)
LEMMA CashIs == ASSUME NEW log, NEW S \in SUBSET DOMAIN log, IsFiniteSet(S)
                PROVE  CashIn(log, S) = SumFunctionOnSet(CashAt(log), S)
<1> DEFINE c(i) == -(Dir(log[i]) * log[i].qty) * log[i].px
           P(g) == g = [t \in SUBSET S |->
                IF t = {} THEN 0
                ELSE c(CHOOSE x \in t : TRUE) + g[t \ {CHOOSE x \in t : TRUE}]]
<1>0. \A i \in S : CashAt(log)[i] = c(i)
  BY DEF CashAt
<1>2. CashIn(log, S) = (CHOOSE g : P(g))[S]
  BY DEF CashIn, MapThenSumSet, MapThenFoldSet
<1> HIDE DEF c
<1>1. ASSUME NEW g PROVE P(g) <=> SumTable(g, CashAt(log), S)
  <2> DEFINE a == [t \in SUBSET S |->
                IF t = {} THEN 0
                ELSE c(CHOOSE x \in t : TRUE) + g[t \ {CHOOSE x \in t : TRUE}]]
             b == [t \in SUBSET S |->
                IF t = {} THEN 0 ELSE CashAt(log)[Pick(t)] + g[t \ {Pick(t)}]]
  <2>1. ASSUME NEW t \in SUBSET S, t # {} PROVE a[t] = b[t]
    <3>1. Pick(t) \in S /\ Pick(t) = (CHOOSE x \in t : TRUE)
      BY <2>1 DEF Pick
    <3> QED  BY <1>0, <2>1, <3>1
  <2>2. a = b
    BY <2>1
  <2> HIDE DEF a, b
  <2>3. P(g) <=> g = a
    BY DEF a
  <2>4. SumTable(g, CashAt(log), S) <=> g = b
    BY DEF SumTable, b
  <2> QED  BY <2>2, <2>3, <2>4
<1> HIDE DEF P
<1>3. PICK h : SumTable(h, CashAt(log), S) /\ SumFunctionOnSet(CashAt(log), S) = h[S]
  BY SumIsInTable
<1>4. P(CHOOSE g : P(g))
  BY <1>1, <1>3
<1>5. PICK g : SumTable(g, CashAt(log), S) /\ CashIn(log, S) = g[S]
  BY <1>1, <1>2, <1>4
<1>6. \A t \in SUBSET S : g[t] = h[t]
  BY <1>3, <1>5, TablesAgree
<1> QED  BY <1>3, <1>5, <1>6

(* The signed size of a set of fills is the sum of SignedAt. *)
LEMMA SignedIs == ASSUME NEW log, NEW S \in SUBSET DOMAIN log, IsFiniteSet(S)
                PROVE  SignedIn(log, S) = SumFunctionOnSet(SignedAt(log), S)
<1> DEFINE c(i) == Dir(log[i]) * log[i].qty
           P(g) == g = [t \in SUBSET S |->
                IF t = {} THEN 0
                ELSE c(CHOOSE x \in t : TRUE) + g[t \ {CHOOSE x \in t : TRUE}]]
<1>0. \A i \in S : SignedAt(log)[i] = c(i)
  BY DEF SignedAt
<1>2. SignedIn(log, S) = (CHOOSE g : P(g))[S]
  BY DEF SignedIn, MapThenSumSet, MapThenFoldSet
<1> HIDE DEF c
<1>1. ASSUME NEW g PROVE P(g) <=> SumTable(g, SignedAt(log), S)
  <2> DEFINE a == [t \in SUBSET S |->
                IF t = {} THEN 0
                ELSE c(CHOOSE x \in t : TRUE) + g[t \ {CHOOSE x \in t : TRUE}]]
             b == [t \in SUBSET S |->
                IF t = {} THEN 0 ELSE SignedAt(log)[Pick(t)] + g[t \ {Pick(t)}]]
  <2>1. ASSUME NEW t \in SUBSET S, t # {} PROVE a[t] = b[t]
    <3>1. Pick(t) \in S /\ Pick(t) = (CHOOSE x \in t : TRUE)
      BY <2>1 DEF Pick
    <3> QED  BY <1>0, <2>1, <3>1
  <2>2. a = b
    BY <2>1
  <2> HIDE DEF a, b
  <2>3. P(g) <=> g = a
    BY DEF a
  <2>4. SumTable(g, SignedAt(log), S) <=> g = b
    BY DEF SumTable, b
  <2> QED  BY <2>2, <2>3, <2>4
<1> HIDE DEF P
<1>3. PICK h : SumTable(h, SignedAt(log), S) /\ SumFunctionOnSet(SignedAt(log), S) = h[S]
  BY SumIsInTable
<1>4. P(CHOOSE g : P(g))
  BY <1>1, <1>3
<1>5. PICK g : SumTable(g, SignedAt(log), S) /\ SignedIn(log, S) = g[S]
  BY <1>1, <1>2, <1>4
<1>6. \A t \in SUBSET S : g[t] = h[t]
  BY <1>3, <1>5, TablesAgree
<1> QED  BY <1>3, <1>5, <1>6

-----------------------------------------------------------------------------
(* What was entered, one booked fill at a time. *)
FirstEntered(seed, d) == IF seed.dir = d THEN seed.units ELSE <<>>
AfterFill(units, f, s, d) == IF f.sym = s /\ Dir(f) = d THEN units \o Units(f.qty, f.px) ELSE units

EnteredTo(g, fs, seed, s, d, m) ==
    g = [n \in 0..m |-> IF n = 0 THEN FirstEntered(seed, d)
                        ELSE AfterFill(g[n - 1], fs[n], s, d)]

EnteredIn(log, ids, seed, s, d) ==
    LET upTo[n \in 0..Len(ids)] ==
            IF n = 0 THEN IF seed.dir = d THEN seed.units ELSE <<>>
            ELSE LET f == log[ids[n]]
                 IN  IF f.sym = s /\ Dir(f) = d THEN upTo[n - 1] \o Units(f.qty, f.px)
                     ELSE upTo[n - 1]
    IN  upTo[Len(ids)]

(* The recursion has a solution. *)
LEMMA EnteredToExists ==
    ASSUME NEW fs, NEW seed, NEW s, NEW d
    PROVE  \A m \in Nat : \E g : EnteredTo(g, fs, seed, s, d, m)
<1> DEFINE S == {m \in Nat : \E g : EnteredTo(g, fs, seed, s, d, m)}
<1>1. 0 \in S
  <2>1. EnteredTo([n \in 0..0 |-> FirstEntered(seed, d)], fs, seed, s, d, 0)
    BY DEF EnteredTo
  <2> QED  BY <2>1
<1>2. ASSUME NEW m \in Nat, m \in S PROVE m + 1 \in S
  <2>1. PICK f : EnteredTo(f, fs, seed, s, d, m)
    BY <1>2
  <2> DEFINE g == [n \in 0..m + 1 |-> IF n <= m THEN f[n]
                                      ELSE AfterFill(f[m], fs[m + 1], s, d)]
  <2>2. \A n \in 0..m : f[n] = IF n = 0 THEN FirstEntered(seed, d)
                               ELSE AfterFill(f[n - 1], fs[n], s, d)
    BY <2>1 DEF EnteredTo
  <2>3. \A n \in 0..m + 1 : g[n] = IF n = 0 THEN FirstEntered(seed, d)
                                   ELSE AfterFill(g[n - 1], fs[n], s, d)
    <3>1. ASSUME NEW n \in 0..m + 1, n # 0 PROVE g[n - 1] = f[n - 1]
      BY <3>1
    <3>2. ASSUME NEW n \in 0..m + 1
          PROVE  g[n] = IF n = 0 THEN FirstEntered(seed, d)
                        ELSE AfterFill(f[n - 1], fs[n], s, d)
      BY <2>2, <3>2
    <3> QED  BY <3>1, <3>2
  <2>4. g = [n \in 0..m + 1 |-> g[n]]
    OBVIOUS
  <2> HIDE DEF g
  <2>5. EnteredTo(g, fs, seed, s, d, m + 1)
    BY <2>3, <2>4 DEF EnteredTo
  <2> QED  BY <2>5
<1> HIDE DEF S
<1>3. \A m \in Nat : m \in S
  BY <1>1, <1>2, SetInduction
<1> QED  BY <1>3 DEF S

(* The fills booked, in order. *)
FillsOf(log, ids) == [n \in 1..Len(ids) |-> log[ids[n]]]

(* What was entered is its solution's last value. *)
LEMMA EnteredIs ==
    ASSUME NEW log, NEW ids, NEW seed, NEW s, NEW d, Len(ids) \in Nat
    PROVE  \E g : /\ EnteredTo(g, FillsOf(log, ids), seed, s, d, Len(ids))
                  /\ EnteredIn(log, ids, seed, s, d) = g[Len(ids)]
<1> DEFINE Upto(g) == g = [n \in 0..Len(ids) |->
                IF n = 0 THEN IF seed.dir = d THEN seed.units ELSE <<>>
                ELSE IF log[ids[n]].sym = s /\ Dir(log[ids[n]]) = d
                     THEN g[n - 1] \o Units(log[ids[n]].qty, log[ids[n]].px)
                     ELSE g[n - 1]]
<1>1. ASSUME NEW g PROVE Upto(g) <=> EnteredTo(g, FillsOf(log, ids), seed, s, d, Len(ids))
  <2> DEFINE a == [n \in 0..Len(ids) |->
                IF n = 0 THEN IF seed.dir = d THEN seed.units ELSE <<>>
                ELSE IF log[ids[n]].sym = s /\ Dir(log[ids[n]]) = d
                     THEN g[n - 1] \o Units(log[ids[n]].qty, log[ids[n]].px)
                     ELSE g[n - 1]]
             b == [n \in 0..Len(ids) |-> IF n = 0 THEN FirstEntered(seed, d)
                        ELSE AfterFill(g[n - 1], FillsOf(log, ids)[n], s, d)]
  <2>1. ASSUME NEW n \in 0..Len(ids) PROVE a[n] = b[n]
    <3>1. n # 0 => FillsOf(log, ids)[n] = log[ids[n]]
      BY DEF FillsOf
    <3> QED  BY <3>1 DEF FirstEntered, AfterFill
  <2>2. a = b
    BY <2>1
  <2> HIDE DEF a, b
  <2> QED  BY <2>2 DEF EnteredTo, a, b
<1>2. EnteredIn(log, ids, seed, s, d) = (CHOOSE g : Upto(g))[Len(ids)]
  BY DEF EnteredIn
<1> HIDE DEF Upto
<1>3. \E g : Upto(g)
  BY <1>1, EnteredToExists
<1>4. Upto(CHOOSE g : Upto(g))
  BY <1>3
<1> QED  BY <1>1, <1>2, <1>4

AgreeTo(fs, fs2, m) == \A i \in 1..m : fs2[i] = fs[i]

(* Equal fills enter equal units. *)
LEMMA EnteredAgree ==
    ASSUME NEW f, NEW g, NEW fs, NEW fs2, NEW seed, NEW s, NEW d,
           NEW l \in Nat, NEW m \in Nat, m <= l,
           EnteredTo(f, fs, seed, s, d, m), EnteredTo(g, fs2, seed, s, d, l),
           AgreeTo(fs, fs2, m)
    PROVE  \A n \in 0..m : f[n] = g[n]
<1> DEFINE S == {n \in Nat : n <= m => f[n] = g[n]}
<1>1. \A n \in 0..m : f[n] = IF n = 0 THEN FirstEntered(seed, d)
                             ELSE AfterFill(f[n - 1], fs[n], s, d)
  BY DEF EnteredTo
<1>2. \A n \in 0..l : g[n] = IF n = 0 THEN FirstEntered(seed, d)
                             ELSE AfterFill(g[n - 1], fs2[n], s, d)
  BY DEF EnteredTo
<1>3. 0 \in S
  BY <1>1, <1>2
<1>4. ASSUME NEW n \in Nat, n \in S PROVE n + 1 \in S
  <2> SUFFICES ASSUME n + 1 <= m PROVE f[n + 1] = g[n + 1]
    OBVIOUS
  <2>1. n + 1 \in 0..m /\ n + 1 \in 0..l /\ n + 1 # 0 /\ (n + 1) - 1 = n /\ n + 1 \in 1..m
    OBVIOUS
  <2>2. f[n] = g[n] /\ fs2[n + 1] = fs[n + 1]
    BY <1>4, <2>1 DEF AgreeTo
  <2>3. f[n + 1] = AfterFill(f[n], fs[n + 1], s, d)
    BY <1>1, <2>1
  <2>4. g[n + 1] = AfterFill(g[n], fs2[n + 1], s, d)
    BY <1>2, <2>1
  <2> QED  BY <2>2, <2>3, <2>4
<1> HIDE DEF S
<1>5. \A n \in Nat : n \in S
  BY <1>3, <1>4, SetInduction
<1> QED  BY <1>5 DEF S

(* A log that only grew, and one more fill booked. *)
SameFills(log, log2, ids) == \A i \in 1..Len(ids) : log2[ids[i]] = log[ids[i]]

(* A log that only grew enters the same units. *)
LEMMA EnteredSame ==
    ASSUME NEW log, NEW log2, NEW ids, Len(ids) \in Nat, NEW seed, NEW s, NEW d,
           SameFills(log, log2, ids)
    PROVE  EnteredIn(log2, ids, seed, s, d) = EnteredIn(log, ids, seed, s, d)
<1>1. PICK g : /\ EnteredTo(g, FillsOf(log, ids), seed, s, d, Len(ids))
               /\ EnteredIn(log, ids, seed, s, d) = g[Len(ids)]
  BY EnteredIs
<1>2. PICK h : /\ EnteredTo(h, FillsOf(log2, ids), seed, s, d, Len(ids))
               /\ EnteredIn(log2, ids, seed, s, d) = h[Len(ids)]
  BY EnteredIs
<1>3. FillsOf(log2, ids) = FillsOf(log, ids)
  BY DEF FillsOf, SameFills
<1>4. AgreeTo(FillsOf(log, ids), FillsOf(log2, ids), Len(ids))
  BY <1>3 DEF AgreeTo
<1>5. \A n \in 0..Len(ids) : g[n] = h[n]
  BY <1>1, <1>2, <1>4, EnteredAgree
<1> QED  BY <1>1, <1>2, <1>5

(* One more fill booked enters its own units. *)
LEMMA EnteredStep ==
    ASSUME NEW log, NEW T, NEW ids \in Seq(T), NEW seed, NEW s, NEW d, NEW i \in T
    PROVE  EnteredIn(log, Append(ids, i), seed, s, d)
               = AfterFill(EnteredIn(log, ids, seed, s, d), log[i], s, d)
<1>0. Len(ids) \in Nat
  OBVIOUS
<1>1. PICK g : /\ EnteredTo(g, FillsOf(log, ids), seed, s, d, Len(ids))
               /\ EnteredIn(log, ids, seed, s, d) = g[Len(ids)]
  BY <1>0, EnteredIs
<1>2. PICK more, k : more = Append(ids, i) /\ k = Len(ids)
  OBVIOUS
<1>3. /\ Len(more) = k + 1 /\ k + 1 \in Nat /\ k \in Nat /\ k <= k + 1 /\ more[k + 1] = i
      /\ \A j \in 1..k : more[j] = ids[j]
  BY <1>0, <1>2
<1>4. PICK h : /\ EnteredTo(h, FillsOf(log, more), seed, s, d, Len(more))
               /\ EnteredIn(log, more, seed, s, d) = h[Len(more)]
  BY <1>3, EnteredIs
<1> DEFINE fs == FillsOf(log, ids)
           fs2 == FillsOf(log, more)
<1>5. (\A j \in 1..k : fs2[j] = fs[j]) /\ fs2[k + 1] = log[i]
  BY <1>2, <1>3 DEF FillsOf
<1>6. EnteredTo(g, fs, seed, s, d, k) /\ EnteredTo(h, fs2, seed, s, d, k + 1)
  BY <1>1, <1>2, <1>3, <1>4
<1> HIDE DEF fs, fs2
<1>7. \A n \in 0..k : g[n] = h[n]
  <2>1. PICK l : l = k + 1
    OBVIOUS
  <2>2. l \in Nat /\ k \in Nat /\ k <= l /\ EnteredTo(h, fs2, seed, s, d, l)
    BY <1>3, <1>6, <2>1
  <2>3. EnteredTo(g, fs, seed, s, d, k) /\ AgreeTo(fs, fs2, k)
    BY <1>5, <1>6 DEF AgreeTo
  <2> QED  BY ONLY <2>2, <2>3, EnteredAgree
<1>8. h[k + 1] = AfterFill(h[k], log[i], s, d)
  <2>1. k + 1 \in 0..k + 1 /\ (k + 1) - 1 = k /\ k + 1 # 0
    BY <1>3
  <2> QED  BY <1>5, <1>6, <2>1 DEF EnteredTo
<1> QED  BY <1>1, <1>2, <1>3, <1>4, <1>7, <1>8

(* Units stay units. *)
LEMMA AfterFillType ==
    ASSUME NEW units \in Seq(Nat), NEW f, IsFill(f), NEW s, NEW d
    PROVE  AfterFill(units, f, s, d) \in Seq(Nat)
<1>1. Units(f.qty, f.px) \in Seq(Nat)
  BY UnitsAre DEF IsFill
<1> QED  BY <1>1, ConcatOf DEF AfterFill

(* What was entered is a sequence of prices. *)
LEMMA EnteredType ==
    ASSUME NEW log, NEW ids, Len(ids) \in Nat, NEW seed, IsPosition(seed), NEW s, NEW d,
           \A i \in 1..Len(ids) : IsFill(log[ids[i]])
    PROVE  EnteredIn(log, ids, seed, s, d) \in Seq(Nat)
<1> DEFINE fs == FillsOf(log, ids)
<1>1. PICK g : /\ EnteredTo(g, fs, seed, s, d, Len(ids))
               /\ EnteredIn(log, ids, seed, s, d) = g[Len(ids)]
  BY EnteredIs
<1>2. \A i \in 1..Len(ids) : IsFill(fs[i])
  BY DEF FillsOf
<1> HIDE DEF fs
<1>3. \A n \in 0..Len(ids) : g[n] = IF n = 0 THEN FirstEntered(seed, d)
                                    ELSE AfterFill(g[n - 1], fs[n], s, d)
  BY <1>1 DEF EnteredTo
<1> DEFINE S == {n \in Nat : n <= Len(ids) => g[n] \in Seq(Nat)}
<1>4. 0 \in S
  <2>1. FirstEntered(seed, d) \in Seq(Nat)
    BY DEF FirstEntered, IsPosition
  <2> QED  BY <1>3, <2>1
<1>5. ASSUME NEW n \in Nat, n \in S PROVE n + 1 \in S
  <2> SUFFICES ASSUME n + 1 <= Len(ids) PROVE g[n + 1] \in Seq(Nat)
    OBVIOUS
  <2>1. n + 1 \in 0..Len(ids) /\ n + 1 # 0 /\ (n + 1) - 1 = n /\ n + 1 \in 1..Len(ids)
    OBVIOUS
  <2>2. g[n + 1] = AfterFill(g[n], fs[n + 1], s, d)
    BY <1>3, <2>1
  <2>3. g[n] \in Seq(Nat) /\ IsFill(fs[n + 1])
    BY <1>2, <1>5, <2>1
  <2> QED  BY <2>2, <2>3, AfterFillType
<1> HIDE DEF S
<1>6. \A n \in Nat : n \in S
  BY <1>4, <1>5, SetInduction
<1> QED  BY <1>1, <1>6 DEF S

-----------------------------------------------------------------------------
(* First in, first out: the open units are the last ones entered. *)
Ends(s, t) == Len(s) <= Len(t) /\ \A i \in 1..Len(s) : s[i] = t[(Len(t) - Len(s)) + i]

(* The same units at both ends, ... *)
LEMMA EndsConcat ==
    ASSUME NEW s \in Seq(Nat), NEW t \in Seq(Nat), NEW w \in Seq(Nat), Ends(s, t)
    PROVE  Ends(s \o w, t \o w)
<1>1. /\ Len(s \o w) = Len(s) + Len(w) /\ Len(t \o w) = Len(t) + Len(w)
      /\ Len(s) \in Nat /\ Len(t) \in Nat /\ Len(w) \in Nat /\ Len(s) <= Len(t)
  BY ConcatOf DEF Ends
<1>2. ASSUME NEW i \in 1..Len(s) + Len(w)
      PROVE  (s \o w)[i] = (t \o w)[(Len(t) - Len(s)) + i]
  <2>1. CASE i <= Len(s)
    <3>1. i \in 1..Len(s) /\ (Len(t) - Len(s)) + i \in 1..Len(t)
      BY <1>1, <2>1
    <3>2. (s \o w)[i] = s[i] /\ (t \o w)[(Len(t) - Len(s)) + i] = t[(Len(t) - Len(s)) + i]
      BY <3>1, ConcatOf
    <3> QED  BY <3>1, <3>2 DEF Ends
  <2>2. CASE ~(i <= Len(s))
    <3>1. PICK j : j = i - Len(s)
      OBVIOUS
    <3>2. j \in 1..Len(w) /\ i = Len(s) + j /\ (Len(t) - Len(s)) + i = Len(t) + j
      BY <1>1, <2>2, <3>1
    <3>3. (s \o w)[Len(s) + j] = w[j] /\ (t \o w)[Len(t) + j] = w[j]
      BY <3>2, ConcatOf
    <3> QED  BY <3>2, <3>3
  <2> QED  BY <2>1, <2>2
<1>3. Len(t \o w) - Len(s \o w) = Len(t) - Len(s)
  BY <1>1
<1> QED  BY <1>1, <1>2, <1>3 DEF Ends

(* ... the oldest taken away, ... *)
LEMMA EndsCut ==
    ASSUME NEW s \in Seq(Nat), NEW t \in Seq(Nat), Ends(s, t), NEW k \in 0..Len(s)
    PROVE  Ends(SubSeq(s, k + 1, Len(s)), t)
<1> DEFINE b == SubSeq(s, k + 1, Len(s))
<1>1. Len(b) = Len(s) - k /\ \A i \in 1..Len(s) - k : b[i] = s[k + i]
  BY SuffixOf
<1>2. Len(s) \in Nat /\ Len(t) \in Nat /\ k \in Nat /\ k <= Len(s) /\ Len(s) <= Len(t)
  BY DEF Ends
<1> HIDE DEF b
<1>3. ASSUME NEW i \in 1..Len(b) PROVE b[i] = t[(Len(t) - Len(b)) + i]
  <2>1. k + i \in 1..Len(s) /\ (Len(t) - Len(s)) + (k + i) = (Len(t) - Len(b)) + i
    BY <1>1, <1>2
  <2>2. s[k + i] = t[(Len(t) - Len(s)) + (k + i)]
    BY <2>1 DEF Ends
  <2> QED  BY <1>1, <2>1, <2>2
<1>4. Ends(b, t)
  BY <1>1, <1>2, <1>3 DEF Ends
<1> QED  BY <1>4 DEF b

(* ... or part of the last ones. *)
LEMMA EndsUnits ==
    ASSUME NEW t \in Seq(Nat), NEW k \in Nat, NEW n \in Nat, k <= n, NEW px \in Nat
    PROVE  Ends(Units(k, px), t \o Units(n, px))
<1>1. /\ Len(Units(k, px)) = k /\ \A i \in 1..k : Units(k, px)[i] = px
      /\ Units(n, px) \in Seq(Nat) /\ Len(Units(n, px)) = n /\ \A i \in 1..n : Units(n, px)[i] = px
  BY UnitsAre
<1>2. /\ Len(t \o Units(n, px)) = Len(t) + n /\ Len(t) \in Nat
      /\ \A i \in 1..n : (t \o Units(n, px))[Len(t) + i] = px
  <2>1. PICK w : w = Units(n, px)
    OBVIOUS
  <2>2. w \in Seq(Nat) /\ Len(w) = n /\ \A i \in 1..n : w[i] = px
    BY <1>1, <2>1
  <2>3. w \in Seq(Nat) /\ t \in Seq(Nat)
    BY <2>2
  <2>4. /\ Len(t \o w) = Len(t) + Len(w) /\ Len(t) \in Nat
        /\ \A i \in 1..Len(w) : (t \o w)[Len(t) + i] = w[i]
    BY ONLY <2>3, ConcatOf
  <2> QED  BY <2>1, <2>2, <2>4
<1>3. ASSUME NEW i \in 1..k PROVE (t \o Units(n, px))[((Len(t) + n) - k) + i] = px
  <2>1. PICK j : j = (n - k) + i
    OBVIOUS
  <2>2. j \in 1..n /\ ((Len(t) + n) - k) + i = Len(t) + j
    BY <1>2, <2>1
  <2> QED  BY <1>2, <2>2
<1> QED  BY <1>1, <1>2, <1>3 DEF Ends

(* A fill leaves the open units the last ones entered in their direction. *)
LEMMA FifoFill ==
    ASSUME NEW p, IsPosition(p), NEW f, IsFill(f), NEW e \in [{-1, 0, 1} -> Seq(Nat)],
           Ends(p.units, e[p.dir])
    PROVE  LET q == Applied(p, f)
           IN  Ends(q.units, AfterFill(e[q.dir], f, f.sym, q.dir))
<1> DEFINE q == Applied(p, f)
           D == Dir(f)
<1>1. Reduces(p, f, q) \/ Flips(p, f, q) \/ Extends(p, f, q)
  BY AppliedIs
<1>2. IsPosition(q)
  BY FillArithmetic
<1>3. /\ p.units \in Seq(Nat) /\ q.units \in Seq(Nat) /\ D \in {-1, 1}
      /\ p.dir \in {-1, 0, 1} /\ q.dir \in {-1, 0, 1} /\ (q.dir = 0 => q.units = <<>>)
      /\ (p.dir = 0 => p.units = <<>>)
      /\ f.qty \in Nat /\ f.px \in Nat /\ Len(p.units) \in Nat
      /\ Units(f.qty, f.px) \in Seq(Nat)
  <2>1. /\ p.units \in Seq(Nat) /\ q.units \in Seq(Nat) /\ D \in {-1, 1}
        /\ p.dir \in {-1, 0, 1} /\ q.dir \in {-1, 0, 1} /\ (q.dir = 0 => q.units = <<>>)
        /\ (p.dir = 0 => p.units = <<>>)
    BY <1>2 DEF IsPosition, Dir
  <2>2. f.qty \in Nat /\ f.px \in Nat
    BY DEF IsFill
  <2>3. Units(f.qty, f.px) \in Seq(Nat)
    BY <2>2, UnitsAre
  <2>4. Len(p.units) \in Nat
    BY <2>1
  <2> QED  BY <2>1, <2>2, <2>3, <2>4
<1>4. \A t \in Seq(Nat) : Ends(<<>>, t)
  BY DEF Ends
<1> HIDE DEF q
<1>5. CASE Reduces(p, f, q)
  <2>1. CASE q.dir = 0
    <3>0. D # q.dir /\ e[q.dir] \in Seq(Nat)
      BY <1>3, <2>1
    <3>1. AfterFill(e[q.dir], f, f.sym, q.dir) = e[q.dir] /\ e[q.dir] \in Seq(Nat)
      BY <3>0 DEF AfterFill
    <3> QED  BY <1>3, <1>4, <2>1, <3>1 DEF q
  <2>2. CASE q.dir # 0
    <3>1. q.dir = p.dir /\ p.dir # D /\ f.qty \in 0..Len(p.units)
          /\ q.units = SubSeq(p.units, f.qty + 1, Len(p.units))
      BY <1>3, <1>5, <2>2 DEF Reduces
    <3>2. AfterFill(e[q.dir], f, f.sym, q.dir) = e[p.dir] /\ e[p.dir] \in Seq(Nat)
      BY <1>3, <3>1 DEF AfterFill
    <3>3. Ends(q.units, e[p.dir])
      BY <1>3, <3>1, <3>2, EndsCut
    <3> QED  BY <3>2, <3>3 DEF q
  <2> QED  BY <2>1, <2>2
<1>6. CASE Flips(p, f, q)
  <2>1. PICK k : k = f.qty - Len(p.units)
    OBVIOUS
  <2>2. q.dir = D /\ q.units = Units(k, f.px) /\ k \in Nat /\ k <= f.qty
    <3>1. q.dir = D /\ q.units = Units(k, f.px) /\ Len(p.units) < f.qty
      BY <1>6, <2>1 DEF Flips
    <3>2. Len(p.units) \in Nat /\ f.qty \in Nat
      BY <1>3
    <3> QED  BY <2>1, <3>1, <3>2
  <2>3. AfterFill(e[q.dir], f, f.sym, q.dir) = e[D] \o Units(f.qty, f.px) /\ e[D] \in Seq(Nat)
    BY <1>3, <2>2 DEF AfterFill
  <2>4. Ends(Units(k, f.px), e[D] \o Units(f.qty, f.px))
    BY <1>3, <2>2, <2>3, EndsUnits
  <2> QED  BY <2>2, <2>3, <2>4 DEF q
<1>7. CASE Extends(p, f, q)
  <2>1. q.dir = D /\ q.units = p.units \o Units(f.qty, f.px) /\ p.dir \in {0, D}
    BY <1>7 DEF Extends
  <2>2. AfterFill(e[q.dir], f, f.sym, q.dir) = e[D] \o Units(f.qty, f.px) /\ e[D] \in Seq(Nat)
    BY <1>3, <2>1 DEF AfterFill
  <2>3. Ends(p.units, e[D])
    BY <1>3, <1>4, <2>1, <2>2
  <2>4. Ends(p.units \o Units(f.qty, f.px), e[D] \o Units(f.qty, f.px))
    BY <1>3, <2>2, <2>3, EndsConcat
  <2> QED  BY <2>1, <2>2, <2>4 DEF q
<1> QED  BY <1>1, <1>5, <1>6, <1>7

(* In the words of the community module. *)
LEMMA SuffixIf ==
    ASSUME NEW s \in Seq(Nat), NEW t \in Seq(Nat), Ends(s, t)
    PROVE  IsSuffix(s, t)
<1> DEFINE rs == Reverse(s)
           rt == Reverse(t)
<1>1. Len(s) \in Nat /\ Len(t) \in Nat /\ Len(s) <= Len(t)
  BY DEF Ends
<1>2. rs \in Seq(Nat) /\ Len(rs) = Len(s) /\ \A i \in 1..Len(s) : rs[i] = s[(Len(s) - i) + 1]
  BY DEF Reverse
<1>3. rt \in Seq(Nat) /\ Len(rt) = Len(t) /\ \A i \in 1..Len(t) : rt[i] = t[(Len(t) - i) + 1]
  BY DEF Reverse
<1> HIDE DEF rs, rt
<1>4. ASSUME NEW i \in 1..Len(s) PROVE rs[i] = rt[i]
  <2>1. PICK j : j = (Len(s) - i) + 1
    OBVIOUS
  <2>2. j \in 1..Len(s) /\ (Len(t) - i) + 1 = (Len(t) - Len(s)) + j /\ i \in 1..Len(t)
    BY <1>1, <2>1
  <2>3. s[j] = t[(Len(t) - Len(s)) + j]
    BY <2>2 DEF Ends
  <2> QED  BY <1>2, <1>3, <2>1, <2>2, <2>3
<1>5. SubSeq(rs, 1, Len(rs)) = SubSeq(rt, 1, Len(rs))
  <2> DEFINE a == SubSeq(rs, 1, Len(rs))
             b == SubSeq(rt, 1, Len(rs))
  <2>1. a \in Seq(Nat) /\ Len(a) = Len(s) /\ \A i \in 1..Len(s) : a[i] = rs[i]
    BY <1>1, <1>2
  <2>2. b \in Seq(Nat) /\ Len(b) = Len(s) /\ \A i \in 1..Len(s) : b[i] = rt[i]
    BY <1>1, <1>2, <1>3
  <2> HIDE DEF a, b
  <2>3. a = [i \in 1..Len(s) |-> a[i]] /\ b = [i \in 1..Len(s) |-> b[i]]
    BY <2>1, <2>2
  <2>4. \A i \in 1..Len(s) : a[i] = b[i]
    BY <1>4, <2>1, <2>2
  <2>5. a = b
    BY <2>3, <2>4
  <2> QED  BY <2>5 DEF a, b
<1> QED  BY <1>1, <1>2, <1>3, <1>5 DEF IsSuffix, IsPrefix, rs, rt

-----------------------------------------------------------------------------
(* What one fill, or one position, adds to the sums. *)
LEMMA CostOfType == ASSUME NEW p, IsPosition(p) PROVE CostOf(p) \in Int
<1>1. p.units \in Seq(Int) /\ p.dir \in Int
  BY DEF IsPosition
<1>2. SumFunction(p.units) \in Int
  BY <1>1, SumConcat
<1> QED  BY <1>1, <1>2 DEF CostOf

(* A book that changes in one symbol. *)
LEMMA CostChange ==
    ASSUME NEW book, book = [s \in Symbols |-> book[s]], \A s \in Symbols : IsPosition(book[s]),
           NEW x \in Symbols, NEW q, IsPosition(q)
    PROVE  /\ Cost(book) \in Int
           /\ Cost([book EXCEPT ![x] = q]) = Cost(book) + (CostOf(q) - CostOf(book[x]))
<1> DEFINE book2 == [book EXCEPT ![x] = q]
           f == CostAt(book)
           k == CostAt(book2)
<1>1. book2[x] = q /\ \A s \in Symbols : s # x => book2[s] = book[s]
  OBVIOUS
<1>2. \A s \in Symbols : f[s] = CostOf(book[s]) /\ k[s] = CostOf(book2[s])
  BY DEF CostAt
<1>3. \A s \in Symbols : IsPosition(book2[s])
  BY <1>1
<1>4. Cost(book) = SumFunctionOnSet(f, Symbols) /\ Cost(book2) = SumFunctionOnSet(k, Symbols)
  BY CostIs
<1> HIDE DEF f, k, book2
<1>5. \A s \in Symbols : f[s] \in Int /\ k[s] \in Int
  BY <1>2, <1>3, CostOfType
<1>6. \A s \in Symbols : s # x => f[s] = k[s]
  BY <1>1, <1>2
<1>7. SumFunctionOnSet(f, Symbols) \in Int
  BY <1>5, SymbolAssumption, SumType
<1>8. SumFunctionOnSet(k, Symbols) = SumFunctionOnSet(f, Symbols) + (k[x] - f[x])
  BY <1>5, <1>6, SymbolAssumption, SumChange
<1> QED  BY <1>1, <1>2, <1>4, <1>7, <1>8 DEF book2

(* One more fill's cash, and a log that only grew. *)
LEMMA CashChange ==
    ASSUME NEW log, NEW log2, NEW S \in SUBSET DOMAIN log, DOMAIN log \subseteq DOMAIN log2,
           IsFiniteSet(S), \A i \in DOMAIN log : IsFill(log[i]) /\ log2[i] = log[i]
    PROVE  /\ CashIn(log, S) \in Int
           /\ CashIn(log2, S) = CashIn(log, S)
           /\ \A i \in DOMAIN log \ S :
                  CashIn(log, S \cup {i}) = CashIn(log, S) - (Dir(log[i]) * log[i].qty) * log[i].px
<1>1. \A i \in DOMAIN log : /\ CashAt(log)[i] = -((Dir(log[i]) * log[i].qty) * log[i].px)
                            /\ CashAt(log2)[i] = CashAt(log)[i]
                            /\ (Dir(log[i]) * log[i].qty) * log[i].px \in Int
  BY DEF CashAt, IsFill, Dir
<1>2. CashIn(log, S) = SumFunctionOnSet(CashAt(log), S)
  BY CashIs
<1>3. CashIn(log2, S) = SumFunctionOnSet(CashAt(log2), S)
  <2>1. S \in SUBSET DOMAIN log2
    OBVIOUS
  <2> QED  BY <2>1, CashIs
<1>4. CashIn(log, S) \in Int
  BY <1>1, <1>2, SumType
<1>5. SumFunctionOnSet(CashAt(log2), S) = SumFunctionOnSet(CashAt(log), S)
  <2>1. \A i \in S : CashAt(log2)[i] = CashAt(log)[i]
    BY <1>1
  <2> QED  BY <2>1, SumSame
<1>6. ASSUME NEW i \in DOMAIN log \ S
      PROVE  CashIn(log, S \cup {i}) = CashIn(log, S) - (Dir(log[i]) * log[i].qty) * log[i].px
  <2>1. S \cup {i} \in SUBSET DOMAIN log /\ IsFiniteSet(S \cup {i}) /\ i \notin S
    BY FS_AddElement
  <2>2. CashIn(log, S \cup {i}) = SumFunctionOnSet(CashAt(log), S \cup {i})
    BY <2>1, CashIs
  <2>3. \A j \in S \cup {i} : CashAt(log)[j] \in Int
    BY <1>1
  <2>4. SumFunctionOnSet(CashAt(log), S \cup {i}) = CashAt(log)[i] + SumFunctionOnSet(CashAt(log), S)
    BY <2>1, <2>3, SumAdd
  <2>5. CashAt(log)[i] = -((Dir(log[i]) * log[i].qty) * log[i].px)
    BY <1>1
  <2> QED  BY <1>1, <1>2, <1>4, <2>2, <2>4, <2>5
<1> QED  BY <1>2, <1>3, <1>4, <1>5, <1>6

(* The position that a set of fills makes. *)
NetIn(log, s, ids) == SignedIn(log, {i \in ids : log[i].sym = s})

(* One more fill's units, and a log that only grew. *)
LEMMA NetChange ==
    ASSUME NEW log, NEW log2, NEW S \in SUBSET DOMAIN log, DOMAIN log \subseteq DOMAIN log2,
           IsFiniteSet(S), \A i \in DOMAIN log : IsFill(log[i]) /\ log2[i] = log[i], NEW s
    PROVE  /\ NetIn(log, s, S) \in Int
           /\ NetIn(log2, s, S) = NetIn(log, s, S)
           /\ \A i \in DOMAIN log \ S :
                  NetIn(log, s, S \cup {i}) =
                      IF log[i].sym = s THEN NetIn(log, s, S) + Dir(log[i]) * log[i].qty
                      ELSE NetIn(log, s, S)
<1> DEFINE R == {i \in S : log[i].sym = s}
<1>0. R \in SUBSET DOMAIN log /\ R \in SUBSET DOMAIN log2 /\ IsFiniteSet(R)
  BY FS_Subset
<1>1. \A i \in DOMAIN log : /\ SignedAt(log)[i] = Dir(log[i]) * log[i].qty
                            /\ SignedAt(log2)[i] = SignedAt(log)[i]
                            /\ Dir(log[i]) * log[i].qty \in Int
  BY DEF SignedAt, IsFill, Dir
<1>2. SignedIn(log, R) = SumFunctionOnSet(SignedAt(log), R)
  BY <1>0, SignedIs
<1>3. SignedIn(log2, R) = SumFunctionOnSet(SignedAt(log2), R)
  BY <1>0, SignedIs
<1>4. {i \in S : log2[i].sym = s} = R
  OBVIOUS
<1>5. NetIn(log, s, S) = SignedIn(log, R) /\ NetIn(log2, s, S) = SignedIn(log2, R)
  BY <1>4 DEF NetIn
<1>a. R \subseteq S
  OBVIOUS
<1>b. ASSUME NEW i \in DOMAIN log \ S
      PROVE  {j \in S \cup {i} : log[j].sym = s} = IF log[i].sym = s THEN R \cup {i} ELSE R
  OBVIOUS
<1> HIDE DEF R
<1>6. \A i \in R : SignedAt(log2)[i] = SignedAt(log)[i] /\ SignedAt(log)[i] \in Int
  BY <1>0, <1>1
<1>7. SumFunctionOnSet(SignedAt(log), R) \in Int
  BY <1>0, <1>6, SumType
<1>8. SumFunctionOnSet(SignedAt(log2), R) = SumFunctionOnSet(SignedAt(log), R)
  BY <1>0, <1>6, SumSame
<1>9. ASSUME NEW i \in DOMAIN log \ S
      PROVE  NetIn(log, s, S \cup {i}) =
                 IF log[i].sym = s THEN NetIn(log, s, S) + Dir(log[i]) * log[i].qty
                 ELSE NetIn(log, s, S)
  <2>1. CASE log[i].sym = s
    <3>1. R \cup {i} \in SUBSET DOMAIN log /\ IsFiniteSet(R \cup {i}) /\ i \notin R
      BY <1>0, <1>a, FS_AddElement
    <3>2. NetIn(log, s, S \cup {i}) = SumFunctionOnSet(SignedAt(log), R \cup {i})
      BY <1>b, <2>1, <3>1, SignedIs DEF NetIn
    <3>3. \A j \in R \cup {i} : SignedAt(log)[j] \in Int
      BY <1>1, <1>6
    <3>4. SumFunctionOnSet(SignedAt(log), R \cup {i})
              = SignedAt(log)[i] + SumFunctionOnSet(SignedAt(log), R)
      BY <1>0, <3>1, <3>3, SumAdd
    <3>5. SignedAt(log)[i] = Dir(log[i]) * log[i].qty /\ Dir(log[i]) * log[i].qty \in Int
      BY <1>1
    <3> QED  BY <1>2, <1>5, <1>7, <2>1, <3>2, <3>4, <3>5
  <2>2. CASE log[i].sym # s
    BY <1>5, <1>b, <2>2 DEF NetIn
  <2> QED  BY <2>1, <2>2
<1> QED  BY <1>2, <1>3, <1>5, <1>7, <1>8, <1>9

-----------------------------------------------------------------------------
(* What the books say, in terms of positions, sums and sequences. *)
Size(p) == p.dir * Len(p.units)

BookInv ==
    /\ Len(fills) <= MaxFills
    /\ lots = [s \in Symbols |-> lots[s]] /\ store.basis = [s \in Symbols |-> store.basis[s]]
    /\ seeded.lots = [s \in Symbols |-> seeded.lots[s]]
    /\ \A s \in Symbols : IsPosition(lots[s]) /\ IsPosition(store.basis[s]) /\ IsPosition(seeded.lots[s])
    /\ held \in 0..Len(fills) /\ seeded.held \in 0..Len(fills)
    /\ applied \in Seq(Nat) /\ IsInjective(applied)
    /\ store.seen \subseteq Ids
    /\ store.seen = seeded.fills \cup Booked
    /\ store.booked \in Int
    /\ Running => store.booted
    /\ pc \in {"positions", "seed", "save"} => ~store.booted
    /\ ~store.booted => applied = <<>> /\ store.seen = {} /\ store.booked = 0

BalanceInv == store.booked = CashIn(fills, Booked) + Cost(store.basis) - Cost(seeded.lots)

FifoInv == \A s \in Symbols :
    Ends(store.basis[s].units, EnteredIn(fills, applied, seeded.lots[s], s, store.basis[s].dir))

(* Before the seed is saved the lots are the position the venue had when its  *)
(* positions were read.                                                       *)
SeedInv == pc \in {"seed", "save"} => \A s \in Symbols : Size(lots[s]) = NetIn(fills, s, 1..held)

(* Afterwards they are the stored fills, and what the two reads of the seed   *)
(* disagreed by.                                                              *)
PositionInv == store.booted =>
    \A s \in Symbols : Size(store.basis[s])
                          = NetIn(fills, s, store.seen)
                              + (NetIn(fills, s, 1..seeded.held) - NetIn(fills, s, seeded.fills))

(* A reading that is being applied is complete as of its last page. *)
ReadAtInv ==
    pc = "apply" => /\ readAt \in 0..Len(fills)
                    /\ store.seen \cup got \subseteq 1..readAt
                    /\ \A i \in 1..readAt : Known(i)

BooksInv == BookInv /\ BalanceInv /\ FifoInv /\ SeedInv /\ PositionInv /\ ReadAtInv

(* The log holds fills, at the indices 1, 2, ... *)
LEMMA LogFills ==
    ASSUME LogInv
    PROVE  Len(fills) \in Nat /\ DOMAIN fills = 1..Len(fills) /\ Ids = 1..Len(fills)
           /\ \A i \in DOMAIN fills : IsFill(fills[i]) /\ fills[i].sym \in Symbols
<1> DEFINE R == [sym : Symbols, side : {"Buy", "Sell"}, qty : Nat \ {0}, at : Nat, px : Nat]
<1>1. fills \in Seq(R)
  BY DEF LogInv
<1>2. \A r \in R : IsFill(r) /\ r.sym \in Symbols
  BY FillAssumption DEF IsFill
<1> HIDE DEF R
<1>3. Len(fills) \in Nat /\ DOMAIN fills = 1..Len(fills) /\ \A i \in DOMAIN fills : fills[i] \in R
  BY <1>1
<1> QED  BY <1>2, <1>3 DEF Ids

(* No position costs nothing. *)
LEMMA FlatIs == IsPosition(Flat) /\ CostOf(Flat) = 0 /\ Size(Flat) = 0
<1>1. IsPosition(Flat)
  BY DEF Flat, IsPosition
<1>2. DOMAIN <<>> = {} /\ SumFunctionOnSet(<<>>, {}) = 0
  BY SumEmpty
<1> QED  BY <1>1, <1>2 DEF Flat, CostOf, SumFunction, Size

(* A seed is as large as the fills make it. *)
LEMMA SeedIs ==
    ASSUME LogInv, Len(fills) <= MaxFills, NEW s
    PROVE  IsPosition(SeedPosition(s)) /\ Size(SeedPosition(s)) = NetIn(fills, s, 1..Len(fills))
<1> DEFINE n == NetIn(fills, s, 1..Len(fills))
<1>1. n \in Int
  <2> DEFINE S == 1..Len(fills)
  <2>1. S \in SUBSET DOMAIN fills /\ IsFiniteSet(S)
    BY LogFills, FS_Interval
  <2>2. \A i \in DOMAIN fills : IsFill(fills[i]) /\ fills[i] = fills[i]
    BY LogFills
  <2> HIDE DEF S
  <2>3. NetIn(fills, s, S) \in Int
    BY <2>1, <2>2, NetChange
  <2> QED  BY <2>3 DEF S
<1>2. Net(s, DOMAIN fills) = n
  <2>1. DOMAIN fills = 1..Len(fills)
    BY LogFills
  <2> QED  BY <2>1 DEF Net, Signed, NetIn, SignedIn
<1> HIDE DEF n
<1> DEFINE q == SeedPosition(s)
           m == Magnitude(n)
           px == Price[Len(fills)]
<1>3. q = [dir |-> Sign(n), units |-> Units(m, px)]
  BY <1>2 DEF SeedPosition
<1>4. m \in Nat /\ Sign(n) \in {-1, 0, 1} /\ Sign(n) * m = n /\ (m = 0 <=> Sign(n) = 0)
  BY <1>1 DEF Magnitude, Sign
<1>5. Len(fills) = 0 => n = 0
  <2> SUFFICES ASSUME Len(fills) = 0 PROVE n = 0
    OBVIOUS
  <2>1. {i \in 1..Len(fills) : fills[i].sym = s} = {} /\ {} \in SUBSET DOMAIN fills /\ IsFiniteSet({})
    BY FS_EmptySet
  <2>2. SignedIn(fills, {}) = SumFunctionOnSet(SignedAt(fills), {})
    BY <2>1, SignedIs
  <2>3. SumFunctionOnSet(SignedAt(fills), {}) = 0
    BY SumEmpty
  <2> QED  BY <2>1, <2>2, <2>3 DEF n, NetIn
<1>6. Units(m, px) \in Seq(Nat) /\ Len(Units(m, px)) = m
  <2>1. CASE Len(fills) = 0
    <3>1. m = 0
      BY <1>1, <1>5, <2>1 DEF Magnitude
    <3> QED  BY <3>1 DEF Units
  <2>2. CASE Len(fills) # 0
    <3>1. px \in Nat
      BY <2>2, LogFills, FillAssumption DEF MaxFills
    <3> QED  BY <1>4, <3>1, UnitsAre
  <2> QED  BY <2>1, <2>2
<1> HIDE DEF m, q, px
<1>7. q.dir = Sign(n) /\ q.units = Units(m, px) /\ q = [dir |-> q.dir, units |-> q.units]
  BY <1>3
<1>8. IsPosition(q)
  <2>1. q.dir \in {-1, 0, 1} /\ q.units \in Seq(Nat) /\ (Len(q.units) = 0 <=> q.dir = 0)
    BY <1>4, <1>6, <1>7
  <2> QED  BY <1>7, <2>1, PositionIs
<1>9. Size(q) = n
  BY <1>4, <1>6, <1>7 DEF Size
<1> QED  BY <1>8, <1>9 DEF q, n

(* The books of an empty database. *)
LEMMA BooksInit == Init => BooksInv
<1> SUFFICES ASSUME Init PROVE BooksInv
  OBVIOUS
<1>1. /\ fills = <<>> /\ held = 0 /\ pc = "load" /\ lots = NoLots
      /\ store = [booted |-> FALSE, cursor |-> 0, basis |-> NoLots, seen |-> {}, booked |-> 0]
      /\ seeded = [fills |-> {}, held |-> 0, lots |-> NoLots] /\ applied = <<>>
  BY DEF Init
<1>2. Booked = {} /\ NoLots = [s \in Symbols |-> NoLots[s]] /\ \A s \in Symbols : NoLots[s] = Flat
  BY <1>1 DEF Booked, ToSet, NoLots
<1>3. \A s \in Symbols : IsPosition(NoLots[s])
  BY <1>2, FlatIs
<1>4. BookInv
  <2>1. IsInjective(applied) /\ applied \in Seq(Nat)
    BY <1>1 DEF IsInjective
  <2>2. Len(fills) = 0 /\ Len(fills) <= MaxFills
    BY <1>1, FillAssumption DEF MaxFills
  <2> QED  BY <1>1, <1>2, <1>3, <2>1, <2>2 DEF BookInv, Running
<1>5. BalanceInv
  <2>1. CashIn(fills, {}) = 0
    <3>1. {} \in SUBSET DOMAIN fills /\ IsFiniteSet({})
      BY FS_EmptySet
    <3> QED  BY <3>1, CashIs, SumEmpty
  <2>2. Cost(NoLots) \in Int
    <3>1. \A s \in Symbols : CostAt(NoLots)[s] \in Int
      BY <1>2, FlatIs DEF CostAt
    <3>2. SumFunctionOnSet(CostAt(NoLots), Symbols) \in Int
      BY <3>1, SymbolAssumption, SumType
    <3> QED  BY <3>2, CostIs
  <2> QED  BY <1>1, <1>2, <2>1, <2>2 DEF BalanceInv
<1>6. FifoInv
  <2>1. ASSUME NEW s \in Symbols
        PROVE  Ends(store.basis[s].units, EnteredIn(fills, applied, seeded.lots[s], s, store.basis[s].dir))
    <3>1. store.basis[s].units = <<>>
      BY <1>1, <1>2 DEF Flat
    <3>2. EnteredIn(fills, applied, seeded.lots[s], s, store.basis[s].dir) \in Seq(Nat)
      <4>1. Len(applied) \in Nat /\ (\A i \in 1..Len(applied) : IsFill(fills[applied[i]]))
            /\ IsPosition(seeded.lots[s])
        BY <1>1, <1>3
      <4> QED  BY <4>1, EnteredType
    <3> QED  BY <3>1, <3>2 DEF Ends
  <2> QED  BY <2>1 DEF FifoInv
<1> QED  BY <1>1, <1>4, <1>5, <1>6 DEF BooksInv, SeedInv, PositionInv, ReadAtInv

-----------------------------------------------------------------------------
(* A step that books nothing, while the venue's log may grow. *)
SameBooks == /\ Ids \subseteq Ids' /\ \A i \in Ids : fills'[i] = fills[i]
             /\ seeded' = seeded /\ applied' = applied
             /\ store'.basis = store.basis /\ store'.booked = store.booked
             /\ store'.booted = store.booted /\ store'.seen = store.seen

(* There are finitely many fills. *)
LEMMA IdsFinite == ASSUME LogInv PROVE IsFiniteSet(Ids)
<1>1. 1 \in Int /\ Len(fills) \in Int
  BY LogFills
<1>2. IsFiniteSet(1..Len(fills))
  BY <1>1, FS_Interval
<1> QED  BY <1>2, LogFills

(* A log that grows leaves the size of what was in it. *)
LEMMA NetKept ==
    ASSUME LogInv, LogInv', SameBooks, NEW S \in SUBSET Ids, NEW s
    PROVE  NetIn(fills', s, S) = NetIn(fills, s, S)
<1>1. /\ S \in SUBSET DOMAIN fills /\ DOMAIN fills \subseteq DOMAIN fills'
      /\ \A i \in DOMAIN fills : IsFill(fills[i]) /\ fills'[i] = fills[i]
  BY LogFills DEF SameBooks, Ids
<1>2. IsFiniteSet(S)
  BY IdsFinite, FS_Subset
<1> QED  BY <1>1, <1>2, NetChange

(* What is booked, and seeded, is in the log. *)
LEMMA BookedIds ==
    ASSUME LogInv, BookInv
    PROVE  /\ Booked \in SUBSET Ids /\ IsFiniteSet(Booked)
           /\ Len(applied) \in Nat /\ applied \in Seq(Ids)
           /\ \A i \in 1..Len(applied) : applied[i] \in Booked
           /\ 1..seeded.held \subseteq Ids /\ IsFiniteSet(1..seeded.held)
           /\ seeded.fills \in SUBSET Ids /\ store.seen \in SUBSET Ids
           /\ IsFiniteSet(store.seen)
<1>1. applied \in Seq(Nat) /\ Len(applied) \in Nat /\ Booked \subseteq Ids
  BY DEF BookInv
<1>2. \A i \in 1..Len(applied) : applied[i] \in Booked
  BY <1>1 DEF Booked, ToSet
<1>3. IsFiniteSet(Booked)
  BY <1>1, IdsFinite, FS_Subset
<1>4. applied = [i \in 1..Len(applied) |-> applied[i]]
  BY <1>1
<1>5. applied \in Seq(Ids)
  BY <1>1, <1>2, <1>4
<1>6. 1..seeded.held \subseteq Ids
  BY LogFills DEF BookInv
<1>7. IsFiniteSet(1..seeded.held)
  BY <1>6, IdsFinite, FS_Subset
<1>8. seeded.fills \in SUBSET Ids /\ store.seen \in SUBSET Ids
  BY DEF BookInv
<1>9. IsFiniteSet(store.seen)
  BY <1>8, IdsFinite, FS_Subset
<1> QED  BY <1>1, <1>2, <1>3, <1>5, <1>6, <1>7, <1>8, <1>9

(* Nothing booked: the balance, the order and the position stay. *)
LEMMA SameBooksKept ==
    ASSUME LogInv, LogInv', BooksInv, SameBooks
    PROVE  BalanceInv' /\ FifoInv' /\ PositionInv'
<1> USE DEF BooksInv
<1>1. Booked' = Booked
  BY DEF SameBooks, Booked
<1>2. BalanceInv'
  <2>1. /\ Booked \in SUBSET DOMAIN fills /\ DOMAIN fills \subseteq DOMAIN fills' /\ IsFiniteSet(Booked)
        /\ \A i \in DOMAIN fills : IsFill(fills[i]) /\ fills'[i] = fills[i]
    BY LogFills, BookedIds DEF SameBooks, Ids
  <2>2. CashIn(fills', Booked) = CashIn(fills, Booked)
    BY <2>1, CashChange
  <2> QED  BY <1>1, <2>2 DEF BalanceInv, SameBooks
<1>3. FifoInv'
  <2>1. ASSUME NEW s \in Symbols
        PROVE  EnteredIn(fills', applied, seeded.lots[s], s, store.basis[s].dir)
                   = EnteredIn(fills, applied, seeded.lots[s], s, store.basis[s].dir)
    <3>1. SameFills(fills, fills', applied) /\ Len(applied) \in Nat
      BY BookedIds DEF SameBooks, SameFills
    <3> QED  BY <3>1, EnteredSame
  <2> QED  BY <2>1 DEF FifoInv, SameBooks
<1>4. PositionInv'
  <2>1. 1..seeded.held \in SUBSET Ids /\ seeded.fills \in SUBSET Ids /\ store.seen \in SUBSET Ids
    BY BookedIds
  <2>2. \A s \in Symbols : /\ NetIn(fills', s, store.seen) = NetIn(fills, s, store.seen)
                            /\ NetIn(fills', s, 1..seeded.held) = NetIn(fills, s, 1..seeded.held)
                            /\ NetIn(fills', s, seeded.fills) = NetIn(fills, s, seeded.fills)
    BY <2>1, NetKept
  <2> QED  BY <2>2 DEF PositionInv, SameBooks
<1> QED  BY <1>2, <1>3, <1>4

(* Nothing booked: the shapes stay. *)
LEMMA SameBookInv ==
    ASSUME BookInv, SameBooks, Len(fills') <= MaxFills, Len(fills) \in Nat, Len(fills') \in Nat,
           Len(fills) <= Len(fills'),
           lots' = [s \in Symbols |-> lots'[s]], \A s \in Symbols : IsPosition(lots'[s]),
           held' \in 0..Len(fills'), Running' => store.booted,
           pc' \in {"positions", "seed", "save"} => ~store.booted
    PROVE  BookInv'
<1>1. Booked' = Booked
  BY DEF SameBooks, Booked
<1> QED  BY <1>1 DEF BookInv, SameBooks

(* The steps that only turn a page, of the log or of the process. *)
LEMMA QuietBooks ==
    ASSUME IInv, IInv', BooksInv, UNCHANGED <<fills, durable>>,
           lots' \in {lots, NoLots, store.basis}, held' \in {held, 0},
           pc' \in {"seed", "save"} => pc \in {"seed", "save"} /\ UNCHANGED <<lots, held>>,
           pc' \in {"positions", "seed", "save"} => ~store.booted,
           Running' => store.booted
    PROVE  BookInv' /\ BalanceInv' /\ FifoInv' /\ SeedInv' /\ PositionInv'
<1> USE DEF BooksInv, IInv
<1>1. SameBooks /\ LogInv' /\ fills' = fills
  BY DEF SameBooks, durable, Ids
<1>2. BalanceInv' /\ FifoInv' /\ PositionInv'
  BY <1>1, SameBooksKept
<1>3. BookInv'
  <2>1. NoLots = [s \in Symbols |-> NoLots[s]] /\ \A s \in Symbols : IsPosition(NoLots[s])
    BY FlatIs DEF NoLots
  <2>2. lots' = [s \in Symbols |-> lots'[s]] /\ \A s \in Symbols : IsPosition(lots'[s])
    BY <2>1 DEF BookInv
  <2>3. Len(fills) \in Nat /\ held' \in 0..Len(fills') /\ Len(fills') <= MaxFills
    BY <1>1, LogFills DEF BookInv
  <2> QED  BY <1>1, <2>2, <2>3, SameBookInv
<1>4. SeedInv'
  BY <1>1 DEF SeedInv
<1> QED  BY <1>2, <1>3, <1>4

(* A fill is booked: profit, lots, entries and position move together. *)
LEMMA BookStep ==
    ASSUME IInv, IInv', BooksInv, pc = "apply", NEW i \in got, Book(i),
           UNCHANGED <<fills, seeded, held>>
    PROVE  BookInv' /\ BalanceInv' /\ FifoInv' /\ SeedInv' /\ PositionInv'
<1> USE DEF IInv, BooksInv
<1> DEFINE f == fills[i]
           x == f.sym
           p == lots[x]
           q == Applied(p, f)
           v == Dir(f) * f.qty
<1>1. /\ lots = store.basis /\ store.booted /\ i \notin store.seen /\ i \in Ids /\ i \notin Booked
      /\ IsFill(f) /\ x \in Symbols /\ IsPosition(p)
  BY LogFills DEF MemoryMatchesStore, Running, BookInv, Book, ShapeInv, Ids
<1>2. /\ lots' = [lots EXCEPT ![x] = q] /\ pc' = pc /\ fills' = fills /\ seeded' = seeded
      /\ held' = held /\ applied' = Append(applied, i)
  BY DEF Book, LotsAfter
<1>3. /\ store'.basis = lots' /\ store'.seen = store.seen \cup {i} /\ store'.booted = store.booted
      /\ store'.booked = store.booked + Gain(p, f)
  BY <1>2 DEF Book, BasisSaved, ShapeInv
<1>4. /\ IsPosition(q) /\ Gain(p, f) \in Int
      /\ q.dir * Len(q.units) = p.dir * Len(p.units) + Dir(f) * f.qty
      /\ Gain(p, f) = (q.dir * SumFunction(q.units) - p.dir * SumFunction(p.units))
                          - (Dir(f) * f.qty) * f.px
  BY <1>1, FillArithmetic
<1>5. Size(q) = Size(p) + v /\ Gain(p, f) = (CostOf(q) - CostOf(p)) - v * f.px
  BY <1>4 DEF Size, CostOf
<1>6. /\ lots'[x] = q /\ \A s \in Symbols : s # x => lots'[s] = lots[s]
      /\ lots' = [s \in Symbols |-> lots'[s]]
  BY <1>1, <1>2 DEF BookInv
<1>7. Booked' = Booked \cup {i} /\ IsInjective(applied') /\ applied' \in Seq(Nat)
  <2>1. /\ applied \in Seq(Nat) /\ i \in Nat /\ Len(applied) \in Nat
        /\ \A j \in 1..Len(applied) : applied[j] \in Booked
    BY <1>1, BookedIds, LogFills DEF BookInv
  <2>2. /\ Len(applied') = Len(applied) + 1 /\ applied'[Len(applied) + 1] = i
        /\ \A j \in 1..Len(applied) : applied'[j] = applied[j]
        /\ DOMAIN applied' = 1..Len(applied) + 1 /\ DOMAIN applied = 1..Len(applied)
        /\ applied' \in Seq(Nat)
    BY <1>2, <2>1
  <2>3. Booked' = Booked \cup {i}
    <3>1. Booked' = {applied'[j] : j \in 1..Len(applied) + 1} /\ Booked = {applied[j] : j \in 1..Len(applied)}
      BY <2>2 DEF Booked, ToSet
    <3>2. 1..Len(applied) + 1 = (1..Len(applied)) \cup {Len(applied) + 1}
      BY <2>1
    <3> QED  BY <2>2, <3>1, <3>2
  <2>4. \A a, b \in DOMAIN applied : applied[a] = applied[b] => a = b
    BY DEF BookInv, IsInjective
  <2>5. \A a, b \in DOMAIN applied' : applied'[a] = applied'[b] => a = b
    BY <1>1, <2>1, <2>2, <2>4
  <2> QED  BY <2>2, <2>3, <2>5 DEF IsInjective
<1> HIDE DEF q, p, v
<1>8. BookInv'
  <2>1. \A s \in Symbols : IsPosition(lots'[s])
    BY <1>4, <1>6 DEF BookInv
  <2>2. store'.booked \in Int
    BY <1>3, <1>4 DEF BookInv
  <2> QED  BY <1>1, <1>2, <1>3, <1>6, <1>7, <2>1, <2>2 DEF BookInv, Ids, Running
<1>9. BalanceInv'
  <2>1. Cost(lots) \in Int /\ Cost(lots') = Cost(lots) + (CostOf(q) - CostOf(lots[x]))
    BY <1>1, <1>2, <1>4, CostChange DEF BookInv
  <2>2. CashIn(fills, Booked) \in Int /\ CashIn(fills, Booked \cup {i}) = CashIn(fills, Booked) - v * f.px
    <3>1. Booked \in SUBSET DOMAIN fills /\ DOMAIN fills \subseteq DOMAIN fills /\ IsFiniteSet(Booked)
          /\ (\A j \in DOMAIN fills : IsFill(fills[j]) /\ fills[j] = fills[j]) /\ i \in DOMAIN fills \ Booked
      BY <1>1, LogFills, BookedIds
    <3> QED  BY <3>1, CashChange DEF v
  <2>3. Cost(seeded.lots) \in Int
    <3>1. \A s \in Symbols : CostAt(seeded.lots)[s] \in Int
      BY CostOfType DEF BookInv, CostAt
    <3> QED  BY <3>1, SymbolAssumption, SumType, CostIs
  <2>4. CostOf(q) \in Int /\ CostOf(p) \in Int /\ v * f.px \in Int /\ store.booked \in Int
    <3>1. v \in Int /\ f.px \in Int
      BY <1>1 DEF v, IsFill, Dir
    <3> QED  BY <1>1, <1>4, <3>1, CostOfType DEF BookInv
  <2>5. p = lots[x]
    BY DEF p
  <2>6. store.booked = CashIn(fills, Booked) + Cost(lots) - Cost(seeded.lots)
    BY <1>1 DEF BalanceInv
  <2> HIDE DEF f, x
  <2>7. store.booked + Gain(p, f) = CashIn(fills, Booked \cup {i}) + Cost(lots') - Cost(seeded.lots)
    BY <1>5, <2>1, <2>2, <2>3, <2>4, <2>5, <2>6
  <2> QED  BY <1>2, <1>3, <1>7, <2>7 DEF BalanceInv
<1>10. FifoInv'
  <2> SUFFICES ASSUME NEW s \in Symbols
               PROVE  Ends(lots'[s].units,
                           EnteredIn(fills, Append(applied, i), seeded.lots[s], s, lots'[s].dir))
    BY <1>2, <1>3 DEF FifoInv
  <2> DEFINE e == [d \in {-1, 0, 1} |-> EnteredIn(fills, applied, seeded.lots[s], s, d)]
  <2>1. /\ applied \in Seq(Ids) /\ Len(applied) \in Nat /\ IsPosition(seeded.lots[s])
        /\ \A j \in 1..Len(applied) : IsFill(fills[applied[j]])
    <3>1. applied \in Seq(Ids) /\ Len(applied) \in Nat
      BY BookedIds
    <3> QED  BY <3>1, LogFills DEF BookInv
  <2>2. ASSUME NEW d \in {-1, 0, 1} PROVE EnteredIn(fills, applied, seeded.lots[s], s, d) \in Seq(Nat)
    BY <2>1, EnteredType
  <2>3. e \in [{-1, 0, 1} -> Seq(Nat)]
    BY <2>2
  <2>4. ASSUME NEW d \in {-1, 0, 1}
        PROVE  EnteredIn(fills, Append(applied, i), seeded.lots[s], s, d) = AfterFill(e[d], f, s, d)
    <3>1. applied \in Seq(Ids) /\ i \in Ids
      BY <1>1, <2>1
    <3>2. EnteredIn(fills, Append(applied, i), seeded.lots[s], s, d)
              = AfterFill(EnteredIn(fills, applied, seeded.lots[s], s, d), fills[i], s, d)
      BY ONLY <3>1, EnteredStep
    <3> QED  BY <3>2
  <2>5. lots[s].dir \in {-1, 0, 1} /\ lots'[s].dir \in {-1, 0, 1}
    BY <1>8, <1>4, <1>6 DEF BookInv, IsPosition
  <2>6. Ends(lots[s].units, e[lots[s].dir])
    BY <1>1, <2>5 DEF FifoInv
  <2> HIDE DEF e
  <2>7. CASE s = x
    <3>1. Ends(q.units, AfterFill(e[q.dir], f, x, q.dir))
      BY <1>1, <2>3, <2>6, <2>7, FifoFill DEF q, p
    <3> QED  BY <1>6, <2>4, <2>5, <2>7, <3>1
  <2>8. CASE s # x
    <3>1. lots'[s] = lots[s]
      BY <1>6, <2>8
    <3>2. AfterFill(e[lots[s].dir], f, s, lots[s].dir) = e[lots[s].dir]
      BY <2>8 DEF AfterFill
    <3> QED  BY <2>4, <2>5, <2>6, <3>1, <3>2
  <2> QED  BY <2>7, <2>8
<1>11. PositionInv'
  <2> SUFFICES ASSUME NEW s \in Symbols
               PROVE  Size(lots'[s])
                        = NetIn(fills, s, store.seen \cup {i})
                            + (NetIn(fills, s, 1..seeded.held) - NetIn(fills, s, seeded.fills))
    BY <1>2, <1>3 DEF PositionInv
  <2> DEFINE S == store.seen
             seed == NetIn(fills, s, 1..seeded.held) - NetIn(fills, s, seeded.fills)
  <2>1. S \in SUBSET DOMAIN fills /\ IsFiniteSet(S) /\ i \in DOMAIN fills \ S
    BY <1>1, BookedIds, LogFills
  <2>2. Size(lots[s]) = NetIn(fills, s, S) + seed
    BY <1>1 DEF PositionInv
  <2>0. \A j \in DOMAIN fills : IsFill(fills[j]) /\ fills[j] = fills[j]
    BY LogFills
  <2>i. seed \in Int
    <3>1. \A T \in SUBSET Ids : NetIn(fills, s, T) \in Int
      <4>1. \A T \in SUBSET Ids : T \in SUBSET DOMAIN fills /\ IsFiniteSet(T)
        BY IdsFinite, FS_Subset DEF Ids
      <4> QED BY <2>0, <4>1, NetChange
    <3>2. 1..seeded.held \in SUBSET Ids /\ seeded.fills \in SUBSET Ids
      BY BookedIds
    <3>3. NetIn(fills, s, 1..seeded.held) \in Int
      BY ONLY <3>1, <3>2
    <3>4. NetIn(fills, s, seeded.fills) \in Int
      BY ONLY <3>1, <3>2
    <3> QED BY ONLY <3>3, <3>4
  <2> HIDE DEF S, seed
  <2>3. /\ NetIn(fills, s, S) \in Int
        /\ NetIn(fills, s, S \cup {i})
             = IF fills[i].sym = s THEN NetIn(fills, s, S) + Dir(fills[i]) * fills[i].qty
               ELSE NetIn(fills, s, S)
    BY <2>0, <2>1, NetChange
  <2>v. v = Dir(fills[i]) * fills[i].qty /\ v \in Int
    BY <1>1 DEF v, IsFill, Dir
  <2>4. CASE s = x
    <3>1. Size(lots'[s]) = Size(lots[s]) + v
      BY <1>5, <1>6, <2>4 DEF p
    <3> QED BY <2>2, <2>3, <2>4, <2>i, <2>v, <3>1 DEF S, seed
  <2>5. CASE s # x
    BY <1>6, <2>2, <2>3, <2>5 DEF S, seed
  <2> QED  BY <2>4, <2>5
<1>12. SeedInv'
  BY <1>2 DEF SeedInv
<1> QED  BY <1>8, <1>9, <1>10, <1>11, <1>12

(* A sequence ends as itself. *)
LEMMA EndsSelf == ASSUME NEW u \in Seq(Nat) PROVE Ends(u, u)
<1>1. Len(u) \in Nat /\ \A i \in 1..Len(u) : (Len(u) - Len(u)) + i = i
  OBVIOUS
<1> QED  BY <1>1 DEF Ends

(* Before a fill is booked only the seed was entered. *)
LEMMA EnteredNone ==
    ASSUME NEW log, NEW seed, NEW s, NEW d
    PROVE  EnteredIn(log, <<>>, seed, s, d) = FirstEntered(seed, d)
<1>1. PICK ids : ids = <<>> /\ Len(ids) = 0
  OBVIOUS
<1>2. PICK g : EnteredTo(g, FillsOf(log, ids), seed, s, d, 0) /\ EnteredIn(log, ids, seed, s, d) = g[0]
  BY <1>1, EnteredIs
<1> QED  BY <1>1, <1>2 DEF EnteredTo

(* The seed is saved: nothing is booked yet, and the lots are what they cost. *)
LEMMA SaveStep == ASSUME IInv, IInv', BooksInv, SaveSeedState PROVE BooksInv'
<1> USE DEF IInv, BooksInv
<1>1. UNCHANGED <<fills, lots, applied>> /\ held' = 0 /\ pc = "save" /\ pc' \in {"idle", "stopped"}
  BY DEF SaveSeedState, venue
<1>2. ReadAtInv' /\ SeedInv'
  BY <1>1 DEF ReadAtInv, SeedInv
<1>3. CASE pc' = "stopped"
  <2>1. UNCHANGED durable
    BY <1>1, <1>3 DEF SaveSeedState, durable
  <2> QED  BY <1>1, <1>2, <1>3, <2>1, QuietBooks DEF Running
<1>4. CASE pc' = "idle"
  <2>1. seeded' = [fills |-> got, held |-> held, lots |-> lots]
    BY <1>4 DEF SaveSeedState
  <2>2. /\ store'.basis = lots /\ store'.seen = store.seen \cup got /\ store'.booked = store.booked
        /\ store'.booted
    <3>1. PICK c : store' = [store EXCEPT !.booted = TRUE, !.cursor = c, !.basis = lots,
                                          !.seen = @ \cup got]
      BY <1>4 DEF SaveSeedState
    <3> QED  BY <3>1 DEF ShapeInv
  <2>3. applied = <<>> /\ store.seen = {} /\ store.booked = 0 /\ Booked' = {}
    <3>1. applied = <<>> /\ store.seen = {} /\ store.booked = 0
      BY <1>1 DEF BookInv
    <3> QED  BY <1>1, <3>1 DEF Booked, ToSet
  <2>4. BookInv'
    <3>1. got \subseteq Ids
      BY DEF ShapeInv
    <3> QED  BY <1>1, <1>4, <2>1, <2>2, <2>3, <3>1 DEF BookInv, Ids, Running
  <2>5. BalanceInv'
    <3>1. CashIn(fills, {}) = 0
      <4>1. {} \in SUBSET DOMAIN fills /\ IsFiniteSet({})
        BY FS_EmptySet
      <4> QED  BY <4>1, CashIs, SumEmpty
    <3>2. Cost(lots) \in Int
      <4>1. \A s \in Symbols : CostAt(lots)[s] \in Int
        BY CostOfType DEF BookInv, CostAt
      <4> QED  BY <4>1, SymbolAssumption, SumType, CostIs
    <3> QED  BY <1>1, <2>1, <2>2, <2>3, <3>1, <3>2 DEF BalanceInv
  <2>6. FifoInv'
    <3> SUFFICES ASSUME NEW s \in Symbols
                 PROVE  Ends(lots[s].units, EnteredIn(fills, <<>>, lots[s], s, lots[s].dir))
      BY <1>1, <2>1, <2>2, <2>3 DEF FifoInv
    <3>1. EnteredIn(fills, <<>>, lots[s], s, lots[s].dir) = lots[s].units
      BY EnteredNone DEF FirstEntered
    <3>2. lots[s].units \in Seq(Nat)
      BY DEF BookInv, IsPosition
    <3> QED  BY <3>1, <3>2, EndsSelf
  <2>7. PositionInv'
    <3>1. \A s \in Symbols : Size(lots[s]) = NetIn(fills, s, 1..held)
      BY <1>1 DEF SeedInv
    <3>2. \A s \in Symbols : NetIn(fills, s, 1..held) \in Int /\ NetIn(fills, s, got) \in Int
      <4>1. /\ 1..held \in SUBSET DOMAIN fills /\ got \in SUBSET DOMAIN fills
            /\ IsFiniteSet(1..held) /\ IsFiniteSet(got)
        <5>1. 1..held \in SUBSET Ids /\ got \in SUBSET Ids
          BY LogFills DEF BookInv, ShapeInv
        <5> QED BY <5>1, IdsFinite, FS_Subset DEF Ids
      <4>2. \A j \in DOMAIN fills : IsFill(fills[j]) /\ fills[j] = fills[j]
        BY LogFills
      <4> QED BY <4>1, <4>2, NetChange
    <3>3. store'.seen = got
      BY <2>2, <2>3
    <3>4. seeded'.held = held /\ seeded'.fills = got
      BY <2>1
    <3>5. \A s \in Symbols :
              Size(lots[s]) = NetIn(fills, s, got) + (NetIn(fills, s, 1..held) - NetIn(fills, s, got))
      BY <3>1, <3>2
    <3> QED  BY <1>1, <2>2, <3>3, <3>4, <3>5 DEF PositionInv
  <2> QED  BY <1>2, <2>4, <2>5, <2>6, <2>7
<1> QED  BY <1>1, <1>3, <1>4

(* The positions are read: the lots are as large as the fills make them. *)
LEMMA PositionsStep == ASSUME IInv, IInv', BooksInv, ReadPositions PROVE BooksInv'
<1> USE DEF IInv, BooksInv
<1>1. UNCHANGED <<fills, durable>> /\ pc = "positions" /\ pc' \in {"seed", "stopped"}
  BY DEF ReadPositions, venue
<1>2. ReadAtInv'
  BY <1>1 DEF ReadAtInv
<1>3. CASE pc' = "stopped"
  BY <1>1, <1>2, <1>3, QuietBooks DEF ReadPositions, Running
<1>4. CASE pc' = "seed"
  <2>1. lots' = [s \in Symbols |-> SeedPosition(s)] /\ held' = Len(fills)
    BY <1>4 DEF ReadPositions
  <2>2. SameBooks
    BY <1>1 DEF SameBooks, durable, Ids
  <2>3. BalanceInv' /\ FifoInv' /\ PositionInv'
    BY <2>2, SameBooksKept
  <2>4. \A s \in Symbols : IsPosition(lots'[s]) /\ Size(lots'[s]) = NetIn(fills, s, 1..Len(fills))
    BY <2>1, SeedIs DEF BookInv
  <2>5. BookInv'
    <3>1. Len(fills) \in Nat /\ fills' = fills /\ held' \in 0..Len(fills')
      BY <1>1, <2>1, LogFills
    <3>2. lots' = [s \in Symbols |-> lots'[s]]
      BY <2>1
    <3> QED  BY <1>1, <1>4, <2>2, <2>4, <3>1, <3>2, SameBookInv DEF BookInv, Running
  <2>6. SeedInv'
    BY <1>1, <2>1, <2>4 DEF SeedInv
  <2> QED  BY <1>2, <2>3, <2>5, <2>6
<1> QED  BY <1>1, <1>3, <1>4

(* The last page of a reading leaves nothing out, unless a page cut a time. *)
LEMMA ReadStep ==
  ASSUME IInv, IInv', BooksInv, NEW ok, NEW failed, ReadPage(ok, failed),
         \/ pc = "seed" /\ ok = "save" /\ failed = "stopped"
         \/ pc = "read" /\ ok = "apply" /\ failed = "idle"
  PROVE  BooksInv'
<1> USE DEF IInv, BooksInv
<1>1. UNCHANGED <<fills, lots, durable, held>> /\ pc' \in {pc, ok, failed}
  BY DEF ReadPage, memory, LastPage, TurnPage, ReadFails
<1>2. /\ pc' \in {"seed", "save"} => pc \in {"seed", "save"}
      /\ pc' \in {"positions", "seed", "save"} => ~store.booted
      /\ Running' => store.booted
  BY <1>1 DEF BookInv, Running
<1>3. BookInv' /\ BalanceInv' /\ FifoInv' /\ SeedInv' /\ PositionInv'
  BY <1>1, <1>2, QuietBooks
<1>4. ReadAtInv'
  <2> SUFFICES ASSUME pc' = "apply"
               PROVE  /\ readAt' \in 0..Len(fills) /\ store.seen \cup got' \subseteq 1..readAt'
                      /\ \A i \in 1..readAt' : Known(i)'
    BY <1>1 DEF ReadAtInv, durable
  <2>1. PICK body \in SUBSET Beyond(page) : LastPage(body, ok)
    BY DEF ReadPage, TurnPage, ReadFails
  <2>2. /\ pc = "read" /\ readAt' = Len(fills) /\ cuts' = cuts /\ got' = got \cup body
        /\ body = Beyond(page)
    BY <2>1 DEF LastPage
  <2>3. 1..Len(fills) = Ids /\ Len(fills) \in Nat
    BY LogFills
  <2>4. store.seen \cup got' \subseteq Ids
    BY <2>2 DEF BookInv, ShapeInv, Beyond, Ids
  <2>c. \A i \in Ids : CutOff(i)' <=> CutOff(i)
    BY <1>1, <2>2 DEF CutOff
  <2>5. ASSUME NEW i \in Ids PROVE i \in store.seen \cup got' \/ CutOff(i)
    <3>1. At(i) \in Nat /\ after \in Nat /\ page \in Int
      BY LogTypes DEF ShapeInv
    <3>2. CASE At(i) < after
      BY <2>2, <2>5, <3>2 DEF MemoryMatchesStore, Running, OnlyCutFillsAreSkipped, At
    <3>3. CASE after <= At(i) /\ At(i) <= page
      BY <2>2, <2>5, <3>3 DEF ReadInv, Known
    <3>4. CASE At(i) > page
      BY <2>2, <3>4 DEF Beyond, At, Ids
    <3> QED  BY <3>1, <3>2, <3>3, <3>4
  <2>6. \A i \in Ids : Known(i)'
    BY <1>1, <2>c, <2>5 DEF Known, durable
  <2> QED  BY <2>2, <2>3, <2>4, <2>6
<1> QED  BY <1>3, <1>4

(* The venue fills an order: nothing is booked by that. *)
LEMMA BooksVenue == ASSUME IInv, IInv', BooksInv, VenueFills PROVE BooksInv'
<1> USE DEF IInv, BooksInv
<1>1. UNCHANGED <<readAt, pc, lots, got, cuts, durable, held>> /\ Len(fills) < MaxFills
  BY DEF VenueFills, memory, pager
<1>2. /\ Len(fills) \in Nat /\ Len(fills') = Len(fills) + 1 /\ DOMAIN fills' = 1..Len(fills')
      /\ \A i \in 1..Len(fills) : fills'[i] = fills[i]
  <2>1. PICK fill : fills' = Append(fills, fill)
    BY DEF VenueFills
  <2> DEFINE R == [sym : Symbols, side : {"Buy", "Sell"}, qty : Nat \ {0}, at : Nat, px : Nat]
  <2>2. fills \in Seq(R)
    BY DEF LogInv
  <2> HIDE DEF R
  <2> QED  BY <2>1, <2>2
<1>3. SameBooks
  BY <1>1, <1>2, LogFills DEF SameBooks, durable, Ids
<1>4. BalanceInv' /\ FifoInv' /\ PositionInv'
  BY <1>3, SameBooksKept
<1>5. Len(fills') <= MaxFills /\ Len(fills') \in Nat /\ Len(fills) <= Len(fills') /\ MaxFills \in Nat
  BY <1>1, <1>2, FillAssumption DEF MaxFills
<1>6. BookInv'
  <2>1. held' \in 0..Len(fills')
    BY <1>1, <1>2 DEF BookInv
  <2> QED  BY <1>1, <1>2, <1>3, <1>5, <2>1, SameBookInv DEF BookInv, Running
<1>7. SeedInv'
  <2>1. 1..held \in SUBSET Ids
    BY LogFills DEF BookInv
  <2>2. \A s \in Symbols : NetIn(fills', s, 1..held) = NetIn(fills, s, 1..held)
    BY <1>3, <2>1, NetKept
  <2> QED  BY <1>1, <2>2 DEF SeedInv
<1>8. ReadAtInv'
  <2>1. \A i \in Ids : Known(i) => Known(i)'
    <3>1. /\ cuts \subseteq cuts' /\ (\A j \in Ids : fills'[j] = fills[j])
          /\ store' = store /\ got' = got
      BY <1>1, <1>2, LogFills DEF durable
    <3> QED BY <3>1, StillCutOff DEF Known
  <2>2. pc = "apply" => 1..readAt \subseteq Ids
    BY LogFills DEF ReadAtInv
  <2> QED BY <1>1, <1>2, <1>5, <2>1, <2>2 DEF ReadAtInv, durable
<1> QED  BY <1>4, <1>6, <1>7, <1>8

(* One fill of the reconciliation, in the books. *)
LEMMA BooksApply == ASSUME IInv, IInv', BooksInv, ApplyFill PROVE BooksInv'
<1> USE DEF IInv, BooksInv
<1>1. PICK i \in got : SkipSeen(i) \/ Book(i) \/ StoreFails(i)
  BY DEF ApplyFill, Apply
<1>2. pc = "apply" /\ UNCHANGED <<fills, readAt, cuts, seeded, held>> /\ Running
  BY DEF ApplyFill, Apply, venue, Running
<1>c. \A k : CutOff(k)' <=> CutOff(k)
  BY <1>2 DEF CutOff
<1>3. CASE Book(i)
  <2>1. BookInv' /\ BalanceInv' /\ FifoInv' /\ SeedInv' /\ PositionInv'
    BY <1>2, <1>3, BookStep
  <2>2. store'.seen = store.seen \cup {i} /\ got' = got \ {i}
    BY <1>3 DEF Book, ShapeInv
  <2>3. ReadAtInv'
    BY <1>2, <1>c, <2>2 DEF ReadAtInv, Known
  <2> QED  BY <2>1, <2>3
<1>4. CASE StoreFails(i)
  <2>1. UNCHANGED <<lots, durable>> /\ pc' = "idle" /\ held' = held
    BY <1>2, <1>4 DEF StoreFails, Undone, durable
  <2>2. BookInv' /\ BalanceInv' /\ FifoInv' /\ SeedInv' /\ PositionInv'
    <3>1. Running' => store.booted
      BY <1>2 DEF BookInv
    <3> QED  BY <1>2, <2>1, <3>1, QuietBooks
  <2> QED  BY <2>1, <2>2 DEF ReadAtInv
<1>5. CASE SkipSeen(i)
  <2>1. /\ store'.basis = store.basis /\ store'.seen = store.seen /\ store'.booked = store.booked
        /\ store'.booted = store.booted
    BY <1>2, <1>5 DEF SkipSeen, ShapeInv, MemoryMatchesStore
  <2>2. UNCHANGED <<lots, applied, pc>> /\ i \in store.seen /\ got' = got \ {i}
    BY <1>5 DEF SkipSeen
  <2>3. SameBooks
    BY <1>2, <2>1, <2>2 DEF SameBooks, Ids
  <2>4. BalanceInv' /\ FifoInv' /\ PositionInv'
    BY <2>3, SameBooksKept
  <2>5. BookInv'
    <3>1. Len(fills) \in Nat /\ fills' = fills
      BY <1>2, LogFills
    <3> QED  BY <1>2, <2>2, <2>3, <3>1, SameBookInv DEF BookInv
  <2>6. SeedInv' /\ ReadAtInv'
    BY <1>2, <1>c, <2>1, <2>2 DEF SeedInv, ReadAtInv, Known
  <2> QED  BY <2>4, <2>5, <2>6
<1> QED  BY <1>1, <1>3, <1>4, <1>5

(***************************************************************************)
(* The inductive step of the books, beside the cursor's invariant.         *)
(***************************************************************************)
LEMMA BooksStep == IInv /\ BooksInv /\ IInv' /\ [Next]_vars => BooksInv'
<1> SUFFICES ASSUME IInv, BooksInv, IInv', [Next]_vars PROVE BooksInv'
  OBVIOUS
<1> USE DEF IInv, BooksInv
<1>1. CASE UNCHANGED vars
  <2>1. UNCHANGED <<fills, durable, lots, held, pc, readAt, got, cuts>>
    BY <1>1 DEF vars, venue, memory, pager
  <2>2. BookInv' /\ BalanceInv' /\ FifoInv' /\ SeedInv' /\ PositionInv'
    <3>1. (pc' \in {"positions", "seed", "save"} => ~store.booted) /\ (Running' => store.booted)
      BY <2>1 DEF BookInv, Running
    <3> QED  BY <2>1, <3>1, QuietBooks
  <2>3. ReadAtInv'
    BY <2>1 DEF ReadAtInv, Known, CutOff, durable
  <2> QED  BY <2>2, <2>3
<1>2. CASE LoadState
  <2>1. UNCHANGED <<fills, durable, held>> /\ pc' \in {"idle", "positions", "stopped"}
        /\ lots' \in {lots, store.basis}
        /\ (pc' = "idle" => store.booted) /\ (pc' = "positions" => ~store.booted)
    BY <1>2 DEF LoadState, venue, memory
  <2>2. BookInv' /\ BalanceInv' /\ FifoInv' /\ SeedInv' /\ PositionInv'
    BY <2>1, QuietBooks DEF Running
  <2>3. ReadAtInv'
    BY <2>1 DEF ReadAtInv
  <2> QED  BY <2>2, <2>3
<1>3. CASE ReadPositions
  BY <1>3, PositionsStep
<1>4. CASE ReadSeedFills
  BY <1>4, ReadStep DEF ReadSeedFills
<1>5. CASE SaveSeedState
  BY <1>5, SaveStep
<1>6. CASE StartReconcile \/ Reconciled
  <2>1. UNCHANGED <<fills, durable, lots, held>> /\ pc \in {"idle", "apply"} /\ pc' \in {"read", "idle"}
    BY <1>6 DEF StartReconcile, Reconciled, venue, memory
  <2>2. BookInv' /\ BalanceInv' /\ FifoInv' /\ SeedInv' /\ PositionInv'
    <3>1. store.booted
      BY <2>1 DEF BookInv, Running
    <3> QED  BY <2>1, <3>1, QuietBooks
  <2>3. ReadAtInv'
    BY <2>1 DEF ReadAtInv
  <2> QED  BY <2>2, <2>3
<1>7. CASE ReadFills
  BY <1>7, ReadStep DEF ReadFills
<1>8. CASE ApplyFill
  BY <1>8, BooksApply
<1>9. CASE VenueFills
  BY <1>9, BooksVenue
<1>10. CASE Crash \/ Boot
  <2>1. UNCHANGED <<fills, durable>> /\ lots' = NoLots /\ held' = 0 /\ pc' \in {"down", "load"}
    BY <1>10 DEF Crash, Boot, Forget
  <2>2. BookInv' /\ BalanceInv' /\ FifoInv' /\ SeedInv' /\ PositionInv'
    BY <2>1, QuietBooks DEF Running
  <2>3. ReadAtInv'
    BY <2>1 DEF ReadAtInv
  <2> QED  BY <2>2, <2>3
<1> QED
  BY <1>1, <1>2, <1>3, <1>4, <1>5, <1>6, <1>7, <1>8, <1>9, <1>10 DEF Next, BootStep, LoopStep

(* What the invariant says, in the words of the properties. *)
LEMMA FifoIs == ASSUME IInv, BooksInv PROVE FirstInFirstOut
<1> SUFFICES ASSUME NEW s \in Symbols
             PROVE  IsSuffix(store.basis[s].units, Entered(s, store.basis[s].dir))
  BY DEF FirstInFirstOut
<1> DEFINE d == store.basis[s].dir
           t == EnteredIn(fills, applied, seeded.lots[s], s, d)
<1>1. Entered(s, d) = t
  BY DEF Entered, EnteredIn
<1>2. /\ applied \in Seq(Ids) /\ Len(applied) \in Nat /\ IsPosition(seeded.lots[s])
      /\ \A j \in 1..Len(applied) : IsFill(fills[applied[j]])
  <2>1. applied \in Seq(Ids) /\ Len(applied) \in Nat
    BY BookedIds DEF IInv, BooksInv
  <2> QED  BY <2>1, LogFills DEF IInv, BooksInv, BookInv
<1>3. t \in Seq(Nat)
  BY <1>2, EnteredType
<1>4. store.basis[s].units \in Seq(Nat)
  BY DEF BooksInv, BookInv, IsPosition
<1>5. Ends(store.basis[s].units, t)
  BY DEF BooksInv, FifoInv
<1> HIDE DEF d, t
<1>6. IsSuffix(store.basis[s].units, t)
  BY <1>3, <1>4, <1>5, SuffixIf
<1> QED  BY <1>1, <1>6 DEF d

(* BalanceInv is the balance. *)
LEMMA BalanceIs == ASSUME IInv, BooksInv PROVE BooksBalance
<1>1. MapThenSumSet(CashOf, Booked) = CashIn(fills, Booked)
  BY DEF CashOf, Signed, CashIn
<1> QED  BY <1>1, FifoIs DEF BooksBalance, BooksInv, BookInv, BalanceInv

(* PositionInv and ReadAtInv are the agreement with the venue. *)
LEMMA VenueIs == ASSUME IInv, BooksInv PROVE LotsMatchVenue
<1> SUFFICES ASSUME pc = "apply", got = {}
             PROVE  /\ \A i \in Missed : CutOff(i)
                    /\ \A s \in Symbols : lots[s].dir * Len(lots[s].units)
                                            = Net(s, (1..readAt) \ Missed) + SeedError(s)
  BY DEF LotsMatchVenue
<1>1. store.booted /\ lots = store.basis
  BY DEF BooksInv, BookInv, IInv, MemoryMatchesStore, Running
<1>2. (1..readAt) \ Missed = store.seen
  BY DEF BooksInv, ReadAtInv, Missed
<1>3. \A s, ids : NetIn(fills, s, ids) = Net(s, ids)
  BY DEF Net, Signed, NetIn, SignedIn
<1>4. \A s \in Symbols : lots[s].dir * Len(lots[s].units)
                           = Net(s, (1..readAt) \ Missed) + SeedError(s)
  BY <1>1, <1>2, <1>3 DEF BooksInv, PositionInv, SeedError, Size
<1>5. \A i \in Missed : CutOff(i)
  BY DEF BooksInv, ReadAtInv, Missed, Known
<1> QED  BY <1>4, <1>5

(* The books' invariant holds in every state. *)
THEOREM BooksInvariance == Spec => []BooksInv
  BY LedgerInvariance, BooksInit, BooksStep, PTL DEF Spec

(***************************************************************************)
(* Nothing is booked twice, no loss disappears, first in is first out: for *)
(* any stream of fills and any crashes and failed commits.                 *)
(***************************************************************************)
THEOREM BooksAlwaysBalance == Spec => []BooksBalance
  BY LedgerInvariance, BooksInvariance, BalanceIs, PTL

(***************************************************************************)
(* A reconciliation that ran to its end leaves the lots at the position    *)
(* the venue had, but for the fills a page cut off from another of their   *)
(* time and for what the two reads of the seed disagreed by, whatever      *)
(* page size, stream of fills, failures and crashes came before.           *)
(***************************************************************************)
THEOREM LotsFollowVenue == Spec => []LotsMatchVenue
  BY LedgerInvariance, BooksInvariance, VenueIs, PTL

=============================================================================
