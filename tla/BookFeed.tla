------------------------------ MODULE BookFeed ------------------------------
(***************************************************************************)
(* An order book kept from snapshots and a stream of absolute level        *)
(* updates (internal/data/book.go).  The venue numbers its updates; the    *)
(* stream loses, repeats and reorders them and may coalesce two updates of *)
(* one level into one delta; snapshots lag or fail.                        *)
(*                                                                         *)
(* An update id belongs to one level: the code has no batch of levels      *)
(* under one id, the second of which it would drop as stale.               *)
(***************************************************************************)
EXTENDS Integers, SequencesExt

CONSTANTS
    Levels,         \* price levels, of either side
    MaxU,           \* bound: updates of the venue
    MaxBuffer       \* GapRecoverer.maxBuffer

VARIABLES
    venue,          \* external: update id -> [level, qty]
    levels,         \* the book: level -> resting quantity, 0 for none
    lastU,
    ready,
    buffer,         \* GapRecoverer.buffer
    absorbed,       \* update ids the book took from deltas
    reconciled      \* LastUpdateID of the latest ResyncEvent that was handled

vars == <<venue, levels, lastU, ready, buffer, absorbed, reconciled>>

(* The venue's own book after n updates. *)
Truth(n) == [l \in Levels |->
    LET touched == {i \in 1..n : venue[i].level = l}
    IN  IF touched = {} THEN 0 ELSE venue[Max(touched)].qty]

(* What the stream may send: update u alone, or with its predecessor. *)
DeltasOf(u) ==
    LET since(pu) == [level |-> venue[u].level, qty |-> venue[u].qty, pu |-> pu, u |-> u]
    IN  {since(u - 1)} \cup
        {since(u - 2) : v \in {i \in {u - 1} \cap DOMAIN venue : venue[i].level = venue[u].level}}
Sent == UNION {DeltasOf(u) : u \in DOMAIN venue}

(* A book is a record [levels, lastU, took]; "took" is the history. *)
Book == [levels |-> levels, lastU |-> lastU, took |-> absorbed]
FromSnapshot(n) == [levels |-> Truth(n), lastU |-> n, took |-> absorbed]

Stale(b, d) == d.u <= b.lastU

BugFits(b, d) == d.pu <= b.lastU + 1            \* mutant: one missed update is let through
Fits(b, d) == d.pu = b.lastU \/ (d.pu <= b.lastU /\ d.u > b.lastU)

Applied(b, d) == [levels |-> [b.levels EXCEPT ![d.level] = d.qty],
                  lastU |-> d.u, took |-> b.took \cup (d.pu + 1)..d.u]

Buffered(buf, d) == LET all == Append(buf, d)
                    IN  SubSeq(all, Max({1, Len(all) - MaxBuffer + 1}), Len(all))

Pruned(buf, through) ==
    LET kept[k \in 0..Len(buf)] ==
            IF k = 0 THEN <<>>
            ELSE IF buf[k].u > through THEN Append(kept[k - 1], buf[k]) ELSE kept[k - 1]
    IN  kept[Len(buf)]

(* Stably by U: the k-th is the one with k - 1 before it. *)
SortedByU(buf) ==
    LET before(i) == {j \in DOMAIN buf : \/ buf[j].u < buf[i].u
                                        \/ (buf[j].u = buf[i].u /\ j < i)}
    IN  [k \in DOMAIN buf |-> buf[CHOOSE i \in DOMAIN buf : Cardinality(before(i)) = k - 1]]

(* One delta of the replay: it is stale, applied, or leaves a gap. *)
ReplayStep(acc, d) ==
    IF acc.gap \/ Stale(acc.book, d) THEN acc
    ELSE IF Fits(acc.book, d)
    THEN [acc EXCEPT !.book = Applied(@, d), !.kept = Buffered(@, d)]
    ELSE [acc EXCEPT !.gap = TRUE]

(* The replay: in order of U, up to the first delta that leaves a gap. *)
Replayed(n, buf) ==
    LET sorted == SortedByU(buf)
        upto[k \in 0..Len(buf)] ==
            IF k = 0 THEN [book |-> FromSnapshot(n), kept |-> <<>>, gap |-> FALSE]
                     ELSE ReplayStep(upto[k - 1], sorted[k])
    IN  upto[Len(buf)]

(* resync with a snapshot as of update n, or with a snapshot that fails:   *)
(* then the old book stays and the buffer keeps what came.                 *)
Resync(buf) ==
    \/ \E n \in 0..Len(venue) :
          LET r == Replayed(n, buf) IN
          /\ levels' = r.book.levels /\ lastU' = r.book.lastU
          /\ absorbed' = r.book.took
          /\ buffer' = Pruned(r.kept, r.book.lastU)
          /\ ready' = TRUE
          /\ reconciled' = r.book.lastU
    \/ buffer' = buf /\ UNCHANGED <<levels, lastU, ready, absorbed, reconciled>>

Init == /\ venue = <<>> /\ buffer = <<>>
        /\ levels = [l \in Levels |-> 0]
        /\ lastU = 0 /\ reconciled = 0 /\ absorbed = {}
        /\ ready = FALSE

VenueMoves(l, qty) ==
    /\ Len(venue) < MaxU
    /\ venue' = Append(venue, [level |-> l, qty |-> qty])
    /\ UNCHANGED <<levels, lastU, ready, buffer, absorbed, reconciled>>

(* GapRecoverer.Apply *)
Apply(d) ==
    LET buf == Buffered(buffer, d) IN
    /\ \/ /\ ready /\ Stale(Book, d)
          /\ buffer' = buf
          /\ UNCHANGED <<levels, lastU, ready, absorbed, reconciled>>
       \/ /\ ready /\ ~Stale(Book, d) /\ Fits(Book, d)
          /\ levels' = Applied(Book, d).levels /\ lastU' = d.u
          /\ absorbed' = Applied(Book, d).took
          /\ buffer' = Pruned(buf, d.u)
          /\ UNCHANGED <<ready, reconciled>>
       \/ /\ ~ready \/ (~Stale(Book, d) /\ ~Fits(Book, d))
          /\ Resync(buf)
    /\ UNCHANGED venue

Reconnect == Resync(buffer) /\ UNCHANGED venue

Next == \/ \E l \in Levels, q \in {0, Len(venue) + 1} : VenueMoves(l, q)
        \/ \E d \in Sent : Apply(d)
        \/ Reconnect

Spec == Init /\ [][Next]_vars

-----------------------------------------------------------------------------
(***************************************************************************)
(* Once seeded, the book is the venue's own book as of update lastU,       *)
(* whatever was lost, repeated, reordered, coalesced or buffered, and      *)
(* however old the snapshot was.                                           *)
(***************************************************************************)
BookIsVenueBook == ready => levels = Truth(lastU)

(***************************************************************************)
(* No update is skipped in silence: each one the book has passed was taken *)
(* from a delta or is covered by a ResyncEvent, on which reconciliation    *)
(* pulls the fills that happened unseen.                                   *)
(***************************************************************************)
NothingSkippedSilently == \A u \in 1..lastU : u \in absorbed \/ u <= reconciled
=============================================================================
