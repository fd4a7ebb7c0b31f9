---------------------------- MODULE MemoryVault ----------------------------
(***************************************************************************)
(* The memory facade (internal/memory/obsidian.go): a trade or a market    *)
(* observation goes to SQLite and is then mirrored into a directory of     *)
(* linked notes, its own note first, then a backlink in the note of the    *)
(* symbol, then one in the note of the setup.  Goroutines remember at the  *)
(* same time; any write may fail, and the process may die anywhere.        *)
(***************************************************************************)
EXTENDS Integers, SequencesExt

CONSTANTS
    Callers,        \* goroutines
    Symbols, Setups,
    MaxRows         \* bound: memories inserted

VARIABLES
    rows,           \* every memory ever inserted: [kind, num, symbol, setup]
    forgotten,      \* the ones deleted since, by index
    notes,          \* title of a memory -> what its note links to
    lists,          \* title of a symbol or setup -> the lines of its note
    pc, mem,        \* caller -> its step, the index of its memory
    todo,           \* caller -> titles still to be linked back
    read,           \* caller -> the lines it read
    lock,           \* Vault.mu: the caller that holds it, or Free
    recorded,       \* history: memories whose call returned nil
    torn            \* history: titles whose note was lost in a rewrite

vars == <<rows, forgotten, notes, lists, pc, mem, todo, read, lock, recorded, torn>>

Free == "free"
Blank == ""          \* no setup
Title(m) == <<m.kind, m.num>>
Names == Symbols \cup (Setups \ {Blank})

(* What a memory's note links to, in the order of the backlinks: the setup *)
(* of a trade may be blank, or named like its symbol.                      *)
Links(m) == IF m.kind = "trade" /\ m.setup # Blank THEN <<m.symbol, m.setup>> ELSE <<m.symbol>>

(* AUTOINCREMENT: a number is never given twice, even after a delete. *)
FreshNum(kind) == 1 + Cardinality({i \in DOMAIN rows : rows[i].kind = kind})

Header(kind) == <<"section", kind>>

(* appendBacklink: the note after the link, which is not written twice.    *)
(* A missing section goes to the end, and so does the link, whatever the   *)
(* last section is.                                                        *)
WithLink(lines, m) ==
    IF Title(m) \in ToSet(lines) THEN lines
    ELSE IF Header(m.kind) \in ToSet(lines) THEN Append(lines, Title(m))
    ELSE lines \o <<Header(m.kind), Title(m)>>

Init == /\ rows = <<>> /\ forgotten = {} /\ recorded = {} /\ torn = {}
        /\ notes = [t \in {} |-> 0]
        /\ lists = [n \in Names |-> <<>>]
        /\ pc = [c \in Callers |-> "idle"] /\ mem = [c \in Callers |-> 0]
        /\ todo = [c \in Callers |-> <<>>] /\ read = [c \in Callers |-> <<>>]
        /\ lock = Free

At(c, label) == pc[c] = label
Goto(c, label) == pc' = [pc EXCEPT ![c] = label]
Mine(c) == rows[mem[c]]

(* Store.RememberTrade and RememberMarket: the row is committed. *)
Insert(c, kind, symbol, setup) ==
    /\ At(c, "idle") /\ Len(rows) < MaxRows
    /\ rows' = Append(rows, [kind |-> kind, num |-> FreshNum(kind),
                             symbol |-> symbol, setup |-> setup])
    /\ mem' = [mem EXCEPT ![c] = Len(rows')]
    /\ todo' = [todo EXCEPT ![c] = Links(Last(rows'))]
    /\ Goto(c, "note")
    /\ UNCHANGED <<forgotten, notes, lists, read, lock, recorded, torn>>

(* writeNote: the memory's own note, in one critical section. *)
WriteNote(c) ==
    /\ At(c, "note") /\ lock = Free
    /\ notes' = [x \in DOMAIN notes \cup {Title(Mine(c))} |->
                    IF x = Title(Mine(c)) THEN Links(Mine(c)) ELSE notes[x]]
    /\ Goto(c, "link")
    /\ UNCHANGED <<rows, forgotten, lists, mem, todo, read, lock, recorded, torn>>

(* appendBacklink takes the lock and reads, then writes and releases it. *)
BugMayLock == TRUE                              \* mutant: no mutex around the two
MayLock == lock = Free
ReadList(c) ==
    /\ At(c, "link") /\ todo[c] # <<>> /\ MayLock
    /\ lock' = c
    /\ read' = [read EXCEPT ![c] = lists[Head(todo[c])]]
    /\ Goto(c, "write")
    /\ UNCHANGED <<rows, forgotten, notes, lists, mem, todo, recorded, torn>>

WriteList(c) ==
    /\ At(c, "write")
    /\ lists' = [lists EXCEPT ![Head(todo[c])] = WithLink(read[c], Mine(c))]
    /\ todo' = [todo EXCEPT ![c] = Tail(@)]
    /\ read' = [read EXCEPT ![c] = <<>>]
    /\ lock' = Free
    /\ Goto(c, "link")
    /\ UNCHANGED <<rows, forgotten, notes, mem, recorded, torn>>

(* The call returns: nil when every link is there. *)
Remembered(c) ==
    /\ At(c, "link") /\ todo[c] = <<>>
    /\ recorded' = recorded \cup {mem[c]}
    /\ Goto(c, "idle")
    /\ UNCHANGED <<rows, forgotten, notes, lists, mem, todo, read, lock, torn>>

(* os.WriteFile truncates first: a rewrite that is cut short loses the note. *)
Cut(titles) == /\ lists' = [n \in Names |-> IF n \in titles THEN <<>> ELSE lists[n]]
               /\ torn' = torn \cup titles

(* A read or a write of the vault fails: the row stays, the mirror is partial. *)
Fails(c) ==
    /\ At(c, "note") \/ (At(c, "link") /\ todo[c] # <<>>) \/ At(c, "write")
    /\ lock' = IF lock = c THEN Free ELSE lock
    /\ todo' = [todo EXCEPT ![c] = <<>>] /\ read' = [read EXCEPT ![c] = <<>>]
    /\ \/ UNCHANGED <<lists, torn>>
       \/ At(c, "write") /\ Cut({Head(todo[c])})
    /\ Goto(c, "idle")
    /\ UNCHANGED <<rows, forgotten, notes, mem, recorded>>

(* Store.Forget and ForgetMarket delete the row; the vault is not told. *)
Forget(i) == /\ i \in DOMAIN rows \ forgotten
             /\ \A c \in Callers : At(c, "idle") \/ mem[c] # i
             /\ forgotten' = forgotten \cup {i}
             /\ UNCHANGED <<rows, notes, lists, pc, mem, todo, read, lock, recorded, torn>>

(* The process is killed, perhaps in the middle of a rewrite. *)
Killed ==
    /\ \E c \in Callers : ~At(c, "idle")
    /\ \E cut \in SUBSET {Head(todo[c]) : c \in {d \in Callers : At(d, "write")}} :
          Cut(cut)
    /\ pc' = [c \in Callers |-> "idle"] /\ lock' = Free
    /\ todo' = [c \in Callers |-> <<>>] /\ read' = [c \in Callers |-> <<>>]
    /\ UNCHANGED <<rows, forgotten, notes, mem, recorded>>

Next == \/ \E c \in Callers :
             \/ \E s \in Symbols, t \in Setups : Insert(c, "trade", s, t)
             \/ \E s \in Symbols : Insert(c, "market", s, Blank)
             \/ WriteNote(c) \/ ReadList(c) \/ WriteList(c) \/ Remembered(c) \/ Fails(c)
        \/ \E i \in DOMAIN rows : Forget(i)
        \/ Killed

Spec == Init /\ [][Next]_vars

-----------------------------------------------------------------------------
LinkedOnce(n, t) == Cardinality({i \in DOMAIN lists[n] : lists[n][i] = t}) = 1

(***************************************************************************)
(* The mirror follows the store: a memory whose call returned has a note   *)
(* that links to its own symbol and setup, and each of them links back to  *)
(* it, once, whatever other goroutines remember at the same time and       *)
(* whatever is forgotten.  Only a rewrite cut short, by a kill or an error *)
(* of the disk, loses links, and only those of the note it was rewriting.  *)
(***************************************************************************)
VaultFollowsStore ==
    \A i \in recorded :
        LET m == rows[i] IN
        /\ Title(m) \in DOMAIN notes /\ notes[Title(m)] = Links(m)
        /\ \A n \in ToSet(Links(m)) : n \in torn \/ LinkedOnce(n, Title(m))
=============================================================================
