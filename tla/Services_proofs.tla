---------------------------- MODULE Services_proofs ----------------------------
(***************************************************************************)
(* What each part beside the trade loop promises, for every value of the   *)
(* constants.  An execution of Services is one part at work, so a theorem  *)
(* rests on the inductive invariant of its part alone: SetupInv, VaultInv, *)
(* UpdateInv, WizardInv, KernelInv, ChatInv, FeedInv and SupervisionInv.   *)
(* What is here is, for each part in turn, the invariant, a lemma for each *)
(* action, and the theorem.                                                *)
(***************************************************************************)
EXTENDS Services, Inductions

-----------------------------------------------------------------------------
Labels == {"idle", "load", "wizard", "save", "choose", "secretsSaved", "writing", "open",
           "unlock"}

SetupTypes == /\ pc \in Labels
           /\ config \in 0..MaxSetups + 1 /\ setup \in 0..MaxSetups
           /\ savedTo \in [1..MaxSetups -> {"none", "keyring", "file"}]

(* The backend that took a setup's secrets still holds them. *)
Holds(s) == /\ savedTo[s] \in {"keyring", "file"}
            /\ s = IF savedTo[s] = "keyring" THEN keyring ELSE file

(* A wizard runs only without a config, which is written after the secrets. *)
OrderInv ==
    /\ pc \in {"wizard", "save", "choose", "secretsSaved"} => config = Absent
    /\ pc = "writing" => config = Partial
    /\ pc \in {"save", "choose", "secretsSaved", "writing"} => setup \in 1..MaxSetups
    /\ pc \in {"secretsSaved", "writing"} => Holds(setup)

(* An open setup is the one on disk. *)
OpenInv == pc = "open" => loaded.config = config /\ config \in 1..MaxSetups

SetupInv == SetupTypes /\ OrderInv /\ OpenInv /\ SetupsAreNotMixed

-----------------------------------------------------------------------------
LEMMA SetupInit == Init => SetupInv
<1> SUFFICES ASSUME Init PROVE SetupInv
  OBVIOUS
<1>1. config = 0 /\ pc = "idle" /\ setup = 0 /\ savedTo = [s \in 1..MaxSetups |-> "none"]
  BY DEF Init, Absent
<1>2. SetupTypes
  BY <1>1, SetupAssumption DEF SetupTypes, Labels
<1> QED  BY <1>1, <1>2 DEF SetupInv, OrderInv, OpenInv, SetupsAreNotMixed

(* A step that leaves the disk alone and neither enters the writing of a   *)
(* setup nor opens one.                                                    *)
LEMMA QuietStep ==
    ASSUME SetupInv, UNCHANGED <<disk, config, setup>>,
           pc' \in Labels \ {"wizard", "save", "choose", "secretsSaved", "writing", "open"}
    PROVE  SetupInv'
BY DEF SetupInv, SetupTypes, OrderInv, OpenInv, SetupsAreNotMixed, disk, Labels

LEMMA LaunchKeepsInv ==
    ASSUME SetupInv, NEW e, NEW human, Launch(e, human)
    PROVE  SetupInv'
<1>1. CASE pc' = "load"
  BY <1>1, QuietStep DEF Launch, Labels
<1>2. CASE pc' = "wizard"
  BY <1>2 DEF Launch, configExists, SetupInv, SetupTypes, Labels, OrderInv, OpenInv,
              SetupsAreNotMixed, disk, Holds, Absent
<1> QED  BY <1>1, <1>2 DEF Launch

(* The wizard's number is new, and its config is not there yet. *)
LEMMA WizardKeepsInv ==
    ASSUME SetupInv, WizardEnds
    PROVE  SetupInv'
<1>1. CASE pc' = "idle" /\ UNCHANGED setup
  BY <1>1, QuietStep DEF WizardEnds, Labels
<1>2. CASE setup < MaxSetups /\ setup' = setup + 1 /\ pc' = "save"
  <2>1. config' = config /\ config = Absent /\ savedTo' = savedTo /\ setup' \in 1..MaxSetups
    BY <1>2, SetupAssumption DEF WizardEnds, SetupInv, SetupTypes, OrderInv, disk
  <2> QED  BY <2>1, <1>2, SetupAssumption
           DEF SetupInv, SetupTypes, Labels, OrderInv, OpenInv, SetupsAreNotMixed, Absent
<1> QED  BY <1>1, <1>2 DEF WizardEnds

LEMMA SaveKeepsInv ==
    ASSUME SetupInv, SaveSecrets
    PROVE  SetupInv'
<1>1. /\ pc = "save" /\ config' = config /\ config = Absent /\ setup' = setup
      /\ setup \in 1..MaxSetups
  BY DEF SaveSecrets, SetupInv, OrderInv
<1>2. CASE pc' = "choose" /\ UNCHANGED disk
  BY <1>1, <1>2 DEF SetupInv, SetupTypes, Labels, OrderInv, OpenInv, SetupsAreNotMixed, disk, Absent
<1>3. CASE /\ keyring' = setup /\ savedTo' = [savedTo EXCEPT ![setup] = "keyring"]
           /\ pc' = "secretsSaved" /\ UNCHANGED <<file, filePass>>
  <2>1. savedTo'[setup] = "keyring" /\ savedTo' \in [1..MaxSetups -> {"none", "keyring", "file"}]
    BY <1>1, <1>3 DEF SetupInv, SetupTypes
  <2>2. Holds(setup)'
    BY <2>1, <1>1, <1>3 DEF Holds
  <2> QED  BY <1>1, <1>3, <2>1, <2>2
           DEF SetupInv, SetupTypes, Labels, OrderInv, OpenInv, SetupsAreNotMixed, Absent
<1>4. CASE /\ file' = setup /\ filePass' = pass
           /\ savedTo' = [savedTo EXCEPT ![setup] = "file"]
           /\ pc' = "secretsSaved" /\ UNCHANGED keyring
  <2>1. savedTo'[setup] = "file" /\ savedTo' \in [1..MaxSetups -> {"none", "keyring", "file"}]
    BY <1>1, <1>4 DEF SetupInv, SetupTypes
  <2>2. Holds(setup)'
    BY <2>1, <1>1, <1>4 DEF Holds
  <2> QED  BY <1>1, <1>4, <2>1, <2>2
           DEF SetupInv, SetupTypes, Labels, OrderInv, OpenInv, SetupsAreNotMixed, Absent
<1>5. CASE pc' = "idle" /\ UNCHANGED disk
  BY <1>1, <1>5, QuietStep DEF Labels
<1> QED  BY <1>2, <1>3, <1>4, <1>5 DEF SaveSecrets

LEMMA ChooseKeepsInv ==
    ASSUME SetupInv, NEW e, NEW f, ChoosePassphrase(e, f)
    PROVE  SetupInv'
<1>1. /\ config' = config /\ config = Absent /\ UNCHANGED <<disk, setup, loaded>>
      /\ setup \in 1..MaxSetups /\ pc' \in {"save", "idle", "choose"}
  BY DEF ChoosePassphrase, SetupInv, OrderInv
<1> QED
  BY <1>1 DEF SetupInv, SetupTypes, Labels, OrderInv, OpenInv, SetupsAreNotMixed, disk, Absent

LEMMA ConfigKeepsInv ==
    ASSUME SetupInv, CreateConfig \/ WriteConfig
    PROVE  SetupInv'
<1>1. CASE CreateConfig
  <2>1. CASE config' = Partial /\ pc' = "writing"
    <3>1. UNCHANGED <<disk, setup>> /\ Holds(setup) /\ setup \in 1..MaxSetups
      BY <1>1 DEF CreateConfig, SecretsStored, SetupInv, OrderInv
    <3>2. Partial \notin 1..MaxSetups /\ Partial \in 0..MaxSetups + 1
      BY SetupAssumption DEF Partial
    <3> QED  BY <2>1, <3>1, <3>2
             DEF SetupInv, SetupTypes, Labels, OrderInv, OpenInv, SetupsAreNotMixed, Holds, disk
  <2>2. CASE pc' = "idle" /\ UNCHANGED config
    BY <1>1, <2>2, QuietStep DEF CreateConfig, Labels
  <2> QED  BY <1>1, <2>1, <2>2 DEF CreateConfig
<1>2. CASE WriteConfig
  <2>1. /\ UNCHANGED <<disk, setup>> /\ Holds(setup) /\ setup \in 1..MaxSetups
        /\ pc' = "idle" /\ config' \in {setup, Partial}
    BY <1>2 DEF WriteConfig, SetupInv, OrderInv
  <2>2. Partial \notin 1..MaxSetups /\ Partial \in 0..MaxSetups + 1 /\ setup \in 0..MaxSetups + 1
    BY <2>1, SetupAssumption DEF Partial
  <2> QED  BY <2>1, <2>2
           DEF SetupInv, SetupTypes, Labels, OrderInv, OpenInv, SetupsAreNotMixed, Holds, disk
<1> QED  BY <1>1, <1>2

(* The secrets are those of the backend asked, which holds the config's    *)
(* own if it is the one that took them.                                    *)
LEMMA LoadKeepsInv ==
    ASSUME SetupInv, Load
    PROVE  SetupInv'
<1>1. UNCHANGED <<disk, config, setup, pass>>
  BY DEF Load
<1>2. CASE pc' \in {"idle", "unlock"}
  BY <1>1, <1>2, QuietStep DEF Labels
<1>3. CASE Readable /\ Loads(keyring, "keyring")
  BY <1>1, <1>3 DEF Loads, Readable, SetupInv, SetupTypes, Labels, OrderInv, OpenInv,
                    SetupsAreNotMixed, disk
<1>4. CASE Readable /\ Unlocks /\ Loads(file, "file")
  BY <1>1, <1>4 DEF Loads, Readable, Unlocks, SetupInv, SetupTypes, Labels, OrderInv, OpenInv,
                    SetupsAreNotMixed, disk
<1> QED  BY <1>2, <1>3, <1>4 DEF Load

LEMMA SetupNext == SetupInv /\ [Next]_vars => SetupInv'
<1> SUFFICES ASSUME SetupInv, [Next]_vars PROVE SetupInv'
  OBVIOUS
<1>1. ASSUME NEW e \in Entries, NEW human \in BOOLEAN, Launch(e, human) PROVE SetupInv'
  BY <1>1, LaunchKeepsInv
<1>2. CASE WizardEnds
  BY <1>2, WizardKeepsInv
<1>3. CASE SaveSecrets
  BY <1>3, SaveKeepsInv
<1>4. ASSUME NEW e \in Entries, NEW f \in Entries, ChoosePassphrase(e, f) PROVE SetupInv'
  BY <1>4, ChooseKeepsInv
<1>5. CASE CreateConfig \/ WriteConfig
  BY <1>5, ConfigKeepsInv
<1>6. CASE Load
  BY <1>6, LoadKeepsInv
<1>7. ASSUME NEW e \in Entries, UnlockPassphrase(e) PROVE SetupInv'
  <2>1. pc' \in {"load", "idle", "unlock"} /\ UNCHANGED <<disk, config, setup>>
    BY <1>7 DEF UnlockPassphrase
  <2> QED  BY <2>1, QuietStep DEF Labels
<1>8. CASE Ends
  BY <1>8, QuietStep DEF Ends, Labels
<1>9. CASE KeyringChanges \/ UNCHANGED vars
  <2>1. UNCHANGED <<disk, config, pc, setup, pass, loaded>>
    BY <1>9 DEF KeyringChanges, vars, disk
  <2> QED  BY <2>1 DEF SetupInv, SetupTypes, OrderInv, OpenInv, SetupsAreNotMixed, Holds, disk
<1>10. CASE OwnerStartsOver
  BY <1>10, SetupAssumption
  DEF OwnerStartsOver, SetupInv, SetupTypes, OrderInv, OpenInv, SetupsAreNotMixed, disk, Absent
<1> QED
  BY <1>1, <1>2, <1>3, <1>4, <1>5, <1>6, <1>7, <1>8, <1>9, <1>10 DEF Next

(***************************************************************************)
(* A config on disk has its secrets in the backend that took them, and a   *)
(* launch never pairs two setups unless the keychain came or went: through *)
(* any failed write, kill, retry and new start, for any number of setups.  *)
(***************************************************************************)
THEOREM NoMixedSetup == ServicesSpec => []SetupsAreNotMixed
<1> DEFINE Inv == IF part = "setup" THEN SetupInv ELSE pc = "idle" /\ config = Absent
<1>1. ServicesInit => Inv
  BY SetupInit DEF ServicesInit, NoSetups
<1>2. Inv /\ [ServicesNext]_servicesVars => Inv'
  <2> SUFFICES ASSUME Inv, [ServicesNext]_servicesVars PROVE Inv'
    OBVIOUS
  <2>1. CASE part = "setup"
    <3>1. part' = "setup" /\ [Next]_vars
      BY <2>1 DEF ServicesNext, servicesVars, vars
    <3> QED  BY <2>1, <3>1, SetupNext
  <2>2. CASE part # "setup"
    <3>1. part' = part /\ UNCHANGED vars
      BY <2>2 DEF ServicesNext, servicesVars
    <3> QED  BY <2>2, <3>1 DEF vars
  <2> QED  BY <2>1, <2>2
<1>3. Inv => SetupsAreNotMixed
  BY SetupAssumption DEF SetupInv, SetupsAreNotMixed, Absent
<1> QED  BY <1>1, <1>2, <1>3, PTL DEF ServicesSpec

-----------------------------------------------------------------------------
Kinds == {"trade", "market"}
Row == [kind : Kinds, num : Nat, symbol : Symbols, setup : Setups \cup {Vault!Blank}]
Titles == Kinds \X Nat
Headers == {Vault!Header(k) : k \in Kinds}

OfKind(rs, kind) == {i \in DOMAIN rs : rs[i].kind = kind}

(* A memory's number is its position among its kind. *)
Numbered(rs) == /\ rs \in Seq(Row)
                /\ \A i \in DOMAIN rs : rs[i].num <= Cardinality(OfKind(rs, rs[i].kind))
                /\ \A i, j \in DOMAIN rs : Vault!Title(rs[i]) = Vault!Title(rs[j]) => i = j

RowsInv == Numbered(rows)

ListsInv == /\ lists \in [Vault!Names -> Seq(Titles \cup Headers)]
            /\ \A n \in Vault!Names : \A i, j \in DOMAIN lists[n] :
                   lists[n][i] \in Titles /\ lists[n][i] = lists[n][j] => i = j

(* A goroutine that is writing holds the lock and what it read still holds. *)
CallersInv ==
    /\ vpc \in [Callers -> {"idle", "note", "link", "write"}]
    /\ mem \in [Callers -> Nat] /\ todo \in [Callers -> Seq(Vault!Names)]
    /\ DOMAIN read = Callers
    /\ \A c \in Callers :
           /\ vpc[c] # "idle" => mem[c] \in DOMAIN rows
           /\ vpc[c] = "write" => /\ lock = c /\ todo[c] # <<>>
                                 /\ read[c] = lists[Head(todo[c])]

Linked(n, t) == \E k \in DOMAIN lists[n] : lists[n][k] = t
Noted(m) == Vault!Title(m) \in DOMAIN notes /\ notes[Vault!Title(m)] = Vault!Links(m)

(* The links of a memory on its way are written, lost, or still to do. *)
ProgressInv ==
    \A c \in Callers :
        /\ vpc[c] = "note" => \A n \in ToSet(Vault!Links(Vault!Mine(c))) : n \in ToSet(todo[c])
        /\ vpc[c] \in {"link", "write"} =>
               /\ Noted(Vault!Mine(c))
               /\ \A n \in ToSet(Vault!Links(Vault!Mine(c))) :
                      n \in torn \/ Linked(n, Vault!Title(Vault!Mine(c))) \/ n \in ToSet(todo[c])

RecordedInv ==
    /\ recorded \subseteq DOMAIN rows
    /\ \A i \in recorded :
           /\ Noted(rows[i])
           /\ \A n \in ToSet(Vault!Links(rows[i])) : n \in torn \/ Linked(n, Vault!Title(rows[i]))

VaultInv == RowsInv /\ ListsInv /\ CallersInv /\ ProgressInv /\ RecordedInv

-----------------------------------------------------------------------------
(* The vault's helpers are those of the libraries. *)
LEMMA VaultHelpers ==
    /\ \A s : Vault!ToSet(s) = ToSet(s) /\ Vault!Last(s) = Last(s)
    /\ \A S : Vault!Cardinality(S) = Cardinality(S)
<1>1. \A s : Vault!ToSet(s) = ToSet(s) /\ Vault!Last(s) = Last(s)
  BY DEF Vault!ToSet, ToSet, Vault!Last, Last
<1>2. \A S : Vault!Cardinality(S) = Cardinality(S)
  BY DEF Vault!Cardinality, Cardinality
<1> QED  BY <1>1, <1>2

LEMMA ShortSeqs ==
    ASSUME NEW S, NEW a \in S
    PROVE  <<a>> \in Seq(S) /\ \A b \in S : <<a, b>> \in Seq(S)
OBVIOUS

LEMMA LinksAreNames ==
    ASSUME NEW m \in Row
    PROVE  /\ Vault!Links(m) \in Seq(Vault!Names)
           /\ ToSet(Vault!Links(m)) \subseteq Vault!Names
           /\ Vault!Title(m) \in Titles
<1>1. m.symbol \in Vault!Names /\ (m.setup # Vault!Blank => m.setup \in Vault!Names)
  BY DEF Row, Vault!Names
<1>2. Vault!Links(m) \in Seq(Vault!Names)
  <2>1. <<m.symbol>> \in Seq(Vault!Names)
    BY <1>1, ShortSeqs
  <2>2. m.setup # Vault!Blank => <<m.symbol, m.setup>> \in Seq(Vault!Names)
    BY <1>1, ShortSeqs
  <2> QED  BY <2>1, <2>2 DEF Vault!Links
<1>3. \A i \in DOMAIN Vault!Links(m) : Vault!Links(m)[i] \in Vault!Names
  BY <1>2
<1>4. Vault!Title(m) \in Titles
  BY DEF Vault!Title, Titles, Row
<1> QED  BY <1>2, <1>3, <1>4 DEF ToSet

LEMMA RowsKnown ==
    ASSUME VaultInv, NEW i \in DOMAIN rows
    PROVE  /\ rows[i] \in Row
           /\ ToSet(Vault!Links(rows[i])) \subseteq Vault!Names
           /\ Vault!Title(rows[i]) \in Titles
<1>1. rows \in Seq(Row)
  BY DEF VaultInv, RowsInv, Numbered
<1>2. rows[i] \in Row
  BY <1>1
<1> QED  BY <1>2, LinksAreNames

LEMMA TitlesAreNoHeaders == Titles \cap Headers = {}
<1> SUFFICES ASSUME NEW k \in Kinds, NEW n \in Nat, NEW h \in Kinds
             PROVE  <<k, n>> # <<"section", h>>
  BY DEF Titles, Headers, Vault!Header
<1>1. k # "section"
  BY DEF Kinds
<1> QED  BY <1>1

LEMMA HeadOrTail ==
    ASSUME NEW S, NEW s \in Seq(S), s # <<>>
    PROVE  /\ Tail(s) \in Seq(S) /\ Head(s) \in S /\ Head(s) \in ToSet(s)
           /\ \A x \in ToSet(s) : x = Head(s) \/ x \in ToSet(Tail(s))
<1>1. Len(s) \in Nat /\ Len(s) >= 1 /\ DOMAIN s = 1..Len(s) /\ Head(s) = s[1]
  BY DEF ToSet
<1>2. Tail(s) \in Seq(S) /\ Len(Tail(s)) = Len(s) - 1 /\ DOMAIN Tail(s) = 1..Len(s) - 1
      /\ \A k \in 1..Len(s) - 1 : Tail(s)[k] = s[k + 1]
  BY <1>1
<1>3. ASSUME NEW k \in 2..Len(s) PROVE s[k] \in ToSet(Tail(s))
  <2>1. k - 1 \in 1..Len(s) - 1 /\ Tail(s)[k - 1] = s[k]
    BY <1>1, <1>2
  <2> QED  BY <2>1, <1>2 DEF ToSet
<1>4. \A x \in ToSet(s) : x = Head(s) \/ x \in ToSet(Tail(s))
  <2> SUFFICES ASSUME NEW k \in 1..Len(s) PROVE s[k] = Head(s) \/ s[k] \in ToSet(Tail(s))
    BY <1>1 DEF ToSet
  <2>1. k = 1 \/ k \in 2..Len(s)
    BY <1>1
  <2> QED  BY <2>1, <1>1, <1>3
<1>5. Head(s) \in S /\ Head(s) \in ToSet(s)
  BY <1>1 DEF ToSet
<1> QED  BY <1>2, <1>4, <1>5

(* appendBacklink keeps the lines there are, adds the link, and adds no    *)
(* other title.                                                            *)
LEMMA WithLinkAdds ==
    ASSUME NEW l \in Seq(Titles \cup Headers), NEW m \in Row,
           \A i, j \in DOMAIN l : l[i] \in Titles /\ l[i] = l[j] => i = j
    PROVE  LET w == Vault!WithLink(l, m) IN
           /\ w \in Seq(Titles \cup Headers)
           /\ \E k \in DOMAIN w : w[k] = Vault!Title(m)
           /\ \A k \in DOMAIN l : k \in DOMAIN w /\ w[k] = l[k]
           /\ \A i, j \in DOMAIN w : w[i] \in Titles /\ w[i] = w[j] => i = j
<1> DEFINE w == Vault!WithLink(l, m)
           t == Vault!Title(m)
           h == Vault!Header(m.kind)
<1>1. t \in Titles /\ h \in Headers /\ h \notin Titles
  <2>1. m.kind \in Kinds
    BY DEF Row
  <2>2. t \in Titles
    BY LinksAreNames
  <2> QED  BY <2>1, <2>2, TitlesAreNoHeaders DEF Headers
<1>2. Len(l) \in Nat /\ DOMAIN l = 1..Len(l)
  OBVIOUS
<1>3. CASE t \in ToSet(l)
  BY <1>3, VaultHelpers DEF Vault!WithLink, ToSet
<1>4. CASE t \notin ToSet(l) /\ h \in ToSet(l)
  <2>1. w = Append(l, t)
    BY <1>4, VaultHelpers DEF Vault!WithLink
  <2>2. w \in Seq(Titles \cup Headers) /\ DOMAIN w = 1..Len(l) + 1 /\ w[Len(l) + 1] = t
        /\ \A k \in 1..Len(l) : w[k] = l[k]
    BY <2>1, <1>1
  <2>3. \A k \in 1..Len(l) : l[k] # t
    BY <1>4 DEF ToSet
  <2> HIDE DEF w, t, h
  <2> QED  BY <2>2, <2>3, <1>1, <1>2 DEF w, t
<1>5. CASE t \notin ToSet(l) /\ h \notin ToSet(l)
  <2>1. w = l \o <<h, t>>
    BY <1>5, VaultHelpers DEF Vault!WithLink
  <2>2. w \in Seq(Titles \cup Headers) /\ DOMAIN w = 1..Len(l) + 2
        /\ w[Len(l) + 1] = h /\ w[Len(l) + 2] = t
        /\ \A k \in 1..Len(l) : w[k] = l[k]
    BY <2>1, <1>1, <1>2
  <2>3. \A k \in 1..Len(l) : l[k] # t
    BY <1>5 DEF ToSet
  <2> HIDE DEF w, t, h
  <2> QED  BY <2>2, <2>3, <1>1, <1>2 DEF w, t
<1> QED  BY <1>3, <1>4, <1>5

-----------------------------------------------------------------------------
LEMMA VaultInit == Vault!Init => VaultInv
<1> SUFFICES ASSUME Vault!Init PROVE VaultInv
  OBVIOUS
<1> USE DEF Vault!Init
<1>1. RowsInv
  <2>1. <<>> \in Seq(Row)
    OBVIOUS
  <2> QED  BY <2>1 DEF RowsInv, Numbered
<1>2. ListsInv
  <2>1. <<>> \in Seq(Titles \cup Headers)
    OBVIOUS
  <2> QED  BY <2>1 DEF ListsInv
<1>3. CallersInv
  <2>1. <<>> \in Seq(Vault!Names) /\ 0 \in Nat
    OBVIOUS
  <2> QED  BY <2>1 DEF CallersInv
<1> QED  BY <1>1, <1>2, <1>3 DEF VaultInv, ProgressInv, RecordedInv

LEMMA OfKindIsFinite ==
    ASSUME NEW rs \in Seq(Row), NEW k
    PROVE  IsFiniteSet(OfKind(rs, k)) /\ Cardinality(OfKind(rs, k)) \in Nat
<1>1. Len(rs) \in Nat /\ DOMAIN rs = 1..Len(rs)
  OBVIOUS
<1>2. IsFiniteSet(1..Len(rs))
  BY <1>1, FS_Interval
<1>3. OfKind(rs, k) \in SUBSET (1..Len(rs))
  BY <1>1 DEF OfKind
<1>4. IsFiniteSet(OfKind(rs, k))
  BY <1>2, <1>3, FS_Subset
<1> QED  BY <1>4, FS_CardinalityType

(* A new memory has a number of its own. *)
LEMMA AppendKeepsNumbers ==
    ASSUME NEW rs, Numbered(rs), NEW m \in Row,
           m.num = 1 + Cardinality(OfKind(rs, m.kind))
    PROVE  /\ Numbered(Append(rs, m))
           /\ DOMAIN Append(rs, m) = 1..Len(rs) + 1
           /\ Len(rs) \in Nat /\ DOMAIN rs = 1..Len(rs)
           /\ Append(rs, m)[Len(rs) + 1] = m
           /\ \A i \in DOMAIN rs : Append(rs, m)[i] = rs[i]
<1> DEFINE n == Len(rs)
           new == Append(rs, m)
<1>1. /\ rs \in Seq(Row) /\ new \in Seq(Row)
      /\ DOMAIN new = 1..n + 1 /\ n \in Nat /\ DOMAIN rs = 1..n
      /\ new[n + 1] = m /\ \A i \in 1..n : new[i] = rs[i] /\ rs[i] \in Row
  BY DEF Numbered
<1> HIDE DEF n, new
<1>2. \A i \in 1..n : rs[i].num \in Nat
  BY <1>1 DEF Row
<1>3. ASSUME NEW k PROVE Cardinality(OfKind(rs, k)) \in Nat
  BY <1>1, OfKindIsFinite
<1>4. ASSUME NEW k
      PROVE  Cardinality(OfKind(new, k)) =
                 IF k = m.kind THEN Cardinality(OfKind(rs, k)) + 1
                 ELSE Cardinality(OfKind(rs, k))
  <2>1. OfKind(new, k) = IF k = m.kind THEN OfKind(rs, k) \cup {n + 1} ELSE OfKind(rs, k)
    BY <1>1 DEF OfKind
  <2>2. n + 1 \notin OfKind(rs, k)
    BY <1>1 DEF OfKind
  <2>3. IsFiniteSet(OfKind(rs, k))
    BY <1>1, OfKindIsFinite
  <2> QED  BY <2>1, <2>2, <2>3, FS_AddElement
<1>5. \A i \in 1..n : rs[i].num <= Cardinality(OfKind(rs, rs[i].kind))
  BY <1>1 DEF Numbered
<1>6. ASSUME NEW i \in 1..n + 1
      PROVE  new[i].num <= Cardinality(OfKind(new, new[i].kind))
  <2>1. CASE i \in 1..n
    <3>1. Cardinality(OfKind(rs, rs[i].kind)) \in Nat
          /\ Cardinality(OfKind(new, rs[i].kind)) >= Cardinality(OfKind(rs, rs[i].kind))
      BY <1>3, <1>4
    <3>2. rs[i].num <= Cardinality(OfKind(rs, rs[i].kind)) /\ rs[i].num \in Nat
      BY <2>1, <1>2, <1>5
    <3>3. new[i] = rs[i] /\ Cardinality(OfKind(new, rs[i].kind)) \in Nat
      BY <2>1, <1>1, OfKindIsFinite
    <3> QED  BY <3>1, <3>2, <3>3
  <2>2. CASE i = n + 1
    <3>1. Cardinality(OfKind(new, m.kind)) = Cardinality(OfKind(rs, m.kind)) + 1
          /\ Cardinality(OfKind(rs, m.kind)) \in Nat
      BY <1>3, <1>4
    <3> QED  BY <2>2, <3>1, <1>1
  <2> QED  BY <2>1, <2>2, <1>1
<1>7. ASSUME NEW i \in 1..n PROVE Vault!Title(rs[i]) # Vault!Title(m)
  <2>1. Cardinality(OfKind(rs, m.kind)) \in Nat
    BY <1>3
  <2>2. rs[i].kind = m.kind => rs[i].num # m.num
    BY <2>1, <1>2, <1>5
  <2> QED  BY <2>2 DEF Vault!Title
<1>8. \A i, j \in 1..n + 1 : Vault!Title(new[i]) = Vault!Title(new[j]) => i = j
  <2>1. \A i \in 1..n + 1 : i \in 1..n \/ i = n + 1
    BY <1>1
  <2>2. \A i, j \in 1..n : Vault!Title(rs[i]) = Vault!Title(rs[j]) => i = j
    BY <1>1 DEF Numbered
  <2> QED  BY <2>1, <2>2, <1>1, <1>7
<1>9. Numbered(new)
  BY <1>1, <1>6, <1>8 DEF Numbered
<1> QED  BY <1>1, <1>9 DEF n, new

LEMMA InsertKeepsInv ==
    ASSUME VaultInv, NEW c \in Callers, NEW k \in Kinds, NEW s \in Symbols,
           NEW t \in Setups \cup {Vault!Blank}, Vault!Insert(c, k, s, t)
    PROVE  VaultInv'
<1> DEFINE m == [kind |-> k, num |-> Vault!FreshNum(k), symbol |-> s, setup |-> t]
<1>1. Vault!FreshNum(k) = 1 + Cardinality(OfKind(rows, k)) /\ Vault!FreshNum(k) \in Nat
  <2>1. rows \in Seq(Row)
    BY DEF VaultInv, RowsInv, Numbered
  <2>2. Cardinality(OfKind(rows, k)) \in Nat
    BY <2>1, OfKindIsFinite
  <2> QED  BY <2>2, VaultHelpers DEF Vault!FreshNum, OfKind
<1>2. /\ m \in Row /\ m.num = 1 + Cardinality(OfKind(rows, m.kind))
      /\ rows' = Append(rows, m)
  BY <1>1 DEF Row, Vault!Insert
<1> HIDE DEF m
<1>3. /\ RowsInv'
      /\ DOMAIN rows' = 1..Len(rows) + 1 /\ Len(rows) \in Nat /\ DOMAIN rows = 1..Len(rows)
      /\ rows'[Len(rows) + 1] = m /\ \A i \in DOMAIN rows : rows'[i] = rows[i]
  BY <1>2, AppendKeepsNumbers DEF VaultInv, RowsInv
<1>4. /\ mem' = [mem EXCEPT ![c] = Len(rows) + 1] /\ todo' = [todo EXCEPT ![c] = Vault!Links(m)]
      /\ vpc' = [vpc EXCEPT ![c] = "note"] /\ vpc[c] = "idle"
      /\ UNCHANGED <<notes, lists, read, lock, recorded, torn>>
  <2>1. Len(rows') = Len(rows) + 1 /\ Last(rows') = m
    <3>1. rows \in Seq(Row)
      BY DEF VaultInv, RowsInv, Numbered
    <3>2. Len(rows') = Len(rows) + 1
      BY <3>1, <1>2
    <3> QED  BY <3>2, <1>3 DEF Last
  <2> QED  BY <2>1, VaultHelpers DEF Vault!Insert, Vault!At, Vault!Goto
<1>5. Vault!Links(m) \in Seq(Vault!Names)
  BY <1>2, LinksAreNames
<1>6. ListsInv'
  BY <1>4 DEF VaultInv, ListsInv
<1>7. CallersInv'
  BY <1>3, <1>4, <1>5 DEF VaultInv, CallersInv
<1>8. ProgressInv'
  <2> SUFFICES ASSUME NEW d \in Callers
               PROVE  /\ vpc'[d] = "note" => \A n \in ToSet(Vault!Links(Vault!Mine(d)')) : n \in ToSet(todo'[d])
                      /\ vpc'[d] \in {"link", "write"} =>
                            /\ Noted(Vault!Mine(d))'
                            /\ \A n \in ToSet(Vault!Links(Vault!Mine(d)')) :
                                  n \in torn' \/ Linked(n, Vault!Title(Vault!Mine(d)))' \/ n \in ToSet(todo'[d])
    BY DEF ProgressInv
  <2>1. CASE d = c
    BY <2>1, <1>3, <1>4 DEF Vault!Mine, VaultInv, CallersInv
  <2>2. CASE d # c
    <3>1. vpc'[d] = vpc[d] /\ todo'[d] = todo[d] /\ (vpc[d] # "idle" => Vault!Mine(d)' = Vault!Mine(d))
      BY <2>2, <1>3, <1>4 DEF Vault!Mine, VaultInv, CallersInv
    <3> QED  BY <3>1, <1>4 DEF VaultInv, ProgressInv, Noted, Linked
  <2> QED  BY <2>1, <2>2
<1>9. RecordedInv'
  BY <1>3, <1>4 DEF VaultInv, RecordedInv, Noted, Linked
<1> QED  BY <1>3, <1>6, <1>7, <1>8, <1>9 DEF VaultInv

(* The note of a memory is written again only with the same links. *)
LEMMA WriteNoteKeepsInv ==
    ASSUME VaultInv, NEW c \in Callers, Vault!WriteNote(c)
    PROVE  VaultInv'
<1> DEFINE m == Vault!Mine(c)
<1>1. /\ vpc[c] = "note" /\ vpc' = [vpc EXCEPT ![c] = "link"] /\ mem[c] \in DOMAIN rows
      /\ UNCHANGED <<rows, lists, mem, todo, read, lock, recorded, torn>>
  BY DEF Vault!WriteNote, Vault!At, Vault!Goto, VaultInv, CallersInv
<1>2. /\ DOMAIN notes' = {Vault!Title(m)} \cup DOMAIN notes
      /\ notes'[Vault!Title(m)] = Vault!Links(m)
      /\ \A x \in DOMAIN notes : x # Vault!Title(m) => notes'[x] = notes[x]
  BY DEF Vault!WriteNote
<1>3. ASSUME NEW i \in DOMAIN rows, Noted(rows[i]) PROVE Noted(rows[i])'
  <2>1. CASE Vault!Title(rows[i]) = Vault!Title(m)
    <3>1. rows[i] = m
      BY <2>1, <1>1 DEF Vault!Mine, VaultInv, RowsInv, Numbered
    <3> QED  BY <3>1, <1>1, <1>2 DEF Noted
  <2>2. CASE Vault!Title(rows[i]) # Vault!Title(m)
    BY <2>2, <1>1, <1>2, <1>3 DEF Noted
  <2> QED  BY <2>1, <2>2
<1>4. RowsInv' /\ ListsInv' /\ CallersInv'
  BY <1>1 DEF VaultInv, RowsInv, ListsInv, CallersInv
<1>5. ProgressInv'
  <2> SUFFICES ASSUME NEW d \in Callers
               PROVE  /\ vpc'[d] = "note" => \A n \in ToSet(Vault!Links(Vault!Mine(d)')) : n \in ToSet(todo'[d])
                      /\ vpc'[d] \in {"link", "write"} =>
                            /\ Noted(Vault!Mine(d))'
                            /\ \A n \in ToSet(Vault!Links(Vault!Mine(d)')) :
                                  n \in torn' \/ Linked(n, Vault!Title(Vault!Mine(d)))' \/ n \in ToSet(todo'[d])
    BY DEF ProgressInv
  <2>1. CASE d = c
    BY <2>1, <1>1, <1>2 DEF Vault!Mine, VaultInv, CallersInv, ProgressInv, Noted
  <2>2. CASE d # c
    <3>1. vpc'[d] = vpc[d] /\ todo'[d] = todo[d] /\ Vault!Mine(d)' = Vault!Mine(d)
          /\ (vpc[d] # "idle" => mem[d] \in DOMAIN rows)
      BY <2>2, <1>1 DEF Vault!Mine, VaultInv, CallersInv
    <3> QED  BY <3>1, <1>1, <1>3 DEF VaultInv, ProgressInv, Vault!Mine, Linked
  <2> QED  BY <2>1, <2>2
<1>6. RecordedInv'
  BY <1>1, <1>3 DEF VaultInv, RecordedInv, Linked
<1> QED  BY <1>4, <1>5, <1>6 DEF VaultInv

LEMMA ReadListKeepsInv ==
    ASSUME VaultInv, NEW c \in Callers, Vault!ReadList(c)
    PROVE  VaultInv'
<1>1. /\ vpc[c] = "link" /\ vpc' = [vpc EXCEPT ![c] = "write"] /\ todo[c] # <<>>
      /\ lock = Vault!Free /\ lock' = c /\ read' = [read EXCEPT ![c] = lists[Head(todo[c])]]
      /\ UNCHANGED <<rows, notes, lists, mem, todo, recorded, torn>>
  BY DEF Vault!ReadList, Vault!At, Vault!Goto, Vault!MayLock
<1>2. \A d \in Callers : vpc[d] # "write"
  BY <1>1, VaultAssumption DEF VaultInv, CallersInv
<1>3. CallersInv'
  BY <1>1, <1>2 DEF VaultInv, CallersInv
<1>4. RowsInv' /\ ListsInv' /\ RecordedInv'
  BY <1>1 DEF VaultInv, RowsInv, ListsInv, RecordedInv, Noted, Linked
<1>5. ProgressInv'
  BY <1>1 DEF VaultInv, CallersInv, ProgressInv, Vault!Mine, Noted, Linked
<1> QED  BY <1>3, <1>4, <1>5 DEF VaultInv

(* The rewrite of a note adds one link to what is there. *)
LEMMA WriteListKeepsInv ==
    ASSUME VaultInv, NEW c \in Callers, Vault!WriteList(c)
    PROVE  VaultInv'
<1> DEFINE m == Vault!Mine(c)
           h == Head(todo[c])
           w == Vault!WithLink(lists[h], m)
<1>1. /\ vpc[c] = "write" /\ vpc' = [vpc EXCEPT ![c] = "link"] /\ lock = c
      /\ todo[c] # <<>> /\ todo' = [todo EXCEPT ![c] = Tail(todo[c])]
      /\ lists' = [lists EXCEPT ![h] = w]
      /\ read' = [read EXCEPT ![c] = <<>>]
      /\ UNCHANGED <<rows, notes, mem, recorded, torn>>
  BY DEF Vault!WriteList, Vault!At, Vault!Goto, VaultInv, CallersInv
<1>2. /\ mem[c] \in DOMAIN rows /\ m \in Row /\ todo[c] \in Seq(Vault!Names)
  <2>1. mem[c] \in DOMAIN rows /\ todo[c] \in Seq(Vault!Names)
    BY <1>1 DEF VaultInv, CallersInv
  <2> QED  BY <2>1, RowsKnown DEF Vault!Mine
<1>3. /\ h \in Vault!Names /\ Tail(todo[c]) \in Seq(Vault!Names)
      /\ \A x \in ToSet(todo[c]) : x = h \/ x \in ToSet(Tail(todo[c]))
  BY <1>1, <1>2, HeadOrTail
<1>4. /\ w \in Seq(Titles \cup Headers)
      /\ \E k \in DOMAIN w : w[k] = Vault!Title(m)
      /\ \A k \in DOMAIN lists[h] : k \in DOMAIN w /\ w[k] = lists[h][k]
      /\ \A i, j \in DOMAIN w : w[i] \in Titles /\ w[i] = w[j] => i = j
  BY <1>2, <1>3, WithLinkAdds DEF VaultInv, ListsInv
<1> HIDE DEF w, h, m
<1>5. ListsInv'
  BY <1>1, <1>3, <1>4 DEF VaultInv, ListsInv
<1>6. \A n \in Vault!Names : \A t : Linked(n, t) => Linked(n, t)'
  BY <1>1, <1>3, <1>4 DEF Linked, VaultInv, ListsInv
<1>7. \A n, t : n = h /\ t = Vault!Title(m) => Linked(n, t)'
  BY <1>1, <1>3, <1>4 DEF Linked, VaultInv, ListsInv
<1>8. \A d \in Callers : d # c => vpc[d] # "write"
  BY <1>1 DEF VaultInv, CallersInv
<1>9. CallersInv'
  BY <1>1, <1>3, <1>8 DEF VaultInv, CallersInv
<1>10. ProgressInv'
  <2> SUFFICES ASSUME NEW d \in Callers
               PROVE  /\ vpc'[d] = "note" => \A n \in ToSet(Vault!Links(Vault!Mine(d)')) : n \in ToSet(todo'[d])
                      /\ vpc'[d] \in {"link", "write"} =>
                            /\ Noted(Vault!Mine(d))'
                            /\ \A n \in ToSet(Vault!Links(Vault!Mine(d)')) :
                                  n \in torn' \/ Linked(n, Vault!Title(Vault!Mine(d)))' \/ n \in ToSet(todo'[d])
    BY DEF ProgressInv
  <2>1. Vault!Mine(d)' = Vault!Mine(d) /\ (vpc[d] # "idle" => ToSet(Vault!Links(Vault!Mine(d))) \subseteq Vault!Names)
    <3>1. vpc[d] # "idle" => mem[d] \in DOMAIN rows
      BY DEF VaultInv, CallersInv
    <3> QED  BY <3>1, <1>1, RowsKnown DEF Vault!Mine
  <2>2. CASE d = c
    <3>1. /\ Noted(m) /\ vpc'[d] = "link" /\ todo'[d] = Tail(todo[c])
          /\ \A n \in ToSet(Vault!Links(m)) : n \in torn \/ Linked(n, Vault!Title(m)) \/ n \in ToSet(todo[c])
      BY <2>2, <1>1 DEF VaultInv, CallersInv, ProgressInv, m
    <3>2. ASSUME NEW n \in ToSet(Vault!Links(m))
          PROVE  n \in torn' \/ Linked(n, Vault!Title(m))' \/ n \in ToSet(todo'[d])
      <4>1. m' = m /\ n \in Vault!Names
        BY <2>1, <2>2, <1>1 DEF m
      <4>2. CASE n \in torn
        BY <4>2, <1>1
      <4>3. CASE Linked(n, Vault!Title(m))
        BY <4>1, <4>3, <1>6 DEF Linked
      <4>4. CASE n = h
        BY <4>1, <4>4, <1>7 DEF Linked
      <4>5. CASE n \in ToSet(Tail(todo[c]))
        BY <4>5, <3>1
      <4> QED  BY <4>2, <4>3, <4>4, <4>5, <3>1, <1>3
    <3>3. Vault!Mine(d)' = m /\ Vault!Mine(d)' = m' /\ Noted(Vault!Mine(d))'
      BY <2>1, <2>2, <3>1, <1>1 DEF Noted, m
    <3> QED  BY <3>1, <3>2, <3>3
  <2>3. CASE d # c
    <3>1. vpc'[d] = vpc[d] /\ todo'[d] = todo[d]
      BY <2>3, <1>1 DEF VaultInv, CallersInv
    <3> QED  BY <2>1, <3>1, <1>1, <1>6 DEF VaultInv, ProgressInv, Noted
  <2> QED  BY <2>2, <2>3
<1>11. RecordedInv'
  <2>1. \A i \in recorded : ToSet(Vault!Links(rows[i])) \subseteq Vault!Names
    BY RowsKnown DEF VaultInv, RecordedInv
  <2> QED  BY <2>1, <1>1, <1>6 DEF VaultInv, RecordedInv, Noted
<1>12. RowsInv'
  BY <1>1 DEF VaultInv, RowsInv
<1> QED  BY <1>5, <1>9, <1>10, <1>11, <1>12 DEF VaultInv

LEMMA RememberedKeepsInv ==
    ASSUME VaultInv, NEW c \in Callers, Vault!Remembered(c)
    PROVE  VaultInv'
<1>1. /\ vpc[c] = "link" /\ vpc' = [vpc EXCEPT ![c] = "idle"] /\ todo[c] = <<>>
      /\ recorded' = recorded \cup {mem[c]}
      /\ UNCHANGED <<rows, notes, lists, mem, todo, read, lock, torn>>
  BY DEF Vault!Remembered, Vault!At, Vault!Goto
<1>2. ToSet(todo[c]) = {}
  BY <1>1 DEF ToSet
<1>3. RecordedInv'
  <2>1. mem[c] \in DOMAIN rows
    BY <1>1 DEF VaultInv, CallersInv
  <2>2. /\ Noted(rows[mem[c]])
        /\ \A n \in ToSet(Vault!Links(rows[mem[c]])) : n \in torn \/ Linked(n, Vault!Title(rows[mem[c]]))
    BY <1>1, <1>2 DEF VaultInv, ProgressInv, Vault!Mine
  <2>3. /\ recorded' \subseteq DOMAIN rows
        /\ \A i \in recorded' :
              /\ Noted(rows[i])
              /\ \A n \in ToSet(Vault!Links(rows[i])) : n \in torn \/ Linked(n, Vault!Title(rows[i]))
    BY <2>1, <2>2, <1>1 DEF VaultInv, RecordedInv
  <2> QED  BY <2>3, <1>1 DEF RecordedInv, Noted, Linked
<1>4. RowsInv' /\ ListsInv' /\ CallersInv'
  BY <1>1 DEF VaultInv, RowsInv, ListsInv, CallersInv
<1>5. ProgressInv'
  BY <1>1 DEF VaultInv, CallersInv, ProgressInv, Vault!Mine, Noted, Linked
<1> QED  BY <1>3, <1>4, <1>5 DEF VaultInv

(* Callers end, the rewrites some of them were at may be cut short. *)
LEMMA AbandonKeepsInv ==
    ASSUME VaultInv, NEW D, D \subseteq Callers, NEW cut, Vault!Cut(cut),
           vpc' = [c \in Callers |-> IF c \in D THEN "idle" ELSE vpc[c]],
           todo' = [c \in Callers |-> IF c \in D THEN <<>> ELSE todo[c]],
           read' = [c \in Callers |-> IF c \in D THEN <<>> ELSE read[c]],
           \A c \in Callers \ D : vpc[c] = "write" => cut = {} /\ lock' = lock,
           UNCHANGED <<rows, notes, mem, recorded>>
    PROVE  VaultInv'
<1> USE DEF Vault!Cut
<1>1. ListsInv'
  <2>1. <<>> \in Seq(Titles \cup Headers)
    OBVIOUS
  <2> QED  BY <2>1 DEF VaultInv, ListsInv
<1>2. \A n \in Vault!Names : \A t : Linked(n, t) => Linked(n, t)' \/ n \in torn'
  BY DEF Linked, VaultInv, ListsInv
<1>3. CallersInv'
  <2>1. <<>> \in Seq(Vault!Names)
    OBVIOUS
  <2>2. ASSUME NEW c \in Callers \ D, vpc[c] = "write"
        PROVE  lists' = lists
    BY <2>2 DEF VaultInv, ListsInv
  <2> QED  BY <2>1, <2>2 DEF VaultInv, CallersInv
<1>4. ProgressInv'
  <2> SUFFICES ASSUME NEW d \in Callers \ D
               PROVE  /\ vpc[d] = "note" => \A n \in ToSet(Vault!Links(Vault!Mine(d))) : n \in ToSet(todo[d])
                      /\ vpc[d] \in {"link", "write"} =>
                            /\ Noted(Vault!Mine(d))
                            /\ \A n \in ToSet(Vault!Links(Vault!Mine(d))) :
                                  n \in torn' \/ Linked(n, Vault!Title(Vault!Mine(d)))' \/ n \in ToSet(todo[d])
    BY DEF ProgressInv, Vault!Mine, Noted
  <2>1. vpc[d] # "idle" => ToSet(Vault!Links(Vault!Mine(d))) \subseteq Vault!Names
    BY RowsKnown DEF Vault!Mine, VaultInv, CallersInv
  <2>2. Vault!Mine(d)' = Vault!Mine(d)
    BY DEF Vault!Mine
  <2>3. ASSUME NEW n \in Vault!Names, Linked(n, Vault!Title(Vault!Mine(d)))
        PROVE  Linked(n, Vault!Title(Vault!Mine(d)))' \/ n \in torn'
    BY <2>2, <2>3, <1>2 DEF Linked
  <2> QED  BY <2>1, <2>3 DEF VaultInv, ProgressInv
<1>5. RecordedInv'
  <2>1. \A i \in recorded : ToSet(Vault!Links(rows[i])) \subseteq Vault!Names
    BY RowsKnown DEF VaultInv, RecordedInv
  <2> QED  BY <2>1, <1>2 DEF VaultInv, RecordedInv, Noted
<1>6. RowsInv'
  BY DEF VaultInv, RowsInv
<1> QED  BY <1>1, <1>3, <1>4, <1>5, <1>6 DEF VaultInv

LEMMA NoCut == VaultInv /\ UNCHANGED <<lists, torn>> => Vault!Cut({})
BY DEF VaultInv, ListsInv, Vault!Cut

LEMMA FailsKeepsInv ==
    ASSUME VaultInv, NEW c \in Callers, Vault!Fails(c)
    PROVE  VaultInv'
<1>1. /\ vpc' = [d \in Callers |-> IF d \in {c} THEN "idle" ELSE vpc[d]]
      /\ todo' = [d \in Callers |-> IF d \in {c} THEN <<>> ELSE todo[d]]
      /\ read' = [d \in Callers |-> IF d \in {c} THEN <<>> ELSE read[d]]
      /\ UNCHANGED <<rows, notes, mem, recorded>>
  BY DEF Vault!Fails, Vault!Goto, VaultInv, CallersInv
<1>2. \A d \in Callers \ {c} : vpc[d] = "write" => lock' = lock /\ vpc[c] # "write"
  BY DEF Vault!Fails, VaultInv, CallersInv
<1>3. CASE UNCHANGED <<lists, torn>>
  BY <1>1, <1>2, <1>3, NoCut, AbandonKeepsInv
<1>4. CASE Vault!At(c, "write") /\ Vault!Cut({Head(todo[c])})
  <2>1. \A d \in Callers \ {c} : vpc[d] # "write"
    BY <1>2, <1>4 DEF Vault!At
  <2> QED  BY <1>1, <1>4, <2>1, AbandonKeepsInv
<1> QED  BY <1>3, <1>4 DEF Vault!Fails

LEMMA KilledKeepsInv ==
    ASSUME VaultInv, Vault!Killed
    PROVE  VaultInv'
<1>1. PICK cut : Vault!Cut(cut)
  BY DEF Vault!Killed
<1>2. /\ vpc' = [d \in Callers |-> IF d \in Callers THEN "idle" ELSE vpc[d]]
      /\ todo' = [d \in Callers |-> IF d \in Callers THEN <<>> ELSE todo[d]]
      /\ read' = [d \in Callers |-> IF d \in Callers THEN <<>> ELSE read[d]]
      /\ UNCHANGED <<rows, notes, mem, recorded>>
  BY DEF Vault!Killed
<1> QED  BY <1>1, <1>2, AbandonKeepsInv

LEMMA VaultNext ==
    ASSUME VaultInv, [Vault!Next]_(Vault!vars)
    PROVE  VaultInv'
<1>1. ASSUME NEW c \in Callers, NEW s \in Symbols, NEW t \in Setups, Vault!Insert(c, "trade", s, t)
      PROVE  VaultInv'
  BY <1>1, InsertKeepsInv DEF Kinds
<1>2. ASSUME NEW c \in Callers, NEW s \in Symbols, Vault!Insert(c, "market", s, Vault!Blank)
      PROVE  VaultInv'
  BY <1>2, InsertKeepsInv DEF Kinds
<1>3. ASSUME NEW c \in Callers, Vault!WriteNote(c) PROVE VaultInv'
  BY <1>3, WriteNoteKeepsInv
<1>4. ASSUME NEW c \in Callers, Vault!ReadList(c) PROVE VaultInv'
  BY <1>4, ReadListKeepsInv
<1>5. ASSUME NEW c \in Callers, Vault!WriteList(c) PROVE VaultInv'
  BY <1>5, WriteListKeepsInv
<1>6. ASSUME NEW c \in Callers, Vault!Remembered(c) PROVE VaultInv'
  BY <1>6, RememberedKeepsInv
<1>7. ASSUME NEW c \in Callers, Vault!Fails(c) PROVE VaultInv'
  BY <1>7, FailsKeepsInv
<1>8. CASE Vault!Killed
  BY <1>8, KilledKeepsInv
<1>9. CASE (\E i \in DOMAIN rows : Vault!Forget(i)) \/ UNCHANGED Vault!vars
  <2>1. UNCHANGED <<rows, notes, lists, vpc, mem, todo, read, lock, recorded, torn>>
    BY <1>9 DEF Vault!Forget, Vault!vars
  <2> QED  BY <2>1 DEF VaultInv, RowsInv, ListsInv, CallersInv, ProgressInv, RecordedInv,
                       Vault!Mine, Noted, Linked
<1> QED  BY <1>1, <1>2, <1>3, <1>4, <1>5, <1>6, <1>7, <1>8, <1>9 DEF Vault!Next

LEMMA InvImpliesFollows == VaultInv => Vault!VaultFollowsStore
<1> SUFFICES ASSUME VaultInv, NEW i \in recorded, NEW n \in ToSet(Vault!Links(rows[i])), n \notin torn
             PROVE  Vault!LinkedOnce(n, Vault!Title(rows[i]))
  BY VaultHelpers DEF VaultInv, RecordedInv, Vault!VaultFollowsStore, Noted
<1>1. rows[i] \in Row
  BY RowsKnown DEF VaultInv, RecordedInv
<1>2. n \in Vault!Names /\ Vault!Title(rows[i]) \in Titles
  BY <1>1, LinksAreNames
<1>3. PICK k \in DOMAIN lists[n] : lists[n][k] = Vault!Title(rows[i])
  BY DEF VaultInv, RecordedInv, Linked
<1>4. {j \in DOMAIN lists[n] : lists[n][j] = Vault!Title(rows[i])} = {k}
  BY <1>2, <1>3 DEF VaultInv, ListsInv
<1> QED  BY <1>4, VaultHelpers, FS_Singleton DEF Vault!LinkedOnce

(***************************************************************************)
(* Every memory whose call returned has its note, and each of its links is *)
(* there once unless a rewrite of that note was cut short: for any number  *)
(* of goroutines under the vault's mutex, failed writes and kills.         *)
(***************************************************************************)
THEOREM MirrorFollows == ServicesSpec => []VaultFollowsStore
<1> DEFINE Inv == part = "vault" => VaultInv
<1>1. ServicesInit => Inv
  BY VaultInit DEF ServicesInit
<1>2. Inv /\ [ServicesNext]_servicesVars => Inv'
  <2> SUFFICES ASSUME Inv, [ServicesNext]_servicesVars, part' = "vault" PROVE VaultInv'
    OBVIOUS
  <2>1. part = "vault" /\ [Vault!Next]_(Vault!vars)
    BY DEF ServicesNext, servicesVars, vaultVars, Vault!vars
  <2> QED  BY <2>1, VaultNext
<1>3. Inv => VaultFollowsStore
  BY InvImpliesFollows DEF VaultFollowsStore
<1> QED  BY <1>1, <1>2, <1>3, PTL DEF ServicesSpec

-----------------------------------------------------------------------------
(***************************************************************************)
(* The updater: builds keep their tag, and what an updater is about to     *)
(* install was verified against the tag it was started for.                *)
(***************************************************************************)
IsBuildOf(b, t) == b \in DOMAIN tagOf /\ tagOf[b] = t

ReleaseInv == /\ tagOf \in Seq(Update!Tags) /\ Len(tagOf) \in 1..MaxBuilds
              /\ latest \in Update!Tags
              /\ zip \in [Update!Tags -> Nat] /\ sums \in [Update!Tags -> Nat]
              /\ \A t \in Update!Tags : zip[t] # Update!None => IsBuildOf(zip[t], t)
              /\ \A t \in Update!Tags : sums[t] # Update!None => IsBuildOf(sums[t], t)

UpdateLabels == {"off", "agreed", "download", "verify", "write", "clear", "aside", "move",
                 "cleared"}

RunsInv ==
    /\ upc \in [Procs -> UpdateLabels]
    /\ DOMAIN shown = Procs /\ DOMAIN target = Procs /\ DOMAIN got = Procs /\ DOMAIN tmp = Procs
    /\ \A p \in Procs :
           /\ upc[p] \in {"download", "verify", "write"} =>
                  /\ target[p] = shown[p] /\ target[p] \in Update!Tags
                  /\ sums[target[p]] # Update!None
           /\ upc[p] = "write" => IsBuildOf(got[p], shown[p])
           /\ upc[p] \in {"clear", "aside", "move"} => IsBuildOf(tmp[p], shown[p])
           /\ upc[p] \in {"clear", "aside", "cleared"} => windows

(* An updater alone is between the two renames when nothing is in place. *)
AloneInv ==
    ~overlapped =>
        /\ \A p, q \in Procs : p # q => upc[p] = "off" \/ upc[q] = "off"
        /\ exe = Update!None =>
               /\ old # Update!None
               /\ \A p \in Procs : upc[p] \in {"off", "move"}
               /\ killed \/ \E p \in Procs : upc[p] = "move"

Binaries == {Update!None, 1} \cup {i.build : i \in installs}
FilesInv == /\ exe \in Binaries /\ old \in Binaries
            /\ exe = Update!None => windows
            /\ \A i \in installs : IsBuildOf(i.build, i.agreed)

UpdateInv == ReleaseInv /\ RunsInv /\ AloneInv /\ FilesInv

LEMMA UpdateInit == Update!Init => UpdateInv
<1> SUFFICES ASSUME Update!Init PROVE UpdateInv
  OBVIOUS
<1> USE DEF Update!Init, Update!None
<1>1. ReleaseInv
  <2>1. 1 \in Update!Tags
    BY UpdateAssumption DEF Update!Tags
  <2>2. <<1>> \in Seq(Update!Tags) /\ Len(<<1>>) = 1
    BY <2>1
  <2> QED  BY <2>1, <2>2, UpdateAssumption DEF ReleaseInv
<1>2. RunsInv
  BY DEF RunsInv, UpdateLabels
<1>3. AloneInv /\ FilesInv
  BY DEF AloneInv, FilesInv, Binaries
<1> QED  BY <1>1, <1>2, <1>3 DEF UpdateInv

(* A publication adds builds and takes no checksum away. *)
LEMMA PublishKeepsUpdate ==
    ASSUME UpdateInv, Update!Publish
    PROVE  UpdateInv'
<1>1. UNCHANGED <<windows, exe, old, tmp, upc, shown, overlapped, killed, target, got, installs>>
  BY DEF Update!Publish, Update!files, Update!run
<1>2. PICK t \in Update!Tags : Update!UploadZip(t) \/ Update!UploadSums(t) \/ Update!MoveLatest(t)
  BY DEF Update!Publish
<1>3. ReleaseInv' /\ (\A b, s : IsBuildOf(b, s) => IsBuildOf(b, s)')
      /\ \A s \in Update!Tags : sums[s] # Update!None => sums'[s] # Update!None
  <2>1. CASE Update!UploadZip(t)
    <3>0. PICK n : n = Len(tagOf) + 1
      OBVIOUS
    <3>1. /\ tagOf' = Append(tagOf, t) /\ UNCHANGED <<sums, latest>>
          /\ Len(tagOf) < MaxBuilds /\ tagOf \in Seq(Update!Tags)
      BY <2>1 DEF Update!UploadZip, UpdateInv, ReleaseInv
    <3>2. /\ tagOf' \in Seq(Update!Tags) /\ Len(tagOf') = n /\ DOMAIN tagOf' = 1..n
          /\ tagOf'[n] = t /\ DOMAIN tagOf = 1..Len(tagOf) /\ Len(tagOf) \in Nat
          /\ \A b \in 1..Len(tagOf) : tagOf'[b] = tagOf[b]
      BY <3>0, <3>1
    <3>3. zip' = [zip EXCEPT ![t] = n]
      BY <2>1, <3>2 DEF Update!UploadZip
    <3>4. \A b, s : IsBuildOf(b, s) => IsBuildOf(b, s)'
      BY <3>0, <3>2 DEF IsBuildOf
    <3>5. IsBuildOf(n, t)' /\ n \in Nat
      BY <3>0, <3>2 DEF IsBuildOf
    <3>6. Len(tagOf') \in 1..MaxBuilds
      BY <3>1, <3>2, UpdateAssumption

    <3> QED  BY <3>1, <3>2, <3>3, <3>4, <3>5, <3>6 DEF UpdateInv, ReleaseInv
  <2>2. CASE Update!UploadSums(t)
    BY <2>2 DEF Update!UploadSums, UpdateInv, ReleaseInv, IsBuildOf
  <2>3. CASE Update!MoveLatest(t)
    BY <2>3 DEF Update!MoveLatest, UpdateInv, ReleaseInv, IsBuildOf
  <2> QED  BY <1>2, <2>1, <2>2, <2>3
<1>4. RunsInv'
  BY <1>1, <1>3 DEF UpdateInv, RunsInv
<1>5. AloneInv' /\ FilesInv'
  BY <1>1, <1>3 DEF UpdateInv, AloneInv, FilesInv, Binaries
<1> QED  BY <1>3, <1>4, <1>5 DEF UpdateInv


LEMMA StartKeepsUpdate ==
    ASSUME UpdateInv, NEW p \in Procs, NEW f \in BOOLEAN, NEW d \in BOOLEAN, Update!Start(p, f, d)
    PROVE  UpdateInv'
<1> USE DEF Update!Start, Update!At, Update!Goto, Update!release, Update!files, Update!run,
            UpdateInv
<1>1. ReleaseInv' /\ \A b, s : IsBuildOf(b, s)' <=> IsBuildOf(b, s)
  BY DEF ReleaseInv, IsBuildOf
<1>2. RunsInv'
  BY <1>1 DEF RunsInv, UpdateLabels, ReleaseInv
<1>3. AloneInv'
  <2> SUFFICES ASSUME ~overlapped' PROVE AloneInv'
    BY DEF AloneInv
  <2>1. /\ ~overlapped /\ UNCHANGED <<exe, old, killed>>
        /\ upc[p] = "off" /\ \A q \in Procs : q # p => upc'[q] = upc[q]
        /\ \A q \in Procs : q # p => upc[q] = "off"
    BY DEF AloneInv, RunsInv
  <2>2. exe # Update!None
    BY DEF AloneInv
  <2> QED  BY <2>1, <2>2 DEF AloneInv, Update!None
<1>4. FilesInv'
  BY <1>1 DEF FilesInv, Binaries, RunsInv, Update!None
<1> QED  BY <1>1, <1>2, <1>3, <1>4

LEMMA RecheckKeepsUpdate ==
    ASSUME UpdateInv, NEW p \in Procs, Update!Recheck(p)
    PROVE  UpdateInv'
<1> USE DEF Update!Recheck, Update!At, Update!Goto, Update!release, Update!files, Update!run,
            UpdateInv, Update!SameRelease
<1>1. ReleaseInv' /\ \A b, s : IsBuildOf(b, s)' <=> IsBuildOf(b, s)
  BY DEF ReleaseInv, IsBuildOf
<1>2. RunsInv'
  BY <1>1 DEF RunsInv, UpdateLabels, ReleaseInv
<1>3. AloneInv'
  BY <1>1 DEF AloneInv, RunsInv, UpdateLabels, FilesInv, Update!None
<1>4. FilesInv'
  BY <1>1 DEF FilesInv, Binaries, RunsInv, Update!None
<1> QED  BY <1>1, <1>2, <1>3, <1>4

LEMMA DownloadZipKeepsUpdate ==
    ASSUME UpdateInv, NEW p \in Procs, Update!DownloadZip(p)
    PROVE  UpdateInv'
<1> USE DEF Update!DownloadZip, Update!At, Update!Goto, Update!release, Update!files, Update!run,
            UpdateInv
<1>1. ReleaseInv' /\ \A b, s : IsBuildOf(b, s)' <=> IsBuildOf(b, s)
  BY DEF ReleaseInv, IsBuildOf
<1>2. RunsInv'
  BY <1>1 DEF RunsInv, UpdateLabels, ReleaseInv
<1>3. AloneInv'
  BY <1>1 DEF AloneInv, RunsInv, UpdateLabels, FilesInv, Update!None
<1>4. FilesInv'
  BY <1>1 DEF FilesInv, Binaries, RunsInv, Update!None
<1> QED  BY <1>1, <1>2, <1>3, <1>4

LEMMA DownloadSumsKeepsUpdate ==
    ASSUME UpdateInv, NEW p \in Procs, Update!DownloadSums(p)
    PROVE  UpdateInv'
<1> USE DEF Update!DownloadSums, Update!At, Update!Goto, Update!release, Update!files, Update!run,
            UpdateInv, Update!Verified
<1>1. ReleaseInv' /\ \A b, s : IsBuildOf(b, s)' <=> IsBuildOf(b, s)
  BY DEF ReleaseInv, IsBuildOf
<1>2. RunsInv'
  BY <1>1 DEF RunsInv, UpdateLabels, ReleaseInv
<1>3. AloneInv'
  BY <1>1 DEF AloneInv, RunsInv, UpdateLabels, FilesInv, Update!None
<1>4. FilesInv'
  BY <1>1 DEF FilesInv, Binaries, RunsInv, Update!None
<1> QED  BY <1>1, <1>2, <1>3, <1>4

LEMMA WriteTempKeepsUpdate ==
    ASSUME UpdateInv, NEW p \in Procs, Update!WriteTemp(p)
    PROVE  UpdateInv'
<1> USE DEF Update!WriteTemp, Update!At, Update!Goto, Update!release, Update!files, Update!run,
            UpdateInv
<1>1. ReleaseInv' /\ \A b, s : IsBuildOf(b, s)' <=> IsBuildOf(b, s)
  BY DEF ReleaseInv, IsBuildOf
<1>2. RunsInv'
  BY <1>1 DEF RunsInv, UpdateLabels, ReleaseInv
<1>3. AloneInv'
  BY <1>1 DEF AloneInv, RunsInv, UpdateLabels, FilesInv, Update!None
<1>4. FilesInv'
  BY <1>1 DEF FilesInv, Binaries, RunsInv, Update!None
<1> QED  BY <1>1, <1>2, <1>3, <1>4

LEMMA ClearOldKeepsUpdate ==
    ASSUME UpdateInv, NEW p \in Procs, Update!ClearOld(p)
    PROVE  UpdateInv'
<1> USE DEF Update!ClearOld, Update!At, Update!Goto, Update!release, Update!files, Update!run,
            UpdateInv
<1>1. ReleaseInv' /\ \A b, s : IsBuildOf(b, s)' <=> IsBuildOf(b, s)
  BY DEF ReleaseInv, IsBuildOf
<1>2. RunsInv'
  BY <1>1 DEF RunsInv, UpdateLabels, ReleaseInv
<1>3. AloneInv'
  BY <1>1 DEF AloneInv, RunsInv, UpdateLabels, FilesInv, Update!None
<1>4. FilesInv'
  BY <1>1 DEF FilesInv, Binaries, RunsInv, Update!None
<1> QED  BY <1>1, <1>2, <1>3, <1>4

LEMMA MoveAsideKeepsUpdate ==
    ASSUME UpdateInv, NEW p \in Procs, Update!MoveAside(p)
    PROVE  UpdateInv'
<1> USE DEF Update!MoveAside, Update!At, Update!Goto, Update!release, Update!files, Update!run,
            UpdateInv
<1>1. ReleaseInv' /\ \A b, s : IsBuildOf(b, s)' <=> IsBuildOf(b, s)
  BY DEF ReleaseInv, IsBuildOf
<1>2. RunsInv'
  BY <1>1 DEF RunsInv, UpdateLabels, ReleaseInv
<1>3. AloneInv'
  BY <1>1 DEF AloneInv, RunsInv, UpdateLabels, FilesInv, Update!None
<1>4. FilesInv'
  BY <1>1 DEF FilesInv, Binaries, RunsInv, Update!None
<1> QED  BY <1>1, <1>2, <1>3, <1>4

LEMMA MoveInKeepsUpdate ==
    ASSUME UpdateInv, NEW p \in Procs, Update!MoveIn(p)
    PROVE  UpdateInv'
<1> USE DEF Update!MoveIn, Update!At, Update!Goto, Update!release, Update!files, Update!run,
            UpdateInv
<1>1. ReleaseInv' /\ \A b, s : IsBuildOf(b, s)' <=> IsBuildOf(b, s)
  BY DEF ReleaseInv, IsBuildOf
<1>2. RunsInv'
  BY <1>1 DEF RunsInv, UpdateLabels, ReleaseInv
<1>5. IsBuildOf(tmp[p], shown[p]) /\ tmp[p] # Update!None
  BY DEF RunsInv, IsBuildOf, ReleaseInv, Update!None
<1>3. AloneInv'
  BY <1>5 DEF AloneInv, RunsInv, UpdateLabels, FilesInv, Update!None
<1>4. FilesInv'
  <2> DEFINE i == [agreed |-> shown[p], build |-> tmp[p]]
  <2>1. i.build = tmp[p] /\ i.agreed = shown[p] /\ exe' = tmp[p] /\ old' = old
        /\ installs' = installs \cup {i} /\ windows' = windows
    OBVIOUS
  <2> HIDE DEF i
  <2>2. exe' \in Binaries' /\ old' \in Binaries'
    BY <2>1 DEF FilesInv, Binaries
  <2>3. \A j \in installs' : IsBuildOf(j.build, j.agreed)'
    BY <2>1, <1>1, <1>5 DEF FilesInv
  <2> QED  BY <2>1, <2>2, <2>3, <1>5 DEF FilesInv
<1> QED  BY <1>1, <1>2, <1>3, <1>4

LEMMA FailKeepsUpdate ==
    ASSUME UpdateInv, NEW p \in Procs, Update!Fail(p)
    PROVE  UpdateInv'
<1> USE DEF Update!Fail, Update!At, Update!Goto, Update!release, Update!files, Update!run,
            UpdateInv, Update!Restores
<1>1. ReleaseInv' /\ \A b, s : IsBuildOf(b, s)' <=> IsBuildOf(b, s)
  BY DEF ReleaseInv, IsBuildOf
<1>2. RunsInv'
  BY <1>1 DEF RunsInv, UpdateLabels, ReleaseInv
<1>3. AloneInv'
  BY <1>1 DEF AloneInv, RunsInv, UpdateLabels, FilesInv, Update!None
<1>4. FilesInv'
  BY <1>1 DEF FilesInv, Binaries, RunsInv, Update!None
<1> QED  BY <1>1, <1>2, <1>3, <1>4

LEMMA KilledKeepsUpdate ==
    ASSUME UpdateInv, NEW p \in Procs, Update!Killed(p)
    PROVE  UpdateInv'
<1> USE DEF Update!Killed, Update!At, Update!Goto, Update!release, Update!files, Update!run,
            UpdateInv
<1>1. ReleaseInv' /\ \A b, s : IsBuildOf(b, s)' <=> IsBuildOf(b, s)
  BY DEF ReleaseInv, IsBuildOf
<1>2. RunsInv'
  BY <1>1 DEF RunsInv, UpdateLabels, ReleaseInv
<1>3. AloneInv'
  BY <1>1 DEF AloneInv, RunsInv, UpdateLabels, FilesInv, Update!None
<1>4. FilesInv'
  BY <1>1 DEF FilesInv, Binaries, RunsInv, Update!None
<1> QED  BY <1>1, <1>2, <1>3, <1>4

LEMMA UpdateNext ==
    ASSUME UpdateInv, [Update!Next]_(Update!vars)
    PROVE  UpdateInv'
<1>1. CASE Update!Publish
  BY <1>1, PublishKeepsUpdate
<1>2. ASSUME NEW p \in Procs, NEW f \in BOOLEAN, NEW d \in BOOLEAN, Update!Start(p, f, d)
      PROVE  UpdateInv'
  BY <1>2, StartKeepsUpdate
<1>3. ASSUME NEW p \in Procs,
             \/ Update!Recheck(p) \/ Update!DownloadZip(p) \/ Update!DownloadSums(p)
             \/ Update!WriteTemp(p) \/ Update!ClearOld(p) \/ Update!MoveAside(p)
             \/ Update!MoveIn(p) \/ Update!Fail(p) \/ Update!Killed(p)
      PROVE  UpdateInv'
  BY <1>3, RecheckKeepsUpdate, DownloadZipKeepsUpdate, DownloadSumsKeepsUpdate,
     WriteTempKeepsUpdate, ClearOldKeepsUpdate, MoveAsideKeepsUpdate, MoveInKeepsUpdate,
     FailKeepsUpdate, KilledKeepsUpdate
<1>4. CASE UNCHANGED Update!vars
  BY <1>4 DEF Update!vars, Update!release, Update!files, Update!run, UpdateInv, ReleaseInv,
              RunsInv, AloneInv, FilesInv, Binaries, IsBuildOf
<1> QED  BY <1>1, <1>2, <1>3, <1>4 DEF Update!Next

(***************************************************************************)
(* What the updater installs was published whole under the tag the owner   *)
(* agreed to, and an update that fails leaves an executable: for any       *)
(* number of updaters and releases, wherever one is killed.                *)
(***************************************************************************)
THEOREM TheBinarySurvives == ServicesSpec => []BinarySurvives
<1> DEFINE Inv == part = "update" => UpdateInv
<1>1. ServicesInit => Inv
  BY UpdateInit DEF ServicesInit
<1>2. Inv /\ [ServicesNext]_servicesVars => Inv'
  <2> SUFFICES ASSUME Inv, [ServicesNext]_servicesVars, part' = "update" PROVE UpdateInv'
    OBVIOUS
  <2>1. part = "update" /\ [Update!Next]_(Update!vars)
    BY DEF ServicesNext, servicesVars, updateVars, Update!vars, Update!release, Update!files,
           Update!run
  <2> QED  BY <2>1, UpdateNext
<1>3. Inv => BinarySurvives
  BY DEF BinarySurvives, Update!BinarySurvives, UpdateInv, FilesInv, Binaries, AloneInv,
         IsBuildOf, Update!At
<1> QED  BY <1>1, <1>2, <1>3, PTL DEF ServicesSpec

-----------------------------------------------------------------------------
(***************************************************************************)
(* The wizard: what a step accepted is there at every later step, whatever *)
(* the owner went back to.                                                 *)
(***************************************************************************)
WizardSteps == {"Welcome", "Telegram", "LLM", "Broker", "Intake", "Safety", "Done"}
AfterBroker == {"Intake", "Safety", "Done"}
AfterLLM == {"Broker"} \cup AfterBroker
AfterTelegram == {"LLM"} \cup AfterLLM

KeyFits == llm # "oauth-gpt" => llmKey = llm
SecretFits == brokerKey # Wizards!None /\ brokerSecret = brokerKey

PromptsInv ==
    /\ step \in WizardSteps /\ llm \in Wizards!LLMChoices
    /\ llmKeyPhase \in BOOLEAN /\ brokerSecretPhase \in BOOLEAN
    /\ llmKeyPhase => step = "LLM"
    /\ brokerSecretPhase => step = "Broker" /\ brokerKey # Wizards!None
    /\ step = "Telegram" => input \in {Wizards!Blank, "bad", "token"}
    /\ step = "Broker" => input \in {Wizards!Blank, "bad", "old", "new"}

AcceptedInv == /\ step \in AfterTelegram => telegram # Wizards!None
               /\ step \in AfterLLM => KeyFits
               /\ step \in AfterBroker => SecretFits

WizardInv == PromptsInv /\ AcceptedInv /\ Wizards!SetupIsWhole

(* advance and back go through the steps in their order. *)
LEMMA StepsInOrder ==
    /\ step = "Welcome" /\ Wizards!Advance => step' = "Telegram"
    /\ step = "Telegram" /\ Wizards!Advance => step' = "LLM"
    /\ step = "LLM" /\ Wizards!Advance => step' = "Broker"
    /\ step = "Broker" /\ Wizards!Advance => step' = "Intake"
    /\ step = "Intake" /\ Wizards!Advance => step' = "Safety"
    /\ step = "Safety" /\ Wizards!Advance => step' = "Done"
    /\ step \in WizardSteps \ {"Welcome"} =>
           LET before == Wizards!stepOrder[Wizards!Pos(step) - 1] IN
           /\ before \in WizardSteps
           /\ before \in AfterTelegram => step \in AfterTelegram
           /\ before \in AfterLLM => step \in AfterLLM
           /\ before \in AfterBroker => step \in AfterBroker
<1> USE DEF Wizards!stepOrder
<1>1. /\ DOMAIN Wizards!stepOrder = 1..7
      /\ Wizards!stepOrder[1] = "Welcome" /\ Wizards!stepOrder[2] = "Telegram"
      /\ Wizards!stepOrder[3] = "LLM" /\ Wizards!stepOrder[4] = "Broker"
      /\ Wizards!stepOrder[5] = "Intake" /\ Wizards!stepOrder[6] = "Safety"
      /\ Wizards!stepOrder[7] = "Done"
  OBVIOUS
<1> USE DEF Wizards!Pos
<1> HIDE DEF Wizards!stepOrder
<1>2. /\ Wizards!Pos("Welcome") = 1 /\ Wizards!Pos("Telegram") = 2 /\ Wizards!Pos("LLM") = 3
      /\ Wizards!Pos("Broker") = 4 /\ Wizards!Pos("Intake") = 5 /\ Wizards!Pos("Safety") = 6
      /\ Wizards!Pos("Done") = 7
  <2>1. ASSUME NEW i \in 1..7
        PROVE  Wizards!Pos(Wizards!stepOrder[i]) = i
    <3>1. \A j \in 1..7 : Wizards!stepOrder[j] = Wizards!stepOrder[i] => j = i
      BY <1>1
    <3> QED  BY <1>1, <3>1
  <2> HIDE DEF Wizards!Pos
  <2> QED  BY <1>1, <2>1
<1> HIDE DEF Wizards!Pos
<1>3. 1 + 1 = 2 /\ 2 + 1 = 3 /\ 3 + 1 = 4 /\ 4 + 1 = 5 /\ 5 + 1 = 6 /\ 6 + 1 = 7
  OBVIOUS
<1>4. Wizards!Advance => step' = Wizards!stepOrder[Wizards!Pos(step) + 1]
  BY DEF Wizards!Advance
<1>5. step \in WizardSteps \ {"Welcome"} =>
          LET before == Wizards!stepOrder[Wizards!Pos(step) - 1] IN
          /\ before \in WizardSteps
          /\ before \in AfterTelegram => step \in AfterTelegram
          /\ before \in AfterLLM => step \in AfterLLM
          /\ before \in AfterBroker => step \in AfterBroker
  BY <1>1, <1>2 DEF WizardSteps, AfterTelegram, AfterLLM, AfterBroker
<1> QED  BY <1>1, <1>2, <1>3, <1>4, <1>5

LEMMA WizardInit == Wizards!Init => WizardInv
BY DEF Wizards!Init, WizardInv, PromptsInv, AcceptedInv, Wizards!SetupIsWhole, WizardSteps,
       AfterTelegram, AfterLLM, AfterBroker, Wizards!LLMChoices

LEMMA KeyKeepsWizard ==
    ASSUME WizardInv, Wizards!Key
    PROVE  WizardInv'
<1> USE DEF WizardInv, PromptsInv, AcceptedInv, KeyFits, SecretFits, Wizards!SetupIsWhole, WizardSteps,
            AfterTelegram, AfterLLM, AfterBroker, Wizards!accepted,
            Wizards!Stay
<1>1. CASE Wizards!Type
  BY <1>1 DEF Wizards!Type, Wizards!Lines
<1>2. CASE Wizards!Erase
  BY <1>2 DEF Wizards!Erase
<1>3. CASE Wizards!EnterWelcome
  BY <1>3, StepsInOrder DEF Wizards!EnterWelcome, Wizards!Advance
<1>4. CASE Wizards!EnterTelegram
  BY <1>4, StepsInOrder DEF Wizards!EnterTelegram, Wizards!Advance, Wizards!None
<1>5. CASE Wizards!EnterLLMKey
  BY <1>5, StepsInOrder DEF Wizards!EnterLLMKey, Wizards!Advance
<1>6. CASE Wizards!EnterBrokerKey
  BY <1>6, StepsInOrder DEF Wizards!EnterBrokerKey, Wizards!None
<1>7. CASE Wizards!EnterBrokerSecret
  BY <1>7, StepsInOrder DEF Wizards!EnterBrokerSecret, Wizards!Advance
<1>8. CASE Wizards!EnterAnswer
  BY <1>8, StepsInOrder DEF Wizards!EnterAnswer, Wizards!Advance
<1>9. CASE Wizards!LeaveIntake
  BY <1>9, StepsInOrder DEF Wizards!LeaveIntake, Wizards!Advance
<1>10. CASE Wizards!EnterSafety
  BY <1>10, StepsInOrder DEF Wizards!EnterSafety, Wizards!Advance
<1>11. ASSUME NEW c \in Wizards!LLMChoices, Wizards!EnterLLM(c) PROVE WizardInv'
  BY <1>11, StepsInOrder DEF Wizards!EnterLLM, Wizards!NeedsKey, Wizards!LLMChoices, Wizards!Advance
<1>12. CASE Wizards!Esc
  <2> USE DEF Wizards!Esc, Wizards!LeavesPrompt
  <2>1. CASE llmKeyPhase \/ brokerSecretPhase
    BY <1>12, <2>1
  <2>2. CASE ~(llmKeyPhase \/ brokerSecretPhase) /\ step = "Intake" /\ intakeIdx > 1
    BY <1>12, <2>2
  <2>3. CASE ~(llmKeyPhase \/ brokerSecretPhase) /\ step = "Welcome"
    BY <1>12, <2>3
  <2>4. CASE /\ ~(llmKeyPhase \/ brokerSecretPhase) /\ step # "Welcome"
             /\ ~(step = "Intake" /\ intakeIdx > 1)
    <3>1. PICK before : before = Wizards!stepOrder[Wizards!Pos(step) - 1]
      OBVIOUS
    <3>2. /\ before \in WizardSteps
          /\ before \in AfterTelegram => step \in AfterTelegram
          /\ before \in AfterLLM => step \in AfterLLM
          /\ before \in AfterBroker => step \in AfterBroker
      BY <2>4, <3>1, StepsInOrder
    <3>3. step' = before /\ input' = Wizards!Blank /\ UNCHANGED <<llmKey, llmKeyPhase, brokerSecretPhase>>
      BY <1>12, <2>4, <3>1
    <3>4. UNCHANGED <<llm, telegram, brokerKey, brokerSecret, result, done>>
      BY <1>12
    <3> QED  BY <2>4, <3>2, <3>3, <3>4
  <2> QED  BY <2>1, <2>2, <2>3, <2>4
<1> QED  BY <1>1, <1>2, <1>3, <1>4, <1>5, <1>6, <1>7, <1>8, <1>9, <1>10, <1>11, <1>12 DEF Wizards!Key

LEMMA WizardNext ==
    ASSUME WizardInv, [Wizards!Next]_(Wizards!vars)
    PROVE  WizardInv'
<1>1. CASE Wizards!Key
  BY <1>1, KeyKeepsWizard
<1>2. CASE Wizards!CtrlC \/ UNCHANGED Wizards!vars
  BY <1>2 DEF Wizards!CtrlC, Wizards!vars, Wizards!accepted, WizardInv, PromptsInv, AcceptedInv,
              KeyFits, SecretFits, Wizards!SetupIsWhole
<1> QED  BY <1>1, <1>2 DEF Wizards!Next

(***************************************************************************)
(* A finished setup is whole, whatever the owner went back to and changed: *)
(* its key belongs to its backend, its secret to its broker key, and its   *)
(* answers build a playbook, for any number of times the owner goes back.  *)
(***************************************************************************)
THEOREM FinishedSetupIsWhole == ServicesSpec => []SetupIsWhole
<1> DEFINE Inv == part = "wizard" => WizardInv
<1>1. ServicesInit => Inv
  BY WizardInit DEF ServicesInit
<1>2. Inv /\ [ServicesNext]_servicesVars => Inv'
  <2> SUFFICES ASSUME Inv, [ServicesNext]_servicesVars, part' = "wizard" PROVE WizardInv'
    OBVIOUS
  <2>1. part = "wizard" /\ [Wizards!Next]_(Wizards!vars)
    BY DEF ServicesNext, servicesVars, wizardVars, Wizards!vars, Wizards!accepted
  <2> QED  BY <2>1, WizardNext
<1>3. Inv => SetupIsWhole
  BY DEF SetupIsWhole, WizardInv
<1> QED  BY <1>1, <1>2, <1>3, PTL DEF ServicesSpec

-----------------------------------------------------------------------------
(***************************************************************************)
(* The kernel: the calls made so far and the calls the running drain still *)
(* has to make are all the calls due, and the guard keeps the drain alone. *)
(***************************************************************************)
KEvents == [id : Nat, topic : Topics, ts : Int, quote : BOOLEAN]
KFrames == [event : KEvents \cup {Kernel!NoEvent}, todo : Seq(Handlers), calling : BOOLEAN]
KCalls == [id : Nat, handler : Handlers, quote : BOOLEAN, seen : Nat]

CallsOf(n, hs) == [i \in DOMAIN hs |-> <<n, hs[i]>>]
Running == IF frames = <<>> THEN Kernel!NewFrame ELSE frames[1]

KernelTypes ==
    /\ queue \in Seq(KEvents) /\ due \in Seq(Seq(Handlers)) /\ log \in Seq(KCalls)
    /\ subscribers \in [Topics -> Seq(Handlers)] /\ cache \in [Topics -> Nat]
    /\ now \in Int /\ published \in Nat /\ dispatching \in BOOLEAN /\ crashed \in BOOLEAN
    /\ Running \in KFrames
FramesInv == /\ frames = <<>> \/ frames = <<Running>>
             /\ dispatching <=> frames # <<>>
             /\ crashed => frames = <<>>
CallsInv == /\ Kernel!AllDue = Kernel!CallsMade \o CallsOf(Len(due), Running.todo)
            /\ Running.todo # <<>> => Running.event \in KEvents /\ Running.event.id = Len(due)
QueueInv == ~crashed => /\ published = Len(due) + Len(queue)
                        /\ \A k \in DOMAIN queue : queue[k].id = Len(due) + k
                        /\ frames = <<>> => queue = <<>>
Cached(e) == e.quote => cache[e.topic] = e.id
QuotesInv == /\ \A k \in DOMAIN queue : Cached(queue[k])
             /\ Running.todo # <<>> => Cached(Running.event)
             /\ \A i \in DOMAIN log : log[i].quote => log[i].seen = log[i].id

KernelInv == KernelTypes /\ FramesInv /\ CallsInv /\ QueueInv /\ QuotesInv

(* The kernel's helpers are those of the libraries. *)
LEMMA KernelHelpers ==
    /\ \A s : Kernel!FlattenSeq(s) = FlattenSeq(s) /\ Kernel!Last(s) = Last(s)
              /\ Kernel!Front(s) = Front(s)
    /\ \A s, t : Kernel!IsPrefix(s, t) = IsPrefix(s, t)
<1>1. \A s : Kernel!FlattenSeq(s) = FlattenSeq(s)
  BY DEF Kernel!FlattenSeq, FlattenSeq
<1>2. \A s : Kernel!Last(s) = Last(s) /\ Kernel!Front(s) = Front(s)
  BY DEF Kernel!Last, Last, Kernel!Front, Front
<1>3. \A s, t : Kernel!IsPrefix(s, t) = IsPrefix(s, t)
  BY DEF Kernel!IsPrefix, IsPrefix
<1> QED  BY <1>1, <1>2, <1>3

LEMMA NoFrame == Kernel!NewFrame \in KFrames /\ Kernel!NewFrame.todo = <<>>
                 /\ Kernel!NewFrame.calling = FALSE /\ Kernel!NoEvent.quote = FALSE
<1>1. <<>> \in Seq(Handlers)
  OBVIOUS
<1> QED  BY <1>1 DEF Kernel!NewFrame, KFrames, Kernel!NoEvent, Kernel!Event

(* The frame of a running drain, and the frame that takes its place. *)
LEMMA TheFrame ==
    ASSUME KernelInv, ~Kernel!Idle
    PROVE  /\ frames = <<Running>> /\ Kernel!Frame = Running /\ ~crashed /\ dispatching
           /\ \A f : Kernel!Inner(f) = <<f>>
           /\ Running \in KFrames
<1>1. frames = <<Running>> /\ ~crashed /\ dispatching /\ Running \in KFrames
  BY DEF KernelInv, FramesInv, KernelTypes, Kernel!Idle
<1>2. Len(frames) = 1 /\ frames[1] = Running
  BY <1>1
<1>3. Kernel!Frame = Running
  BY <1>2, KernelHelpers DEF Kernel!Frame, Last
<1>4. ASSUME NEW f PROVE Kernel!Inner(f) = <<f>>
  BY <1>1, <1>2 DEF Kernel!Inner
<1> QED  BY <1>1, <1>3, <1>4

LEMMA TableIsSeq ==
    ASSUME NEW S, NEW n \in Nat, NEW f \in [1..n -> S]
    PROVE  f \in Seq(S) /\ Len(f) = n /\ DOMAIN f = 1..n
OBVIOUS

LEMMA CallsOfType ==
    ASSUME NEW m \in Nat, NEW l \in Seq(Handlers)
    PROVE  CallsOf(m, l) \in Seq(Nat \X Handlers) /\ Len(CallsOf(m, l)) = Len(l)
<1>1. PICK n \in Nat : n = Len(l)
  OBVIOUS
<1>2. DOMAIN l = 1..n /\ \A i \in 1..n : <<m, l[i]>> \in Nat \X Handlers
  BY <1>1
<1>3. PICK f : f = CallsOf(m, l)
  OBVIOUS
<1>4. f = [i \in 1..n |-> f[i]] /\ \A i \in 1..n : f[i] = <<m, l[i]>>
  BY <1>2, <1>3 DEF CallsOf
<1>5. f \in [1..n -> Nat \X Handlers]
  BY <1>2, <1>4
<1>6. f \in Seq(Nat \X Handlers) /\ Len(f) = n
  BY <1>5, TableIsSeq
<1> QED  BY <1>1, <1>3, <1>6

(* What an event and a subscriber's call add to the calls due and made. *)
LEMMA DueGrows ==
    ASSUME due \in Seq(Seq(Handlers)), NEW hs \in Seq(Handlers), due' = Append(due, hs)
    PROVE  Kernel!AllDue' = Kernel!AllDue \o CallsOf(Len(due) + 1, hs)
<1> DEFINE T == Nat \X Handlers
           rows0 == [i \in DOMAIN due |-> Kernel!CallsDue(i)]
<1>1. PICK n \in Nat : n = Len(due)
  OBVIOUS
<1>2. /\ due' \in Seq(Seq(Handlers)) /\ Len(due') = n + 1 /\ DOMAIN due' = 1..n + 1
      /\ DOMAIN due = 1..n /\ due'[n + 1] = hs /\ \A i \in 1..n : due'[i] = due[i]
  BY <1>1
<1>3. ASSUME NEW m \in Nat, NEW l \in Seq(Handlers) PROVE CallsOf(m, l) \in Seq(T)
  BY <1>3, CallsOfType
<1>4. PICK s : s = rows0
  OBVIOUS
<1>5. \A i \in 1..n : s[i] = CallsOf(i, due[i])
  BY <1>2, <1>4 DEF Kernel!CallsDue, CallsOf
<1>6. s \in Seq(Seq(T)) /\ Len(s) = n /\ DOMAIN s = 1..n
  <2>1. \A i \in 1..n : due[i] \in Seq(Handlers)
    BY <1>2
  <2>2. s = [i \in 1..n |-> s[i]]
    BY <1>2, <1>4
  <2>3. ASSUME NEW i \in 1..n PROVE s[i] \in Seq(T)
    <3>1. s[i] = CallsOf(i, due[i]) /\ i \in Nat /\ due[i] \in Seq(Handlers)
      BY <1>5, <2>1
    <3> QED  BY <3>1, <1>3
  <2> HIDE DEF T
  <2>4. s \in [1..n -> Seq(T)]
    BY <2>2, <2>3
  <2> QED  BY <2>4, TableIsSeq
<1>7. PICK x \in Seq(T) : x = CallsOf(n + 1, hs)
  BY <1>3
<1>8. [i \in DOMAIN due' |-> Kernel!CallsDue(i)'] = Append(s, x)
  <2>1. ASSUME NEW i \in 1..n + 1 PROVE Kernel!CallsDue(i)' = CallsOf(i, due'[i])
    BY DEF Kernel!CallsDue, CallsOf
  <2>2. PICK a : a = Append(s, x)
    OBVIOUS
  <2>3. a \in Seq(Seq(T)) /\ Len(a) = n + 1 /\ a[n + 1] = x /\ \A i \in 1..n : a[i] = s[i]
    BY <2>2, <1>6
  <2>4. a = [i \in 1..n + 1 |-> a[i]]
    BY <2>3
  <2>5. \A i \in 1..n + 1 : a[i] = CallsOf(i, due'[i])
    <3>0. PICK m \in Nat : m = n + 1
      OBVIOUS
    <3>1. \A i \in 1..n : a[i] = CallsOf(i, due'[i])
      BY <2>3, <1>2, <1>5
    <3>2. a[m] = CallsOf(m, due'[m])
      BY <3>0, <2>3, <1>2, <1>7
    <3>3. \A i \in 1..n + 1 : i \in 1..n \/ i = m
      BY <3>0
    <3> QED  BY <3>1, <3>2, <3>3
  <2> QED  BY <1>2, <2>1, <2>2, <2>4, <2>5
<1>9. Kernel!AllDue = FlattenSeq(s) /\ Kernel!AllDue' = FlattenSeq(Append(s, x))
  BY <1>4, <1>8, KernelHelpers DEF Kernel!AllDue
<1> QED  BY <1>1, <1>6, <1>7, <1>9, FlattenAppend

LEMMA LogGrows ==
    ASSUME log \in Seq(KCalls), NEW c \in KCalls, log' = Append(log, c)
    PROVE  Kernel!CallsMade' = Append(Kernel!CallsMade, <<c.id, c.handler>>)
           /\ Kernel!CallsMade \in Seq(Nat \X Handlers)
<1>1. PICK n \in Nat : n = Len(log)
  OBVIOUS
<1>2. /\ log' \in Seq(KCalls) /\ DOMAIN log' = 1..n + 1 /\ DOMAIN log = 1..n
      /\ log'[n + 1] = c /\ \A i \in 1..n : log'[i] = log[i]
  BY <1>1
<1>3. PICK s : s = [i \in 1..n |-> <<log[i].id, log[i].handler>>]
  OBVIOUS
<1>4. s \in Seq(Nat \X Handlers) /\ Len(s) = n
  <2>1. \A i \in 1..n : log[i] \in KCalls
    BY <1>1
  <2>2. \A i \in 1..n : <<log[i].id, log[i].handler>> \in Nat \X Handlers
    BY <2>1 DEF KCalls
  <2> QED  BY <2>2, <1>3
<1>5. PICK a : a = Append(s, <<c.id, c.handler>>)
  OBVIOUS
<1>6. a = [i \in 1..n + 1 |-> a[i]] /\ a[n + 1] = <<c.id, c.handler>>
      /\ \A i \in 1..n : a[i] = s[i]
  BY <1>4, <1>5
<1>7. a = [i \in 1..n + 1 |-> <<log'[i].id, log'[i].handler>>]
  <2>1. \A i \in 1..n + 1 : a[i] = <<log'[i].id, log'[i].handler>>
    <3>0. PICK m \in Nat : m = n + 1
      OBVIOUS
    <3>1. \A i \in 1..n : a[i] = <<log'[i].id, log'[i].handler>>
      BY <1>2, <1>3, <1>6
    <3>2. a[m] = <<log'[m].id, log'[m].handler>>
      BY <3>0, <1>2, <1>6
    <3>3. \A i \in 1..n + 1 : i \in 1..n \/ i = m
      BY <3>0
    <3> QED  BY <3>1, <3>2, <3>3
  <2> QED  BY <2>1, <1>6
<1> QED  BY <1>2, <1>3, <1>4, <1>5, <1>7 DEF Kernel!CallsMade

(* The calls made are a sequence, and one call due moves over to them. *)
LEMMA MadeType ==
    ASSUME log \in Seq(KCalls)
    PROVE  Kernel!CallsMade \in Seq(Nat \X Handlers)
<1>1. PICK n \in Nat : n = Len(log)
  OBVIOUS
<1>2. DOMAIN log = 1..n /\ \A i \in 1..n : log[i] \in KCalls
  BY <1>1
<1>3. \A i \in 1..n : <<log[i].id, log[i].handler>> \in Nat \X Handlers
  BY <1>2 DEF KCalls
<1>4. PICK f : f = Kernel!CallsMade
  OBVIOUS
<1>5. f = [i \in 1..n |-> <<log[i].id, log[i].handler>>]
  BY <1>2, <1>4 DEF Kernel!CallsMade
<1>6. f \in [1..n -> Nat \X Handlers]
  BY <1>3, <1>5
<1> QED  BY <1>4, <1>6, TableIsSeq

LEMMA OneMoved ==
    ASSUME NEW n \in Nat, NEW hs \in Seq(Handlers), hs # <<>>, NEW s \in Seq(Nat \X Handlers)
    PROVE  s \o CallsOf(n, hs) = Append(s, <<n, Head(hs)>>) \o CallsOf(n, Tail(hs))
<1>0. PICK T : T = Nat \X Handlers
  OBVIOUS
<1>1. PICK k \in Nat : k = Len(hs)
  OBVIOUS
<1>2. /\ k >= 1 /\ DOMAIN hs = 1..k /\ Head(hs) = hs[1] /\ Head(hs) \in Handlers
      /\ Tail(hs) \in Seq(Handlers) /\ Len(Tail(hs)) = k - 1 /\ DOMAIN Tail(hs) = 1..k - 1
      /\ \A i \in 1..k - 1 : Tail(hs)[i] = hs[i + 1]
  BY <1>1
<1>3. PICK r : r = CallsOf(n, hs)
  OBVIOUS
<1>4. PICK q : q = CallsOf(n, Tail(hs))
  OBVIOUS
<1>5. PICK x : x = <<n, Head(hs)>>
  OBVIOUS
<1>6. /\ s \in Seq(T) /\ x \in T /\ r \in Seq(T) /\ q \in Seq(T)
      /\ Len(r) = k /\ Len(q) = k - 1
  BY <1>0, <1>1, <1>2, <1>3, <1>4, <1>5, CallsOfType
<1>7. r[1] = x
  BY <1>2, <1>3, <1>5 DEF CallsOf
<1>8. \A i \in 1..k - 1 : q[i] = r[i + 1]
  <2> TAKE i \in 1..k - 1
  <2>1. i + 1 \in 1..k
    BY <1>2
  <2>2. r[i + 1] = <<n, hs[i + 1]>> /\ q[i] = <<n, Tail(hs)[i]>>
    BY <1>2, <1>3, <1>4, <2>1 DEF CallsOf
  <2> QED  BY <2>2, <1>2
<1>9. s \o r = Append(s, x) \o q
  <2>1. FollowsFirst(q, r)
    BY <1>2, <1>6, <1>8 DEF FollowsFirst
  <2>2. s \in Seq(T) /\ r \in Seq(T) /\ q \in Seq(T) /\ x \in T
    BY <1>6
  <2>3. r[1] = x
    BY <1>7
  <2> QED  BY ONLY <2>1, <2>2, <2>3, MovedOver, SMT
<1> QED  BY <1>3, <1>4, <1>5, <1>9

LEMMA KernelInit == Kernel!Init => KernelInv
<1> SUFFICES ASSUME Kernel!Init PROVE KernelInv
  OBVIOUS
<1> USE DEF Kernel!Init
<1>1. Running = Kernel!NewFrame
  BY DEF Running
<1>2. /\ <<>> \in Seq(KEvents) /\ <<>> \in Seq(Seq(Handlers)) /\ <<>> \in Seq(KCalls)
      /\ \A h \in Handlers : <<h>> \in Seq(Handlers)
  OBVIOUS
<1>3. subscribers \in [Topics -> Seq(Handlers)]
  BY <1>2
<1>4. KernelTypes
  <2>1. cache \in [Topics -> Nat] /\ now \in Int /\ published \in Nat
    OBVIOUS
  <2>2. Running \in KFrames
    BY <1>1, NoFrame
  <2> QED  BY <1>2, <1>3, <2>1, <2>2 DEF KernelTypes
<1>5. Kernel!AllDue = <<>> /\ Kernel!CallsMade = <<>> /\ CallsOf(Len(due), Running.todo) = <<>>
  <2>1. \A f : [i \in DOMAIN <<>> |-> f] = <<>>
    OBVIOUS
  <2>2. Kernel!CallsMade = <<>> /\ CallsOf(Len(due), Running.todo) = <<>>
    BY <1>1, NoFrame DEF Kernel!CallsMade, CallsOf
  <2>3. [id \in DOMAIN due |-> Kernel!CallsDue(id)] = <<>>
    OBVIOUS
  <2>4. FlattenSeq(<<>>) = <<>>
    BY DEF FlattenSeq
  <2> QED  BY <2>2, <2>3, <2>4, KernelHelpers DEF Kernel!AllDue
<1>6. CallsInv
  <2>1. <<>> \o <<>> = <<>>
    OBVIOUS
  <2> QED  BY <1>1, <1>5, <2>1, NoFrame DEF CallsInv
<1>7. FramesInv /\ QueueInv /\ QuotesInv
  BY <1>1, NoFrame DEF FramesInv, QueueInv, QuotesInv
<1> QED  BY <1>4, <1>6, <1>7 DEF KernelInv

LEMMA CallsStay ==
    /\ UNCHANGED due => UNCHANGED Kernel!AllDue
    /\ UNCHANGED log => UNCHANGED Kernel!CallsMade
BY DEF Kernel!AllDue, Kernel!CallsDue, Kernel!CallsMade

(* An event joins the queue with the next number. *)
LEMMA PublishAppends ==
    ASSUME KernelInv, NEW t \in Topics, NEW ts \in Int, NEW q \in BOOLEAN,
           Kernel!Publish(t, ts, q)
    PROVE  \E e \in KEvents :
               /\ e.id = published + 1 /\ e.topic = t /\ e.quote = q
               /\ queue' = Append(queue, e) /\ queue' \in Seq(KEvents)
               /\ Len(queue') = Len(queue) + 1 /\ DOMAIN queue' = 1..Len(queue) + 1
               /\ DOMAIN queue = 1..Len(queue) /\ Len(queue) \in Nat
               /\ queue'[Len(queue) + 1] = e
               /\ \A k \in 1..Len(queue) : queue'[k] = queue[k]
<1>1. PICK e : e = Kernel!Event(published', t, ts, q)
  OBVIOUS
<1>2. e \in KEvents /\ e.id = published + 1 /\ e.topic = t /\ e.quote = q
  BY <1>1 DEF Kernel!Publish, Kernel!Event, KEvents, KernelInv, KernelTypes
<1>3. queue' = Append(queue, e) /\ queue \in Seq(KEvents)
  BY <1>1 DEF Kernel!Publish, KernelInv, KernelTypes
<1>4. /\ queue' \in Seq(KEvents)
      /\ Len(queue') = Len(queue) + 1 /\ DOMAIN queue' = 1..Len(queue) + 1
      /\ DOMAIN queue = 1..Len(queue) /\ Len(queue) \in Nat
      /\ queue'[Len(queue) + 1] = e
      /\ \A k \in 1..Len(queue) : queue'[k] = queue[k]
  BY <1>2, <1>3
<1> QED  BY <1>2, <1>3, <1>4

LEMMA IngestKeepsKernel ==
    ASSUME KernelInv, ~crashed, NEW t \in Topics, NEW q \in BOOLEAN, NEW ts \in Int,
           Kernel!Ingest(t, q, ts)
    PROVE  KernelInv'
<1>1. /\ frames = <<>> /\ queue = <<>> /\ Running = Kernel!NewFrame /\ dispatching = FALSE
      /\ Kernel!Publish(t, ts, q) /\ UNCHANGED <<subscribers, now, due, log, crashed>>
      /\ cache' = IF q THEN [cache EXCEPT ![t] = published + 1] ELSE cache
      /\ published' = published + 1
  BY DEF Kernel!Ingest, Kernel!Idle, KernelInv, QueueInv, FramesInv, KernelTypes, Running,
         Kernel!Put, Kernel!Publish
<1>2. PICK e \in KEvents : /\ e.id = published + 1 /\ e.topic = t /\ e.quote = q
               /\ queue' = Append(queue, e) /\ queue' \in Seq(KEvents)
               /\ Len(queue') = Len(queue) + 1 /\ DOMAIN queue' = 1..Len(queue) + 1
               /\ DOMAIN queue = 1..Len(queue) /\ Len(queue) \in Nat
               /\ queue'[Len(queue) + 1] = e
  BY <1>1, PublishAppends
<1>3. frames' = <<Kernel!NewFrame>> /\ dispatching' = TRUE
  <2>1. frames' = Append(frames, Kernel!NewFrame) /\ dispatching' = TRUE
    BY <1>1 DEF Kernel!Ingest, Kernel!EnterDrain, Kernel!MayDrain
  <2> QED  BY <1>1, <2>1
<1>4. Running' = Kernel!NewFrame
  <2>1. frames' # <<>> /\ frames'[1] = Kernel!NewFrame
    BY <1>3
  <2> QED  BY <2>1 DEF Running
<1>5. Len(queue) = 0
  BY <1>1
<1>6. KernelTypes'
  BY <1>1, <1>2, <1>3, <1>4, NoFrame DEF KernelInv, KernelTypes
<1>7. FramesInv' /\ CallsInv'
  BY <1>1, <1>3, <1>4, CallsStay, NoFrame DEF KernelInv, FramesInv, CallsInv
<1>8. QueueInv'
  BY <1>1, <1>2, <1>3, <1>5 DEF KernelInv, QueueInv, KernelTypes
<1>9. QuotesInv'
  BY <1>1, <1>2, <1>4, <1>5, NoFrame DEF KernelInv, QuotesInv, Cached, KernelTypes
<1> QED  BY <1>6, <1>7, <1>8, <1>9 DEF KernelInv

(* A handler's own event, published or submitted, waits for the running    *)
(* drain: the nested call does not start to pop.                           *)
LEMMA HandlerPublishesKeepsKernel ==
    ASSUME KernelInv, NEW t \in Topics, Kernel!HandlerPublishes(t) \/ Kernel!HandlerSubmits(t)
    PROVE  KernelInv'
<1>1. ~Kernel!Idle /\ Kernel!Publish(t, now, FALSE) /\ published' = published + 1
  BY DEF Kernel!HandlerPublishes, Kernel!HandlerSubmits, Kernel!InHandler, Kernel!Publish
<1>2. frames = <<Running>> /\ ~crashed /\ dispatching /\ now \in Int
  BY <1>1, TheFrame DEF KernelInv, KernelTypes
<1>3. UNCHANGED <<subscribers, frames, dispatching, now, cache, due, log, crashed>>
  BY <1>2 DEF Kernel!HandlerPublishes, Kernel!HandlerSubmits, Kernel!EnterDrain, Kernel!MayDrain
<1>4. PICK e \in KEvents : /\ e.id = published + 1 /\ e.topic = t /\ e.quote = FALSE
               /\ queue' = Append(queue, e) /\ queue' \in Seq(KEvents)
               /\ Len(queue') = Len(queue) + 1 /\ DOMAIN queue' = 1..Len(queue) + 1
               /\ DOMAIN queue = 1..Len(queue) /\ Len(queue) \in Nat
               /\ queue'[Len(queue) + 1] = e
               /\ \A k \in 1..Len(queue) : queue'[k] = queue[k]
  BY <1>1, <1>2, PublishAppends
<1>5. Running' = Running /\ frames # <<>>
  BY <1>2, <1>3 DEF Running
<1>6. KernelTypes'
  BY <1>1, <1>3, <1>4, <1>5 DEF KernelInv, KernelTypes
<1>7. FramesInv' /\ CallsInv'
  BY <1>3, <1>5, CallsStay DEF KernelInv, FramesInv, CallsInv
<1>8. QueueInv'
  <2>1. Len(due) \in Nat
    BY DEF KernelInv, KernelTypes
  <2>2. published = Len(due) + Len(queue) /\ \A k \in 1..Len(queue) : queue[k].id = Len(due) + k
    BY <1>2, <1>4 DEF KernelInv, QueueInv
  <2>3. PICK m \in Nat, d \in Nat : m = Len(queue) /\ d = Len(due)
    BY <1>4, <2>1
  <2>4. /\ published' = d + (m + 1) /\ Len(due') = d /\ Len(queue') = m + 1 /\ frames' # <<>>
        /\ DOMAIN queue' = 1..m + 1
    BY <1>1, <1>3, <1>4, <1>5, <2>2, <2>3
  <2>5. ASSUME NEW k \in 1..m + 1 PROVE queue'[k].id = d + k
    <3>1. CASE k = m + 1
      BY <1>4, <2>2, <2>3, <3>1
    <3>2. CASE k \in 1..m
      BY <1>4, <2>2, <2>3, <3>2
    <3> QED  BY <3>1, <3>2
  <2> QED  BY <2>4, <2>5 DEF QueueInv
<1>9. QuotesInv'
  BY <1>3, <1>4, <1>5 DEF KernelInv, QuotesInv, Cached
<1> QED  BY <1>6, <1>7, <1>8, <1>9 DEF KernelInv

(* The head of the queue becomes the event of the drain, and all handlers  *)
(* registered for it are due; or the clock would run backward.             *)
LEMMA PopKeepsKernel ==
    ASSUME KernelInv, ~crashed, Kernel!Pop
    PROVE  KernelInv'
<1>1. /\ ~Kernel!Idle /\ queue # <<>> /\ Running.todo = <<>> /\ Running \in KFrames
      /\ queue' = Tail(queue) /\ UNCHANGED <<subscribers, cache, published, log>>
  BY TheFrame DEF Kernel!Pop
<1>2. PICK n \in Nat : n = Len(due)
  BY DEF KernelInv, KernelTypes
<1>3. PICK m \in Nat : m = Len(queue)
  BY DEF KernelInv, KernelTypes
<1>4. PICK e : e = Head(queue)
  OBVIOUS
<1>5. /\ e = queue[1] /\ 1 \in 1..m /\ e \in KEvents /\ queue' \in Seq(KEvents)
      /\ Len(queue') = m - 1 /\ m - 1 \in Nat /\ DOMAIN queue = 1..m
      /\ DOMAIN queue' = 1..m - 1 /\ \A k \in 1..m - 1 : queue'[k] = queue[k + 1]
  BY <1>1, <1>3, <1>4 DEF KernelInv, KernelTypes
<1>6. published = n + m /\ \A k \in 1..m : queue[k].id = n + k /\ Cached(queue[k])
  BY <1>2, <1>3, <1>5 DEF KernelInv, QueueInv, QuotesInv
<1>7. \A k \in 1..m - 1 : Cached(queue[k])' /\ queue'[k].id = n + 1 + k
  <2> TAKE k \in 1..m - 1
  <2>1. PICK j \in 1..m : j = k + 1
    BY <1>5
  <2>2. queue'[k] = queue[j] /\ n + j = n + 1 + k
    BY <1>5, <2>1
  <2>3. queue[j].id = n + j /\ Cached(queue[j])
    BY <1>6
  <2>4. cache' = cache
    BY <1>1
  <2> QED  BY <2>2, <2>3, <2>4 DEF Cached
<1>8. CASE e.ts < now
  <2>1. crashed' /\ frames' = <<>> /\ dispatching' = FALSE /\ UNCHANGED <<now, due>>
    BY <1>4, <1>8 DEF Kernel!Pop
  <2>2. Running' = Kernel!NewFrame
    BY <2>1 DEF Running
  <2>3. KernelTypes'
    BY <1>1, <1>5, <2>1, <2>2, NoFrame DEF Kernel!Pop, KernelInv, KernelTypes
  <2>4. FramesInv' /\ CallsInv' /\ QueueInv'
    BY <1>1, <2>1, <2>2, CallsStay, NoFrame DEF KernelInv, FramesInv, CallsInv, QueueInv
  <2>5. QuotesInv'
    BY <1>1, <1>5, <1>7, <2>2, NoFrame DEF KernelInv, QuotesInv
  <2> QED  BY <2>3, <2>4, <2>5 DEF KernelInv
<1>9. CASE ~(e.ts < now)
  <2> DEFINE hs == subscribers[e.topic]
             f == [event |-> e, todo |-> hs, calling |-> FALSE]
  <2>1. /\ now' = e.ts /\ frames' = <<f>> /\ due' = Append(due, hs)
        /\ UNCHANGED <<dispatching, crashed>>
    BY <1>1, <1>4, <1>9, TheFrame DEF Kernel!Pop
  <2>2. hs \in Seq(Handlers) /\ e.ts \in Int /\ e.id = n + 1 /\ Cached(e)
    BY <1>5, <1>6 DEF KernelInv, KernelTypes, KEvents
  <2>3. f \in KFrames /\ f.todo = hs /\ f.event = e
    BY <1>5, <2>2 DEF KFrames
  <2>4. Running' = f /\ frames' # <<>>
    <3> HIDE DEF f
    <3>1. frames' # <<>> /\ frames'[1] = f
      BY <2>1
    <3> QED  BY <3>1 DEF Running
  <2> HIDE DEF hs, f
  <2>5. due' \in Seq(Seq(Handlers)) /\ Len(due') = n + 1
    BY <1>2, <2>1, <2>2 DEF KernelInv, KernelTypes
  <2>6. KernelTypes'
    BY <1>1, <1>5, <2>1, <2>2, <2>3, <2>4, <2>5 DEF KernelInv, KernelTypes
  <2>7. FramesInv'
    BY <1>1, <2>1, <2>4, TheFrame DEF FramesInv
  <2>8. CallsInv'
    <3>1. Kernel!AllDue' = Kernel!AllDue \o CallsOf(n + 1, hs)
      BY <1>2, <2>1, <2>2, DueGrows DEF KernelInv, KernelTypes
    <3>2. Kernel!AllDue = Kernel!CallsMade /\ Kernel!CallsMade' = Kernel!CallsMade
      <4>1. CallsOf(n, <<>>) = <<>>
        BY DEF CallsOf
      <4>2. PICK s \in Seq(Nat \X Handlers) : s = Kernel!CallsMade
        BY MadeType DEF KernelInv, KernelTypes
      <4>3. s \o <<>> = s
        OBVIOUS
      <4> QED  BY <1>1, <1>2, <4>1, <4>2, <4>3, CallsStay DEF KernelInv, CallsInv
    <3> QED  BY <3>1, <3>2, <1>5, <2>2, <2>3, <2>4, <2>5 DEF CallsInv
  <2>9. QueueInv'
    <3>1. published' = Len(due') + Len(queue')
      <4>1. n + m = (n + 1) + (m - 1)
        OBVIOUS
      <4>2. published' = n + m /\ Len(due') = n + 1 /\ Len(queue') = m - 1
        BY <1>1, <1>5, <1>6, <2>5
      <4> QED  BY <4>1, <4>2
    <3>2. \A k \in DOMAIN queue' : queue'[k].id = Len(due') + k
      BY <1>5, <1>7, <2>5
    <3> QED  BY <2>4, <3>1, <3>2 DEF QueueInv
  <2>10. QuotesInv'
    <3>1. Cached(e)'
      BY <1>1, <2>2 DEF Cached
    <3> QED  BY <1>1, <1>5, <1>7, <2>3, <2>4, <3>1 DEF KernelInv, QuotesInv
  <2> QED  BY <2>6, <2>7, <2>8, <2>9, <2>10 DEF KernelInv
<1> QED  BY <1>8, <1>9

(* The next handler due is called, and reads the cache. *)
LEMMA CallKeepsKernel ==
    ASSUME KernelInv, Kernel!CallHandler
    PROVE  KernelInv'
<1>e. PICK e : e = Running.event
  OBVIOUS
<1>h. PICK h : h = Head(Running.todo)
  OBVIOUS
<1>c. PICK c : c = [id |-> e.id, handler |-> h, quote |-> e.quote, seen |-> cache[e.topic]]
  OBVIOUS
<1>f. PICK f : f = [Running EXCEPT !.todo = Tail(Running.todo), !.calling = TRUE]
  OBVIOUS
<1>1. /\ ~Kernel!Idle /\ Running.todo # <<>> /\ Running \in KFrames /\ log' = Append(log, c)
      /\ frames' = <<f>> /\ dispatching /\ ~crashed
      /\ UNCHANGED <<queue, subscribers, dispatching, now, cache, published, due, crashed>>
  BY <1>e, <1>h, <1>c, <1>f, TheFrame DEF Kernel!CallHandler
<1>2. PICK n \in Nat : n = Len(due)
  BY DEF KernelInv, KernelTypes
<1>3. /\ e \in KEvents /\ e.id = n /\ Cached(e) /\ Running.todo \in Seq(Handlers)
  BY <1>1, <1>2, <1>e DEF KernelInv, CallsInv, QuotesInv, KFrames
<1>4. h \in Handlers /\ Tail(Running.todo) \in Seq(Handlers)
  BY <1>1, <1>3, <1>h
<1>5. c \in KCalls /\ c.id = n /\ c.handler = h /\ (c.quote => c.seen = c.id)
  BY <1>3, <1>4, <1>c DEF KCalls, KEvents, Cached, KernelInv, KernelTypes
<1>6. f \in KFrames /\ f.todo = Tail(Running.todo) /\ f.event = e
  BY <1>1, <1>4, <1>e, <1>f DEF KFrames
<1>7. Running' = f /\ frames' # <<>>
  <2>1. frames' # <<>> /\ frames'[1] = f
    BY <1>1
  <2> QED  BY <2>1 DEF Running
<1>8. log' \in Seq(KCalls) /\ \A i \in DOMAIN log' : log'[i] = c \/ (i \in DOMAIN log /\ log'[i] = log[i])
  <2>1. log \in Seq(KCalls)
    BY DEF KernelInv, KernelTypes
  <2>2. PICK k \in Nat : k = Len(log)
    BY <2>1
  <2>3. /\ log' \in Seq(KCalls) /\ DOMAIN log' = 1..k + 1 /\ DOMAIN log = 1..k
        /\ log'[k + 1] = c /\ \A i \in 1..k : log'[i] = log[i]
    BY <1>1, <1>5, <2>1, <2>2
  <2>4. PICK m \in Nat : m = k + 1
    OBVIOUS
  <2>5. \A i \in 1..k + 1 : i \in 1..k \/ i = m
    BY <2>4
  <2>6. log'[m] = c
    BY <2>3, <2>4
  <2>7. ASSUME NEW i \in 1..k + 1 PROVE log'[i] = c \/ (i \in 1..k /\ log'[i] = log[i])
    <3>1. CASE i \in 1..k
      BY <3>1, <2>3
    <3>2. CASE i = m
      BY <3>2, <2>6
    <3> QED  BY <3>1, <3>2, <2>5
  <2> QED  BY <2>3, <2>7
<1>9. KernelTypes'
  BY <1>1, <1>6, <1>7, <1>8 DEF KernelInv, KernelTypes
<1>10. FramesInv'
  BY <1>1, <1>7 DEF FramesInv
<1>11. CallsInv'
  <2>1. Kernel!CallsMade' = Append(Kernel!CallsMade, <<n, h>>)
        /\ Kernel!CallsMade \in Seq(Nat \X Handlers)
    BY <1>1, <1>5, LogGrows DEF KernelInv, KernelTypes
  <2>2. Kernel!CallsMade \o CallsOf(n, Running.todo)
            = Kernel!CallsMade' \o CallsOf(n, Tail(Running.todo))
    BY <1>1, <1>3, <1>h, <2>1, OneMoved
  <2>3. Kernel!AllDue' = Kernel!AllDue
    BY <1>1, CallsStay
  <2> QED  BY <1>1, <1>2, <1>3, <1>6, <1>7, <2>2, <2>3 DEF KernelInv, CallsInv
<1>12. QueueInv'
  BY <1>1, <1>7 DEF KernelInv, QueueInv
<1>13. QuotesInv'
  <2>1. Cached(e)' /\ \A k \in DOMAIN queue : Cached(queue[k]) => Cached(queue[k])'
    BY <1>1, <1>3 DEF Cached
  <2> QED  BY <1>1, <1>5, <1>6, <1>7, <1>8, <2>1 DEF KernelInv, QuotesInv
<1> QED  BY <1>9, <1>10, <1>11, <1>12, <1>13 DEF KernelInv

(* A handler subscribes another one, returns, or the drain is over. *)
LEMMA QuietKeepsKernel ==
    ASSUME KernelInv,
           \/ \E t \in Topics, h \in Handlers : Kernel!HandlerSubscribes(t, h)
           \/ Kernel!HandlerReturns \/ Kernel!DrainReturns
    PROVE  KernelInv'
<1>1. /\ ~Kernel!Idle /\ Running \in KFrames /\ dispatching /\ ~crashed /\ frames = <<Running>>
      /\ UNCHANGED <<queue, now, cache, published, due, log, crashed>>
  BY TheFrame DEF Kernel!HandlerSubscribes, Kernel!HandlerReturns, Kernel!DrainReturns,
                  Kernel!InHandler
<1>2. /\ subscribers' \in [Topics -> Seq(Handlers)]
      /\ Running' \in KFrames
      /\ Running'.todo = Running.todo
      /\ Running.todo # <<>> => Running'.event = Running.event
      /\ frames' = <<>> \/ frames' = <<Running'>>
      /\ dispatching' <=> frames' # <<>>
      /\ dispatching' \in BOOLEAN
      /\ frames' = <<>> => queue = <<>>
  <2>1. CASE \E t \in Topics, h \in Handlers : Kernel!HandlerSubscribes(t, h)
    <3>1. PICK t \in Topics, h \in Handlers : Kernel!HandlerSubscribes(t, h)
      BY <2>1
    <3>2. subscribers' = [subscribers EXCEPT ![t] = Append(subscribers[t], h)]
          /\ UNCHANGED <<frames, dispatching>>
      BY <3>1 DEF Kernel!HandlerSubscribes
    <3>3. subscribers' \in [Topics -> Seq(Handlers)]
      <4>1. subscribers \in [Topics -> Seq(Handlers)]
        BY DEF KernelInv, KernelTypes
      <4>2. Append(subscribers[t], h) \in Seq(Handlers)
        BY <4>1
      <4> QED  BY <3>2, <4>1, <4>2
    <3>4. Running' = Running /\ frames # <<>>
      <4>1. frames # <<>>
        BY <1>1
      <4> QED  BY <3>2, <4>1 DEF Running
    <3> QED  BY <1>1, <3>2, <3>3, <3>4
  <2>2. CASE Kernel!HandlerReturns
    <3> DEFINE f == [Running EXCEPT !.calling = FALSE]
    <3>1. frames' = <<f>> /\ UNCHANGED <<subscribers, dispatching>>
      BY <1>1, <2>2, TheFrame DEF Kernel!HandlerReturns
    <3>2. f \in KFrames /\ f.todo = Running.todo /\ f.event = Running.event
      BY <1>1 DEF KFrames
    <3> HIDE DEF f
    <3>3. Running' = f /\ frames' # <<>>
      <4>1. frames' # <<>> /\ frames'[1] = f
        BY <3>1
      <4> QED  BY <4>1 DEF Running
    <3> QED  BY <1>1, <3>1, <3>2, <3>3 DEF KernelInv, KernelTypes
  <2>3. CASE Kernel!DrainReturns
    <3>1. /\ queue = <<>> /\ Running.todo = <<>> /\ frames' = Front(frames)
          /\ dispatching' = FALSE /\ UNCHANGED subscribers
      BY <1>1, <2>3, TheFrame, KernelHelpers DEF Kernel!DrainReturns
    <3>2. frames' = <<>>
      BY <1>1, <3>1 DEF Front
    <3>3. Running' = Kernel!NewFrame
      BY <3>2 DEF Running
    <3> QED  BY <1>1, <3>1, <3>2, <3>3, NoFrame DEF KernelInv, KernelTypes
  <2> QED  BY <2>1, <2>2, <2>3
<1>3. KernelTypes' /\ FramesInv' /\ QueueInv'
  BY <1>1, <1>2 DEF KernelInv, KernelTypes, FramesInv, QueueInv
<1>4. CallsInv'
  BY <1>1, <1>2, CallsStay DEF KernelInv, CallsInv
<1>5. QuotesInv'
  BY <1>1, <1>2 DEF KernelInv, QuotesInv, Cached
<1> QED  BY <1>3, <1>4, <1>5 DEF KernelInv

LEMMA KernelNext ==
    ASSUME KernelInv, [Kernel!Next]_(Kernel!vars)
    PROVE  KernelInv'
<1>1. ASSUME NEW t \in Topics, NEW q \in BOOLEAN, NEW ts \in 1..MaxTime, ~crashed,
             Kernel!Ingest(t, q, ts)
      PROVE  KernelInv'
  BY <1>1, IngestKeepsKernel
<1>2. CASE ~crashed /\ Kernel!Pop
  BY <1>2, PopKeepsKernel
<1>3. CASE Kernel!CallHandler
  BY <1>3, CallKeepsKernel
<1>4. ASSUME NEW t \in Topics, Kernel!HandlerPublishes(t) \/ Kernel!HandlerSubmits(t)
      PROVE  KernelInv'
  BY <1>4, HandlerPublishesKeepsKernel
<1>5. CASE \/ \E t \in Topics, h \in Handlers : Kernel!HandlerSubscribes(t, h)
           \/ Kernel!HandlerReturns \/ Kernel!DrainReturns
  BY <1>5, QuietKeepsKernel
<1>6. CASE UNCHANGED Kernel!vars
  <2>1. UNCHANGED <<queue, subscribers, frames, dispatching, now, cache, published, due, log,
                    crashed, Kernel!AllDue, Kernel!CallsMade>>
    BY <1>6, CallsStay DEF Kernel!vars
  <2> QED  BY <2>1 DEF KernelInv, KernelTypes, FramesInv, CallsInv, QueueInv, QuotesInv, Cached,
                       Running
<1> QED  BY <1>1, <1>2, <1>3, <1>4, <1>5, <1>6 DEF Kernel!Next

LEMMA KernelInOrder == KernelInv => Kernel!HandledInOrder
<1> SUFFICES ASSUME KernelInv PROVE Kernel!HandledInOrder
  OBVIOUS
<1>1. PICK n \in Nat : n = Len(due)
  BY DEF KernelInv, KernelTypes
<1>2. PICK s \in Seq(Nat \X Handlers) : s = Kernel!CallsMade
  BY MadeType DEF KernelInv, KernelTypes
<1>3. PICK r \in Seq(Nat \X Handlers) : r = CallsOf(n, Running.todo)
  BY <1>1, CallsOfType DEF KernelInv, KernelTypes, KFrames
<1>4. Kernel!AllDue = s \o r
  BY <1>1, <1>2, <1>3 DEF KernelInv, CallsInv
<1>5. IsPrefix(s, s \o r)
  BY PrefixOf
<1>6. ASSUME Kernel!Idle, ~crashed PROVE s = s \o r /\ n = published
  <2>1. frames = <<>> /\ queue = <<>> /\ Running = Kernel!NewFrame
    BY <1>6 DEF Kernel!Idle, KernelInv, QueueInv, Running
  <2>2. r = <<>>
    BY <1>3, <2>1, NoFrame DEF CallsOf
  <2>3. published = n + Len(queue)
    BY <1>1, <1>6 DEF KernelInv, QueueInv
  <2>4. Len(queue) = 0
    BY <2>1
  <2>5. s = s \o <<>>
    OBVIOUS
  <2> QED  BY <2>2, <2>3, <2>4, <2>5
<1> QED  BY <1>1, <1>2, <1>4, <1>5, <1>6, KernelHelpers
         DEF Kernel!HandledInOrder, KernelInv, QuotesInv

(***************************************************************************)
(* Every handler registered when an event is dispatched is called for it,  *)
(* once, in the order of the events and of the registrations, and reads    *)
(* the quote it is called for: for any handlers, topics and cascades.      *)
(***************************************************************************)
THEOREM EventsInOrder == ServicesSpec => []HandledInOrder
<1> DEFINE Inv == part = "kernel" => KernelInv
<1>1. ServicesInit => Inv
  BY KernelInit DEF ServicesInit
<1>2. Inv /\ [ServicesNext]_servicesVars => Inv'
  <2> SUFFICES ASSUME Inv, [ServicesNext]_servicesVars, part' = "kernel" PROVE KernelInv'
    OBVIOUS
  <2>1. part = "kernel" /\ [Kernel!Next]_(Kernel!vars)
    BY DEF ServicesNext, servicesVars, kernelVars, Kernel!vars
  <2> QED  BY <2>1, KernelNext
<1>3. Inv => HandledInOrder
  BY KernelInOrder DEF HandledInOrder
<1> QED  BY <1>1, <1>2, <1>3, PTL DEF ServicesSpec

-----------------------------------------------------------------------------
(***************************************************************************)
(* The chat: s is the end of t, and a history is the end of what was said. *)
(***************************************************************************)
EndOf(s, t) == Len(s) <= Len(t) /\ \A i \in 1..Len(s) : s[i] = t[(Len(t) - Len(s)) + i]

LEMMA EndOfNothing == ASSUME NEW T, NEW t \in Seq(T) PROVE EndOf(<<>>, t)
BY DEF EndOf

LEMMA EndOfBoth ==
    ASSUME NEW T, NEW s \in Seq(T), NEW t \in Seq(T), NEW x \in T, EndOf(s, t)
    PROVE  EndOf(Append(s, x), Append(t, x))
<1>1. PICK n \in Nat, m \in Nat : n = Len(s) /\ m = Len(t)
  OBVIOUS
<1>2. PICK a : a = Append(s, x)
  OBVIOUS
<1>3. PICK b : b = Append(t, x)
  OBVIOUS
<1>4. n <= m /\ \A i \in 1..n : s[i] = t[(m - n) + i]
  BY <1>1 DEF EndOf
<1>5. Len(a) = n + 1 /\ a[n + 1] = x /\ \A i \in 1..n : a[i] = s[i]
  BY <1>1, <1>2
<1>6. Len(b) = m + 1 /\ b[m + 1] = x /\ \A i \in 1..m : b[i] = t[i]
  BY <1>1, <1>3
<1>7. ASSUME NEW i \in 1..n + 1 PROVE a[i] = b[(Len(b) - Len(a)) + i]
  <2>1. PICK j \in Nat : j = (m - n) + i
    BY <1>4
  <2>2. (Len(b) - Len(a)) + i = j
    BY <1>5, <1>6, <2>1
  <2>3. CASE i \in 1..n
    <3>1. j \in 1..m /\ s[i] = t[j]
      BY <2>1, <2>3, <1>4
    <3> QED  BY <3>1, <2>2, <2>3, <1>5, <1>6
  <2>4. CASE i = n + 1
    <3>1. j = m + 1
      BY <2>1, <2>4
    <3> QED  BY <3>1, <2>2, <2>4, <1>5, <1>6
  <2> QED  BY <2>3, <2>4
<1>8. EndOf(a, b)
  BY <1>4, <1>5, <1>6, <1>7 DEF EndOf
<1> QED  BY <1>2, <1>3, <1>8

LEMMA BoundedIsEnd ==
    ASSUME NEW T, NEW s \in Seq(T), NEW t \in Seq(T), EndOf(s, t)
    PROVE  EndOf(Chat!Bounded(s), t)
<1>1. PICK n \in Nat, m \in Nat : n = Len(s) /\ m = Len(t)
  OBVIOUS
<1>2. n <= m /\ \A i \in 1..n : s[i] = t[(m - n) + i]
  BY <1>1 DEF EndOf
<1>3. PICK k \in 0..n : k = IF n > MaxTurns THEN n - MaxTurns ELSE 0
  <2>1. PICK w \in Nat : w = MaxTurns
    BY ChatAssumption
  <2>2. (IF n > w THEN n - w ELSE 0) \in 0..n
    OBVIOUS
  <2> QED  BY <2>1, <2>2
<1>4. PICK b : b = SubSeq(s, k + 1, n)
  OBVIOUS
<1>5. Chat!Bounded(s) = b
  BY <1>1, <1>3, <1>4, ChatAssumption DEF Chat!Bounded
<1>6. Len(b) = n - k /\ \A i \in 1..n - k : b[i] = s[k + i]
  BY <1>1, <1>4, SuffixOf
<1>7. ASSUME NEW i \in 1..n - k PROVE b[i] = t[(m - (n - k)) + i]
  <2>1. PICK j \in 1..n : j = k + i
    OBVIOUS
  <2>2. (m - n) + j = (m - (n - k)) + i
    BY <2>1
  <2> QED  BY <2>1, <2>2, <1>2, <1>6
<1> QED  BY <1>1, <1>2, <1>5, <1>6, <1>7 DEF EndOf

LEMMA BoundedIsBounded ==
    ASSUME NEW T, NEW s \in Seq(T)
    PROVE  Chat!Bounded(s) \in Seq(T) /\ Len(Chat!Bounded(s)) <= MaxTurns
<1>1. PICK n \in Nat : n = Len(s)
  OBVIOUS
<1>3. PICK k \in 0..n : k = IF n > MaxTurns THEN n - MaxTurns ELSE 0
  <2>1. PICK w \in Nat : w = MaxTurns
    BY ChatAssumption
  <2>2. (IF n > w THEN n - w ELSE 0) \in 0..n
    OBVIOUS
  <2> QED  BY <2>1, <2>2
<1>4. PICK b : b = SubSeq(s, k + 1, n)
  OBVIOUS
<1>5. Chat!Bounded(s) = b
  BY <1>1, <1>3, <1>4, ChatAssumption DEF Chat!Bounded
<1>6. b \in Seq(T) /\ Len(b) = n - k
  BY <1>1, <1>4, SuffixOf
<1> QED  BY <1>3, <1>5, <1>6, ChatAssumption

(* What is left of a history without its last turn. *)
LEMMA FrontIsEnd ==
    ASSUME NEW T, NEW s \in Seq(T), s # <<>>
    PROVE  /\ Front(s) \in Seq(T) /\ Len(Front(s)) <= Len(s)
           /\ \A t \in Seq(T), x \in T : EndOf(s, Append(t, x)) => Last(s) = x /\ EndOf(Front(s), t)
<1>1. PICK n \in Nat : n = Len(s)
  OBVIOUS
<1>2. PICK a : a = Front(s)
  OBVIOUS
<1>3. n >= 1 /\ a \in Seq(T) /\ Len(a) = n - 1 /\ \A i \in 1..n - 1 : a[i] = s[i]
  BY <1>1, <1>2 DEF Front
<1>4. ASSUME NEW t \in Seq(T), NEW x \in T, EndOf(s, Append(t, x))
      PROVE  Last(s) = x /\ EndOf(a, t)
  <2>1. PICK m \in Nat : m = Len(t)
    OBVIOUS
  <2>2. PICK b : b = Append(t, x)
    OBVIOUS
  <2>3. Len(b) = m + 1 /\ b[m + 1] = x /\ \A i \in 1..m : b[i] = t[i]
    BY <2>1, <2>2
  <2>4. n <= m + 1 /\ \A i \in 1..n : s[i] = b[((m + 1) - n) + i]
    BY <1>1, <1>4, <2>2, <2>3 DEF EndOf
  <2>5. Last(s) = x
    <3>1. n \in 1..n /\ ((m + 1) - n) + n = m + 1
      BY <1>3
    <3>2. s[n] = b[((m + 1) - n) + n]
      BY <2>4, <3>1
    <3> QED  BY <3>1, <3>2, <2>3, <1>1 DEF Last
  <2>6. ASSUME NEW i \in 1..n - 1 PROVE a[i] = t[(m - (n - 1)) + i]
    <3>1. PICK j \in 1..m : j = (m - (n - 1)) + i
      BY <1>3, <2>4
    <3>2. i \in 1..n /\ ((m + 1) - n) + i = j
      BY <3>1, <1>3
    <3>3. s[i] = b[j]
      BY <2>4, <3>2
    <3> QED  BY <3>1, <3>3, <1>3, <2>3
  <2>7. EndOf(a, t)
    BY <1>3, <2>1, <2>4, <2>6 DEF EndOf
  <2> QED  BY <2>5, <2>7
<1> QED  BY <1>1, <1>2, <1>3, <1>4

LEMMA EndIsSuffix ==
    ASSUME NEW T, NEW s \in Seq(T), NEW t \in Seq(T), EndOf(s, t)
    PROVE  IsSuffix(s, t)
<1>1. PICK n \in Nat, m \in Nat : n = Len(s) /\ m = Len(t)
  OBVIOUS
<1>2. n <= m /\ \A i \in 1..n : s[i] = t[(m - n) + i]
  BY <1>1 DEF EndOf
<1>3. PICK a : a = Reverse(s)
  OBVIOUS
<1>4. PICK b : b = Reverse(t)
  OBVIOUS
<1>5. a = [i \in 1..n |-> s[(n - i) + 1]] /\ b = [i \in 1..m |-> t[(m - i) + 1]]
  BY <1>1, <1>3, <1>4 DEF Reverse
<1>6. a \in Seq(T) /\ Len(a) = n
  <2>1. \A i \in 1..n : (n - i) + 1 \in 1..n
    OBVIOUS
  <2>2. a \in [1..n -> T]
    BY <1>1, <1>5, <2>1
  <2> QED  BY <2>2, TableIsSeq
<1>7. b \in Seq(T) /\ Len(b) = m
  <2>1. \A i \in 1..m : (m - i) + 1 \in 1..m
    OBVIOUS
  <2>2. b \in [1..m -> T]
    BY <1>1, <1>5, <2>1
  <2> QED  BY <2>2, TableIsSeq
<1>8. ASSUME NEW i \in 1..n PROVE a[i] = b[i]
  <2>1. PICK j \in 1..n : j = (n - i) + 1
    OBVIOUS
  <2>2. (m - n) + j = (m - i) + 1 /\ i \in 1..m
    BY <2>1, <1>2
  <2> QED  BY <2>1, <2>2, <1>2, <1>5
<1>9. SubSeq(a, 1, n) = [i \in 1..n |-> a[i]] /\ SubSeq(b, 1, n) = [i \in 1..n |-> b[i]]
  BY <1>2, <1>6, <1>7
<1>10. SubSeq(a, 1, n) = SubSeq(b, 1, n)
  BY <1>8, <1>9
<1> QED  BY <1>2, <1>3, <1>4, <1>6, <1>7, <1>10 DEF IsSuffix, IsPrefix

-----------------------------------------------------------------------------
ChatTurns == [role : {"user", "assistant"}, ask : Nat]
Replies == [ask : Nat, error : BOOLEAN, downgraded : BOOLEAN]
Saying == {"append", "appending", "render", "call", "answered", "answering", "replied",
           "failed", "dropping", "error"}

(* What the history ends as while line a is at a stage. *)
Expected(stage, a) ==
    IF stage \in {"render", "call", "answered", "answering", "failed", "dropping"}
    THEN Append(Chat!Threaded, Chat!User(a))
    ELSE IF stage = "replied"
    THEN Append(Append(Chat!Threaded, Chat!User(a)), Chat!Assistant(a))
    ELSE Chat!Threaded

ChatTypes ==
    /\ asked \in Nat /\ asked <= MaxAsks /\ thinking \in BOOLEAN /\ talkedOver \in BOOLEAN
    /\ says \in [Chat!Asks -> Saying \cup {"idle", "delivered"}]
    /\ turns \in Seq(ChatTurns)
    /\ looked \in [Chat!Asks -> Seq(ChatTurns)] /\ prompt \in [Chat!Asks -> Seq(ChatTurns)]
    /\ failovers \in [Chat!Asks -> Nat]
    /\ answered \in Seq(Replies) /\ Chat!Threaded \in Seq(ChatTurns)
HistoryInv == /\ Len(turns) <= MaxTurns
              /\ \A a \in Chat!Asks : Len(looked[a]) <= MaxTurns
              /\ \A a \in Chat!Asks : a > asked <=> says[a] = "idle"

(* One line at a time: the earlier ones are answered, and the history is   *)
(* the end of what the step of this one calls for.                         *)
Looks == {"appending", "answering", "dropping"}
TalkInv ==
    ~talkedOver =>
        /\ \A a \in Chat!Asks : a < asked => says[a] = "delivered"
        /\ thinking <=> (asked # 0 /\ says[asked] # "delivered")
        /\ asked = 0 => EndOf(turns, Chat!Threaded)
        /\ asked # 0 => EndOf(turns, Expected(says[asked], asked))
        /\ asked # 0 /\ says[asked] \in Looks => looked[asked] = turns
        /\ asked # 0 /\ says[asked] = "call" => prompt[asked] = turns

ChatInv == ChatTypes /\ HistoryInv /\ TalkInv

(* The chat's helpers are those of the libraries. *)
LEMMA ChatHelpers ==
    /\ \A s : /\ Chat!FlattenSeq(s) = FlattenSeq(s)
              /\ Chat!Last(s) = Last(s) /\ Chat!Front(s) = Front(s)
    /\ \A s, t : Chat!IsSuffix(s, t) = IsSuffix(s, t)
<1>1. \A s : Chat!FlattenSeq(s) = FlattenSeq(s)
  BY DEF Chat!FlattenSeq, FlattenSeq
<1>2. \A s : Chat!Last(s) = Last(s) /\ Chat!Front(s) = Front(s)
  BY DEF Chat!Last, Last, Chat!Front, Front
<1>3. \A s, t : Chat!IsSuffix(s, t) = IsSuffix(s, t)
  BY DEF Chat!IsSuffix, IsSuffix, Chat!IsPrefix, IsPrefix, Chat!Reverse, Reverse
<1> QED  BY <1>1, <1>2, <1>3

LEMMA TurnTypes ==
    ASSUME NEW a \in Chat!Asks
    PROVE  /\ a \in Nat /\ Chat!User(a) \in ChatTurns /\ Chat!Assistant(a) \in ChatTurns
           /\ Chat!User(a).role = "user"
<1>1. a \in Nat
  BY ChatAssumption DEF Chat!Asks
<1> QED  BY <1>1 DEF Chat!User, Chat!Assistant, ChatTurns

(* While no line was sent over another one, the line on its way is the last. *)
LEMMA OnlyAsk ==
    ASSUME ChatInv, ~talkedOver, NEW a \in Chat!Asks, says[a] \in Saying
    PROVE  a = asked /\ asked # 0
<1>1. a \in Nat /\ asked \in Nat /\ a # 0
  BY ChatAssumption DEF Chat!Asks, ChatInv, ChatTypes
<1>2. says[a] # "idle" /\ says[a] # "delivered"
  BY DEF Saying
<1>3. ~(a > asked) /\ ~(a < asked)
  BY <1>2 DEF ChatInv, HistoryInv, TalkInv
<1> QED  BY <1>1, <1>3

(* A step of the line on its way: the history is the end of what its new  *)
(* stage calls for.                                                         *)
LEMMA SayStep ==
    ASSUME ChatInv, NEW a \in Chat!Asks, NEW stage \in Saying, says[a] \in Saying,
           says' = [says EXCEPT ![a] = stage],
           UNCHANGED <<asked, thinking, answered, talkedOver>>,
           turns' \in Seq(ChatTurns), Len(turns') <= MaxTurns,
           looked' \in [Chat!Asks -> Seq(ChatTurns)],
           \A b \in Chat!Asks : Len(looked'[b]) <= MaxTurns,
           prompt' \in [Chat!Asks -> Seq(ChatTurns)],
           failovers' \in [Chat!Asks -> Nat],
           ~talkedOver => /\ EndOf(turns', Expected(stage, a))
                          /\ stage \in Looks => looked'[a] = turns'
                          /\ stage = "call" => prompt'[a] = turns'
    PROVE  ChatInv'
<1>0. Chat!Threaded' = Chat!Threaded
  BY DEF Chat!Threaded
<1>1. says' \in [Chat!Asks -> Saying \cup {"idle", "delivered"}] /\ says'[a] = stage
  BY DEF ChatInv, ChatTypes
<1>2. \A b \in Chat!Asks : b # a => says'[b] = says[b]
  BY DEF ChatInv, ChatTypes
<1>3. ChatTypes'
  BY <1>0, <1>1 DEF ChatInv, ChatTypes, Chat!Asks
<1>4. stage # "idle" /\ stage # "delivered" /\ says[a] # "idle"
  BY DEF Saying
<1>5. HistoryInv'
  <2>1. ASSUME NEW b \in Chat!Asks PROVE (b > asked <=> says[b] = "idle")'
    <3>1. CASE b = a
      BY <1>1, <1>4, <3>1 DEF ChatInv, HistoryInv, Chat!Asks
    <3>2. CASE b # a
      BY <1>2, <3>2 DEF ChatInv, HistoryInv, Chat!Asks
    <3> QED  BY <3>1, <3>2
  <2> QED  BY <2>1 DEF HistoryInv, Chat!Asks
<1>6. TalkInv'
  <2> SUFFICES ASSUME ~talkedOver
               PROVE  TalkInv'
    BY DEF TalkInv
  <2>1. a = asked /\ asked # 0
    BY OnlyAsk
  <2>2. says'[asked'] = stage /\ asked' = asked
    BY <1>1, <2>1
  <2>3. ASSUME NEW b \in Chat!Asks, b < asked PROVE says'[b] = "delivered"
    <3>1. b # a
      BY <2>1, <2>3, ChatAssumption DEF Chat!Asks
    <3> QED  BY <1>2, <2>3, <3>1 DEF ChatInv, TalkInv
  <2>4. thinking' <=> (asked' # 0 /\ says'[asked'] # "delivered")
    BY <1>4, <2>1, <2>2 DEF ChatInv, TalkInv, Saying
  <2>5. Expected(stage, a)' = Expected(stage, a)
    BY <1>0 DEF Expected, Chat!User, Chat!Assistant
  <2>6. EndOf(turns', Expected(says[asked], asked)')
    BY <1>0, <2>1, <2>2 DEF Expected, Chat!User, Chat!Assistant
  <2>7. /\ asked' # 0 /\ says'[asked'] \in Looks => looked'[asked'] = turns'
        /\ asked' # 0 /\ says'[asked'] = "call" => prompt'[asked'] = turns'
    BY <2>1, <2>2
  <2>8. (asked = 0 => EndOf(turns, Chat!Threaded))'
    BY <2>1, <2>2
  <2>9. (asked # 0 => EndOf(turns, Expected(says[asked], asked)))'
    BY <2>6 DEF EndOf
  <2>10. (\A b \in Chat!Asks : b < asked => says[b] = "delivered")'
    BY <2>2, <2>3 DEF Chat!Asks
  <2> QED  BY <2>4, <2>7, <2>8, <2>9, <2>10 DEF TalkInv, Looks
<1> QED  BY <1>3, <1>5, <1>6 DEF ChatInv

LEMMA ChatInit == Chat!Init => ChatInv
<1> SUFFICES ASSUME Chat!Init PROVE ChatInv
  OBVIOUS
<1>1. Chat!Threaded = <<>>
  <2>1. [i \in DOMAIN answered |-> Chat!TurnsOf(answered[i])] = <<>>
    BY DEF Chat!Init
  <2>2. FlattenSeq(<<>>) = <<>>
    BY DEF FlattenSeq
  <2> QED  BY <2>1, <2>2, ChatHelpers DEF Chat!Threaded
<1>2. ChatTypes
  <2>1. <<>> \in Seq(ChatTurns) /\ <<>> \in Seq(Replies)
    OBVIOUS
  <2>2. /\ says \in [Chat!Asks -> Saying \cup {"idle", "delivered"}]
        /\ failovers \in [Chat!Asks -> Nat]
    BY DEF Chat!Init
  <2>3. looked \in [Chat!Asks -> Seq(ChatTurns)] /\ prompt \in [Chat!Asks -> Seq(ChatTurns)]
    BY <2>1 DEF Chat!Init
  <2>4. turns \in Seq(ChatTurns) /\ answered \in Seq(Replies) /\ Chat!Threaded \in Seq(ChatTurns)
    BY <1>1, <2>1 DEF Chat!Init
  <2>5. asked \in Nat /\ asked <= MaxAsks
    BY ChatAssumption DEF Chat!Init
  <2>6. thinking \in BOOLEAN /\ talkedOver \in BOOLEAN
    BY Zenon DEF Chat!Init
  <2> QED  BY <2>2, <2>3, <2>4, <2>5, <2>6 DEF ChatTypes
<1>3. \A a \in Chat!Asks : a > asked <=> says[a] = "idle"
  BY ChatAssumption DEF Chat!Init, Chat!Asks
<1>4. HistoryInv
  BY <1>3, ChatAssumption DEF Chat!Init, HistoryInv
<1>5. \A a \in Chat!Asks : ~(a < asked)
  BY ChatAssumption DEF Chat!Init, Chat!Asks
<1>6. EndOf(turns, Chat!Threaded)
  BY <1>1 DEF Chat!Init, EndOf
<1>7. TalkInv
  BY <1>5, <1>6 DEF Chat!Init, TalkInv
<1> QED  BY <1>2, <1>4, <1>7 DEF ChatInv

LEMMA SubmitKeepsChat == ASSUME ChatInv, Chat!Submit PROVE ChatInv'
<1>1. PICK n \in Chat!Asks : n = asked + 1
  BY ChatAssumption DEF Chat!Submit, Chat!Asks, ChatInv, ChatTypes
<1>2. n \in Nat /\ asked \in Nat /\ n # 0 /\ asked' = n
  BY <1>1, ChatAssumption DEF Chat!Submit, Chat!Asks, ChatInv, ChatTypes
<1>3. /\ says' = [says EXCEPT ![n] = "append"] /\ thinking' = TRUE
      /\ UNCHANGED <<answered, turns, looked, prompt, failovers>>
      /\ talkedOver' = (talkedOver \/ Chat!InFlight # {})
  BY <1>2 DEF Chat!Submit, Chat!Goto
<1>4. Chat!Threaded' = Chat!Threaded
  BY <1>3 DEF Chat!Threaded
<1>5. /\ says' \in [Chat!Asks -> Saying \cup {"idle", "delivered"}] /\ says'[n] = "append"
      /\ \A b \in Chat!Asks : b # n => says'[b] = says[b]
  BY <1>3 DEF ChatInv, ChatTypes, Saying
<1>6. ChatTypes'
  <2>1. n <= MaxAsks
    BY ChatAssumption DEF Chat!Asks
  <2>2. talkedOver' \in BOOLEAN
    BY <1>3 DEF ChatInv, ChatTypes
  <2> QED  BY <1>2, <1>3, <1>4, <1>5, <2>1, <2>2 DEF ChatInv, ChatTypes, Chat!Asks
<1>7. HistoryInv'
  <2>1. ASSUME NEW b \in Chat!Asks PROVE b > n <=> says'[b] = "idle"
    <3>1. b \in Nat /\ (b > asked <=> says[b] = "idle")
      BY ChatAssumption DEF Chat!Asks, ChatInv, HistoryInv
    <3>2. CASE b = n
      BY <1>2, <1>5, <3>2
    <3>3. CASE b # n
      <4>1. b > n <=> b > asked
        BY <1>1, <1>2, <3>1, <3>3
      <4> QED  BY <1>5, <3>1, <3>3, <4>1
    <3> QED  BY <3>2, <3>3
  <2> QED  BY <1>2, <1>3, <2>1 DEF ChatInv, HistoryInv, Chat!Asks
<1>8. TalkInv'
  <2> SUFFICES ASSUME ~talkedOver' PROVE TalkInv'
    BY DEF TalkInv
  <2>1. ~talkedOver /\ Chat!InFlight = {}
    BY <1>3
  <2>2. ASSUME NEW b \in Chat!Asks, b < n PROVE says[b] = "delivered" /\ says'[b] = "delivered"
    <3>1. b \in 1..asked /\ b # n
      BY <1>1, <1>2, <2>2, ChatAssumption DEF Chat!Asks
    <3>2. says[b] = "delivered"
      BY <2>1, <3>1 DEF Chat!InFlight
    <3> QED  BY <1>5, <3>1, <3>2
  <2>3. EndOf(turns, Chat!Threaded)
    <3>1. CASE asked = 0
      BY <2>1, <3>1 DEF ChatInv, TalkInv
    <3>2. CASE asked # 0
      <4>1. asked \in Chat!Asks /\ asked < n
        BY <1>1, <1>2, <3>2, ChatAssumption DEF Chat!Asks
      <4>2. says[asked] = "delivered"
        BY <2>2, <4>1
      <4>3. EndOf(turns, Expected(says[asked], asked))
        BY <2>1, <3>2 DEF ChatInv, TalkInv
      <4> QED  BY <4>2, <4>3 DEF Expected
    <3> QED  BY <3>1, <3>2
  <2>4. (EndOf(turns, Expected(says[asked], asked)))'
    <3>1. Expected("append", n) = Chat!Threaded
      BY DEF Expected
    <3>2. EndOf(turns', Chat!Threaded')
      BY <1>3, <1>4, <2>3
    <3>3. (Expected(says[asked], asked))' = Chat!Threaded'
      BY <1>2, <1>5 DEF Expected
    <3> QED  BY <3>2, <3>3 DEF EndOf
  <2>5. (\A b \in Chat!Asks : b < asked => says[b] = "delivered")'
    BY <1>2, <2>2 DEF Chat!Asks
  <2> QED  BY <1>2, <1>3, <1>5, <2>4, <2>5 DEF TalkInv, Looks
<1> QED  BY <1>6, <1>7, <1>8 DEF ChatInv

LEMMA LoadKeepsChat == ASSUME ChatInv, NEW a \in Chat!Asks, Chat!Load(a) PROVE ChatInv'
<1>1. PICK from \in {"append", "answered", "failed"} :
        /\ says[a] = from
        /\ looked' = [looked EXCEPT ![a] = turns]
        /\ says' = [says EXCEPT ![a] = CASE from = "append" -> "appending"
                       [] from = "answered" -> "answering" [] from = "failed" -> "dropping"]
        /\ UNCHANGED <<asked, thinking, answered, turns, prompt, failovers, talkedOver>>
  BY DEF Chat!Load, Chat!Goto
<1>2. PICK stage \in {"appending", "answering", "dropping"} :
        /\ from = "append" <=> stage = "appending"
        /\ stage = CASE from = "append" -> "appending"
                    [] from = "answered" -> "answering" [] from = "failed" -> "dropping"
  OBVIOUS
<1>3. says' = [says EXCEPT ![a] = stage] /\ says[a] \in Saying /\ stage \in Saying
  BY <1>1, <1>2 DEF Saying
<1>4. looked' \in [Chat!Asks -> Seq(ChatTurns)] /\ looked'[a] = turns
  BY <1>1 DEF ChatInv, ChatTypes
<1>5. \A b \in Chat!Asks : Len(looked'[b]) <= MaxTurns
  BY <1>1 DEF ChatInv, ChatTypes, HistoryInv
<1>6. ASSUME ~talkedOver PROVE EndOf(turns, Expected(stage, a))
  <2>1. a = asked /\ asked # 0
    BY <1>3, <1>6, OnlyAsk
  <2>2. EndOf(turns, Expected(from, a))
    BY <1>1, <1>6, <2>1 DEF ChatInv, TalkInv
  <2>3. Expected(from, a) = Expected(stage, a)
    BY <1>2 DEF Expected
  <2> QED  BY <2>2, <2>3
<1>7. turns' = turns /\ prompt' = prompt /\ failovers' = failovers /\ stage # "call"
  BY <1>1
<1>8. ~talkedOver => /\ EndOf(turns', Expected(stage, a))
                     /\ stage \in Looks => looked'[a] = turns'
                     /\ stage = "call" => prompt'[a] = turns'
  BY <1>4, <1>6, <1>7
<1>9. /\ turns' \in Seq(ChatTurns) /\ Len(turns') <= MaxTurns
      /\ prompt' \in [Chat!Asks -> Seq(ChatTurns)] /\ failovers' \in [Chat!Asks -> Nat]
  BY <1>7 DEF ChatInv, ChatTypes, HistoryInv
<1> QED  BY <1>1, <1>3, <1>4, <1>5, <1>8, <1>9, SayStep

(* The turn that is added, behind the end of what was said before. *)
LEMMA AppendedTurn ==
    ASSUME NEW h \in Seq(ChatTurns), NEW x \in ChatTurns
    PROVE  /\ Chat!Appended(h, x) \in Seq(ChatTurns) /\ Len(Chat!Appended(h, x)) <= MaxTurns
           /\ \A t \in Seq(ChatTurns) : EndOf(h, t) => EndOf(Chat!Appended(h, x), Append(t, x))
<1>0. Append(h, x) \in Seq(ChatTurns)
  OBVIOUS
<1>1. PICK g \in Seq(ChatTurns) : g = Append(h, x)
  BY <1>0
<1>2. Chat!Appended(h, x) = Chat!Bounded(g)
  BY <1>1 DEF Chat!Appended
<1>3. ASSUME NEW t \in Seq(ChatTurns), EndOf(h, t) PROVE EndOf(Chat!Bounded(g), Append(t, x))
  <2>1. EndOf(g, Append(t, x)) /\ Append(t, x) \in Seq(ChatTurns)
    BY <1>1, <1>3, EndOfBoth
  <2> QED  BY <2>1, BoundedIsEnd
<1> QED  BY <1>2, <1>3, BoundedIsBounded

LEMMA DroppedTurn ==
    ASSUME NEW h \in Seq(ChatTurns)
    PROVE  /\ Chat!Dropped(h) \in Seq(ChatTurns) /\ Len(Chat!Dropped(h)) <= Len(h)
           /\ \A t \in Seq(ChatTurns), x \in ChatTurns :
                  x.role = "user" /\ EndOf(h, Append(t, x)) => EndOf(Chat!Dropped(h), t)
<1>1. CASE h = <<>>
  BY <1>1, EndOfNothing DEF Chat!Dropped
<1>2. CASE h # <<>>
  <2>1. Chat!Dropped(h) = IF Last(h).role = "user" THEN Front(h) ELSE h
    BY <1>2, ChatHelpers DEF Chat!Dropped
  <2> QED  BY <1>2, <2>1, FrontIsEnd
<1> QED  BY <1>1, <1>2

LEMMA StoreKeepsChat == ASSUME ChatInv, NEW a \in Chat!Asks, Chat!Store(a) PROVE ChatInv'
<1>0. /\ looked' = [looked EXCEPT ![a] = <<>>]
      /\ UNCHANGED <<asked, thinking, answered, prompt, failovers, talkedOver>>
      /\ says[a] \in Looks /\ says[a] \in Saying
  BY DEF Chat!Store, Looks, Saying
<1>1. looked' \in [Chat!Asks -> Seq(ChatTurns)]
  <2>1. <<>> \in Seq(ChatTurns)
    OBVIOUS
  <2> QED  BY <1>0, <2>1 DEF ChatInv, ChatTypes
<1>2. \A b \in Chat!Asks : Len(looked'[b]) <= MaxTurns
  <2>1. Len(<<>>) = 0
    OBVIOUS
  <2> QED  BY <1>0, <2>1, ChatAssumption DEF ChatInv, ChatTypes, HistoryInv
<1>3. looked[a] \in Seq(ChatTurns) /\ Len(looked[a]) <= MaxTurns /\ Chat!Threaded \in Seq(ChatTurns)
  BY DEF ChatInv, ChatTypes, HistoryInv
<1>4. ~talkedOver => EndOf(looked[a], Expected(says[a], a))
  BY <1>0, OnlyAsk DEF ChatInv, TalkInv
<1>5. Chat!User(a) \in ChatTurns /\ Chat!Assistant(a) \in ChatTurns /\ Chat!User(a).role = "user"
  BY TurnTypes
<1>6. ASSUME NEW stage \in {"render", "replied", "error"}, says' = [says EXCEPT ![a] = stage],
             turns' \in Seq(ChatTurns), Len(turns') <= MaxTurns,
             ~talkedOver => EndOf(turns', Expected(stage, a))
      PROVE  ChatInv'
  <2>1. stage \in Saying /\ stage \notin Looks /\ stage # "call"
    BY <1>6 DEF Saying, Looks
  <2>2. prompt' \in [Chat!Asks -> Seq(ChatTurns)] /\ failovers' \in [Chat!Asks -> Nat]
    BY <1>0 DEF ChatInv, ChatTypes
  <2>3. ~talkedOver => /\ EndOf(turns', Expected(stage, a))
                       /\ stage \in Looks => looked'[a] = turns'
                       /\ stage = "call" => prompt'[a] = turns'
    BY <1>6, <2>1
  <2> QED  BY <1>0, <1>1, <1>2, <1>6, <2>1, <2>2, <2>3, SayStep
<1>7. CASE /\ says[a] = "appending" /\ says' = [says EXCEPT ![a] = "render"]
           /\ turns' = Chat!Appended(looked[a], Chat!User(a))
  <2>1. Expected(says[a], a) = Chat!Threaded
    BY <1>7 DEF Expected
  <2>2. Expected("render", a) = Append(Chat!Threaded, Chat!User(a))
    BY DEF Expected
  <2>3. ~talkedOver => EndOf(turns', Expected("render", a))
    BY <1>3, <1>4, <1>5, <1>7, <2>1, <2>2, AppendedTurn
  <2>4. turns' \in Seq(ChatTurns) /\ Len(turns') <= MaxTurns
    BY <1>3, <1>5, <1>7, AppendedTurn
  <2> QED  BY <1>6, <1>7, <2>3, <2>4
<1>8. CASE /\ says[a] = "answering" /\ says' = [says EXCEPT ![a] = "replied"]
           /\ turns' = Chat!Appended(looked[a], Chat!Assistant(a))
  <2>1. Expected(says[a], a) = Append(Chat!Threaded, Chat!User(a))
    BY <1>8 DEF Expected
  <2>2. Expected("replied", a) = Append(Append(Chat!Threaded, Chat!User(a)), Chat!Assistant(a))
    BY DEF Expected
  <2>3. Append(Chat!Threaded, Chat!User(a)) \in Seq(ChatTurns)
    BY <1>3, <1>5
  <2>4. ~talkedOver => EndOf(turns', Expected("replied", a))
    BY <1>3, <1>4, <1>5, <1>8, <2>1, <2>2, <2>3, AppendedTurn
  <2>5. turns' \in Seq(ChatTurns) /\ Len(turns') <= MaxTurns
    BY <1>3, <1>5, <1>8, AppendedTurn
  <2> QED  BY <1>6, <1>8, <2>4, <2>5
<1>9. CASE /\ says[a] = "dropping" /\ says' = [says EXCEPT ![a] = "error"]
           /\ turns' = Chat!Dropped(looked[a])
  <2>1. Expected(says[a], a) = Append(Chat!Threaded, Chat!User(a))
    BY <1>9 DEF Expected
  <2>2. Expected("error", a) = Chat!Threaded
    BY DEF Expected
  <2>3. ~talkedOver => EndOf(turns', Expected("error", a))
    BY <1>3, <1>4, <1>5, <1>9, <2>1, <2>2, DroppedTurn
  <2>4. turns' \in Seq(ChatTurns) /\ Len(turns') <= Len(looked[a])
    BY <1>3, <1>9, DroppedTurn
  <2>5. Len(turns') <= MaxTurns
    <3>1. PICK k \in Nat, l \in Nat, w \in Nat : k = Len(turns') /\ l = Len(looked[a]) /\ w = MaxTurns
      BY <1>3, <2>4, ChatAssumption
    <3>2. k <= l /\ l <= w
      BY <1>3, <2>4, <3>1
    <3> QED  BY <3>1, <3>2
  <2> QED  BY <1>6, <1>9, <2>3, <2>4, <2>5
<1> QED  BY <1>7, <1>8, <1>9 DEF Chat!Store, Chat!Goto

LEMMA RenderKeepsChat == ASSUME ChatInv, NEW a \in Chat!Asks, Chat!Render(a) PROVE ChatInv'
<1>1. /\ says[a] = "render" /\ prompt' = [prompt EXCEPT ![a] = turns]
      /\ says' = [says EXCEPT ![a] = "call"]
      /\ UNCHANGED <<asked, thinking, answered, turns, looked, failovers, talkedOver>>
  BY DEF Chat!Render, Chat!Goto
<1>2. "call" \in Saying /\ says[a] \in Saying /\ "call" \notin Looks
  BY <1>1 DEF Saying, Looks
<1>3. prompt' \in [Chat!Asks -> Seq(ChatTurns)] /\ prompt'[a] = turns
  BY <1>1 DEF ChatInv, ChatTypes
<1>4. ~talkedOver => EndOf(turns, Expected("call", a))
  <2>1. Expected("render", a) = Expected("call", a)
    BY DEF Expected
  <2> QED  BY <1>1, <1>2, <2>1, OnlyAsk DEF ChatInv, TalkInv
<1>5. ~talkedOver => /\ EndOf(turns', Expected("call", a))
                     /\ "call" \in Looks => looked'[a] = turns'
                     /\ "call" = "call" => prompt'[a] = turns'
  BY <1>1, <1>2, <1>3, <1>4
<1>6. /\ turns' \in Seq(ChatTurns) /\ Len(turns') <= MaxTurns
      /\ looked' \in [Chat!Asks -> Seq(ChatTurns)] /\ failovers' \in [Chat!Asks -> Nat]
      /\ \A b \in Chat!Asks : Len(looked'[b]) <= MaxTurns
  BY <1>1 DEF ChatInv, ChatTypes, HistoryInv
<1> QED  BY <1>1, <1>2, <1>3, <1>5, <1>6, SayStep

LEMMA CompleteKeepsChat == ASSUME ChatInv, NEW a \in Chat!Asks, Chat!Complete(a) PROVE ChatInv'
<1>1. /\ says[a] = "call" /\ "call" \in Saying
      /\ UNCHANGED <<asked, thinking, answered, turns, looked, prompt, talkedOver>>
  BY DEF Chat!Complete, Saying
<1>2. PICK stage \in {"answered", "failed", "call"} : says' = [says EXCEPT ![a] = stage]
  <2>1. CASE says' = [says EXCEPT ![a] = "answered"]
    BY <2>1
  <2>2. CASE says' = [says EXCEPT ![a] = "failed"]
    BY <2>2
  <2>3. CASE says' = says
    <3>1. says = [says EXCEPT ![a] = "call"]
      BY <1>1 DEF ChatInv, ChatTypes
    <3> QED  BY <2>3, <3>1
  <2> QED  BY <2>1, <2>2, <2>3 DEF Chat!Complete, Chat!Goto
<1>3. failovers' \in [Chat!Asks -> Nat]
  BY DEF Chat!Complete, ChatInv, ChatTypes
<1>4. stage \in Saying /\ stage \notin Looks
  BY DEF Saying, Looks
<1>5. ~talkedOver => EndOf(turns, Expected(stage, a)) /\ prompt[a] = turns
  <2>1. Expected("call", a) = Expected(stage, a)
    BY DEF Expected
  <2> QED  BY <1>1, <2>1, OnlyAsk DEF ChatInv, TalkInv
<1>6. ~talkedOver => /\ EndOf(turns', Expected(stage, a))
                     /\ stage \in Looks => looked'[a] = turns'
                     /\ stage = "call" => prompt'[a] = turns'
  BY <1>1, <1>4, <1>5
<1>7. /\ turns' \in Seq(ChatTurns) /\ Len(turns') <= MaxTurns
      /\ looked' \in [Chat!Asks -> Seq(ChatTurns)] /\ prompt' \in [Chat!Asks -> Seq(ChatTurns)]
      /\ \A b \in Chat!Asks : Len(looked'[b]) <= MaxTurns
  BY <1>1 DEF ChatInv, ChatTypes, HistoryInv
<1> QED  BY <1>1, <1>2, <1>3, <1>4, <1>6, <1>7, SayStep

(* What a reply adds to what was said. *)
LEMMA RepliesType ==
    ASSUME NEW r \in Replies
    PROVE  Chat!TurnsOf(r) \in Seq(ChatTurns)
<1>1. Chat!User(r.ask) \in ChatTurns /\ Chat!Assistant(r.ask) \in ChatTurns
  BY DEF Chat!User, Chat!Assistant, ChatTurns, Replies
<1> QED  BY <1>1 DEF Chat!TurnsOf

(* One more answer in the transcript. *)
LEMMA ThreadGrows ==
    ASSUME answered \in Seq(Replies), NEW r \in Replies, answered' = Append(answered, r),
           \A q \in Replies : Chat!TurnsOf(q) \in Seq(ChatTurns)
    PROVE  Chat!Threaded' = Chat!Threaded \o Chat!TurnsOf(r)
<1>1. PICK n \in Nat : n = Len(answered)
  OBVIOUS
<1>2. PICK s : s = [i \in DOMAIN answered |-> Chat!TurnsOf(answered[i])]
  OBVIOUS
<1>3. PICK t : t = [i \in DOMAIN answered' |-> Chat!TurnsOf(answered'[i])]
  OBVIOUS
<1>4. /\ DOMAIN answered = 1..n /\ DOMAIN answered' = 1..n + 1 /\ answered'[n + 1] = r
      /\ \A i \in 1..n : answered'[i] = answered[i] /\ answered[i] \in Replies
  BY <1>1
<1>5. s \in Seq(Seq(ChatTurns)) /\ Len(s) = n
  <2>1. s \in [1..n -> Seq(ChatTurns)]
    BY <1>2, <1>4
  <2> QED  BY <2>1, TableIsSeq
<1>6. PICK x \in Seq(ChatTurns) : x = Chat!TurnsOf(r)
  OBVIOUS
<1>7. t = Append(s, x)
  <2>1. PICK a : a = Append(s, x)
    OBVIOUS
  <2>2. PICK m \in Nat : m = n + 1
    OBVIOUS
  <2>3. a = [i \in 1..m |-> a[i]] /\ a[m] = x /\ \A i \in 1..n : a[i] = s[i]
    <3>1. a \in Seq(Seq(ChatTurns)) /\ Len(a) = m
      BY <1>5, <2>1, <2>2
    <3>2. a[m] = x /\ \A i \in 1..n : a[i] = s[i]
      BY <1>5, <2>1, <2>2
    <3> QED  BY <3>1, <3>2
  <2>4. t = [i \in 1..m |-> t[i]] /\ t[m] = x /\ \A i \in 1..n : t[i] = s[i]
    <3>1. DOMAIN answered' = 1..m /\ t = [i \in 1..m |-> Chat!TurnsOf(answered'[i])]
      BY <1>3, <1>4, <2>2
    <3>2. m \in 1..m /\ \A i \in 1..n : i \in 1..m
      BY <2>2
    <3> QED  BY <1>2, <1>4, <1>6, <2>2, <3>1, <3>2
  <2>5. \A i \in 1..m : i \in 1..n \/ i = m
    BY <2>2
  <2>6. \A i \in 1..m : t[i] = a[i]
    BY <2>3, <2>4, <2>5
  <2>7. t = a
    BY <2>3, <2>4, <2>6
  <2> QED  BY <2>1, <2>7
<1>8. FlattenSeq(t) = FlattenSeq(s) \o x
  BY <1>5, <1>7, FlattenAppend
<1>9. Chat!Threaded = FlattenSeq(s)
  BY <1>2, ChatHelpers DEF Chat!Threaded
<1>10. Chat!Threaded' = FlattenSeq(t)
  BY <1>3, ChatHelpers DEF Chat!Threaded
<1> QED  BY <1>6, <1>8, <1>9, <1>10

LEMMA DeliverKeepsChat == ASSUME ChatInv, NEW a \in Chat!Asks, Chat!Deliver(a) PROVE ChatInv'
<1>1. PICK r \in Replies :
        /\ r = [ask |-> a, error |-> says[a] = "error",
                downgraded |-> says[a] = "replied" /\ failovers[a] > 0]
        /\ r.ask = a /\ (r.error <=> says[a] = "error")
  <2>1. a \in Nat
    BY ChatAssumption DEF Chat!Asks
  <2>2. PICK e \in BOOLEAN : e = (says[a] = "error")
    OBVIOUS
  <2>3. PICK d \in BOOLEAN : d = (says[a] = "replied" /\ failovers[a] > 0)
    OBVIOUS
  <2>4. PICK r : r = [ask |-> a, error |-> e, downgraded |-> d]
    OBVIOUS
  <2>5. r \in Replies /\ r.ask = a /\ r.error = e
    BY <2>1, <2>4 DEF Replies
  <2> QED  BY ONLY <2>2, <2>3, <2>4, <2>5, Zenon
<1>2. /\ says[a] \in {"replied", "error"} /\ says[a] \in Saying
      /\ thinking' = FALSE /\ answered' = Append(answered, r)
      /\ prompt' = [prompt EXCEPT ![a] = <<>>] /\ failovers' = [failovers EXCEPT ![a] = 0]
      /\ says' = [says EXCEPT ![a] = "delivered"]
      /\ UNCHANGED <<asked, turns, looked, talkedOver>>
  BY <1>1 DEF Chat!Deliver, Chat!Goto, Saying
<1>3. Chat!Threaded' = Chat!Threaded \o Chat!TurnsOf(r)
  <2>1. \A q \in Replies : Chat!TurnsOf(q) \in Seq(ChatTurns)
    BY RepliesType
  <2>2. answered \in Seq(Replies)
    BY DEF ChatInv, ChatTypes
  <2> QED  BY <1>2, <2>1, <2>2, ThreadGrows
<1>4. PICK t \in Seq(ChatTurns), u \in ChatTurns, v \in ChatTurns :
        t = Chat!Threaded /\ u = Chat!User(a) /\ v = Chat!Assistant(a)
  BY TurnTypes DEF ChatInv, ChatTypes
<1>5. Chat!Threaded' = IF says[a] = "error" THEN t ELSE Append(Append(t, u), v)
  <2>1. t \o <<>> = t
    OBVIOUS
  <2>2. t \o <<u, v>> = Append(Append(t, u), v)
    OBVIOUS
  <2>3. Chat!TurnsOf(r) = IF says[a] = "error" THEN <<>> ELSE <<u, v>>
    BY <1>1, <1>4 DEF Chat!TurnsOf
  <2> QED  BY <1>3, <1>4, <2>1, <2>2, <2>3
<1>6. Chat!Threaded' = Expected(says[a], a)
  BY <1>2, <1>4, <1>5 DEF Expected
<1>7. Chat!Threaded' \in Seq(ChatTurns)
  <2>1. Append(t, u) \in Seq(ChatTurns)
    OBVIOUS
  <2>2. Append(Append(t, u), v) \in Seq(ChatTurns)
    BY <2>1
  <2> QED  BY <1>5, <2>2
<1>8. /\ says' \in [Chat!Asks -> Saying \cup {"idle", "delivered"}]
      /\ says'[a] = "delivered" /\ \A b \in Chat!Asks : b # a => says'[b] = says[b]
  BY <1>2 DEF ChatInv, ChatTypes
<1>9. ChatTypes'
  <2>1. <<>> \in Seq(ChatTurns)
    OBVIOUS
  <2>2. prompt' \in [Chat!Asks -> Seq(ChatTurns)] /\ failovers' \in [Chat!Asks -> Nat]
    BY <1>2, <2>1 DEF ChatInv, ChatTypes
  <2>3. answered' \in Seq(Replies)
    <3>1. answered \in Seq(Replies)
      BY DEF ChatInv, ChatTypes
    <3> QED  BY <1>2, <3>1
  <2> QED  BY <1>2, <1>7, <1>8, <2>2, <2>3 DEF ChatInv, ChatTypes, Chat!Asks
<1>10. HistoryInv'
  <2>1. ASSUME NEW b \in Chat!Asks PROVE b > asked <=> says'[b] = "idle"
    <3>1. CASE b = a
      BY <1>2, <1>8, <3>1 DEF ChatInv, HistoryInv, Saying
    <3>2. CASE b # a
      BY <1>8, <3>2 DEF ChatInv, HistoryInv
    <3> QED  BY <3>1, <3>2
  <2> QED  BY <1>2, <2>1 DEF ChatInv, HistoryInv, Chat!Asks
<1>11. TalkInv'
  <2> SUFFICES ASSUME ~talkedOver PROVE TalkInv'
    BY <1>2 DEF TalkInv
  <2>1. a = asked /\ asked # 0
    BY <1>2, OnlyAsk
  <2>2. says'[asked'] = "delivered" /\ asked' # 0
    BY <1>2, <1>8, <2>1
  <2>3. EndOf(turns, Chat!Threaded')
    BY <1>6, <2>1 DEF ChatInv, TalkInv
  <2>4. (EndOf(turns, Expected(says[asked], asked)))'
    <3>1. (Expected(says[asked], asked))' = Chat!Threaded'
      BY <2>2 DEF Expected
    <3> QED  BY <1>2, <2>3, <3>1 DEF EndOf
  <2>5. (\A b \in Chat!Asks : b < asked => says[b] = "delivered")'
    <3>1. ASSUME NEW b \in Chat!Asks, b < asked PROVE says'[b] = "delivered"
      <4>1. b # a
        BY <2>1, <3>1, ChatAssumption DEF Chat!Asks
      <4> QED  BY <1>8, <3>1, <4>1 DEF ChatInv, TalkInv
    <3> QED  BY <1>2, <3>1 DEF Chat!Asks
  <2> QED  BY <1>2, <2>2, <2>4, <2>5 DEF TalkInv, Looks
<1> QED  BY <1>9, <1>10, <1>11 DEF ChatInv

LEMMA ChatNext == ChatInv /\ [Chat!Next]_(Chat!vars) => ChatInv'
<1> SUFFICES ASSUME ChatInv, [Chat!Next]_(Chat!vars) PROVE ChatInv'
  OBVIOUS
<1>1. CASE Chat!Submit
  BY <1>1, SubmitKeepsChat
<1>2. ASSUME NEW a \in Chat!Asks,
             Chat!Load(a) \/ Chat!Store(a) \/ Chat!Render(a) \/ Chat!Complete(a) \/ Chat!Deliver(a)
      PROVE  ChatInv'
  BY <1>2, LoadKeepsChat, StoreKeepsChat, RenderKeepsChat, CompleteKeepsChat, DeliverKeepsChat
<1>3. CASE UNCHANGED Chat!vars
  <2>1. UNCHANGED <<asked, thinking, answered, turns, says, looked, prompt, failovers, talkedOver>>
    BY <1>3 DEF Chat!vars
  <2>2. Chat!Threaded' = Chat!Threaded
    BY <2>1 DEF Chat!Threaded
  <2>3. ChatTypes' /\ HistoryInv'
    BY <2>1, <2>2 DEF ChatInv, ChatTypes, HistoryInv, Chat!Asks
  <2>4. (Expected(says[asked], asked))' = Expected(says[asked], asked)
    BY <2>1, <2>2 DEF Expected, Chat!User, Chat!Assistant
  <2>5. TalkInv'
    BY <2>1, <2>2, <2>4 DEF ChatInv, TalkInv, Chat!Asks, EndOf
  <2> QED  BY <2>3, <2>5 DEF ChatInv
<1> QED  BY <1>1, <1>2, <1>3 DEF Chat!Next

LEMMA ChatIsThreaded == ChatInv => Chat!ChatStaysThreaded
<1> SUFFICES ASSUME ChatInv PROVE Chat!ChatStaysThreaded
  OBVIOUS
<1>1. Len(turns) <= MaxTurns
  BY DEF ChatInv, HistoryInv
<1>2. turns \in Seq(ChatTurns) /\ Chat!Threaded \in Seq(ChatTurns) /\ asked \in Nat
      /\ prompt \in [Chat!Asks -> Seq(ChatTurns)] /\ asked <= MaxAsks
  BY DEF ChatInv, ChatTypes
<1>3. ASSUME ~talkedOver
      PROVE  /\ thinking <=> Chat!InFlight # {}
             /\ Chat!InFlight = {} => Chat!IsSuffix(turns, Chat!Threaded)
             /\ \A a \in Chat!InFlight : says[a] = "call" =>
                    Chat!IsSuffix(prompt[a], Append(Chat!Threaded, Chat!User(a)))
  <2>1. /\ \A a \in Chat!Asks : a < asked => says[a] = "delivered"
        /\ thinking <=> (asked # 0 /\ says[asked] # "delivered")
    BY <1>3 DEF ChatInv, TalkInv
  <2>2. \A a \in 1..asked : a \in Chat!Asks /\ (a = asked \/ a < asked)
    BY <1>2, ChatAssumption DEF Chat!Asks
  <2>3. Chat!InFlight = IF asked # 0 /\ says[asked] # "delivered" THEN {asked} ELSE {}
    <3>1. asked # 0 => asked \in 1..asked
      BY <1>2
    <3>2. asked = 0 => 1..asked = {}
      BY <1>2
    <3> QED  BY <2>1, <2>2, <3>1, <3>2 DEF Chat!InFlight
  <2>4. ASSUME Chat!InFlight = {} PROVE Chat!IsSuffix(turns, Chat!Threaded)
    <3>1. asked = 0 \/ says[asked] = "delivered"
      BY <2>3, <2>4
    <3>2. EndOf(turns, Chat!Threaded)
      BY <1>3, <3>1 DEF ChatInv, TalkInv, Expected
    <3> QED  BY <1>2, <3>2, EndIsSuffix, ChatHelpers
  <2>5. ASSUME NEW a \in Chat!InFlight, says[a] = "call"
        PROVE  Chat!IsSuffix(prompt[a], Append(Chat!Threaded, Chat!User(a)))
    <3>1. a = asked /\ asked # 0 /\ a \in Chat!Asks
      BY <2>2, <2>3 DEF Chat!InFlight
    <3>2. prompt[a] = turns /\ EndOf(turns, Expected("call", a))
      BY <1>3, <2>5, <3>1 DEF ChatInv, TalkInv
    <3>3. Expected("call", a) = Append(Chat!Threaded, Chat!User(a))
      BY DEF Expected
    <3>4. Append(Chat!Threaded, Chat!User(a)) \in Seq(ChatTurns)
      <4>1. Chat!User(a) \in ChatTurns
        BY <3>1, TurnTypes
      <4> QED  BY <1>2, <4>1
    <3> QED  BY <1>2, <3>2, <3>3, <3>4, EndIsSuffix, ChatHelpers
  <2> QED  BY <2>1, <2>3, <2>4, <2>5
<1> QED  BY <1>1, <1>3 DEF Chat!ChatStaysThreaded

(***************************************************************************)
(* While the owner waits for each answer the history and every prompt are  *)
(* the end of what was said and answered, and the history never exceeds    *)
(* its bound: for any number of lines, backends and turns.                 *)
(***************************************************************************)
THEOREM HistoryStaysThreaded == ServicesSpec => []ChatStaysThreaded
<1> DEFINE Inv == part = "chat" => ChatInv
<1>1. ServicesInit => Inv
  BY ChatInit DEF ServicesInit
<1>2. Inv /\ [ServicesNext]_servicesVars => Inv'
  <2> SUFFICES ASSUME Inv, [ServicesNext]_servicesVars, part' = "chat" PROVE ChatInv'
    OBVIOUS
  <2>1. part = "chat" /\ [Chat!Next]_(Chat!vars)
    BY DEF ServicesNext, servicesVars, chatVars, Chat!vars
  <2> QED  BY <2>1, ChatNext
<1>3. Inv => ChatStaysThreaded
  BY ChatIsThreaded DEF ChatStaysThreaded
<1> QED  BY <1>1, <1>2, <1>3, PTL DEF ServicesSpec

-----------------------------------------------------------------------------
(***************************************************************************)
(* The order-book feed.                                                    *)
(***************************************************************************)
Moves == [level : Levels, qty : Nat]

FeedTypes == /\ venue \in Seq(Moves) /\ lastU \in 0..Len(venue)
             /\ buffer \in Seq(Feed!Sent) /\ absorbed \in SUBSET Int

FeedInv == FeedTypes /\ Feed!BookIsVenueBook /\ Feed!NothingSkippedSilently

(* The library's helper. *)
LEMMA FeedMax == \A S : Feed!Max(S) = Max(S)
BY DEF Feed!Max, Max

(* A delta of the stream is the venue's word on one level, and covers      *)
(* updates of that level only.                                             *)
LEMMA SentIsTrue ==
    ASSUME venue \in Seq(Moves), NEW d \in Feed!Sent
    PROVE  /\ d.u \in 1..Len(venue) /\ d.pu \in 0..d.u - 1
           /\ d.level = venue[d.u].level /\ d.qty = venue[d.u].qty
           /\ \A i \in d.pu + 1..d.u : venue[i].level = d.level
<1>1. PICK u \in 1..Len(venue) : d \in Feed!DeltasOf(u)
  BY DEF Feed!Sent
<1>2. /\ d.u = u /\ d.level = venue[u].level /\ d.qty = venue[u].qty
      /\ \/ d.pu = u - 1
         \/ /\ d.pu = u - 2 /\ u - 1 \in 1..Len(venue)
            /\ venue[u - 1].level = venue[u].level
  BY <1>1 DEF Feed!DeltasOf
<1>3. Len(venue) \in Nat /\ u \in Nat /\ u >= 1
  OBVIOUS
<1>4. CASE d.pu = u - 1
  <2>1. \A i \in d.pu + 1..d.u : i = u
    BY <1>2, <1>3, <1>4
  <2> QED  BY <1>2, <1>3, <1>4, <2>1
<1>5. CASE d.pu = u - 2 /\ u - 1 \in 1..Len(venue) /\ venue[u - 1].level = venue[u].level
  <2>1. \A i \in d.pu + 1..d.u : i = u \/ i = u - 1
    BY <1>2, <1>3, <1>5
  <2> QED  BY <1>2, <1>3, <1>5, <2>1
<1> QED  BY <1>2, <1>4, <1>5

(* A delta that fits carries the venue's book on to its own update. *)
LEMMA AppliedIsTruth ==
    ASSUME venue \in Seq(Moves), NEW d \in Feed!Sent, NEW b, b.lastU \in 0..Len(venue),
           b.levels = Feed!Truth(b.lastU), Feed!Fits(b, d), ~Feed!Stale(b, d)
    PROVE  Feed!Applied(b, d).levels = Feed!Truth(d.u)
<1>0. Len(venue) \in Nat
  OBVIOUS
<1>1. PICK n \in Nat, u \in Nat, pu \in Nat :
          /\ n = b.lastU /\ u = d.u /\ pu = d.pu
          /\ pu <= n /\ n < u /\ u \in 1..Len(venue)
          /\ d.level = venue[u].level /\ d.qty = venue[u].qty
          /\ \A i \in pu + 1..u : venue[i].level = d.level
  <2>1. d.u \in Nat /\ d.pu \in Nat /\ b.lastU \in Nat
    BY <1>0, SentIsTrue
  <2>2. d.pu <= b.lastU /\ b.lastU < d.u
    BY <2>1 DEF Feed!Fits, Feed!Stale
  <2> QED  BY <2>1, <2>2, SentIsTrue
<1> DEFINE Touched(k, l) == {i \in 1..k : venue[i].level = l}
<1>2. \A l \in Levels : Feed!Truth(n)[l] = IF Touched(n, l) = {} THEN 0 ELSE venue[Max(Touched(n, l))].qty
  BY FeedMax DEF Feed!Truth
<1>3. \A l \in Levels : Feed!Truth(u)[l] = IF Touched(u, l) = {} THEN 0 ELSE venue[Max(Touched(u, l))].qty
  BY FeedMax DEF Feed!Truth
<1>4. Feed!Applied(b, d).levels = [Feed!Truth(n) EXCEPT ![d.level] = d.qty]
  BY <1>1 DEF Feed!Applied
<1>5. DOMAIN Feed!Truth(n) = Levels /\ DOMAIN Feed!Truth(u) = Levels
  BY DEF Feed!Truth
<1>6. ASSUME NEW l \in Levels, l # d.level
      PROVE  Feed!Truth(u)[l] = Feed!Truth(n)[l]
  <2>1. Touched(u, l) = Touched(n, l)
    <3>1. \A i \in 1..u : venue[i].level = l => i \in 1..n
      <4>1. \A i \in 1..u : i \notin 1..n => i \in pu + 1..u
        BY <1>1
      <4> QED  BY <1>1, <1>6, <4>1
    <3>2. \A i \in 1..n : i \in 1..u
      BY <1>1
    <3> QED  BY <3>1, <3>2
  <2> HIDE DEF Touched
  <2> QED  BY <1>2, <1>3, <2>1
<1>7. d.level \in Levels /\ Feed!Truth(u)[d.level] = d.qty
  <2>1. d.level \in Levels
    <3>1. venue[u] \in Moves
      BY <1>1
    <3> QED  BY <1>1, <3>1 DEF Moves
  <2>2. u \in Touched(u, d.level) /\ \A i \in Touched(u, d.level) : i \in Nat /\ i <= u
    BY <1>1
  <2>3. Max(Touched(u, d.level)) = u
    <3> HIDE DEF Touched
    <3> QED  BY <2>2 DEF Max
  <2> HIDE DEF Touched
  <2> QED  BY <1>1, <1>3, <2>1, <2>2, <2>3
<1>8. Feed!Applied(b, d).levels = Feed!Truth(u)
  <2>1. PICK t : t = Feed!Truth(n)
    OBVIOUS
  <2>2. PICK s : s = Feed!Truth(u)
    OBVIOUS
  <2>3. s = [l \in Levels |-> s[l]] /\ t = [l \in Levels |-> t[l]]
    BY <2>1, <2>2 DEF Feed!Truth
  <2>4. \A l \in Levels : s[l] = [t EXCEPT ![d.level] = d.qty][l]
    BY <1>6, <1>7, <2>1, <2>2, <2>3
  <2>5. s = [t EXCEPT ![d.level] = d.qty]
    BY <2>3, <2>4
  <2> QED  BY <1>4, <2>1, <2>2, <2>5
<1> QED  BY <1>1, <1>8

(* The buffer keeps deltas of the stream. *)
LEMMA BufferedIs ==
    ASSUME NEW T, NEW buf \in Seq(T), NEW d \in T
    PROVE  Feed!Buffered(buf, d) \in Seq(T)
<1>1. PICK all \in Seq(T) : all = Append(buf, d) /\ Len(all) = Len(buf) + 1
  <2>1. Append(buf, d) \in Seq(T) /\ Len(Append(buf, d)) = Len(buf) + 1
    OBVIOUS
  <2> QED  BY <2>1
<1>0. Len(buf) \in Nat /\ Len(all) \in Nat
  BY <1>1
<1>2. PICK m \in Nat : m = Feed!Max({1, Len(all) - MaxBuffer + 1}) /\ m >= 1 /\ m <= Len(all) + 1
  <2>1. PICK a \in Int : a = Len(all) - MaxBuffer + 1 /\ a <= Len(all) + 1
    <3>1. PICK l \in Nat, b \in Nat : l = Len(all) /\ b = MaxBuffer
      BY <1>0, FeedAssumption
    <3>2. l - b + 1 \in Int /\ l - b + 1 <= l + 1
      OBVIOUS
    <3> QED  BY <3>1, <3>2
  <2>2. PICK x \in {1, a} : \A y \in {1, a} : x >= y
    OBVIOUS
  <2>3. Max({1, a}) \in {1, a} /\ \A y \in {1, a} : Max({1, a}) >= y
    BY <2>2 DEF Max
  <2>4. Max({1, a}) \in Nat /\ Max({1, a}) >= 1 /\ Max({1, a}) <= Len(all) + 1
    BY <1>0, <2>1, <2>3
  <2> QED  BY <2>1, <2>4, FeedMax
<1>3. Feed!Buffered(buf, d) = SubSeq(all, m, Len(all))
  BY <1>1, <1>2 DEF Feed!Buffered
<1>4. SubSeq(all, m, Len(all)) \in Seq(T)
  <2>1. PICK k \in 0..Len(all) : m = k + 1
    <3>1. m - 1 \in 0..Len(all) /\ m = (m - 1) + 1
      BY <1>0, <1>2
    <3> QED  BY <3>1
  <2>2. SubSeq(all, k + 1, Len(all)) \in Seq(T)
    BY SuffixOf
  <2> QED  BY <2>1, <2>2
<1> QED  BY <1>3, <1>4

LEMMA PrunedIs ==
    ASSUME NEW T, NEW buf \in Seq(T), NEW through
    PROVE  Feed!Pruned(buf, through) \in Seq(T)
<1> DEFINE Keeps(f) == f = [k \in 0..Len(buf) |->
                IF k = 0 THEN <<>>
                ELSE IF buf[k].u > through THEN Append(f[k - 1], buf[k]) ELSE f[k - 1]]
           F == [p \in (1..Len(buf)) \X Seq(T) |->
                    IF buf[p[1]].u > through THEN Append(p[2], buf[p[1]]) ELSE p[2]]
<1>0. Len(buf) \in Nat /\ <<>> \in Seq(T) /\ \A k \in 1..Len(buf) : buf[k] \in T
  OBVIOUS
<1>1. \A k \in 1..Len(buf), x \in Seq(T) :
          /\ F[<<k, x>>] = IF buf[k].u > through THEN Append(x, buf[k]) ELSE x
          /\ F[<<k, x>>] \in Seq(T)
  BY <1>0
<1>2. \E f : Keeps(f)
  <2>1. PICK f \in [0..Len(buf) -> Seq(T)] :
            f[0] = <<>> /\ \A k \in 1..Len(buf) : f[k] = F[<<k, f[k - 1]>>]
    <3>1. \A k \in 1..Len(buf), x \in Seq(T) : F[<<k, x>>] \in Seq(T)
      BY <1>1
    <3> HIDE DEF F
    <3>2. StepsIn(Seq(T), F, Len(buf))
      BY <3>1 DEF StepsIn
    <3>3. \E f : SolvedBy(f, Seq(T), <<>>, F, Len(buf))
      BY <1>0, <3>2, RecursionExists
    <3> QED  BY <3>3 DEF SolvedBy
  <2>2. ASSUME NEW k \in 0..Len(buf)
        PROVE  f[k] = IF k = 0 THEN <<>>
                      ELSE IF buf[k].u > through THEN Append(f[k - 1], buf[k]) ELSE f[k - 1]
    <3>1. CASE k = 0
      BY <2>1, <3>1
    <3>2. CASE k # 0
      <4>1. k \in 1..Len(buf) /\ k - 1 \in 0..Len(buf)
        BY <1>0, <3>2
      <4>2. f[k - 1] \in Seq(T)
        BY <4>1
      <4> HIDE DEF F
      <4> QED  BY <1>1, <2>1, <3>2, <4>1, <4>2
    <3> QED  BY <3>1, <3>2
  <2>3. f = [k \in 0..Len(buf) |-> f[k]]
    OBVIOUS
  <2>4. Keeps(f)
    BY <2>2, <2>3
  <2> HIDE DEF Keeps
  <2> QED  BY <2>4
<1>3. PICK f : Keeps(f) /\ Feed!Pruned(buf, through) = f[Len(buf)]
  <2>1. Feed!Pruned(buf, through) = (CHOOSE f : Keeps(f))[Len(buf)]
    BY DEF Feed!Pruned
  <2>2. Keeps(CHOOSE f : Keeps(f))
    <3> HIDE DEF Keeps
    <3> QED  BY <1>2
  <2> HIDE DEF Keeps
  <2> QED  BY <2>1, <2>2
<1>4. f[0] \in Seq(T)
  BY <1>0, <1>3
<1>5. ASSUME NEW k \in 1..Len(buf), f[k - 1] \in Seq(T) PROVE f[k] \in Seq(T)
  <2>1. f[k] = IF buf[k].u > through THEN Append(f[k - 1], buf[k]) ELSE f[k - 1]
    <3>1. k \in 0..Len(buf) /\ k # 0
      BY <1>0
    <3> QED  BY <1>3, <3>1
  <2> QED  BY <1>0, <1>5, <2>1
<1>6. \A k \in 0..Len(buf) : f[k] \in Seq(T)
  BY <1>0, <1>4, <1>5, RecursionStays
<1> QED  BY <1>0, <1>3, <1>6

(* The helper of the libraries. *)
LEMMA FeedCardinality == \A S : Feed!Cardinality(S) = Cardinality(S)
BY DEF Feed!Cardinality, Cardinality

(* A stable sort rearranges: each place has exactly one delta with so many *)
(* before it.                                                              *)
LEMMA SortedIs ==
    ASSUME NEW T, NEW buf \in Seq(T), \A d \in T : d.u \in Int
    PROVE  Feed!SortedByU(buf) \in Seq(T) /\ Len(Feed!SortedByU(buf)) = Len(buf)
<1>1. PICK n \in Nat : n = Len(buf) /\ DOMAIN buf = 1..n
  OBVIOUS
<1> DEFINE before(i) == {j \in 1..n : \/ buf[j].u < buf[i].u
                                      \/ (buf[j].u = buf[i].u /\ j < i)}
           rank == [i \in 1..n |-> Cardinality(before(i))]
<1>2. \A i \in 1..n : buf[i] \in T /\ buf[i].u \in Int
  BY <1>1
<1>3. ASSUME NEW i \in 1..n
      PROVE  IsFiniteSet(before(i)) /\ Cardinality(before(i)) \in 0..n - 1
  <2>1. before(i) \in SUBSET ((1..n) \ {i})
    BY <1>2
  <2>2. IsFiniteSet(1..n) /\ Cardinality(1..n) = n
    BY FS_Interval
  <2>3. IsFiniteSet((1..n) \ {i}) /\ Cardinality((1..n) \ {i}) = n - 1
    BY <2>2, FS_RemoveElement
  <2> HIDE DEF before
  <2>4. IsFiniteSet(before(i)) /\ Cardinality(before(i)) <= n - 1
    BY <2>1, <2>3, FS_Subset
  <2> QED  BY <2>4, FS_CardinalityType
<1>4. ASSUME NEW i \in 1..n, NEW j \in 1..n, i \in before(j)
      PROVE  Cardinality(before(i)) < Cardinality(before(j))
  <2>1. before(i) \in SUBSET before(j) /\ i \notin before(i)
    BY <1>2, <1>4
  <2> HIDE DEF before
  <2>2. before(i) # before(j)
    BY <1>4, <2>1
  <2> QED  BY <1>3, <2>1, <2>2, FS_Subset
<1>5. \A i, j \in 1..n : i # j => i \in before(j) \/ j \in before(i)
  BY <1>2
<1>6. rank \in Injection(1..n, 0..n - 1)
  <2> HIDE DEF before
  <2>1. rank \in [1..n -> 0..n - 1]
    BY <1>3
  <2>2. \A i, j \in 1..n : i # j => rank[i] # rank[j]
    BY <1>3, <1>4, <1>5
  <2> HIDE DEF rank
  <2> QED  BY <2>1, <2>2 DEF Injection, IsInjective
<1>7. \A k \in 1..n : \E i \in 1..n : Cardinality(before(i)) = k - 1
  <2>1. IsFiniteSet(0..n - 1) /\ Cardinality(0..n - 1) = n /\ Cardinality(1..n) = n
    <3>1. 0 \in Int /\ n - 1 \in Int /\ (0 > n - 1 <=> n = 0) /\ (n - 1) - 0 + 1 = n
      OBVIOUS
    <3>2. IsFiniteSet(0..n - 1) /\ Cardinality(0..n - 1) = IF 0 > n - 1 THEN 0 ELSE (n - 1) - 0 + 1
      BY <3>1, FS_Interval
    <3>3. Cardinality(1..n) = n
      BY FS_Interval
    <3> QED  BY <3>1, <3>2, <3>3
  <2>2. rank \in Surjection(1..n, 0..n - 1)
    <3> HIDE DEF rank
    <3> QED  BY <1>6, <2>1, FS_Injection
  <2>3. \A k \in 0..n - 1 : \E i \in 1..n : rank[i] = k
    <3> HIDE DEF rank
    <3> QED  BY <2>2 DEF Surjection
  <2>4. \A k \in 1..n : k - 1 \in 0..n - 1
    OBVIOUS
  <2> HIDE DEF before
  <2> QED  BY <2>3, <2>4
<1> DEFINE behind(i) == {j \in DOMAIN buf : \/ buf[j].u < buf[i].u
                                            \/ (buf[j].u = buf[i].u /\ j < i)}
           sorted == [k \in DOMAIN buf |->
                        buf[CHOOSE i \in DOMAIN buf : Feed!Cardinality(behind(i)) = k - 1]]
<1>8. Feed!SortedByU(buf) = sorted
  BY DEF Feed!SortedByU
<1>9. \A i \in DOMAIN buf : Feed!Cardinality(behind(i)) = Cardinality(before(i))
  <2>1. \A i \in DOMAIN buf : behind(i) = before(i)
    BY <1>1
  <2> HIDE DEF behind, before
  <2> QED  BY <2>1, FeedCardinality
<1>10. \A k \in DOMAIN buf : \E i \in DOMAIN buf : Feed!Cardinality(behind(i)) = k - 1
  <2> HIDE DEF behind, before
  <2> QED  BY <1>1, <1>7, <1>9
<1>11. \A k \in DOMAIN buf : sorted[k] \in T
  <2> HIDE DEF behind
  <2> QED  BY <1>1, <1>2, <1>10
<1>12. sorted \in Seq(T) /\ Len(sorted) = n
  <2>1. sorted = [k \in 1..n |-> sorted[k]]
    BY <1>1
  <2> HIDE DEF sorted
  <2>2. sorted \in [1..n -> T]
    BY <1>1, <1>11, <2>1
  <2> QED  BY <2>2
<1> QED  BY <1>1, <1>8, <1>12

(* What a replay from a snapshot computes: the venue's book as of some     *)
(* update, and deltas of the stream.                                       *)
Books == [levels : {Feed!Truth(k) : k \in 0..Len(venue)}, lastU : 0..Len(venue), took : SUBSET Int]
Replays == {acc \in [book : Books, kept : Seq(Feed!Sent), gap : BOOLEAN] :
                acc.book.levels = Feed!Truth(acc.book.lastU)}

LEMMA AppliedIsBook ==
    ASSUME venue \in Seq(Moves), NEW d \in Feed!Sent, NEW b \in Books, b.levels = Feed!Truth(b.lastU),
           Feed!Fits(b, d), ~Feed!Stale(b, d)
    PROVE  /\ Feed!Applied(b, d) \in Books
           /\ Feed!Applied(b, d).levels = Feed!Truth(d.u) /\ Feed!Applied(b, d).lastU = d.u
<1>1. b.lastU \in 0..Len(venue) /\ b.took \in SUBSET Int
  BY DEF Books
<1>2. Feed!Applied(b, d).levels = Feed!Truth(d.u)
  BY <1>1, AppliedIsTruth
<1>3. d.u \in 1..Len(venue) /\ d.pu \in 0..d.u - 1 /\ Len(venue) \in Nat
  BY SentIsTrue
<1>4. d.u \in 0..Len(venue)
  BY <1>3
<1>5. (d.pu + 1)..d.u \in SUBSET Int
  BY <1>3
<1>6. PICK x, t : x = [b.levels EXCEPT ![d.level] = d.qty] /\ t = b.took \cup (d.pu + 1)..d.u
  OBVIOUS
<1>7. Feed!Applied(b, d) = [levels |-> x, lastU |-> d.u, took |-> t]
  BY <1>6 DEF Feed!Applied
<1>8. x = Feed!Truth(d.u) /\ t \in SUBSET Int
  BY <1>1, <1>2, <1>5, <1>6, <1>7
<1> QED  BY <1>2, <1>4, <1>7, <1>8 DEF Books

LEMMA ReplaysHave ==
    ASSUME NEW b \in Books, b.levels = Feed!Truth(b.lastU), NEW kept \in Seq(Feed!Sent), NEW gap \in BOOLEAN
    PROVE  [book |-> b, kept |-> kept, gap |-> gap] \in Replays
<1>1. PICK bks, kps : bks = Books /\ kps = Seq(Feed!Sent)
  OBVIOUS
<1>2. [book |-> b, kept |-> kept, gap |-> gap] \in [book : bks, kept : kps, gap : BOOLEAN]
  BY <1>1
<1> QED  BY <1>1, <1>2 DEF Replays

LEMMA ReplayStepStays ==
    ASSUME venue \in Seq(Moves), NEW acc \in Replays, NEW d \in Feed!Sent
    PROVE  Feed!ReplayStep(acc, d) \in Replays
<1>1. PICK bk \in Books, kp \in Seq(Feed!Sent), gp \in BOOLEAN :
          acc = [book |-> bk, kept |-> kp, gap |-> gp] /\ bk.levels = Feed!Truth(bk.lastU)
  <2>1. PICK bks, kps : bks = Books /\ kps = Seq(Feed!Sent)
    OBVIOUS
  <2>2. acc \in [book : bks, kept : kps, gap : BOOLEAN] /\ acc.book.levels = Feed!Truth(acc.book.lastU)
    BY <2>1 DEF Replays
  <2>3. /\ acc.book \in bks /\ acc.kept \in kps /\ acc.gap \in BOOLEAN
        /\ acc = [book |-> acc.book, kept |-> acc.kept, gap |-> acc.gap]
    BY <2>2
  <2> QED  BY <2>1, <2>2, <2>3
<1>2. CASE gp \/ Feed!Stale(bk, d)
  BY <1>1, <1>2 DEF Feed!ReplayStep
<1>3. CASE ~gp /\ ~Feed!Stale(bk, d) /\ Feed!Fits(bk, d)
  <2>1. PICK b \in Books : b = Feed!Applied(bk, d) /\ b.levels = Feed!Truth(b.lastU)
    BY <1>1, <1>3, AppliedIsBook
  <2>2. PICK kept \in Seq(Feed!Sent) : kept = Feed!Buffered(kp, d)
    BY BufferedIs
  <2>3. Feed!ReplayStep(acc, d) = [book |-> b, kept |-> kept, gap |-> gp]
    BY <1>1, <1>3, <2>1, <2>2 DEF Feed!ReplayStep
  <2> QED  BY <2>1, <2>3, ReplaysHave
<1>4. CASE ~gp /\ ~Feed!Stale(bk, d) /\ ~Feed!Fits(bk, d)
  <2>1. Feed!ReplayStep(acc, d) = [book |-> bk, kept |-> kp, gap |-> TRUE]
    BY <1>1, <1>4 DEF Feed!ReplayStep
  <2> QED  BY <1>1, <2>1, ReplaysHave
<1> QED  BY <1>2, <1>3, <1>4

LEMMA ReplayedIs ==
    ASSUME FeedTypes, NEW n \in 0..Len(venue), NEW buf \in Seq(Feed!Sent)
    PROVE  Feed!Replayed(n, buf) \in Replays
<1>0. Len(buf) \in Nat /\ Len(venue) \in Nat /\ venue \in Seq(Moves)
  BY DEF FeedTypes
<1>1. PICK sorted \in Seq(Feed!Sent) : sorted = Feed!SortedByU(buf) /\ Len(sorted) = Len(buf)
  <2>1. \A d \in Feed!Sent : d.u \in Int
    BY <1>0, SentIsTrue
  <2> QED  BY <2>1, SortedIs
<1>2. PICK base \in Replays : base = [book |-> Feed!FromSnapshot(n), kept |-> <<>>, gap |-> FALSE]
  <2>1. PICK b : b = [levels |-> Feed!Truth(n), lastU |-> n, took |-> absorbed]
    OBVIOUS
  <2>2. b = Feed!FromSnapshot(n) /\ b.levels = Feed!Truth(b.lastU)
    BY <2>1 DEF Feed!FromSnapshot
  <2>3. b \in Books
    BY <2>1 DEF Books, FeedTypes
  <2>4. <<>> \in Seq(Feed!Sent)
    OBVIOUS
  <2> QED  BY <2>2, <2>3, <2>4, ReplaysHave
<1> DEFINE Upto(f) == f = [k \in 0..Len(buf) |->
                              IF k = 0 THEN base ELSE Feed!ReplayStep(f[k - 1], sorted[k])]
           F == [p \in (1..Len(buf)) \X Replays |-> Feed!ReplayStep(p[2], sorted[p[1]])]
<1>3. \A k \in 1..Len(buf), acc \in Replays : /\ F[<<k, acc>>] = Feed!ReplayStep(acc, sorted[k])
                                              /\ F[<<k, acc>>] \in Replays
  <2>1. \A k \in 1..Len(buf) : sorted[k] \in Feed!Sent
    BY <1>1
  <2>2. \A k \in 1..Len(buf), acc \in Replays : Feed!ReplayStep(acc, sorted[k]) \in Replays
    BY <1>0, <2>1, ReplayStepStays
  <2> QED  BY <2>2
<1>4. \E f : Upto(f)
  <2>1. PICK f : SolvedBy(f, Replays, base, F, Len(buf))
    <3>1. StepsIn(Replays, F, Len(buf))
      <4> HIDE DEF F
      <4> QED  BY <1>3 DEF StepsIn
    <3> HIDE DEF F
    <3> QED  BY <1>0, <3>1, RecursionExists
  <2>2. f \in [0..Len(buf) -> Replays] /\ f[0] = base
        /\ \A k \in 1..Len(buf) : f[k] = F[<<k, f[k - 1]>>]
    <3> HIDE DEF F
    <3> QED  BY <2>1 DEF SolvedBy
  <2>3. ASSUME NEW k \in 0..Len(buf)
        PROVE  f[k] = IF k = 0 THEN base ELSE Feed!ReplayStep(f[k - 1], sorted[k])
    <3>1. CASE k = 0
      BY <2>2, <3>1
    <3>2. CASE k # 0
      <4>1. k \in 1..Len(buf) /\ k - 1 \in 0..Len(buf)
        BY <1>0, <3>2
      <4>2. f[k - 1] \in Replays
        BY <2>2, <4>1
      <4> HIDE DEF F
      <4> QED  BY <1>3, <2>2, <3>2, <4>1, <4>2
    <3> QED  BY <3>1, <3>2
  <2>4. f = [k \in 0..Len(buf) |-> f[k]]
    BY <2>2
  <2>5. Upto(f)
    BY <2>3, <2>4
  <2> HIDE DEF Upto
  <2> QED  BY <2>5
<1>5. PICK f : Upto(f) /\ Feed!Replayed(n, buf) = f[Len(buf)]
  <2>1. Feed!Replayed(n, buf) = (CHOOSE f : Upto(f))[Len(buf)]
    BY <1>1, <1>2 DEF Feed!Replayed
  <2>2. Upto(CHOOSE f : Upto(f))
    <3> HIDE DEF Upto
    <3> QED  BY <1>4
  <2> HIDE DEF Upto
  <2> QED  BY <2>1, <2>2
<1>6. f[0] \in Replays
  BY <1>0, <1>5
<1>7. ASSUME NEW k \in 1..Len(buf), f[k - 1] \in Replays PROVE f[k] \in Replays
  <2>1. f[k] = Feed!ReplayStep(f[k - 1], sorted[k])
    <3>1. k \in 0..Len(buf) /\ k # 0
      BY <1>0
    <3> QED  BY <1>5, <3>1
  <2>2. sorted[k] \in Feed!Sent
    BY <1>1
  <2> QED  BY <1>0, <1>7, <2>1, <2>2, ReplayStepStays
<1>8. \A k \in 0..Len(buf) : f[k] \in Replays
  BY <1>0, <1>6, <1>7, RecursionStays
<1> QED  BY <1>0, <1>5, <1>8

LEMMA FeedInit == Feed!Init => FeedInv
<1> SUFFICES ASSUME Feed!Init PROVE FeedInv
  OBVIOUS
<1>1. /\ venue = <<>> /\ buffer = <<>> /\ lastU = 0 /\ absorbed = {} /\ ready = FALSE
  BY DEF Feed!Init
<1>2. FeedTypes
  <2>1. Len(venue) = 0 /\ venue \in Seq(Moves) /\ buffer \in Seq(Feed!Sent)
    BY <1>1
  <2> QED  BY <1>1, <2>1 DEF FeedTypes
<1> QED  BY <1>1, <1>2 DEF FeedInv, Feed!BookIsVenueBook, Feed!NothingSkippedSilently

(* What the venue says next leaves its earlier books and deltas as they    *)
(* were.                                                                   *)
LEMMA VenueGrows ==
    ASSUME venue \in Seq(Moves), NEW l \in Levels, NEW q \in Nat,
           venue' = Append(venue, [level |-> l, qty |-> q])
    PROVE  /\ venue' \in Seq(Moves) /\ Len(venue') = Len(venue) + 1
           /\ \A n \in 0..Len(venue) : Feed!Truth(n)' = Feed!Truth(n)
           /\ Feed!Sent \subseteq Feed!Sent'
<1>0. Len(venue) \in Nat
  OBVIOUS
<1>1. PICK m \in Moves : m = [level |-> l, qty |-> q]
  BY DEF Moves
<1>2. /\ venue' \in Seq(Moves) /\ Len(venue') = Len(venue) + 1
      /\ DOMAIN venue = 1..Len(venue) /\ DOMAIN venue' = 1..Len(venue) + 1
      /\ \A i \in 1..Len(venue) : venue'[i] = venue[i]
  BY <1>1
<1>3. ASSUME NEW n \in 0..Len(venue)
      PROVE  Feed!Truth(n)' = Feed!Truth(n)
  <2>1. \A i \in 1..n : i \in 1..Len(venue)
    BY <1>0
  <2> DEFINE Touched(k) == {i \in 1..n : venue[i].level = k}
             TouchedNext(k) == {i \in 1..n : venue'[i].level = k}
  <2>2. \A k \in Levels : TouchedNext(k) = Touched(k)
    BY <1>2, <2>1
  <2>3. ASSUME NEW k \in Levels, Touched(k) # {}
        PROVE  Max(Touched(k)) \in 1..Len(venue)
    <3>1. Touched(k) \in SUBSET (0..n) /\ n \in Nat
      BY <1>0
    <3> HIDE DEF Touched
    <3>2. PICK x \in Touched(k) : \A y \in Touched(k) : x >= y
      <4>1. \A y \in Touched(k) : y \in Nat /\ y <= n
        BY <3>1
      <4> QED  BY <2>3, <3>1, <4>1, GreatestNat
    <3>3. Max(Touched(k)) \in Touched(k)
      BY <3>2 DEF Max
    <3> QED  BY <2>1, <3>3 DEF Touched
  <2>4. /\ Feed!Truth(n) = [k \in Levels |-> IF Touched(k) = {} THEN 0 ELSE venue[Max(Touched(k))].qty]
        /\ Feed!Truth(n)' = [k \in Levels |->
                IF TouchedNext(k) = {} THEN 0 ELSE venue'[Max(TouchedNext(k))].qty]
    BY FeedMax DEF Feed!Truth
  <2> HIDE DEF Touched, TouchedNext
  <2>5. \A k \in Levels : (IF TouchedNext(k) = {} THEN 0 ELSE venue'[Max(TouchedNext(k))].qty)
                        = (IF Touched(k) = {} THEN 0 ELSE venue[Max(Touched(k))].qty)
    BY <1>2, <2>2, <2>3
  <2> QED  BY <2>4, <2>5
<1>4. ASSUME NEW u \in 1..Len(venue)
      PROVE  Feed!DeltasOf(u)' = Feed!DeltasOf(u)
  <2>1. u \in 1..Len(venue) + 1 /\ venue'[u] = venue[u]
    BY <1>0, <1>2
  <2>2. {i \in {u - 1} \cap DOMAIN venue' : venue'[i].level = venue'[u].level}
        = {i \in {u - 1} \cap DOMAIN venue : venue[i].level = venue[u].level}
    BY <1>0, <1>2, <2>1
  <2> QED  BY <2>1, <2>2 DEF Feed!DeltasOf
<1>5. Feed!Sent \subseteq Feed!Sent'
  <2>1. ASSUME NEW d \in Feed!Sent PROVE d \in Feed!Sent'
    <3>1. PICK u \in 1..Len(venue) : d \in Feed!DeltasOf(u)
      BY <1>2 DEF Feed!Sent
    <3>2. u \in DOMAIN venue' /\ d \in Feed!DeltasOf(u)'
      BY <1>0, <1>2, <1>4, <3>1
    <3> QED  BY <3>2 DEF Feed!Sent
  <2> QED  BY <2>1
<1> QED  BY <1>2, <1>3, <1>5

LEMMA VenueMovesKeeps ==
    ASSUME FeedInv, NEW l \in Levels, NEW q \in {0, Len(venue) + 1}, Feed!VenueMoves(l, q)
    PROVE  FeedInv'
<1>1. /\ venue \in Seq(Moves) /\ lastU \in 0..Len(venue) /\ buffer \in Seq(Feed!Sent)
      /\ absorbed \in SUBSET Int /\ Len(venue) \in Nat
  BY DEF FeedInv, FeedTypes
<1>2. /\ venue' = Append(venue, [level |-> l, qty |-> q])
      /\ levels' = levels /\ lastU' = lastU /\ ready' = ready /\ buffer' = buffer
      /\ absorbed' = absorbed /\ reconciled' = reconciled
  BY DEF Feed!VenueMoves
<1>3. q \in Nat
  BY <1>1
<1>4. /\ venue' \in Seq(Moves) /\ Len(venue') = Len(venue) + 1
      /\ \A n \in 0..Len(venue) : Feed!Truth(n)' = Feed!Truth(n)
      /\ Feed!Sent \subseteq Feed!Sent'
  BY <1>1, <1>2, <1>3, VenueGrows
<1>5. FeedTypes'
  <2>1. lastU' \in 0..Len(venue')
    BY <1>1, <1>2, <1>4
  <2>2. buffer' \in Seq(Feed!Sent')
    <3>1. PICK s, t : s = Feed!Sent /\ t = Feed!Sent'
      OBVIOUS
    <3>2. buffer \in Seq(s) /\ s \subseteq t
      BY <1>1, <1>4, <3>1
    <3>3. buffer \in Seq(t)
      BY <3>2
    <3> QED  BY <1>2, <3>1, <3>3
  <2> QED  BY <1>1, <1>2, <1>4, <2>1, <2>2 DEF FeedTypes
<1>6. Feed!BookIsVenueBook'
  <2>1. ready => levels = Feed!Truth(lastU)
    BY DEF FeedInv, Feed!BookIsVenueBook
  <2>2. PICK n \in 0..Len(venue) : n = lastU /\ n = lastU'
    BY <1>1, <1>2
  <2>3. Feed!Truth(lastU)' = Feed!Truth(n)'
    BY <2>2 DEF Feed!Truth
  <2>4. Feed!Truth(lastU)' = Feed!Truth(lastU)
    BY <1>4, <2>2, <2>3
  <2> QED  BY <1>2, <2>1, <2>4 DEF Feed!BookIsVenueBook
<1>7. Feed!NothingSkippedSilently'
  BY <1>2 DEF FeedInv, Feed!NothingSkippedSilently
<1> QED  BY <1>5, <1>6, <1>7 DEF FeedInv

(* The state of the feed while the venue is still. *)
LEMMA FeedStands ==
    ASSUME FeedInv, venue' = venue, NEW n \in 0..Len(venue), lastU' = n,
           NEW buf \in Seq(Feed!Sent), buffer' = buf, NEW took \in SUBSET Int, absorbed' = took,
           ready' => levels' = Feed!Truth(n),
           \A u \in 1..n : u \in took \/ u <= reconciled'
    PROVE  FeedInv'
<1>1. Feed!Sent' = Feed!Sent
  BY DEF Feed!Sent, Feed!DeltasOf
<1>2. FeedTypes'
  <2>1. PICK s : s = Feed!Sent /\ s = Feed!Sent' /\ buffer' \in Seq(s)
    BY <1>1
  <2>2. buffer' \in Seq(Feed!Sent')
    BY <2>1
  <2>3. venue \in Seq(Moves)
    BY DEF FeedInv, FeedTypes
  <2> QED  BY <2>2, <2>3 DEF FeedTypes
<1>3. Feed!Truth(lastU)' = Feed!Truth(n)
  BY DEF Feed!Truth
<1>4. Feed!BookIsVenueBook' /\ Feed!NothingSkippedSilently'
  BY <1>3 DEF Feed!BookIsVenueBook, Feed!NothingSkippedSilently
<1> QED  BY <1>2, <1>4 DEF FeedInv

LEMMA ResyncKeeps ==
    ASSUME FeedInv, NEW buf \in Seq(Feed!Sent), Feed!Resync(buf), venue' = venue
    PROVE  FeedInv'
<1>1. CASE buffer' = buf /\ UNCHANGED <<levels, lastU, ready, absorbed, reconciled>>
  BY <1>1, FeedStands DEF FeedInv, FeedTypes, Feed!BookIsVenueBook, Feed!NothingSkippedSilently
<1>2. CASE \E n \in 0..Len(venue) :
              LET r == Feed!Replayed(n, buf) IN
              /\ levels' = r.book.levels /\ lastU' = r.book.lastU
              /\ absorbed' = r.book.took
              /\ buffer' = Feed!Pruned(r.kept, r.book.lastU)
              /\ ready' = TRUE
              /\ reconciled' = r.book.lastU
  <2>1. PICK n \in 0..Len(venue) :
              LET r == Feed!Replayed(n, buf) IN
              /\ levels' = r.book.levels /\ lastU' = r.book.lastU
              /\ absorbed' = r.book.took
              /\ buffer' = Feed!Pruned(r.kept, r.book.lastU)
              /\ reconciled' = r.book.lastU
    BY <1>2
  <2>2. PICK r \in Replays : r = Feed!Replayed(n, buf)
    BY ReplayedIs DEF FeedInv
  <2>3. PICK b \in Books, kept \in Seq(Feed!Sent) :
            b = r.book /\ kept = r.kept /\ b.levels = Feed!Truth(b.lastU)
    <3>1. PICK bks, kps : bks = Books /\ kps = Seq(Feed!Sent)
      OBVIOUS
    <3>2. r \in [book : bks, kept : kps, gap : BOOLEAN] /\ r.book.levels = Feed!Truth(r.book.lastU)
      BY <3>1 DEF Replays
    <3>3. r.book \in bks /\ r.kept \in kps
      BY <3>2
    <3> QED  BY <3>1, <3>2, <3>3
  <2>4. PICK u \in 0..Len(venue), took \in SUBSET Int : u = b.lastU /\ took = b.took
    BY DEF Books
  <2>5. PICK rest \in Seq(Feed!Sent) : rest = Feed!Pruned(kept, u)
    BY PrunedIs
  <2>6. /\ levels' = Feed!Truth(u) /\ lastU' = u /\ absorbed' = took
        /\ buffer' = rest /\ reconciled' = u
    BY <2>1, <2>2, <2>3, <2>4, <2>5
  <2>7. \A i \in 1..u : i <= u
    OBVIOUS
  <2> QED  BY <2>6, <2>7, FeedStands
<1> QED  BY <1>1, <1>2 DEF Feed!Resync

LEMMA ApplyKeeps ==
    ASSUME FeedInv, NEW d \in Feed!Sent, Feed!Apply(d)
    PROVE  FeedInv'
<1>1. /\ venue \in Seq(Moves) /\ lastU \in 0..Len(venue) /\ buffer \in Seq(Feed!Sent)
      /\ absorbed \in SUBSET Int /\ Len(venue) \in Nat /\ venue' = venue
      /\ ready => levels = Feed!Truth(lastU)
      /\ \A i \in 1..lastU : i \in absorbed \/ i <= reconciled
  BY DEF FeedInv, FeedTypes, Feed!Apply, Feed!BookIsVenueBook, Feed!NothingSkippedSilently
<1>2. PICK buf \in Seq(Feed!Sent) : buf = Feed!Buffered(buffer, d)
  BY <1>1, BufferedIs
<1>3. CASE buffer' = buf /\ UNCHANGED <<levels, lastU, ready, absorbed, reconciled>>
  BY <1>1, <1>3, FeedStands
<1>4. CASE /\ ready /\ ~Feed!Stale(Feed!Book, d) /\ Feed!Fits(Feed!Book, d)
           /\ levels' = Feed!Applied(Feed!Book, d).levels /\ lastU' = d.u
           /\ absorbed' = Feed!Applied(Feed!Book, d).took
           /\ buffer' = Feed!Pruned(buf, d.u)
           /\ UNCHANGED <<ready, reconciled>>
  <2>1. PICK b : b = Feed!Book /\ b.levels = levels /\ b.lastU = lastU /\ b.took = absorbed
    <3>1. Feed!Book = [levels |-> levels, lastU |-> lastU, took |-> absorbed]
      BY DEF Feed!Book
    <3>2. PICK b : b = [levels |-> levels, lastU |-> lastU, took |-> absorbed]
      OBVIOUS
    <3>3. b.levels = levels /\ b.lastU = lastU /\ b.took = absorbed
      BY <3>2
    <3> QED  BY <3>1, <3>2, <3>3
  <2>2. Feed!Applied(b, d).levels = Feed!Truth(d.u)
    BY <1>1, <1>4, <2>1, AppliedIsTruth
  <2>3. /\ d.u \in 1..Len(venue) /\ d.pu \in 0..d.u - 1 /\ d.pu <= lastU
    <3>1. d.u \in 1..Len(venue) /\ d.pu \in 0..d.u - 1
      BY <1>1, SentIsTrue
    <3> QED  BY <1>1, <1>4, <2>1, <3>1 DEF Feed!Fits
  <2>4. PICK u \in 0..Len(venue), pu \in Nat : u = d.u /\ pu = d.pu /\ pu <= lastU
    BY <1>1, <2>3
  <2>5. Feed!Applied(b, d).took = absorbed \cup ((pu + 1)..u)
    BY <2>1, <2>4 DEF Feed!Applied
  <2>6. PICK took \in SUBSET Int : took = absorbed \cup ((pu + 1)..u)
    <3>1. (pu + 1)..u \in SUBSET Int
      BY <2>4
    <3> QED  BY <1>1, <3>1
  <2>7. \A i \in 1..u : i \in took \/ i <= reconciled'
    <3>1. \A i \in 1..u : i \in 1..lastU \/ i \in (pu + 1)..u
      BY <1>1, <2>4
    <3> QED  BY <1>1, <1>4, <2>6, <3>1
  <2>8. PICK rest \in Seq(Feed!Sent) : rest = Feed!Pruned(buf, u)
    BY PrunedIs
  <2>9. /\ levels' = Feed!Truth(u) /\ lastU' = u /\ absorbed' = took /\ buffer' = rest
    BY <1>4, <2>1, <2>2, <2>4, <2>5, <2>6, <2>8
  <2> QED  BY <1>1, <2>7, <2>9, FeedStands
<1>5. CASE Feed!Resync(buf)
  BY <1>1, <1>5, ResyncKeeps
<1> QED  BY <1>2, <1>3, <1>4, <1>5 DEF Feed!Apply

LEMMA FeedNext == FeedInv /\ [Feed!Next]_(Feed!vars) => FeedInv'
<1> SUFFICES ASSUME FeedInv, [Feed!Next]_(Feed!vars) PROVE FeedInv'
  OBVIOUS
<1>1. CASE UNCHANGED Feed!vars
  BY <1>1, FeedStands
     DEF Feed!vars, FeedInv, FeedTypes, Feed!BookIsVenueBook, Feed!NothingSkippedSilently
<1>2. CASE \E l \in Levels, q \in {0, Len(venue) + 1} : Feed!VenueMoves(l, q)
  BY <1>2, VenueMovesKeeps
<1>3. CASE \E d \in Feed!Sent : Feed!Apply(d)
  BY <1>3, ApplyKeeps
<1>4. CASE Feed!Reconnect
  <2>1. buffer \in Seq(Feed!Sent)
    BY DEF FeedInv, FeedTypes
  <2> QED  BY <1>4, <2>1, ResyncKeeps DEF Feed!Reconnect
<1> QED  BY <1>1, <1>2, <1>3, <1>4 DEF Feed!Next

(***************************************************************************)
(* Once seeded, the book is the venue's own book as of its last update,    *)
(* whatever the stream lost, repeated, reordered or coalesced and however  *)
(* old the snapshot was, and each update it passed was taken or reported   *)
(* to reconciliation: for any levels, stream and size of buffer.           *)
(***************************************************************************)
THEOREM BookIsFollowed == ServicesSpec => []BookFollowsVenue
<1> DEFINE Inv == part = "feed" => FeedInv
<1>1. ServicesInit => Inv
  BY FeedInit DEF ServicesInit
<1>2. Inv /\ [ServicesNext]_servicesVars => Inv'
  <2> SUFFICES ASSUME Inv, [ServicesNext]_servicesVars, part' = "feed" PROVE FeedInv'
    OBVIOUS
  <2>1. part = "feed" /\ [Feed!Next]_(Feed!vars)
    BY DEF ServicesNext, servicesVars, feedVars, Feed!vars
  <2> QED  BY <2>1, FeedNext
<1>3. Inv => BookFollowsVenue
  BY DEF FeedInv, BookFollowsVenue
<1> QED  BY <1>1, <1>2, <1>3, PTL DEF ServicesSpec

-----------------------------------------------------------------------------
(***************************************************************************)
(* The supervisor.                                                         *)
(***************************************************************************)
(* The delay before the first restart is positive, none is shorter than    *)
(* the one before, and none exceeds the cap.                               *)
LEMMA Factored ==
    ASSUME NEW x \in Nat \ {0}, NEW y \in Nat \ {0}
    PROVE  x * y \in Nat \ {0} /\ x * y >= x
OBVIOUS

Grow(x) == IF x >= MaxBackoff THEN MaxBackoff ELSE x * Factor

LEMMA GrowIs == ASSUME NEW x \in Nat \ {0}
                PROVE  Grow(x) \in Nat \ {0} /\ (x >= MaxBackoff \/ Grow(x) >= x)
<1>1. Factor \in Nat \ {0} /\ MaxBackoff \in Nat \ {0}
  BY SupervisionAssumption
<1>2. x * Factor \in Nat \ {0} /\ x * Factor >= x
  BY <1>1, Factored
<1> QED  BY <1>1, <1>2 DEF Grow

LEMMA DelaysGrow ==
    ASSUME NEW n \in Nat
    PROVE  /\ Supervision!BackoffFor(n) \in 0..MaxBackoff
           /\ n # 0 => Supervision!BackoffFor(n) # 0
           /\ Supervision!BackoffFor(n) <= Supervision!BackoffFor(n + 1)
<1> DEFINE Grows(g) == g = [i \in Nat |-> IF i <= 1 THEN BaseBackoff
                                          ELSE IF g[i - 1] >= MaxBackoff THEN MaxBackoff
                                          ELSE g[i - 1] * Factor]
           T == Nat \ {0}
           F == [p \in T \X T |-> IF p[1] <= 1 THEN BaseBackoff ELSE Grow(p[2])]
<1>0. BaseBackoff \in T /\ Factor \in T /\ MaxBackoff \in T
  BY SupervisionAssumption
<1>1. \A k, x \in T : F[<<k, x>>] = IF k <= 1 THEN BaseBackoff ELSE Grow(x)
  OBVIOUS
<1>2. \E g : Grows(g)
  <2>1. StepsAlways(T, F)
    <3>1. \A x \in T : Grow(x) \in T
      BY GrowIs
    <3>2. \A k, x \in T : F[<<k, x>>] \in T
      <4> HIDE DEF F
      <4> QED  BY <1>0, <1>1, <3>1
    <3> HIDE DEF F
    <3> QED  BY <3>2 DEF StepsAlways
  <2>2. PICK g : /\ g \in [Nat -> T] /\ g[0] = BaseBackoff
                 /\ \A i \in Nat : g[i + 1] = F[<<i + 1, g[i]>>]
    <3> HIDE DEF F, T
    <3>1. \E g : SolvedAlways(g, T, BaseBackoff, F)
      BY <1>0, <2>1, RecursionOverNat
    <3> QED  BY <3>1 DEF SolvedAlways
  <2>3. ASSUME NEW i \in Nat
        PROVE  g[i] = IF i <= 1 THEN BaseBackoff
                      ELSE IF g[i - 1] >= MaxBackoff THEN MaxBackoff ELSE g[i - 1] * Factor
    <3>1. CASE i = 0
      BY <2>2, <3>1
    <3>2. CASE i # 0
      <4>1. PICK j \in Nat : i = j + 1 /\ i - 1 = j /\ i \in T
        <5>1. i - 1 \in Nat /\ i = (i - 1) + 1 /\ i \in T
          BY <3>2
        <5> QED  BY <5>1
      <4>2. g[i] = F[<<i, g[j]>>] /\ g[j] \in T
        <5> HIDE DEF F
        <5> QED  BY <2>2, <4>1
      <4> HIDE DEF F
      <4> QED  BY <1>1, <4>1, <4>2 DEF Grow
    <3> QED  BY <3>1, <3>2
  <2>4. g = [i \in Nat |-> g[i]]
    BY <2>2
  <2>5. Grows(g)
    <3> HIDE DEF F
    <3> QED  BY <2>3, <2>4
  <2> HIDE DEF Grows
  <2> QED  BY <2>5
<1>3. PICK g : /\ Grows(g)
               /\ \A m \in Nat : Supervision!BackoffFor(m) =
                      IF m <= 0 THEN 0 ELSE IF g[m] > MaxBackoff THEN MaxBackoff ELSE g[m]
  <2>1. \A m \in Nat : Supervision!BackoffFor(m) =
            IF m <= 0 THEN 0
            ELSE IF (CHOOSE g : Grows(g))[m] > MaxBackoff THEN MaxBackoff ELSE (CHOOSE g : Grows(g))[m]
    BY DEF Supervision!BackoffFor
  <2>2. Grows(CHOOSE g : Grows(g))
    <3> HIDE DEF Grows
    <3> QED  BY <1>2
  <2> HIDE DEF Grows
  <2> QED  BY <2>1, <2>2
<1>4. \A m \in Nat : g[m] = IF m <= 1 THEN BaseBackoff ELSE Grow(g[m - 1])
  BY <1>3 DEF Grow
<1> HIDE DEF Grows, F
<1>5. \A m \in Nat : g[m] \in T
  <2> DEFINE S == {m \in Nat : g[m] \in T}
  <2>1. 0 \in S
    BY <1>0, <1>4
  <2>2. ASSUME NEW m \in Nat, m \in S PROVE m + 1 \in S
    <3>1. m + 1 \in Nat /\ (m + 1) - 1 = m /\ g[m] \in T
      BY <2>2
    <3>2. g[m + 1] = BaseBackoff \/ g[m + 1] = Grow(g[m])
      BY <1>4, <3>1
    <3> QED  BY <1>0, <3>1, <3>2, GrowIs
  <2> HIDE DEF S
  <2>3. \A m \in Nat : m \in S
    BY <2>1, <2>2, SetInduction
  <2> QED  BY <2>3 DEF S
<1>6. g[n + 1] >= g[n] \/ (g[n] >= MaxBackoff /\ g[n + 1] = MaxBackoff)
  <2>1. n + 1 \in Nat /\ (n + 1) - 1 = n /\ g[n] \in T /\ g[n + 1] \in T
    BY <1>5
  <2>2. CASE n = 0
    <3>1. g[n] = BaseBackoff /\ g[n + 1] = BaseBackoff
      BY <1>4, <2>2
    <3> QED  BY <1>0, <3>1
  <2>3. CASE n # 0
    <3>1. g[n + 1] = Grow(g[n])
      BY <1>4, <2>1, <2>3
    <3>2. CASE g[n] >= MaxBackoff
      BY <3>1, <3>2 DEF Grow
    <3>3. CASE ~(g[n] >= MaxBackoff)
      BY <2>1, <3>1, <3>3, GrowIs
    <3> QED  BY <3>2, <3>3
  <2> QED  BY <2>2, <2>3
<1>7. n + 1 \in Nat /\ ~(n + 1 <= 0)
  OBVIOUS
<1>8. PICK x \in T, y \in T, b \in T : x = g[n] /\ y = g[n + 1] /\ b = MaxBackoff
  BY <1>0, <1>5, <1>7
<1>9. /\ Supervision!BackoffFor(n) = IF n <= 0 THEN 0 ELSE IF x > b THEN b ELSE x
      /\ Supervision!BackoffFor(n + 1) = IF y > b THEN b ELSE y
      /\ y >= x \/ (x >= b /\ y = b)
  BY <1>3, <1>6, <1>7, <1>8
<1> QED  BY <1>8, <1>9

Stages == {"running", "failed", "waiting", "recovered", "gaveUp", "stopped"}

SupervisionTypes ==
    /\ at \in [Components -> Stages] /\ restarts \in [Components -> 0..MaxRestarts]
    /\ backoffs \in [Components -> 0..MaxBackoff] /\ lastErr \in [Components -> BOOLEAN]
    /\ results \in SUBSET Components

(* What a call may be like where it stands: it waits only while a restart  *)
(* is left, and the delay is that of its last restart or of the next one.  *)
CallInv(c) ==
    /\ at[c] = "waiting" => restarts[c] < MaxRestarts
    /\ at[c] \in {"failed", "waiting", "gaveUp", "stopped"} => lastErr[c]
    /\ at[c] = "gaveUp" => restarts[c] = MaxRestarts
    /\ at[c] = "stopped" => cancelled
    /\ \/ backoffs[c] = Supervision!BackoffFor(restarts[c])
       \/ /\ at[c] \in {"waiting", "stopped"}
          /\ backoffs[c] = Supervision!BackoffFor(restarts[c] + 1)
    /\ at[c] = "waiting" => backoffs[c] = Supervision!BackoffFor(restarts[c] + 1)

SupervisionInv == /\ SupervisionTypes /\ \A c \in Components : CallInv(c)
                  /\ \A c \in results : at[c] \in Supervision!Ended
                  /\ returned => results = Components

LEMMA SupervisionInit == Supervision!Init => SupervisionInv
<1> SUFFICES ASSUME Supervision!Init PROVE SupervisionInv
  OBVIOUS
<1>2. /\ at = [c \in Components |-> "running"] /\ restarts = [c \in Components |-> 0]
      /\ backoffs = [c \in Components |-> 0] /\ lastErr = [c \in Components |-> FALSE]
      /\ cancelled = FALSE /\ results = {} /\ returned = FALSE
  BY DEF Supervision!Init
<1>3. 0 \in 0..MaxRestarts /\ 0 \in 0..MaxBackoff
  BY SupervisionAssumption
<1>4. SupervisionTypes
  BY <1>2, <1>3 DEF SupervisionTypes, Stages
<1>5. Supervision!BackoffFor(0) = 0
  BY DEF Supervision!BackoffFor
<1>6. \A c \in Components : CallInv(c)
  BY <1>2, <1>5 DEF CallInv
<1> QED  BY <1>2, <1>4, <1>6 DEF SupervisionInv

(* The other calls do not notice. *)
LEMMA OneCallMoves ==
    ASSUME SupervisionInv, NEW c \in Components, SupervisionTypes', CallInv(c)',
           at[c] \notin Supervision!Ended, results' = results, returned' = returned,
           cancelled' = cancelled,
           \A d \in Components \ {c} : /\ at'[d] = at[d] /\ restarts'[d] = restarts[d]
                                       /\ backoffs'[d] = backoffs[d] /\ lastErr'[d] = lastErr[d]
    PROVE  SupervisionInv'
<1>1. ASSUME NEW d \in Components PROVE CallInv(d)'
  <2>1. CASE d = c
    BY <2>1
  <2>2. CASE d # c
    <3>1. CallInv(d)
      BY DEF SupervisionInv
    <3>2. /\ at'[d] = at[d] /\ restarts'[d] = restarts[d]
          /\ backoffs'[d] = backoffs[d] /\ lastErr'[d] = lastErr[d]
      BY <2>2
    <3> QED  BY <3>1, <3>2 DEF CallInv, Supervision!BackoffFor
  <2> QED  BY <2>1, <2>2
<1>2. \A d \in results' : at'[d] \in Supervision!Ended
  BY DEF SupervisionInv, SupervisionTypes
<1> QED  BY <1>1, <1>2 DEF SupervisionInv, Supervision!Ended

LEMMA RunReturnsKeeps ==
    ASSUME SupervisionInv, NEW c \in Components, NEW failed \in BOOLEAN,
           Supervision!RunReturns(c, failed)
    PROVE  SupervisionInv'
<1>1. SupervisionTypes /\ CallInv(c)
  BY DEF SupervisionInv
<1>2. /\ at[c] = "running" /\ at' = [at EXCEPT ![c] = IF failed THEN "failed" ELSE "recovered"]
      /\ lastErr' = [lastErr EXCEPT ![c] = @ \/ failed]
      /\ UNCHANGED <<restarts, backoffs, cancelled, results, returned>>
  BY DEF Supervision!RunReturns
<1>3. SupervisionTypes'
  <2>1. at' \in [Components -> Stages]
    BY <1>1, <1>2 DEF SupervisionTypes, Stages
  <2>2. (lastErr[c] \/ failed) \in BOOLEAN
    OBVIOUS
  <2>3. lastErr' \in [Components -> BOOLEAN]
    BY <1>1, <1>2, <2>2, Zenon DEF SupervisionTypes
  <2> QED  BY <1>1, <1>2, <2>1, <2>3 DEF SupervisionTypes
<1>4. CallInv(c)'
  <2>1. at'[c] \in {"failed", "recovered"} /\ (at'[c] = "failed" => failed)
    BY <1>1, <1>2 DEF SupervisionTypes
  <2>2. failed => lastErr'[c]
    <3>1. lastErr'[c] = (lastErr[c] \/ failed)
      BY <1>1, <1>2, Zenon DEF SupervisionTypes
    <3> QED  BY <3>1
  <2>3. backoffs[c] = Supervision!BackoffFor(restarts[c])
    BY <1>1, <1>2 DEF CallInv
  <2>4. restarts' = restarts /\ backoffs' = backoffs
    BY <1>2
  <2> QED  BY <2>1, <2>2, <2>3, <2>4 DEF CallInv, Supervision!BackoffFor
<1>5. \A d \in Components \ {c} : at'[d] = at[d] /\ lastErr'[d] = lastErr[d]
  BY <1>1, <1>2 DEF SupervisionTypes
<1> QED  BY <1>2, <1>3, <1>4, <1>5, OneCallMoves DEF Supervision!Ended

LEMMA DecideKeeps ==
    ASSUME SupervisionInv, NEW c \in Components, Supervision!Decide(c)
    PROVE  SupervisionInv'
<1>1. SupervisionTypes /\ CallInv(c)
  BY DEF SupervisionInv
<1>2. at[c] = "failed" /\ UNCHANGED <<restarts, lastErr, cancelled, results, returned>>
  BY DEF Supervision!Decide
<1>3. /\ restarts[c] \in 0..MaxRestarts /\ MaxRestarts \in Nat /\ lastErr[c]
      /\ backoffs[c] = Supervision!BackoffFor(restarts[c])
  BY <1>1, <1>2, SupervisionAssumption DEF CallInv, SupervisionTypes
<1>4. CASE cancelled /\ at' = [at EXCEPT ![c] = "stopped"] /\ UNCHANGED backoffs
  <2>1. SupervisionTypes'
    BY <1>1, <1>2, <1>4 DEF SupervisionTypes, Stages
  <2>2. at'[c] = "stopped" /\ \A d \in Components \ {c} : at'[d] = at[d]
    BY <1>1, <1>4 DEF SupervisionTypes
  <2>3. CallInv(c)'
    BY <1>2, <1>3, <1>4, <2>2 DEF CallInv, Supervision!BackoffFor
  <2> QED  BY <1>2, <1>4, <2>1, <2>2, <2>3, OneCallMoves DEF Supervision!Ended
<1>5. CASE /\ ~cancelled /\ Supervision!Exhausted(c)
           /\ at' = [at EXCEPT ![c] = "gaveUp"] /\ UNCHANGED backoffs
  <2>1. SupervisionTypes'
    BY <1>1, <1>2, <1>5 DEF SupervisionTypes, Stages
  <2>2. at'[c] = "gaveUp" /\ \A d \in Components \ {c} : at'[d] = at[d]
    BY <1>1, <1>5 DEF SupervisionTypes
  <2>3. restarts[c] = MaxRestarts
    BY <1>3, <1>5 DEF Supervision!Exhausted
  <2>4. CallInv(c)'
    BY <1>2, <1>3, <1>5, <2>2, <2>3 DEF CallInv, Supervision!BackoffFor
  <2> QED  BY <1>2, <1>5, <2>1, <2>2, <2>4, OneCallMoves DEF Supervision!Ended
<1>6. CASE /\ ~cancelled /\ ~Supervision!Exhausted(c)
           /\ at' = [at EXCEPT ![c] = "waiting"]
           /\ backoffs' = [backoffs EXCEPT ![c] = Supervision!BackoffFor(restarts[c] + 1)]
  <2>0. restarts[c] < MaxRestarts /\ restarts[c] + 1 \in Nat
    BY <1>3, <1>6 DEF Supervision!Exhausted
  <2>1. Supervision!BackoffFor(restarts[c] + 1) \in 0..MaxBackoff
    BY <2>0, DelaysGrow
  <2>2. SupervisionTypes'
    BY <1>1, <1>2, <1>6, <2>1 DEF SupervisionTypes, Stages
  <2>3. /\ at'[c] = "waiting" /\ backoffs'[c] = Supervision!BackoffFor(restarts[c] + 1)
        /\ \A d \in Components \ {c} : at'[d] = at[d] /\ backoffs'[d] = backoffs[d]
    BY <1>1, <1>6 DEF SupervisionTypes
  <2>4. CallInv(c)'
    BY <1>2, <1>3, <2>0, <2>3 DEF CallInv, Supervision!BackoffFor
  <2> QED  BY <1>2, <1>6, <2>2, <2>3, <2>4, OneCallMoves DEF Supervision!Ended
<1> QED  BY <1>4, <1>5, <1>6 DEF Supervision!Decide

LEMMA AwakeKeeps ==
    ASSUME SupervisionInv, NEW c \in Components, Supervision!Awake(c)
    PROVE  SupervisionInv'
<1>1. SupervisionTypes /\ CallInv(c)
  BY DEF SupervisionInv
<1>2. at[c] = "waiting" /\ UNCHANGED <<backoffs, lastErr, cancelled, results, returned>>
  BY DEF Supervision!Awake
<1>3. /\ restarts[c] \in 0..MaxRestarts /\ MaxRestarts \in Nat /\ restarts[c] < MaxRestarts
      /\ lastErr[c] /\ backoffs[c] = Supervision!BackoffFor(restarts[c] + 1)
  BY <1>1, <1>2, SupervisionAssumption DEF CallInv, SupervisionTypes
<1>4. CASE at' = [at EXCEPT ![c] = "running"] /\ restarts' = Supervision!Count(c)
  <2>1. restarts' = [restarts EXCEPT ![c] = restarts[c] + 1] /\ restarts[c] + 1 \in 0..MaxRestarts
    BY <1>3, <1>4 DEF Supervision!Count
  <2>2. SupervisionTypes'
    BY <1>1, <1>2, <1>4, <2>1 DEF SupervisionTypes, Stages
  <2>3. /\ at'[c] = "running" /\ restarts'[c] = restarts[c] + 1
        /\ \A d \in Components \ {c} : at'[d] = at[d] /\ restarts'[d] = restarts[d]
    BY <1>1, <1>4, <2>1 DEF SupervisionTypes
  <2>4. CallInv(c)'
    BY <1>2, <1>3, <2>3 DEF CallInv, Supervision!BackoffFor
  <2> QED  BY <1>2, <2>2, <2>3, <2>4, OneCallMoves DEF Supervision!Ended
<1>5. CASE cancelled /\ at' = [at EXCEPT ![c] = "stopped"] /\ UNCHANGED restarts
  <2>1. SupervisionTypes'
    BY <1>1, <1>2, <1>5 DEF SupervisionTypes, Stages
  <2>2. at'[c] = "stopped" /\ \A d \in Components \ {c} : at'[d] = at[d]
    BY <1>1, <1>5 DEF SupervisionTypes
  <2>3. CallInv(c)'
    BY <1>2, <1>3, <1>5, <2>2 DEF CallInv, Supervision!BackoffFor
  <2> QED  BY <1>2, <1>5, <2>1, <2>2, <2>3, OneCallMoves DEF Supervision!Ended
<1> QED  BY <1>4, <1>5 DEF Supervision!Awake

(* The calls stand where they stood. *)
LEMMA CallsStand ==
    ASSUME SupervisionInv, UNCHANGED <<at, restarts, backoffs, lastErr>>, cancelled => cancelled',
           results' \in SUBSET Components, \A c \in results' : at[c] \in Supervision!Ended,
           returned' => results' = Components
    PROVE  SupervisionInv'
<1>1. SupervisionTypes'
  BY DEF SupervisionInv, SupervisionTypes
<1>2. \A c \in Components : CallInv(c)'
  <2>1. \A c \in Components : CallInv(c)
    BY DEF SupervisionInv
  <2> QED  BY <2>1 DEF CallInv, Supervision!BackoffFor
<1> QED  BY <1>1, <1>2 DEF SupervisionInv, Supervision!Ended

LEMMA SupervisionNext == SupervisionInv /\ [Supervision!Next]_(Supervision!vars) => SupervisionInv'
<1> SUFFICES ASSUME SupervisionInv, [Supervision!Next]_(Supervision!vars) PROVE SupervisionInv'
  OBVIOUS
<1>0. /\ results \in SUBSET Components /\ \A c \in results : at[c] \in Supervision!Ended
      /\ returned => results = Components
  BY DEF SupervisionInv, SupervisionTypes
<1>1. CASE UNCHANGED Supervision!vars
  BY <1>0, <1>1, CallsStand DEF Supervision!vars
<1>2. ASSUME NEW c \in Components, NEW failed \in BOOLEAN, Supervision!RunReturns(c, failed)
      PROVE  SupervisionInv'
  BY <1>2, RunReturnsKeeps
<1>3. ASSUME NEW c \in Components, Supervision!Supervises(c) PROVE SupervisionInv'
  <2>1. CASE Supervision!Decide(c)
    BY <2>1, DecideKeeps
  <2>2. CASE Supervision!Awake(c)
    BY <2>2, AwakeKeeps
  <2>3. CASE Supervision!Store(c)
    BY <1>0, <2>3, CallsStand DEF Supervision!Store
  <2> QED  BY <1>3, <2>1, <2>2, <2>3 DEF Supervision!Supervises
<1>4. CASE Supervision!Return
  BY <1>0, <1>4, CallsStand DEF Supervision!Return
<1>5. CASE Supervision!Cancel
  BY <1>0, <1>5, CallsStand DEF Supervision!Cancel
<1> QED  BY <1>1, <1>2, <1>3, <1>4, <1>5 DEF Supervision!Next

(***************************************************************************)
(* What the outcomes say is so: a component was given up only when every   *)
(* restart was spent, a call was stopped only when the context was done,   *)
(* and SuperviseAll returned only when each call had ended; no component   *)
(* was restarted more often than the policy allows, nor waited longer.     *)
(***************************************************************************)
OutcomesAreTrue ==
    \A c \in Components :
        /\ restarts[c] <= MaxRestarts /\ backoffs[c] <= MaxBackoff
        /\ at[c] = "gaveUp" => restarts[c] = MaxRestarts /\ lastErr[c]
        /\ at[c] = "stopped" => cancelled /\ lastErr[c]
        /\ returned => at[c] \in Supervision!Ended

(* A call that has ended does not run its component again, and no delay is *)
(* shorter than the one before.                                            *)
CallsOnlyGoOn ==
    \A c \in Components : /\ at[c] \in Supervision!Ended => at'[c] = at[c]
                          /\ backoffs'[c] >= backoffs[c]

LEMMA StepsGoOn ==
    ASSUME SupervisionInv, [Supervision!Next]_(Supervision!vars)
    PROVE  CallsOnlyGoOn
<1>1. /\ at \in [Components -> Stages] /\ backoffs \in [Components -> 0..MaxBackoff]
      /\ restarts \in [Components -> 0..MaxRestarts] /\ MaxRestarts \in Nat /\ MaxBackoff \in Nat
  BY SupervisionAssumption DEF SupervisionInv, SupervisionTypes
<1>2. CASE UNCHANGED <<at, backoffs>>
  BY <1>1, <1>2 DEF CallsOnlyGoOn
<1>3. ASSUME NEW c \in Components, at[c] \notin Supervision!Ended,
             \A d \in Components \ {c} : at'[d] = at[d] /\ backoffs'[d] = backoffs[d],
             backoffs'[c] >= backoffs[c]
      PROVE  CallsOnlyGoOn
  <2>1. \A d \in Components : backoffs[d] \in Nat
    BY <1>1
  <2> QED  BY <1>3, <2>1 DEF CallsOnlyGoOn
<1>4. ASSUME NEW c \in Components, NEW failed \in BOOLEAN, Supervision!RunReturns(c, failed)
      PROVE  CallsOnlyGoOn
  <2>1. /\ at[c] = "running" /\ backoffs' = backoffs
        /\ at' = [at EXCEPT ![c] = IF failed THEN "failed" ELSE "recovered"]
    BY <1>4 DEF Supervision!RunReturns
  <2>2. \A d \in Components \ {c} : at'[d] = at[d] /\ backoffs'[d] = backoffs[d]
    BY <1>1, <2>1
  <2>3. at[c] \notin Supervision!Ended /\ backoffs'[c] >= backoffs[c]
    BY <1>1, <2>1 DEF Supervision!Ended
  <2> QED  BY <1>3, <2>2, <2>3
<1>5. ASSUME NEW c \in Components, Supervision!Decide(c) PROVE CallsOnlyGoOn
  <2>1. at[c] = "failed" /\ backoffs[c] = Supervision!BackoffFor(restarts[c])
    BY <1>5 DEF Supervision!Decide, SupervisionInv, CallInv
  <2>2. \E s \in Stages : at' = [at EXCEPT ![c] = s]
    BY <1>5 DEF Supervision!Decide, Stages
  <2>3. \/ backoffs' = backoffs
        \/ backoffs' = [backoffs EXCEPT ![c] = Supervision!BackoffFor(restarts[c] + 1)]
    BY <1>5 DEF Supervision!Decide
  <2>4. \A d \in Components \ {c} : at'[d] = at[d] /\ backoffs'[d] = backoffs[d]
    BY <1>1, <2>2, <2>3
  <2>5. Supervision!BackoffFor(restarts[c]) <= Supervision!BackoffFor(restarts[c] + 1)
    <3>1. restarts[c] \in Nat
      BY <1>1
    <3> QED  BY <3>1, DelaysGrow
  <2>6. backoffs'[c] = backoffs[c] \/ backoffs'[c] = Supervision!BackoffFor(restarts[c] + 1)
    BY <1>1, <2>3
  <2>7. backoffs'[c] >= backoffs[c]
    <3>1. backoffs[c] \in Nat
      BY <1>1
    <3> QED  BY <2>1, <2>5, <2>6, <3>1
  <2> QED  BY <1>3, <2>1, <2>4, <2>7 DEF Supervision!Ended
<1>6. ASSUME NEW c \in Components, Supervision!Awake(c) PROVE CallsOnlyGoOn
  <2>1. at[c] = "waiting" /\ backoffs' = backoffs /\ \E s \in Stages : at' = [at EXCEPT ![c] = s]
    BY <1>6 DEF Supervision!Awake, Stages
  <2>2. \A d \in Components \ {c} : at'[d] = at[d] /\ backoffs'[d] = backoffs[d]
    BY <1>1, <2>1
  <2>3. backoffs'[c] >= backoffs[c]
    BY <1>1, <2>1
  <2> QED  BY <1>3, <2>1, <2>2, <2>3 DEF Supervision!Ended
<1>7. CASE \/ UNCHANGED Supervision!vars \/ Supervision!Return \/ Supervision!Cancel
           \/ \E c \in Components : Supervision!Store(c)
  BY <1>2, <1>7 DEF Supervision!vars, Supervision!Return, Supervision!Cancel, Supervision!Store
<1> QED  BY <1>4, <1>5, <1>6, <1>7 DEF Supervision!Next, Supervision!Supervises

(***************************************************************************)
(* The first promise of SupervisionSettles, for every number of components *)
(* and every policy: nothing is restarted more often than MaxRestarts.     *)
(***************************************************************************)
THEOREM RestartsAreBounded == ServicesSpec => \A c \in Components : [](restarts[c] <= MaxRestarts)
<1> SUFFICES ASSUME NEW c \in Components PROVE ServicesSpec => [](restarts[c] <= MaxRestarts)
  OBVIOUS
<1> DEFINE Inv == IF part = "supervision" THEN SupervisionInv
                  ELSE restarts = [d \in Components |-> 0]
<1>1. ServicesInit => Inv
  BY SupervisionInit DEF ServicesInit, NoSupervision
<1>2. Inv /\ [ServicesNext]_servicesVars => Inv'
  <2> SUFFICES ASSUME Inv, [ServicesNext]_servicesVars PROVE Inv'
    OBVIOUS
  <2>1. CASE part = "supervision"
    <3>1. part' = part /\ [Supervision!Next]_(Supervision!vars)
      BY <2>1 DEF ServicesNext, servicesVars, supervisionVars, Supervision!vars
    <3> QED  BY <2>1, <3>1, SupervisionNext
  <2>2. CASE part # "supervision"
    <3>1. part' = part /\ restarts' = restarts
      BY <2>2 DEF ServicesNext, servicesVars, supervisionVars
    <3> QED  BY <2>2, <3>1
  <2> QED  BY <2>1, <2>2
<1>3. Inv => restarts[c] <= MaxRestarts
  BY SupervisionAssumption DEF SupervisionInv, SupervisionTypes
<1> QED  BY <1>1, <1>2, <1>3, PTL DEF ServicesSpec

(***************************************************************************)
(* What the outcomes of SuperviseAll say is so, for every number of        *)
(* components and every policy; a call that has ended runs nothing again,  *)
(* and the delays never shrink.                                            *)
(***************************************************************************)
THEOREM SupervisionIsOrderly ==
    ServicesSpec => /\ [](part = "supervision" => OutcomesAreTrue)
                    /\ [][part = "supervision" => CallsOnlyGoOn]_servicesVars
<1> DEFINE Inv == part = "supervision" => SupervisionInv
           Kept == part = "supervision" => OutcomesAreTrue
           Goes == part = "supervision" => CallsOnlyGoOn
<1>1. ServicesInit => Inv
  BY SupervisionInit DEF ServicesInit
<1>2. Inv /\ [ServicesNext]_servicesVars => Inv' /\ Goes
  <2> SUFFICES ASSUME Inv, [ServicesNext]_servicesVars, part = "supervision" \/ part' = "supervision"
               PROVE  SupervisionInv' /\ CallsOnlyGoOn
    OBVIOUS
  <2>1. part = "supervision" /\ [Supervision!Next]_(Supervision!vars)
    BY DEF ServicesNext, servicesVars, supervisionVars, Supervision!vars
  <2> QED  BY <2>1, SupervisionNext, StepsGoOn
<1>3. Inv => Kept
  <2> SUFFICES ASSUME SupervisionInv, NEW c \in Components
               PROVE  /\ restarts[c] <= MaxRestarts /\ backoffs[c] <= MaxBackoff
                      /\ at[c] = "gaveUp" => restarts[c] = MaxRestarts /\ lastErr[c]
                      /\ at[c] = "stopped" => cancelled /\ lastErr[c]
                      /\ returned => at[c] \in Supervision!Ended
    BY DEF OutcomesAreTrue
  <2>1. restarts[c] <= MaxRestarts /\ backoffs[c] <= MaxBackoff
    BY SupervisionAssumption DEF SupervisionInv, SupervisionTypes
  <2> QED  BY <2>1 DEF SupervisionInv, CallInv
<1> HIDE DEF Inv, Kept, Goes
<1>4. ServicesSpec => []Kept /\ [][Goes]_servicesVars
  BY <1>1, <1>2, <1>3, PTL DEF ServicesSpec
<1> QED  BY <1>4 DEF Kept, Goes
=============================================================================
