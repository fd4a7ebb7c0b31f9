----------------------- MODULE OperatorGateway_proofs -----------------------
(***************************************************************************)
(* The gateway, for any chats, words, requesters, updates and crashes: no  *)
(* update is skipped and no process handles one twice; trading ends as the *)
(* operator last said; and no approval reaches another request.            *)
(***************************************************************************)
EXTENDS OperatorGateway, TLAPS

(* The newest update that is handled, deleted or on the way to be deleted. *)
Covered == Max({confirmed, offset})

(* A batch is what follows it, without a gap, up to the last id fetched. *)
BatchInv == /\ batch # {} => \E last \in Nat : batch = Covered + 1..last
            /\ gpc \in {"handle", "send"} <=> batch # {}

(* This process handled only what its offset has passed. *)
TimesInv == /\ times \in [Ids -> Nat]
            /\ \A id \in Ids : times[id] <= 1 /\ (times[id] > 0 => id <= offset)

(* What nobody will be asked for again has been handled. *)
HandledInv == 1..Covered \subseteq handled /\ 1..stored \subseteq handled

IInv == /\ sent \in Seq({sent[i] : i \in DOMAIN sent})
        /\ {confirmed, offset, stored} \subseteq Nat
        /\ ~up => offset = 0 /\ batch = {}
        /\ BatchInv
        /\ TimesInv
        /\ HandledInv

-----------------------------------------------------------------------------
(* Max and Min of the sets the gateway takes them of. *)
LEMMA MaxOfTwo ==
    ASSUME NEW a \in Nat, NEW b \in Nat
    PROVE  Max({a, b}) = IF a >= b THEN a ELSE b
<1>1. PICK m \in {a, b} : \A y \in {a, b} : m >= y
  OBVIOUS
<1>2. Max({a, b}) \in {a, b} /\ \A y \in {a, b} : Max({a, b}) >= y
  BY <1>1 DEF Max
<1> QED  BY <1>2

LEMMA MaxOfThree ==
    ASSUME NEW a \in Nat, NEW b \in Nat, NEW c \in Nat
    PROVE  /\ Max({a, b, c}) \in {a, b, c}
           /\ \A y \in {a, b, c} : Max({a, b, c}) >= y
<1>1. PICK m \in {a, b, c} : \A y \in {a, b, c} : m >= y
  <2>1. CASE a >= b /\ a >= c
    BY <2>1
  <2>2. CASE b >= a /\ b >= c
    BY <2>2
  <2>3. CASE c >= a /\ c >= b
    BY <2>3
  <2> QED  BY <2>1, <2>2, <2>3
<1> QED  BY <1>1 DEF Max

LEMMA MinOfInterval ==
    ASSUME NEW a \in Nat, NEW b \in Nat, a <= b
    PROVE  Min(a..b) = a
<1>1. a \in a..b /\ \A y \in a..b : a <= y
  OBVIOUS
<1>2. Min(a..b) \in a..b /\ \A y \in a..b : Min(a..b) <= y
  BY <1>1 DEF Min
<1> QED  BY <1>1, <1>2

(* The message a person sends goes to the end of the log. *)
LEMMA OwnElements ==
    ASSUME NEW S, NEW t \in Seq(S)
    PROVE  t \in Seq({t[i] : i \in DOMAIN t})
<1>1. t \in [1..Len(t) -> {t[i] : i \in 1..Len(t)}] /\ Len(t) \in Nat /\ DOMAIN t = 1..Len(t)
  OBVIOUS
<1> QED  BY <1>1

LEMMA SentGrows ==
    ASSUME NEW s, s \in Seq({s[i] : i \in DOMAIN s}), NEW u
    PROVE  Append(s, u) \in Seq({Append(s, u)[i] : i \in DOMAIN Append(s, u)})
<1> DEFINE S == {s[i] : i \in DOMAIN s} \cup {u}
<1>1. s \in Seq(S)
  OBVIOUS
<1>2. Append(s, u) \in Seq(S)
  BY <1>1
<1> HIDE DEF S
<1> QED  BY <1>2, OwnElements

-----------------------------------------------------------------------------
LEMMA InitInv == Init => IInv
<1> SUFFICES ASSUME Init PROVE IInv
  OBVIOUS
<1> USE DEF Init
<1>1. Covered = 0
  BY MaxOfTwo DEF Covered
<1>2. sent \in Seq({sent[i] : i \in DOMAIN sent})
  OBVIOUS
<1>3. TimesInv
  BY DEF TimesInv, Ids
<1> QED  BY <1>1, <1>2, <1>3 DEF IInv, BatchInv, HandledInv

(* The update that is being handled is the next one. *)
LEMMA NextUpdate ==
    ASSUME IInv, gpc \in {"handle", "send"}
    PROVE  /\ Covered \in Nat /\ confirmed <= Covered /\ offset <= Covered
           /\ UpdateId = Covered + 1 /\ UpdateId \in batch
           /\ \E last \in Nat : Covered + 1 <= last /\ batch = Covered + 1..last
<1> USE DEF IInv
<1>1. PICK last \in Nat : batch = Covered + 1..last
  BY DEF BatchInv
<1>2. Covered \in Nat /\ Covered >= confirmed /\ Covered >= offset
  BY MaxOfTwo DEF Covered
<1>3. Covered + 1 <= last
  BY <1>1, <1>2 DEF BatchInv
<1>4. UpdateId = Covered + 1
  BY <1>1, <1>2, <1>3, MinOfInterval DEF UpdateId
<1> QED  BY <1>1, <1>2, <1>3, <1>4

(* When it is done, the offset is its id. *)
LEMMA DoneAdvances ==
    ASSUME IInv, gpc \in {"handle", "send"}, Done, confirmed' = confirmed
    PROVE  offset' = Covered + 1 /\ Covered' = Covered + 1
<1>1. Covered \in Nat /\ confirmed <= Covered /\ offset <= Covered /\ UpdateId = Covered + 1
  BY NextUpdate
<1>2. offset' = Covered + 1
  BY <1>1, MaxOfTwo DEF Done, Advanced, IInv
<1> QED  BY <1>1, <1>2, MaxOfTwo DEF Covered, IInv

(* An update that is done leaves the poll in order. *)
LEMMA DoneKeepsInv ==
    ASSUME IInv, up, gpc \in {"handle", "send"}, Done, up' = up, sent' = sent,
           confirmed' = confirmed, stored' = stored
    PROVE  IInv'
<1> USE DEF IInv
<1>1. PICK last \in Nat : Covered + 1 <= last /\ batch = Covered + 1..last
  BY NextUpdate
<1>2. Covered \in Nat /\ Covered >= confirmed /\ Covered >= offset
  BY NextUpdate
<1>3. Covered + 1 <= last /\ UpdateId = Covered + 1
  BY <1>1, NextUpdate
<1>4. offset' = Covered + 1
  BY DoneAdvances
<1>5. Covered' = Covered + 1
  BY DoneAdvances
<1>6. batch' = Covered' + 1..last
  BY <1>1, <1>2, <1>3, <1>5 DEF Done
<1>7. BatchInv'
  BY <1>6 DEF BatchInv, Done
<1>8. TimesInv'
  <2>1. times' = [times EXCEPT ![Covered + 1] = @ + 1]
    BY <1>3 DEF Done
  <2>2. times' \in [Ids -> Nat]
    <3>1. CASE Covered + 1 \in Ids
      <4>1. times[Covered + 1] + 1 \in Nat
        BY <3>1 DEF TimesInv
      <4> QED  BY <4>1, <2>1 DEF TimesInv
    <3>2. CASE Covered + 1 \notin Ids
      <4>1. times' = times
        BY <3>2, <2>1 DEF TimesInv
      <4> QED  BY <4>1 DEF TimesInv
    <3> QED  BY <3>1, <3>2
  <2>3. ASSUME NEW id \in Ids PROVE times'[id] <= 1 /\ (times'[id] > 0 => id <= offset')
    <3>1. CASE id = Covered + 1
      <4>1. times[id] = 0
        BY <3>1, <1>2 DEF TimesInv, Ids
      <4> QED  BY <4>1, <3>1, <2>1, <1>4 DEF TimesInv
    <3>2. CASE id # Covered + 1
      BY <3>2, <2>1, <1>2, <1>4 DEF TimesInv, Ids
    <3> QED  BY <3>1, <3>2
  <2> QED  BY <2>2, <2>3 DEF TimesInv
<1>9. HandledInv'
  BY <1>2, <1>3, <1>5 DEF HandledInv, Done
<1> QED  BY <1>2, <1>4, <1>7, <1>8, <1>9

(* A step that leaves the loop, the log and the history alone. *)
LEMMA OtherStepKeepsInv ==
    ASSUME IInv, UNCHANGED <<up, gpc, batch, offset, stored, sent, confirmed, times, handled>>
    PROVE  IInv'
BY DEF IInv, Covered, BatchInv, TimesInv, HandledInv

LEMMA PollKeepsInv ==
    ASSUME IInv, Poll
    PROVE  IInv'
<1> USE DEF IInv, Poll
<1>1. Covered \in Nat /\ Covered >= offset
  BY MaxOfTwo DEF Covered
<1>2. confirmed' = Covered
  <2>1. AskFrom - 1 = offset
    BY DEF AskFrom
  <2> QED  BY <2>1 DEF Confirm, Covered
<1>3. Covered' = Covered
  BY <1>1, <1>2, MaxOfTwo DEF Covered
<1>4. Len(sent) \in Nat
  OBVIOUS
<1>5. BatchInv'
  <2>1. CASE \E last \in confirmed' + 1..Len(sent) :
                batch' = confirmed' + 1..last /\ gpc' = "handle"
    <3>1. PICK last \in Covered + 1..Len(sent) : batch' = Covered + 1..last /\ gpc' = "handle"
      BY <2>1, <1>2
    <3>2. last \in Nat /\ last \in Covered + 1..last
      BY <1>1, <1>4, <3>1
    <3> QED  BY <1>3, <3>1, <3>2 DEF BatchInv
  <2>2. CASE UNCHANGED <<batch, gpc>>
    BY <2>2, <1>3 DEF BatchInv
  <2> QED  BY <2>1, <2>2
<1>6. TimesInv' /\ HandledInv'
  BY <1>1, <1>3 DEF TimesInv, HandledInv, tally
<1> QED  BY <1>1, <1>2, <1>5, <1>6

LEMMA TapLookupKeepsInv ==
    ASSUME IInv, TapLookup
    PROVE  IInv'
<1> USE DEF TapLookup, Handling
<1>1. CASE Done
  BY <1>1, DoneKeepsInv DEF telegram
<1>2. CASE gpc' = "send" /\ UNCHANGED <<batch, offset, tally>>
  BY <1>2 DEF IInv, Covered, BatchInv, TimesInv, HandledInv, tally, telegram
<1> QED  BY <1>1, <1>2

LEMMA CrashKeepsInv ==
    ASSUME IInv, Crash
    PROVE  IInv'
<1> USE DEF IInv, Crash, telegram
<1>1. Covered \in Nat /\ Covered' \in Nat /\ Covered' <= Covered
  BY MaxOfTwo DEF Covered
<1>2. BatchInv' /\ TimesInv'
  BY DEF BatchInv, TimesInv, Ids
<1>3. HandledInv'
  BY <1>1 DEF HandledInv
<1> QED  BY <1>2, <1>3

(* A loop that starts has handled nothing yet, and asks for what follows   *)
(* the offset in the file.                                                 *)
LEMMA BootKeepsInv ==
    ASSUME IInv, Boot
    PROVE  IInv'
<1> USE DEF IInv, Boot, BootOffset, telegram, tally
<1>1. Covered' = Max({confirmed, stored}) /\ Covered = confirmed
  BY MaxOfTwo DEF Covered
<1>2. Covered' = confirmed \/ Covered' = stored
  BY <1>1, MaxOfTwo
<1>3. BatchInv'
  BY DEF BatchInv
<1>4. TimesInv'
  <2>1. \A id \in Ids : times[id] = 0
    BY DEF TimesInv, Ids
  <2> QED  BY <2>1 DEF TimesInv
<1>5. HandledInv'
  BY <1>1, <1>2 DEF HandledInv
<1> QED  BY <1>3, <1>4, <1>5

LEMMA NextInv == IInv /\ [Next]_vars => IInv'
<1> SUFFICES ASSUME IInv, [Next]_vars PROVE IInv'
  OBVIOUS
<1>1. CASE Poll
  BY <1>1, PollKeepsInv
<1>2. CASE Panic
  BY <1>2, DoneKeepsInv DEF Panic, telegram
<1>3. CASE Pair
  BY <1>3, DoneKeepsInv DEF Pair, Handling, telegram
<1>4. CASE Command
  BY <1>4, DoneKeepsInv DEF Command, Handling, telegram
<1>5. CASE TapLookup
  BY <1>5, TapLookupKeepsInv
<1>6. CASE TapSend
  BY <1>6, DoneKeepsInv DEF TapSend, telegram
<1>7. CASE Save
  <2>1. confirmed' = confirmed /\ offset' = offset
    BY <1>7 DEF Save, telegram
  <2>2. Covered' = Covered
    BY <2>1 DEF Covered
  <2>3. Covered \in Nat /\ offset <= Covered
    BY MaxOfTwo DEF Covered, IInv
  <2>4. batch = {} /\ batch' = {} /\ gpc' = "poll"
    BY <1>7 DEF Save, IInv, BatchInv
  <2> QED  BY <1>7, <2>1, <2>2, <2>3, <2>4 DEF Save, IInv, BatchInv, TimesInv, HandledInv, telegram, tally
<1>8. CASE \E r \in Requesters : Register(r) \/ PostKeyboard(r) \/ FailSafe(r) \/ Resolved(r)
  <2>1. UNCHANGED <<up, gpc, batch, offset, stored, sent, confirmed, times, handled>>
    BY <1>8 DEF Register, PostKeyboard, FailSafe, Resolved, Return, loop, telegram, tally
  <2> QED  BY <2>1, OtherStepKeepsInv
<1>9. CASE SendText \/ Tap
  <2>1. PICK u : Post(u)
    BY <1>9 DEF SendText, Tap
  <2>2. sent' \in Seq({sent'[i] : i \in DOMAIN sent'})
    BY <2>1, SentGrows DEF Post, IInv
  <2>3. UNCHANGED <<up, gpc, batch, offset, stored, confirmed, times, handled>>
    BY <2>1 DEF Post, loop, tally
  <2> QED  BY <2>2, <2>3 DEF IInv, Covered, BatchInv, TimesInv, HandledInv
<1>10. CASE Crash
  BY <1>10, CrashKeepsInv
<1>11. CASE LoseOffset
  <2>1. UNCHANGED <<up, gpc, batch, offset, sent, confirmed, times, handled>> /\ stored' = 0
    BY <1>11 DEF LoseOffset, loop, telegram, tally
  <2>2. Covered' = Covered
    BY <2>1 DEF Covered
  <2>3. BatchInv' /\ TimesInv' /\ HandledInv'
    BY <2>1, <2>2 DEF IInv, BatchInv, TimesInv, HandledInv
  <2> QED  BY <2>1, <2>3 DEF IInv
<1>12. CASE Boot
  BY <1>12, BootKeepsInv
<1>13. CASE UNCHANGED vars
  BY <1>13, OtherStepKeepsInv DEF vars, loop, telegram, tally
<1> QED
  BY <1>1, <1>2, <1>3, <1>4, <1>5, <1>6, <1>7, <1>8, <1>9, <1>10, <1>11, <1>12, <1>13
  DEF Next, GatewayStep

LEMMA InvImpliesOnce == IInv => EachUpdateHandledOnce
<1> SUFFICES ASSUME IInv PROVE EachUpdateHandledOnce
  OBVIOUS
<1> USE DEF IInv
<1>1. Max({confirmed, stored, offset}) \in Nat
      /\ (Max({confirmed, stored, offset}) <= Covered \/ Max({confirmed, stored, offset}) = stored)
  BY MaxOfTwo, MaxOfThree DEF Covered
<1>2. Covered \in Nat
  BY MaxOfTwo DEF Covered
<1>3. 1..Max({confirmed, stored, offset}) \subseteq handled
  BY <1>1, <1>2 DEF HandledInv
<1> QED  BY <1>3 DEF EachUpdateHandledOnce, TimesInv

(***************************************************************************)
(* The long poll with its durable offset loses no update and repeats none  *)
(* within a process: for any number of updates, of crashes, of failed      *)
(* saves, of lost offset files and of polls whose answer is lost.          *)
(***************************************************************************)
THEOREM NoUpdateLostOrRepeated == Spec => []EachUpdateHandledOnce
<1>1. Spec => []IInv
  BY InitInv, NextInv, PTL DEF Spec
<1> QED  BY <1>1, InvImpliesOnce, PTL

-----------------------------------------------------------------------------
(***************************************************************************)
(* What the two properties below share: ids stay within the log, a process *)
(* never falls behind the offset in the file, the router trusts the chat   *)
(* that is saved, texts come from chats, and what is being sent is a tap.  *)
(***************************************************************************)
LogInv == /\ batch \subseteq DOMAIN sent
          /\ confirmed <= Len(sent) /\ offset <= Len(sent) /\ stored <= Len(sent)
          /\ up => stored <= offset
          /\ trusted = trustFile /\ pairedBy \in Nat
          /\ gpc = "send" => Update.kind = "tap"
          /\ \A id \in DOMAIN sent : sent[id].kind = "text" => sent[id].chat \in Chats

(* An update appended to the log is the last one; the others stay. *)
LEMMA Appended ==
    ASSUME IInv, NEW u
    PROVE  /\ Len(Append(sent, u)) = Len(sent) + 1 /\ Len(sent) \in Nat
           /\ DOMAIN sent = 1..Len(sent)
           /\ DOMAIN Append(sent, u) = 1..Len(sent) + 1
           /\ \A id \in DOMAIN sent : Append(sent, u)[id] = sent[id]
           /\ Append(sent, u)[Len(sent) + 1] = u
<1> DEFINE S == {sent[i] : i \in DOMAIN sent} \cup {u}
<1>1. sent \in Seq(S)
  BY DEF IInv
<1> HIDE DEF S
<1>2. u \in S
  BY DEF S
<1> QED  BY <1>1, <1>2

(* A handler that returns leaves these facts as they were. *)
LEMMA DoneKeepsLog ==
    ASSUME IInv, LogInv, up, gpc \in {"handle", "send"}, Done,
           UNCHANGED <<up, sent, confirmed, stored>>, trusted' = trustFile',
           pairedBy' \in {pairedBy, UpdateId}
    PROVE  LogInv'
<1>1. UpdateId = offset' /\ offset' = Covered + 1 /\ Covered \in Nat
      /\ offset <= Covered /\ UpdateId \in batch
  BY NextUpdate, DoneAdvances
<1>2. offset' \in DOMAIN sent /\ DOMAIN sent = 1..Len(sent) /\ Len(sent) \in Nat
  BY <1>1 DEF LogInv, IInv
<1> QED  BY <1>1, <1>2 DEF LogInv, Done, IInv

(* Every step keeps them. *)
LEMMA LogStep == ASSUME IInv, LogInv, [Next]_vars PROVE LogInv'
<1>1. Len(sent) \in Nat /\ DOMAIN sent = 1..Len(sent)
  BY DEF IInv
<1>2. CASE Poll
  <2>1. confirmed' = Covered /\ Covered \in Nat /\ Covered <= Len(sent)
    <3>1. AskFrom - 1 = offset
      BY DEF AskFrom, IInv
    <3> QED  BY <1>2, <3>1, MaxOfTwo DEF Poll, Confirm, Covered, IInv, LogInv
  <2>2. batch' \subseteq DOMAIN sent
    BY <1>1, <1>2, <2>1 DEF Poll, LogInv
  <2> QED  BY <1>2, <2>1, <2>2 DEF Poll, router, telegram, LogInv
<1>3. CASE Panic
  BY <1>3, DoneKeepsLog DEF Panic, telegram, LogInv
<1>4. CASE Pair
  BY <1>4, DoneKeepsLog DEF Pair, Handling, telegram, LogInv
<1>5. CASE Command
  BY <1>5, DoneKeepsLog DEF Command, Handling, telegram, LogInv
<1>6. CASE TapLookup
  <2>1. CASE Done
    BY <1>6, <2>1, DoneKeepsLog DEF TapLookup, Handling, router, telegram, LogInv
  <2>2. CASE UNCHANGED <<batch, offset, tally>>
    BY <1>6, <2>2 DEF TapLookup, Handling, Update, UpdateId, router, telegram, LogInv
  <2> QED  BY <1>6, <2>1, <2>2 DEF TapLookup
<1>7. CASE TapSend
  BY <1>7, DoneKeepsLog DEF TapSend, router, telegram, LogInv
<1>8. CASE Save
  BY <1>8 DEF Save, router, telegram, LogInv, IInv
<1>9. CASE \E r \in Requesters : Register(r) \/ PostKeyboard(r) \/ FailSafe(r) \/ Resolved(r)
  BY <1>9 DEF Register, PostKeyboard, FailSafe, Resolved, Return, loop, router, telegram,
              Update, UpdateId, LogInv
<1>10. CASE SendText \/ Tap
  <2>1. PICK u : Post(u) /\ (u.kind = "text" => u.chat \in Chats)
    <3>1. CASE SendText
      <4>1. PICK chat \in Chats, word \in Words :
                Post([kind |-> "text", chat |-> chat, word |-> word])
        BY <3>1 DEF SendText
      <4>2. [kind |-> "text", chat |-> chat, word |-> word].chat \in Chats
        OBVIOUS
      <4> QED  BY <4>1, <4>2
    <3>2. CASE Tap
      <4>1. PICK k \in keyboards, d \in {"Approved", "Denied"} :
                Post([kind |-> "tap", token |-> k.token, answer |-> d, of |-> k.request])
        BY <3>2 DEF Tap
      <4>2. [kind |-> "tap", token |-> k.token, answer |-> d, of |-> k.request].kind # "text"
        OBVIOUS
      <4> QED  BY <4>1, <4>2
    <3> QED  BY <1>10, <3>1, <3>2
  <2>2. UNCHANGED <<up, batch, offset, stored, confirmed, trusted, trustFile, pairedBy>>
        /\ sent' = Append(sent, u)
    BY <2>1 DEF Post, loop, router
  <2>3. \A id \in DOMAIN sent' : sent'[id].kind = "text" => sent'[id].chat \in Chats
    <3>1. ASSUME NEW id \in DOMAIN sent'
          PROVE  sent'[id].kind = "text" => sent'[id].chat \in Chats
      <4>1. CASE id \in DOMAIN sent
        BY <4>1, <2>2, Appended DEF LogInv
      <4>2. CASE id = Len(sent) + 1
        BY <4>2, <2>1, <2>2, Appended
      <4> QED  BY <3>1, <4>1, <4>2, <2>2, Appended
    <3> QED  BY <3>1
  <2>4. gpc' = "send" => Update'.kind = "tap"
    <3>1. gpc' = gpc
      BY <2>1 DEF Post, loop
    <3>2. ASSUME gpc = "send" PROVE Update' = Update
      <4>1. UpdateId \in DOMAIN sent /\ UpdateId' = UpdateId
        BY <3>2, <2>2, NextUpdate DEF LogInv, UpdateId
      <4> QED  BY <4>1, <2>2, Appended DEF Update
    <3> QED  BY <3>1, <3>2 DEF LogInv
  <2> QED  BY <2>2, <2>3, <2>4, Appended DEF LogInv, IInv
<1>11. CASE Crash
  BY <1>1, <1>11 DEF Crash, router, telegram, LogInv
<1>12. CASE LoseOffset
  BY <1>1, <1>12 DEF LoseOffset, Update, UpdateId, loop, router, telegram, LogInv
<1>13. CASE Boot
  BY <1>13 DEF Boot, BootOffset, Update, UpdateId, telegram, LogInv, IInv
<1>14. CASE UNCHANGED vars
  BY <1>14 DEF vars, Update, UpdateId, loop, router, telegram, LogInv
<1> QED
  BY <1>2, <1>3, <1>4, <1>5, <1>6, <1>7, <1>8, <1>9, <1>10, <1>11, <1>12, <1>13, <1>14
  DEF Next, GatewayStep

(* The long poll, its log and the saved chat, together. *)
Base == IInv /\ LogInv

LEMMA BaseInvariance == Spec => []Base
<1>1. Init => LogInv
  BY DEF Init, LogInv
<1>2. Base /\ [Next]_vars => Base'
  BY NextInv, LogStep DEF Base
<1> QED  BY <1>1, <1>2, InitInv, PTL DEF Spec, Base

-----------------------------------------------------------------------------
(***************************************************************************)
(* The operator's last word.  After a restart the loop replays what the    *)
(* saved offset does not cover, so the halt status may be that of a later  *)
(* command than the loop has reached: it is always the status after some   *)
(* update p that is not behind the loop, nor behind the file it would      *)
(* start from.  What precedes the pairing is no command: a replayed        *)
(* pairing message may well change the status, and p is then its own id.   *)
(***************************************************************************)
Upto(p) == {id \in Commands : id <= p}

LastOf(ids, m) == m \in ids /\ \A id \in ids : id <= m

Obeyed(p) == \/ Upto(p) = {}
             \/ \E m \in Nat : LastOf(Upto(p), m) /\ ks = Effect(sent[m].word)

ObeyedAhead == \E p \in Nat : /\ p <= Len(sent) /\ p >= Covered /\ p >= stored
                              /\ Obeyed(p)

WordInv == ~ineffective => ObeyedAhead

(* The status a command asks for does not depend on the status before it. *)
LEMMA Plain == \A id \in Commands : Effect(sent[id].word)
                                      = IF sent[id].word = "/halt" THEN "Manual" ELSE "None"
BY DEF Commands, Effect

(* A step that adds no command up to the log's old end, keeps the status    *)
(* and moves neither the loop nor the file ahead keeps the invariant.       *)
LEMMA WordStays ==
    ASSUME Base, WordInv, UNCHANGED <<ineffective, ks, trusted, pairedBy>>,
           stored' <= Covered \/ stored' <= stored, stored' \in Nat,
           Covered' <= Covered \/ Covered' <= stored, Covered' \in Nat,
           Len(sent') \in Nat, Len(sent') >= Len(sent),
           DOMAIN sent' = 1..Len(sent'),
           \A id \in DOMAIN sent : sent'[id] = sent[id]
    PROVE  WordInv'
<1> SUFFICES ASSUME ~ineffective PROVE ObeyedAhead'
  BY DEF WordInv
<1>1. PICK p \in Nat : p <= Len(sent) /\ p >= Covered /\ p >= stored /\ Obeyed(p)
  BY DEF WordInv, ObeyedAhead
<1>2. Len(sent) \in Nat /\ DOMAIN sent = 1..Len(sent) /\ Covered \in Nat /\ stored \in Nat
  <2>1. Covered \in Nat
    BY MaxOfTwo DEF Base, IInv, Covered
  <2> QED  BY <2>1 DEF Base, IInv
<1>3. \A id \in 1..p : id \in Commands' <=> id \in Commands
  BY <1>1, <1>2 DEF Commands
<1>4. Upto(p)' = Upto(p)
  BY <1>1, <1>2, <1>3 DEF Upto, Commands
<1>5. \A m \in Upto(p) : sent'[m] = sent[m] /\ Effect(sent[m].word)' = Effect(sent[m].word)
  BY DEF Upto, Commands, Effect
<1>6. Obeyed(p)'
  BY <1>1, <1>4, <1>5 DEF Obeyed, LastOf
<1> QED  BY <1>1, <1>2, <1>6 DEF ObeyedAhead

(* A handler that is not a command of the operator leaves the status, and   *)
(* is at most one more update without a command.                            *)
LEMMA WordPasses ==
    ASSUME Base, WordInv, up, gpc \in {"handle", "send"}, Done, UpdateId \notin Commands,
           UNCHANGED <<ineffective, ks, trusted, pairedBy, sent, confirmed, stored>>
    PROVE  WordInv'
<1> SUFFICES ASSUME ~ineffective PROVE ObeyedAhead'
  BY DEF WordInv
<1>1. PICK p \in Nat : p <= Len(sent) /\ p >= Covered /\ p >= stored /\ Obeyed(p)
  BY DEF WordInv, ObeyedAhead
<1>2. /\ UpdateId = Covered + 1 /\ Covered' = Covered + 1 /\ Covered \in Nat
      /\ UpdateId \in batch
  BY NextUpdate, DoneAdvances DEF Base
<1>3. Covered + 1 <= Len(sent) /\ Len(sent) \in Nat /\ stored <= Covered /\ stored \in Nat
      /\ DOMAIN sent = 1..Len(sent)
  BY <1>2, NextUpdate DEF Base, IInv, LogInv
<1>4. \A q \in Nat : Obeyed(q) => Obeyed(q)'
  BY DEF Obeyed, Upto, LastOf, Commands, Effect
<1>5. CASE p > Covered
  BY <1>1, <1>2, <1>4, <1>5 DEF ObeyedAhead
<1>6. CASE p = Covered
  <2>1. PICK u \in Nat : u = Covered + 1
    BY <1>2
  <2>2. Upto(u) = Upto(p)
    BY <1>2, <1>3, <1>6, <2>1 DEF Upto, Commands
  <2>3. Obeyed(u)'
    BY <1>1, <1>4, <2>2 DEF Obeyed
  <2> QED  BY <1>2, <1>3, <2>1, <2>3 DEF ObeyedAhead
<1> QED  BY <1>1, <1>2, <1>5, <1>6

(* An update after which the loop's own position tells the status. *)
LEMMA WordAt ==
    ASSUME Base, up, gpc \in {"handle", "send"}, Done,
           UNCHANGED <<sent, confirmed, stored>>, NEW u, u = UpdateId, Obeyed(u)'
    PROVE  WordInv'
<1>1. /\ UpdateId = Covered + 1 /\ Covered' = Covered + 1 /\ Covered \in Nat
      /\ UpdateId \in batch /\ offset <= Covered
  BY NextUpdate, DoneAdvances DEF Base
<1>2. Covered + 1 <= Len(sent) /\ stored <= Covered /\ stored \in Nat
  BY <1>1 DEF Base, IInv, LogInv
<1>3. u \in Nat /\ u <= Len(sent') /\ u >= Covered' /\ u >= stored'
  BY <1>1, <1>2
<1> QED  BY <1>3 DEF WordInv, ObeyedAhead

(* A command of the operator decides; a replayed pairing message does not.  *)
LEMMA WordCommand == ASSUME Base, WordInv, Command PROVE WordInv'
<1> SUFFICES ASSUME ~ineffective' PROVE WordInv'
  BY DEF WordInv
<1>1. Done /\ up /\ gpc = "handle"
      /\ UNCHANGED <<sent, confirmed, stored, trusted, pairedBy>>
  BY DEF Command, Handling, telegram
<1>2. UpdateId \in DOMAIN sent /\ UpdateId \in Nat /\ pairedBy \in Nat
      /\ DOMAIN sent = 1..Len(sent)
  BY <1>1, NextUpdate DEF Base, LogInv, IInv
<1>3. PICK u : u = UpdateId
  OBVIOUS
<1>4. CASE u \in Commands
  <2>1. ks' = Effect(sent[u].word) /\ Effect(sent[u].word)' = Effect(sent[u].word)
    BY <1>1, <1>3, <1>4 DEF Command, Update, Commands, Effect
  <2>2. u \in Commands' /\ \A id \in Upto(u)' : id <= u
    BY <1>1, <1>4 DEF Commands, Upto
  <2>3. LastOf(Upto(u), u)'
    BY <2>2, <1>2, <1>3 DEF LastOf, Upto
  <2>4. Obeyed(u)'
    BY <2>1, <2>3, <1>2, <1>3 DEF Obeyed
  <2> QED  BY <2>4, <1>1, <1>3, WordAt
<1>5. CASE u <= pairedBy
  <2>1. Upto(u)' = {}
    BY <1>1, <1>2, <1>3, <1>5 DEF Upto, Commands
  <2>2. Obeyed(u)'
    BY <2>1 DEF Obeyed
  <2> QED  BY <2>2, <1>1, <1>3, WordAt
<1>6. CASE u \notin Commands /\ u > pairedBy
  <2>1. UNCHANGED <<ks, ineffective>>
    BY <1>2, <1>3, <1>6 DEF Command, Handling, Update, Commands, Effect
  <2> QED  BY <1>1, <1>3, <1>6, <2>1, WordPasses
<1>7. u \in Commands => u > pairedBy
  BY DEF Commands
<1> QED  BY <1>2, <1>3, <1>4, <1>5, <1>6, <1>7

(* The pairing message itself is no command, and nothing before it is one.  *)
LEMMA WordPair == ASSUME Base, WordInv, Pair PROVE WordInv'
<1>1. Done /\ up /\ gpc = "handle" /\ UNCHANGED <<sent, confirmed, stored, ks, ineffective>>
  BY DEF Pair, Handling, telegram
<1>2. UpdateId \in DOMAIN sent /\ Update.chat \in Chats
  BY <1>1, NextUpdate DEF Base, LogInv, Pair, Handling, Update
<1>3. PICK u : u = UpdateId
  OBVIOUS
<1>4. CASE pairedBy' = u
  <2>1. Upto(u)' = {}
    BY <1>4, <1>2, <1>3, <1>1 DEF Upto, Commands, IInv, Base
  <2>2. Obeyed(u)'
    BY <2>1 DEF Obeyed
  <2> QED  BY <2>2, <1>1, <1>3, WordAt
<1>5. CASE UNCHANGED <<trusted, pairedBy>>
  <2>1. UpdateId \notin Commands
    BY <1>2, ChatAssumption DEF Commands, Pair, Update
  <2> QED  BY <1>1, <1>5, <2>1, WordPasses
<1> QED  BY <1>3, <1>4, <1>5 DEF Pair

LEMMA WordStep == ASSUME Base, WordInv, [Next]_vars PROVE WordInv'
<1>1. /\ Covered \in Nat /\ Len(sent) \in Nat /\ stored \in Nat
      /\ DOMAIN sent = 1..Len(sent) /\ confirmed <= Covered /\ offset <= Covered
      /\ confirmed \in Nat /\ offset \in Nat
  BY MaxOfTwo DEF Covered, Base, IInv
<1>s. ASSUME UNCHANGED <<ineffective, ks, trusted, pairedBy, sent, Covered, stored>>
      PROVE  WordInv'
  BY <1>s, <1>1, WordStays
<1>2. CASE Poll
  <2>1. confirmed' = Covered
    <3>1. AskFrom - 1 = offset
      BY <1>1 DEF AskFrom
    <3> QED  BY <1>2, <3>1 DEF Poll, Confirm, Covered
  <2>2. Covered' = Covered
    BY <1>1, <1>2, <2>1, MaxOfTwo DEF Poll, Covered
  <2> QED  BY <1>s, <1>2, <2>2 DEF Poll, router
<1>3. CASE Panic
  BY <1>3 DEF Panic, WordInv
<1>4. CASE Pair
  BY <1>4, WordPair
<1>5. CASE Command
  BY <1>5, WordCommand
<1>6. CASE TapLookup
  <2>1. CASE Done
    <3>1. UpdateId \notin Commands
      BY <1>6 DEF TapLookup, Handling, Update, Commands
    <3> QED  BY <1>6, <2>1, <3>1, WordPasses DEF TapLookup, Handling, router, telegram
  <2>2. CASE UNCHANGED <<batch, offset, tally>>
    BY <1>6, <2>2, <1>s DEF TapLookup, router, telegram, Covered
  <2> QED  BY <1>6, <2>1, <2>2 DEF TapLookup
<1>7. CASE TapSend
  <2>1. UpdateId \notin Commands
    BY <1>7 DEF TapSend, Base, LogInv, Update, Commands
  <2>2. Done /\ up /\ gpc = "send"
        /\ UNCHANGED <<ineffective, ks, trusted, pairedBy, sent, confirmed, stored>>
    BY <1>7 DEF TapSend, router, telegram
  <2> QED  BY <2>1, <2>2, WordPasses
<1>8. CASE Save
  <2>1. UNCHANGED <<ineffective, ks, trusted, pairedBy, sent, Covered>>
        /\ stored' \in {stored, offset}
    BY <1>8 DEF Save, router, telegram, Covered
  <2> QED  BY <1>1, <2>1, WordStays
<1>9. CASE \E r \in Requesters : Register(r) \/ PostKeyboard(r) \/ FailSafe(r) \/ Resolved(r)
  BY <1>9, <1>s DEF Register, PostKeyboard, FailSafe, Resolved, Return, loop, router, telegram,
                    Covered
<1>10. CASE SendText \/ Tap
  <2>1. PICK u : Post(u)
    BY <1>10 DEF SendText, Tap
  <2>2. sent' = Append(sent, u)
        /\ UNCHANGED <<ineffective, ks, trusted, pairedBy, Covered, stored>>
    BY <2>1 DEF Post, loop, router, Covered
  <2>3. /\ Len(sent') = Len(sent) + 1 /\ DOMAIN sent' = 1..Len(sent')
        /\ \A id \in DOMAIN sent : sent'[id] = sent[id]
    BY <2>2, Appended DEF Base
  <2> QED  BY <1>1, <2>2, <2>3, WordStays
<1>11. CASE Crash
  <2>1. confirmed' = confirmed /\ offset' = 0
        /\ UNCHANGED <<ineffective, ks, trusted, pairedBy, sent, stored>>
    BY <1>11 DEF Crash, router, telegram
  <2>2. Covered' \in Nat /\ Covered' <= Covered
    BY <1>1, <2>1, MaxOfTwo DEF Covered
  <2> QED  BY <1>1, <2>1, <2>2, WordStays
<1>12. CASE LoseOffset
  <2>1. stored' = 0 /\ UNCHANGED <<ineffective, ks, trusted, pairedBy, sent, Covered>>
    BY <1>12 DEF LoseOffset, loop, router, telegram, Covered
  <2> QED  BY <1>1, <2>1, WordStays
<1>13. CASE Boot
  <2>1. offset' = stored
        /\ UNCHANGED <<ineffective, ks, trusted, pairedBy, sent, confirmed, stored>>
    BY <1>13 DEF Boot, BootOffset, telegram, Base, LogInv
  <2>2. Covered' \in Nat /\ (Covered' <= Covered \/ Covered' <= stored)
    BY <1>1, <2>1, MaxOfTwo DEF Covered
  <2> QED  BY <1>1, <2>1, <2>2, WordStays
<1>14. CASE UNCHANGED vars
  BY <1>14, <1>s DEF vars, loop, router, telegram, Covered
<1> QED
  BY <1>2, <1>3, <1>4, <1>5, <1>6, <1>7, <1>8, <1>9, <1>10, <1>11, <1>12, <1>13, <1>14
  DEF Next, GatewayStep

(* A loop that has caught up has no update ahead of it. *)
LEMMA WordImpliesLastWord == ASSUME Base, WordInv PROVE LastWordStands
<1> SUFFICES ASSUME offset = Len(sent), ~ineffective, Commands # {}
             PROVE  ks = Effect(sent[Max(Commands)].word)
  BY DEF LastWordStands
<1>1. Len(sent) \in Nat /\ DOMAIN sent = 1..Len(sent) /\ offset <= Covered /\ Covered \in Nat
  BY MaxOfTwo DEF Covered, Base, IInv
<1>2. PICK p \in Nat : p <= Len(sent) /\ p >= Covered /\ Obeyed(p)
  BY DEF WordInv, ObeyedAhead
<1>3. p = Len(sent)
  BY <1>1, <1>2
<1>4. Upto(p) = Commands
  BY <1>1, <1>3 DEF Upto, Commands
<1>5. PICK m \in Nat : LastOf(Commands, m) /\ ks = Effect(sent[m].word)
  BY <1>2, <1>4 DEF Obeyed
<1>6. \A id \in Commands : id \in Nat
  BY <1>1 DEF Commands
<1>7. m = Max(Commands)
  <2>1. m \in Commands /\ \A y \in Commands : m >= y
    BY <1>5, <1>6 DEF LastOf
  <2>2. Max(Commands) \in Commands /\ \A y \in Commands : Max(Commands) >= y
    BY <2>1 DEF Max
  <2>3. Max(Commands) <= m /\ m <= Max(Commands) /\ m \in Nat /\ Max(Commands) \in Nat
    BY <2>1, <2>2, <1>6
  <2> QED  BY <2>3
<1> QED  BY <1>5, <1>7

(***************************************************************************)
(* A loop that has caught up with the chat leaves trading as the operator  *)
(* last said, after any number of crashes, lost offsets and replays: only  *)
(* a command that failed, and said so, or a panic can leave it otherwise.  *)
(***************************************************************************)
THEOREM LastWordIsObeyed == Spec => []LastWordStands
<1>1. Init => WordInv
  <2> SUFFICES ASSUME Init PROVE ObeyedAhead
    BY DEF WordInv
  <2>1. Covered = 0 /\ Upto(0) = {}
    BY MaxOfTwo DEF Init, Covered, Upto, Commands
  <2> QED  BY <2>1 DEF Init, ObeyedAhead, Obeyed
<1> QED  BY <1>1, WordStep, WordImpliesLastWord, BaseInvariance, PTL DEF Spec

-----------------------------------------------------------------------------
(***************************************************************************)
(* The approvals.  Every tap carries the token of a keyboard that was      *)
(* posted.  Within a process a token names one request, so a keyboard of   *)
(* this process finds its own request or none; a keyboard of an earlier    *)
(* process was made for an older request.  A decision is therefore         *)
(* justified from the lookup on: in the hands of Handle, in the channel    *)
(* and in what Request returned.                                           *)
(***************************************************************************)
Justified(q) == \E k \in Made : Tapped(k, "Approved") /\ (k = q \/ firstOf[k] < firstOf[q])

KeyboardInv ==
    /\ \A id \in DOMAIN sent : sent[id].kind = "tap" =>
           [request |-> sent[id].of, token |-> sent[id].token] \in keyboards
    /\ \A k \in keyboards :
           /\ k = [request |-> k.request, token |-> k.token]
           /\ k.request \in Made
           /\ firstOf[k.request] = crashes =>
                  /\ k.token \in 1..counter
                  /\ k.token \in DOMAIN pending => pending[k.token] = k.request

RegistryInv ==
    /\ counter \in Nat /\ crashes \in Nat
    /\ firstOf \in [Requests -> Int] /\ \A q \in Requests : firstOf[q] <= crashes
    /\ DOMAIN pending \subseteq 1..counter
    /\ \A t \in DOMAIN pending : pending[t] \in Made /\ firstOf[pending[t]] = crashes

WaiterInv ==
    /\ rpc \in [Requesters -> {"idle", "post", "wait"}]
    /\ request \in [Requesters -> Requests \cup {NoRequest}]
    /\ \A r \in Requesters : rpc[r] # "idle" =>
           /\ request[r] \in Made
           /\ \E t \in DOMAIN pending : pending[t] = request[r]
           /\ \A other \in Requesters :
                  rpc[other] # "idle" /\ request[other] = request[r] => other = r

DecisionInv ==
    /\ gpc = "send" => /\ found.request \in Made
                       /\ found.decision = "Approved" => Justified(found.request)
    /\ answer \in [Requests -> {answer[q] : q \in Requests}]
    /\ \A q \in Requests : answer[q] = "Approved" => q \in Made /\ Justified(q)
    /\ approved \subseteq Made
    /\ \A q \in approved : Justified(q)

ApprovalInv == KeyboardInv /\ RegistryInv /\ WaiterInv /\ DecisionInv

(* A step that leaves the registry, the waiters and the chat alone, and is  *)
(* not on its way to deliver a decision.                                    *)
LEMMA ApprovalStays ==
    ASSUME ApprovalInv,
           UNCHANGED <<sent, keyboards, counter, pending, answer, rpc, request, approved,
                       firstOf, crashes>>,
           gpc' # "send" \/ UNCHANGED <<gpc, found>>
    PROVE  ApprovalInv'
<1>1. UNCHANGED Made /\ \A q : Justified(q)' = Justified(q)
  BY DEF Made, Justified, Tapped
<1>2. KeyboardInv' /\ RegistryInv' /\ WaiterInv'
  BY <1>1 DEF ApprovalInv, KeyboardInv, RegistryInv, WaiterInv
<1>3. DecisionInv'
  BY <1>1 DEF ApprovalInv, DecisionInv
<1> QED  BY <1>2, <1>3 DEF ApprovalInv

(* What justifies a decision is never taken back. *)
LEMMA JustifiedForever ==
    ASSUME RegistryInv,
           \A id \in DOMAIN sent : id \in DOMAIN sent' /\ sent'[id] = sent[id],
           \A k \in Made : k \in Made' /\ firstOf'[k] = firstOf[k],
           NEW q \in Made, Justified(q)
    PROVE  Justified(q)'
BY DEF Justified, Tapped, Made

(* The lookup: the tap's keyboard was made for the request it finds, or     *)
(* for one of an earlier process.                                           *)
LEMMA LookupIsJustified ==
    ASSUME ApprovalInv, NEW id \in DOMAIN sent, sent[id].kind = "tap",
           sent[id].token \in DOMAIN pending, sent[id].answer = "Approved"
    PROVE  Justified(pending[sent[id].token])
<1> DEFINE k == [request |-> sent[id].of, token |-> sent[id].token]
           q == pending[sent[id].token]
<1> USE DEF ApprovalInv
<1>1. k \in keyboards /\ k.request = sent[id].of /\ k.token = sent[id].token
  BY DEF KeyboardInv
<1>2. k.request \in Made /\ q \in Made /\ firstOf[q] = crashes
  BY <1>1 DEF KeyboardInv, RegistryInv
<1>3. Tapped(k.request, "Approved")
  BY <1>1 DEF Tapped
<1>4. firstOf[k.request] <= crashes /\ firstOf[k.request] \in Int /\ crashes \in Nat
  BY <1>2 DEF RegistryInv, Made
<1>5. CASE firstOf[k.request] = crashes
  BY <1>1, <1>2, <1>3, <1>5 DEF KeyboardInv, Justified
<1>6. CASE firstOf[k.request] < crashes
  BY <1>2, <1>3, <1>6 DEF Justified
<1> QED  BY <1>4, <1>5, <1>6

LEMMA LookupKeeps == ASSUME Base, ApprovalInv, TapLookup PROVE ApprovalInv'
<1>1. UNCHANGED <<sent, keyboards, counter, pending, answer, rpc, request, approved,
                  firstOf, crashes>>
  BY DEF TapLookup, registry, waiters, telegram
<1>2. CASE Done
  BY <1>1, <1>2, ApprovalStays DEF Done, TapLookup
<1>3. CASE /\ Update.token \in DOMAIN pending
           /\ found' = [request |-> pending[Update.token], decision |-> Update.answer]
  <2>1. PICK id : id = UpdateId
    OBVIOUS
  <2>2. id \in DOMAIN sent /\ Update = sent[id] /\ sent[id].kind = "tap"
    BY <2>1, NextUpdate DEF Base, LogInv, TapLookup, Handling, Update
  <2>3. found'.request = pending[sent[id].token] /\ found'.decision = sent[id].answer
    BY <1>3, <2>2
  <2>4. found'.request \in Made /\ (found'.decision = "Approved" => Justified(found'.request))
    BY <1>3, <2>2, <2>3, LookupIsJustified DEF ApprovalInv, RegistryInv
  <2>5. UNCHANGED Made /\ \A q : Justified(q)' = Justified(q)
    BY <1>1 DEF Made, Justified, Tapped
  <2>6. KeyboardInv' /\ RegistryInv' /\ WaiterInv'
    BY <1>1, <2>5 DEF ApprovalInv, KeyboardInv, RegistryInv, WaiterInv
  <2>7. PICK f : f = found'.request
    OBVIOUS
  <2>8. f \in Made' /\ (found'.decision = "Approved" => Justified(f)')
    BY <2>4, <2>5, <2>7
  <2>9. DecisionInv'
    BY <1>1, <2>5, <2>7, <2>8 DEF ApprovalInv, DecisionInv, Justified
  <2> QED  BY <2>6, <2>9 DEF ApprovalInv
<1> QED  BY <1>2, <1>3 DEF TapLookup

(* The channel takes the decision only for the request it was looked up for. *)
LEMMA SendKeeps == ASSUME Base, ApprovalInv, TapSend PROVE ApprovalInv'
<1>1. UNCHANGED <<sent, keyboards, counter, pending, rpc, request, approved, firstOf, crashes>>
  BY DEF TapSend, waiters, telegram
<1>2. UNCHANGED Made /\ \A q : Justified(q)' = Justified(q)
  BY <1>1 DEF Made, Justified, Tapped
<1>3. KeyboardInv' /\ RegistryInv' /\ WaiterInv'
  BY <1>1, <1>2 DEF ApprovalInv, KeyboardInv, RegistryInv, WaiterInv
<1>4. /\ found.request \in Made /\ found.request \in Requests
      /\ found.decision = "Approved" => Justified(found.request)
  BY DEF ApprovalInv, DecisionInv, TapSend, Made
<1>5. \A q \in Requests : answer'[q] = "Approved" => q \in Made /\ Justified(q)
  BY <1>4 DEF TapSend, ApprovalInv, DecisionInv
<1>6. answer' \in [Requests -> {answer'[q] : q \in Requests}]
  BY DEF TapSend, ApprovalInv, DecisionInv
<1>7. gpc' # "send"
  BY DEF TapSend, Done
<1>8. DecisionInv'
  BY <1>1, <1>2, <1>5, <1>6, <1>7 DEF ApprovalInv, DecisionInv
<1> QED  BY <1>3, <1>8 DEF ApprovalInv

(* A request that starts gets a token nobody of this process has.           *)
LEMMA RegisterKeeps ==
    ASSUME Base, ApprovalInv, NEW r \in Requesters, Register(r) PROVE ApprovalInv'
<1> USE DEF ApprovalInv
<1>1. PICK q \in Requests \ Made :
          /\ request' = [request EXCEPT ![r] = q]
          /\ firstOf' = [firstOf EXCEPT ![q] = crashes]
          /\ pending' = [t \in DOMAIN pending \cup {NextToken} |->
                             IF t = NextToken THEN q ELSE pending[t]]
  BY DEF Register
<1>2. UNCHANGED <<sent, keyboards, answer, approved, crashes, gpc, found>>
      /\ counter' = counter + 1 /\ rpc' = [rpc EXCEPT ![r] = "post"] /\ rpc[r] = "idle"
  BY DEF Register, loop, telegram
<1>3. NextToken = counter + 1 /\ counter \in Nat /\ NextToken \notin DOMAIN pending
  BY DEF NextToken, RegistryInv
<1>4. q \in Made' /\ \A k \in Made : k # q /\ k \in Made' /\ firstOf'[k] = firstOf[k]
  BY <1>1, <1>2 DEF Made, RegistryInv
<1>5. \A k \in Made : Justified(k) => Justified(k)'
  BY <1>2, <1>4, JustifiedForever
<1>6. RegistryInv'
  <2>1. firstOf' \in [Requests -> Int] /\ \A k \in Requests : firstOf'[k] <= crashes
    BY <1>1, <1>2 DEF RegistryInv
  <2>2. DOMAIN pending' \subseteq 1..counter'
    BY <1>1, <1>2, <1>3 DEF RegistryInv
  <2>3. \A t \in DOMAIN pending' : pending'[t] \in Made' /\ firstOf'[pending'[t]] = crashes
    BY <1>1, <1>2, <1>3, <1>4 DEF RegistryInv
  <2> QED  BY <1>2, <2>1, <2>2, <2>3 DEF RegistryInv
<1>7. KeyboardInv'
  <2>1. ASSUME NEW k \in keyboards
        PROVE  /\ k.request \in Made'
               /\ firstOf'[k.request] = crashes =>
                      /\ k.token \in 1..counter'
                      /\ k.token \in DOMAIN pending' => pending'[k.token] = k.request
    <3>1. k.request \in Made /\ firstOf'[k.request] = firstOf[k.request]
      BY <1>4 DEF KeyboardInv
    <3>2. ASSUME firstOf[k.request] = crashes
          PROVE  /\ k.token \in 1..counter' /\ k.token # NextToken
                 /\ k.token \in DOMAIN pending => pending[k.token] = k.request
      BY <1>2, <1>3, <3>2 DEF KeyboardInv
    <3> QED  BY <1>1, <1>4, <3>1, <3>2
  <2> QED  BY <1>2, <2>1 DEF KeyboardInv
<1>8. WaiterInv'
  <2>1. rpc' \in [Requesters -> {"idle", "post", "wait"}]
        /\ request' \in [Requesters -> Requests \cup {NoRequest}]
    BY <1>1, <1>2 DEF WaiterInv
  <2>2. ASSUME NEW s \in Requesters, rpc'[s] # "idle"
        PROVE  /\ request'[s] \in Made'
               /\ \E t \in DOMAIN pending' : pending'[t] = request'[s]
               /\ s # r => request'[s] \in Made
    <3>1. CASE s = r
      <4>1. NextToken \in DOMAIN pending' /\ pending'[NextToken] = q /\ request'[s] = q
        BY <1>1, <3>1 DEF WaiterInv
      <4> QED  BY <1>4, <3>1, <4>1
    <3>2. CASE s # r
      <4>1. request'[s] = request[s] /\ rpc[s] # "idle"
        BY <1>1, <1>2, <2>2, <3>2 DEF WaiterInv
      <4>2. PICK t \in DOMAIN pending : pending[t] = request[s]
        BY <4>1 DEF WaiterInv
      <4>3. t \in DOMAIN pending' /\ pending'[t] = pending[t]
        BY <1>1, <1>3, <4>2
      <4> QED  BY <1>4, <4>1, <4>2, <4>3 DEF WaiterInv
    <3> QED  BY <3>1, <3>2
  <2>3. ASSUME NEW s \in Requesters, NEW other \in Requesters, rpc'[s] # "idle",
               rpc'[other] # "idle", request'[other] = request'[s]
        PROVE  other = s
    <3>1. request'[r] = q /\ q \notin Made
      BY <1>1 DEF WaiterInv
    <3>2. CASE s # r /\ other # r
      BY <1>1, <1>2, <2>3, <3>2 DEF WaiterInv
    <3> QED  BY <2>2, <2>3, <3>1, <3>2
  <2> QED  BY <2>1, <2>2, <2>3 DEF WaiterInv
<1>9. DecisionInv'
  <2>1. gpc' = "send" => /\ found'.request \in Made'
                         /\ found'.decision = "Approved" => Justified(found.request)'
    <3>1. PICK f : f = found.request
      OBVIOUS
    <3>2. gpc = "send" /\ found.decision = "Approved" => Justified(f)'
      BY <1>5, <3>1 DEF DecisionInv
    <3> QED  BY <1>2, <1>4, <3>1, <3>2 DEF DecisionInv, Justified
  <2>2. approved' \subseteq Made' /\ \A k \in approved' : Justified(k)'
    BY <1>2, <1>4, <1>5 DEF DecisionInv
  <2>3. \A k \in Requests : answer'[k] = "Approved" => k \in Made' /\ Justified(k)'
    BY <1>2, <1>4, <1>5 DEF DecisionInv
  <2>4. answer' \in [Requests -> {answer'[k] : k \in Requests}]
    BY <1>2 DEF DecisionInv
  <2> QED  BY <2>1, <2>2, <2>3, <2>4 DEF DecisionInv
<1> QED  BY <1>6, <1>7, <1>8, <1>9

(* The keyboard carries the token of its request. *)
LEMMA PostKeeps ==
    ASSUME Base, ApprovalInv, NEW r \in Requesters, PostKeyboard(r) PROVE ApprovalInv'
<1> USE DEF ApprovalInv
<1> DEFINE new == [request |-> request[r], token |-> Token(r)]
<1>1. UNCHANGED <<sent, counter, pending, answer, request, approved, firstOf, crashes,
                  gpc, found>>
      /\ rpc[r] = "post" /\ rpc' = [rpc EXCEPT ![r] = "wait"]
      /\ keyboards' = keyboards \cup {new}
  BY DEF PostKeyboard, loop, registry
<1>2. UNCHANGED Made /\ \A q : Justified(q)' = Justified(q)
  BY <1>1 DEF Made, Justified, Tapped
<1>3. request[r] \in Made /\ \E t \in DOMAIN pending : pending[t] = request[r]
  BY <1>1 DEF WaiterInv
<1>4. Token(r) \in DOMAIN pending /\ pending[Token(r)] = request[r]
  BY <1>3 DEF Token
<1>5. /\ new.request = request[r] /\ new.token = Token(r) /\ Token(r) \in 1..counter
      /\ new = [request |-> new.request, token |-> new.token]
  BY <1>4 DEF RegistryInv
<1> HIDE DEF new
<1>6. KeyboardInv'
  BY <1>1, <1>2, <1>3, <1>4, <1>5 DEF KeyboardInv
<1>7. RegistryInv' /\ WaiterInv'
  BY <1>1, <1>2 DEF RegistryInv, WaiterInv
<1>8. DecisionInv'
  BY <1>1, <1>2 DEF DecisionInv
<1> QED  BY <1>6, <1>7, <1>8

(* Request returns: its token is gone, the other tokens stay. *)
LEMMA ReturnKeeps ==
    ASSUME Base, ApprovalInv, NEW r \in Requesters, rpc[r] # "idle", NEW decision,
           decision = "Approved" => answer[request[r]] = "Approved", Return(r, decision)
    PROVE  ApprovalInv'
<1> USE DEF ApprovalInv
<1>1. /\ UNCHANGED <<sent, keyboards, counter, answer, firstOf, crashes, gpc, found>>
      /\ pending' = [t \in {u \in DOMAIN pending : pending[u] # request[r]} |-> pending[t]]
      /\ rpc' = [rpc EXCEPT ![r] = "idle"]
      /\ request' = [request EXCEPT ![r] = NoRequest]
      /\ approved' \subseteq approved \cup {request[r]}
      /\ request[r] \in approved' => request[r] \in approved \/ decision = "Approved"
  BY DEF Return, loop, telegram
<1>2. UNCHANGED Made /\ \A q : Justified(q)' = Justified(q)
  BY <1>1 DEF Made, Justified, Tapped
<1>3. \A t \in DOMAIN pending' : t \in DOMAIN pending /\ pending'[t] = pending[t]
  BY <1>1
<1>4. KeyboardInv'
  BY <1>1, <1>2, <1>3 DEF KeyboardInv
<1>5. RegistryInv'
  BY <1>1, <1>2, <1>3 DEF RegistryInv
<1>6. WaiterInv'
  <2>1. rpc' \in [Requesters -> {"idle", "post", "wait"}]
        /\ request' \in [Requesters -> Requests \cup {NoRequest}]
    BY <1>1 DEF WaiterInv
  <2>2. ASSUME NEW s \in Requesters, rpc'[s] # "idle"
        PROVE  s # r /\ rpc[s] # "idle" /\ request'[s] = request[s] /\ request[s] # request[r]
    BY <1>1, <2>2 DEF WaiterInv
  <2>3. ASSUME NEW s \in Requesters, rpc'[s] # "idle"
        PROVE  request'[s] \in Made' /\ \E t \in DOMAIN pending' : pending'[t] = request'[s]
    <3>1. PICK t \in DOMAIN pending : pending[t] = request[s]
      BY <2>2, <2>3 DEF WaiterInv
    <3>2. t \in DOMAIN pending' /\ pending'[t] = request'[s]
      BY <1>1, <2>2, <2>3, <3>1
    <3> QED  BY <1>2, <2>2, <2>3, <3>2 DEF WaiterInv
  <2> QED  BY <2>1, <2>2, <2>3 DEF WaiterInv
<1>7. DecisionInv'
  <2>1. request[r] \in Made /\ request[r] \in Requests
    BY DEF WaiterInv, Made
  <2>2. approved' \subseteq Made /\ \A q \in approved' : Justified(q)
    BY <1>1, <2>1 DEF DecisionInv
  <2> QED  BY <1>1, <1>2, <2>2 DEF DecisionInv
<1> QED  BY <1>4, <1>5, <1>6, <1>7

(* A message joins the log; a tap is one on a keyboard in the chat.         *)
LEMMA MessageKeeps == ASSUME Base, ApprovalInv, SendText \/ Tap PROVE ApprovalInv'
<1> USE DEF ApprovalInv
<1>1. PICK u : /\ Post(u)
               /\ u.kind = "tap" => [request |-> u.of, token |-> u.token] \in keyboards
  <2>1. CASE SendText
    <3>1. PICK chat \in Chats, word \in Words :
              Post([kind |-> "text", chat |-> chat, word |-> word])
      BY <2>1 DEF SendText
    <3>2. [kind |-> "text", chat |-> chat, word |-> word].kind # "tap"
      OBVIOUS
    <3> QED  BY <3>1, <3>2
  <2>2. CASE Tap
    <3>1. PICK k \in keyboards, d \in {"Approved", "Denied"} :
              Post([kind |-> "tap", token |-> k.token, answer |-> d, of |-> k.request])
      BY <2>2 DEF Tap
    <3> DEFINE u == [kind |-> "tap", token |-> k.token, answer |-> d, of |-> k.request]
    <3>2. u.of = k.request /\ u.token = k.token
      OBVIOUS
    <3>3. k = [request |-> k.request, token |-> k.token]
      BY DEF KeyboardInv
    <3> QED  BY <3>1, <3>2, <3>3
  <2> QED  BY <2>1, <2>2
<1>2. sent' = Append(sent, u)
      /\ UNCHANGED <<keyboards, counter, pending, answer, rpc, request, approved, firstOf,
                     crashes, gpc, found, Made>>
  BY <1>1 DEF Post, loop, registry, waiters, Made
<1>3. /\ \A id \in DOMAIN sent : id \in DOMAIN sent' /\ sent'[id] = sent[id]
      /\ \A id \in DOMAIN sent' : id \in DOMAIN sent \/ sent'[id] = u
  BY <1>2, Appended DEF Base
<1>4. \A k \in Made : Justified(k) => Justified(k)'
  BY <1>2, <1>3, JustifiedForever
<1>5. KeyboardInv'
  <2>1. \A id \in DOMAIN sent' : sent'[id].kind = "tap" =>
            [request |-> sent'[id].of, token |-> sent'[id].token] \in keyboards
    BY <1>1, <1>3 DEF KeyboardInv
  <2> QED  BY <1>2, <2>1 DEF KeyboardInv
<1>6. RegistryInv' /\ WaiterInv'
  BY <1>2 DEF RegistryInv, WaiterInv
<1>7. DecisionInv'
  <2>1. PICK f : f = found.request
    OBVIOUS
  <2>2. gpc = "send" /\ found.decision = "Approved" => Justified(f)'
    BY <1>4, <2>1 DEF DecisionInv
  <2> QED  BY <1>2, <1>4, <2>1, <2>2 DEF DecisionInv, Justified
<1> QED  BY <1>5, <1>6, <1>7

(* After a crash every request there is belongs to an earlier process.      *)
LEMMA CrashKeeps == ASSUME Base, ApprovalInv, Crash PROVE ApprovalInv'
<1> USE DEF ApprovalInv
<1>1. /\ UNCHANGED <<sent, keyboards, approved, firstOf>> /\ crashes' = crashes + 1
      /\ counter' = 0 /\ pending' = [t \in {} |-> 0] /\ gpc' = "poll"
      /\ answer' = [q \in Requests |-> "empty"]
      /\ rpc' = [r \in Requesters |-> "idle"]
      /\ request' = [r \in Requesters |-> NoRequest]
  BY DEF Crash, telegram
<1>2. UNCHANGED Made /\ \A q : Justified(q)' = Justified(q)
  BY <1>1 DEF Made, Justified, Tapped
<1>3. RegistryInv'
  BY <1>1 DEF RegistryInv
<1>4. \A q \in Made : firstOf[q] # crashes'
  BY <1>1 DEF RegistryInv, Made
<1>5. KeyboardInv'
  BY <1>1, <1>2, <1>4 DEF KeyboardInv
<1>6. WaiterInv'
  BY <1>1 DEF WaiterInv
<1>7. DecisionInv'
  BY <1>1, <1>2 DEF DecisionInv
<1> QED  BY <1>3, <1>5, <1>6, <1>7

LEMMA ApprovalStep == ASSUME Base, ApprovalInv, [Next]_vars PROVE ApprovalInv'
<1>1. CASE Poll
  BY <1>1, ApprovalStays DEF Poll, registry, waiters
<1>2. CASE Panic
  BY <1>2, ApprovalStays DEF Panic, Done, registry, waiters, telegram
<1>3. CASE Pair
  BY <1>3, ApprovalStays DEF Pair, Done, registry, waiters, telegram
<1>4. CASE Command
  BY <1>4, ApprovalStays DEF Command, Done, registry, waiters, telegram
<1>5. CASE TapLookup
  BY <1>5, LookupKeeps
<1>6. CASE TapSend
  BY <1>6, SendKeeps
<1>7. CASE Save
  BY <1>7, ApprovalStays DEF Save, registry, waiters, telegram
<1>8. ASSUME NEW r \in Requesters, Register(r) \/ PostKeyboard(r) \/ FailSafe(r) \/ Resolved(r)
      PROVE  ApprovalInv'
  <2>1. CASE Register(r)
    BY <2>1, RegisterKeeps
  <2>2. CASE PostKeyboard(r)
    BY <2>2, PostKeeps
  <2>3. CASE FailSafe(r)
    BY <2>3, ReturnKeeps DEF FailSafe, GivesUp
  <2>4. CASE Resolved(r)
    BY <2>4, ReturnKeeps DEF Resolved
  <2> QED  BY <1>8, <2>1, <2>2, <2>3, <2>4
<1>9. CASE SendText \/ Tap
  BY <1>9, MessageKeeps
<1>10. CASE Crash
  BY <1>10, CrashKeeps
<1>11. CASE LoseOffset
  BY <1>11, ApprovalStays DEF LoseOffset, loop, registry, waiters, telegram
<1>12. CASE Boot
  BY <1>12, ApprovalStays DEF Boot, registry, waiters, telegram
<1>13. CASE UNCHANGED vars
  BY <1>13, ApprovalStays DEF vars, loop, registry, waiters, telegram
<1> QED
  BY <1>1, <1>2, <1>3, <1>4, <1>5, <1>6, <1>7, <1>8, <1>9, <1>10, <1>11, <1>12, <1>13
  DEF Next, GatewayStep

(***************************************************************************)
(* No request is approved but by an Approve tap, on its own keyboard or on *)
(* one an earlier process left in the chat: for any number of requesters,  *)
(* taps, deadlines, failed posts and crashes, however they interleave.     *)
(***************************************************************************)
THEOREM ApprovalsNeverCross == Spec => []ApprovalsDoNotCross
<1>1. Init => ApprovalInv
  <2> SUFFICES ASSUME Init PROVE ApprovalInv
    OBVIOUS
  <2>1. Made = {}
    BY DEF Init, Made
  <2>2. KeyboardInv /\ RegistryInv /\ WaiterInv
    BY <2>1 DEF Init, KeyboardInv, RegistryInv, WaiterInv
  <2>3. DecisionInv
    BY <2>1 DEF Init, DecisionInv
  <2> QED  BY <2>2, <2>3 DEF ApprovalInv
<1>2. ApprovalInv => ApprovalsDoNotCross
  BY DEF ApprovalInv, DecisionInv, Justified, ApprovalsDoNotCross
<1> QED  BY <1>1, <1>2, ApprovalStep, BaseInvariance, PTL DEF Spec
=============================================================================
