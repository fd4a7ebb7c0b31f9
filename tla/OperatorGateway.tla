--------------------------- MODULE OperatorGateway ---------------------------
(***************************************************************************)
(* internal/gateway as cmd/bucks/daemon.go assembles it: one long-poll     *)
(* loop (gateway.go) with its durable offset (offset.go) feeds text to the *)
(* command router (commands.go) and taps to the approval registry          *)
(* (approval.go), on which other goroutines block.  Telegram keeps every   *)
(* update until a poll asks for a later one.  The process may crash        *)
(* between any two steps; the offset, the paired chat and the halt status  *)
(* are what outlives it.                                                   *)
(*                                                                         *)
(* The halt status is the one DurableSwitch specifies.  Only /halt and     *)
(* /resume change state among the commands, so the others are one word.    *)
(* Back-off delays change no state.  parseCallbackData is the inverse of   *)
(* callbackData: a tap is the token of its keyboard and the answer.        *)
(***************************************************************************)
EXTENDS Integers, Sequences, FiniteSets, FiniteSetsExt

CONSTANTS
    Chats,          \* chats that write to the bot
    Nobody,         \* chat id 0: no trusted chat
    Words,          \* texts sent: "/halt", "/resume" or another
    Requesters,     \* goroutines that ask for approvals (production: the trade loop)
    MaxUpdates,     \* bound: updates sent to the bot
    MaxRequests,    \* bound: approval requests over all processes
    MaxCrashes      \* bound: crashes

ASSUME ChatAssumption == Nobody \notin Chats
ASSUME BoundAssumption == {MaxUpdates, MaxRequests, MaxCrashes} \subseteq Nat

VARIABLES
    up,             \* the daemon runs
    gpc,            \* the poll loop: "poll", "handle", "send" or "save"
    batch,          \* ids fetched and not handled yet
    offset,         \* Run's offset
    stored,         \* the offset file; 0 when missing or damaged
    trusted,        \* CommandRouter.trustedChatID
    trustFile,      \* telegram_trust.json (or the environment's chat id)
    postChat,       \* ApprovalRegistry.chatID
    ks,             \* the kill switch: "None" or "Manual"
    counter,        \* the registry's token counter
    pending,        \* token -> the request whose channel is registered
    answer,         \* request -> what its channel (capacity 1) holds, or "empty"
    found,          \* the request and decision Handle is about to send
    rpc, request,   \* each requester: where it is in Request, and its request
    sent,           \* Telegram: every update so far; an id is an index
    confirmed,      \* Telegram: the ids up to here are deleted
    keyboards,      \* Telegram: [request, token] of every keyboard in the chat
    crashes,
    approved,       \* history: requests answered with an approval
    firstOf,        \* history: request -> the process (crashes so far) that made it
    times,          \* history: id -> how often this process handled it
    handled,        \* history: ids some process handled
    pairedBy,       \* history: id of the message that paired the chat, or 0
    ineffective     \* history: some command failed or panicked

loop     == <<gpc, batch, offset, found>>
router   == <<trusted, trustFile, ks, pairedBy, ineffective>>
registry == <<counter, pending, answer>>
waiters  == <<rpc, request, approved, firstOf>>
telegram == <<sent, confirmed, keyboards>>
tally    == <<times, handled>>
vars == <<up, loop, stored, router, postChat, registry, waiters, telegram, crashes, tally>>

Ids == 1..MaxUpdates
Requests == 1..MaxRequests
NoRequest == 0
NotFound == [request |-> NoRequest, decision |-> "Denied"]
Made == {q \in Requests : firstOf[q] # -1}

Init == /\ up = TRUE /\ gpc = "poll" /\ batch = {} /\ offset = 0 /\ stored = 0
        /\ trustFile \in Chats \cup {Nobody}
        /\ trusted = trustFile /\ postChat = trustFile
        /\ ks = "None"
        /\ counter = 0 /\ pending = [t \in {} |-> 0]
        /\ answer = [q \in Requests |-> "empty"]
        /\ found = NotFound
        /\ rpc = [r \in Requesters |-> "idle"]
        /\ request = [r \in Requesters |-> NoRequest]
        /\ sent = <<>> /\ confirmed = 0 /\ keyboards = {} /\ crashes = 0
        /\ approved = {}
        /\ firstOf = [q \in Requests |-> -1]
        /\ times = [id \in Ids |-> 0] /\ handled = {}
        /\ pairedBy = 0 /\ ineffective = FALSE

-----------------------------------------------------------------------------
(* Run and poll.  A poll whose answer is lost has confirmed all the same.   *)
BugAskFrom == offset + 2            \* mutant: polls from one past the next update
AskFrom == offset + 1

Confirm == confirmed' = Max({confirmed, AskFrom - 1})

Poll ==
    /\ up /\ gpc = "poll"
    /\ Confirm
    /\ \/ \E last \in confirmed' + 1..Len(sent) :
              /\ batch' = confirmed' + 1..last
              /\ gpc' = "handle"
       \/ UNCHANGED <<batch, gpc>>
    /\ UNCHANGED <<up, offset, found, stored, router, postChat, registry, waiters, sent,
                   keyboards, crashes, tally>>

BugUpdateId == Max(batch)           \* mutant: the newest update first
UpdateId == Min(batch)
Update == sent[UpdateId]

Handling(kind) == up /\ gpc = "handle" /\ Update.kind = kind

Advanced == Max({offset, UpdateId})

(* safeHandle returned: the offset advances, the batch ends in a save. *)
Done == /\ batch' = batch \ {UpdateId}
        /\ offset' = Advanced
        /\ gpc' = IF batch' = {} THEN "save" ELSE "handle"
        /\ times' = [times EXCEPT ![UpdateId] = @ + 1]
        /\ handled' = handled \cup {UpdateId}

(* A recovered panic: the update counts as handled. *)
Panic ==
    /\ up /\ gpc = "handle"
    /\ Done
    /\ ineffective' = TRUE
    /\ UNCHANGED <<up, found, stored, trusted, trustFile, ks, pairedBy, postChat, registry,
                   waiters, telegram, crashes>>

(* CommandRouter.Handle without a trusted chat: the first message pairs,    *)
(* unless its chat cannot be saved.  The registry keeps the chat it has.    *)
Pair ==
    /\ Handling("text") /\ trusted = Nobody
    /\ Done
    /\ \/ /\ trusted' = Update.chat /\ trustFile' = Update.chat
          /\ pairedBy' = UpdateId
       \/ UNCHANGED <<trusted, trustFile, pairedBy>>
    /\ UNCHANGED <<up, found, stored, ks, ineffective, postChat, registry, waiters, telegram,
                   crashes>>

Effect(word) == IF word = "/halt" THEN "Manual" ELSE IF word = "/resume" THEN "None" ELSE ks

(* A write of the kill switch may fail; the reply then says so. *)
Command ==
    /\ Handling("text") /\ trusted # Nobody
    /\ Done
    /\ \/ /\ Update.chat = trusted
          /\ \/ ks' = Effect(Update.word) /\ UNCHANGED ineffective
             \/ Effect(Update.word) # ks /\ ineffective' = TRUE /\ UNCHANGED ks
       \/ Update.chat # trusted /\ UNCHANGED <<ks, ineffective>>
    /\ UNCHANGED <<up, found, stored, trusted, trustFile, pairedBy, postChat, registry, waiters,
                   telegram, crashes>>

(* ApprovalRegistry.Handle: the lookup, under the mutex. *)
TapLookup ==
    /\ Handling("tap")
    /\ \/ /\ Update.token \in DOMAIN pending
          /\ found' = [request |-> pending[Update.token], decision |-> Update.answer]
          /\ gpc' = "send"
          /\ UNCHANGED <<batch, offset, tally>>
       \/ /\ Update.token \notin DOMAIN pending
          /\ Done
          /\ UNCHANGED found
    /\ UNCHANGED <<up, stored, router, postChat, registry, waiters, telegram, crashes>>

(* The send to a channel of capacity 1 that drops what does not fit; the    *)
(* waiter may be gone by now.                                               *)
TapSend ==
    /\ up /\ gpc = "send"
    /\ Done
    /\ answer' = [answer EXCEPT ![found.request] = IF @ = "empty" THEN found.decision ELSE @]
    /\ found' = NotFound
    /\ UNCHANGED <<up, stored, router, postChat, counter, pending, waiters, telegram,
                   crashes>>

(* OffsetStore.Save: the new value or, on an error that is only logged, the old. *)
Save ==
    /\ up /\ gpc = "save"
    /\ stored' \in {stored, offset}
    /\ gpc' = "poll"
    /\ UNCHANGED <<up, batch, offset, found, router, postChat, registry, waiters, telegram,
                   crashes, tally>>

-----------------------------------------------------------------------------
(* ApprovalRegistry.Request, one call of a requester. *)
BugNextToken == 1                   \* mutant: every request has the same token
NextToken == counter + 1

Register(r) ==
    /\ up /\ rpc[r] = "idle"
    /\ \E q \in Requests \ Made :
           /\ \A other \in Requests \ Made : q <= other
           /\ request' = [request EXCEPT ![r] = q]
           /\ firstOf' = [firstOf EXCEPT ![q] = crashes]
           /\ pending' = [t \in DOMAIN pending \cup {NextToken} |->
                             IF t = NextToken THEN q ELSE pending[t]]
    /\ counter' = counter + 1
    /\ rpc' = [rpc EXCEPT ![r] = "post"]
    /\ UNCHANGED <<up, loop, stored, router, postChat, answer, approved, telegram, crashes, tally>>

Token(r) == CHOOSE t \in DOMAIN pending : pending[t] = request[r]

(* The post: Telegram refuses one to chat 0.  A tap may arrive before the   *)
(* post returns; its decision then waits in the channel.                   *)
PostKeyboard(r) ==
    /\ up /\ rpc[r] = "post"
    /\ postChat # Nobody
    /\ keyboards' = keyboards \cup {[request |-> request[r], token |-> Token(r)]}
    /\ rpc' = [rpc EXCEPT ![r] = "wait"]
    /\ UNCHANGED <<up, loop, stored, router, postChat, registry, request, approved, firstOf,
                   sent, confirmed, crashes, tally>>

(* Every return of Request unregisters its own token. *)
Return(r, decision) ==
    /\ approved' = IF decision = "Approved" THEN approved \cup {request[r]} ELSE approved
    /\ pending' = [t \in {u \in DOMAIN pending : pending[u] # request[r]} |-> pending[t]]
    /\ rpc' = [rpc EXCEPT ![r] = "idle"]
    /\ request' = [request EXCEPT ![r] = NoRequest]
    /\ UNCHANGED <<up, loop, stored, router, postChat, counter, answer, firstOf, telegram,
                   crashes, tally>>

BugGivesUp == {"post"}              \* mutant: no deadline on the wait
GivesUp == {"post", "wait"}

(* The post failed (also one whose keyboard appeared), or the deadline      *)
(* passed: select may prefer it to an answer that is already there.         *)
FailSafe(r) == up /\ rpc[r] \in GivesUp /\ Return(r, "Denied")

Resolved(r) == /\ up /\ rpc[r] = "wait"
               /\ answer[request[r]] # "empty"
               /\ Return(r, answer[request[r]])

-----------------------------------------------------------------------------
(* The people in the chats, crashes, and the start of a daemon. *)
Post(update) ==
    /\ Len(sent) < MaxUpdates
    /\ sent' = Append(sent, update)
    /\ UNCHANGED <<up, loop, stored, router, postChat, registry, waiters, confirmed, keyboards,
                   crashes, tally>>

SendText == \E chat \in Chats, word \in Words :
                Post([kind |-> "text", chat |-> chat, word |-> word])

Tap == \E k \in keyboards, decision \in {"Approved", "Denied"} :
           Post([kind |-> "tap", token |-> k.token, answer |-> decision, of |-> k.request])

(* What the process only had in memory is gone. *)
Crash ==
    /\ up /\ crashes < MaxCrashes
    /\ up' = FALSE
    /\ crashes' = crashes + 1
    /\ gpc' = "poll" /\ batch' = {} /\ offset' = 0 /\ found' = NotFound
    /\ counter' = 0 /\ pending' = [t \in {} |-> 0]
    /\ answer' = [q \in Requests |-> "empty"]
    /\ rpc' = [r \in Requesters |-> "idle"]
    /\ request' = [r \in Requesters |-> NoRequest]
    /\ times' = [id \in Ids |-> 0]
    /\ UNCHANGED <<stored, router, postChat, approved, firstOf, telegram, handled>>

(* The offset file is lost or unreadable: Load answers 0. *)
LoseOffset ==
    /\ ~up /\ stored # 0
    /\ stored' = 0
    /\ UNCHANGED <<up, loop, router, postChat, registry, waiters, telegram, crashes, tally>>

BootOffset == stored

(* Run loads the offset; the router and the registry get the saved chat. *)
Boot ==
    /\ ~up
    /\ up' = TRUE
    /\ offset' = BootOffset
    /\ trusted' = trustFile
    /\ postChat' = trustFile
    /\ UNCHANGED <<gpc, batch, found, stored, trustFile, ks, pairedBy, ineffective, registry,
                   waiters, telegram, crashes, tally>>

GatewayStep == Poll \/ Panic \/ Pair \/ Command \/ TapLookup \/ TapSend \/ Save

Next == \/ GatewayStep
        \/ \E r \in Requesters : \/ Register(r) \/ PostKeyboard(r)
                                 \/ FailSafe(r) \/ Resolved(r)
        \/ SendText \/ Tap \/ Crash \/ LoseOffset \/ Boot

Spec == Init /\ [][Next]_vars

(* Polls succeed in the end, handlers return (their HTTP calls have a       *)
(* timeout), the service manager restarts the daemon, and every request     *)
(* carries the deadline ApprovalTimeout.                                    *)
FairSpec == /\ Spec
            /\ WF_vars(GatewayStep) /\ SF_vars(Poll /\ batch' # {})
            /\ WF_vars(Boot)
            /\ \A r \in Requesters : WF_vars(FailSafe(r))

-----------------------------------------------------------------------------
TypeOK ==
    /\ {up, ineffective} \subseteq BOOLEAN
    /\ gpc \in {"poll", "handle", "send", "save"}
    /\ batch \subseteq DOMAIN sent /\ (gpc \in {"handle", "send"} <=> batch # {})
    /\ {offset, stored, confirmed} \subseteq 0..Len(sent)
    /\ {trusted, trustFile, postChat} \subseteq Chats \cup {Nobody}
    /\ ks \in {"None", "Manual"}
    /\ counter \in 0..MaxRequests
    /\ DOMAIN pending \subseteq 1..counter /\ \A t \in DOMAIN pending : pending[t] \in Made
    /\ answer \in [Requests -> {"empty", "Approved", "Denied"}]
    /\ rpc \in [Requesters -> {"idle", "post", "wait"}]
    /\ request \in [Requesters -> Requests \cup {NoRequest}]
    /\ approved \subseteq Made
    /\ handled \subseteq DOMAIN sent

(***************************************************************************)
(* No update is skipped and none repeated: whatever Telegram has deleted,  *)
(* or a restart would no longer ask for, has been given to its handler,    *)
(* and one process never handles an update twice, also when its saves      *)
(* fail, it started from a lost offset file, or a poll's answer is lost.   *)
(***************************************************************************)
EachUpdateHandledOnce == /\ 1..Max({confirmed, stored, offset}) \subseteq handled
                         /\ \A id \in Ids : times[id] <= 1

(* The operator's commands: a pairing message is not one. *)
Commands == {id \in DOMAIN sent : /\ id > pairedBy
                                  /\ sent[id].kind = "text"
                                  /\ sent[id].chat = trusted
                                  /\ sent[id].word \in {"/halt", "/resume"}}

(***************************************************************************)
(* Once the loop has caught up, trading is halted or not as the operator   *)
(* last said, however many crashes replayed the commands before it.        *)
(***************************************************************************)
LastWordStands ==
    up /\ gpc = "poll" /\ offset = Len(sent) /\ ~ineffective /\ Commands # {}
        => ks = Effect(sent[Max(Commands)].word)

Tapped(q, decision) == \E id \in DOMAIN sent : /\ sent[id].kind = "tap"
                                               /\ sent[id].of = q
                                               /\ sent[id].answer = decision

(***************************************************************************)
(* A request is approved only by an Approve tap on its own keyboard or on  *)
(* a keyboard that an earlier process left in the chat: requests of one    *)
(* process never cross, and silence is a no.                               *)
(***************************************************************************)
ApprovalsDoNotCross ==
    \A q \in approved :
        \E k \in Made : Tapped(k, "Approved") /\ (k = q \/ firstOf[k] < firstOf[q])

(***************************************************************************)
(* Every update is handled and every approval request returns in the end,  *)
(* tapped or not: no waiter, late tap or panic wedges the loop.            *)
(***************************************************************************)
EverythingSettles ==
    /\ \A id \in Ids : (id <= Len(sent)) ~> (id \in handled)
    /\ \A r \in Requesters : (rpc[r] # "idle") ~> (rpc[r] = "idle")

-----------------------------------------------------------------------------
(***************************************************************************)
(* approval.go: the token "uniquely identifies the pending request so      *)
(* concurrent approvals never cross" and an order above the band is placed *)
(* "ONLY on an explicit Approve tap".  The counter starts again with the   *)
(* process, while the keyboards stay in the chat.                          *)
(***************************************************************************)
ApprovedMeansOwnTap == \A q \in approved : Tapped(q, "Approved")
=============================================================================
