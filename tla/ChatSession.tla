----------------------------- MODULE ChatSession -----------------------------
(***************************************************************************)
(* Talking to the program: the dashboard (internal/tui/dashboard.go) hands *)
(* each line to a goroutine that calls Say on the one Chatter              *)
(* (internal/chat/chat.go), which tries the backends in order.  Nothing    *)
(* keeps the owner from sending a line while an answer is on its way, and  *)
(* the history has no lock: a change of it is a load and a store.  (A torn *)
(* slice header, the third outcome of that race, is left out.)             *)
(***************************************************************************)
EXTENDS Integers, SequencesExt

CONSTANTS
    Backends,       \* number of backends, the primary first
    MaxTurns,       \* Conversation.maxTurns
    MaxAsks,        \* bound: lines sent
    MaxAtOnce       \* bound: lines unanswered at once

VARIABLES
    asked,          \* lines sent so far: they are numbered 1, 2, ...
    thinking,       \* DashboardModel.thinking
    shown,          \* the answers and errors in the transcript
    turns,          \* Conversation.turns: [role, ask]
    at,             \* ask -> where its Say is
    loaded,         \* ask -> the history it loaded
    prompt,         \* ask -> the history its prompt was rendered from
    failovers,      \* ask -> backends that failed
    overlapped      \* history: a line was sent while another one was unanswered

vars == <<asked, thinking, shown, turns, at, loaded, prompt, failovers, overlapped>>

Asks == 1..MaxAsks
User(a) == [role |-> "user", ask |-> a]
Assistant(a) == [role |-> "assistant", ask |-> a]

InFlight == {a \in 1..asked : at[a] # "delivered"}

(* Conversation.Append and dropLastUserTurn. *)
Bounded(h) == SubSeq(h, IF Len(h) > MaxTurns THEN Len(h) - MaxTurns + 1 ELSE 1, Len(h))
Appended(h, t) == Bounded(Append(h, t))
BugDropped(h) == h                              \* mutant: the failed line stays
Dropped(h) == IF h # <<>> /\ Last(h).role = "user" THEN Front(h) ELSE h

Init == /\ asked = 0 /\ thinking = FALSE /\ shown = <<>> /\ turns = <<>>
        /\ at = [a \in Asks |-> "idle"]
        /\ loaded = [a \in Asks |-> <<>>] /\ prompt = [a \in Asks |-> <<>>]
        /\ failovers = [a \in Asks |-> 0]
        /\ overlapped = FALSE

Goto(a, label) == at' = [at EXCEPT ![a] = label]

(* submitChat: Enter on a line that is not blank, thinking or not. *)
Submit == /\ asked < MaxAsks /\ Cardinality(InFlight) < MaxAtOnce
          /\ asked' = asked + 1
          /\ thinking' = TRUE
          /\ Goto(asked', "append")
          /\ overlapped' = (overlapped \/ InFlight # {})
          /\ UNCHANGED <<shown, turns, loaded, prompt, failovers>>

(* A change of the history starts with a look at it. *)
Load(a) == \E from \in {"append", "answered", "failed"} :
    /\ at[a] = from
    /\ loaded' = [loaded EXCEPT ![a] = turns]
    /\ Goto(a, CASE from = "append" -> "appending" [] from = "answered" -> "answering"
                 [] from = "failed" -> "dropping")
    /\ UNCHANGED <<asked, thinking, shown, turns, prompt, failovers, overlapped>>

(* The user's turn before the call, the answer or the drop after it. *)
Store(a) ==
    /\ \/ /\ at[a] = "appending"
          /\ turns' = Appended(loaded[a], User(a)) /\ Goto(a, "render")
       \/ /\ at[a] = "answering"
          /\ turns' = Appended(loaded[a], Assistant(a)) /\ Goto(a, "replied")
       \/ /\ at[a] = "dropping"
          /\ turns' = Dropped(loaded[a]) /\ Goto(a, "error")
    /\ loaded' = [loaded EXCEPT ![a] = <<>>]
    /\ UNCHANGED <<asked, thinking, shown, prompt, failovers, overlapped>>

Render(a) == /\ at[a] = "render"
             /\ prompt' = [prompt EXCEPT ![a] = turns]
             /\ Goto(a, "call")
             /\ UNCHANGED <<asked, thinking, shown, turns, loaded, failovers, overlapped>>

(* The next backend in order answers or fails. *)
Complete(a) ==
    /\ at[a] = "call"
    /\ \/ /\ Goto(a, "answered") /\ UNCHANGED failovers
       \/ /\ failovers' = [failovers EXCEPT ![a] = @ + 1]
          /\ IF failovers'[a] = Backends THEN Goto(a, "failed") ELSE UNCHANGED at
    /\ UNCHANGED <<asked, thinking, shown, turns, loaded, prompt, overlapped>>

(* chatReplyMsg reaches Update: the answer, with its note, or the error. *)
Deliver(a) ==
    /\ at[a] \in {"replied", "error"}
    /\ thinking' = FALSE
    /\ shown' = Append(shown, [ask |-> a, error |-> at[a] = "error",
                               downgraded |-> at[a] = "replied" /\ failovers[a] > 0])
    /\ prompt' = [prompt EXCEPT ![a] = <<>>]
    /\ failovers' = [failovers EXCEPT ![a] = 0]
    /\ Goto(a, "delivered")
    /\ UNCHANGED <<asked, turns, loaded, overlapped>>

Next == \/ Submit
        \/ \E a \in Asks : Load(a) \/ Store(a) \/ Render(a) \/ Complete(a) \/ Deliver(a)
Spec == Init /\ [][Next]_vars

-----------------------------------------------------------------------------
(* The turns of the lines answered so far, each with its answer: a line    *)
(* that ended in an error has none.                                        *)
TurnsOf(reply) == IF reply.error THEN <<>>
                  ELSE <<User(reply.ask), Assistant(reply.ask)>>
Threaded == FlattenSeq([i \in DOMAIN shown |-> TurnsOf(shown[i])])

(***************************************************************************)
(* The history never exceeds its bound, even when two calls race.  While   *)
(* the owner waits for each answer, "thinking" is shown exactly while one  *)
(* is on its way, the history is the end of the answered lines with their  *)
(* answers, a failed line leaves no turn behind, and each prompt is such a *)
(* history with the line itself at its end.                                *)
(***************************************************************************)
ChatStaysThreaded ==
    /\ Len(turns) <= MaxTurns
    /\ ~overlapped =>
        /\ thinking <=> InFlight # {}
        /\ InFlight = {} => IsSuffix(turns, Threaded)
        /\ \A a \in InFlight : at[a] = "call" => IsSuffix(prompt[a], Append(Threaded, User(a)))
=============================================================================
