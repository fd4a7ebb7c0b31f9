--------------------------- MODULE DurableSwitch ---------------------------
(***************************************************************************)
(* What the kill switch promises, without files, locks or a page cache: a  *)
(* single halt status that outlives the process.  A call changes it in one *)
(* step, at most once, between its start and its return; a crash may only  *)
(* complete a call that is still outstanding or abandon it.  Nothing else  *)
(* changes the status: only a Clear call ends a halt, and a second halt    *)
(* keeps the cause of the first.                                           *)
(***************************************************************************)

CONSTANTS Callers,      \* goroutines that hold the switch
          Causes        \* halt kinds a caller may give

VARIABLES status,       \* "None" (trading) or the cause of the halt
          open          \* the state-changing call each goroutine is in, or "none"

vars == <<status, open>>

RunawayKind == "RunawayOrderGuard"

Kinds == Causes \cup {RunawayKind, "Manual", "None"}

Calls == {"none", "Clear", "RecordOrder"} \cup Causes

TypeOK == /\ status \in Kinds
          /\ open \in [Callers -> Calls]

Init == /\ status \in Kinds
        /\ open = [c \in Callers |-> "none"]

Begin(c, call) == /\ open[c] = "none"
                  /\ open' = [open EXCEPT ![c] = call]
                  /\ UNCHANGED status

(* The states a call may leave the switch in. *)
Effects(call) ==
    {kind \in Kinds : \/ call = "Clear" /\ kind = "None"
                      \/ call = "RecordOrder" /\ kind = RunawayKind /\ status = "None"
                      \/ call \in Causes /\ kind = call /\ status = "None"}

(* A call returns, with its effect or (an early return or an error) without. *)
End(c) == /\ open[c] # "none"
          /\ status' \in Effects(open[c]) \cup {status}
          /\ open' = [open EXCEPT ![c] = "none"]

(* The process dies.  At most one outstanding call still takes effect; an   *)
(* operator who damages the file of a stopped process gets a manual halt.   *)
Crash == /\ \/ status' = status
            \/ \E c \in Callers : status' \in Effects(open[c])
         /\ open' = [c \in Callers |-> "none"]

Damaged == /\ open = [c \in Callers |-> "none"]
           /\ status' = "Manual"
           /\ UNCHANGED open

Next == \/ \E c \in Callers : \/ \E call \in Calls \ {"none"} : Begin(c, call)
                              \/ End(c)
        \/ Crash
        \/ Damaged

Spec == Init /\ [][Next]_vars
=============================================================================
