---------------------------- MODULE TwoProcesses ----------------------------
(***************************************************************************)
(* The dashboard opened beside the daemon (cmd/bucks/daemon.go,            *)
(* launch_gateway.go): each process runs a gateway on the same bot and     *)
(* opens the same kill-switch and offset files, but reads them only when   *)
(* it starts, and only the daemon trades.  The gateway is OperatorGateway, *)
(* the switch KillSwitch: here they have only the steps in which two       *)
(* processes meet.                                                         *)
(***************************************************************************)
EXTENDS Integers, SequencesExt

CONSTANTS
    MaxCommands,    \* bound: commands the operator sends
    MaxOrders       \* bound: orders the daemon places

VARIABLES
    up,             \* process -> it runs
    halted,         \* process -> its kill switch, in memory
    haltFile,       \* killswitch.json
    offset,         \* process -> its gateway's offset, in memory
    offsetFile,     \* telegram_offset.json
    fetched,        \* process -> updates it polled and has not handled
    chat,           \* external: the operator's commands, oldest first
    confirmed,      \* external: commands Telegram no longer delivers
    answered,       \* history: commands the operator got an answer to
    orders

vars == <<up, halted, haltFile, offset, offsetFile, fetched, chat, confirmed,
          answered, orders>>

Processes == {"daemon", "dashboard"}

Init == /\ up = [p \in Processes |-> FALSE]
        /\ halted = [p \in Processes |-> FALSE] /\ haltFile = FALSE
        /\ offset = [p \in Processes |-> 0] /\ offsetFile = 0
        /\ fetched = [p \in Processes |-> <<>>]
        /\ chat = <<>> /\ confirmed = 0 /\ answered = {} /\ orders = 0

(* risk.Open and OffsetStore.Load. *)
Start(p) == /\ ~up[p]
            /\ up' = [up EXCEPT ![p] = TRUE]
            /\ halted' = [halted EXCEPT ![p] = haltFile]
            /\ offset' = [offset EXCEPT ![p] = offsetFile]
            /\ UNCHANGED <<haltFile, offsetFile, fetched, chat, confirmed, answered, orders>>

Stop(p) == /\ up[p]
           /\ up' = [up EXCEPT ![p] = FALSE]
           /\ fetched' = [fetched EXCEPT ![p] = <<>>]
           /\ UNCHANGED <<halted, haltFile, offset, offsetFile, chat, confirmed, answered, orders>>

OperatorSends(cmd) == /\ Len(chat) < MaxCommands
                      /\ chat' = Append(chat, cmd)
                      /\ UNCHANGED <<up, halted, haltFile, offset, offsetFile, fetched,
                                     confirmed, answered, orders>>

(* getUpdates: either poller may win, the other one gets a 409 and retries. *)
Poll(p) ==
    /\ up[p] /\ fetched[p] = <<>>
    /\ confirmed' = Max({confirmed, offset[p]})
    /\ fetched' = [fetched EXCEPT ![p] = [i \in 1..(Len(chat) - confirmed') |-> confirmed' + i]]
    /\ UNCHANGED <<up, halted, haltFile, offset, offsetFile, chat, answered, orders>>

(* Halt and Clear: a switch that is there already in memory writes nothing. *)
Switches(p, halt) ==
    IF halted[p] = halt THEN UNCHANGED <<halted, haltFile>>
    ELSE halted' = [halted EXCEPT ![p] = halt] /\ haltFile' = halt

Handle(p) ==
    /\ up[p] /\ fetched[p] # <<>>
    /\ LET u == Head(fetched[p]) IN
       /\ Switches(p, chat[u] = "halt")
       /\ answered' = answered \cup {u}
       /\ offset' = [offset EXCEPT ![p] = Max({@, u})]
       /\ offsetFile' = IF Len(fetched[p]) = 1 THEN offset'[p] ELSE offsetFile
    /\ fetched' = [fetched EXCEPT ![p] = Tail(@)]
    /\ UNCHANGED <<up, chat, confirmed, orders>>

(* The daemon's trade loop passes the halt gate and places an order. *)
Place == /\ up["daemon"] /\ ~halted["daemon"] /\ orders < MaxOrders
         /\ orders' = orders + 1
         /\ UNCHANGED <<up, halted, haltFile, offset, offsetFile, fetched, chat,
                        confirmed, answered>>

Next == \/ \E p \in Processes : Start(p) \/ Stop(p) \/ Poll(p) \/ Handle(p)
        \/ \E cmd \in {"halt", "resume"} : OperatorSends(cmd)
        \/ Place

Spec == Init /\ [][Next]_vars

-----------------------------------------------------------------------------
(* The operator's last word is a halt, it was answered, and no command is  *)
(* still on its way to a process.                                          *)
ToldHalted == /\ chat # <<>> /\ Last(chat) = "halt" /\ Len(chat) \in answered
              /\ confirmed = Len(chat) /\ \A p \in Processes : fetched[p] = <<>>

(***************************************************************************)
(* "/halt - stop everything, and it stays stopped across a restart"        *)
(* (README): once the operator's halt is answered no order is placed       *)
(* before another command.                                                 *)
(***************************************************************************)
HaltStopsEverything == [][orders' # orders => ~ToldHalted]_vars
=============================================================================
