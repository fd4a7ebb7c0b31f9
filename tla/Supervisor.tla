----------------------------- MODULE Supervisor -----------------------------
(***************************************************************************)
(* Self-healing of components (internal/supervisor/supervisor.go): one     *)
(* goroutine a component runs it, waits a geometric backoff after a        *)
(* failure and runs it again, up to a cap; SuperviseAll waits for them all *)
(* and collects the outcomes by name.                                      *)
(***************************************************************************)
EXTENDS Integers, FiniteSets

CONSTANTS
    Components,
    MaxRestarts,    \* Policy.MaxRestarts
    BaseBackoff, Factor, MaxBackoff

VARIABLES
    at,             \* component -> where its Supervise call is
    restarts,       \* Outcome.Restarts
    backoffs,       \* component -> the backoff it waits, or waited last
    lastErr,        \* component -> Outcome.LastErr is set
    cancelled,      \* ctx is done
    results,        \* names whose outcome SuperviseAll has
    returned        \* SuperviseAll returned

vars == <<at, restarts, backoffs, lastErr, cancelled, results, returned>>

Ended == {"recovered", "gaveUp", "stopped"}

(* Policy.backoffFor: geometric, clamped; 0 for the first run. *)
BackoffFor(n) ==
    LET grown[i \in Nat] == IF i <= 1 THEN BaseBackoff
                            ELSE IF grown[i - 1] >= MaxBackoff THEN MaxBackoff
                            ELSE grown[i - 1] * Factor
    IN  IF n <= 0 THEN 0 ELSE IF grown[n] > MaxBackoff THEN MaxBackoff ELSE grown[n]

Init == /\ at = [c \in Components |-> "running"]
        /\ restarts = [c \in Components |-> 0]
        /\ backoffs = [c \in Components |-> 0]
        /\ lastErr = [c \in Components |-> FALSE]
        /\ cancelled = FALSE /\ results = {} /\ returned = FALSE

(* Component.Run returns: nil for a clean stop, an error for a failure. *)
RunReturns(c, failed) ==
    /\ at[c] = "running"
    /\ at' = [at EXCEPT ![c] = IF failed THEN "failed" ELSE "recovered"]
    /\ lastErr' = [lastErr EXCEPT ![c] = @ \/ failed]
    /\ UNCHANGED <<restarts, backoffs, cancelled, results, returned>>

Exhausted(c) == restarts[c] >= MaxRestarts

(* After a failure: the context first, then the cap, then the backoff. *)
Decide(c) ==
    /\ at[c] = "failed"
    /\ \/ /\ cancelled
          /\ at' = [at EXCEPT ![c] = "stopped"]
          /\ UNCHANGED backoffs
       \/ /\ ~cancelled /\ Exhausted(c)
          /\ at' = [at EXCEPT ![c] = "gaveUp"]
          /\ UNCHANGED backoffs
       \/ /\ ~cancelled /\ ~Exhausted(c)
          /\ at' = [at EXCEPT ![c] = "waiting"]
          /\ backoffs' = [backoffs EXCEPT ![c] = BackoffFor(restarts[c] + 1)]
    /\ UNCHANGED <<restarts, lastErr, cancelled, results, returned>>

BugCount(c) == restarts                         \* mutant: restarts are not counted
Count(c) == [restarts EXCEPT ![c] = @ + 1]

(* The timer fires, or the context is done; select takes either. *)
Awake(c) ==
    /\ at[c] = "waiting"
    /\ \/ /\ at' = [at EXCEPT ![c] = "running"]
          /\ restarts' = Count(c)
       \/ /\ cancelled
          /\ at' = [at EXCEPT ![c] = "stopped"]
          /\ UNCHANGED restarts
    /\ UNCHANGED <<backoffs, lastErr, cancelled, results, returned>>

(* The goroutine of SuperviseAll stores the outcome; wg.Wait follows. *)
Store(c) ==
    /\ at[c] \in Ended /\ c \notin results
    /\ results' = results \cup {c}
    /\ UNCHANGED <<at, restarts, backoffs, lastErr, cancelled, returned>>

Return == /\ results = Components /\ ~returned
          /\ returned' = TRUE
          /\ UNCHANGED <<at, restarts, backoffs, lastErr, cancelled, results>>

Cancel == /\ ~cancelled
          /\ cancelled' = TRUE
          /\ UNCHANGED <<at, restarts, backoffs, lastErr, results, returned>>

Supervises(c) == Decide(c) \/ Awake(c) \/ Store(c)
Next == \/ \E c \in Components : \/ Supervises(c)
                                 \/ \E failed \in BOOLEAN : RunReturns(c, failed)
        \/ Return
        \/ Cancel

(* The scheduler runs the goroutines and timers fire; a component returns  *)
(* promptly once the context is done, as Component.Run demands.            *)
Honours(c) == cancelled /\ \E failed \in BOOLEAN : RunReturns(c, failed)
Fairness == /\ \A c \in Components : WF_vars(Supervises(c)) /\ WF_vars(Honours(c))
            /\ WF_vars(Return)
Spec == Init /\ [][Next]_vars /\ Fairness

-----------------------------------------------------------------------------
(***************************************************************************)
(* No restart storm and no abandoned call: a component that keeps failing  *)
(* is given up after MaxRestarts restarts, every failed one runs again or  *)
(* is ended, and once the context is done SuperviseAll returns.            *)
(***************************************************************************)
SupervisionSettles ==
    /\ \A c \in Components : /\ [](restarts[c] <= MaxRestarts)
                             /\ <>[](at[c] \in Ended \cup {"running"})
    /\ cancelled ~> returned
=============================================================================
