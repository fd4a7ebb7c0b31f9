----------------------------- MODULE EventKernel -----------------------------
(***************************************************************************)
(* The deterministic kernel: a FIFO bus drained by one goroutine           *)
(* (internal/kernel/bus.go), a logical clock that events move forward      *)
(* (kernel.go), the latest-quote cache (cache.go) and the ingestor that    *)
(* writes the cache before it submits (internal/data/events.go).           *)
(*                                                                         *)
(* A handler may publish, call Submit from inside a dispatch, or subscribe *)
(* a new handler; a frame of "frames" is one running call of drain.        *)
(***************************************************************************)
EXTENDS Integers, SequencesExt

CONSTANTS
    Topics,
    Handlers,       \* handlers that may be subscribed
    MaxEvents,      \* bound: events published
    MaxTime         \* bound: event timestamps

VARIABLES
    queue,          \* Bus.queue: events not yet dispatched
    subscribers,    \* topic -> handlers in registration order
    frames,         \* running drains, the innermost last
    dispatching,    \* the re-entrancy guard
    now,            \* Kernel.now
    cache,          \* topic -> id of its latest quote, 0 for none
    published,      \* number of events published: their ids are 1, 2, ...
    due,            \* id -> the handlers registered when it was dispatched
    log,            \* the calls made, and the cached quote each read
    crashed         \* a backward timestamp panicked

vars == <<queue, subscribers, frames, dispatching, now, cache, published, due,
          log, crashed>>

Event(id, topic, ts, quote) == [id |-> id, topic |-> topic, ts |-> ts, quote |-> quote]

Idle == frames = <<>>
Frame == Last(frames)                           \* the drain that runs now
InHandler == ~Idle /\ Frame.calling             \* its current handler has not returned
Inner(f) == [frames EXCEPT ![Len(frames)] = f]

BugMayDrain == TRUE                             \* mutant: no re-entrancy guard
MayDrain == ~dispatching

NoEvent == Event(0, "none", 0, FALSE)
NewFrame == [event |-> NoEvent, todo |-> <<>>, calling |-> FALSE]

(* Publish: append to the queue, no handler runs. *)
Publish(topic, ts, quote) ==
    /\ published < MaxEvents
    /\ published' = published + 1
    /\ queue' = Append(queue, Event(published', topic, ts, quote))

(* drain: the outermost call starts to pop, a nested one returns at once. *)
EnterDrain == IF MayDrain
              THEN frames' = Append(frames, NewFrame) /\ dispatching' = TRUE
              ELSE UNCHANGED <<frames, dispatching>>

Put(topic) == [cache EXCEPT ![topic] = published + 1]

Init == /\ queue = <<>> /\ frames = <<>> /\ log = <<>> /\ due = <<>>
        /\ subscribers \in [Topics -> {<<h>> : h \in Handlers}]
        /\ dispatching = FALSE /\ crashed = FALSE
        /\ now = 0 /\ published = 0
        /\ cache = [t \in Topics |-> 0]

(* Ingestor.submit, one frame of the source: only quotes are cached.  The  *)
(* venue's timestamps may run backward.                                    *)
Ingest(topic, quote, ts) ==
    /\ Idle
    /\ cache' = IF quote THEN Put(topic) ELSE cache
    /\ Publish(topic, ts, quote)
    /\ EnterDrain
    /\ UNCHANGED <<subscribers, now, due, log, crashed>>

(* drain pops the head and advanceTo moves the clock, or panics. *)
Pop == /\ ~Idle /\ ~Frame.calling /\ Frame.todo = <<>> /\ queue # <<>>
       /\ LET e == Head(queue) IN
          /\ queue' = Tail(queue)
          /\ IF e.ts < now
             THEN /\ crashed' = TRUE /\ frames' = <<>> /\ dispatching' = FALSE
                  /\ UNCHANGED <<now, due>>
             ELSE /\ now' = e.ts
                  /\ frames' = Inner([event |-> e, todo |-> subscribers[e.topic],
                                      calling |-> FALSE])
                  /\ due' = Append(due, subscribers[e.topic])
                  /\ UNCHANGED <<dispatching, crashed>>
       /\ UNCHANGED <<subscribers, cache, published, log>>

CallHandler ==
    /\ ~Idle /\ ~Frame.calling /\ Frame.todo # <<>>
    /\ log' = Append(log, [id |-> Frame.event.id, handler |-> Head(Frame.todo),
                           quote |-> Frame.event.quote, seen |-> cache[Frame.event.topic]])
    /\ frames' = Inner([Frame EXCEPT !.todo = Tail(@), !.calling = TRUE])
    /\ UNCHANGED <<queue, subscribers, dispatching, now, cache, published, due, crashed>>

(* What a handler may do before it returns: a cascade has its event's time. *)
HandlerPublishes(topic) ==
    /\ InHandler
    /\ Publish(topic, now, FALSE)
    /\ UNCHANGED <<subscribers, frames, dispatching, now, cache, due, log, crashed>>

HandlerSubmits(topic) ==
    /\ InHandler
    /\ Publish(topic, now, FALSE)
    /\ EnterDrain
    /\ UNCHANGED <<subscribers, now, cache, due, log, crashed>>

HandlerSubscribes(topic, h) ==
    /\ InHandler
    /\ h \notin ToSet(subscribers[topic])
    /\ subscribers' = [subscribers EXCEPT ![topic] = Append(@, h)]
    /\ UNCHANGED <<queue, frames, dispatching, now, cache, published, due, log, crashed>>

HandlerReturns ==
    /\ InHandler
    /\ frames' = Inner([Frame EXCEPT !.calling = FALSE])
    /\ UNCHANGED <<queue, subscribers, dispatching, now, cache, published, due, log, crashed>>

(* The queue is empty: drain returns to Submit, and a nested one to its handler. *)
DrainReturns ==
    /\ ~Idle /\ ~Frame.calling /\ Frame.todo = <<>> /\ queue = <<>>
    /\ frames' = Front(frames)
    /\ dispatching' = FALSE
    /\ UNCHANGED <<queue, subscribers, now, cache, published, due, log, crashed>>

Next == /\ ~crashed
        /\ \/ \E t \in Topics, q \in BOOLEAN, ts \in 1..MaxTime : Ingest(t, q, ts)
           \/ Pop
           \/ CallHandler
           \/ \E t \in Topics : HandlerPublishes(t) \/ HandlerSubmits(t)
           \/ \E t \in Topics, h \in Handlers : HandlerSubscribes(t, h)
           \/ HandlerReturns
           \/ DrainReturns

Spec == Init /\ [][Next]_vars

-----------------------------------------------------------------------------
(* The calls of event id that replay would make, in order. *)
CallsDue(id) == [i \in DOMAIN due[id] |-> <<id, due[id][i]>>]
AllDue == FlattenSeq([id \in DOMAIN due |-> CallsDue(id)])
CallsMade == [i \in DOMAIN log |-> <<log[i].id, log[i].handler>>]

(***************************************************************************)
(* Events are handled in the order they were published, each by every      *)
(* handler registered at its dispatch, in registration order and once,     *)
(* even when a handler publishes, subscribes or calls Submit itself; and a *)
(* handler of a quote reads that very quote from the cache.                *)
(***************************************************************************)
HandledInOrder ==
    /\ IsPrefix(CallsMade, AllDue)
    /\ \A i \in DOMAIN log : log[i].quote => log[i].seen = log[i].id
    /\ Idle /\ ~crashed => CallsMade = AllDue /\ Len(due) = published
=============================================================================
