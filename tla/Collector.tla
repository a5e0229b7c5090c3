----------------------------- MODULE Collector -----------------------------
(***************************************************************************)
(* The block collector (internal/probe, Collect).  One goroutine watches   *)
(* each endpoint and sends what it hears over a bounded channel; Collect   *)
(* takes events from the channel and ticks from a timer, in whichever      *)
(* order select finds them, and turns them into one batch per block.       *)
(* A tick of the clock is the second of that timer.                        *)
(***************************************************************************)
EXTENDS ProbeBlocks, Integers, Sequences, SequencesExt, FiniteSetsExt, Functions

CONSTANTS
    Endpoints,  \* configured endpoints, one watcher each
    Window,     \* blockWindow, in ticks
    Capacity,   \* room in the channel of events
    MaxClock,   \* bound on the clock
    MaxEvents   \* bound on the events of all watchers together

ASSUME TimesAssumption == Window \in Nat \ {0} /\ MaxClock \in Nat
ASSUME CapacityAssumption == Capacity \in Nat \ {0}
ASSUME MaxEventsAssumption == MaxEvents \in Nat

\* What a watcher sends: a job for a block, or a protocol timing or state of its
\* session.
Events ==
    [endpoint : Endpoints, block : Blocks, at : 0 .. MaxClock, valid : BOOLEAN]
        \union [endpoint : Endpoints, block : {None}]

ASSUME EventsAssumption == None \notin Nat \union Events

VARIABLES
    clock,
    cancelled,  \* the context is done
    watcher,    \* whether each watcher still runs
    sent,       \* events the watchers have made so far
    sending,    \* the event a watcher waits to put into the channel
    events,     \* the channel
    blocks,     \* the active blocks
    completed,  \* completedBlocks
    collect,    \* whether Collect runs, or why it returned
    emitted,    \* history: the batches emit has taken
    firstValid  \* history: when each endpoint first sent a valid job for a block

watcherVars == <<watcher, sent, sending, firstValid>>
collectVars == <<blocks, completed, collect, emitted>>
vars == <<clock, cancelled, watcherVars, events, collectVars>>

Init ==
    /\ clock = 0
    /\ cancelled = FALSE
    /\ watcher = [e \in Endpoints |-> "watching"]
    /\ sent = 0
    /\ sending = [e \in Endpoints |-> None]
    /\ events = <<>>
    /\ blocks = [b \in {} |-> None]
    /\ completed = {}
    /\ collect = "running"
    /\ emitted = {}
    /\ firstValid = [e \in Endpoints |-> [b \in Blocks |-> None]]
-----------------------------------------------------------------------------
(* The watchers.                                                           *)

\* A watcher has something to send and waits for room.
Offer(e, event) ==
    /\ watcher[e] = "watching"
    /\ sending[e] = None
    /\ sent < MaxEvents
    /\ sending' = [sending EXCEPT ![e] = event]
    /\ sent' = sent + 1

\* A job that passed the notify window is timestamped and verified.
Job(e, b, valid) ==
    /\ clock + Window < MaxClock
    /\ Offer(e, [endpoint |-> e, block |-> b, at |-> clock, valid |-> valid])
    /\ firstValid' = IF valid /\ firstValid[e][b] = None
                     THEN [firstValid EXCEPT ![e][b] = clock] ELSE firstValid
    /\ UNCHANGED <<clock, cancelled, watcher, events, collectVars>>

\* A protocol timing, or that the session is up or down.
Report(e) ==
    /\ Offer(e, [endpoint |-> e, block |-> None])
    /\ UNCHANGED <<clock, cancelled, watcher, events, collectVars, firstValid>>

\* Mutant of Deliver: an event that finds the channel full is dropped.
DeliverOrDrop(e) ==
    /\ sending[e] # None
    /\ events' = IF Len(events) < Capacity THEN Append(events, sending[e]) ELSE events
    /\ sending' = [sending EXCEPT ![e] = None]
    /\ UNCHANGED <<clock, cancelled, watcher, sent, firstValid, collectVars>>

\* Mutant of Deliver: the queue of events has no bound.
DeliverUnbounded(e) ==
    /\ sending[e] # None
    /\ events' = Append(events, sending[e])
    /\ sending' = [sending EXCEPT ![e] = None]
    /\ UNCHANGED <<clock, cancelled, watcher, sent, firstValid, collectVars>>

\* The channel takes the event.
Deliver(e) ==
    /\ sending[e] # None
    /\ Len(events) < Capacity
    /\ events' = Append(events, sending[e])
    /\ sending' = [sending EXCEPT ![e] = None]
    /\ UNCHANGED <<clock, cancelled, watcher, sent, firstValid, collectVars>>

\* watch() returns: its pool has rejected it for good, or the context is done,
\* which also ends a send that waits.
Leave(e) ==
    /\ watcher[e] = "watching"
    /\ sending[e] = None \/ cancelled
    /\ watcher' = [watcher EXCEPT ![e] = "gone"]
    /\ sending' = [sending EXCEPT ![e] = None]
    /\ UNCHANGED <<clock, cancelled, sent, firstValid, events, collectVars>>
-----------------------------------------------------------------------------
(* The collecting goroutine.                                               *)

NewBlock(event) == [started |-> event.at, arrivals |-> [e \in {} |-> 0], invalid |-> {}]

\* Mutant of ActiveBlock: a completed block is opened again.
ReopenedBlock(event) ==
    IF event.block = None THEN {}
    ELSE {IF event.block \in DOMAIN blocks THEN blocks[event.block] ELSE NewBlock(event)}

\* activeBlockForEvent: no block when the window of this one is over.
ActiveBlock(event) ==
    IF event.block \in completed \union {None} THEN {}
    ELSE {IF event.block \in DOMAIN blocks THEN blocks[event.block] ELSE NewBlock(event)}

\* A map with one entry set.
Put(map, key, value) ==
    [k \in DOMAIN map \union {key} |-> IF k = key THEN value ELSE map[k]]

\* recordBlockEvent: the earliest valid job of an endpoint is its arrival.
Recorded(block, event) ==
    LET arrivals == block.arrivals
        e == event.endpoint
    IN
    IF ~event.valid THEN [block EXCEPT !.invalid = @ \union {e}]
    ELSE IF e \notin DOMAIN arrivals \/ event.at < arrivals[e]
    THEN [block EXCEPT !.arrivals = Put(@, e, event.at)]
    ELSE block

\* One event is taken from the channel.
Receive ==
    LET event == Head(events) IN
    /\ collect = "running"
    /\ events # <<>>
    /\ events' = Tail(events)
    /\ \/ ActiveBlock(event) = {} /\ UNCHANGED blocks
       \/ \E block \in ActiveBlock(event) :
             blocks' = Put(blocks, event.block, Recorded(block, event))
    /\ UNCHANGED <<clock, cancelled, watcherVars, completed, collect, emitted>>

Due == {b \in DOMAIN blocks : clock - blocks[b].started >= Window}
Measured(b) == Cardinality(DOMAIN blocks[b].arrivals) >= 2

\* Mutant of Offsets: offsets are taken from when the window was opened.
OffsetsFromStart(block) ==
    [e \in DOMAIN block.arrivals |-> block.arrivals[e] - block.started]

\* Offsets are relative to the earliest arrival.
Offsets(block) ==
    LET first == Min(Range(block.arrivals)) IN
    [e \in DOMAIN block.arrivals |-> block.arrivals[e] - first]

\* The records of a block: every configured endpoint is in it, arrived or not.
Batch(b) ==
    [block |-> b, started |-> blocks[b].started, offsets |-> Offsets(blocks[b]),
     invalid |-> blocks[b].invalid]

\* Mutant of Sweep: a block that was not measured is skipped.
SweepMeasured ==
    LET finished == {b \in Due : Measured(b)} IN
    /\ collect = "running"
    /\ finished # {}
    /\ emitted' = emitted \union {Batch(b) : b \in finished}
    /\ completed' = completed \union finished
    /\ blocks' = Restrict(blocks, DOMAIN blocks \ finished)
    /\ UNCHANGED <<clock, cancelled, watcherVars, events, collect>>

\* The ticker: blocks whose window is over are finished; with fewer than two
\* arrivals they are dropped.
Sweep ==
    /\ collect = "running"
    /\ Due # {}
    /\ emitted' = emitted \union {Batch(b) : b \in {c \in Due : Measured(c)}}
    /\ completed' = completed \union Due
    /\ blocks' = Restrict(blocks, DOMAIN blocks \ Due)
    /\ UNCHANGED <<clock, cancelled, watcherVars, events, collect>>

\* emit fails for a protocol record, or for a block after others of the same tick.
EmitFails ==
    /\ collect = "running"
    /\ collect' = "failed"
    /\ \/ /\ events # <<>> /\ Head(events).block = None
          /\ events' = Tail(events)
          /\ UNCHANGED <<blocks, completed, emitted>>
       \/ /\ \E finished \in SUBSET Due :
                /\ \E b \in Due \ finished : Measured(b)
                /\ emitted' = emitted \union {Batch(b) : b \in {c \in finished : Measured(c)}}
                /\ completed' = completed \union finished
                /\ blocks' = Restrict(blocks, DOMAIN blocks \ finished)
          /\ UNCHANGED events
    /\ UNCHANGED <<clock, cancelled, watcherVars>>

\* Collect returns: the context is done, or every watcher has left and the closed
\* channel is empty.  The blocks whose window is open are dropped.
Return ==
    /\ collect = "running"
    /\ \/ cancelled /\ collect' = "cancelled"
       \/ /\ \A e \in Endpoints : watcher[e] = "gone"
          /\ events = <<>>
          /\ collect' = "closed"
    /\ UNCHANGED <<clock, cancelled, watcherVars, events, blocks, completed, emitted>>

Cancel ==
    /\ ~cancelled
    /\ cancelled' = TRUE
    /\ UNCHANGED <<clock, watcherVars, events, collectVars>>

Tick ==
    /\ clock < MaxClock
    /\ clock' = clock + 1
    /\ UNCHANGED <<cancelled, watcherVars, events, collectVars>>

Next ==
    \/ \E e \in Endpoints :
        \/ \E b \in Blocks, valid \in BOOLEAN : Job(e, b, valid)
        \/ Report(e) \/ Deliver(e) \/ Leave(e)
    \/ Receive \/ Sweep \/ EmitFails \/ Return
    \/ Cancel
    \/ Tick

\* Time passes, and select does not ignore a tick, an event or a cancellation for ever.
Fairness ==
    /\ WF_vars(Tick)
    /\ WF_vars(Receive)
    /\ WF_vars(Sweep)
    /\ WF_vars(Return)
    /\ \A e \in Endpoints : WF_vars(Deliver(e))

Spec == Init /\ [][Next]_vars
FairSpec == Spec /\ Fairness
-----------------------------------------------------------------------------
\* Types; an event in the channel is of a configured endpoint.
TypeOK ==
    /\ clock \in 0 .. MaxClock
    /\ cancelled \in BOOLEAN
    /\ watcher \in [Endpoints -> {"watching", "gone"}]
    /\ sent \in 0 .. MaxEvents
    /\ \A e \in Endpoints : sending[e] = None \/ sending[e] \in Events
    /\ Len(events) <= Capacity /\ ToSet(events) \subseteq Events
    /\ DOMAIN blocks \subseteq Blocks
    /\ completed \subseteq Blocks
    /\ collect \in {"running", "cancelled", "closed", "failed"}
    /\ \A batch \in emitted : DOMAIN batch.offsets \subseteq Endpoints

\* A block is measured and reported once: a job that comes after its window, from
\* a slow pool or through a full channel, never opens it again.
OneBatchPerBlock ==
    /\ DOMAIN blocks \cap completed = {}
    /\ \A first, second \in emitted : first.block = second.block => first = second

\* The offsets of a batch compare like with like: each is from the first valid
\* job of its endpoint, the fastest endpoint has offset zero, and the others lie
\* behind it by as much as their jobs did, in whatever order the watchers got
\* theirs through the channel.  (Instants are whole here; the code cuts an offset
\* to whole microseconds, so that it is exact to the microsecond.)
OffsetsAreFair ==
    \A batch \in emitted :
        LET came(e) == firstValid[e][batch.block] IN
        /\ Cardinality(DOMAIN batch.offsets) >= 2
        /\ \E e \in DOMAIN batch.offsets : batch.offsets[e] = 0
        /\ \A e, f \in DOMAIN batch.offsets :
              /\ batch.offsets[e] >= 0
              /\ batch.offsets[e] - batch.offsets[f] = came(e) - came(f)

\* The event of an endpoint's first valid job for a block is still on its way.
OnItsWay(e, b) ==
    \E event \in ToSet(events) \union {sending[e]} :
        /\ event # None
        /\ event.endpoint = e /\ event.block = b
        /\ event.block # None /\ event.at = firstValid[e][b] /\ event.valid

\* A valid job that came while the window of its block was not over yet is
\* counted or still waiting: congestion delays it, nothing but a cancelled
\* context loses it.
NoJobIsLost ==
    collect = "running" /\ ~cancelled =>
        \A e \in Endpoints, b \in Blocks \ completed :
            firstValid[e][b] # None =>
                \/ OnItsWay(e, b)
                \/ b \in DOMAIN blocks /\ e \in DOMAIN blocks[b].arrivals

\* A window that was opened is closed, unless collecting ends first.
WindowsClose ==
    \A b \in Blocks : b \in DOMAIN blocks ~> (b \in completed \/ collect # "running")
=============================================================================
