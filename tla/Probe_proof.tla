----------------------------- MODULE Probe_proof ----------------------------
(***************************************************************************)
(* Proofs about a probe: Collector and PoolSession, for any endpoints,     *)
(* blocks, windows, capacities, jobs and bounds.                           *)
(*                                                                         *)
(* Collector: each property rests on what becomes of the first valid job   *)
(* of an endpoint for a block: until the block is completed it waits,      *)
(* ahead of every later job of its endpoint, or is the arrival.            *)
(*                                                                         *)
(* PoolSession: the stage of a watcher says which records there are, and   *)
(* the window is open exactly if the session has seen the pool move; what  *)
(* the evidence of a block is worth is proved in Coinbase_proof.           *)
(***************************************************************************)
EXTENDS Collector, PoolSession, Coinbase_proof, SequenceTheorems, FiniteSetTheorems, TLAPS
-----------------------------------------------------------------------------
(* Collector *)

Active == [started : 0 .. MaxClock,
           arrivals : UNION {[D -> 0 .. MaxClock] : D \in SUBSET Endpoints},
           invalid : SUBSET Endpoints]

\* Types of what watchers and channel hold, and of the blocks.
WatchersTyped ==
    /\ clock \in 0 .. MaxClock
    /\ cancelled \in BOOLEAN
    /\ watcher \in [Endpoints -> {"watching", "gone"}]
    /\ sent \in 0 .. MaxEvents
    /\ sending \in [Endpoints -> Events \union {None}]
    /\ events \in Seq(Events) /\ Len(events) <= Capacity
    /\ firstValid \in [Endpoints -> [Blocks -> 0 .. MaxClock \union {None}]]
    /\ \A e \in Endpoints : sending[e] # None => sending[e].endpoint = e
    /\ \A e \in Endpoints, b \in Blocks : firstValid[e][b] # None => firstValid[e][b] <= clock

BlocksTyped ==
    /\ blocks \in [DOMAIN blocks -> Active] /\ DOMAIN blocks \subseteq Blocks
    /\ completed \subseteq Blocks
    /\ collect \in {"running", "cancelled", "closed", "failed"}

\* A valid job of an endpoint for a block; its arrival is recorded; its first one
\* is in the channel before a place.
ValidJob(event, e, b) == event.endpoint = e /\ event.block = b /\ event.valid
Counted(e, b) == b \in DOMAIN blocks /\ e \in DOMAIN blocks[b].arrivals
Ahead(e, b, n) ==
    \E j \in 1 .. Len(events) :
        j < n /\ ValidJob(events[j], e, b) /\ events[j].at = firstValid[e][b]

\* A job that waits is the first of its endpoint for its block or has it ahead.
InTurn(event, e, b, n) ==
    /\ firstValid[e][b] # None
    /\ event.at >= firstValid[e][b]
    /\ \/ event.at = firstValid[e][b]
       \/ b \in completed
       \/ Counted(e, b)
       \/ Ahead(e, b, n)

InOrder ==
    \A e \in Endpoints, b \in Blocks :
        /\ \A i \in 1 .. Len(events) : ValidJob(events[i], e, b) => InTurn(events[i], e, b, i)
        /\ sending[e] # None /\ ValidJob(sending[e], e, b)
               => InTurn(sending[e], e, b, Len(events) + 1)

\* An arrival is the first valid job.
ArrivalsAreFirst ==
    \A b \in DOMAIN blocks : \A e \in DOMAIN blocks[b].arrivals :
        blocks[b].arrivals[e] = firstValid[e][b]

\* The first valid job is in the channel, or its watcher waits to put it there.
Waiting(e, b) ==
    \/ Ahead(e, b, Len(events) + 1)
    \/ sending[e] # None /\ ValidJob(sending[e], e, b) /\ sending[e].at = firstValid[e][b]

\* Until its block is completed it waits or is counted, unless its watcher was
\* made to leave with it.
Kept ==
    \A e \in Endpoints, b \in Blocks :
        /\ watcher[e] = "watching" \/ ~cancelled
        /\ firstValid[e][b] # None
        /\ b \notin completed
        => Waiting(e, b) \/ Counted(e, b)

FairBatch(batch) ==
    /\ batch.block \in Blocks
    /\ DOMAIN batch.offsets \subseteq Endpoints
    /\ Cardinality(DOMAIN batch.offsets) >= 2
    /\ \E e \in DOMAIN batch.offsets : batch.offsets[e] = 0
    /\ \A e \in DOMAIN batch.offsets :
          batch.offsets[e] \in Nat /\ firstValid[e][batch.block] # None
    /\ \A e, f \in DOMAIN batch.offsets :
          batch.offsets[e] - batch.offsets[f]
            = firstValid[e][batch.block] - firstValid[f][batch.block]

BatchesAreFair == \A batch \in emitted : FairBatch(batch)

EmittedAreCompleted ==
    /\ OneBatchPerBlock
    /\ \A batch \in emitted : batch.block \in completed

Inv == /\ WatchersTyped /\ BlocksTyped
       /\ InOrder /\ ArrivalsAreFirst /\ Kept
       /\ EmittedAreCompleted /\ BatchesAreFair
-----------------------------------------------------------------------------
\* What the channel holds after an event was put in or taken out.
LEMMA AppendEvent ==
    ASSUME NEW q \in Seq(Events), NEW x \in Events
    PROVE  /\ Append(q, x) \in Seq(Events)
           /\ Len(Append(q, x)) = Len(q) + 1
           /\ \A i \in 1 .. Len(q) : Append(q, x)[i] = q[i]
           /\ Append(q, x)[Len(q) + 1] = x
    OBVIOUS

LEMMA TailEvents ==
    ASSUME NEW q \in Seq(Events), q # <<>>
    PROVE  /\ Head(q) \in Events /\ Head(q) = q[1]
           /\ Tail(q) \in Seq(Events)
           /\ Len(q) >= 1 /\ Len(Tail(q)) = Len(q) - 1
           /\ \A i \in 1 .. Len(q) - 1 : Tail(q)[i] = q[i + 1]
    OBVIOUS

\* An event for a block is a job.
LEMMA JobEvent ==
    ASSUME NEW event \in Events, event.block # None
    PROVE  event \in [endpoint : Endpoints, block : Blocks, at : 0 .. MaxClock, valid : BOOLEAN]
    BY DEF Events

\* What recordBlockEvent makes of a block.
LEMMA RecordedBlock ==
    ASSUME NEW block \in Active, NEW event \in Events, event.block # None
    PROVE  /\ Recorded(block, event) \in Active
           /\ ~event.valid => Recorded(block, event).arrivals = block.arrivals
           /\ event.valid =>
                 /\ DOMAIN Recorded(block, event).arrivals
                      = DOMAIN block.arrivals \union {event.endpoint}
                 /\ \A e \in DOMAIN block.arrivals : e # event.endpoint =>
                      Recorded(block, event).arrivals[e] = block.arrivals[e]
                 /\ event.endpoint \notin DOMAIN block.arrivals \/ event.at < block.arrivals[event.endpoint]
                      => Recorded(block, event).arrivals[event.endpoint] = event.at
                 /\ event.endpoint \in DOMAIN block.arrivals /\ event.at >= block.arrivals[event.endpoint]
                      => Recorded(block, event).arrivals = block.arrivals
<1> DEFINE e == event.endpoint
           put == Put(block.arrivals, e, event.at)
<1>1. event \in [endpoint : Endpoints, block : Blocks, at : 0 .. MaxClock, valid : BOOLEAN]
    BY JobEvent
<1>2. PICK D \in SUBSET Endpoints : block.arrivals \in [D -> 0 .. MaxClock]
    BY DEF Active
<1>3. put \in [D \union {e} -> 0 .. MaxClock] /\ DOMAIN put = D \union {e}
      /\ put[e] = event.at /\ \A x \in D : x # e => put[x] = block.arrivals[x]
    BY <1>1, <1>2 DEF Put
<1>4. CASE ~event.valid
  <2>1. Recorded(block, event) = [block EXCEPT !.invalid = @ \union {e}]
    BY <1>4 DEF Recorded
  <2> QED
    BY <1>1, <1>4, <2>1 DEF Active
<1>5. CASE event.valid /\ (e \notin DOMAIN block.arrivals \/ event.at < block.arrivals[e])
  <2>1. Recorded(block, event) = [block EXCEPT !.arrivals = put]
    BY <1>5 DEF Recorded
  <2>2. put \in UNION {[E -> 0 .. MaxClock] : E \in SUBSET Endpoints}
    BY <1>1, <1>3
  <2>3. Recorded(block, event) \in Active /\ Recorded(block, event).arrivals = put
    BY <2>1, <2>2 DEF Active
  <2>4. e \in D => event.at \in Nat /\ block.arrivals[e] \in Nat /\ ~(event.at >= block.arrivals[e])
    BY <1>1, <1>2, <1>5, TimesAssumption
  <2> QED
    BY <1>2, <1>3, <1>5, <2>3, <2>4
<1>6. CASE event.valid /\ e \in DOMAIN block.arrivals /\ ~(event.at < block.arrivals[e])
  <2>1. Recorded(block, event) = block
    BY <1>6 DEF Recorded
  <2> QED
    BY <1>6, <2>1
<1> QED
    BY <1>4, <1>5, <1>6
-----------------------------------------------------------------------------
(* Types.                                                                  *)

LEMMA InitTyped == Init => WatchersTyped /\ BlocksTyped
<1> SUFFICES ASSUME Init PROVE WatchersTyped /\ BlocksTyped
    OBVIOUS
<1> USE TimesAssumption, CapacityAssumption, MaxEventsAssumption DEF Init
<1>1. events \in Seq(Events) /\ Len(events) = 0
    OBVIOUS
<1>2. WatchersTyped
  <2>1. sending \in [Endpoints -> Events \union {None}] /\ \A e \in Endpoints : sending[e] = None
      OBVIOUS
  <2>2. firstValid \in [Endpoints -> [Blocks -> 0 .. MaxClock \union {None}]]
        /\ \A e \in Endpoints, b \in Blocks : firstValid[e][b] = None
      OBVIOUS
  <2>3. Len(events) <= Capacity
      BY <1>1
  <2>4. cancelled \in BOOLEAN
      OBVIOUS
  <2>5. clock \in 0 .. MaxClock /\ sent \in 0 .. MaxEvents
      OBVIOUS
  <2>6. watcher \in [Endpoints -> {"watching", "gone"}]
      OBVIOUS
  <2> HIDE DEF Init
  <2> QED
      BY <1>1, <2>1, <2>2, <2>3, <2>4, <2>5, <2>6 DEF WatchersTyped
<1>3. blocks \in [{} -> Active] /\ DOMAIN blocks = {}
    OBVIOUS
<1>4. BlocksTyped
    BY <1>3 DEF BlocksTyped
<1> QED
    BY <1>2, <1>4

LEMMA WatchersStep ==
    ASSUME WatchersTyped, [Next]_vars
    PROVE  WatchersTyped'
<1> USE NoneAssumption, EventsAssumption, TimesAssumption, CapacityAssumption, MaxEventsAssumption DEF WatchersTyped
<1>1. ASSUME NEW e \in Endpoints, NEW b \in Blocks, NEW valid \in BOOLEAN, Job(e, b, valid)
      PROVE  WatchersTyped'
  <2> DEFINE event == [endpoint |-> e, block |-> b, at |-> clock, valid |-> valid]
  <2>1. event \in Events /\ event.endpoint = e
      BY DEF Events
  <2>2. firstValid' \in [Endpoints -> [Blocks -> 0 .. MaxClock \union {None}]]
      BY <1>1 DEF Job
  <2>3. \A f \in Endpoints, c \in Blocks :
          firstValid'[f][c] = firstValid[f][c] \/ firstValid'[f][c] = clock
      BY <1>1 DEF Job
  <2>4. sending' \in [Endpoints -> Events \union {None}]
        /\ \A f \in Endpoints : sending'[f] # None => sending'[f].endpoint = f
      BY <1>1, <2>1 DEF Job, Offer
  <2> QED
      BY <1>1, <2>2, <2>3, <2>4 DEF Job, Offer
<1>2. ASSUME NEW e \in Endpoints, Report(e)
      PROVE  WatchersTyped'
  <2> DEFINE event == [endpoint |-> e, block |-> None]
  <2>1. event \in Events /\ event.endpoint = e
      BY DEF Events
  <2> QED
      BY <1>2, <2>1 DEF Report, Offer
<1>3. ASSUME NEW e \in Endpoints, Deliver(e)
      PROVE  WatchersTyped'
  <2>1. events' \in Seq(Events) /\ Len(events') = Len(events) + 1
      BY <1>3, AppendEvent DEF Deliver
  <2> QED
      BY <1>3, <2>1 DEF Deliver
<1>4. ASSUME NEW e \in Endpoints, Leave(e)
      PROVE  WatchersTyped'
    BY <1>4 DEF Leave
<1>5. ASSUME events # <<>>, events' = Tail(events), UNCHANGED <<clock, cancelled, watcherVars>>
      PROVE  WatchersTyped'
  <2>1. events' \in Seq(Events) /\ Len(events') = Len(events) - 1
      BY <1>5, TailEvents
  <2> QED
      BY <1>5, <2>1 DEF watcherVars
<1>6. ASSUME UNCHANGED <<clock, watcherVars, events>>, cancelled' \in BOOLEAN
      PROVE  WatchersTyped'
    BY <1>6 DEF watcherVars
<1>7. CASE Tick
    BY <1>7 DEF Tick, watcherVars, collectVars
<1>8. CASE Receive
    BY <1>5, <1>8 DEF Receive
<1>9. CASE EmitFails
    BY <1>5, <1>6, <1>9 DEF EmitFails
<1>10. CASE Sweep \/ Return \/ Cancel \/ UNCHANGED vars
    BY <1>6, <1>10 DEF Sweep, Return, Cancel, vars
<1> QED
    BY <1>1, <1>2, <1>3, <1>4, <1>7, <1>8, <1>9, <1>10 DEF Next

\* What finishing a set of blocks does, in a sweep or before emit fails.
Finish(finished) ==
    /\ emitted' = emitted \union {Batch(b) : b \in {c \in finished : Measured(c)}}
    /\ completed' = completed \union finished
    /\ blocks' = Restrict(blocks, DOMAIN blocks \ finished)
    /\ UNCHANGED <<clock, cancelled, watcherVars, events>>

\* Each step either is one of a watcher or the environment, or returns, or drops
\* what is no job, or finishes blocks, or receives.
LEMMA CollectSteps ==
    ASSUME [Next]_vars
    PROVE  \/ Receive
           \/ \E finished \in SUBSET DOMAIN blocks :
                Finish(finished) /\ collect' \in {"running", "failed"} \union {collect}
           \/ /\ events # <<>> /\ Head(events).block = None /\ events' = Tail(events)
              /\ collect' = "failed"
              /\ UNCHANGED <<clock, cancelled, watcherVars, blocks, completed, emitted>>
           \/ /\ collect' \in {"cancelled", "closed"}
              /\ UNCHANGED <<clock, cancelled, watcherVars, events, blocks, completed, emitted>>
           \/ UNCHANGED collectVars
<1>1. CASE Sweep
  <2>1. Due \in SUBSET DOMAIN blocks
      BY DEF Due
  <2>2. Finish(Due) /\ collect' = collect
      BY <1>1 DEF Sweep, Finish
  <2> QED
      BY <2>1, <2>2
<1>2. CASE EmitFails
  <2>1. \A finished \in SUBSET Due : finished \in SUBSET DOMAIN blocks
      BY DEF Due
  <2> QED
      BY <1>2, <2>1 DEF EmitFails, Finish
<1>3. CASE Return
    BY <1>3 DEF Return
<1>4. ASSUME NEW e \in Endpoints
      PROVE  Report(e) \/ Deliver(e) \/ Leave(e) => UNCHANGED collectVars
    BY <1>4 DEF Report, Deliver, Leave
<1>5. ASSUME NEW e \in Endpoints, NEW b \in Blocks, NEW valid \in BOOLEAN, Job(e, b, valid)
      PROVE  UNCHANGED collectVars
    BY <1>5 DEF Job
<1>6. CASE Cancel \/ Tick \/ UNCHANGED vars
    BY <1>6 DEF Cancel, Tick, vars
<1> QED
    BY <1>1, <1>2, <1>3, <1>4, <1>5, <1>6 DEF Next

\* A received event is left out, or recorded in a block that is active then.
LEMMA ReceiveSteps ==
    ASSUME WatchersTyped, BlocksTyped, Receive
    PROVE  \/ Head(events).block \in completed \union {None} /\ UNCHANGED blocks
           \/ /\ Head(events).block \in Blocks \ completed
              /\ \E block \in Active :
                   /\ IF Head(events).block \in DOMAIN blocks
                      THEN block = blocks[Head(events).block]
                      ELSE DOMAIN block.arrivals = {}
                   /\ Recorded(block, Head(events)) \in Active
                   /\ blocks' = Put(blocks, Head(events).block, Recorded(block, Head(events)))
<1> DEFINE event == Head(events)
<1>1. event \in Events /\ events # <<>>
    BY TailEvents DEF WatchersTyped, Receive
<1>2. CASE event.block \in completed \union {None}
    BY <1>2 DEF Receive, ActiveBlock
<1>3. CASE event.block \notin completed \union {None}
  <2>1. event \in [endpoint : Endpoints, block : Blocks, at : 0 .. MaxClock, valid : BOOLEAN]
      BY <1>1, <1>3, JobEvent
  <2> DEFINE fresh == [e \in {} |-> 0]
  <2>2. fresh \in [{} -> 0 .. MaxClock] /\ DOMAIN fresh = {}
      OBVIOUS
  <2>3. fresh \in UNION {[D -> 0 .. MaxClock] : D \in SUBSET Endpoints}
      BY <2>2
  <2>4. NewBlock(event) \in Active /\ DOMAIN NewBlock(event).arrivals = {}
      BY <2>1, <2>2, <2>3 DEF NewBlock, Active
  <2>5. PICK block \in ActiveBlock(event) :
          blocks' = Put(blocks, event.block, Recorded(block, event))
      BY <1>3 DEF Receive, ActiveBlock
  <2>6. block \in Active
        /\ IF event.block \in DOMAIN blocks THEN block = blocks[event.block]
           ELSE DOMAIN block.arrivals = {}
      BY <1>3, <2>4, <2>5 DEF ActiveBlock, BlocksTyped
  <2>7. Recorded(block, event) \in Active
      BY <1>1, <1>3, <2>6, RecordedBlock
  <2> QED
      BY <1>3, <2>1, <2>5, <2>6, <2>7
<1> QED
    BY <1>2, <1>3

LEMMA BlocksStep ==
    ASSUME WatchersTyped, BlocksTyped, [Next]_vars
    PROVE  BlocksTyped'
<1> USE DEF BlocksTyped
<1>1. CASE Receive
    BY <1>1, ReceiveSteps DEF Receive, Put
<1>2. ASSUME NEW finished \in SUBSET DOMAIN blocks, Finish(finished),
             collect' \in {"running", "failed"} \union {collect}
      PROVE  BlocksTyped'
    BY <1>2 DEF Finish, Restrict
<1>3. ASSUME UNCHANGED <<blocks, completed>>, collect' \in {"cancelled", "closed", "failed", collect}
      PROVE  BlocksTyped'
    BY <1>3
<1> QED
    BY <1>1, <1>2, <1>3, CollectSteps DEF collectVars
-----------------------------------------------------------------------------
(* The way of a job through the channel.                                   *)

\* Nothing a step does undoes an arrival, other than completing its block.
Undone == \E e \in Endpoints, b \in Blocks :
    Counted(e, b) /\ ~Counted(e, b)' /\ b \notin completed'

LEMMA ArrivalsStay ==
    ASSUME WatchersTyped, BlocksTyped, [Next]_vars
    PROVE  ~Undone /\ completed \subseteq completed'
<1> USE DEF Undone, Counted
<1>1. CASE Receive
  <2>1. completed' = completed
      BY <1>1 DEF Receive
  <2>2. CASE Head(events).block \in completed \union {None} /\ UNCHANGED blocks
      BY <2>1, <2>2
  <2>3. ASSUME Head(events).block \in Blocks \ completed,
               NEW block \in Active,
               IF Head(events).block \in DOMAIN blocks THEN block = blocks[Head(events).block]
               ELSE DOMAIN block.arrivals = {},
               blocks' = Put(blocks, Head(events).block, Recorded(block, Head(events)))
        PROVE  ~Undone
    <3> DEFINE event == Head(events)
    <3>1. event \in Events /\ event.block # None
        BY <1>1, <2>3, TailEvents, NoneAssumption, EventsAssumption DEF WatchersTyped, Receive
    <3>2. DOMAIN block.arrivals \subseteq DOMAIN Recorded(block, event).arrivals
      <4>1. event \in [endpoint : Endpoints, block : Blocks, at : 0 .. MaxClock, valid : BOOLEAN]
          BY <3>1, JobEvent
      <4>2. event.at \in Nat /\ \A e \in DOMAIN block.arrivals : block.arrivals[e] \in Nat
          BY <4>1, TimesAssumption DEF Active
      <4>3. event.at < block.arrivals[event.endpoint] \/ event.at >= block.arrivals[event.endpoint]
            \/ event.endpoint \notin DOMAIN block.arrivals
          BY <4>2
      <4> QED
          BY <3>1, <4>1, <4>3, RecordedBlock
    <3>3. DOMAIN blocks' = DOMAIN blocks \union {event.block}
          /\ blocks'[event.block] = Recorded(block, event)
          /\ \A b \in DOMAIN blocks : b # event.block => blocks'[b] = blocks[b]
        BY <2>3 DEF Put
    <3> QED
        BY <2>3, <3>2, <3>3
  <2> QED
      BY <1>1, <2>1, <2>2, <2>3, ReceiveSteps
<1>2. ASSUME NEW finished \in SUBSET DOMAIN blocks, Finish(finished)
      PROVE  ~Undone /\ completed \subseteq completed'
    BY <1>2 DEF Finish, Restrict
<1>3. ASSUME UNCHANGED <<blocks, completed>>
      PROVE  ~Undone /\ completed \subseteq completed'
    BY <1>3
<1> QED
    BY <1>1, <1>2, <1>3, CollectSteps DEF collectVars
\* A valid job that is received is counted, and what is counted is the first one.
LEMMA ReceiveCounts ==
    ASSUME WatchersTyped, BlocksTyped, InOrder, ArrivalsAreFirst, Receive
    PROVE  /\ ArrivalsAreFirst'
           /\ \A e \in Endpoints, b \in Blocks :
                ValidJob(Head(events), e, b) => b \in completed' \/ Counted(e, b)'
<1> DEFINE event == Head(events)
           key == event.block
<1>1. completed' = completed /\ firstValid' = firstValid
    BY DEF Receive, watcherVars
<1>2. CASE key \in completed \union {None} /\ UNCHANGED blocks
  <2>1. \A b \in Blocks : b # None
      BY NoneAssumption, EventsAssumption
  <2>2. ArrivalsAreFirst'
      BY <1>1, <1>2 DEF ArrivalsAreFirst
  <2> QED
      BY <1>1, <1>2, <2>1, <2>2 DEF ValidJob
<1>3. ASSUME key \in Blocks \ completed,
             NEW block \in Active,
             IF key \in DOMAIN blocks THEN block = blocks[key] ELSE DOMAIN block.arrivals = {},
             blocks' = Put(blocks, key, Recorded(block, event))
      PROVE  /\ ArrivalsAreFirst'
             /\ \A e \in Endpoints, b \in Blocks : ValidJob(event, e, b) => Counted(e, b)'
  <2> DEFINE after == Recorded(block, event)
             e == event.endpoint
  <2>1. event \in Events /\ event = events[1] /\ 1 \in 1 .. Len(events) /\ key # None
      BY <1>3, TailEvents, NoneAssumption, EventsAssumption DEF WatchersTyped, Receive
  <2>2. event \in [endpoint : Endpoints, block : Blocks, at : 0 .. MaxClock, valid : BOOLEAN]
      BY <2>1, JobEvent
  <2>3. \A x \in DOMAIN block.arrivals :
          x \in Endpoints /\ block.arrivals[x] \in 0 .. MaxClock
          /\ block.arrivals[x] = firstValid[x][key] /\ Counted(x, key)
      BY <1>3 DEF ArrivalsAreFirst, Counted, Active
  <2>4. DOMAIN blocks' = DOMAIN blocks \union {key} /\ blocks'[key] = after
        /\ \A b \in DOMAIN blocks : b # key => blocks'[b] = blocks[b]
      BY <1>3 DEF Put
  <2>5. ASSUME event.valid
        PROVE  /\ e \in DOMAIN after.arrivals
               /\ \A x \in DOMAIN after.arrivals : after.arrivals[x] = firstValid[x][key]
    <3>1. InTurn(event, e, key, 1)
        BY <2>1, <2>2, <2>5 DEF InOrder, ValidJob
    <3>2. ~Ahead(e, key, 1)
        BY <2>1 DEF Ahead
    <3>3. CASE e \in DOMAIN block.arrivals
        BY <2>1, <2>2, <2>3, <2>5, <3>1, <3>3, RecordedBlock DEF InTurn
    <3>4. CASE e \notin DOMAIN block.arrivals
      <4>1. ~Counted(e, key)
          BY <1>3, <3>4 DEF Counted
      <4>2. event.at = firstValid[e][key]
          BY <1>3, <3>1, <3>2, <4>1 DEF InTurn
      <4>3. DOMAIN after.arrivals = DOMAIN block.arrivals \union {e}
            /\ \A x \in DOMAIN block.arrivals : x # e => after.arrivals[x] = block.arrivals[x]
          BY <2>1, <2>5, RecordedBlock
      <4>4. after.arrivals[e] = event.at
          BY <2>1, <2>5, <3>4, RecordedBlock
      <4> QED
          BY <2>3, <3>4, <4>2, <4>3, <4>4
    <3> QED
        BY <3>3, <3>4
  <2>6. ASSUME ~event.valid
        PROVE  \A x \in DOMAIN after.arrivals : after.arrivals[x] = firstValid[x][key]
      BY <2>1, <2>3, <2>6, RecordedBlock
  <2>7. ArrivalsAreFirst'
    <3> SUFFICES ASSUME NEW b \in DOMAIN blocks', NEW x \in DOMAIN blocks'[b].arrivals
                 PROVE  blocks'[b].arrivals[x] = firstValid[x][b]
        BY <1>1 DEF ArrivalsAreFirst
    <3>1. CASE b = key
        BY <2>4, <2>5, <2>6, <3>1
    <3>2. CASE b # key
        BY <2>4, <3>2 DEF ArrivalsAreFirst
    <3> QED
        BY <3>1, <3>2
  <2> QED
      BY <2>4, <2>5, <2>7 DEF ValidJob, Counted
<1> QED
    BY <1>2, <1>3, ReceiveSteps

\* The event at the head of the channel is taken out.
LEMMA OrderOfTail ==
    ASSUME WatchersTyped, InOrder, Kept, ~Undone, completed \subseteq completed',
           events # <<>>, events' = Tail(events), UNCHANGED <<cancelled, watcherVars>>,
           \A e \in Endpoints, b \in Blocks :
               ValidJob(Head(events), e, b) => b \in completed' \/ Counted(e, b)'
    PROVE  InOrder' /\ Kept'
<1>1. Len(events') = Len(events) - 1 /\ Head(events) = events[1] /\ Len(events) \in Nat \ {0}
      /\ \A i \in 1 .. Len(events') : events'[i] = events[i + 1]
    BY TailEvents DEF WatchersTyped
<1>2. ASSUME NEW e \in Endpoints, NEW b \in Blocks, NEW n \in 0 .. Len(events),
             Ahead(e, b, n + 1)
      PROVE  b \in completed' \/ Counted(e, b)' \/ Ahead(e, b, n)'
  <2>1. PICK j \in 1 .. Len(events) :
          j < n + 1 /\ ValidJob(events[j], e, b) /\ events[j].at = firstValid[e][b]
      BY <1>2 DEF Ahead
  <2>2. CASE j = 1
      BY <1>1, <2>1, <2>2
  <2>3. CASE j # 1
    <3> DEFINE k == j - 1
    <3>1. k \in 1 .. Len(events') /\ k < n /\ k + 1 = j
        BY <1>1, <2>1, <2>3
    <3>2. events'[k] = events[j]
        BY <1>1, <3>1
    <3> QED
        BY <2>1, <3>1, <3>2 DEF Ahead, watcherVars, ValidJob
  <2> QED
      BY <2>2, <2>3
<1>3. ASSUME NEW e \in Endpoints, NEW b \in Blocks, NEW n \in 0 .. Len(events),
             NEW event, InTurn(event, e, b, n + 1)
      PROVE  InTurn(event, e, b, n)'
    BY <1>2, <1>3 DEF InTurn, Undone, watcherVars
<1>4. InOrder'
  <2> SUFFICES ASSUME NEW e \in Endpoints, NEW b \in Blocks
               PROVE  /\ \A i \in 1 .. Len(events') :
                           (ValidJob(events[i], e, b) => InTurn(events[i], e, b, i))'
                      /\ (sending[e] # None /\ ValidJob(sending[e], e, b)
                           => InTurn(sending[e], e, b, Len(events) + 1))'
      BY DEF InOrder
  <2>1. ASSUME NEW i \in 1 .. Len(events'), ValidJob(events[i], e, b)'
        PROVE  InTurn(events[i], e, b, i)'
    <3>1. PICK event : event = events[i + 1]
        OBVIOUS
    <3>2. i + 1 \in 1 .. Len(events) /\ event = events'[i] /\ i \in 0 .. Len(events)
        BY <1>1, <3>1
    <3>3. InTurn(event, e, b, i + 1)
        BY <2>1, <3>1, <3>2 DEF InOrder, ValidJob
    <3>4. InTurn(event, e, b, i)'
        BY <1>3, <3>2, <3>3
    <3> QED
        BY <3>2, <3>4 DEF InTurn
  <2>2. ASSUME (sending[e] # None /\ ValidJob(sending[e], e, b))'
        PROVE  InTurn(sending[e], e, b, Len(events) + 1)'
    <3>0. PICK event : event = sending[e]
        OBVIOUS
    <3>1. PICK n \in Nat : n = Len(events)
        BY <1>1
    <3>2. InTurn(event, e, b, n + 1)
        BY <2>2, <3>0, <3>1 DEF InOrder, ValidJob, watcherVars
    <3>3. InTurn(event, e, b, n)'
        BY <1>3, <3>1, <3>2
    <3>4. Ahead(e, b, n)' => Ahead(e, b, Len(events) + 1)'
        BY <1>1, <3>1 DEF Ahead
    <3> QED
        BY <3>0, <3>3, <3>4 DEF InTurn, watcherVars
  <2> QED
      BY <2>1, <2>2
<1>5. Kept'
  <2> SUFFICES ASSUME NEW e \in Endpoints, NEW b \in Blocks,
                      watcher'[e] = "watching" \/ ~cancelled',
                      firstValid'[e][b] # None, b \notin completed'
               PROVE  Waiting(e, b)' \/ Counted(e, b)'
      BY DEF Kept
  <2>1. Waiting(e, b) \/ Counted(e, b)
      BY DEF Kept, watcherVars
  <2>2. CASE Counted(e, b)
      BY <2>2 DEF Undone
  <2>3. CASE Ahead(e, b, Len(events) + 1)
    <3>1. PICK n \in Nat : n = Len(events)
        BY <1>1
    <3>2. b \in completed' \/ Counted(e, b)' \/ Ahead(e, b, n)'
        BY <1>2, <2>3, <3>1
    <3>3. Ahead(e, b, n)' => Ahead(e, b, Len(events) + 1)'
        BY <1>1, <3>1 DEF Ahead
    <3> QED
        BY <3>2, <3>3 DEF Waiting
  <2>4. CASE sending[e] # None /\ ValidJob(sending[e], e, b) /\ sending[e].at = firstValid[e][b]
      BY <2>4 DEF Waiting, ValidJob, watcherVars
  <2> QED
      BY <2>1, <2>2, <2>3, <2>4 DEF Waiting
<1> QED
    BY <1>4, <1>5
\* The channel stays as it is, and what may have changed is the blocks.
LEMMA OrderOfSame ==
    ASSUME InOrder, Kept, ~Undone, completed \subseteq completed',
           UNCHANGED <<watcherVars, events>>, cancelled => cancelled'
    PROVE  InOrder' /\ Kept'
<1>1. ASSUME NEW e \in Endpoints, NEW b \in Blocks, NEW n, NEW event, InTurn(event, e, b, n)
      PROVE  InTurn(event, e, b, n)'
    BY <1>1 DEF InTurn, Undone, Ahead, ValidJob, watcherVars
<1>2. InOrder'
  <2> SUFFICES ASSUME NEW e \in Endpoints, NEW b \in Blocks
               PROVE  /\ \A i \in 1 .. Len(events') :
                           (ValidJob(events[i], e, b) => InTurn(events[i], e, b, i))'
                      /\ (sending[e] # None /\ ValidJob(sending[e], e, b)
                           => InTurn(sending[e], e, b, Len(events) + 1))'
      BY DEF InOrder
  <2>1. ASSUME NEW i \in 1 .. Len(events'), ValidJob(events[i], e, b)'
        PROVE  InTurn(events[i], e, b, i)'
    <3>1. PICK event : event = events[i] /\ event = events'[i]
        OBVIOUS
    <3>2. InTurn(event, e, b, i)
        BY <2>1, <3>1 DEF InOrder, ValidJob
    <3> QED
        BY <1>1, <3>1, <3>2 DEF InTurn
  <2>2. ASSUME (sending[e] # None /\ ValidJob(sending[e], e, b))'
        PROVE  InTurn(sending[e], e, b, Len(events) + 1)'
    <3>1. PICK event, n : event = sending[e] /\ n = Len(events) + 1
        OBVIOUS
    <3>2. InTurn(event, e, b, n)
        BY <2>2, <3>1 DEF InOrder, ValidJob, watcherVars
    <3> QED
        BY <1>1, <3>1, <3>2 DEF InTurn, Ahead, watcherVars
  <2> QED
      BY <2>1, <2>2
<1>3. Kept'
    BY DEF Kept, Waiting, Undone, Ahead, ValidJob, watcherVars
<1> QED
    BY <1>2, <1>3

\* A watcher has made an event: if it is a job, the first valid one is it, or ahead
\* of it, or was counted.
LEMMA OrderOfJob ==
    ASSUME WatchersTyped, InOrder, Kept, NEW e \in Endpoints, NEW b \in Blocks,
           NEW valid \in BOOLEAN, Job(e, b, valid)
    PROVE  InOrder' /\ Kept'
<1>0. PICK job : job = [endpoint |-> e, block |-> b, at |-> clock, valid |-> valid]
    OBVIOUS
<1>1. /\ watcher[e] = "watching" /\ sending[e] = None /\ UNCHANGED <<watcher, cancelled, events>>
      /\ UNCHANGED <<blocks, completed>> /\ sending' = [sending EXCEPT ![e] = job]
      /\ clock \in Nat /\ job.at = clock
    BY <1>0, TimesAssumption DEF Job, Offer, collectVars, WatchersTyped
<1>2. sending'[e] = job /\ \A f \in Endpoints : f # e => sending'[f] = sending[f]
    BY <1>1 DEF WatchersTyped
<1>3. \A f \in Endpoints, c \in Blocks :
        /\ firstValid[f][c] # None => firstValid'[f][c] = firstValid[f][c]
        /\ firstValid[f][c] = None /\ firstValid'[f][c] # None => valid /\ f = e /\ c = b
      BY DEF Job, WatchersTyped
<1>4. valid => firstValid'[e][b] = IF firstValid[e][b] = None THEN clock ELSE firstValid[e][b]
    BY DEF Job, WatchersTyped
<1>5. ASSUME NEW f \in Endpoints, NEW c \in Blocks, NEW n, NEW event, InTurn(event, f, c, n)
      PROVE  InTurn(event, f, c, n)'
    BY <1>1, <1>3, <1>5 DEF InTurn, Counted, Ahead, ValidJob
<1>6. ASSUME valid
      PROVE  InTurn(job, e, b, Len(events) + 1)'
  <2>1. CASE firstValid[e][b] = None
    <3>1. firstValid'[e][b] = clock /\ clock # None
        BY <1>1, <1>4, <1>6, <2>1, NoneAssumption, EventsAssumption
    <3> QED
        BY <1>1, <3>1 DEF InTurn
  <2>2. CASE firstValid[e][b] # None
    <3>1. firstValid'[e][b] = firstValid[e][b] /\ clock >= firstValid[e][b]
        BY <1>1, <1>3, <2>2, TimesAssumption DEF WatchersTyped
    <3>2. b \in completed \/ Ahead(e, b, Len(events) + 1) \/ Counted(e, b)
        BY <1>1, <2>2 DEF Kept, Waiting
    <3> QED
        BY <1>1, <2>2, <3>1, <3>2 DEF InTurn, Counted, Ahead, ValidJob
  <2> QED
      BY <2>1, <2>2
<1>7. InOrder'
  <2> SUFFICES ASSUME NEW f \in Endpoints, NEW c \in Blocks
               PROVE  /\ \A i \in 1 .. Len(events') :
                           (ValidJob(events[i], f, c) => InTurn(events[i], f, c, i))'
                      /\ (sending[f] # None /\ ValidJob(sending[f], f, c)
                           => InTurn(sending[f], f, c, Len(events) + 1))'
      BY DEF InOrder
  <2>1. ASSUME NEW i \in 1 .. Len(events'), ValidJob(events[i], f, c)'
        PROVE  InTurn(events[i], f, c, i)'
    <3>1. PICK event : event = events[i] /\ event = events'[i]
        BY <1>1
    <3>2. InTurn(event, f, c, i)
        BY <1>1, <2>1, <3>1 DEF InOrder, ValidJob
    <3> QED
        BY <1>5, <3>1, <3>2 DEF InTurn
  <2>2. ASSUME f # e, (sending[f] # None /\ ValidJob(sending[f], f, c))'
        PROVE  InTurn(sending[f], f, c, Len(events) + 1)'
    <3>1. PICK event, n : event = sending[f] /\ event = sending'[f] /\ n = Len(events) + 1
        BY <1>2, <2>2
    <3>2. InTurn(event, f, c, n)
        BY <1>2, <2>2, <3>1 DEF InOrder, ValidJob
    <3> QED
        BY <1>1, <1>5, <3>1, <3>2 DEF InTurn, Ahead
  <2>3. ASSUME f = e, (sending[f] # None /\ ValidJob(sending[f], f, c))'
        PROVE  InTurn(sending[f], f, c, Len(events) + 1)'
    <3>1. valid /\ c = b
        BY <1>0, <1>2, <2>3 DEF ValidJob
    <3> QED
        BY <1>2, <1>6, <2>3, <3>1 DEF InTurn
  <2> QED
      BY <2>1, <2>2, <2>3
<1>8. Kept'
  <2> SUFFICES ASSUME NEW f \in Endpoints, NEW c \in Blocks,
                      watcher'[f] = "watching" \/ ~cancelled',
                      firstValid'[f][c] # None, c \notin completed'
               PROVE  Waiting(f, c)' \/ Counted(f, c)'
      BY DEF Kept
  <2>1. CASE firstValid[f][c] # None
    <3>1. Waiting(f, c) \/ Counted(f, c)
        BY <1>1, <2>1 DEF Kept
    <3>2. Counted(f, c) => Counted(f, c)'
        BY <1>1 DEF Counted
    <3>3. Ahead(f, c, Len(events) + 1) => Ahead(f, c, Len(events) + 1)'
        BY <1>1, <1>3, <2>1 DEF Ahead, ValidJob
    <3>4. CASE sending[f] # None /\ ValidJob(sending[f], f, c) /\ sending[f].at = firstValid[f][c]
      <4>1. f # e
          BY <1>1, <3>4
      <4> QED
          BY <1>2, <1>3, <2>1, <3>4, <4>1 DEF Waiting, ValidJob
    <3> QED
        BY <3>1, <3>2, <3>3, <3>4 DEF Waiting
  <2>2. CASE firstValid[f][c] = None
    <3>1. valid /\ f = e /\ c = b /\ firstValid'[e][b] = clock
        BY <1>3, <1>4, <2>2
    <3>2. job # None
      <4>1. job \in Events
          BY <1>0, <1>1 DEF Events, WatchersTyped
      <4> QED
          BY <4>1, NoneAssumption, EventsAssumption
    <3> QED
        BY <1>0, <1>2, <3>1, <3>2 DEF Waiting, ValidJob
  <2> QED
      BY <2>1, <2>2
<1> QED
    BY <1>7, <1>8
\* The channel takes an event: what was ahead of it in turn stays ahead.
LEMMA OrderOfDeliver ==
    ASSUME WatchersTyped, InOrder, Kept, NEW e \in Endpoints, Deliver(e)
    PROVE  InOrder' /\ Kept'
<1>1. /\ sending[e] # None /\ sending[e] \in Events /\ sending[e].endpoint = e
      /\ UNCHANGED <<watcher, cancelled, firstValid, blocks, completed>>
      /\ sending'[e] = None /\ \A f \in Endpoints : f # e => sending'[f] = sending[f]
    BY DEF Deliver, WatchersTyped, collectVars
<1>2. Len(events) \in Nat /\ Len(events') = Len(events) + 1
      /\ events'[Len(events) + 1] = sending[e]
      /\ \A i \in 1 .. Len(events) : events'[i] = events[i]
    BY <1>1, AppendEvent DEF Deliver, WatchersTyped
<1>3. ASSUME NEW f \in Endpoints, NEW c \in Blocks, NEW n \in Nat, Ahead(f, c, n)
      PROVE  Ahead(f, c, n)'
    BY <1>1, <1>2, <1>3 DEF Ahead, ValidJob
<1>4. ASSUME NEW f \in Endpoints, NEW c \in Blocks, NEW n \in Nat, NEW event,
             InTurn(event, f, c, n)
      PROVE  InTurn(event, f, c, n)'
    BY <1>1, <1>3, <1>4 DEF InTurn, Counted
<1>5. InOrder'
  <2> SUFFICES ASSUME NEW f \in Endpoints, NEW c \in Blocks
               PROVE  /\ \A i \in 1 .. Len(events') :
                           (ValidJob(events[i], f, c) => InTurn(events[i], f, c, i))'
                      /\ (sending[f] # None /\ ValidJob(sending[f], f, c)
                           => InTurn(sending[f], f, c, Len(events) + 1))'
      BY DEF InOrder
  <2>1. ASSUME NEW i \in 1 .. Len(events), ValidJob(events[i], f, c)'
        PROVE  InTurn(events[i], f, c, i)'
    <3>1. PICK event : event = events[i] /\ event = events'[i]
        BY <1>2
    <3>2. InTurn(event, f, c, i)
        BY <2>1, <3>1 DEF InOrder, ValidJob
    <3> QED
        BY <1>2, <1>4, <3>1, <3>2 DEF InTurn
  <2>2. ASSUME NEW i \in Nat, i = Len(events) + 1, ValidJob(events[i], f, c)'
        PROVE  InTurn(events[i], f, c, i)'
    <3>1. PICK event : event = sending[e] /\ event = events'[i]
        BY <1>2, <2>2
    <3>2. f = e /\ ValidJob(event, e, c)
        BY <1>1, <2>2, <3>1 DEF ValidJob
    <3>3. InTurn(event, f, c, i)
        BY <1>1, <2>2, <3>1, <3>2 DEF InOrder
    <3> QED
        BY <1>4, <2>2, <3>1, <3>3 DEF InTurn
  <2>3. ASSUME (sending[f] # None /\ ValidJob(sending[f], f, c))'
        PROVE  InTurn(sending[f], f, c, Len(events) + 1)'
    <3>1. f # e
        BY <1>1, <2>3
    <3>2. PICK event : event = sending[f] /\ event = sending'[f]
        BY <1>1, <3>1
    <3>3. PICK n \in Nat : n = Len(events) + 1
        BY <1>2
    <3>4. InTurn(event, f, c, n)
        BY <2>3, <3>2, <3>3 DEF InOrder, ValidJob
    <3>5. InTurn(event, f, c, n)'
        BY <1>4, <3>4
    <3>6. Ahead(f, c, n)' => Ahead(f, c, Len(events) + 1)'
        BY <1>2, <3>3 DEF Ahead
    <3> QED
        BY <3>2, <3>5, <3>6 DEF InTurn
  <2> QED
      BY <1>2, <2>1, <2>2, <2>3
<1>6. Kept'
  <2> SUFFICES ASSUME NEW f \in Endpoints, NEW c \in Blocks,
                      watcher'[f] = "watching" \/ ~cancelled',
                      firstValid'[f][c] # None, c \notin completed'
               PROVE  Waiting(f, c)' \/ Counted(f, c)'
      BY DEF Kept
  <2>1. Waiting(f, c) \/ Counted(f, c)
      BY <1>1 DEF Kept
  <2>2. CASE Counted(f, c)
      BY <1>1, <2>2 DEF Counted
  <2>3. CASE Ahead(f, c, Len(events) + 1)
      BY <1>1, <1>2, <2>3 DEF Waiting, Ahead, ValidJob
  <2>4. CASE sending[f] # None /\ ValidJob(sending[f], f, c) /\ sending[f].at = firstValid[f][c]
    <3>1. CASE f = e
        BY <1>1, <1>2, <2>4, <3>1 DEF Waiting, Ahead, ValidJob
    <3>2. CASE f # e
        BY <1>1, <2>4, <3>2 DEF Waiting, ValidJob
    <3> QED
        BY <3>1, <3>2
  <2> QED
      BY <2>1, <2>2, <2>3, <2>4 DEF Waiting
<1> QED
    BY <1>5, <1>6

\* What a watcher sends or drops that is no job, or is not missed.
LEMMA OrderOfOthers ==
    ASSUME WatchersTyped, InOrder, Kept, NEW e \in Endpoints, Report(e) \/ Leave(e)
    PROVE  InOrder' /\ Kept'
<1>1. /\ UNCHANGED <<cancelled, events, firstValid, blocks, completed>>
      /\ \A f \in Endpoints : f # e => sending'[f] = sending[f] /\ watcher'[f] = watcher[f]
    BY DEF Report, Offer, Leave, WatchersTyped, collectVars
<1>2. \/ sending'[e] = None
      \/ \A c \in Blocks : ~ValidJob(sending'[e], e, c)
    BY NoneAssumption, EventsAssumption DEF Report, Offer, Leave, WatchersTyped, ValidJob
<1>3. sending[e] = None \/ (cancelled' /\ watcher'[e] = "gone")
    BY DEF Report, Offer, Leave, WatchersTyped
<1>4. watcher'[e] = "watching" => watcher[e] = "watching"
    BY DEF Report, Offer, Leave, WatchersTyped
<1>5. ASSUME NEW f \in Endpoints, NEW c \in Blocks, NEW n, NEW event, InTurn(event, f, c, n)
      PROVE  InTurn(event, f, c, n)'
    BY <1>1, <1>5 DEF InTurn, Counted, Ahead, ValidJob
<1>6. InOrder'
  <2> SUFFICES ASSUME NEW f \in Endpoints, NEW c \in Blocks
               PROVE  /\ \A i \in 1 .. Len(events') :
                           (ValidJob(events[i], f, c) => InTurn(events[i], f, c, i))'
                      /\ (sending[f] # None /\ ValidJob(sending[f], f, c)
                           => InTurn(sending[f], f, c, Len(events) + 1))'
      BY DEF InOrder
  <2>1. ASSUME NEW i \in 1 .. Len(events'), ValidJob(events[i], f, c)'
        PROVE  InTurn(events[i], f, c, i)'
    <3>1. PICK event : event = events[i] /\ event = events'[i]
        BY <1>1
    <3>2. InTurn(event, f, c, i)
        BY <1>1, <2>1, <3>1 DEF InOrder, ValidJob
    <3> QED
        BY <1>5, <3>1, <3>2 DEF InTurn
  <2>2. ASSUME (sending[f] # None /\ ValidJob(sending[f], f, c))'
        PROVE  InTurn(sending[f], f, c, Len(events) + 1)'
    <3>1. f # e
        BY <1>2, <2>2 DEF ValidJob
    <3>2. PICK event, n : event = sending[f] /\ event = sending'[f] /\ n = Len(events) + 1
        BY <1>1, <3>1
    <3>3. InTurn(event, f, c, n)
        BY <2>2, <3>2 DEF InOrder, ValidJob
    <3> QED
        BY <1>1, <1>5, <3>2, <3>3 DEF InTurn, Ahead
  <2> QED
      BY <2>1, <2>2
<1>7. Kept'
  <2> SUFFICES ASSUME NEW f \in Endpoints, NEW c \in Blocks,
                      watcher'[f] = "watching" \/ ~cancelled',
                      firstValid'[f][c] # None, c \notin completed'
               PROVE  Waiting(f, c)' \/ Counted(f, c)'
      BY DEF Kept
  <2>1. Waiting(f, c) \/ Counted(f, c)
      BY <1>1, <1>4 DEF Kept
  <2>2. CASE Counted(f, c)
      BY <1>1, <2>2 DEF Counted
  <2>3. CASE Ahead(f, c, Len(events) + 1)
      BY <1>1, <2>3 DEF Waiting, Ahead, ValidJob
  <2>4. CASE sending[f] # None /\ ValidJob(sending[f], f, c) /\ sending[f].at = firstValid[f][c]
    <3>1. f # e
        BY <1>1, <1>3, <2>4
    <3> QED
        BY <1>1, <2>4, <3>1 DEF Waiting, ValidJob
  <2> QED
      BY <2>1, <2>2, <2>3, <2>4 DEF Waiting
<1> QED
    BY <1>6, <1>7
\* Every step keeps the jobs in order, and none is lost.
LEMMA OrderStep ==
    ASSUME WatchersTyped, BlocksTyped, InOrder, ArrivalsAreFirst, Kept, [Next]_vars
    PROVE  InOrder' /\ Kept'
<1>0. ~Undone /\ completed \subseteq completed'
    BY ArrivalsStay
<1>1. ASSUME NEW e \in Endpoints, NEW b \in Blocks, NEW valid \in BOOLEAN, Job(e, b, valid)
      PROVE  InOrder' /\ Kept'
    BY <1>1, OrderOfJob
<1>2. ASSUME NEW e \in Endpoints, Report(e) \/ Leave(e)
      PROVE  InOrder' /\ Kept'
    BY <1>2, OrderOfOthers
<1>3. ASSUME NEW e \in Endpoints, Deliver(e)
      PROVE  InOrder' /\ Kept'
    BY <1>3, OrderOfDeliver
<1>4. CASE Receive
    BY <1>0, <1>4, ReceiveCounts, OrderOfTail DEF Receive
<1>5. CASE EmitFails
  <2>1. CASE UNCHANGED events
      BY <1>0, <1>5, <2>1, OrderOfSame DEF EmitFails
  <2>2. CASE events # <<>> /\ Head(events).block = None /\ events' = Tail(events)
    <3>1. \A e \in Endpoints, b \in Blocks : ~ValidJob(Head(events), e, b)
        BY <2>2, NoneAssumption, EventsAssumption DEF ValidJob
    <3> QED
        BY <1>0, <1>5, <2>2, <3>1, OrderOfTail DEF EmitFails
  <2> QED
      BY <1>5, <2>1, <2>2 DEF EmitFails
<1>6. CASE Sweep \/ Return \/ Cancel \/ UNCHANGED vars
    BY <1>0, <1>6, OrderOfSame DEF Sweep, Return, Cancel, vars
<1>7. CASE Tick
    BY <1>0, <1>7, OrderOfSame DEF Tick
<1> QED
    BY <1>1, <1>2, <1>3, <1>4, <1>5, <1>6, <1>7 DEF Next

\* First valid jobs are never changed.
LEMMA FirstValidStays ==
    ASSUME WatchersTyped, [Next]_vars
    PROVE  \A e \in Endpoints, b \in Blocks :
             firstValid[e][b] # None => firstValid'[e][b] = firstValid[e][b]
<1>1. ASSUME NEW e \in Endpoints, NEW b \in Blocks, NEW valid \in BOOLEAN, Job(e, b, valid)
      PROVE  \A f \in Endpoints, c \in Blocks :
               firstValid[f][c] # None => firstValid'[f][c] = firstValid[f][c]
    BY <1>1 DEF Job, WatchersTyped
<1>2. ASSUME NEW e \in Endpoints, Report(e) \/ Deliver(e) \/ Leave(e)
      PROVE  firstValid' = firstValid
    BY <1>2 DEF Report, Deliver, Leave
<1>3. CASE Receive \/ Sweep \/ EmitFails \/ Return \/ Cancel \/ Tick \/ UNCHANGED vars
    BY <1>3 DEF Receive, Sweep, EmitFails, Return, Cancel, Tick, vars, watcherVars
<1> QED
    BY <1>1, <1>2, <1>3 DEF Next

LEMMA ArrivalsStep ==
    ASSUME WatchersTyped, BlocksTyped, InOrder, ArrivalsAreFirst, [Next]_vars
    PROVE  ArrivalsAreFirst'
<1>1. \A b \in DOMAIN blocks : \A e \in DOMAIN blocks[b].arrivals :
        e \in Endpoints /\ b \in Blocks /\ firstValid[e][b] # None
  <2>1. \A b \in DOMAIN blocks : \A e \in DOMAIN blocks[b].arrivals :
          e \in Endpoints /\ b \in Blocks /\ blocks[b].arrivals[e] \in Nat
      BY TimesAssumption DEF BlocksTyped, Active
  <2> QED
      BY <2>1, NoneAssumption, EventsAssumption DEF ArrivalsAreFirst
<1>2. CASE Receive
    BY <1>2, ReceiveCounts
<1>3. ASSUME NEW finished \in SUBSET DOMAIN blocks, Finish(finished)
      PROVE  ArrivalsAreFirst'
    BY <1>3 DEF Finish, Restrict, ArrivalsAreFirst, watcherVars
<1>4. CASE UNCHANGED blocks
    BY <1>1, <1>4, FirstValidStays DEF ArrivalsAreFirst
<1> QED
    BY <1>2, <1>3, <1>4, CollectSteps DEF collectVars
-----------------------------------------------------------------------------
(* Batches.                                                                *)

\* The offsets of a block that was measured are fair.
LEMMA BatchIsFair ==
    ASSUME WatchersTyped, BlocksTyped, ArrivalsAreFirst,
           NEW b \in DOMAIN blocks, Measured(b)
    PROVE  FairBatch(Batch(b))
<1> DEFINE arrivals == blocks[b].arrivals
           batch == Batch(b)
           first == Min(Range(arrivals))
<1>1. PICK D \in SUBSET Endpoints : arrivals \in [D -> 0 .. MaxClock]
    BY DEF BlocksTyped, Active
<1>2. DOMAIN arrivals = D /\ Cardinality(D) >= 2
    BY <1>1 DEF Measured
<1>3. Range(arrivals) \subseteq Nat /\ Range(arrivals) # {}
  <2>1. D # {}
      BY <1>2, FS_EmptySet
  <2> QED
      BY <1>1, <2>1, TimesAssumption DEF Range
<1>4. first \in Range(arrivals) /\ \A y \in Range(arrivals) : first <= y
    BY <1>3, MinOfNaturals
<1>5. \A e \in D : arrivals[e] \in Nat /\ arrivals[e] \in Range(arrivals) /\ first <= arrivals[e]
    BY <1>1, <1>3, <1>4 DEF Range
<1>6. batch.block = b /\ batch.offsets = [e \in D |-> arrivals[e] - first] /\ first \in Nat
    BY <1>1, <1>3, <1>4 DEF Batch, Offsets
<1>7. \E e \in D : arrivals[e] = first
    BY <1>1, <1>4 DEF Range
<1>8. b \in Blocks /\ \A e \in D : firstValid[e][b] = arrivals[e] /\ firstValid[e][b] # None
    BY <1>2, <1>5, NoneAssumption, EventsAssumption DEF BlocksTyped, ArrivalsAreFirst
<1> HIDE DEF arrivals, batch, first
<1>9. \A e \in D : batch.offsets[e] = firstValid[e][b] - first /\ batch.offsets[e] \in Nat
                   /\ firstValid[e][b] \in Nat
    BY <1>5, <1>6, <1>8
<1>10. \E e \in D : batch.offsets[e] = 0
    BY <1>5, <1>6, <1>7
<1>11. \A e, f \in D : batch.offsets[e] - batch.offsets[f] = firstValid[e][b] - firstValid[f][b]
    BY <1>6, <1>9
<1>12. DOMAIN batch.offsets = D
    BY <1>6
<1>13. \A e, f \in D :
         batch.offsets[e] - batch.offsets[f]
           = firstValid[e][batch.block] - firstValid[f][batch.block]
    BY <1>6, <1>11
<1>14. \A e \in D : batch.offsets[e] \in Nat /\ firstValid[e][batch.block] # None
    BY <1>6, <1>8, <1>9
<1>15. batch.block \in Blocks /\ D \subseteq Endpoints /\ Cardinality(D) >= 2
    BY <1>2, <1>6, <1>8
<1>16. FairBatch(batch)
    BY <1>10, <1>12, <1>13, <1>14, <1>15 DEF FairBatch
<1> QED
    BY <1>16 DEF batch

\* A fair batch stays fair: the first valid jobs it compares do not change.
LEMMA FairStays ==
    ASSUME WatchersTyped, [Next]_vars, NEW batch, FairBatch(batch)
    PROVE  FairBatch(batch)'
BY FirstValidStays DEF FairBatch

LEMMA BatchesStep ==
    ASSUME WatchersTyped, BlocksTyped, ArrivalsAreFirst, BatchesAreFair, [Next]_vars
    PROVE  BatchesAreFair'
<1>1. ASSUME NEW finished \in SUBSET DOMAIN blocks, Finish(finished)
      PROVE  BatchesAreFair'
  <2>1. \A batch \in emitted' : FairBatch(batch)
      BY <1>1, BatchIsFair DEF Finish, BatchesAreFair
  <2> QED
      BY <2>1, FairStays DEF BatchesAreFair
<1>2. CASE UNCHANGED emitted
    BY <1>2, FairStays DEF BatchesAreFair
<1> QED
    BY <1>1, <1>2, CollectSteps DEF collectVars, Receive

LEMMA EmittedStep ==
    ASSUME WatchersTyped, BlocksTyped, EmittedAreCompleted, [Next]_vars
    PROVE  EmittedAreCompleted'
<1> USE DEF EmittedAreCompleted, OneBatchPerBlock
<1>1. CASE Receive
  <2>1. completed' = completed /\ emitted' = emitted
      BY <1>1 DEF Receive
  <2>2. DOMAIN blocks' \cap completed = {}
      BY <1>1, ReceiveSteps DEF Put
  <2> QED
      BY <2>1, <2>2
<1>2. ASSUME NEW finished \in SUBSET DOMAIN blocks, Finish(finished)
      PROVE  EmittedAreCompleted'
  <2>1. DOMAIN blocks' = DOMAIN blocks \ finished /\ completed' = completed \union finished
      BY <1>2 DEF Finish, Restrict
  <2>2. \A batch \in emitted' :
          \/ batch \in emitted /\ batch.block \in completed
          \/ batch.block \in finished /\ batch = Batch(batch.block)
      BY <1>2 DEF Finish, Batch
  <2> QED
      BY <2>1, <2>2
<1>3. CASE UNCHANGED <<blocks, completed, emitted>>
    BY <1>3
<1> QED
    BY <1>1, <1>2, <1>3, CollectSteps DEF collectVars
-----------------------------------------------------------------------------
(* The invariant, and what follows from it.                                *)

\* Collecting never leaves the states of Inv.
THEOREM Invariance == Spec => []Inv
<1>1. Init => Inv
  <2>1. ASSUME Init PROVE InOrder /\ Kept
      BY <2>1, NoneAssumption, EventsAssumption DEF Init, InOrder, Kept
  <2>2. ASSUME Init PROVE ArrivalsAreFirst /\ EmittedAreCompleted /\ BatchesAreFair
      BY <2>2 DEF Init, ArrivalsAreFirst, EmittedAreCompleted, OneBatchPerBlock, BatchesAreFair
  <2> QED
      BY <2>1, <2>2, InitTyped DEF Inv
<1>2. Inv /\ [Next]_vars => Inv'
    BY WatchersStep, BlocksStep, OrderStep, ArrivalsStep, BatchesStep, EmittedStep DEF Inv
<1> QED
    BY <1>1, <1>2, PTL DEF Spec

\* Watchers, channel, blocks and batches have their types for any endpoints, blocks
\* and capacity.
THEOREM TypeCorrect == Spec => []TypeOK
<1>1. Inv => TypeOK
  <2> SUFFICES ASSUME Inv PROVE TypeOK
      OBVIOUS
  <2>1. ToSet(events) \subseteq Events
      BY DEF Inv, WatchersTyped, ToSet
  <2>2. \A batch \in emitted : DOMAIN batch.offsets \subseteq Endpoints
      BY DEF Inv, BatchesAreFair, FairBatch
  <2> QED
      BY <2>1, <2>2 DEF Inv, WatchersTyped, BlocksTyped, TypeOK
<1> QED
    BY <1>1, Invariance, PTL

\* A block is reported once, whenever its jobs come out of the channel.
THEOREM OneBatch == Spec => []OneBatchPerBlock
<1>1. Inv => OneBatchPerBlock
    BY DEF Inv, EmittedAreCompleted
<1> QED
    BY <1>1, Invariance, PTL

\* The offsets of every batch are those of the first valid jobs (in the code: to the
\* microsecond), for any capacity of the channel and any order in which watchers
\* get their jobs through.
THEOREM FairOffsets == Spec => []OffsetsAreFair
<1>1. Inv => OffsetsAreFair
  <2> SUFFICES ASSUME Inv, NEW batch \in emitted
               PROVE  /\ Cardinality(DOMAIN batch.offsets) >= 2
                      /\ \E e \in DOMAIN batch.offsets : batch.offsets[e] = 0
                      /\ \A e, f \in DOMAIN batch.offsets :
                           /\ batch.offsets[e] >= 0
                           /\ batch.offsets[e] - batch.offsets[f]
                                = firstValid[e][batch.block] - firstValid[f][batch.block]
      BY DEF OffsetsAreFair
  <2>1. FairBatch(batch)
      BY DEF Inv, BatchesAreFair
  <2> QED
      BY <2>1 DEF FairBatch
<1> QED
    BY <1>1, Invariance, PTL

\* No valid job of an open window is lost, however full the channel is.
THEOREM NoneLost == Spec => []NoJobIsLost
<1>1. Inv => NoJobIsLost
  <2> SUFFICES ASSUME Inv, ~cancelled, NEW e \in Endpoints, NEW b \in Blocks \ completed,
                      firstValid[e][b] # None
               PROVE  OnItsWay(e, b) \/ Counted(e, b)
      BY DEF NoJobIsLost, Counted
  <2>1. CASE Counted(e, b)
      BY <2>1
  <2>2. ASSUME NEW event, event # None, ValidJob(event, e, b), event.at = firstValid[e][b],
               event \in ToSet(events) \union {sending[e]}
        PROVE  OnItsWay(e, b)
      BY <2>2, NoneAssumption, EventsAssumption DEF OnItsWay, ValidJob
  <2>3. CASE Ahead(e, b, Len(events) + 1)
    <3>1. PICK j \in 1 .. Len(events) : ValidJob(events[j], e, b) /\ events[j].at = firstValid[e][b]
        BY <2>3 DEF Ahead
    <3>2. events[j] \in ToSet(events) /\ events[j] \in Events
        BY DEF Inv, WatchersTyped, ToSet
    <3> QED
        BY <2>2, <3>1, <3>2, NoneAssumption, EventsAssumption
  <2>4. CASE sending[e] # None /\ ValidJob(sending[e], e, b) /\ sending[e].at = firstValid[e][b]
      BY <2>2, <2>4
  <2> QED
      BY <2>1, <2>3, <2>4 DEF Inv, Kept, Waiting
<1> QED
    BY <1>1, Invariance, PTL
-----------------------------------------------------------------------------
(* PoolSession *)

\* Records of a handshake, and where the watcher is with them: at the step after
\* those that succeeded, or past the last step it recorded.
Statuses == {"ok", "error", "timeout", "rejected"}
Record == [step : ToSet(Handshake), status : Statuses]

HandshakeRecorded ==
    /\ records \in Seq(Record) /\ Len(records) <= Len(Handshake)
    /\ \A i \in 1 .. Len(records) : records[i].step = Handshake[i]
    /\ \A i \in 1 .. Len(records) : i < Len(records) => records[i].status = "ok"

StageRecorded ==
    /\ stage \in ToSet(Handshake) =>
          /\ Len(records) < Len(Handshake)
          /\ stage = Handshake[Len(records) + 1]
          /\ \A i \in 1 .. Len(records) : records[i].status = "ok"
    /\ stage = "online" =>
          Len(records) = Len(Handshake) /\ records[Len(records)].status = "ok"
    /\ stage = "waiting" =>
          Len(records) > 0 /\ records[Len(records)].status # "rejected"

\* The window opens with the first move, and until then is about the first block.
WindowFollows ==
    /\ window.previous = None <=> startup = None
    /\ window.active <=> moved
    /\ ~moved => window.previous = startup

\* Evidence is what was read of some coinbase.
EvidenceIsRead ==
    \A b \in DOMAIN payout :
        \E coinbase \in Coinbases :
            payout[b] = analyzeCoinbase(coinbase) /\ analyzeCoinbase(coinbase).decoded

CountsTyped ==
    /\ stage \in ToSet(Handshake) \union {"online", "waiting", "gone"}
    /\ backoff \in 1 .. MaxBackoff
    /\ sessions \in 1 .. MaxSessions
    /\ jobs \in 0 .. MaxJobs

WindowTyped ==
    /\ window \in [previous : Blocks \union {None}, active : BOOLEAN, transactionJobSent : BOOLEAN]
    /\ DOMAIN payout \subseteq Blocks
    /\ empty \subseteq Blocks
    /\ startup \in Blocks \union {None}
    /\ moved \in BOOLEAN

SessionInv ==
    /\ CountsTyped /\ WindowTyped
    /\ HandshakeRecorded /\ StageRecorded
    /\ WindowFollows /\ EvidenceIsRead

\* The handshake starts by connecting, and none of its steps is a rest.
LEMMA HandshakeSteps ==
    /\ Len(Handshake) \in Nat \ {0} /\ DOMAIN Handshake = 1 .. Len(Handshake)
    /\ Handshake[1] = "connect"
    /\ ToSet(Handshake) = {Handshake[i] : i \in 1 .. Len(Handshake)}
    /\ \A i \in 1 .. Len(Handshake) : Handshake[i] \notin {"online", "waiting", "gone"}
<1>1. CASE Tls
  <2> DEFINE steps == <<"connect", "tls", "subscribe", "authorize">>
  <2>1. Handshake = steps
      BY <1>1 DEF Handshake
  <2>2. Len(steps) = 4 /\ steps[1] = "connect"
      OBVIOUS
  <2>3. DOMAIN steps = 1 .. 4
      OBVIOUS
  <2>4. \A i \in 1 .. 4 : steps[i] \notin {"online", "waiting", "gone"}
      OBVIOUS
  <2> HIDE DEF steps
  <2> QED
      BY <2>1, <2>2, <2>3, <2>4 DEF ToSet
<1>2. CASE ~Tls
  <2> DEFINE steps == <<"connect", "subscribe", "authorize">>
  <2>1. Handshake = steps
      BY <1>2 DEF Handshake
  <2>2. Len(steps) = 3 /\ steps[1] = "connect"
      OBVIOUS
  <2>3. DOMAIN steps = 1 .. 3
      OBVIOUS
  <2>4. \A i \in 1 .. 3 : steps[i] \notin {"online", "waiting", "gone"}
      OBVIOUS
  <2> HIDE DEF steps
  <2> QED
      BY <2>1, <2>2, <2>3, <2>4 DEF ToSet
<1> QED
    BY <1>1, <1>2

\* What is recorded after one step more.
LEMMA AppendRecord ==
    ASSUME NEW q \in Seq(Record), NEW x \in Record
    PROVE  /\ Append(q, x) \in Seq(Record)
           /\ Len(Append(q, x)) = Len(q) + 1
           /\ \A i \in 1 .. Len(q) : Append(q, x)[i] = q[i]
           /\ Append(q, x)[Len(q) + 1] = x
    OBVIOUS

LEMMA SessionInitInv == SessionInit => SessionInv
<1> SUFFICES ASSUME SessionInit PROVE SessionInv
    OBVIOUS
<1>1. CountsTyped
  <2>1. "connect" \in ToSet(Handshake)
      BY HandshakeSteps
  <2> QED
      BY <2>1, BoundsAssumption, MaxBackoffAssumption DEF SessionInit, CountsTyped
<1>2. WindowTyped /\ WindowFollows /\ EvidenceIsRead
    BY DEF SessionInit, NewWindow, WindowTyped, WindowFollows, EvidenceIsRead
<1>3. HandshakeRecorded /\ StageRecorded
  <2>1. records = <<>> /\ stage = "connect" /\ Len(records) = 0 /\ records \in Seq(Record)
      BY DEF SessionInit
  <2> QED
      BY <2>1, HandshakeSteps DEF HandshakeRecorded, StageRecorded
<1> QED
    BY <1>1, <1>2, <1>3 DEF SessionInv

\* A step that is recorded keeps the records in order.
LEMMA StepRecorded ==
    ASSUME SessionInv, stage \in ToSet(Handshake), NEW status \in Statuses, Publish(status)
    PROVE  /\ HandshakeRecorded'
           /\ Len(records') = Len(records) + 1
           /\ records'[Len(records')] = [step |-> stage, status |-> status]
           /\ \A i \in 1 .. Len(records) : records'[i].status = "ok"
<1> DEFINE x == [step |-> stage, status |-> status]
           n == Len(records)
<1>1. records \in Seq(Record) /\ x \in Record /\ records' = Append(records, x)
    BY DEF SessionInv, HandshakeRecorded, Record, Publish
<1>2. n \in Nat /\ n < Len(Handshake) /\ x.step = Handshake[n + 1]
      /\ \A i \in 1 .. n : records[i].status = "ok" /\ records[i].step = Handshake[i]
    BY <1>1 DEF SessionInv, StageRecorded, HandshakeRecorded
<1> HIDE DEF x, n
<1>3. /\ records' \in Seq(Record)
      /\ Len(records') = n + 1
      /\ \A i \in 1 .. n : records'[i] = records[i]
      /\ records'[n + 1] = x
    BY <1>1, AppendRecord DEF n
<1>4. \A i \in 1 .. n + 1 : i \in 1 .. n \/ i = n + 1
    BY <1>2
<1>5. /\ \A i \in 1 .. n + 1 : records'[i].step = Handshake[i]
      /\ \A i \in 1 .. n : records'[i].status = "ok"
    BY <1>2, <1>3, <1>4
<1>6. n + 1 <= Len(Handshake) /\ \A i \in 1 .. n + 1 : i < n + 1 => i \in 1 .. n
    BY <1>2, HandshakeSteps
<1> QED
    BY <1>3, <1>5, <1>6, HandshakeSteps DEF HandshakeRecorded, x, n

LEMMA HandshakeStep ==
    ASSUME SessionInv, StepSucceeds \/ StepFails \/ Rejected
    PROVE  CountsTyped' /\ HandshakeRecorded' /\ StageRecorded'
<1>1. CASE StepSucceeds
  <2>1. /\ HandshakeRecorded' /\ Len(records') = Len(records) + 1
        /\ records'[Len(records')].status = "ok"
        /\ \A i \in 1 .. Len(records) : records'[i].status = "ok"
      BY <1>1, StepRecorded DEF StepSucceeds, Statuses
  <2>2. Len(records) \in Nat /\ Len(records) < Len(Handshake)
      BY <1>1 DEF SessionInv, HandshakeRecorded, StageRecorded, StepSucceeds
  <2>3. CASE Len(records) + 1 < Len(Handshake)
    <3>1. stage' = Handshake[Len(records) + 2] /\ Len(records) + 2 \in 1 .. Len(Handshake)
        BY <1>1, <2>2, <2>3, HandshakeSteps DEF StepSucceeds
    <3>2. stage' \in ToSet(Handshake) /\ stage' \notin {"online", "waiting", "gone"}
        BY <3>1, HandshakeSteps
    <3>3. \A i \in 1 .. Len(records') : records'[i].status = "ok"
        BY <2>1, <2>2
    <3>4. Len(records') < Len(Handshake) /\ stage' = Handshake[Len(records') + 1]
        BY <2>1, <2>2, <2>3, <3>1
    <3>5. StageRecorded'
        BY <3>2, <3>3, <3>4 DEF StageRecorded
    <3> QED
        BY <1>1, <2>1, <3>2, <3>5 DEF SessionInv, CountsTyped, StepSucceeds
  <2>4. CASE ~(Len(records) + 1 < Len(Handshake))
    <3>1. stage' = "online" /\ stage' \notin ToSet(Handshake)
        BY <1>1, <2>4, HandshakeSteps DEF StepSucceeds
    <3>2. Len(records') = Len(Handshake)
      <4>1. Len(Handshake) \in Nat
          BY HandshakeSteps
      <4>2. Len(records) + 1 = Len(Handshake)
          BY <2>2, <2>4, <4>1
      <4> QED
          BY <2>1, <4>2
    <3>3. StageRecorded'
        BY <2>1, <3>1, <3>2 DEF StageRecorded
    <3> QED
        BY <1>1, <2>1, <3>1, <3>3 DEF SessionInv, CountsTyped, StepSucceeds
  <2> QED
      BY <2>3, <2>4
<1>2. CASE StepFails
  <2>1. PICK status \in {"error", "timeout"} : Publish(status)
      BY <1>2 DEF StepFails
  <2>2. /\ HandshakeRecorded' /\ Len(records') = Len(records) + 1
        /\ records'[Len(records')].status # "rejected"
      BY <1>2, <2>1, StepRecorded DEF StepFails, Statuses
  <2>3. stage' = "waiting" /\ stage' \notin ToSet(Handshake) /\ Len(records) \in Nat
      BY <1>2, HandshakeSteps DEF StepFails, SessionInv, HandshakeRecorded
  <2>4. StageRecorded'
      BY <2>2, <2>3 DEF StageRecorded
  <2> QED
      BY <1>2, <2>2, <2>3, <2>4 DEF SessionInv, CountsTyped, StepFails
<1>3. CASE Rejected
  <2>1. stage \in ToSet(Handshake)
      BY <1>3, HandshakeSteps DEF Rejected, SessionInv, CountsTyped
  <2>2. HandshakeRecorded'
      BY <1>3, <2>1, StepRecorded DEF Rejected, Statuses
  <2>3. stage' = "gone" /\ stage' \notin ToSet(Handshake)
      BY <1>3, HandshakeSteps DEF Rejected
  <2> QED
      BY <1>3, <2>2, <2>3 DEF SessionInv, CountsTyped, StageRecorded, Rejected
<1> QED
    BY <1>1, <1>2, <1>3

\* A job moves the window along with the history.
LEMMA NotifyWindow ==
    ASSUME SessionInv, NEW b \in Blocks, NEW clean \in BOOLEAN, NEW job \in Jobs,
           Notify(b, clean, job)
    PROVE  /\ window' \in [previous : Blocks \union {None}, active : BOOLEAN,
                           transactionJobSent : BOOLEAN]
           /\ startup' \in Blocks \union {None} /\ moved' \in BOOLEAN
           /\ WindowFollows'
<1>1. /\ window \in [previous : Blocks \union {None}, active : BOOLEAN, transactionJobSent : BOOLEAN]
      /\ startup \in Blocks \union {None} /\ moved \in BOOLEAN /\ WindowFollows
    BY DEF SessionInv, WindowTyped
<1>2. job.transactions \in BOOLEAN
    BY JobsAssumption
<1>3. /\ window' = AfterAccept(b, clean, job.transactions)
      /\ startup' = IF window.previous = None THEN b ELSE startup
      /\ moved' = (moved \/ Moves(b, clean))
    BY DEF Notify
<1>4. b # None
    BY NoneAssumption
<1>5. CASE window.previous = None
  <2>1. window' = [window EXCEPT !.previous = b] /\ startup' = b /\ moved' = moved
      BY <1>1, <1>3, <1>5 DEF AfterAccept, Moves
  <2> QED
      BY <1>1, <1>4, <1>5, <2>1 DEF WindowFollows
<1>6. CASE window.previous # None /\ ~Moves(b, clean)
  <2>1. moved' = moved /\ startup' = startup
      BY <1>1, <1>3, <1>6
  <2>2. /\ window'.previous = window.previous /\ window'.active = window.active
        /\ window' \in [previous : Blocks \union {None}, active : BOOLEAN, transactionJobSent : BOOLEAN]
    <3>1. CASE b # window.previous /\ ~clean
        BY <1>1, <1>3, <1>6, <3>1 DEF AfterAccept
    <3>2. CASE ~(b # window.previous /\ ~clean)
      <4>1. window' = [window EXCEPT !.transactionJobSent = @ \/ (window.active /\ job.transactions)]
          BY <1>3, <1>6, <3>2 DEF AfterAccept
      <4>2. (window.transactionJobSent \/ (window.active /\ job.transactions)) \in BOOLEAN
          OBVIOUS
      <4> QED
          BY <1>1, <4>1, <4>2
    <3> QED
        BY <3>1, <3>2
  <2> QED
      BY <1>1, <2>1, <2>2 DEF WindowFollows
<1>7. CASE window.previous # None /\ Moves(b, clean)
  <2>1. moved' = TRUE /\ startup' = startup
      BY <1>3, <1>7
  <2>2. window' = [previous |-> b, active |-> TRUE,
                   transactionJobSent |-> FALSE \/ (TRUE /\ job.transactions)]
    <3>1. ~(b # window.previous /\ ~clean)
        BY <1>7 DEF Moves
    <3> QED
        BY <1>3, <1>7, <3>1 DEF AfterAccept
  <2> QED
      BY <1>1, <1>2, <1>4, <1>7, <2>1, <2>2 DEF WindowFollows
<1> QED
    BY <1>5, <1>6, <1>7

\* Evidence is kept, or read from the coinbase of the job that is heard.
LEMMA NotifyEvidence ==
    ASSUME SessionInv, NEW b \in Blocks, NEW clean \in BOOLEAN, NEW job \in Jobs,
           Notify(b, clean, job)
    PROVE  DOMAIN payout' \subseteq Blocks /\ empty' \subseteq Blocks /\ EvidenceIsRead'
<1>1. DOMAIN payout \subseteq Blocks /\ empty \subseteq Blocks /\ EvidenceIsRead
    BY DEF SessionInv, WindowTyped
<1>2. CASE ~Accepts(b, clean, job.transactions)
    BY <1>1, <1>2 DEF Notify, evidenceVars, EvidenceIsRead
<1>3. CASE Accepts(b, clean, job.transactions)
  <2> DEFINE evidence == VerifyJob(job)
  <2>1. /\ empty' = IF job.transactions THEN empty ELSE empty \union {b}
        /\ payout' = [c \in DOMAIN payout \union (IF evidence.decoded THEN {b} ELSE {}) |->
                         IF c \in DOMAIN payout THEN payout[c] ELSE evidence]
      BY <1>3 DEF Notify
  <2>2. evidence.decoded =>
            /\ job.coinbase \in Coinbases
            /\ evidence = analyzeCoinbase(job.coinbase)
    <3>1. job \in [transactions : BOOLEAN, sound : BOOLEAN, coinbase : Coinbases]
        BY JobsAssumption
    <3>2. job.coinbase \in Coinbases
        BY <3>1
    <3>3. ~job.sound => evidence = [decoded |-> FALSE]
        BY DEF VerifyJob, Unreadable
    <3>4. job.sound => evidence = analyzeCoinbase(job.coinbase)
        BY DEF VerifyJob
    <3> QED
        BY <3>2, <3>3, <3>4
  <2> HIDE DEF evidence
  <2>3. EvidenceIsRead'
    <3> SUFFICES ASSUME NEW c \in DOMAIN payout'
                 PROVE  \E coinbase \in Coinbases :
                            payout'[c] = analyzeCoinbase(coinbase) /\ analyzeCoinbase(coinbase).decoded
        BY DEF EvidenceIsRead
    <3>1. CASE c \in DOMAIN payout
        BY <1>1, <2>1, <3>1 DEF EvidenceIsRead
    <3>2. CASE c \notin DOMAIN payout
      <4>1. evidence.decoded /\ payout'[c] = evidence
          BY <2>1, <3>2
      <4> QED
          BY <2>2, <4>1
    <3> QED
        BY <3>1, <3>2
  <2> QED
      BY <1>1, <2>1, <2>3
<1> QED
    BY <1>2, <1>3

\* The stage and the records of an online session stay as they are.
LEMMA SessionInductive == SessionInv /\ [SessionNext]_sessionVars => SessionInv'
<1> SUFFICES ASSUME SessionInv, [SessionNext]_sessionVars PROVE SessionInv'
    OBVIOUS
<1> USE DEF SessionInv
<1>1. CASE StepSucceeds \/ StepFails \/ Rejected
  <2>1. UNCHANGED <<windowVars, evidenceVars>>
      BY <1>1 DEF StepSucceeds, StepFails, Rejected
  <2>2. WindowTyped' /\ WindowFollows' /\ EvidenceIsRead'
      BY <2>1 DEF windowVars, evidenceVars, WindowTyped, WindowFollows, EvidenceIsRead
  <2> QED
      BY <1>1, <2>2, HandshakeStep
<1>2. CASE Disconnected
  <2>1. stage' = "waiting" /\ stage' \notin ToSet(Handshake) /\ UNCHANGED records
      BY <1>2, HandshakeSteps DEF Disconnected
  <2>2. Len(records) > 0 /\ records[Len(records)].status # "rejected"
      BY <1>2, HandshakeSteps DEF Disconnected, StageRecorded
  <2>3. StageRecorded'
      BY <2>1, <2>2 DEF StageRecorded
  <2> QED
      BY <1>2, <2>1, <2>3 DEF Disconnected, CountsTyped, WindowTyped, HandshakeRecorded, WindowFollows,
            EvidenceIsRead, windowVars, evidenceVars
<1>3. CASE Cancelled
  <2>1. stage' = "gone" /\ stage' \notin ToSet(Handshake) /\ UNCHANGED records
      BY <1>3, HandshakeSteps DEF Cancelled
  <2>2. StageRecorded'
      BY <2>1 DEF StageRecorded
  <2> QED
      BY <1>3, <2>1, <2>2 DEF Cancelled, CountsTyped, WindowTyped, HandshakeRecorded, WindowFollows,
            EvidenceIsRead, windowVars, evidenceVars
<1>4. CASE Reconnect
  <2>1. /\ stage' = "connect" /\ stage' = Handshake[1] /\ stage' \in ToSet(Handshake)
        /\ records' = <<>> /\ records' \in Seq(Record) /\ Len(records') = 0
      BY <1>4, HandshakeSteps DEF Reconnect
  <2>2. HandshakeRecorded' /\ StageRecorded'
      BY <2>1, HandshakeSteps DEF HandshakeRecorded, StageRecorded
  <2>3. CountsTyped'
      BY <1>4, <2>1, MaxBackoffAssumption, BoundsAssumption DEF Reconnect, CountsTyped
  <2>4. WindowTyped' /\ WindowFollows' /\ EvidenceIsRead'
      BY <1>4 DEF Reconnect, NewWindow, WindowTyped, WindowFollows, EvidenceIsRead, evidenceVars
  <2> QED
      BY <2>2, <2>3, <2>4
<1>5. ASSUME NEW b \in Blocks, NEW clean \in BOOLEAN, NEW job \in Jobs, Notify(b, clean, job)
      PROVE  SessionInv'
  <2>1. UNCHANGED <<stage, backoff, records, sessions>> /\ jobs < MaxJobs /\ jobs' = jobs + 1
      BY <1>5 DEF Notify
  <2>2. CountsTyped' /\ HandshakeRecorded' /\ StageRecorded'
      BY <2>1, BoundsAssumption DEF CountsTyped, HandshakeRecorded, StageRecorded
  <2>3. WindowTyped' /\ WindowFollows' /\ EvidenceIsRead'
      BY <1>5, NotifyWindow, NotifyEvidence DEF WindowTyped
  <2> QED
      BY <2>2, <2>3
<1>6. CASE UNCHANGED sessionVars
    BY <1>6 DEF sessionVars, windowVars, evidenceVars, CountsTyped, WindowTyped, HandshakeRecorded,
         StageRecorded, WindowFollows, EvidenceIsRead
<1> QED
    BY <1>1, <1>2, <1>3, <1>4, <1>5, <1>6 DEF SessionNext

LEMMA SessionInvariance == SessionSpec => []SessionInv
    BY SessionInitInv, SessionInductive, PTL DEF SessionSpec

\* Type correctness of the session for any jobs and bounds.
THEOREM SessionTypeCorrect == SessionSpec => []SessionTypeOK
<1>1. SessionInv => SessionTypeOK
    BY DEF SessionInv, CountsTyped, WindowTyped, HandshakeRecorded, SessionTypeOK
<1> QED
    BY <1>1, SessionInvariance, PTL

\* Whatever fails and however often a watcher reconnects, the records of a session
\* are its steps in order, complete when it hears jobs, without a rejection when it
\* tries again.
THEOREM RecordsTell == SessionSpec => []RecordsTellTheSession
<1>1. SessionInv => RecordsTellTheSession
  <2> SUFFICES ASSUME SessionInv PROVE RecordsTellTheSession
      OBVIOUS
  <2>1. records \in Seq(Record) /\ DOMAIN records = 1 .. Len(records) /\ Len(records) \in Nat
      BY DEF SessionInv, HandshakeRecorded
  <2>2. Last(records) = records[Len(records)]
      BY DEF Last
  <2>3. Len(records) > 0 => records # <<>>
      BY <2>1
  <2> QED
      BY <2>1, <2>2, <2>3 DEF SessionInv, HandshakeRecorded, StageRecorded, RecordsTellTheSession
<1> QED
    BY <1>1, SessionInvariance, PTL

\* No session ever measures the block it started in, before it has left it.
THEOREM StartupUnmeasured == SessionSpec => StartupIsNotMeasured
<1> DEFINE Step == \A b \in Blocks, clean \in BOOLEAN, job \in Jobs :
                      Notify(b, clean, job) /\ Accepts(b, clean, job.transactions)
                          => moved' /\ (moved \/ b # startup)
<1>1. SessionInv /\ [SessionNext]_sessionVars => Step
  <2> SUFFICES ASSUME SessionInv,
                      NEW b \in Blocks, NEW clean \in BOOLEAN, NEW job \in Jobs,
                      Notify(b, clean, job), Accepts(b, clean, job.transactions)
               PROVE  moved' /\ (moved \/ b # startup)
      OBVIOUS
  <2>1. WindowFollows /\ moved' = (moved \/ Moves(b, clean))
      BY DEF SessionInv, Notify
  <2>2. CASE b = window.previous
      BY <2>1, <2>2 DEF Accepts, WindowFollows
  <2>3. CASE b # window.previous
      BY <2>1, <2>3 DEF Accepts, Moves, WindowFollows
  <2> QED
      BY <2>2, <2>3
<1>2. SessionInv /\ [SessionNext]_sessionVars => [Step]_sessionVars
    BY <1>1
<1>3. SessionSpec => [][Step]_sessionVars
  <2> HIDE DEF Step
  <2> QED
      BY <1>2, SessionInvariance, PTL DEF SessionSpec
<1> QED
    BY <1>3 DEF StartupIsNotMeasured

\* For any coinbases, and any number of destinations that are stored, the evidence
\* of a block accounts for every sat of the coinbase it was read from.
THEOREM SatsConserved == SessionSpec => []SatsAreConserved
<1>1. SessionInv => SatsAreConserved
    BY AnalysisConserves DEF SessionInv, EvidenceIsRead, SatsAreConserved
<1> QED
    BY <1>1, SessionInvariance, PTL
=============================================================================
