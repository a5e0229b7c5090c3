---------------------------- MODULE IngestService ----------------------------
(***************************************************************************)
(* The ingest handler as the server runs it (buildRegistry in              *)
(* internal/app/app.go): a receiver behind a rate limiter of its own, and  *)
(* one ReplayGuard shared by all of them.  When the registry changes, a    *)
(* new handler takes the place of the old one, with a full bucket; the     *)
(* requests that the old one has admitted go on in it.                     *)
(***************************************************************************)
EXTENDS IngestLimits, Functions

CONSTANT MaxSwaps  \* bound on the registry changes

VARIABLES
    clock,
    tokens, last, inFlight, serving, windowFrom, spent,                \* the limiter in use
    at, batch, stamp, seen, guard, appended, forgotten, overtaken,  \* the receivers
    inside,  \* requests that a limiter, this one or an older one, has admitted
    swaps    \* handlers replaced so far

limiterVars == <<tokens, last, inFlight, serving, windowFrom, spent>>
receiverVars == <<at, batch, stamp, seen, guard, appended, forgotten, overtaken>>
vars == <<clock, limiterVars, receiverVars, inside, swaps>>

Limiter == INSTANCE RateLimiter
Receiver == INSTANCE Ingest

Init == Limiter!Init /\ Receiver!Init /\ inside = {} /\ swaps = 0

\* The limiter lets a request pass to its receiver.
Admit(r) ==
    /\ at[r] = "coming" /\ r \notin inside
    /\ Limiter!Admit(r)
    /\ inside' = inside \union {r}
    /\ UNCHANGED <<receiverVars, swaps>>

\* The limiter answers 429; the probe may try again.
TurnAway(r) ==
    /\ at[r] = "coming" /\ r \notin inside
    /\ Limiter!Refuse(r)
    /\ UNCHANGED <<receiverVars, inside, swaps>>

\* A step of the receiver with an admitted request.
Receive(r) ==
    /\ r \in inside
    /\ \/ \E b \in Batches, time \in 0 .. MaxClock : Receiver!Arrive(r, b, time)
       \/ Receiver!Refuse(r) \/ Receiver!Claim(r) \/ Receiver!AppendSucceeds(r)
       \/ Receiver!AppendFails(r) \/ Receiver!Accept(r)
    /\ UNCHANGED <<limiterVars, inside, swaps>>

\* The receiver has returned: its limiter is told, which may be a replaced one.
Leave(r) ==
    /\ r \in inside /\ at[r] = "done"
    /\ inside' = inside \ {r}
    /\ IF r \in serving
       THEN Limiter!Release(r)
       ELSE UNCHANGED <<clock, limiterVars>>
    /\ UNCHANGED <<receiverVars, swaps>>

\* newRateLimitedHandler: a full bucket and nobody inside.
NewLimiter ==
    /\ tokens' = Burst
    /\ last' = clock
    /\ inFlight' = 0
    /\ serving' = {}
    /\ windowFrom' = clock
    /\ spent' = 0

\* Mutant of Swap: every handler gets a ReplayGuard of its own.
SwapGuard ==
    /\ swaps < MaxSwaps
    /\ swaps' = swaps + 1
    /\ NewLimiter
    /\ guard' = Receiver!NoClaims
    /\ UNCHANGED <<clock, at, batch, stamp, seen, appended, forgotten, overtaken, inside>>

\* The registry has changed: a new handler with a limiter of its own, the same guard.
Swap ==
    /\ swaps < MaxSwaps
    /\ swaps' = swaps + 1
    /\ NewLimiter
    /\ UNCHANGED <<clock, receiverVars, inside>>

\* The server dies and is started again.
Restart ==
    /\ Receiver!Restart
    /\ NewLimiter
    /\ inside' = {}
    /\ UNCHANGED swaps

\* Time passes, or somebody begins to watch the limiter.
Tick == Receiver!Tick /\ UNCHANGED <<limiterVars, inside, swaps>>
Watch == Limiter!Watch /\ UNCHANGED <<receiverVars, inside, swaps>>

Next ==
    \/ \E r \in Requests : Admit(r) \/ TurnAway(r) \/ Receive(r) \/ Leave(r)
    \/ Swap \/ Restart \/ Tick \/ Watch

Spec == Init /\ [][Next]_vars
-----------------------------------------------------------------------------
\* Whatever the receiver does with its requests, the handler in use admits in every
\* window of time at most a full bucket and what refills meanwhile.
RateHolds == Limiter!RateHolds

\* Every request that ends makes room in the handler that admitted it and in no
\* other: requests that outlive their handler never widen or narrow the next one.
ConcurrencyHolds == Limiter!ConcurrencyHolds

\* A batch is turned away as a duplicate only while another delivery of it is being
\* appended, or once one was, by this handler or an older one: a failed append never
\* leaves a claim behind that would keep the probe from trying again.
NoPhantomClaim == Receiver!NoPhantomClaim

\* The same batch is appended again only when one of its stamps has run out, when
\* the server was restarted, or when a delivery that failed after its own claim had
\* run out released the claim of another; a change of the registry is no reason.
OnceUnlessOvertaken == [][\A r \in Requests : Receiver!Repeats(r) => batch[r] \in overtaken]_vars
=============================================================================
