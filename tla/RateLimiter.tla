----------------------------- MODULE RateLimiter -----------------------------
(***************************************************************************)
(* The token bucket in front of the ingest receiver (internal/ingest).     *)
(* A tick of the clock is the time one unit takes to refill and a token is *)
(* Token units, so that the rate of the code is one unit a tick: the float *)
(* arithmetic of the bucket is exact here.                                 *)
(***************************************************************************)
EXTENDS IngestLimits

VARIABLES
    clock,      \* what limiter.now() returns
    tokens,     \* limiter.tokens, in units
    last,       \* limiter.last
    inFlight,   \* limiter.inFlight
    serving,    \* requests inside next.ServeHTTP
    windowFrom, \* history: when somebody began to watch the limiter
    spent       \* history: units spent on admissions since then

vars == <<clock, tokens, last, inFlight, serving, windowFrom, spent>>

AtMost(a, b) == IF a <= b THEN a ELSE b

\* What the bucket is worth now: acquire() credits the time since last first.
Credit == AtMost(Burst, tokens + (clock - last))

Init ==
    /\ clock = 0
    /\ tokens = Burst
    /\ last = 0
    /\ inFlight = 0
    /\ serving = {}
    /\ windowFrom = 0
    /\ spent = 0

\* acquire() admits: the time since last is credited, up to the burst, and a token spent.
Admit(request) ==
    /\ request \notin serving
    /\ inFlight < MaxConcurrent
    /\ Credit >= Token
    /\ tokens' = Credit - Token
    /\ last' = clock
    /\ inFlight' = inFlight + 1
    /\ serving' = serving \union {request}
    /\ spent' = spent + Token
    /\ UNCHANGED <<clock, windowFrom>>

\* Mutant of Refuse: the credit is added but last does not move.
RefuseKeepsLast(request) ==
    /\ request \notin serving
    /\ inFlight >= MaxConcurrent \/ Credit < Token
    /\ tokens' = Credit
    /\ UNCHANGED <<clock, last, inFlight, serving, windowFrom, spent>>

\* acquire() refuses with 429: the credit is kept, nothing is spent.
Refuse(request) ==
    /\ request \notin serving
    /\ inFlight >= MaxConcurrent \/ Credit < Token
    /\ tokens' = Credit
    /\ last' = clock
    /\ UNCHANGED <<clock, inFlight, serving, windowFrom, spent>>

\* Mutant of Release: a request that panics never gives its place back.
ReleaseNothing(request) ==
    /\ request \in serving
    /\ serving' = serving \ {request}
    /\ UNCHANGED <<clock, tokens, last, inFlight, windowFrom, spent>>

\* The deferred release(), however the request ended.
Release(request) ==
    /\ request \in serving
    /\ inFlight' = inFlight - 1
    /\ serving' = serving \ {request}
    /\ UNCHANGED <<clock, tokens, last, windowFrom, spent>>

\* Time passes.
Tick ==
    /\ clock < MaxClock
    /\ clock' = clock + 1
    /\ UNCHANGED <<tokens, last, inFlight, serving, windowFrom, spent>>

\* A window of observation may begin at any time.
Watch ==
    /\ windowFrom' = clock
    /\ spent' = 0
    /\ UNCHANGED <<clock, tokens, last, inFlight, serving>>

Next ==
    \/ \E request \in Requests : Admit(request) \/ Refuse(request) \/ Release(request)
    \/ Tick
    \/ Watch

Spec == Init /\ [][Next]_vars
-----------------------------------------------------------------------------
\* Types; the clock of the bucket is never ahead of the clock.
TypeOK ==
    /\ clock \in 0 .. MaxClock
    /\ tokens \in 0 .. Burst
    /\ last \in 0 .. clock
    /\ inFlight \in Int
    /\ serving \in SUBSET Requests
    /\ windowFrom \in 0 .. clock
    /\ spent \in Nat

\* Whenever one begins to watch, what is admitted from then on, together with what
\* could be admitted at once, is at most a full bucket and what refilled meanwhile:
\* the rate limit holds in every window of time, not only since the start.
RateHolds == spent + Credit <= Burst + (clock - windowFrom)

\* The counter is the number of requests being served and respects the maximum,
\* so a request that ends always makes room for one and never for two.
ConcurrencyHolds ==
    /\ inFlight = Cardinality(serving)
    /\ inFlight <= MaxConcurrent

\* Only an admission lowers the credit: a refused request costs nobody anything,
\* so retrying early never delays the next admission.
OnlyAdmissionsCost ==
    [][Credit' < Credit => spent' = spent + Token /\ Credit' = Credit - Token]_vars
=============================================================================
