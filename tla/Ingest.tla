------------------------------- MODULE Ingest -------------------------------
(***************************************************************************)
(* The ingest receiver and its ReplayGuard (internal/ingest).  A probe     *)
(* signs a batch with the time it sends it and may send it again, signed   *)
(* anew or not, when it has no answer; the network may deliver late or     *)
(* twice.  The guard is one map under one mutex; a request reads the clock *)
(* once, when it arrives, and appends after the guard let it pass.         *)
(***************************************************************************)
EXTENDS IngestLimits, Functions

VARIABLES
    clock,
    at,         \* where each request is in ServeHTTP
    batch,      \* the batch it carries
    stamp,      \* X-StratumStats-Timestamp
    seen,       \* now, read when it arrived
    guard,      \* ReplayGuard.batches: when each claim ends; history: whose it is
    appended,   \* requests whose append returned no error
    forgotten,  \* history: those of them that a restart has made the guard forget
    overtaken   \* history: batches whose claim was released by another request

requestVars == <<at, batch, stamp, seen>>
historyVars == <<forgotten, overtaken>>
vars == <<clock, requestVars, guard, appended, historyVars>>

NoClaims == [b \in {} |-> [until |-> 0, claimant |-> None]]

Init ==
    /\ clock = 0
    /\ at = [r \in Requests |-> "coming"]
    /\ batch = [r \in Requests |-> None]
    /\ stamp = [r \in Requests |-> 0]
    /\ seen = [r \in Requests |-> 0]
    /\ guard = NoClaims
    /\ appended = {}
    /\ forgotten = {}
    /\ overtaken = {}

\* ServeHTTP answers and returns.
Answer(r) == at' = [at EXCEPT ![r] = "done"]

\* authenticate: a stamp too far from the clock is refused.
Arrive(r, b, time) ==
    /\ at[r] = "coming"
    /\ batch' = [batch EXCEPT ![r] = b]
    /\ stamp' = [stamp EXCEPT ![r] = time]
    /\ seen' = [seen EXCEPT ![r] = clock]
    /\ IF clock - time \in -Skew .. Skew
       THEN at' = [at EXCEPT ![r] = "claim"]
       ELSE Answer(r)
    /\ UNCHANGED <<clock, guard, appended, historyVars>>

\* The signature, the body, the envelope or its revision is not accepted.
Refuse(r) ==
    /\ at[r] = "claim"
    /\ Answer(r)
    /\ UNCHANGED <<clock, batch, stamp, seen, guard, appended, historyVars>>

\* The claims that a request which arrived at that time leaves in the guard.
Unexpired(now) == {b \in DOMAIN guard : now <= guard[b].until}

\* claim(): expired claims go; the batch is a duplicate, or claimed until its
\* stamp is too old.
Claim(r) ==
    LET kept == Restrict(guard, Unexpired(seen[r]))
        claim == [until |-> stamp[r] + Skew, claimant |-> r]
    IN
    /\ at[r] = "claim"
    /\ IF batch[r] \in DOMAIN kept
       THEN guard' = kept /\ Answer(r)
       ELSE /\ guard' = [b \in DOMAIN kept \union {batch[r]} |->
                            IF b = batch[r] THEN claim ELSE kept[b]]
            /\ at' = [at EXCEPT ![r] = "append"]
    /\ UNCHANGED <<clock, batch, stamp, seen, appended, historyVars>>

\* Append returns nil.
AppendSucceeds(r) ==
    /\ at[r] = "append"
    /\ at' = [at EXCEPT ![r] = "reply"]
    /\ appended' = appended \union {r}
    /\ UNCHANGED <<clock, batch, stamp, seen, guard, historyVars>>

\* Mutant of AppendFails: the claim is kept.
FailsUnreleased(r) ==
    /\ "failure" \in May
    /\ at[r] = "append"
    /\ Answer(r)
    /\ UNCHANGED <<clock, batch, stamp, seen, guard, appended, historyVars>>

\* Append returns an error: release() deletes the claim on the batch, whose
\* ever it is by now, so that the probe may try again.
AppendFails(r) ==
    /\ "failure" \in May
    /\ at[r] = "append"
    /\ guard' = Restrict(guard, DOMAIN guard \ {batch[r]})
    /\ overtaken' = overtaken \union
            {b \in DOMAIN guard \cap {batch[r]} : guard[b].claimant # r}
    /\ Answer(r)
    /\ UNCHANGED <<clock, batch, stamp, seen, appended, forgotten>>

\* 202 is written.
Accept(r) ==
    /\ at[r] = "reply"
    /\ Answer(r)
    /\ UNCHANGED <<clock, batch, stamp, seen, guard, appended, historyVars>>

\* The server dies and is started again: the guard is empty, requests are cut off.
Restart ==
    /\ "restart" \in May
    /\ at' = [r \in Requests |-> IF at[r] = "coming" THEN "coming" ELSE "done"]
    /\ guard' = NoClaims
    /\ forgotten' = appended
    /\ UNCHANGED <<clock, batch, stamp, seen, appended, overtaken>>

Tick ==
    /\ clock < MaxClock
    /\ clock' = clock + 1
    /\ UNCHANGED <<requestVars, guard, appended, historyVars>>

Next ==
    \/ \E r \in Requests :
        \/ \E b \in Batches, time \in 0 .. MaxClock : Arrive(r, b, time)
        \/ Refuse(r) \/ Claim(r) \/ AppendSucceeds(r) \/ AppendFails(r) \/ Accept(r)
    \/ Restart
    \/ Tick

Spec == Init /\ [][Next]_vars
-----------------------------------------------------------------------------
\* Types; a request past the guard carries a batch.
TypeOK ==
    /\ clock \in 0 .. MaxClock
    /\ at \in [Requests -> {"coming", "claim", "append", "reply", "done"}]
    /\ batch \in [Requests -> Batches \union {None}]
    /\ \A r \in Requests : at[r] \in {"claim", "append", "reply"} => batch[r] \in Batches
    /\ stamp \in [Requests -> 0 .. MaxClock]
    /\ seen \in [Requests -> 0 .. MaxClock]
    /\ DOMAIN guard \subseteq Batches
    /\ \A b \in DOMAIN guard : guard[b] \in [until : 0 .. MaxClock + Skew, claimant : Requests]
    /\ appended \subseteq Requests
    /\ forgotten \subseteq appended
    /\ overtaken \subseteq Batches

\* A batch is turned away as a duplicate only while another delivery of it is
\* being appended, or once one was: a failed append, whatever overtook it, never
\* leaves a claim behind that would keep the probe from trying again.
NoPhantomClaim ==
    \A b \in DOMAIN guard :
        \E r \in Requests : batch[r] = b /\ (at[r] = "append" \/ r \in appended)

\* Both signatures are still good.
BothValid(q, r) == clock <= stamp[q] + Skew /\ clock <= stamp[r] + Skew

\* An append of a batch that another delivery has appended, while the stamps of
\* both are good and the server has not been restarted in between.
Repeats(r) ==
    /\ at[r] = "append" /\ at'[r] = "reply"
    /\ \E q \in appended \ forgotten : batch[q] = batch[r] /\ BothValid(q, r)

\* The same batch is appended again only when one of its stamps has run out, when
\* the server was restarted, or when a delivery that failed after its own claim
\* had run out released the claim of another.
OnceUnlessOvertaken ==
    [][\A r \in Requests : Repeats(r) => batch[r] \in overtaken]_vars
=============================================================================
