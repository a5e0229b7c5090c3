---------------------------- MODULE PoolSession ----------------------------
(***************************************************************************)
(* One watcher of internal/probe: watch() opens session after session to   *)
(* an endpoint; a session measures each step of the Stratum handshake, and *)
(* then lets the jobs of a notify window through to the collector, which   *)
(* is Collector.tla.  Of its records only what they say about this         *)
(* endpoint is kept.                                                       *)
(***************************************************************************)
EXTENDS ProbeBlocks, Coinbase, SequencesExt

CONSTANTS
    Jobs,       \* what else a job may say
    Tls,        \* whether the endpoint is a TLS endpoint
    MaxBackoff, \* the longest wait between sessions, in multiples of the first
    MaxSessions,\* bound on the sessions
    MaxJobs     \* bound on the jobs of a session

ASSUME TlsAssumption == Tls \in BOOLEAN
ASSUME BoundsAssumption == MaxSessions \in Nat \ {0} /\ MaxJobs \in Nat
ASSUME MaxBackoffAssumption == MaxBackoff \in Nat \ {0}
ASSUME JobsAssumption == Jobs \subseteq [transactions : BOOLEAN, sound : BOOLEAN, coinbase : Coinbases]

\* The steps of a handshake, each of which is measured.
Handshake == IF Tls THEN <<"connect", "tls", "subscribe", "authorize">>
                    ELSE <<"connect", "subscribe", "authorize">>

VARIABLES
    stage,      \* where the watcher is
    backoff,    \* how long it waits next
    records,    \* protocol records of this session: step and status
    window,     \* notifyWindow of this session
    payout,     \* evidence of the job by which each block arrived at the collector
    empty,      \* blocks it has EmptyFirst for
    sessions,   \* sessions so far
    jobs,       \* jobs in this session
    startup,    \* history: the block of the first job of this session
    moved       \* history: the pool has moved to another block since, cleanly

windowVars == <<window, startup, moved>>
evidenceVars == <<payout, empty>>
sessionVars == <<stage, backoff, records, windowVars, evidenceVars, sessions, jobs>>

NewWindow == [previous |-> None, active |-> FALSE, transactionJobSent |-> FALSE]

SessionInit ==
    /\ stage = "connect"
    /\ backoff = 1
    /\ records = <<>>
    /\ window = NewWindow
    /\ payout = [b \in {} |-> Unreadable]
    /\ empty = {}
    /\ sessions = 1
    /\ jobs = 0
    /\ startup = None
    /\ moved = FALSE
-----------------------------------------------------------------------------
\* publishProtocol: the step that is under way gets its record.
Publish(status) == records' = Append(records, [step |-> stage, status |-> status])

\* A step succeeds; after the last one the session is online.
StepSucceeds ==
    /\ stage \in ToSet(Handshake)
    /\ Publish("ok")
    /\ stage' = IF Len(records) + 1 < Len(Handshake) THEN Handshake[Len(records) + 2] ELSE "online"
    /\ UNCHANGED <<backoff, windowVars, evidenceVars, sessions, jobs>>

\* Mutant of StepFails: the handshake goes on after a failed step.
StepFailsOn ==
    /\ stage \in ToSet(Handshake)
    /\ Publish("error")
    /\ stage' = IF Len(records) + 1 < Len(Handshake) THEN Handshake[Len(records) + 2] ELSE "online"
    /\ UNCHANGED <<backoff, windowVars, evidenceVars, sessions, jobs>>

\* A step fails, times out or is answered by something invalid: the session ends.
StepFails ==
    /\ stage \in ToSet(Handshake)
    /\ \E status \in {"error", "timeout"} : Publish(status)
    /\ stage' = "waiting"
    /\ UNCHANGED <<backoff, windowVars, evidenceVars, sessions, jobs>>

\* The pool rejects the subscription or the worker: errPoolRejected, no retry.
Rejected ==
    /\ stage \in {"subscribe", "authorize"}
    /\ Publish("rejected")
    /\ stage' = "gone"
    /\ UNCHANGED <<backoff, windowVars, evidenceVars, sessions, jobs>>

\* The connection is lost.
Disconnected ==
    /\ stage = "online"
    /\ stage' = "waiting"
    /\ UNCHANGED <<backoff, records, windowVars, evidenceVars, sessions, jobs>>

\* The context is done: whatever the watcher does, it returns, and a record it
\* was about to publish may be lost.
Cancelled ==
    /\ stage # "gone"
    /\ stage' = "gone"
    /\ UNCHANGED <<backoff, records, windowVars, evidenceVars, sessions, jobs>>

\* Mutant of Reconnect: the notify window is kept from session to session.
ReconnectWithWindow ==
    /\ stage = "waiting"
    /\ sessions < MaxSessions
    /\ sessions' = sessions + 1
    /\ backoff' = IF backoff * 2 > MaxBackoff THEN MaxBackoff ELSE backoff * 2
    /\ stage' = "connect"
    /\ records' = <<>>
    /\ startup' = None
    /\ moved' = FALSE
    /\ jobs' = 0
    /\ UNCHANGED <<window, evidenceVars>>

\* After the wait, which doubles each time and never shrinks again, watch()
\* opens another session with everything new.
Reconnect ==
    /\ stage = "waiting"
    /\ sessions < MaxSessions
    /\ sessions' = sessions + 1
    /\ backoff' = IF backoff * 2 > MaxBackoff THEN MaxBackoff ELSE backoff * 2
    /\ stage' = "connect"
    /\ records' = <<>>
    /\ window' = NewWindow
    /\ startup' = None
    /\ moved' = FALSE
    /\ jobs' = 0
    /\ UNCHANGED evidenceVars

\* A job for another block than the last, announced as clean.
Moves(b, clean) == window.previous # None /\ b # window.previous /\ clean

\* The window after accept().
AfterAccept(b, clean, transactions) ==
    IF window.previous = None THEN [window EXCEPT !.previous = b]
    ELSE IF b # window.previous /\ ~clean THEN window
    ELSE LET moved2 == IF Moves(b, clean)
                       THEN [previous |-> b, active |-> TRUE, transactionJobSent |-> FALSE]
                       ELSE window
         IN [moved2 EXCEPT !.transactionJobSent = @ \/ (moved2.active /\ transactions)]

\* What accept() answers.
Accepts(b, clean, transactions) ==
    /\ window.previous # None
    /\ b = window.previous => window.active /\ ~(transactions /\ window.transactionJobSent)
    /\ b # window.previous => clean

\* mining.notify.  A job that is let through is verified and reaches recordBlockEvent:
\* without transactions it marks the block, and the block arrives by the first job
\* that is sound and whose coinbase can be read.
Notify(b, clean, job) ==
    LET evidence == VerifyJob(job) IN
    /\ stage = "online"
    /\ jobs < MaxJobs
    /\ jobs' = jobs + 1
    /\ window' = AfterAccept(b, clean, job.transactions)
    /\ startup' = IF window.previous = None THEN b ELSE startup
    /\ moved' = (moved \/ Moves(b, clean))
    /\ IF Accepts(b, clean, job.transactions)
       THEN /\ empty' = IF job.transactions THEN empty ELSE empty \union {b}
            /\ payout' = [c \in DOMAIN payout \union (IF evidence.decoded THEN {b} ELSE {}) |->
                             IF c \in DOMAIN payout THEN payout[c] ELSE evidence]
       ELSE UNCHANGED evidenceVars
    /\ UNCHANGED <<stage, backoff, records, sessions>>

SessionNext ==
    \/ StepSucceeds \/ StepFails \/ Rejected
    \/ Disconnected \/ Cancelled \/ Reconnect
    \/ \E b \in Blocks, clean \in BOOLEAN, job \in Jobs : Notify(b, clean, job)

SessionSpec == SessionInit /\ [][SessionNext]_sessionVars
-----------------------------------------------------------------------------
\* Types.
SessionTypeOK ==
    /\ stage \in ToSet(Handshake) \union {"online", "waiting", "gone"}
    /\ backoff \in 1 .. MaxBackoff
    /\ Len(records) <= Len(Handshake)
    /\ window.previous \in Blocks \union {None}
    /\ window.active \in BOOLEAN /\ window.transactionJobSent \in BOOLEAN
    /\ DOMAIN payout \subseteq Blocks
    /\ empty \subseteq Blocks
    /\ sessions \in 1 .. MaxSessions
    /\ jobs \in 0 .. MaxJobs
    /\ startup \in Blocks \union {None}
    /\ moved \in BOOLEAN

\* The protocol records of a session tell how far it got: the steps in order, one
\* record each, all of them successful but perhaps the last; jobs are only heard
\* after a complete handshake; and a watcher that waits to try again was not
\* rejected.
RecordsTellTheSession ==
    /\ \A i \in DOMAIN records : records[i].step = Handshake[i]
    /\ \A i \in DOMAIN records : i < Len(records) => records[i].status = "ok"
    /\ stage = "online" => Len(records) = Len(Handshake) /\ Last(records).status = "ok"
    /\ stage = "waiting" => records # <<>> /\ Last(records).status # "rejected"

\* Startup timing never passes for block propagation: a job is let through only
\* after its connection has seen the pool move to another block, so that the block
\* a session (the first or a later one) starts in is not measured by it unless the
\* pool has left it in between.
StartupIsNotMeasured ==
    [][\A b \in Blocks, clean \in BOOLEAN, job \in Jobs :
          Notify(b, clean, job) /\ Accepts(b, clean, job.transactions)
              => moved' /\ (moved \/ b # startup)]_sessionVars

\* The evidence that is reported for a block accounts for every sat of the coinbase
\* it was read from, however its outputs were merged, left out or cut off.
SatsAreConserved == \A b \in DOMAIN payout : Conserved(payout[b])
=============================================================================
