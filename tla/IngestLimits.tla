---------------------------- MODULE IngestLimits ----------------------------
(***************************************************************************)
(* The constants of the ingest handler, its rate limiter and its receiver  *)
(* (internal/ingest), and what is assumed of them.                         *)
(***************************************************************************)
EXTENDS Integers, FiniteSets

CONSTANTS
    Requests,       \* requests that may be in the handler at the same time
    Token,          \* units one admission costs the limiter
    Burst,          \* units the bucket holds
    MaxConcurrent,  \* requests a limiter lets in at a time
    Batches,        \* batch ids, all of one key
    None,           \* no batch
    Skew,           \* ticks a signature is valid before and after its stamp
    May,            \* what may happen beside requests: failures, restarts
    MaxClock        \* bound on the clock

ASSUME RequestsAssumption == IsFiniteSet(Requests)
ASSUME TokenAssumption == Token \in Nat \ {0}
ASSUME BurstAssumption == Burst \in Nat
ASSUME MaxConcurrentAssumption == MaxConcurrent \in Nat
ASSUME NoneAssumption == None \notin Batches
ASSUME SkewAssumption == Skew \in Nat
ASSUME MayAssumption == May \subseteq {"failure", "restart"}
ASSUME MaxClockAssumption == MaxClock \in Nat
=============================================================================
