------------------------------ MODULE Coinbase ------------------------------
(***************************************************************************)
(* What a probe, or the server for it, reads out of the coinbase of a job  *)
(* (coinbase.go and jobverify.go in internal/probe).  Bytes are abstracted *)
(* to what they say: a coinbase is whole if its counts and lengths fit and *)
(* nothing is left over, and it has outputs, each a value and a script.    *)
(* Scripts are numbers, in the order of their hexadecimal digits.          *)
(***************************************************************************)
EXTENDS Integers, Sequences, FiniteSetsExt

CONSTANTS
    MaxSats,   \* the largest value of a uint64
    MaxStored, \* maxCoinbaseOutputsStored
    Worker     \* the script of the wallet the probe mines to

ASSUME WordAssumption == MaxSats \in Nat /\ MaxStored \in Nat
ASSUME WorkerAssumption == Worker \in Nat

Coinbases == [whole : BOOLEAN, outputs : Seq([value : 0 .. MaxSats, script : Nat])]

Unreadable == [decoded |-> FALSE]

Sats(outputs, I) == MapThenSumSet(LAMBDA i : outputs[i].value, I)

Worth(destinations) == MapThenSumSet(LAMBDA d : d.value, destinations)

\* Outputs without a value are neither the worker's nor a destination.
Paying(outputs) == {i \in DOMAIN outputs : outputs[i].value > 0}
PaidTo(outputs, script) == {i \in Paying(outputs) : outputs[i].script = script}

\* Outputs to the same script are one destination; the worker's is none.
Destinations(outputs) ==
    {[script |-> s, value |-> Sats(outputs, PaidTo(outputs, s))] :
        s \in {outputs[i].script : i \in Paying(outputs)} \ {Worker}}

Before(c, d) == c.value > d.value \/ (c.value = d.value /\ c.script < d.script)

Stored(all) == {d \in all : Cardinality({c \in all : Before(c, d)}) < MaxStored}

\* Mutant of Omitted: outputs are counted and not destinations.
OmittedOutputs(outputs) == Sats(outputs, {i \in DOMAIN outputs : i > MaxStored})

\* The sats of the destinations that are not stored.
Omitted(outputs) ==
    LET all == Destinations(outputs)
    IN  Worth(all \ Stored(all))

\* analyzeCoinbaseWithWorkerHash, and the fee its callers derive from it, in
\* hundredths of a per cent.
analyzeCoinbase(coinbase) ==
    LET outputs == coinbase.outputs
        total   == Sats(outputs, DOMAIN outputs)
        worker  == Sats(outputs, PaidTo(outputs, Worker))
        seen    == PaidTo(outputs, Worker) # {}
    IN
    IF ~coinbase.whole \/ outputs = <<>> \/ total > MaxSats THEN Unreadable
    ELSE [decoded |-> TRUE, total |-> total, worker |-> worker, seen |-> seen,
          stored |-> Stored(Destinations(outputs)), omitted |-> Omitted(outputs),
          fee |-> IF seen THEN {(10000 * (total - worker)) \div total} ELSE {}]

\* VerifyJob: only a job whose header fields are sound has its coinbase read.
VerifyJob(job) == IF job.sound THEN analyzeCoinbase(job.coinbase) ELSE Unreadable

\* AnalyzeCoinbaseSource, for what a remote probe forwards: hexadecimal parts,
\* none of them empty, a second extranonce of 1 to 32 bytes, a script hash.
AnalyzeCoinbaseSource(source) ==
    IF source.sound THEN analyzeCoinbase(source.coinbase) ELSE Unreadable

\* Nothing a coinbase pays out is lost or counted twice, whatever is merged, left
\* out or cut off; the worker's script is never kept; and nothing is cut off while
\* there is room.
Conserved(evidence) ==
    /\ evidence.total = evidence.worker + evidence.omitted + Worth(evidence.stored)
    /\ \A d \in evidence.stored : d.script # Worker
    /\ evidence.omitted > 0 => Cardinality(evidence.stored) = MaxStored
=============================================================================
