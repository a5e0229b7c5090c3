------------------------------ MODULE Envelope ------------------------------
(***************************************************************************)
(* What the receiver makes of a forwarded block sample (Receiver.validate- *)
(* BlockEnvelope in internal/ingest/ingest.go).  A probe forwards entries: *)
(* an endpoint, the instant it was first heard of the block, the setups of *)
(* its connection since the last block, and a coinbase; each may be absent *)
(* and is a set of at most one element here, the setups a set.  The status *)
(* of a setup is "certificate_invalid" for an error of that category.      *)
(* Instants are milliseconds since the block; all of them lie within one   *)
(* unit of the clock that records are stamped with.                        *)
(***************************************************************************)
EXTENDS Coinbase

CONSTANT TlsEndpoints  \* endpoints that are reached over TLS

Methods == {"connect", "tls_handshake", "subscribe", "authorize"}
Timings == [method : Methods, status : STRING, ms : Nat, ago : Int]

Named(entries) == {entries[i].endpoint : i \in DOMAIN entries}
Entry(entries, e) == entries[CHOOSE i \in DOMAIN entries : entries[i].endpoint = e]
Arrivals(entries) == {e \in Named(entries) : Entry(entries, e).received # {}}

ReceivedAt(entries, e) == Min(Entry(entries, e).received)

\* validateEndpointSetup: a plain endpoint has no TLS handshake.
ValidSetup(entry) ==
    \A timing \in entry.setup : timing.method = "tls_handshake" => entry.endpoint \in TlsEndpoints

\* The sample is not refused: every entry names another of the endpoints the probe
\* was to measure and says something, and one of them arrived.
Valid(entries, targets) ==
    /\ Named(entries) \subseteq targets
    /\ \A i, j \in DOMAIN entries : entries[i].endpoint = entries[j].endpoint => i = j
    /\ \A i \in DOMAIN entries :
        /\ ValidSetup(entries[i])
        /\ entries[i].received # {} \/ entries[i].setup # {}
    /\ Arrivals(entries) # {}

\* Mutant of FirstArrival: the entries are taken to be in the order of their arrival.
FirstListed(entries) ==
    ReceivedAt(entries, entries[Min({i \in DOMAIN entries : entries[i].received # {}})].endpoint)

FirstArrival(entries) == Min({ReceivedAt(entries, e) : e \in Arrivals(entries)})

\* The sample of an endpoint: its offset, and evidence of an arrival whose coinbase
\* can be read.  "received" is history, the code does not keep it.
derived(entries, entry) ==
    [endpoint |-> entry.endpoint, received |-> entry.received, setup |-> entry.setup,
     offset |-> {t - FirstArrival(entries) : t \in entry.received},
     payout |-> IF entry.received = {} THEN {}
                ELSE {p \in {AnalyzeCoinbaseSource(c) : c \in entry.coinbase} : p.decoded}]

\* The record that is appended: who was to be measured, who arrived, and what the
\* sample says of each endpoint it names.
validateBlockEnvelope(entries, targets) ==
    [eligible |-> targets,
     arrived  |-> Arrivals(entries),
     facts    |-> {derived(entries, entries[i]) : i \in DOMAIN entries}]
=============================================================================
