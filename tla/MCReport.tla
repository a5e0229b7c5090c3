------------------------------ MODULE MCReport ------------------------------
(***************************************************************************)
(* Scores for TLC: four endpoints of three pools, two of them solo pools.  *)
(* A broad miss is one of two pools and 60% of the endpoints, so that two  *)
(* of three are one and two of four are not.                               *)
(***************************************************************************)
EXTENDS Scores, TLC
CONSTANTS a, b, c, d

MCPoolOf == (a :> 1) @@ (b :> 2) @@ (c :> 3) @@ (d :> 3)
MCRosters == {{a, b, c, d}, {a, b, c}}
Symmetry == Permutations(Regions \ Collectors) \cup Permutations(Blocks)

Coinbase(sound, worker, other) ==
  [sound    |-> sound,
   coinbase |-> [whole |-> TRUE, outputs |-> <<[value |-> worker, script |-> Worker],
                                               [value |-> other, script |-> 1]>>]]
Timing(method, status, ms) == [method |-> method, status |-> status, ms |-> ms, ago |-> 0]
Sample(endpoint, received, setup, coinbase) ==
  [endpoint |-> endpoint, received |-> received, setup |-> setup, coinbase |-> coinbase]

\* A block that d delivers first, without paying the miner, and a, which is listed
\* before it, later, while b misses it and c presents an invalid certificate; a
\* block only a delivers, with another fee, and which only endpoints of one pool
\* miss; and a sample that is refused: it has a TLS handshake of a plain endpoint.
MCSamples ==
  {[targets |-> {a, b, c, d},
    entries |-> <<Sample(a, {310}, {Timing("connect", "ok", 100)}, {Coinbase(TRUE, 98, 2)}),
                  Sample(c, {}, {Timing("tls_handshake", "certificate_invalid", 40)}, {}),
                  Sample(d, {10}, {}, {Coinbase(TRUE, 0, 9)})>>],
   [targets |-> {a, c, d}, entries |-> <<Sample(a, {0}, {}, {Coinbase(TRUE, 95, 5)})>>],
   [targets |-> {a, c, d}, entries |-> <<Sample(a, {0}, {Timing("tls_handshake", "ok", 40)}, {})>>]}

\* The last of them is refused.
MCOutcomes ==
  {validateBlockEnvelope(s.entries, s.targets) :
     s \in {x \in MCSamples : Valid(x.entries, x.targets)}}

ASSUME RefusalAssumption == Cardinality(MCSamples) = 3 /\ Cardinality(MCOutcomes) = 2
=============================================================================
