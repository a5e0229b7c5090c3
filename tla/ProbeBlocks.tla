----------------------------- MODULE ProbeBlocks -----------------------------
(***************************************************************************)
(* The blocks a probe hears of, for its watchers (PoolSession) and for the *)
(* collector they report to (Collector).  A block is named by the previous *)
(* hash in a job.                                                          *)
(***************************************************************************)
CONSTANTS
    Blocks,     \* previous hashes a pool may announce
    None        \* no block, and nothing else either: no event, no time

ASSUME NoneAssumption == None \notin Blocks
=============================================================================
