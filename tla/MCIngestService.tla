--------------------------- MODULE MCIngestService ---------------------------
(***************************************************************************)
(* IngestService for TLC: deliveries are alike, and so are batches.  The   *)
(* run checks safety only, for which the symmetry is sound.                *)
(***************************************************************************)
EXTENDS IngestService, TLC

Symmetry == Permutations(Requests) \union Permutations(Batches)
=============================================================================
