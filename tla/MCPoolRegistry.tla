--------------------------- MODULE MCPoolRegistry ---------------------------
(***************************************************************************)
(* PoolRegistry for TLC: rosters, labels and savers are interchangeable,   *)
(* as registries are only ever compared.                                   *)
(***************************************************************************)
EXTENDS PoolRegistry, TLC

Symmetry == Permutations(Rosters) \union Permutations(Labels) \union Permutations(Savers)
=============================================================================
