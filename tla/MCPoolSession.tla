--------------------------- MODULE MCPoolSession ---------------------------
(***************************************************************************)
(* PoolSession for TLC: sums are at most 15, one destination is stored.    *)
(* The jobs: a coinbase that pays the worker, a destination twice and      *)
(* another one; one that pays nobody else, without transactions; one whose *)
(* sum overflows; and one with an unsound header.                          *)
(***************************************************************************)
EXTENDS PoolSession

Output(value, script) == [value |-> value, script |-> script]
Job(transactions, sound, outputs) ==
    [transactions |-> transactions, sound |-> sound,
     coinbase |-> [whole |-> TRUE, outputs |-> outputs]]

Split == <<Output(3, 1), Output(2, Worker), Output(4, 2), Output(0, 3), Output(3, 1)>>

MCJobs == {Job(TRUE, TRUE, Split),
           Job(FALSE, TRUE, <<Output(5, Worker), Output(0, Worker)>>),
           Job(TRUE, TRUE, <<Output(8, 1), Output(8, 2)>>),
           Job(FALSE, FALSE, Split)}
=============================================================================
