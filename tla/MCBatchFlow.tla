----------------------------- MODULE MCBatchFlow -----------------------------
(***************************************************************************)
(* Batches for TLC: prompts, copies of each, sp ranks, sequence lengths.   *)
(* The first ones meet every way of balancing, unequal needs of the ranks, *)
(* sequence parallelism and a batch that cannot be divided; the last one   *)
(* is three sequences of one length for every rank.                        *)
(***************************************************************************)
EXTENDS BatchFlow

Shape(p, n, u, l) == [prompts |-> p, n |-> n, sp |-> u, lens |-> l]

MCShapes == {Shape(4, 2, 1, {1, 4}), Shape(3, 2, 1, {2, 5}),
             Shape(2, 2, 2, {1, 3, 5}), Shape(3, 1, 1, {1})}
MCEqualShapes == {Shape(3, 2, 1, {3})}
=============================================================================
