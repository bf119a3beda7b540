---------------------------- MODULE MCBlockQueue ----------------------------
(* Module BlockQueue for TLC.                                              *)
EXTENDS BlockQueue, TLC

Interchangeable == Permutations(Thread) \union Permutations(Item)
=============================================================================
