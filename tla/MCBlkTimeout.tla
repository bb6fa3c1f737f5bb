---------------------------- MODULE MCBlkTimeout ----------------------------
(* Instances of BlkTimeout for model checking. *)
EXTENDS BlkTimeout, TLC

Symm == Permutations(Rq)
=============================================================================
