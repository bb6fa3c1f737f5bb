----------------------------- MODULE MCBlkMqTag -----------------------------
(* Instances of BlkMqTag for TLC. *)
EXTENDS BlkMqTag, TLC

\* Tasks and freers are interchangeable.
Symmetry == Permutations(Task) \cup Permutations(Freer)
              \cup Permutations(Hctx)
=============================================================================
