---------------------------- MODULE MCBlkSoftirq ----------------------------
(* Instances of BlkSoftirq for model checking: three cpus, two of which    *)
(* share a cache, or two that do not.                                      *)
EXTENDS BlkSoftirq, TLC

CONSTANTS c1, c2, c3
ThreeCpus == (c1 :> "a" @@ c2 :> "a" @@ c3 :> "b")
TwoCpus == (c1 :> "a" @@ c2 :> "b")
Symm == Permutations(Rq)
=============================================================================
