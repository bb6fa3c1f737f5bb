----------------------------- MODULE MCBlkFlush -----------------------------
(* Instances of BlkFlush for model checking. *)
EXTENDS BlkFlush, TLC

Cached == [flush_flags : {{"FLUSH"}}, flush_not_queueable : BOOLEAN]
FuaOnly == [flush : {FALSE}, fua : {TRUE}, data : {TRUE}]
Symm == Permutations(Rq)
=============================================================================
