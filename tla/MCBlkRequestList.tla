-------------------------- MODULE MCBlkRequestList --------------------------
(* Instances of BlkRequestList for model checking. *)
EXTENDS BlkRequestList, TLC

\* Synchronous calls that may or may not wait, and an asynchronous one that
\* waits and does not use the elevator.
MixedCalls == {[sync |-> 1, wait |-> TRUE, elv |-> TRUE],
               [sync |-> 1, wait |-> FALSE, elv |-> TRUE],
               [sync |-> 0, wait |-> TRUE, elv |-> FALSE]}
=============================================================================
