------------------------ MODULE MCBlkTimeoutLatency ------------------------
(* The instance on which BlkTimeout keeps its time: TLC evaluates, on the    *)
(* constants of the cfg, the assumption under which the theorem             *)
(* TimerKeepsTime states TimerNotLate.                                       *)
EXTENDS MCBlkTimeout

\* The constants are the ones TimerKeepsTime is about.
ASSUME LatencyIsRegular == Regular
=============================================================================
