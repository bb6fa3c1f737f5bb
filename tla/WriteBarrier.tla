---------------------------- MODULE WriteBarrier ----------------------------
(***************************************************************************)
(* What the block layer promises to the submitter of FLUSH and FUA writes, *)
(* with no queue, driver or flush request in sight: the order in which     *)
(* bios may end and data may reach a disk with a volatile write cache.     *)
(* After a power failure the medium holds some set of writes between       *)
(* durable and landed.                                                     *)
(***************************************************************************)
CONSTANTS Rq, Cmds

VARIABLES
  cmd,      \* what each bio asked for: flush, fua, data
  bio,      \* "none", "live", "ok" or "error"
  acked,    \* for each FLUSH: the writes that had ended well before it
  landed,   \* writes the disk has accepted
  durable   \* writes known to be on the medium

vars == <<cmd, bio, acked, landed, durable>>

Plain == [flush |-> FALSE, fua |-> FALSE, data |-> TRUE]

Init == /\ cmd = [r \in Rq |-> Plain]
        /\ bio = [r \in Rq |-> "none"]
        /\ acked = [r \in Rq |-> {}]
        /\ landed = {}
        /\ durable = {}

\* A bio may end well: the writes its FLUSH covers are on the medium, its own
\* data is at the disk, and on the medium if it asked for FUA.
MayEnd(r) == /\ cmd[r].flush => acked[r] \subseteq durable
             /\ cmd[r].data => r \in landed
             /\ cmd[r].fua /\ cmd[r].data => r \in durable

\* A new bio, which may have nothing to do and end at once.
Submit(r, c) ==
  /\ bio[r] # "live"
  /\ cmd' = [cmd EXCEPT ![r] = c]
  /\ acked' = [s \in Rq |->
       IF s # r THEN acked[s] \ {r}
       ELSE {w \in Rq \ {r} : c.flush /\ bio[w] = "ok" /\ cmd[w].data}]
  /\ landed' = landed \ {r}
  /\ durable' = durable \ {r}
  /\ \E b \in {"live", "ok"} : /\ bio' = [bio EXCEPT ![r] = b]
                               /\ b = "ok" => MayEnd(r)'

\* Writes reach the disk, writes reach the medium, bios end.  The data of a
\* FLUSH request is not even given to the disk before what it covers is safe.
Progress ==
  /\ landed \subseteq landed' /\ durable \subseteq durable'
  /\ durable' \subseteq landed'
  /\ \A r \in landed' \ landed :
       /\ r \in Rq /\ bio[r] = "live"
       /\ cmd[r].flush => acked[r] \subseteq durable
  /\ \A r \in Rq : \/ bio'[r] = bio[r]
                   \/ bio[r] = "live" /\ bio'[r] = "error"
                   \/ bio[r] = "live" /\ bio'[r] = "ok" /\ MayEnd(r)'
  /\ DOMAIN bio' = Rq
  /\ UNCHANGED <<cmd, acked>>

Next == (\E r \in Rq, c \in Cmds : Submit(r, c)) \/ Progress

Spec == Init /\ [][Next]_vars

\* Crash consistency: a write that asked for a FLUSH and may have survived a
\* power failure implies that the writes acknowledged before it survived too.
CrashConsistent ==
  \A r \in landed : cmd[r].flush => acked[r] \subseteq durable
=============================================================================
