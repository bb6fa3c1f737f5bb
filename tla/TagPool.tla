------------------------------ MODULE TagPool ------------------------------
(***************************************************************************)
(* What blk_mq_get_tag() and blk_mq_put_tag() promise together: a tag is   *)
(* never in use twice, a caller that may wait is not turned away, and a    *)
(* free tag is not left lying while somebody waits for one.                *)
(***************************************************************************)
CONSTANTS Task, Tag

VARIABLES
  want,       \* tasks that ask for a tag
  patient,    \* those of them that may wait for one
  held        \* tags in use

vars == <<want, patient, held>>

Init == want = {} /\ patient = {} /\ held = {}

Ask(t, wait) ==
  /\ t \notin want
  /\ want' = want \cup {t}
  /\ patient' = IF wait THEN patient \cup {t} ELSE patient
  /\ UNCHANGED held

Grant(t, g) ==
  /\ t \in want /\ g \notin held
  /\ want' = want \ {t}
  /\ patient' = patient \ {t}
  /\ held' = held \cup {g}

Refuse(t) ==
  /\ t \in want \ patient
  /\ want' = want \ {t}
  /\ UNCHANGED <<patient, held>>

Put(g) ==
  /\ g \in held
  /\ held' = held \ {g}
  /\ UNCHANGED <<want, patient>>

Serve == \E t \in Task, g \in Tag : Grant(t, g)

Next == \/ \E t \in Task, wait \in BOOLEAN : Ask(t, wait)
        \/ Serve
        \/ \E t \in Task : Refuse(t)
        \/ \E g \in Tag : Put(g)

Spec == Init /\ [][Next]_vars

\* While tags are free and tasks wait for one, somebody gets one.
FairSpec == Spec /\ WF_vars(Serve)
=============================================================================
