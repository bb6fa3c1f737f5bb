--------------------------- MODULE BlkMqTagProof ---------------------------
(***************************************************************************)
(* Proofs about BlkMqTag: its invariant, and the refinement of TagPool,    *)
(* for every number of tasks, freers, queues and tags and every batch.     *)
(***************************************************************************)
EXTENDS BlkMqTag, FiniteSetTheorems, TLAPS

-----------------------------------------------------------------------------
(* Types *)

\* The ring of wait queues is closed, and its first queue exists.
LEMMA Ring ==
  /\ 0 \in Queue
  /\ \A q \in Queue : bt_index_inc(q) \in Queue
<1>1. BT_WAIT_QUEUES \in Nat \ {0}
  BY TagAssumption
<1>2. \A n \in Nat : n % BT_WAIT_QUEUES \in 0 .. BT_WAIT_QUEUES - 1
  BY <1>1
<1> QED  BY <1>1, <1>2 DEF Queue, bt_index_inc

\* bt_update_count() sets a batch of at least one free, and at most
\* BT_WAIT_BATCH.
LEMMA BatchSize ==
  ASSUME NEW d \in 1 .. NrTags PROVE WakeCnt(d) \in 1 .. BT_WAIT_BATCH
<1>1. /\ BT_WAIT_QUEUES \in Nat \ {0} /\ BT_WAIT_BATCH \in Nat \ {0}
      /\ NrTags \in Nat \ {0}
  BY TagAssumption
<1>2. d \div BT_WAIT_QUEUES \in Nat
  BY <1>1
<1> QED  BY <1>1, <1>2 DEF WakeCnt, AtLeast

\* What Get, Again and Miss do to a task and leave alone.
Tried(t) ==
  /\ pc[t] \notin Holding
  /\ \E p \in TaskPc \ Holding, k \in Hctx \cup {NoOne}, wait \in BOOLEAN :
       /\ pc' = [pc EXCEPT ![t] = p]
       /\ hctx' = [hctx EXCEPT ![t] = k]
       /\ gfpWait' = [gfpWait EXCEPT ![t] = wait]
       /\ p # "idle" => k \in Hctx
       /\ p = "idle" => ~wait
       /\ pc[t] # "idle" => wait = gfpWait[t]
  /\ avail' \in [Task -> SUBSET Tag]
  /\ UNCHANGED <<sizeVars, owner, wakeVars, shareVars, freer, idling, todo>>

\* Every attempt to get a tag, up to the moment a bit is set, is of that form.
LEMMA Attempts ==
  ASSUME TypeOK, HctxInv, NEW t \in Task,
         \/ \E h \in Hctx, wait \in Waits : Get(t, h, wait)
         \/ Again(t)
         \/ Miss(t)
  PROVE  Tried(t)
<1> USE DEF Holding, TaskPc
<1> DEFINE Effect(h, wait, p) ==
             /\ pc' = [pc EXCEPT ![t] = p]
             /\ hctx' = [hctx EXCEPT ![t] = IF p = "idle" THEN NoOne ELSE h]
             /\ gfpWait' = [gfpWait EXCEPT ![t] = wait]
             /\ p = "idle" => ~wait
             /\ pc[t] # "idle" => wait = gfpWait[t]
<1>1. ASSUME NEW h \in Hctx, NEW wait \in BOOLEAN,
             NEW p \in {"scan", "rescan", "queue", "idle", "asleep", "woken"},
             Effect(h, wait, p), pc[t] \notin Holding,
             avail' \in [Task -> SUBSET Tag],
             UNCHANGED <<sizeVars, owner, wakeVars, shareVars, freer, idling,
                         todo>>
      PROVE  Tried(t)
  <2>1. p \in TaskPc \ Holding
    OBVIOUS
  <2>2. CASE p = "idle"
    BY <1>1, <2>1, <2>2 DEF Tried
  <2>3. CASE p # "idle"
    BY <1>1, <2>1, <2>3 DEF Tried
  <2> QED  BY <2>2, <2>3
<1>2. ASSUME NEW h \in Hctx, NEW wait \in Waits, Get(t, h, wait)
      PROVE  Tried(t)
  <2>1. wait \in BOOLEAN
    BY TagAssumption
  <2>2. avail' \in [Task -> SUBSET Tag]
    <3>1. avail \in [Task -> SUBSET Tag] /\ FreeTags \in SUBSET Tag
      BY DEF TypeOK, FreeTags
    <3>2. \/ avail' = avail
          \/ avail' = [avail EXCEPT ![t] = {g \in FreeTags : g < map_depth}]
      BY <1>2 DEF Get, __bt_get
    <3> QED  BY <3>1, <3>2
  <2>3. CASE hctx_may_queue(h)
    <3>1. Effect(h, wait, "scan")
      BY <1>2, <2>3 DEF Get, __bt_get
    <3> QED  BY <1>1, <1>2, <2>1, <2>2, <3>1 DEF Get
  <2>4. CASE ~hctx_may_queue(h)
    <3>1. Effect(h, wait, IF wait THEN "queue" ELSE "idle")
      BY <1>2, <2>1, <2>4 DEF Get, __bt_get, NoTag
    <3> QED  BY <1>1, <1>2, <2>1, <2>2, <3>1 DEF Get
  <2> QED  BY <2>3, <2>4
<1>3. CASE Again(t)
  <2>1. hctx[t] \in Hctx /\ gfpWait[t] \in BOOLEAN
    BY <1>3 DEF Again, HctxInv, TypeOK
  <2>2. avail' \in [Task -> SUBSET Tag]
    <3>1. avail \in [Task -> SUBSET Tag] /\ FreeTags \in SUBSET Tag
      BY DEF TypeOK, FreeTags
    <3>2. \/ avail' = avail
          \/ avail' = [avail EXCEPT ![t] = {g \in FreeTags : g < map_depth}]
      BY <1>3 DEF Again, __bt_get
    <3> QED  BY <3>1, <3>2
  <2>3. CASE hctx_may_queue(hctx[t])
    <3>1. Effect(hctx[t], gfpWait[t], "rescan")
      BY <1>3, <2>3 DEF Again, __bt_get
    <3> QED  BY <1>1, <1>3, <2>1, <2>2, <3>1 DEF Again
  <2>4. CASE ~hctx_may_queue(hctx[t])
    <3>1. Effect(hctx[t], gfpWait[t],
                 IF OnQueue(t) THEN "asleep" ELSE "woken")
      BY <1>3, <2>1, <2>4 DEF Again, __bt_get, NoTag
    <3> QED  BY <1>1, <1>3, <2>1, <2>2, <3>1 DEF Again
  <2> QED  BY <2>3, <2>4
<1>4. CASE Miss(t)
  <2>1. hctx[t] \in Hctx /\ gfpWait[t] \in BOOLEAN
    BY <1>4 DEF Miss, HctxInv, TypeOK
  <2>2. avail' \in [Task -> SUBSET Tag]
    BY <1>4 DEF Miss, TypeOK
  <2>3. \E p \in {"queue", "idle", "asleep", "woken"} :
          Effect(hctx[t], gfpWait[t], p)
    BY <1>4, <2>1 DEF Miss, NoTag
  <2> QED  BY <1>1, <1>4, <2>1, <2>2, <2>3 DEF Miss
<1> QED  BY <1>2, <1>3, <1>4

\* Handing the request out replaces the task by its hctx in the map.
LEMMA HandedOut ==
  ASSUME TypeOK, NEW t \in Task, hctx[t] \in Hctx,
         NEW own \in [Tag -> {NoOne} \cup Task \cup Freer \cup Hctx],
         HandOut(t, own)
  PROVE  /\ owner' \in [Tag -> {NoOne} \cup Task \cup Freer \cup Hctx]
         /\ pc' \in [Task -> TaskPc]
         /\ hctx' \in [Task -> Hctx \cup {NoOne}]
         /\ gfpWait' \in [Task -> BOOLEAN]
<1>1. owner' \in [Tag -> {NoOne} \cup Task \cup Freer \cup Hctx]
  BY DEF HandOut
<1>2. "idle" \in TaskPc
  BY DEF TaskPc
<1> QED  BY <1>1, <1>2 DEF HandOut, TypeOK

\* Steps of tasks keep the types.
LEMMA TypeTask ==
  ASSUME TypeOK, HctxInv, NEW t \in Task,
         TaskStep(t) \/ \E h \in Hctx, wait \in Waits : Get(t, h, wait)
  PROVE  TypeOK'
<1> USE DEF sizeVars, shareVars, taskVars, wakeVars
<1>1. CASE Tried(t)
  <2>1. /\ pc' \in [Task -> TaskPc] /\ hctx' \in [Task -> Hctx \cup {NoOne}]
        /\ gfpWait' \in [Task -> BOOLEAN]
    BY <1>1 DEF Tried, TypeOK
  <2> QED  BY <1>1, <2>1 DEF Tried, TypeOK
<1>2. ASSUME NEW g \in Tag, Take(t, g)
      PROVE  TypeOK'
  <2>1. hctx[t] \in Hctx
    BY <1>2 DEF Take, HctxInv
  <2> DEFINE own == [owner EXCEPT ![g] = t]
  <2>2. own \in [Tag -> {NoOne} \cup Task \cup Freer \cup Hctx]
    BY DEF TypeOK
  <2>3. avail' \in [Task -> SUBSET Tag]
    BY <1>2 DEF Take, TypeOK
  <2>4. CASE HandOut(t, own)
    BY <1>2, <2>1, <2>2, <2>3, <2>4, HandedOut DEF Take, TypeOK
  <2>5. CASE ~HandOut(t, own)
    <3>1. /\ owner' = own /\ UNCHANGED hctx
          /\ pc' \in [Task -> TaskPc] /\ gfpWait' \in [Task -> BOOLEAN]
      BY <1>2, <2>5 DEF Take, TypeOK, TaskPc
    <3> QED  BY <1>2, <2>2, <2>3, <3>1 DEF Take, TypeOK
  <2> QED  BY <2>4, <2>5
<1>3. ASSUME NEW q \in Queue, QueueUp(t, q)
      PROVE  TypeOK'
  BY <1>3 DEF QueueUp, TypeOK, TaskPc
<1>4. CASE FinishWait(t)
  <2>1. hctx[t] \in Hctx
    BY <1>4 DEF FinishWait, HctxInv
  <2>2. bs' \in [Queue -> SUBSET Task]
    BY <1>4 DEF FinishWait, TypeOK
  <2>3. owner \in [Tag -> {NoOne} \cup Task \cup Freer \cup Hctx]
    BY DEF TypeOK
  <2>4. CASE Shared
    BY <1>4, <2>2, <2>4 DEF FinishWait, TypeOK, TaskPc
  <2>5. CASE ~Shared
    <3>1. HandOut(t, owner)
      BY <1>4, <2>5 DEF FinishWait
    <3> QED  BY <1>4, <2>1, <2>2, <2>3, <3>1, HandedOut DEF FinishWait, TypeOK
  <2> QED  BY <2>4, <2>5
<1>5. CASE TagBusy(t)
  <2>1. hctx[t] \in Hctx
    BY <1>5 DEF TagBusy, HctxInv
  <2> QED  BY <1>5, <2>1 DEF TagBusy, TypeOK, TaskPc
<1>6. CASE TagBusyCount(t)
  BY <1>6 DEF TagBusyCount, TypeOK, TaskPc
<1>7. CASE Count(t)
  <2>1. hctx[t] \in Hctx /\ HandOut(t, owner)
    BY <1>7 DEF Count, HctxInv
  <2>2. owner \in [Tag -> {NoOne} \cup Task \cup Freer \cup Hctx]
    BY DEF TypeOK
  <2>3. nr_active' \in [Hctx -> Int]
    BY <1>7, <2>1 DEF Count, TypeOK
  <2> QED  BY <1>7, <2>1, <2>2, <2>3, HandedOut DEF Count, TypeOK
<1> QED  BY <1>1, <1>2, <1>3, <1>4, <1>5, <1>6, <1>7, Attempts DEF TaskStep

\* wake_up() keeps the types.
LEMMA TypeWakeUp ==
  ASSUME TypeOK, NEW q \in Queue, WakeUp(q)
  PROVE  bs' \in [Queue -> SUBSET Task] /\ pc' \in [Task -> TaskPc]
BY DEF TypeOK, WakeUp, TaskPc

\* Where a step of bt_clear_tag() may take a freer.
LEMMA TypeGo ==
  ASSUME TypeOK, NEW f \in Freer, NEW where \in FreerPc, NEW q \in Queue,
         NEW n \in Queue, Go(f, where, q, n)
  PROVE  freer' \in [Freer -> [pc : FreerPc, q : Queue, n : Queue]]
BY DEF TypeOK, Go

\* The end of bt_clear_tag().
LEMMA TypeFinish ==
  ASSUME TypeOK, NEW f \in Freer, Finish(f)
  PROVE  freer' \in [Freer -> [pc : FreerPc, q : Queue, n : Queue]]
BY Ring DEF TypeOK, Finish, Idle, FreerPc

\* The start of bt_clear_tag(), and of the accounting before it, keeps the
\* types.
LEMMA TypeComplete ==
  ASSUME TypeOK, NEW g \in Tag, Complete(g)
  PROVE  TypeOK'
<1> USE DEF sizeVars, shareVars, taskVars, wakeVars
<1>1. PICK f \in Freer : Clear(f, g) \/ \E h \in Hctx : Put(f, g, h)
  BY DEF Complete
<1>2. {"clear", "index"} \subseteq FreerPc
  BY DEF FreerPc
<1>3. CASE Clear(f, g)
  <2>1. freer' \in [Freer -> [pc : FreerPc, q : Queue, n : Queue]]
    BY <1>2, <1>3, Ring, TypeGo DEF Clear
  <2> QED  BY <1>3, <2>1 DEF Clear, TypeOK
<1>4. ASSUME NEW h \in Hctx, Put(f, g, h)
      PROVE  TypeOK'
  <2>1. freer' \in [Freer -> [pc : FreerPc, q : Queue, n : Queue]]
    BY <1>2, <1>4, Ring, TypeGo DEF Put
  <2>2. nr_active' \in [Hctx -> Int]
    BY <1>4 DEF Put, TypeOK
  <2>3. owner' \in [Tag -> {NoOne} \cup Task \cup Freer \cup Hctx]
    BY <1>4 DEF Put, TypeOK
  <2> QED  BY <1>4, <2>1, <2>2, <2>3 DEF Put, TypeOK
<1> QED  BY <1>1, <1>3, <1>4

\* The later steps of bt_clear_tag() keep the types.
LEMMA TypeFreer ==
  ASSUME TypeOK, NEW f \in Freer, FreerStep(f)
  PROVE  TypeOK'
<1> USE DEF sizeVars, shareVars, taskVars, wakeVars, Elsewhere
<1> DEFINE q == freer[f].q
<1>1. /\ q \in Queue /\ freer[f].n \in Queue /\ wake_index \in Queue
      /\ wait_cnt \in [Queue -> Int] /\ wake_cnt \in Int
  BY DEF TypeOK
<1>2. {"look", "found", "move", "dec", "inc", "add", "read", "advance", "wake"}
        \subseteq FreerPc
  BY DEF FreerPc
<1>3. CASE WakeIndex(f)
  <2>1. freer' \in [Freer -> [pc : FreerPc, q : Queue, n : Queue]]
    BY <1>1, <1>2, <1>3, Ring, TypeGo DEF WakeIndex
  <2> QED  BY <1>3, <2>1 DEF WakeIndex, TypeOK
<1>4. CASE WakePtrNext(f)
  <2>1. /\ BT_WAIT_QUEUES \in Nat \ {0}
        /\ freer[f].n + 1 # BT_WAIT_QUEUES => freer[f].n + 1 \in Queue
    BY <1>1, TagAssumption DEF Queue
  <2>2. freer' \in [Freer -> [pc : FreerPc, q : Queue, n : Queue]]
    BY <1>1, <1>2, <1>4, <2>1, Ring, TypeGo, TypeFinish DEF WakePtrNext
  <2> QED  BY <1>4, <2>2 DEF WakePtrNext, TypeOK
<1>5. CASE WakePtr(f)
  <2>1. freer' \in [Freer -> [pc : FreerPc, q : Queue, n : Queue]]
    BY <1>1, <1>2, <1>5, Ring, TypeGo DEF WakePtr
  <2> QED  BY <1>5, <2>1 DEF WakePtr, TypeOK
<1>6. CASE WakeMove(f)
  <2>1. freer' \in [Freer -> [pc : FreerPc, q : Queue, n : Queue]]
    BY <1>1, <1>2, <1>6, Ring, TypeGo DEF WakeMove
  <2> QED  BY <1>1, <1>6, <2>1 DEF WakeMove, TypeOK
<1>7. CASE Dec(f)
  <2>1. freer' \in [Freer -> [pc : FreerPc, q : Queue, n : Queue]]
    <3>1. \/ Go(f, "inc", q, 0) \/ Go(f, "add", q, 0) \/ Finish(f)
      BY <1>1, <1>7 DEF Dec
    <3> QED  BY <1>1, <1>2, <3>1, Ring, TypeGo, TypeFinish
  <2>2. wait_cnt' \in [Queue -> Int]
    BY <1>1, <1>7 DEF Dec
  <2> QED  BY <1>7, <2>1, <2>2 DEF Dec, TypeOK
<1>8. CASE Inc(f)
  <2>1. freer' \in [Freer -> [pc : FreerPc, q : Queue, n : Queue]]
    <3>1. Go(f, "add", q, 0) \/ Finish(f)
      BY <1>8 DEF Inc
    <3> QED  BY <1>1, <1>2, <3>1, Ring, TypeGo, TypeFinish
  <2>2. wait_cnt' \in [Queue -> Int]
    BY <1>1, <1>8 DEF Inc
  <2> QED  BY <1>8, <2>1, <2>2 DEF Inc, TypeOK
<1>9. CASE Add(f)
  <2>1. freer' \in [Freer -> [pc : FreerPc, q : Queue, n : Queue]]
    BY <1>1, <1>2, <1>9, Ring, TypeGo DEF Add
  <2>2. wait_cnt' \in [Queue -> Int]
    BY <1>1, <1>9 DEF Add
  <2> QED  BY <1>9, <2>1, <2>2 DEF Add, TypeOK
<1>10. CASE Advance(f)
  <2>1. freer' \in [Freer -> [pc : FreerPc, q : Queue, n : Queue]]
    BY <1>1, <1>2, <1>10, Ring, TypeGo DEF Advance
  <2>2. wake_index' \in Queue
    BY <1>1, <1>10, Ring DEF Advance
  <2> QED  BY <1>10, <2>1, <2>2 DEF Advance, TypeOK
<1>11. CASE WakeBatch(f)
  <2>1. freer' \in [Freer -> [pc : FreerPc, q : Queue, n : Queue]]
    BY <1>11, TypeFinish DEF WakeBatch
  <2>2. bs' \in [Queue -> SUBSET Task] /\ pc' \in [Task -> TaskPc]
    BY <1>1, <1>11, TypeWakeUp DEF WakeBatch
  <2> QED  BY <1>11, <2>1, <2>2 DEF WakeBatch, TypeOK
<1>12. CASE WakeRead(f)
  <2>1. freer' \in [Freer -> [pc : FreerPc, q : Queue, n : Queue]]
    BY <1>1, <1>2, <1>12, Ring, TypeGo DEF WakeRead
  <2> QED  BY <1>12, <2>1 DEF WakeRead, TypeOK
<1>13. CASE IndexRead(f)
  <2>1. freer' \in [Freer -> [pc : FreerPc, q : Queue, n : Queue]]
    BY <1>1, <1>2, <1>13, TypeGo DEF IndexRead
  <2> QED  BY <1>13, <2>1 DEF IndexRead, TypeOK
<1> QED  BY <1>3, <1>4, <1>5, <1>6, <1>7, <1>8, <1>9, <1>10, <1>11, <1>12,
            <1>13 DEF FreerStep

\* Idling queues, wakeups of everybody and resizes keep the types.
LEMMA TypeAdmin ==
  ASSUME TypeOK,
         \/ WakerStep
         \/ \E h \in Hctx : TagIdle(h)
         \/ \E d \in NewDepths : UpdateWords(d)
  PROVE  TypeOK'
<1> USE DEF sizeVars, shareVars, taskVars, wakeVars
<1>1. ASSUME NEW h \in Hctx, TagIdle(h)
      PROVE  TypeOK'
  BY <1>1 DEF TagIdle, TypeOK
<1>2. ASSUME NEW h \in Hctx, TagIdleCount(h)
      PROVE  TypeOK'
  <2>1. todo' \in [Waker -> SUBSET Queue]
    BY <1>2 DEF TagIdleCount, TypeOK, Waker
  <2> QED  BY <1>2, <2>1 DEF TagIdleCount, TypeOK
<1>3. ASSUME NEW w \in Waker, NEW q \in Queue, WakeupAll(w, q)
      PROVE  TypeOK'
  <2>1. bs' \in [Queue -> SUBSET Task] /\ pc' \in [Task -> TaskPc]
    BY <1>3, TypeWakeUp DEF WakeupAll
  <2>2. todo' \in [Waker -> SUBSET Queue]
    BY <1>3 DEF WakeupAll, TypeOK
  <2> QED  BY <1>3, <2>1, <2>2 DEF WakeupAll, TypeOK
<1>4. ASSUME NEW d \in NewDepths, UpdateWords(d)
      PROVE  TypeOK'
  <2>1. d \in 1 .. NrTags /\ d \in 0 .. NrTags
    BY TagAssumption
  <2>2. BT_WAIT_BATCH \in 1 .. BT_WAIT_BATCH
    BY TagAssumption
  <2>3. avail' \in [Task -> SUBSET Tag]
    BY <1>4 DEF UpdateWords, TypeOK
  <2> QED  BY <1>4, <2>1, <2>2, <2>3 DEF UpdateWords, TypeOK
<1>5. CASE UpdateDepth
  <2>1. resize \in 1 .. NrTags
    BY <1>5, TagAssumption DEF UpdateDepth, TypeOK
  <2>2. WakeCnt(resize) \in 1 .. BT_WAIT_BATCH
    BY <2>1, BatchSize
  <2>3. todo' \in [Waker -> SUBSET Queue] /\ 0 \in 0 .. NrTags
    BY <1>5, TagAssumption DEF UpdateDepth, TypeOK, Waker
  <2> QED  BY <1>5, <2>1, <2>2, <2>3 DEF UpdateDepth, TypeOK
<1> QED  BY <1>1, <1>2, <1>3, <1>4, <1>5 DEF WakerStep

-----------------------------------------------------------------------------
(* The wake counters *)

\* One queue's part of CountersSound: w is its count, i and a the numbers of
\* freers about to put it back and to renew it.
Sound(w, i, a) ==
  /\ w + i >= (IF a = 0 THEN 1 ELSE 0)
  /\ w + i + BT_WAIT_BATCH * a <= BT_WAIT_BATCH * Cardinality(Freer)

\* A free that neither ends the batch nor comes late.
LEMMA SoundDec ==
  ASSUME NEW w \in Int, NEW i \in Nat, NEW a \in Nat, Sound(w, i, a)
  PROVE  /\ w - 1 > 0 => Sound(w - 1, i, a)
         /\ Sound(w - 1, i + 1, a)
         /\ i > 0 => Sound(w + 1, i - 1, a)
<1>1. /\ BT_WAIT_BATCH * a \in Int
      /\ BT_WAIT_BATCH * Cardinality(Freer) \in Int
  BY FS_CardinalityType, TagAssumption
<1>2. /\ (w - 1) + (i + 1) = w + i /\ (w + 1) + (i - 1) = w + i
      /\ w + i \in Int
  OBVIOUS
<1>3. Sound(w - 1, i + 1, a)
  BY <1>2 DEF Sound
<1>4. Sound(w + 1, i - 1, a)
  BY <1>2 DEF Sound
<1>5. ASSUME w - 1 > 0
      PROVE  Sound(w - 1, i, a)
  <2>1. (w - 1) + i >= 1 /\ (w - 1) + i >= 0
    BY <1>5
  <2>2. (w - 1) + i + BT_WAIT_BATCH * a <= w + i + BT_WAIT_BATCH * a
    BY <1>1
  <2>3. (w - 1) + i + BT_WAIT_BATCH * a
          <= BT_WAIT_BATCH * Cardinality(Freer)
    BY <1>1, <2>2 DEF Sound
  <2> QED  BY <2>1, <2>3 DEF Sound
<1> QED  BY <1>3, <1>4, <1>5

\* A batch for each freer that is about to renew the count, and less for those
\* about to put it back, is no more than a batch for every freer.
LEMMA Batches ==
  ASSUME NEW b \in Nat \ {0}, NEW i \in Nat, NEW a \in Nat, NEW n \in Nat,
         i + a <= n
  PROVE  i + b * a <= b * n
<1>1. i <= b * i
  OBVIOUS
<1>2. b * i + b * a = b * (i + a)
  OBVIOUS
<1>3. b * (i + a) <= b * n
  OBVIOUS
<1> QED  BY <1>1, <1>2, <1>3

\* The count is zero, and one more freer will renew it.
LEMMA SoundZero ==
  ASSUME NEW i \in Nat, NEW a \in Nat, i + (a + 1) <= Cardinality(Freer)
  PROVE  Sound(0, i, a + 1)
<1>1. BT_WAIT_BATCH \in Nat \ {0} /\ Cardinality(Freer) \in Nat
  BY FS_CardinalityType, TagAssumption
<1>2. i + BT_WAIT_BATCH * (a + 1) <= BT_WAIT_BATCH * Cardinality(Freer)
  BY <1>1, Batches
<1>3. 0 + i = i /\ a + 1 # 0
  OBVIOUS
<1> QED  BY <1>2, <1>3 DEF Sound

\* A freer renews the count.
LEMMA SoundAdd ==
  ASSUME NEW w \in Int, NEW i \in Nat, NEW a \in Nat, a > 0,
         NEW k \in 1 .. BT_WAIT_BATCH, Sound(w, i, a)
  PROVE  Sound(w + k, i, a - 1)
<1>1. /\ BT_WAIT_BATCH \in Nat \ {0}
      /\ BT_WAIT_BATCH * Cardinality(Freer) \in Int
      /\ BT_WAIT_BATCH * a \in Int
  BY FS_CardinalityType, TagAssumption
<1>2. BT_WAIT_BATCH * (a - 1) = BT_WAIT_BATCH * a - BT_WAIT_BATCH
  BY <1>1
<1>3. w + i >= 0
  BY DEF Sound
<1>4. (w + k) + i >= 1 /\ (w + k) + i >= 0
  BY <1>1, <1>3
<1>5. (w + k) + i + BT_WAIT_BATCH * (a - 1) <= w + i + BT_WAIT_BATCH * a
  BY <1>1, <1>2
<1>6. (w + k) + i + BT_WAIT_BATCH * (a - 1)
        <= BT_WAIT_BATCH * Cardinality(Freer)
  <2>1. BT_WAIT_BATCH * (a - 1) \in Int
    BY <1>1
  <2> QED  BY <1>1, <1>5, <2>1 DEF Sound
<1> QED  BY <1>4, <1>6 DEF Sound

\* The freers at a queue's count are finitely many; together with one that is
\* not among them they are still no more than there are.
LEMMA FreersAt ==
  ASSUME NEW q \in Queue
  PROVE  /\ IsFiniteSet(Incs(q)) /\ Cardinality(Incs(q)) \in Nat
         /\ IsFiniteSet(Adds(q)) /\ Cardinality(Adds(q)) \in Nat
         /\ Cardinality(Adds(q)) = 0 <=> Adds(q) = {}
         /\ Cardinality(Incs(q)) + Cardinality(Adds(q)) <= Cardinality(Freer)
         /\ \A f \in Freer \ (Incs(q) \cup Adds(q)) :
              Cardinality(Incs(q)) + (Cardinality(Adds(q)) + 1)
                <= Cardinality(Freer)
<1>1. /\ IsFiniteSet(Freer) /\ Incs(q) \in SUBSET Freer
      /\ Adds(q) \in SUBSET Freer /\ Incs(q) \cap Adds(q) = {}
  BY TagAssumption DEF Incs, Adds, At
<1>2. /\ IsFiniteSet(Incs(q)) /\ Cardinality(Incs(q)) \in Nat
      /\ IsFiniteSet(Adds(q)) /\ Cardinality(Adds(q)) \in Nat
      /\ Cardinality(Adds(q)) = 0 <=> Adds(q) = {}
      /\ Cardinality(Freer) \in Nat
  BY <1>1, FS_Subset, FS_CardinalityType, FS_EmptySet
<1> DEFINE both == Incs(q) \cup Adds(q)
<1>3. /\ IsFiniteSet(both) /\ both \in SUBSET Freer
      /\ Cardinality(both) = Cardinality(Incs(q)) + Cardinality(Adds(q))
  <2>1. IsFiniteSet(both)
    BY <1>2, FS_Union
  <2>2. Cardinality(both) = Cardinality(Incs(q)) + Cardinality(Adds(q))
                              - Cardinality(Incs(q) \cap Adds(q))
    BY <1>2, FS_Union
  <2>3. Cardinality(Incs(q) \cap Adds(q)) = 0
    BY <1>1, FS_EmptySet
  <2>4. Cardinality(both) = Cardinality(Incs(q)) + Cardinality(Adds(q))
    BY <1>2, <2>2, <2>3
  <2> QED  BY <1>1, <2>1, <2>4
<1>4. Cardinality(Incs(q)) + Cardinality(Adds(q)) <= Cardinality(Freer)
  BY <1>1, <1>3, FS_Subset
<1>5. ASSUME NEW f \in Freer \ both
      PROVE  Cardinality(Incs(q)) + (Cardinality(Adds(q)) + 1)
               <= Cardinality(Freer)
  <2>1. Cardinality(both \cup {f}) = Cardinality(both) + 1
    BY <1>3, <1>5, FS_AddElement
  <2>2. both \cup {f} \in SUBSET Freer
    BY <1>3, <1>5
  <2>3. Cardinality(both \cup {f}) <= Cardinality(Freer)
    BY <1>1, <2>2, FS_Subset
  <2> QED  BY <1>2, <1>3, <2>1, <2>3
<1> QED  BY <1>2, <1>4, <1>5

\* CountersSound, queue by queue.
LEMMA CountersAre ==
  ASSUME CountersSound
  PROVE  \A q \in Queue : Sound(wait_cnt[q], Cardinality(Incs(q)),
                                Cardinality(Adds(q)))
BY FreersAt DEF CountersSound, Sound

\* The same after a step.
LEMMA CountersBecome ==
  ASSUME \A q \in Queue : Sound(wait_cnt'[q], Cardinality(Incs(q)'),
                                Cardinality(Adds(q)'))
  PROVE  CountersSound'
<1>1. ASSUME NEW q \in Queue
      PROVE  Cardinality(Adds(q)') = 0 <=> Adds(q)' = {}
  <2>1. IsFiniteSet(Freer) /\ Adds(q)' \in SUBSET Freer
    BY TagAssumption DEF Adds
  <2> QED  BY <2>1, FS_Subset, FS_EmptySet
<1> QED  BY <1>1 DEF CountersSound, Sound

\* A step of one freer moves nobody else at a count.
LEMMA FreerMoves ==
  ASSUME TypeOK, NEW f \in Freer, NEW r, freer' = [freer EXCEPT ![f] = r]
  PROVE  \A q \in Queue :
           /\ Incs(q)' = IF r.pc = "inc" /\ r.q = q
                         THEN Incs(q) \cup {f} ELSE Incs(q) \ {f}
           /\ Adds(q)' = IF r.pc = "add" /\ r.q = q
                         THEN Adds(q) \cup {f} ELSE Adds(q) \ {f}
<1>1. \A e \in Freer : freer'[e] = IF e = f THEN r ELSE freer[e]
  BY DEF TypeOK
<1> QED  BY <1>1 DEF Incs, Adds, At

\* Steps that touch neither a count nor the freers at it.
LEMMA CountersSame ==
  ASSUME CountersSound, wait_cnt' = wait_cnt,
         \A q \in Queue : Incs(q)' = Incs(q) /\ Adds(q)' = Adds(q)
  PROVE  CountersSound'
BY DEF CountersSound

\* A freer decrements the count of its queue.
LEMMA CountersDec ==
  ASSUME TypeOK, TypeOK', CountersSound, NEW f \in Freer, Dec(f)
  PROVE  CountersSound'
<1> DEFINE q == freer[f].q
           n == wait_cnt[q] - 1
           r == IF n > 0 THEN Idle
                ELSE [pc |-> IF n < 0 THEN "inc" ELSE "add", q |-> q, n |-> 0]
<1>1. /\ freer' = [freer EXCEPT ![f] = r]
      /\ r.pc = (IF n < 0 THEN "inc" ELSE IF n = 0 THEN "add" ELSE "idle")
      /\ r.pc # "idle" => r.q = q
  <2>1. wait_cnt[q] \in Int /\ n \in Int
    BY DEF TypeOK
  <2>2. CASE n < 0
    <3>1. r = [pc |-> "inc", q |-> q, n |-> 0]
      BY <2>1, <2>2
    <3>2. Go(f, "inc", q, 0)
      BY <2>1, <2>2 DEF Dec
    <3> HIDE DEF r
    <3> QED  BY <2>1, <2>2, <3>1, <3>2 DEF Go
  <2>3. CASE n = 0
    <3>1. r = [pc |-> "add", q |-> q, n |-> 0]
      BY <2>1, <2>3
    <3>2. Go(f, "add", q, 0)
      BY <2>1, <2>3 DEF Dec
    <3> HIDE DEF r
    <3> QED  BY <2>1, <2>3, <3>1, <3>2 DEF Go
  <2>4. CASE n > 0
    <3>1. r = Idle
      BY <2>1, <2>4
    <3>2. Finish(f)
      BY <2>1, <2>4 DEF Dec
    <3> HIDE DEF r
    <3> QED  BY <2>1, <2>4, <3>1, <3>2 DEF Finish, Idle
  <2>5. n < 0 \/ n = 0 \/ n > 0
    BY <2>1
  <2> HIDE DEF r, n
  <2> QED  BY <2>2, <2>3, <2>4, <2>5
<1> HIDE DEF r
<1>2. /\ q \in Queue /\ At(f, "dec")
      /\ wait_cnt \in [Queue -> Int]
      /\ wait_cnt' = [wait_cnt EXCEPT ![q] = n]
  BY DEF Dec, TypeOK
<1>3. \A p \in Queue : f \notin Incs(p) \cup Adds(p)
  BY <1>2 DEF Incs, Adds, At
<1>4. \A p \in Queue : Sound(wait_cnt[p], Cardinality(Incs(p)),
                             Cardinality(Adds(p)))
  BY CountersAre
<1>5. ASSUME NEW p \in Queue
      PROVE  Sound(wait_cnt'[p], Cardinality(Incs(p)'),
                   Cardinality(Adds(p)'))
  <2>0. /\ Incs(p)' = IF r.pc = "inc" /\ r.q = p
                      THEN Incs(p) \cup {f} ELSE Incs(p) \ {f}
        /\ Adds(p)' = IF r.pc = "add" /\ r.q = p
                      THEN Adds(p) \cup {f} ELSE Adds(p) \ {f}
    BY <1>1, FreerMoves
  <2>1. CASE p # q
    <3>1. Incs(p)' = Incs(p) /\ Adds(p)' = Adds(p) /\ wait_cnt'[p] = wait_cnt[p]
      BY <1>1, <1>2, <1>3, <2>0, <2>1
    <3> QED  BY <1>4, <3>1
  <2>2. CASE p = q /\ n < 0
    <3>1. /\ Incs(p)' = Incs(p) \cup {f} /\ Adds(p)' = Adds(p)
          /\ wait_cnt'[p] = wait_cnt[p] - 1 /\ wait_cnt[p] \in Int
      BY <1>1, <1>2, <1>3, <2>0, <2>2
    <3>2. Cardinality(Incs(p)') = Cardinality(Incs(p)) + 1
      BY <1>3, <3>1, FreersAt, FS_AddElement
    <3> QED  BY <1>4, <3>1, <3>2, FreersAt, SoundDec
  <2>3. CASE p = q /\ n = 0
    <3>1. /\ Adds(p)' = Adds(p) \cup {f} /\ Incs(p)' = Incs(p)
          /\ wait_cnt'[p] = 0
      BY <1>1, <1>2, <1>3, <2>0, <2>3
    <3>2. Cardinality(Adds(p)') = Cardinality(Adds(p)) + 1
      BY <1>3, <3>1, FreersAt, FS_AddElement
    <3>3. f \in Freer \ (Incs(p) \cup Adds(p))
      BY <1>3
    <3>4. Cardinality(Incs(p)) + (Cardinality(Adds(p)) + 1)
            <= Cardinality(Freer)
      BY <3>3, FreersAt
    <3> QED  BY <3>1, <3>2, <3>4, FreersAt, SoundZero
  <2>4. CASE p = q /\ ~(n < 0) /\ n # 0
    <3>1. /\ Incs(p)' = Incs(p) /\ Adds(p)' = Adds(p)
          /\ wait_cnt'[p] = wait_cnt[p] - 1 /\ wait_cnt[p] \in Int
      BY <1>1, <1>2, <1>3, <2>0, <2>4
    <3>2. wait_cnt[p] - 1 > 0
      BY <2>4, <3>1
    <3> QED  BY <1>4, <3>1, <3>2, FreersAt, SoundDec
  <2> QED  BY <2>1, <2>2, <2>3, <2>4
<1> QED  BY <1>5, CountersBecome

\* A freer that came late puts the count back.
LEMMA CountersInc ==
  ASSUME TypeOK, CountersSound, NEW f \in Freer, Inc(f)
  PROVE  CountersSound'
<1> DEFINE q == freer[f].q
           n == wait_cnt[q] + 1
           r == IF n = 0 THEN [pc |-> "add", q |-> q, n |-> 0] ELSE Idle
<1>1. freer' = [freer EXCEPT ![f] = r] /\ r.pc # "inc"
      /\ IF n = 0 THEN r.pc = "add" /\ r.q = q ELSE r.pc = "idle"
  <2>1. CASE n = 0
    <3>1. r = [pc |-> "add", q |-> q, n |-> 0]
      BY <2>1
    <3>2. Go(f, "add", q, 0)
      BY <2>1 DEF Inc
    <3> HIDE DEF r
    <3> QED  BY <2>1, <3>1, <3>2 DEF Go
  <2>2. CASE n # 0
    <3>1. r = Idle
      BY <2>2
    <3>2. Finish(f)
      BY <2>2 DEF Inc
    <3> HIDE DEF r
    <3> QED  BY <2>2, <3>1, <3>2 DEF Finish, Idle
  <2> HIDE DEF r, n
  <2> QED  BY <2>1, <2>2
<1> HIDE DEF r
<1>2. /\ q \in Queue /\ At(f, "inc")
      /\ wait_cnt \in [Queue -> Int]
      /\ wait_cnt' = [wait_cnt EXCEPT ![q] = n]
  BY DEF Inc, TypeOK
<1>3. /\ f \in Incs(q) /\ \A p \in Queue : f \notin Adds(p)
      /\ \A p \in Queue \ {q} : f \notin Incs(p)
  BY <1>2 DEF Incs, Adds, At
<1>4. \A p \in Queue : Sound(wait_cnt[p], Cardinality(Incs(p)),
                             Cardinality(Adds(p)))
  BY CountersAre
<1>5. ASSUME NEW p \in Queue
      PROVE  Sound(wait_cnt'[p], Cardinality(Incs(p)'),
                   Cardinality(Adds(p)'))
  <2>1. /\ Incs(p)' = Incs(p) \ {f}
        /\ Adds(p)' = IF r.pc = "add" /\ r.q = p
                      THEN Adds(p) \cup {f} ELSE Adds(p) \ {f}
    BY <1>1, FreerMoves
  <2>2. CASE p # q
    <3>1. Incs(p)' = Incs(p) /\ Adds(p)' = Adds(p) /\ wait_cnt'[p] = wait_cnt[p]
      BY <1>1, <1>2, <1>3, <2>1, <2>2
    <3> QED  BY <1>4, <3>1
  <2>3. CASE p = q
    <3>1. /\ Cardinality(Incs(p)) \in Nat /\ Cardinality(Incs(p)) > 0
          /\ Cardinality(Incs(p)') = Cardinality(Incs(p)) - 1
          /\ Cardinality(Adds(p)) \in Nat
          /\ Cardinality(Incs(p)) + Cardinality(Adds(p))
               <= Cardinality(Freer)
      <4>1. /\ IsFiniteSet(Incs(p)) /\ Cardinality(Incs(p)) \in Nat
            /\ Cardinality(Adds(p)) \in Nat
            /\ Cardinality(Incs(p)) + Cardinality(Adds(p))
                 <= Cardinality(Freer)
        BY FreersAt
      <4>2. Incs(p) # {}
        BY <1>3, <2>3
      <4>3. Cardinality(Incs(p)) # 0
        BY <4>1, <4>2, FS_EmptySet
      <4>4. Cardinality(Incs(p)') = Cardinality(Incs(p)) - 1
        BY <1>3, <2>1, <2>3, <4>1, FS_RemoveElement
      <4> QED  BY <4>1, <4>3, <4>4
    <3>2. wait_cnt[p] \in Int /\ wait_cnt'[p] = wait_cnt[p] + 1
      BY <1>2, <2>3
    <3>3. CASE n = 0
      <4>1. Adds(p)' = Adds(p) \cup {f} /\ wait_cnt'[p] = 0
        BY <1>1, <1>2, <2>1, <2>3, <3>3
      <4>2. Cardinality(Adds(p)') = Cardinality(Adds(p)) + 1
        BY <1>3, <4>1, FreersAt, FS_AddElement
      <4> DEFINE i == Cardinality(Incs(p)) - 1
      <4>3. /\ i \in Nat
            /\ i + (Cardinality(Adds(p)) + 1) <= Cardinality(Freer)
        BY <3>1, FS_CardinalityType, TagAssumption
      <4>4. Sound(0, i, Cardinality(Adds(p)) + 1)
        BY <3>1, <4>3, SoundZero
      <4> QED  BY <3>1, <4>1, <4>2, <4>4
    <3>4. CASE n # 0
      <4>1. Adds(p)' = Adds(p)
        BY <1>1, <1>3, <2>1, <3>4
      <4> QED  BY <1>4, <3>1, <3>2, <4>1, SoundDec
    <3> QED  BY <3>3, <3>4
  <2> QED  BY <2>2, <2>3
<1> QED  BY <1>5, CountersBecome

\* A freer that found the batch complete renews the count.
LEMMA CountersAdd ==
  ASSUME TypeOK, CountersSound, NEW f \in Freer, Add(f)
  PROVE  CountersSound'
<1> DEFINE q == freer[f].q
           r == [pc |-> "read", q |-> q, n |-> 0]
<1>1. /\ freer' = [freer EXCEPT ![f] = r] /\ r.pc = "read"
      /\ q \in Queue /\ At(f, "add")
      /\ wait_cnt \in [Queue -> Int] /\ wake_cnt \in 1 .. BT_WAIT_BATCH
      /\ wait_cnt' = [wait_cnt EXCEPT ![q] = @ + wake_cnt]
  BY DEF Add, Go, TypeOK
<1> HIDE DEF r
<1>2. /\ f \in Adds(q) /\ \A p \in Queue : f \notin Incs(p)
      /\ \A p \in Queue \ {q} : f \notin Adds(p)
  BY <1>1 DEF Incs, Adds, At
<1>3. \A p \in Queue : Sound(wait_cnt[p], Cardinality(Incs(p)),
                             Cardinality(Adds(p)))
  BY CountersAre
<1>4. ASSUME NEW p \in Queue
      PROVE  Sound(wait_cnt'[p], Cardinality(Incs(p)'),
                   Cardinality(Adds(p)'))
  <2>1. Incs(p)' = Incs(p) \ {f} /\ Adds(p)' = Adds(p) \ {f}
    BY <1>1, FreerMoves
  <2>2. Incs(p)' = Incs(p)
    BY <1>2, <2>1
  <2>3. CASE p # q
    <3>1. Adds(p)' = Adds(p) /\ wait_cnt'[p] = wait_cnt[p]
      BY <1>1, <1>2, <2>1, <2>3
    <3> QED  BY <1>3, <2>2, <3>1
  <2>4. CASE p = q
    <3>1. /\ IsFiniteSet(Adds(p)) /\ Cardinality(Adds(p)) \in Nat
          /\ Cardinality(Incs(p)) \in Nat
          /\ Cardinality(Adds(p)) = 0 <=> Adds(p) = {}
      BY FreersAt
    <3>2. Cardinality(Adds(p)) > 0
      BY <1>2, <2>4, <3>1
    <3>3. Cardinality(Adds(p)') = Cardinality(Adds(p)) - 1
      BY <1>2, <2>1, <2>4, <3>1, FS_RemoveElement
    <3>4. wait_cnt[p] \in Int /\ wait_cnt'[p] = wait_cnt[p] + wake_cnt
      BY <1>1, <2>4
    <3> QED  BY <1>1, <1>3, <2>2, <3>1, <3>2, <3>3, <3>4, SoundAdd
  <2> QED  BY <2>3, <2>4
<1> QED  BY <1>4, CountersBecome

\* Every step keeps the wake counters sound.
LEMMA CountersStep ==
  ASSUME TypeOK, TypeOK', HctxInv, CountersSound, [Next]_vars
  PROVE  CountersSound'
<1> USE DEF sizeVars, shareVars, taskVars, wakeVars
<1>1. CASE wait_cnt' = wait_cnt /\ freer' = freer
  <2>1. \A q \in Queue : Incs(q)' = Incs(q) /\ Adds(q)' = Adds(q)
    BY <1>1 DEF Incs, Adds, At
  <2> QED  BY <1>1, <2>1, CountersSame
<1>2. ASSUME NEW t \in Task,
             TaskStep(t) \/ \E h \in Hctx, wait \in Waits : Get(t, h, wait)
      PROVE  CountersSound'
  <2>1. wait_cnt' = wait_cnt /\ freer' = freer
    BY <1>2 DEF TaskStep, Get, Again, Take, Miss, QueueUp, FinishWait, TagBusy,
                TagBusyCount, Count
  <2> QED  BY <1>1, <2>1
<1>3. ASSUME NEW f \in Freer, NEW where \in FreerPc \ {"inc", "add"},
             NEW q, NEW n, Go(f, where, q, n) \/ Finish(f),
             freer[f].pc \notin {"inc", "add"}, wait_cnt' = wait_cnt
      PROVE  CountersSound'
  <2>1. PICK r : freer' = [freer EXCEPT ![f] = r] /\ r.pc \notin {"inc", "add"}
    <3>1. CASE Go(f, where, q, n)
      <4> DEFINE r == [pc |-> where, q |-> q, n |-> n]
      <4>1. freer' = [freer EXCEPT ![f] = r] /\ r.pc = where
        BY <3>1 DEF Go
      <4> HIDE DEF r
      <4> QED  BY <4>1
    <3>2. CASE Finish(f)
      <4>1. freer' = [freer EXCEPT ![f] = Idle] /\ Idle.pc = "idle"
        BY <3>2 DEF Finish, Idle
      <4> QED  BY <4>1
    <3> QED  BY <1>3, <3>1, <3>2
  <2>2. \A p \in Queue : f \notin Incs(p) \cup Adds(p)
    BY <1>3 DEF Incs, Adds, At
  <2>3. \A p \in Queue : Incs(p)' = Incs(p) \ {f} /\ Adds(p)' = Adds(p) \ {f}
    BY <2>1, FreerMoves
  <2> QED  BY <1>3, <2>2, <2>3, CountersSame
<1>4. ASSUME NEW g \in Tag, Complete(g)
      PROVE  CountersSound'
  <2>1. PICK f \in Freer : Clear(f, g) \/ \E h \in Hctx : Put(f, g, h)
    BY <1>4 DEF Complete
  <2>2. /\ freer[f].pc \notin {"inc", "add"} /\ wait_cnt' = wait_cnt
        /\ Go(f, "clear", 0, 0) \/ Go(f, "index", 0, 0)
    BY <2>1 DEF Clear, Put, At
  <2>3. {"clear", "index"} \subseteq FreerPc \ {"inc", "add"}
    BY DEF FreerPc
  <2> QED  BY <1>3, <2>2, <2>3
<1>5. ASSUME NEW f \in Freer, FreerStep(f)
      PROVE  CountersSound'
  <2>1. CASE Dec(f) \/ Inc(f) \/ Add(f)
    BY <2>1, CountersDec, CountersInc, CountersAdd
  <2>2. CASE ~(Dec(f) \/ Inc(f) \/ Add(f))
    <3>1. freer[f].pc \notin {"inc", "add"} /\ wait_cnt' = wait_cnt
      BY <1>5, <2>2 DEF FreerStep, WakeIndex, WakePtr, WakePtrNext, WakeRead,
             WakeMove, IndexRead, Advance, WakeBatch, At
    <3>2. \E where \in {"look", "found", "move", "dec", "advance", "wake"} :
          \E q, n :
            Go(f, where, q, n) \/ Finish(f)
      BY <1>5, <2>2 DEF FreerStep, WakeIndex, WakePtr, WakePtrNext, WakeRead,
             WakeMove, IndexRead, Advance, WakeBatch
    <3>3. {"look", "found", "move", "dec", "advance", "wake"}
            \subseteq FreerPc \ {"inc", "add"}
      BY DEF FreerPc
    <3> QED  BY <1>3, <3>1, <3>2, <3>3
  <2> QED  BY <2>1, <2>2
<1>6. CASE \/ WakerStep
           \/ \E h \in Hctx : TagIdle(h)
           \/ \E d \in NewDepths : UpdateWords(d)
           \/ UNCHANGED vars
  <2>1. wait_cnt' = wait_cnt /\ freer' = freer
    BY <1>6 DEF WakerStep, TagIdleCount, WakeupAll, UpdateDepth, TagIdle,
                UpdateWords, vars
  <2> QED  BY <1>1, <2>1
<1> QED  BY <1>2, <1>4, <1>5, <1>6 DEF Next, Run

-----------------------------------------------------------------------------
(* Owners of tags *)

\* Nobody is of two kinds.
LEMMA Kinds ==
  /\ \A t \in Task : t \notin Freer /\ t \notin Hctx /\ t # NoOne
  /\ \A f \in Freer : f \notin Task /\ f \notin Hctx /\ f # NoOne
  /\ \A h \in Hctx : h \notin Task /\ h \notin Freer /\ h # NoOne
BY TagAssumption

\* The request that is handed out belongs to the hctx, with all the tags the
\* task had; nobody else's tags change.
LEMMA HandOutTags ==
  ASSUME NEW t \in Task, NEW h \in Hctx, hctx[t] = h, NEW own, HandOut(t, own)
  PROVE  /\ TagsOf(t)' = {}
         /\ TagsOf(h)' = {g \in Tag : own[g] \in {t, h}}
         /\ \A x \in (Task \cup Hctx) \ {t, h} :
              TagsOf(x)' = {g \in Tag : own[g] = x}
<1>1. \A g \in Tag : owner'[g] = IF own[g] = t THEN h ELSE own[g]
  BY DEF HandOut
<1>2. h # t
  BY Kinds
<1> QED  BY <1>1, <1>2 DEF TagsOf

\* The steps of a task keep its tag its own.
LEMMA OwnerTask ==
  ASSUME TypeOK, OwnerInv, HctxInv, NEW t \in Task,
         TaskStep(t) \/ \E h \in Hctx, wait \in Waits : Get(t, h, wait)
  PROVE  OwnerInv' /\ HctxInv'
<1> USE DEF sizeVars, shareVars, taskVars, wakeVars
<1>0. pc \in [Task -> TaskPc] /\ hctx \in [Task -> Hctx \cup {NoOne}]
      /\ DOMAIN owner = Tag
  BY DEF TypeOK
<1>1. ASSUME \A u \in Task \ {t} : /\ pc'[u] = pc[u] /\ hctx'[u] = hctx[u]
                                   /\ TagsOf(u)' = TagsOf(u),
             pc'[t] # "idle" => hctx'[t] \in Hctx,
             IF pc'[t] \in Holding THEN \E g \in Tag : TagsOf(t)' = {g}
                                   ELSE TagsOf(t)' = {}
      PROVE  OwnerInv' /\ HctxInv'
  BY <1>1 DEF OwnerInv, HctxInv
<1>2. CASE Tried(t)
  <2>1. PICK p \in TaskPc \ Holding, k \in Hctx \cup {NoOne} :
          /\ pc' = [pc EXCEPT ![t] = p] /\ hctx' = [hctx EXCEPT ![t] = k]
          /\ p # "idle" => k \in Hctx
    BY <1>2 DEF Tried
  <2>2. owner' = owner /\ pc[t] \notin Holding
    BY <1>2 DEF Tried
  <2>3. \A u \in Task : TagsOf(u)' = TagsOf(u)
    BY <2>2 DEF TagsOf
  <2>4. TagsOf(t) = {}
    BY <2>2 DEF OwnerInv
  <2> QED  BY <1>0, <1>1, <2>1, <2>3, <2>4
<1>3. ASSUME NEW g \in Tag, Take(t, g)
      PROVE  OwnerInv' /\ HctxInv'
  <2> DEFINE own == [owner EXCEPT ![g] = t]
  <2>1. /\ hctx[t] \in Hctx /\ TagsOf(t) = {} /\ owner[g] = NoOne
        /\ pc[t] \in {"scan", "rescan"}
    BY <1>3 DEF Take, FreeTags, HctxInv, OwnerInv, Holding
  <2>2. \A u \in Task \ {t} : {x \in Tag : own[x] = u} = TagsOf(u)
    BY <1>0, <2>1, Kinds DEF TagsOf
  <2>3. {x \in Tag : own[x] = t} = {g}
    BY <1>0, <2>1 DEF TagsOf
  <2>4. CASE HandOut(t, own)
    <3>1. pc' = [pc EXCEPT ![t] = "idle"] /\ hctx' = [hctx EXCEPT ![t] = NoOne]
      BY <2>4 DEF HandOut
    <3>2. TagsOf(t)' = {} /\ \A u \in Task \ {t} : TagsOf(u)' = TagsOf(u)
      <4>1. TagsOf(t)' = {}
        BY <2>1, <2>4, HandOutTags
      <4>2. \A u \in Task \ {t} : TagsOf(u)' = {x \in Tag : own[x] = u}
        <5>1. \A u \in Task \ {t} : u \in (Task \cup Hctx) \ {t, hctx[t]}
          BY <2>1, Kinds
        <5>2. \A u \in (Task \cup Hctx) \ {t, hctx[t]} :
                TagsOf(u)' = {x \in Tag : own[x] = u}
          <6> HIDE DEF own
          <6> QED  BY <2>1, <2>4, HandOutTags
        <5> QED  BY <5>1, <5>2
      <4> QED  BY <2>2, <4>1, <4>2
    <3>3. "idle" \notin Holding
      BY DEF Holding
    <3> QED  BY <1>0, <1>1, <3>1, <3>2, <3>3
  <2>5. CASE ~HandOut(t, own)
    <3>1. /\ owner' = own /\ hctx' = hctx
          /\ pc' = [pc EXCEPT ![t] = IF @ = "scan" THEN "mark" ELSE "finish"]
      BY <1>3, <2>5 DEF Take
    <3>2. /\ TagsOf(t)' = {g}
          /\ \A u \in Task \ {t} : TagsOf(u)' = TagsOf(u)
      BY <2>2, <2>3, <3>1 DEF TagsOf
    <3>3. pc'[t] \in Holding
      BY <1>0, <3>1 DEF Holding
    <3> QED  BY <1>0, <1>1, <2>1, <3>1, <3>2, <3>3
  <2> QED  BY <2>4, <2>5
<1>4. ASSUME NEW q \in Queue, QueueUp(t, q)
      PROVE  OwnerInv' /\ HctxInv'
  <2>1. /\ owner' = owner /\ hctx' = hctx /\ pc' = [pc EXCEPT ![t] = "again"]
        /\ pc[t] \in {"queue", "woken"}
    BY <1>4 DEF QueueUp
  <2>2. pc[t] # "idle" /\ pc[t] \notin Holding /\ "again" \notin Holding
    BY <2>1 DEF Holding
  <2>3. TagsOf(t) = {} /\ hctx[t] \in Hctx
    BY <2>2 DEF OwnerInv, HctxInv
  <2>4. \A u \in Task : TagsOf(u)' = TagsOf(u)
    BY <2>1 DEF TagsOf
  <2> QED  BY <1>0, <1>1, <2>1, <2>2, <2>3, <2>4
<1>5. CASE HandOut(t, owner) /\ hctx[t] \in Hctx
  <2>1. pc' = [pc EXCEPT ![t] = "idle"] /\ hctx' = [hctx EXCEPT ![t] = NoOne]
    BY <1>5 DEF HandOut
  <2>2. TagsOf(t)' = {} /\ \A u \in Task \ {t} : TagsOf(u)' = TagsOf(u)
    <3>1. \A u \in Task \ {t} : u \in (Task \cup Hctx) \ {t, hctx[t]}
      BY <1>5, Kinds
    <3> QED  BY <1>5, <3>1, HandOutTags DEF TagsOf
  <2>3. "idle" \notin Holding
    BY DEF Holding
  <2> QED  BY <1>0, <1>1, <2>1, <2>2, <2>3
<1>6. ASSUME owner' = owner, hctx' = hctx, pc[t] \in Holding,
             NEW p \in Holding, pc' = [pc EXCEPT ![t] = p]
      PROVE  OwnerInv' /\ HctxInv'
  <2>1. (\E g \in Tag : TagsOf(t) = {g}) /\ hctx[t] \in Hctx
    BY <1>6 DEF OwnerInv, HctxInv, Holding
  <2>2. \A u \in Task : TagsOf(u)' = TagsOf(u)
    BY <1>6 DEF TagsOf
  <2> QED  BY <1>0, <1>1, <1>6, <2>1, <2>2
<1>7. CASE FinishWait(t)
  <2>1. hctx[t] \in Hctx
    BY <1>7 DEF FinishWait, HctxInv
  <2>2. CASE Shared
    BY <1>6, <1>7, <2>2 DEF FinishWait, Holding
  <2>3. CASE ~Shared
    BY <1>5, <1>7, <2>1, <2>3 DEF FinishWait
  <2> QED  BY <2>2, <2>3
<1>8. CASE TagBusy(t)
  <2>1. /\ owner' = owner /\ hctx' = hctx /\ pc[t] \in Holding
        /\ \E p \in {"count", "inc"} : pc' = [pc EXCEPT ![t] = p]
    BY <1>8 DEF TagBusy, Holding
  <2>2. {"count", "inc"} \subseteq Holding
    BY DEF Holding
  <2> QED  BY <1>6, <2>1, <2>2
<1>9. CASE TagBusyCount(t)
  BY <1>6, <1>9 DEF TagBusyCount, Holding
<1>10. CASE Count(t)
  BY <1>5, <1>10 DEF Count, HctxInv
<1> QED  BY <1>2, <1>3, <1>4, <1>7, <1>8, <1>9, <1>10, Attempts DEF TaskStep

\* No other step touches the tag of a task.
LEMMA OwnerOthers ==
  ASSUME TypeOK, OwnerInv, HctxInv,
         \/ \E g \in Tag : Complete(g)
         \/ \E f \in Freer : FreerStep(f)
         \/ WakerStep
         \/ \E h \in Hctx : TagIdle(h)
         \/ \E d \in NewDepths : UpdateWords(d)
         \/ UNCHANGED vars
  PROVE  OwnerInv' /\ HctxInv'
<1> USE DEF sizeVars, shareVars, taskVars, wakeVars, Elsewhere
<1>1. hctx' = hctx
  BY DEF Complete, Clear, Put, FreerStep, WakeIndex, WakePtr, WakePtrNext,
         WakeRead, WakeMove, Dec, Inc, Add, IndexRead, Advance, WakeBatch,
         WakerStep, TagIdleCount, WakeupAll, UpdateDepth, TagIdle, UpdateWords,
         vars
<1>2. \A t \in Task : \/ pc'[t] = pc[t]
                      \/ pc[t] = "asleep" /\ pc'[t] = "woken"
  <2>1. pc' = pc \/ \E q : WakeUp(q)
    BY DEF Complete, Clear, Put, FreerStep, WakeIndex, WakePtr, WakePtrNext,
           WakeRead, WakeMove, Dec, Inc, Add, IndexRead, Advance, WakeBatch,
           WakerStep, TagIdleCount, WakeupAll, UpdateDepth, TagIdle,
           UpdateWords, vars
  <2>2. ASSUME NEW q, WakeUp(q)
        PROVE  \A t \in Task : \/ pc'[t] = pc[t]
                               \/ pc[t] = "asleep" /\ pc'[t] = "woken"
    BY <2>2 DEF WakeUp
  <2> QED  BY <2>1, <2>2
<1>3. \A t \in Task : TagsOf(t)' = TagsOf(t)
  <2>1. CASE owner' = owner
    BY <2>1 DEF TagsOf
  <2>2. ASSUME NEW g \in Tag, Complete(g)
        PROVE  \A t \in Task : TagsOf(t)' = TagsOf(t)
    <3>1. PICK y : owner' = [owner EXCEPT ![g] = y] /\ y \in Freer \cup {NoOne}
      BY <2>2 DEF Complete, Clear, Put
    <3>2. owner[g] \in Freer \cup Hctx
      BY <2>2 DEF Complete, Clear, Put
    <3>3. DOMAIN owner = Tag
      BY DEF TypeOK
    <3> QED  BY <3>1, <3>2, <3>3, Kinds DEF TagsOf
  <2>3. CASE \A g \in Tag : ~Complete(g)
    <3>1. owner' = owner
      BY <2>3 DEF FreerStep, WakeIndex, WakePtr, WakePtrNext, WakeRead,
             WakeMove, Dec, Inc, Add, IndexRead, Advance, WakeBatch, WakerStep,
             TagIdleCount, WakeupAll, UpdateDepth, TagIdle, UpdateWords, vars
    <3> QED  BY <2>1, <3>1
  <2> QED  BY <2>2, <2>3
<1> QED  BY <1>1, <1>2, <1>3 DEF OwnerInv, HctxInv, Holding

-----------------------------------------------------------------------------
(* Shares *)

\* The two parts of ShareExact.
Counting == {t \in Task : pc[t] = "inc"}
UsersExact == active_queues =
                Cardinality(active) - Cardinality(Counting)
                  + Cardinality(idling)
InFlightExact == Shared => \A h \in Hctx :
                             nr_active[h] = Cardinality(TagsOf(h))

\* Neither the active queues nor those between the two steps of going busy or
\* idle change.
LEMMA UsersSame ==
  ASSUME UsersExact, UNCHANGED <<active, active_queues, idling>>,
         Counting' = Counting
  PROVE  UsersExact'
BY DEF UsersExact

\* The sets ShareExact counts are finite.
LEMMA SharesFinite ==
  ASSUME TypeOK
  PROVE  /\ IsFiniteSet(active) /\ Cardinality(active) \in Nat
         /\ IsFiniteSet(idling) /\ Cardinality(idling) \in Nat
         /\ IsFiniteSet(Counting) /\ Cardinality(Counting) \in Nat
         /\ \A x : IsFiniteSet(TagsOf(x)) /\ Cardinality(TagsOf(x)) \in Nat
<1>1. active \in SUBSET Hctx /\ idling \in SUBSET Hctx /\ IsFiniteSet(Hctx)
  BY TagAssumption DEF TypeOK
<1>2. Counting \in SUBSET Task /\ IsFiniteSet(Task)
  BY TagAssumption DEF Counting
<1>3. IsFiniteSet(Tag)
  BY TagAssumption, FS_Interval DEF Tag
<1>4. \A x : TagsOf(x) \in SUBSET Tag
  BY DEF TagsOf
<1>5. /\ IsFiniteSet(active) /\ IsFiniteSet(idling) /\ IsFiniteSet(Counting)
      /\ \A x : IsFiniteSet(TagsOf(x))
  BY <1>1, <1>2, <1>3, <1>4, FS_Subset
<1> QED  BY <1>5, FS_CardinalityType

\* Taking the step of a task from or to the increment of active_queues.
LEMMA CountingMoves ==
  ASSUME TypeOK, NEW t \in Task, NEW p, pc' = [pc EXCEPT ![t] = p]
  PROVE  Counting' = IF p = "inc" THEN Counting \cup {t} ELSE Counting \ {t}
BY DEF TypeOK, Counting

\* Every step of a task keeps the number of users exact.
LEMMA UsersTask ==
  ASSUME TypeOK, HctxInv, UsersExact, NEW t \in Task,
         TaskStep(t) \/ \E h \in Hctx, wait \in Waits : Get(t, h, wait)
  PROVE  UsersExact'
<1> USE DEF sizeVars, shareVars, taskVars, wakeVars
<1>1. ASSUME NEW p, pc' = [pc EXCEPT ![t] = p], p # "inc", pc[t] # "inc",
             UNCHANGED <<active, active_queues, idling>>
      PROVE  UsersExact'
  <2>1. Counting' = Counting
    BY <1>1, CountingMoves DEF Counting
  <2> QED  BY <1>1, <2>1, UsersSame
<1>2. CASE Tried(t)
  <2>1. PICK p \in TaskPc \ Holding : pc' = [pc EXCEPT ![t] = p]
    BY <1>2 DEF Tried
  <2>2. /\ UNCHANGED <<active, active_queues, idling>>
        /\ p # "inc" /\ pc[t] # "inc"
    BY <1>2 DEF Tried, Holding
  <2> QED  BY <1>1, <2>1, <2>2
<1>3. ASSUME NEW g \in Tag, Take(t, g)
      PROVE  UsersExact'
  <2>1. /\ UNCHANGED <<active, active_queues, idling>> /\ pc[t] # "inc"
        /\ \E p \in {"idle", "mark", "finish"} : pc' = [pc EXCEPT ![t] = p]
    BY <1>3 DEF Take, HandOut
  <2> QED  BY <1>1, <2>1
<1>4. ASSUME NEW q \in Queue, QueueUp(t, q)
      PROVE  UsersExact'
  BY <1>1, <1>4 DEF QueueUp
<1>5. CASE FinishWait(t)
  <2>1. /\ UNCHANGED <<active, active_queues, idling>> /\ pc[t] # "inc"
        /\ \E p \in {"idle", "mark"} : pc' = [pc EXCEPT ![t] = p]
    BY <1>5 DEF FinishWait, HandOut
  <2> QED  BY <1>1, <2>1
<1>6. CASE TagBusy(t)
  <2>1. CASE hctx[t] \in active
    <3>1. /\ UNCHANGED <<active, active_queues, idling>> /\ pc[t] # "inc"
          /\ pc' = [pc EXCEPT ![t] = "count"]
      BY <1>6, <2>1 DEF TagBusy
    <3> QED  BY <1>1, <3>1
  <2>2. CASE hctx[t] \notin active
    <3>1. /\ active' = active \cup {hctx[t]} /\ idling' = idling
          /\ active_queues' = active_queues
          /\ pc' = [pc EXCEPT ![t] = "inc"] /\ pc[t] = "mark"
      BY <1>6, <2>2 DEF TagBusy
    <3>2. Counting' = Counting \cup {t} /\ t \notin Counting
      BY <3>1, CountingMoves DEF Counting
    <3>3. Cardinality(Counting') = Cardinality(Counting) + 1
      BY <3>2, SharesFinite, FS_AddElement
    <3>4. Cardinality(active') = Cardinality(active) + 1
      BY <2>2, <3>1, SharesFinite, FS_AddElement
    <3>5. Cardinality(idling') = Cardinality(idling)
      BY <3>1
    <3>6. (Cardinality(active) + 1) - (Cardinality(Counting) + 1)
             + Cardinality(idling)
            = Cardinality(active) - Cardinality(Counting)
                + Cardinality(idling)
      BY SharesFinite
    <3> QED  BY <3>1, <3>3, <3>4, <3>5, <3>6 DEF UsersExact
  <2> QED  BY <2>1, <2>2
<1>7. CASE TagBusyCount(t)
  <2>1. /\ active' = active /\ idling' = idling
        /\ active_queues' = active_queues + 1
        /\ pc' = [pc EXCEPT ![t] = "count"] /\ pc[t] = "inc"
    BY <1>7 DEF TagBusyCount
  <2>2. Counting' = Counting \ {t} /\ t \in Counting
    <3>1. \A u \in Task : pc'[u] = IF u = t THEN "count" ELSE pc[u]
      BY <2>1 DEF TypeOK
    <3> QED  BY <2>1, <3>1 DEF Counting
  <2>3. Cardinality(Counting') = Cardinality(Counting) - 1
    BY <2>2, SharesFinite, FS_RemoveElement
  <2>4. Cardinality(active) - (Cardinality(Counting) - 1)
           + Cardinality(idling)
          = (Cardinality(active) - Cardinality(Counting)
               + Cardinality(idling)) + 1
    <3>1. \A a, b, c \in Nat : a - (b - 1) + c = (a - b + c) + 1
      OBVIOUS
    <3> QED  BY <3>1, SharesFinite
  <2> QED  BY <2>1, <2>3, <2>4 DEF UsersExact
<1>8. CASE Count(t)
  BY <1>1, <1>8 DEF Count, HandOut
<1> QED  BY <1>2, <1>3, <1>4, <1>5, <1>6, <1>7, <1>8, Attempts DEF TaskStep

\* No other step disturbs the number of users: a queue that goes idle is
\* counted as idling until it has decremented it.
LEMMA UsersOthers ==
  ASSUME TypeOK, UsersExact,
         \/ \E g \in Tag : Complete(g)
         \/ \E f \in Freer : FreerStep(f)
         \/ WakerStep
         \/ \E h \in Hctx : TagIdle(h)
         \/ \E d \in NewDepths : UpdateWords(d)
         \/ UNCHANGED vars
  PROVE  UsersExact'
<1> USE DEF sizeVars, shareVars, taskVars, wakeVars, Elsewhere
<1>1. Counting' = Counting
  <2>1. pc' = pc \/ \E q : WakeUp(q)
    BY DEF Complete, Clear, Put, FreerStep, WakeIndex, WakePtr, WakePtrNext,
           WakeRead, WakeMove, Dec, Inc, Add, IndexRead, Advance, WakeBatch,
           WakerStep, TagIdleCount, WakeupAll, UpdateDepth, TagIdle,
           UpdateWords, vars
  <2>2. ASSUME NEW q, WakeUp(q)
        PROVE  Counting' = Counting
    BY <2>2 DEF WakeUp, Counting
  <2>3. CASE pc' = pc
    BY <2>3 DEF Counting
  <2> QED  BY <2>1, <2>2, <2>3
<1>2. ASSUME NEW h \in Hctx, TagIdle(h)
      PROVE  UsersExact'
  <2>1. /\ active' = active \ {h} /\ h \in active
        /\ idling' = idling \cup {h} /\ h \notin idling
        /\ active_queues' = active_queues
    BY <1>2 DEF TagIdle
  <2>2. /\ Cardinality(active') = Cardinality(active) - 1
        /\ Cardinality(idling') = Cardinality(idling) + 1
    BY <2>1, SharesFinite, FS_AddElement, FS_RemoveElement
  <2>3. \A a, b, c \in Nat : (a - 1) - b + (c + 1) = a - b + c
    OBVIOUS
  <2> QED  BY <1>1, <2>1, <2>2, <2>3, SharesFinite DEF UsersExact
<1>3. ASSUME NEW h \in Hctx, TagIdleCount(h)
      PROVE  UsersExact'
  <2>1. /\ active' = active /\ idling' = idling \ {h} /\ h \in idling
        /\ active_queues' = active_queues - 1
    BY <1>3 DEF TagIdleCount
  <2>2. Cardinality(idling') = Cardinality(idling) - 1
    BY <2>1, SharesFinite, FS_RemoveElement
  <2>3. \A a, b, c \in Nat : a - b + (c - 1) = (a - b + c) - 1
    OBVIOUS
  <2> QED  BY <1>1, <2>1, <2>2, <2>3, SharesFinite DEF UsersExact
<1>4. CASE \A h \in Hctx : ~TagIdle(h) /\ ~TagIdleCount(h)
  <2>1. UNCHANGED <<active, active_queues, idling>>
    BY <1>4 DEF Complete, Clear, Put, FreerStep, WakeIndex, WakePtr,
           WakePtrNext, WakeRead, WakeMove, Dec, Inc, Add, IndexRead, Advance,
           WakeBatch, WakerStep, WakeupAll, UpdateDepth, UpdateWords, vars
  <2> QED  BY <1>1, <2>1, UsersSame
<1> QED  BY <1>2, <1>3, <1>4

\* nr_active counts the requests in flight after every step.
LEMMA InFlightStep ==
  ASSUME TypeOK, OwnerInv, HctxInv, InFlightExact, [Next]_vars
  PROVE  InFlightExact'
<1> USE DEF sizeVars, shareVars, taskVars, wakeVars, Elsewhere
<1> SUFFICES ASSUME Shared
             PROVE  \A h \in Hctx : nr_active'[h] = Cardinality(TagsOf(h)')
  BY DEF InFlightExact
<1>0. /\ \A h \in Hctx : nr_active[h] = Cardinality(TagsOf(h))
      /\ owner \in [Tag -> {NoOne} \cup Task \cup Freer \cup Hctx]
      /\ nr_active \in [Hctx -> Int]
  BY DEF InFlightExact, TypeOK
<1>1. ASSUME nr_active' = nr_active, \A h \in Hctx : TagsOf(h)' = TagsOf(h)
      PROVE  \A h \in Hctx : nr_active'[h] = Cardinality(TagsOf(h)')
  BY <1>0, <1>1
<1>2. CASE nr_active' = nr_active /\ owner' = owner
  <2>1. \A h \in Hctx : TagsOf(h)' = TagsOf(h)
    BY <1>2 DEF TagsOf
  <2> QED  BY <1>1, <1>2, <2>1
<1>3. ASSUME NEW t \in Task, NEW g \in Tag, Take(t, g)
      PROVE  \A h \in Hctx : nr_active'[h] = Cardinality(TagsOf(h)')
  <2>1. /\ nr_active' = nr_active /\ owner' = [owner EXCEPT ![g] = t]
        /\ owner[g] = NoOne
    BY <1>3 DEF Take, FreeTags
  <2>2. \A h \in Hctx : TagsOf(h)' = TagsOf(h)
    BY <1>0, <2>1, Kinds DEF TagsOf
  <2> QED  BY <1>1, <2>1, <2>2
<1>4. ASSUME NEW t \in Task, Count(t)
      PROVE  \A h \in Hctx : nr_active'[h] = Cardinality(TagsOf(h)')
  <2>1. PICK k \in Hctx : hctx[t] = k
    BY <1>4 DEF Count, HctxInv
  <2>2. PICK g \in Tag : TagsOf(t) = {g}
    BY <1>4 DEF Count, OwnerInv, Holding
  <2>3. /\ HandOut(t, owner)
        /\ nr_active' = [nr_active EXCEPT ![k] = @ + 1]
    BY <1>4, <2>1 DEF Count
  <2>4. /\ TagsOf(k)' = {x \in Tag : owner[x] \in {t, k}}
        /\ \A h \in Hctx \ {k} : TagsOf(h)' = TagsOf(h)
    <3>1. \A h \in Hctx \ {k} : h \in (Task \cup Hctx) \ {t, k}
      BY Kinds
    <3> QED  BY <2>1, <2>3, <3>1, HandOutTags DEF TagsOf
  <2>5. TagsOf(k)' = TagsOf(k) \cup {g} /\ g \notin TagsOf(k)
    <3>1. t # k
      BY Kinds
    <3> QED  BY <2>2, <2>4, <3>1 DEF TagsOf
  <2>6. Cardinality(TagsOf(k)') = Cardinality(TagsOf(k)) + 1
    BY <2>5, SharesFinite, FS_AddElement
  <2> QED  BY <1>0, <2>3, <2>4, <2>6
<1>5. ASSUME NEW f \in Freer, NEW g \in Tag, Clear(f, g)
      PROVE  \A h \in Hctx : nr_active'[h] = Cardinality(TagsOf(h)')
  <2>1. /\ nr_active' = nr_active /\ owner' = [owner EXCEPT ![g] = NoOne]
        /\ owner[g] = f
    BY <1>5 DEF Clear
  <2>2. \A h \in Hctx : TagsOf(h)' = TagsOf(h)
    BY <1>0, <2>1, Kinds DEF TagsOf
  <2> QED  BY <1>1, <2>1, <2>2
<1>6. ASSUME NEW f \in Freer, NEW g \in Tag, NEW k \in Hctx, Put(f, g, k)
      PROVE  \A h \in Hctx : nr_active'[h] = Cardinality(TagsOf(h)')
  <2>1. /\ nr_active' = [nr_active EXCEPT ![k] = @ - 1]
        /\ owner' = [owner EXCEPT ![g] = f] /\ owner[g] = k
    BY <1>6 DEF Put
  <2>2. /\ TagsOf(k)' = TagsOf(k) \ {g} /\ g \in TagsOf(k)
        /\ \A h \in Hctx \ {k} : TagsOf(h)' = TagsOf(h)
    BY <1>0, <2>1, Kinds DEF TagsOf
  <2>3. Cardinality(TagsOf(k)') = Cardinality(TagsOf(k)) - 1
    BY <2>2, SharesFinite, FS_RemoveElement
  <2> QED  BY <1>0, <2>1, <2>2, <2>3
<1>7. CASE \/ \E t \in Task : \/ \E h \in Hctx, wait \in Waits : Get(t, h, wait)
                              \/ Again(t) \/ Miss(t)
                              \/ \E q \in Queue : QueueUp(t, q)
                              \/ FinishWait(t) \/ TagBusy(t) \/ TagBusyCount(t)
           \/ \E f \in Freer : FreerStep(f)
           \/ WakerStep
           \/ \E h \in Hctx : TagIdle(h)
           \/ \E d \in NewDepths : UpdateWords(d)
           \/ UNCHANGED vars
  <2>1. nr_active' = nr_active
    BY <1>7 DEF Get, Again, Miss, QueueUp, FinishWait, TagBusy, TagBusyCount,
           FreerStep, WakeIndex, WakePtr, WakePtrNext, WakeRead, WakeMove, Dec,
           Inc, Add, IndexRead, Advance, WakeBatch, WakerStep, TagIdleCount,
           WakeupAll, UpdateDepth, TagIdle, UpdateWords, vars
  <2>2. owner' = owner
    BY <1>7 DEF Get, Again, Miss, QueueUp, FinishWait, TagBusy, TagBusyCount,
           FreerStep, WakeIndex, WakePtr, WakePtrNext, WakeRead, WakeMove, Dec,
           Inc, Add, IndexRead, Advance, WakeBatch, WakerStep, TagIdleCount,
           WakeupAll, UpdateDepth, TagIdle, UpdateWords, vars
  <2> QED  BY <1>2, <2>1, <2>2
<1> QED  BY <1>3, <1>4, <1>5, <1>6, <1>7 DEF Next, Run, TaskStep, Complete

\* ShareExact is its two parts.
LEMMA ShareParts == ShareExact <=> UsersExact /\ InFlightExact
BY DEF ShareExact, UsersExact, InFlightExact, Counting, TagsOf

-----------------------------------------------------------------------------
(* The invariant *)

\* The map as bt_alloc() leaves it satisfies the invariant.
LEMMA InitInv == Init => IInv
<1> SUFFICES ASSUME Init
             PROVE  IInv
  OBVIOUS
<1>1. /\ NrTags \in 1 .. NrTags /\ 0 \in 0 .. NrTags
      /\ BT_WAIT_BATCH \in Nat \ {0}
  BY TagAssumption
<1>2. WakeCnt(NrTags) \in 1 .. BT_WAIT_BATCH
  BY <1>1, BatchSize
<1>3. TypeOK
  <2>1. Idle \in [pc : FreerPc, q : Queue, n : Queue]
    BY Ring DEF Idle, FreerPc
  <2>2. "idle" \in TaskPc
    BY DEF TaskPc
  <2>3. wake_cnt \in 1 .. BT_WAIT_BATCH /\ wake_cnt \in Int
    BY <1>1, <1>2 DEF Init
  <2> QED  BY <1>1, <2>1, <2>2, <2>3, Ring DEF Init, TypeOK
<1>4. OwnerInv
  BY Kinds DEF Init, OwnerInv, Holding, TagsOf
<1>5. HctxInv
  BY DEF Init, HctxInv
<1>6. CountersSound
  <2>1. Cardinality(Freer) \in Nat /\ Cardinality(Freer) # 0
    BY TagAssumption, FS_CardinalityType, FS_EmptySet
  <2>2. \A q \in Queue : Incs(q) = {} /\ Adds(q) = {}
    BY DEF Init, Incs, Adds, At, Idle
  <2>3. \A q \in Queue : wait_cnt[q] = wake_cnt
    BY DEF Init
  <2>4. wake_cnt \in 1 .. BT_WAIT_BATCH
    BY <1>3 DEF TypeOK
  <2>5. /\ wake_cnt + 0 >= 1
        /\ wake_cnt + 0 + BT_WAIT_BATCH * 0
             <= BT_WAIT_BATCH * Cardinality(Freer)
    <3>1. BT_WAIT_BATCH * 1 <= BT_WAIT_BATCH * Cardinality(Freer)
      BY <1>1, <2>1
    <3> QED  BY <1>1, <2>1, <2>4, <3>1
  <2> QED  BY <2>2, <2>3, <2>5, FS_EmptySet DEF CountersSound
<1>7. ShareExact
  <2>1. active = {} /\ idling = {} /\ Counting = {} /\ active_queues = 0
    BY DEF Init, Counting
  <2>2. \A h \in Hctx : TagsOf(h) = {} /\ nr_active[h] = 0
    BY Kinds DEF Init, TagsOf
  <2>3. UsersExact
    BY <2>1, FS_EmptySet DEF UsersExact
  <2>4. InFlightExact
    BY <2>2, FS_EmptySet DEF InFlightExact
  <2> QED  BY <2>3, <2>4, ShareParts
<1> QED  BY <1>3, <1>4, <1>5, <1>6, <1>7 DEF IInv

\* Every step preserves the invariant.
LEMMA NextInv == IInv /\ [Next]_vars => IInv'
<1> SUFFICES ASSUME IInv, [Next]_vars
             PROVE  IInv'
  OBVIOUS
<1>1. /\ TypeOK /\ OwnerInv /\ HctxInv /\ CountersSound /\ UsersExact
      /\ InFlightExact
  BY ShareParts DEF IInv
<1>2. TypeOK' /\ OwnerInv' /\ HctxInv' /\ UsersExact'
  <2>1. ASSUME NEW t \in Task,
               TaskStep(t) \/ \E h \in Hctx, wait \in Waits : Get(t, h, wait)
        PROVE  TypeOK' /\ OwnerInv' /\ HctxInv' /\ UsersExact'
    BY <1>1, <2>1, TypeTask, OwnerTask, UsersTask
  <2>2. CASE \/ \E g \in Tag : Complete(g)
             \/ \E f \in Freer : FreerStep(f)
             \/ WakerStep
             \/ \E h \in Hctx : TagIdle(h)
             \/ \E d \in NewDepths : UpdateWords(d)
             \/ UNCHANGED vars
    <3>1. OwnerInv' /\ HctxInv' /\ UsersExact'
      BY <1>1, <2>2, OwnerOthers, UsersOthers
    <3>2. UNCHANGED vars => TypeOK'
      BY <1>1 DEF vars, TypeOK
    <3>3. TypeOK'
      BY <1>1, <2>2, <3>2, TypeComplete, TypeFreer, TypeAdmin
    <3> QED  BY <3>1, <3>3
  <2> QED  BY <2>1, <2>2 DEF Next, Run
<1>3. CountersSound'
  BY <1>1, <1>2, CountersStep
<1>4. InFlightExact'
  BY <1>1, InFlightStep
<1>5. ShareExact'
  BY <1>2, <1>4, ShareParts DEF ShareExact, UsersExact, InFlightExact,
     Counting, TagsOf
<1> QED  BY <1>2, <1>3, <1>5 DEF IInv

-----------------------------------------------------------------------------
(* The refinement of TagPool *)

\* The initial state maps to TagPool's.
LEMMA PoolInit == Init => Pool!Init
BY DEF Init, Pool!Init, Wants

\* A step that leaves the owned tags, the tasks that want one and those that
\* may wait alone is a stutter.
LEMMA PoolStutter ==
  ASSUME \A g \in Tag : owner'[g] = NoOne <=> owner[g] = NoOne,
         \A t \in Task : Wants(t)' <=> Wants(t),
         \A t \in Task : Wants(t) => (gfpWait'[t] <=> gfpWait[t])
  PROVE  UNCHANGED Pool!vars
<1>1. {g \in Tag : owner'[g] # NoOne} = {g \in Tag : owner[g] # NoOne}
  OBVIOUS
<1>2. {t \in Task : Wants(t)'} = {t \in Task : Wants(t)}
  OBVIOUS
<1>3. {t \in Task : Wants(t)' /\ gfpWait'[t]}
        = {t \in Task : Wants(t) /\ gfpWait[t]}
  OBVIOUS
<1> QED  BY <1>1, <1>2, <1>3 DEF Pool!vars

\* A step of another actor only wakes sleepers, or frees a tag.
LEMMA PoolOthers ==
  ASSUME TypeOK,
         \/ \E g \in Tag : Complete(g)
         \/ \E f \in Freer : FreerStep(f)
         \/ WakerStep
         \/ \E h \in Hctx : TagIdle(h)
         \/ \E d \in NewDepths : UpdateWords(d)
         \/ UNCHANGED vars
  PROVE  [Pool!Next]_Pool!vars
<1> USE DEF sizeVars, shareVars, taskVars, wakeVars, Elsewhere
<1>1. gfpWait' = gfpWait
  BY DEF Complete, Clear, Put, FreerStep, WakeIndex, WakePtr, WakePtrNext,
         WakeRead, WakeMove, Dec, Inc, Add, IndexRead, Advance, WakeBatch,
         WakerStep, TagIdleCount, WakeupAll, UpdateDepth, TagIdle, UpdateWords,
         vars
<1>2. \A t \in Task : Wants(t)' <=> Wants(t)
  <2>1. pc' = pc \/ \E q : WakeUp(q)
    BY DEF Complete, Clear, Put, FreerStep, WakeIndex, WakePtr, WakePtrNext,
           WakeRead, WakeMove, Dec, Inc, Add, IndexRead, Advance, WakeBatch,
           WakerStep, TagIdleCount, WakeupAll, UpdateDepth, TagIdle,
           UpdateWords, vars
  <2>2. ASSUME NEW q, WakeUp(q)
        PROVE  \A t \in Task : Wants(t)' <=> Wants(t)
    BY <2>2 DEF WakeUp, Wants
  <2>3. CASE pc' = pc
    BY <2>3 DEF Wants
  <2> QED  BY <2>1, <2>2, <2>3
<1>3. CASE \A g \in Tag : owner'[g] = NoOne <=> owner[g] = NoOne
  BY <1>1, <1>2, <1>3, PoolStutter
<1>4. ASSUME NEW f \in Freer, NEW g \in Tag, Clear(f, g)
      PROVE  Pool!Put(g)
  <2>1. owner' = [owner EXCEPT ![g] = NoOne] /\ owner[g] \in Freer \cup Hctx
    BY <1>4 DEF Clear
  <2>2. owner[g] # NoOne /\ DOMAIN owner = Tag
    BY <2>1, Kinds DEF TypeOK
  <2>3. {x \in Tag : owner'[x] # NoOne} = {x \in Tag : owner[x] # NoOne} \ {g}
    BY <2>1, <2>2
  <2>4. /\ {t \in Task : Wants(t)'} = {t \in Task : Wants(t)}
        /\ {t \in Task : Wants(t)' /\ gfpWait'[t]}
             = {t \in Task : Wants(t) /\ gfpWait[t]}
    BY <1>1, <1>2
  <2> QED  BY <2>2, <2>3, <2>4 DEF Pool!Put
<1>5. ASSUME NEW f \in Freer, NEW g \in Tag, NEW h \in Hctx, Put(f, g, h)
      PROVE  \A x \in Tag : owner'[x] = NoOne <=> owner[x] = NoOne
  <2>1. owner' = [owner EXCEPT ![g] = f] /\ owner[g] = h /\ DOMAIN owner = Tag
    BY <1>5 DEF Put, TypeOK
  <2> QED  BY <2>1, Kinds
<1>6. CASE \A g \in Tag : ~Complete(g)
  <2>1. owner' = owner
    BY <1>6 DEF FreerStep, WakeIndex, WakePtr, WakePtrNext, WakeRead, WakeMove,
           Dec, Inc, Add, IndexRead, Advance, WakeBatch, WakerStep,
           TagIdleCount, WakeupAll, UpdateDepth, TagIdle, UpdateWords, vars
  <2> QED  BY <1>3, <2>1
<1> QED  BY <1>3, <1>4, <1>5, <1>6 DEF Complete, Pool!Next

\* A task's step asks, is served, gives up, or changes nothing TagPool sees.
LEMMA PoolTask ==
  ASSUME TypeOK, OwnerInv, HctxInv, NEW t \in Task,
         TaskStep(t) \/ \E h \in Hctx, wait \in Waits : Get(t, h, wait)
  PROVE  [Pool!Next]_Pool!vars
<1> USE DEF sizeVars, shareVars, taskVars, wakeVars
<1>0. /\ pc \in [Task -> TaskPc] /\ gfpWait \in [Task -> BOOLEAN]
      /\ DOMAIN owner = Tag
  BY DEF TypeOK
<1>1. CASE Tried(t)
  <2>1. PICK p \in TaskPc \ Holding, wait \in BOOLEAN :
          /\ pc' = [pc EXCEPT ![t] = p]
          /\ gfpWait' = [gfpWait EXCEPT ![t] = wait]
          /\ p = "idle" => ~wait
          /\ pc[t] # "idle" => wait = gfpWait[t]
    BY <1>1 DEF Tried
  <2>2. owner' = owner /\ pc[t] \notin Holding
    BY <1>1 DEF Tried
  <2>3. /\ Wants(t) <=> pc[t] # "idle"
        /\ Wants(t)' <=> p # "idle"
        /\ gfpWait'[t] = wait
        /\ \A u \in Task \ {t} : /\ Wants(u)' <=> Wants(u)
                                 /\ gfpWait'[u] = gfpWait[u]
    BY <1>0, <2>1, <2>2 DEF Wants, Holding
  <2>4. {g \in Tag : owner'[g] # NoOne} = {g \in Tag : owner[g] # NoOne}
    BY <2>2
  <2>5. CASE Wants(t)' <=> Wants(t)
    <3>1. \A u \in Task : Wants(u)' <=> Wants(u)
      BY <2>3, <2>5
    <3>2. \A u \in Task : Wants(u) => (gfpWait'[u] <=> gfpWait[u])
      BY <2>1, <2>3
    <3> QED  BY <2>2, <3>1, <3>2, PoolStutter
  <2>6. CASE ~Wants(t) /\ Wants(t)'
    <3>1. {u \in Task : Wants(u)'} = {u \in Task : Wants(u)} \cup {t}
      BY <2>3, <2>6
    <3>2. {u \in Task : Wants(u)' /\ gfpWait'[u]}
            = IF wait THEN {u \in Task : Wants(u) /\ gfpWait[u]} \cup {t}
                      ELSE {u \in Task : Wants(u) /\ gfpWait[u]}
      BY <2>3, <2>6
    <3>3. Pool!Ask(t, wait)
      BY <2>4, <2>6, <3>1, <3>2 DEF Pool!Ask
    <3> QED  BY <3>3 DEF Pool!Next
  <2>7. CASE Wants(t) /\ ~Wants(t)'
    <3>1. ~gfpWait[t] /\ ~gfpWait'[t]
      BY <2>1, <2>3, <2>7
    <3>2. {u \in Task : Wants(u)'} = {u \in Task : Wants(u)} \ {t}
      BY <2>3, <2>7
    <3>3. {u \in Task : Wants(u)' /\ gfpWait'[u]}
            = {u \in Task : Wants(u) /\ gfpWait[u]}
      BY <2>3, <3>1
    <3>4. Pool!Refuse(t)
      BY <2>4, <2>7, <3>1, <3>2, <3>3 DEF Pool!Refuse
    <3> QED  BY <3>4 DEF Pool!Next
  <2> QED  BY <2>5, <2>6, <2>7
<1>2. ASSUME NEW g \in Tag, Take(t, g)
      PROVE  [Pool!Next]_Pool!vars
  <2>1. /\ owner[g] = NoOne /\ hctx[t] \in Hctx /\ Wants(t)
        /\ TagsOf(t) = {}
    BY <1>2 DEF Take, FreeTags, HctxInv, Wants, OwnerInv, Holding
  <2>2. /\ \E p \in {"idle", "mark", "finish"} : pc' = [pc EXCEPT ![t] = p]
        /\ \A u \in Task \ {t} : gfpWait'[u] = gfpWait[u]
    BY <1>0, <1>2 DEF Take, HandOut
  <2>3. ~Wants(t)' /\ \A u \in Task \ {t} : Wants(u)' <=> Wants(u)
    BY <1>0, <2>2 DEF Wants
  <2>4. \A x \in Tag : owner'[x] = NoOne <=> owner[x] = NoOne /\ x # g
    <3>1. \A x \in Tag : \/ owner'[x] = owner[x] /\ x # g
                         \/ owner'[x] \in {t, hctx[t]} /\ x = g
      BY <1>0, <1>2, <2>1 DEF Take, HandOut, TagsOf
    <3> QED  BY <2>1, <3>1, Kinds
  <2>5. /\ {u \in Task : Wants(u)'} = {u \in Task : Wants(u)} \ {t}
        /\ {u \in Task : Wants(u)' /\ gfpWait'[u]}
             = {u \in Task : Wants(u) /\ gfpWait[u]} \ {t}
        /\ {x \in Tag : owner'[x] # NoOne}
             = {x \in Tag : owner[x] # NoOne} \cup {g}
    BY <2>2, <2>3, <2>4
  <2>6. Pool!Grant(t, g)
    BY <2>1, <2>5 DEF Pool!Grant
  <2> QED  BY <2>6 DEF Pool!Next, Pool!Serve
<1>3. ASSUME \A x \in Tag : owner'[x] = NoOne <=> owner[x] = NoOne,
             NEW p, pc' = [pc EXCEPT ![t] = p],
             pc[t] \in Holding /\ p \in Holding \cup {"idle"},
             \A u \in Task \ {t} : gfpWait'[u] = gfpWait[u]
      PROVE  [Pool!Next]_Pool!vars
  <2>1. ~Wants(t) /\ ~Wants(t)' /\ \A u \in Task : Wants(u)' <=> Wants(u)
    BY <1>0, <1>3 DEF Wants, Holding
  <2> QED  BY <1>3, <2>1, PoolStutter
<1>4. CASE HandOut(t, owner) /\ pc[t] \in Holding
  <2>1. hctx[t] \in Hctx
    BY <1>4 DEF HctxInv, Holding
  <2>2. /\ pc' = [pc EXCEPT ![t] = "idle"]
        /\ \A u \in Task \ {t} : gfpWait'[u] = gfpWait[u]
    BY <1>0, <1>4 DEF HandOut
  <2>3. \A x \in Tag : owner'[x] = NoOne <=> owner[x] = NoOne
    BY <1>4, <2>1, Kinds DEF HandOut
  <2> QED  BY <1>3, <1>4, <2>2, <2>3
<1>5. ASSUME NEW q \in Queue, QueueUp(t, q)
      PROVE  [Pool!Next]_Pool!vars
  <2>1. /\ owner' = owner /\ gfpWait' = gfpWait
        /\ pc' = [pc EXCEPT ![t] = "again"] /\ pc[t] \in {"queue", "woken"}
    BY <1>5 DEF QueueUp
  <2>2. \A u \in Task : Wants(u)' <=> Wants(u)
    BY <1>0, <2>1 DEF Wants
  <2> QED  BY <2>1, <2>2, PoolStutter
<1>6. CASE FinishWait(t)
  BY <1>3, <1>4, <1>6 DEF FinishWait, Holding
<1>7. CASE TagBusy(t)
  <2>1. /\ owner' = owner /\ gfpWait' = gfpWait /\ pc[t] \in Holding
        /\ \E p \in Holding : pc' = [pc EXCEPT ![t] = p]
    BY <1>7 DEF TagBusy, Holding
  <2> QED  BY <1>3, <2>1
<1>8. CASE TagBusyCount(t)
  BY <1>3, <1>8 DEF TagBusyCount, Holding
<1>9. CASE Count(t)
  BY <1>4, <1>9 DEF Count, Holding
<1> QED  BY <1>1, <1>2, <1>5, <1>6, <1>7, <1>8, <1>9, Attempts DEF TaskStep

\* Every step of the map is a step of TagPool or a stutter.
LEMMA PoolStep == IInv /\ [Next]_vars => [Pool!Next]_Pool!vars
BY PoolTask, PoolOthers DEF IInv, Next, Run

-----------------------------------------------------------------------------
(* Theorems *)

\* The invariant of the tag map holds in every reachable state.
THEOREM MapInvariant == Spec => []IInv
BY InitInv, NextInv, PTL DEF Spec

\* The variables keep their types.
THEOREM TypeCorrect == Spec => []TypeOK
<1>1. IInv => TypeOK
  BY DEF IInv
<1> QED  BY <1>1, MapInvariant, PTL

\* The counts that bt_clear_tag() keeps without a lock never get stuck at or
\* below zero, and never exceed a batch for each concurrent free.
THEOREM CountersNeverStuck == Spec => []CountersSound
<1>1. IInv => CountersSound
  BY DEF IInv
<1> QED  BY <1>1, MapInvariant, PTL

\* hctx_may_queue() computes fair shares from exact numbers of users and of
\* requests in flight.
THEOREM SharesExact == Spec => []ShareExact
<1>1. IInv => ShareExact
  BY DEF IInv
<1> QED  BY <1>1, MapInvariant, PTL

\* No tag is in use twice and no waiting caller is turned away.
THEOREM ImplementsTagPool == Spec => PoolSpec
BY PoolInit, PoolStep, MapInvariant, PTL DEF Spec, PoolSpec, Pool!Spec

=============================================================================
