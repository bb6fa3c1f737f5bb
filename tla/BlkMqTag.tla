------------------------------ MODULE BlkMqTag ------------------------------
(***************************************************************************)
(* The tag map of a blk-mq hardware queue (block/blk-mq-tag.c): a bitmap   *)
(* without a lock, BT_WAIT_QUEUES wait queues that are filled and woken in *)
(* turn, a batch of frees for every wakeup, fair shares for the request    *)
(* queues that share the map, and the resizing of the map by sysfs.        *)
(*                                                                         *)
(* One action is one atomic operation on shared memory, together with the  *)
(* reads of hctx_may_queue().  A scan of the bitmap is three kinds of      *)
(* step: it starts, and then takes a tag it meets free or, when each tag   *)
(* was in use at some moment since the start, finds none.  Every request   *)
(* queue has one hctx on the map; reserved tags, a second map of the same  *)
(* kind with one wait queue in use, are left out.                          *)
(***************************************************************************)
EXTENDS Integers, FiniteSets

CONSTANTS
  Task,            \* processes that allocate tags
  Freer,           \* contexts that complete requests
  Hctx,            \* hardware contexts that use the map
  Shared,          \* BLK_MQ_F_TAG_SHARED
  NrTags,          \* tags->nr_tags
  BT_WAIT_QUEUES,
  BT_WAIT_BATCH,
  MinShare,        \* the 4U of hctx_may_queue()
  UINT,            \* unsigned arithmetic wraps here, 2^32 in the code
  Waits,           \* callers with (TRUE) and without __GFP_WAIT
  NewDepths,       \* depths sysfs may set
  NoOne, Sysfs     \* model values: owner of a free tag; the resizing task

Tag == 0 .. NrTags - 1
Queue == 0 .. BT_WAIT_QUEUES - 1
Waker == Hctx \cup {Sysfs}

ASSUME TagAssumption ==
  /\ IsFiniteSet(Task) /\ IsFiniteSet(Freer) /\ IsFiniteSet(Hctx)
  /\ Freer # {}
  /\ Shared \in BOOLEAN
  /\ NrTags \in Nat \ {0}
  /\ BT_WAIT_QUEUES \in Nat \ {0}
  /\ BT_WAIT_BATCH \in Nat \ {0}
  /\ MinShare \in Nat \ {0}
  /\ UINT \in Nat \ {0}
  /\ Waits \subseteq BOOLEAN
  /\ NewDepths \subseteq 1 .. NrTags
  /\ Task \cap Freer = {} /\ Task \cap Hctx = {} /\ Freer \cap Hctx = {}
  /\ NoOne \notin Task \cup Freer \cup Hctx
  /\ Sysfs \notin Hctx

VARIABLES
  map_depth,       \* the depths of the words of bt->map, summed up
  depth,           \* bt->depth
  wake_cnt,        \* bt->wake_cnt
  resize,          \* the depth being set, or 0
  owner,           \* the bitmap: who uses each tag
  bs,              \* bt->bs[].wait
  wait_cnt,        \* bt->bs[].wait_cnt
  wake_index,      \* bt->wake_index
  active,          \* hctxs with BLK_MQ_S_TAG_ACTIVE
  active_queues,   \* tags->active_queues
  nr_active,       \* hctx->nr_active
  pc,              \* where each task is in __blk_mq_alloc_request()
  hctx,            \* the hctx it allocates for
  gfpWait,         \* it passed __GFP_WAIT; forgotten once it has a tag
  avail,           \* tags that have been free since its scan began
  freer,           \* where each freer is in __blk_mq_free_request()
  idling,          \* hctxs between the two steps of __blk_mq_tag_idle()
  todo             \* wait queues blk_mq_tag_wakeup_all() has yet to wake

sizeVars  == <<map_depth, depth, wake_cnt, resize>>
shareVars == <<active, active_queues, nr_active>>
taskVars  == <<hctx, gfpWait, avail>>
wakeVars  == <<bs, wait_cnt, wake_index>>
vars == <<map_depth, depth, wake_cnt, resize, owner, bs, wait_cnt, wake_index,
          active, active_queues, nr_active, pc, hctx, gfpWait, avail, freer,
          idling, todo>>

-----------------------------------------------------------------------------
\* The larger of two numbers.
AtLeast(a, b) == IF a >= b THEN a ELSE b

\* Mutation: the index is not masked.
index_inc_past(index) == index + 1

\* The next wait queue, in a ring.
bt_index_inc(index) == (index + 1) % BT_WAIT_QUEUES

\* bt_update_count(): a batch is no larger than one wait queue's share.
WakeCnt(d) == IF BT_WAIT_BATCH > d \div BT_WAIT_QUEUES
              THEN AtLeast(1, d \div BT_WAIT_QUEUES) ELSE BT_WAIT_BATCH

\* Where a freer is, the wait queue it looks at, and a number it has read:
\* the queues it has seen empty, or wake_index.
At(f, where) == freer[f].pc = where
Go(f, where, q, n) == freer' = [freer EXCEPT ![f] =
                                  [pc |-> where, q |-> q, n |-> n]]
Idle == [pc |-> "idle", q |-> 0, n |-> 0]
Finish(f) == freer' = [freer EXCEPT ![f] = Idle]

FreeTags == {g \in Tag : owner[g] = NoOne}

\* The part of the map hctx_may_queue() grants each active user.
users == active_queues % UINT
FairShare == AtLeast(((depth + users - 1) % UINT) \div users, MinShare)

hctx_may_queue(h) ==
  \/ ~Shared
  \/ h \notin active
  \/ depth = 1
  \/ users = 0
  \/ nr_active[h] < FairShare

Init ==
  /\ depth = NrTags
  /\ map_depth = depth
  /\ wake_cnt = WakeCnt(depth)
  /\ resize = 0
  /\ owner = [g \in Tag |-> NoOne]
  /\ bs = [q \in Queue |-> {}]
  /\ wait_cnt = [q \in Queue |-> wake_cnt]
  /\ wake_index = 0
  /\ active = {}
  /\ active_queues = 0
  /\ nr_active = [h \in Hctx |-> 0]
  /\ pc = [t \in Task |-> "idle"]
  /\ hctx = [t \in Task |-> NoOne]
  /\ gfpWait = [t \in Task |-> FALSE]
  /\ avail = [t \in Task |-> {}]
  /\ freer = [f \in Freer |-> Idle]
  /\ idling = {}
  /\ todo = [w \in Waker |-> {}]

-----------------------------------------------------------------------------
(* Allocation *)

\* The tag, and the request that goes with it, is handed out; the task is
\* done.
HandOut(t, own) ==
  /\ owner' = [g \in Tag |-> IF own[g] = t THEN hctx[t] ELSE own[g]]
  /\ pc' = [pc EXCEPT ![t] = "idle"]
  /\ hctx' = [hctx EXCEPT ![t] = NoOne]
  /\ gfpWait' = [gfpWait EXCEPT ![t] = FALSE]

\* bt_get() has no tag: a first attempt fails or queues up, a later one
\* sleeps unless a wakeup came since prepare_to_wait().
OnQueue(t) == \E q \in Queue : t \in bs[q]
NoTag(t, h, wait, first) ==
  LET next == CASE first /\ wait -> "queue"
                [] first /\ ~wait -> "idle"
                [] ~first /\ OnQueue(t) -> "asleep"
                [] ~first /\ ~OnQueue(t) -> "woken"
  IN  /\ pc' = [pc EXCEPT ![t] = next]
      /\ hctx' = [hctx EXCEPT ![t] = IF next = "idle" THEN NoOne ELSE h]
      /\ gfpWait' = [gfpWait EXCEPT ![t] = wait]

\* __bt_get(): the share is checked, then the scan begins.
__bt_get(t, h, wait, first) ==
  IF hctx_may_queue(h)
  THEN /\ pc' = [pc EXCEPT ![t] = IF first THEN "scan" ELSE "rescan"]
       /\ hctx' = [hctx EXCEPT ![t] = h]
       /\ gfpWait' = [gfpWait EXCEPT ![t] = wait]
       /\ avail' = [avail EXCEPT ![t] = {g \in FreeTags : g < map_depth}]
  ELSE NoTag(t, h, wait, first) /\ UNCHANGED avail

\* __blk_mq_alloc_request() is called.
Get(t, h, wait) ==
  /\ pc[t] = "idle"
  /\ __bt_get(t, h, wait, TRUE)
  /\ UNCHANGED <<sizeVars, owner, wakeVars, shareVars, freer, idling, todo>>

\* The attempt after prepare_to_wait().
Again(t) ==
  /\ pc[t] = "again"
  /\ __bt_get(t, hctx[t], gfpWait[t], FALSE)
  /\ UNCHANGED <<sizeVars, owner, wakeVars, shareVars, freer, idling, todo>>

\* test_and_set_bit() finds the bit clear.  The depths of the words bound the
\* search from the cached last_tag up, and last_tag bounds it when it starts
\* again from bit 0: once the map has shrunk, an old last_tag lets a tag
\* beyond the depth be taken.
Take(t, g) ==
  LET own == [owner EXCEPT ![g] = t]
  IN  /\ pc[t] \in {"scan", "rescan"}
      /\ g \in FreeTags
      /\ avail' = [u \in Task |-> IF u = t THEN {} ELSE avail[u] \ {g}]
      /\ IF pc[t] = "scan" /\ ~Shared
         THEN HandOut(t, own)
         ELSE /\ owner' = own
              /\ pc' = [pc EXCEPT ![t] = IF @ = "scan" THEN "mark"
                                                       ELSE "finish"]
              /\ gfpWait' = [gfpWait EXCEPT ![t] = FALSE]
              /\ UNCHANGED hctx
      /\ UNCHANGED <<sizeVars, wakeVars, shareVars, freer, idling, todo>>

\* Every tag was in use when the scan came to it.
Miss(t) ==
  /\ pc[t] \in {"scan", "rescan"}
  /\ avail[t] = {}
  /\ NoTag(t, hctx[t], gfpWait[t], pc[t] = "scan")
  /\ UNCHANGED <<sizeVars, owner, wakeVars, shareVars, avail, freer, idling,
                 todo>>

\* finish_wait() of a task that has its tag.
FinishWait(t) ==
  /\ pc[t] = "finish"
  /\ bs' = [q \in Queue |-> bs[q] \ {t}]
  /\ IF Shared
     THEN /\ pc' = [pc EXCEPT ![t] = "mark"]
          /\ UNCHANGED <<owner, hctx, gfpWait>>
     ELSE HandOut(t, owner)
  /\ UNCHANGED <<sizeVars, wait_cnt, wake_index, shareVars, avail, freer,
                 idling, todo>>

\* Mutation: the task sleeps without looking again after prepare_to_wait().
QueueAsleep(t, q) ==
  /\ pc[t] \in {"queue", "woken"}
  /\ bs' = [bs EXCEPT ![q] = @ \cup {t}]
  /\ pc' = [pc EXCEPT ![t] = "asleep"]
  /\ UNCHANGED <<sizeVars, owner, wait_cnt, wake_index, shareVars, taskVars,
                 freer, idling, todo>>

\* bt_wait_ptr() and prepare_to_wait(), for the first time or after
\* io_schedule() returned.  wait_index goes round the queues and is read some
\* time before the task is on the queue, while others advance it: the queue
\* may be any.
QueueUp(t, q) ==
  /\ pc[t] \in {"queue", "woken"}
  /\ bs' = [bs EXCEPT ![q] = @ \cup {t}]
  /\ pc' = [pc EXCEPT ![t] = "again"]
  /\ UNCHANGED <<sizeVars, owner, wait_cnt, wake_index, shareVars, taskVars,
                 freer, idling, todo>>

\* Mutation: test_bit() and set_bit() without the atomic test_and_set_bit().
BusyUntested(t) ==
  /\ pc[t] = "mark"
  /\ active' = active \cup {hctx[t]}
  /\ pc' = [pc EXCEPT ![t] = "inc"]
  /\ UNCHANGED <<sizeVars, owner, wakeVars, active_queues, nr_active,
                 taskVars, freer, idling, todo>>

\* __blk_mq_tag_busy(): whoever sets the bit counts the queue.
TagBusy(t) ==
  /\ pc[t] = "mark"
  /\ active' = active \cup {hctx[t]}
  /\ pc' = [pc EXCEPT ![t] = IF hctx[t] \in active THEN "count" ELSE "inc"]
  /\ UNCHANGED <<sizeVars, owner, wakeVars, active_queues, nr_active,
                 taskVars, freer, idling, todo>>

TagBusyCount(t) ==
  /\ pc[t] = "inc"
  /\ active_queues' = active_queues + 1
  /\ pc' = [pc EXCEPT ![t] = "count"]
  /\ UNCHANGED <<sizeVars, owner, wakeVars, active, nr_active, taskVars,
                 freer, idling, todo>>

\* The request is marked REQ_MQ_INFLIGHT.
Count(t) ==
  /\ pc[t] = "count"
  /\ nr_active' = [nr_active EXCEPT ![hctx[t]] = @ + 1]
  /\ HandOut(t, owner)
  /\ UNCHANGED <<sizeVars, wakeVars, active, active_queues, avail, freer,
                 idling, todo>>

-----------------------------------------------------------------------------
(* Freeing *)

\* wake_up(): everybody on the queue, as nobody waits exclusively
\* (autoremove_wake_function takes them off).
WakeUp(q) ==
  /\ bs' = [bs EXCEPT ![q] = {}]
  /\ pc' = [t \in Task |-> IF t \in bs[q] /\ pc[t] = "asleep" THEN "woken"
                                                              ELSE pc[t]]

\* __blk_mq_free_request() of a request of h on a shared map: it no longer is
\* in flight.
Put(f, g, h) ==
  /\ Shared
  /\ owner[g] = h
  /\ At(f, "idle") /\ Go(f, "clear", 0, 0)
  /\ owner' = [owner EXCEPT ![g] = f]
  /\ nr_active' = [nr_active EXCEPT ![h] = @ - 1]
  /\ UNCHANGED <<sizeVars, wakeVars, active, active_queues, pc, taskVars,
                 idling, todo>>

\* bt_clear_tag(): the bit is cleared first...
Clear(f, g) ==
  /\ IF Shared THEN At(f, "clear") /\ owner[g] = f
               ELSE At(f, "idle") /\ owner[g] \in Hctx
  /\ Go(f, "index", 0, 0)
  /\ owner' = [owner EXCEPT ![g] = NoOne]
  /\ UNCHANGED <<sizeVars, wakeVars, shareVars, pc, taskVars, idling, todo>>

\* What the later steps of bt_clear_tag() leave alone.
Elsewhere ==
  UNCHANGED <<sizeVars, owner, shareVars, taskVars, idling, todo>>

\* ...and bt_wake_ptr() looks for waiters, from wake_index on.
WakeIndex(f) ==
  /\ At(f, "index") /\ Go(f, "look", wake_index, 0)
  /\ Elsewhere /\ UNCHANGED <<wakeVars, pc>>

\* Nobody waits on this queue, or on any.
WakePtrNext(f) ==
  LET q == freer[f].q
      n == freer[f].n + 1
  IN  /\ At(f, "look") /\ bs[q] = {}
      /\ IF n = BT_WAIT_QUEUES THEN Finish(f)
                               ELSE Go(f, "look", bt_index_inc(q), n)
      /\ Elsewhere /\ UNCHANGED <<wakeVars, pc>>

\* Somebody does: the index is read again and moved here, by cmpxchg.
WakePtr(f) ==
  LET q == freer[f].q
  IN  /\ At(f, "look") /\ bs[q] # {}
      /\ Go(f, "found", q, 0)
      /\ Elsewhere /\ UNCHANGED <<wakeVars, pc>>

WakeRead(f) ==
  LET q == freer[f].q
  IN  /\ At(f, "found")
      /\ IF q = wake_index THEN Go(f, "dec", q, 0)
                           ELSE Go(f, "move", q, wake_index)
      /\ Elsewhere /\ UNCHANGED <<wakeVars, pc>>

WakeMove(f) ==
  LET q == freer[f].q
  IN  /\ At(f, "move") /\ Go(f, "dec", q, 0)
      /\ wake_index' = IF wake_index = freer[f].n THEN q ELSE wake_index
      /\ Elsewhere /\ UNCHANGED <<bs, wait_cnt, pc>>

\* Mutation: a count that falls below zero is not put back.
DecKept(f) ==
  LET q == freer[f].q
      n == wait_cnt[q] - 1
  IN  /\ At(f, "dec")
      /\ wait_cnt' = [wait_cnt EXCEPT ![q] = n]
      /\ IF n = 0 THEN Go(f, "add", q, 0) ELSE Finish(f)
      /\ Elsewhere /\ UNCHANGED <<bs, wake_index, pc>>

\* The free counts for the batch of the queue.
Dec(f) ==
  LET q == freer[f].q
      n == wait_cnt[q] - 1
  IN  /\ At(f, "dec")
      /\ wait_cnt' = [wait_cnt EXCEPT ![q] = n]
      /\ CASE n < 0 -> Go(f, "inc", q, 0)
           [] n = 0 -> Go(f, "add", q, 0)
           [] OTHER -> Finish(f)
      /\ Elsewhere /\ UNCHANGED <<bs, wake_index, pc>>

\* The batch was complete already: the count is put back.
Inc(f) ==
  LET q == freer[f].q
      n == wait_cnt[q] + 1
  IN  /\ At(f, "inc")
      /\ wait_cnt' = [wait_cnt EXCEPT ![q] = n]
      /\ IF n = 0 THEN Go(f, "add", q, 0) ELSE Finish(f)
      /\ Elsewhere /\ UNCHANGED <<bs, wake_index, pc>>

\* The batch is complete: the next one starts...
Add(f) ==
  LET q == freer[f].q
  IN  /\ At(f, "add") /\ Go(f, "read", q, 0)
      /\ wait_cnt' = [wait_cnt EXCEPT ![q] = @ + wake_cnt]
      /\ Elsewhere /\ UNCHANGED <<bs, wake_index, pc>>

\* ...bt_index_atomic_inc() reads the index...
IndexRead(f) ==
  /\ At(f, "read") /\ Go(f, "advance", freer[f].q, wake_index)
  /\ Elsewhere /\ UNCHANGED <<wakeVars, pc>>

\* Mutation: the next frees go to the same queue.
AdvanceNot(f) ==
  /\ At(f, "advance") /\ Go(f, "wake", freer[f].q, 0)
  /\ Elsewhere /\ UNCHANGED <<wakeVars, pc>>

\* ...and goes on to the next queue, by cmpxchg; this one is woken.
Advance(f) ==
  /\ At(f, "advance") /\ Go(f, "wake", freer[f].q, 0)
  /\ wake_index' = IF wake_index = freer[f].n THEN bt_index_inc(wake_index)
                                              ELSE wake_index
  /\ Elsewhere /\ UNCHANGED <<bs, wait_cnt, pc>>

WakeBatch(f) ==
  /\ At(f, "wake") /\ Finish(f)
  /\ WakeUp(freer[f].q)
  /\ Elsewhere /\ UNCHANGED <<wait_cnt, wake_index>>

-----------------------------------------------------------------------------
(* Idle queues and resizing *)

\* __blk_mq_tag_idle(), from blk_mq_rq_timer() when it sees no request that
\* was started; one that is only allocated does not keep the queue active.
TagIdle(h) ==
  /\ Shared
  /\ h \in active
  /\ h \notin idling /\ todo[h] = {}
  /\ active' = active \ {h}
  /\ idling' = idling \cup {h}
  /\ UNCHANGED <<sizeVars, owner, wakeVars, active_queues, nr_active, pc,
                 taskVars, freer, todo>>

TagIdleCount(h) ==
  /\ h \in idling
  /\ idling' = idling \ {h}
  /\ active_queues' = active_queues - 1
  /\ todo' = [todo EXCEPT ![h] = Queue]
  /\ UNCHANGED <<sizeVars, owner, wakeVars, active, nr_active, pc, taskVars,
                 freer>>

\* One wait queue of blk_mq_tag_wakeup_all().
WakeupAll(w, q) ==
  /\ q \in todo[w]
  /\ todo' = [todo EXCEPT ![w] = @ \ {q}]
  /\ WakeUp(q)
  /\ UNCHANGED <<sizeVars, owner, wait_cnt, wake_index, shareVars, taskVars,
                 freer, idling>>

\* blk_mq_tag_update_depth(): bt_update_count() stores the depths of the
\* words, then the batch, which is BT_WAIT_BATCH for a moment...
UpdateWords(d) ==
  /\ resize = 0 /\ todo[Sysfs] = {}
  /\ resize' = d
  /\ map_depth' = d
  /\ wake_cnt' = BT_WAIT_BATCH
  /\ avail' = [t \in Task |-> {g \in avail[t] : g < d}]
  /\ UNCHANGED <<depth, owner, wakeVars, shareVars, pc, hctx, gfpWait, freer,
                 idling, todo>>

\* ...then bt->depth, and everybody is woken.  The counts that the wait
\* queues have reached stay as they are.
UpdateDepth ==
  /\ resize # 0
  /\ wake_cnt' = WakeCnt(resize)
  /\ depth' = resize
  /\ resize' = 0
  /\ todo' = [todo EXCEPT ![Sysfs] = Queue]
  /\ UNCHANGED <<map_depth, owner, wakeVars, shareVars, pc, taskVars, freer,
                 idling>>

-----------------------------------------------------------------------------
TaskStep(t) == \/ Again(t)
               \/ \E g \in Tag : Take(t, g)
               \/ Miss(t)
               \/ \E q \in Queue : QueueUp(t, q)
               \/ FinishWait(t)
               \/ TagBusy(t)
               \/ TagBusyCount(t)
               \/ Count(t)

FreerStep(f) == \/ WakeIndex(f)
                \/ WakePtr(f)
                \/ WakePtrNext(f)
                \/ WakeRead(f)
                \/ WakeMove(f)
                \/ Dec(f)
                \/ Inc(f)
                \/ Add(f)
                \/ IndexRead(f)
                \/ Advance(f)
                \/ WakeBatch(f)

\* The driver completes the request that holds a tag.
Complete(g) == \E f \in Freer : Clear(f, g) \/ \E h \in Hctx : Put(f, g, h)

WakerStep == \/ \E h \in Hctx : TagIdleCount(h)
             \/ \E w \in Waker, q \in Queue : WakeupAll(w, q)
             \/ UpdateDepth

Run == \/ \E t \in Task : TaskStep(t)
       \/ \E g \in Tag : Complete(g)
       \/ \E f \in Freer : FreerStep(f)
       \/ WakerStep

Next == \/ \E t \in Task, h \in Hctx, wait \in Waits : Get(t, h, wait)
        \/ Run
        \/ \E h \in Hctx : TagIdle(h)
        \/ \E d \in NewDepths : UpdateWords(d)

\* While anybody can, somebody goes on: a task that allocates, a context that
\* frees, the driver with an outstanding request.  Nobody has to allocate, no
\* queue has to go idle, sysfs is not written.
Fairness == WF_vars(Run)

Spec == Init /\ [][Next]_vars
FairSpec == Spec /\ Fairness

-----------------------------------------------------------------------------
(* Properties *)

TaskPc == {"idle", "scan", "queue", "again", "rescan", "asleep", "woken",
           "finish", "mark", "inc", "count"}
FreerPc == {"idle", "clear", "index", "look", "found", "move", "dec", "inc",
            "add", "read", "advance", "wake"}

\* Every variable has its type.
TypeOK ==
  /\ map_depth \in 1 .. NrTags
  /\ depth \in 1 .. NrTags
  /\ wake_cnt \in 1 .. BT_WAIT_BATCH
  /\ resize \in 0 .. NrTags
  /\ owner \in [Tag -> {NoOne} \cup Task \cup Freer \cup Hctx]
  /\ bs \in [Queue -> SUBSET Task]
  /\ wait_cnt \in [Queue -> Int]
  /\ wake_index \in Queue
  /\ active \subseteq Hctx
  /\ active_queues \in Int
  /\ nr_active \in [Hctx -> Int]
  /\ pc \in [Task -> TaskPc]
  /\ hctx \in [Task -> Hctx \cup {NoOne}]
  /\ gfpWait \in [Task -> BOOLEAN]
  /\ avail \in [Task -> SUBSET Tag]
  /\ freer \in [Freer -> [pc : FreerPc, q : Queue, n : Queue]]
  /\ idling \subseteq Hctx
  /\ todo \in [Waker -> SUBSET Queue]

\* Freers that will put back or renew the count of a wait queue.
Incs(q) == {f \in Freer : At(f, "inc") /\ freer[f].q = q}
Adds(q) == {f \in Freer : At(f, "add") /\ freer[f].q = q}

\* The wake counters survive any number of concurrent frees and resizes: once
\* the freers that took a queue's count to zero or below are done with it, it
\* is positive again, and at most a batch for each freer.  So a bounded number
\* of further frees wakes the queue; a count left at zero or below would never
\* reach zero by decrements.
CountersSound ==
  \A q \in Queue :
    LET n == wait_cnt[q] + Cardinality(Incs(q))
    IN  /\ n >= (IF Adds(q) = {} THEN 1 ELSE 0)
        /\ n + BT_WAIT_BATCH * Cardinality(Adds(q))
             <= BT_WAIT_BATCH * Cardinality(Freer)

\* active_queues counts the hctxs marked active, apart from those about to be
\* counted or uncounted, and nr_active the requests in flight: hctx_may_queue
\* divides the map by the one and compares with the other.
ShareExact ==
  /\ active_queues = Cardinality(active)
       - Cardinality({t \in Task : pc[t] = "inc"}) + Cardinality(idling)
  /\ Shared => \A h \in Hctx :
       nr_active[h] = Cardinality({g \in Tag : owner[g] = h})

\* The task is looking or waiting for a tag.
Wants(t) == pc[t] \notin {"idle", "finish", "mark", "inc", "count"}

Pool == INSTANCE TagPool WITH
          want    <- {t \in Task : Wants(t)},
          patient <- {t \in Task : Wants(t) /\ gfpWait[t]},
          held    <- {g \in Tag : owner[g] # NoOne}

\* The lock-free map implements TagPool: no tag is in use twice, however
\* scans, frees, wakeups and resizes interleave, and only a caller without
\* __GFP_WAIT is turned away.
PoolSpec == Pool!Spec

\* With one context completing requests and a map that keeps its size, it
\* also implements TagPool's promise that a free tag does not lie idle while
\* tasks sleep, although a wakeup takes a batch of frees.
PoolServes == Pool!FairSpec

\* Under the same conditions the rolling wakeups of bt_wake_ptr() reach
\* everybody who sleeps, however many tasks come and go on the other wait
\* queues.  The specification treats all tasks alike: one stands for each.
SleepersWoken == LET t == CHOOSE t \in Task : TRUE
                 IN  pc[t] = "asleep" ~> pc[t] # "asleep"

-----------------------------------------------------------------------------
(* The inductive invariant *)

\* A task owns the bit it has set until the request is handed out, and no
\* other.
Holding == {"finish", "mark", "inc", "count"}
TagsOf(t) == {g \in Tag : owner[g] = t}
OwnerInv == \A t \in Task : IF pc[t] \in Holding
                            THEN \E g \in Tag : TagsOf(t) = {g}
                            ELSE TagsOf(t) = {}

\* A call in progress is for some hctx.
HctxInv == \A t \in Task : pc[t] # "idle" => hctx[t] \in Hctx

\* What every step of an allocation, a free, a wakeup or a resize preserves.
IInv == TypeOK /\ OwnerInv /\ HctxInv /\ CountersSound /\ ShareExact
=============================================================================
