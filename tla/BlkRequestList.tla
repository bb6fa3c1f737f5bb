--------------------------- MODULE BlkRequestList ---------------------------
(***************************************************************************)
(* Allocation of struct request from a queue's request list                *)
(* (block/blk-core.c): congestion and full marks, batching processes,      *)
(* tasks that sleep until a request is freed, the resizing of the list,    *)
(* elevator_switch() (elevator.c) and blk_cleanup_queue(), which drain it. *)
(*                                                                         *)
(* One action is one critical section of q->queue_lock, or one stretch     *)
(* that runs without it.  get_request() gives the lock up twice: while it  *)
(* sleeps, and between counting a request and allocating its memory.       *)
(* Without blk cgroups there is one request list, the root one, so         *)
(* q->nr_rqs equals rl->count.                                             *)
(***************************************************************************)
EXTENDS Integers, Sequences, FiniteSets

CONSTANTS
  Task,        \* processes that allocate requests
  HasIoc,      \* those with an io_context
  NrBatching,  \* q->nr_batching
  NrRequests,  \* the values of nr_requests that sysfs may set
  Calls,       \* the kinds of get_request() call considered, within Call
  MaxGet,      \* bound on get_request() calls
  MaxMust,     \* bound on ELV_MQUEUE_MUST answers of the I/O scheduler
  MaxResize,   \* bound on changes of nr_requests
  MaxSwitch    \* bound on elevator switches

Sync == {0, 1}                                  \* BLK_RW_ASYNC, BLK_RW_SYNC
\* rw_is_sync(), __GFP_WAIT, and a bio that uses the elevator
\* (blk_rq_should_init_elevator).
Call == [sync : Sync, wait : BOOLEAN, elv : BOOLEAN]

ASSUME ListAssumption ==
  /\ IsFiniteSet(Task)
  /\ HasIoc \subseteq Task
  /\ NrBatching \in Nat \ {0}
  /\ NrRequests \subseteq Nat \ {0}
  /\ Calls \subseteq Call
  /\ MaxGet \in Nat
  /\ MaxMust \in Nat
  /\ MaxResize \in Nat
  /\ MaxSwitch \in Nat

VARIABLES
  nr_requests,
  count,           \* rl->count[2]
  starved,         \* directions with rl->starved
  full,            \* directions with BLK_RL_SYNCFULL, BLK_RL_ASYNCFULL
  congested,       \* directions with BDI_sync_congested, BDI_async_congested
  wait,            \* rl->wait[2], queues of exclusive waiters
  pc,              \* where each task is in get_request()
  call,            \* its arguments
  et,              \* the elevator its new request belongs to
  nr_batch,        \* ioc->nr_batch_requests
  recent,          \* jiffies is before ioc->last_waited + BLK_BATCH_TIME
  live,            \* requests handed out, by direction and elevator
  nr_rqs_elvpriv,
  bypass_depth,
  switch,          \* progress of elevator_switch()
  cleanup,         \* progress of blk_cleanup_queue()
  gets, musts, resizes, switches   \* how much of the bounds is used

callVars  == <<call, et>>
iocVars   == <<nr_batch, recent>>
markVars  == <<full, congested>>
adminVars == <<nr_requests, resizes, bypass_depth, switch,
               switches, cleanup>>
\* What draining, switching and shutting down leave alone.
listVars  == <<nr_requests, count, starved, full, congested, nr_batch, recent,
               nr_rqs_elvpriv, gets, musts, resizes>>
vars == <<nr_requests, count, starved, full, congested, wait, pc, call, et,
          nr_batch, recent, live, nr_rqs_elvpriv, bypass_depth, switch,
          cleanup, gets, musts, resizes, switches>>

-----------------------------------------------------------------------------
\* The elevator a request's private data belongs to: none (REQ_ELVPRIV is
\* clear), q->elevator, or one that q->elevator no longer points to.
Elv == {"none", "current", "stale"}
NoCall == [sync |-> 0, wait |-> FALSE, elv |-> FALSE]

\* The smaller and the larger of two thresholds.
AtMost(a, b) == IF a <= b THEN a ELSE b
AtLeast(a, b) == IF a >= b THEN a ELSE b

queue_congestion_on_threshold(nr) == AtMost(nr - nr \div 8 + 1, nr)
queue_congestion_off_threshold(nr) ==
  AtLeast(nr - nr \div 8 - nr \div 16 - 1, 1)

dying == cleanup # "no"

ioc_batching(t) ==
  /\ t \in HasIoc
  /\ \/ nr_batch[t] = NrBatching
     \/ nr_batch[t] > 0 /\ recent[t]

\* ioc_set_batching(): the task becomes a batcher unless it is one.
ioc_set_batching(t) ==
  IF t \in HasIoc /\ ~ioc_batching(t)
  THEN /\ nr_batch' = [nr_batch EXCEPT ![t] = NrBatching]
       /\ recent' = [recent EXCEPT ![t] = TRUE]
  ELSE UNCHANGED iocVars

Init ==
  /\ nr_requests \in NrRequests
  /\ count = [s \in Sync |-> 0]
  /\ starved = {}
  /\ full = {}
  /\ congested = {}
  /\ wait = [s \in Sync |-> <<>>]
  /\ pc = [t \in Task |-> "idle"]
  /\ call = [t \in Task |-> NoCall]
  /\ et = [t \in Task |-> "none"]
  /\ nr_batch = [t \in Task |-> 0]
  /\ recent = [t \in Task |-> FALSE]
  /\ live = [s \in Sync |-> [e \in Elv |-> 0]]
  /\ nr_rqs_elvpriv = 0
  /\ bypass_depth = 0
  /\ switch = "no"
  /\ cleanup = "no"
  /\ gets = 0
  /\ musts = 0
  /\ resizes = 0
  /\ switches = 0

-----------------------------------------------------------------------------
(* Freeing *)

\* Mutation: full is cleared only when the list is well below its limit.
RoomBelow(dirs, counts) == {s \in dirs : counts[s] + 1 < nr_requests}

\* The directions in which a request may be allocated again.
Room(dirs, counts) == {s \in dirs : counts[s] + 1 <= nr_requests}

\* wake_up() of the given queues: each loses its first waiter.
Woken(dirs) == {Head(wait[s]) : s \in {d \in dirs : wait[d] # <<>>}}
WakeOne(dirs) == [s \in Sync |-> IF s \in dirs /\ wait[s] # <<>>
                                 THEN Tail(wait[s]) ELSE wait[s]]

\* __freed_request() for each of the directions, with the new counts.
__freed_request(dirs, counts) ==
  /\ congested' = congested \
       {s \in dirs : counts[s] < queue_congestion_off_threshold(nr_requests)}
  /\ full' = full \ Room(dirs, counts)
  /\ wait' = WakeOne(Room(dirs, counts))

\* freed_request(): the direction of the request, and the other one if it
\* starves.
freed_request(s, e) ==
  LET counts == [count EXCEPT ![s] = @ - 1]
      dirs   == {s} \cup {d \in {1 - s} : d \in starved}
  IN  /\ count' = counts
      /\ nr_rqs_elvpriv' = nr_rqs_elvpriv - (IF e = "none" THEN 0 ELSE 1)
      /\ __freed_request(dirs, counts)

\* The tasks that left a wait queue run again (autoremove_wake_function).
Waiting(t, queues) == \E s \in Sync : \E i \in DOMAIN queues[s] :
                        queues[s][i] = t
Wake(p) == [t \in Task |-> IF Waiting(t, wait) /\ ~Waiting(t, wait')
                           THEN "woken" ELSE p[t]]

\* __blk_put_request() of a request handed out before.
Free(s, e) ==
  /\ live[s][e] > 0
  /\ live' = [live EXCEPT ![s][e] = @ - 1]
  /\ freed_request(s, e)
  /\ pc' = Wake(pc)
  /\ UNCHANGED <<starved, callVars, iocVars, adminVars, gets, musts>>

-----------------------------------------------------------------------------
(* Allocation *)

Return(p, t) == [p EXCEPT ![t] = "idle"]
Forget(t) == /\ call' = [call EXCEPT ![t] = NoCall]
             /\ et' = [et EXCEPT ![t] = "none"]

\* __get_request() up to the unlock, then the wait of get_request(), for a
\* task that arrives or comes back with the arguments c.
Fills(s) == count[s] + 1 >= nr_requests
Blocked(t, s, must) == Fills(s) /\ s \in full /\ ~must /\ ~ioc_batching(t)
Over(s) == count[s] >= (3 * nr_requests) \div 2

\* -ENODEV.
GetFromDying(t) ==
  /\ dying
  /\ pc' = Return(pc, t)
  /\ Forget(t)
  /\ UNCHANGED <<count, starved, wait, live, nr_rqs_elvpriv, musts,
                 markVars, iocVars, adminVars>>

\* -ENOMEM: the caller gives up, or sleeps at the tail of the wait queue.
Refuse(t, c) ==
  /\ IF c.wait
     THEN /\ wait' = [wait EXCEPT ![c.sync] = Append(@, t)]
          /\ pc' = [pc EXCEPT ![t] = "asleep"]
          /\ call' = [call EXCEPT ![t] = c]
          /\ UNCHANGED et
     ELSE /\ pc' = Return(pc, t)
          /\ Forget(t)
          /\ UNCHANGED wait
  /\ UNCHANGED <<count, starved, live, nr_rqs_elvpriv, adminVars>>

\* A request is counted; its memory is allocated once the lock is dropped.
Count(t, c) ==
  /\ count' = [count EXCEPT ![c.sync] = @ + 1]
  /\ starved' = starved \ {c.sync}
  /\ LET priv == c.elv /\ bypass_depth = 0
     IN  /\ et' = [et EXCEPT ![t] = IF priv THEN "current" ELSE "none"]
         /\ nr_rqs_elvpriv' = nr_rqs_elvpriv + (IF priv THEN 1 ELSE 0)
  /\ pc' = [pc EXCEPT ![t] = "alloc"]
  /\ call' = [call EXCEPT ![t] = c]
  /\ UNCHANGED <<wait, live, adminVars>>

\* Mutation: an allocation that fills the list does not mark congestion.
MarkUncongested(t, s) ==
  /\ IF Fills(s) /\ s \notin full
     THEN full' = full \cup {s} /\ ioc_set_batching(t)
     ELSE UNCHANGED <<full, iocVars>>
  /\ congested' = IF Fills(s) THEN congested ELSE
       IF count[s] + 1 >= queue_congestion_on_threshold(nr_requests)
       THEN congested \cup {s} ELSE congested

\* The allocation that fills the list marks it and makes its task a batcher.
Mark(t, s) ==
  /\ IF Fills(s) /\ s \notin full
     THEN full' = full \cup {s} /\ ioc_set_batching(t)
     ELSE UNCHANGED <<full, iocVars>>
  /\ congested' =
       IF count[s] + 1 >= queue_congestion_on_threshold(nr_requests)
       THEN congested \cup {s} ELSE congested

__get_request(t, c, must) ==
  \/ GetFromDying(t) /\ ~must
  \/ /\ ~dying
     /\ must => musts < MaxMust
     /\ musts' = musts + (IF must THEN 1 ELSE 0)
     /\ IF Blocked(t, c.sync, must)
        THEN Refuse(t, c) /\ UNCHANGED <<markVars, iocVars>>
        ELSE /\ Mark(t, c.sync)
             /\ IF Over(c.sync) THEN Refuse(t, c) ELSE Count(t, c)

\* A new call.
get_request(t, c, must) ==
  /\ pc[t] = "idle"
  /\ gets < MaxGet
  /\ gets' = gets + 1
  /\ __get_request(t, c, must)

\* io_schedule() returns: the task becomes a batcher, without the lock.
Resume(t) ==
  /\ pc[t] = "woken"
  /\ pc' = [pc EXCEPT ![t] = "retry"]
  /\ ioc_set_batching(t)
  /\ UNCHANGED <<count, starved, wait, callVars, live,
                 nr_rqs_elvpriv, gets, musts,
                 markVars, adminVars>>

Retry(t, must) ==
  /\ pc[t] = "retry"
  /\ UNCHANGED gets
  /\ __get_request(t, call[t], must)

\* Mutation: every request counts, also when its task is not a batcher.
UseAlways(t) == /\ nr_batch' = [nr_batch EXCEPT ![t] = @ - 1]
                /\ UNCHANGED recent

\* A request that is handed out uses up one of its task's batch.
UseBatch(t) ==
  /\ nr_batch' = IF ioc_batching(t) THEN [nr_batch EXCEPT ![t] = @ - 1]
                                    ELSE nr_batch
  /\ UNCHANGED recent

\* Memory was found and the elevator has set its part up.
AllocDone(t) ==
  /\ pc[t] = "alloc"
  /\ live' = [live EXCEPT ![call[t].sync][et[t]] = @ + 1]
  /\ pc' = Return(pc, t)
  /\ Forget(t)
  /\ UseBatch(t)
  /\ UNCHANGED <<count, starved, wait, nr_rqs_elvpriv, markVars, gets, musts,
                 adminVars>>

\* Mutation: nr_rqs_elvpriv keeps counting a request without private data.
ElvprivKept(t) ==
  /\ pc[t] = "alloc"
  /\ et[t] # "none"
  /\ live' = [live EXCEPT ![call[t].sync]["none"] = @ + 1]
  /\ pc' = Return(pc, t)
  /\ Forget(t)
  /\ UseBatch(t)
  /\ UNCHANGED <<count, starved, wait, nr_rqs_elvpriv, markVars, gets, musts,
                 adminVars>>

\* fail_elvpriv: the request does without the elevator's private data.
ElvprivFail(t) ==
  /\ pc[t] = "alloc"
  /\ et[t] # "none"
  /\ nr_rqs_elvpriv' = nr_rqs_elvpriv - 1
  /\ live' = [live EXCEPT ![call[t].sync]["none"] = @ + 1]
  /\ pc' = Return(pc, t)
  /\ Forget(t)
  /\ UseBatch(t)
  /\ UNCHANGED <<count, starved, wait, markVars, gets, musts, adminVars>>

\* fail_alloc: mempool_alloc() fails only for a caller that may not wait,
\* which is told so once the count is undone.
AllocFail(t) ==
  LET s == call[t].sync
  IN  /\ pc[t] = "alloc"
      /\ ~call[t].wait
      /\ freed_request(s, et[t])
      /\ starved' = IF count'[s] = 0 THEN starved \cup {s} ELSE starved
      /\ pc' = Wake(Return(pc, t))
      /\ Forget(t)
      /\ UNCHANGED <<live, gets, musts, iocVars, adminVars>>

\* BLK_BATCH_TIME passes.
BatchExpires(t) ==
  /\ recent[t]
  /\ recent' = [recent EXCEPT ![t] = FALSE]
  /\ UNCHANGED <<count, starved, wait, pc, callVars, nr_batch, live,
                 nr_rqs_elvpriv, markVars, gets, musts, adminVars>>

-----------------------------------------------------------------------------
(* Resizing, switching and shutting down.  All three hold q->sysfs_lock. *)

SysfsLockFree == switch = "no" /\ cleanup # "marked"

\* blk_update_nr_requests()
blk_update_nr_requests(nr) ==
  LET on  == queue_congestion_on_threshold(nr)
      off == queue_congestion_off_threshold(nr)
      over == {s \in Sync : count[s] >= nr}
  IN  /\ SysfsLockFree /\ ~dying
      /\ resizes < MaxResize
      /\ resizes' = resizes + 1
      /\ nr_requests' = nr
      /\ congested' = (congested \ {s \in Sync : count[s] < off})
                        \cup {s \in Sync : count[s] >= on}
      /\ full' = over
      /\ wait' = WakeOne(Sync \ over)
      /\ pc' = Wake(pc)
      /\ UNCHANGED <<count, starved, callVars, iocVars, live, nr_rqs_elvpriv,
                     bypass_depth, switch, switches, cleanup, gets, musts>>

\* The end of __blk_drain_queue(): wake_up_all() of both queues.
WakeAll == /\ wait' = [s \in Sync |-> <<>>]
           /\ pc' = Wake(pc)

\* elevator_switch(): bypass mode, so that no new request takes part.  sysfs
\* refuses a dying queue, a driver's elevator_change() does not.
SwitchStart ==
  /\ SysfsLockFree
  /\ switches < MaxSwitch
  /\ switches' = switches + 1
  /\ switch' = "drain"
  /\ bypass_depth' = bypass_depth + 1
  /\ UNCHANGED <<listVars, wait, pc, callVars, live, cleanup>>

\* Mutation: the switch does not wait for the requests with private data.
SwitchUndrained ==
  /\ switch = "drain"
  /\ switch' = "drained"
  /\ WakeAll
  /\ UNCHANGED <<listVars, callVars, live, bypass_depth, switches, cleanup>>

SwitchDrained ==
  /\ switch = "drain"
  /\ nr_rqs_elvpriv = 0
  /\ switch' = "drained"
  /\ WakeAll
  /\ UNCHANGED <<listVars, callVars, live, bypass_depth, switches, cleanup>>

\* q->elevator changes: what belonged to it belongs to one that is gone, or
\* going.
Retire ==
  /\ live' = [s \in Sync |-> [live[s] EXCEPT
                !["stale"] = @ + live[s]["current"], !["current"] = 0]]
  /\ et' = [t \in Task |-> IF et[t] = "current" THEN "stale" ELSE et[t]]

\* elevator_init_fn() succeeds and installs the new elevator.
SwitchInit ==
  /\ switch = "drained"
  /\ switch' = "installed"
  /\ Retire
  /\ UNCHANGED <<listVars, wait, pc, call, bypass_depth, switches, cleanup>>

\* elv_register_queue() fails: the new elevator goes, the old one is back.
SwitchRestore ==
  /\ switch = "installed"
  /\ switch' = "restored"
  /\ Retire
  /\ UNCHANGED <<listVars, wait, pc, call, bypass_depth, switches, cleanup>>

\* blk_queue_bypass_end(), also when elevator_init_fn() failed.
SwitchEnd ==
  /\ switch \in {"drained", "installed", "restored"}
  /\ switch' = "no"
  /\ bypass_depth' = bypass_depth - 1
  /\ UNCHANGED <<listVars, wait, pc, callVars, live, switches, cleanup>>

\* blk_cleanup_queue(): DYING is visible before the lock is taken...
CleanupMark ==
  /\ SysfsLockFree
  /\ cleanup = "no"
  /\ cleanup' = "marked"
  /\ UNCHANGED <<listVars, wait, pc, callVars, live, bypass_depth, switch,
                 switches>>

\* ...and bypass mode is entered under it.
CleanupBypass ==
  /\ cleanup = "marked"
  /\ cleanup' = "drain"
  /\ bypass_depth' = bypass_depth + 1
  /\ UNCHANGED <<listVars, wait, pc, callVars, live, switch, switches>>

\* Mutation: the sleepers of a dead queue are not woken.
CleanupNoWake ==
  /\ cleanup = "drain"
  /\ nr_rqs_elvpriv = 0 /\ \A s \in Sync : count[s] = 0
  /\ cleanup' = "dead"
  /\ UNCHANGED <<listVars, wait, pc, callVars, live, bypass_depth, switch,
                 switches>>

CleanupDrained ==
  /\ cleanup = "drain"
  /\ nr_rqs_elvpriv = 0 /\ \A s \in Sync : count[s] = 0
  /\ cleanup' = "dead"
  /\ WakeAll
  /\ UNCHANGED <<listVars, callVars, live, bypass_depth, switch, switches>>

-----------------------------------------------------------------------------
Get == \E t \in Task, c \in Calls, must \in BOOLEAN : get_request(t, c, must)
Alloc(t) == AllocDone(t) \/ ElvprivFail(t) \/ AllocFail(t)
Run(t) == Resume(t) \/ (\E must \in BOOLEAN : Retry(t, must)) \/ Alloc(t)
Put == \E s \in Sync, e \in Elv : Free(s, e)
Switch == SwitchDrained \/ SwitchInit \/ SwitchRestore \/ SwitchEnd
Cleanup == CleanupBypass \/ CleanupDrained

Next == \/ Get
        \/ \E t \in Task : Run(t) \/ BatchExpires(t)
        \/ Put
        \/ \E nr \in NrRequests : blk_update_nr_requests(nr)
        \/ SwitchStart \/ Switch
        \/ CleanupMark \/ Cleanup

\* Woken tasks run, memory is found, the driver completes requests, and a
\* switch or a shutdown that has begun goes on: while one of these can make
\* progress, one of them does.  Nobody has to allocate, resize, switch or
\* shut down, and no batch has to expire.
Fairness == WF_vars((\E t \in Task : Run(t)) \/ Put \/ Switch \/ Cleanup)

Spec == Init /\ [][Next]_vars
FairSpec == Spec /\ Fairness

-----------------------------------------------------------------------------
(* Properties *)

\* Every variable has its type.
TypeOK ==
  /\ nr_requests \in NrRequests
  /\ count \in [Sync -> Nat]
  /\ starved \subseteq Sync
  /\ full \subseteq Sync
  /\ congested \subseteq Sync
  /\ wait \in [Sync -> Seq(Task)]
  /\ pc \in [Task -> {"idle", "asleep", "woken", "retry", "alloc"}]
  /\ call \in [Task -> Call]
  /\ et \in [Task -> Elv]
  /\ nr_batch \in [Task -> 0..NrBatching]
  /\ recent \in [Task -> BOOLEAN]
  /\ live \in [Sync -> [Elv -> Nat]]
  /\ nr_rqs_elvpriv \in Nat
  /\ bypass_depth \in 0..2
  /\ switch \in {"no", "drain", "drained", "installed", "restored"}
  /\ cleanup \in {"no", "marked", "drain", "dead"}
  /\ gets \in 0..MaxGet
  /\ musts \in 0..MaxMust
  /\ resizes \in 0..MaxResize
  /\ switches \in 0..MaxSwitch

\* Tasks that have been counted but have no memory yet.
Allocating(s) == {t \in Task : pc[t] = "alloc" /\ call[t].sync = s}
AllocatingElv == {t \in Task : pc[t] = "alloc" /\ et[t] # "none"}

\* rl->count and nr_rqs_elvpriv count the requests handed out and the
\* allocations in progress, through every failure path: a leak would keep
\* __blk_drain_queue() waiting for ever, an undercount would end it early.
CountExact ==
  /\ \A s \in Sync : count[s] =
       live[s]["none"] + live[s]["current"] + live[s]["stale"]
       + Cardinality(Allocating(s))
  /\ nr_rqs_elvpriv = live[0]["current"] + live[0]["stale"]
       + live[1]["current"] + live[1]["stale"] + Cardinality(AllocatingElv)

\* The full mark is exactly "at or over nr_requests", although it is set by
\* the allocation that fills the list, cleared by the one that makes room,
\* and recomputed when sysfs resizes the list under requests in flight.
FullExact == \A s \in Sync : s \in full <=> count[s] >= nr_requests

\* Writeback throttles on the congestion marks: they are set at the upper
\* threshold and gone below the lower one, also for an allocation refused or
\* undone half-way and after a resize.
CongestionTracks ==
  \A s \in Sync :
    /\ count[s] >= queue_congestion_on_threshold(nr_requests)
         => s \in congested
    /\ count[s] < queue_congestion_off_threshold(nr_requests)
         => s \notin congested

\* The marks never drift away from the counts: FullExact, on which everyone
\* who is made to sleep depends, and CongestionTracks.
MarksTrackCount == FullExact /\ CongestionTracks

\* "Make sure the process is able to allocate at least 1 request even if the
\* batch times out, otherwise we could theoretically lose wakeups": while a
\* task sleeps, a request of its direction is still to be freed, or a task
\* was woken and will take or pass on the room there is, or the queue is
\* being drained, which ends with wake_up_all().
NoLostWakeup ==
  \A s \in Sync : wait[s] # <<>> =>
    \/ count[s] > 0
    \/ \E t \in Task : pc[t] \in {"woken", "retry"} /\ call[t].sync = s
    \/ cleanup \in {"marked", "drain"}

\* elevator_switch(): no request and no allocation in progress ever refers to
\* an elevator that has been replaced, and none takes private data from one
\* while it is being replaced.
ElevatorSafe ==
  /\ \A s \in Sync : live[s]["stale"] = 0
  /\ \A t \in Task : et[t] # "stale"
  /\ switch \in {"drained", "installed", "restored"} =>
       /\ \A s \in Sync : live[s]["current"] = 0
       /\ \A t \in Task : et[t] # "current"

\* get_request() "fails iff @q is dead" for a caller that may wait: once the
\* calls that MaxGet allows are made, nobody stays in get_request(), every
\* sleeper gets a request or, from a dying queue, an error.
EveryCallReturns == (\E t \in Task : pc[t] = "asleep") ~>
                      (\A t \in Task : pc[t] = "idle")

\* elevator_switch() and blk_cleanup_queue() do not wait for ever for the
\* requests they drain.
DrainEnds == (switch = "drain" \/ cleanup = "drain") ~>
               (switch # "drain" /\ cleanup # "drain")

-----------------------------------------------------------------------------
(* The inductive invariant behind the safety properties. *)

\* The wait queues hold the sleepers, each once and on its own queue.
QueueInv ==
  /\ \A s \in Sync : \A i \in DOMAIN wait[s] :
       LET t == wait[s][i] IN pc[t] = "asleep" /\ call[t].sync = s
  /\ \A s \in Sync : \A i, j \in DOMAIN wait[s] :
       wait[s][i] = wait[s][j] => i = j
  /\ \A t \in Task : pc[t] = "asleep" => Waiting(t, wait)

\* Only an allocation in progress holds an elevator; bypass mode lasts as long
\* as a switch or a shutdown, which exclude each other; a dead queue has no
\* sleepers.
AdminInv ==
  /\ \A t \in Task : et[t] # "none" => pc[t] = "alloc"
  /\ bypass_depth = (IF switch = "no" THEN 0 ELSE 1)
                      + (IF cleanup \in {"drain", "dead"} THEN 1 ELSE 0)
  /\ switch # "no" => cleanup # "marked"
  /\ cleanup = "dead" => \A s \in Sync : wait[s] = <<>>

\* The invariant that get_request(), freed_request(), the resizing and the
\* draining of the list preserve.
IInv == /\ TypeOK /\ QueueInv /\ AdminInv /\ CountExact
        /\ MarksTrackCount /\ NoLostWakeup /\ ElevatorSafe
=============================================================================
