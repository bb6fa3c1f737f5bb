# The request lifecycle of the block layer, specified and verified

The repository is an annotated Linux 3.18 kernel tree (`arch`, `block`, `fs`,
`kernel`, `mm`, `net`, `drivers`, with copies of bionic, blktrace and
f2fs-tools under `native`). This project specifies one subsystem of it in
depth: the life of a request in the block layer (`block/`), from its allocation
(request list, I/O context, blk-mq tag) through the FLUSH/FUA sequencer, the
dispatch queue, tags and timeouts to the completion softirq. It was chosen because it is small enough to
be modelled faithfully, concurrent enough to be hard to test, and because every
filesystem in the tree rests on what it promises.

## 1. Inventory

| Component | State | Operations | Met by |
|---|---|---|---|
| FLUSH/FUA sequencer (`blk-flush.c`) | two flush queues, pending and running index, `flush_data_in_flight`, `flush_queue_delayed`, one preallocated `flush_rq`, `rq->flush.seq` | insert, complete a step, kick a flush, end of data, end of flush | request queue, driver |
| Request queue core (`blk-core.c`, `elevator.c`, `blk.h`) | `queue_head`, scheduler's set, `in_flight[2]`, `REQ_STARTED` | submit, insert, dispatch (and hold), dequeue, requeue, finish, run the queue | all |
| Tags (`blk-tag.c`) | tag map, `rq->tag` | start tag, end tag | driver, `in_flight` |
| Timeouts (`blk-timeout.c`) | `timeout_list`, one timer, `rq->deadline`, `REQ_ATOM_COMPLETE` | add, delete, handler with list walk, abort | completion interrupt, driver |
| Completion softirq (`blk-softirq.c`) | per-cpu `blk_cpu_done`, IPI queue, `rq->cpu` | complete, trigger by IPI, softirq, cpu notifier | softirq core, IPIs, cpu hotplug, sysfs |
| Request list (`blk-core.c`, `elevator.c`, `blk-sysfs.c`) | `rl->count`, `starved`, full and congestion marks, wait queues, `ioc->nr_batch_requests`, `nr_rqs_elvpriv`, `bypass_depth` | get (sleep, retry, fail half-way), free, resize, switch the elevator, clean the queue up | submitters, driver, sysfs |
| blk-mq tags (`blk-mq-tag.c`, ends of `blk-mq.c`) | bitmap, depths, wait queues with `wait_cnt`, `wake_index`, `active_queues`, `nr_active` | get, put, busy, idle, wake all, resize | submitters, completion, timer, sysfs |
| I/O contexts (`blk-ioc.c`) | two reference counts, icq tree and lists, `icq_hint`, release work | create, share, look up, link, exit, release, clear a queue | processes, request list, elevator switch |
| Rest of blk-mq, I/O schedulers, merging, throttling | – | – | not modelled, section 8 |
| The rest of the kernel, native tools | – | – | not modelled, section 8 |

How they interact. Submitters and the driver change the queue under
`q->queue_lock`. The sequencer puts requests on `queue_head` and asks kblockd to
run `request_fn`; the driver peeks, starts (arming the timer, taking a tag),
refuses or requeues. The hardware answers by interrupt *without* the lock:
`blk_complete_request()` races with the timer handler for
`REQ_ATOM_COMPLETE`, and the winner queues the request on a per-cpu list,
perhaps on another cpu. The softirq ends the request through
`blk_finish_request()`, which returns to the sequencer when the request is part
of a sequence. Before all that the submitter has to come by a request:
`get_request()` counts it on the queue's request list or sleeps, looks up the
process's icq for the queue, and drops the lock to allocate memory; with blk-mq
it takes a bit of a shared map without any lock. `elevator_switch()` and
`blk_cleanup_queue()` wait until nobody is in between.

What is hard, and what makes each component correct:

* **Sequencer.** One flush serves many requests at different steps; the loop of
  `flush_end_io()` calls code that moves the entries it walks over and may start
  the next flush in the middle of the walk. Correct: one flush at a time (C1),
  no request lost or linked twice, data of a FLUSH write never before what it
  commits, FUA durable, no stall.
* **Queue core and tags.** `in_flight` is raised and lowered in different
  places under a flag that is set elsewhere; the tag allocator decides on it.
* **Timeouts.** One timer for all requests; a driver callback in the middle of
  the list walk; jiffies that wrap. Correct: exactly one owner of a request, no
  request without a timer, the timer not late.
* **Softirq.** Only the request that finds the list empty raises the softirq;
  cpus come and go. Correct: no lost wakeup, nothing left on a dead cpu, each
  completion delivered once.
* **Request list.** Counted under the lock, allocated without it, marks that
  three functions maintain, wakeups passed on one at a time, and two drains that
  rely on the counts. Correct: counts and marks exact, no sleeper forgotten, no
  request of a replaced elevator, drains that end.
* **blk-mq tags.** No lock at all; wakeups come after a batch of frees and go
  round the wait queues. Correct: a tag in use once, no free tag left lying
  while tasks sleep, counters that concurrent frees cannot wedge, exact shares.
* **I/O contexts.** icqs have no reference count and are reached from two sides
  with opposite lock orders, through a hint that is written without the lock.
  Correct: exact counts, no dangling pointer, every scheduler told, no livelock
  of the trylock loops.

`PROJECT.json` lists the hazards line by line with the properties that cover
them.

## 2. Modules

| Module | Models | Extends |
|---|---|---|
| `WriteBarrier` | abstract: what FLUSH and FUA promise to a submitter | – |
| `BlkFlush` | sequencer, dispatch queue, tags, driver, disk cache | instantiates `WriteBarrier` |
| `BlkTimeout` | timeout list, timer and handler, completion, requeue, abort | – |
| `BlkSoftirq` | completion lists, IPIs, softirq, cpu hotplug | – |
| `BlkRequestList` | request list, `elevator_switch()`, `blk_cleanup_queue()` | – |
| `TagPool` | abstract: what getting and putting a tag promise | – |
| `BlkMqTag` | tag map of a blk-mq hardware queue | instantiates `TagPool` |
| `BlkIoc` | I/O contexts and icqs | – |
| `MCBlkFlush`, `MCBlkTimeout`, `MCBlkTimeoutLatency`, `MCBlkSoftirq`, `MCBlkRequestList`, `MCBlkMqTag`, `MCBlkIoc` | instances for TLC | the above |
| `BlkFlushProof` | types, C1, places of requests | `BlkFlush` |
| `BlkFlushDiskProof` | steps, disk, FLUSH and FUA, `BUG_ON`s | `BlkFlushProof` |
| `BlkFlushBarrierProof` | refinement of `WriteBarrier` | `BlkFlushDiskProof` |
| `BlkTimeoutProof`, `BlkSoftirqProof`, `BlkRequestListProof`, `BlkIocProof` | types and safety of their component | their component |
| `BlkMqTagProof` | the same, and refinement of `TagPool` | `BlkMqTag` |

Operators keep the names of the C functions; an action stands for everything
the function does under its lock. Definitions whose comment says *Mutation* are
plausible mistakes in the definition that follows them; no specification uses
them, they exist to show that the properties notice.

### BlkFlush

The queue lock makes each operation one action, except the walk of
`flush_end_io()`: `flush_end_io(error)` does everything up to the loop,
`FlushEndIoStep` is one turn, `FlushEndIoOut` what follows. Nobody else acts
meanwhile (`LockFree`); the walk is split so that its intermediate states are
visible to the invariants and so that the effect of appending to the list being
walked is that of `list_for_each_entry_safe`.

* `blk_flush_complete_seq` and `blk_kick_flush` are translated branch by branch;
  `seq` is the set of completed steps instead of a bit mask.
* `SubmitNothing`, `SubmitWrite`, `SubmitBack`, `SubmitFlush` are the four ways
  of a bio through `generic_make_request_checks()`, `blk_queue_bio()` and
  `__elv_add_request()`. `SubmitBack` is a write without `REQ_ELVPRIV`: it drains
  the scheduler, in any order, and goes to the tail of the dispatch queue.
  Plugging and merging are left out; a FLUSH/FUA request
  is never merged, and plugging only moves the moment of insertion.
* `ElevatorDispatch`, `QueueEmpty`, `DriverStart`, `DriverRefuse` are what a run
  of `request_fn` can do. The I/O scheduler is a set from which any request may
  be taken, which covers every scheduling policy.
* `tag_map` is the bitmap of `blk-tag.c` and `tag` the tag of each request;
  `blk_queue_start_tag` sets a bit below the depth of the request's direction,
  `blk_queue_end_tag`, part of requeue and completion, clears it.
* `in_flight` follows `blk_dequeue_request()`, `elv_requeue_request()` and
  `elv_completed_request()`, including that a sequenced request stays counted
  until its sequence ends.
* `pending_timed_out` abstracts `flush_pending_since + FLUSH_PENDING_TIMEOUT`:
  it becomes true at any time while requests are pending and is reset when the
  pending list gets its first entry.
* External: the driver (fetches when `request_fn` runs, may refuse only while
  it has commands in flight or gets no tag, and reruns the queue when a
  completion follows a refusal), and the disk. `landed` is what the disk has
  acknowledged, `durable` what is on the medium, `cover` what the flush that is
  executing will make durable.

A detail the model brought out: when the walk issues the next flush, the list it
is walking becomes the pending list, and a data-less FLUSH|FUA request that just
moved from PREFLUSH to POSTFLUSH can be visited again and have its POSTFLUSH
counted as done by the same flush. It has no data, so nothing is lost; the
proofs cover the case.

### WriteBarrier

Five variables seen by a submitter: the command, the state of the bio, the
writes a FLUSH must cover, what the disk has, what is on the medium. `Progress`
lets anything happen that keeps the promise of the header comment of
`blk-flush.c`. `BlkFlush` implements it with the identity mapping on these
variables (`BarrierSpec`).

### BlkTimeout

`jiffies` counts modulo `Wrap` and is compared as `include/linux/jiffies.h`
does, by the sign of the difference. `blk_add_timer`, `blk_rq_timeout`,
`round_jiffies_up` and the half-second tolerance are arithmetic on it;
`mod_timer` adds up to `Slack`, standing for `apply_slack()`. The handler is
`TimerFires` (the timer core detaches the timer), `blk_rq_timed_out_timer`
(takes the lock), `blk_rq_check_expired` per entry, `blk_rq_timed_out(ret)` for
the three answers of `rq_timed_out_fn`, `HandlerOut`. `blk_complete_request`
needs no lock and interleaves with all of them. `Lose` is a command that never
completes, by hardware failure or by `blk_should_fake_timeout()`. `Claim` takes a
request from its owner, for `blk_finish_request` and `blk_requeue_request`; a
started request that nobody has marked complete may also be taken back by the
driver, which then keeps it from the hardware ("until the hardware cannot accept
more", `blk-core.c` 1275). `deadline` is
reset to 0 when a request leaves the list, where the code leaves a value nobody
reads.

Assumed of the driver: it registers `rq_timed_out_fn` (without it
`blk_add_timer()` does nothing and no request is watched); when that answers
HANDLED, and before its error handler ends a request, it has taken the command
from the hardware. A completion that arrives between the timer's mark and
RESET_TIMER's clear is dropped, as in the code; the request is then found by its
next timeout.

### BlkSoftirq

The lists are cpu-local and protected by disabling interrupts, so what happens
with interrupts off on a cpu is one action. `take_cpu_down` runs inside
`stop_machine()` and includes the CPU_DYING notifier of `kernel/smp.c`, which
handles the IPIs still queued. `blk_cpu_notify` runs later, in process context,
on some other cpu. `rq_affinity` may be rewritten at any step.

### BlkRequestList

An action is one critical section of `queue_lock` or one stretch without it.
`get_request` and `Retry` are `__get_request()` up to its unlock, with the wait
of `get_request()`; `AllocDone`, `ElvprivFail` and `AllocFail` are what follows
without the lock; `Resume` is the return from `io_schedule()`, before the lock
is taken again. `Room`, `Mark` and `Count` keep the order of the code, so an
allocation refused by the 150% limit has marked the list all the same. The wait
queues are sequences of exclusive waiters and a wakeup takes the first.

`live` counts the requests handed out, by direction and by elevator: `none`
(`REQ_ELVPRIV` clear), `current`, or `stale` once `q->elevator` points
elsewhere; `et` does so for allocations in progress. `SwitchStart` to `SwitchEnd` are
the steps of `elevator_switch()` with both failure paths, `CleanupMark`,
`CleanupBypass` and `CleanupDrained` those of `blk_cleanup_queue()`. A drain
that polls every 10 ms is one action that waits for its condition. All three
administrative operations hold `q->sysfs_lock`. sysfs refuses a dying queue; a
driver's `elevator_change()` does not, so a switch may also begin while
`blk_cleanup_queue()` drains, or later.
`CleanupDrained` waits for `nr_rqs_elvpriv` and the counts of the list. The
other terms of `__blk_drain_queue()` (`request_fn_active`, `queue_head`,
`in_flight`, the flush queues) only make it later: the safety properties allow
any delay, and `DrainEnds` takes for granted that the driver and the sequencer
come to an end with what they have, which is what `EveryBioEnds` is about.

`recent` abstracts `last_waited + BLK_BATCH_TIME`: it may pass at any moment.
Without cgroups (compiled out here) there is one request list, the root one.
`ELV_MQUEUE_NO` is returned by no scheduler of the tree and left out;
`ELV_MQUEUE_MUST` is an input. `mempool_alloc()` fails only for callers that
may not wait.

### BlkMqTag and TagPool

`TagPool` has the tasks that want a tag, those of them that may wait, and the
tags in use. `FairSpec` adds: while a tag is free and somebody wants one,
somebody gets one.

`BlkMqTag` splits the code at every atomic operation on shared memory, since
nothing is locked. A scan of the bitmap is `__bt_get` (the share is checked and
the scan begins), then `Take` of any tag that is free at that moment, or `Miss`,
possible only when every tag within the depth was in use at some moment since
the scan began (`avail` keeps those for which that is not so). This covers every
position of the per-cpu `last_tag`. `bt_clear_tag()` is `Clear`, `WakeIndex`,
`WakePtr`/`WakePtrNext` per wait queue, `WakeRead` and `WakeMove` (cmpxchg),
`Dec`, `Inc`, `Add`, `IndexRead` and `Advance` (cmpxchg), and `WakeBatch`. `owner` says who has set a bit: a
task that is still in the allocation, the hardware context of a request handed
out, a freer that is about to clear it. `QueueUp` chooses any wait queue because
`wait_index` is read before the task is on the queue. Resizing stores the depth
of the words and the transient `wake_cnt` in one step, the rest in a second.
Memory is taken to be sequentially consistent; the code has its barriers
(`smp_mb()` after `clear_bit()`, the one in `prepare_to_wait()`).

### BlkIoc

`alive`, `refcount`, `active_ref`, `icq_hint` and `release_work` are fields of
the contexts; an icq is free, new (allocated, not linked), linked, or waiting
for its grace period. The locks are not variables: `QLocked(q)` and
`ILocked(i)` say which program points hold them. Where the code waits for a
lock the action has the negation as a guard; where it tries, there are two
actions (`WorkDestroy`/`WorkRetry`, `WalkExit`/`WalkRetry`). `readers` are the
lookups in an RCU section when an icq was unlinked, which must end before it is
freed. `ioc_destroy_icq` may clear a hint that a lookup of another queue has
just set, because the code tests and clears it without excluding that lookup.
`ClearStart` to `ClearEnd` are `elevator_switch()` (back to `live`) or
`blk_cleanup_queue()` and `blk_release_queue()` (`gone`) around
`ioc_clear_queue()`. A lookup may also happen in bypass mode, where
`cfq_may_queue()` makes it before the code decides that the request gets no
elevator data; `queue_lock` keeps it apart from the clearing. `Drained` is `nr_rqs_elvpriv = 0`, whose exactness
`BlkRequestList` establishes. The reference that cfq, the only scheduler with
icqs, takes for itself (`active_cic`, `cfq_dispatch_request`) is one more member
of `Rq`: it is put under `queue_lock` as a request's is, at the latest when the
drain forces cfq to dispatch. More of them may exist at once than the one per
queue of the code.

## 3. Runs

| Run | Instance | Shows |
|---|---|---|
| `flush_sequence` | 3 requests, 2 tags, asynchronous, cached disk without FUA, each submitted once, 1 requeue; 1.41M states | exact tag map and reserved tags, C1, one place per request, `BUG_ON`s, no live bio stranded but by the tag stall of section 6 |
| `flush_barrier` | 2 requests, 3 submissions, 1 requeue, every disk, untagged; 347k states | FLUSH ordering, crash consistency, exact `in_flight`, refinement of `WriteBarrier` (FUA durability is part of it), every bio ends |
| `flush_tag_stall` | 3 asynchronous FUA writes, 2 tags | **violation**, section 6 |
| `timeout_race` | 2 requests with different timeouts, wrap at 32; 1.88M states | one owner, `BUG_ON`s, timer armed, request watched |
| `timeout_latency` | 2 requests with one timeout, wrap at 26; 442k states | timer not late, lost commands are found |
| `timeout_mixed` | as `timeout_race` | **violation**, section 6 |
| `softirq_delivery` | 3 cpus in 2 cache domains, 2 requests, 2 hotplugs; 441k states | no lost wakeup, nothing stranded, delivered once |
| `softirq_liveness` | 2 cpus, 2 requests, 2 hotplugs; 61k states | every completion delivered |
| `request_list` | 2 tasks, one with an io_context, limits 1 and 2, 4 calls of three kinds, a resize, a switch, a teardown; 526k states | exact counts and marks, no lost wakeup, no stale elevator, every call returns, drains end |
| `mq_tag_wait` | 2 tasks, 1 freer, 4 tags, 2 wait queues, batch of 2; 598k states | types, refinement of `TagPool` with its fairness, every sleeper woken (stated for one task, which stands for all) |
| `mq_tag_race` | 2 tasks, 2 freers, 2 tags shared, 1 wait queue, batch of 2, a resize; 3.60M states | sound wake counters, exact shares |
| `ioc_lifetime` | 2 tasks, 1 context, 2 queues, 2 icqs, 2 requests or references of cfq, 3 allocations, 2 clearings; 218k states | exact counts, no dangling pointer, every icq exited, contexts freed, clearings end |

The bounds and why they are enough.

* *Flush.* Three requests are the fewest with one waiting for a flush, one in
  its DATA step and one arriving; two structures submitted three times reuse
  one while the other is in progress. Two tags give one asynchronous tag, the
  smallest depth with tags kept back. `MaxRequeue = 1` lets either request or
  the flush itself come back. Submissions are bounded, so the flush runs end in
  a state where the queue is idle and nothing is left to do: these are the runs
  that do not check deadlock.
* *Timeout.* `timeout_race` has `HZ = 4` and a clamp of 5, `timeout_latency`
  `HZ = 2` and a clamp of 2 below the timeout of 3, as in the code; slack and
  softirq latency are one jiffy. These are small values for which rounding, clamp,
  slack and tolerance all matter, with `Wrap` more than twice the longest
  interval, which is what `time_after()` needs. Skews 0 and 1 stand for two
  cpus. `timeout_latency` has the constants that `TimerKeepsTime` is about:
  `MCBlkTimeoutLatency` assumes `Regular`, and TLC evaluates it.
* *Softirq.* Three cpus give a shared and an unshared cache, and a cpu left
  over when one goes down; two hotplugs let the cpu that inherited a list go
  down as well.
* *Request list.* With a limit of 1 or 2 every list fills, the 150% limit is met
  and the congestion thresholds differ from the full mark; two tasks sleep in
  either direction; four calls are the fewest in which a woken task takes its
  request while another has overtaken it. The bound on calls also matters to
  `EveryCallReturns`: a batcher that allocates again and again can overtake a
  woken task each time, and the code does nothing against it but
  `BLK_BATCH_TIME`. The run ends when the calls are used up, so deadlock is not
  checked.
* *Tags.* `mq_tag_wait` has more tags than one batch and two wait queues with one
  sleeper each, so that a wakeup for one is preceded by frees that count for the
  other. Callers that may not wait are left out of this run: an endless series
  of failing calls would satisfy the fairness. `mq_tag_race` has two freers on
  one counter, the smallest race on it, and a share that two tasks can exhaust.
* *I/O contexts.* Two queues are needed for the race on the hint, two icqs for
  both to be linked, two processes for a create race and for an exit that leaves
  an active user; two clearings let both queues go. Two members of `Rq`
  let cfq's own reference outlive the request it was taken for. One context
  suffices: cfq may put its reference while an exit holds the lock of another
  context, and takes the second lock only for the last reference, when no
  process, request or release work is left that could hold it. The run itself
  has no such nesting; the put is a step of its own under `queue_lock`.

Symmetry (permutations of requests, tasks, freers) is used in runs that check
only safety.

## 4. Fairness

* `BlkFlush`: weak fairness of `request_fn` once it is due (kblockd or the
  submitter runs it), of each command's completion (a disk that never answers is
  the subject of `BlkTimeout`), of the walk, and of time passing. Submission and
  requeue are not fair.
* `BlkTimeout`: weak fairness of the clock, the timer softirq and the steps of
  the walk. Strong fairness of the handler's lock acquisition, because
  `queue_lock` is a ticket lock on the architectures of this tree
  (`arch/arm/include/asm/spinlock.h`, `arch/arm64/include/asm/spinlock.h`):
  others may take it in between, but not for ever. Nothing is assumed of
  hardware or driver: `EveryRequestGrabbed` holds when every command is lost.
* `BlkRequestList`: while a woken or allocating task, a free, a switch or a drain
  can go on, one of them does (one weak fairness condition for all). Nobody has
  to allocate and no batch has to expire.
* `BlkMqTag`: the same, for tasks, freers and wakers. It stands for cpus that run
  and a driver that completes what it has.
* `BlkIoc`: weak fairness of every process, work and clearing, of requests ending
  and of grace periods. Strong fairness of the three waits for `ioc->lock` with
  `queue_lock` held, since it is a ticket lock. Nothing is assumed of
  `spin_trylock()`: its loops end because the holders of `queue_lock` go on and
  allocations and clearings are bounded (`MaxGet`, `MaxClear`). With unbounded
  traffic on the queue a trylock may fail for ever; the code accepts that.
* `BlkSoftirq`: weak fairness of raised softirqs and queued IPIs on each cpu
  that is up; strong fairness of the CPU_DEAD notifier, which runs in a thread
  that softirqs on its cpu interrupt but do not stop for ever.

## 5. Proofs

TLAPS proves, for all values of the constants (any number of requests, tags,
tasks, queues, cpus, any jiffies width, timeouts and hotplugs), from the named
assumptions `FlushAssumption`, `TimeoutAssumption`, `SoftirqAssumption`,
`ListAssumption`, `TagAssumption` and `IocAssumption`, which only give constants
their types, finiteness and distinctness (one theorem, `TimerKeepsTime`, states
the further assumption it needs):

* `BlkFlushProof`: `TypeCorrect`, `OneFlushInProgress`, `RequestsNeverLost`,
  `TagsNeverShared`, `LiveBiosServed`.
  `PlaceInv` strengthens `SingleFlush` and `OnePlace`: a sequenced request is
  either on one flush queue or on `flush_data_in_flight`, and in the second case
  also on `queue_head` or at the driver; a request on a flush queue is nowhere
  else. `WalkInv` says that the walk has an entry and that `flush_rq` is back.
  Lemmas about appending, prepending and taking the tail of a list without
  duplicates carry the list reasoning. `LiveBiosServed` is the safety half of
  `EveryBioEnds`: as long as a bio is live, one of the fair actions has something
  to do, except in the state that `flush_tag_stall` leads to (`TagStall`), which
  is thereby shown to be the only one of its kind. `QueueDue` and `FlushDue` follow
  the chain of who waits for whom: scheduler requests for the flush they are held
  back for, a flush queue for the data that will kick its flush, data and flush
  on the dispatch queue for a run of `request_fn`, and a refused run for a
  completion. `TagsNeverShared` (`TagsSound`) is inductive with the types, and
  `LiveBiosServed` rests on it: with nothing at the driver every bit of the map
  is clear, so a refusal can only come from `in_flight`; a leaked bit would be
  a second way to stall.
* `BlkFlushDiskProof`: `FlushIsABarrier`, `FuaIsDurable`, `BugOnsUnreachable`,
  `InFlightExact`.
  `SeqInv` says how far a sequence can be on which list. `DiskInv` is the heart:
  `Need(r)` is what the flush that `r` waits for must make durable; it is always
  at the disk already, a flush at the driver covers the needs of the requests on
  the running queue, and the walk after a good flush finds them met. Neither
  `FlushOrdered` nor `FuaDurable` is inductive without it, since they speak of
  the moment a request is issued or ends while the reason lies in a flush that
  was issued earlier. `InFlightExact` is about `q->in_flight`, which is counted
  up when a request is activated and down when it is freed, on different paths
  for plain and sequenced requests. `CountInv` says whose accounting is open:
  the counters are the cardinalities of `Counted`, the requests at the driver
  and those that have written their data and whose sequence goes on; all of
  them are `started`, and a started request outside `Counted` is still on
  `queue_head`, where it was looked at and refused. Lemmas on the cardinality of a set
  with one element more or less carry the counters over each step.
* `BlkFlushBarrierProof`: `Implements` (`Spec => Barrier!Spec`) maps
  submissions to `Submit` and every other step to `Progress` or a stutter, with
  `IInv` giving the conditions of `MayEnd`; `SurvivesPowerFailure` follows.
* `BlkTimeoutProof`: `TypeCorrect`, `OnlyOneGrabs`, `BugOnsUnreachable`, `NeverUnarmed`,
  `AlwaysWatched`. `ListInv` ties the list and the hardware to started requests,
  `WalkInv` bounds the walk's position while the callback runs, `ArmInv` says
  that whatever the walk has passed is either in `next_timeout` or has armed the
  timer. `TimerKeepsTime` states `TimerNotLate` under `Regular`, for which the
  code gives these reasons: the queue has one `rq_timeout` and the request's own
  `timeout` is 0 or that (section 6 shows the bound broken otherwise);
  `apply_slack()` takes a 256th of the interval, below half a second for timeouts up to
  two minutes; a softirq is late by less than the second to which deadlines are
  rounded; and jiffies have 32 or 64 bits, far more than twice any interval in
  use. `LateInv` is the induction: `Dist` is the signed distance between two
  jiffies on the circle, `DeadlineInv` relates what the timer still has to
  wait, the latency already used and each deadline, `ExpiresInv` bounds the
  armed timer from both sides, which keeps all comparisons in the range
  where `time_after()` is the order of the distances, and `PassedInv` says what
  a walk under way has seen, since between its steps neither the timer nor
  `next_timeout` alone is in time. The lemmas `DistTick`, `DistAdd`, `DistAfter`,
  `RoundDist`, `ClampDist` and `ModTimerDist` turn the modular arithmetic of
  `round_jiffies_up()`, the clamp and `mod_timer()` into arithmetic on distances.
* `BlkSoftirqProof`: `TypeCorrect`, `NoLostWakeup`, `HotplugStrandsNothing`,
  `CompletionsDeliveredOnce`. `RunInv` says where a softirq can be. `PlaceInv`
  says that a request is on a list exactly while it completes, that each list has
  it once, and that two lists never share one; `DeliveredOnce` counts places and
  is inductive only in this form, since the splice of a dead cpu's list moves
  many requests at once.
* `BlkRequestListProof`: `CountsExact`, `MarksExact`, `NobodyForgotten`,
  `SwitchSafe`. The four properties are inductive together with `QueueInv` (the
  wait queues hold exactly the sleepers, once) and `AdminInv` (bypass mode lasts
  as long as a switch or a teardown). Marks need exact counts nowhere;
  `NoLostWakeup` needs `FullExact`, since a task sleeps only when the list is
  full, hence not empty. `SwitchSafe` needs `CountsExact`: `nr_rqs_elvpriv = 0`
  means that nobody refers to the elevator. Cardinalities of the sets of
  allocating tasks are moved by lemmas on adding and removing one element.
* `BlkMqTagProof`: `CountersNeverStuck`, `SharesExact`, `ImplementsTagPool`.
  `CountersSound` counts the freers that are about to put back or renew a
  counter; both bounds are kept by every order of `Dec`, `Inc` and `Add`.
  `OwnerInv` says that a task owns the one bit it set until the request is
  handed out; it gives the share counts and the refinement, in which a
  successful test-and-set is `Grant`, giving up is `Refuse` and clearing the bit
  is `Put`.
* `BlkIocProof`: `ReferencesExact`, `PointersLive`, `EveryIcqExited`.
  `LookupInv` is the comment of `ioc_lookup_icq()` made precise: an icq read
  from the hint is linked or waits for this very lookup, and if it belongs to
  the queue whose lock is held, it is linked. `TaskInv`, `DrainInv` (a queue
  that is being cleared has no request, no allocation with elevator data and no
  lookup)
  and `LastInv` (a context without references is released by exactly one
  process, request or work) close the induction.

Each `IInv` was checked by TLC on the runs' instances before it was proved and
can be added to the configurations' invariants at any time. The invariance
theorems have one lemma per action or group of actions.

Every invariant and every safety refinement that a run checks is also a
theorem; `FuaIsDurable` and `ImplementsTagPool` are theorems whose statements the
runs check as part of `BarrierSpec` and `PoolServes`. Only model-checked: the liveness properties, with `PoolServes`, the
refinement of `TagPool` with its fairness, among them (temporal reasoning
under fairness is out of the prover's reach). `NoLostWakeup`, `SoftirqComing`,
`TimerArmed` and `NeverStranded` state, and the proofs show, that the step which
fairness then lets happen is always due.

## 6. Findings

* **`flush_tag_stall`**: with tags, a stream of asynchronous FUA writes to a
  cached disk without FUA stalls for ever. Sequenced requests whose data is done
  stay in `in_flight`; `blk_queue_start_tag()` refuses on that count; the refused
  request is on `flush_data_in_flight`, so C2 defers the flush the others wait
  for. C3's timeout is looked at when a request of some sequence completes, and
  none does, or when another flush request is inserted, whose flush is then
  queued behind the refused request. The header
  of `blk-flush.c` (61-64) introduces C3 against this very starvation. It takes
  REQ_FUA without REQ_SYNC, and a driver that calls the function as a
  stand-alone helper and leaves the request queued on failure. The only user in
  the tree (`drivers/block/osdblk.c`) installs it as `prep_rq_fn` instead, a
  path this model does not have.
* **`timeout_mixed`**: when the last entry of the list is reset by
  `rq_timed_out_fn`, the handler then overrides the timer that `blk_add_timer()`
  has just set with the deadline of another request, even if that is later. The
  request is looked at late, by up to the difference of the timeouts. The
  comments of `blk_add_timer()` (185-186, 211-213) promise that an earlier
  timeout modifies the timer. With one timeout per queue it cannot happen
  (`timeout_latency`).

Observations that contradict no statement of the repository, and so are not
listed as findings, but that the models brought out:

* *Two freers at zero.* In `bt_clear_tag()` two frees can both see `wait_cnt`
  reach zero (one by its decrement, one by repairing the count), and both add
  `wake_cnt`. The next batch is then twice as long; with few tags in use there
  may not be that many frees to come, and tasks stay asleep with every tag free
  until new traffic arrives. TLC finds this when `TagWait.cfg` is given a second
  freer, which is why `PoolServes` is checked with one.
* *Shrinking the map.* `blk_mq_tag_update_depth()` lowers `wake_cnt` but leaves
  the `wait_cnt` that each queue has reached, which may exceed the new depth;
  and a per-cpu `last_tag` from before the change bounds the second half of the
  search in `__bt_get_word()`, so a tag beyond the new depth may still be given
  out. Both are in the model (`UpdateDepth`, `Take`); tags stay unique.
* *Share and batch.* A queue's share can be 4 while a batch is up to
  `BT_WAIT_BATCH` frees, so a queue alone with its sleepers may have to wait for
  the idle timer to wake them.
* *Elevator switch.* When `elv_register_queue()` fails, `elevator_switch()`
  frees the new elevator while `q->elevator` still points to it, for the moment
  until it is restored. Bypass mode keeps requests away (`ElevatorSafe`).
* *Teardown.* `blk_cleanup_queue()` replaces `q->queue_lock` at the end. Code that
  unlocks and locks through the pointer, such as `get_request()`, would then use
  two different locks if it could still be running; the drain and the callers'
  references make sure of that only if drivers play their part. The models have
  one lock per queue.

## 7. Plan

Done: `BlkFlush` with `WriteBarrier`, `BlkTimeout`, `BlkSoftirq`,
`BlkRequestList`, `BlkMqTag` with `TagPool`, `BlkIoc`, their runs and proofs.
Left, in this order:

1. `BlkMqFlush`: the sequencer under `mq_flush_lock` with the borrowed tag;
   implements `WriteBarrier` too.
2. `BlkMqFreeze`: queue freezing over the percpu reference count.
3. `Deadline`: batching and expiry of `deadline-iosched.c`; bounded waiting.
4. A composition of `BlkTimeout` and `BlkSoftirq` under an abstract
   specification "every started request ends exactly once", and of
   `BlkRequestList` and `BlkIoc` over the shared `nr_rqs_elvpriv`.
5. In `BlkFlush`: prep functions, reconfiguration of `flush_flags`. In
   `BlkMqTag`: reserved tags.

## 8. Not modelled

* The rest of blk-mq, schedulers, throttling, merging: planned as above or sector
  arithmetic without concurrency of its own.
* In the modelled parts: reserved tags, the change of hardware context while a
  task sleeps for a tag, `blk_mq_tag_busy_iter()` (read only), `nr_tasks` and
  priorities of I/O contexts, contexts created for another process, per-cgroup
  request lists.
* Timers, softirqs, IPIs, cpu hotplug (`kernel/`): only as the environment of
  the modelled code.
* Scheduler, memory management, locking and RCU, filesystems, journalling,
  networking, drivers: other subsystems. jbd2 is the client whose commit block
  `CrashConsistent` speaks about.
* `native/`: vendored user-space programs.

## 9. Running the checks

    tlc -workers 2 -config FlushSequence.cfg MCBlkFlush
    tlapm BlkFlushProof.tla

with the other configurations and proof modules in the same way.
