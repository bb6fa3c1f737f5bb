------------------------------ MODULE BlkFlush ------------------------------
(***************************************************************************)
(* The FLUSH/FUA sequencer of the single-queue block layer                 *)
(* (block/blk-flush.c) together with the parts of the request queue it     *)
(* drives: insertion (blk-core.c, elevator.c), the dispatch queue and its  *)
(* hold (blk.h), tag allocation (blk-tag.c) and request completion         *)
(* (blk-core.c).                                                           *)
(*                                                                         *)
(* Everything here runs under q->queue_lock, so an operation of the code   *)
(* is one action.  The one exception is the list walk of flush_end_io():   *)
(* it keeps the lock for its whole length but issues flushes and moves     *)
(* requests while it walks, so it is a sequence of actions during which    *)
(* every other lock holder waits (LockFree).                               *)
(*                                                                         *)
(* The driver and the disk are external: the driver fetches requests       *)
(* whenever request_fn runs, may refuse while it has work in flight, and   *)
(* reruns the queue when a completion follows a refusal.  The disk has a   *)
(* volatile write cache when the queue advertises REQ_FLUSH.               *)
(***************************************************************************)
EXTENDS Integers, Sequences, FiniteSets

CONSTANTS
  Rq,          \* struct request, one per write in flight
  FlushRq,     \* fq->flush_rq, the one preallocated flush request
  MaxDepth,    \* bqt->max_depth of blk-tag.c, 0 when the driver uses no tags
  RqSync,      \* rq_is_sync() of the submitted requests
  QueueLimits, \* the queue configurations considered, within Limits
  Cmds,        \* the kinds of bio submitted, within Cmd
  MaxSubmit,   \* bound on submissions
  MaxRequeue   \* bound on blk_requeue_request() calls

(* Request flags and the steps of a sequence *)

Steps == {"PREFLUSH", "DATA", "POSTFLUSH"}          \* REQ_FSEQ_ACTIONS
Cmd == {c \in [flush : BOOLEAN, fua : BOOLEAN, data : BOOLEAN] :
          c.flush \/ c.fua \/ c.data}

\* blk_queue_flush() refuses REQ_FUA without REQ_FLUSH.
FlushFlags == {{}, {"FLUSH"}, {"FLUSH", "FUA"}}
Limits == [flush_flags : FlushFlags, flush_not_queueable : BOOLEAN]

ASSUME FlushAssumption ==
  /\ FlushRq \notin Rq
  /\ MaxDepth \in Nat
  /\ RqSync \in BOOLEAN
  /\ QueueLimits \subseteq Limits
  /\ Cmds \subseteq Cmd
  /\ MaxSubmit \in Nat
  /\ MaxRequeue \in Nat

VARIABLES
  limits,                \* q->flush_flags and q->flush_not_queueable
  cmd,                   \* what each bio asked for: REQ_FLUSH, REQ_FUA, data
  bio,                   \* what the submitter sees of its bio
  seq,                   \* rq->flush.seq, the completed steps
  sequenced,             \* requests with REQ_FLUSH_SEQ
  flush_queue,           \* fq->flush_queue[2]
  flush_pending_idx,
  flush_running_idx,
  flush_data_in_flight,
  flush_queue_delayed,
  pending_timed_out,     \* jiffies has passed flush_pending_since + timeout
  walk,                  \* progress of the loop in flush_end_io()
  queue_head,            \* q->queue_head, the dispatch queue
  sorted,                \* requests held by the I/O scheduler
  started,               \* requests with REQ_STARTED
  in_flight,             \* q->in_flight[rq_is_sync]
  tag,                   \* rq->tag, -1 when the request has none
  tag_map,               \* bqt->tag_map, the tags in use
  device,                \* requests the driver has accepted
  run_queue,             \* request_fn is due, or running
  refused,               \* the driver left requests on the queue
  submits,
  requeues,
  landed,                \* data the disk has acknowledged (cache or media)
  durable,               \* data on non-volatile media
  cover,                 \* what the executing flush will make durable
  acked                  \* for each FLUSH: the writes acked before it

fqVars    == <<flush_queue, flush_pending_idx, flush_data_in_flight,
               pending_timed_out>>
diskVars  == <<landed, durable, cover>>
driveVars == <<tag, tag_map, device, run_queue, refused>>
vars == <<limits, cmd, bio, seq, sequenced, flush_queue, flush_pending_idx,
          flush_running_idx, flush_data_in_flight, flush_queue_delayed,
          pending_timed_out, walk, queue_head, sorted, started, in_flight,
          tag, tag_map, device, run_queue, refused, submits, requeues,
          landed, durable, cover, acked>>

-----------------------------------------------------------------------------
Item == Rq \cup {FlushRq}
Idle == [pc |-> "idle", error |-> FALSE, queued |-> FALSE]

HasCache == "FLUSH" \in limits.flush_flags
HasFua   == "FUA" \in limits.flush_flags

\* rq_is_sync(): flush_rq is WRITE_FLUSH, which carries REQ_SYNC.
IsSync(x) == x = FlushRq \/ RqSync

\* Mutation: a policy that forgets the pre-flush.
PolicyNoPreflush(c) ==
  {s \in Steps : \/ s = "DATA" /\ c.data
                 \/ s = "POSTFLUSH" /\ HasCache /\ ~HasFua /\ c.fua}

blk_flush_policy(c) ==
  {s \in Steps : \/ s = "DATA" /\ c.data
                 \/ s = "PREFLUSH" /\ HasCache /\ c.flush
                 \/ s = "POSTFLUSH" /\ HasCache /\ ~HasFua /\ c.fua}

\* Mutation: REQ_FSEQ_DATA numbered before REQ_FSEQ_PREFLUSH.
DataFirst(s) ==
  IF "DATA" \notin s THEN "DATA"
  ELSE IF "PREFLUSH" \notin s THEN "PREFLUSH"
  ELSE IF "POSTFLUSH" \notin s THEN "POSTFLUSH"
  ELSE "DONE"

\* 1 << ffz(rq->flush.seq): the first step that is not complete.
blk_flush_cur_seq(s) ==
  IF "PREFLUSH" \notin s THEN "PREFLUSH"
  ELSE IF "DATA" \notin s THEN "DATA"
  ELSE IF "POSTFLUSH" \notin s THEN "POSTFLUSH"
  ELSE "DONE"

\* What is on a list, and that nothing is on it twice.
InQueue(s, x) == \E i \in DOMAIN s : s[i] = x
Distinct(s) == \A i, j \in DOMAIN s : s[i] = s[j] => i = j

\* queue_lock is free: no flush_end_io() is in the middle of its walk.
LockFree == walk.pc = "idle"

-----------------------------------------------------------------------------
Init ==
  /\ limits \in QueueLimits
  /\ cmd = [r \in Rq |-> [flush |-> FALSE, fua |-> FALSE, data |-> TRUE]]
  /\ bio = [r \in Rq |-> "none"]
  /\ seq = [r \in Rq |-> {}]
  /\ sequenced = {}
  /\ flush_queue = [i \in 0..1 |-> <<>>]
  /\ flush_pending_idx = 0
  /\ flush_running_idx = 0
  /\ flush_data_in_flight = {}
  /\ flush_queue_delayed = FALSE
  /\ pending_timed_out = FALSE
  /\ walk = Idle
  /\ queue_head = <<>>
  /\ sorted = {}
  /\ started = {}
  /\ in_flight = [b \in BOOLEAN |-> 0]
  /\ tag = [x \in Item |-> -1]
  /\ tag_map = {}
  /\ device = {}
  /\ run_queue = FALSE
  /\ refused = FALSE
  /\ submits = 0
  /\ requeues = 0
  /\ landed = {}
  /\ durable = {}
  /\ cover = {}
  /\ acked = [r \in Rq |-> {}]

-----------------------------------------------------------------------------
(* The sequencer *)

\* Mutation: a kick that does not look whether a flush is in progress.
KickWithoutC1(lists, dataRqs, timedOut) ==
  /\ lists[flush_pending_idx] # <<>>
  /\ dataRqs = {} \/ timedOut

\* blk_kick_flush(): C1, then C2 unless C3, on the given lists.
blk_kick_flush(lists, dataRqs, timedOut) ==
  /\ flush_pending_idx = flush_running_idx
  /\ lists[flush_pending_idx] # <<>>
  /\ dataRqs = {} \/ timedOut

\* Mutation: the request is linked elsewhere but not taken off its list.
StillLinked(r) == flush_queue

\* The request leaves the list it waits on (list_move_tail, list_del_init).
\* On a flush queue it is always the one the walk has reached: the first.
Unlinked(r) ==
  [i \in 0..1 |-> IF walk.pc = "loop" /\ i = 1 - flush_running_idx
                  THEN Tail(flush_queue[i]) ELSE flush_queue[i]]

\* Mutation: the accounting is undone even if the request never started.
CompletedAlways(counts, x) == [counts EXCEPT ![IsSync(x)] = @ - 1]

\* elv_completed_request() undoes the dequeue accounting of a started rq.
Completed(counts, x) ==
  IF x \in started THEN [counts EXCEPT ![IsSync(x)] = @ - 1] ELSE counts

\* blk_flush_complete_seq(rq, fq, bits, error).  before is rq->flush.seq on
\* entry.  DONE restores the request, ends its bio and frees it; a kick
\* reinitialises flush_rq (blk_rq_init) and appends it to queue_head.
blk_flush_complete_seq(r, before, bits, error) ==
  LET after == before \cup bits
      step  == IF error THEN "DONE" ELSE blk_flush_cur_seq(after)
      wait  == step \in {"PREFLUSH", "POSTFLUSH"}
      lists == IF wait
               THEN [Unlinked(r) EXCEPT ![flush_pending_idx] = Append(@, r)]
               ELSE Unlinked(r)
      data  == IF step = "DATA" THEN flush_data_in_flight \cup {r}
                                ELSE flush_data_in_flight \ {r}
      late  == pending_timed_out
                 /\ ~(wait /\ flush_queue[flush_pending_idx] = <<>>)
      kick  == blk_kick_flush(lists, data, late)
      head  == IF step = "DATA" THEN <<r>> \o queue_head ELSE queue_head
  IN  /\ seq' = [seq EXCEPT ![r] = IF step = "DONE" THEN {} ELSE after]
      /\ flush_queue' = lists
      /\ flush_data_in_flight' = data
      /\ pending_timed_out' = late
      /\ flush_pending_idx' = IF kick THEN 1 - flush_pending_idx
                                      ELSE flush_pending_idx
      /\ queue_head' = IF kick THEN Append(head, FlushRq) ELSE head
      /\ bio' = [bio EXCEPT ![r] = IF step # "DONE" THEN "live"
                                   ELSE IF error THEN "error" ELSE "ok"]
      /\ sequenced' = IF step = "DONE" THEN sequenced \ {r}
                                       ELSE sequenced \cup {r}
      /\ started' = (started \ (IF step = "DONE" THEN {r} ELSE {}))
                             \ (IF kick THEN {FlushRq} ELSE {})
      /\ in_flight' = IF step = "DONE" THEN Completed(in_flight, r)
                                       ELSE in_flight

\* blk_flush_complete_seq() returns true: something reached queue_head.
Queued == queue_head' # queue_head

\* blk_insert_flush() for a request that needs no step at all ends it, one
\* that needs only DATA bypasses the sequencer, any other enters it.
blk_insert_flush(r, c) ==
  LET policy == blk_flush_policy(c)
  IN  \/ /\ policy = {}
         /\ bio' = [bio EXCEPT ![r] = "ok"]
         /\ UNCHANGED <<seq, sequenced, queue_head, started, in_flight,
                        fqVars>>
      \/ /\ policy = {"DATA"}
         /\ bio' = [bio EXCEPT ![r] = "live"]
         /\ queue_head' = Append(queue_head, r)
         /\ UNCHANGED <<seq, sequenced, started, in_flight, fqVars>>
      \/ /\ policy \notin {{}, {"DATA"}}
         /\ blk_flush_complete_seq(r, {}, Steps \ policy, FALSE)

-----------------------------------------------------------------------------
(* Submission: blk_queue_bio() after the checks of generic_make_request() *)

\* The request structure is allocated afresh: what the disk and the FLUSHes
\* in progress know of its previous life is forgotten.
Allocate(r, c) ==
  /\ LockFree
  /\ bio[r] # "live"
  /\ submits < MaxSubmit
  /\ submits' = submits + 1
  /\ cmd' = [cmd EXCEPT ![r] = c]
  /\ acked' = [s \in Rq |->
       IF s # r THEN acked[s] \ {r}
       ELSE {w \in Rq \ {r} : c.flush /\ bio[w] = "ok" /\ cmd[w].data}]
  /\ landed' = landed \ {r}
  /\ durable' = durable \ {r}
  /\ cover' = cover \ {r}
  /\ UNCHANGED <<limits, flush_running_idx, flush_queue_delayed, walk, tag,
                 tag_map, device, refused, requeues>>

\* generic_make_request_checks(): a queue without a cache ignores the flags.
Filtered(c) == ~HasCache \/ ~(c.flush \/ c.fua)

\* An empty flush to a queue without a cache ends before it gets a request.
SubmitNothing(r, c) ==
  /\ Allocate(r, c)
  /\ Filtered(c) /\ ~c.data
  /\ bio' = [bio EXCEPT ![r] = "ok"]
  /\ UNCHANGED <<seq, sequenced, queue_head, sorted, started, in_flight,
                 run_queue, fqVars>>

\* ELEVATOR_INSERT_SORT: a plain write goes to the I/O scheduler.
SubmitWrite(r, c) ==
  /\ Allocate(r, c)
  /\ Filtered(c) /\ c.data
  /\ bio' = [bio EXCEPT ![r] = "live"]
  /\ sorted' = sorted \cup {r}
  /\ run_queue' = TRUE
  /\ UNCHANGED <<seq, sequenced, queue_head, started, in_flight, fqVars>>

\* elv_drain_elevator(): the orders in which the I/O scheduler may hand over
\* all it holds, which is at most what has been submitted.
Drained == {o \in UNION {[1..n -> sorted] : n \in 0..MaxSubmit} :
              Distinct(o) /\ \A w \in sorted : InQueue(o, w)}

\* ELEVATOR_INSERT_BACK: a plain write without REQ_ELVPRIV, allocated while
\* the queue was in bypass mode or without memory for the scheduler's data,
\* goes behind all that the scheduler holds, on the dispatch queue.
SubmitBack(r, c) ==
  /\ Allocate(r, c)
  /\ Filtered(c) /\ c.data
  /\ bio' = [bio EXCEPT ![r] = "live"]
  /\ \E order \in Drained : queue_head' = Append(queue_head \o order, r)
  /\ sorted' = {}
  /\ run_queue' = TRUE
  /\ UNCHANGED <<seq, sequenced, started, in_flight, fqVars>>

\* ELEVATOR_INSERT_FLUSH, followed by __blk_run_queue().
SubmitFlush(r, c) ==
  /\ Allocate(r, c)
  /\ ~Filtered(c)
  /\ blk_insert_flush(r, c)
  /\ run_queue' = TRUE
  /\ UNCHANGED sorted

-----------------------------------------------------------------------------
(* request_fn: blk_peek_request() and blk_start_request() *)

\* __elv_next_request() holds the scheduler's requests back while a flush
\* that cannot be queued in the drive is in progress.
Hold == /\ limits.flush_not_queueable
        /\ flush_pending_idx # flush_running_idx

\* elevator_dispatch_fn moves one request to an empty dispatch queue.
ElevatorDispatch(w) ==
  /\ LockFree /\ run_queue
  /\ queue_head = <<>> /\ ~Hold
  /\ w \in sorted
  /\ queue_head' = <<w>>
  /\ sorted' = sorted \ {w}
  /\ UNCHANGED <<limits, cmd, bio, seq, sequenced, fqVars, flush_running_idx,
                 flush_queue_delayed, walk, started, in_flight, driveVars,
                 submits, requeues, diskVars, acked>>

\* __elv_next_request() returns NULL and request_fn returns.
QueueEmpty ==
  /\ LockFree /\ run_queue
  /\ queue_head = <<>>
  /\ Hold \/ sorted = {}
  /\ flush_queue_delayed' = (flush_queue_delayed \/ Hold)
  /\ run_queue' = FALSE
  /\ UNCHANGED <<limits, cmd, bio, seq, sequenced, fqVars, flush_running_idx,
                 walk, queue_head, sorted, started, in_flight, tag, tag_map,
                 device, refused, submits, requeues, diskVars, acked>>

\* blk_queue_start_tag(): tags kept back for synchronous requests.
AsyncDepth == IF MaxDepth <= 1 THEN MaxDepth
              ELSE IF MaxDepth <= 3 THEN MaxDepth - 1 ELSE MaxDepth - 2
Depth(x) == IF IsSync(x) THEN MaxDepth ELSE AsyncDepth
\* Mutation: the tag map searched one bit too far.
FreeTagsPast(x) == (0..Depth(x)) \ tag_map
FreeTags(x) == IF ~IsSync(x) /\ MaxDepth > 1 /\ in_flight[FALSE] > AsyncDepth
               THEN {} ELSE (0..(Depth(x) - 1)) \ tag_map

\* The tag a request is given: find_first_zero_bit(), none without tagging.
blk_queue_start_tag(x, t) ==
  IF MaxDepth = 0 THEN t = -1
  ELSE t \in FreeTags(x) /\ \A u \in FreeTags(x) : t <= u

\* The driver takes the first request: blk_dequeue_request() accounts it and
\* the command goes to the disk.  A flush will cover the data acknowledged
\* by now.
DriverStart(t) ==
  LET x == Head(queue_head)
  IN  /\ LockFree /\ run_queue
      /\ queue_head # <<>>
      /\ blk_queue_start_tag(x, t)
      /\ queue_head' = Tail(queue_head)
      /\ started' = started \cup {x}
      /\ in_flight' = [in_flight EXCEPT ![IsSync(x)] = @ + 1]
      /\ tag' = [tag EXCEPT ![x] = t]
      /\ tag_map' = IF MaxDepth = 0 THEN tag_map ELSE tag_map \cup {t}
      /\ device' = device \cup {x}
      /\ cover' = IF x = FlushRq THEN landed ELSE cover
      /\ UNCHANGED <<limits, cmd, bio, seq, sequenced, fqVars,
                     flush_running_idx, flush_queue_delayed, walk, sorted,
                     run_queue, refused, submits, requeues, landed, durable,
                     acked>>

\* The driver has no room, or the request gets no tag: it stays at the head,
\* marked REQ_STARTED, and request_fn returns.
DriverRefuse ==
  /\ LockFree /\ run_queue
  /\ queue_head # <<>>
  /\ \/ device # {}
     \/ MaxDepth # 0 /\ FreeTags(Head(queue_head)) = {}
  /\ started' = started \cup {Head(queue_head)}
  /\ run_queue' = FALSE
  /\ refused' = TRUE
  /\ UNCHANGED <<limits, cmd, bio, seq, sequenced, fqVars, flush_running_idx,
                 flush_queue_delayed, walk, queue_head, sorted, in_flight,
                 tag, tag_map, device, submits, requeues, diskVars, acked>>

\* The request gives its tag back, if it has one.
blk_queue_end_tag(x) ==
  /\ tag' = [tag EXCEPT ![x] = -1]
  /\ tag_map' = tag_map \ {tag[x]}

\* Mutation: elv_requeue_request() without the accounting.
RequeueUncounted(x) ==
  /\ LockFree
  /\ x \in device
  /\ requeues < MaxRequeue
  /\ requeues' = requeues + 1
  /\ device' = device \ {x}
  /\ blk_queue_end_tag(x)
  /\ started' = started \ {x}
  /\ queue_head' = <<x>> \o queue_head
  /\ refused' = FALSE
  /\ run_queue' = TRUE
  /\ UNCHANGED <<limits, cmd, bio, seq, sequenced, fqVars, flush_running_idx,
                 flush_queue_delayed, walk, sorted, in_flight, submits,
                 diskVars, acked>>

\* blk_requeue_request(): the driver gives a request back, to the front.
Requeue(x) ==
  /\ LockFree
  /\ x \in device
  /\ requeues < MaxRequeue
  /\ requeues' = requeues + 1
  /\ device' = device \ {x}
  /\ blk_queue_end_tag(x)
  /\ in_flight' = Completed(in_flight, x)
  /\ started' = started \ {x}
  /\ queue_head' = <<x>> \o queue_head
  /\ refused' = FALSE
  /\ run_queue' = TRUE
  /\ UNCHANGED <<limits, cmd, bio, seq, sequenced, fqVars, flush_running_idx,
                 flush_queue_delayed, walk, sorted, submits, diskVars, acked>>

-----------------------------------------------------------------------------
(* Completion: blk_finish_request() *)

\* The driver finishes x: its tag is free, and a refusal is made good by
\* rerunning the queue.  kick is the block layer's own blk_run_queue_async().
Release(x, kick) ==
  /\ LockFree
  /\ x \in device
  /\ device' = device \ {x}
  /\ blk_queue_end_tag(x)
  /\ refused' = FALSE
  /\ run_queue' = (run_queue \/ refused \/ kick)

\* A write that succeeds is acknowledged; it is on media when the disk has
\* no cache or the command still carries REQ_FUA.
DiskWrote(r, error) ==
  /\ landed' = IF error THEN landed ELSE landed \cup {r}
  /\ durable' = IF ~error /\ (~HasCache \/ (HasFua /\ cmd[r].fua))
                THEN durable \cup {r} ELSE durable
  /\ UNCHANGED cover

\* A request outside the sequencer ends its bio and is freed.
CompleteWrite(r, error) ==
  /\ Release(r, FALSE)
  /\ r \notin sequenced
  /\ DiskWrote(r, error)
  /\ bio' = [bio EXCEPT ![r] = IF error THEN "error" ELSE "ok"]
  /\ in_flight' = Completed(in_flight, r)
  /\ started' = started \ {r}
  /\ UNCHANGED <<limits, cmd, seq, sequenced, fqVars, flush_running_idx,
                 flush_queue_delayed, walk, queue_head, sorted, submits,
                 requeues, acked>>

flush_data_end_io(r, error) ==
  /\ r \in sequenced
  /\ blk_flush_complete_seq(r, seq[r], {"DATA"}, error)
  /\ Release(r, Queued)
  /\ DiskWrote(r, error)
  /\ UNCHANGED <<limits, cmd, flush_running_idx, flush_queue_delayed, walk,
                 sorted, submits, requeues, acked>>

\* Mutation: flush_running_idx is not toggled.
FlushEndIoNoToggle(error) ==
  /\ Release(FlushRq, FALSE)
  /\ in_flight' = Completed(in_flight, FlushRq)
  /\ walk' = [pc |-> IF flush_queue[flush_running_idx] = <<>> THEN "out"
                     ELSE "loop", error |-> error, queued |-> FALSE]
  /\ durable' = IF error THEN durable ELSE durable \cup cover
  /\ cover' = {}
  /\ UNCHANGED <<limits, cmd, bio, seq, sequenced, fqVars,
                 flush_running_idx, flush_queue_delayed, queue_head, sorted,
                 started, submits, requeues, landed, acked>>

\* flush_end_io() up to its loop.
flush_end_io(error) ==
  /\ Release(FlushRq, FALSE)
  /\ flush_running_idx' = 1 - flush_running_idx
  /\ in_flight' = Completed(in_flight, FlushRq)
  /\ walk' = [pc |-> IF flush_queue[flush_running_idx] = <<>> THEN "out"
                     ELSE "loop", error |-> error, queued |-> FALSE]
  /\ durable' = IF error THEN durable ELSE durable \cup cover
  /\ cover' = {}
  /\ UNCHANGED <<limits, cmd, bio, seq, sequenced, fqVars,
                 flush_queue_delayed, queue_head, sorted, started, submits,
                 requeues, landed, acked>>

\* The list the walk goes along; the running index has already moved on.
Walked == flush_queue[1 - flush_running_idx]

\* Mutation: the error of the flush does not reach the requests.
WalkWithoutError ==
  LET r == Head(Walked)
  IN  /\ walk.pc = "loop"
      /\ blk_flush_complete_seq(r, seq[r], {blk_flush_cur_seq(seq[r])}, FALSE)
      /\ walk' = [walk EXCEPT !.pc = IF Len(Walked) = 1 THEN "out" ELSE "loop",
                              !.queued = @ \/ Queued]
      /\ UNCHANGED <<limits, cmd, flush_running_idx, flush_queue_delayed,
                     sorted, driveVars, submits, requeues, diskVars, acked>>

\* One turn of list_for_each_entry_safe(): the next entry is read before the
\* body, so an entry that the body appends to this very list is visited
\* unless the current one was the last.
FlushEndIoStep ==
  LET r == Head(Walked)
  IN  /\ walk.pc = "loop"
      /\ blk_flush_complete_seq(r, seq[r], {blk_flush_cur_seq(seq[r])},
                                walk.error)
      /\ walk' = [walk EXCEPT !.pc = IF Len(Walked) = 1 THEN "out" ELSE "loop",
                              !.queued = @ \/ Queued]
      /\ UNCHANGED <<limits, cmd, flush_running_idx, flush_queue_delayed,
                     sorted, driveVars, submits, requeues, diskVars, acked>>

\* Mutation: the queue that was held back is not rerun.
OutWithoutDelayed ==
  /\ walk.pc = "out"
  /\ walk' = Idle
  /\ run_queue' = (run_queue \/ walk.queued)
  /\ flush_queue_delayed' = FALSE
  /\ UNCHANGED <<limits, cmd, bio, seq, sequenced, fqVars, flush_running_idx,
                 queue_head, sorted, started, in_flight, tag, tag_map, device,
                 refused, submits, requeues, diskVars, acked>>

\* After the loop: rerun the queue if anything was queued or held back.
FlushEndIoOut ==
  /\ walk.pc = "out"
  /\ walk' = Idle
  /\ run_queue' = (run_queue \/ walk.queued \/ flush_queue_delayed)
  /\ flush_queue_delayed' = FALSE
  /\ UNCHANGED <<limits, cmd, bio, seq, sequenced, fqVars, flush_running_idx,
                 queue_head, sorted, started, in_flight, tag, tag_map, device,
                 refused, submits, requeues, diskVars, acked>>

\* FLUSH_PENDING_TIMEOUT passes for the requests that wait for a flush.
PendingTimeout ==
  /\ ~pending_timed_out
  /\ flush_queue[flush_pending_idx] # <<>>
  /\ pending_timed_out' = TRUE
  /\ UNCHANGED <<limits, cmd, bio, seq, sequenced, flush_queue,
                 flush_pending_idx, flush_data_in_flight, flush_running_idx,
                 flush_queue_delayed, walk, queue_head, sorted, started,
                 in_flight, driveVars, submits, requeues, diskVars, acked>>

-----------------------------------------------------------------------------
Submit == \E r \in Rq, c \in Cmds :
  \/ SubmitNothing(r, c)
  \/ SubmitWrite(r, c)
  \/ SubmitBack(r, c)
  \/ SubmitFlush(r, c)
RequestFn == \/ \E w \in Rq : ElevatorDispatch(w)
             \/ \E t \in -1..MaxDepth : DriverStart(t)
             \/ QueueEmpty
             \/ DriverRefuse
CompleteRq(r) == \E error \in BOOLEAN :
  CompleteWrite(r, error) \/ flush_data_end_io(r, error)
CompleteFlush == \E error \in BOOLEAN : flush_end_io(error)
Walk == FlushEndIoStep \/ FlushEndIoOut

Next == \/ Submit
        \/ RequestFn
        \/ \E x \in Item : Requeue(x)
        \/ \E r \in Rq : CompleteRq(r)
        \/ CompleteFlush
        \/ Walk
        \/ PendingTimeout

\* kblockd and the submitters run the queue, the disk answers every command,
\* flush_end_io() terminates, and time passes.  Submission is not fair.
Fairness == /\ WF_vars(RequestFn)
            /\ WF_vars(Walk)
            /\ WF_vars(CompleteFlush)
            /\ WF_vars(PendingTimeout)
            /\ \A r \in Rq : WF_vars(CompleteRq(r))

Spec == Init /\ [][Next]_vars
FairSpec == Spec /\ Fairness

-----------------------------------------------------------------------------
(* Properties *)

\* Every variable has its type.
TypeOK ==
  /\ limits \in Limits
  /\ cmd \in [Rq -> Cmd]
  /\ bio \in [Rq -> {"none", "live", "ok", "error"}]
  /\ seq \in [Rq -> SUBSET Steps]
  /\ sequenced \subseteq Rq
  /\ flush_queue \in [0..1 -> Seq(Rq)]
  /\ flush_pending_idx \in 0..1
  /\ flush_running_idx \in 0..1
  /\ flush_data_in_flight \subseteq Rq
  /\ flush_queue_delayed \in BOOLEAN
  /\ pending_timed_out \in BOOLEAN
  /\ walk \in [pc : {"idle", "loop", "out"}, error : BOOLEAN,
               queued : BOOLEAN]
  /\ queue_head \in Seq(Item)
  /\ sorted \subseteq Rq
  /\ started \subseteq Item
  /\ in_flight \in [BOOLEAN -> Int]
  /\ tag \in [Item -> -1..(MaxDepth - 1)]
  /\ tag_map \subseteq 0..(MaxDepth - 1)
  /\ device \subseteq Item
  /\ run_queue \in BOOLEAN
  /\ refused \in BOOLEAN
  /\ submits \in 0..MaxSubmit
  /\ requeues \in 0..MaxRequeue
  /\ landed \subseteq Rq
  /\ durable \subseteq Rq
  /\ cover \subseteq Rq
  /\ acked \in [Rq -> SUBSET Rq]

\* C1 of blk-flush.c: flush_rq is in use exactly while the two indices
\* differ.  It is one preallocated request: a second blk_kick_flush() would
\* reinitialise it under the driver and corrupt queue_head.
SingleFlush ==
  /\ ~(InQueue(queue_head, FlushRq) /\ FlushRq \in device)
  /\ (InQueue(queue_head, FlushRq) \/ FlushRq \in device)
       <=> flush_pending_idx # flush_running_idx

\* REQ_FLUSH: the data of such a request never reaches the driver, and its
\* bio never ends well, before every write that was acknowledged when it was
\* submitted is on non-volatile media.
FlushOrdered ==
  \A r \in Rq : cmd[r].flush /\ (r \in device \/ bio[r] = "ok")
                => acked[r] \subseteq durable

\* REQ_FUA: when the bio ends well its data is on non-volatile media.
FuaDurable ==
  \A r \in Rq : cmd[r].fua /\ cmd[r].data /\ bio[r] = "ok" => r \in durable

\* The lists a request is on, besides flush_data_in_flight.
Places(r) ==
  {p \in {"sorted", "queue_head", "device", "flush0", "flush1"} :
     \/ p = "sorted" /\ r \in sorted
     \/ p = "queue_head" /\ InQueue(queue_head, r)
     \/ p = "device" /\ r \in device
     \/ p = "flush0" /\ InQueue(flush_queue[0], r)
     \/ p = "flush1" /\ InQueue(flush_queue[1], r)}

\* A live request is on exactly one list, exactly once: it is never lost,
\* never linked twice, and never reachable after it has been freed.
OnePlace ==
  /\ \A r \in Rq : /\ bio[r] = "live" <=> Places(r) # {}
                   /\ \A p, q \in Places(r) : p = q
  /\ Distinct(queue_head)
  /\ \A i \in 0..1 : Distinct(flush_queue[i])

\* The BUG_ON()s of blk-flush.c: a step completes at most once
\* (blk_flush_complete_seq), only flush steps wait on a flush queue, a flush
\* completes only while one is accounted as running, and a sequence that
\* ends is not still on the dispatch queue.
BugFree ==
  /\ \A r \in device \cap sequenced : "DATA" \notin seq[r]
  /\ FlushRq \in device /\ LockFree => flush_pending_idx # flush_running_idx
  /\ walk.pc = "loop" =>
       /\ Walked # <<>>
       /\ blk_flush_cur_seq(seq[Head(Walked)]) \in {"PREFLUSH", "POSTFLUSH"}
       /\ ~InQueue(queue_head, Head(Walked))

\* The requests that were dequeued and whose accounting is not undone yet:
\* those at the driver, and those whose data is written but whose sequence
\* has not ended.
Written == {r \in sequenced : cmd[r].data /\ "DATA" \in seq[r]}
OfSync(S, b) == {x \in S : IsSync(x) = b}

\* q->in_flight counts the requests at the driver, and those whose data is
\* written but whose sequence has not ended: their accounting is undone only
\* when they are freed.
InFlightAccurate ==
  \A b \in BOOLEAN : in_flight[b] = Cardinality(OfSync(device, b))
                                     + Cardinality(OfSync(Written, b))

\* The tag map holds exactly the tags of the requests at the driver, each of
\* them once; none keeps a tag it has given back, and the tags beyond
\* AsyncDepth, reserved for synchronous requests, go to no other request.  A
\* tag names the command: two requests with one tag complete for each other.
TagsSound ==
  MaxDepth # 0 =>
    /\ tag_map = {tag[x] : x \in device}
    /\ \A x, y \in device : tag[x] = tag[y] => x = y
    /\ \A x \in device : tag[x] \in 0..(Depth(x) - 1)
    /\ \A x \in Item \ device : tag[x] = -1

\* blk_queue_start_tag() refuses asynchronous requests for the accounting of
\* sequences that wait for a flush, although no tag is in use: the driver
\* owes nothing whose completion would rerun the queue.
TagStall == /\ refused
            /\ MaxDepth > 1 /\ ~RqSync /\ in_flight[FALSE] > AsyncDepth

\* While a bio is live somebody is due to act: the driver has a command,
\* request_fn is to run, or flush_end_io() is at work.  Neither a refusal, nor
\* flush_queue_delayed, nor a flush that waits for data, nor a kick by a
\* completion that found something queued loses the last run of the queue;
\* only the refusals of blk_queue_start_tag() do.
NeverStranded ==
  (\E r \in Rq : bio[r] = "live")
    => device # {} \/ run_queue \/ ~LockFree \/ TagStall

\* Every bio ends: no flush is forgotten, no dispatch queue is left without
\* a run of request_fn, and no sequence waits for another one for ever.
EveryBioEnds == \A r \in Rq : bio[r] = "live" ~> bio[r] # "live"

-----------------------------------------------------------------------------
(* The inductive invariant behind SingleFlush, OnePlace, FlushOrdered and   *)
(* FuaDurable.                                                              *)

Waiting(r) == \E i \in 0..1 : InQueue(flush_queue[i], r)

\* Where requests are.  A sequenced request is either on one of the flush
\* queues or, during its DATA step, on flush_data_in_flight and at the same
\* time on queue_head or at the driver.
PlaceInv ==
  /\ SingleFlush
  /\ Distinct(queue_head)
  /\ \A i \in 0..1 : Distinct(flush_queue[i])
  /\ \A r \in Rq : ~(InQueue(flush_queue[0], r) /\ InQueue(flush_queue[1], r))
  /\ \A r \in Rq : r \in sequenced <=> Waiting(r) \/ r \in flush_data_in_flight
  /\ \A r \in Rq : ~(Waiting(r) /\ r \in flush_data_in_flight)
  /\ \A r \in Rq : /\ r \in flush_data_in_flight
                        => InQueue(queue_head, r) \/ r \in device
                   /\ Waiting(r) => /\ ~InQueue(queue_head, r)
                                    /\ r \notin device
  /\ \A r \in Rq : ~(InQueue(queue_head, r) /\ r \in device)
  /\ \A r \in sorted : /\ ~InQueue(queue_head, r)
                       /\ r \notin device /\ r \notin sequenced
  /\ \A r \in Rq : bio[r] = "live" <=> \/ r \in sorted \/ r \in device
                                       \/ InQueue(queue_head, r) \/ Waiting(r)

\* flush_end_io() has an entry to visit while it loops, and the driver has
\* given flush_rq back.
WalkInv ==
  /\ walk.pc = "loop" => Walked # <<>>
  /\ walk.pc # "idle" => FlushRq \notin device

\* How far a sequence is: the steps its policy leaves out count as complete
\* from the start, the others complete in order.
SeqInv ==
  \A r \in sequenced :
    LET skipped == Steps \ blk_flush_policy(cmd[r])
    IN  /\ HasCache
        /\ seq[r] \in {skipped, skipped \cup {"PREFLUSH"},
                       skipped \cup {"PREFLUSH", "DATA"}}
        /\ Waiting(r) => blk_flush_cur_seq(seq[r]) \in {"PREFLUSH", "POSTFLUSH"}
        /\ r \in flush_data_in_flight => blk_flush_cur_seq(seq[r]) = "DATA"

\* What the flush that r waits for has to make durable.
Need(r) == IF "PREFLUSH" \notin seq[r] THEN acked[r]
           ELSE IF cmd[r].data THEN {r} ELSE {}

\* What the disk holds.  A flush in progress covers the needs of the requests
\* on the running queue; once it has succeeded the walk finds them met.
DiskInv ==
  /\ ~HasCache => landed \subseteq durable
  /\ \A r \in Rq : acked[r] \subseteq landed
  /\ \A r \in Rq : bio[r] = "ok" /\ cmd[r].data => r \in landed
  /\ \A r \in Rq : Waiting(r) => Need(r) \subseteq landed
  /\ \A r \in sequenced : "PREFLUSH" \in seq[r] /\ cmd[r].flush
                          => acked[r] \subseteq durable
  /\ \A r \in Rq : bio[r] = "live" /\ r \notin sequenced /\ HasCache
                   => ~cmd[r].flush /\ (cmd[r].fua => HasFua)
  /\ FlushRq \in device => \A r \in Rq :
       InQueue(flush_queue[flush_running_idx], r)
         => Need(r) \subseteq cover \cup durable
  /\ walk.pc = "loop" /\ ~walk.error => \A r \in Rq :
       InQueue(Walked, r) => Need(r) \subseteq durable

\* The medium holds only what the disk was given.
MediaInv == durable \subseteq landed /\ cover \subseteq landed

\* The inductive invariant: blk-flush.c keeps its lists, the steps of each
\* sequence and the state of the disk in agreement, whatever flush is shared.
IInv == /\ TypeOK /\ PlaceInv /\ WalkInv /\ SeqInv /\ DiskInv
        /\ MediaInv /\ FlushOrdered /\ FuaDurable

\* The inductive invariant behind InFlightAccurate.  elv_completed_request()
\* undoes the accounting of a request that has REQ_STARTED, and the flag is
\* also on a request the driver looked at and refused: such a request is
\* still on queue_head, and no request is ended there.
Counted == device \cup Written
CountInv ==
  /\ IsFiniteSet(Counted)
  /\ Counted \subseteq started
  /\ \A r \in Rq : r \in started => r \in Counted \/ InQueue(queue_head, r)
  /\ \A b \in BOOLEAN : in_flight[b] = Cardinality(OfSync(Counted, b))

\* The inductive invariant behind NeverStranded.  What is on a list has
\* somebody who will come for it.  For the dispatch queue that is a run of
\* request_fn, the completion that follows a refusal, or the end of the walk;
\* for the scheduler's requests also the flush they are held back for.
QueueDue ==
  /\ refused => LockFree /\ (device # {} \/ TagStall)
  /\ queue_head # <<>> => run_queue \/ refused \/ (walk.queued /\ ~LockFree)
  /\ sorted # {} => run_queue \/ refused \/ flush_queue_delayed
  /\ flush_queue_delayed => flush_pending_idx # flush_running_idx \/ ~LockFree

\* For a flush queue it is the flush in progress, the walk, or the data whose
\* completion will kick the next flush.
FlushDue ==
  /\ flush_pending_idx # flush_running_idx
       => flush_queue[flush_running_idx] # <<>>
  /\ walk.pc # "loop" /\ flush_pending_idx = flush_running_idx =>
       /\ flush_queue[1 - flush_running_idx] = <<>>
       /\ flush_queue[flush_running_idx] # <<>> => flush_data_in_flight # {}

Barrier == INSTANCE WriteBarrier

\* The sequencer, its queues and its driver implement the promise that
\* WriteBarrier states in the submitter's terms.
BarrierSpec == Barrier!Spec

\* Crash consistency of the detailed model (see WriteBarrier): jbd2's commit
\* block is on the disk only if the blocks it commits are on the medium.
CrashConsistent == Barrier!CrashConsistent

=============================================================================
