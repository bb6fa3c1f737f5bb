------------------------- MODULE BlkFlushDiskProof -------------------------
(* What the FLUSH/FUA sequencer promises about the disk, proved from        *)
(* IInv of BlkFlush: the order of the steps (SeqInv) and what has reached   *)
(* the medium at each of them (DiskInv).                                    *)
EXTENDS BlkFlushProof, FiniteSetTheorems

-----------------------------------------------------------------------------
(* The steps of a sequence *)

\* The values rq->flush.seq takes while a request with policy p is sequenced.
Progress(p) == {Steps \ p, (Steps \ p) \cup {"PREFLUSH"},
                (Steps \ p) \cup {"PREFLUSH", "DATA"}}

\* SeqInv for one request.
SeqOf(r) == /\ HasCache
            /\ seq[r] \in Progress(blk_flush_policy(cmd[r]))
            /\ Waiting(r) => blk_flush_cur_seq(seq[r]) \in {"PREFLUSH", "POSTFLUSH"}
            /\ r \in flush_data_in_flight => blk_flush_cur_seq(seq[r]) = "DATA"

\* SeqInv, one request at a time.
LEMMA SeqByRequest == SeqInv <=> \A r \in sequenced : SeqOf(r)
BY DEF SeqInv, SeqOf, Progress

\* A request whose place, steps and command do not change keeps SeqOf.
LEMMA SeqFrame ==
  ASSUME NEW r \in Rq, SeqOf(r), limits' = limits, cmd'[r] = cmd[r],
         seq'[r] = seq[r], Waiting(r)' => Waiting(r),
         r \in flush_data_in_flight' => r \in flush_data_in_flight
  PROVE  SeqOf(r)'
<1>1. blk_flush_policy(cmd[r])' = blk_flush_policy(cmd[r])
  BY DEF blk_flush_policy, HasCache, HasFua
<1>2. HasCache' = HasCache
  BY DEF HasCache
<1> QED BY <1>1, <1>2 DEF SeqOf

\* The steps complete in order, from any progress a sequenced request makes.
LEMMA ProgressStep ==
  ASSUME NEW p \in SUBSET Steps, NEW s \in Progress(p)
  PROVE  /\ s \subseteq Steps
         /\ blk_flush_cur_seq(s) = "PREFLUSH" =>
              /\ "PREFLUSH" \in p /\ s = Steps \ p
              /\ s \cup {"PREFLUSH"} \in Progress(p)
         /\ blk_flush_cur_seq(s) = "DATA" =>
              /\ "PREFLUSH" \in s /\ "DATA" \in p
              /\ s \cup {"DATA"} \in Progress(p)
         /\ blk_flush_cur_seq(s) = "POSTFLUSH" =>
              /\ "PREFLUSH" \in s /\ "POSTFLUSH" \in p
              /\ s \cup {"POSTFLUSH"} = Steps
BY DEF Progress, Steps, blk_flush_cur_seq

\* blk_flush_policy() asks only for steps that exist.
LEMMA PolicyType == ASSUME NEW c PROVE blk_flush_policy(c) \in SUBSET Steps
BY DEF blk_flush_policy

\* blk_flush_complete_seq() on a request that has made the progress it
\* should, whatever list it came from.
LEMMA CompleteSeqSteps ==
  ASSUME TypeInv, PlaceInv, SeqInv, HasCache, limits' = limits,
         NEW r \in Rq, NEW before, NEW bits, NEW error,
         blk_flush_complete_seq(r, before, bits, error),
         walk.pc = "loop" => r = Head(Walked),
         walk.pc # "loop" => ~Waiting(r),
         \A y \in Rq \ {r} : cmd'[y] = cmd[y],
         NextStep(before, bits, error) # "DONE"
           => before \cup bits \in Progress(blk_flush_policy(cmd'[r]))
  PROVE  SeqInv'
<1> DEFINE step == NextStep(before, bits, error)
<1>1. /\ step \in Steps \cup {"DONE"}
      /\ seq' = [seq EXCEPT ![r] = IF step = "DONE" THEN {}
                                   ELSE before \cup bits]
      /\ sequenced' = IF step = "DONE" THEN sequenced \ {r}
                                       ELSE sequenced \cup {r}
      /\ flush_data_in_flight' =
           IF step = "DATA" THEN flush_data_in_flight \cup {r}
                            ELSE flush_data_in_flight \ {r}
  BY CompleteSeqFields
<1>2. \A y \in Rq : /\ y # r => (Waiting(y)' => Waiting(y))
                    /\ y = r => (Waiting(y)' => step \in {"PREFLUSH", "POSTFLUSH"})
  BY CompleteSeqWaiting DEF Waiting
<1>3. step # "DONE" => step = blk_flush_cur_seq(before \cup bits)
  BY DEF NextStep
<1> HIDE DEF step
<1>4. blk_flush_policy(cmd[r])' = blk_flush_policy(cmd'[r]) /\ HasCache'
  BY DEF blk_flush_policy, HasCache, HasFua
<1>5. seq \in [Rq -> SUBSET Steps] /\ sequenced \subseteq Rq
  BY DEF TypeInv, TypeOK
<1>6. SUFFICES ASSUME NEW y \in sequenced' PROVE SeqOf(y)'
  BY SeqByRequest DEF SeqInv, SeqOf, Progress
<1>7. CASE y = r
  <2>1. step # "DONE" /\ seq'[r] = before \cup bits
    BY <1>1, <1>5, <1>6, <1>7
  <2>2. r \in flush_data_in_flight' => step = "DATA"
    BY <1>1
  <2>3. Waiting(r)' => step \in {"PREFLUSH", "POSTFLUSH"}
    BY <1>2
  <2> QED BY <1>3, <1>4, <1>7, <2>1, <2>2, <2>3 DEF SeqOf, step
<1>8. CASE y # r
  <2>1. y \in sequenced /\ y \in Rq
    BY <1>1, <1>5, <1>6, <1>8
  <2>2. /\ cmd'[y] = cmd[y] /\ seq'[y] = seq[y]
        /\ y \in flush_data_in_flight' => y \in flush_data_in_flight
        /\ Waiting(y)' => Waiting(y)
    BY <1>1, <1>2, <1>5, <1>8, <2>1
  <2>3. SeqOf(y)
    BY <2>1, SeqByRequest
  <2> QED BY <2>1, <2>2, <2>3, SeqFrame
<1> QED BY <1>7, <1>8

\* Nothing that SeqInv speaks of changes.
LEMMA SeqUnchanged ==
  ASSUME TypeInv, SeqInv, limits' = limits, seq' = seq,
         sequenced' = sequenced, flush_queue' = flush_queue,
         flush_data_in_flight' = flush_data_in_flight,
         \A r \in sequenced : cmd'[r] = cmd[r]
  PROVE  SeqInv'
<1>1. SUFFICES ASSUME NEW r \in sequenced' PROVE SeqOf(r)'
  BY SeqByRequest DEF SeqInv, SeqOf, Progress
<1>2. r \in Rq /\ r \in sequenced
  BY <1>1 DEF TypeInv, TypeOK
<1>3. SeqOf(r) /\ (Waiting(r)' => Waiting(r))
  BY <1>2, SeqByRequest DEF Waiting
<1> QED BY <1>2, <1>3, SeqFrame

\* The DATA step is the one that completes in flush_data_end_io().
LEMMA DataStep ==
  ASSUME TypeInv, PlaceInv, SeqInv, NEW r \in Rq, r \in device, r \in sequenced
  PROVE  /\ HasCache /\ ~Waiting(r)
         /\ seq[r] \in Progress(blk_flush_policy(cmd[r]))
         /\ blk_flush_cur_seq(seq[r]) = "DATA"
BY SeqByRequest DEF SeqOf, PlaceInv

\* The walk completes the flush step its request waits for.
LEMMA WalkStep ==
  ASSUME TypeInv, PlaceInv, SeqInv, walk.pc = "loop"
  PROVE  LET r == Head(Walked)
         IN  /\ r \in Rq /\ r \in sequenced /\ HasCache /\ Waiting(r)
             /\ InQueue(Walked, r)
             /\ seq[r] \in Progress(blk_flush_policy(cmd[r]))
             /\ blk_flush_cur_seq(seq[r]) \in {"PREFLUSH", "POSTFLUSH"}
<1> DEFINE r == Head(Walked)
<1>1. r \in Rq /\ InQueue(Walked, r) /\ 1 - flush_running_idx \in 0..1
  BY WalkHead, TailList
<1>2. Waiting(r)
  BY <1>1 DEF Waiting, Walked
<1>3. r \in sequenced
  BY <1>1, <1>2 DEF PlaceInv
<1>4. SeqOf(r)
  BY <1>3, SeqByRequest
<1> HIDE DEF r
<1> QED BY <1>1, <1>2, <1>3, <1>4 DEF SeqOf, r

\* No sequence is under way at first.
LEMMA SeqInit == Init => SeqInv
BY DEF Init, SeqInv

\* Every step leaves each sequence on the list that fits its progress.
LEMMA SeqStep ==
  TypeInv /\ PlaceInv /\ WalkInv /\ SeqInv /\ [Next]_vars => SeqInv'
<1> SUFFICES ASSUME TypeInv, PlaceInv, WalkInv, SeqInv, [Next]_vars PROVE SeqInv'
  OBVIOUS
<1>1. ASSUME NEW r \in Rq, NEW c \in Cmds,
             \/ SubmitNothing(r, c) \/ SubmitWrite(r, c)
             \/ SubmitBack(r, c) \/ SubmitFlush(r, c)
      PROVE  SeqInv'
  <2>1. /\ Allocate(r, c) /\ bio[r] # "live" /\ walk.pc = "idle"
        /\ limits' = limits /\ cmd' = [cmd EXCEPT ![r] = c]
    BY <1>1 DEF SubmitNothing, SubmitWrite, SubmitBack, SubmitFlush, Allocate, LockFree
  <2>2. r \notin sequenced /\ ~Waiting(r)
    BY <2>1, FreeIsNowhere
  <2>3. cmd'[r] = c /\ \A y \in Rq \ {r} : cmd'[y] = cmd[y]
    BY <2>1 DEF TypeInv, TypeOK
  <2>4. \A y \in sequenced : cmd'[y] = cmd[y]
    BY <2>2, <2>3 DEF TypeInv, TypeOK
  <2>5. CASE /\ seq' = seq /\ sequenced' = sequenced
             /\ flush_queue' = flush_queue
             /\ flush_data_in_flight' = flush_data_in_flight
    BY <2>1, <2>4, <2>5, SeqUnchanged
  <2>6. CASE /\ ~Filtered(c)
             /\ blk_flush_complete_seq(r, {}, Steps \ blk_flush_policy(c), FALSE)
    <3>1. HasCache
      BY <2>6 DEF Filtered
    <3>2. {} \cup (Steps \ blk_flush_policy(c)) \in Progress(blk_flush_policy(cmd'[r]))
      BY <2>3 DEF Progress
    <3> QED BY <2>1, <2>2, <2>3, <2>6, <3>1, <3>2, CompleteSeqSteps
  <2> QED BY <1>1, <2>5, <2>6
          DEF SubmitNothing, SubmitWrite, SubmitBack, SubmitFlush, blk_insert_flush, fqVars
<1>2. ASSUME NEW r \in Rq, NEW error \in BOOLEAN, flush_data_end_io(r, error)
      PROVE  SeqInv'
  <2>1. /\ r \in sequenced /\ r \in device /\ walk.pc = "idle"
        /\ blk_flush_complete_seq(r, seq[r], {"DATA"}, error)
        /\ limits' = limits /\ cmd' = cmd
    BY <1>2 DEF flush_data_end_io, Release, LockFree
  <2>2. /\ HasCache /\ ~Waiting(r)
        /\ seq[r] \in Progress(blk_flush_policy(cmd[r]))
        /\ blk_flush_cur_seq(seq[r]) = "DATA"
    BY <2>1, DataStep
  <2>3. seq[r] \cup {"DATA"} \in Progress(blk_flush_policy(cmd'[r]))
    BY <2>1, <2>2, PolicyType, ProgressStep
  <2> QED BY <2>1, <2>2, <2>3, CompleteSeqSteps
<1>3. CASE FlushEndIoStep
  <2> DEFINE r == Head(Walked)
             cur == blk_flush_cur_seq(seq[r])
  <2>1. /\ walk.pc = "loop" /\ limits' = limits /\ cmd' = cmd
        /\ blk_flush_complete_seq(r, seq[r], {cur}, walk.error)
    BY <1>3 DEF FlushEndIoStep
  <2>2. /\ r \in Rq /\ HasCache
        /\ seq[r] \in Progress(blk_flush_policy(cmd[r]))
        /\ cur \in {"PREFLUSH", "POSTFLUSH"}
    BY <2>1, WalkStep
  <2>3. NextStep(seq[r], {cur}, walk.error) # "DONE"
          => seq[r] \cup {cur} \in Progress(blk_flush_policy(cmd'[r]))
    <3>1. CASE cur = "PREFLUSH"
      BY <2>1, <2>2, <3>1, PolicyType, ProgressStep
    <3>2. CASE cur = "POSTFLUSH"
      <4>1. seq[r] \cup {cur} = Steps
        BY <2>2, <3>2, PolicyType, ProgressStep
      <4> QED BY <4>1 DEF NextStep, blk_flush_cur_seq, Steps
    <3> QED BY <2>2, <3>1, <3>2
  <2> HIDE DEF r, cur
  <2> QED BY <2>1, <2>2, <2>3, CompleteSeqSteps DEF r
<1>4. CASE \/ RequestFn \/ (\E x \in Item : Requeue(x)) \/ PendingTimeout
           \/ CompleteFlush \/ FlushEndIoOut \/ UNCHANGED vars
           \/ \E r \in Rq, error \in BOOLEAN : CompleteWrite(r, error)
  <2>1. /\ limits' = limits /\ seq' = seq /\ sequenced' = sequenced
        /\ flush_queue' = flush_queue
        /\ flush_data_in_flight' = flush_data_in_flight /\ cmd' = cmd
    BY <1>4 DEF RequestFn, ElevatorDispatch, DriverStart, QueueEmpty,
       DriverRefuse, Requeue, PendingTimeout, CompleteFlush, flush_end_io,
       FlushEndIoOut, CompleteWrite, vars, fqVars
  <2> QED BY <2>1, SeqUnchanged
<1> QED BY <1>1, <1>2, <1>3, <1>4 DEF Next, Submit, CompleteRq, Walk

-----------------------------------------------------------------------------
(* What is on the medium *)

\* DiskInv, FlushOrdered and FuaDurable for one request.
DiskOf(r) ==
  /\ acked[r] \subseteq landed
  /\ bio[r] = "ok" /\ cmd[r].data => r \in landed
  /\ Waiting(r) => Need(r) \subseteq landed
  /\ r \in sequenced /\ "PREFLUSH" \in seq[r] /\ cmd[r].flush
       => acked[r] \subseteq durable
  /\ bio[r] = "live" /\ r \notin sequenced /\ HasCache
       => ~cmd[r].flush /\ (cmd[r].fua => HasFua)
  /\ FlushRq \in device /\ InQueue(flush_queue[flush_running_idx], r)
       => Need(r) \subseteq cover \cup durable
  /\ walk.pc = "loop" /\ ~walk.error /\ InQueue(Walked, r)
       => Need(r) \subseteq durable
  /\ cmd[r].flush /\ (r \in device \/ bio[r] = "ok") => acked[r] \subseteq durable
  /\ cmd[r].fua /\ cmd[r].data /\ bio[r] = "ok" => r \in durable

\* A disk without a volatile cache.
NoCache == ~HasCache => landed \subseteq durable

DiskAll == NoCache /\ \A r \in Rq : DiskOf(r)

\* DiskInv and its companions, one request at a time.
LEMMA DiskByRequest ==
  ASSUME TypeInv PROVE DiskAll <=> DiskInv /\ FlushOrdered /\ FuaDurable
BY DEF TypeInv, TypeOK, DiskAll, DiskOf, NoCache, DiskInv, FlushOrdered,
       FuaDurable

\* A request keeps DiskOf while its own state stays and the disk only gains,
\* unless it moves to the driver or to a list whose needs must be met.
LEMMA DiskFrame ==
  ASSUME NEW r \in Rq, DiskOf(r), limits' = limits,
         cmd'[r] = cmd[r], seq'[r] = seq[r], bio'[r] = bio[r],
         acked'[r] = acked[r], r \in sequenced' <=> r \in sequenced,
         landed \subseteq landed', durable \subseteq durable',
         Waiting(r)' => Waiting(r),
         r \in device' => r \in device \/ (cmd[r].flush => acked[r] \subseteq durable),
         FlushRq \in device' /\ InQueue(flush_queue'[flush_running_idx'], r)
           => Need(r) \subseteq cover' \cup durable',
         walk'.pc = "loop" /\ ~walk'.error /\ InQueue(Walked', r)
           => Need(r) \subseteq durable'
  PROVE  DiskOf(r)'
<1>1. Need(r)' = Need(r)
  BY DEF Need
<1>2. HasCache' = HasCache /\ HasFua' = HasFua
  BY DEF HasCache, HasFua
<1> QED BY <1>1, <1>2 DEF DiskOf

\* The disk is empty at first.
LEMMA DiskInit == Init => DiskAll
<1> SUFFICES ASSUME Init PROVE DiskAll
  OBVIOUS
<1>1. \A r \in Rq : ~Waiting(r) /\ acked[r] = {} /\ bio[r] = "none"
  BY EmptyList DEF Init, Waiting
<1>2. \A r \in Rq : cmd[r].flush = FALSE /\ cmd[r].fua = FALSE
  BY DEF Init
<1> QED BY <1>1, <1>2 DEF Init, DiskAll, DiskOf, NoCache, Idle

\* The requests at the head of the dispatch queue that a FLUSH precedes have
\* had it: what makes DriverStart safe.
LEMMA DispatchedAfterFlush ==
  ASSUME TypeInv, PlaceInv, SeqInv, DiskAll, NEW r \in Rq,
         InQueue(queue_head, r), cmd[r].flush
  PROVE  acked[r] \subseteq durable
<1>1. DiskOf(r) /\ NoCache
  BY DEF DiskAll
<1>2. CASE r \in sequenced
  <2>1. r \in flush_data_in_flight
    BY <1>2 DEF PlaceInv
  <2>2. blk_flush_cur_seq(seq[r]) = "DATA"
    BY <1>2, <2>1, SeqByRequest DEF SeqOf
  <2>3. "PREFLUSH" \in seq[r]
    BY <2>2 DEF blk_flush_cur_seq
  <2> QED BY <1>1, <1>2, <2>3 DEF DiskOf
<1>3. CASE r \notin sequenced
  <2>1. bio[r] = "live"
    BY DEF PlaceInv
  <2>2. ~HasCache
    BY <1>1, <1>3, <2>1 DEF DiskOf
  <2> QED BY <1>1, <2>2 DEF DiskOf, NoCache
<1> QED BY <1>2, <1>3

\* request_fn: a flush that starts covers what its requests need.
LEMMA DiskRequestFn ==
  ASSUME TypeInv, PlaceInv, SeqInv, DiskAll, RequestFn PROVE DiskAll'
<1>1. /\ limits' = limits /\ cmd' = cmd /\ seq' = seq /\ bio' = bio
      /\ acked' = acked /\ sequenced' = sequenced /\ landed' = landed
      /\ durable' = durable /\ flush_queue' = flush_queue
      /\ flush_running_idx' = flush_running_idx /\ walk' = walk
      /\ walk.pc = "idle"
  BY DEF RequestFn, ElevatorDispatch, DriverStart, QueueEmpty, DriverRefuse,
         fqVars, diskVars, LockFree
<1>2. NoCache'
  BY <1>1 DEF DiskAll, NoCache, HasCache
<1>3. ASSUME NEW r \in Rq,
             r \in device' => r \in device \/ (cmd[r].flush => acked[r] \subseteq durable),
             FlushRq \in device' /\ InQueue(flush_queue[flush_running_idx], r)
               => Need(r) \subseteq cover' \cup durable
      PROVE  DiskOf(r)'
  <2>1. DiskOf(r) /\ (Waiting(r)' => Waiting(r))
    BY <1>1 DEF DiskAll, Waiting
  <2> QED BY <1>1, <1>3, <2>1, DiskFrame
<1>4. CASE (\E w \in Rq : ElevatorDispatch(w)) \/ QueueEmpty \/ DriverRefuse
  <2>1. device' = device /\ cover' = cover
    BY <1>4 DEF ElevatorDispatch, QueueEmpty, DriverRefuse, driveVars, diskVars
  <2> QED BY <1>2, <1>3, <2>1 DEF DiskAll, DiskOf
<1>5. ASSUME NEW t \in -1..MaxDepth, DriverStart(t) PROVE DiskAll'
  <2> DEFINE x == Head(queue_head)
  <2>1. /\ device' = device \cup {x}
        /\ cover' = IF x = FlushRq THEN landed ELSE cover
        /\ queue_head # <<>>
    BY <1>5 DEF DriverStart
  <2>2. InQueue(queue_head, x)
    BY <2>1, TailList DEF TypeInv, TypeOK
  <2> HIDE DEF x
  <2>3. ASSUME NEW r \in Rq PROVE DiskOf(r)'
    <3>1. r \in device' => r \in device \/ (cmd[r].flush => acked[r] \subseteq durable)
      BY <2>1, <2>2, DispatchedAfterFlush
    <3>2. ASSUME FlushRq \in device', InQueue(flush_queue[flush_running_idx], r)
          PROVE  Need(r) \subseteq cover' \cup durable
      <4>1. Waiting(r)
        BY <3>2 DEF Waiting, TypeInv, TypeOK
      <4>2. CASE x = FlushRq
        BY <2>1, <4>1, <4>2 DEF DiskAll, DiskOf
      <4>3. CASE x # FlushRq
        BY <2>1, <3>2, <4>3 DEF DiskAll, DiskOf
      <4> QED BY <4>2, <4>3
    <3> QED BY <1>3, <3>1, <3>2
  <2> QED BY <1>2, <2>3 DEF DiskAll
<1> QED BY <1>4, <1>5 DEF RequestFn

\* Allocating r makes the disk and the FLUSHes in progress forget it; for
\* every other request nothing that DiskOf speaks of is lost.
LEMMA DiskAllocate ==
  ASSUME TypeInv, PlaceInv, DiskAll, NEW r \in Rq, NEW c \in Cmds,
         Allocate(r, c), NEW y \in Rq, y # r,
         bio'[y] = bio[y], seq'[y] = seq[y],
         y \in sequenced' <=> y \in sequenced,
         \A i \in 0..1 : InQueue(flush_queue'[i], y) => InQueue(flush_queue[i], y)
  PROVE  DiskOf(y)'
<1>1. /\ limits' = limits /\ device' = device /\ walk' = walk
      /\ walk.pc = "idle" /\ flush_running_idx' = flush_running_idx
      /\ cmd'[y] = cmd[y] /\ acked'[y] = acked[y] \ {r}
      /\ landed' = landed \ {r} /\ durable' = durable \ {r}
      /\ cover' = cover \ {r}
  BY DEF Allocate, LockFree, TypeInv, TypeOK
<1>2. DiskOf(y) /\ flush_running_idx \in 0..1
  BY DEF DiskAll, TypeInv, TypeOK
<1>3. Need(y)' = Need(y) \ {r}
  BY <1>1 DEF Need
<1>4. Waiting(y)' => Waiting(y)
  BY DEF Waiting
<1>5. HasCache' = HasCache /\ HasFua' = HasFua
  BY <1>1 DEF HasCache, HasFua
<1> QED BY <1>1, <1>2, <1>3, <1>4, <1>5 DEF DiskOf

\* The writes a new FLUSH has to wait for are known to the disk.
LEMMA AckedLanded ==
  ASSUME TypeInv, DiskAll, NEW r \in Rq, NEW c \in Cmds, Allocate(r, c)
  PROVE  /\ acked'[r] \subseteq landed'
         /\ ~c.flush => acked'[r] = {}
         /\ NoCache'
<1>1. acked'[r] = {w \in Rq \ {r} : c.flush /\ bio[w] = "ok" /\ cmd[w].data}
  BY DEF Allocate
<1>2. NoCache'
  BY DEF Allocate, DiskAll, NoCache, HasCache
<1>3. landed' = landed \ {r}
  BY DEF Allocate
<1> QED BY <1>1, <1>2, <1>3 DEF DiskAll, DiskOf

\* A new request enters with its needs already at the disk.
LEMMA DiskSubmit ==
  ASSUME TypeInv, PlaceInv, SeqInv, DiskAll, Submit PROVE DiskAll'
<1>1. PICK r \in Rq, c \in Cmds :
        \/ SubmitNothing(r, c) \/ SubmitWrite(r, c)
        \/ SubmitBack(r, c) \/ SubmitFlush(r, c)
  BY DEF Submit
<1>2. /\ Allocate(r, c) /\ bio[r] # "live" /\ walk' = walk /\ walk.pc = "idle"
      /\ device' = device /\ flush_running_idx' = flush_running_idx
      /\ limits' = limits /\ cmd' = [cmd EXCEPT ![r] = c]
  BY <1>1 DEF SubmitNothing, SubmitWrite, SubmitBack, SubmitFlush, Allocate, LockFree
<1>3. /\ r \notin device /\ r \notin sequenced /\ ~InQueue(queue_head, r)
      /\ ~Waiting(r)
  BY <1>2, FreeIsNowhere
<1>4. /\ bio \in [Rq -> {"none", "live", "ok", "error"}]
      /\ seq \in [Rq -> SUBSET Steps] /\ cmd'[r] = c /\ c \in Cmd
      /\ flush_running_idx \in 0..1 /\ flush_pending_idx \in 0..1
  BY <1>2, FlushAssumption DEF TypeInv, TypeOK
<1>5. acked'[r] \subseteq landed' /\ (~c.flush => acked'[r] = {}) /\ NoCache'
  BY <1>2, AckedLanded
<1>6. HasCache' = HasCache /\ HasFua' = HasFua
  BY <1>2 DEF HasCache, HasFua
<1>7. ASSUME \A y \in Rq \ {r} : /\ bio'[y] = bio[y] /\ seq'[y] = seq[y]
                                 /\ y \in sequenced' <=> y \in sequenced
                                 /\ \A i \in 0..1 : InQueue(flush_queue'[i], y)
                                                     => InQueue(flush_queue[i], y),
             DiskOf(r)'
      PROVE  DiskAll'
  <2>1. \A y \in Rq \ {r} : DiskOf(y)'
    BY <1>2, <1>7, DiskAllocate
  <2> QED BY <1>5, <1>7, <2>1 DEF DiskAll
\* Outside the sequencer: r is on no flush queue and not at the driver.
<1>8. ASSUME seq' = seq, sequenced' = sequenced, flush_queue' = flush_queue,
             \/ bio' = [bio EXCEPT ![r] = "ok"] /\ ~c.data
                                                /\ (HasCache => ~c.flush)
             \/ /\ bio' = [bio EXCEPT ![r] = "live"]
                /\ HasCache => ~c.flush /\ (c.fua => HasFua)
      PROVE  DiskAll'
  <2>1. ~Waiting(r)' /\ \A i \in 0..1 : ~InQueue(flush_queue'[i], r)
    BY <1>3, <1>8 DEF Waiting
  <2>2. ~HasCache => acked'[r] \subseteq durable'
    BY <1>5, <1>6 DEF NoCache
  <2>3. DiskOf(r)'
    BY <1>2, <1>3, <1>4, <1>5, <1>6, <1>8, <2>1, <2>2 DEF DiskOf
  <2> QED BY <1>4, <1>7, <1>8, <2>3
<1>9. CASE SubmitNothing(r, c)
  <2>1. ~c.data /\ (HasCache => ~c.flush)
    BY <1>9 DEF SubmitNothing, Filtered
  <2> QED BY <1>8, <1>9, <2>1 DEF SubmitNothing, fqVars
<1>10. CASE SubmitWrite(r, c)
  <2>1. HasCache => ~c.flush /\ (c.fua => HasFua)
    BY <1>10 DEF SubmitWrite, Filtered
  <2> QED BY <1>8, <1>10, <2>1 DEF SubmitWrite, fqVars
<1>11. CASE SubmitFlush(r, c)
  <2> DEFINE policy == blk_flush_policy(c)
  <2>1. HasCache
    BY <1>11 DEF SubmitFlush, Filtered
  <2>2. /\ c.flush => "PREFLUSH" \in policy
        /\ c.data <=> "DATA" \in policy
        /\ c.fua /\ ~HasFua => "POSTFLUSH" \in policy
    BY <2>1 DEF blk_flush_policy, Steps
  <2>3. CASE /\ policy = {} /\ bio' = [bio EXCEPT ![r] = "ok"]
             /\ UNCHANGED <<seq, sequenced, queue_head, started, in_flight,
                            fqVars>>
    BY <1>8, <2>2, <2>3 DEF fqVars
  <2>4. CASE /\ policy = {"DATA"} /\ bio' = [bio EXCEPT ![r] = "live"]
             /\ UNCHANGED <<seq, sequenced, started, in_flight, fqVars>>
    BY <1>8, <2>2, <2>4 DEF fqVars
  <2>5. CASE /\ policy \notin {{}, {"DATA"}}
             /\ blk_flush_complete_seq(r, {}, Steps \ policy, FALSE)
    <3> DEFINE step == NextStep({}, Steps \ policy, FALSE)
    <3>1. step = blk_flush_cur_seq(Steps \ policy) /\ policy \in SUBSET Steps
      BY PolicyType DEF NextStep
    <3>2. /\ step # "DONE"
          /\ step = "POSTFLUSH" => ~c.data /\ ~c.flush
      BY <2>2, <2>5, <3>1 DEF blk_flush_cur_seq, Steps
    <3>3. /\ seq' = [seq EXCEPT ![r] = {} \cup (Steps \ policy)]
          /\ bio' = [bio EXCEPT ![r] = "live"]
          /\ sequenced' = sequenced \cup {r}
      BY <2>5, <3>1, <3>2 DEF blk_flush_complete_seq
    <3>4. \A i \in 0..1 : \A y \in Rq : InQueue(flush_queue'[i], y) <=>
             \/ y # r /\ InQueue(flush_queue[i], y)
             \/ y = r /\ i = flush_pending_idx /\ step \in {"PREFLUSH", "POSTFLUSH"}
      BY <1>2, <1>3, <2>5, CompleteSeqWaiting
    <3>5. seq'[r] = Steps \ policy /\ bio'[r] = "live" /\ r \in sequenced'
      BY <1>4, <3>3
    <3>6. FlushRq \in device => ~InQueue(flush_queue'[flush_running_idx], r)
      BY <1>4, <3>4 DEF PlaceInv, SingleFlush
    <3>7. Waiting(r)' => Need(r)' \subseteq landed'
      <4>1. Waiting(r)' => step \in {"PREFLUSH", "POSTFLUSH"}
        BY <3>4 DEF Waiting
      <4>2. CASE step = "PREFLUSH"
        BY <1>5, <3>1, <3>5, <4>2 DEF Need, blk_flush_cur_seq
      <4>3. CASE step = "POSTFLUSH"
        BY <1>4, <3>1, <3>2, <3>5, <4>3 DEF Need, blk_flush_cur_seq
      <4> QED BY <4>1, <4>2, <4>3
    <3>8. DiskOf(r)'
      <4>1. c.flush => "PREFLUSH" \notin seq'[r]
        BY <2>2, <3>5
      <4>2. r \notin device' /\ walk'.pc # "loop"
        BY <1>2, <1>3
      <4>3. ~(FlushRq \in device' /\ InQueue(flush_queue'[flush_running_idx'], r))
        BY <1>2, <3>6
      <4> HIDE DEF policy
      <4> QED BY <1>4, <1>5, <3>5, <3>7, <4>1, <4>2, <4>3 DEF DiskOf
    <3>9. \A y \in Rq \ {r} : /\ bio'[y] = bio[y] /\ seq'[y] = seq[y]
                              /\ y \in sequenced' <=> y \in sequenced
      BY <1>4, <3>3
    <3> QED BY <1>7, <3>4, <3>8, <3>9
  <2> QED BY <1>11, <2>3, <2>4, <2>5 DEF SubmitFlush, blk_insert_flush
<1>12. CASE SubmitBack(r, c)
  <2>1. HasCache => ~c.flush /\ (c.fua => HasFua)
    BY <1>12 DEF SubmitBack, Filtered
  <2> QED BY <1>8, <1>12, <2>1 DEF SubmitBack, fqVars
<1> QED BY <1>1, <1>9, <1>10, <1>11, <1>12

\* A write completes: the other requests only gain.
LEMMA DiskCompleteOther ==
  ASSUME TypeInv, DiskAll, NEW r \in Rq, NEW error \in BOOLEAN,
         DiskWrote(r, error), limits' = limits, cmd' = cmd, acked' = acked,
         flush_running_idx' = flush_running_idx, device' = device \ {r},
         walk' = walk, walk.pc = "idle", NEW y \in Rq, y # r,
         bio'[y] = bio[y], seq'[y] = seq[y],
         y \in sequenced' <=> y \in sequenced,
         \A i \in 0..1 : InQueue(flush_queue'[i], y) => InQueue(flush_queue[i], y)
  PROVE  DiskOf(y)'
<1>1. landed \subseteq landed' /\ durable \subseteq durable' /\ cover' = cover
  BY DEF DiskWrote
<1>2. DiskOf(y) /\ flush_running_idx \in 0..1
  BY DEF DiskAll, TypeInv, TypeOK
<1>3. Waiting(y)' => Waiting(y)
  BY DEF Waiting
<1>4. FlushRq \in device' /\ InQueue(flush_queue'[flush_running_idx'], y)
        => Need(y) \subseteq cover' \cup durable'
  BY <1>1, <1>2 DEF DiskOf
<1>5. r \in Rq /\ cmd'[y] = cmd[y] /\ acked'[y] = acked[y]
  OBVIOUS
<1> QED BY <1>1, <1>2, <1>3, <1>4, <1>5, DiskFrame

\* Without a write cache, a write is on the medium once the disk has it.
LEMMA DiskNoCache ==
  ASSUME DiskAll, NEW r \in Rq, NEW error \in BOOLEAN, DiskWrote(r, error),
         limits' = limits
  PROVE  NoCache'
BY DEF DiskAll, NoCache, DiskWrote, HasCache

\* A write outside the sequencer ends.
LEMMA DiskCompleteWrite ==
  ASSUME TypeInv, PlaceInv, SeqInv, DiskAll, NEW r \in Rq,
         NEW error \in BOOLEAN, CompleteWrite(r, error)
  PROVE  DiskAll'
<1>1. /\ r \in device /\ device' = device \ {r} /\ r \notin sequenced
      /\ walk' = walk /\ walk.pc = "idle" /\ DiskWrote(r, error)
      /\ bio' = [bio EXCEPT ![r] = IF error THEN "error" ELSE "ok"]
      /\ limits' = limits /\ cmd' = cmd /\ acked' = acked /\ seq' = seq
      /\ sequenced' = sequenced /\ flush_queue' = flush_queue
      /\ flush_running_idx' = flush_running_idx
  BY DEF CompleteWrite, Release, LockFree, fqVars
<1>2. NoCache'
  BY <1>1, DiskNoCache
<1>3. bio[r] = "live" /\ ~Waiting(r)
  BY <1>1 DEF PlaceInv
<1>4. /\ bio'[r] = IF error THEN "error" ELSE "ok"
      /\ \A y \in Rq \ {r} : bio'[y] = bio[y]
      /\ flush_running_idx \in 0..1
  BY <1>1 DEF TypeInv, TypeOK
<1>5. ~Waiting(r)' /\ ~InQueue(flush_queue'[flush_running_idx'], r)
  BY <1>1, <1>3, <1>4 DEF Waiting
<1>6. DiskOf(r)'
  <2>1. /\ landed \subseteq landed' /\ durable \subseteq durable'
        /\ ~error => r \in landed'
        /\ ~error /\ (~HasCache \/ (HasFua /\ cmd[r].fua)) => r \in durable'
    BY <1>1 DEF DiskWrote
  <2>2. DiskOf(r)
    BY DEF DiskAll
  <2>3. HasCache' = HasCache /\ HasFua' = HasFua
    BY <1>1 DEF HasCache, HasFua
  <2> QED BY <1>1, <1>3, <1>4, <1>5, <2>1, <2>2, <2>3 DEF DiskOf
<1>7. ASSUME NEW y \in Rq, y # r PROVE DiskOf(y)'
  BY <1>1, <1>4, <1>7, DiskCompleteOther
<1> QED BY <1>2, <1>6, <1>7 DEF DiskAll

\* flush_data_end_io(): the data just written becomes the need of POSTFLUSH.
LEMMA DiskDataEndIo ==
  ASSUME TypeInv, PlaceInv, SeqInv, DiskAll, NEW r \in Rq,
         NEW error \in BOOLEAN, flush_data_end_io(r, error)
  PROVE  DiskAll'
<1> DEFINE after == seq[r] \cup {"DATA"}
           step == NextStep(seq[r], {"DATA"}, error)
           p == blk_flush_policy(cmd[r])
<1>1. /\ r \in device /\ device' = device \ {r} /\ r \in sequenced
      /\ walk' = walk /\ walk.pc = "idle" /\ DiskWrote(r, error)
      /\ blk_flush_complete_seq(r, seq[r], {"DATA"}, error)
      /\ limits' = limits /\ cmd' = cmd /\ acked' = acked
      /\ flush_running_idx' = flush_running_idx
  BY DEF flush_data_end_io, Release, LockFree
<1>2. NoCache'
  BY <1>1, DiskNoCache
<1>3. HasCache /\ ~Waiting(r) /\ seq[r] \in Progress(p)
      /\ blk_flush_cur_seq(seq[r]) = "DATA"
  BY <1>1, DataStep
<1>4. /\ "PREFLUSH" \in seq[r]
      /\ step = "DONE" \/ step = "POSTFLUSH"
      /\ step = "DONE" /\ ~error => "POSTFLUSH" \notin p
  <2>1. p \in SUBSET Steps
    BY PolicyType
  <2> HIDE DEF p
  <2> QED BY <1>3, <2>1 DEF blk_flush_cur_seq, NextStep, Progress, Steps
<1>5. cmd[r].fua /\ ~HasFua => "POSTFLUSH" \in p
  BY <1>3 DEF blk_flush_policy, Steps
<1>6. /\ seq' = [seq EXCEPT ![r] = IF step = "DONE" THEN {} ELSE after]
      /\ bio' = [bio EXCEPT ![r] = IF step # "DONE" THEN "live"
                                   ELSE IF error THEN "error" ELSE "ok"]
      /\ sequenced' = IF step = "DONE" THEN sequenced \ {r}
                                       ELSE sequenced \cup {r}
  BY <1>1, CompleteSeqFields
<1>7. \A i \in 0..1 : \A y \in Rq : InQueue(flush_queue'[i], y) <=>
        \/ y # r /\ InQueue(flush_queue[i], y)
        \/ y = r /\ i = flush_pending_idx /\ step \in {"PREFLUSH", "POSTFLUSH"}
  BY <1>1, <1>3, CompleteSeqWaiting
<1> HIDE DEF step, p
<1>8. /\ seq'[r] = IF step = "DONE" THEN {} ELSE after
      /\ bio'[r] = IF step # "DONE" THEN "live" ELSE IF error THEN "error" ELSE "ok"
      /\ \A y \in Rq \ {r} : /\ bio'[y] = bio[y] /\ seq'[y] = seq[y]
                             /\ y \in sequenced' <=> y \in sequenced
      /\ flush_running_idx \in 0..1 /\ flush_pending_idx \in 0..1
  BY <1>6 DEF TypeInv, TypeOK
<1>9. DiskOf(r)'
  <2>1. /\ landed \subseteq landed' /\ durable \subseteq durable'
        /\ ~error => r \in landed'
        /\ ~error /\ HasFua /\ cmd[r].fua => r \in durable'
    BY <1>1 DEF DiskWrote
  <2>2. /\ acked[r] \subseteq landed
        /\ cmd[r].flush => acked[r] \subseteq durable
    BY <1>1, <1>4 DEF DiskAll, DiskOf
  <2>3. step # "DONE" => ~error
    BY DEF step, NextStep
  <2>4. ~(FlushRq \in device' /\ InQueue(flush_queue'[flush_running_idx'], r))
    <3>1. FlushRq \in device => flush_pending_idx # flush_running_idx
      BY DEF PlaceInv, SingleFlush
    <3> QED BY <1>1, <1>7, <1>8, <3>1
  <2>5. Waiting(r)' => Need(r)' \subseteq landed'
    <3>1. Waiting(r)' => step # "DONE"
      BY <1>7 DEF Waiting
    <3> QED BY <1>1, <1>4, <1>8, <2>1, <2>3, <3>1 DEF Need
  <2>6. bio'[r] = "live" => r \in sequenced'
    BY <1>6, <1>8
  <2>7. /\ cmd'[r] = cmd[r] /\ acked'[r] = acked[r] /\ walk'.pc # "loop"
        /\ r \notin device'
    BY <1>1
  <2>8. bio'[r] = "ok" => step = "DONE" /\ ~error
    BY <1>8
  <2>9. cmd[r].fua /\ bio'[r] = "ok" => r \in durable'
    BY <1>4, <1>5, <2>1, <2>8
  <2> QED BY <2>1, <2>2, <2>4, <2>5, <2>6, <2>7, <2>8, <2>9 DEF DiskOf
<1>10. ASSUME NEW y \in Rq, y # r PROVE DiskOf(y)'
  <2>1. \A i \in 0..1 : InQueue(flush_queue'[i], y) => InQueue(flush_queue[i], y)
    BY <1>7, <1>10
  <2> QED BY <1>1, <1>8, <1>10, <2>1, DiskCompleteOther
<1> QED BY <1>2, <1>9, <1>10 DEF DiskAll

\* A flush that succeeds has made durable what the requests on the running
\* queue need; the walk then goes along that very queue.
LEMMA DiskCompleteFlush ==
  ASSUME TypeInv, PlaceInv, DiskAll, CompleteFlush PROVE DiskAll'
<1>1. PICK error \in BOOLEAN : flush_end_io(error)
  BY DEF CompleteFlush
<1>2. /\ FlushRq \in device /\ device' = device \ {FlushRq}
      /\ limits' = limits /\ cmd' = cmd /\ seq' = seq /\ bio' = bio
      /\ acked' = acked /\ sequenced' = sequenced /\ landed' = landed
      /\ flush_queue' = flush_queue
      /\ flush_running_idx' = 1 - flush_running_idx
      /\ durable' = IF error THEN durable ELSE durable \cup cover
  BY <1>1 DEF flush_end_io, Release, fqVars
<1>3. walk'.error = error
  BY <1>1 DEF flush_end_io
<1>4. NoCache'
  BY <1>2 DEF DiskAll, NoCache, HasCache
<1>5. flush_running_idx \in 0..1 /\ 1 - flush_running_idx' = flush_running_idx
  BY <1>2 DEF TypeInv, TypeOK
<1>6. ASSUME NEW r \in Rq PROVE DiskOf(r)'
  <2>1. DiskOf(r) /\ (Waiting(r)' => Waiting(r))
    BY <1>2 DEF DiskAll, Waiting
  <2>2. durable \subseteq durable' /\ FlushRq \notin device'
    BY <1>2
  <2>3. walk'.pc = "loop" /\ ~walk'.error /\ InQueue(Walked', r)
          => Need(r) \subseteq durable'
    <3>1. Walked' = flush_queue[flush_running_idx]
      BY <1>2, <1>5 DEF Walked
    <3> QED BY <1>2, <1>3, <2>1, <3>1 DEF DiskOf
  <2>4. /\ cmd'[r] = cmd[r] /\ seq'[r] = seq[r] /\ bio'[r] = bio[r]
        /\ acked'[r] = acked[r] /\ landed \subseteq landed'
        /\ r \in device' => r \in device
    BY <1>2
  <2> QED BY <1>2, <2>1, <2>2, <2>3, <2>4, DiskFrame
<1> QED BY <1>4, <1>6 DEF DiskAll

\* A turn of the walk: after a good flush the need of its entry is durable.
LEMMA DiskWalk ==
  ASSUME TypeInv, PlaceInv, WalkInv, SeqInv, DiskAll, FlushEndIoStep,
         NEW r, r = Head(Walked)
  PROVE  DiskAll'
<1> DEFINE cur == blk_flush_cur_seq(seq[r])
           step == NextStep(seq[r], {cur}, walk.error)
           p == blk_flush_policy(cmd[r])
<1>1. /\ walk.pc = "loop" /\ limits' = limits /\ cmd' = cmd /\ acked' = acked
      /\ landed' = landed /\ durable' = durable /\ cover' = cover
      /\ device' = device /\ flush_running_idx' = flush_running_idx
      /\ blk_flush_complete_seq(r, seq[r], {cur}, walk.error)
      /\ walk'.error = walk.error
  BY DEF FlushEndIoStep, driveVars, diskVars, TypeInv, TypeOK
<1>2. /\ r \in Rq /\ HasCache /\ InQueue(Walked, r) /\ Waiting(r)
      /\ r \in sequenced /\ seq[r] \in Progress(p)
      /\ cur \in {"PREFLUSH", "POSTFLUSH"}
  BY <1>1, WalkStep
<1>3. /\ seq' = [seq EXCEPT ![r] = IF step = "DONE" THEN {}
                                   ELSE seq[r] \cup {cur}]
      /\ bio' = [bio EXCEPT ![r] = IF step # "DONE" THEN "live"
                                   ELSE IF walk.error THEN "error" ELSE "ok"]
      /\ sequenced' = IF step = "DONE" THEN sequenced \ {r}
                                       ELSE sequenced \cup {r}
  BY <1>1 DEF blk_flush_complete_seq, NextStep
<1>4. \A i \in 0..1 : \A y \in Rq : InQueue(flush_queue'[i], y) <=>
        \/ y # r /\ InQueue(flush_queue[i], y)
        \/ y = r /\ i = flush_pending_idx /\ step \in {"PREFLUSH", "POSTFLUSH"}
  BY <1>1, <1>2, CompleteSeqWaiting
\* Where the sequence goes: a second wait has no data to protect.
<1>5. /\ step # "DONE" => ~walk.error /\ cur = "PREFLUSH"
      /\ step \in {"PREFLUSH", "POSTFLUSH"} => "DATA" \notin p
      /\ cur = "PREFLUSH" => "PREFLUSH" \notin seq[r]
      /\ cur = "POSTFLUSH" => "PREFLUSH" \in seq[r]
      /\ cur = "PREFLUSH" /\ step = "DONE" /\ ~walk.error
           => "DATA" \notin p /\ "POSTFLUSH" \notin p
  <2>1. p \in SUBSET Steps
    BY PolicyType
  <2>2. cur = blk_flush_cur_seq(seq[r])
    OBVIOUS
  <2>3. step = IF walk.error THEN "DONE" ELSE blk_flush_cur_seq(seq[r] \cup {cur})
    BY DEF NextStep
  <2> HIDE DEF p, cur, step
  <2> QED BY <1>2, <2>1, <2>2, <2>3 DEF blk_flush_cur_seq, Progress, Steps
<1>6. /\ cmd[r].data => "DATA" \in p
      /\ cmd[r].fua /\ ~HasFua => "POSTFLUSH" \in p
  BY <1>2 DEF blk_flush_policy, Steps
<1> HIDE DEF step, p, cur
<1>7. /\ seq'[r] = IF step = "DONE" THEN {} ELSE seq[r] \cup {cur}
      /\ bio'[r] = IF step # "DONE" THEN "live"
                   ELSE IF walk.error THEN "error" ELSE "ok"
      /\ \A y \in Rq \ {r} : /\ bio'[y] = bio[y] /\ seq'[y] = seq[y]
                             /\ y \in sequenced' <=> y \in sequenced
      /\ flush_running_idx \in 0..1 /\ flush_pending_idx \in 0..1
      /\ 1 - flush_running_idx \in 0..1
  <2>1. /\ bio \in [Rq -> {"none", "live", "ok", "error"}]
        /\ seq \in [Rq -> SUBSET Steps]
        /\ flush_running_idx \in 0..1 /\ flush_pending_idx \in 0..1
        /\ 1 - flush_running_idx \in 0..1
    BY DEF TypeInv, TypeOK
  <2> QED BY <1>2, <1>3, <2>1
<1>8. NoCache'
  BY <1>1 DEF DiskAll, NoCache, HasCache
<1>9. FlushRq \notin device'
  BY <1>1 DEF WalkInv
<1>10. DiskOf(r)
  BY <1>2 DEF DiskAll
<1>11. DiskOf(r)'
  <2>1. acked[r] \subseteq landed /\ Need(r) \subseteq landed
    BY <1>2, <1>10 DEF DiskOf
  <2>2. ~walk.error => Need(r) \subseteq durable
    BY <1>1, <1>2, <1>10 DEF DiskOf
  <2>3. Waiting(r)' => step \in {"PREFLUSH", "POSTFLUSH"}
    BY <1>2, <1>4 DEF Waiting
  <2>4. Waiting(r)' => Need(r)' = {}
    <3>1. Waiting(r)' => ~cmd'[r].data /\ "PREFLUSH" \in seq'[r]
      BY <1>1, <1>5, <1>6, <1>7, <2>3
    <3> QED BY <3>1 DEF Need
  <2>5. InQueue(Walked', r) => Waiting(r)'
    BY <1>1, <1>7 DEF Walked, Waiting
  <2>6. ~walk.error /\ cmd[r].flush => acked[r] \subseteq durable
    <3>1. CASE cur = "PREFLUSH"
      BY <1>5, <2>2, <3>1 DEF Need
    <3>2. CASE cur = "POSTFLUSH"
      BY <1>2, <1>5, <1>10, <3>2 DEF DiskOf
    <3> QED BY <1>2, <3>1, <3>2
  <2>7. bio'[r] = "ok" => step = "DONE" /\ ~walk.error
    BY <1>7
  <2>8. bio'[r] = "ok" /\ cmd[r].data => r \in landed /\ r \in durable
    <3>1. ASSUME bio'[r] = "ok", cmd[r].data PROVE Need(r) = {r}
      BY <1>2, <1>5, <1>6, <2>7, <3>1 DEF Need
    <3> QED BY <2>1, <2>2, <2>7, <3>1
  <2>9. r \in sequenced' => ~walk.error
    BY <1>3, <1>5
  <2>10. bio'[r] = "live" => r \in sequenced'
    BY <1>3, <1>7
  <2>11. r \notin device'
    BY <1>1, <1>2 DEF PlaceInv
  <2>12. /\ cmd'[r] = cmd[r] /\ acked'[r] = acked[r] /\ landed' = landed
         /\ durable' = durable
    BY <1>1
  <2> QED BY <1>9, <2>1, <2>4, <2>5, <2>6, <2>7, <2>8, <2>9, <2>10, <2>11,
             <2>12 DEF DiskOf
<1>12. ASSUME NEW y \in Rq, y # r PROVE DiskOf(y)'
  <2>1. \A i \in 0..1 : InQueue(flush_queue'[i], y) => InQueue(flush_queue[i], y)
    BY <1>4, <1>12
  <2>2. (Waiting(y)' => Waiting(y)) /\ (InQueue(Walked', y) => InQueue(Walked, y))
    BY <1>1, <1>7, <2>1 DEF Waiting, Walked
  <2>3. DiskOf(y)
    BY DEF DiskAll
  <2>4. walk'.pc = "loop" /\ ~walk'.error /\ InQueue(Walked', y)
          => Need(y) \subseteq durable'
    BY <1>1, <2>2, <2>3 DEF DiskOf
  <2>5. /\ cmd'[y] = cmd[y] /\ seq'[y] = seq[y] /\ bio'[y] = bio[y]
        /\ acked'[y] = acked[y] /\ y \in sequenced' <=> y \in sequenced
        /\ landed \subseteq landed' /\ durable \subseteq durable'
        /\ y \in device' => y \in device
    BY <1>1, <1>7, <1>12
  <2> QED BY <1>1, <1>9, <2>2, <2>3, <2>4, <2>5, DiskFrame
<1> QED BY <1>2, <1>8, <1>11, <1>12 DEF DiskAll

\* DiskAll is inductive on top of the other parts of IInv.
LEMMA DiskStep ==
  TypeInv /\ PlaceInv /\ WalkInv /\ SeqInv /\ DiskAll /\ [Next]_vars => DiskAll'
<1> SUFFICES ASSUME TypeInv, PlaceInv, WalkInv, SeqInv, DiskAll, [Next]_vars
             PROVE  DiskAll'
  OBVIOUS
<1>1. CASE \/ \E x \in Item : Requeue(x)
           \/ PendingTimeout \/ FlushEndIoOut \/ UNCHANGED vars
  <2>1. /\ limits' = limits /\ cmd' = cmd /\ seq' = seq /\ bio' = bio
        /\ acked' = acked /\ sequenced' = sequenced /\ landed' = landed
        /\ durable' = durable /\ flush_queue' = flush_queue /\ cover' = cover
        /\ flush_running_idx' = flush_running_idx /\ device' \subseteq device
        /\ walk' = walk \/ walk'.pc # "loop"
    <3>1. CASE FlushEndIoOut
      BY <3>1 DEF FlushEndIoOut, fqVars, diskVars, Idle
    <3>2. CASE PendingTimeout \/ UNCHANGED vars
      BY <3>2 DEF PendingTimeout, vars, diskVars, driveVars
    <3>3. ASSUME NEW x \in Item, Requeue(x) PROVE <2>1
      BY <3>3 DEF Requeue, fqVars, diskVars
    <3> QED BY <1>1, <3>1, <3>2, <3>3
  <2>2. NoCache'
    BY <2>1 DEF DiskAll, NoCache, HasCache
  <2>3. Walked' = Walked
    BY <2>1 DEF Walked
  <2>4. ASSUME NEW r \in Rq PROVE DiskOf(r)'
    <3>1. DiskOf(r) /\ (Waiting(r)' => Waiting(r))
      BY <2>1 DEF DiskAll, Waiting
    <3>2. FlushRq \in device' /\ InQueue(flush_queue'[flush_running_idx'], r)
            => Need(r) \subseteq cover' \cup durable'
      BY <2>1, <3>1 DEF DiskOf
    <3>3. walk'.pc = "loop" /\ ~walk'.error /\ InQueue(Walked', r)
            => Need(r) \subseteq durable'
      BY <2>1, <2>3, <3>1 DEF DiskOf
    <3> QED BY <2>1, <3>1, <3>2, <3>3, DiskFrame
  <2> QED BY <2>2, <2>4 DEF DiskAll
<1> QED BY <1>1, DiskSubmit, DiskRequestFn, DiskCompleteWrite, DiskDataEndIo,
           DiskCompleteFlush, DiskWalk DEF Next, CompleteRq, Walk

\* The medium is empty at first.
LEMMA MediaInit == Init => MediaInv
BY DEF Init, MediaInv

\* Nothing becomes durable that the disk was not given.
LEMMA MediaStep == TypeInv /\ MediaInv /\ [Next]_vars => MediaInv'
<1> SUFFICES ASSUME TypeInv, MediaInv, [Next]_vars PROVE MediaInv'
  OBVIOUS
<1>1. CASE Submit
  BY <1>1 DEF Submit, SubmitNothing, SubmitWrite, SubmitBack, SubmitFlush, Allocate, MediaInv
<1>2. CASE RequestFn
  BY <1>2 DEF RequestFn, ElevatorDispatch, DriverStart, QueueEmpty,
              DriverRefuse, diskVars, MediaInv
<1>3. ASSUME NEW r \in Rq, CompleteRq(r) PROVE MediaInv'
  <2>1. PICK error \in BOOLEAN : DiskWrote(r, error)
    BY <1>3 DEF CompleteRq, CompleteWrite, flush_data_end_io
  <2> QED BY <2>1 DEF DiskWrote, MediaInv
<1>4. CASE CompleteFlush
  BY <1>4 DEF CompleteFlush, flush_end_io, MediaInv
<1>5. CASE Walk \/ PendingTimeout \/ (\E x \in Item : Requeue(x))
           \/ UNCHANGED vars
  BY <1>5 DEF Walk, FlushEndIoStep, FlushEndIoOut, PendingTimeout, Requeue,
              vars, diskVars, MediaInv
<1> QED BY <1>1, <1>2, <1>3, <1>4, <1>5 DEF Next

-----------------------------------------------------------------------------
\* The inductive invariant holds in every reachable state.
THEOREM Invariance == Spec => []IInv
<1>1. TypeInv /\ PlaceInv /\ WalkInv /\ SeqInv /\ DiskAll /\ MediaInv => IInv
  BY DiskByRequest DEF IInv, TypeInv
<1> QED BY <1>1, TypeInit, TypeStep, PlaceInit, PlaceStep, SeqInit, SeqStep,
           DiskInit, DiskStep, MediaInit, MediaStep, PTL DEF Spec

\* REQ_FLUSH keeps its promise: the data of such a request does not reach the
\* driver, and its bio does not end well, before every write acknowledged
\* when it was submitted is on the medium.
THEOREM FlushIsABarrier == Spec => []FlushOrdered
<1>1. IInv => FlushOrdered
  BY DEF IInv
<1> QED BY <1>1, Invariance, PTL

\* REQ_FUA keeps its promise: a bio that ended well is on the medium.
THEOREM FuaIsDurable == Spec => []FuaDurable
<1>1. IInv => FuaDurable
  BY DEF IInv
<1> QED BY <1>1, Invariance, PTL

\* The invariant excludes the condition of every BUG_ON() in blk-flush.c.
LEMMA NoBugOn == IInv => BugFree
<1> SUFFICES ASSUME IInv PROVE BugFree
  OBVIOUS
<1>1. TypeInv /\ PlaceInv /\ WalkInv /\ SeqInv
  BY DEF IInv, TypeInv, WalkInv
<1>2. \A r \in device \cap sequenced : "DATA" \notin seq[r]
  <2> TAKE r \in device \cap sequenced
  <2>1. r \in Rq
    BY <1>1 DEF TypeInv, TypeOK
  <2>2. blk_flush_cur_seq(seq[r]) = "DATA"
    BY <1>1, <2>1, DataStep
  <2> QED BY <2>2 DEF blk_flush_cur_seq
<1>3. FlushRq \in device => flush_pending_idx # flush_running_idx
  BY <1>1 DEF PlaceInv, SingleFlush
<1>4. ASSUME walk.pc = "loop"
      PROVE  /\ Walked # <<>>
             /\ blk_flush_cur_seq(seq[Head(Walked)]) \in {"PREFLUSH", "POSTFLUSH"}
             /\ ~InQueue(queue_head, Head(Walked))
  <2>1. /\ Head(Walked) \in Rq /\ Waiting(Head(Walked))
        /\ blk_flush_cur_seq(seq[Head(Walked)]) \in {"PREFLUSH", "POSTFLUSH"}
    BY <1>1, <1>4, WalkStep
  <2> QED BY <1>1, <1>4, <2>1 DEF TypeInv, PlaceInv
<1> QED BY <1>2, <1>3, <1>4 DEF BugFree

\* No BUG_ON() of blk-flush.c is ever reached.
THEOREM BugOnsUnreachable == Spec => []BugFree
BY NoBugOn, Invariance, PTL

-----------------------------------------------------------------------------
(* The accounting of q->in_flight *)

\* One more request in a set changes only the count of its own kind.
LEMMA CountAdd ==
  ASSUME NEW S, IsFiniteSet(S), NEW x, x \notin S, NEW b \in BOOLEAN
  PROVE  Cardinality(OfSync(S \cup {x}, b)) =
           IF IsSync(x) = b THEN Cardinality(OfSync(S, b)) + 1
                            ELSE Cardinality(OfSync(S, b))
<1> DEFINE T == OfSync(S, b)
<1>1. IsFiniteSet(T) /\ x \notin T
  <2>1. T \in SUBSET S /\ x \notin T
    BY DEF OfSync
  <2> QED BY <2>1, FS_Subset
<1>2. CASE IsSync(x) = b
  <2>1. OfSync(S \cup {x}, b) = T \cup {x}
    BY <1>2 DEF OfSync
  <2> HIDE DEF T
  <2> QED BY <1>1, <1>2, <2>1, FS_AddElement DEF T
<1>3. CASE IsSync(x) # b
  <2>1. OfSync(S \cup {x}, b) = T
    BY <1>3 DEF OfSync
  <2> QED BY <1>3, <2>1
<1> QED BY <1>2, <1>3

\* One request less, likewise.
LEMMA CountRemove ==
  ASSUME NEW S, IsFiniteSet(S), NEW x, x \in S, NEW b \in BOOLEAN
  PROVE  Cardinality(OfSync(S \ {x}, b)) =
           IF IsSync(x) = b THEN Cardinality(OfSync(S, b)) - 1
                            ELSE Cardinality(OfSync(S, b))
<1> DEFINE T == OfSync(S, b)
<1>1. IsFiniteSet(T)
  <2>1. T \in SUBSET S
    BY DEF OfSync
  <2> QED BY <2>1, FS_Subset
<1>2. CASE IsSync(x) = b
  <2>1. OfSync(S \ {x}, b) = T \ {x} /\ x \in T
    BY <1>2 DEF OfSync
  <2> HIDE DEF T
  <2> QED BY <1>1, <1>2, <2>1, FS_RemoveElement DEF T
<1>3. CASE IsSync(x) # b
  <2>1. OfSync(S \ {x}, b) = T
    BY <1>3 DEF OfSync
  <2> QED BY <1>3, <2>1
<1> QED BY <1>2, <1>3

\* A set split in two.
LEMMA CountSplit ==
  ASSUME NEW S, NEW T, IsFiniteSet(S \cup T), S \cap T = {}, NEW b \in BOOLEAN
  PROVE  Cardinality(OfSync(S \cup T, b)) =
           Cardinality(OfSync(S, b)) + Cardinality(OfSync(T, b))
<1> DEFINE A == OfSync(S, b)
           B == OfSync(T, b)
<1>1. /\ A \in SUBSET (S \cup T) /\ B \in SUBSET (S \cup T)
      /\ A \cap B = {} /\ OfSync(S \cup T, b) = A \cup B
  BY DEF OfSync
<1>2. IsFiniteSet(A) /\ IsFiniteSet(B)
  BY <1>1, FS_Subset
<1> HIDE DEF A, B
<1>3. Cardinality(A) \in Nat /\ Cardinality(B) \in Nat
  BY <1>2, FS_CardinalityType
<1>4. Cardinality(A \cup B) =
        Cardinality(A) + Cardinality(B) - Cardinality(A \cap B)
  BY <1>2, FS_Union
<1>5. Cardinality(A \cap B) = 0
  BY <1>1, FS_EmptySet
<1>6. Cardinality(A \cup B) = Cardinality(A) + Cardinality(B)
  BY <1>3, <1>4, <1>5
<1>7. Cardinality(OfSync(S \cup T, b)) = Cardinality(A) + Cardinality(B)
  BY <1>1, <1>6
<1> QED BY <1>7 DEF A, B

\* The counters are exact at the moment.
Exact == \A b \in BOOLEAN : in_flight[b] = Cardinality(OfSync(Counted, b))

\* blk_dequeue_request() of a request that is not counted yet.
LEMMA ExactGain ==
  ASSUME TypeOK, Exact, IsFiniteSet(Counted), NEW x \in Item, x \notin Counted,
         Counted' = Counted \cup {x},
         in_flight' = [in_flight EXCEPT ![IsSync(x)] = @ + 1]
  PROVE  Exact' /\ IsFiniteSet(Counted')
<1>1. in_flight \in [BOOLEAN -> Int] /\ IsSync(x) \in BOOLEAN
  BY FlushAssumption DEF TypeOK, IsSync
<1>2. IsFiniteSet(Counted')
  BY FS_AddElement
<1>3. ASSUME NEW b \in BOOLEAN
      PROVE  in_flight'[b] = Cardinality(OfSync(Counted', b))
  <2>1. in_flight'[b] = IF IsSync(x) = b THEN in_flight[b] + 1 ELSE in_flight[b]
    BY <1>1
  <2>2. in_flight[b] = Cardinality(OfSync(Counted, b))
    BY DEF Exact
  <2>3. Cardinality(OfSync(Counted', b)) =
          IF IsSync(x) = b THEN Cardinality(OfSync(Counted, b)) + 1
                           ELSE Cardinality(OfSync(Counted, b))
    BY CountAdd
  <2> QED BY <2>1, <2>2, <2>3
<1> QED BY <1>2, <1>3 DEF Exact

\* elv_completed_request() of a counted request.
LEMMA ExactLose ==
  ASSUME TypeOK, Exact, IsFiniteSet(Counted), NEW x \in Item, x \in Counted,
         x \in started, Counted' = Counted \ {x},
         in_flight' = Completed(in_flight, x)
  PROVE  Exact' /\ IsFiniteSet(Counted')
<1>1. in_flight \in [BOOLEAN -> Int] /\ IsSync(x) \in BOOLEAN
  BY FlushAssumption DEF TypeOK, IsSync
<1>2. IsFiniteSet(Counted')
  BY FS_RemoveElement
<1>3. ASSUME NEW b \in BOOLEAN
      PROVE  in_flight'[b] = Cardinality(OfSync(Counted', b))
  <2>1. in_flight'[b] = IF IsSync(x) = b THEN in_flight[b] - 1 ELSE in_flight[b]
    BY <1>1 DEF Completed
  <2>2. in_flight[b] = Cardinality(OfSync(Counted, b))
    BY DEF Exact
  <2>3. Cardinality(OfSync(Counted', b)) =
          IF IsSync(x) = b THEN Cardinality(OfSync(Counted, b)) - 1
                           ELSE Cardinality(OfSync(Counted, b))
    BY CountRemove
  <2> QED BY <2>1, <2>2, <2>3
<1> QED BY <1>2, <1>3 DEF Exact

\* blk_flush_complete_seq() undoes the accounting of a request that ends if
\* it was started, and of no other.
LEMMA CompleteSeqCount ==
  ASSUME TypeInv, PlaceInv, CountInv, NEW r \in Rq,
         NEW before, NEW bits, NEW error,
         blk_flush_complete_seq(r, before, bits, error),
         ~InQueue(queue_head, r), device' = device \ {r},
         \A y \in Rq \ {r} : cmd'[y] = cmd[y],
         NextStep(before, bits, error) # "DONE"
           => (r \in Counted <=> cmd'[r].data /\ "DATA" \in before \cup bits)
  PROVE  CountInv'
<1> DEFINE step == NextStep(before, bits, error)
           kick == flush_pending_idx' # flush_pending_idx
<1>1. /\ seq' = [seq EXCEPT ![r] = IF step = "DONE" THEN {}
                                   ELSE before \cup bits]
      /\ sequenced' = IF step = "DONE" THEN sequenced \ {r}
                                       ELSE sequenced \cup {r}
      /\ kick => flush_pending_idx = flush_running_idx
  BY CompleteSeqFields
<1>2. /\ in_flight' = IF step = "DONE" THEN Completed(in_flight, r)
                                        ELSE in_flight
      /\ started' = (started \ (IF step = "DONE" THEN {r} ELSE {}))
                             \ (IF kick THEN {FlushRq} ELSE {})
  BY DEF blk_flush_complete_seq, NextStep, TypeInv, TypeOK
<1>3. \A y : InQueue(queue_head', y) <=>
             \/ InQueue(queue_head, y)
             \/ y = r /\ step = "DATA"
             \/ y = FlushRq /\ kick
  BY CompleteSeqQueue
<1>4. kick => FlushRq \notin device
  BY <1>1 DEF PlaceInv, SingleFlush
<1> HIDE DEF step, kick
<1>5. /\ seq \in [Rq -> SUBSET Steps] /\ sequenced \subseteq Rq
      /\ device \subseteq Item /\ started \subseteq Item
      /\ FlushRq \notin Rq /\ r # FlushRq /\ r \in Item
  BY FlushAssumption DEF TypeInv, TypeOK, Item
<1>6. \A y \in Rq : y # r => (y \in Written' <=> y \in Written)
  BY <1>1, <1>5 DEF Written
<1>7. Written' \subseteq Rq /\ Written \subseteq Rq
  BY <1>1, <1>5 DEF Written
<1>8. kick => FlushRq \notin Counted
  BY <1>4, <1>5, <1>7 DEF Counted
<1>9. CASE step = "DONE"
  <2>1. r \notin Written'
    BY <1>1, <1>9 DEF Written
  <2>2. Counted' = Counted \ {r}
    BY <1>6, <1>7, <2>1 DEF Counted
  <2>3. Exact' /\ IsFiniteSet(Counted')
    <3>1. CASE r \in Counted
      <4>1. r \in started
        BY <3>1 DEF CountInv
      <4> QED BY <1>2, <1>5, <1>9, <2>2, <3>1, <4>1, ExactLose
              DEF CountInv, Exact, TypeInv
    <3>2. CASE r \notin Counted
      <4>1. r \notin started
        BY <3>2 DEF CountInv
      <4>2. in_flight' = in_flight /\ Counted' = Counted
        BY <1>2, <1>9, <2>2, <3>2, <4>1 DEF Completed
      <4> QED BY <4>2 DEF CountInv, Exact
    <3> QED BY <3>1, <3>2
  <2>4. Counted' \subseteq started'
    BY <1>2, <1>8, <1>9, <2>2 DEF CountInv
  <2>5. \A y \in Rq : y \in started' => y \in Counted' \/ InQueue(queue_head', y)
    BY <1>2, <1>3, <1>9, <2>2 DEF CountInv
  <2> QED BY <2>3, <2>4, <2>5 DEF CountInv, Exact
<1>10. CASE step # "DONE"
  <2>1. r \in Written' <=> r \in Counted
    BY <1>1, <1>5, <1>10 DEF Written, step
  <2>2. Counted' = Counted
    <3>1. \A y \in Rq : y \in Counted' <=> y \in Counted
      BY <1>6, <2>1 DEF Counted
    <3>2. FlushRq \in Counted' <=> FlushRq \in Counted
      BY <1>5, <1>7 DEF Counted
    <3>3. Counted \subseteq Item /\ Counted' \subseteq Item
      BY <1>5, <1>7 DEF Counted, Item
    <3> QED BY <3>1, <3>2, <3>3 DEF Item
  <2>3. in_flight' = in_flight
    BY <1>2, <1>10
  <2>4. Counted' \subseteq started'
    BY <1>2, <1>8, <1>10, <2>2 DEF CountInv
  <2>5. \A y \in Rq : y \in started' => y \in Counted' \/ InQueue(queue_head', y)
    BY <1>2, <1>3, <1>10, <2>2 DEF CountInv
  <2> QED BY <2>2, <2>3, <2>4, <2>5 DEF CountInv
<1> QED BY <1>9, <1>10

\* Nothing is counted at first.
LEMMA CountInit == Init => CountInv
<1> SUFFICES ASSUME Init PROVE CountInv
  OBVIOUS
<1>1. Counted = {} /\ started = {} /\ \A b \in BOOLEAN : OfSync(Counted, b) = {}
  BY DEF Init, Counted, Written, OfSync
<1>2. \A b \in BOOLEAN : in_flight[b] = 0
  BY DEF Init
<1> QED BY <1>1, <1>2, FS_EmptySet DEF CountInv

\* A step that moves no request into or out of the count.
LEMMA CountFrame ==
  ASSUME TypeInv, CountInv, sequenced' = sequenced, seq' = seq,
         \A r \in sequenced : cmd'[r] = cmd[r],
         device' = device, in_flight' = in_flight,
         started \subseteq started',
         \A r \in Rq : r \in started' => r \in started \/ InQueue(queue_head', r),
         \A r \in Rq : InQueue(queue_head, r) => InQueue(queue_head', r)
  PROVE  CountInv'
<1>1. Written' = Written
  BY DEF Written, TypeInv, TypeOK
<1>2. Counted' = Counted
  BY <1>1 DEF Counted
<1> QED BY <1>2 DEF CountInv

\* Submission allocates a request that is not counted.
LEMMA CountSubmit ==
  ASSUME TypeInv, PlaceInv, CountInv, NEW r \in Rq, NEW c \in Cmds,
         \/ SubmitNothing(r, c) \/ SubmitWrite(r, c)
         \/ SubmitBack(r, c) \/ SubmitFlush(r, c)
  PROVE  CountInv'
<1>1. /\ Allocate(r, c) /\ bio[r] # "live" /\ walk.pc = "idle"
      /\ cmd' = [cmd EXCEPT ![r] = c] /\ device' = device
  BY DEF SubmitNothing, SubmitWrite, SubmitBack, SubmitFlush, Allocate, LockFree
<1>2. /\ r \notin sequenced /\ ~Waiting(r) /\ r \notin device
      /\ ~InQueue(queue_head, r)
  BY <1>1, FreeIsNowhere
<1>3. cmd'[r] = c /\ \A y \in Rq \ {r} : cmd'[y] = cmd[y]
  BY <1>1 DEF TypeInv, TypeOK
<1>4. \A y \in sequenced : cmd'[y] = cmd[y]
  BY <1>2, <1>3 DEF TypeInv, TypeOK
<1>5. CASE /\ seq' = seq /\ sequenced' = sequenced /\ started' = started
           /\ in_flight' = in_flight
           /\ \/ queue_head' = queue_head
              \/ queue_head' = Append(queue_head, r)
              \/ \E order \in Drained :
                   queue_head' = Append(queue_head \o order, r)
  <2>1. \A y \in Rq : InQueue(queue_head, y) => InQueue(queue_head', y)
    <3>1. queue_head \in Seq(Item) /\ r \in Item /\ sorted \subseteq Rq
      BY DEF TypeInv, TypeOK, Item
    <3>2. \A y : InQueue(queue_head, y) => InQueue(Append(queue_head, r), y)
      BY <3>1, AppendList
    <3>3. \A order \in Drained, y \in Rq : InQueue(queue_head, y)
            => InQueue(Append(queue_head \o order, r), y)
      BY <3>1, BackList
    <3> QED BY <1>5, <3>2, <3>3
  <2> QED BY <1>1, <1>4, <1>5, <2>1, CountFrame
<1>6. CASE blk_flush_complete_seq(r, {}, Steps \ blk_flush_policy(c), FALSE)
  <2>1. r \notin Counted
    BY <1>2 DEF Counted, Written
  <2>2. ~(c.data /\ "DATA" \in {} \cup (Steps \ blk_flush_policy(c)))
    BY DEF blk_flush_policy
  <2>3. device' = device \ {r}
    BY <1>1, <1>2
  <2> QED BY <1>2, <1>3, <1>6, <2>1, <2>2, <2>3, CompleteSeqCount
<1> QED BY <1>5, <1>6
        DEF SubmitNothing, SubmitWrite, SubmitBack, SubmitFlush, blk_insert_flush

\* request_fn: the driver counts the request it takes, and a request it only
\* looked at stays on queue_head with REQ_STARTED.
LEMMA CountRequestFn ==
  ASSUME TypeInv, PlaceInv, SeqInv, CountInv, RequestFn
  PROVE  CountInv'
<1>1. queue_head \in Seq(Item) /\ sorted \subseteq Rq /\ FlushRq \notin Rq
  BY FlushAssumption DEF TypeInv, TypeOK
<1>2. ASSUME NEW w \in Rq, ElevatorDispatch(w) PROVE CountInv'
  <2>1. \A y : ~InQueue(queue_head, y)
    BY <1>2, EmptyList DEF ElevatorDispatch
  <2> QED BY <1>2, <2>1, CountFrame DEF ElevatorDispatch, driveVars
<1>3. CASE QueueEmpty
  BY <1>3, CountFrame DEF QueueEmpty
<1>4. CASE DriverRefuse
  <2>1. InQueue(queue_head, Head(queue_head))
    BY <1>1, <1>4, TailList DEF DriverRefuse
  <2>2. /\ queue_head' = queue_head /\ started' = started \cup {Head(queue_head)}
        /\ sequenced' = sequenced /\ seq' = seq /\ cmd' = cmd
        /\ device' = device /\ in_flight' = in_flight
    BY <1>4 DEF DriverRefuse
  <2> QED BY <2>1, <2>2, CountFrame
<1>5. ASSUME NEW t \in -1..MaxDepth, DriverStart(t) PROVE CountInv'
  <2>1. PICK x \in Item : x = Head(queue_head)
    BY <1>1, <1>5, TailList DEF DriverStart
  <2>2. /\ queue_head # <<>> /\ queue_head' = Tail(queue_head)
        /\ started' = started \cup {x} /\ device' = device \cup {x}
        /\ in_flight' = [in_flight EXCEPT ![IsSync(x)] = @ + 1]
        /\ sequenced' = sequenced /\ seq' = seq /\ cmd' = cmd
    BY <1>5, <2>1 DEF DriverStart
  <2>3. /\ InQueue(queue_head, x)
        /\ \A y : InQueue(Tail(queue_head), y) <=> InQueue(queue_head, y) /\ y # x
    BY <1>1, <2>1, <2>2, TailList DEF PlaceInv
  <2>4. x \notin device
    BY <2>3 DEF PlaceInv, SingleFlush, Item
  <2>5. x \notin Written
    <3>1. SUFFICES ASSUME x \in Written PROVE FALSE
      OBVIOUS
    <3>2. x \in sequenced /\ x \in Rq /\ "DATA" \in seq[x]
      BY <3>1 DEF Written, TypeInv, TypeOK
    <3>3. x \in flush_data_in_flight
      BY <2>3, <3>2 DEF PlaceInv
    <3>4. blk_flush_cur_seq(seq[x]) = "DATA"
      BY <3>2, <3>3, SeqByRequest DEF SeqOf
    <3> QED BY <3>2, <3>4 DEF blk_flush_cur_seq
  <2>6. Counted' = Counted \cup {x} /\ x \notin Counted
    BY <2>2, <2>4, <2>5 DEF Counted, Written
  <2>7. Exact' /\ IsFiniteSet(Counted')
    BY <2>2, <2>6, ExactGain DEF CountInv, Exact, TypeInv
  <2>8. Counted' \subseteq started'
    BY <2>2, <2>6 DEF CountInv
  <2>9. \A y \in Rq : y \in started' => y \in Counted' \/ InQueue(queue_head', y)
    BY <2>2, <2>3, <2>6 DEF CountInv
  <2> QED BY <2>7, <2>8, <2>9 DEF CountInv, Exact
<1> QED BY <1>2, <1>3, <1>4, <1>5 DEF RequestFn

\* A request that the driver gives back or finishes outside the sequencer
\* is no longer counted.
LEMMA CountRelease ==
  ASSUME TypeInv, PlaceInv, SeqInv, CountInv, NEW x \in Item, x \in device,
         device' = device \ {x}, in_flight' = Completed(in_flight, x),
         x \in Rq => started' = started \ {x},
         started \ {x} \subseteq started', started' \subseteq started,
         \A r \in Rq : InQueue(queue_head, r) => InQueue(queue_head', r),
         sequenced' = sequenced, seq' = seq, cmd' = cmd
  PROVE  CountInv'
<1>1. Written' = Written /\ Written \subseteq Rq /\ FlushRq \notin Rq
  BY FlushAssumption DEF Written, TypeInv, TypeOK
<1>2. x \notin Written
  <2>1. SUFFICES ASSUME x \in Written PROVE FALSE
    OBVIOUS
  <2>2. x \in sequenced /\ x \in Rq /\ "DATA" \in seq[x]
    BY <1>1, <2>1 DEF Written
  <2>3. blk_flush_cur_seq(seq[x]) = "DATA"
    BY <2>2, DataStep
  <2> QED BY <2>2, <2>3 DEF blk_flush_cur_seq
<1>3. Counted' = Counted \ {x} /\ x \in Counted /\ x \in started
  BY <1>1, <1>2 DEF Counted, CountInv
<1>4. Exact' /\ IsFiniteSet(Counted')
  BY <1>3, ExactLose DEF CountInv, Exact, TypeInv
<1>5. Counted' \subseteq started'
  BY <1>3 DEF CountInv
<1>6. \A y \in Rq : y \in started' => y \in Counted' \/ InQueue(queue_head', y)
  BY <1>3 DEF CountInv
<1> QED BY <1>4, <1>5, <1>6 DEF CountInv, Exact

\* The data of a sequenced request is written: it stays counted unless its
\* sequence ends here.
LEMMA CountDataEndIo ==
  ASSUME TypeInv, PlaceInv, SeqInv, CountInv, NEW r \in Rq,
         NEW error \in BOOLEAN, flush_data_end_io(r, error)
  PROVE  CountInv'
<1>1. /\ r \in sequenced /\ r \in device /\ device' = device \ {r}
      /\ blk_flush_complete_seq(r, seq[r], {"DATA"}, error) /\ cmd' = cmd
  BY DEF flush_data_end_io, Release
<1>2. /\ seq[r] \in Progress(blk_flush_policy(cmd[r]))
      /\ blk_flush_cur_seq(seq[r]) = "DATA"
  BY <1>1, DataStep
<1>3. "DATA" \in blk_flush_policy(cmd[r])
  BY <1>2, PolicyType, ProgressStep
<1>4. cmd[r].data
  BY <1>3 DEF blk_flush_policy
<1>5. r \in Counted /\ ~InQueue(queue_head, r)
  BY <1>1 DEF Counted, PlaceInv
<1>6. "DATA" \in seq[r] \cup {"DATA"}
  OBVIOUS
<1> QED BY <1>1, <1>4, <1>5, <1>6, CompleteSeqCount

\* The walk ends sequences, or takes them to their next step.
LEMMA CountWalk ==
  ASSUME TypeInv, PlaceInv, SeqInv, CountInv, FlushEndIoStep
  PROVE  CountInv'
<1>1. PICK r \in Rq : r = Head(Walked)
  BY WalkHead DEF FlushEndIoStep
<1>2. PICK cur \in {"PREFLUSH", "POSTFLUSH"} : cur = blk_flush_cur_seq(seq[r])
  BY <1>1, WalkStep DEF FlushEndIoStep
<1>3. /\ blk_flush_complete_seq(r, seq[r], {cur}, walk.error)
      /\ cmd' = cmd /\ device' = device /\ walk.pc = "loop"
  BY <1>1, <1>2 DEF FlushEndIoStep, driveVars
<1>4. Waiting(r) /\ r \in sequenced
  BY <1>1, <1>3, WalkStep
<1>5. r \notin device /\ ~InQueue(queue_head, r)
  BY <1>4 DEF PlaceInv
<1>6. r \in Counted <=> cmd[r].data /\ "DATA" \in seq[r] \cup {cur}
  BY <1>4, <1>5 DEF Counted, Written
<1>7. device' = device \ {r}
  BY <1>3, <1>5
<1> QED BY <1>3, <1>5, <1>6, <1>7, CompleteSeqCount

\* Every step keeps the count exact.
LEMMA CountStep ==
  TypeInv /\ PlaceInv /\ SeqInv /\ CountInv /\ [Next]_vars => CountInv'
<1> SUFFICES ASSUME TypeInv, PlaceInv, SeqInv, CountInv, [Next]_vars
             PROVE  CountInv'
  OBVIOUS
<1>1. ASSUME NEW x \in Item, Requeue(x) PROVE CountInv'
  <2>1. \A y : InQueue(queue_head, y) => InQueue(queue_head', y)
    BY <1>1, PrependList DEF Requeue, TypeInv, TypeOK
  <2> QED BY <1>1, <2>1, CountRelease DEF Requeue
<1>2. ASSUME NEW r \in Rq, NEW error \in BOOLEAN, CompleteWrite(r, error)
      PROVE  CountInv'
  BY <1>2, CountRelease DEF CompleteWrite, Release, Item
<1>3. ASSUME NEW error \in BOOLEAN, flush_end_io(error) PROVE CountInv'
  BY <1>3, CountRelease, FlushAssumption DEF flush_end_io, Release, Item
<1>4. CASE FlushEndIoOut \/ PendingTimeout \/ UNCHANGED vars
  BY <1>4, CountFrame DEF FlushEndIoOut, PendingTimeout, vars, driveVars
<1> QED BY <1>1, <1>2, <1>3, <1>4, CountSubmit, CountRequestFn,
           CountDataEndIo, CountWalk
        DEF Next, Submit, CompleteRq, CompleteFlush, Walk

\* A request at the driver has its data still to be written, so the two
\* parts of the count are disjoint.
LEMMA CountIsSum == TypeInv /\ PlaceInv /\ SeqInv /\ CountInv => InFlightAccurate
<1> SUFFICES ASSUME TypeInv, PlaceInv, SeqInv, CountInv, NEW b \in BOOLEAN
             PROVE  in_flight[b] = Cardinality(OfSync(device, b))
                                   + Cardinality(OfSync(Written, b))
  BY DEF InFlightAccurate
<1>1. device \cap Written = {}
  <2>1. SUFFICES ASSUME NEW x \in device \cap Written PROVE FALSE
    OBVIOUS
  <2>2. x \in sequenced /\ x \in Rq /\ x \in device /\ "DATA" \in seq[x]
    BY <2>1 DEF Written, TypeInv, TypeOK
  <2>3. blk_flush_cur_seq(seq[x]) = "DATA"
    BY <2>2, DataStep
  <2> QED BY <2>2, <2>3 DEF blk_flush_cur_seq
<1>2. /\ IsFiniteSet(device \cup Written)
      /\ in_flight[b] = Cardinality(OfSync(device \cup Written, b))
  BY DEF CountInv, Counted
<1> QED BY <1>1, <1>2, CountSplit

\* q->in_flight is exact in every reachable state: whatever is requeued,
\* refused or fails, no request is counted twice and none is forgotten.
THEOREM InFlightExact == Spec => []InFlightAccurate
BY CountInit, CountStep, CountIsSum, TypeInit, TypeStep, PlaceInit, PlaceStep,
   SeqInit, SeqStep, PTL DEF Spec

=============================================================================
