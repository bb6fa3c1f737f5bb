------------------------ MODULE BlkFlushBarrierProof ------------------------
(* BlkFlush implements WriteBarrier: the variables of the promise are      *)
(* variables of the model, so the refinement mapping is the identity.      *)
EXTENDS BlkFlushDiskProof

\* A bio that ended well was allowed to.
LEMMA EndedMayEnd ==
  ASSUME IInv, NEW r \in Rq, bio[r] = "ok" PROVE Barrier!MayEnd(r)
BY DEF IInv, FlushOrdered, FuaDurable, DiskInv, Barrier!MayEnd

\* The initial states of the queue are initial states of WriteBarrier.
LEMMA BarrierInit == Init => Barrier!Init
BY DEF Init, Barrier!Init, Barrier!Plain

\* A submission, whichever way the bio takes, is a Submit of WriteBarrier.
LEMMA BarrierSubmit ==
  ASSUME IInv, IInv', Submit PROVE Barrier!Next
<1>1. PICK r \in Rq, c \in Cmds :
        \/ SubmitNothing(r, c) \/ SubmitWrite(r, c)
        \/ SubmitBack(r, c) \/ SubmitFlush(r, c)
  BY DEF Submit
<1>2. Allocate(r, c)
  BY <1>1 DEF SubmitNothing, SubmitWrite, SubmitBack, SubmitFlush
<1>3. PICK b \in {"live", "ok"} : bio' = [bio EXCEPT ![r] = b]
  BY <1>1 DEF SubmitNothing, SubmitWrite, SubmitBack, SubmitFlush, blk_insert_flush,
              blk_flush_complete_seq
<1>4. b = "ok" => Barrier!MayEnd(r)'
  <2>1. bio'[r] = b
    BY <1>3 DEF IInv, TypeOK
  <2> QED BY <2>1, EndedMayEnd DEF IInv, FlushOrdered, FuaDurable, DiskInv,
             Barrier!MayEnd
<1>5. Barrier!Submit(r, c)
  BY <1>2, <1>3, <1>4 DEF Allocate, Barrier!Submit
<1> QED BY <1>5 DEF Barrier!Next

\* Steps of the sequencer that neither end a bio nor reach the disk stutter;
\* those that do make the progress WriteBarrier allows.
LEMMA BarrierProgress ==
  ASSUME IInv, IInv', cmd' = cmd, acked' = acked,
         landed \subseteq landed', durable \subseteq durable',
         \A r \in landed' \ landed : r \in device /\ r \in Rq,
         \A r \in Rq : bio'[r] # bio[r] =>
           /\ bio[r] = "live" /\ bio'[r] \in {"ok", "error"}
  PROVE  Barrier!Next
<1>1. durable' \subseteq landed' /\ DOMAIN bio' = Rq
  BY DEF IInv, MediaInv, TypeOK
<1>2. \A r \in landed' \ landed : /\ r \in Rq /\ bio[r] = "live"
                                  /\ cmd[r].flush => acked[r] \subseteq durable
  BY DEF IInv, PlaceInv, FlushOrdered
<1>3. \A r \in Rq : \/ bio'[r] = bio[r]
                    \/ bio[r] = "live" /\ bio'[r] = "error"
                    \/ bio[r] = "live" /\ bio'[r] = "ok" /\ Barrier!MayEnd(r)'
  BY DEF IInv, FlushOrdered, FuaDurable, DiskInv, Barrier!MayEnd
<1> QED BY <1>1, <1>2, <1>3 DEF Barrier!Next, Barrier!Progress

\* Every step of the queue is a step of WriteBarrier or a stutter.
LEMMA BarrierStep ==
  IInv /\ IInv' /\ [Next]_vars => [Barrier!Next]_Barrier!vars
<1> SUFFICES ASSUME IInv, IInv', [Next]_vars
             PROVE  [Barrier!Next]_Barrier!vars
  OBVIOUS
<1>1. CASE Submit
  BY <1>1, BarrierSubmit
<1>2. CASE RequestFn \/ (\E x \in Item : Requeue(x)) \/ PendingTimeout
           \/ FlushEndIoOut \/ UNCHANGED vars
  BY <1>2 DEF RequestFn, ElevatorDispatch, DriverStart, QueueEmpty,
     DriverRefuse, Requeue, PendingTimeout, FlushEndIoOut, vars, diskVars,
     Barrier!vars
<1>3. ASSUME NEW r \in Rq, CompleteRq(r) PROVE Barrier!Next
  <2>1. PICK error \in BOOLEAN : /\ DiskWrote(r, error)
                                 /\ CompleteWrite(r, error) \/ flush_data_end_io(r, error)
    BY <1>3 DEF CompleteRq, CompleteWrite, flush_data_end_io
  <2>2. r \in device /\ cmd' = cmd /\ acked' = acked
    BY <2>1 DEF CompleteWrite, flush_data_end_io, Release
  <2>3. PICK b \in {"live", "ok", "error"} : bio' = [bio EXCEPT ![r] = b]
    BY <2>1 DEF CompleteWrite, flush_data_end_io, blk_flush_complete_seq
  <2>4. bio[r] = "live"
    BY <2>2 DEF IInv, PlaceInv
  <2>5. \A y \in Rq : bio'[y] # bio[y] =>
           bio[y] = "live" /\ bio'[y] \in {"ok", "error"}
    BY <2>3, <2>4 DEF IInv, TypeOK
  <2>6. /\ landed \subseteq landed' /\ durable \subseteq durable'
        /\ \A y \in landed' \ landed : y = r
    BY <2>1 DEF DiskWrote
  <2> QED BY <2>2, <2>5, <2>6, BarrierProgress
<1>4. CASE CompleteFlush
  <2>1. PICK error \in BOOLEAN : flush_end_io(error)
    BY <1>4 DEF CompleteFlush
  <2>2. /\ cmd' = cmd /\ acked' = acked /\ landed' = landed /\ bio' = bio
        /\ durable \subseteq durable'
    BY <2>1 DEF flush_end_io
  <2> QED BY <2>2, BarrierProgress
<1>5. CASE FlushEndIoStep
  <2>1. /\ walk.pc = "loop" /\ cmd' = cmd /\ acked' = acked
        /\ landed' = landed /\ durable' = durable
    BY <1>5 DEF FlushEndIoStep, diskVars
  <2>2. PICK r : r = Head(Walked)
    OBVIOUS
  <2>3. r \in Rq /\ bio[r] = "live"
    <3>1. TypeInv /\ PlaceInv /\ SeqInv
      BY DEF IInv, TypeInv, WalkInv
    <3>2. r \in Rq /\ Waiting(r)
      BY <2>1, <2>2, <3>1, WalkStep
    <3> QED BY <3>1, <3>2 DEF PlaceInv
  <2>4. PICK b \in {"live", "ok", "error"} : bio' = [bio EXCEPT ![r] = b]
    BY <1>5, <2>2 DEF FlushEndIoStep, blk_flush_complete_seq
  <2>5. \A y \in Rq : bio'[y] # bio[y] =>
           bio[y] = "live" /\ bio'[y] \in {"ok", "error"}
    BY <2>3, <2>4 DEF IInv, TypeOK
  <2> QED BY <2>1, <2>5, BarrierProgress
<1> QED BY <1>1, <1>2, <1>3, <1>4, <1>5 DEF Next, Walk

\* The flush machinery keeps the promise of WriteBarrier.
THEOREM Implements == Spec => BarrierSpec
BY BarrierInit, BarrierStep, Invariance, PTL DEF Spec, BarrierSpec, Barrier!Spec

\* The order of WriteBarrier is crash consistent.
LEMMA BarrierCrash ==
  IInv /\ CrashConsistent /\ [Barrier!Next]_Barrier!vars => CrashConsistent'
<1> SUFFICES ASSUME IInv, CrashConsistent, [Barrier!Next]_Barrier!vars
             PROVE  CrashConsistent'
  OBVIOUS
<1> USE DEF CrashConsistent, Barrier!CrashConsistent
<1>1. ASSUME NEW r \in Rq, NEW c \in Cmds, Barrier!Submit(r, c)
      PROVE  CrashConsistent'
  <2>1. landed \subseteq Rq /\ cmd \in [Rq -> Cmd]
    BY DEF IInv, TypeOK
  <2> QED BY <1>1, <2>1 DEF Barrier!Submit
<1>2. CASE Barrier!Progress
  BY <1>2 DEF Barrier!Progress
<1>3. CASE UNCHANGED Barrier!vars
  BY <1>3 DEF Barrier!vars
<1> QED BY <1>1, <1>2, <1>3 DEF Barrier!Next

\* A write that asked for a FLUSH never reaches the disk before the writes it
\* covers are on the medium, so whatever a power failure leaves, it leaves
\* them too.
THEOREM SurvivesPowerFailure == Spec => []CrashConsistent
<1>1. Init => CrashConsistent
  BY DEF Init, CrashConsistent, Barrier!CrashConsistent
<1> QED BY <1>1, BarrierStep, BarrierCrash, Invariance, PTL DEF Spec

=============================================================================
