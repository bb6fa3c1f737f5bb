--------------------------- MODULE BlkFlushProof ---------------------------
(* Proofs about BlkFlush, for any set of requests and any tag depth. *)
EXTENDS BlkFlush, SequenceTheorems, TLAPS

-----------------------------------------------------------------------------
(* Lists of requests *)

\* list_add_tail(): the list gains exactly the new entry.
LEMMA AppendList ==
  ASSUME NEW S, NEW s \in Seq(S), NEW x \in S
  PROVE  /\ Append(s, x) \in Seq(S)
         /\ Append(s, x) # <<>>
         /\ Append(s, x) # s
         /\ \A y : InQueue(Append(s, x), y) <=> InQueue(s, y) \/ y = x
         /\ Distinct(s) /\ ~InQueue(s, x) => Distinct(Append(s, x))
<1> DEFINE t == Append(s, x)
<1>1. /\ t \in Seq(S)
      /\ Len(t) = Len(s) + 1
      /\ \A i \in 1..Len(s) : t[i] = s[i]
      /\ t[Len(s) + 1] = x
  OBVIOUS
<1>2. Len(s) \in Nat /\ DOMAIN s = 1..Len(s) /\ DOMAIN t = 1..(Len(s) + 1)
  BY <1>1, LenProperties
<1>3. t # <<>> /\ t # s
  <2>1. Len(t) = Len(s) + 1 /\ Len(s) \in Nat
    BY <1>1, <1>2
  <2>2. t # s
    BY <2>1
  <2>3. t # <<>>
    <3>1. Len(<<>>) = 0 /\ Len(t) # 0
      BY <2>1
    <3> QED BY <3>1
  <2> QED BY <2>2, <2>3
<1>4. \A y : InQueue(t, y) <=> InQueue(s, y) \/ y = x
  BY <1>1, <1>2 DEF InQueue
<1>5. Distinct(s) /\ ~InQueue(s, x) => Distinct(t)
  BY <1>1, <1>2 DEF InQueue, Distinct
<1> QED BY <1>1, <1>3, <1>4, <1>5

\* list_add(): likewise at the front.
LEMMA PrependList ==
  ASSUME NEW S, NEW s \in Seq(S), NEW x \in S
  PROVE  /\ <<x>> \o s \in Seq(S)
         /\ <<x>> \o s # s
         /\ \A y : InQueue(<<x>> \o s, y) <=> InQueue(s, y) \/ y = x
         /\ Distinct(s) /\ ~InQueue(s, x) => Distinct(<<x>> \o s)
<1> DEFINE t == <<x>> \o s
<1>1. /\ t \in Seq(S)
      /\ Len(t) = Len(s) + 1
      /\ t[1] = x
      /\ \A i \in 1..Len(s) : t[i + 1] = s[i]
  OBVIOUS
<1>2. Len(s) \in Nat /\ DOMAIN s = 1..Len(s) /\ DOMAIN t = 1..(Len(s) + 1)
  BY <1>1, LenProperties
<1>3. \A i \in 2..(Len(s) + 1) : i - 1 \in 1..Len(s) /\ t[i] = s[i - 1]
  <2> TAKE i \in 2..(Len(s) + 1)
  <2>1. i - 1 \in 1..Len(s) /\ (i - 1) + 1 = i
    BY <1>2
  <2> QED BY <2>1, <1>1
<1>4. t # s
  <2>1. Len(t) = Len(s) + 1 /\ Len(s) \in Nat
    BY <1>1, <1>2
  <2> QED BY <2>1
<1>5. \A y : InQueue(t, y) <=> InQueue(s, y) \/ y = x
  <2> TAKE y
  <2>1. ASSUME InQueue(t, y) PROVE InQueue(s, y) \/ y = x
    <3>1. PICK i \in DOMAIN t : t[i] = y
      BY <2>1 DEF InQueue
    <3>2. CASE i = 1
      BY <3>1, <3>2, <1>1
    <3>3. CASE i # 1
      BY <3>1, <3>3, <1>2, <1>3 DEF InQueue
    <3> QED BY <3>2, <3>3
  <2>2. ASSUME InQueue(s, y) PROVE InQueue(t, y)
    <3>1. PICK i \in DOMAIN s : s[i] = y
      BY <2>2 DEF InQueue
    <3>2. i + 1 \in DOMAIN t /\ t[i + 1] = y
      BY <3>1, <1>1, <1>2
    <3> QED BY <3>2 DEF InQueue
  <2>3. InQueue(t, x)
    BY <1>1, <1>2 DEF InQueue
  <2> QED BY <2>1, <2>2, <2>3
<1>6. ASSUME Distinct(s), ~InQueue(s, x) PROVE Distinct(t)
  <2>1. SUFFICES ASSUME NEW i \in DOMAIN t, NEW j \in DOMAIN t, t[i] = t[j]
                 PROVE  i = j
    BY DEF Distinct
  <2>2. CASE i = 1 \/ j = 1
    BY <2>1, <2>2, <1>1, <1>2, <1>3, <1>6 DEF InQueue
  <2>3. CASE i # 1 /\ j # 1
    <3>1. i \in 2..(Len(s) + 1) /\ j \in 2..(Len(s) + 1)
      BY <2>1, <2>3, <1>2
    <3>2. s[i - 1] = s[j - 1] /\ i - 1 \in DOMAIN s /\ j - 1 \in DOMAIN s
      BY <3>1, <2>1, <1>2, <1>3
    <3>3. i - 1 = j - 1
      BY <3>2, <1>6 DEF Distinct
    <3> QED BY <3>1, <3>3, <1>2
  <2> QED BY <2>2, <2>3
<1> QED BY <1>1, <1>4, <1>5, <1>6

\* list_del() of the first entry of a list without duplicates.
LEMMA TailList ==
  ASSUME NEW S, NEW s \in Seq(S), s # <<>>
  PROVE  /\ Head(s) \in S
         /\ Tail(s) \in Seq(S)
         /\ InQueue(s, Head(s))
         /\ Len(s) # 1 => Tail(s) # <<>>
         /\ Distinct(s) =>
              /\ Distinct(Tail(s))
              /\ \A y : InQueue(Tail(s), y) <=> InQueue(s, y) /\ y # Head(s)
<1> DEFINE t == Tail(s)
<1>1. /\ Head(s) \in S
      /\ t \in Seq(S)
      /\ Len(t) = Len(s) - 1
      /\ \A i \in 1..Len(t) : t[i] = s[i + 1]
      /\ Head(s) = s[1]
  BY HeadTailProperties
<1>2. /\ Len(s) \in Nat \ {0}
      /\ DOMAIN s = 1..Len(s)
      /\ DOMAIN t = 1..(Len(s) - 1)
  BY <1>1, EmptySeq, LenProperties
<1>3. InQueue(s, Head(s))
  BY <1>1, <1>2 DEF InQueue
<1>4. ASSUME Len(s) # 1 PROVE t # <<>>
  <2>1. Len(t) = Len(s) - 1 /\ Len(s) \in Nat
    BY <1>1, <1>2
  <2>2. Len(<<>>) = 0 /\ Len(t) # 0
    BY <2>1, <1>4
  <2> QED BY <2>2
<1>5. ASSUME Distinct(s) PROVE Distinct(t)
  BY <1>1, <1>2, <1>5 DEF Distinct
<1>6. ASSUME Distinct(s), NEW y
      PROVE  InQueue(t, y) <=> InQueue(s, y) /\ y # Head(s)
  <2>1. ASSUME InQueue(t, y) PROVE InQueue(s, y) /\ y # Head(s)
    <3>1. PICK i \in DOMAIN t : t[i] = y
      BY <2>1 DEF InQueue
    <3>2. i + 1 \in DOMAIN s /\ s[i + 1] = y /\ i + 1 # 1
      BY <3>1, <1>1, <1>2
    <3> QED BY <3>2, <1>1, <1>2, <1>6 DEF InQueue, Distinct
  <2>2. ASSUME InQueue(s, y), y # Head(s) PROVE InQueue(t, y)
    <3>1. PICK i \in DOMAIN s : s[i] = y
      BY <2>2 DEF InQueue
    <3>2. i - 1 \in DOMAIN t /\ t[i - 1] = y
      BY <3>1, <2>2, <1>1, <1>2
    <3> QED BY <3>2 DEF InQueue
  <2> QED BY <2>1, <2>2
<1> QED BY <1>1, <1>3, <1>4, <1>5, <1>6

\* Nothing is on an empty list.
LEMMA EmptyList ==
  /\ \A S : <<>> \in Seq(S)
  /\ \A y : ~InQueue(<<>>, y)
  /\ Distinct(<<>>)
BY DEF InQueue, Distinct

\* list_splice_tail(): the list gains exactly the entries of the other one.
LEMMA ConcatList ==
  ASSUME NEW S, NEW s \in Seq(S), NEW o \in Seq(S)
  PROVE  /\ s \o o \in Seq(S)
         /\ \A y : InQueue(s \o o, y) <=> InQueue(s, y) \/ InQueue(o, y)
         /\ (/\ Distinct(s) /\ Distinct(o)
             /\ \A y \in S : ~(InQueue(s, y) /\ InQueue(o, y)))
              => Distinct(s \o o)
<1> DEFINE t == s \o o
<1>1. /\ t \in Seq(S)
      /\ Len(t) = Len(s) + Len(o)
      /\ \A i \in 1..Len(s) : t[i] = s[i]
      /\ \A i \in 1..Len(o) : t[Len(s) + i] = o[i]
  OBVIOUS
<1>2. /\ Len(s) \in Nat /\ Len(o) \in Nat
      /\ DOMAIN s = 1..Len(s) /\ DOMAIN o = 1..Len(o)
      /\ DOMAIN t = 1..(Len(s) + Len(o))
  BY <1>1, LenProperties
<1>3. ASSUME NEW i \in DOMAIN t
      PROVE  \/ i \in DOMAIN s /\ t[i] = s[i]
             \/ /\ i > Len(s) /\ i - Len(s) \in DOMAIN o
                /\ t[i] = o[i - Len(s)]
  <2>1. i <= Len(s) => i \in 1..Len(s)
    BY <1>2
  <2>2. i > Len(s) => i - Len(s) \in 1..Len(o) /\ Len(s) + (i - Len(s)) = i
    BY <1>2
  <2>3. i <= Len(s) \/ i > Len(s)
    BY <1>2
  <2> QED BY <1>1, <1>2, <2>1, <2>2, <2>3
<1>4. \A i \in DOMAIN o : Len(s) + i \in DOMAIN t
  BY <1>2
<1>5. DOMAIN s \subseteq DOMAIN t
  BY <1>2
<1> HIDE DEF t
<1>6. \A y : InQueue(t, y) <=> InQueue(s, y) \/ InQueue(o, y)
  <2> TAKE y
  <2>1. InQueue(t, y) => InQueue(s, y) \/ InQueue(o, y)
    BY <1>3 DEF InQueue
  <2>2. InQueue(s, y) => InQueue(t, y)
    BY <1>1, <1>2, <1>5 DEF InQueue
  <2>3. InQueue(o, y) => InQueue(t, y)
    BY <1>1, <1>2, <1>4 DEF InQueue
  <2> QED BY <2>1, <2>2, <2>3
<1>7. ASSUME Distinct(s), Distinct(o),
             \A y \in S : ~(InQueue(s, y) /\ InQueue(o, y)),
             NEW i \in DOMAIN t, NEW j \in DOMAIN t, t[i] = t[j]
      PROVE  i = j
  <2>1. i \in Nat /\ j \in Nat /\ t[i] \in S /\ t[j] \in S
    BY <1>1, <1>2
  <2>2. CASE i \in DOMAIN s /\ t[i] = s[i] /\ j \in DOMAIN s /\ t[j] = s[j]
    BY <1>7, <2>2 DEF Distinct
  <2>3. CASE /\ i > Len(s) /\ i - Len(s) \in DOMAIN o /\ t[i] = o[i - Len(s)]
             /\ j > Len(s) /\ j - Len(s) \in DOMAIN o /\ t[j] = o[j - Len(s)]
    <3>1. i - Len(s) = j - Len(s)
      BY <1>7, <2>3 DEF Distinct
    <3> QED BY <1>2, <2>1, <3>1
  <2>4. CASE /\ i \in DOMAIN s /\ t[i] = s[i]
             /\ j - Len(s) \in DOMAIN o /\ t[j] = o[j - Len(s)]
    BY <1>7, <2>1, <2>4 DEF InQueue
  <2>5. CASE /\ j \in DOMAIN s /\ t[j] = s[j]
             /\ i - Len(s) \in DOMAIN o /\ t[i] = o[i - Len(s)]
    BY <1>7, <2>1, <2>5 DEF InQueue
  <2> QED BY <1>3, <2>2, <2>3, <2>4, <2>5
<1> QED BY <1>1, <1>6, <1>7 DEF t, Distinct

\* What ELEVATOR_INSERT_BACK makes of the dispatch queue.
LEMMA BackList ==
  ASSUME queue_head \in Seq(Item), sorted \subseteq Rq, NEW r \in Rq,
         NEW order \in Drained
  PROVE  /\ Append(queue_head \o order, r) \in Seq(Item)
         /\ \A y : InQueue(Append(queue_head \o order, r), y)
                    <=> InQueue(queue_head, y) \/ y \in sorted \/ y = r
         /\ (/\ Distinct(queue_head)
             /\ \A w \in sorted : ~InQueue(queue_head, w)
             /\ ~InQueue(queue_head, r) /\ r \notin sorted)
              => Distinct(Append(queue_head \o order, r))
<1> DEFINE s == queue_head \o order
<1>1. PICK n \in 0..MaxSubmit : order \in [1..n -> sorted]
  BY DEF Drained
<1>2. order \in Seq(Item) /\ r \in Item
  <2>1. n \in Nat /\ order \in [1..n -> Item]
    BY <1>1, FlushAssumption DEF Item
  <2> QED BY <2>1 DEF Item
<1>3. Distinct(order) /\ \A y : InQueue(order, y) <=> y \in sorted
  BY <1>1 DEF Drained, InQueue
<1>4. /\ s \in Seq(Item)
      /\ \A y : InQueue(s, y) <=> InQueue(queue_head, y) \/ y \in sorted
      /\ Distinct(queue_head) /\ (\A w \in sorted : ~InQueue(queue_head, w))
           => Distinct(s)
  BY <1>2, <1>3, ConcatList
<1> HIDE DEF s
<1>5. /\ Append(s, r) \in Seq(Item)
      /\ \A y : InQueue(Append(s, r), y) <=> InQueue(s, y) \/ y = r
      /\ Distinct(s) /\ ~InQueue(s, r) => Distinct(Append(s, r))
  BY <1>2, <1>4, AppendList
<1> QED BY <1>4, <1>5 DEF s

-----------------------------------------------------------------------------
(* Type correctness *)

\* TypeOK is inductive once the walk is known to have an entry to visit.
TypeInv == TypeOK /\ (walk.pc = "loop" => Walked # <<>>)

\* The part of TypeOK that blk_flush_complete_seq() assigns.
SeqTyped ==
  /\ seq \in [Rq -> SUBSET Steps]
  /\ flush_queue \in [0..1 -> Seq(Rq)]
  /\ flush_data_in_flight \subseteq Rq
  /\ pending_timed_out \in BOOLEAN
  /\ flush_pending_idx \in 0..1
  /\ queue_head \in Seq(Item)
  /\ bio \in [Rq -> {"none", "live", "ok", "error"}]
  /\ sequenced \subseteq Rq
  /\ started \subseteq Item
  /\ in_flight \in [BOOLEAN -> Int]

\* The lists keep their type when a request leaves the one it waits on.
LEMMA UnlinkedType ==
  ASSUME TypeInv, NEW r \in Rq
  PROVE  Unlinked(r) \in [0..1 -> Seq(Rq)]
<1>1. \A i \in 0..1 : flush_queue[i] \in Seq(Rq)
  BY DEF TypeInv, TypeOK
<1>2. ASSUME walk.pc = "loop" PROVE Tail(Walked) \in Seq(Rq)
  <2>1. Walked \in Seq(Rq) /\ Walked # <<>>
    BY <1>1, <1>2 DEF TypeInv, TypeOK, Walked
  <2> QED BY <2>1, TailList
<1> QED BY <1>1, <1>2 DEF Unlinked, Walked

\* blk_flush_cur_seq() is a step, or DONE.
LEMMA CurSeqType ==
  ASSUME NEW s \in SUBSET Steps
  PROVE  blk_flush_cur_seq(s) \in Steps \cup {"DONE"}
BY DEF blk_flush_cur_seq, Steps

\* elv_completed_request() keeps the counters integers.
LEMMA CompletedType ==
  ASSUME TypeOK, NEW x \in Item
  PROVE  Completed(in_flight, x) \in [BOOLEAN -> Int]
<1>1. IsSync(x) \in BOOLEAN
  BY FlushAssumption DEF IsSync
<1>2. in_flight \in [BOOLEAN -> Int]
  BY DEF TypeOK
<1>3. in_flight[IsSync(x)] \in Int
  BY <1>1, <1>2
<1> QED BY <1>1, <1>2, <1>3 DEF Completed

\* blk_flush_complete_seq() keeps the type of everything it assigns.
LEMMA CompleteSeqType ==
  ASSUME TypeInv, NEW r \in Rq, NEW before \in SUBSET Steps,
         NEW bits, NEW error \in BOOLEAN,
         bits \subseteq Steps \/ blk_flush_cur_seq(before \cup bits) = "DONE",
         blk_flush_complete_seq(r, before, bits, error)
  PROVE  SeqTyped'
<1>1. Unlinked(r) \in [0..1 -> Seq(Rq)]
  BY UnlinkedType
<1>2. flush_queue' \in [0..1 -> Seq(Rq)]
  <2>1. Append(Unlinked(r)[flush_pending_idx], r) \in Seq(Rq)
    BY <1>1, AppendList DEF TypeInv, TypeOK
  <2> QED BY <1>1, <2>1 DEF blk_flush_complete_seq
<1>3. queue_head' \in Seq(Item)
  <2>1. queue_head \in Seq(Item) /\ r \in Item /\ FlushRq \in Item
    BY DEF TypeInv, TypeOK, Item
  <2>2. <<r>> \o queue_head \in Seq(Item)
    BY <2>1, PrependList
  <2>3. /\ Append(queue_head, FlushRq) \in Seq(Item)
        /\ Append(<<r>> \o queue_head, FlushRq) \in Seq(Item)
    BY <2>1, <2>2, AppendList
  <2> QED BY <2>1, <2>2, <2>3 DEF blk_flush_complete_seq
<1>4. in_flight' \in [BOOLEAN -> Int]
  <2>1. Completed(in_flight, r) \in [BOOLEAN -> Int]
    BY CompletedType DEF TypeInv, Item
  <2> QED BY <2>1 DEF blk_flush_complete_seq, TypeInv, TypeOK
<1>5. /\ seq' \in [Rq -> SUBSET Steps]
      /\ flush_data_in_flight' \subseteq Rq
      /\ flush_pending_idx' \in 0..1
      /\ bio' \in [Rq -> {"none", "live", "ok", "error"}]
      /\ sequenced' \subseteq Rq
      /\ started' \subseteq Item
  BY DEF blk_flush_complete_seq, TypeInv, TypeOK
<1>6. pending_timed_out' \in BOOLEAN
  BY DEF blk_flush_complete_seq, TypeInv, TypeOK
<1> QED BY <1>2, <1>3, <1>4, <1>5, <1>6 DEF SeqTyped

\* A tag that blk_queue_start_tag() hands out is within the tag map.
LEMMA TagType ==
  ASSUME NEW x \in Item, NEW t \in -1..MaxDepth, blk_queue_start_tag(x, t)
  PROVE  t \in -1..(MaxDepth - 1) /\ (MaxDepth # 0 => t >= 0)
<1>1. MaxDepth \in Nat
  BY FlushAssumption
<1>2. CASE MaxDepth = 0
  BY <1>1, <1>2 DEF blk_queue_start_tag
<1>3. CASE MaxDepth # 0
  <2>1. t \in FreeTags(x)
    BY <1>3 DEF blk_queue_start_tag
  <2>2. t \in 0..(Depth(x) - 1)
    BY <2>1 DEF FreeTags
  <2>3. Depth(x) \in 0..MaxDepth
    BY <1>1, <1>3 DEF Depth, AsyncDepth
  <2> QED BY <1>1, <2>2, <2>3
<1> QED BY <1>2, <1>3

\* blk_queue_end_tag() leaves tags and tag map within the depth.
LEMMA TagEndType ==
  ASSUME TypeInv, NEW x \in Item, blk_queue_end_tag(x)
  PROVE  /\ tag' \in [Item -> -1..(MaxDepth - 1)]
         /\ tag_map' \subseteq 0..(MaxDepth - 1)
<1>1. tag \in [Item -> -1..(MaxDepth - 1)] /\ tag_map \subseteq 0..(MaxDepth - 1)
  BY DEF TypeInv, TypeOK
<1>2. -1 \in -1..(MaxDepth - 1)
  BY FlushAssumption
<1>3. tag' = [tag EXCEPT ![x] = -1] /\ tag_map' \subseteq tag_map
  BY DEF blk_queue_end_tag
<1> QED BY <1>1, <1>2, <1>3

\* The initial states have their types.
LEMMA TypeInit == Init => TypeInv
<1> SUFFICES ASSUME Init PROVE TypeInv
  OBVIOUS
<1>1. limits \in Limits /\ flush_queue \in [0..1 -> Seq(Rq)]
  BY FlushAssumption, EmptyList DEF Init
<1>2. cmd \in [Rq -> Cmd]
  BY DEF Init, Cmd
<1>3. tag \in [Item -> -1..(MaxDepth - 1)] /\ tag_map = {}
  BY FlushAssumption DEF Init
<1>4. queue_head \in Seq(Item)
  BY EmptyList DEF Init
<1>5. walk \in [pc : {"idle", "loop", "out"}, error : BOOLEAN,
                queued : BOOLEAN] /\ walk.pc # "loop"
  BY DEF Init, Idle
<1>6. submits \in 0..MaxSubmit /\ requeues \in 0..MaxRequeue
  BY FlushAssumption DEF Init
<1>7. in_flight \in [BOOLEAN -> Int]
  BY DEF Init
<1>8. /\ bio \in [Rq -> {"none", "live", "ok", "error"}]
      /\ seq \in [Rq -> SUBSET Steps]
      /\ sequenced = {} /\ flush_data_in_flight = {} /\ sorted = {}
      /\ started = {} /\ device = {} /\ landed = {} /\ durable = {}
      /\ cover = {} /\ acked \in [Rq -> SUBSET Rq]
      /\ flush_pending_idx \in 0..1 /\ flush_running_idx \in 0..1
  BY DEF Init
<1>9. /\ flush_queue_delayed \in BOOLEAN /\ pending_timed_out \in BOOLEAN
      /\ run_queue \in BOOLEAN /\ refused \in BOOLEAN
  BY DEF Init
<1> QED BY <1>1, <1>2, <1>3, <1>4, <1>5, <1>6, <1>7, <1>8, <1>9
        DEF TypeInv, TypeOK

\* What every submission does, whatever becomes of the bio.
LEMMA TypeAllocate ==
  ASSUME TypeInv, NEW r \in Rq, NEW c \in Cmds, Allocate(r, c)
  PROVE  /\ cmd' \in [Rq -> Cmd]
         /\ submits' \in 0..MaxSubmit
         /\ landed' \subseteq Rq /\ durable' \subseteq Rq
         /\ cover' \subseteq Rq
         /\ acked' \in [Rq -> SUBSET Rq]
         /\ walk' = walk /\ walk.pc = "idle"
         /\ UNCHANGED <<limits, flush_running_idx, flush_queue_delayed, tag,
                        tag_map, device, refused, requeues>>
<1>1. cmd' \in [Rq -> Cmd]
  BY FlushAssumption DEF Allocate, TypeInv, TypeOK
<1>2. submits' \in 0..MaxSubmit
  BY FlushAssumption DEF Allocate, TypeInv, TypeOK
<1>3. acked' \in [Rq -> SUBSET Rq]
  BY DEF Allocate, TypeInv, TypeOK
<1> QED BY <1>1, <1>2, <1>3 DEF Allocate, TypeInv, TypeOK, LockFree

\* Submission preserves types.
LEMMA TypeSubmit == TypeInv /\ Submit => TypeInv'
<1> SUFFICES ASSUME TypeInv, NEW r \in Rq, NEW c \in Cmds,
                    \/ SubmitNothing(r, c) \/ SubmitWrite(r, c)
                    \/ SubmitBack(r, c) \/ SubmitFlush(r, c)
             PROVE  TypeInv'
  BY DEF Submit
<1>1. CASE SubmitNothing(r, c)
  BY <1>1, TypeAllocate DEF SubmitNothing, TypeInv, TypeOK, fqVars
<1>2. CASE SubmitWrite(r, c)
  BY <1>2, TypeAllocate DEF SubmitWrite, TypeInv, TypeOK, fqVars
<1>3. CASE SubmitFlush(r, c)
  <2>1. Allocate(r, c) /\ run_queue' = TRUE /\ sorted' = sorted
    BY <1>3 DEF SubmitFlush
  <2>2. CASE /\ bio' = [bio EXCEPT ![r] = "ok"]
             /\ UNCHANGED <<seq, sequenced, queue_head, started, in_flight,
                            fqVars>>
    BY <2>1, <2>2, TypeAllocate DEF TypeInv, TypeOK, fqVars
  <2>3. CASE /\ bio' = [bio EXCEPT ![r] = "live"]
             /\ queue_head' = Append(queue_head, r)
             /\ UNCHANGED <<seq, sequenced, started, in_flight, fqVars>>
    <3>1. queue_head' \in Seq(Item)
      BY <2>3, AppendList DEF TypeInv, TypeOK, Item
    <3> QED BY <2>1, <2>3, <3>1, TypeAllocate DEF TypeInv, TypeOK, fqVars
  <2>4. CASE blk_flush_complete_seq(r, {}, Steps \ blk_flush_policy(c), FALSE)
    <3>1. SeqTyped'
      BY <2>4, CompleteSeqType
    <3> QED BY <2>1, <3>1, TypeAllocate DEF TypeInv, TypeOK, SeqTyped
  <2> QED BY <1>3, <2>2, <2>3, <2>4 DEF SubmitFlush, blk_insert_flush
<1>4. CASE SubmitBack(r, c)
  <2>1. queue_head' \in Seq(Item)
    BY <1>4, BackList DEF SubmitBack, TypeInv, TypeOK
  <2> QED BY <1>4, <2>1, TypeAllocate DEF SubmitBack, TypeInv, TypeOK, fqVars
<1> QED BY <1>1, <1>2, <1>3, <1>4

\* request_fn preserves types; a tag lies within the tag map.
LEMMA TypeRequestFn == TypeInv /\ RequestFn => TypeInv'
<1> SUFFICES ASSUME TypeInv, RequestFn PROVE TypeInv'
  OBVIOUS
<1> USE DEF TypeInv, TypeOK
<1>1. ASSUME NEW w \in Rq, ElevatorDispatch(w) PROVE TypeInv'
  <2>1. queue_head' \in Seq(Item)
    BY <1>1, EmptyList, AppendList DEF ElevatorDispatch, Item
  <2> QED BY <1>1, <2>1
          DEF ElevatorDispatch, fqVars, driveVars, diskVars, LockFree
<1>2. CASE QueueEmpty
  BY <1>2 DEF QueueEmpty, fqVars, diskVars, LockFree, Hold
<1>3. ASSUME NEW t \in -1..MaxDepth, DriverStart(t) PROVE TypeInv'
  <2> DEFINE x == Head(queue_head)
  <2>1. x \in Item /\ queue_head' \in Seq(Item)
    BY <1>3, TailList DEF DriverStart
  <2>2. /\ tag' \in [Item -> -1..(MaxDepth - 1)]
        /\ tag_map' \subseteq 0..(MaxDepth - 1)
    BY <1>3, <2>1, TagType DEF DriverStart
  <2>3. in_flight' \in [BOOLEAN -> Int]
    <3>1. IsSync(x) \in BOOLEAN
      BY FlushAssumption DEF IsSync
    <3>2. in_flight[IsSync(x)] \in Int
      BY <3>1
    <3>3. in_flight' = [in_flight EXCEPT ![IsSync(x)] = @ + 1]
      BY <1>3 DEF DriverStart
    <3> HIDE DEF x
    <3> QED BY <3>1, <3>2, <3>3
  <2> QED BY <1>3, <2>1, <2>2, <2>3 DEF DriverStart, fqVars, LockFree
<1>4. CASE DriverRefuse
  <2>1. Head(queue_head) \in Item
    BY <1>4, TailList DEF DriverRefuse
  <2> QED BY <1>4, <2>1 DEF DriverRefuse, fqVars, diskVars, LockFree
<1> QED BY <1>1, <1>2, <1>3, <1>4 DEF RequestFn

\* blk_requeue_request() preserves types.
LEMMA TypeRequeue == ASSUME TypeInv, NEW x \in Item, Requeue(x)
                     PROVE  TypeInv'
<1> USE DEF TypeInv, TypeOK
<1>1. queue_head' \in Seq(Item)
  BY PrependList DEF Requeue
<1>2. in_flight' \in [BOOLEAN -> Int]
  BY CompletedType DEF Requeue
<1>3. /\ tag' \in [Item -> -1..(MaxDepth - 1)]
      /\ tag_map' \subseteq 0..(MaxDepth - 1)
  BY TagEndType DEF Requeue
<1>4. requeues' \in 0..MaxRequeue
  BY FlushAssumption DEF Requeue
<1> QED BY <1>1, <1>2, <1>3, <1>4 DEF Requeue, fqVars, diskVars, LockFree

\* The driver's part of a completion preserves types.
LEMMA TypeRelease ==
  ASSUME TypeInv, NEW x \in Item, NEW kick \in BOOLEAN, Release(x, kick)
  PROVE  /\ device' \subseteq Item
         /\ tag' \in [Item -> -1..(MaxDepth - 1)]
         /\ tag_map' \subseteq 0..(MaxDepth - 1)
         /\ refused' \in BOOLEAN
         /\ run_queue' \in BOOLEAN
         /\ walk.pc = "idle"
<1>1. /\ tag' \in [Item -> -1..(MaxDepth - 1)]
      /\ tag_map' \subseteq 0..(MaxDepth - 1)
  BY TagEndType DEF Release
<1>2. run_queue' \in BOOLEAN /\ refused' \in BOOLEAN
  BY DEF Release, TypeInv, TypeOK
<1> QED BY <1>1, <1>2 DEF Release, LockFree, TypeInv, TypeOK

\* A write at the disk preserves types.
LEMMA TypeDiskWrote ==
  ASSUME TypeInv, NEW r \in Rq, NEW error \in BOOLEAN, DiskWrote(r, error)
  PROVE  landed' \subseteq Rq /\ durable' \subseteq Rq /\ cover' = cover
BY DEF DiskWrote, TypeInv, TypeOK

\* The completion of a request preserves types.
LEMMA TypeCompleteRq == ASSUME TypeInv, NEW r \in Rq, CompleteRq(r)
                        PROVE  TypeInv'
<1>1. ASSUME NEW error \in BOOLEAN, CompleteWrite(r, error) PROVE TypeInv'
  <2>1. Release(r, FALSE) /\ DiskWrote(r, error) /\ r \in Item
    BY <1>1 DEF CompleteWrite, Item
  <2>2. in_flight' \in [BOOLEAN -> Int]
    BY <1>1, <2>1, CompletedType DEF CompleteWrite, TypeInv
  <2>3. /\ device' \subseteq Item /\ tag' \in [Item -> -1..(MaxDepth - 1)]
        /\ tag_map' \subseteq 0..(MaxDepth - 1)
        /\ refused' \in BOOLEAN /\ run_queue' \in BOOLEAN
        /\ walk.pc = "idle"
    BY <2>1, TypeRelease
  <2>4. landed' \subseteq Rq /\ durable' \subseteq Rq /\ cover' = cover
    BY <2>1, TypeDiskWrote
  <2> QED BY <1>1, <2>2, <2>3, <2>4
          DEF CompleteWrite, TypeInv, TypeOK, fqVars
<1>2. ASSUME NEW error \in BOOLEAN, flush_data_end_io(r, error) PROVE TypeInv'
  <2>1. /\ Release(r, Queued) /\ DiskWrote(r, error) /\ r \in Item
        /\ Queued \in BOOLEAN
        /\ blk_flush_complete_seq(r, seq[r], {"DATA"}, error)
    BY <1>2 DEF flush_data_end_io, Item, Queued
  <2>2. seq[r] \in SUBSET Steps /\ {"DATA"} \in SUBSET Steps
    BY DEF TypeInv, TypeOK, Steps
  <2>3. /\ device' \subseteq Item /\ tag' \in [Item -> -1..(MaxDepth - 1)]
        /\ tag_map' \subseteq 0..(MaxDepth - 1)
        /\ refused' \in BOOLEAN /\ run_queue' \in BOOLEAN
        /\ walk.pc = "idle"
    BY <2>1, TypeRelease
  <2>4. landed' \subseteq Rq /\ durable' \subseteq Rq /\ cover' = cover
    BY <2>1, TypeDiskWrote
  <2>5. SeqTyped'
    BY <2>1, <2>2, CompleteSeqType
  <2> QED BY <1>2, <2>3, <2>4, <2>5
          DEF flush_data_end_io, TypeInv, TypeOK, SeqTyped
<1> QED BY <1>1, <1>2 DEF CompleteRq

\* flush_end_io() up to its loop preserves types.
LEMMA TypeCompleteFlush == TypeInv /\ CompleteFlush => TypeInv'
<1> SUFFICES ASSUME TypeInv, NEW error \in BOOLEAN, flush_end_io(error)
             PROVE  TypeInv'
  BY DEF CompleteFlush
<1>1. Release(FlushRq, FALSE) /\ FlushRq \in Item
  BY DEF flush_end_io, Item
<1>2. in_flight' \in [BOOLEAN -> Int]
  BY <1>1, CompletedType DEF flush_end_io, TypeInv
<1>3. flush_running_idx \in 0..1 /\ flush_running_idx' = 1 - flush_running_idx
  BY DEF flush_end_io, TypeInv, TypeOK
<1>4. walk'.pc = "loop" => Walked' # <<>>
  <2>1. 1 - flush_running_idx' = flush_running_idx
    BY <1>3
  <2>2. flush_queue' = flush_queue
    BY DEF flush_end_io, fqVars
  <2> QED BY <2>1, <2>2 DEF flush_end_io, Walked
<1>5. walk' \in [pc : {"idle", "loop", "out"}, error : BOOLEAN,
                 queued : BOOLEAN]
  BY DEF flush_end_io
<1>6. /\ device' \subseteq Item /\ tag' \in [Item -> -1..(MaxDepth - 1)]
      /\ tag_map' \subseteq 0..(MaxDepth - 1)
      /\ refused' \in BOOLEAN /\ run_queue' \in BOOLEAN
  BY <1>1, TypeRelease
<1>7. /\ durable' \subseteq Rq /\ cover' \subseteq Rq
      /\ flush_running_idx' \in 0..1
  BY <1>3 DEF flush_end_io, TypeInv, TypeOK
<1>8. UNCHANGED <<limits, cmd, bio, seq, sequenced, flush_queue,
                  flush_pending_idx, flush_data_in_flight, pending_timed_out,
                  flush_queue_delayed, queue_head, sorted, started, submits,
                  requeues, landed, acked>>
  BY DEF flush_end_io, fqVars
<1> QED BY <1>2, <1>4, <1>5, <1>6, <1>7, <1>8 DEF TypeInv, TypeOK

\* The request the walk visits.
LEMMA WalkHead ==
  ASSUME TypeInv, walk.pc = "loop"
  PROVE  /\ Walked \in Seq(Rq) /\ Walked # <<>>
         /\ Head(Walked) \in Rq
         /\ 1 - flush_running_idx \in 0..1
         /\ seq[Head(Walked)] \in SUBSET Steps
<1>1. Walked \in Seq(Rq) /\ Walked # <<>> /\ 1 - flush_running_idx \in 0..1
  BY DEF TypeInv, TypeOK, Walked
<1>2. Head(Walked) \in Rq
  BY <1>1, TailList
<1> QED BY <1>1, <1>2 DEF TypeInv, TypeOK

\* The loop of flush_end_io() and its end preserve types.
LEMMA TypeWalk == TypeInv /\ Walk => TypeInv'
<1> SUFFICES ASSUME TypeInv, Walk PROVE TypeInv'
  OBVIOUS
<1>1. CASE FlushEndIoStep
  <2> DEFINE r == Head(Walked)
             bits == {blk_flush_cur_seq(seq[r])}
  <2>1. /\ walk.pc = "loop"
        /\ blk_flush_complete_seq(r, seq[r], bits, walk.error)
    BY <1>1 DEF FlushEndIoStep
  <2>2. r \in Rq /\ seq[r] \in SUBSET Steps /\ walk.error \in BOOLEAN
    BY <2>1, WalkHead DEF TypeInv, TypeOK
  <2>3. SeqTyped'
    <3>1. bits \subseteq Steps \/ blk_flush_cur_seq(seq[r] \cup bits) = "DONE"
      BY <2>2 DEF blk_flush_cur_seq, Steps
    <3> QED BY <2>1, <2>2, <3>1, CompleteSeqType
  <2>4. walk' \in [pc : {"idle", "loop", "out"}, error : BOOLEAN,
                   queued : BOOLEAN]
    BY <1>1 DEF FlushEndIoStep, Queued, TypeInv, TypeOK
  <2>5. ASSUME walk'.pc = "loop" PROVE Walked' # <<>>
    <3>1. Len(Walked) # 1
      BY <1>1, <2>5 DEF FlushEndIoStep, TypeInv, TypeOK
    <3>2. Tail(Walked) # <<>> /\ Tail(Walked) \in Seq(Rq)
      BY <3>1, <2>1, WalkHead, TailList
    <3>3. /\ Unlinked(r)[1 - flush_running_idx] = Tail(Walked)
          /\ Unlinked(r) \in [0..1 -> Seq(Rq)]
      BY <2>1, <2>2, WalkHead, UnlinkedType DEF Unlinked, Walked
    <3>4. Append(Tail(Walked), r) # <<>>
      BY <3>2, <2>2, AppendList
    <3>5. /\ flush_running_idx' = flush_running_idx
          /\ \/ flush_queue' = Unlinked(r)
             \/ flush_queue' = [Unlinked(r) EXCEPT ![flush_pending_idx]
                                                     = Append(@, r)]
      BY <1>1, <2>1 DEF FlushEndIoStep, blk_flush_complete_seq
    <3>6. flush_pending_idx \in 0..1 /\ 1 - flush_running_idx \in 0..1
      BY <2>1, WalkHead DEF TypeInv, TypeOK
    <3> QED BY <3>2, <3>3, <3>4, <3>5, <3>6 DEF Walked
  <2> QED BY <1>1, <2>3, <2>4, <2>5
          DEF FlushEndIoStep, TypeInv, TypeOK, SeqTyped, driveVars, diskVars
<1>2. CASE FlushEndIoOut
  BY <1>2 DEF FlushEndIoOut, TypeInv, TypeOK, fqVars, diskVars, Idle
<1> QED BY <1>1, <1>2 DEF Walk

\* Every step preserves types.
LEMMA TypeStep == TypeInv /\ [Next]_vars => TypeInv'
<1> SUFFICES ASSUME TypeInv, [Next]_vars PROVE TypeInv'
  OBVIOUS
<1>1. CASE PendingTimeout
  BY <1>1 DEF PendingTimeout, TypeInv, TypeOK, driveVars, diskVars, Walked
<1>2. CASE UNCHANGED vars
  BY <1>2 DEF vars, TypeInv, TypeOK, Walked
<1> QED BY <1>1, <1>2, TypeSubmit, TypeRequestFn, TypeRequeue,
           TypeCompleteRq, TypeCompleteFlush, TypeWalk DEF Next

\* Every variable keeps its type: in particular the indices stay within
\* flush_queue[2], every tag within the tag map, and the walk of
\* flush_end_io() never reads past the end of its list.
THEOREM TypeCorrect == Spec => []TypeOK
<1>1. TypeInv => TypeOK
  BY DEF TypeInv
<1> QED BY <1>1, TypeInit, TypeStep, PTL DEF Spec

-----------------------------------------------------------------------------
(* Where requests are *)

\* The step blk_flush_complete_seq() goes on to.
NextStep(before, bits, error) ==
  IF error THEN "DONE" ELSE blk_flush_cur_seq(before \cup bits)

\* What blk_flush_complete_seq() assigns, apart from the lists.
LEMMA CompleteSeqFields ==
  ASSUME NEW r, NEW before, NEW bits, NEW error,
         blk_flush_complete_seq(r, before, bits, error)
  PROVE  LET step == NextStep(before, bits, error)
         IN  /\ step \in Steps \cup {"DONE"}
             /\ seq' = [seq EXCEPT ![r] = IF step = "DONE" THEN {}
                                          ELSE before \cup bits]
             /\ bio' = [bio EXCEPT ![r] = IF step # "DONE" THEN "live"
                                          ELSE IF error THEN "error" ELSE "ok"]
             /\ sequenced' = IF step = "DONE" THEN sequenced \ {r}
                                              ELSE sequenced \cup {r}
             /\ flush_data_in_flight' =
                  IF step = "DATA" THEN flush_data_in_flight \cup {r}
                                   ELSE flush_data_in_flight \ {r}
             /\ \/ flush_pending_idx' = flush_pending_idx
                \/ /\ flush_pending_idx' = 1 - flush_pending_idx
                   /\ flush_pending_idx = flush_running_idx
<1>1. NextStep(before, bits, error) \in Steps \cup {"DONE"}
  BY DEF NextStep, blk_flush_cur_seq, Steps
<1> QED BY <1>1 DEF blk_flush_complete_seq, NextStep, blk_kick_flush

\* The flush queues after blk_flush_complete_seq(): the request has left the
\* one it was on, and waits on the pending one if its next step is a flush.
LEMMA CompleteSeqWaiting ==
  ASSUME TypeInv, PlaceInv, NEW r \in Rq, NEW before, NEW bits, NEW error,
         blk_flush_complete_seq(r, before, bits, error),
         walk.pc = "loop" => r = Head(Walked),
         walk.pc # "loop" => ~Waiting(r)
  PROVE  \A i \in 0..1 :
           /\ Distinct(flush_queue'[i])
           /\ \A y \in Rq : InQueue(flush_queue'[i], y) <=>
                \/ y # r /\ InQueue(flush_queue[i], y)
                \/ /\ y = r /\ i = flush_pending_idx
                   /\ NextStep(before, bits, error) \in {"PREFLUSH", "POSTFLUSH"}
<1> DEFINE L == Unlinked(r)
           wait == NextStep(before, bits, error) \in {"PREFLUSH", "POSTFLUSH"}
<1>1. L \in [0..1 -> Seq(Rq)] /\ flush_pending_idx \in 0..1
  BY UnlinkedType DEF TypeInv, TypeOK
<1>2. ASSUME NEW i \in 0..1
      PROVE  /\ Distinct(L[i])
             /\ \A y \in Rq : InQueue(L[i], y)
                                <=> y # r /\ InQueue(flush_queue[i], y)
  <2>1. Distinct(flush_queue[i]) /\ flush_queue[i] \in Seq(Rq)
    BY DEF PlaceInv, TypeInv, TypeOK
  <2>2. CASE walk.pc = "loop" /\ i = 1 - flush_running_idx
    <3>1. L[i] = Tail(Walked) /\ flush_queue[i] = Walked /\ Walked # <<>>
      BY <2>2 DEF Unlinked, Walked, TypeInv
    <3> QED BY <3>1, <2>1, <2>2, TailList
  <2>3. CASE walk.pc = "loop" /\ i # 1 - flush_running_idx
    <3>1. L[i] = flush_queue[i]
      BY <2>3 DEF Unlinked
    <3>2. InQueue(Walked, r)
      BY <2>3, WalkHead, TailList
    <3>3. ~InQueue(flush_queue[i], r)
      BY <2>3, <3>2, WalkHead DEF Walked, PlaceInv
    <3> QED BY <3>1, <3>3, <2>1
  <2>4. CASE walk.pc # "loop"
    <3>1. L[i] = flush_queue[i]
      BY <2>4 DEF Unlinked
    <3>2. ~InQueue(flush_queue[i], r)
      BY <2>4 DEF Waiting
    <3> QED BY <3>1, <3>2, <2>1
  <2> QED BY <2>2, <2>3, <2>4
<1>3. flush_queue' = IF wait THEN [L EXCEPT ![flush_pending_idx] = Append(@, r)]
                             ELSE L
  BY DEF blk_flush_complete_seq, NextStep
<1> HIDE DEF L, wait
<1>4. ASSUME NEW i \in 0..1
      PROVE  /\ Distinct(flush_queue'[i])
             /\ \A y \in Rq : InQueue(flush_queue'[i], y) <=>
                  \/ y # r /\ InQueue(flush_queue[i], y)
                  \/ y = r /\ i = flush_pending_idx /\ wait
  <2>1. CASE wait /\ i = flush_pending_idx
    <3>1. flush_queue'[i] = Append(L[i], r)
      BY <2>1, <1>1, <1>3
    <3>2. Distinct(L[i]) /\ ~InQueue(L[i], r) /\ L[i] \in Seq(Rq)
      BY <1>1, <1>2
    <3>3. /\ Distinct(Append(L[i], r))
          /\ \A y : InQueue(Append(L[i], r), y) <=> InQueue(L[i], y) \/ y = r
      BY <3>2, AppendList
    <3> QED BY <3>1, <3>3, <2>1, <1>2
  <2>2. CASE ~(wait /\ i = flush_pending_idx)
    <3>1. flush_queue'[i] = L[i]
      BY <2>2, <1>1, <1>3
    <3> QED BY <3>1, <2>2, <1>2
  <2> QED BY <2>1, <2>2
<1> QED BY <1>4 DEF wait

\* The dispatch queue after blk_flush_complete_seq(): it gains the request
\* for its DATA step, and flush_rq when a flush is issued.
LEMMA CompleteSeqQueue ==
  ASSUME TypeInv, PlaceInv, NEW r \in Rq, NEW before, NEW bits, NEW error,
         blk_flush_complete_seq(r, before, bits, error),
         ~InQueue(queue_head, r)
  PROVE  /\ Distinct(queue_head')
         /\ \A y : InQueue(queue_head', y) <=>
              \/ InQueue(queue_head, y)
              \/ y = r /\ NextStep(before, bits, error) = "DATA"
              \/ y = FlushRq /\ flush_pending_idx' # flush_pending_idx
<1> DEFINE data == NextStep(before, bits, error) = "DATA"
           head == IF data THEN <<r>> \o queue_head ELSE queue_head
           kick == flush_pending_idx' # flush_pending_idx
<1>1. queue_head \in Seq(Item) /\ r \in Item /\ FlushRq \in Item /\ r # FlushRq
  BY FlushAssumption DEF TypeInv, TypeOK, Item
<1>2. Distinct(queue_head)
  BY DEF PlaceInv
<1>3. queue_head' = IF kick THEN Append(head, FlushRq) ELSE head
  BY DEF blk_flush_complete_seq, NextStep, TypeInv, TypeOK
<1>4. ASSUME kick PROVE ~InQueue(queue_head, FlushRq)
  BY <1>4, CompleteSeqFields DEF PlaceInv, SingleFlush
<1> HIDE DEF kick
<1>5. /\ head \in Seq(Item) /\ Distinct(head)
      /\ \A y : InQueue(head, y) <=> InQueue(queue_head, y) \/ (y = r /\ data)
  <2> HIDE DEF data
  <2>1. CASE data
    BY <2>1, <1>1, <1>2, PrependList
  <2>2. CASE ~data
    BY <2>2, <1>1, <1>2
  <2> QED BY <2>1, <2>2
<1> HIDE DEF head, data
<1>6. CASE kick
  <2>1. ~InQueue(head, FlushRq)
    BY <1>1, <1>4, <1>5, <1>6
  <2>2. /\ Distinct(Append(head, FlushRq))
        /\ \A y : InQueue(Append(head, FlushRq), y)
                    <=> InQueue(head, y) \/ y = FlushRq
    BY <1>1, <1>5, <2>1, AppendList
  <2> QED BY <1>3, <1>5, <1>6, <2>2 DEF kick, data
<1>7. CASE ~kick
  BY <1>3, <1>5, <1>7 DEF kick, data
<1> QED BY <1>6, <1>7

\* blk_flush_complete_seq() keeps every request in its one place.
LEMMA CompleteSeqPlace ==
  ASSUME TypeInv, PlaceInv, NEW r \in Rq, NEW before, NEW bits, NEW error,
         blk_flush_complete_seq(r, before, bits, error),
         walk.pc = "loop" => r = Head(Walked),
         walk.pc # "loop" => ~Waiting(r),
         ~InQueue(queue_head, r), r \notin sorted,
         device' = device \ {r}, sorted' = sorted,
         flush_running_idx' = flush_running_idx
  PROVE  PlaceInv'
<1> DEFINE step == NextStep(before, bits, error)
           wait == step \in {"PREFLUSH", "POSTFLUSH"}
<1>1. /\ step \in Steps \cup {"DONE"}
      /\ bio' = [bio EXCEPT ![r] = IF step # "DONE" THEN "live"
                                   ELSE IF error THEN "error" ELSE "ok"]
      /\ sequenced' = IF step = "DONE" THEN sequenced \ {r}
                                       ELSE sequenced \cup {r}
      /\ flush_data_in_flight' =
           IF step = "DATA" THEN flush_data_in_flight \cup {r}
                            ELSE flush_data_in_flight \ {r}
      /\ \/ flush_pending_idx' = flush_pending_idx
         \/ /\ flush_pending_idx' = 1 - flush_pending_idx
            /\ flush_pending_idx = flush_running_idx
  BY CompleteSeqFields
<1>2. \A i \in 0..1 :
        /\ Distinct(flush_queue'[i])
        /\ \A y \in Rq : InQueue(flush_queue'[i], y) <=>
             \/ y # r /\ InQueue(flush_queue[i], y)
             \/ y = r /\ i = flush_pending_idx /\ wait
  BY CompleteSeqWaiting
<1>3. /\ Distinct(queue_head')
      /\ \A y : InQueue(queue_head', y) <=>
           \/ InQueue(queue_head, y)
           \/ y = r /\ step = "DATA"
           \/ y = FlushRq /\ flush_pending_idx' # flush_pending_idx
  BY CompleteSeqQueue
<1>4. wait <=> step # "DATA" /\ step # "DONE"
  BY <1>1 DEF Steps
<1> HIDE DEF step, wait
<1>5. /\ r # FlushRq /\ FlushRq \notin Rq
      /\ flush_pending_idx \in 0..1 /\ flush_running_idx \in 0..1
  BY FlushAssumption DEF TypeInv, TypeOK
<1>6. bio \in [Rq -> {"none", "live", "ok", "error"}]
  BY DEF TypeInv, TypeOK
<1>7. \A y \in Rq : Waiting(y)' <=> \/ y # r /\ Waiting(y)
                                    \/ y = r /\ wait
  BY <1>2, <1>5 DEF Waiting
<1>8. SingleFlush'
  <2>1. InQueue(queue_head', FlushRq) <=>
          \/ InQueue(queue_head, FlushRq)
          \/ flush_pending_idx' # flush_pending_idx
    BY <1>3, <1>5
  <2>2. FlushRq \in device' <=> FlushRq \in device
    BY <1>5
  <2> QED BY <2>1, <2>2, <1>1, <1>5 DEF PlaceInv, SingleFlush
<1>9. \A y \in Rq : ~(InQueue(flush_queue'[0], y) /\ InQueue(flush_queue'[1], y))
  BY <1>2 DEF PlaceInv
<1>10. ASSUME NEW y \in Rq, y # r
       PROVE  /\ y \in sequenced' <=> y \in sequenced
              /\ y \in flush_data_in_flight' <=> y \in flush_data_in_flight
              /\ InQueue(queue_head', y) <=> InQueue(queue_head, y)
              /\ y \in device' <=> y \in device
              /\ y \in sorted' <=> y \in sorted
              /\ bio'[y] = bio[y]
              /\ Waiting(y)' <=> Waiting(y)
  BY <1>1, <1>3, <1>5, <1>6, <1>7, <1>10
<1>11. /\ r \in sequenced' <=> step # "DONE"
       /\ r \in flush_data_in_flight' <=> step = "DATA"
       /\ InQueue(queue_head', r) <=> step = "DATA"
       /\ r \notin device'
       /\ r \notin sorted'
       /\ bio'[r] = "live" <=> step # "DONE"
       /\ Waiting(r)' <=> wait
  BY <1>1, <1>3, <1>5, <1>6, <1>7
<1>12. \A y \in Rq :
         /\ y \in sequenced' <=> Waiting(y)' \/ y \in flush_data_in_flight'
         /\ ~(Waiting(y)' /\ y \in flush_data_in_flight')
         /\ y \in flush_data_in_flight'
              => InQueue(queue_head', y) \/ y \in device'
         /\ Waiting(y)' => ~InQueue(queue_head', y) /\ y \notin device'
         /\ ~(InQueue(queue_head', y) /\ y \in device')
         /\ y \in sorted' => /\ ~InQueue(queue_head', y)
                             /\ y \notin device' /\ y \notin sequenced'
         /\ bio'[y] = "live" <=> \/ y \in sorted' \/ y \in device'
                                 \/ InQueue(queue_head', y) \/ Waiting(y)'
  <2> TAKE y \in Rq
  <2>1. CASE y = r
    BY <2>1, <1>4, <1>11
  <2>2. CASE y # r
    BY <2>2, <1>10 DEF PlaceInv
  <2> QED BY <2>1, <2>2
<1>13. sorted' \subseteq Rq
  BY DEF TypeInv, TypeOK
<1> QED BY <1>2, <1>3, <1>8, <1>9, <1>12, <1>13 DEF PlaceInv

\* A request that is free to be allocated is on no list at all.
LEMMA FreeIsNowhere ==
  ASSUME TypeInv, PlaceInv, NEW r \in Rq, bio[r] # "live"
  PROVE  /\ r \notin sorted /\ r \notin device /\ r \notin sequenced
         /\ ~InQueue(queue_head, r) /\ ~Waiting(r)
         /\ r \notin flush_data_in_flight
BY DEF PlaceInv

\* All lists are empty at first.
LEMMA PlaceInit == Init => PlaceInv /\ WalkInv
<1> SUFFICES ASSUME Init PROVE PlaceInv /\ WalkInv
  OBVIOUS
<1>1. \A y : ~InQueue(queue_head, y)
  BY EmptyList DEF Init
<1>2. \A i \in 0..1 : flush_queue[i] = <<>>
  BY DEF Init
<1>3. \A r \in Rq : ~Waiting(r)
  BY <1>2, EmptyList DEF Waiting
<1>4. SingleFlush
  BY <1>1 DEF Init, SingleFlush
<1>5. WalkInv
  BY DEF Init, WalkInv, Idle
<1>6. \A i \in 0..1 : Distinct(flush_queue[i])
  BY <1>2, EmptyList
<1>7. \A r \in Rq : ~InQueue(flush_queue[0], r)
  BY <1>2, EmptyList
<1>8. /\ sequenced = {} /\ flush_data_in_flight = {} /\ sorted = {}
      /\ device = {} /\ \A r \in Rq : bio[r] = "none"
      /\ Distinct(queue_head)
  BY EmptyList DEF Init
<1> QED BY <1>1, <1>3, <1>4, <1>5, <1>6, <1>7, <1>8 DEF PlaceInv

\* A new request, found on no list, is put on one.
LEMMA PlaceSubmit ==
  ASSUME TypeInv, PlaceInv, WalkInv, Submit PROVE PlaceInv' /\ WalkInv'
<1>1. PICK r \in Rq, c \in Cmds :
        \/ SubmitNothing(r, c) \/ SubmitWrite(r, c)
        \/ SubmitBack(r, c) \/ SubmitFlush(r, c)
  BY DEF Submit
<1>2. /\ bio[r] # "live" /\ walk' = walk /\ walk.pc = "idle"
      /\ device' = device /\ flush_running_idx' = flush_running_idx
  BY <1>1 DEF SubmitNothing, SubmitWrite, SubmitBack, SubmitFlush, Allocate, LockFree
<1>3. WalkInv'
  BY <1>2 DEF WalkInv
<1>4. /\ r \notin sorted /\ r \notin device /\ r \notin sequenced
      /\ ~InQueue(queue_head, r) /\ ~Waiting(r)
      /\ r \notin flush_data_in_flight
  BY <1>2, FreeIsNowhere
<1>5. bio \in [Rq -> {"none", "live", "ok", "error"}]
  BY DEF TypeInv, TypeOK
<1>6. ASSUME UNCHANGED <<sequenced, queue_head, fqVars, sorted>>,
             bio' = [bio EXCEPT ![r] = "ok"]
      PROVE  PlaceInv'
  BY <1>2, <1>4, <1>5, <1>6 DEF PlaceInv, SingleFlush, Waiting, fqVars
<1>7. CASE SubmitNothing(r, c)
  BY <1>3, <1>6, <1>7 DEF SubmitNothing
<1>8. CASE SubmitWrite(r, c)
  <2>1. PlaceInv'
    BY <1>2, <1>4, <1>5, <1>8
       DEF SubmitWrite, PlaceInv, SingleFlush, Waiting, fqVars
  <2> QED BY <1>3, <2>1
<1>9. CASE SubmitFlush(r, c)
  <2>1. sorted' = sorted
    BY <1>9 DEF SubmitFlush
  <2>2. CASE /\ bio' = [bio EXCEPT ![r] = "ok"]
             /\ UNCHANGED <<seq, sequenced, queue_head, started, in_flight,
                            fqVars>>
    BY <1>3, <1>6, <2>1, <2>2
  <2>3. CASE /\ bio' = [bio EXCEPT ![r] = "live"]
             /\ queue_head' = Append(queue_head, r)
             /\ UNCHANGED <<seq, sequenced, started, in_flight, fqVars>>
    <3>1. /\ Distinct(queue_head')
          /\ \A y : InQueue(queue_head', y) <=> InQueue(queue_head, y) \/ y = r
      <4>1. queue_head \in Seq(Item) /\ r \in Item /\ Distinct(queue_head)
        BY DEF TypeInv, TypeOK, PlaceInv, Item
      <4> QED BY <2>3, <1>4, <4>1, AppendList
    <3>2. r # FlushRq
      BY FlushAssumption
    <3>3. PlaceInv'
      BY <1>2, <1>4, <1>5, <2>1, <2>3, <3>1, <3>2
         DEF PlaceInv, SingleFlush, Waiting, fqVars
    <3> QED BY <1>3, <3>3
  <2>4. CASE blk_flush_complete_seq(r, {}, Steps \ blk_flush_policy(c), FALSE)
    <3>1. device' = device \ {r}
      BY <1>2, <1>4
    <3>2. PlaceInv'
      BY <1>2, <1>4, <2>1, <2>4, <3>1, CompleteSeqPlace
    <3> QED BY <1>3, <3>2
  <2> QED BY <1>9, <2>2, <2>3, <2>4 DEF SubmitFlush, blk_insert_flush
<1>10. CASE SubmitBack(r, c)
  <2>1. queue_head \in Seq(Item) /\ sorted \subseteq Rq /\ r # FlushRq
        /\ FlushRq \notin sorted
    BY FlushAssumption DEF TypeInv, TypeOK
  <2>2. /\ Distinct(queue_head')
        /\ \A y : InQueue(queue_head', y)
                   <=> InQueue(queue_head, y) \/ y \in sorted \/ y = r
    BY <1>4, <1>10, <2>1, BackList DEF SubmitBack, PlaceInv
  <2>3. PlaceInv'
    BY <1>2, <1>4, <1>5, <1>10, <2>1, <2>2
       DEF SubmitBack, PlaceInv, SingleFlush, Waiting, fqVars
  <2> QED BY <1>3, <2>3
<1> QED BY <1>1, <1>7, <1>8, <1>9, <1>10

\* A request moves from the dispatch queue to the driver, or back, or from
\* the scheduler to the dispatch queue; the flush queues do not change.
LEMMA PlaceRequestFn ==
  ASSUME TypeInv, PlaceInv, WalkInv, RequestFn PROVE PlaceInv' /\ WalkInv'
<1>1. /\ LockFree /\ walk' = walk /\ bio' = bio /\ sequenced' = sequenced
      /\ flush_queue' = flush_queue /\ flush_pending_idx' = flush_pending_idx
      /\ flush_data_in_flight' = flush_data_in_flight
      /\ flush_running_idx' = flush_running_idx
  BY DEF RequestFn, ElevatorDispatch, DriverStart, QueueEmpty, DriverRefuse,
         fqVars
<1>2. WalkInv'
  BY <1>1 DEF WalkInv, LockFree
<1>3. \A y : Waiting(y)' <=> Waiting(y)
  BY <1>1 DEF Waiting
<1>4. FlushRq \notin Rq /\ queue_head \in Seq(Item)
  BY FlushAssumption DEF TypeInv, TypeOK
<1>5. ASSUME NEW w \in Rq, ElevatorDispatch(w) PROVE PlaceInv'
  <2>1. /\ queue_head = <<>> /\ queue_head' = <<w>> /\ w \in sorted
        /\ sorted' = sorted \ {w} /\ device' = device
    BY <1>5 DEF ElevatorDispatch, driveVars
  <2>2. \A y : ~InQueue(queue_head, y)
    BY <2>1, EmptyList
  <2>3. Distinct(queue_head') /\ \A y : InQueue(queue_head', y) <=> y = w
    BY <2>1 DEF InQueue, Distinct
  <2>4. w # FlushRq
    BY <1>4
  <2> QED BY <1>1, <1>3, <2>1, <2>2, <2>3, <2>4 DEF PlaceInv, SingleFlush
<1>6. CASE QueueEmpty \/ DriverRefuse
  <2>1. queue_head' = queue_head /\ sorted' = sorted /\ device' = device
    BY <1>6 DEF QueueEmpty, DriverRefuse
  <2> QED BY <1>1, <1>2, <1>3, <2>1 DEF PlaceInv, SingleFlush
<1>7. ASSUME NEW t \in -1..MaxDepth, DriverStart(t) PROVE PlaceInv'
  <2> DEFINE x == Head(queue_head)
  <2>1. /\ queue_head # <<>> /\ queue_head' = Tail(queue_head)
        /\ device' = device \cup {x} /\ sorted' = sorted
    BY <1>7 DEF DriverStart
  <2>2. /\ InQueue(queue_head, x) /\ x \in Item /\ Distinct(queue_head')
        /\ \A y : InQueue(queue_head', y) <=> InQueue(queue_head, y) /\ y # x
    BY <2>1, <1>4, TailList DEF PlaceInv
  <2> HIDE DEF x
  <2>3. \A y : /\ y # x => (y \in device' <=> y \in device)
               /\ y # x => (InQueue(queue_head', y) <=> InQueue(queue_head, y))
               /\ y = x => /\ InQueue(queue_head, y) /\ y \in device'
                           /\ ~InQueue(queue_head', y)
    BY <2>1, <2>2
  <2>4. SingleFlush'
    BY <1>1, <2>3 DEF PlaceInv, SingleFlush
  <2> QED BY <1>1, <1>3, <2>1, <2>2, <2>3, <2>4 DEF PlaceInv
<1> QED BY <1>2, <1>5, <1>6, <1>7 DEF RequestFn

\* A requeued request goes from the driver to queue_head.
LEMMA PlaceRequeue ==
  ASSUME TypeInv, PlaceInv, WalkInv, NEW x \in Item, Requeue(x)
  PROVE  PlaceInv' /\ WalkInv'
<1>1. /\ walk' = walk /\ bio' = bio /\ sequenced' = sequenced
      /\ flush_queue' = flush_queue /\ flush_pending_idx' = flush_pending_idx
      /\ flush_data_in_flight' = flush_data_in_flight
      /\ flush_running_idx' = flush_running_idx /\ sorted' = sorted
      /\ walk.pc = "idle" /\ x \in device /\ device' = device \ {x}
      /\ queue_head' = <<x>> \o queue_head
  BY DEF Requeue, fqVars, LockFree
<1>2. WalkInv'
  BY <1>1 DEF WalkInv
<1>3. \A y : Waiting(y)' <=> Waiting(y)
  BY <1>1 DEF Waiting
<1>4. ~InQueue(queue_head, x)
  BY <1>1 DEF PlaceInv, SingleFlush, Item
<1>5. /\ Distinct(queue_head')
      /\ \A y : InQueue(queue_head', y) <=> InQueue(queue_head, y) \/ y = x
  BY <1>1, <1>4, PrependList DEF TypeInv, TypeOK, PlaceInv
<1>6. SingleFlush'
  BY <1>1, <1>4, <1>5 DEF PlaceInv, SingleFlush
<1>7. PlaceInv'
  BY <1>1, <1>3, <1>4, <1>5, <1>6 DEF PlaceInv
<1> QED BY <1>2, <1>7

\* The driver gives a request back: one outside the sequencer is freed, one
\* in its DATA step goes on to the next step.
LEMMA PlaceCompleteRq ==
  ASSUME TypeInv, PlaceInv, WalkInv, NEW r \in Rq, CompleteRq(r)
  PROVE  PlaceInv' /\ WalkInv'
<1>1. PICK error \in BOOLEAN : CompleteWrite(r, error) \/ flush_data_end_io(r, error)
  BY DEF CompleteRq
<1>2. /\ walk' = walk /\ walk.pc = "idle" /\ r \in device
      /\ device' = device \ {r} /\ sorted' = sorted
      /\ flush_running_idx' = flush_running_idx
  BY <1>1 DEF CompleteWrite, flush_data_end_io, Release, LockFree
<1>3. WalkInv'
  BY <1>2 DEF WalkInv
<1>4. /\ r # FlushRq /\ ~InQueue(queue_head, r) /\ r \notin sorted
      /\ ~Waiting(r)
  BY <1>2, FlushAssumption DEF PlaceInv
<1>5. CASE CompleteWrite(r, error)
  <2>1. /\ r \notin sequenced
        /\ bio' = [bio EXCEPT ![r] = IF error THEN "error" ELSE "ok"]
        /\ sequenced' = sequenced /\ queue_head' = queue_head
        /\ flush_queue' = flush_queue /\ flush_pending_idx' = flush_pending_idx
        /\ flush_data_in_flight' = flush_data_in_flight
    BY <1>5 DEF CompleteWrite, fqVars
  <2>2. /\ bio'[r] # "live"
        /\ \A y \in Rq : y # r => bio'[y] = bio[y]
    BY <2>1 DEF TypeInv, TypeOK
  <2>3. \A y : Waiting(y)' <=> Waiting(y)
    BY <2>1 DEF Waiting
  <2>4. SingleFlush'
    BY <1>2, <1>4, <2>1 DEF PlaceInv, SingleFlush
  <2>5. PlaceInv'
    BY <1>2, <1>4, <2>1, <2>2, <2>3, <2>4 DEF PlaceInv
  <2> QED BY <1>3, <2>5
<1>6. CASE flush_data_end_io(r, error)
  <2>1. blk_flush_complete_seq(r, seq[r], {"DATA"}, error)
    BY <1>6 DEF flush_data_end_io
  <2>2. PlaceInv'
    BY <1>2, <1>4, <2>1, CompleteSeqPlace
  <2> QED BY <1>3, <2>2
<1> QED BY <1>1, <1>5, <1>6

\* flush_end_io() takes flush_rq from the driver and toggles the index.
LEMMA PlaceCompleteFlush ==
  ASSUME TypeInv, PlaceInv, WalkInv, CompleteFlush PROVE PlaceInv' /\ WalkInv'
<1>1. PICK error \in BOOLEAN : flush_end_io(error)
  BY DEF CompleteFlush
<1>2. /\ FlushRq \in device /\ device' = device \ {FlushRq}
      /\ bio' = bio /\ sequenced' = sequenced /\ sorted' = sorted
      /\ flush_queue' = flush_queue /\ flush_pending_idx' = flush_pending_idx
      /\ flush_data_in_flight' = flush_data_in_flight
      /\ queue_head' = queue_head
      /\ flush_running_idx' = 1 - flush_running_idx
  BY <1>1 DEF flush_end_io, Release, fqVars
<1>3. FlushRq \notin Rq /\ flush_pending_idx \in 0..1 /\ flush_running_idx \in 0..1
  BY FlushAssumption DEF TypeInv, TypeOK
<1>4. SingleFlush'
  BY <1>2, <1>3 DEF PlaceInv, SingleFlush
<1>5. \A y : Waiting(y)' <=> Waiting(y)
  BY <1>2 DEF Waiting
<1>6. sorted \subseteq Rq /\ \A y \in Rq : y \in device' <=> y \in device
  BY <1>2, <1>3 DEF TypeInv, TypeOK
<1>7. PlaceInv'
  BY <1>2, <1>4, <1>5, <1>6 DEF PlaceInv
<1>8. TypeInv'
  BY TypeCompleteFlush
<1>9. WalkInv'
  BY <1>2, <1>8 DEF WalkInv, TypeInv
<1> QED BY <1>7, <1>9

\* A turn of the walk moves its entry from one list to another, or ends it.
LEMMA PlaceWalk ==
  ASSUME TypeInv, PlaceInv, WalkInv, Walk PROVE PlaceInv' /\ WalkInv'
<1>1. CASE FlushEndIoStep
  <2> DEFINE r == Head(Walked)
  <2>1. /\ walk.pc = "loop"
        /\ blk_flush_complete_seq(r, seq[r], {blk_flush_cur_seq(seq[r])},
                                  walk.error)
        /\ device' = device /\ sorted' = sorted
        /\ flush_running_idx' = flush_running_idx
    BY <1>1 DEF FlushEndIoStep, driveVars
  <2>2. r \in Rq /\ Waiting(r)
    BY <2>1, WalkHead, TailList DEF Waiting, Walked
  <2>3. r \notin device /\ ~InQueue(queue_head, r) /\ r \notin sorted
    BY <2>2 DEF PlaceInv
  <2>4. device' = device \ {r}
    BY <2>1, <2>3
  <2>5. PlaceInv'
    BY <2>1, <2>2, <2>3, <2>4, CompleteSeqPlace
  <2>6. TypeInv'
    BY <1>1, TypeWalk DEF Walk
  <2>7. WalkInv'
    BY <2>1, <2>6 DEF WalkInv, TypeInv
  <2> QED BY <2>5, <2>7
<1>2. CASE FlushEndIoOut
  <2>1. /\ walk'.pc = "idle"
        /\ bio' = bio /\ sequenced' = sequenced /\ sorted' = sorted
        /\ flush_queue' = flush_queue /\ flush_pending_idx' = flush_pending_idx
        /\ flush_data_in_flight' = flush_data_in_flight
        /\ queue_head' = queue_head /\ device' = device
        /\ flush_running_idx' = flush_running_idx
    BY <1>2 DEF FlushEndIoOut, Idle, fqVars
  <2>2. WalkInv'
    BY <2>1 DEF WalkInv
  <2> QED BY <2>1, <2>2 DEF PlaceInv, SingleFlush, Waiting
<1> QED BY <1>1, <1>2 DEF Walk

\* PlaceInv is inductive on top of the types.
LEMMA PlaceStep ==
  TypeInv /\ PlaceInv /\ WalkInv /\ [Next]_vars => PlaceInv' /\ WalkInv'
<1> SUFFICES ASSUME TypeInv, PlaceInv, WalkInv, [Next]_vars
             PROVE  PlaceInv' /\ WalkInv'
  OBVIOUS
<1>1. CASE PendingTimeout \/ UNCHANGED vars
  <2>1. /\ walk' = walk
        /\ bio' = bio /\ sequenced' = sequenced /\ sorted' = sorted
        /\ flush_queue' = flush_queue /\ flush_pending_idx' = flush_pending_idx
        /\ flush_data_in_flight' = flush_data_in_flight
        /\ queue_head' = queue_head /\ device' = device
        /\ flush_running_idx' = flush_running_idx
    BY <1>1 DEF PendingTimeout, vars, driveVars
  <2>2. WalkInv'
    BY <2>1 DEF WalkInv, Walked
  <2> QED BY <2>1, <2>2 DEF PlaceInv, SingleFlush, Waiting
<1> QED BY <1>1, PlaceSubmit, PlaceRequestFn, PlaceRequeue, PlaceCompleteRq,
           PlaceCompleteFlush, PlaceWalk DEF Next

\* C1: the one preallocated flush_rq is never on the dispatch queue twice,
\* never there and at the driver at once, and in use exactly while
\* flush_pending_idx and flush_running_idx differ.
THEOREM OneFlushInProgress == Spec => []SingleFlush
<1>1. TypeInv /\ PlaceInv /\ WalkInv => SingleFlush
  BY DEF PlaceInv
<1> QED BY <1>1, TypeInit, TypeStep, PlaceInit, PlaceStep, PTL DEF Spec

\* The places of a request, from PlaceInv.
LEMMA PlacesOne == TypeInv /\ PlaceInv => OnePlace
<1> SUFFICES ASSUME TypeInv, PlaceInv PROVE OnePlace
  OBVIOUS
<1>1. ASSUME NEW r \in Rq
      PROVE  /\ bio[r] = "live" <=> Places(r) # {}
             /\ \A p, q \in Places(r) : p = q
  <2>1. Waiting(r) <=> InQueue(flush_queue[0], r) \/ InQueue(flush_queue[1], r)
    BY DEF Waiting
  <2>2. bio[r] = "live" <=> Places(r) # {}
    <3>1. bio[r] = "live" <=> \/ r \in sorted \/ r \in device
                              \/ InQueue(queue_head, r) \/ Waiting(r)
      BY DEF PlaceInv
    <3> QED BY <2>1, <3>1 DEF Places
  <2>3. ASSUME NEW p \in Places(r), NEW q \in Places(r) PROVE p = q
    <3>1. /\ ~(InQueue(flush_queue[0], r) /\ InQueue(flush_queue[1], r))
          /\ Waiting(r) => /\ ~InQueue(queue_head, r) /\ r \notin device
                           /\ r \in sequenced
          /\ ~(InQueue(queue_head, r) /\ r \in device)
          /\ r \in sorted => /\ ~InQueue(queue_head, r)
                             /\ r \notin device /\ r \notin sequenced
      BY DEF PlaceInv
    <3> QED BY <2>1, <2>3, <3>1 DEF Places
  <2> QED BY <2>2, <2>3
<1> QED BY <1>1 DEF OnePlace, PlaceInv

\* A request that has been submitted and not ended is on exactly one list,
\* once; one that has ended is on none.
THEOREM RequestsNeverLost == Spec => []OnePlace
BY PlacesOne, TypeInit, TypeStep, PlaceInit, PlaceStep, PTL DEF Spec

-----------------------------------------------------------------------------
(* Tags *)

\* A tag that blk_queue_start_tag() hands out is free and within the depth
\* of the request.
LEMMA TagFree ==
  ASSUME MaxDepth # 0, NEW x, NEW t, blk_queue_start_tag(x, t)
  PROVE  t \in 0..(Depth(x) - 1) /\ t \notin tag_map
BY DEF blk_queue_start_tag, FreeTags

\* A request that leaves the driver takes its tag, and no other, off the map.
LEMMA TagEnd ==
  ASSUME TypeInv, TagsSound, NEW x \in device, blk_queue_end_tag(x),
         device' = device \ {x}
  PROVE  TagsSound'
<1> SUFFICES ASSUME MaxDepth # 0 PROVE TagsSound'
  BY DEF TagsSound
<1>1. /\ tag \in [Item -> -1..(MaxDepth - 1)] /\ device \subseteq Item
      /\ tag_map = {tag[y] : y \in device}
      /\ \A y, z \in device : tag[y] = tag[z] => y = z
      /\ \A y \in device : tag[y] \in 0..(Depth(y) - 1)
      /\ \A y \in Item \ device : tag[y] = -1
  BY DEF TypeInv, TypeOK, TagsSound
<1>2. tag'[x] = -1 /\ \A y \in Item \ {x} : tag'[y] = tag[y]
  BY <1>1 DEF blk_queue_end_tag
<1>3. tag_map' = {tag'[y] : y \in device'}
  BY <1>1, <1>2 DEF blk_queue_end_tag
<1>4. \A y \in device' : y \in device /\ y \in Item \ {x}
  BY <1>1
<1>5. \A y \in Item : Depth(y)' = Depth(y)
  BY DEF Depth, IsSync, AsyncDepth
<1> QED BY <1>1, <1>2, <1>3, <1>4, <1>5 DEF TagsSound

\* Every step keeps the tag map and the tags of the requests in agreement.
LEMMA TagStep == TypeInv /\ PlaceInv /\ TagsSound /\ [Next]_vars => TagsSound'
<1> SUFFICES ASSUME TypeInv, PlaceInv, TagsSound, [Next]_vars PROVE TagsSound'
  OBVIOUS
<1>1. CASE UNCHANGED <<tag, tag_map, device>>
  BY <1>1 DEF TagsSound, Depth, IsSync, AsyncDepth
<1>2. ASSUME NEW t \in -1..MaxDepth, DriverStart(t) PROVE TagsSound'
  <2> SUFFICES ASSUME MaxDepth # 0 PROVE TagsSound'
    BY DEF TagsSound
  <2>1. PICK x : x = Head(queue_head)
    OBVIOUS
  <2>2. x \in Item
    BY <1>2, <2>1, TailList DEF DriverStart, TypeInv, TypeOK
  <2>3. /\ t \in 0..(Depth(x) - 1) /\ t \notin tag_map
        /\ tag' = [tag EXCEPT ![x] = t] /\ tag_map' = tag_map \cup {t}
        /\ device' = device \cup {x}
    BY <1>2, <2>1, TagFree DEF DriverStart
  <2>4. /\ tag \in [Item -> -1..(MaxDepth - 1)] /\ device \subseteq Item
        /\ tag_map = {tag[y] : y \in device}
        /\ \A y, z \in device : tag[y] = tag[z] => y = z
        /\ \A y \in device : tag[y] \in 0..(Depth(y) - 1)
        /\ \A y \in Item \ device : tag[y] = -1
    BY DEF TypeInv, TypeOK, TagsSound
  <2>5. tag'[x] = t /\ \A y \in Item \ {x} : tag'[y] = tag[y]
    BY <2>2, <2>3, <2>4
  <2>6. x \notin device
    <3>1. InQueue(queue_head, x)
      BY <1>2, <2>1, TailList DEF DriverStart, TypeInv, TypeOK
    <3> QED BY <2>2, <3>1 DEF PlaceInv, SingleFlush, Item
  <2>7. tag_map' = {tag'[y] : y \in device'}
    BY <2>3, <2>4, <2>5, <2>6
  <2>8. \A y, z \in device' : tag'[y] = tag'[z] => y = z
    BY <2>2, <2>3, <2>4, <2>5, <2>6
  <2>9. \A y \in Item : Depth(y)' = Depth(y)
    BY DEF Depth, IsSync, AsyncDepth
  <2> QED BY <2>2, <2>3, <2>4, <2>5, <2>7, <2>8, <2>9 DEF TagsSound
<1>3. ASSUME NEW x \in Item, Requeue(x) PROVE TagsSound'
  BY <1>3, TagEnd DEF Requeue
<1>4. ASSUME NEW x, NEW kick, Release(x, kick) PROVE TagsSound'
  BY <1>4, TagEnd DEF Release
<1>5. ASSUME NEW r \in Rq, CompleteRq(r) PROVE TagsSound'
  BY <1>4, <1>5 DEF CompleteRq, CompleteWrite, flush_data_end_io
<1>6. CASE CompleteFlush
  BY <1>4, <1>6 DEF CompleteFlush, flush_end_io
<1>7. CASE Submit
  BY <1>1, <1>7 DEF Submit, SubmitNothing, SubmitWrite, SubmitBack, SubmitFlush,
                    Allocate
<1>8. CASE RequestFn
  BY <1>1, <1>2, <1>8 DEF RequestFn, ElevatorDispatch, QueueEmpty, DriverRefuse,
                          driveVars
<1>9. CASE Walk \/ PendingTimeout \/ UNCHANGED vars
  BY <1>1, <1>9 DEF Walk, FlushEndIoStep, FlushEndIoOut, PendingTimeout, vars,
                    driveVars
<1> QED BY <1>3, <1>5, <1>6, <1>7, <1>8, <1>9 DEF Next

\* No tag is in use at first.
LEMMA TagInit == Init => TagsSound
<1> SUFFICES ASSUME Init PROVE TagsSound
  OBVIOUS
<1>1. tag_map = {} /\ device = {} /\ \A x \in Item : tag[x] = -1
  BY DEF Init
<1> QED BY <1>1 DEF TagsSound

\* Every tag in use belongs to one request at the driver, and asynchronous
\* requests never get one of the tags reserved for synchronous ones, whatever
\* the depth of the tag map.
THEOREM TagsNeverShared == Spec => []TagsSound
BY TypeInit, TypeStep, PlaceInit, PlaceStep, TagInit, TagStep, PTL DEF Spec

-----------------------------------------------------------------------------
(* Who comes for a request *)

\* blk_flush_complete_seq() leaves the flush queues in good hands: a kick
\* starts a flush for a queue that is not empty, and without one the pending
\* queue is empty, a flush is in progress or data is in flight.
LEMMA CompleteSeqDue ==
  ASSUME TypeInv, FlushDue, NEW r \in Rq, NEW before, NEW bits, NEW error,
         blk_flush_complete_seq(r, before, bits, error),
         flush_running_idx' = flush_running_idx,
         walk.pc # "loop" => walk'.pc = walk.pc,
         walk.pc = "loop" /\ walk'.pc # "loop" => Len(Walked) = 1
  PROVE  /\ FlushDue'
         /\ flush_pending_idx # flush_running_idx
              => flush_pending_idx' # flush_running_idx'
<1> DEFINE p    == flush_pending_idx
           q    == flush_running_idx
           L    == Unlinked(r)
           wait == NextStep(before, bits, error) \in {"PREFLUSH", "POSTFLUSH"}
<1>1. /\ p \in 0..1 /\ q \in 0..1 /\ L \in [0..1 -> Seq(Rq)]
      /\ flush_queue \in [0..1 -> Seq(Rq)]
  BY UnlinkedType DEF TypeInv, TypeOK
<1>2. flush_queue' = IF wait THEN [L EXCEPT ![p] = Append(@, r)] ELSE L
  BY DEF blk_flush_complete_seq, NextStep
<1>3. \A i \in 0..1 : i # p => flush_queue'[i] = L[i]
  BY <1>1, <1>2
<1>4. L[q] = flush_queue[q]
  BY <1>1 DEF Unlinked
<1>5. PICK late : flush_pending_idx' = IF blk_kick_flush(flush_queue',
                                                flush_data_in_flight', late)
                                         THEN 1 - p ELSE p
  <2> DEFINE late == pending_timed_out /\ ~(wait /\ flush_queue[p] = <<>>)
  <2> WITNESS late
  <2> QED BY DEF blk_flush_complete_seq, NextStep
<1> DEFINE kick == blk_kick_flush(flush_queue', flush_data_in_flight', late)
<1>6. flush_pending_idx' = IF kick THEN 1 - p ELSE p
  BY <1>5
<1>7. kick => p = q /\ flush_queue'[p] # <<>>
  BY DEF blk_kick_flush
<1>8. p = q /\ ~kick => flush_queue'[p] = <<>> \/ flush_data_in_flight' # {}
  BY DEF blk_kick_flush
<1> HIDE DEF kick, L
<1>9. flush_pending_idx' # q => flush_queue'[q] # <<>>
  <2>1. CASE kick
    BY <1>7, <2>1
  <2>2. CASE ~kick
    BY <1>1, <1>3, <1>4, <1>6, <2>2 DEF FlushDue
  <2> QED BY <2>1, <2>2
<1>10. ASSUME walk'.pc # "loop", flush_pending_idx' = q
       PROVE  /\ flush_queue'[1 - q] = <<>>
              /\ flush_queue'[q] # <<>> => flush_data_in_flight' # {}
  <2>1. p = q /\ ~kick
    BY <1>1, <1>6, <1>7, <1>10
  <2>2. 1 - q \in 0..1 /\ 1 - q # p
    BY <1>1, <2>1
  <2>3. L[1 - q] = <<>>
    <3>1. CASE walk.pc = "loop"
      <4>1. Walked \in Seq(Rq) /\ Walked # <<>> /\ Len(Walked) = 1
        BY <1>10, <3>1, WalkHead
      <4>2. L[1 - q] = Tail(Walked)
        BY <2>2, <3>1 DEF L, Unlinked, Walked
      <4>3. Tail(Walked) = <<>>
        <5>1. Tail(Walked) \in Seq(Rq) /\ Len(Tail(Walked)) = 0
          BY <4>1, HeadTailProperties
        <5> QED BY <5>1, EmptySeq
      <4> QED BY <4>2, <4>3
    <3>2. CASE walk.pc # "loop"
      <4>1. L[1 - q] = flush_queue[1 - q]
        BY <2>2, <3>2 DEF L, Unlinked
      <4> QED BY <2>1, <3>2, <4>1 DEF FlushDue
    <3> QED BY <3>1, <3>2
  <2> QED BY <1>3, <1>8, <2>1, <2>2, <2>3
<1>11. p # q => flush_pending_idx' # q
  BY <1>6, <1>7
<1> QED BY <1>9, <1>10, <1>11 DEF FlushDue

\* Steps that leave the flush queues alone.
LEMMA FlushDueFrame ==
  ASSUME FlushDue,
         UNCHANGED <<flush_queue, flush_pending_idx, flush_running_idx,
                     flush_data_in_flight>>,
         walk'.pc = walk.pc \/ walk.pc = "out"
  PROVE  FlushDue'
BY DEF FlushDue

\* Nothing waits at first.
LEMMA DueInit == Init => QueueDue /\ FlushDue
BY DEF Init, QueueDue, FlushDue, Idle, LockFree

\* A submission runs the queue; the request takes no accounting away.
LEMMA DueSubmit ==
  ASSUME TypeInv, QueueDue, FlushDue, NEW r \in Rq, NEW c \in Cmds,
         \/ SubmitNothing(r, c) \/ SubmitWrite(r, c)
         \/ SubmitBack(r, c) \/ SubmitFlush(r, c)
  PROVE  QueueDue' /\ FlushDue'
<1>1. /\ walk.pc = "idle" /\ walk' = walk
      /\ UNCHANGED <<flush_running_idx, flush_queue_delayed, device, refused>>
  BY DEF SubmitNothing, SubmitWrite, SubmitBack, SubmitFlush, Allocate, LockFree
<1>2. /\ FlushDue' /\ in_flight' = in_flight
      /\ flush_pending_idx # flush_running_idx
           => flush_pending_idx' # flush_running_idx'
  <2>1. CASE UNCHANGED <<in_flight, fqVars>>
    BY <1>1, <2>1, FlushDueFrame DEF fqVars
  <2>2. CASE ~UNCHANGED <<in_flight, fqVars>>
    <3> DEFINE policy == blk_flush_policy(c)
    <3>1. /\ policy # {}
          /\ blk_flush_complete_seq(r, {}, Steps \ policy, FALSE)
      BY <2>2 DEF SubmitNothing, SubmitWrite, SubmitBack, SubmitFlush, blk_insert_flush
    <3>2. NextStep({}, Steps \ policy, FALSE) # "DONE"
      <4>1. policy \subseteq Steps
        BY DEF blk_flush_policy
      <4> QED BY <3>1, <4>1 DEF NextStep, blk_flush_cur_seq, Steps
    <3>3. in_flight' = in_flight
      BY <3>1, <3>2 DEF blk_flush_complete_seq, NextStep
    <3> QED BY <1>1, <3>1, <3>3, CompleteSeqDue
  <2> QED BY <2>1, <2>2
<1>3. TagStall' <=> TagStall
  BY <1>1, <1>2 DEF TagStall
<1>4. \/ run_queue' = TRUE
      \/ UNCHANGED <<run_queue, queue_head, sorted>>
  BY DEF SubmitNothing, SubmitWrite, SubmitBack, SubmitFlush
<1> QED BY <1>1, <1>2, <1>3, <1>4 DEF QueueDue, LockFree

\* A tag is refused with no tag in use only for the accounting.
LEMMA RefusalIsStall ==
  ASSUME TypeInv, TagsSound, DriverRefuse, device = {} PROVE TagStall'
<1> DEFINE x == Head(queue_head)
<1>1. /\ MaxDepth # 0 /\ FreeTags(x) = {} /\ refused' = TRUE
      /\ in_flight' = in_flight
  BY DEF DriverRefuse
<1>2. MaxDepth \in Nat /\ Depth(x) \in Nat /\ Depth(x) >= 1
  BY <1>1, FlushAssumption DEF Depth, AsyncDepth
<1>3. tag_map = {} /\ 0 \in 0..(Depth(x) - 1)
  BY <1>1, <1>2 DEF TagsSound
<1>4. ~IsSync(x) /\ MaxDepth > 1 /\ in_flight[FALSE] > AsyncDepth
  BY <1>1, <1>3 DEF FreeTags
<1> QED BY <1>1, <1>4 DEF TagStall, IsSync, AsyncDepth

\* request_fn stops only when there is nothing to dispatch, when it is held
\* back for a flush, or at a refusal.
LEMMA DueRequestFn ==
  ASSUME TypeInv, TagsSound, QueueDue, FlushDue, RequestFn
  PROVE  QueueDue' /\ FlushDue'
<1>1. /\ walk.pc = "idle" /\ walk' = walk /\ run_queue
      /\ UNCHANGED <<flush_queue, flush_pending_idx, flush_running_idx,
                     flush_data_in_flight>>
  BY DEF RequestFn, ElevatorDispatch, DriverStart, QueueEmpty, DriverRefuse,
         LockFree, fqVars, driveVars
<1>2. FlushDue'
  BY <1>1, FlushDueFrame
<1>3. ASSUME NEW w \in Rq, ElevatorDispatch(w) PROVE QueueDue'
  BY <1>1, <1>3 DEF ElevatorDispatch, QueueDue, TagStall, driveVars, LockFree
<1>4. ASSUME NEW t \in -1..MaxDepth, DriverStart(t) PROVE QueueDue'
  <2>1. /\ device' # {} /\ run_queue' = run_queue /\ refused' = refused
        /\ flush_queue_delayed' = flush_queue_delayed
    BY <1>4 DEF DriverStart
  <2> QED BY <1>1, <2>1 DEF QueueDue, LockFree
<1>5. CASE QueueEmpty
  <2>1. /\ UNCHANGED <<refused, device, in_flight, queue_head, sorted>>
        /\ queue_head = <<>>
        /\ Hold \/ sorted = {}
        /\ flush_queue_delayed' = (flush_queue_delayed \/ Hold)
    BY <1>5 DEF QueueEmpty
  <2> QED BY <1>1, <1>2, <2>1 DEF QueueDue, TagStall, Hold, LockFree
<1>6. CASE DriverRefuse
  <2>1. /\ refused' = TRUE /\ UNCHANGED <<device, flush_queue_delayed>>
    BY <1>6 DEF DriverRefuse
  <2>2. device' # {} \/ TagStall'
    BY <1>6, <2>1, RefusalIsStall
  <2> QED BY <1>1, <1>2, <2>1, <2>2 DEF QueueDue, LockFree
<1> QED BY <1>2, <1>3, <1>4, <1>5, <1>6 DEF RequestFn

\* A completion or requeue reruns the queue if it was refused before, and a
\* completion that put something on the dispatch queue runs it.
LEMMA DueRelease ==
  ASSUME TypeInv, QueueDue, walk.pc = "idle",
         refused' = FALSE, UNCHANGED <<sorted, flush_queue_delayed>>,
         run_queue \/ refused \/ queue_head' # queue_head => run_queue',
         flush_pending_idx # flush_running_idx /\ walk'.pc = "idle"
           => flush_pending_idx' # flush_running_idx'
  PROVE  QueueDue'
BY DEF QueueDue, LockFree

\* The walk runs the queue at its end for everything it queued.
LEMMA DueWalk ==
  ASSUME TypeInv, QueueDue, FlushDue, Walk PROVE QueueDue' /\ FlushDue'
<1>1. CASE FlushEndIoStep
  <2> DEFINE r == Head(Walked)
  <2>1. /\ walk.pc = "loop"
        /\ blk_flush_complete_seq(r, seq[r], {blk_flush_cur_seq(seq[r])},
                                  walk.error)
        /\ walk' = [walk EXCEPT !.pc = IF Len(Walked) = 1 THEN "out"
                                                          ELSE "loop",
                                !.queued = @ \/ Queued]
        /\ UNCHANGED <<device, refused, run_queue, sorted, flush_queue_delayed,
                       flush_running_idx>>
    BY <1>1 DEF FlushEndIoStep, driveVars
  <2>2. /\ walk'.pc = IF Len(Walked) = 1 THEN "out" ELSE "loop"
        /\ walk'.queued = (walk.queued \/ queue_head' # queue_head)
    BY <2>1 DEF TypeInv, TypeOK, Queued
  <2>3. FlushDue'
    BY <2>1, <2>2, WalkHead, CompleteSeqDue
  <2>4. ~LockFree /\ ~LockFree' /\ ~refused
    BY <2>1, <2>2 DEF LockFree, QueueDue
  <2> QED BY <2>1, <2>2, <2>3, <2>4 DEF QueueDue
<1>2. CASE FlushEndIoOut
  <2>1. /\ walk.pc = "out" /\ walk'.pc = "idle"
        /\ run_queue' = (run_queue \/ walk.queued \/ flush_queue_delayed)
        /\ flush_queue_delayed' = FALSE
        /\ UNCHANGED <<refused, queue_head, sorted, flush_queue,
                       flush_pending_idx, flush_running_idx,
                       flush_data_in_flight>>
    BY <1>2 DEF FlushEndIoOut, Idle, fqVars
  <2>2. FlushDue'
    BY <2>1, FlushDueFrame
  <2>3. ~refused
    BY <2>1 DEF QueueDue, LockFree
  <2> QED BY <2>1, <2>2, <2>3 DEF QueueDue
<1> QED BY <1>1, <1>2 DEF Walk

\* Every step leaves somebody who comes for what is on the lists.
LEMMA DueStep ==
  TypeInv /\ TagsSound /\ QueueDue /\ FlushDue /\ PlaceInv /\ [Next]_vars
    => QueueDue' /\ FlushDue'
<1> SUFFICES ASSUME TypeInv, TagsSound, QueueDue, FlushDue, PlaceInv, [Next]_vars
             PROVE  QueueDue' /\ FlushDue'
  OBVIOUS
<1>1. ASSUME NEW x \in Item, Requeue(x) PROVE QueueDue' /\ FlushDue'
  <2>1. /\ walk.pc = "idle" /\ walk' = walk /\ refused' = FALSE
        /\ run_queue' = TRUE
        /\ UNCHANGED <<sorted, flush_queue_delayed, flush_queue,
                       flush_pending_idx, flush_running_idx,
                       flush_data_in_flight>>
    BY <1>1 DEF Requeue, LockFree, fqVars
  <2> QED BY <2>1, DueRelease, FlushDueFrame
<1>2. ASSUME NEW r \in Rq, NEW error \in BOOLEAN, CompleteWrite(r, error)
      PROVE  QueueDue' /\ FlushDue'
  <2>1. /\ walk.pc = "idle" /\ walk' = walk /\ refused' = FALSE
        /\ run_queue' = (run_queue \/ refused \/ FALSE)
        /\ UNCHANGED <<sorted, flush_queue_delayed, flush_queue,
                       flush_pending_idx, flush_running_idx,
                       flush_data_in_flight, queue_head>>
    BY <1>2 DEF CompleteWrite, Release, LockFree, fqVars
  <2> QED BY <2>1, DueRelease, FlushDueFrame
<1>3. ASSUME NEW r \in Rq, NEW error \in BOOLEAN, flush_data_end_io(r, error)
      PROVE  QueueDue' /\ FlushDue'
  <2>1. /\ walk.pc = "idle" /\ walk' = walk /\ refused' = FALSE
        /\ run_queue' = (run_queue \/ refused \/ queue_head' # queue_head)
        /\ UNCHANGED <<sorted, flush_queue_delayed, flush_running_idx>>
        /\ blk_flush_complete_seq(r, seq[r], {"DATA"}, error)
    BY <1>3 DEF flush_data_end_io, Release, LockFree, Queued
  <2>2. /\ FlushDue'
        /\ flush_pending_idx # flush_running_idx
             => flush_pending_idx' # flush_running_idx'
    BY <2>1, CompleteSeqDue
  <2> QED BY <2>1, <2>2, DueRelease
<1>4. ASSUME NEW error \in BOOLEAN, flush_end_io(error)
      PROVE  QueueDue' /\ FlushDue'
  <2>1. /\ walk.pc = "idle" /\ FlushRq \in device /\ refused' = FALSE
        /\ run_queue' = (run_queue \/ refused \/ FALSE)
        /\ flush_running_idx' = 1 - flush_running_idx
        /\ UNCHANGED <<sorted, flush_queue_delayed, flush_queue,
                       flush_pending_idx, flush_data_in_flight, queue_head>>
        /\ walk'.pc = IF flush_queue[flush_running_idx] = <<>> THEN "out"
                                                               ELSE "loop"
    BY <1>4 DEF flush_end_io, Release, LockFree, fqVars
  <2>2. flush_pending_idx # flush_running_idx
    BY <2>1 DEF PlaceInv, SingleFlush
  <2>3. walk'.pc = "loop"
    BY <2>1, <2>2 DEF FlushDue
  <2>4. flush_pending_idx' = flush_running_idx'
    BY <2>1, <2>2 DEF TypeInv, TypeOK
  <2>5. FlushDue'
    BY <2>3, <2>4 DEF FlushDue
  <2> QED BY <2>1, <2>3, <2>5, DueRelease
<1>5. CASE PendingTimeout \/ UNCHANGED vars
  <2>1. UNCHANGED <<walk, refused, device, in_flight, run_queue, queue_head,
                    sorted, flush_queue_delayed, flush_queue,
                    flush_pending_idx, flush_running_idx,
                    flush_data_in_flight>>
    BY <1>5 DEF PendingTimeout, vars, driveVars
  <2> QED BY <2>1, FlushDueFrame DEF QueueDue, TagStall, LockFree
<1> QED BY <1>1, <1>2, <1>3, <1>4, <1>5, DueSubmit, DueRequestFn, DueWalk
        DEF Next, Submit, CompleteRq, CompleteFlush

\* Along the lists: whoever a live request waits for is due in the end.
LEMMA DueServes ==
  TypeInv /\ PlaceInv /\ QueueDue /\ FlushDue => NeverStranded
<1> SUFFICES ASSUME TypeInv, PlaceInv, QueueDue, FlushDue,
                    NEW r \in Rq, bio[r] = "live",
                    device = {}, ~run_queue, LockFree
             PROVE  TagStall
  BY DEF NeverStranded
<1>1. queue_head # <<>> => TagStall
  BY DEF QueueDue
<1>2. \A y : InQueue(queue_head, y) => queue_head # <<>>
  BY EmptyList
<1>3. flush_pending_idx # flush_running_idx => TagStall
  BY <1>1, <1>2 DEF PlaceInv, SingleFlush
<1>4. CASE r \in sorted
  BY <1>3, <1>4 DEF QueueDue
<1>5. CASE InQueue(queue_head, r)
  BY <1>1, <1>2, <1>5
<1>6. CASE Waiting(r) /\ flush_pending_idx = flush_running_idx
  <2>1. PICK i \in 0..1 : InQueue(flush_queue[i], r)
    BY <1>6 DEF Waiting
  <2>2. flush_queue[i] # <<>>
    BY <2>1, EmptyList
  <2>3. walk.pc # "loop" /\ flush_running_idx \in 0..1
    BY DEF LockFree, TypeInv, TypeOK
  <2>4. flush_queue[1 - flush_running_idx] = <<>>
    BY <1>6, <2>3 DEF FlushDue
  <2>5. i = flush_running_idx
    BY <2>2, <2>3, <2>4
  <2>6. PICK y \in flush_data_in_flight : TRUE
    BY <1>6, <2>2, <2>3, <2>5 DEF FlushDue
  <2>7. InQueue(queue_head, y)
    BY <2>6 DEF PlaceInv, TypeInv, TypeOK
  <2> QED BY <1>1, <1>2, <2>7
<1> QED BY <1>3, <1>4, <1>5, <1>6 DEF PlaceInv

\* No live bio is ever left with nobody to act for it, for any number of
\* requests, submissions and requeues and for every kind of disk; where tags
\* are refused for the accounting alone, this is the one exception.
THEOREM LiveBiosServed == Spec => []NeverStranded
BY DueInit, DueStep, DueServes, TypeInit, TypeStep, PlaceInit, PlaceStep,
   TagInit, TagStep, PTL DEF Spec

=============================================================================
