-------------------------- MODULE BlkSoftirqProof --------------------------
(* Proofs about BlkSoftirq, for any cpus, cache topology and requests. *)
EXTENDS BlkSoftirq, SequenceTheorems, FiniteSetTheorems, TLAPS

USE SoftirqAssumption

-----------------------------------------------------------------------------
(* No completion waits for a softirq that does not come. *)

\* IInv without the places of the requests.
ListsInv == TypeOK /\ RunInv /\ SoftirqComing /\ NothingStranded

\* AddTail() keeps the types, and a non-empty list has its softirq raised if
\* it had one before.
LEMMA AddTailFacts ==
  ASSUME TypeOK, NEW c \in Cpu, NEW rs \in Seq(Rq), AddTail(c, rs)
  PROVE  /\ blk_cpu_done' \in [Cpu -> Seq(Rq)]
         /\ raised' \subseteq Cpu /\ raised \subseteq raised'
         /\ \A d \in Cpu \ {c} : blk_cpu_done'[d] = blk_cpu_done[d]
         /\ blk_cpu_done'[c] # <<>> => blk_cpu_done[c] # <<>> \/ c \in raised'
<1>1. blk_cpu_done[c] \in Seq(Rq)
  BY DEF TypeOK
<1>2. blk_cpu_done[c] \o rs \in Seq(Rq)
  BY <1>1, ConcatProperties
<1>3. blk_cpu_done' = [blk_cpu_done EXCEPT ![c] = blk_cpu_done[c] \o rs]
  BY DEF AddTail
<1>4. blk_cpu_done' \in [Cpu -> Seq(Rq)]
      /\ \A d \in Cpu \ {c} : blk_cpu_done'[d] = blk_cpu_done[d]
  BY <1>2, <1>3 DEF TypeOK
<1>5. raised' \subseteq Cpu /\ raised \subseteq raised'
  BY DEF AddTail, TypeOK
<1>6. ASSUME blk_cpu_done'[c] # <<>>, blk_cpu_done[c] = <<>>
      PROVE  c \in raised'
  <2>1. blk_cpu_done'[c] = <<>> \o rs
    BY <1>3, <1>6 DEF TypeOK
  <2>2. rs # <<>>
    BY <1>6, <2>1
  <2> QED BY <1>6, <2>2 DEF AddTail
<1> QED BY <1>4, <1>5, <1>6

\* All lists are empty and all cpus up at first.
LEMMA InvInit == Init => ListsInv
<1> SUFFICES ASSUME Init PROVE ListsInv
  OBVIOUS
<1>1. TypeOK
  BY DEF Init, TypeOK
<1> QED BY <1>1 DEF Init, ListsInv, RunInv, SoftirqComing, NothingStranded

\* Submission and sysfs touch no list.
LEMMA SubmitInv ==
  ASSUME ListsInv,
         \/ \E val \in 0..2 : queue_rq_affinity_store(val)
         \/ \E r \in Rq, c \in Cpu : blk_queue_bio(r, c)
  PROVE  ListsInv'
<1>1. UNCHANGED <<online, dead, hotplugs, call_queue, blk_cpu_done, raised,
                  softirq, local_list>>
  BY DEF queue_rq_affinity_store, blk_queue_bio, hotVars, runVars
<1>2. /\ rq_affinity' \in 0..2
      /\ state' \in [Rq -> {"idle", "busy", "completing"}]
      /\ rq_cpu' \in [Rq -> Cpu \cup {NoCpu}]
  BY DEF queue_rq_affinity_store, blk_queue_bio, ListsInv, TypeOK
<1> QED BY <1>1, <1>2
        DEF ListsInv, TypeOK, RunInv, SoftirqComing, NothingStranded

\* A completion goes to a list of this cpu or to the IPI queue of another one
\* that is up.
LEMMA CompleteInv ==
  ASSUME ListsInv, NEW r \in Rq, NEW c \in Cpu, __blk_complete_request(r, c)
  PROVE  ListsInv'
<1> DEFINE ccpu == IF rq_cpu[r] = NoCpu THEN c ELSE rq_cpu[r]
<1>1. ccpu \in Cpu /\ c \in online
  BY DEF ListsInv, TypeOK, __blk_complete_request
<1>2. /\ UNCHANGED <<online, dead, hotplugs, rq_affinity, rq_cpu, softirq,
                     local_list>>
      /\ state' \in [Rq -> {"idle", "busy", "completing"}]
  BY DEF __blk_complete_request, hotVars, runVars, ListsInv, TypeOK
<1>3. CASE AddTail(c, <<r>>) /\ UNCHANGED call_queue
  <2>1. <<r>> \in Seq(Rq)
    OBVIOUS
  <2>2. /\ blk_cpu_done' \in [Cpu -> Seq(Rq)]
        /\ raised' \subseteq Cpu /\ raised \subseteq raised'
        /\ \A d \in Cpu \ {c} : blk_cpu_done'[d] = blk_cpu_done[d]
        /\ blk_cpu_done'[c] # <<>> => blk_cpu_done[c] # <<>> \/ c \in raised'
    BY <1>3, <2>1, AddTailFacts DEF ListsInv
  <2> QED BY <1>1, <1>2, <1>3, <2>2
          DEF ListsInv, TypeOK, RunInv, SoftirqComing, NothingStranded
<1>4. CASE /\ ccpu \in online
           /\ call_queue' = [call_queue EXCEPT ![ccpu] = Append(@, r)]
           /\ UNCHANGED <<blk_cpu_done, raised>>
  <2>1. Append(call_queue[ccpu], r) \in Seq(Rq)
    BY <1>1, AppendProperties DEF ListsInv, TypeOK
  <2>2. /\ call_queue' \in [Cpu -> Seq(Rq)]
        /\ \A d \in Cpu \ {ccpu} : call_queue'[d] = call_queue[d]
    BY <1>1, <1>4, <2>1 DEF ListsInv, TypeOK
  <2> HIDE DEF ccpu
  <2> QED BY <1>2, <1>4, <2>2
          DEF ListsInv, TypeOK, RunInv, SoftirqComing, NothingStranded
<1> QED BY <1>3, <1>4 DEF __blk_complete_request

\* The IPI queue of a cpu moves to its list, by the IPI or when it goes down.
LEMMA FlushFacts ==
  ASSUME ListsInv, NEW c \in Cpu, AddTail(c, call_queue[c]),
         call_queue' = [call_queue EXCEPT ![c] = <<>>]
  PROVE  /\ blk_cpu_done' \in [Cpu -> Seq(Rq)]
         /\ raised' \subseteq Cpu /\ raised \subseteq raised'
         /\ \A d \in Cpu \ {c} : /\ blk_cpu_done'[d] = blk_cpu_done[d]
                                /\ call_queue'[d] = call_queue[d]
         /\ blk_cpu_done'[c] # <<>> => blk_cpu_done[c] # <<>> \/ c \in raised'
         /\ call_queue' \in [Cpu -> Seq(Rq)] /\ call_queue'[c] = <<>>
<1>1. call_queue[c] \in Seq(Rq) /\ <<>> \in Seq(Rq)
  BY DEF ListsInv, TypeOK
<1>2. call_queue' \in [Cpu -> Seq(Rq)] /\ call_queue'[c] = <<>>
      /\ \A d \in Cpu \ {c} : call_queue'[d] = call_queue[d]
  BY <1>1 DEF ListsInv, TypeOK
<1> QED BY <1>1, <1>2, AddTailFacts DEF ListsInv

\* The IPI moves its requests to the list and raises the softirq if needed.
LEMMA TriggerInv ==
  ASSUME ListsInv, NEW c \in Cpu, trigger_softirq(c)
  PROVE  ListsInv'
<1>1. /\ c \in online
      /\ UNCHANGED <<online, dead, hotplugs, rq_affinity, state, rq_cpu,
                     softirq, local_list>>
      /\ AddTail(c, call_queue[c])
      /\ call_queue' = [call_queue EXCEPT ![c] = <<>>]
  BY DEF trigger_softirq, hotVars, runVars
<1>2. /\ blk_cpu_done' \in [Cpu -> Seq(Rq)]
      /\ raised' \subseteq Cpu /\ raised \subseteq raised'
      /\ \A d \in Cpu \ {c} : /\ blk_cpu_done'[d] = blk_cpu_done[d]
                             /\ call_queue'[d] = call_queue[d]
      /\ blk_cpu_done'[c] # <<>> => blk_cpu_done[c] # <<>> \/ c \in raised'
      /\ call_queue' \in [Cpu -> Seq(Rq)]
  BY <1>1, FlushFacts
<1> QED BY <1>1, <1>2
        DEF ListsInv, TypeOK, RunInv, SoftirqComing, NothingStranded

\* The pending bit is cleared before the list is taken: between the two the
\* handler counts as the softirq to come.
LEMMA SoftirqInv ==
  ASSUME ListsInv, NEW c \in Cpu, Softirq(c)
  PROVE  ListsInv'
<1>1. UNCHANGED <<online, dead, hotplugs, rq_affinity, rq_cpu, call_queue>>
  BY DEF Softirq, SoftirqEnter, blk_done_softirq, SoftirqDone, SoftirqExit,
         hotVars
<1>2. CASE SoftirqEnter(c)
  <2>1. UNCHANGED <<state, blk_cpu_done, local_list>>
    BY <1>2 DEF SoftirqEnter
  <2> QED BY <1>1, <1>2, <2>1 DEF SoftirqEnter, ListsInv, TypeOK, RunInv,
             SoftirqComing, NothingStranded
<1>3. CASE blk_done_softirq(c)
  <2>1. UNCHANGED <<state, raised>>
    BY <1>3 DEF blk_done_softirq
  <2>2. blk_cpu_done[c] \in Seq(Rq) /\ <<>> \in Seq(Rq)
    BY DEF ListsInv, TypeOK
  <2>3. TypeOK'
    BY <1>1, <1>3, <2>1, <2>2 DEF blk_done_softirq, ListsInv, TypeOK
  <2>4. c \in online
    BY <1>3 DEF blk_done_softirq, ListsInv, RunInv
  <2> QED BY <1>1, <1>3, <2>1, <2>3, <2>4 DEF blk_done_softirq, ListsInv, TypeOK,
             RunInv, SoftirqComing, NothingStranded
<1>4. CASE SoftirqDone(c)
  <2>1. UNCHANGED <<blk_cpu_done, raised, softirq>> /\ c \in online
    BY <1>4 DEF SoftirqDone, ListsInv, RunInv
  <2>2. Head(local_list[c]) \in Rq /\ Tail(local_list[c]) \in Seq(Rq)
    BY <1>4, HeadTailProperties DEF SoftirqDone, ListsInv, TypeOK
  <2>3. TypeOK'
    BY <1>1, <1>4, <2>1, <2>2 DEF SoftirqDone, ListsInv, TypeOK
  <2>4. \A d \in Cpu \ {c} : local_list'[d] = local_list[d]
    BY <1>4 DEF SoftirqDone, ListsInv, TypeOK
  <2> QED BY <1>1, <1>4, <2>1, <2>3, <2>4 DEF SoftirqDone, ListsInv,
             RunInv, SoftirqComing, NothingStranded
<1>5. CASE SoftirqExit(c)
  <2>1. UNCHANGED <<state, blk_cpu_done, raised, local_list>>
    BY <1>5 DEF SoftirqExit
  <2> QED BY <1>1, <1>5, <2>1 DEF SoftirqExit, ListsInv, TypeOK, RunInv,
             SoftirqComing, NothingStranded
<1> QED BY <1>2, <1>3, <1>4, <1>5 DEF Softirq

\* take_cpu_down() empties the IPI queue of the cpu.
LEMMA DownInv ==
  ASSUME ListsInv, NEW c \in Cpu, take_cpu_down(c)
  PROVE  ListsInv'
<1>1. /\ c \in online /\ softirq[c] = "idle" /\ dead = NoCpu
      /\ online' = online \ {c} /\ dead' = c
      /\ hotplugs' \in 0..MaxHotplug
      /\ UNCHANGED <<rq_affinity, state, rq_cpu, softirq, local_list>>
      /\ AddTail(c, call_queue[c])
      /\ call_queue' = [call_queue EXCEPT ![c] = <<>>]
  BY DEF take_cpu_down, runVars, ListsInv, TypeOK
<1>2. /\ blk_cpu_done' \in [Cpu -> Seq(Rq)]
      /\ raised' \subseteq Cpu /\ raised \subseteq raised'
      /\ \A d \in Cpu \ {c} : /\ blk_cpu_done'[d] = blk_cpu_done[d]
                             /\ call_queue'[d] = call_queue[d]
      /\ call_queue' \in [Cpu -> Seq(Rq)] /\ call_queue'[c] = <<>>
  BY <1>1, FlushFacts
<1>3. TypeOK'
  BY <1>1, <1>2 DEF ListsInv, TypeOK
<1>4. RunInv'
  BY <1>1 DEF ListsInv, RunInv
<1>5. SoftirqComing'
  BY <1>1, <1>2 DEF ListsInv, SoftirqComing, TypeOK
<1>6. NothingStranded'
  BY <1>1, <1>2 DEF ListsInv, NothingStranded, RunInv
<1> QED BY <1>3, <1>4, <1>5, <1>6 DEF ListsInv

\* The list of the dead cpu goes to a cpu that is up, with a softirq.
LEMMA DeadInv ==
  ASSUME ListsInv, NEW c \in Cpu, blk_cpu_notify(c)
  PROVE  ListsInv'
<1>1. /\ dead \in Cpu /\ dead \notin online /\ c \in online /\ c # dead
      /\ dead' = NoCpu /\ raised' = raised \cup {c}
      /\ UNCHANGED <<online, hotplugs, rq_affinity, state, rq_cpu, call_queue,
                     softirq, local_list>>
  BY DEF blk_cpu_notify, runVars, ListsInv, TypeOK, RunInv
<1>2. blk_cpu_done[dead] \o blk_cpu_done[c] \in Seq(Rq) /\ <<>> \in Seq(Rq)
  BY <1>1, ConcatProperties DEF ListsInv, TypeOK
<1>3. /\ blk_cpu_done' \in [Cpu -> Seq(Rq)]
      /\ blk_cpu_done'[dead] = <<>>
      /\ \A d \in Cpu \ {c, dead} : blk_cpu_done'[d] = blk_cpu_done[d]
  BY <1>1, <1>2 DEF blk_cpu_notify, ListsInv, TypeOK
<1>4. TypeOK'
  BY <1>1, <1>3 DEF ListsInv, TypeOK
<1>5. RunInv'
  BY <1>1 DEF ListsInv, RunInv, TypeOK
<1>6. SoftirqComing'
  BY <1>1, <1>3 DEF ListsInv, SoftirqComing, TypeOK
<1>7. NothingStranded'
  BY <1>1, <1>3 DEF ListsInv, NothingStranded
<1> QED BY <1>4, <1>5, <1>6, <1>7 DEF ListsInv

\* A cpu that comes back finds its list empty.
LEMMA UpInv ==
  ASSUME ListsInv, NEW c \in Cpu, cpu_up(c)
  PROVE  ListsInv'
<1>1. /\ dead = NoCpu /\ c \notin online /\ online' = online \cup {c}
      /\ UNCHANGED <<dead, hotplugs, rq_affinity, state, rq_cpu, call_queue,
                     blk_cpu_done, raised, softirq, local_list>>
  BY DEF cpu_up, runVars
<1>2. blk_cpu_done[c] = <<>>
  BY <1>1 DEF ListsInv, NothingStranded
<1> QED BY <1>1, <1>2
        DEF ListsInv, TypeOK, RunInv, SoftirqComing, NothingStranded

\* Every step preserves the invariant.
LEMMA InvStep == ListsInv /\ [Next]_vars => ListsInv'
<1> SUFFICES ASSUME ListsInv, [Next]_vars PROVE ListsInv'
  OBVIOUS
<1>1. CASE UNCHANGED vars
  BY <1>1 DEF vars, ListsInv, TypeOK, RunInv, SoftirqComing, NothingStranded
<1> QED BY <1>1, SubmitInv, CompleteInv, TriggerInv, SoftirqInv, DownInv,
           DeadInv, UpInv DEF Next, CpuDead

-----------------------------------------------------------------------------
(* Every completion is delivered once. *)

\* Two lists without common entries, one after the other.
LEMMA ConcatList ==
  ASSUME NEW s \in Seq(Rq), NEW t \in Seq(Rq)
  PROVE  /\ \A x : InList(s \o t, x) <=> InList(s, x) \/ InList(t, x)
         /\ Distinct(s) /\ Distinct(t) /\ (\A x : ~(InList(s, x) /\ InList(t, x)))
              => Distinct(s \o t)
<1> DEFINE u == s \o t
<1>1. /\ u \in Seq(Rq) /\ Len(u) = Len(s) + Len(t)
      /\ \A i \in 1..Len(u) : u[i] = IF i <= Len(s) THEN s[i] ELSE t[i - Len(s)]
  BY ConcatProperties
<1>2. /\ Len(s) \in Nat /\ Len(t) \in Nat
      /\ DOMAIN s = 1..Len(s) /\ DOMAIN t = 1..Len(t)
      /\ DOMAIN u = 1..(Len(s) + Len(t))
  BY <1>1, LenProperties
<1>3. \A i \in DOMAIN s : i \in DOMAIN u /\ u[i] = s[i]
  BY <1>1, <1>2
<1>4. ASSUME NEW i \in DOMAIN t PROVE i + Len(s) \in DOMAIN u /\ u[i + Len(s)] = t[i]
  <2>1. i + Len(s) \in 1..Len(u) /\ ~(i + Len(s) <= Len(s)) /\ (i + Len(s)) - Len(s) = i
    BY <1>1, <1>2
  <2> QED BY <1>1, <1>2, <2>1
<1>5. ASSUME NEW i \in DOMAIN u
      PROVE  \/ i \in DOMAIN s /\ u[i] = s[i]
             \/ i - Len(s) \in DOMAIN t /\ u[i] = t[i - Len(s)] /\ i > Len(s)
  BY <1>1, <1>2
<1> HIDE DEF u
<1>6. ASSUME NEW x PROVE InList(u, x) <=> InList(s, x) \/ InList(t, x)
  BY <1>3, <1>4, <1>5 DEF InList
<1>7. ASSUME Distinct(s), Distinct(t), \A x : ~(InList(s, x) /\ InList(t, x)),
             NEW i \in DOMAIN u, NEW j \in DOMAIN u, u[i] = u[j]
      PROVE  i = j
  <2>1. CASE i \in DOMAIN s /\ j \in DOMAIN s /\ u[i] = s[i] /\ u[j] = s[j]
    BY <1>7, <2>1 DEF Distinct
  <2>2. CASE /\ i - Len(s) \in DOMAIN t /\ u[i] = t[i - Len(s)]
             /\ j - Len(s) \in DOMAIN t /\ u[j] = t[j - Len(s)]
    <3>1. i - Len(s) = j - Len(s)
      BY <1>7, <2>2 DEF Distinct
    <3> QED BY <1>2, <3>1
  <2>3. CASE InList(s, u[i]) /\ InList(t, u[i])
    BY <1>7, <2>3
  <2> QED BY <1>5, <1>7, <2>1, <2>2, <2>3 DEF InList
<1> QED BY <1>6, <1>7 DEF u, Distinct

\* A single entry, and none.
LEMMA ShortList ==
  /\ \A x, y : InList(<<x>>, y) <=> x = y
  /\ \A x : Distinct(<<x>>)
  /\ \A y : ~InList(<<>>, y)
  /\ Distinct(<<>>)
BY DEF InList, Distinct

\* The first entry leaves a list.
LEMMA TailList ==
  ASSUME NEW s \in Seq(Rq), s # <<>>, Distinct(s)
  PROVE  /\ Head(s) \in Rq /\ InList(s, Head(s)) /\ Distinct(Tail(s))
         /\ \A x : InList(Tail(s), x) <=> InList(s, x) /\ x # Head(s)
<1> DEFINE t == Tail(s)
<1>1. /\ Head(s) \in Rq /\ t \in Seq(Rq) /\ Len(t) = Len(s) - 1
      /\ \A i \in 1..Len(t) : t[i] = s[i + 1]
      /\ Head(s) = s[1]
  BY HeadTailProperties
<1>2. /\ Len(s) \in Nat \ {0} /\ DOMAIN s = 1..Len(s)
      /\ DOMAIN t = 1..(Len(s) - 1)
  BY <1>1, EmptySeq, LenProperties
<1> HIDE DEF t
<1>3. ASSUME NEW i \in DOMAIN s, i # 1 PROVE i - 1 \in DOMAIN t /\ t[i - 1] = s[i]
  BY <1>1, <1>2, <1>3
<1>4. ASSUME NEW i \in DOMAIN t PROVE i + 1 \in DOMAIN s /\ s[i + 1] = t[i] /\ i + 1 # 1
  BY <1>1, <1>2
<1>5. Distinct(t)
  <2> SUFFICES ASSUME NEW i \in DOMAIN t, NEW j \in DOMAIN t, t[i] = t[j]
               PROVE  i = j
    BY DEF Distinct
  <2>1. i + 1 = j + 1
    BY <1>4 DEF Distinct
  <2> QED BY <1>2, <2>1
<1>6. ASSUME NEW x PROVE InList(t, x) <=> InList(s, x) /\ x # Head(s)
  <2>1. ASSUME NEW i \in DOMAIN t, t[i] = x PROVE InList(s, x) /\ x # Head(s)
    <3>1. i + 1 \in DOMAIN s /\ s[i + 1] = x /\ i + 1 # 1 /\ 1 \in DOMAIN s
      BY <1>2, <1>4, <2>1
    <3> QED BY <1>1, <3>1 DEF InList, Distinct
  <2>2. ASSUME NEW i \in DOMAIN s, s[i] = x, x # Head(s) PROVE InList(t, x)
    BY <1>1, <1>3, <2>2 DEF InList
  <2> QED BY <2>1, <2>2 DEF InList
<1> QED BY <1>1, <1>2, <1>5, <1>6 DEF t, InList

\* The lists and the states stay.
LEMMA PlaceUnchanged ==
  ASSUME PlaceInv,
         UNCHANGED <<call_queue, blk_cpu_done, local_list>>,
         \A r \in Rq : state'[r] = "completing" <=> state[r] = "completing"
  PROVE  PlaceInv'
<1>1. \A l \in Kind, c \in Cpu : ListOf(l, c)' = ListOf(l, c)
  BY DEF ListOf
<1> QED BY <1>1 DEF PlaceInv

\* A request that was on no list joins one.
LEMMA PlaceAdd ==
  ASSUME PlaceInv, NEW m \in Kind, NEW d \in Cpu, NEW r \in Rq,
         state[r] # "completing", state'[r] = "completing",
         \A x \in Rq \ {r} : state'[x] = state[x],
         \A l \in Kind, c \in Cpu : l # m \/ c # d => ListOf(l, c)' = ListOf(l, c),
         Distinct(ListOf(m, d)'),
         \A x \in Rq : InList(ListOf(m, d)', x) <=> InList(ListOf(m, d), x) \/ x = r
  PROVE  PlaceInv'
<1>1. \A l \in Kind, c \in Cpu : ~InList(ListOf(l, c), r)
  BY DEF PlaceInv
<1>2. \A l \in Kind, c \in Cpu, x \in Rq : InList(ListOf(l, c)', x)
        <=> InList(ListOf(l, c), x) \/ (x = r /\ l = m /\ c = d)
  OBVIOUS
<1>3. \A l \in Kind, c \in Cpu : Distinct(ListOf(l, c)')
  BY DEF PlaceInv
<1> QED BY <1>1, <1>2, <1>3 DEF PlaceInv

\* All entries of one list go to another.
LEMMA PlaceMove ==
  ASSUME PlaceInv, state' = state,
         NEW l \in Kind, NEW c \in Cpu, NEW m \in Kind, NEW d \in Cpu,
         l # m \/ c # d,
         ListOf(l, c)' = <<>>, Distinct(ListOf(m, d)'),
         \A n \in Kind, e \in Cpu : (n # l \/ e # c) /\ (n # m \/ e # d)
                                    => ListOf(n, e)' = ListOf(n, e),
         \A x \in Rq : InList(ListOf(m, d)', x)
                       <=> InList(ListOf(m, d), x) \/ InList(ListOf(l, c), x)
  PROVE  PlaceInv'
<1>1. \A n \in Kind, e \in Cpu, x \in Rq : InList(ListOf(n, e)', x)
        <=> /\ n # l \/ e # c
            /\ \/ InList(ListOf(n, e), x)
               \/ n = m /\ e = d /\ InList(ListOf(l, c), x)
  BY ShortList
<1>2. \A n \in Kind, e \in Cpu : Distinct(ListOf(n, e)')
  BY ShortList DEF PlaceInv
<1>3. ASSUME NEW n \in Kind, NEW k \in Kind, NEW e \in Cpu, NEW f \in Cpu,
             NEW r \in Rq, InList(ListOf(n, e)', r), InList(ListOf(k, f)', r)
      PROVE  n = k /\ e = f
  BY <1>1, <1>3 DEF PlaceInv
<1>4. ASSUME NEW r \in Rq
      PROVE  (\E n \in Kind, e \in Cpu : InList(ListOf(n, e)', r))
               <=> \E n \in Kind, e \in Cpu : InList(ListOf(n, e), r)
  BY <1>1
<1> QED BY <1>2, <1>3, <1>4 DEF PlaceInv

\* A request leaves its list and is completing no more.
LEMMA PlaceDrop ==
  ASSUME PlaceInv, NEW m \in Kind, NEW d \in Cpu, NEW r \in Rq,
         InList(ListOf(m, d), r), state'[r] # "completing",
         \A x \in Rq \ {r} : state'[x] = state[x],
         \A l \in Kind, c \in Cpu : l # m \/ c # d => ListOf(l, c)' = ListOf(l, c),
         Distinct(ListOf(m, d)'),
         \A x \in Rq : InList(ListOf(m, d)', x) <=> InList(ListOf(m, d), x) /\ x # r
  PROVE  PlaceInv'
<1>1. \A l \in Kind, c \in Cpu, x \in Rq : InList(ListOf(l, c)', x)
        <=> InList(ListOf(l, c), x) /\ x # r
  BY DEF PlaceInv
<1>2. \A l \in Kind, c \in Cpu : Distinct(ListOf(l, c)')
  BY DEF PlaceInv
<1> QED BY <1>1, <1>2 DEF PlaceInv

\* Nothing is on a list at first.
LEMMA PlaceInit == Init => PlaceInv
<1> SUFFICES ASSUME Init PROVE PlaceInv
  OBVIOUS
<1>1. \A l \in Kind, c \in Cpu : ListOf(l, c) = <<>>
  BY DEF Init, ListOf
<1>2. \A r \in Rq : state[r] # "completing"
  BY DEF Init
<1> QED BY <1>1, <1>2, ShortList DEF PlaceInv

\* The three lists of every cpu are sequences of requests.
LEMMA ListType == ASSUME TypeOK PROVE \A l \in Kind, c \in Cpu : ListOf(l, c) \in Seq(Rq)
BY DEF TypeOK, ListOf

\* The IPI queue of a cpu joins its list of completions.
LEMMA PlaceFlush ==
  ASSUME TypeOK, PlaceInv, NEW c \in Cpu, AddTail(c, call_queue[c]),
         call_queue' = [call_queue EXCEPT ![c] = <<>>],
         UNCHANGED <<state, local_list>>
  PROVE  PlaceInv'
<1>1. /\ ListOf("call", c) = call_queue[c] /\ ListOf("done", c) = blk_cpu_done[c]
      /\ ListOf("call", c)' = <<>>
      /\ ListOf("done", c)' = blk_cpu_done[c] \o call_queue[c]
  BY DEF ListOf, AddTail, TypeOK
<1>2. \A n \in Kind, e \in Cpu : (n # "call" \/ e # c) /\ (n # "done" \/ e # c)
                                 => ListOf(n, e)' = ListOf(n, e)
  BY DEF Kind, ListOf, AddTail, TypeOK
<1>3. "call" \in Kind /\ "done" \in Kind /\ "call" # "done"
  BY DEF Kind
<1>4. blk_cpu_done[c] \in Seq(Rq) /\ call_queue[c] \in Seq(Rq)
  BY DEF TypeOK
<1>5. /\ Distinct(blk_cpu_done[c]) /\ Distinct(call_queue[c])
      /\ \A x \in Rq : ~(InList(blk_cpu_done[c], x) /\ InList(call_queue[c], x))
  BY <1>1, <1>3 DEF PlaceInv
<1>6. \A x : InList(call_queue[c], x) => x \in Rq
  BY <1>4, ElementOfSeq, LenProperties DEF InList
<1>7. /\ Distinct(blk_cpu_done[c] \o call_queue[c])
      /\ \A x : InList(blk_cpu_done[c] \o call_queue[c], x)
                <=> InList(blk_cpu_done[c], x) \/ InList(call_queue[c], x)
  BY <1>4, <1>5, <1>6, ConcatList
<1>8. /\ Distinct(ListOf("done", c)')
      /\ \A x \in Rq : InList(ListOf("done", c)', x)
           <=> InList(ListOf("done", c), x) \/ InList(ListOf("call", c), x)
  BY <1>1, <1>7
<1>9. ListOf("call", c)' = <<>> /\ state' = state
  BY <1>1
<1> QED BY <1>2, <1>3, <1>8, <1>9, PlaceMove

\* A completion is put on exactly one list.
LEMMA PlaceComplete ==
  ASSUME TypeOK, PlaceInv, NEW r \in Rq, NEW c \in Cpu, __blk_complete_request(r, c)
  PROVE  PlaceInv'
<1> DEFINE ccpu == IF rq_cpu[r] = NoCpu THEN c ELSE rq_cpu[r]
<1>1. /\ state[r] # "completing" /\ state'[r] = "completing"
      /\ \A x \in Rq \ {r} : state'[x] = state[x]
      /\ local_list' = local_list /\ ccpu \in Cpu
  BY DEF __blk_complete_request, runVars, TypeOK
<1>2. \A l \in Kind, e \in Cpu : ~InList(ListOf(l, e), r)
  BY <1>1 DEF PlaceInv
<1>3. ASSUME NEW m \in Kind, NEW e \in Cpu,
             ListOf(m, e)' = ListOf(m, e) \o <<r>>,
             \A l \in Kind, d \in Cpu : l # m \/ d # e => ListOf(l, d)' = ListOf(l, d)
      PROVE  PlaceInv'
  <2>1. ListOf(m, e) \in Seq(Rq) /\ <<r>> \in Seq(Rq)
    BY ListType
  <2>2. Distinct(ListOf(m, e)) /\ ~InList(ListOf(m, e), r)
    BY <1>2 DEF PlaceInv
  <2>3. /\ Distinct(<<r>>) /\ \A x : InList(<<r>>, x) <=> x = r
    BY ShortList
  <2> DEFINE s == ListOf(m, e)
             t == <<r>>
  <2>4. /\ s \in Seq(Rq) /\ t \in Seq(Rq) /\ Distinct(s) /\ Distinct(t)
        /\ \A x : ~(InList(s, x) /\ InList(t, x))
        /\ \A x : InList(t, x) <=> x = r
    BY <2>1, <2>2, <2>3
  <2> HIDE DEF s, t
  <2>5. Distinct(s \o t) /\ \A x : InList(s \o t, x) <=> InList(s, x) \/ x = r
    BY <2>4, ConcatList
  <2>6. /\ Distinct(ListOf(m, e)')
        /\ \A x \in Rq : InList(ListOf(m, e)', x) <=> InList(ListOf(m, e), x) \/ x = r
    BY <1>3, <2>5 DEF s, t
  <2> QED BY <1>1, <1>3, <2>6, PlaceAdd
<1>4. "call" \in Kind /\ "done" \in Kind
  BY DEF Kind
<1>5. CASE AddTail(c, <<r>>) /\ UNCHANGED call_queue
  <2>1. ListOf("done", c)' = ListOf("done", c) \o <<r>>
    BY <1>5 DEF ListOf, AddTail, TypeOK
  <2>2. \A n \in Kind, e \in Cpu : n # "done" \/ e # c => ListOf(n, e)' = ListOf(n, e)
    BY <1>1, <1>5 DEF Kind, ListOf, AddTail, TypeOK
  <2> QED BY <1>3, <1>4, <2>1, <2>2
<1>6. CASE /\ call_queue' = [call_queue EXCEPT ![ccpu] = Append(@, r)]
           /\ UNCHANGED <<blk_cpu_done, raised>>
  <2>1. PICK e \in Cpu : e = ccpu
    BY <1>1
  <2>2. /\ call_queue' = [call_queue EXCEPT ![e] = Append(@, r)]
        /\ call_queue[e] \in Seq(Rq)
    BY <1>6, <2>1 DEF TypeOK
  <2>3. Append(call_queue[e], r) = call_queue[e] \o <<r>>
    BY <2>2, AppendIsConcat
  <2>4. ListOf("call", e)' = ListOf("call", e) \o <<r>>
    BY <2>2, <2>3 DEF ListOf, TypeOK
  <2>5. \A n \in Kind, d \in Cpu : n # "call" \/ d # e => ListOf(n, d)' = ListOf(n, d)
    BY <1>1, <1>6, <2>2 DEF Kind, ListOf, TypeOK
  <2> QED BY <1>3, <1>4, <2>4, <2>5
<1> QED BY <1>5, <1>6 DEF __blk_complete_request

\* The softirq takes the list over and ends its entries one by one.
LEMMA PlaceSoftirq ==
  ASSUME TypeOK, RunInv, PlaceInv, NEW c \in Cpu, Softirq(c)
  PROVE  PlaceInv'
<1>1. CASE SoftirqEnter(c) \/ SoftirqExit(c)
  BY <1>1, PlaceUnchanged DEF SoftirqEnter, SoftirqExit
<1>2. CASE blk_done_softirq(c)
  <2>1. /\ ListOf("done", c)' = <<>>
        /\ ListOf("local", c) = <<>>
        /\ ListOf("local", c)' = ListOf("done", c)
    BY <1>2 DEF ListOf, blk_done_softirq, TypeOK, RunInv
  <2>2. \A n \in Kind, e \in Cpu : (n # "done" \/ e # c) /\ (n # "local" \/ e # c)
                                   => ListOf(n, e)' = ListOf(n, e)
    BY <1>2 DEF Kind, ListOf, blk_done_softirq, TypeOK
  <2>3. "done" \in Kind /\ "local" \in Kind /\ "done" # "local" /\ state' = state
    BY <1>2 DEF Kind, blk_done_softirq
  <2>4. Distinct(ListOf("local", c)')
    BY <2>1, <2>3 DEF PlaceInv
  <2> QED BY <2>1, <2>2, <2>3, <2>4, ShortList, PlaceMove
<1>3. CASE SoftirqDone(c)
  <2> DEFINE r == Head(local_list[c])
  <2>1. /\ local_list[c] \in Seq(Rq) /\ local_list[c] # <<>>
        /\ ListOf("local", c) = local_list[c]
        /\ ListOf("local", c)' = Tail(local_list[c])
        /\ state' = [state EXCEPT ![r] = "idle"]
        /\ "local" \in Kind
    BY <1>3 DEF Kind, ListOf, SoftirqDone, TypeOK
  <2>2. \A n \in Kind, e \in Cpu : n # "local" \/ e # c => ListOf(n, e)' = ListOf(n, e)
    BY <1>3 DEF Kind, ListOf, SoftirqDone, TypeOK
  <2>3. Distinct(local_list[c])
    BY <2>1 DEF PlaceInv
  <2>4. /\ r \in Rq /\ InList(local_list[c], r) /\ Distinct(Tail(local_list[c]))
        /\ \A x : InList(Tail(local_list[c]), x) <=> InList(local_list[c], x) /\ x # r
    BY <2>1, <2>3, TailList
  <2> HIDE DEF r
  <2>5. state'[r] # "completing" /\ \A x \in Rq \ {r} : state'[x] = state[x]
    BY <2>1, <2>4 DEF TypeOK
  <2>6. PICK y \in Rq : y = r
    BY <2>4
  <2>7. /\ InList(ListOf("local", c), y) /\ state'[y] # "completing"
        /\ \A x \in Rq \ {y} : state'[x] = state[x]
        /\ Distinct(ListOf("local", c)')
        /\ \A x \in Rq : InList(ListOf("local", c)', x)
                          <=> InList(ListOf("local", c), x) /\ x # y
    BY <2>1, <2>4, <2>5, <2>6
  <2> QED BY <2>1, <2>2, <2>7, PlaceDrop
<1> QED BY <1>1, <1>2, <1>3 DEF Softirq

\* blk_cpu_notify() splices the list of the dead cpu.
LEMMA PlaceDead ==
  ASSUME TypeOK, RunInv, PlaceInv, NEW c \in Cpu, blk_cpu_notify(c)
  PROVE  PlaceInv'
<1>1. /\ dead \in Cpu /\ c # dead
      /\ UNCHANGED <<state, call_queue, local_list>>
      /\ blk_cpu_done' = [blk_cpu_done EXCEPT
                            ![c] = blk_cpu_done[dead] \o blk_cpu_done[c],
                            ![dead] = <<>>]
  BY DEF blk_cpu_notify, runVars, RunInv, TypeOK
<1>2. PICK d \in Cpu : d = dead
  BY <1>1
<1>3. /\ ListOf("done", d)' = <<>>
      /\ ListOf("done", c)' = ListOf("done", d) \o ListOf("done", c)
  BY <1>1, <1>2 DEF ListOf, TypeOK
<1>4. \A n \in Kind, e \in Cpu : (n # "done" \/ e # d) /\ (n # "done" \/ e # c)
                                 => ListOf(n, e)' = ListOf(n, e)
  BY <1>1, <1>2 DEF Kind, ListOf, TypeOK
<1>5. "done" \in Kind /\ d # c
  BY <1>1, <1>2 DEF Kind
<1>6. ListOf("done", d) \in Seq(Rq) /\ ListOf("done", c) \in Seq(Rq)
  BY <1>5, ListType
<1>7. /\ Distinct(ListOf("done", d)) /\ Distinct(ListOf("done", c))
      /\ \A x \in Rq : ~(InList(ListOf("done", d), x) /\ InList(ListOf("done", c), x))
  BY <1>5 DEF PlaceInv
<1>8. \A x : InList(ListOf("done", d), x) => x \in Rq
  BY <1>6, ElementOfSeq, LenProperties DEF InList
<1>9. /\ Distinct(ListOf("done", d) \o ListOf("done", c))
      /\ \A x : InList(ListOf("done", d) \o ListOf("done", c), x)
                <=> InList(ListOf("done", d), x) \/ InList(ListOf("done", c), x)
  BY <1>6, <1>7, <1>8, ConcatList
<1>10. /\ Distinct(ListOf("done", c)')
       /\ \A x \in Rq : InList(ListOf("done", c)', x)
            <=> InList(ListOf("done", c), x) \/ InList(ListOf("done", d), x)
  BY <1>3, <1>9
<1>11. ListOf("done", d)' = <<>> /\ state' = state
  BY <1>1, <1>3
<1> QED BY <1>4, <1>5, <1>10, <1>11, PlaceMove

\* Every step keeps each completion on one list.
LEMMA PlaceStep == TypeOK /\ RunInv /\ PlaceInv /\ [Next]_vars => PlaceInv'
<1> SUFFICES ASSUME TypeOK, RunInv, PlaceInv, [Next]_vars PROVE PlaceInv'
  OBVIOUS
<1>1. CASE \/ \E val \in 0..2 : queue_rq_affinity_store(val)
           \/ \E c \in Cpu : cpu_up(c)
           \/ UNCHANGED vars
  <2>1. UNCHANGED <<state, call_queue, blk_cpu_done, local_list>>
    BY <1>1 DEF queue_rq_affinity_store, cpu_up, runVars, vars
  <2> QED BY <2>1, PlaceUnchanged
<1>2. ASSUME NEW r \in Rq, NEW c \in Cpu, blk_queue_bio(r, c) PROVE PlaceInv'
  <2>1. /\ UNCHANGED <<call_queue, blk_cpu_done, local_list>>
        /\ \A x \in Rq : state'[x] = "completing" <=> state[x] = "completing"
    BY <1>2 DEF blk_queue_bio, runVars, TypeOK
  <2> QED BY <2>1, PlaceUnchanged
<1>3. ASSUME NEW c \in Cpu, trigger_softirq(c) \/ take_cpu_down(c) PROVE PlaceInv'
  BY <1>3, PlaceFlush DEF trigger_softirq, take_cpu_down, runVars
<1> QED BY <1>1, <1>2, <1>3, PlaceComplete, PlaceSoftirq, PlaceDead
        DEF Next, CpuDead

\* A request that is on one list once has one slot, any other none.
LEMMA SlotsCounted == TypeOK /\ PlaceInv => DeliveredOnce
<1> SUFFICES ASSUME TypeOK, PlaceInv, NEW r \in Rq
             PROVE  Cardinality(Slots(r)) = IF state[r] = "completing" THEN 1 ELSE 0
  BY DEF DeliveredOnce
<1>1. \A s : s \in Slots(r) <=> \E l \in Kind, c \in Cpu :
               \E i \in DOMAIN ListOf(l, c) : s = <<l, c, i>> /\ ListOf(l, c)[i] = r
  <2>1. \A s : s \in Slots(r)
              <=> \E l \in Kind, c \in Cpu : s \in SlotsOn(l, c, r)
    BY DEF Slots
  <2>2. \A s, l, c : s \in SlotsOn(l, c, r)
              <=> \E i \in DOMAIN ListOf(l, c) : s = <<l, c, i>> /\ ListOf(l, c)[i] = r
    BY DEF SlotsOn
  <2> QED BY <2>1, <2>2
<1>2. CASE state[r] = "completing"
  <2>1. PICK l \in Kind, c \in Cpu : InList(ListOf(l, c), r)
    BY <1>2 DEF PlaceInv
  <2>2. PICK i \in DOMAIN ListOf(l, c) : ListOf(l, c)[i] = r
    BY <2>1 DEF InList
  <2>3. ASSUME NEW m \in Kind, NEW d \in Cpu, NEW j \in DOMAIN ListOf(m, d),
               ListOf(m, d)[j] = r
        PROVE  m = l /\ d = c /\ j = i
    <3>1. m = l /\ d = c
      BY <2>1, <2>3 DEF InList, PlaceInv
    <3> QED BY <2>2, <2>3, <3>1 DEF PlaceInv, Distinct
  <2>4. Slots(r) = {<<l, c, i>>}
    BY <1>1, <2>2, <2>3
  <2> QED BY <1>2, <2>4, FS_Singleton
<1>3. CASE state[r] # "completing"
  <2>1. Slots(r) = {}
    BY <1>1, <1>3 DEF PlaceInv, InList
  <2> QED BY <1>3, <2>1, FS_EmptySet
<1> QED BY <1>2, <1>3

-----------------------------------------------------------------------------
\* The inductive invariant of the completion lists.
THEOREM Invariance == Spec => []IInv
<1>1. ListsInv /\ PlaceInv <=> IInv
  BY DEF ListsInv, IInv
<1>2. ListsInv => TypeOK /\ RunInv
  BY DEF ListsInv
<1> QED BY <1>1, <1>2, InvInit, InvStep, PlaceInit, PlaceStep, PTL DEF Spec

\* The variables keep their types: a completion's target cpu always exists.
THEOREM TypeCorrect == Spec => []TypeOK
<1>1. IInv => TypeOK
  BY DEF IInv
<1> QED BY <1>1, Invariance, PTL

\* No lost wakeup: raising the softirq only for the first entry of a list is
\* enough, because the pending bit is cleared before the list is taken.
THEOREM NoLostWakeup == Spec => []SoftirqComing
<1>1. IInv => SoftirqComing
  BY DEF IInv
<1> QED BY <1>1, Invariance, PTL

\* A cpu taken down leaves no completion behind, on its list or in an IPI
\* that was on its way.
THEOREM HotplugStrandsNothing == Spec => []NothingStranded
<1>1. IInv => NothingStranded
  BY DEF IInv
<1> QED BY <1>1, Invariance, PTL

\* Every completion is delivered exactly once, whatever softirqs, IPIs and cpu
\* hotplug do meanwhile: none is lost, none is handed to softirq_done_fn twice.
THEOREM CompletionsDeliveredOnce == Spec => []DeliveredOnce
<1>1. IInv => DeliveredOnce
  BY SlotsCounted DEF IInv
<1> QED BY <1>1, Invariance, PTL
=============================================================================
