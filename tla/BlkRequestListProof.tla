------------------------ MODULE BlkRequestListProof ------------------------
(***************************************************************************)
(* Proofs about BlkRequestList: the invariant IInv, and from it the        *)
(* accounting, the marks, the absence of lost wakeups and the safety of    *)
(* elevator_switch(), for every set of tasks and every size of the list.   *)
(***************************************************************************)
EXTENDS BlkRequestList, FiniteSetTheorems, TLAPS

-----------------------------------------------------------------------------
(* Arithmetic of the thresholds *)

\* The thresholds of blk_queue_congestion_threshold() lie in order below
\* nr_requests, and the hard limit of __get_request() is not below it.
LEMMA Thresholds ==
  ASSUME NEW nr \in Nat \ {0}
  PROVE  /\ queue_congestion_on_threshold(nr) \in Nat
         /\ queue_congestion_off_threshold(nr) \in Nat
         /\ 1 <= queue_congestion_off_threshold(nr)
         /\ queue_congestion_off_threshold(nr)
              <= queue_congestion_on_threshold(nr)
         /\ queue_congestion_on_threshold(nr) <= nr
         /\ (3 * nr) \div 2 \in Nat /\ nr <= (3 * nr) \div 2
<1>1. /\ nr \div 8 \in Nat /\ 8 * (nr \div 8) <= nr
      /\ nr \div 16 \in Nat
      /\ (3 * nr) \div 2 \in Nat /\ nr <= (3 * nr) \div 2
  OBVIOUS
<1>2. nr - nr \div 8 >= 1
  BY <1>1
<1> QED  BY <1>1, <1>2 DEF queue_congestion_on_threshold,
            queue_congestion_off_threshold, AtMost, AtLeast

\* Naturals that add up to nothing are all zero.
LEMMA ZeroSum ==
  ASSUME NEW a \in Nat, NEW b \in Nat, NEW c \in Nat, NEW d \in Nat,
         NEW n \in Nat, 0 = a + b + c + d + n
  PROVE  a = 0 /\ c = 0 /\ n = 0
OBVIOUS

\* One less of the last summand is one less of the sum.
LEMMA OneLess ==
  ASSUME NEW a \in Nat, NEW b \in Nat, NEW c \in Nat, NEW n \in Nat
  PROVE  (a + b + c + n) - 1 = a + b + c + (n - 1)
OBVIOUS

-----------------------------------------------------------------------------
(* Wait queues *)

\* wake_up() takes the first waiter off each given queue: the others stay, in
\* order, and nobody is added.
LEMMA WakeOneFacts ==
  ASSUME TypeOK, QueueInv, NEW D \in SUBSET Sync, wait' = WakeOne(D)
  PROVE  /\ wait' \in [Sync -> Seq(Task)]
         /\ \A s \in Sync : \A i \in DOMAIN wait'[s] :
              \E j \in DOMAIN wait[s] : wait'[s][i] = wait[s][j]
         /\ \A s \in Sync : \A i, j \in DOMAIN wait'[s] :
              wait'[s][i] = wait'[s][j] => i = j
         /\ \A s \in Sync : wait'[s] # <<>> => wait[s] # <<>>
         /\ \A s \in D : wait[s] # <<>> =>
              \A i \in DOMAIN wait'[s] : wait'[s][i] # Head(wait[s])
<1>1. \A s \in Sync : wait[s] \in Seq(Task)
  BY DEF TypeOK
<1>2. ASSUME NEW s \in Sync
      PROVE  /\ wait'[s] \in Seq(Task)
             /\ \A i \in DOMAIN wait'[s] :
                  \E j \in DOMAIN wait[s] : wait'[s][i] = wait[s][j]
             /\ \A i, j \in DOMAIN wait'[s] :
                  wait'[s][i] = wait'[s][j] => i = j
             /\ wait'[s] # <<>> => wait[s] # <<>>
             /\ s \in D /\ wait[s] # <<>> =>
                  \A i \in DOMAIN wait'[s] : wait'[s][i] # Head(wait[s])
  <2>1. CASE s \in D /\ wait[s] # <<>>
    <3>1. wait'[s] = Tail(wait[s])
      BY <2>1 DEF WakeOne
    <3>2. /\ wait'[s] \in Seq(Task) /\ Len(wait'[s]) = Len(wait[s]) - 1
          /\ \A i \in DOMAIN wait'[s] :
               i + 1 \in DOMAIN wait[s] /\ wait'[s][i] = wait[s][i + 1]
          /\ DOMAIN wait'[s] \subseteq Nat \ {0}
          /\ 1 \in DOMAIN wait[s] /\ Head(wait[s]) = wait[s][1]
      BY <1>1, <2>1, <3>1
    <3>3. \A i, j \in DOMAIN wait[s] : wait[s][i] = wait[s][j] => i = j
      BY DEF QueueInv
    <3>4. ASSUME NEW i \in DOMAIN wait'[s], NEW j \in DOMAIN wait'[s],
                 wait'[s][i] = wait'[s][j]
          PROVE  i = j
      <4>1. i + 1 = j + 1
        BY <3>2, <3>3, <3>4
      <4> QED  BY <3>2, <4>1
    <3>5. ASSUME NEW i \in DOMAIN wait'[s]
          PROVE  wait'[s][i] # Head(wait[s])
      <4>1. i + 1 # 1
        BY <3>2
      <4> QED  BY <3>2, <3>3, <4>1
    <3> QED  BY <2>1, <3>2, <3>4, <3>5
  <2>2. CASE ~(s \in D /\ wait[s] # <<>>)
    <3>1. wait'[s] = wait[s]
      BY <2>2 DEF WakeOne
    <3> QED  BY <1>1, <2>2, <3>1 DEF QueueInv
  <2> QED  BY <2>1, <2>2
<1>3. wait' \in [Sync -> Seq(Task)]
  BY <1>2 DEF WakeOne
<1> QED  BY <1>2, <1>3

Pcs == {"idle", "asleep", "woken", "retry", "alloc"}

\* Whoever leaves a wait queue runs, everyone else on it still sleeps.
LEMMA Awaken ==
  ASSUME TypeOK, QueueInv, wait' \in [Sync -> Seq(Task)],
         \A s \in Sync : \A i \in DOMAIN wait'[s] :
           \E j \in DOMAIN wait[s] : wait'[s][i] = wait[s][j],
         \A s \in Sync : \A i, j \in DOMAIN wait'[s] :
           wait'[s][i] = wait'[s][j] => i = j,
         NEW p \in [Task -> Pcs],
         \A t \in Task : p[t] = pc[t] \/ (pc[t] = "alloc" /\ p[t] = "idle"),
         pc' = Wake(p),
         call' \in [Task -> Call],
         \A t \in Task : call'[t] = call[t] \/ pc[t] = "alloc"
  PROVE  /\ QueueInv'
         /\ pc' \in [Task -> Pcs]
         /\ \A t \in Task : \/ pc'[t] = p[t]
                            \/ pc[t] = "asleep" /\ pc'[t] = "woken"
         /\ \A t \in Task : Waiting(t, wait) /\ ~Waiting(t, wait')
                              => pc'[t] = "woken"
<1>1. \A t \in Task : pc'[t] = IF Waiting(t, wait) /\ ~Waiting(t, wait')
                               THEN "woken" ELSE p[t]
  BY DEF Wake
<1>2. pc' \in [Task -> Pcs]
  BY DEF Wake, Pcs
<1>3. \A t \in Task : Waiting(t, wait) => pc[t] = "asleep"
  BY DEF Waiting, QueueInv
<1>4. \A t \in Task : Waiting(t, wait') => Waiting(t, wait)
  BY DEF Waiting
<1>5. ASSUME NEW s \in Sync, NEW i \in DOMAIN wait'[s]
      PROVE  pc'[wait'[s][i]] = "asleep" /\ call'[wait'[s][i]].sync = s
  <2>1. PICK j \in DOMAIN wait[s] : wait'[s][i] = wait[s][j]
    BY <1>5
  <2>2. wait[s][j] \in Task
    BY DEF TypeOK
  <2>3. pc[wait[s][j]] = "asleep" /\ call[wait[s][j]].sync = s
    BY DEF QueueInv
  <2>4. Waiting(wait[s][j], wait')
    BY <2>1 DEF Waiting
  <2> QED  BY <1>1, <2>1, <2>2, <2>3, <2>4
<1>6. ASSUME NEW t \in Task, pc'[t] = "asleep"
      PROVE  Waiting(t, wait')
  <2>1. pc[t] = "asleep"
    BY <1>1, <1>6
  <2>2. Waiting(t, wait)
    BY <2>1 DEF QueueInv
  <2> QED  BY <1>1, <1>6, <2>2
<1>7. QueueInv'
  BY <1>5, <1>6 DEF QueueInv
<1> QED  BY <1>1, <1>2, <1>3, <1>4, <1>7

\* wake_up() of a queue with waiters wakes one of them.
LEMMA WakeOneWakes ==
  ASSUME TypeOK, QueueInv, NEW D \in SUBSET Sync, wait' = WakeOne(D),
         NEW p \in [Task -> Pcs], pc' = Wake(p),
         \A t \in Task : call'[t] = call[t] \/ pc[t] = "alloc",
         NEW s \in D, wait[s] # <<>>
  PROVE  \E t \in Task : pc'[t] = "woken" /\ call'[t].sync = s
<1> DEFINE h == Head(wait[s])
<1>1. /\ h \in Task /\ 1 \in DOMAIN wait[s] /\ wait[s][1] = h
      /\ s \in Sync /\ wait[s] \in Seq(Task)
  BY DEF TypeOK
<1>2. pc[h] = "asleep" /\ call[h].sync = s
  BY <1>1 DEF QueueInv
<1>3. Waiting(h, wait)
  BY <1>1 DEF Waiting
<1>4. ~Waiting(h, wait')
  <2> SUFFICES ASSUME NEW d \in Sync, NEW i \in DOMAIN wait'[d],
                      wait'[d][i] = h
               PROVE  FALSE
    BY DEF Waiting
  <2>1. PICK j \in DOMAIN wait[d] : wait[d][j] = h
    BY WakeOneFacts
  <2>2. d = s
    BY <1>2, <2>1 DEF QueueInv
  <2> QED  BY <2>2, WakeOneFacts
<1>5. pc'[h] = "woken"
  BY <1>1, <1>3, <1>4 DEF Wake
<1> QED  BY <1>1, <1>2, <1>5

-----------------------------------------------------------------------------
(* Allocations in progress *)

\* There are finitely many allocations in progress.
LEMMA AllocFinite ==
  /\ \A s \in Sync : IsFiniteSet(Allocating(s))
  /\ IsFiniteSet(AllocatingElv)
  /\ \A s \in Sync : Cardinality(Allocating(s)) \in Nat
  /\ Cardinality(AllocatingElv) \in Nat
<1>1. \A s \in Sync : Allocating(s) \subseteq Task
  BY DEF Allocating
<1>2. AllocatingElv \subseteq Task
  BY DEF AllocatingElv
<1>3. IsFiniteSet(Task)
  BY ListAssumption
<1>4. /\ \A s \in Sync : IsFiniteSet(Allocating(s))
      /\ IsFiniteSet(AllocatingElv)
  BY <1>1, <1>2, <1>3, FS_Subset
<1> QED  BY <1>4, FS_CardinalityType

\* A step that begins and ends no allocation changes neither set.
LEMMA AllocSame ==
  ASSUME \A t \in Task : pc'[t] = "alloc" <=> pc[t] = "alloc",
         \A t \in Task : pc[t] = "alloc" =>
                           call'[t] = call[t] /\ et'[t] = et[t]
  PROVE  /\ \A s \in Sync : Allocating(s)' = Allocating(s)
         /\ AllocatingElv' = AllocatingElv
BY DEF Allocating, AllocatingElv

\* An allocation that begins is counted once, in its direction.
LEMMA AllocBegins ==
  ASSUME NEW t \in Task, pc[t] # "alloc", pc'[t] = "alloc",
         \A u \in Task \ {t} : pc'[u] = pc[u] /\ call'[u] = call[u]
                                 /\ et'[u] = et[u]
  PROVE  /\ \A s \in Sync : Cardinality(Allocating(s)') =
              Cardinality(Allocating(s))
                + (IF call'[t].sync = s THEN 1 ELSE 0)
         /\ Cardinality(AllocatingElv') =
              Cardinality(AllocatingElv) + (IF et'[t] = "none" THEN 0 ELSE 1)
<1>1. ASSUME NEW s \in Sync
      PROVE  Cardinality(Allocating(s)') = Cardinality(Allocating(s))
               + (IF call'[t].sync = s THEN 1 ELSE 0)
  <2>1. CASE call'[t].sync = s
    <3>1. Allocating(s)' = Allocating(s) \cup {t} /\ t \notin Allocating(s)
      BY <2>1 DEF Allocating
    <3> QED  BY <2>1, <3>1, AllocFinite, FS_AddElement
  <2>2. CASE call'[t].sync # s
    <3>1. Allocating(s)' = Allocating(s)
      BY <2>2 DEF Allocating
    <3> QED  BY <2>2, <3>1, AllocFinite
  <2> QED  BY <2>1, <2>2
<1>2. CASE et'[t] # "none"
  <2>1. AllocatingElv' = AllocatingElv \cup {t} /\ t \notin AllocatingElv
    BY <1>2 DEF AllocatingElv
  <2> QED  BY <1>1, <1>2, <2>1, AllocFinite, FS_AddElement
<1>3. CASE et'[t] = "none"
  <2>1. AllocatingElv' = AllocatingElv
    BY <1>3 DEF AllocatingElv
  <2> QED  BY <1>1, <1>3, <2>1, AllocFinite
<1> QED  BY <1>2, <1>3

\* So is one that ends.
LEMMA AllocEnds ==
  ASSUME NEW t \in Task, pc[t] = "alloc", pc'[t] # "alloc",
         \A u \in Task \ {t} : /\ pc'[u] = "alloc" <=> pc[u] = "alloc"
                               /\ call'[u] = call[u] /\ et'[u] = et[u]
  PROVE  /\ \A s \in Sync : Cardinality(Allocating(s)') =
              Cardinality(Allocating(s)) - (IF call[t].sync = s THEN 1 ELSE 0)
         /\ Cardinality(AllocatingElv') =
              Cardinality(AllocatingElv) - (IF et[t] = "none" THEN 0 ELSE 1)
         /\ Cardinality(AllocatingElv') \in Nat
         /\ \A s \in Sync : Cardinality(Allocating(s)') \in Nat
<1>1. ASSUME NEW s \in Sync
      PROVE  /\ Cardinality(Allocating(s)') = Cardinality(Allocating(s))
                  - (IF call[t].sync = s THEN 1 ELSE 0)
             /\ Cardinality(Allocating(s)') \in Nat
  <2>1. CASE call[t].sync = s
    <3>1. Allocating(s)' = Allocating(s) \ {t} /\ t \in Allocating(s)
      BY <2>1 DEF Allocating
    <3>2. IsFiniteSet(Allocating(s)')
      BY <3>1, AllocFinite, FS_RemoveElement
    <3> QED  BY <2>1, <3>1, <3>2, AllocFinite, FS_RemoveElement,
                FS_CardinalityType
  <2>2. CASE call[t].sync # s
    <3>1. Allocating(s)' = Allocating(s)
      BY <2>2 DEF Allocating
    <3> QED  BY <2>2, <3>1, AllocFinite
  <2> QED  BY <2>1, <2>2
<1>2. CASE et[t] # "none"
  <2>1. AllocatingElv' = AllocatingElv \ {t} /\ t \in AllocatingElv
    BY <1>2 DEF AllocatingElv
  <2>2. IsFiniteSet(AllocatingElv')
    BY <2>1, AllocFinite, FS_RemoveElement
  <2> QED  BY <1>1, <1>2, <2>1, <2>2, AllocFinite, FS_RemoveElement,
              FS_CardinalityType
<1>3. CASE et[t] = "none"
  <2>1. AllocatingElv' = AllocatingElv
    BY <1>3 DEF AllocatingElv
  <2> QED  BY <1>1, <1>3, <2>1, AllocFinite
<1> QED  BY <1>2, <1>3

-----------------------------------------------------------------------------
(* get_request() *)

\* A task that arrives, or one that was woken and comes back with the
\* arguments it came with.
Caller(t, c) == /\ t \in Task /\ c \in Call
                /\ pc[t] = "idle" \/ (pc[t] = "retry" /\ c = call[t])

\* A task that sleeps on no queue is free to change its state.
LEMMA QueueOthers ==
  ASSUME TypeOK, QueueInv, NEW t \in Task, pc[t] # "asleep", wait' = wait,
         pc'[t] # "asleep",
         \A u \in Task \ {t} : pc'[u] = pc[u] /\ call'[u] = call[u]
  PROVE  QueueInv'
<1>1. \A s \in Sync : \A i \in DOMAIN wait[s] : wait[s][i] \in Task
  BY DEF TypeOK
<1>2. ASSUME NEW s \in Sync, NEW i \in DOMAIN wait[s]
      PROVE  pc'[wait[s][i]] = "asleep" /\ call'[wait[s][i]].sync = s
  BY <1>1 DEF QueueInv
<1>3. ASSUME NEW u \in Task, pc'[u] = "asleep"
      PROVE  Waiting(u, wait)
  BY <1>3 DEF QueueInv
<1>4. ASSUME NEW u \in Task, pc'[u] = "asleep"
      PROVE  Waiting(u, wait')
  BY <1>3, <1>4 DEF Waiting
<1> QED  BY <1>2, <1>4 DEF QueueInv

\* -ENODEV leaves the list alone; the chain of wakeups it breaks is mended by
\* the drain that is under way.
LEMMA GetFromDyingInv ==
  ASSUME IInv, NEW t, NEW c, Caller(t, c), GetFromDying(t), gets' \in 0..MaxGet
  PROVE  IInv'
<1> USE DEF IInv, GetFromDying, Return, Forget, markVars, iocVars, adminVars,
            Caller
<1>1. TypeOK'
  BY DEF TypeOK, NoCall, Call, Sync, Elv
<1>2. QueueInv'
  <2>1. pc'[t] # "asleep" /\ \A u \in Task \ {t} : pc'[u] = pc[u]
                                /\ call'[u] = call[u]
    BY DEF TypeOK
  <2> QED  BY <2>1, QueueOthers
<1>3. AdminInv'
  BY DEF AdminInv, TypeOK
<1>4. CountExact'
  <2>1. /\ \A u \in Task : pc'[u] = "alloc" <=> pc[u] = "alloc"
        /\ \A u \in Task : pc[u] = "alloc" =>
                             call'[u] = call[u] /\ et'[u] = et[u]
    BY DEF TypeOK
  <2>2. /\ \A s \in Sync : Allocating(s)' = Allocating(s)
        /\ AllocatingElv' = AllocatingElv
    BY <2>1, AllocSame
  <2> QED  BY <2>2 DEF CountExact
<1>5. MarksTrackCount'
  BY DEF MarksTrackCount, FullExact, CongestionTracks
<1>6. NoLostWakeup'
  BY DEF NoLostWakeup, AdminInv, TypeOK, dying
<1>7. ElevatorSafe'
  BY DEF ElevatorSafe, TypeOK
<1> QED  BY <1>1, <1>2, <1>3, <1>4, <1>5, <1>6, <1>7

\* A refused caller finds the list full, so a request of its direction is
\* still to be freed when it goes to sleep or gives up.
LEMMA RefuseInv ==
  ASSUME IInv, NEW t, NEW c, Caller(t, c), ~dying, Refuse(t, c),
         count[c.sync] >= nr_requests,
         full' = full, congested' = congested,
         nr_batch' \in [Task -> 0..NrBatching], recent' \in [Task -> BOOLEAN],
         gets' \in 0..MaxGet, musts' \in 0..MaxMust
  PROVE  IInv'
<1> USE DEF IInv, Refuse, Return, Forget, adminVars, Caller
<1>0. c.sync \in Sync /\ nr_requests \in Nat \ {0} /\ count[c.sync] \in Nat
  BY ListAssumption DEF Call, TypeOK
<1>w. /\ c.wait \in BOOLEAN
      /\ wait' = [wait EXCEPT ![c.sync] = IF c.wait THEN Append(@, t) ELSE @]
      /\ \A s \in Sync : wait[s] \in Seq(Task)
      /\ \A s \in Sync : wait'[s] =
           IF s = c.sync /\ c.wait THEN Append(wait[s], t) ELSE wait[s]
  <2>1. c.wait \in BOOLEAN
    BY DEF Call
  <2>2. wait' = [wait EXCEPT ![c.sync] = IF c.wait THEN Append(@, t) ELSE @]
    BY <1>0 DEF TypeOK
  <2> QED  BY <2>1, <2>2 DEF TypeOK
<1>1. TypeOK'
  <2>1. wait' \in [Sync -> Seq(Task)]
    <3>1. \A s \in Sync : wait'[s] \in Seq(Task)
      BY <1>w
    <3>2. wait' = [s \in Sync |-> wait'[s]]
      BY <1>w DEF TypeOK
    <3> QED  BY <3>1, <3>2
  <2>2. call' \in [Task -> Call] /\ et' \in [Task -> Elv]
    <3>1. NoCall \in Call
      BY DEF NoCall, Call, Sync
    <3>2. call \in [Task -> Call] /\ et \in [Task -> Elv] /\ "none" \in Elv
      BY DEF TypeOK, Elv
    <3>3. CASE c.wait
      BY <3>2, <3>3
    <3>4. CASE ~c.wait
      BY <3>1, <3>2, <3>4
    <3> QED  BY <3>3, <3>4
  <2>3. pc' \in [Task -> {"idle", "asleep", "woken", "retry", "alloc"}]
    BY DEF TypeOK
  <2> QED  BY <2>1, <2>2, <2>3 DEF TypeOK
<1>2. /\ \A u \in Task \ {t} : pc'[u] = pc[u] /\ call'[u] = call[u]
                                 /\ et'[u] = et[u]
      /\ pc'[t] \in {"idle", "asleep"}
      /\ et'[t] = "none"
  BY DEF TypeOK, AdminInv
<1>3. QueueInv'
  <2>1. CASE c.wait
    <3>1. /\ wait' = [wait EXCEPT ![c.sync] = Append(@, t)]
          /\ pc'[t] = "asleep" /\ call'[t] = c
      BY <2>1 DEF TypeOK
    <3>2. \A s \in Sync : wait[s] \in Seq(Task)
      BY DEF TypeOK
    <3>3. \A s \in Sync : \A i \in DOMAIN wait[s] :
            /\ wait[s][i] \in Task /\ wait[s][i] # t
            /\ pc[wait[s][i]] = "asleep" /\ call[wait[s][i]].sync = s
      <4>1. \A s \in Sync : \A i \in DOMAIN wait[s] : wait[s][i] \in Task
        BY <3>2
      <4> QED  BY <4>1 DEF QueueInv
    <3>4. ASSUME NEW s \in Sync, NEW i \in DOMAIN wait'[s]
          PROVE  \/ i \in DOMAIN wait[s] /\ wait'[s][i] = wait[s][i]
                 \/ s = c.sync /\ i = Len(wait[s]) + 1 /\ wait'[s][i] = t
      <4>1. CASE s = c.sync
        <5>1. wait'[s] = Append(wait[s], t)
          BY <1>w, <2>1, <4>1
        <5> QED  BY <3>2, <3>4, <4>1, <5>1
      <4>2. CASE s # c.sync
        BY <1>w, <3>4, <4>2
      <4> QED  BY <4>1, <4>2
    <3>5. \A s \in Sync : \A i \in DOMAIN wait'[s] :
            pc'[wait'[s][i]] = "asleep" /\ call'[wait'[s][i]].sync = s
      BY <1>2, <3>1, <3>3, <3>4
    <3>6. \A s \in Sync : \A i, j \in DOMAIN wait'[s] :
            wait'[s][i] = wait'[s][j] => i = j
      <4> SUFFICES ASSUME NEW s \in Sync, NEW i \in DOMAIN wait'[s],
                          NEW j \in DOMAIN wait'[s], wait'[s][i] = wait'[s][j]
                   PROVE  i = j
        OBVIOUS
      <4>1. \/ i \in DOMAIN wait[s] /\ wait'[s][i] = wait[s][i]
            \/ i = Len(wait[s]) + 1 /\ wait'[s][i] = t
        BY <3>4
      <4>2. \/ j \in DOMAIN wait[s] /\ wait'[s][j] = wait[s][j]
            \/ j = Len(wait[s]) + 1 /\ wait'[s][j] = t
        BY <3>4
      <4> QED  BY <3>3, <4>1, <4>2 DEF QueueInv
    <3>7. ASSUME NEW u \in Task, pc'[u] = "asleep"
          PROVE  Waiting(u, wait')
      <4>1. CASE u = t
        <5>1. /\ Len(wait[c.sync]) + 1 \in DOMAIN wait'[c.sync]
              /\ wait'[c.sync][Len(wait[c.sync]) + 1] = t
          BY <1>0, <3>1, <3>2 DEF TypeOK
        <5> QED  BY <1>0, <4>1, <5>1 DEF Waiting
      <4>2. CASE u # t
        <5>1. PICK s \in Sync : \E i \in DOMAIN wait[s] : wait[s][i] = u
          BY <1>2, <3>7, <4>2 DEF QueueInv, Waiting
        <5>2. PICK i \in DOMAIN wait[s] : wait[s][i] = u
          BY <5>1
        <5>3. i \in DOMAIN wait'[s] /\ wait'[s][i] = u
          <6>1. CASE s = c.sync
            <7>1. wait'[s] = Append(wait[s], t)
              BY <1>w, <2>1, <6>1
            <7> QED  BY <3>2, <5>2, <7>1
          <6>2. CASE s # c.sync
            BY <1>w, <5>2, <6>2
          <6> QED  BY <6>1, <6>2
        <5> QED  BY <5>3 DEF Waiting
      <4> QED  BY <4>1, <4>2
    <3> QED  BY <3>5, <3>6, <3>7 DEF QueueInv
  <2>2. CASE ~c.wait
    <3>1. wait' = wait /\ pc'[t] = "idle"
      BY <2>2 DEF TypeOK
    <3> QED  BY <1>2, <3>1, QueueOthers
  <2> QED  BY <2>1, <2>2
<1>4. AdminInv'
  BY <1>2 DEF AdminInv, dying
<1>5. CountExact'
  <2>1. /\ \A s \in Sync : Allocating(s)' = Allocating(s)
        /\ AllocatingElv' = AllocatingElv
    BY <1>2, AllocSame
  <2> QED  BY <2>1 DEF CountExact
<1>6. MarksTrackCount'
  BY DEF MarksTrackCount, FullExact, CongestionTracks
<1>7. NoLostWakeup'
  <2> SUFFICES ASSUME NEW s \in Sync, wait'[s] # <<>>
               PROVE  \/ count[s] > 0
                      \/ \E u \in Task : pc'[u] \in {"woken", "retry"}
                                           /\ call'[u].sync = s
                      \/ cleanup \in {"marked", "drain"}
    BY DEF NoLostWakeup
  <2>1. CASE s = c.sync
    BY <1>0, <2>1
  <2>2. CASE s # c.sync
    <3>1. wait[s] # <<>>
      BY <1>w, <2>2
    <3>2. CASE \E u \in Task : pc[u] \in {"woken", "retry"}
                                 /\ call[u].sync = s
      <4>1. PICK u \in Task : pc[u] \in {"woken", "retry"}
                                /\ call[u].sync = s
        BY <3>2
      <4>2. u # t
        BY <2>2, <4>1
      <4> QED  BY <1>2, <4>1, <4>2
    <3> QED  BY <3>1, <3>2 DEF NoLostWakeup
  <2> QED  BY <2>1, <2>2
<1>8. ElevatorSafe'
  BY <1>2 DEF ElevatorSafe
<1> QED  BY <1>1, <1>3, <1>4, <1>5, <1>6, <1>7, <1>8

\* A batch never holds more than NrBatching requests.
LEMMA BatchType ==
  ASSUME TypeOK, NEW t \in Task
  PROVE  /\ ioc_set_batching(t) => /\ nr_batch' \in [Task -> 0..NrBatching]
                                   /\ recent' \in [Task -> BOOLEAN]
         /\ UNCHANGED iocVars => /\ nr_batch' \in [Task -> 0..NrBatching]
                                 /\ recent' \in [Task -> BOOLEAN]
         /\ UseBatch(t) => /\ nr_batch' \in [Task -> 0..NrBatching]
                           /\ recent' \in [Task -> BOOLEAN]
<1>1. /\ NrBatching \in Nat \ {0} /\ nr_batch \in [Task -> 0..NrBatching]
      /\ recent \in [Task -> BOOLEAN]
  BY ListAssumption DEF TypeOK
<1>2. ioc_batching(t) => nr_batch[t] > 0
  BY <1>1 DEF ioc_batching
<1>3. ASSUME UseBatch(t)
      PROVE  nr_batch' \in [Task -> 0..NrBatching] /\ recent' = recent
  <2>1. CASE ioc_batching(t)
    <3>1. nr_batch[t] - 1 \in 0..NrBatching
      BY <1>1, <1>2, <2>1
    <3>2. nr_batch' = [nr_batch EXCEPT ![t] = nr_batch[t] - 1]
      BY <1>3, <2>1 DEF UseBatch
    <3> QED  BY <1>1, <1>3, <3>1, <3>2 DEF UseBatch
  <2>2. CASE ~ioc_batching(t)
    BY <1>1, <1>3, <2>2 DEF UseBatch
  <2> QED  BY <2>1, <2>2
<1>4. ASSUME ioc_set_batching(t)
      PROVE  /\ nr_batch' \in [Task -> 0..NrBatching]
             /\ recent' \in [Task -> BOOLEAN]
  <2>1. CASE t \in HasIoc /\ ~ioc_batching(t)
    <3>1. /\ nr_batch' = [nr_batch EXCEPT ![t] = NrBatching]
          /\ recent' = [recent EXCEPT ![t] = TRUE]
      BY <1>4, <2>1 DEF ioc_set_batching
    <3>2. NrBatching \in 0..NrBatching
      BY <1>1
    <3> QED  BY <1>1, <3>1, <3>2
  <2>2. CASE ~(t \in HasIoc /\ ~ioc_batching(t))
    BY <1>1, <1>4, <2>2 DEF ioc_set_batching, iocVars
  <2> QED  BY <2>1, <2>2
<1> QED  BY <1>1, <1>3, <1>4 DEF iocVars

\* What the allocation that fills the list does to the marks.
LEMMA MarkFacts ==
  ASSUME TypeOK, NEW t \in Task, NEW s \in Sync, Mark(t, s)
  PROVE  /\ full' = IF Fills(s) THEN full \cup {s} ELSE full
         /\ congested' =
              IF count[s] + 1 >= queue_congestion_on_threshold(nr_requests)
              THEN congested \cup {s} ELSE congested
         /\ nr_batch' \in [Task -> 0..NrBatching]
         /\ recent' \in [Task -> BOOLEAN]
<1>1. CASE Fills(s) /\ s \notin full
  BY <1>1, BatchType DEF Mark
<1>2. CASE ~(Fills(s) /\ s \notin full)
  BY <1>2, BatchType DEF Mark, TypeOK
<1> QED  BY <1>1, <1>2

\* A request that is counted keeps the marks and the accounts in step, and
\* takes part in the elevator only outside bypass mode.
LEMMA CountInv ==
  ASSUME IInv, NEW t, NEW c, Caller(t, c), ~dying, Mark(t, c.sync),
         Count(t, c), gets' \in 0..MaxGet, musts' \in 0..MaxMust
  PROVE  IInv'
<1> USE DEF IInv
<1>0. /\ c.sync \in Sync /\ nr_requests \in Nat \ {0}
      /\ \A s \in Sync : count[s] \in Nat
      /\ c \in Call /\ t \in Task /\ nr_rqs_elvpriv \in Nat
      /\ pc[t] \notin {"alloc", "asleep"}
  BY ListAssumption DEF Call, TypeOK, Caller
<1>1. /\ \A u \in Task \ {t} : pc'[u] = pc[u] /\ call'[u] = call[u]
                                 /\ et'[u] = et[u]
      /\ pc'[t] = "alloc" /\ call'[t] = c
      /\ et'[t] = IF c.elv /\ bypass_depth = 0 THEN "current" ELSE "none"
      /\ wait' = wait /\ live' = live /\ UNCHANGED adminVars
      /\ count' = [count EXCEPT ![c.sync] = count[c.sync] + 1]
      /\ nr_rqs_elvpriv' = nr_rqs_elvpriv
                             + (IF c.elv /\ bypass_depth = 0 THEN 1 ELSE 0)
  BY <1>0 DEF Count, TypeOK
<1>2. /\ full' = IF Fills(c.sync) THEN full \cup {c.sync} ELSE full
      /\ congested' =
           IF count[c.sync] + 1 >= queue_congestion_on_threshold(nr_requests)
           THEN congested \cup {c.sync} ELSE congested
      /\ nr_batch' \in [Task -> 0..NrBatching] /\ recent' \in [Task -> BOOLEAN]
  BY <1>0, MarkFacts
<1>3. TypeOK'
  <2>1. count' \in [Sync -> Nat] /\ nr_rqs_elvpriv' \in Nat
    BY <1>0, <1>1 DEF TypeOK
  <2>2. /\ call' \in [Task -> Call] /\ et' \in [Task -> Elv]
        /\ pc' \in [Task -> {"idle", "asleep", "woken", "retry", "alloc"}]
        /\ starved' \subseteq Sync
    BY <1>0 DEF TypeOK, Count, Elv
  <2>3. full' \subseteq Sync /\ congested' \subseteq Sync
    BY <1>0, <1>2 DEF TypeOK
  <2> QED  BY <1>1, <1>2, <2>1, <2>2, <2>3 DEF TypeOK, adminVars
<1>4. QueueInv'
  BY <1>0, <1>1, QueueOthers
<1>5. AdminInv'
  BY <1>1 DEF AdminInv, adminVars
<1>6. CountExact'
  <2>1. /\ \A s \in Sync : Cardinality(Allocating(s)') =
             Cardinality(Allocating(s)) + (IF c.sync = s THEN 1 ELSE 0)
        /\ Cardinality(AllocatingElv') = Cardinality(AllocatingElv)
             + (IF et'[t] = "none" THEN 0 ELSE 1)
    BY <1>0, <1>1, AllocBegins
  <2>2. \A s \in Sync : count'[s] = count[s] + (IF c.sync = s THEN 1 ELSE 0)
    BY <1>0, <1>1 DEF TypeOK
  <2>3. nr_rqs_elvpriv' = nr_rqs_elvpriv + (IF et'[t] = "none" THEN 0 ELSE 1)
    BY <1>1
  <2>4. \A s \in Sync : \A e \in Elv : live[s][e] \in Nat
    BY DEF TypeOK
  <2>5. ASSUME NEW s \in Sync
        PROVE  count'[s] = live[s]["none"] + live[s]["current"]
                 + live[s]["stale"] + Cardinality(Allocating(s)')
    BY <2>1, <2>2, <2>4, AllocFinite DEF CountExact, Elv
  <2>6. nr_rqs_elvpriv' = live[0]["current"] + live[0]["stale"]
          + live[1]["current"] + live[1]["stale"]
          + Cardinality(AllocatingElv')
    <3>1. /\ live[0]["current"] \in Nat /\ live[0]["stale"] \in Nat
          /\ live[1]["current"] \in Nat /\ live[1]["stale"] \in Nat
      BY <2>4 DEF Elv, Sync
    <3>2. Cardinality(AllocatingElv) \in Nat
      BY AllocFinite
    <3>3. nr_rqs_elvpriv = live[0]["current"] + live[0]["stale"]
            + live[1]["current"] + live[1]["stale"]
            + Cardinality(AllocatingElv)
      BY DEF CountExact
    <3> HIDE DEF IInv
    <3> QED  BY <2>1, <2>3, <3>1, <3>2, <3>3
  <2> QED  BY <1>1, <2>5, <2>6 DEF CountExact
<1>7. MarksTrackCount'
  <2>0. /\ queue_congestion_on_threshold(nr_requests) \in Nat
        /\ queue_congestion_off_threshold(nr_requests) \in Nat
        /\ queue_congestion_off_threshold(nr_requests)
             <= queue_congestion_on_threshold(nr_requests)
        /\ nr_requests' = nr_requests
    BY <1>0, <1>1, Thresholds DEF adminVars
  <2>1. \A s \in Sync : count'[s] = IF s = c.sync THEN count[s] + 1
                                                  ELSE count[s]
    BY <1>0, <1>1 DEF TypeOK
  <2>2. FullExact'
    BY <1>0, <1>2, <2>0, <2>1 DEF MarksTrackCount, FullExact, Fills
  <2>3. CongestionTracks'
    BY <1>0, <1>2, <2>0, <2>1 DEF MarksTrackCount, CongestionTracks
  <2> QED  BY <2>2, <2>3 DEF MarksTrackCount
<1>8. NoLostWakeup'
  <2>1. cleanup' = cleanup
    BY <1>1 DEF adminVars
  <2> SUFFICES ASSUME NEW s \in Sync, wait[s] # <<>>
               PROVE  \/ count'[s] > 0
                      \/ \E u \in Task : pc'[u] \in {"woken", "retry"}
                                           /\ call'[u].sync = s
                      \/ cleanup \in {"marked", "drain"}
    BY <1>1, <2>1 DEF NoLostWakeup
  <2>2. CASE s = c.sync
    BY <1>0, <1>1, <2>2 DEF TypeOK
  <2>3. CASE s # c.sync
    <3>1. count'[s] = count[s]
      BY <1>0, <1>1, <2>3 DEF TypeOK
    <3>2. CASE \E u \in Task : pc[u] \in {"woken", "retry"}
                                 /\ call[u].sync = s
      <4>1. PICK u \in Task : pc[u] \in {"woken", "retry"}
                                /\ call[u].sync = s
        BY <3>2
      <4>2. u # t
        BY <2>3, <4>1 DEF Caller
      <4> QED  BY <1>1, <4>1, <4>2
    <3> QED  BY <3>1, <3>2 DEF NoLostWakeup
  <2> QED  BY <2>2, <2>3
<1>9. ElevatorSafe'
  <2>1. switch # "no" => bypass_depth # 0
    BY DEF AdminInv, TypeOK
  <2> QED  BY <1>1, <2>1 DEF ElevatorSafe, adminVars
<1> QED  BY <1>3, <1>4, <1>5, <1>6, <1>7, <1>8, <1>9

\* __get_request(), for a new call and for one that comes back.
LEMMA GetInv ==
  ASSUME IInv, NEW t, NEW c, NEW must \in BOOLEAN, Caller(t, c),
         __get_request(t, c, must), gets' \in 0..MaxGet
  PROVE  IInv'
<1>0. /\ TypeOK /\ c.sync \in Sync /\ nr_requests \in Nat \ {0}
      /\ count[c.sync] \in Nat /\ t \in Task /\ MaxMust \in Nat
  BY ListAssumption DEF IInv, Call, TypeOK, Caller
<1>1. CASE GetFromDying(t)
  BY <1>1, GetFromDyingInv
<1>2. CASE /\ ~dying
           /\ must => musts < MaxMust
           /\ musts' = musts + (IF must THEN 1 ELSE 0)
           /\ IF Blocked(t, c.sync, must)
              THEN Refuse(t, c) /\ UNCHANGED <<markVars, iocVars>>
              ELSE /\ Mark(t, c.sync)
                   /\ IF Over(c.sync) THEN Refuse(t, c) ELSE Count(t, c)
  <2>0. musts' \in 0..MaxMust
    BY <1>0, <1>2 DEF TypeOK
  <2>1. CASE Blocked(t, c.sync, must)
    <3>1. Refuse(t, c) /\ UNCHANGED <<markVars, iocVars>>
      BY <1>2, <2>1
    <3>2. count[c.sync] >= nr_requests
      BY <1>0, <2>1 DEF Blocked, IInv, MarksTrackCount, FullExact
    <3>3. /\ nr_batch' \in [Task -> 0..NrBatching]
          /\ recent' \in [Task -> BOOLEAN]
      BY <1>0, <3>1, BatchType
    <3> QED  BY <1>2, <2>0, <3>1, <3>2, <3>3, RefuseInv DEF markVars
  <2>2. CASE ~Blocked(t, c.sync, must) /\ Over(c.sync)
    <3>1. Mark(t, c.sync) /\ Refuse(t, c)
      BY <1>2, <2>2
    <3>2. count[c.sync] >= nr_requests
      BY <1>0, <2>2, Thresholds DEF Over
    <3>3. full' = full /\ congested' = congested
      <4>1. c.sync \in full /\ c.sync \in congested
        BY <1>0, <3>2, Thresholds
           DEF IInv, MarksTrackCount, FullExact, CongestionTracks
      <4> QED  BY <1>0, <3>1, <4>1, MarkFacts
    <3> QED  BY <1>0, <1>2, <2>0, <3>1, <3>2, <3>3, MarkFacts, RefuseInv
  <2>3. CASE ~Blocked(t, c.sync, must) /\ ~Over(c.sync)
    BY <1>2, <2>0, <2>3, CountInv
  <2> QED  BY <2>1, <2>2, <2>3
<1> QED  BY <1>1, <1>2 DEF __get_request

\* io_schedule() returns: one woken task is as good as the next retry.
LEMMA ResumeInv ==
  ASSUME IInv, NEW t \in Task, Resume(t)
  PROVE  IInv'
<1> USE DEF IInv, Resume
<1>1. /\ \A u \in Task \ {t} : pc'[u] = pc[u]
      /\ pc[t] = "woken" /\ pc'[t] = "retry" /\ call' = call /\ et' = et
  BY DEF TypeOK, callVars
<1>2. TypeOK'
  <2>1. pc' \in [Task -> {"idle", "asleep", "woken", "retry", "alloc"}]
    BY DEF TypeOK
  <2>2. nr_batch' \in [Task -> 0..NrBatching] /\ recent' \in [Task -> BOOLEAN]
    BY BatchType
  <2> QED  BY <2>1, <2>2 DEF TypeOK, callVars, markVars, adminVars
<1>3. QueueInv'
  BY <1>1, QueueOthers
<1>4. AdminInv'
  BY <1>1 DEF AdminInv, adminVars
<1>5. CountExact'
  <2>1. /\ \A s \in Sync : Allocating(s)' = Allocating(s)
        /\ AllocatingElv' = AllocatingElv
    BY <1>1, AllocSame
  <2> QED  BY <2>1 DEF CountExact
<1>6. MarksTrackCount'
  BY DEF MarksTrackCount, FullExact, CongestionTracks, markVars, adminVars
<1>7. NoLostWakeup'
  BY <1>1 DEF NoLostWakeup, adminVars
<1>8. ElevatorSafe'
  BY <1>1 DEF ElevatorSafe, adminVars
<1> QED  BY <1>2, <1>3, <1>4, <1>5, <1>6, <1>7, <1>8

\* The passing of BLK_BATCH_TIME changes who batches, and nothing else.
LEMMA BatchExpiresInv ==
  ASSUME IInv, NEW t \in Task, BatchExpires(t)
  PROVE  IInv'
<1> USE DEF IInv, BatchExpires
<1>1. TypeOK'
  BY DEF TypeOK, callVars, markVars, adminVars
<1>2. QueueInv' /\ AdminInv'
  BY DEF QueueInv, AdminInv, Waiting, callVars, adminVars
<1>3. CountExact'
  <2>1. /\ \A s \in Sync : Allocating(s)' = Allocating(s)
        /\ AllocatingElv' = AllocatingElv
    BY AllocSame DEF callVars
  <2> QED  BY <2>1 DEF CountExact
<1>4. MarksTrackCount'
  BY DEF MarksTrackCount, FullExact, CongestionTracks, markVars, adminVars
<1>5. NoLostWakeup' /\ ElevatorSafe'
  BY DEF NoLostWakeup, ElevatorSafe, adminVars, callVars
<1> QED  BY <1>1, <1>2, <1>3, <1>4, <1>5

\* The memory is there: the allocation in progress becomes a request of the
\* kind k, its elevator's or none's.
LEMMA HandOut ==
  ASSUME IInv, NEW t \in Task, NEW k \in Elv, pc[t] = "alloc",
         k \in {et[t], "none"},
         live' = [live EXCEPT ![call[t].sync][k] = @ + 1],
         pc' = Return(pc, t), Forget(t), UseBatch(t),
         nr_rqs_elvpriv' =
           nr_rqs_elvpriv - (IF k = "none" /\ et[t] # "none" THEN 1 ELSE 0),
         UNCHANGED <<count, starved, wait, markVars, gets, musts, adminVars>>
  PROVE  IInv'
<1> USE DEF IInv
<1>0. /\ call[t] \in Call /\ call[t].sync \in Sync /\ et[t] \in Elv
      /\ \A s \in Sync : \A e \in Elv : live[s][e] \in Nat
      /\ \A s \in Sync : count[s] \in Nat
      /\ nr_rqs_elvpriv \in Nat
  BY DEF TypeOK, Call
<1>1. /\ \A u \in Task \ {t} : pc'[u] = pc[u] /\ call'[u] = call[u]
                                 /\ et'[u] = et[u]
      /\ pc'[t] = "idle" /\ et'[t] = "none"
  BY DEF TypeOK, Return, Forget
<1>2. /\ \A s \in Sync : Cardinality(Allocating(s)') =
           Cardinality(Allocating(s)) - (IF call[t].sync = s THEN 1 ELSE 0)
      /\ Cardinality(AllocatingElv') =
           Cardinality(AllocatingElv) - (IF et[t] = "none" THEN 0 ELSE 1)
      /\ Cardinality(AllocatingElv') \in Nat
      /\ \A s \in Sync : Cardinality(Allocating(s)') \in Nat
  BY <1>1, AllocEnds
<1>3. \A s \in Sync : \A e \in Elv :
        live'[s][e] = live[s][e]
                        + (IF s = call[t].sync /\ e = k THEN 1 ELSE 0)
  <2>1. live \in [Sync -> [Elv -> Nat]]
    BY DEF TypeOK
  <2> HIDE DEF IInv
  <2>2. \A e \in Elv : live'[call[t].sync][e] =
          live[call[t].sync][e] + (IF e = k THEN 1 ELSE 0)
    BY <1>0, <2>1
  <2>3. \A s \in Sync \ {call[t].sync} : live'[s] = live[s]
    BY <1>0, <2>1
  <2> QED  BY <1>0, <2>2, <2>3
<1>4. CountExact'
  <2>1. \A s \in Sync : count'[s] =
          live'[s]["none"] + live'[s]["current"] + live'[s]["stale"]
            + Cardinality(Allocating(s)')
    <3> SUFFICES ASSUME NEW s \in Sync
                 PROVE  count[s] =
                   live'[s]["none"] + live'[s]["current"] + live'[s]["stale"]
                     + Cardinality(Allocating(s)')
      OBVIOUS
    <3>1. count[s] = live[s]["none"] + live[s]["current"] + live[s]["stale"]
                       + Cardinality(Allocating(s))
      BY DEF CountExact
    <3>2. Cardinality(Allocating(s)) \in Nat
      BY AllocFinite
    <3> HIDE DEF IInv
    <3> QED  BY <1>0, <1>2, <1>3, <3>1, <3>2 DEF Elv
  <2>2. nr_rqs_elvpriv' = live'[0]["current"] + live'[0]["stale"]
          + live'[1]["current"] + live'[1]["stale"]
          + Cardinality(AllocatingElv')
    <3>1. nr_rqs_elvpriv = live[0]["current"] + live[0]["stale"]
            + live[1]["current"] + live[1]["stale"]
            + Cardinality(AllocatingElv)
      BY DEF CountExact
    <3>2. Cardinality(AllocatingElv) \in Nat
      BY AllocFinite
    <3> HIDE DEF IInv
    <3> QED  BY <1>0, <1>2, <1>3, <3>1, <3>2 DEF Elv, Sync
  <2> QED  BY <2>1, <2>2 DEF CountExact
<1>5. TypeOK'
  <2>1. nr_rqs_elvpriv' \in Nat
    <3>1. /\ live[0]["current"] \in Nat /\ live[0]["stale"] \in Nat
          /\ live[1]["current"] \in Nat /\ live[1]["stale"] \in Nat
      BY <1>0 DEF Elv, Sync
    <3>2. nr_rqs_elvpriv >= Cardinality(AllocatingElv)
      <4>1. Cardinality(AllocatingElv) \in Nat
        BY AllocFinite
      <4> QED  BY <3>1, <4>1 DEF CountExact
    <3>3. Cardinality(AllocatingElv) \in Nat
      BY AllocFinite
    <3> HIDE DEF IInv
    <3> QED  BY <1>0, <1>2, <3>2, <3>3
  <2>2. live' \in [Sync -> [Elv -> Nat]]
    BY <1>0 DEF TypeOK
  <2>3. NoCall \in Call /\ "none" \in Elv
    BY DEF NoCall, Call, Sync, Elv
  <2>4. /\ call' \in [Task -> Call] /\ et' \in [Task -> Elv]
        /\ pc' \in [Task -> {"idle", "asleep", "woken", "retry", "alloc"}]
    BY <2>3 DEF TypeOK, Forget, Return
  <2>5. nr_batch' \in [Task -> 0..NrBatching] /\ recent' \in [Task -> BOOLEAN]
    BY BatchType
  <2> QED  BY <2>1, <2>2, <2>4, <2>5 DEF TypeOK, markVars, adminVars
<1>6. QueueInv'
  BY <1>1, QueueOthers
<1>7. AdminInv'
  BY <1>1 DEF AdminInv, adminVars
<1>8. MarksTrackCount'
  BY DEF MarksTrackCount, FullExact, CongestionTracks, markVars, adminVars
<1>9. NoLostWakeup'
  BY <1>1 DEF NoLostWakeup, adminVars
<1>10. ElevatorSafe'
  <2>1. \A s \in Sync : live'[s]["stale"] = 0
    BY <1>0, <1>3 DEF ElevatorSafe, Elv
  <2>2. switch \in {"drained", "installed", "restored"} =>
          \A s \in Sync : live'[s]["current"] = 0
    BY <1>0, <1>3 DEF ElevatorSafe, Elv
  <2> QED  BY <1>1, <2>1, <2>2 DEF ElevatorSafe, adminVars
<1> QED  BY <1>4, <1>5, <1>6, <1>7, <1>8, <1>9, <1>10

\* Both ends of a successful allocation.
LEMMA AllocDoneInv ==
  ASSUME IInv, NEW t \in Task, AllocDone(t) \/ ElvprivFail(t)
  PROVE  IInv'
<1>0. et[t] \in Elv /\ "none" \in Elv /\ nr_rqs_elvpriv \in Nat
  BY DEF IInv, TypeOK, Elv
<1>1. CASE AllocDone(t)
  <2> DEFINE k == et[t]
  <2>1. nr_rqs_elvpriv' =
          nr_rqs_elvpriv - (IF k = "none" /\ et[t] # "none" THEN 1 ELSE 0)
    BY <1>0, <1>1 DEF AllocDone
  <2>2. live' = [live EXCEPT ![call[t].sync][k] = @ + 1]
    BY <1>1 DEF AllocDone
  <2>3. k \in Elv /\ k \in {et[t], "none"}
    BY <1>0
  <2> HIDE DEF k
  <2> QED  BY <1>1, <2>1, <2>2, <2>3, HandOut DEF AllocDone
<1>2. CASE ElvprivFail(t)
  BY <1>0, <1>2, HandOut DEF ElvprivFail
<1> QED  BY <1>1, <1>2

-----------------------------------------------------------------------------
(* Freeing *)

\* freed_request() keeps the marks exact, and wakes a sleeper when the last
\* request of its direction goes.
LEMMA FreedInv ==
  ASSUME IInv, NEW s \in Sync, NEW e \in Elv, freed_request(s, e),
         count[s] > 0,
         NEW p \in [Task -> Pcs], pc' = Wake(p),
         \A t \in Task : p[t] = pc[t] \/ (pc[t] = "alloc" /\ p[t] = "idle"),
         call' \in [Task -> Call],
         \A t \in Task : call'[t] = call[t] \/ pc[t] = "alloc",
         nr_requests' = nr_requests, cleanup' = cleanup
  PROVE  /\ count' \in [Sync -> Nat]
         /\ \A d \in Sync : count'[d] = count[d] - (IF d = s THEN 1 ELSE 0)
         /\ full' \subseteq Sync /\ congested' \subseteq Sync
         /\ wait' \in [Sync -> Seq(Task)] /\ pc' \in [Task -> Pcs]
         /\ \A t \in Task : \/ pc'[t] = p[t]
                            \/ pc[t] = "asleep" /\ pc'[t] = "woken"
         /\ \A d \in Sync : wait'[d] # <<>> => wait[d] # <<>>
         /\ QueueInv' /\ MarksTrackCount' /\ NoLostWakeup'
<1> DEFINE counts == [count EXCEPT ![s] = @ - 1]
           dirs   == {s} \cup {d \in {1 - s} : d \in starved}
<1>0. /\ TypeOK /\ QueueInv /\ count \in [Sync -> Nat]
      /\ nr_requests \in Nat \ {0}
  BY ListAssumption DEF IInv, TypeOK
<1>1. /\ dirs \subseteq Sync /\ s \in dirs
      /\ Room(dirs, counts) \subseteq Sync
  BY <1>0 DEF TypeOK, Sync, Room
<1>2. count' = counts /\ __freed_request(dirs, counts)
  BY DEF freed_request
<1>3. /\ count' \in [Sync -> Nat]
      /\ \A d \in Sync : count'[d] = count[d] - (IF d = s THEN 1 ELSE 0)
  BY <1>0, <1>2
<1> HIDE DEF counts, dirs
<1>4. wait' = WakeOne(Room(dirs, counts))
  BY <1>2 DEF __freed_request
<1>5. full' \subseteq Sync /\ congested' \subseteq Sync
  BY <1>0, <1>2 DEF __freed_request, TypeOK
<1>6. /\ wait' \in [Sync -> Seq(Task)]
      /\ \A d \in Sync : \A i \in DOMAIN wait'[d] :
           \E j \in DOMAIN wait[d] : wait'[d][i] = wait[d][j]
      /\ \A d \in Sync : \A i, j \in DOMAIN wait'[d] :
           wait'[d][i] = wait'[d][j] => i = j
      /\ \A d \in Sync : wait'[d] # <<>> => wait[d] # <<>>
  BY <1>0, <1>1, <1>4, WakeOneFacts
<1>7. /\ QueueInv' /\ pc' \in [Task -> Pcs]
      /\ \A t \in Task : \/ pc'[t] = p[t]
                         \/ pc[t] = "asleep" /\ pc'[t] = "woken"
  BY <1>0, <1>6, Awaken
<1>8. MarksTrackCount'
  <2>0. /\ queue_congestion_on_threshold(nr_requests) \in Nat
        /\ queue_congestion_off_threshold(nr_requests) \in Nat
        /\ queue_congestion_off_threshold(nr_requests)
             <= queue_congestion_on_threshold(nr_requests)
    BY <1>0, Thresholds
  <2>1. /\ full' = full \ {d \in dirs : count'[d] + 1 <= nr_requests}
        /\ congested' = congested \ {d \in dirs :
             count'[d] < queue_congestion_off_threshold(nr_requests)}
    BY <1>2 DEF __freed_request, Room
  <2>2. FullExact'
    BY <1>0, <1>1, <1>3, <2>1 DEF IInv, MarksTrackCount, FullExact
  <2>3. CongestionTracks'
    BY <1>0, <1>1, <1>3, <2>0, <2>1
       DEF IInv, MarksTrackCount, CongestionTracks
  <2> QED  BY <2>2, <2>3 DEF MarksTrackCount
<1>9. NoLostWakeup'
  <2> SUFFICES ASSUME NEW d \in Sync, wait'[d] # <<>>
               PROVE  \/ count'[d] > 0
                      \/ \E t \in Task : pc'[t] \in {"woken", "retry"}
                                           /\ call'[t].sync = d
                      \/ cleanup \in {"marked", "drain"}
    BY DEF NoLostWakeup
  <2>1. wait[d] # <<>>
    BY <1>6
  <2>2. CASE d = s
    <3>1. CASE count'[s] = 0
      <4>1. s \in Room(dirs, counts)
        BY <1>0, <1>1, <1>2, <3>1 DEF Room
      <4>2. \E t \in Task : pc'[t] = "woken" /\ call'[t].sync = s
        BY <1>0, <1>1, <1>4, <2>1, <2>2, <4>1, WakeOneWakes
      <4> QED  BY <2>2, <4>2
    <3> QED  BY <1>3, <2>2, <3>1
  <2>3. CASE d # s
    <3>1. count'[d] = count[d]
      BY <1>0, <1>3, <2>3
    <3>2. CASE \E t \in Task : pc[t] \in {"woken", "retry"}
                                 /\ call[t].sync = d
      <4>1. PICK t \in Task : pc[t] \in {"woken", "retry"}
                                /\ call[t].sync = d
        BY <3>2
      <4>2. pc'[t] = pc[t] /\ call'[t] = call[t]
        BY <1>7, <4>1
      <4> QED  BY <4>1, <4>2
    <3> QED  BY <2>1, <3>1, <3>2 DEF IInv, NoLostWakeup
  <2> QED  BY <2>2, <2>3
<1> QED  BY <1>3, <1>5, <1>6, <1>7, <1>8, <1>9

\* __blk_put_request()
LEMMA FreeInv ==
  ASSUME IInv, NEW s \in Sync, NEW e \in Elv, Free(s, e)
  PROVE  IInv'
<1>0. /\ \A d \in Sync : \A k \in Elv : live[d][k] \in Nat
      /\ \A d \in Sync : count[d] \in Nat
      /\ nr_rqs_elvpriv \in Nat /\ live[s][e] > 0
      /\ live \in [Sync -> [Elv -> Nat]]
  BY DEF IInv, TypeOK, Free
<1>1. \A d \in Sync : \A k \in Elv :
        live'[d][k] = live[d][k] - (IF d = s /\ k = e THEN 1 ELSE 0)
  BY <1>0 DEF Free
<1>2. /\ call' = call /\ et' = et /\ pc' = Wake(pc) /\ freed_request(s, e)
      /\ nr_rqs_elvpriv' = nr_rqs_elvpriv - (IF e = "none" THEN 0 ELSE 1)
      /\ UNCHANGED <<starved, iocVars, adminVars, gets, musts>>
  BY DEF Free, callVars, freed_request
<1>3. count[s] > 0
  <2>1. count[s] = live[s]["none"] + live[s]["current"] + live[s]["stale"]
                     + Cardinality(Allocating(s))
    BY DEF IInv, CountExact
  <2>2. Cardinality(Allocating(s)) \in Nat
    BY AllocFinite
  <2> QED  BY <1>0, <2>1, <2>2 DEF Elv
<1>4. /\ count' \in [Sync -> Nat]
      /\ \A d \in Sync : count'[d] = count[d] - (IF d = s THEN 1 ELSE 0)
      /\ full' \subseteq Sync /\ congested' \subseteq Sync
      /\ wait' \in [Sync -> Seq(Task)] /\ pc' \in [Task -> Pcs]
      /\ \A t \in Task : \/ pc'[t] = pc[t]
                         \/ pc[t] = "asleep" /\ pc'[t] = "woken"
      /\ \A d \in Sync : wait'[d] # <<>> => wait[d] # <<>>
      /\ QueueInv' /\ MarksTrackCount' /\ NoLostWakeup'
  <2>1. pc \in [Task -> Pcs] /\ call \in [Task -> Call]
    BY DEF IInv, TypeOK, Pcs
  <2>2. nr_requests' = nr_requests /\ cleanup' = cleanup
    BY <1>2 DEF adminVars
  <2> QED  BY <1>2, <1>3, <2>1, <2>2, FreedInv
<1>5. /\ \A d \in Sync : Allocating(d)' = Allocating(d)
      /\ AllocatingElv' = AllocatingElv
  BY <1>2, <1>4, AllocSame
<1>6. CountExact'
  <2>1. \A d \in Sync : count'[d] =
          live'[d]["none"] + live'[d]["current"] + live'[d]["stale"]
            + Cardinality(Allocating(d)')
    <3> SUFFICES ASSUME NEW d \in Sync
                 PROVE  count'[d] =
                   live'[d]["none"] + live'[d]["current"] + live'[d]["stale"]
                     + Cardinality(Allocating(d))
      BY <1>5
    <3>1. count[d] = live[d]["none"] + live[d]["current"] + live[d]["stale"]
                       + Cardinality(Allocating(d))
      BY DEF IInv, CountExact
    <3>2. Cardinality(Allocating(d)) \in Nat
      BY AllocFinite
    <3>3. /\ live[d]["none"] \in Nat /\ live[d]["current"] \in Nat
          /\ live[d]["stale"] \in Nat /\ count[d] \in Nat
      BY <1>0 DEF Elv
    <3>4. CASE d = s
      <4>1. \A k \in Elv : live'[d][k] = live[d][k]
                                           - (IF k = e THEN 1 ELSE 0)
        BY <1>1, <3>4
      <4>2. count'[d] = count[d] - 1
        BY <1>4, <3>4
      <4> QED  BY <3>1, <3>2, <3>3, <4>1, <4>2 DEF Elv
    <3>5. CASE d # s
      <4>1. \A k \in Elv : live'[d][k] = live[d][k]
        BY <1>0, <1>1, <3>5
      <4>2. count'[d] = count[d]
        BY <1>4, <3>3, <3>5
      <4> QED  BY <3>1, <4>1, <4>2 DEF Elv
    <3> QED  BY <3>4, <3>5
  <2>2. nr_rqs_elvpriv' = live'[0]["current"] + live'[0]["stale"]
          + live'[1]["current"] + live'[1]["stale"]
          + Cardinality(AllocatingElv')
    <3>1. nr_rqs_elvpriv = live[0]["current"] + live[0]["stale"]
            + live[1]["current"] + live[1]["stale"]
            + Cardinality(AllocatingElv)
      BY DEF IInv, CountExact
    <3>2. Cardinality(AllocatingElv) \in Nat
      BY AllocFinite
    <3> QED  BY <1>0, <1>1, <1>2, <1>5, <3>1, <3>2 DEF Elv, Sync
  <2> QED  BY <2>1, <2>2 DEF CountExact
<1>7. TypeOK'
  <2>1. live' \in [Sync -> [Elv -> Nat]]
    <3>1. live[s][e] - 1 \in Nat
      BY <1>0
    <3> QED  BY <1>0, <3>1 DEF Free
  <2>2. nr_rqs_elvpriv' \in Nat
    <3>1. /\ live'[0]["current"] \in Nat /\ live'[0]["stale"] \in Nat
          /\ live'[1]["current"] \in Nat /\ live'[1]["stale"] \in Nat
      BY <2>1 DEF Elv, Sync
    <3>2. Cardinality(AllocatingElv) \in Nat
      BY AllocFinite
    <3> QED  BY <1>5, <1>6, <3>1, <3>2 DEF CountExact
  <2> QED  BY <1>2, <1>4, <2>1, <2>2
              DEF IInv, TypeOK, Pcs, iocVars, adminVars
<1>8. AdminInv'
  BY <1>2, <1>4 DEF IInv, AdminInv, adminVars
<1>9. ElevatorSafe'
  BY <1>0, <1>1, <1>2 DEF IInv, ElevatorSafe, adminVars, Elv
<1> QED  BY <1>4, <1>6, <1>7, <1>8, <1>9 DEF IInv

\* fail_alloc undoes what was counted.
LEMMA AllocFailInv ==
  ASSUME IInv, NEW t \in Task, AllocFail(t)
  PROVE  IInv'
<1> DEFINE s == call[t].sync
<1>0. /\ \A d \in Sync : \A k \in Elv : live[d][k] \in Nat
      /\ \A d \in Sync : count[d] \in Nat
      /\ nr_rqs_elvpriv \in Nat /\ s \in Sync /\ et[t] \in Elv
      /\ pc[t] = "alloc"
  BY DEF IInv, TypeOK, AllocFail, Call
<1>1. /\ pc' = Wake(Return(pc, t)) /\ freed_request(s, et[t])
      /\ nr_rqs_elvpriv' = nr_rqs_elvpriv - (IF et[t] = "none" THEN 0 ELSE 1)
      /\ live' = live /\ UNCHANGED <<iocVars, adminVars, gets, musts>>
      /\ starved' \subseteq Sync /\ Forget(t)
  <2>1. starved \subseteq Sync
    BY DEF IInv, TypeOK
  <2> QED  BY <1>0, <2>1 DEF AllocFail, freed_request
<1>2. /\ call' \in [Task -> Call] /\ et' \in [Task -> Elv]
      /\ Return(pc, t) \in [Task -> Pcs]
      /\ Return(pc, t)[t] = "idle" /\ et'[t] = "none"
      /\ \A u \in Task \ {t} : /\ Return(pc, t)[u] = pc[u]
                               /\ call'[u] = call[u] /\ et'[u] = et[u]
  <2>1. NoCall \in Call /\ "none" \in Elv
    BY DEF NoCall, Call, Sync, Elv
  <2> QED  BY <1>1, <2>1 DEF IInv, TypeOK, Forget, Return, Pcs
<1>3. Cardinality(Allocating(s)) > 0
  <2>1. t \in Allocating(s)
    BY <1>0 DEF Allocating
  <2> QED  BY <1>0, <2>1, AllocFinite, FS_EmptySet
<1>4. count[s] > 0
  <2>1. count[s] = live[s]["none"] + live[s]["current"] + live[s]["stale"]
                     + Cardinality(Allocating(s))
    BY <1>0 DEF IInv, CountExact
  <2>2. Cardinality(Allocating(s)) \in Nat
    BY <1>0, AllocFinite
  <2> HIDE DEF s
  <2> QED  BY <1>0, <1>3, <2>1, <2>2 DEF Elv
<1>5. /\ count' \in [Sync -> Nat]
      /\ \A d \in Sync : count'[d] = count[d] - (IF d = s THEN 1 ELSE 0)
      /\ full' \subseteq Sync /\ congested' \subseteq Sync
      /\ wait' \in [Sync -> Seq(Task)] /\ pc' \in [Task -> Pcs]
      /\ \A u \in Task : \/ pc'[u] = Return(pc, t)[u]
                         \/ pc[u] = "asleep" /\ pc'[u] = "woken"
      /\ \A d \in Sync : wait'[d] # <<>> => wait[d] # <<>>
      /\ QueueInv' /\ MarksTrackCount' /\ NoLostWakeup'
  <2>1. nr_requests' = nr_requests /\ cleanup' = cleanup
    BY <1>1 DEF adminVars
  <2>2. /\ \A u \in Task : \/ Return(pc, t)[u] = pc[u]
                           \/ pc[u] = "alloc" /\ Return(pc, t)[u] = "idle"
        /\ \A u \in Task : call'[u] = call[u] \/ pc[u] = "alloc"
    BY <1>0, <1>2
  <2> HIDE DEF s
  <2> QED  BY <1>0, <1>1, <1>2, <1>4, <2>1, <2>2, FreedInv
<1>6. /\ \A d \in Sync : Cardinality(Allocating(d)') =
           Cardinality(Allocating(d)) - (IF s = d THEN 1 ELSE 0)
      /\ Cardinality(AllocatingElv') =
           Cardinality(AllocatingElv) - (IF et[t] = "none" THEN 0 ELSE 1)
      /\ Cardinality(AllocatingElv') \in Nat
      /\ \A d \in Sync : Cardinality(Allocating(d)') \in Nat
  <2>1. /\ pc'[t] # "alloc"
        /\ \A u \in Task \ {t} : /\ pc'[u] = "alloc" <=> pc[u] = "alloc"
                                 /\ call'[u] = call[u] /\ et'[u] = et[u]
    BY <1>0, <1>2, <1>5
  <2> QED  BY <1>0, <2>1, AllocEnds
<1>7. CountExact'
  <2>1. \A d \in Sync : count'[d] =
          live'[d]["none"] + live'[d]["current"] + live'[d]["stale"]
            + Cardinality(Allocating(d)')
    <3> SUFFICES ASSUME NEW d \in Sync
                 PROVE  count'[d] =
                   live[d]["none"] + live[d]["current"] + live[d]["stale"]
                     + Cardinality(Allocating(d)')
      BY <1>1
    <3>1. count[d] = live[d]["none"] + live[d]["current"] + live[d]["stale"]
                       + Cardinality(Allocating(d))
      BY DEF IInv, CountExact
    <3>2. Cardinality(Allocating(d)) \in Nat
      BY AllocFinite
    <3> HIDE DEF s
    <3>3. /\ live[d]["none"] \in Nat /\ live[d]["current"] \in Nat
          /\ live[d]["stale"] \in Nat /\ count[d] \in Nat
      BY <1>0 DEF Elv
    <3>4. CASE d = s
      <4>1. /\ count'[d] = count[d] - 1
            /\ Cardinality(Allocating(d)') = Cardinality(Allocating(d)) - 1
        BY <1>5, <1>6, <3>4
      <4>2. count'[d] = live[d]["none"] + live[d]["current"]
              + live[d]["stale"] + (Cardinality(Allocating(d)) - 1)
        <5>1. count'[d] = (live[d]["none"] + live[d]["current"]
                + live[d]["stale"] + Cardinality(Allocating(d))) - 1
          BY <3>1, <4>1, Zenon
        <5> DEFINE a == live[d]["none"]
                   b == live[d]["current"]
                   c == live[d]["stale"]
                   n == Cardinality(Allocating(d))
        <5>2. /\ a \in Nat /\ b \in Nat /\ c \in Nat /\ n \in Nat
              /\ count'[d] = (a + b + c + n) - 1
          BY <3>2, <3>3, <5>1
        <5> HIDE DEF a, b, c, n
        <5>3. count'[d] = a + b + c + (n - 1)
          BY <5>2, OneLess
        <5> QED  BY <5>3 DEF a, b, c, n
      <4> QED  BY <4>1, <4>2, Zenon
    <3>5. CASE d # s
      <4>1. /\ count'[d] = count[d]
            /\ Cardinality(Allocating(d)') = Cardinality(Allocating(d))
        BY <1>5, <1>6, <3>2, <3>3, <3>5
      <4> QED  BY <3>1, <4>1
    <3> QED  BY <3>4, <3>5
  <2>2. nr_rqs_elvpriv' = live'[0]["current"] + live'[0]["stale"]
          + live'[1]["current"] + live'[1]["stale"]
          + Cardinality(AllocatingElv')
    <3>1. nr_rqs_elvpriv = live[0]["current"] + live[0]["stale"]
            + live[1]["current"] + live[1]["stale"]
            + Cardinality(AllocatingElv)
      BY DEF IInv, CountExact
    <3>2. Cardinality(AllocatingElv) \in Nat
      BY AllocFinite
    <3> QED  BY <1>0, <1>1, <1>6, <3>1, <3>2 DEF Elv, Sync
  <2> QED  BY <2>1, <2>2 DEF CountExact
<1>8. TypeOK'
  <2>1. live \in [Sync -> [Elv -> Nat]]
    BY DEF IInv, TypeOK
  <2>2. nr_rqs_elvpriv' \in Nat
    <3>1. /\ live[0]["current"] \in Nat /\ live[0]["stale"] \in Nat
          /\ live[1]["current"] \in Nat /\ live[1]["stale"] \in Nat
      BY <2>1 DEF Elv, Sync
    <3> QED  BY <1>1, <1>6, <1>7, <3>1 DEF CountExact
  <2> QED  BY <1>1, <1>2, <1>5, <2>1, <2>2
              DEF IInv, TypeOK, Pcs, iocVars, adminVars
<1>9. AdminInv'
  <2>1. \A u \in Task : et'[u] # "none" => pc'[u] = "alloc"
    <3> SUFFICES ASSUME NEW u \in Task, et'[u] # "none"
                 PROVE  pc'[u] = "alloc"
      OBVIOUS
    <3>1. u # t /\ pc[u] = "alloc"
      BY <1>2 DEF IInv, AdminInv
    <3> QED  BY <1>2, <1>5, <3>1
  <2> QED  BY <1>1, <1>5, <2>1 DEF IInv, AdminInv, adminVars
<1>10. ElevatorSafe'
  BY <1>0, <1>1, <1>2 DEF IInv, ElevatorSafe, adminVars
<1> QED  BY <1>5, <1>7, <1>8, <1>9, <1>10 DEF IInv

-----------------------------------------------------------------------------
(* Resizing, switching and shutting down *)

\* The marks are recomputed, and whoever may go on is woken; the list still
\* has a request to free when a sleeper stays.
LEMMA ResizeInv ==
  ASSUME IInv, NEW nr \in NrRequests, blk_update_nr_requests(nr)
  PROVE  IInv'
<1> DEFINE over == {s \in Sync : count[s] >= nr}
<1>0. /\ nr \in Nat \ {0} /\ \A s \in Sync : count[s] \in Nat
      /\ TypeOK /\ QueueInv /\ over \subseteq Sync /\ MaxResize \in Nat
      /\ pc \in [Task -> Pcs] /\ call \in [Task -> Call]
  BY ListAssumption DEF IInv, TypeOK, Pcs
<1>1. /\ wait' = WakeOne(Sync \ over) /\ pc' = Wake(pc) /\ call' = call
      /\ et' = et /\ count' = count /\ cleanup' = cleanup /\ full' = over
      /\ nr_requests' = nr
  BY DEF blk_update_nr_requests, callVars
<1>2. /\ wait' \in [Sync -> Seq(Task)]
      /\ \A s \in Sync : \A i \in DOMAIN wait'[s] :
           \E j \in DOMAIN wait[s] : wait'[s][i] = wait[s][j]
      /\ \A s \in Sync : \A i, j \in DOMAIN wait'[s] :
           wait'[s][i] = wait'[s][j] => i = j
      /\ \A s \in Sync : wait'[s] # <<>> => wait[s] # <<>>
  BY <1>0, <1>1, WakeOneFacts
<1>3. /\ QueueInv' /\ pc' \in [Task -> Pcs]
      /\ \A t \in Task : \/ pc'[t] = pc[t]
                         \/ pc[t] = "asleep" /\ pc'[t] = "woken"
  BY <1>0, <1>1, <1>2, Awaken
<1>4. MarksTrackCount'
  <2>0. /\ queue_congestion_on_threshold(nr) \in Nat
        /\ queue_congestion_off_threshold(nr) \in Nat
        /\ queue_congestion_off_threshold(nr)
             <= queue_congestion_on_threshold(nr)
    BY <1>0, Thresholds
  <2>1. FullExact'
    BY <1>0, <1>1 DEF FullExact
  <2>2. congested' =
          (congested \ {s \in Sync :
                          count[s] < queue_congestion_off_threshold(nr)})
            \cup {s \in Sync : count[s] >= queue_congestion_on_threshold(nr)}
    BY DEF blk_update_nr_requests
  <2>3. CongestionTracks'
    BY <1>0, <1>1, <2>0, <2>2 DEF CongestionTracks
  <2> QED  BY <2>1, <2>3 DEF MarksTrackCount
<1>5. TypeOK'
  <2>1. resizes' \in 0..MaxResize
    BY <1>0 DEF TypeOK, blk_update_nr_requests
  <2>2. congested' \subseteq Sync /\ full' \subseteq Sync
    BY <1>0, <1>1 DEF TypeOK, blk_update_nr_requests
  <2> QED  BY <1>0, <1>1, <1>2, <1>3, <2>1, <2>2
              DEF TypeOK, blk_update_nr_requests, Pcs, iocVars
<1>6. AdminInv'
  BY <1>1, <1>2, <1>3 DEF IInv, AdminInv, blk_update_nr_requests
<1>7. CountExact'
  <2>1. /\ \A s \in Sync : Allocating(s)' = Allocating(s)
        /\ AllocatingElv' = AllocatingElv
    BY <1>1, <1>3, AllocSame
  <2> QED  BY <2>1 DEF IInv, CountExact, blk_update_nr_requests
<1>8. NoLostWakeup'
  <2> SUFFICES ASSUME NEW s \in Sync, wait'[s] # <<>>, ~(count[s] > 0)
               PROVE  \E t \in Task : pc'[t] \in {"woken", "retry"}
                                        /\ call'[t].sync = s
    BY <1>1 DEF NoLostWakeup
  <2>1. s \in Sync \ over /\ wait[s] # <<>>
    BY <1>0, <1>2
  <2>2. \A t \in Task : call'[t] = call[t] \/ pc[t] = "alloc"
    BY <1>1
  <2> HIDE DEF over
  <2> QED  BY <1>0, <1>1, <2>1, <2>2, WakeOneWakes
<1>9. ElevatorSafe'
  BY <1>1 DEF IInv, ElevatorSafe, blk_update_nr_requests
<1> QED  BY <1>3, <1>4, <1>5, <1>6, <1>7, <1>8, <1>9 DEF IInv

\* A drain ends with wake_up_all(): nobody sleeps.
LEMMA WakeAllFacts ==
  ASSUME IInv, WakeAll, call' = call
  PROVE  /\ QueueInv' /\ pc' \in [Task -> Pcs]
         /\ wait' \in [Sync -> Seq(Task)]
         /\ \A s \in Sync : wait'[s] = <<>>
         /\ \A t \in Task : \/ pc'[t] = pc[t]
                            \/ pc[t] = "asleep" /\ pc'[t] = "woken"
<1>0. /\ TypeOK /\ QueueInv /\ pc \in [Task -> Pcs] /\ pc' = Wake(pc)
      /\ call \in [Task -> Call]
  BY DEF IInv, TypeOK, Pcs, WakeAll
<1>1. /\ wait' \in [Sync -> Seq(Task)] /\ \A s \in Sync : wait'[s] = <<>>
      /\ \A s \in Sync : \A i \in DOMAIN wait'[s] :
           \E j \in DOMAIN wait[s] : wait'[s][i] = wait[s][j]
      /\ \A s \in Sync : \A i, j \in DOMAIN wait'[s] :
           wait'[s][i] = wait'[s][j] => i = j
  BY DEF WakeAll
<1> QED  BY <1>0, <1>1, Awaken

\* Starting a switch or a shutdown only moves the queue into bypass mode.
LEMMA BypassInv ==
  ASSUME IInv, SwitchStart \/ CleanupMark \/ CleanupBypass
  PROVE  IInv'
<1>0. /\ UNCHANGED <<listVars, wait, pc, callVars, live>>
      /\ switch' = switch \/ (switch = "no" /\ switch' = "drain")
  BY DEF SwitchStart, CleanupMark, CleanupBypass, SysfsLockFree
<1>1. TypeOK' /\ AdminInv'
  <2>1. CASE SwitchStart
    <3>1. switches' \in 0..MaxSwitch
      BY <2>1, ListAssumption DEF SwitchStart, IInv, TypeOK
    <3>2. /\ switch = "no" /\ cleanup # "marked"
          /\ bypass_depth = IF cleanup \in {"drain", "dead"} THEN 1 ELSE 0
          /\ bypass_depth' = 1 + bypass_depth
      BY <2>1 DEF SwitchStart, SysfsLockFree, IInv, AdminInv, TypeOK
    <3> QED  BY <1>0, <2>1, <3>1, <3>2 DEF SwitchStart, IInv, TypeOK,
                AdminInv, listVars, callVars
  <2>2. CASE CleanupMark
    BY <1>0, <2>2 DEF CleanupMark, SysfsLockFree, IInv, TypeOK, AdminInv,
                      listVars, callVars
  <2>3. CASE CleanupBypass
    <3>1. bypass_depth = 0 /\ switch = "no" /\ bypass_depth' = 1
      BY <2>3 DEF CleanupBypass, IInv, AdminInv, TypeOK
    <3> QED  BY <1>0, <2>3, <3>1 DEF CleanupBypass, IInv, TypeOK, AdminInv,
                listVars, callVars
  <2> QED  BY <2>1, <2>2, <2>3
<1>2. QueueInv'
  BY <1>0 DEF IInv, QueueInv, Waiting, callVars
<1>3. CountExact'
  <2>1. /\ \A s \in Sync : Allocating(s)' = Allocating(s)
        /\ AllocatingElv' = AllocatingElv
    BY <1>0, AllocSame DEF callVars
  <2> QED  BY <1>0, <2>1 DEF IInv, CountExact, listVars
<1>4. MarksTrackCount'
  BY <1>0 DEF IInv, MarksTrackCount, FullExact, CongestionTracks, listVars
<1>5. NoLostWakeup'
  <2>1. cleanup \in {"marked", "drain"} => cleanup' \in {"marked", "drain"}
    BY DEF SwitchStart, CleanupMark, CleanupBypass
  <2> QED  BY <1>0, <2>1 DEF IInv, NoLostWakeup, listVars, callVars
<1>6. ElevatorSafe'
  BY <1>0 DEF IInv, ElevatorSafe, callVars
<1> QED  BY <1>1, <1>2, <1>3, <1>4, <1>5, <1>6 DEF IInv

\* The elevator is replaced only when nr_rqs_elvpriv, which counts exactly,
\* says that nothing of it is left.
LEMMA DrainedInv ==
  ASSUME IInv, SwitchDrained \/ CleanupDrained
  PROVE  IInv'
<1>0. /\ WakeAll /\ UNCHANGED <<listVars, callVars, live, bypass_depth>>
      /\ nr_rqs_elvpriv = 0
      /\ switch' = switch \/ (switch = "drain" /\ switch' = "drained")
      /\ UNCHANGED switches
  BY DEF SwitchDrained, CleanupDrained
<1>1. /\ QueueInv' /\ pc' \in [Task -> Pcs]
      /\ wait' \in [Sync -> Seq(Task)]
      /\ \A s \in Sync : wait'[s] = <<>>
      /\ \A t \in Task : \/ pc'[t] = pc[t]
                         \/ pc[t] = "asleep" /\ pc'[t] = "woken"
  BY <1>0, WakeAllFacts DEF callVars
<1>2. /\ switch' \in {"no", "drain", "drained", "installed", "restored"}
      /\ cleanup' \in {"no", "marked", "drain", "dead"}
  BY DEF IInv, TypeOK, SwitchDrained, CleanupDrained
<1>3. TypeOK'
  BY <1>0, <1>1, <1>2 DEF IInv, TypeOK, Pcs, listVars, callVars
<1>4. AdminInv'
  <2>1. \A t \in Task : et'[t] # "none" => pc'[t] = "alloc"
    BY <1>0, <1>1 DEF IInv, AdminInv, callVars
  <2> QED  BY <1>0, <1>1, <2>1
              DEF IInv, AdminInv, SwitchDrained, CleanupDrained
<1>5. CountExact'
  <2>1. /\ \A s \in Sync : Allocating(s)' = Allocating(s)
        /\ AllocatingElv' = AllocatingElv
    BY <1>0, <1>1, AllocSame DEF callVars
  <2> QED  BY <1>0, <2>1 DEF IInv, CountExact, listVars
<1>6. MarksTrackCount'
  BY <1>0 DEF IInv, MarksTrackCount, FullExact, CongestionTracks, listVars
<1>7. NoLostWakeup'
  BY <1>1 DEF NoLostWakeup
<1>8. ElevatorSafe'
  <2>1. /\ live[0]["current"] \in Nat /\ live[0]["stale"] \in Nat
        /\ live[1]["current"] \in Nat /\ live[1]["stale"] \in Nat
    BY DEF IInv, TypeOK, Elv, Sync
  <2>2. Cardinality(AllocatingElv) \in Nat
    BY AllocFinite
  <2>3. /\ Cardinality(AllocatingElv) = 0
        /\ live[0]["current"] = 0 /\ live[1]["current"] = 0
    <3>1. 0 = live[0]["current"] + live[0]["stale"] + live[1]["current"]
                + live[1]["stale"] + Cardinality(AllocatingElv)
      BY <1>0 DEF IInv, CountExact
    <3> DEFINE a == live[0]["current"]
               b == live[0]["stale"]
               c == live[1]["current"]
               d == live[1]["stale"]
               n == Cardinality(AllocatingElv)
    <3>2. /\ a \in Nat /\ b \in Nat /\ c \in Nat /\ d \in Nat /\ n \in Nat
          /\ 0 = a + b + c + d + n
      BY <2>1, <2>2, <3>1
    <3> HIDE DEF a, b, c, d, n
    <3>3. a = 0 /\ c = 0 /\ n = 0
      BY <3>2, ZeroSum
    <3> QED  BY <3>3 DEF a, c, n
  <2>4. AllocatingElv = {}
    BY <2>3, AllocFinite, FS_EmptySet
  <2>5. \A t \in Task : et[t] = "none"
    BY <2>4 DEF IInv, AdminInv, AllocatingElv
  <2> QED  BY <1>0, <2>3, <2>5 DEF IInv, ElevatorSafe, callVars, Sync
<1> QED  BY <1>1, <1>3, <1>4, <1>5, <1>6, <1>7, <1>8 DEF IInv

\* The rest of a switch finds nothing that belongs to an elevator.
LEMMA SwitchInv ==
  ASSUME IInv, SwitchInit \/ SwitchRestore \/ SwitchEnd
  PROVE  IInv'
<1>0. /\ UNCHANGED <<listVars, wait, pc, call, switches, cleanup>>
      /\ switch \in {"drained", "installed"} \/ SwitchEnd
      /\ switch' \in {"installed", "restored"} \/ SwitchEnd
  BY DEF SwitchInit, SwitchRestore, SwitchEnd, callVars
<1>1. switch \in {"drained", "installed", "restored"}
  BY <1>0 DEF SwitchEnd
<1>2. live' = live /\ et' = et
  <2>1. CASE SwitchEnd
    BY <2>1 DEF SwitchEnd, callVars
  <2>2. CASE Retire
    <3>1. et' = et
      <4>1. \A t \in Task : et[t] # "current"
        BY <1>1 DEF IInv, ElevatorSafe
      <4> QED  BY <2>2, <4>1 DEF Retire, IInv, TypeOK
    <3>2. \A s \in Sync : /\ live[s] \in [Elv -> Nat]
                          /\ live[s]["current"] = 0 /\ live[s]["stale"] = 0
      BY <1>1 DEF IInv, ElevatorSafe, TypeOK
    <3>3. \A s \in Sync : live'[s] = live[s]
      <4> SUFFICES ASSUME NEW s \in Sync PROVE live'[s] = live[s]
        OBVIOUS
      <4>1. live'[s] = [live[s] EXCEPT
              !["stale"] = live[s]["stale"] + live[s]["current"],
              !["current"] = 0]
        BY <2>2 DEF Retire
      <4>2. \A e \in Elv : live'[s][e] = live[s][e]
        BY <3>2, <4>1 DEF Elv
      <4> QED  BY <3>2, <4>1, <4>2
    <3>4. live' = live
      <4>1. live \in [Sync -> [Elv -> Nat]]
        BY DEF IInv, TypeOK
      <4> QED  BY <2>2, <3>3, <4>1 DEF Retire
    <3> QED  BY <3>1, <3>4
  <2> QED  BY <2>1, <2>2 DEF SwitchInit, SwitchRestore
<1>3. TypeOK' /\ AdminInv'
  <2>1. CASE SwitchEnd
    <3>1. /\ bypass_depth =
               1 + (IF cleanup \in {"drain", "dead"} THEN 1 ELSE 0)
          /\ bypass_depth' = IF cleanup \in {"drain", "dead"} THEN 1 ELSE 0
          /\ switch' = "no" /\ cleanup' = cleanup
      BY <1>1, <2>1 DEF SwitchEnd, IInv, AdminInv
    <3> QED  BY <1>0, <1>2, <2>1, <3>1
                DEF SwitchEnd, IInv, TypeOK, AdminInv, listVars
  <2>2. CASE SwitchInit \/ SwitchRestore
    <3>1. /\ bypass_depth' = bypass_depth /\ switch # "no"
          /\ switch' \in {"installed", "restored"}
      BY <2>2 DEF SwitchInit, SwitchRestore
    <3> QED  BY <1>0, <1>2, <3>1 DEF IInv, TypeOK, AdminInv, listVars
  <2> QED  BY <2>1, <2>2
<1>4. QueueInv'
  BY <1>0 DEF IInv, QueueInv, Waiting
<1>5. CountExact'
  <2>1. /\ \A s \in Sync : Allocating(s)' = Allocating(s)
        /\ AllocatingElv' = AllocatingElv
    BY <1>0, <1>2, AllocSame
  <2> QED  BY <1>0, <1>2, <2>1 DEF IInv, CountExact, listVars
<1>6. MarksTrackCount'
  BY <1>0 DEF IInv, MarksTrackCount, FullExact, CongestionTracks, listVars
<1>7. NoLostWakeup'
  BY <1>0 DEF IInv, NoLostWakeup, listVars
<1>8. ElevatorSafe'
  BY <1>1, <1>2 DEF IInv, ElevatorSafe
<1> QED  BY <1>3, <1>4, <1>5, <1>6, <1>7, <1>8 DEF IInv

-----------------------------------------------------------------------------
(* The invariant *)

\* An empty list satisfies the invariant.
LEMMA InitInv == Init => IInv
<1> SUFFICES ASSUME Init PROVE IInv
  OBVIOUS
<1>1. /\ \A s \in Sync : Allocating(s) = {}
      /\ AllocatingElv = {}
  BY DEF Init, Allocating, AllocatingElv
<1>2. TypeOK
  <2>1. NoCall \in Call /\ "none" \in Elv /\ 0 \in 0..NrBatching
    BY ListAssumption DEF NoCall, Call, Sync, Elv
  <2>2. /\ 0 \in 0..MaxGet /\ 0 \in 0..MaxMust /\ 0 \in 0..MaxResize
        /\ 0 \in 0..MaxSwitch
    BY ListAssumption
  <2>3. wait \in [Sync -> Seq(Task)]
    BY DEF Init
  <2> QED  BY <2>1, <2>2, <2>3 DEF Init, TypeOK
<1>3. QueueInv /\ AdminInv /\ NoLostWakeup
  BY DEF Init, QueueInv, AdminInv, NoLostWakeup
<1>4. CountExact
  <2>1. /\ Cardinality(AllocatingElv) = 0
        /\ \A s \in Sync : Cardinality(Allocating(s)) = 0
    BY <1>1, FS_EmptySet
  <2>2. /\ \A s \in Sync : /\ count[s] = 0 /\ live[s]["none"] = 0
                           /\ live[s]["current"] = 0 /\ live[s]["stale"] = 0
        /\ nr_rqs_elvpriv = 0 /\ 0 \in Sync /\ 1 \in Sync
    BY DEF Init, Elv, Sync
  <2> QED  BY <2>1, <2>2 DEF CountExact
<1>5. MarksTrackCount
  <2>1. nr_requests \in Nat \ {0}
    BY ListAssumption DEF Init
  <2>2. queue_congestion_on_threshold(nr_requests) >= 1
        /\ queue_congestion_on_threshold(nr_requests) \in Nat
    BY <2>1, Thresholds
  <2> QED  BY <2>1, <2>2 DEF Init, MarksTrackCount, FullExact,
                             CongestionTracks
<1>6. ElevatorSafe
  BY DEF Init, ElevatorSafe, Elv
<1> QED  BY <1>2, <1>3, <1>4, <1>5, <1>6 DEF IInv

\* Nothing changes in a stuttering step.
LEMMA StutterInv == ASSUME IInv, UNCHANGED vars PROVE IInv'
<1>1. TypeOK' /\ QueueInv' /\ AdminInv'
  BY DEF IInv, vars, TypeOK, QueueInv, AdminInv, Waiting
<1>2. CountExact'
  <2>1. /\ \A s \in Sync : Allocating(s)' = Allocating(s)
        /\ AllocatingElv' = AllocatingElv
    BY AllocSame DEF vars
  <2> QED  BY <2>1 DEF IInv, vars, CountExact
<1>3. MarksTrackCount' /\ NoLostWakeup' /\ ElevatorSafe'
  BY DEF IInv, vars, MarksTrackCount, FullExact, CongestionTracks,
         NoLostWakeup, ElevatorSafe
<1> QED  BY <1>1, <1>2, <1>3 DEF IInv

\* Every action preserves the invariant.
LEMMA NextInv == IInv /\ [Next]_vars => IInv'
<1> SUFFICES ASSUME IInv, [Next]_vars PROVE IInv'
  OBVIOUS
<1>0. gets \in 0..MaxGet /\ MaxGet \in Nat
  BY ListAssumption DEF IInv, TypeOK
<1>1. CASE Get
  <2>1. PICK t \in Task, c \in Calls, must \in BOOLEAN :
          get_request(t, c, must)
    BY <1>1 DEF Get
  <2>2. Caller(t, c) /\ __get_request(t, c, must)
    BY <2>1, ListAssumption DEF get_request, Caller
  <2>3. gets' \in 0..MaxGet
    BY <1>0, <2>1 DEF get_request
  <2> QED  BY <2>2, <2>3, GetInv
<1>2. ASSUME NEW t \in Task, Run(t)
      PROVE  IInv'
  <2>1. CASE Resume(t)
    BY <2>1, ResumeInv
  <2>2. ASSUME NEW must \in BOOLEAN, Retry(t, must)
        PROVE  IInv'
    <3>1. Caller(t, call[t])
      BY <2>2 DEF Retry, Caller, IInv, TypeOK
    <3> QED  BY <1>0, <2>2, <3>1, GetInv DEF Retry
  <2>3. CASE AllocDone(t) \/ ElvprivFail(t)
    BY <2>3, AllocDoneInv
  <2>4. CASE AllocFail(t)
    BY <2>4, AllocFailInv
  <2> QED  BY <1>2, <2>1, <2>2, <2>3, <2>4 DEF Run, Alloc
<1>3. ASSUME NEW t \in Task, BatchExpires(t)
      PROVE  IInv'
  BY <1>3, BatchExpiresInv
<1>4. CASE Put
  BY <1>4, FreeInv DEF Put
<1>5. ASSUME NEW nr \in NrRequests, blk_update_nr_requests(nr)
      PROVE  IInv'
  BY <1>5, ResizeInv
<1>6. CASE SwitchStart \/ CleanupMark \/ CleanupBypass
  BY <1>6, BypassInv
<1>7. CASE SwitchDrained \/ CleanupDrained
  BY <1>7, DrainedInv
<1>8. CASE SwitchInit \/ SwitchRestore \/ SwitchEnd
  BY <1>8, SwitchInv
<1>9. CASE UNCHANGED vars
  BY <1>9, StutterInv
<1> QED  BY <1>1, <1>2, <1>3, <1>4, <1>5, <1>6, <1>7, <1>8, <1>9
            DEF Next, Switch, Cleanup

-----------------------------------------------------------------------------
(* Theorems *)

\* The invariant holds throughout.
THEOREM ListInvariant == Spec => []IInv
BY InitInv, NextInv, PTL DEF Spec

\* Every variable has its type; in particular no count falls below zero and
\* no batch grows past NrBatching.
THEOREM TypeCorrect == Spec => []TypeOK
<1>1. IInv => TypeOK
  BY DEF IInv
<1> QED  BY <1>1, ListInvariant, PTL

\* The counts of blk-core.c are exact for any number of tasks.
THEOREM CountsExact == Spec => []CountExact
<1>1. IInv => CountExact
  BY DEF IInv
<1> QED  BY <1>1, ListInvariant, PTL

\* The full and congestion marks follow the counts, for every nr_requests and
\* every sequence of resizes.
THEOREM MarksExact == Spec => []MarksTrackCount
<1>1. IInv => MarksTrackCount
  BY DEF IInv
<1> QED  BY <1>1, ListInvariant, PTL

\* No sleeper of get_request() is left behind.
THEOREM NobodyForgotten == Spec => []NoLostWakeup
<1>1. IInv => NoLostWakeup
  BY DEF IInv
<1> QED  BY <1>1, ListInvariant, PTL

\* No request outlives the elevator it belongs to.
THEOREM SwitchSafe == Spec => []ElevatorSafe
<1>1. IInv => ElevatorSafe
  BY DEF IInv
<1> QED  BY <1>1, ListInvariant, PTL

=============================================================================
