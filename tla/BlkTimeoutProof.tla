-------------------------- MODULE BlkTimeoutProof --------------------------
(* Proofs about BlkTimeout, for any requests, timeouts, rounding, slack and *)
(* width of jiffies.                                                        *)
EXTENDS BlkTimeout, SequenceTheorems, TLAPS

USE TimeoutAssumption

Elems(s) == {s[i] : i \in DOMAIN s}

-----------------------------------------------------------------------------
(* Lists *)

\* list_add_tail() of a request that is on no list.
LEMMA AppendFacts ==
  ASSUME NEW s \in Seq(Rq), NEW r \in Rq
  PROVE  /\ Append(s, r) \in Seq(Rq)
         /\ Append(s, r) # <<>>
         /\ Len(Append(s, r)) = Len(s) + 1
         /\ Elems(Append(s, r)) = Elems(s) \cup {r}
         /\ Distinct(s) /\ r \notin Elems(s) => Distinct(Append(s, r))
<1> DEFINE t == Append(s, r)
<1>1. /\ t \in Seq(Rq)
      /\ Len(t) = Len(s) + 1
      /\ \A i \in 1..Len(s) : t[i] = s[i]
      /\ t[Len(s) + 1] = r
  OBVIOUS
<1>2. Len(s) \in Nat /\ DOMAIN s = 1..Len(s) /\ DOMAIN t = 1..(Len(s) + 1)
  BY <1>1, LenProperties
<1>3. Elems(t) = Elems(s) \cup {r}
  BY <1>1, <1>2 DEF Elems
<1>4. Distinct(s) /\ r \notin Elems(s) => Distinct(t)
  BY <1>1, <1>2 DEF Elems, Distinct
<1>5. t # <<>>
  <2>1. Len(<<>>) = 0 /\ Len(t) # 0
    BY <1>1, <1>2
  <2> QED BY <2>1
<1> QED BY <1>1, <1>3, <1>4, <1>5

\* list_del_init() of one entry.
LEMMA DelFacts ==
  ASSUME NEW s \in Seq(Rq), Distinct(s), NEW i \in DOMAIN s
  PROVE  /\ s[i] \in Rq
         /\ DelAt(s, i) \in Seq(Rq)
         /\ Len(DelAt(s, i)) = Len(s) - 1
         /\ Distinct(DelAt(s, i))
         /\ Elems(DelAt(s, i)) = Elems(s) \ {s[i]}
<1> DEFINE n == Len(s)
           t == DelAt(s, i)
<1>1. /\ n \in Nat /\ DOMAIN s = 1..n /\ i \in 1..n
      /\ \A j \in 1..n : s[j] \in Rq
  BY LenProperties, ElementOfSeq
<1>2. /\ DOMAIN t = 1..(n - 1) /\ n - 1 \in Nat
      /\ \A j \in 1..(n - 1) : t[j] = IF j < i THEN s[j] ELSE s[j + 1]
  BY <1>1 DEF DelAt
<1>3. t \in [1..(n - 1) -> Rq]
  BY <1>1 DEF DelAt
<1>4. t \in Seq(Rq)
  BY <1>2, <1>3, SeqDef
<1>5. Len(t) = n - 1
  BY <1>2, <1>4, LenProperties
<1>6. Distinct(t)
  <2> SUFFICES ASSUME NEW j \in 1..(n - 1), NEW k \in 1..(n - 1), t[j] = t[k]
               PROVE  j = k
    BY <1>2 DEF Distinct
  <2> DEFINE up(x) == IF x < i THEN x ELSE x + 1
  <2>1. /\ up(j) \in 1..n /\ up(k) \in 1..n
        /\ t[j] = s[up(j)] /\ t[k] = s[up(k)]
    BY <1>1, <1>2
  <2>2. up(j) = up(k)
    BY <2>1, <1>1 DEF Distinct
  <2> QED BY <2>2, <1>1, <1>2
<1>7. ASSUME NEW x \in Elems(t) PROVE x \in Elems(s) \ {s[i]}
  <2>1. PICK j \in 1..(n - 1) : t[j] = x
    BY <1>7, <1>2 DEF Elems
  <2>2. CASE j < i
    BY <2>1, <2>2, <1>1, <1>2 DEF Elems, Distinct
  <2>3. CASE ~(j < i)
    <3>1. j + 1 \in 1..n /\ j + 1 # i /\ s[j + 1] = x
      BY <2>1, <2>3, <1>1, <1>2
    <3> QED BY <3>1, <1>1 DEF Elems, Distinct
  <2> QED BY <2>2, <2>3
<1>8. ASSUME NEW x \in Elems(s), x # s[i] PROVE x \in Elems(t)
  <2>1. PICK j \in 1..n : s[j] = x /\ j # i
    BY <1>8, <1>1 DEF Elems
  <2>2. CASE j < i
    BY <2>1, <2>2, <1>1, <1>2 DEF Elems
  <2>3. CASE ~(j < i)
    <3>1. j - 1 \in 1..(n - 1) /\ ~(j - 1 < i) /\ (j - 1) + 1 = j
      BY <2>1, <2>3, <1>1
    <3>2. t[j - 1] = x
      BY <3>1, <2>1, <1>2
    <3> QED BY <3>1, <3>2, <1>2 DEF Elems
  <2> QED BY <2>2, <2>3
<1> QED BY <1>1, <1>4, <1>5, <1>6, <1>7, <1>8

\* Listed is the set of entries of timeout_list.
LEMMA ListedElems == Listed = Elems(timeout_list)
BY DEF Listed, Elems

\* Only requests are listed.
LEMMA ListedType == timeout_list \in Seq(Rq) => Listed \subseteq Rq
<1> SUFFICES ASSUME timeout_list \in Seq(Rq) PROVE Listed \subseteq Rq
  OBVIOUS
<1>1. DOMAIN timeout_list = 1..Len(timeout_list)
      /\ \A i \in 1..Len(timeout_list) : timeout_list[i] \in Rq
  BY LenProperties, ElementOfSeq
<1> QED BY <1>1 DEF Listed

\* blk_delete_timer() of a request that may or may not be on the list.
LEMMA DeleteTimerFacts ==
  ASSUME timeout_list \in Seq(Rq), Distinct(timeout_list), NEW r \in Rq
  PROVE  /\ blk_delete_timer(r) \in Seq(Rq)
         /\ Distinct(blk_delete_timer(r))
         /\ Elems(blk_delete_timer(r)) = Listed \ {r}
<1>1. CASE r \in Listed
  <2> DEFINE i == CHOOSE k \in DOMAIN timeout_list : timeout_list[k] = r
  <2>1. \E k \in DOMAIN timeout_list : timeout_list[k] = r
    BY <1>1 DEF Listed
  <2>2. i \in DOMAIN timeout_list /\ timeout_list[i] = r
    BY <2>1
  <2>3. blk_delete_timer(r) = DelAt(timeout_list, i)
    BY <1>1 DEF blk_delete_timer
  <2> HIDE DEF i
  <2> QED BY <2>2, <2>3, DelFacts, ListedElems
<1>2. CASE r \notin Listed
  BY <1>2, ListedElems DEF blk_delete_timer
<1> QED BY <1>1, <1>2

-----------------------------------------------------------------------------
(* jiffies arithmetic *)

\* Reduction modulo Wrap gives a value of jiffies.
LEMMA WrapRange == \A a \in Int : a % Wrap \in 0..(Wrap - 1)
  OBVIOUS

\* round_jiffies_up() stays within the width of jiffies.
LEMMA RoundType ==
  ASSUME NEW j \in 0..(Wrap - 1), NEW skew \in Skews
  PROVE  round_jiffies_up(j, skew) \in 0..(Wrap - 1)
<1> DEFINE up == (j + skew) % Wrap
<1>1. up \in 0..(Wrap - 1)
  BY WrapRange
<1>2. up % HZ \in Int
  BY <1>1
<1>3. up - (up % HZ) + HZ - skew \in Int
  BY <1>1, <1>2
<1>4. (up - (up % HZ) + HZ - skew) % Wrap \in 0..(Wrap - 1)
  BY <1>3, WrapRange
<1> QED BY <1>4 DEF round_jiffies_up

\* So does the clamp of blk_rq_timeout().
LEMMA RqTimeoutType ==
  ASSUME NEW t \in 0..(Wrap - 1), NEW skew \in Skews,
         jiffies \in 0..(Wrap - 1)
  PROVE  blk_rq_timeout(t, skew) \in 0..(Wrap - 1)
<1>1. jiffies + BLK_MAX_TIMEOUT \in Int
  OBVIOUS
<1>2. (jiffies + BLK_MAX_TIMEOUT) % Wrap \in 0..(Wrap - 1)
  BY <1>1, WrapRange
<1> QED BY <1>2, RoundType DEF blk_rq_timeout

\* mod_timer() arms the timer for a value of that width.
LEMMA ModTimerType ==
  ASSUME NEW e \in 0..(Wrap - 1), mod_timer(e)
  PROVE  timer_pending' = TRUE /\ expires' \in 0..(Wrap - 1)
<1>1. PICK s \in 0..Slack : expires' = (e + s) % Wrap
  BY DEF mod_timer
<1>2. e + s \in Int
  OBVIOUS
<1> QED BY <1>1, <1>2, WrapRange DEF mod_timer

\* blk_add_timer() leaves the timer armed, whatever it finds.
LEMMA AddTimerFacts ==
  ASSUME TypeOK, NEW r \in Rq, blk_add_timer(r)
  PROVE  /\ timeout' \in [Rq -> Nat]
         /\ deadline' \in [Rq -> 0..(Wrap - 1)]
         /\ timeout_list' = Append(timeout_list, r)
         /\ timer_pending' = TRUE
         /\ expires' \in 0..(Wrap - 1)
<1> DEFINE t == IF timeout[r] = 0 THEN RqTimeout ELSE timeout[r]
           d == (jiffies + t) % Wrap
<1>1. t \in Nat /\ jiffies \in 0..(Wrap - 1)
  BY DEF TypeOK
<1>2. d \in 0..(Wrap - 1)
  <2>1. jiffies + t \in Int
    BY <1>1
  <2> QED BY <2>1, WrapRange
<1>3. timeout' = [timeout EXCEPT ![r] = t] /\ deadline' = [deadline EXCEPT ![r] = d]
      /\ timeout_list' = Append(timeout_list, r)
  BY DEF blk_add_timer
<1>4. timeout' \in [Rq -> Nat] /\ deadline' \in [Rq -> 0..(Wrap - 1)]
  <2> HIDE DEF t, d
  <2> QED BY <1>1, <1>2, <1>3 DEF TypeOK
<1>5. timer_pending' = TRUE /\ expires' \in 0..(Wrap - 1)
  <2>1. PICK skew \in Skews :
           LET e == blk_rq_timeout(round_jiffies_up(d, skew), skew)
           IN  IF \/ ~timer_pending
                  \/ /\ time_before(e, expires)
                     /\ (expires - e) % Wrap >= HZ \div 2
               THEN mod_timer(e) ELSE UNCHANGED timerVars
    BY DEF blk_add_timer
  <2> DEFINE e == blk_rq_timeout(round_jiffies_up(d, skew), skew)
  <2>2. e \in 0..(Wrap - 1)
    BY <1>1, <1>2, RoundType, RqTimeoutType
  <2>3. mod_timer(e) \/ (timer_pending /\ UNCHANGED timerVars)
    BY <2>1
  <2>4. CASE mod_timer(e)
    <3> HIDE DEF e
    <3> QED BY <2>2, <2>4, ModTimerType
  <2>5. CASE timer_pending /\ UNCHANGED timerVars
    BY <2>5 DEF timerVars, TypeOK
  <2> QED BY <2>3, <2>4, <2>5
<1> QED BY <1>3, <1>4, <1>5

-----------------------------------------------------------------------------
(* Invariance *)

\* The list is empty and the timer idle at first.
LEMMA InvInit == Init => IInv
<1> SUFFICES ASSUME Init PROVE IInv
  OBVIOUS
<1>1. TypeOK
  <2>1. 0 \in 0..(Wrap - 1) /\ -1 \in -1..(Wrap - 1) /\ 0 \in 0..MaxLag
    OBVIOUS
  <2>2. timer_pending \in BOOLEAN /\ last \in BOOLEAN
    BY DEF Init
  <2>4. timeout_list \in Seq(Rq)
    BY DEF Init
  <2>3. /\ state \in [Rq -> {"free", "queued", "started"}]
        /\ timeout \in [Rq -> Nat]
        /\ deadline \in [Rq -> 0..(Wrap - 1)]
        /\ done \in [Rq -> Nat]
    BY <2>1 DEF Init
  <2> QED BY <2>1, <2>2, <2>3, <2>4 DEF Init, TypeOK, NoTime
<1>2. Listed = {} /\ Distinct(timeout_list)
  BY DEF Init, Listed, Distinct
<1>3. OneOwner
  <2> SUFFICES ASSUME NEW r \in Rq PROVE Owners(r) = 0 /\ state[r] # "started"
    BY DEF OneOwner
  <2>1. done[r] = 0 /\ r \notin recovery /\ r # timed_out /\ state[r] = "free"
    BY DEF Init
  <2> QED BY <2>1 DEF Owners
<1> QED BY <1>1, <1>2, <1>3
        DEF Init, IInv, ListInv, WalkInv, ArmInv, TimerArmed, BugFree, Guarded

\* An action that touches neither the list, the timer nor the walk.
LEMMA Frame ==
  ASSUME IInv,
         UNCHANGED <<timeout_list, timer_pending, handler, pos, last,
                     next_timeout, timed_out>>
  PROVE  WalkInv' /\ ArmInv' /\ Listed' = Listed
                  /\ Distinct(timeout_list')
BY DEF IInv, WalkInv, ArmInv, ListInv, TimerArmed, Listed

\* blk_rq_init() of a free request.
LEMMA PrepareInv ==
  ASSUME IInv, NEW r \in Rq, NEW t \in Timeouts, Prepare(r, t)
  PROVE  IInv'
<1> USE DEF Prepare
<1>1. WalkInv' /\ ArmInv' /\ Listed' = Listed /\ Distinct(timeout_list')
  BY Frame DEF timerVars, handlerVars
<1>2. TypeOK'
  BY DEF IInv, TypeOK, timerVars, handlerVars
<1>3. r \notin Listed /\ r \notin hw /\ Owners(r) = 0
  BY DEF IInv, ListInv, OneOwner
<1>4. ListInv'
  BY <1>1, <1>3 DEF IInv, ListInv, TypeOK
<1>5. OneOwner'
  BY <1>3 DEF IInv, OneOwner, Owners, TypeOK
<1>6. BugFree' /\ Guarded'
  BY <1>1, <1>3 DEF IInv, BugFree, Guarded, TypeOK
<1> QED BY <1>1, <1>2, <1>4, <1>5, <1>6 DEF IInv

\* blk_start_request() puts the request on the list and leaves the timer armed.
LEMMA StartInv ==
  ASSUME IInv, NEW r \in Rq, blk_start_request(r)
  PROVE  IInv'
<1> USE DEF blk_start_request
<1>1. /\ timeout' \in [Rq -> Nat]
      /\ deadline' \in [Rq -> 0..(Wrap - 1)]
      /\ timeout_list' = Append(timeout_list, r)
      /\ timer_pending' = TRUE
      /\ expires' \in 0..(Wrap - 1)
  BY AddTimerFacts DEF IInv
<1>2. r \notin Listed /\ r \notin complete /\ Owners(r) = 0
  BY DEF IInv, BugFree, OneOwner
<1>3. /\ timeout_list' \in Seq(Rq)
      /\ Listed' = Listed \cup {r}
      /\ Distinct(timeout_list')
  <2>1. Listed' = Elems(timeout_list')
    BY DEF Listed, Elems
  <2> QED BY <1>1, <1>2, <2>1, AppendFacts, ListedElems
          DEF IInv, TypeOK, ListInv
<1>4. TypeOK'
  BY <1>1, <1>3 DEF IInv, TypeOK, handlerVars
<1>5. done[r] = 0
  BY <1>2 DEF Owners, IInv, TypeOK
<1>6. ListInv'
  BY <1>3, <1>5 DEF IInv, ListInv, TypeOK
<1>7. WalkInv' /\ ArmInv'
  BY <1>1 DEF IInv, WalkInv, ArmInv, TimerArmed, LockFree, handlerVars
<1>8. OneOwner'
  BY <1>2 DEF IInv, OneOwner, Owners, TypeOK
<1>9. BugFree' /\ Guarded'
  BY <1>2, <1>3 DEF IInv, BugFree, Guarded, TypeOK, LockFree
<1> QED BY <1>4, <1>6, <1>7, <1>8, <1>9 DEF IInv

\* The interrupt grabs the request, or finds that somebody has.
LEMMA CompleteInv ==
  ASSUME IInv, NEW r \in Rq, blk_complete_request(r)
  PROVE  IInv'
<1> USE DEF blk_complete_request
<1>1. WalkInv' /\ ArmInv' /\ Listed' = Listed /\ Distinct(timeout_list')
  BY Frame DEF timerVars, handlerVars
<1>2. TypeOK'
  BY DEF IInv, TypeOK, timerVars, handlerVars
<1>3. state[r] = "started"
  BY DEF IInv, ListInv
<1>4. ListInv'
  BY <1>1, <1>3 DEF IInv, ListInv, TypeOK
<1>5. OneOwner'
  BY <1>3 DEF IInv, OneOwner, Owners, TypeOK
<1>6. BugFree' /\ Guarded'
  BY <1>1, <1>3 DEF IInv, BugFree, Guarded, TypeOK
<1> QED BY <1>1, <1>2, <1>4, <1>5, <1>6 DEF IInv

\* Time, the firing of the timer and the loss of a command: nothing the
\* invariant speaks of changes but the timer.
LEMMA TimeInv ==
  ASSUME IInv, Tick \/ TimerFires \/ \E r \in Rq : Lose(r)
  PROVE  IInv'
<1>1. UNCHANGED <<state, timeout, deadline, timeout_list, complete, done,
                  recovery, pos, last, next_timeout, timed_out>>
  BY DEF Tick, TimerFires, Lose, handlerVars
<1>2. hw' \subseteq hw
  BY DEF Tick, TimerFires, Lose
<1>3. Listed' = Listed
  BY <1>1 DEF Listed
<1>4. TypeOK'
  <2>1. CASE Tick
    <3>1. jiffies' \in 0..(Wrap - 1)
      <4>1. jiffies + 1 \in Int
        BY DEF IInv, TypeOK
      <4> QED BY <2>1, <4>1, WrapRange DEF Tick
    <3>2. lag' \in 0..MaxLag
      BY <2>1 DEF Tick, IInv, TypeOK
    <3> QED BY <2>1, <3>1, <3>2 DEF Tick, IInv, TypeOK, timerVars, handlerVars
  <2>2. CASE TimerFires
    <3>1. expires' \in 0..(Wrap - 1)
      BY <2>2 DEF TimerFires
    <3>2. timer_pending' \in BOOLEAN /\ handler' \in {"idle", "wait", "loop", "out"}
      BY <2>2 DEF TimerFires
    <3> QED BY <2>2, <3>1, <3>2 DEF TimerFires, IInv, TypeOK
  <2>3. ASSUME NEW r \in Rq, Lose(r) PROVE TypeOK'
    BY <2>3 DEF Lose, IInv, TypeOK, timerVars, handlerVars
  <2> QED BY <2>1, <2>2, <2>3
<1>5. WalkInv' /\ ArmInv'
  <2>1. CASE TimerFires
    BY <2>1, <1>1 DEF TimerFires, IInv, WalkInv, ArmInv, TimerArmed
  <2>2. CASE UNCHANGED <<handler, timer_pending>>
    BY <1>1, <2>2, Frame
  <2> QED BY <2>1, <2>2 DEF Tick, Lose, timerVars, handlerVars
<1>6. ListInv'
  BY <1>1, <1>2, <1>3 DEF IInv, ListInv
<1>7. OneOwner' /\ BugFree' /\ Guarded'
  BY <1>1, <1>3 DEF IInv, OneOwner, Owners, BugFree, Guarded
<1> QED BY <1>4, <1>5, <1>6, <1>7 DEF IInv

\* The completion or the error handler takes the request over, or the driver
\* takes back one that nobody owns.
LEMMA ClaimFacts ==
  ASSUME IInv, NEW r \in Rq, Claim(r)
  PROVE  /\ timeout_list' \in Seq(Rq) /\ Distinct(timeout_list')
         /\ Listed' = Listed \ {r}
         /\ state[r] = "started"
         /\ r # timed_out /\ r \notin hw'
         /\ hw' \subseteq hw
         /\ done' \in [Rq -> Nat]
         /\ Owners(r)' = 0
         /\ \A x \in Rq \ {r} : Owners(x)' = Owners(x) /\ done'[x] = done[x]
         /\ WalkInv' /\ ArmInv'
<1> USE DEF Claim
<1>1. /\ timeout_list' \in Seq(Rq) /\ Distinct(timeout_list')
      /\ Elems(timeout_list') = Listed \ {r}
  BY DeleteTimerFacts DEF IInv, TypeOK, ListInv
<1>2. Listed' = Listed \ {r}
  BY <1>1 DEF Listed, Elems
<1>3. Owners(r) > 0 \/ (state[r] = "started" /\ r \notin complete)
  BY DEF Owners, IInv, TypeOK
<1>4. /\ state[r] = "started"
      /\ Owners(r) = IF r \in complete THEN 1 ELSE 0
  BY <1>3 DEF IInv, OneOwner
<1>5. r # timed_out
  BY NoRq \notin Rq DEF LockFree
<1>6. hw' \subseteq hw /\ r \notin hw'
  BY DEF IInv, ListInv
<1>7. done' \in [Rq -> Nat]
  <2>1. done \in [Rq -> Nat]
    BY DEF IInv, TypeOK
  <2>2. CASE done' = done
    BY <2>1, <2>2
  <2>3. CASE done[r] > 0 /\ done' = [done EXCEPT ![r] = @ - 1]
    <3>1. done[r] - 1 \in Nat
      BY <2>1, <2>3
    <3> QED BY <2>1, <2>3, <3>1
  <2> QED BY <2>2, <2>3
<1>8. Owners(r)' = 0
  <2>1. CASE r \in complete
    BY <1>4, <1>5, <2>1 DEF Owners, IInv, TypeOK
  <2>2. CASE r \notin complete
    BY <1>4, <1>5, <2>2 DEF Owners, IInv, TypeOK
  <2> QED BY <2>1, <2>2
<1>9. \A x \in Rq \ {r} : Owners(x)' = Owners(x) /\ done'[x] = done[x]
  BY DEF Owners, IInv, TypeOK
<1>10. handler \in {"idle", "wait"} /\ handler' = handler
       /\ timed_out' = timed_out /\ timer_pending' = timer_pending
  BY DEF LockFree, handlerVars, timerVars
<1>11. timeout_list' # <<>> => timeout_list # <<>>
  <2>1. CASE r \in Listed
    BY <2>1 DEF Listed
  <2>2. CASE r \notin Listed
    BY <2>2 DEF blk_delete_timer
  <2> QED BY <2>1, <2>2
<1>12. WalkInv' /\ ArmInv'
  BY <1>10, <1>11 DEF IInv, WalkInv, ArmInv, TimerArmed
<1> QED BY <1>1, <1>2, <1>4, <1>5, <1>6, <1>7, <1>8, <1>9, <1>12

\* blk_finish_request() and blk_requeue_request() consume the one owner, if any.
LEMMA ClaimInv ==
  ASSUME IInv, NEW r \in Rq, blk_finish_request(r) \/ blk_requeue_request(r)
  PROVE  IInv'
<1>1. Claim(r)
  BY DEF blk_finish_request, blk_requeue_request
<1> DEFINE s == state'[r]
<1>2. /\ state' \in [Rq -> {"free", "queued", "started"}]
      /\ s \in {"free", "queued"}
      /\ s = "queued" => r \notin complete'
      /\ timeout' \in [Rq -> Nat]
      /\ complete' \subseteq complete
      /\ \A x \in Rq \ {r} : state'[x] = state[x]
                             /\ (x \in complete' <=> x \in complete)
  <2>1. CASE blk_finish_request(r)
    BY <2>1 DEF blk_finish_request, IInv, TypeOK
  <2>2. CASE blk_requeue_request(r)
    BY <2>2 DEF blk_requeue_request, IInv, TypeOK
  <2> QED BY <2>1, <2>2
<1> HIDE DEF s
<1>3. /\ timeout_list' \in Seq(Rq) /\ Distinct(timeout_list')
      /\ Listed' = Listed \ {r}
      /\ r # timed_out /\ r \notin hw'
      /\ hw' \subseteq hw
      /\ done' \in [Rq -> Nat]
      /\ Owners(r)' = 0
      /\ \A x \in Rq \ {r} : Owners(x)' = Owners(x) /\ done'[x] = done[x]
      /\ WalkInv' /\ ArmInv'
  BY <1>1, ClaimFacts
<1>4. TypeOK'
  <2>1. deadline' \in [Rq -> 0..(Wrap - 1)]
    BY <1>1 DEF Claim, IInv, TypeOK
  <2>2. recovery' \subseteq Rq
    BY <1>1 DEF Claim, IInv, TypeOK
  <2> QED BY <1>1, <1>2, <1>3, <2>1, <2>2
          DEF Claim, IInv, TypeOK, timerVars, handlerVars
<1>5. ListInv'
  <2>1. Listed \subseteq Rq /\ hw \subseteq Rq
    BY ListedType DEF IInv, TypeOK
  <2> QED BY <1>2, <1>3, <2>1 DEF IInv, ListInv
<1>6. OneOwner'
  BY <1>2, <1>3 DEF IInv, OneOwner, s
<1>7. timed_out' = timed_out
  BY <1>1 DEF Claim
<1>8. BugFree' /\ Guarded'
  BY <1>2, <1>3, <1>7 DEF IInv, BugFree, Guarded, s
<1> QED BY <1>3, <1>4, <1>5, <1>6, <1>8 DEF IInv

\* blk_abort_request() grabs a request that nobody owns.
LEMMA AbortInv ==
  ASSUME IInv, NEW r \in Rq, blk_abort_request(r)
  PROVE  IInv'
<1> USE DEF blk_abort_request
<1>1. /\ timeout_list' \in Seq(Rq) /\ Distinct(timeout_list')
      /\ Elems(timeout_list') = Listed \ {r}
  BY DeleteTimerFacts DEF IInv, TypeOK, ListInv
<1>2. Listed' = Listed \ {r}
  BY <1>1 DEF Listed, Elems
<1>3. TypeOK'
  <2>1. deadline' \in [Rq -> 0..(Wrap - 1)]
    BY DEF IInv, TypeOK
  <2> QED BY <1>1, <2>1 DEF IInv, TypeOK, timerVars, handlerVars
<1>4. ListInv'
  BY <1>1, <1>2 DEF IInv, ListInv
<1>5. r \in Listed
  BY DEF IInv, Guarded
<1>6. handler \in {"idle", "wait"} /\ handler' = handler
      /\ timer_pending' = timer_pending /\ timeout_list # <<>>
  BY <1>5 DEF LockFree, handlerVars, timerVars, Listed
<1>7. WalkInv' /\ ArmInv'
  BY <1>6 DEF IInv, WalkInv, ArmInv, TimerArmed
<1>8. OneOwner'
  <2>1. timed_out = NoRq /\ Owners(r) = 0
    BY DEF LockFree, IInv, OneOwner
  <2>2. Owners(r)' = 1
    BY <2>1 DEF Owners, IInv, TypeOK
  <2>3. \A x \in Rq \ {r} : Owners(x)' = Owners(x)
    BY <2>1 DEF Owners
  <2> QED BY <2>2, <2>3 DEF IInv, OneOwner
<1>9. BugFree' /\ Guarded'
  BY <1>2 DEF IInv, BugFree, Guarded
<1> QED BY <1>3, <1>4, <1>7, <1>8, <1>9 DEF IInv

\* blk_rq_timed_out_timer() gets the lock.
LEMMA BeginInv == IInv /\ blk_rq_timed_out_timer => IInv'
<1> SUFFICES ASSUME IInv, blk_rq_timed_out_timer PROVE IInv'
  OBVIOUS
<1> USE DEF blk_rq_timed_out_timer
<1>1. Listed' = Listed
  BY DEF Listed
<1>2. TypeOK'
  <2>1. last' \in BOOLEAN
    OBVIOUS
  <2>2. next_timeout' \in -1..(Wrap - 1)
    BY DEF NoTime
  <2>3. handler' \in {"idle", "wait", "loop", "out"}
    OBVIOUS
  <2> QED BY <2>1, <2>2, <2>3 DEF IInv, TypeOK, timerVars
<1>3. WalkInv'
  <2>1. timed_out' = NoRq
    BY DEF LockFree
  <2>2. timeout_list # <<>> => 1 \in 1..Len(timeout_list)
    <3>1. timeout_list \in Seq(Rq)
      BY DEF IInv, TypeOK
    <3>2. Len(timeout_list) \in Nat /\ (timeout_list # <<>> => Len(timeout_list) # 0)
      BY <3>1, LenProperties, EmptySeq
    <3> QED BY <3>2
  <2> QED BY <2>1, <2>2 DEF WalkInv
<1>4. ArmInv'
  BY DEF IInv, ArmInv, TimerArmed
<1>5. ListInv' /\ OneOwner' /\ BugFree' /\ Guarded'
  BY <1>1 DEF IInv, ListInv, OneOwner, Owners, BugFree, Guarded
<1> QED BY <1>2, <1>3, <1>4, <1>5 DEF IInv

\* The end of the handler: this is where ArmInv is needed.
LEMMA OutInv == IInv /\ HandlerOut => IInv'
<1> SUFFICES ASSUME IInv, HandlerOut PROVE IInv'
  OBVIOUS
<1> USE DEF HandlerOut
<1>1. Listed' = Listed
  BY DEF Listed
<1>2. /\ timer_pending' \in BOOLEAN /\ expires' \in 0..(Wrap - 1)
      /\ next_timeout # NoTime => timer_pending' = TRUE
      /\ timer_pending = TRUE => timer_pending' = TRUE
  <2>1. CASE next_timeout = NoTime
    BY <2>1 DEF timerVars, IInv, TypeOK
  <2>2. CASE next_timeout # NoTime
    <3>1. next_timeout \in 0..(Wrap - 1)
      BY <2>2 DEF NoTime, IInv, TypeOK
    <3>2. PICK skew \in Skews : mod_timer(round_jiffies_up(next_timeout, skew))
      BY <2>2
    <3>3. round_jiffies_up(next_timeout, skew) \in 0..(Wrap - 1)
      BY <3>1, RoundType
    <3> QED BY <3>2, <3>3, ModTimerType
  <2> QED BY <2>1, <2>2
<1>3. TypeOK'
  <2>1. last' \in BOOLEAN
    OBVIOUS
  <2>2. next_timeout' \in -1..(Wrap - 1) /\ lag' \in 0..MaxLag
    BY DEF NoTime
  <2> QED BY <1>2, <2>1, <2>2 DEF IInv, TypeOK
<1>4. WalkInv' /\ ArmInv'
  BY <1>2 DEF IInv, WalkInv, ArmInv, TimerArmed, TypeOK
<1>5. ListInv' /\ OneOwner' /\ BugFree' /\ Guarded'
  BY <1>1 DEF IInv, ListInv, OneOwner, Owners, BugFree, Guarded
<1> QED BY <1>3, <1>4, <1>5 DEF IInv

\* One entry of the walk.
LEMMA CheckInv == IInv /\ blk_rq_check_expired => IInv'
<1> SUFFICES ASSUME IInv, blk_rq_check_expired PROVE IInv'
  OBVIOUS
<1>1. handler = "loop" /\ timed_out = NoRq
  BY DEF blk_rq_check_expired
<1>2. timeout_list \in Seq(Rq) /\ Distinct(timeout_list)
  BY DEF IInv, TypeOK, ListInv
<1>a. Len(timeout_list) \in Nat /\ DOMAIN timeout_list = 1..Len(timeout_list)
  BY <1>2, LenProperties
<1>b. pos \in 1..Len(timeout_list) /\ timeout_list[pos] \in Rq
  <2>1. pos \in 1..Len(timeout_list)
    BY <1>1 DEF IInv, WalkInv
  <2> QED BY <2>1, <1>2, ElementOfSeq
<1>c. PICK r \in Rq : r = timeout_list[pos]
  BY <1>b
<1>d. PICK n \in Nat : n = Len(timeout_list)
  BY <1>a
<1>3. pos \in 1..n /\ DOMAIN timeout_list = 1..n /\ n \in Nat /\ r \in Rq
  BY <1>a, <1>b, <1>c, <1>d
<1>4. r \in Listed /\ state[r] = "started"
  BY <1>3, <1>c DEF Listed, IInv, ListInv
<1>5. UNCHANGED <<jiffies, state, timeout, timer_pending, expires, hw, done,
                  recovery, lag>>
  BY DEF blk_rq_check_expired, timerVars
<1>6. CASE time_after_eq(jiffies, deadline[r])
  <2>1. /\ timeout_list' = DelAt(timeout_list, pos)
        /\ deadline' = [deadline EXCEPT ![r] = 0]
        /\ complete' = complete \cup {r}
        /\ IF r \in complete
           THEN /\ handler' = IF pos = n THEN "out" ELSE "loop"
                /\ UNCHANGED <<timed_out, last>>
           ELSE /\ timed_out' = r
                /\ last' = (pos = n)
                /\ UNCHANGED handler
        /\ UNCHANGED <<pos, next_timeout>>
    BY <1>6, <1>c, <1>d DEF blk_rq_check_expired
  <2>2. /\ timeout_list' \in Seq(Rq) /\ Distinct(timeout_list')
        /\ Len(timeout_list') = n - 1
        /\ Listed' = Listed \ {r}
    <3>1. Listed' = Elems(timeout_list')
      BY DEF Listed, Elems
    <3> QED BY <1>2, <1>3, <1>c, <1>d, <2>1, <3>1, DelFacts, ListedElems
  <2>3. TypeOK'
    <3>1. deadline' \in [Rq -> 0..(Wrap - 1)]
      BY <1>3, <2>1 DEF IInv, TypeOK
    <3>2. last' \in BOOLEAN
      BY <2>1 DEF IInv, TypeOK
    <3>3. timed_out' \in Rq \cup {NoRq} /\ complete' \subseteq Rq
          /\ handler' \in {"idle", "wait", "loop", "out"}
      BY <1>3, <2>1 DEF IInv, TypeOK
    <3> QED BY <1>5, <2>1, <2>2, <3>1, <3>2, <3>3 DEF IInv, TypeOK
  <2>4. ListInv'
    BY <1>5, <2>2 DEF IInv, ListInv
  <2>5. WalkInv'
    <3>1. CASE r \in complete
      BY <1>1, <1>3, <2>1, <2>2, <3>1 DEF WalkInv
    <3>2. CASE r \notin complete
      <4>1. handler' = "loop" /\ timed_out' = r /\ last' = (pos = n) /\ pos' = pos
        BY <1>1, <2>1, <3>2
      <4>2. timed_out' # NoRq
        BY <4>1, <1>3
      <4>3. CASE pos = n
        <5>1. last' = TRUE
          BY <4>1, <4>3
        <5>2. pos' = Len(timeout_list') + 1
          BY <1>3, <2>2, <4>1, <4>3
        <5> QED BY <4>1, <4>2, <5>1, <5>2 DEF WalkInv
      <4>4. CASE pos # n
        <5>1. last' = FALSE
          BY <4>1, <4>4
        <5>2. pos' \in 1..Len(timeout_list')
          BY <1>3, <2>2, <4>1, <4>4
        <5> QED BY <4>1, <4>2, <5>1, <5>2 DEF WalkInv
      <4> QED BY <4>3, <4>4
    <3> QED BY <3>1, <3>2
  <2>6. ArmInv'
    <3>1. timeout_list' # <<>> => n - 1 # 0
      BY <2>2, EmptySeq
    <3> QED BY <1>1, <1>3, <1>5, <2>1, <3>1 DEF IInv, ArmInv, TimerArmed
  <2>7. OneOwner'
    <3>1. CASE r \in complete
      BY <1>5, <2>1, <3>1 DEF IInv, OneOwner, Owners
    <3>2. CASE r \notin complete
      <4>1. Owners(r) = 0
        BY <1>3, <3>2 DEF IInv, OneOwner
      <4>2. Owners(r)' = 1
        BY <1>1, <1>3, <1>5, <2>1, <3>2, <4>1 DEF Owners, IInv, TypeOK
      <4>3. \A x \in Rq \ {r} : Owners(x)' = Owners(x)
        BY <1>1, <1>5, <2>1, <3>2 DEF Owners
      <4> QED BY <1>4, <1>5, <2>1, <4>2, <4>3 DEF IInv, OneOwner
    <3> QED BY <3>1, <3>2
  <2>8. BugFree' /\ Guarded'
    BY <1>1, <1>4, <1>5, <2>1, <2>2 DEF IInv, BugFree, Guarded
  <2> QED BY <2>3, <2>4, <2>5, <2>6, <2>7, <2>8 DEF IInv
<1>7. CASE ~time_after_eq(jiffies, deadline[r])
  <2>1. /\ next_timeout' = NextTimeout(next_timeout, deadline[r])
        /\ pos' = pos + 1
        /\ handler' = IF pos = n THEN "out" ELSE "loop"
        /\ UNCHANGED <<timeout_list, deadline, complete, timed_out, last>>
    BY <1>7, <1>c, <1>d DEF blk_rq_check_expired
  <2>2. deadline[r] \in 0..(Wrap - 1)
    BY <1>3 DEF IInv, TypeOK
  <2>3. next_timeout' \in 0..(Wrap - 1)
    BY <2>1, <2>2 DEF NextTimeout, NoTime, IInv, TypeOK
  <2>4. TypeOK'
    BY <1>5, <2>1, <2>3 DEF IInv, TypeOK
  <2>5. WalkInv'
    <3>1. timed_out' = NoRq /\ Len(timeout_list') = n
      BY <1>1, <1>d, <2>1
    <3>2. handler' = "loop" => pos' \in 1..Len(timeout_list')
      BY <1>3, <2>1, <3>1
    <3> QED BY <3>1, <3>2 DEF WalkInv
  <2>6. ArmInv'
    BY <1>1, <2>1, <2>3 DEF ArmInv, TimerArmed, NoTime
  <2>7. Listed' = Listed
    BY <2>1 DEF Listed
  <2>8. ListInv' /\ OneOwner' /\ BugFree' /\ Guarded'
    BY <1>5, <2>1, <2>7 DEF IInv, ListInv, OneOwner, Owners, BugFree, Guarded
  <2> QED BY <2>4, <2>5, <2>6, <2>8 DEF IInv
<1> QED BY <1>6, <1>7

\* The answer of rq_timed_out_fn, for the walk or for an abort.
LEMMA TimedOutInv == IInv /\ TimedOut => IInv'
<1> SUFFICES ASSUME IInv, NEW ret, blk_rq_timed_out(ret) PROVE IInv'
  BY DEF TimedOut
<1>1. timed_out \in Rq /\ timed_out # NoRq
  BY DEF blk_rq_timed_out, IInv, TypeOK
<1>2. PICK r \in Rq : r = timed_out
  BY <1>1
<1>3. /\ r # NoRq /\ timed_out' = NoRq
      /\ handler' = IF handler = "loop" /\ last THEN "out" ELSE handler
      /\ UNCHANGED <<jiffies, state, pos, last, next_timeout, lag>>
  BY <1>1, <1>2 DEF blk_rq_timed_out
<1>4. /\ state[r] = "started" /\ r \in complete /\ Owners(r) = 1
      /\ done[r] = 0 /\ r \notin recovery /\ r \notin Listed
  <2>1. Owners(r) > 0
    BY <1>2 DEF Owners, IInv, TypeOK
  <2>2. state[r] = "started" /\ r \in complete /\ Owners(r) = 1
    BY <2>1 DEF IInv, OneOwner
  <2>3. done[r] = 0 /\ r \notin recovery
    BY <2>2, <1>2 DEF Owners, IInv, TypeOK
  <2>4. r \notin Listed
    BY <1>2 DEF IInv, BugFree
  <2> QED BY <2>2, <2>3, <2>4
<1>6. CASE ret = "HANDLED" \/ ret = "NOT_HANDLED"
  <2>1. /\ UNCHANGED <<timeout, deadline, timeout_list, timer_pending,
                        expires, complete>>
        /\ hw' \subseteq hw /\ recovery' \subseteq Rq /\ done' \in [Rq -> Nat]
        /\ Listed' = Listed
    <3>1. CASE ret = "HANDLED"
      <4>1. /\ UNCHANGED <<timeout, deadline, timeout_list, timer_pending,
                            expires, complete, recovery>>
            /\ hw' \subseteq hw
            /\ done' = [done EXCEPT ![r] = @ + 1]
        BY <1>2, <3>1 DEF blk_rq_timed_out, timerVars
      <4> QED BY <4>1 DEF IInv, TypeOK, Listed
    <3>2. CASE ret = "NOT_HANDLED"
      <4>1. /\ UNCHANGED <<timeout, deadline, timeout_list, timer_pending,
                            expires, complete, done, hw>>
            /\ recovery' = recovery \cup {r}
        BY <1>2, <3>2 DEF blk_rq_timed_out, timerVars
      <4> QED BY <4>1 DEF IInv, TypeOK, Listed
    <3> QED BY <1>6, <3>1, <3>2
  <2>2. Owners(r)' = 1 /\ (done'[r] = 0 \/ r \notin hw')
    <3>1. CASE ret = "HANDLED"
      <4>1. done' = [done EXCEPT ![r] = @ + 1] /\ hw' = hw \ {r}
            /\ recovery' = recovery
        BY <1>2, <3>1 DEF blk_rq_timed_out
      <4>2. done'[r] = 1
        BY <4>1, <1>4 DEF IInv, TypeOK
      <4> QED BY <1>3, <1>4, <4>1, <4>2 DEF Owners
    <3>2. CASE ret = "NOT_HANDLED"
      <4>1. recovery' = recovery \cup {r} /\ done' = done
        BY <1>2, <3>2 DEF blk_rq_timed_out
      <4> QED BY <1>3, <1>4, <4>1 DEF Owners
    <3> QED BY <1>6, <3>1, <3>2
  <2>3. \A x \in Rq \ {r} : Owners(x)' = Owners(x) /\ done'[x] = done[x]
    BY <1>2, <1>3, <1>6 DEF blk_rq_timed_out, Owners, IInv, TypeOK
  <2>4. TypeOK'
    <3>1. handler' \in {"idle", "wait", "loop", "out"}
      BY <1>3 DEF IInv, TypeOK
    <3> QED BY <1>3, <2>1, <3>1 DEF IInv, TypeOK
  <2>5. ListInv'
    BY <1>3, <2>1, <2>2, <2>3 DEF IInv, ListInv, TypeOK
  <2>6. OneOwner'
    BY <1>3, <1>4, <2>1, <2>2, <2>3 DEF IInv, OneOwner
  <2>7. BugFree' /\ Guarded'
    <3>1. NoRq \notin Listed
      BY ListedType DEF IInv, TypeOK
    <3> QED BY <1>3, <2>1, <3>1 DEF IInv, BugFree, Guarded
  <2>8. WalkInv'
    BY <1>1, <1>3, <2>1 DEF IInv, WalkInv, TypeOK
  <2>9. ArmInv'
    <3>1. CASE handler = "loop" /\ last
      <4>1. timeout_list # <<>> => Len(timeout_list) # 0 /\ Len(timeout_list) \in Nat
        <5>1. timeout_list \in Seq(Rq)
          BY DEF IInv, TypeOK
        <5> QED BY <5>1, EmptySeq, LenProperties
      <4>2. timeout_list # <<>> => pos > 1
        BY <1>1, <3>1, <4>1 DEF IInv, WalkInv
      <4> QED BY <1>3, <2>1, <3>1, <4>2 DEF IInv, ArmInv, TimerArmed
    <3>2. CASE ~(handler = "loop" /\ last)
      BY <1>1, <1>3, <2>1, <3>2 DEF IInv, ArmInv, TimerArmed
    <3> QED BY <3>1, <3>2
  <2> QED BY <2>4, <2>5, <2>6, <2>7, <2>8, <2>9 DEF IInv
<1>7. CASE ret = "RESET_TIMER"
  <2>1. /\ blk_add_timer(r)
        /\ complete' = complete \ {r}
        /\ UNCHANGED <<done, hw, recovery>>
    BY <1>2, <1>7 DEF blk_rq_timed_out
  <2>2. /\ timeout' \in [Rq -> Nat]
        /\ deadline' \in [Rq -> 0..(Wrap - 1)]
        /\ timeout_list' = Append(timeout_list, r)
        /\ timer_pending' = TRUE
        /\ expires' \in 0..(Wrap - 1)
    BY <2>1, AddTimerFacts DEF IInv
  <2>3. /\ timeout_list' \in Seq(Rq)
        /\ Len(timeout_list') = Len(timeout_list) + 1
        /\ Listed' = Listed \cup {r}
        /\ Distinct(timeout_list')
    <3>1. Listed' = Elems(timeout_list')
      BY DEF Listed, Elems
    <3> QED BY <1>4, <2>2, <3>1, AppendFacts, ListedElems
            DEF IInv, TypeOK, ListInv
  <2>4. TypeOK'
    <3>1. handler' \in {"idle", "wait", "loop", "out"}
      BY <1>3 DEF IInv, TypeOK
    <3>2. timer_pending' \in BOOLEAN
      BY <2>2
    <3> QED BY <1>3, <2>1, <2>2, <2>3, <3>1, <3>2 DEF IInv, TypeOK
  <2>5. ListInv'
    BY <1>3, <1>4, <2>1, <2>3 DEF IInv, ListInv
  <2>6. OneOwner'
    <3>1. Owners(r)' = 0
      BY <1>3, <1>4, <2>1 DEF Owners
    <3>2. \A x \in Rq \ {r} : Owners(x)' = Owners(x)
      BY <1>2, <1>3, <2>1 DEF Owners
    <3> QED BY <1>3, <2>1, <3>1, <3>2 DEF IInv, OneOwner
  <2>7. BugFree' /\ Guarded'
    <3>1. NoRq \notin Listed'
      BY <1>3, <2>3, ListedType DEF IInv, TypeOK
    <3> QED BY <1>3, <1>4, <2>1, <2>3, <3>1 DEF IInv, BugFree, Guarded
  <2>8. WalkInv'
    <3>1. Len(timeout_list) \in Nat
      BY LenProperties DEF IInv, TypeOK
    <3>2. handler' = "loop" => pos' \in 1..Len(timeout_list')
      BY <1>1, <1>3, <2>3, <3>1 DEF IInv, WalkInv, TypeOK
    <3> QED BY <1>3, <3>2 DEF WalkInv
  <2>9. ArmInv'
    BY <1>3, <2>2 DEF IInv, ArmInv, TimerArmed
  <2> QED BY <2>4, <2>5, <2>6, <2>7, <2>8, <2>9 DEF IInv
<1> QED BY <1>6, <1>7 DEF blk_rq_timed_out

\* Every step preserves the invariant.
LEMMA InvStep == IInv /\ [Next]_vars => IInv'
<1> SUFFICES ASSUME IInv, [Next]_vars PROVE IInv'
  OBVIOUS
<1>1. CASE UNCHANGED vars
  <2>1. Listed' = Listed
    BY <1>1 DEF vars, Listed
  <2> QED BY <1>1, <2>1 DEF vars, IInv, TypeOK, ListInv, WalkInv, ArmInv,
             TimerArmed, OneOwner, Owners, BugFree, Guarded, Distinct
<1> QED BY <1>1, PrepareInv, StartInv, CompleteInv, TimeInv, ClaimInv,
           AbortInv, BeginInv, CheckInv, TimedOutInv, OutInv DEF Next

\* The invariant of the timeout machinery, for any number of requests and any
\* width of jiffies.
THEOREM Invariance == Spec => []IInv
BY InvInit, InvStep, PTL DEF Spec

\* The variables keep their types: in particular the deadlines, the expiry
\* time and jiffies wrap together.
THEOREM TypeCorrect == Spec => []TypeOK
<1>1. IInv => TypeOK
  BY DEF IInv
<1> QED BY <1>1, Invariance, PTL

\* The race for REQ_ATOM_COMPLETE: interrupt, timer, abort and error handler
\* never both own a request, and a marked request is never without an owner.
THEOREM OnlyOneGrabs == Spec => []OneOwner
<1>1. IInv => OneOwner
  BY DEF IInv
<1> QED BY <1>1, Invariance, PTL

\* The BUG_ON()s of blk_start_request() and blk_add_timer() are unreachable.
THEOREM BugOnsUnreachable == Spec => []BugFree
<1>1. IInv => BugFree
  BY DEF IInv
<1> QED BY <1>1, Invariance, PTL

\* q->timeout is armed whenever a request depends on it, although
\* blk_add_timer() and the end of the handler each set it only on a condition.
THEOREM NeverUnarmed == Spec => []TimerArmed
<1>1. IInv => TimerArmed
  BY DEF IInv, ArmInv
<1> QED BY <1>1, Invariance, PTL

\* Every request that runs and that nobody has grabbed is watched.
THEOREM AlwaysWatched == Spec => []Guarded
<1>1. IInv => Guarded
  BY DEF IInv
<1> QED BY <1>1, Invariance, PTL
-----------------------------------------------------------------------------
(* Distances between jiffies                                                *)

Jiffy == 0..(Wrap - 1)
Horizon == RqTimeout + BLK_MAX_TIMEOUT + 2 * HZ + Slack + 2 * MaxLag

\* The constants of a Regular queue, and what they leave of the half of the
\* range within which jiffies can be compared.
LEMMA HalfRange ==
  /\ Wrap \div 2 \in Nat
  /\ 2 * (Wrap \div 2) <= Wrap /\ Wrap <= 2 * (Wrap \div 2) + 1
  /\ Horizon \in Nat
  /\ Regular => Horizon < Wrap \div 2
BY DEF Horizon, Regular

\* Reduction modulo Wrap, for a sum that wraps at most once.
LEMMA ModOnce ==
  ASSUME NEW x \in Int
  PROVE  /\ 0 <= x /\ x < Wrap => x % Wrap = x
         /\ -Wrap <= x /\ x < 0 => x % Wrap = x + Wrap
         /\ Wrap <= x /\ x < 2 * Wrap => x % Wrap = x - Wrap
OBVIOUS

\* A distance is the difference, up to one turn of the counter.
LEMMA DistCases ==
  ASSUME NEW t \in Jiffy, NEW j \in Jiffy
  PROVE  /\ Dist(t, j) \in Int
         /\ \/ t - j = Dist(t, j)
            \/ t - j = Dist(t, j) + Wrap
            \/ t - j = Dist(t, j) - Wrap
BY HalfRange DEF Dist, Jiffy

\* Conversely: within half the range the distance is determined.
LEMMA DistIs ==
  ASSUME NEW t \in Jiffy, NEW j \in Jiffy, NEW n \in Int,
         -(Wrap \div 2) < n, n < Wrap \div 2,
         t - j = n \/ t - j = n + Wrap \/ t - j = n - Wrap
  PROVE  Dist(t, j) = n
BY HalfRange DEF Dist, Jiffy

\* One jiffy passes.
LEMMA DistTick ==
  ASSUME NEW t \in Jiffy, NEW j \in Jiffy,
         1 - (Wrap \div 2) < Dist(t, j), Dist(t, j) < Wrap \div 2
  PROVE  Dist(t, (j + 1) % Wrap) = Dist(t, j) - 1
<1> DEFINE k == (j + 1) % Wrap
           n == Dist(t, j)
<1>1. k \in Jiffy /\ (k = j + 1 \/ k = j + 1 - Wrap)
  BY ModOnce DEF Jiffy
<1>2. /\ n \in Int
      /\ t - j = n \/ t - j = n + Wrap \/ t - j = n - Wrap
  BY DistCases
<1>3. \/ t - k = n - 1 \/ t - k = n - 1 + Wrap \/ t - k = n - 1 - Wrap
  <2> HIDE DEF n, k
  <2>1. t - j - 1 = n - 1 \/ t - j - 1 = n - 1 + Wrap \/ t - j - 1 = n - 1 - Wrap
    BY <1>2 DEF Jiffy
  <2>2. t - k \in (1 - Wrap)..(Wrap - 1)
    BY <1>1 DEF Jiffy
  <2>3. CASE k = j + 1
    BY <1>1, <1>2, <2>3 DEF Jiffy
  <2>4. CASE k = j + 1 - Wrap
    <3>1. t - k = (t - j - 1) + Wrap
      BY <2>4 DEF Jiffy
    <3>2. n - 1 < Wrap \div 2 /\ 0 < Wrap \div 2
      BY <1>2, HalfRange DEF n
    <3>3. -(Wrap \div 2) < n - 1
      BY <1>2, HalfRange DEF n
    <3> QED BY <1>2, <2>1, <2>2, <3>1, <3>2, <3>3, HalfRange
  <2> QED BY <1>1, <2>3, <2>4
<1>4. -(Wrap \div 2) < n - 1 /\ n - 1 < Wrap \div 2
  BY <1>2, HalfRange
<1> HIDE DEF n, k
<1> QED BY <1>1, <1>2, <1>3, <1>4, DistIs DEF n, k

\* A time moved by n lies n further ahead.
LEMMA DistAdd ==
  ASSUME NEW t \in Jiffy, NEW j \in Jiffy, NEW n \in 0..Wrap,
         -(Wrap \div 2) < Dist(t, j) + n, Dist(t, j) + n < Wrap \div 2
  PROVE  /\ (t + n) % Wrap \in Jiffy
         /\ Dist((t + n) % Wrap, j) = Dist(t, j) + n
<1> DEFINE u == (t + n) % Wrap
           m == Dist(t, j)
<1>1. /\ u \in Jiffy
      /\ u = t + n \/ u = t + n - Wrap
  BY ModOnce DEF Jiffy
<1>2. /\ m \in Int
      /\ t - j = m \/ t - j = m + Wrap \/ t - j = m - Wrap
  BY DistCases
<1>3. u - j \in (1 - Wrap)..(Wrap - 1)
  BY <1>1 DEF Jiffy
<1>4. -(Wrap \div 2) < m + n /\ m + n < Wrap \div 2
  OBVIOUS
<1> HIDE DEF u, m
<1>5. u - j = m + n \/ u - j = m + n + Wrap \/ u - j = m + n - Wrap
  BY <1>1, <1>2, <1>3, <1>4, HalfRange DEF Jiffy
<1>6. Dist(u, j) = m + n
  BY <1>1, <1>2, <1>4, <1>5, DistIs
<1> QED BY <1>1, <1>6 DEF u, m

\* Two times less than half the range apart are compared as their distances
\* from any third.
LEMMA DistAfter ==
  ASSUME NEW a \in Jiffy, NEW b \in Jiffy, NEW j \in Jiffy,
         Dist(a, j) - Dist(b, j) < Wrap \div 2,
         Dist(b, j) - Dist(a, j) < Wrap \div 2
  PROVE  /\ time_after(a, b) <=> Dist(a, j) > Dist(b, j)
         /\ time_after_eq(a, b) <=> Dist(a, j) >= Dist(b, j)
         /\ Dist(a, j) >= Dist(b, j) => (a - b) % Wrap = Dist(a, j) - Dist(b, j)
<1> DEFINE m == Dist(a, j)
           n == Dist(b, j)
<1>1. /\ m \in Int /\ n \in Int
      /\ a - j = m \/ a - j = m + Wrap \/ a - j = m - Wrap
      /\ b - j = n \/ b - j = n + Wrap \/ b - j = n - Wrap
  BY DistCases
<1>2. m - n < Wrap \div 2 /\ n - m < Wrap \div 2
  OBVIOUS
<1> HIDE DEF m, n
<1>3. a - b \in (1 - Wrap)..(Wrap - 1)
  BY DEF Jiffy
<1>4. a - b = m - n \/ a - b = m - n + Wrap \/ a - b = m - n - Wrap
  BY <1>1, <1>2, <1>3, HalfRange DEF Jiffy
<1>5. (a - b) % Wrap = IF m >= n THEN m - n ELSE m - n + Wrap
  <2>1. a - b \in Int /\ m - n \in Int
    BY <1>1 DEF Jiffy
  <2> QED BY <1>1, <1>2, <1>3, <1>4, <2>1, ModOnce, HalfRange
<1> QED BY <1>1, <1>2, <1>5, HalfRange DEF time_after, time_after_eq, m, n

\* The present is not ahead of itself.
LEMMA DistSelf == ASSUME Regular, NEW j \in Jiffy PROVE Dist(j, j) = 0
<1>1. j - j = 0 /\ 0 < Wrap \div 2
  BY HalfRange DEF Jiffy
<1> QED BY <1>1, DistIs

\* round_jiffies_up() moves a time by at most a second, whatever the skew.
LEMMA RoundDist ==
  ASSUME Regular, jiffies \in Jiffy, NEW j \in Jiffy, NEW skew \in Skews,
         -Horizon <= Ahead(j), Ahead(j) + HZ <= Horizon
  PROVE  /\ round_jiffies_up(j, skew) \in Jiffy
         /\ Ahead(j) <= Ahead(round_jiffies_up(j, skew))
         /\ Ahead(round_jiffies_up(j, skew)) <= Ahead(j) + HZ
<1> DEFINE up == (j + skew) % Wrap
           k == (up - (up % HZ) + HZ - skew) % Wrap
<1>1. skew \in 0..(Wrap - 1)
  BY DEF Regular
<1>2. up \in Jiffy /\ (up = j + skew \/ up = j + skew - Wrap)
  BY <1>1, ModOnce DEF Jiffy
<1> HIDE DEF up
<1>3. PICK n \in 1..HZ : n = HZ - (up % HZ)
  <2>1. up % HZ \in 0..(HZ - 1)
    BY <1>2 DEF Jiffy
  <2> QED BY <2>1
<1>4. HZ <= Wrap
  BY HalfRange DEF Horizon
<1>5. k = (j + n) % Wrap
  <2>1. up % HZ \in Int /\ up - (up % HZ) + HZ - skew = up + n - skew
    BY <1>1, <1>2, <1>3 DEF Jiffy
  <2>2. up + n - skew = j + n \/ up + n - skew = (j + n) - Wrap
    BY <1>1, <1>2 DEF Jiffy
  <2>3. (j + n) \in Int /\ ((j + n) - Wrap) \in Int /\ 0 <= j + n /\ j + n < 2 * Wrap
    BY <1>4 DEF Jiffy
  <2>4. (j + n) % Wrap = ((j + n) - Wrap) % Wrap
    <3> DEFINE y == j + n
    <3>1. y \in Int /\ 0 <= y /\ y < 2 * Wrap
      BY <2>3
    <3> HIDE DEF y
    <3>2. ASSUME y < Wrap PROVE y % Wrap = (y - Wrap) % Wrap
      <4>1. y % Wrap = y
        BY <3>1, <3>2, ModOnce
      <4>2. y - Wrap \in Int /\ -Wrap <= y - Wrap /\ y - Wrap < 0
        BY <3>1, <3>2
      <4>3. (y - Wrap) % Wrap = (y - Wrap) + Wrap
        BY <4>2, ModOnce
      <4>4. (y - Wrap) + Wrap = y
        BY <3>1
      <4> QED BY <4>1, <4>3, <4>4
    <3>3. ASSUME Wrap <= y PROVE y % Wrap = (y - Wrap) % Wrap
      <4>1. y % Wrap = y - Wrap
        BY <3>1, <3>3, ModOnce
      <4>2. y - Wrap \in Int /\ 0 <= y - Wrap /\ y - Wrap < Wrap
        BY <3>1, <3>3
      <4>3. (y - Wrap) % Wrap = y - Wrap
        BY <4>2, ModOnce
      <4> QED BY <4>1, <4>3
    <3>4. y % Wrap = (y - Wrap) % Wrap
      BY <3>1, <3>2, <3>3
    <3> QED BY <3>4 DEF y
  <2> QED BY <2>1, <2>2, <2>4
<1>6. Ahead(j) \in Int
  BY DistCases DEF Ahead
<1>7. k \in Jiffy /\ Ahead(k) = Ahead(j) + n
  <2>1. /\ n \in 0..Wrap
        /\ -(Wrap \div 2) < Dist(j, jiffies) + n
        /\ Dist(j, jiffies) + n < Wrap \div 2
    BY <1>4, <1>6, HalfRange DEF Ahead
  <2> HIDE DEF k
  <2> QED BY <1>5, <2>1, DistAdd DEF Ahead
<1>8. round_jiffies_up(j, skew) \in {k, j}
  BY DEF round_jiffies_up, up
<1> HIDE DEF k
<1> QED BY <1>6, <1>7, <1>8

\* blk_rq_timeout() only brings a time in the future forward.
LEMMA ClampDist ==
  ASSUME Regular, jiffies \in Jiffy, NEW t \in Jiffy, NEW skew \in Skews,
         0 <= Ahead(t), Ahead(t) <= RqTimeout + HZ
  PROVE  /\ blk_rq_timeout(t, skew) \in Jiffy
         /\ 0 <= Ahead(blk_rq_timeout(t, skew))
         /\ Ahead(blk_rq_timeout(t, skew)) <= Ahead(t)
<1> DEFINE b == (jiffies + BLK_MAX_TIMEOUT) % Wrap
           maxt == round_jiffies_up(b, skew)
<1>1. Ahead(jiffies) = 0
  BY DistSelf DEF Ahead
<1>2. b \in Jiffy /\ Ahead(b) = BLK_MAX_TIMEOUT
  <2>1. /\ BLK_MAX_TIMEOUT \in 0..Wrap
        /\ -(Wrap \div 2) < Dist(jiffies, jiffies) + BLK_MAX_TIMEOUT
        /\ Dist(jiffies, jiffies) + BLK_MAX_TIMEOUT < Wrap \div 2
    BY <1>1, HalfRange DEF Ahead, Horizon
  <2> QED BY <1>1, <2>1, DistAdd DEF Ahead
<1> HIDE DEF b
<1>3. /\ maxt \in Jiffy
      /\ BLK_MAX_TIMEOUT <= Ahead(maxt) /\ Ahead(maxt) <= BLK_MAX_TIMEOUT + HZ
  BY <1>2, RoundDist DEF Horizon
<1>4. blk_rq_timeout(t, skew) = IF time_after(t, maxt) THEN maxt ELSE t
  BY DEF blk_rq_timeout, b
<1> HIDE DEF maxt
<1>5. Ahead(t) \in Int /\ Ahead(maxt) \in Int
  BY <1>3, DistCases DEF Ahead
<1>6. time_after(t, maxt) <=> Ahead(t) > Ahead(maxt)
  <2>1. /\ Ahead(t) - Ahead(maxt) < Wrap \div 2
        /\ Ahead(maxt) - Ahead(t) < Wrap \div 2
    BY <1>3, <1>5, HalfRange DEF Horizon
  <2> QED BY <1>3, <2>1, DistAfter DEF Ahead
<1> QED BY <1>3, <1>4, <1>5, <1>6

\* mod_timer() adds at most the slack.
LEMMA ModTimerDist ==
  ASSUME Regular, jiffies \in Jiffy, NEW e \in Jiffy, mod_timer(e),
         -Horizon <= Ahead(e), Ahead(e) + Slack <= Horizon
  PROVE  /\ timer_pending' = TRUE
         /\ Dist(expires', jiffies) \in Int
         /\ Ahead(e) <= Dist(expires', jiffies)
         /\ Dist(expires', jiffies) <= Ahead(e) + Slack
<1>1. PICK s \in 0..Slack : expires' = (e + s) % Wrap
  BY DEF mod_timer
<1>2. Ahead(e) \in Int
  BY DistCases DEF Ahead
<1>3. /\ s \in 0..Wrap
      /\ -(Wrap \div 2) < Dist(e, jiffies) + s
      /\ Dist(e, jiffies) + s < Wrap \div 2
  BY <1>2, HalfRange DEF Ahead, Horizon
<1>4. Dist(expires', jiffies) = Ahead(e) + s
  BY <1>1, <1>3, DistAdd DEF Ahead
<1> QED BY <1>2, <1>4 DEF mod_timer

\* blk_add_timer() gives the request its deadline and leaves the timer armed
\* in time for it, and never later than it was.
LEMMA AddTimerDist ==
  ASSUME Regular, TypeOK, timeout \in [Rq -> {0, RqTimeout}], ExpiresInv,
         NEW r \in Rq, blk_add_timer(r)
  PROVE  /\ timeout' \in [Rq -> {0, RqTimeout}]
         /\ \A x \in Rq \ {r} : deadline'[x] = deadline[x]
         /\ Dist(deadline'[r], jiffies) = RqTimeout
         /\ timer_pending' = TRUE
         /\ Dist(expires', jiffies) \in Int
         /\ Dist(expires', jiffies) <= RqTimeout + HZ + Slack
         /\ \/ 0 <= Dist(expires', jiffies)
            \/ timer_pending /\ expires' = expires
         /\ timer_pending => Dist(expires', jiffies) <= Ahead(expires)
<1> DEFINE d == (jiffies + RqTimeout) % Wrap
<1>1. /\ jiffies \in Jiffy /\ expires \in Jiffy
      /\ timeout[r] \in {0, RqTimeout} /\ deadline \in [Rq -> Jiffy]
      /\ timer_pending \in BOOLEAN /\ lag \in 0..MaxLag
  BY DEF TypeOK, Jiffy
<1>2. /\ timeout' = [timeout EXCEPT ![r] = RqTimeout]
      /\ deadline' = [deadline EXCEPT ![r] = d]
  BY <1>1 DEF blk_add_timer
<1>3. Ahead(jiffies) = 0
  BY <1>1, DistSelf DEF Ahead
<1>4. d \in Jiffy /\ Ahead(d) = RqTimeout
  <2>1. /\ RqTimeout \in 0..Wrap
        /\ -(Wrap \div 2) < Dist(jiffies, jiffies) + RqTimeout
        /\ Dist(jiffies, jiffies) + RqTimeout < Wrap \div 2
    BY <1>3, HalfRange DEF Ahead, Horizon
  <2> QED BY <1>1, <1>3, <2>1, DistAdd DEF Ahead
<1> HIDE DEF d
<1>5. PICK skew \in Skews :
        LET e == blk_rq_timeout(round_jiffies_up(d, skew), skew)
        IN  IF \/ ~timer_pending
               \/ /\ time_before(e, expires)
                  /\ (expires - e) % Wrap >= HZ \div 2
            THEN mod_timer(e) ELSE UNCHANGED timerVars
  BY <1>1 DEF blk_add_timer, d
<1> DEFINE t == round_jiffies_up(d, skew)
           e == blk_rq_timeout(t, skew)
<1>6. /\ t \in Jiffy /\ RqTimeout <= Ahead(t) /\ Ahead(t) <= RqTimeout + HZ
  BY <1>1, <1>4, RoundDist DEF Horizon
<1>7. /\ e \in Jiffy /\ 0 <= Ahead(e) /\ Ahead(e) <= Ahead(t)
      /\ Ahead(t) \in Int /\ Ahead(e) \in Int
  <2> HIDE DEF t
  <2>1. Ahead(t) \in Int
    BY <1>1, <1>6, DistCases DEF Ahead
  <2>2. e \in Jiffy /\ 0 <= Ahead(e) /\ Ahead(e) <= Ahead(t)
    BY <1>1, <1>6, <2>1, ClampDist
  <2> HIDE DEF e
  <2> QED BY <1>1, <2>1, <2>2, DistCases DEF Ahead
<1>8. \/ UNCHANGED timerVars /\ timer_pending
      \/ mod_timer(e) /\ ~timer_pending
      \/ /\ mod_timer(e) /\ timer_pending /\ time_before(e, expires)
         /\ (expires - e) % Wrap >= HZ \div 2
  BY <1>1, <1>5
<1> HIDE DEF e, t
<1>9. Ahead(expires) \in Int
  BY <1>1, DistCases DEF Ahead
<1>10. /\ timer_pending' = TRUE
       /\ Dist(expires', jiffies) \in Int
       /\ Dist(expires', jiffies) <= RqTimeout + HZ + Slack
       /\ \/ 0 <= Dist(expires', jiffies)
          \/ timer_pending /\ expires' = expires
       /\ timer_pending => Dist(expires', jiffies) <= Ahead(expires)
  <2>1. CASE UNCHANGED timerVars /\ timer_pending
    <3>1. timer_pending' = TRUE /\ expires' = expires
      BY <2>1, <1>1 DEF timerVars
    <3>2. Ahead(expires) <= RqTimeout + HZ + Slack
      BY <2>1 DEF ExpiresInv
    <3> QED BY <2>1, <3>1, <3>2, <1>9 DEF Ahead
  <2>2. ASSUME mod_timer(e)
        PROVE  /\ timer_pending' = TRUE /\ Dist(expires', jiffies) \in Int
               /\ 0 <= Dist(expires', jiffies)
               /\ Dist(expires', jiffies) <= Ahead(e) + Slack
               /\ Dist(expires', jiffies) <= RqTimeout + HZ + Slack
    <3>1. -Horizon <= Ahead(e) /\ Ahead(e) + Slack <= Horizon
      BY <1>6, <1>7 DEF Horizon
    <3>2. /\ timer_pending' = TRUE /\ Dist(expires', jiffies) \in Int
          /\ Ahead(e) <= Dist(expires', jiffies)
          /\ Dist(expires', jiffies) <= Ahead(e) + Slack
      BY <1>1, <1>7, <2>2, <3>1, ModTimerDist
    <3> QED BY <1>6, <1>7, <3>2
  <2>3. CASE mod_timer(e) /\ ~timer_pending
    BY <2>2, <2>3
  <2>4. CASE /\ mod_timer(e) /\ timer_pending /\ time_before(e, expires)
             /\ (expires - e) % Wrap >= HZ \div 2
    <3>1. /\ Ahead(expires) <= RqTimeout + HZ + Slack
          /\ Ahead(expires) >= -2 * MaxLag
      BY <1>1, <1>9, <2>4 DEF ExpiresInv
    <3>2. /\ Ahead(expires) - Ahead(e) < Wrap \div 2
          /\ Ahead(e) - Ahead(expires) < Wrap \div 2
      BY <1>6, <1>7, <1>9, <3>1, HalfRange DEF Horizon
    <3>3. /\ Ahead(expires) > Ahead(e)
          /\ (expires - e) % Wrap = Ahead(expires) - Ahead(e)
      BY <1>1, <1>7, <1>9, <2>4, <3>2, DistAfter DEF Ahead, time_before
    <3>4. Ahead(e) + Slack <= Ahead(expires)
      BY <1>7, <1>9, <2>4, <3>3 DEF Regular
    <3> QED BY <1>7, <1>9, <2>2, <2>4, <3>4
  <2> QED BY <1>8, <2>1, <2>3, <2>4
<1>11. timeout' \in [Rq -> {0, RqTimeout}]
  BY <1>2
<1>12. /\ \A x \in Rq \ {r} : deadline'[x] = deadline[x]
       /\ Dist(deadline'[r], jiffies) = RqTimeout
  BY <1>1, <1>2, <1>4 DEF Ahead
<1> QED BY <1>10, <1>11, <1>12

-----------------------------------------------------------------------------
(* The latency of the timer                                                 *)

\* The entries the walk has passed, at its turning points.
LEMMA PassedFacts ==
  ASSUME timeout_list \in Seq(Rq)
  PROVE  /\ Passed \subseteq Listed
         /\ handler \in {"idle", "wait"} => Passed = {}
         /\ handler = "loop" /\ pos = 1 => Passed = {}
         /\ handler = "loop" /\ pos = Len(timeout_list) + 1 => Passed = Listed
         /\ handler = "out" => Passed = Listed
<1>1. Len(timeout_list) \in Nat /\ DOMAIN timeout_list = 1..Len(timeout_list)
  BY LenProperties
<1>2. Passed \subseteq Listed
  BY DEF Passed, Listed
<1>3. handler = "loop" /\ pos = Len(timeout_list) + 1 => Passed = Listed
  BY <1>1 DEF Passed, Listed
<1>4. handler = "loop" /\ pos = 1 => Passed = {}
  BY <1>1 DEF Passed
<1> QED BY <1>2, <1>3, <1>4 DEF Passed, Listed

\* The quantities the invariant compares are integers within the horizon.
LEMMA LateTypes ==
  ASSUME Regular, IInv, LateInv
  PROVE  /\ jiffies \in Jiffy /\ expires \in Jiffy /\ Ahead(expires) \in Int
         /\ lag \in 0..MaxLag /\ Wait \in Nat
         /\ Tolerance \in Nat /\ Slack <= Tolerance /\ Tolerance <= HZ
         /\ timer_pending => /\ Ahead(expires) > -Horizon
                             /\ Ahead(expires) < Horizon
         /\ \A r \in Listed : /\ r \in Rq /\ deadline[r] \in Jiffy
                              /\ Ahead(deadline[r]) \in Int
                              /\ Ahead(deadline[r]) > -Horizon
                              /\ Ahead(deadline[r]) < Horizon
         /\ next_timeout # NoTime =>
              /\ next_timeout \in Jiffy /\ Ahead(next_timeout) \in Int
              /\ Ahead(next_timeout) > -Horizon
              /\ Ahead(next_timeout) < Horizon
<1>1. /\ jiffies \in Jiffy /\ expires \in Jiffy /\ lag \in 0..MaxLag
      /\ deadline \in [Rq -> Jiffy] /\ Listed \subseteq Rq
      /\ next_timeout # NoTime => next_timeout \in Jiffy
  BY ListedType DEF IInv, TypeOK, Jiffy, NoTime
<1>2. Ahead(expires) \in Int
  BY <1>1, DistCases DEF Ahead
<1>3. Wait \in Nat
  BY <1>2 DEF Wait
<1>4. Tolerance \in Nat /\ Slack <= Tolerance /\ Tolerance <= HZ
  <2>1. HZ \div 2 \in Nat /\ HZ \div 2 <= HZ /\ Slack <= HZ \div 2
    BY DEF Regular
  <2> QED BY <2>1 DEF Tolerance
<1>5. timer_pending => Ahead(expires) > -Horizon /\ Ahead(expires) < Horizon
  BY <1>1, <1>2 DEF LateInv, ExpiresInv, Horizon
<1>6. ASSUME NEW r \in Listed
      PROVE  /\ r \in Rq /\ deadline[r] \in Jiffy
             /\ Ahead(deadline[r]) \in Int
             /\ Ahead(deadline[r]) > -Horizon
             /\ Ahead(deadline[r]) < Horizon
  <2>1. r \in Rq /\ deadline[r] \in Jiffy
    BY <1>1, <1>6
  <2>2. Ahead(deadline[r]) \in Int
    BY <1>1, <2>1, DistCases DEF Ahead
  <2>3. /\ Ahead(deadline[r]) <= RqTimeout
        /\ Wait - lag - Ahead(deadline[r]) <= HZ + Tolerance
    BY <1>6 DEF LateInv, DeadlineInv
  <2> QED BY <1>1, <1>3, <1>4, <2>1, <2>2, <2>3 DEF Horizon
<1>7. ASSUME next_timeout # NoTime
      PROVE  /\ Ahead(next_timeout) \in Int
             /\ Ahead(next_timeout) > -Horizon
             /\ Ahead(next_timeout) < Horizon
  <2>1. Ahead(next_timeout) \in Int
    BY <1>1, <1>7, DistCases DEF Ahead
  <2>2. Ahead(next_timeout) \in (-lag)..RqTimeout
    BY <1>7 DEF LateInv, PassedInv
  <2> QED BY <1>1, <2>1, <2>2 DEF Horizon
<1> QED BY <1>1, <1>2, <1>3, <1>4, <1>5, <1>6, <1>7

\* A step that leaves the clock and the timer alone, and adds no entry to
\* those that are listed or passed.
LEMMA LateKeep ==
  ASSUME IInv, LateInv, timeout_list' \in Seq(Rq),
         UNCHANGED <<jiffies, lag, timer_pending, expires>>,
         handler' = "idle" <=> handler = "idle",
         Listed' \subseteq Listed, Passed' \subseteq Passed,
         \A x \in Listed' : deadline'[x] = deadline[x],
         next_timeout' # NoTime => /\ next_timeout' = next_timeout
                                   /\ handler' \in {"loop", "out"},
         handler' = "out" /\ next_timeout' = NoTime =>
           \/ Listed' = {}
           \/ handler = "out" /\ next_timeout = NoTime
  PROVE  DeadlineInv' /\ ExpiresInv' /\ PassedInv'
<1>1. Wait' = Wait
  BY DEF Wait, Ahead
<1>2. Tolerance' = Tolerance
  BY DEF Tolerance
<1>3. \A x \in Listed' : Ahead(deadline[x])' = Ahead(deadline[x])
  BY DEF Ahead
<1>4. Passed' \subseteq Listed'
  BY PassedFacts DEF Passed, Listed
<1>5. DeadlineInv'
  BY <1>1, <1>2, <1>3 DEF LateInv, DeadlineInv
<1>6. ExpiresInv'
  BY DEF LateInv, ExpiresInv, Ahead
<1>7. /\ Ahead(expires)' = Ahead(expires)
      /\ next_timeout' # NoTime => Ahead(next_timeout)' = Ahead(next_timeout)
  BY DEF Ahead
<1>8. PassedInv'
  <2>1. \A r \in Passed' : Ahead(deadline[r])' >= -lag'
    BY <1>3, <1>4 DEF LateInv, PassedInv
  <2>2. ASSUME next_timeout' # NoTime
        PROVE  /\ handler' \in {"loop", "out"}
               /\ Ahead(next_timeout)' \in (-lag')..RqTimeout
               /\ \A r \in Passed' : Ahead(next_timeout)' <= Ahead(deadline[r])'
    BY <1>3, <1>4, <1>7, <2>2 DEF LateInv, PassedInv
  <2>3. ASSUME handler' = "out", next_timeout' = NoTime, NEW r \in Listed'
        PROVE  Ahead(expires)' <= Ahead(deadline[r])' + HZ + Tolerance'
    BY <1>2, <1>3, <1>7, <2>3 DEF LateInv, PassedInv
  <2> QED BY <2>1, <2>2, <2>3 DEF PassedInv
<1> QED BY <1>5, <1>6, <1>8

\* The request is put on the list, by blk_start_request() or by RESET_TIMER.
\* In the walk it comes after every entry, and the walk reaches it unless it
\* was the last: then its deadline is later than all the walk has seen.
LEMMA LateAdd ==
  ASSUME Regular, IInv, LateInv, NEW r \in Rq, r \notin Listed,
         blk_add_timer(r), handler # "out",
         UNCHANGED <<jiffies, lag, pos, next_timeout>>,
         handler' = IF handler = "loop" /\ last THEN "out" ELSE handler,
         handler = "loop" => timed_out # NoRq
  PROVE  LateInv'
<1>1. /\ jiffies \in Jiffy /\ Ahead(expires) \in Int
      /\ lag \in 0..MaxLag /\ Wait \in Nat
      /\ Tolerance \in Nat /\ Slack <= Tolerance
      /\ \A x \in Listed : x \in Rq /\ Ahead(deadline[x]) \in Int
      /\ next_timeout # NoTime => Ahead(next_timeout) \in Int
  BY LateTypes
<1>2. /\ timeout' \in [Rq -> {0, RqTimeout}]
      /\ \A x \in Rq \ {r} : deadline'[x] = deadline[x]
      /\ Dist(deadline'[r], jiffies) = RqTimeout
      /\ timer_pending' = TRUE
      /\ Dist(expires', jiffies) \in Int
      /\ Dist(expires', jiffies) <= RqTimeout + HZ + Slack
      /\ \/ 0 <= Dist(expires', jiffies)
         \/ timer_pending /\ expires' = expires
      /\ timer_pending => Dist(expires', jiffies) <= Ahead(expires)
  BY AddTimerDist DEF IInv, LateInv
<1>3. /\ timeout_list \in Seq(Rq) /\ timeout_list' = Append(timeout_list, r)
      /\ timeout_list' \in Seq(Rq)
  BY AppendFacts DEF IInv, TypeOK, blk_add_timer
<1>4. Listed' = Listed \cup {r}
  <2>1. Listed' = Elems(timeout_list')
    BY DEF Listed, Elems
  <2> QED BY <1>3, <2>1, AppendFacts, ListedElems
<1>5. /\ Ahead(expires)' = Dist(expires', jiffies)
      /\ Ahead(next_timeout)' = Ahead(next_timeout)
      /\ Ahead(deadline[r])' = RqTimeout
      /\ \A x \in Listed : Ahead(deadline[x])' = Ahead(deadline[x])
  <2>1. \A x \in Listed : x # r /\ x \in Rq
    BY <1>1
  <2> QED BY <1>2, <2>1 DEF Ahead
<1>6. Tolerance' = Tolerance
  BY DEF Tolerance
<1>7. DeadlineInv'
  <2>1. SUFFICES ASSUME NEW x \in Listed'
                 PROVE  /\ Ahead(deadline[x])' <= RqTimeout
                        /\ Wait' - lag' - Ahead(deadline[x])' <= HZ + Tolerance'
    BY DEF DeadlineInv
  <2>2. /\ Wait' \in Nat /\ Wait' <= RqTimeout + HZ + Slack
        /\ timer_pending \/ handler # "idle" => Wait' <= Wait
    <3>1. handler' = "idle" <=> handler = "idle"
      OBVIOUS
    <3>2. timer_pending => Ahead(expires)' <= Ahead(expires)
      BY <1>2, <1>5
    <3>3. Ahead(expires)' \in Int /\ Ahead(expires)' <= RqTimeout + HZ + Slack
      BY <1>2, <1>5
    <3> QED BY <1>1, <3>1, <3>2, <3>3 DEF Wait
  <2>3. CASE x = r
    BY <1>1, <1>5, <1>6, <2>2, <2>3
  <2>4. CASE x # r
    <3>1. x \in Listed
      BY <1>4, <2>1, <2>4
    <3>2. timer_pending \/ handler # "idle"
      <4>1. timeout_list # <<>>
        BY <3>1 DEF Listed
      <4> QED BY <4>1 DEF IInv, ArmInv, TimerArmed
    <3>3. /\ Ahead(deadline[x]) <= RqTimeout
          /\ Wait - lag - Ahead(deadline[x]) <= HZ + Tolerance
      BY <3>1 DEF LateInv, DeadlineInv
    <3>4. Ahead(deadline[x])' = Ahead(deadline[x]) /\ Ahead(deadline[x]) \in Int
      BY <1>1, <1>5, <3>1
    <3> QED BY <1>1, <1>6, <2>2, <3>2, <3>3, <3>4
  <2> QED BY <2>3, <2>4
<1>8. ExpiresInv'
  <2>1. Ahead(expires)' <= RqTimeout + HZ + Slack
    BY <1>2, <1>5
  <2>2. Ahead(expires)' >= -lag' - (IF handler' = "idle" THEN MaxLag ELSE 0)
    <3>1. handler' = "idle" <=> handler = "idle"
      OBVIOUS
    <3>2. CASE 0 <= Dist(expires', jiffies)
      BY <1>1, <1>2, <1>5, <3>2
    <3>3. CASE timer_pending /\ expires' = expires
      <4>1. Ahead(expires) >= -lag - (IF handler = "idle" THEN MaxLag ELSE 0)
        BY <3>3 DEF LateInv, ExpiresInv
      <4>2. Ahead(expires)' = Ahead(expires)
        BY <1>5, <3>3 DEF Ahead
      <4> QED BY <3>1, <4>1, <4>2
    <3> QED BY <1>2, <3>2, <3>3
  <2> QED BY <2>1, <2>2 DEF ExpiresInv
<1>9. PassedInv'
  <2>1. CASE handler' \in {"idle", "wait"}
    <3>1. handler = handler' /\ next_timeout' = NoTime
      BY <2>1 DEF LateInv, PassedInv
    <3>2. Passed' = {}
      BY <2>1 DEF Passed
    <3> QED BY <2>1, <3>1, <3>2 DEF PassedInv
  <2>2. CASE handler = "loop" /\ ~last
    <3>1. pos \in 1..Len(timeout_list) /\ handler' = "loop"
      BY <2>2 DEF IInv, WalkInv
    <3>2. Passed' = Passed /\ Passed \subseteq Listed
      <4>1. /\ Len(timeout_list) \in Nat /\ Len(timeout_list') = Len(timeout_list) + 1
            /\ DOMAIN timeout_list = 1..Len(timeout_list)
            /\ DOMAIN timeout_list' = 1..(Len(timeout_list) + 1)
            /\ \A k \in 1..Len(timeout_list) : timeout_list'[k] = timeout_list[k]
        BY <1>3, LenProperties
      <4> QED BY <2>2, <3>1, <4>1 DEF Passed, Listed
    <3> QED BY <1>1, <1>5, <2>2, <3>1, <3>2 DEF LateInv, PassedInv
  <2>3. CASE handler = "loop" /\ last
    <3>1. pos = Len(timeout_list) + 1 /\ handler' = "out"
      BY <2>3 DEF IInv, WalkInv
    <3>2. Passed = Listed /\ Passed' = Listed \cup {r}
      BY <1>3, <1>4, <2>3, <3>1, PassedFacts DEF Passed, Listed
    <3>3. \A x \in Passed' : Ahead(deadline[x])' >= -lag'
      BY <1>1, <1>5, <3>2 DEF LateInv, PassedInv
    <3>4. ASSUME next_timeout' # NoTime
          PROVE  /\ Ahead(next_timeout)' \in (-lag')..RqTimeout
                 /\ \A x \in Passed' : Ahead(next_timeout)' <= Ahead(deadline[x])'
      BY <1>1, <1>5, <3>2, <3>4 DEF LateInv, PassedInv
    <3>5. ASSUME next_timeout' = NoTime, NEW x \in Listed'
          PROVE  Ahead(expires)' <= Ahead(deadline[x])' + HZ + Tolerance'
      <4>1. ~(pos > 1) /\ Len(timeout_list) \in Nat
        BY <1>3, <2>3, <3>5, LenProperties DEF IInv, ArmInv
      <4>2. Len(timeout_list) = 0
        BY <3>1, <4>1
      <4>3. Listed = {}
        BY <1>3, <4>2, LenProperties DEF Listed
      <4>4. x = r
        BY <1>4, <3>5, <4>3
      <4> QED BY <1>1, <1>2, <1>5, <1>6, <4>4
    <3> QED BY <3>1, <3>3, <3>4, <3>5 DEF PassedInv
  <2> QED BY <2>1, <2>2, <2>3 DEF IInv, TypeOK
<1> QED BY <1>2, <1>7, <1>8, <1>9 DEF LateInv

\* One entry of the walk: it is removed, or it is not due yet and counts for
\* next_timeout.
LEMMA LateCheck ==
  ASSUME Regular, IInv, LateInv, blk_rq_check_expired
  PROVE  LateInv'
<1>1. handler = "loop" /\ timed_out = NoRq
  BY DEF blk_rq_check_expired
<1>2. /\ timeout_list \in Seq(Rq) /\ Distinct(timeout_list)
      /\ Len(timeout_list) \in Nat /\ DOMAIN timeout_list = 1..Len(timeout_list)
  BY LenProperties DEF IInv, TypeOK, ListInv
<1>3. pos \in 1..Len(timeout_list)
  BY <1>1 DEF IInv, WalkInv
<1>4. PICK n \in Nat : n = Len(timeout_list)
  BY <1>2
<1>5. PICK r \in Rq : r = timeout_list[pos]
  BY <1>2, <1>3, ElementOfSeq
<1>6. r \in Listed
  BY <1>2, <1>3, <1>5 DEF Listed
<1>7. UNCHANGED <<jiffies, lag, timer_pending, expires, timeout>>
  BY DEF blk_rq_check_expired, timerVars
<1>8. pos > 1 => next_timeout # NoTime
  BY <1>1 DEF IInv, ArmInv
<1>9. CASE time_after_eq(jiffies, deadline[r])
  <2>1. /\ timeout_list' = DelAt(timeout_list, pos)
        /\ deadline' = [deadline EXCEPT ![r] = 0]
        /\ handler' \in {"loop", "out"}
        /\ handler' = "out" => pos = n
        /\ UNCHANGED <<pos, next_timeout>>
    BY <1>1, <1>4, <1>5, <1>9 DEF blk_rq_check_expired
  <2>2. /\ timeout_list' \in Seq(Rq) /\ Len(timeout_list') = n - 1
        /\ Listed' = Listed \ {r}
    <3>1. Listed' = Elems(timeout_list')
      BY DEF Listed, Elems
    <3> QED BY <1>2, <1>3, <1>4, <1>5, <2>1, <3>1, DelFacts, ListedElems
  <2>3. /\ DOMAIN timeout_list' = 1..(n - 1)
        /\ \A k \in 1..(n - 1) : k < pos => timeout_list'[k] = timeout_list[k]
    BY <1>2, <1>4, <2>1 DEF DelAt
  <2>4. Passed' \subseteq Passed
    <3>1. SUFFICES ASSUME NEW x \in Passed' PROVE x \in Passed
      OBVIOUS
    <3>2. PICK k \in DOMAIN timeout_list' :
            /\ x = timeout_list'[k]
            /\ \/ handler' = "loop" /\ k < pos'
               \/ handler' = "out"
      BY <3>1 DEF Passed
    <3>3. k \in 1..(n - 1) /\ k < pos
      BY <1>3, <1>4, <2>1, <2>3, <3>2
    <3>4. k \in DOMAIN timeout_list /\ x = timeout_list[k]
      BY <1>2, <1>4, <2>3, <3>2, <3>3
    <3> QED BY <1>1, <3>3, <3>4 DEF Passed
  <2>5. \A x \in Listed' : deadline'[x] = deadline[x]
    BY <2>1, <2>2, ListedType DEF IInv, TypeOK
  <2>6. handler' = "out" /\ next_timeout' = NoTime => Listed' = {}
    <3>1. ASSUME handler' = "out", next_timeout' = NoTime PROVE n - 1 = 0
      BY <1>3, <1>4, <1>8, <2>1, <3>1
    <3>2. n - 1 = 0 => Listed' = {}
      BY <2>3 DEF Listed
    <3> QED BY <3>1, <3>2
  <2>7. DeadlineInv' /\ ExpiresInv' /\ PassedInv'
    BY <1>1, <1>7, <2>1, <2>2, <2>4, <2>5, <2>6, LateKeep
  <2> QED BY <1>7, <2>7 DEF LateInv
<1>10. CASE ~time_after_eq(jiffies, deadline[r])
  <2>1. /\ next_timeout' = NextTimeout(next_timeout, deadline[r])
        /\ pos' = pos + 1
        /\ handler' = IF pos = n THEN "out" ELSE "loop"
        /\ UNCHANGED <<timeout_list, deadline>>
    BY <1>4, <1>5, <1>10 DEF blk_rq_check_expired
  <2>2. /\ jiffies \in Jiffy /\ lag \in 0..MaxLag
        /\ deadline[r] \in Jiffy /\ Ahead(deadline[r]) \in Int
        /\ Ahead(deadline[r]) > -Horizon /\ Ahead(deadline[r]) < Horizon
        /\ Ahead(deadline[r]) <= RqTimeout
        /\ \A x \in Listed : Ahead(deadline[x]) \in Int
        /\ next_timeout # NoTime =>
             /\ next_timeout \in Jiffy /\ Ahead(next_timeout) \in Int
    BY <1>6, LateTypes DEF LateInv, DeadlineInv
  <2>3. Ahead(deadline[r]) > 0
    <3>1. Ahead(jiffies) = 0
      BY <2>2, DistSelf DEF Ahead
    <3>2. /\ Ahead(jiffies) - Ahead(deadline[r]) < Wrap \div 2
          /\ Ahead(deadline[r]) - Ahead(jiffies) < Wrap \div 2
      BY <2>2, <3>1, HalfRange
    <3>3. time_after_eq(jiffies, deadline[r])
            <=> Ahead(jiffies) >= Ahead(deadline[r])
      BY <2>2, <3>2, DistAfter DEF Ahead
    <3> QED BY <1>10, <2>2, <3>1, <3>3
  <2>4. /\ Listed' = Listed /\ Wait' = Wait /\ Tolerance' = Tolerance
        /\ \A t : Dist(t, jiffies') = Dist(t, jiffies)
    BY <1>1, <1>7, <2>1 DEF Listed, Wait, Tolerance
  <2>5. Passed' \subseteq Passed \cup {r} /\ Passed \subseteq Listed
    <3>1. ASSUME NEW x \in Passed' PROVE x \in Passed \cup {r}
      <4>1. PICK k \in DOMAIN timeout_list' :
              /\ x = timeout_list'[k]
              /\ \/ handler' = "loop" /\ k < pos'
                 \/ handler' = "out"
        BY <3>1 DEF Passed
      <4>2. k \in DOMAIN timeout_list /\ x = timeout_list[k] /\ k \in 1..n
        BY <1>2, <1>4, <2>1, <4>1
      <4>3. k < pos \/ k = pos
        BY <1>3, <1>4, <2>1, <4>1, <4>2
      <4> QED BY <1>1, <1>5, <4>2, <4>3 DEF Passed
    <3> QED BY <1>2, <3>1, PassedFacts
  <2>6. DeadlineInv'
    BY <1>7, <2>1, <2>4 DEF LateInv, DeadlineInv, Ahead
  <2>7. ExpiresInv'
    BY <1>1, <1>7, <2>1, <2>4 DEF LateInv, ExpiresInv, Ahead
  <2>8. /\ next_timeout' # NoTime
        /\ Ahead(next_timeout)' \in (-lag)..RqTimeout
        /\ \A x \in Passed \cup {r} : Ahead(next_timeout)' <= Ahead(deadline[x])
    <3>1. CASE next_timeout = NoTime
      <4>1. Passed = {}
        <5>1. pos = 1
          BY <1>3, <1>8, <3>1
        <5> QED BY <1>1, <1>2, <5>1, PassedFacts
      <4>2. next_timeout' = deadline[r] /\ next_timeout' # NoTime
        BY <2>1, <2>2, <3>1 DEF NextTimeout, NoTime, Jiffy
      <4> QED BY <2>2, <2>3, <2>4, <4>1, <4>2 DEF Ahead
    <3>2. CASE next_timeout # NoTime
      <4>1. /\ Ahead(next_timeout) \in (-lag)..RqTimeout
            /\ \A x \in Passed : Ahead(next_timeout) <= Ahead(deadline[x])
        BY <3>2 DEF LateInv, PassedInv
      <4>2. /\ Ahead(next_timeout) - Ahead(deadline[r]) < Wrap \div 2
            /\ Ahead(deadline[r]) - Ahead(next_timeout) < Wrap \div 2
        BY <2>2, <2>3, <3>2, <4>1, HalfRange DEF Horizon
      <4>3. time_after(next_timeout, deadline[r])
              <=> Ahead(next_timeout) > Ahead(deadline[r])
        BY <2>2, <3>2, <4>2, DistAfter DEF Ahead
      <4>4. next_timeout' = IF Ahead(next_timeout) > Ahead(deadline[r])
                            THEN deadline[r] ELSE next_timeout
        BY <2>1, <3>2, <4>3 DEF NextTimeout
      <4>5. CASE Ahead(next_timeout) > Ahead(deadline[r])
        <5>1. /\ next_timeout' = deadline[r] /\ next_timeout' # NoTime
              /\ Ahead(next_timeout)' = Ahead(deadline[r])
          BY <2>2, <2>4, <4>4, <4>5 DEF Ahead, NoTime, Jiffy
        <5>2. \A x \in Passed : Ahead(deadline[x]) \in Int
          BY <2>2, <2>5
        <5> QED BY <2>2, <2>3, <3>2, <4>1, <4>5, <5>1, <5>2
      <4>6. CASE ~(Ahead(next_timeout) > Ahead(deadline[r]))
        <5>1. next_timeout' = next_timeout /\ Ahead(next_timeout)' = Ahead(next_timeout)
          BY <2>4, <4>4, <4>6 DEF Ahead
        <5> QED BY <2>2, <3>2, <4>1, <4>6, <5>1
      <4> QED BY <4>5, <4>6
    <3> QED BY <3>1, <3>2
  <2>9. PassedInv'
    <3>1. \A x \in Passed' : Ahead(deadline[x])' = Ahead(deadline[x])
      BY <2>1, <2>4 DEF Ahead
    <3>2. \A x \in Passed' : Ahead(deadline[x])' >= -lag'
      BY <1>7, <2>2, <2>3, <2>5, <3>1 DEF LateInv, PassedInv
    <3> QED BY <1>7, <2>1, <2>5, <2>8, <3>1, <3>2 DEF PassedInv
  <2> QED BY <1>7, <2>6, <2>7, <2>9 DEF LateInv
<1> QED BY <1>9, <1>10

\* __run_timers() calls the handler: what was left of the timer is spent.
LEMMA LateFires ==
  ASSUME Regular, IInv, LateInv, TimerFires
  PROVE  LateInv'
<1>1. /\ handler = "idle" /\ handler' = "wait" /\ timer_pending' = FALSE
      /\ UNCHANGED <<jiffies, timeout, deadline, timeout_list, pos, next_timeout, lag>>
  BY DEF TimerFires
<1>2. /\ Wait \in Nat /\ lag \in 0..MaxLag /\ Tolerance \in Nat
      /\ \A r \in Listed : Ahead(deadline[r]) \in Int
  BY LateTypes
<1>3. /\ Wait' = 0 /\ Listed' = Listed /\ Passed' = {} /\ Tolerance' = Tolerance
      /\ \A r \in Listed : Ahead(deadline[r])' = Ahead(deadline[r])
  BY <1>1 DEF Wait, Listed, Passed, Tolerance, Ahead
<1>4. DeadlineInv'
  BY <1>1, <1>2, <1>3 DEF LateInv, DeadlineInv
<1>5. PassedInv'
  BY <1>1, <1>3 DEF LateInv, PassedInv
<1> QED BY <1>1, <1>4, <1>5 DEF LateInv, ExpiresInv

\* The end of the handler: the timer is set for the earliest deadline that
\* remains, which may have passed while the handler ran.
LEMMA LateOut ==
  ASSUME Regular, IInv, LateInv, HandlerOut
  PROVE  LateInv'
<1>1. /\ handler = "out" /\ handler' = "idle" /\ next_timeout' = NoTime
      /\ lag' = 0
      /\ UNCHANGED <<jiffies, timeout, deadline, timeout_list>>
  BY DEF HandlerOut
<1>2. /\ jiffies \in Jiffy /\ lag \in 0..MaxLag /\ Ahead(expires) \in Int
      /\ Tolerance \in Nat /\ Slack <= Tolerance
      /\ \A r \in Listed : Ahead(deadline[r]) \in Int
      /\ next_timeout # NoTime => /\ next_timeout \in Jiffy
                                  /\ Ahead(next_timeout) \in Int
  BY LateTypes
<1>3. Passed = Listed
  BY <1>1, PassedFacts DEF IInv, TypeOK
<1>4. /\ Listed' = Listed /\ Passed' = {} /\ Tolerance' = Tolerance
      /\ \A r \in Listed : Ahead(deadline[r])' = Ahead(deadline[r])
      /\ Ahead(expires)' = Dist(expires', jiffies)
  BY <1>1 DEF Listed, Passed, Tolerance, Ahead
<1>5. \A r \in Listed : Ahead(deadline[r]) >= -MaxLag /\ MaxLag <= HZ
  BY <1>2, <1>3 DEF LateInv, PassedInv, Regular
<1>6. /\ Ahead(expires)' \in Int
      /\ \A r \in Listed : Ahead(expires)' <= Ahead(deadline[r]) + HZ + Tolerance
      /\ timer_pending' => /\ Ahead(expires)' <= RqTimeout + HZ + Slack
                           /\ Ahead(expires)' >= -MaxLag
  <2>1. CASE next_timeout = NoTime
    <3>1. /\ timer_pending' = timer_pending /\ expires' = expires
          /\ Ahead(expires)' = Ahead(expires)
      BY <1>1, <2>1 DEF HandlerOut, timerVars, Ahead
    <3>2. \A r \in Listed : Ahead(expires) <= Ahead(deadline[r]) + HZ + Tolerance
      BY <1>1, <2>1 DEF LateInv, PassedInv
    <3>3. timer_pending => /\ Ahead(expires) <= RqTimeout + HZ + Slack
                           /\ Ahead(expires) >= -lag
      BY <1>1, <1>2 DEF LateInv, ExpiresInv
    <3> QED BY <1>2, <3>1, <3>2, <3>3
  <2>2. CASE next_timeout # NoTime
    <3>1. PICK skew \in Skews : mod_timer(round_jiffies_up(next_timeout, skew))
      BY <2>2 DEF HandlerOut
    <3> DEFINE e == round_jiffies_up(next_timeout, skew)
    <3>2. /\ Ahead(next_timeout) \in (-lag)..RqTimeout
          /\ \A r \in Listed : Ahead(next_timeout) <= Ahead(deadline[r])
      BY <1>3, <2>2 DEF LateInv, PassedInv
    <3>3. /\ e \in Jiffy /\ Ahead(next_timeout) <= Ahead(e)
          /\ Ahead(e) <= Ahead(next_timeout) + HZ
      BY <1>2, <2>2, <3>2, RoundDist DEF Horizon
    <3> HIDE DEF e
    <3>4. Ahead(e) \in Int
      BY <1>2, <3>3, DistCases DEF Ahead
    <3>5. /\ Dist(expires', jiffies) \in Int
          /\ Ahead(e) <= Dist(expires', jiffies)
          /\ Dist(expires', jiffies) <= Ahead(e) + Slack
      <4>1. -Horizon <= Ahead(e) /\ Ahead(e) + Slack <= Horizon
        BY <1>2, <2>2, <3>2, <3>3, <3>4 DEF Horizon
      <4> QED BY <1>2, <3>1, <3>3, <4>1, ModTimerDist DEF e
    <3> QED BY <1>2, <1>4, <2>2, <3>2, <3>3, <3>4, <3>5
  <2> QED BY <2>1, <2>2
<1>7. DeadlineInv'
  <2>1. \A r \in Listed : Wait' - Ahead(deadline[r]) <= HZ + Tolerance
    BY <1>1, <1>2, <1>5, <1>6 DEF Wait
  <2>2. Wait' \in Nat
    BY <1>6 DEF Wait
  <2> QED BY <1>1, <1>2, <1>4, <2>1, <2>2 DEF LateInv, DeadlineInv
<1>8. ExpiresInv'
  BY <1>1, <1>6 DEF ExpiresInv
<1>9. PassedInv'
  BY <1>1, <1>4 DEF PassedInv
<1> QED BY <1>1, <1>7, <1>8, <1>9 DEF LateInv

\* When the wait and the deadline both come a jiffy closer, their distance
\* does not grow.
LEMMA OneLess ==
  ASSUME NEW w \in Int, NEW l \in Int, NEW v \in Int, NEW m \in Int,
         NEW d \in Int, NEW h \in Int,
         w - l <= v - m - 1, v - m - d <= h
  PROVE  w - l - (d - 1) <= h
OBVIOUS

\* A jiffy passes: everything comes one nearer, and while the timer is due
\* the jiffy is charged to the latency of the softirq.
LEMMA LateTick ==
  ASSUME Regular, IInv, LateInv, Tick
  PROVE  LateInv'
<1>1. /\ jiffies' = (jiffies + 1) % Wrap
      /\ lag' = IF Expired \/ handler # "idle" THEN lag + 1 ELSE lag
      /\ UNCHANGED <<timeout, deadline, timeout_list, timer_pending, expires,
                     handler, pos, next_timeout>>
  BY DEF Tick, timerVars, handlerVars
<1>2. /\ jiffies \in Jiffy /\ expires \in Jiffy /\ Ahead(expires) \in Int
      /\ lag \in 0..MaxLag /\ Wait \in Nat /\ Tolerance \in Nat
      /\ timer_pending => /\ Ahead(expires) > -Horizon
                          /\ Ahead(expires) < Horizon
      /\ \A r \in Listed : /\ deadline[r] \in Jiffy
                           /\ Ahead(deadline[r]) \in Int
                           /\ Ahead(deadline[r]) > -Horizon
                           /\ Ahead(deadline[r]) < Horizon
      /\ next_timeout # NoTime =>
           /\ next_timeout \in Jiffy /\ Ahead(next_timeout) \in Int
           /\ Ahead(next_timeout) > -Horizon
           /\ Ahead(next_timeout) < Horizon
  BY LateTypes
<1>3. ASSUME NEW t \in Jiffy, Dist(t, jiffies) > -Horizon,
             Dist(t, jiffies) < Horizon
      PROVE  Dist(t, jiffies') = Dist(t, jiffies) - 1
  <2>1. Dist(t, jiffies) \in Int
    BY <1>2, DistCases
  <2>2. 1 - (Wrap \div 2) < Dist(t, jiffies) /\ Dist(t, jiffies) < Wrap \div 2
    BY <1>3, <2>1, HalfRange
  <2> QED BY <1>1, <1>2, <2>2, DistTick
<1>4. timer_pending => Ahead(expires)' = Ahead(expires) - 1
  BY <1>1, <1>2, <1>3 DEF Ahead
<1>5. \A r \in Listed : Ahead(deadline[r])' = Ahead(deadline[r]) - 1
  BY <1>1, <1>2, <1>3 DEF Ahead
<1>6. next_timeout # NoTime => Ahead(next_timeout)' = Ahead(next_timeout) - 1
  BY <1>1, <1>2, <1>3 DEF Ahead
<1>7. Listed' = Listed /\ Passed' = Passed /\ Tolerance' = Tolerance
  BY <1>1 DEF Listed, Passed, Tolerance
<1>8. Expired <=> timer_pending /\ Ahead(expires) <= 0
  <2>1. ASSUME timer_pending
        PROVE  time_after_eq(jiffies, expires) <=> Ahead(expires) <= 0
    <3>1. Ahead(jiffies) = 0
      BY <1>2, DistSelf DEF Ahead
    <3>2. /\ Ahead(jiffies) - Ahead(expires) < Wrap \div 2
          /\ Ahead(expires) - Ahead(jiffies) < Wrap \div 2
      BY <1>2, <2>1, <3>1, HalfRange
    <3>3. time_after_eq(jiffies, expires) <=> Ahead(jiffies) >= Ahead(expires)
      BY <1>2, <3>2, DistAfter DEF Ahead
    <3> QED BY <1>2, <3>1, <3>3
  <2> QED BY <2>1 DEF Expired
<1>9. DeadlineInv'
  <2>1. SUFFICES ASSUME NEW r \in Listed
                 PROVE  /\ Ahead(deadline[r])' <= RqTimeout
                        /\ Wait' - lag' - Ahead(deadline[r])' <= HZ + Tolerance'
    BY <1>7 DEF DeadlineInv
  <2>2. /\ Ahead(deadline[r]) <= RqTimeout
        /\ Wait - lag - Ahead(deadline[r]) <= HZ + Tolerance
    BY <2>1 DEF LateInv, DeadlineInv
  <2>3. timer_pending \/ handler # "idle"
    <3>1. timeout_list # <<>>
      BY <2>1 DEF Listed
    <3> QED BY <3>1 DEF IInv, ArmInv, TimerArmed
  <2>4. Wait' - lag' <= Wait - lag - 1 /\ Wait' \in Nat /\ lag' \in Nat
    <3>1. CASE handler # "idle"
      BY <1>1, <1>2, <3>1 DEF Wait
    <3>2. CASE handler = "idle" /\ Ahead(expires) > 0
      BY <1>1, <1>2, <1>4, <1>8, <2>3, <3>2 DEF Wait
    <3>3. CASE handler = "idle" /\ ~(Ahead(expires) > 0)
      BY <1>1, <1>2, <1>4, <1>8, <2>3, <3>3 DEF Wait
    <3> QED BY <3>1, <3>2, <3>3
  <2>5. Ahead(deadline[r])' = Ahead(deadline[r]) - 1 /\ Ahead(deadline[r]) \in Int
    BY <1>2, <1>5, <2>1
  <2>6. Ahead(deadline[r])' <= RqTimeout
    BY <2>2, <2>5
  <2>7. Wait' - lag' - Ahead(deadline[r])' <= HZ + Tolerance
    <3>1. /\ Wait \in Int /\ lag \in Int /\ HZ + Tolerance \in Int
          /\ Wait' \in Int /\ lag' \in Int
      BY <1>2, <2>4
    <3>2. Wait' - lag' - (Ahead(deadline[r]) - 1) <= HZ + Tolerance
      BY <2>2, <2>4, <2>5, <3>1, OneLess
    <3> QED BY <2>5, <3>2
  <2> QED BY <1>7, <2>6, <2>7
<1>10. ExpiresInv'
  <2>1. SUFFICES ASSUME timer_pending
        PROVE  /\ Ahead(expires)' <= RqTimeout + HZ + Slack
               /\ Ahead(expires)' >= -lag' - (IF handler = "idle" THEN MaxLag ELSE 0)
    BY <1>1 DEF ExpiresInv
  <2>2. /\ Ahead(expires) <= RqTimeout + HZ + Slack
        /\ Ahead(expires) >= -lag - (IF handler = "idle" THEN MaxLag ELSE 0)
    BY <2>1 DEF LateInv, ExpiresInv
  <2>3. CASE Expired \/ handler # "idle"
    BY <1>1, <1>2, <1>4, <2>1, <2>2, <2>3
  <2>4. CASE ~(Expired \/ handler # "idle")
    BY <1>1, <1>2, <1>4, <1>8, <2>1, <2>2, <2>4
  <2> QED BY <2>3, <2>4
<1>11. PassedInv'
  <2>1. handler \in {"loop", "out"} => lag' = lag + 1
    BY <1>1
  <2>2. Passed \subseteq Listed /\ (Passed # {} => handler \in {"loop", "out"})
    BY DEF Passed, Listed
  <2>3. \A r \in Passed' : Ahead(deadline[r])' >= -lag'
    BY <1>2, <1>5, <1>7, <2>1, <2>2 DEF LateInv, PassedInv
  <2>4. ASSUME next_timeout' # NoTime
        PROVE  /\ handler' \in {"loop", "out"}
               /\ Ahead(next_timeout)' \in (-lag')..RqTimeout
               /\ \A r \in Passed' : Ahead(next_timeout)' <= Ahead(deadline[r])'
    <3>1. /\ next_timeout # NoTime /\ handler' = handler
          /\ handler \in {"loop", "out"}
          /\ Ahead(next_timeout) \in (-lag)..RqTimeout
          /\ \A r \in Passed : Ahead(next_timeout) <= Ahead(deadline[r])
      BY <1>1, <2>4 DEF LateInv, PassedInv
    <3> QED BY <1>2, <1>5, <1>6, <1>7, <2>1, <2>2, <3>1
  <2>5. ASSUME handler' = "out", next_timeout' = NoTime, NEW r \in Listed'
        PROVE  Ahead(expires)' <= Ahead(deadline[r])' + HZ + Tolerance'
    <3>1. handler = "out" /\ next_timeout = NoTime /\ r \in Listed
      BY <1>1, <1>7, <2>5
    <3>2. Ahead(expires) <= Ahead(deadline[r]) + HZ + Tolerance
      BY <3>1 DEF LateInv, PassedInv
    <3>3. timer_pending
      <4>1. timeout_list # <<>>
        BY <3>1 DEF Listed
      <4> QED BY <3>1, <4>1 DEF IInv, ArmInv
    <3> QED BY <1>2, <1>4, <1>5, <1>7, <3>1, <3>2, <3>3
  <2> QED BY <2>3, <2>4, <2>5 DEF PassedInv
<1> QED BY <1>1, <1>9, <1>10, <1>11 DEF LateInv

\* The answer of rq_timed_out_fn.
LEMMA LateTimedOut ==
  ASSUME Regular, IInv, LateInv, TimedOut
  PROVE  LateInv'
<1>1. PICK ret \in {"HANDLED", "RESET_TIMER", "NOT_HANDLED"} : blk_rq_timed_out(ret)
  BY DEF TimedOut
<1>2. PICK r \in Rq : r = timed_out
  BY <1>1 DEF blk_rq_timed_out, IInv, TypeOK
<1>3. /\ timed_out # NoRq
      /\ handler' = IF handler = "loop" /\ last THEN "out" ELSE handler
      /\ UNCHANGED <<jiffies, lag, pos, next_timeout>>
  BY <1>1 DEF blk_rq_timed_out
<1>4. handler # "out" /\ r \notin Listed
  BY <1>2, <1>3 DEF IInv, WalkInv, BugFree
<1>5. CASE blk_add_timer(timed_out)
  BY <1>2, <1>3, <1>4, <1>5, LateAdd
<1>6. CASE UNCHANGED <<timeout, deadline, timeout_list, timerVars>>
  <2>1. UNCHANGED <<timeout, deadline, timeout_list, timer_pending, expires>>
    BY <1>6 DEF timerVars
  <2>2. /\ timeout_list \in Seq(Rq) /\ timeout_list' \in Seq(Rq)
        /\ Len(timeout_list) \in Nat /\ DOMAIN timeout_list = 1..Len(timeout_list)
    BY <2>1, LenProperties DEF IInv, TypeOK
  <2>3. Listed' = Listed
    BY <2>1 DEF Listed
  <2>4. handler = "loop" /\ last => pos = Len(timeout_list) + 1
    BY <1>3 DEF IInv, WalkInv
  <2>5. Passed' \subseteq Passed
    <3>1. CASE handler = "loop" /\ last
      <4>1. Passed = Listed
        BY <2>2, <2>4, <3>1, PassedFacts
      <4> QED BY <2>3, <4>1 DEF Passed, Listed
    <3>2. CASE ~(handler = "loop" /\ last)
      BY <1>3, <2>1, <3>2 DEF Passed
    <3> QED BY <3>1, <3>2
  <2>6. handler' = "out" /\ next_timeout' = NoTime => Listed' = {}
    <3>1. ASSUME handler' = "out", next_timeout' = NoTime PROVE Listed' = {}
      <4>1. handler = "loop" /\ last /\ next_timeout = NoTime
        BY <1>3, <1>4, <3>1
      <4>2. pos = Len(timeout_list) + 1 /\ ~(pos > 1)
        BY <2>4, <4>1 DEF IInv, ArmInv
      <4>3. Len(timeout_list) = 0
        BY <2>2, <4>2
      <4> QED BY <2>2, <2>3, <4>3 DEF Listed
    <3> QED BY <3>1
  <2>7. next_timeout' # NoTime => handler' \in {"loop", "out"}
    BY <1>3 DEF LateInv, PassedInv
  <2>8. DeadlineInv' /\ ExpiresInv' /\ PassedInv'
    BY <1>3, <2>1, <2>2, <2>3, <2>5, <2>6, <2>7, LateKeep
  <2> QED BY <2>1, <2>8 DEF LateInv
<1> QED BY <1>1, <1>5, <1>6 DEF blk_rq_timed_out

\* Steps under the queue lock, or none, that only take requests off the list.
LEMMA LateQuiet ==
  ASSUME Regular, IInv, LateInv, TypeOK',
         timeout' \in [Rq -> {0, RqTimeout}],
         UNCHANGED <<jiffies, lag, timer_pending, expires, handler, pos,
                     next_timeout>>,
         \/ UNCHANGED <<timeout_list, deadline>>
         \/ /\ handler \in {"idle", "wait"} /\ Listed' \subseteq Listed
            /\ \A x \in Listed' : deadline'[x] = deadline[x]
  PROVE  LateInv'
<1>1. Listed' \subseteq Listed /\ \A x \in Listed' : deadline'[x] = deadline[x]
  BY DEF Listed
<1>2. Passed' \subseteq Passed
  BY DEF Passed
<1>3. timeout_list' \in Seq(Rq)
  BY DEF TypeOK
<1>4. next_timeout' # NoTime => handler' \in {"loop", "out"}
  BY DEF LateInv, PassedInv
<1>5. DeadlineInv' /\ ExpiresInv' /\ PassedInv'
  BY <1>1, <1>2, <1>3, <1>4, LateKeep
<1> QED BY <1>5 DEF LateInv

\* Every step keeps the timer in time.
LEMMA LateStep ==
  ASSUME Regular, IInv, LateInv, [Next]_vars
  PROVE  LateInv'
<1>1. IInv' /\ TypeOK'
  BY InvStep DEF IInv
<1>2. timeout \in [Rq -> {0, RqTimeout}]
  BY DEF LateInv
<1>3. ASSUME NEW r \in Rq, NEW t \in Timeouts, Prepare(r, t) PROVE LateInv'
  <2>1. timeout' \in [Rq -> {0, RqTimeout}]
    BY <1>2, <1>3 DEF Prepare, Regular
  <2> QED BY <1>1, <1>3, <2>1, LateQuiet DEF Prepare, timerVars, handlerVars
<1>4. ASSUME NEW r \in Rq, blk_start_request(r) PROVE LateInv'
  <2>1. r \notin Listed
    BY <1>4 DEF blk_start_request, IInv, BugFree
  <2> QED BY <1>4, <2>1, LateAdd DEF blk_start_request, handlerVars, LockFree
<1>5. ASSUME NEW r \in Rq, blk_complete_request(r) \/ Lose(r) PROVE LateInv'
  BY <1>1, <1>2, <1>5, LateQuiet
     DEF blk_complete_request, Lose, timerVars, handlerVars
<1>6. ASSUME NEW r \in Rq, blk_finish_request(r) \/ blk_requeue_request(r)
      PROVE  LateInv'
  <2>1. Claim(r)
    BY <1>6 DEF blk_finish_request, blk_requeue_request
  <2>2. timeout' \in [Rq -> {0, RqTimeout}]
    BY <1>2, <1>6 DEF blk_finish_request, blk_requeue_request
  <2>3. Listed' = Listed \ {r}
    BY <2>1, ClaimFacts
  <2>4. \A x \in Listed' : deadline'[x] = deadline[x]
    BY <2>1, <2>3, ListedType DEF Claim, IInv, TypeOK
  <2>5. /\ handler \in {"idle", "wait"}
        /\ UNCHANGED <<jiffies, lag, timer_pending, expires, handler, pos,
                       next_timeout>>
    BY <2>1 DEF Claim, LockFree, timerVars, handlerVars
  <2> QED BY <1>1, <2>2, <2>3, <2>4, <2>5, LateQuiet
<1>7. ASSUME NEW r \in Rq, blk_abort_request(r) PROVE LateInv'
  <2>1. Listed' = Listed \ {r}
    <3>1. Elems(timeout_list') = Listed \ {r}
      BY <1>7, DeleteTimerFacts DEF blk_abort_request, IInv, TypeOK, ListInv
    <3> QED BY <3>1 DEF Listed, Elems
  <2>2. \A x \in Listed' : deadline'[x] = deadline[x]
    BY <1>7, <2>1, ListedType DEF blk_abort_request, IInv, TypeOK
  <2>3. /\ handler \in {"idle", "wait"} /\ timeout' = timeout
        /\ UNCHANGED <<jiffies, lag, timer_pending, expires, handler, pos,
                       next_timeout>>
    BY <1>7 DEF blk_abort_request, LockFree, timerVars, handlerVars
  <2> QED BY <1>1, <1>2, <2>1, <2>2, <2>3, LateQuiet
<1>8. CASE blk_rq_timed_out_timer
  <2>1. /\ handler = "wait" /\ pos' = 1 /\ next_timeout' = NoTime
        /\ handler' = IF timeout_list = <<>> THEN "out" ELSE "loop"
        /\ UNCHANGED <<jiffies, lag, timer_pending, expires, timeout, deadline,
                       timeout_list>>
    BY <1>8 DEF blk_rq_timed_out_timer, timerVars
  <2>2. /\ timeout_list' \in Seq(Rq) /\ Listed' = Listed
        /\ timeout_list = <<>> => Listed = {}
    BY <1>1, <2>1 DEF TypeOK, Listed
  <2>3. Passed' = {}
    <3>1. Len(timeout_list') \in Nat /\ DOMAIN timeout_list' = 1..Len(timeout_list')
      BY <2>2, LenProperties
    <3>2. CASE timeout_list = <<>>
      BY <2>1, <2>2, <3>2 DEF Passed, Listed
    <3>3. CASE timeout_list # <<>>
      BY <2>1, <3>1, <3>3 DEF Passed
    <3> QED BY <3>2, <3>3
  <2>4. /\ handler' = "idle" <=> handler = "idle"
        /\ Listed' \subseteq Listed /\ Passed' \subseteq Passed
        /\ \A x \in Listed' : deadline'[x] = deadline[x]
        /\ next_timeout' # NoTime => /\ next_timeout' = next_timeout
                                     /\ handler' \in {"loop", "out"}
        /\ handler' = "out" /\ next_timeout' = NoTime =>
             \/ Listed' = {}
             \/ handler = "out" /\ next_timeout = NoTime
        /\ timeout_list' \in Seq(Rq)
        /\ UNCHANGED <<jiffies, lag, timer_pending, expires>>
    BY <2>1, <2>2, <2>3
  <2>5. DeadlineInv' /\ ExpiresInv' /\ PassedInv'
    BY <2>4, LateKeep
  <2> QED BY <1>2, <2>1, <2>5 DEF LateInv
<1>9. CASE UNCHANGED vars
  BY <1>1, <1>2, <1>9, LateQuiet DEF vars
<1> QED BY <1>3, <1>4, <1>5, <1>6, <1>7, <1>8, <1>9, LateTick, LateFires,
           LateCheck, LateTimedOut, LateOut DEF Next

\* The list is empty and the timer idle at first.
LEMMA LateInit == Init => LateInv
BY DEF Init, LateInv, DeadlineInv, ExpiresInv, PassedInv, Listed, Passed

\* LateInv bounds what TimerNotLate measures.
LEMMA LateBound == Regular /\ IInv /\ LateInv => TimerNotLate
<1> SUFFICES ASSUME Regular, IInv, LateInv, NEW r \in Listed
             PROVE  Overdue(r) <= HZ + Tolerance + MaxLag
  BY DEF TimerNotLate
<1>1. /\ jiffies \in Jiffy /\ lag \in 0..MaxLag /\ Wait \in Nat
      /\ Tolerance \in Nat
      /\ deadline[r] \in Jiffy /\ Ahead(deadline[r]) \in Int
      /\ Ahead(deadline[r]) > -Horizon /\ Ahead(deadline[r]) < Horizon
  BY LateTypes
<1>2. Wait - lag - Ahead(deadline[r]) <= HZ + Tolerance
  BY DEF LateInv, DeadlineInv
<1>3. Ahead(jiffies) = 0
  BY <1>1, DistSelf DEF Ahead
<1>4. /\ Ahead(jiffies) - Ahead(deadline[r]) < Wrap \div 2
      /\ Ahead(deadline[r]) - Ahead(jiffies) < Wrap \div 2
  BY <1>1, <1>3, HalfRange
<1>5. /\ time_after_eq(jiffies, deadline[r]) <=> 0 >= Ahead(deadline[r])
      /\ 0 >= Ahead(deadline[r])
           => (jiffies - deadline[r]) % Wrap = 0 - Ahead(deadline[r])
  BY <1>1, <1>3, <1>4, DistAfter DEF Ahead
<1>6. Overdue(r) = IF 0 >= Ahead(deadline[r]) THEN -Ahead(deadline[r]) ELSE 0
  BY <1>1, <1>5 DEF Overdue
<1> QED BY <1>1, <1>2, <1>6

\* With one timeout for all requests the timer is never later than rounding,
\* slack and softirq latency add up to, for any number of requests, any skew
\* between cpus and across every wrap of jiffies.
THEOREM TimerKeepsTime == ASSUME Regular PROVE Spec => []TimerNotLate
<1>1. IInv /\ LateInv /\ [Next]_vars => LateInv'
  BY LateStep
<1>2. IInv /\ LateInv => TimerNotLate
  BY LateBound
<1> QED BY <1>1, <1>2, LateInit, InvInit, InvStep, PTL DEF Spec

=============================================================================
