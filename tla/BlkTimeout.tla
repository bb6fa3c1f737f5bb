----------------------------- MODULE BlkTimeout -----------------------------
(***************************************************************************)
(* Request timeouts of the single-queue block layer (block/blk-timeout.c)  *)
(* against the completion path (block/blk-softirq.c) and the driver's      *)
(* calls that start, finish and requeue requests (block/blk-core.c).       *)
(*                                                                         *)
(* One timer serves all the requests on q->timeout_list.  Its handler      *)
(* walks the list under q->queue_lock, while an interrupt completes        *)
(* requests without that lock: the two meet at REQ_ATOM_COMPLETE only.     *)
(* The walk is therefore a sequence of actions; what else needs the lock   *)
(* waits for it (LockFree), what does not need it interleaves.             *)
(*                                                                         *)
(* jiffies is an unsigned counter that wraps at Wrap, compared as          *)
(* include/linux/jiffies.h compares it.  The hardware, the driver's        *)
(* rq_timed_out_fn and its error handler are external.                     *)
(***************************************************************************)
EXTENDS Integers, Sequences

CONSTANTS
  Rq,               \* struct request
  NoRq,
  HZ,               \* jiffies per second
  BLK_MAX_TIMEOUT,  \* bound on how far ahead the timer is set
  RqTimeout,        \* q->rq_timeout
  Timeouts,         \* the req->timeout values drivers set, 0 for none
  Skews,            \* cpu * 3, the shift of round_jiffies_common()
  Slack,            \* most that apply_slack() adds to an expiry
  Wrap,             \* jiffies counts modulo Wrap
  MaxLag            \* jiffies that may pass from expiry to handler's end

NoTime == -1

ASSUME TimeoutAssumption ==
  /\ NoRq \notin Rq
  /\ HZ \in Nat \ {0}
  /\ BLK_MAX_TIMEOUT \in Nat
  /\ RqTimeout \in Nat \ {0}
  /\ Timeouts \subseteq Nat
  /\ Skews \subseteq Nat /\ Skews # {}
  /\ Slack \in Nat
  /\ Wrap \in Nat \ {0}
  /\ MaxLag \in Nat

VARIABLES
  jiffies,
  state,           \* "free", "queued" (ready to start) or "started"
  timeout,         \* req->timeout
  deadline,        \* req->deadline of the requests on timeout_list
  timeout_list,    \* q->timeout_list
  timer_pending,   \* q->timeout is armed ...
  expires,         \* ... for this jiffy
  complete,        \* requests with REQ_ATOM_COMPLETE
  hw,              \* requests the hardware works on
  done,            \* how often a request is queued for softirq_done_fn
  recovery,        \* requests the driver's error handler owns
  handler,         \* where blk_rq_timed_out_timer() is
  pos,             \* its place in the list,
  last,            \* whether that was the last entry,
  next_timeout,    \* and next_timeout, NoTime while next_set is 0
  timed_out,       \* the request rq_timed_out_fn is running for
  lag              \* jiffies since the timer should have run

timerVars   == <<timer_pending, expires>>
handlerVars == <<handler, pos, last, next_timeout>>
vars == <<jiffies, state, timeout, deadline, timeout_list, timer_pending,
          expires, complete, hw, done, recovery, handler, pos, last,
          next_timeout, timed_out, lag>>

-----------------------------------------------------------------------------
(* jiffies arithmetic: include/linux/jiffies.h and kernel/time/timer.c *)

time_after(a, b)    == (a - b) % Wrap \in 1..(Wrap \div 2)
time_before(a, b)   == time_after(b, a)
time_after_eq(a, b) == (a - b) % Wrap < Wrap \div 2

round_jiffies_up(j, skew) ==
  LET up == (j + skew) % Wrap
      k  == (up - (up % HZ) + HZ - skew) % Wrap
  IN  IF time_after(k, jiffies) THEN k ELSE j

blk_rq_timeout(t, skew) ==
  LET maxt == round_jiffies_up((jiffies + BLK_MAX_TIMEOUT) % Wrap, skew)
  IN  IF time_after(t, maxt) THEN maxt ELSE t

\* Mutation: the sum is not reduced to the width of jiffies.
ModTimerWide(e) == /\ timer_pending' = TRUE
                   /\ \E s \in 0..Slack : expires' = e + s

\* mod_timer(): the timer core may add some slack.
mod_timer(e) == /\ timer_pending' = TRUE
                /\ \E s \in 0..Slack : expires' = (e + s) % Wrap

-----------------------------------------------------------------------------
\* queue_lock is free: neither the handler's walk nor an abort is under way.
LockFree == handler \in {"idle", "wait"} /\ timed_out = NoRq

Listed == {timeout_list[i] : i \in DOMAIN timeout_list}

\* list_del_init() of entry i, and of a request that may not be listed.
DelAt(s, i) == [j \in 1..(Len(s) - 1) |-> IF j < i THEN s[j] ELSE s[j + 1]]
blk_delete_timer(r) ==
  IF r \in Listed
  THEN DelAt(timeout_list, CHOOSE i \in DOMAIN timeout_list :
                             timeout_list[i] = r)
  ELSE timeout_list

\* Mutation: the timer is set, but the request is not put on the list.
AddTimerUnlisted(r) ==
  LET t == IF timeout[r] = 0 THEN RqTimeout ELSE timeout[r]
      d == (jiffies + t) % Wrap
  IN  /\ timeout' = [timeout EXCEPT ![r] = t]
      /\ deadline' = [deadline EXCEPT ![r] = d]
      /\ timeout_list' = timeout_list
      /\ \E skew \in Skews : mod_timer(round_jiffies_up(d, skew))

\* blk_add_timer(): the request joins the list, and the timer is set if it
\* is not pending or if it would expire half a second too late.
blk_add_timer(r) ==
  LET t == IF timeout[r] = 0 THEN RqTimeout ELSE timeout[r]
      d == (jiffies + t) % Wrap
  IN  /\ timeout' = [timeout EXCEPT ![r] = t]
      /\ deadline' = [deadline EXCEPT ![r] = d]
      /\ timeout_list' = Append(timeout_list, r)
      /\ \E skew \in Skews :
           LET e == blk_rq_timeout(round_jiffies_up(d, skew), skew)
           IN  IF \/ ~timer_pending
                  \/ /\ time_before(e, expires)
                     /\ (expires - e) % Wrap >= HZ \div 2
               THEN mod_timer(e) ELSE UNCHANGED timerVars

-----------------------------------------------------------------------------
Init ==
  /\ jiffies = 0
  /\ state = [r \in Rq |-> "free"]
  /\ timeout = [r \in Rq |-> 0]
  /\ deadline = [r \in Rq |-> 0]
  /\ timeout_list = <<>>
  /\ timer_pending = FALSE
  /\ expires = 0
  /\ complete = {}
  /\ hw = {}
  /\ done = [r \in Rq |-> 0]
  /\ recovery = {}
  /\ handler = "idle"
  /\ pos = 0
  /\ last = FALSE
  /\ next_timeout = NoTime
  /\ timed_out = NoRq
  /\ lag = 0

\* blk_rq_init() of a free request; the driver may choose its timeout.
Prepare(r, t) ==
  /\ LockFree
  /\ state[r] = "free"
  /\ state' = [state EXCEPT ![r] = "queued"]
  /\ timeout' = [timeout EXCEPT ![r] = t]
  /\ complete' = complete \ {r}
  /\ UNCHANGED <<jiffies, deadline, timeout_list, timerVars, hw, done,
                 recovery, handlerVars, timed_out, lag>>

\* blk_start_request(), and the driver gives the command to the hardware.
blk_start_request(r) ==
  /\ LockFree
  /\ state[r] = "queued"
  /\ state' = [state EXCEPT ![r] = "started"]
  /\ hw' = hw \cup {r}
  /\ blk_add_timer(r)
  /\ UNCHANGED <<jiffies, complete, done, recovery, handlerVars, timed_out,
                 lag>>

\* Mutation: the interrupt does not test REQ_ATOM_COMPLETE.
CompleteUntested(r) ==
  /\ r \in hw
  /\ hw' = hw \ {r}
  /\ complete' = complete \cup {r}
  /\ done' = [done EXCEPT ![r] = @ + 1]
  /\ UNCHANGED <<jiffies, state, timeout, deadline, timeout_list, timerVars,
                 recovery, handlerVars, timed_out, lag>>

\* The hardware is done with the command and interrupts: blk_complete_request()
\* grabs the request unless somebody already has, without the queue lock.
blk_complete_request(r) ==
  /\ r \in hw
  /\ hw' = hw \ {r}
  /\ complete' = complete \cup {r}
  /\ done' = IF r \in complete THEN done ELSE [done EXCEPT ![r] = @ + 1]
  /\ UNCHANGED <<jiffies, state, timeout, deadline, timeout_list, timerVars,
                 recovery, handlerVars, timed_out, lag>>

\* The command is lost: blk_should_fake_timeout(), or the hardware hangs and
\* forgets it.
Lose(r) ==
  /\ r \in hw
  /\ hw' = hw \ {r}
  /\ UNCHANGED <<jiffies, state, timeout, deadline, timeout_list, timerVars,
                 complete, done, recovery, handlerVars, timed_out, lag>>

\* softirq_done_fn, or the error handler once the hardware has let go of the
\* command, or the driver that could not queue it and that nobody forestalls,
\* takes the request over ...
Claim(r) ==
  /\ LockFree
  /\ \/ /\ done[r] > 0
        /\ done' = [done EXCEPT ![r] = @ - 1]
        /\ UNCHANGED <<hw, recovery>>
     \/ /\ r \in recovery
        /\ recovery' = recovery \ {r}
        /\ hw' = hw \ {r}
        /\ UNCHANGED done
     \/ /\ state[r] = "started" /\ r \notin complete
        /\ hw' = hw \ {r}
        /\ UNCHANGED <<done, recovery>>
  /\ timeout_list' = blk_delete_timer(r)
  /\ deadline' = [deadline EXCEPT ![r] = 0]
  /\ UNCHANGED <<jiffies, timerVars, handlerVars, timed_out, lag>>

\* ... and ends it,
blk_finish_request(r) ==
  /\ Claim(r)
  /\ state' = [state EXCEPT ![r] = "free"]
  /\ timeout' = [timeout EXCEPT ![r] = 0]
  /\ UNCHANGED complete

\* Mutation: the requeued request stays marked complete.
RequeueMarked(r) ==
  /\ Claim(r)
  /\ state' = [state EXCEPT ![r] = "queued"]
  /\ UNCHANGED <<complete, timeout>>

\* ... or puts it back on the dispatch queue to be started again.
blk_requeue_request(r) ==
  /\ Claim(r)
  /\ state' = [state EXCEPT ![r] = "queued"]
  /\ complete' = complete \ {r}
  /\ UNCHANGED timeout

\* blk_abort_request(): the driver asks for recovery of a command.
blk_abort_request(r) ==
  /\ LockFree
  /\ state[r] = "started" /\ r \notin complete
  /\ complete' = complete \cup {r}
  /\ timeout_list' = blk_delete_timer(r)
  /\ deadline' = [deadline EXCEPT ![r] = 0]
  /\ timed_out' = r
  /\ UNCHANGED <<jiffies, state, timeout, timerVars, hw, done, recovery,
                 handlerVars, lag>>

-----------------------------------------------------------------------------
(* The timer *)

Expired == timer_pending /\ time_after_eq(jiffies, expires)

\* Time passes.  The timer softirq is at most MaxLag late.
Tick ==
  /\ LET due == Expired \/ handler # "idle"
     IN  /\ due => lag < MaxLag
         /\ lag' = IF due THEN lag + 1 ELSE lag
  /\ jiffies' = (jiffies + 1) % Wrap
  /\ UNCHANGED <<state, timeout, deadline, timeout_list, timerVars, complete,
                 hw, done, recovery, handlerVars, timed_out>>

\* __run_timers() detaches the timer and calls blk_rq_timed_out_timer(),
\* which waits for the queue lock.  The handler does not run twice at once.
TimerFires ==
  /\ Expired
  /\ handler = "idle"
  /\ handler' = "wait"
  /\ timer_pending' = FALSE
  /\ expires' = 0
  /\ UNCHANGED <<jiffies, state, timeout, deadline, timeout_list, complete,
                 hw, done, recovery, pos, last, next_timeout, timed_out, lag>>

blk_rq_timed_out_timer ==
  /\ handler = "wait" /\ LockFree
  /\ handler' = IF timeout_list = <<>> THEN "out" ELSE "loop"
  /\ pos' = 1
  /\ last' = FALSE
  /\ next_timeout' = NoTime
  /\ UNCHANGED <<jiffies, state, timeout, deadline, timeout_list, timerVars,
                 complete, hw, done, recovery, timed_out, lag>>

\* Mutation: the latest deadline instead of the earliest.
LatestTimeout(next, d) ==
  IF next = NoTime \/ time_after(d, next) THEN d ELSE next

\* The earliest deadline seen so far.
NextTimeout(next, d) ==
  IF next = NoTime \/ time_after(next, d) THEN d ELSE next

\* Mutation: the walk does not get past an entry that has not expired.
CheckStuck ==
  LET r == timeout_list[pos]
  IN  /\ handler = "loop" /\ timed_out = NoRq
      /\ time_after_eq(jiffies, deadline[r])
      /\ timeout_list' = DelAt(timeout_list, pos)
      /\ deadline' = [deadline EXCEPT ![r] = 0]
      /\ complete' = complete \cup {r}
      /\ timed_out' = IF r \in complete THEN NoRq ELSE r
      /\ last' = (pos = Len(timeout_list))
      /\ handler' = IF timed_out' = NoRq /\ last' THEN "out" ELSE "loop"
      /\ UNCHANGED <<pos, next_timeout, jiffies, state, timeout, timerVars, hw,
                     done, recovery, lag>>

\* blk_rq_check_expired() of the entry the walk has reached.  The entry after
\* it was read before: if there was none the walk ends, whatever the body
\* appends to the list.
blk_rq_check_expired ==
  LET r   == timeout_list[pos]
      end == pos = Len(timeout_list)
  IN  /\ handler = "loop" /\ timed_out = NoRq
      /\ \/ /\ time_after_eq(jiffies, deadline[r])
            /\ timeout_list' = DelAt(timeout_list, pos)
            /\ deadline' = [deadline EXCEPT ![r] = 0]
            /\ complete' = complete \cup {r}
            /\ IF r \in complete
               THEN /\ handler' = IF end THEN "out" ELSE "loop"
                    /\ UNCHANGED <<timed_out, last>>
               ELSE /\ timed_out' = r
                    /\ last' = end
                    /\ UNCHANGED handler
            /\ UNCHANGED <<pos, next_timeout>>
         \/ /\ ~time_after_eq(jiffies, deadline[r])
            /\ next_timeout' = NextTimeout(next_timeout, deadline[r])
            /\ pos' = pos + 1
            /\ handler' = IF end THEN "out" ELSE "loop"
            /\ UNCHANGED <<timeout_list, deadline, complete, timed_out, last>>
      /\ UNCHANGED <<jiffies, state, timeout, timerVars, hw, done, recovery,
                     lag>>

\* blk_rq_timed_out() with the answer of rq_timed_out_fn.  On HANDLED the
\* driver has taken the command from the hardware; on RESET_TIMER the request
\* gets a new deadline and can be completed again.
blk_rq_timed_out(ret) ==
  /\ timed_out # NoRq
  /\ \/ /\ ret = "HANDLED"
        /\ done' = [done EXCEPT ![timed_out] = @ + 1]
        /\ hw' = hw \ {timed_out}
        /\ UNCHANGED <<timeout, deadline, timeout_list, timerVars, complete,
                       recovery>>
     \/ /\ ret = "RESET_TIMER"
        /\ blk_add_timer(timed_out)
        /\ complete' = complete \ {timed_out}
        /\ UNCHANGED <<done, hw, recovery>>
     \/ /\ ret = "NOT_HANDLED"
        /\ recovery' = recovery \cup {timed_out}
        /\ UNCHANGED <<timeout, deadline, timeout_list, timerVars, complete,
                       done, hw>>
  /\ timed_out' = NoRq
  /\ handler' = IF handler = "loop" /\ last THEN "out" ELSE handler
  /\ UNCHANGED <<jiffies, state, pos, last, next_timeout, lag>>

\* Mutation: the timer is not set again for the requests that remain.
OutWithoutTimer ==
  /\ handler = "out"
  /\ handler' = "idle"
  /\ pos' = 0
  /\ last' = FALSE
  /\ next_timeout' = NoTime
  /\ lag' = 0
  /\ UNCHANGED <<jiffies, state, timeout, deadline, timeout_list, timerVars,
                 complete, hw, done, recovery, timed_out>>

\* The end of blk_rq_timed_out_timer().
HandlerOut ==
  /\ handler = "out"
  /\ IF next_timeout = NoTime THEN UNCHANGED timerVars
     ELSE \E skew \in Skews : mod_timer(round_jiffies_up(next_timeout, skew))
  /\ handler' = "idle"
  /\ pos' = 0
  /\ last' = FALSE
  /\ next_timeout' = NoTime
  /\ lag' = 0
  /\ UNCHANGED <<jiffies, state, timeout, deadline, timeout_list, complete,
                 hw, done, recovery, timed_out>>

-----------------------------------------------------------------------------
TimedOut == \E ret \in {"HANDLED", "RESET_TIMER", "NOT_HANDLED"} :
              blk_rq_timed_out(ret)

Next == \/ \E r \in Rq : \/ \E t \in Timeouts : Prepare(r, t)
                         \/ blk_start_request(r)
                         \/ blk_complete_request(r)
                         \/ Lose(r)
                         \/ blk_finish_request(r)
                         \/ blk_requeue_request(r)
                         \/ blk_abort_request(r)
        \/ Tick
        \/ TimerFires
        \/ blk_rq_timed_out_timer
        \/ blk_rq_check_expired
        \/ TimedOut
        \/ HandlerOut

\* Time passes, the timer softirq runs and its walk goes on; queue_lock is a
\* ticket lock, so the handler gets it however often others take it.  Nothing
\* is assumed of the hardware or of what the driver answers.
Fairness == /\ WF_vars(Tick)
            /\ WF_vars(TimerFires)
            /\ SF_vars(blk_rq_timed_out_timer)
            /\ WF_vars(blk_rq_check_expired)
            /\ WF_vars(TimedOut)
            /\ WF_vars(HandlerOut)

Spec == Init /\ [][Next]_vars
FairSpec == Spec /\ Fairness

-----------------------------------------------------------------------------
(* Properties *)

\* Every variable has its type.
TypeOK ==
  /\ jiffies \in 0..(Wrap - 1)
  /\ state \in [Rq -> {"free", "queued", "started"}]
  /\ timeout \in [Rq -> Nat]
  /\ deadline \in [Rq -> 0..(Wrap - 1)]
  /\ timeout_list \in Seq(Rq)
  /\ timer_pending \in BOOLEAN
  /\ expires \in 0..(Wrap - 1)
  /\ complete \subseteq Rq
  /\ hw \subseteq Rq
  /\ done \in [Rq -> Nat]
  /\ recovery \subseteq Rq
  /\ handler \in {"idle", "wait", "loop", "out"}
  /\ pos \in Nat
  /\ last \in BOOLEAN
  /\ next_timeout \in -1..(Wrap - 1)
  /\ timed_out \in Rq \cup {NoRq}
  /\ lag \in 0..MaxLag

\* How many contexts are about to end or requeue a request.
Owners(r) == done[r] + (IF r \in recovery THEN 1 ELSE 0)
                     + (IF r = timed_out THEN 1 ELSE 0)

\* "EH timer and IO completion will both attempt to 'grab' the request, make
\* sure that only one of them succeeds" (blk.h): a started request marked
\* complete has exactly one owner, any other request has none.
OneOwner == \A r \in Rq :
  Owners(r) = IF state[r] = "started" /\ r \in complete THEN 1 ELSE 0

\* The BUG_ON()s: blk_start_request() never meets a request that is marked
\* complete, and blk_add_timer() never one that is already on timeout_list,
\* whether it starts it or resets its timer.
BugFree ==
  /\ \A r \in Rq : state[r] = "queued" => r \notin complete /\ r \notin Listed
  /\ timed_out \notin Listed

\* No request is left without a timer: while the list has entries the timer
\* is armed, or its handler is about to look at them.
TimerArmed == timeout_list # <<>> => timer_pending \/ handler # "idle"

\* A request that nobody has grabbed is on the list that the timer serves.
Guarded == \A r \in Rq :
  state[r] = "started" /\ r \notin complete => r \in Listed

\* How far a deadline has passed, and what slack or tolerance may add to it.
Overdue(r) == IF time_after_eq(jiffies, deadline[r])
              THEN (jiffies - deadline[r]) % Wrap ELSE 0
Tolerance == IF Slack >= HZ \div 2 THEN Slack ELSE (HZ \div 2) - 1

\* The timer is not late: a request on the list is past its deadline by no
\* more than the rounding, the slack or the tolerance blk_add_timer() allows,
\* and the latency of the timer softirq.
TimerNotLate == \A r \in Listed :
  r \notin complete => Overdue(r) <= HZ + Tolerance + MaxLag

\* A command the hardware lost does not hang: somebody grabs every started
\* request, if need be the timer.
EveryRequestGrabbed == \A r \in Rq :
  state[r] = "started" ~> (r \in complete \/ state[r] # "started")

-----------------------------------------------------------------------------
(* The inductive invariant behind OneOwner, BugFree, Guarded, TimerArmed.   *)

Distinct(s) == \A i, j \in DOMAIN s : s[i] = s[j] => i = j

\* Where requests are: the list has no duplicates and only started requests,
\* and the hardware knows only started ones that nobody has queued for their
\* completion.
ListInv ==
  /\ Distinct(timeout_list)
  /\ \A r \in Listed : state[r] = "started"
  /\ \A r \in hw : state[r] = "started" /\ done[r] = 0

\* Where the walk is: at an entry, or past the end while the last entry,
\* taken off the list, is with rq_timed_out_fn.
WalkInv ==
  /\ handler = "loop" => IF timed_out # NoRq /\ last
                         THEN pos = Len(timeout_list) + 1
                         ELSE pos \in 1..Len(timeout_list)
  /\ handler = "out" => timed_out = NoRq

\* The walk has seen to the timer for the entries it has passed.
ArmInv ==
  /\ TimerArmed
  /\ handler = "loop" /\ pos > 1 => next_timeout # NoTime
  /\ handler = "out" /\ timeout_list # <<>>
       => timer_pending \/ next_timeout # NoTime

\* The inductive invariant: timeout_list, the timer, the walk of the handler
\* and the owners of completed requests agree.
IInv == /\ TypeOK /\ ListInv /\ WalkInv /\ ArmInv
        /\ OneOwner /\ BugFree /\ Guarded
-----------------------------------------------------------------------------
(* The inductive invariant behind TimerNotLate.                             *)

\* When the timer keeps its time: all requests have the queue's timeout, the
\* slack is below the half second by which blk_add_timer() lets the timer be
\* late, the softirq below the second to which it rounds, and jiffies is wide
\* enough to compare what the queue compares.
Regular ==
  /\ Timeouts \subseteq {0, RqTimeout}
  /\ Slack <= HZ \div 2
  /\ MaxLag <= HZ
  /\ Skews \subseteq 0..(Wrap - 1)
  /\ Wrap >= 2 * (RqTimeout + BLK_MAX_TIMEOUT + 2 * HZ + Slack + 2 * MaxLag + 1)

\* How far t lies ahead of j, negative when it is behind.
Dist(t, j) == LET x == t - j
                  h == Wrap \div 2
              IN  IF x >= h THEN x - Wrap ELSE IF x < -h THEN x + Wrap ELSE x
Ahead(t) == Dist(t, jiffies)

\* Jiffies until the armed timer expires.
Wait == IF handler = "idle" /\ Ahead(expires) > 0 THEN Ahead(expires) ELSE 0

\* The entries the walk has passed; all of them once it is over.
Passed == {timeout_list[i] : i \in {i \in DOMAIN timeout_list :
             \/ handler = "loop" /\ i < pos
             \/ handler = "out"}}

\* Each deadline is at most one timeout ahead, and the timer or its handler
\* gets to it in time: lag + what is left of MaxLag is the softirq's latency.
DeadlineInv == \A r \in Listed :
  /\ Ahead(deadline[r]) <= RqTimeout
  /\ Wait - lag - Ahead(deadline[r]) <= HZ + Tolerance

\* The armed timer is within the horizon, and not overdue by more than the
\* last run of the handler and the latency of the next.
ExpiresInv == timer_pending =>
  /\ Ahead(expires) <= RqTimeout + HZ + Slack
  /\ Ahead(expires) >= -lag - (IF handler = "idle" THEN MaxLag ELSE 0)

\* The walk has removed what had expired and found the earliest of the rest;
\* if it found none, the timer was set for the one request it put back.
PassedInv ==
  /\ \A r \in Passed : Ahead(deadline[r]) >= -lag
  /\ next_timeout # NoTime =>
       /\ handler \in {"loop", "out"}
       /\ Ahead(next_timeout) \in (-lag)..RqTimeout
       /\ \A r \in Passed : Ahead(next_timeout) <= Ahead(deadline[r])
  /\ handler = "out" /\ next_timeout = NoTime => \A r \in Listed :
       Ahead(expires) <= Ahead(deadline[r]) + HZ + Tolerance

\* The inductive invariant, on top of IInv and for Regular constants.
LateInv == /\ timeout \in [Rq -> {0, RqTimeout}]
           /\ DeadlineInv /\ ExpiresInv /\ PassedInv

=============================================================================
