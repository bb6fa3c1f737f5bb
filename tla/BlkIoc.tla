------------------------------- MODULE BlkIoc -------------------------------
(***************************************************************************)
(* I/O contexts (block/blk-ioc.c).  Processes share an io_context (ioc);   *)
(* an io_cq (icq) links an ioc to a request queue that its processes use.  *)
(* An icq has no reference count: it goes when its ioc or its queue goes.  *)
(* Linking and unlinking take q->queue_lock and then ioc->lock; a process  *)
(* that exits and the work that releases an ioc start from ioc->lock, so   *)
(* they may only try queue_lock and start again.  Lookups hold queue_lock  *)
(* and RCU, and go through ioc->icq_hint, which other queues' lookups      *)
(* overwrite.                                                              *)
(*                                                                         *)
(* One action is what happens up to the next lock that somebody else may   *)
(* hold.  The locks are the places in the code that hold them (QLocked,    *)
(* ILocked).  ioc->icq_tree, ioc->icq_list and q->icq_list change together *)
(* under both locks: they are the icqs in state "linked".                  *)
(***************************************************************************)
EXTENDS Integers, FiniteSets

CONSTANTS
  Task,       \* processes
  Ioc,        \* io_context structures
  Queue,      \* request queues
  Icq,        \* io_cq structures
  Rq,         \* requests, and references that the scheduler keeps itself
  MaxGet,     \* bound on allocations that use an icq
  MaxClear,   \* bound on calls of ioc_clear_queue()
  Nil         \* a model value: the null pointer

ASSUME IocAssumption ==
  /\ IsFiniteSet(Task) /\ IsFiniteSet(Rq)
  /\ MaxGet \in Nat
  /\ MaxClear \in Nat
  /\ Nil \notin Task \cup Ioc \cup Queue \cup Icq \cup Rq

VARIABLES
  alive,        \* iocs that are allocated
  refcount,     \* ioc->refcount
  active_ref,   \* ioc->active_ref
  icq_hint,     \* ioc->icq_hint
  release_work, \* progress of ioc_release_fn()
  icq,          \* the icqs: state, links, ICQ_EXITED, elevator replaced
  readers,      \* lookups that must end before an unlinked icq is freed
  pc,           \* where each process is
  ioc,          \* task->io_context, or what exit_io_context() took from it
  queue,        \* the queue a process allocates a request from
  ptr,          \* the icq pointer it holds
  rq,           \* rq->elv.icq of the requests
  last,         \* requests whose end dropped the last reference to an ioc
  state,        \* progress of elevator_switch() or blk_release_queue()
  victim,       \* the icq that ioc_clear_queue() has picked
  gets, clears  \* how much of the bounds is used

iocVars   == <<alive, refcount, active_ref, release_work>>
taskVars  == <<pc, ioc, queue, ptr>>
clearVars == <<state, victim, clears>>
vars == <<alive, refcount, active_ref, icq_hint, release_work, icq, readers,
          pc, ioc, queue, ptr, rq, last, state, victim, gets, clears>>

-----------------------------------------------------------------------------
Unused == [st |-> "free", ioc |-> Nil, q |-> Nil, exited |-> FALSE,
           stale |-> FALSE]

\* The icqs on ioc->icq_list, on q->icq_list, and in ioc->icq_tree for q.
Linked == {c \in Icq : icq[c].st = "linked"}
OfIoc(i) == {c \in Linked : icq[c].ioc = i}
OfQueue(q) == {c \in Linked : icq[c].q = q}

\* Somebody holds q->queue_lock, ioc->lock.
QLocked(q) ==
  \/ \E t \in Task : pc[t] \in {"lookup", "link"} /\ queue[t] = q
  \/ \E r \in last : icq[rq[r]].q = q
  \/ state[q] \in {"clear", "pick"}
ILocked(i) == \/ \E t \in Task : pc[t] = "exit" /\ ioc[t] = i
              \/ release_work[i] = "run"

\* The processes that may issue I/O: the others are about to put their
\* reference.
Active(i) == {t \in Task : ioc[t] = i /\ pc[t] \notin
                             {"walk", "exit", "put", "last"}}

Step(t, where) == pc' = [pc EXCEPT ![t] = where]
Leave(t) == /\ pc' = [pc EXCEPT ![t] = "idle"]
            /\ ioc' = [ioc EXCEPT ![t] = Nil]

\* With queue_lock free: no request of the queue has elevator data, and none
\* is about to get it, nr_rqs_elvpriv is zero.
Drained(q) ==
  /\ \A t \in Task : pc[t] \in {"create", "link", "set"} => queue[t] # q
  /\ \A r \in Rq : rq[r] # Nil => icq[rq[r]].q # q

Init ==
  /\ alive = {}
  /\ refcount = [i \in Ioc |-> 0]
  /\ active_ref = [i \in Ioc |-> 0]
  /\ icq_hint = [i \in Ioc |-> Nil]
  /\ release_work = [i \in Ioc |-> "no"]
  /\ icq = [c \in Icq |-> Unused]
  /\ readers = [c \in Icq |-> {}]
  /\ pc = [t \in Task |-> "idle"]
  /\ ioc = [t \in Task |-> Nil]
  /\ queue = [t \in Task |-> Nil]
  /\ ptr = [t \in Task |-> Nil]
  /\ rq = [r \in Rq |-> Nil]
  /\ last = {}
  /\ state = [q \in Queue |-> "live"]
  /\ victim = [q \in Queue |-> Nil]
  /\ gets = 0
  /\ clears = 0

-----------------------------------------------------------------------------
(* Processes come by an io_context *)

\* create_task_io_context() for current.
create_io_context(t, i) ==
  /\ pc[t] = "idle" /\ ioc[t] = Nil
  /\ i \notin alive
  /\ alive' = alive \cup {i}
  /\ refcount' = [refcount EXCEPT ![i] = 1]
  /\ active_ref' = [active_ref EXCEPT ![i] = 1]
  /\ icq_hint' = [icq_hint EXCEPT ![i] = Nil]
  /\ ioc' = [ioc EXCEPT ![t] = i]
  /\ UNCHANGED <<release_work, icq, readers, pc, queue, ptr, rq, last,
                 clearVars, gets>>

\* Mutation: the child takes an ordinary reference only.
LinkInactive(t, u) ==
  /\ pc[t] = "idle" /\ ioc[t] # Nil
  /\ pc[u] = "idle" /\ ioc[u] = Nil
  /\ refcount' = [refcount EXCEPT ![ioc[t]] = @ + 1]
  /\ ioc' = [ioc EXCEPT ![u] = ioc[t]]
  /\ UNCHANGED <<alive, active_ref, icq_hint, release_work, icq, readers, pc,
                 queue, ptr, rq, last, clearVars, gets>>

\* A child u is cloned with CLONE_IO.
ioc_task_link(t, u) ==
  /\ pc[t] = "idle" /\ ioc[t] # Nil
  /\ pc[u] = "idle" /\ ioc[u] = Nil
  /\ refcount' = [refcount EXCEPT ![ioc[t]] = @ + 1]
  /\ active_ref' = [active_ref EXCEPT ![ioc[t]] = @ + 1]
  /\ ioc' = [ioc EXCEPT ![u] = ioc[t]]
  /\ UNCHANGED <<alive, icq_hint, release_work, icq, readers, pc, queue, ptr,
                 rq, last, clearVars, gets>>

\* t looks at the io_context of u, say to set its priority, and will put its
\* reference.  Only a process without a context of its own does so here.
get_task_io_context(t, u) ==
  /\ pc[t] = "idle" /\ ioc[t] = Nil
  /\ u \in Active(ioc[u]) /\ ioc[u] # Nil
  /\ refcount' = [refcount EXCEPT ![ioc[u]] = @ + 1]
  /\ ioc' = [ioc EXCEPT ![t] = ioc[u]]
  /\ Step(t, "put")
  /\ UNCHANGED <<alive, active_ref, icq_hint, release_work, icq, readers,
                 queue, ptr, rq, last, clearVars, gets>>

-----------------------------------------------------------------------------
(* A request is allocated and freed *)

Goto(t, where, q, c) == /\ pc' = [pc EXCEPT ![t] = where]
                        /\ queue' = [queue EXCEPT ![t] = q]
                        /\ ptr' = [ptr EXCEPT ![t] = c]

\* What ioc_lookup_icq() returns once it has read h from icq_hint, and what it
\* leaves there.
Hit(h, q) == h # Nil /\ icq[h].q = q
Found(i, q, h) ==
  IF Hit(h, q) THEN h
  ELSE IF \E c \in OfIoc(i) : icq[c].q = q
       THEN CHOOSE c \in OfIoc(i) : icq[c].q = q
       ELSE Nil
HintAfter(i, q, h) == IF Hit(h, q) \/ Found(i, q, h) = Nil THEN icq_hint[i]
                                                 ELSE Found(i, q, h)

\* __get_request(): ioc_lookup_icq() enters its RCU section and reads the
\* hint, also on a queue in bypass mode, for cfq_may_queue()...
LookupHint(t, q) ==
  /\ pc[t] = "idle" /\ ioc[t] # Nil
  /\ state[q] # "gone" /\ ~QLocked(q)
  /\ gets < MaxGet
  /\ gets' = gets + 1
  /\ Goto(t, "lookup", q, icq_hint[ioc[t]])
  /\ UNCHANGED <<iocVars, icq_hint, icq, readers, ioc, rq, last, clearVars>>

\* ...then looks at what it points to, and into the tree.  In bypass mode the
\* request gets no elevator data.
LookupTree(t) ==
  LET c == Found(ioc[t], queue[t], ptr[t])
  IN  /\ pc[t] = "lookup"
      /\ IF state[queue[t]] = "live"
         THEN Goto(t, IF c = Nil THEN "create" ELSE "set", queue[t], c)
         ELSE Goto(t, "idle", Nil, Nil)
      /\ icq_hint' = [icq_hint EXCEPT ![ioc[t]] =
                        HintAfter(ioc[t], queue[t], ptr[t])]
      /\ readers' = [d \in Icq |-> readers[d] \ {t}]
      /\ UNCHANGED <<iocVars, icq, ioc, rq, last, clearVars, gets>>

\* fail_elvpriv: no memory for the icq or for the elevator's data.
ElvprivFail(t) ==
  /\ pc[t] \in {"create", "set"}
  /\ Goto(t, "idle", Nil, Nil)
  /\ UNCHANGED <<iocVars, icq_hint, icq, readers, ioc, rq, last, clearVars,
                 gets>>

\* ioc_create_icq() has allocated an icq and takes queue_lock...
CreateLock(t, c) ==
  /\ pc[t] = "create"
  /\ icq[c].st = "free"
  /\ ~QLocked(queue[t])
  /\ icq' = [icq EXCEPT ![c] = [st |-> "new", ioc |-> ioc[t],
               q |-> queue[t], exited |-> FALSE, stale |-> FALSE]]
  /\ Goto(t, "link", queue[t], c)
  /\ UNCHANGED <<iocVars, icq_hint, readers, ioc, rq, last, clearVars, gets>>

\* ...then ioc->lock.  The icq is linked unless somebody was faster, whose
\* icq is taken instead.
CreateLink(t) ==
  LET c == ptr[t]
      i == ioc[t]
      q == queue[t]
      d == Found(i, q, icq_hint[i])
  IN  /\ pc[t] = "link" /\ ~ILocked(i)
      /\ IF \A e \in OfIoc(i) : icq[e].q # q
         THEN /\ icq' = [icq EXCEPT ![c].st = "linked"]
              /\ Goto(t, "set", q, c)
              /\ UNCHANGED icq_hint
         ELSE /\ icq' = [icq EXCEPT ![c] = Unused]
              /\ Goto(t, "set", q, d)
              /\ icq_hint' = [icq_hint EXCEPT ![i] =
                                HintAfter(i, q, icq_hint[i])]
      /\ UNCHANGED <<iocVars, readers, ioc, rq, last, clearVars, gets>>

\* The request gets the icq and a reference to its ioc.
SetRequest(t, r) ==
  /\ pc[t] = "set"
  /\ rq[r] = Nil
  /\ rq' = [rq EXCEPT ![r] = ptr[t]]
  /\ refcount' = [refcount EXCEPT ![icq[ptr[t]].ioc] = @ + 1]
  /\ Goto(t, "idle", Nil, Nil)
  /\ UNCHANGED <<alive, active_ref, icq_hint, release_work, icq, readers, ioc,
                 last, clearVars, gets>>

\* cfq keeps a reference of its own to the context of a request that it
\* dispatches (active_cic), until the slice expires, an icq is exited or the
\* queue is drained.  Here it is one more member of Rq, which ends as a
\* request does: __cfq_slice_expired() puts it with queue_lock held.
cfq_dispatch_request(r, s) ==
  /\ rq[r] # Nil /\ rq[s] = Nil
  /\ ~QLocked(icq[rq[r]].q)
  /\ rq' = [rq EXCEPT ![s] = rq[r]]
  /\ refcount' = [refcount EXCEPT ![icq[rq[r]].ioc] = @ + 1]
  /\ UNCHANGED <<alive, active_ref, icq_hint, release_work, icq, readers,
                 taskVars, last, clearVars, gets>>

\* put_io_context() of the last reference, under ioc->lock.
PutLast(i) ==
  IF OfIoc(i) # {}
  THEN /\ release_work' = [release_work EXCEPT ![i] = "queued"]
       /\ UNCHANGED alive
  ELSE /\ alive' = alive \ {i}
       /\ UNCHANGED release_work

\* Mutation: a request that ends keeps its reference to the ioc.
FreeKept(r) ==
  /\ rq[r] # Nil /\ r \notin last
  /\ ~QLocked(icq[rq[r]].q)
  /\ rq' = [rq EXCEPT ![r] = Nil]
  /\ UNCHANGED <<iocVars, icq_hint, icq, readers, taskVars, last, clearVars,
                 gets>>

\* blk_free_request(), with queue_lock held.
FreeRequest(r) ==
  LET i == icq[rq[r]].ioc
  IN  /\ rq[r] # Nil /\ r \notin last
      /\ ~QLocked(icq[rq[r]].q)
      /\ refcount' = [refcount EXCEPT ![i] = @ - 1]
      /\ IF refcount[i] = 1
         THEN last' = last \cup {r} /\ UNCHANGED rq
         ELSE rq' = [rq EXCEPT ![r] = Nil] /\ UNCHANGED last
      /\ UNCHANGED <<alive, active_ref, icq_hint, release_work, icq, readers,
                     taskVars, clearVars, gets>>

FreeLast(r) ==
  LET i == icq[rq[r]].ioc
  IN  /\ r \in last /\ ~ILocked(i)
      /\ PutLast(i)
      /\ rq' = [rq EXCEPT ![r] = Nil]
      /\ last' = last \ {r}
      /\ UNCHANGED <<refcount, active_ref, icq_hint, icq, readers, taskVars,
                     clearVars, gets>>

-----------------------------------------------------------------------------
(* A process exits *)

\* exit_io_context() up to put_io_context_active()'s decision.
exit_io_context(t) ==
  /\ pc[t] = "idle" /\ ioc[t] # Nil
  /\ active_ref' = [active_ref EXCEPT ![ioc[t]] = @ - 1]
  /\ Step(t, IF active_ref[ioc[t]] = 1 THEN "walk" ELSE "put")
  /\ UNCHANGED <<alive, refcount, icq_hint, release_work, icq, readers, ioc,
                 queue, ptr, rq, last, clearVars, gets>>

\* What the walk over the icqs leaves alone.
WalkFrame == UNCHANGED <<iocVars, icq_hint, readers, ioc, queue, ptr, rq,
                         last, clearVars, gets>>

WalkLock(t) ==
  /\ pc[t] = "walk" /\ ~ILocked(ioc[t])
  /\ Step(t, "exit")
  /\ WalkFrame /\ UNCHANGED icq

\* ioc_exit_icq(), once spin_trylock() has succeeded.
WalkExit(t, c) ==
  /\ pc[t] = "exit"
  /\ c \in OfIoc(ioc[t]) /\ ~icq[c].exited
  /\ ~QLocked(icq[c].q)
  /\ icq' = [icq EXCEPT ![c].exited = TRUE]
  /\ WalkFrame /\ UNCHANGED pc

\* Mutation: the walk spins with ioc->lock held.
WalkSpin(t, c) ==
  /\ pc[t] = "exit"
  /\ c \in OfIoc(ioc[t]) /\ ~icq[c].exited
  /\ QLocked(icq[c].q)
  /\ WalkFrame /\ UNCHANGED <<pc, icq>>

\* spin_trylock() fails: ioc->lock is dropped and the walk starts again.
WalkRetry(t, c) ==
  /\ pc[t] = "exit"
  /\ c \in OfIoc(ioc[t]) /\ ~icq[c].exited
  /\ QLocked(icq[c].q)
  /\ Step(t, "walk")
  /\ WalkFrame /\ UNCHANGED icq

\* Mutation: an icq whose queue is locked is passed over.
WalkPast(t) ==
  /\ pc[t] = "exit"
  /\ \A c \in OfIoc(ioc[t]) : icq[c].exited \/ QLocked(icq[c].q)
  /\ Step(t, "put")
  /\ WalkFrame /\ UNCHANGED icq

WalkDone(t) ==
  /\ pc[t] = "exit"
  /\ \A c \in OfIoc(ioc[t]) : icq[c].exited
  /\ Step(t, "put")
  /\ WalkFrame /\ UNCHANGED icq

\* put_io_context()
put_io_context(t) ==
  /\ pc[t] = "put"
  /\ refcount' = [refcount EXCEPT ![ioc[t]] = @ - 1]
  /\ IF refcount[ioc[t]] = 1 THEN Step(t, "last") /\ UNCHANGED ioc
                             ELSE Leave(t)
  /\ UNCHANGED <<alive, active_ref, icq_hint, release_work, icq, readers,
                 queue, ptr, rq, last, clearVars, gets>>

PutTaskLast(t) ==
  /\ pc[t] = "last" /\ ~ILocked(ioc[t])
  /\ PutLast(ioc[t])
  /\ Leave(t)
  /\ UNCHANGED <<refcount, active_ref, icq_hint, icq, readers, queue, ptr, rq,
                 last, clearVars, gets>>

-----------------------------------------------------------------------------
(* Icqs are destroyed *)

\* Mutation: the hint keeps pointing to the icq.
DestroyHinted(c) ==
  /\ icq' = [icq EXCEPT ![c].st = "rcu", ![c].exited = TRUE]
  /\ readers' = [readers EXCEPT ![c] = {t \in Task : pc[t] = "lookup"}]
  /\ UNCHANGED icq_hint

\* ioc_destroy_icq() with both locks held: unlink, clear the hint, exit, and
\* free after a grace period.  The hint is tested and then cleared: a lookup
\* of another queue may set it in between and find it cleared.
ioc_destroy_icq(c) ==
  LET i == icq[c].ioc
  IN  /\ icq' = [icq EXCEPT ![c].st = "rcu", ![c].exited = TRUE]
      /\ readers' = [readers EXCEPT ![c] = {t \in Task : pc[t] = "lookup"}]
      /\ \/ icq_hint' = [icq_hint EXCEPT ![i] = Nil]
         \/ icq_hint[i] # c /\ UNCHANGED icq_hint

\* The grace period has passed: icq_free_icq_rcu().
icq_free_icq_rcu(c) ==
  /\ icq[c].st = "rcu" /\ readers[c] = {}
  /\ icq' = [icq EXCEPT ![c] = Unused]
  /\ UNCHANGED <<iocVars, icq_hint, readers, taskVars, rq, last, clearVars,
                 gets>>

\* What ioc_release_fn() leaves alone.
WorkFrame == UNCHANGED <<refcount, active_ref, taskVars, rq, last, clearVars,
                         gets>>

WorkLock(i) ==
  /\ release_work[i] = "queued" /\ ~ILocked(i)
  /\ release_work' = [release_work EXCEPT ![i] = "run"]
  /\ WorkFrame /\ UNCHANGED <<alive, icq_hint, icq, readers>>

\* The first icq, if spin_trylock() succeeds.
WorkDestroy(i, c) ==
  /\ release_work[i] = "run"
  /\ c \in OfIoc(i) /\ ~QLocked(icq[c].q)
  /\ ioc_destroy_icq(c)
  /\ WorkFrame /\ UNCHANGED <<alive, release_work>>

\* Mutation: the work spins with ioc->lock held.
WorkSpin(i, c) ==
  /\ release_work[i] = "run"
  /\ c \in OfIoc(i) /\ QLocked(icq[c].q)
  /\ WorkFrame /\ UNCHANGED <<alive, release_work, icq_hint, icq, readers>>

\* It fails: ioc->lock is dropped and taken again.
WorkRetry(i, c) ==
  /\ release_work[i] = "run"
  /\ c \in OfIoc(i) /\ QLocked(icq[c].q)
  /\ release_work' = [release_work EXCEPT ![i] = "queued"]
  /\ WorkFrame /\ UNCHANGED <<alive, icq_hint, icq, readers>>

WorkFree(i) ==
  /\ release_work[i] = "run" /\ OfIoc(i) = {}
  /\ release_work' = [release_work EXCEPT ![i] = "no"]
  /\ alive' = alive \ {i}
  /\ WorkFrame /\ UNCHANGED <<icq_hint, icq, readers>>

-----------------------------------------------------------------------------
(* A queue changes its elevator, or goes away *)

At(q, where) == state' = [state EXCEPT ![q] = where]

\* blk_queue_bypass_start() or blk_cleanup_queue(), with queue_lock held.
ClearStart(q) ==
  /\ state[q] = "live" /\ ~QLocked(q)
  /\ clears < MaxClear
  /\ clears' = clears + 1
  /\ At(q, "drain")
  /\ UNCHANGED <<iocVars, icq_hint, icq, readers, taskVars, rq, last, victim,
                 gets>>

\* What ioc_clear_queue() leaves alone.
ClearFrame == UNCHANGED <<iocVars, taskVars, rq, last, clears, gets>>

\* The queue is drained and queue_lock is taken for ioc_clear_queue().
ClearLock(q) ==
  /\ state[q] = "drain" /\ Drained(q) /\ ~QLocked(q)
  /\ At(q, "clear")
  /\ ClearFrame /\ UNCHANGED <<icq_hint, icq, readers, victim>>

ClearPick(q, c) ==
  /\ state[q] = "clear" /\ c \in OfQueue(q)
  /\ At(q, "pick")
  /\ victim' = [victim EXCEPT ![q] = c]
  /\ ClearFrame /\ UNCHANGED <<icq_hint, icq, readers>>

ClearDestroy(q) ==
  /\ state[q] = "pick" /\ ~ILocked(icq[victim[q]].ioc)
  /\ ioc_destroy_icq(victim[q])
  /\ At(q, "clear")
  /\ victim' = [victim EXCEPT ![q] = Nil]
  /\ ClearFrame

ClearDone(q) ==
  /\ state[q] = "clear" /\ OfQueue(q) = {}
  /\ At(q, "cleared")
  /\ ClearFrame /\ UNCHANGED <<icq_hint, icq, readers, victim>>

\* The queue has a new elevator (what was created for the old one would be
\* stale) and leaves bypass mode under queue_lock, or it is freed.
ClearEnd(q, where) ==
  /\ state[q] = "cleared" /\ ~QLocked(q)
  /\ where \in {"live", "gone"}
  /\ At(q, where)
  /\ icq' = [c \in Icq |-> [icq[c] EXCEPT !.stale =
               @ \/ (icq[c].q = q /\ icq[c].st \in {"new", "linked"})]]
  /\ ClearFrame /\ UNCHANGED <<icq_hint, readers, victim>>

-----------------------------------------------------------------------------
\* The waits for ioc->lock with queue_lock held.
LinkStep == \E t \in Task : CreateLink(t)
LastStep == \E r \in Rq : FreeLast(r)
ClearStep == \E q \in Queue : ClearDestroy(q)

TaskStep(t) ==
  \/ LookupTree(t)
  \/ ElvprivFail(t)
  \/ \E c \in Icq : CreateLock(t, c)
  \/ \E r \in Rq : SetRequest(t, r)
  \/ WalkLock(t)
  \/ \E c \in Icq : WalkExit(t, c) \/ WalkRetry(t, c)
  \/ WalkDone(t)
  \/ put_io_context(t)
  \/ PutTaskLast(t)

WorkStep(i) == \/ WorkLock(i)
               \/ \E c \in Icq : WorkDestroy(i, c) \/ WorkRetry(i, c)
               \/ WorkFree(i)

QueueStep(q) == \/ ClearLock(q)
                \/ \E c \in Icq : ClearPick(q, c)
                \/ ClearDone(q)
                \/ \E where \in {"live", "gone"} : ClearEnd(q, where)

Next ==
  \/ \E t \in Task, i \in Ioc : create_io_context(t, i)
  \/ \E t, u \in Task : ioc_task_link(t, u) \/ get_task_io_context(t, u)
  \/ \E t \in Task, q \in Queue : LookupHint(t, q)
  \/ \E t \in Task : exit_io_context(t)
  \/ \E q \in Queue : ClearStart(q)
  \/ \E r, s \in Rq : cfq_dispatch_request(r, s)
  \/ \E r \in Rq : FreeRequest(r)
  \/ \E c \in Icq : icq_free_icq_rcu(c)
  \/ LinkStep \/ LastStep \/ ClearStep
  \/ \E t \in Task : TaskStep(t)
  \/ \E i \in Ioc : WorkStep(i)
  \/ \E q \in Queue : QueueStep(q)

\* Every process, work and clearing that can go on does, requests end, grace
\* periods pass.  ioc->lock is a ticket lock: who waits for it gets it, even
\* if others take it again and again meanwhile.  Nothing is assumed of
\* spin_trylock().
Fairness ==
  /\ \A t \in Task : WF_vars(TaskStep(t))
  /\ \A i \in Ioc : WF_vars(WorkStep(i))
  /\ \A q \in Queue : WF_vars(QueueStep(q))
  /\ WF_vars(\E r \in Rq : FreeRequest(r))
  /\ WF_vars(\E c \in Icq : icq_free_icq_rcu(c))
  /\ SF_vars(LinkStep) /\ SF_vars(LastStep) /\ SF_vars(ClearStep)

Spec == Init /\ [][Next]_vars
FairSpec == Spec /\ Fairness

-----------------------------------------------------------------------------
(* Properties *)

TaskPc == {"idle", "lookup", "create", "link", "set", "walk", "exit", "put",
           "last"}

\* Every variable has its type.
TypeOK ==
  /\ alive \subseteq Ioc
  /\ refcount \in [Ioc -> Nat]
  /\ active_ref \in [Ioc -> Nat]
  /\ icq_hint \in [Ioc -> Icq \cup {Nil}]
  /\ release_work \in [Ioc -> {"no", "queued", "run"}]
  /\ icq \in [Icq -> [st : {"free", "new", "linked", "rcu"},
                      ioc : Ioc \cup {Nil}, q : Queue \cup {Nil},
                      exited : BOOLEAN, stale : BOOLEAN]]
  /\ readers \in [Icq -> SUBSET Task]
  /\ pc \in [Task -> TaskPc]
  /\ ioc \in [Task -> Ioc \cup {Nil}]
  /\ queue \in [Task -> Queue \cup {Nil}]
  /\ ptr \in [Task -> Icq \cup {Nil}]
  /\ rq \in [Rq -> Icq \cup {Nil}]
  /\ last \subseteq Rq
  /\ state \in [Queue -> {"live", "drain", "clear", "pick", "cleared",
                          "gone"}]
  /\ victim \in [Queue -> Icq \cup {Nil}]
  /\ gets \in 0 .. MaxGet
  /\ clears \in 0 .. MaxClear

\* Processes, and requests and schedulers, that have a reference.
Users(i) == {t \in Task : ioc[t] = i /\ pc[t] # "last"}
Requests(i) == {r \in Rq \ last : rq[r] # Nil /\ icq[rq[r]].ioc = i}

\* "Each request with icq set holds an extra reference to ioc to ensure it
\* stays until the request is completed" (iocontext.h): the counts are exact,
\* so the BUG_ON()s of get_io_context() and put_io_context() are unreachable
\* and no ioc leaks.
RefsExact == \A i \in alive :
  /\ active_ref[i] = Cardinality(Active(i))
  /\ refcount[i] = Cardinality(Users(i)) + Cardinality(Requests(i))

\* No pointer outlives what it points to: the hint ("if it's not pointing to
\* @icq now, it never will"), the links of an icq to its ioc and its queue,
\* the icq of an allocation, of a request and of ioc_clear_queue(), the icq
\* a lookup has read from the hint, and the ioc of everybody who may still
\* take its lock.
NoUseAfterFree ==
  /\ \A i \in alive : icq_hint[i] # Nil => icq_hint[i] \in OfIoc(i)
  /\ \A c \in Linked : icq[c].ioc \in alive /\ state[icq[c].q] # "gone"
  /\ \A t \in Task :
       /\ ioc[t] # Nil => ioc[t] \in alive
       /\ pc[t] = "set" => ptr[t] \in OfIoc(ioc[t]) \cap OfQueue(queue[t])
       /\ pc[t] = "lookup" /\ ptr[t] # Nil => icq[ptr[t]].st # "free"
  /\ \A r \in Rq : rq[r] # Nil => rq[r] \in Linked
  /\ \A q \in Queue : state[q] = "pick" => victim[q] \in OfQueue(q)
  /\ \A i \in Ioc : release_work[i] # "no" => i \in alive

\* "If active reference reaches zero after put, @ioc can never issue further
\* IOs and ioscheds are notified": once nobody is active and the walk is over,
\* every icq has been exited, by the elevator it was created for, and a pair
\* of ioc and queue has one icq.
IoschedNotified ==
  /\ \A c \in Linked :
       LET i == icq[c].ioc
       IN  icq[c].exited
             \/ Active(i) # {}
             \/ \E t \in Task : ioc[t] = i /\ pc[t] \in {"walk", "exit"}
  /\ \A c \in Linked : ~icq[c].stale
  /\ \A c, d \in Linked : icq[c].ioc = icq[d].ioc /\ icq[c].q = icq[d].q
                            => c = d

\* The reverse double locking ends: an ioc without references is freed.
ContextFreed == \A i \in Ioc :
  (i \in alive /\ refcount[i] = 0) ~> (i \notin alive \/ refcount[i] > 0)

\* ioc_clear_queue(), which waits for ioc->lock with queue_lock held, ends.
ClearEnds == \A q \in Queue :
  state[q] = "clear" ~> state[q] \notin {"clear", "pick"}

-----------------------------------------------------------------------------
(* The inductive invariant behind the safety properties. *)

\* A lookup works on an icq of its own ioc that is linked or that waits for
\* the lookup to end, and if it is the queue's, it is linked.
LookupInv == \A t \in Task : pc[t] = "lookup" /\ ptr[t] # Nil =>
  /\ icq[ptr[t]].ioc = ioc[t]
  /\ icq[ptr[t]].st = "linked"
       \/ (icq[ptr[t]].st = "rcu" /\ t \in readers[ptr[t]])
  /\ icq[ptr[t]].q = queue[t] => icq[ptr[t]].st = "linked"

\* What a process works on, and an icq that is not linked yet belongs to one
\* process.
TaskInv ==
  /\ \A t \in Task :
       /\ pc[t] # "idle" => ioc[t] # Nil
       /\ pc[t] \in {"lookup", "create", "link", "set"} => queue[t] # Nil
       /\ pc[t] = "link" => /\ ptr[t] # Nil
                            /\ icq[ptr[t]] = [st |-> "new", ioc |-> ioc[t],
                                 q |-> queue[t], exited |-> FALSE,
                                 stale |-> FALSE]
  /\ \A t, u \in Task : pc[t] = "link" /\ pc[u] = "link" /\ ptr[t] = ptr[u]
                          => t = u
  /\ \A c \in Linked : icq[c].q # Nil

\* A queue is drained before its icqs are cleared, and stays so; nobody looks
\* for one meanwhile, and afterwards it has none.
DrainInv == \A q \in Queue :
  /\ state[q] \notin {"live", "drain"} => Drained(q)
  /\ state[q] \in {"clear", "pick", "gone"} =>
       \A t \in Task : pc[t] = "lookup" => queue[t] # q
  /\ state[q] \in {"cleared", "gone"} => OfQueue(q) = {}

\* An ioc whose last reference is gone is released by one process, one request
\* or the work, and nobody else.
LastInv ==
  /\ \A t \in Task : pc[t] = "last" =>
       /\ refcount[ioc[t]] = 0
       /\ release_work[ioc[t]] = "no"
       /\ \A u \in Task : pc[u] = "last" /\ ioc[u] = ioc[t] => u = t
       /\ \A r \in last : icq[rq[r]].ioc # ioc[t]
  /\ \A r \in last :
       /\ rq[r] # Nil
       /\ refcount[icq[rq[r]].ioc] = 0
       /\ release_work[icq[rq[r]].ioc] = "no"
       /\ \A p \in last : icq[rq[p]].ioc = icq[rq[r]].ioc => p = r
  /\ \A i \in Ioc : release_work[i] # "no" => refcount[i] = 0

\* What every step of an allocation, an exit, a release or a clearing
\* preserves.
IInv == /\ TypeOK /\ LookupInv /\ TaskInv /\ DrainInv /\ LastInv
        /\ RefsExact /\ NoUseAfterFree /\ IoschedNotified
=============================================================================
