----------------------------- MODULE BlkSoftirq -----------------------------
(***************************************************************************)
(* Completion of requests through the per-cpu BLOCK_SOFTIRQ lists          *)
(* (block/blk-softirq.c): an interrupt queues the request on its own cpu   *)
(* or sends an IPI to the cpu that submitted it, a softirq takes the list  *)
(* over and calls softirq_done_fn, and a cpu that goes away leaves its     *)
(* list to another.                                                        *)
(*                                                                         *)
(* The lists are cpu-local, protected only by disabling interrupts: what   *)
(* the code does with interrupts off is one action.  The softirq core, the *)
(* IPI queue (kernel/smp.c) and cpu hotplug (kernel/cpu.c) are modelled    *)
(* as far as the code above relies on them.                                *)
(***************************************************************************)
EXTENDS Integers, Sequences, FiniteSets

CONSTANTS
  Cpu,
  NoCpu,       \* req->cpu = -1, or no cpu on its way down
  Rq,          \* struct request
  CacheOf,     \* the cache domain of each cpu, for cpus_share_cache()
  MaxHotplug   \* bound on the number of cpu_down() calls

ASSUME SoftirqAssumption ==
  /\ NoCpu \notin Cpu
  /\ DOMAIN CacheOf = Cpu
  /\ MaxHotplug \in Nat

VARIABLES
  online,         \* cpu_online_mask
  dead,           \* a cpu taken down whose CPU_DEAD notifiers have not run
  hotplugs,
  rq_affinity,    \* 0, 1: QUEUE_FLAG_SAME_COMP, 2: and QUEUE_FLAG_SAME_FORCE
  state,          \* "idle", "busy" (at the driver) or "completing"
  rq_cpu,         \* req->cpu
  call_queue,     \* call_single_queue: requests on their way to each cpu
  blk_cpu_done,   \* the per-cpu lists
  raised,         \* cpus with BLOCK_SOFTIRQ pending
  softirq,        \* where blk_done_softirq() is on each cpu
  local_list      \* the entries it has taken

vars == <<online, dead, hotplugs, rq_affinity, state, rq_cpu, call_queue,
          blk_cpu_done, raised, softirq, local_list>>
hotVars == <<online, dead, hotplugs>>
runVars == <<softirq, local_list>>

-----------------------------------------------------------------------------
Init ==
  /\ online = Cpu
  /\ dead = NoCpu
  /\ hotplugs = 0
  /\ rq_affinity = 1
  /\ state = [r \in Rq |-> "idle"]
  /\ rq_cpu = [r \in Rq |-> NoCpu]
  /\ call_queue = [c \in Cpu |-> <<>>]
  /\ blk_cpu_done = [c \in Cpu |-> <<>>]
  /\ raised = {}
  /\ softirq = [c \in Cpu |-> "idle"]
  /\ local_list = [c \in Cpu |-> <<>>]

\* sysfs: rq_affinity may be written at any time.
queue_rq_affinity_store(val) ==
  /\ rq_affinity' = val
  /\ UNCHANGED <<hotVars, state, rq_cpu, call_queue, blk_cpu_done, raised,
                 runVars>>

\* Mutation: req->cpu left at zero, not at -1, when there is no affinity.
QueueBioZeroCpu(r, c) ==
  /\ c \in online
  /\ state[r] = "idle"
  /\ state' = [state EXCEPT ![r] = "busy"]
  /\ rq_cpu' = [rq_cpu EXCEPT ![r] = IF rq_affinity > 0 THEN c ELSE 0]
  /\ UNCHANGED <<hotVars, rq_affinity, call_queue, blk_cpu_done, raised,
                 runVars>>

\* blk_queue_bio() on cpu c records where the completion should run.
blk_queue_bio(r, c) ==
  /\ c \in online
  /\ state[r] = "idle"
  /\ state' = [state EXCEPT ![r] = "busy"]
  /\ rq_cpu' = [rq_cpu EXCEPT ![r] = IF rq_affinity > 0 THEN c ELSE NoCpu]
  /\ UNCHANGED <<hotVars, rq_affinity, call_queue, blk_cpu_done, raised,
                 runVars>>

-----------------------------------------------------------------------------
\* Entries join the list of cpu c; the softirq is raised only if the first of
\* them finds the list empty.
AddTail(c, rs) ==
  /\ blk_cpu_done' = [blk_cpu_done EXCEPT ![c] = @ \o rs]
  /\ raised' = IF blk_cpu_done[c] = <<>> /\ rs # <<>>
               THEN raised \cup {c} ELSE raised

\* Mutation: raise_blk_irq() without cpu_online().
CompleteOffline(r, c) ==
  LET ccpu   == IF rq_cpu[r] = NoCpu THEN c ELSE rq_cpu[r]
      shared == rq_affinity # 2 /\ CacheOf[c] = CacheOf[ccpu]
  IN  /\ c \in online
      /\ state[r] = "busy"
      /\ state' = [state EXCEPT ![r] = "completing"]
      /\ IF ccpu = c \/ shared
         THEN AddTail(c, <<r>>) /\ UNCHANGED call_queue
         ELSE /\ call_queue' = IF ccpu \in online
                               THEN [call_queue EXCEPT ![ccpu] = Append(@, r)]
                               ELSE call_queue
              /\ UNCHANGED <<blk_cpu_done, raised>>
      /\ UNCHANGED <<hotVars, rq_affinity, rq_cpu, runVars>>

\* __blk_complete_request() on cpu c: the completion runs here if this is the
\* requested cpu, shares its cache (unless forced), or that cpu is offline;
\* otherwise raise_blk_irq() sends it over.
__blk_complete_request(r, c) ==
  LET ccpu   == IF rq_cpu[r] = NoCpu THEN c ELSE rq_cpu[r]
      shared == rq_affinity # 2 /\ CacheOf[c] = CacheOf[ccpu]
  IN  /\ c \in online
      /\ state[r] = "busy"
      /\ state' = [state EXCEPT ![r] = "completing"]
      /\ IF ccpu = c \/ shared \/ ccpu \notin online
         THEN AddTail(c, <<r>>) /\ UNCHANGED call_queue
         ELSE /\ call_queue' = [call_queue EXCEPT ![ccpu] = Append(@, r)]
              /\ UNCHANGED <<blk_cpu_done, raised>>
      /\ UNCHANGED <<hotVars, rq_affinity, rq_cpu, runVars>>

\* The IPI: flush_smp_call_function_queue() calls trigger_softirq() for every
\* request queued for this cpu.
trigger_softirq(c) ==
  /\ c \in online
  /\ call_queue[c] # <<>>
  /\ AddTail(c, call_queue[c])
  /\ call_queue' = [call_queue EXCEPT ![c] = <<>>]
  /\ UNCHANGED <<hotVars, rq_affinity, state, rq_cpu, runVars>>

\* __do_softirq() clears the pending bit, enables interrupts and calls the
\* handler, which has not looked at the list yet.
SoftirqEnter(c) ==
  /\ c \in online /\ c \in raised
  /\ softirq[c] = "idle"
  /\ softirq' = [softirq EXCEPT ![c] = "entered"]
  /\ raised' = raised \ {c}
  /\ UNCHANGED <<hotVars, rq_affinity, state, rq_cpu, call_queue,
                 blk_cpu_done, local_list>>

\* Mutation: the list is copied but not emptied.
DoneWithoutInit(c) ==
  /\ softirq[c] = "entered"
  /\ softirq' = [softirq EXCEPT ![c] = "drain"]
  /\ local_list' = [local_list EXCEPT ![c] = blk_cpu_done[c]]
  /\ UNCHANGED <<hotVars, rq_affinity, state, rq_cpu, call_queue,
                 blk_cpu_done, raised>>

\* blk_done_softirq(): the whole list moves to local_list,
blk_done_softirq(c) ==
  /\ softirq[c] = "entered"
  /\ softirq' = [softirq EXCEPT ![c] = "drain"]
  /\ local_list' = [local_list EXCEPT ![c] = blk_cpu_done[c]]
  /\ blk_cpu_done' = [blk_cpu_done EXCEPT ![c] = <<>>]
  /\ UNCHANGED <<hotVars, rq_affinity, state, rq_cpu, call_queue, raised>>

\* and each entry of it goes to softirq_done_fn, which ends the request.
SoftirqDone(c) ==
  /\ softirq[c] = "drain"
  /\ local_list[c] # <<>>
  /\ local_list' = [local_list EXCEPT ![c] = Tail(@)]
  /\ state' = [state EXCEPT ![Head(local_list[c])] = "idle"]
  /\ UNCHANGED <<hotVars, rq_affinity, rq_cpu, call_queue, blk_cpu_done,
                 raised, softirq>>

SoftirqExit(c) ==
  /\ softirq[c] = "drain"
  /\ local_list[c] = <<>>
  /\ softirq' = [softirq EXCEPT ![c] = "idle"]
  /\ UNCHANGED <<hotVars, rq_affinity, state, rq_cpu, call_queue,
                 blk_cpu_done, raised, local_list>>

-----------------------------------------------------------------------------
(* cpu hotplug *)

\* take_cpu_down() inside stop_machine(): no softirq is running on the cpu.
\* The CPU_DYING notifier of kernel/smp.c runs the IPIs that are still queued.
take_cpu_down(c) ==
  /\ hotplugs < MaxHotplug
  /\ hotplugs' = hotplugs + 1
  /\ dead = NoCpu
  /\ c \in online /\ online # {c}
  /\ softirq[c] = "idle"
  /\ online' = online \ {c}
  /\ dead' = c
  /\ AddTail(c, call_queue[c])
  /\ call_queue' = [call_queue EXCEPT ![c] = <<>>]
  /\ UNCHANGED <<rq_affinity, state, rq_cpu, runVars>>

\* Mutations: the notifier splices without raising the softirq, or misses
\* CPU_DEAD_FROZEN and does nothing.
NotifyWithoutRaise(c) ==
  /\ dead # NoCpu
  /\ c \in online
  /\ softirq[c] = "idle"
  /\ blk_cpu_done' = [blk_cpu_done EXCEPT
                        ![c] = blk_cpu_done[dead] \o blk_cpu_done[c],
                        ![dead] = <<>>]
  /\ dead' = NoCpu
  /\ UNCHANGED <<online, hotplugs, rq_affinity, state, rq_cpu, call_queue,
                 raised, runVars>>
NotifyIgnored(c) ==
  /\ dead # NoCpu
  /\ c \in online
  /\ dead' = NoCpu
  /\ UNCHANGED <<online, hotplugs, rq_affinity, state, rq_cpu, call_queue,
                 blk_cpu_done, raised, runVars>>

\* blk_cpu_notify(CPU_DEAD), in process context on cpu c: the entries of the
\* dead cpu go to the front of this one's list.
blk_cpu_notify(c) ==
  /\ dead # NoCpu
  /\ c \in online
  /\ softirq[c] = "idle"
  /\ blk_cpu_done' = [blk_cpu_done EXCEPT
                        ![c] = blk_cpu_done[dead] \o blk_cpu_done[c],
                        ![dead] = <<>>]
  /\ raised' = raised \cup {c}
  /\ dead' = NoCpu
  /\ UNCHANGED <<online, hotplugs, rq_affinity, state, rq_cpu, call_queue,
                 runVars>>

\* The cpu comes back; its pending bits survived.
cpu_up(c) ==
  /\ dead = NoCpu
  /\ c \notin online
  /\ online' = online \cup {c}
  /\ UNCHANGED <<dead, hotplugs, rq_affinity, state, rq_cpu, call_queue,
                 blk_cpu_done, raised, runVars>>

-----------------------------------------------------------------------------
Softirq(c) == \/ SoftirqEnter(c) \/ blk_done_softirq(c)
              \/ SoftirqDone(c) \/ SoftirqExit(c)
CpuDead == \E c \in Cpu : blk_cpu_notify(c)

Next == \/ \E val \in 0..2 : queue_rq_affinity_store(val)
        \/ \E r \in Rq, c \in Cpu : \/ blk_queue_bio(r, c)
                                    \/ __blk_complete_request(r, c)
        \/ \E c \in Cpu : \/ trigger_softirq(c)
                          \/ Softirq(c)
                          \/ take_cpu_down(c)
                          \/ cpu_up(c)
        \/ CpuDead

\* Raised softirqs and queued IPIs run on every cpu that is up, and the
\* hotplug operation that took a cpu down finishes.
Fairness == /\ \A c \in Cpu : WF_vars(Softirq(c)) /\ WF_vars(trigger_softirq(c))
            /\ SF_vars(CpuDead)

Spec == Init /\ [][Next]_vars
FairSpec == Spec /\ Fairness

-----------------------------------------------------------------------------
(* Properties *)

\* Every variable has its type.
TypeOK ==
  /\ online \subseteq Cpu
  /\ dead \in Cpu \cup {NoCpu}
  /\ hotplugs \in 0..MaxHotplug
  /\ rq_affinity \in 0..2
  /\ state \in [Rq -> {"idle", "busy", "completing"}]
  /\ rq_cpu \in [Rq -> Cpu \cup {NoCpu}]
  /\ call_queue \in [Cpu -> Seq(Rq)]
  /\ blk_cpu_done \in [Cpu -> Seq(Rq)]
  /\ raised \subseteq Cpu
  /\ softirq \in [Cpu -> {"idle", "entered", "drain"}]
  /\ local_list \in [Cpu -> Seq(Rq)]

\* "If there are already entries there, someone already raised the irq but it
\* hasn't run yet" (__blk_complete_request): a list with entries always has a
\* softirq to come, or one that has not taken the list yet.
SoftirqComing == \A c \in online :
  blk_cpu_done[c] # <<>> => c \in raised \/ softirq[c] = "entered"

\* A cpu that is gone keeps nothing: its list and its IPI queue are empty once
\* the notifiers have run, and it never goes down in the middle of a softirq.
NothingStranded == \A c \in Cpu \ online :
  /\ call_queue[c] = <<>> /\ local_list[c] = <<>> /\ softirq[c] = "idle"
  /\ c # dead => blk_cpu_done[c] = <<>>

\* The lists of a cpu: IPIs on their way, completions, and those that its
\* softirq has taken.
Kind == {"call", "done", "local"}
ListOf(l, c) == IF l = "call" THEN call_queue[c]
                ELSE IF l = "done" THEN blk_cpu_done[c] ELSE local_list[c]

\* The places of a request on the lists of all cpus.
SlotsOn(l, c, r) ==
  {<<l, c, i>> : i \in {j \in DOMAIN ListOf(l, c) : ListOf(l, c)[j] = r}}
Slots(r) == UNION {UNION {SlotsOn(l, c, r) : c \in Cpu} : l \in Kind}

\* Every completing request is on exactly one list, once, so its
\* softirq_done_fn will be called once; nobody else's is called.
DeliveredOnce == \A r \in Rq :
  Cardinality(Slots(r)) = IF state[r] = "completing" THEN 1 ELSE 0

\* Every completion is delivered, whatever cpu goes away meanwhile.
EveryCompletionDelivered == \A r \in Rq :
  state[r] = "completing" ~> state[r] # "completing"

\* A softirq runs only on a cpu that is up and leaves nothing on local_list;
\* the cpu whose notifiers are to run is down.
RunInv ==
  /\ \A c \in Cpu : /\ softirq[c] # "idle" => c \in online
                    /\ softirq[c] # "drain" => local_list[c] = <<>>
  /\ dead \notin online

InList(s, x) == \E i \in DOMAIN s : s[i] = x
Distinct(s) == \A i, j \in DOMAIN s : s[i] = s[j] => i = j

\* No list has an entry twice, no two lists have one in common, and the
\* entries are the completing requests.
PlaceInv ==
  /\ \A l \in Kind, c \in Cpu : Distinct(ListOf(l, c))
  /\ \A l, m \in Kind, c, d \in Cpu, r \in Rq :
       InList(ListOf(l, c), r) /\ InList(ListOf(m, d), r) => l = m /\ c = d
  /\ \A r \in Rq : state[r] = "completing"
                    <=> \E l \in Kind, c \in Cpu : InList(ListOf(l, c), r)

\* The inductive invariant: lists, pending softirqs and cpu_online_mask agree.
IInv == TypeOK /\ RunInv /\ SoftirqComing /\ NothingStranded /\ PlaceInv
=============================================================================
