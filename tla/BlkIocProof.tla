---------------------------- MODULE BlkIocProof ----------------------------
(***************************************************************************)
(* Proofs about BlkIoc: the reference counts of I/O contexts are exact,    *)
(* no pointer outlives what it points to although icqs have no reference   *)
(* count, and every icq is exited in time and by its elevator.  They hold  *)
(* for any number of processes, contexts, queues, icqs and requests.       *)
(***************************************************************************)
EXTENDS BlkIoc, FiniteSetTheorems, TLAPS

-----------------------------------------------------------------------------
(* Counting *)

\* One element more or less changes a cardinality by one.
LEMMA CardAdd ==
  ASSUME NEW S, IsFiniteSet(S), NEW x, x \notin S
  PROVE  /\ IsFiniteSet(S \cup {x})
         /\ Cardinality(S \cup {x}) = Cardinality(S) + 1
         /\ Cardinality(S) \in Nat
BY FS_AddElement, FS_CardinalityType

\* The same the other way round.
LEMMA CardDel ==
  ASSUME NEW S, IsFiniteSet(S), NEW x \in S
  PROVE  /\ Cardinality(S \ {x}) = Cardinality(S) - 1
         /\ Cardinality(S) \in Nat \ {0}
<1>1. Cardinality(S) \in Nat /\ (Cardinality(S) = 0 <=> S = {})
  BY FS_CardinalityType, FS_EmptySet
<1> QED BY <1>1, FS_RemoveElement

\* The sets of reference holders are finite.
LEMMA HoldersFinite ==
  ASSUME NEW i
  PROVE  /\ IsFiniteSet(Active(i)) /\ Cardinality(Active(i)) \in Nat
         /\ IsFiniteSet(Users(i)) /\ Cardinality(Users(i)) \in Nat
         /\ IsFiniteSet(Requests(i)) /\ Cardinality(Requests(i)) \in Nat
<1>1. Active(i) \subseteq Task /\ Users(i) \subseteq Task
  BY DEF Active, Users
<1>2. Requests(i) \subseteq Rq
  BY DEF Requests
<1> QED BY <1>1, <1>2, IocAssumption, FS_Subset, FS_CardinalityType
        DEF IocAssumption

\* A holder shows in the count: nobody puts a reference that is not there.
LEMMA HolderCounts ==
  ASSUME IInv, NEW i \in alive
  PROVE  /\ \A t \in Active(i) : active_ref[i] > 0
         /\ \A t \in Users(i) : refcount[i] > 0
         /\ \A r \in Requests(i) : refcount[i] > 0
<1>1. \A t \in Active(i) : Cardinality(Active(i)) \in Nat \ {0}
  BY HoldersFinite, CardDel
<1>2. \A t \in Users(i) : Cardinality(Users(i)) \in Nat \ {0}
  BY HoldersFinite, CardDel
<1>3. \A r \in Requests(i) : Cardinality(Requests(i)) \in Nat \ {0}
  BY HoldersFinite, CardDel
<1>4. /\ active_ref[i] = Cardinality(Active(i))
      /\ refcount[i] = Cardinality(Users(i)) + Cardinality(Requests(i))
  BY DEF IInv, RefsExact
<1>5. Cardinality(Users(i)) \in Nat /\ Cardinality(Requests(i)) \in Nat
  BY HoldersFinite
<1> QED BY <1>1, <1>2, <1>3, <1>4, <1>5

\* Whoever has an ioc and is not releasing it keeps its count up.
LEMMA TaskHolds ==
  ASSUME IInv, NEW t \in Task, ioc[t] # Nil
  PROVE  /\ ioc[t] \in alive /\ ioc[t] \in Ioc
         /\ pc[t] # "last" => refcount[ioc[t]] > 0
         /\ pc[t] \notin {"walk", "exit", "put", "last"}
              => active_ref[ioc[t]] > 0
<1>1. ioc[t] \in alive /\ alive \subseteq Ioc
  BY DEF IInv, NoUseAfterFree, TypeOK
<1>2. /\ pc[t] # "last" => t \in Users(ioc[t])
      /\ pc[t] \notin {"walk", "exit", "put", "last"} => t \in Active(ioc[t])
  BY DEF Users, Active
<1> QED BY <1>1, <1>2, HolderCounts

\* So does a request that is not the last holder.
LEMMA RequestHolds ==
  ASSUME IInv, NEW r \in Rq, rq[r] # Nil
  PROVE  /\ rq[r] \in Linked /\ rq[r] \in Icq
         /\ icq[rq[r]].ioc \in alive /\ icq[rq[r]].ioc \in Ioc
         /\ r \notin last => refcount[icq[rq[r]].ioc] > 0
<1>1. rq[r] \in Linked /\ rq[r] \in Icq
  BY DEF IInv, NoUseAfterFree, Linked
<1>2. icq[rq[r]].ioc \in alive /\ alive \subseteq Ioc
  BY <1>1 DEF IInv, NoUseAfterFree, TypeOK
<1>3. r \notin last => r \in Requests(icq[rq[r]].ioc)
  BY DEF Requests
<1> QED BY <1>1, <1>2, <1>3, HolderCounts

-----------------------------------------------------------------------------
(* Helpers *)

\* What ioc_lookup_icq() returns: the hint if it is the queue's, else the icq
\* of the pair if there is one.
LEMMA FoundIs ==
  ASSUME NEW i, NEW q, NEW h
  PROVE  \/ Hit(h, q) /\ Found(i, q, h) = h
         \/ /\ ~Hit(h, q)
            /\ Found(i, q, h) \in OfIoc(i)
            /\ icq[Found(i, q, h)].q = q
         \/ /\ ~Hit(h, q)
            /\ Found(i, q, h) = Nil
            /\ \A c \in OfIoc(i) : icq[c].q # q
<1>1. CASE Hit(h, q)
  BY <1>1 DEF Found
<1>2. CASE ~Hit(h, q) /\ \E c \in OfIoc(i) : icq[c].q = q
  <2>1. PICK c \in OfIoc(i) : icq[c].q = q
    BY <1>2
  <2>2. Found(i, q, h) = CHOOSE d \in OfIoc(i) : icq[d].q = q
    BY <1>2 DEF Found
  <2> QED BY <1>2, <2>1, <2>2
<1>3. CASE ~Hit(h, q) /\ ~(\E c \in OfIoc(i) : icq[c].q = q)
  BY <1>3 DEF Found
<1> QED BY <1>1, <1>2, <1>3

\* The type of an icq.
IcqRecord == [st : {"free", "new", "linked", "rcu"},
              ioc : Ioc \cup {Nil}, q : Queue \cup {Nil},
              exited : BOOLEAN, stale : BOOLEAN]

\* d is left alone, or keeps its links.
SameIcq(d) == icq'[d] = icq[d]
SameLinks(d) == /\ icq'[d].ioc = icq[d].ioc
                /\ icq'[d].q = icq[d].q
                /\ icq'[d].stale = icq[d].stale

\* What ioc_destroy_icq() does to the icqs and the hints.
LEMMA DestroyEffect ==
  ASSUME TypeOK, NEW c \in Linked, icq[c].ioc \in Ioc, ioc_destroy_icq(c)
  PROVE  /\ icq' \in [Icq -> IcqRecord]
         /\ \A d \in Icq : SameLinks(d)
         /\ \A d \in Icq \ {c} : SameIcq(d)
         /\ icq'[c].st = "rcu" /\ icq'[c].exited = TRUE
         /\ Linked' = Linked \ {c}
         /\ icq_hint' \in [Ioc -> Icq \cup {Nil}]
         /\ \A i \in Ioc : icq_hint'[i] \in {Nil, icq_hint[i]}
         /\ icq_hint'[icq[c].ioc] # c
         /\ readers' = [readers EXCEPT ![c] =
                          {t \in Task : pc[t] = "lookup"}]
<1> USE DEF IcqRecord, SameIcq, SameLinks
<1>1. c \in Icq /\ icq \in [Icq -> IcqRecord]
  BY DEF TypeOK, Linked
<1>2. icq' = [icq EXCEPT ![c] = [icq[c] EXCEPT !.st = "rcu",
                                               !.exited = TRUE]]
  BY <1>1 DEF ioc_destroy_icq
<1>3. /\ icq'[c] = [icq[c] EXCEPT !.st = "rcu", !.exited = TRUE]
      /\ \A d \in Icq \ {c} : icq'[d] = icq[d]
  BY <1>1, <1>2
<1>4. /\ icq'[c] \in IcqRecord
      /\ icq'[c].st = "rcu" /\ icq'[c].exited = TRUE
      /\ icq'[c].ioc = icq[c].ioc /\ icq'[c].q = icq[c].q
      /\ icq'[c].stale = icq[c].stale
  <2>1. icq[c] \in IcqRecord
    BY <1>1
  <2>2. icq'[c].st = "rcu" /\ icq'[c].ioc = icq[c].ioc /\ icq'[c].q = icq[c].q
    BY <1>3, <2>1
  <2>3. icq'[c].stale = icq[c].stale
    BY <1>3, <2>1
  <2>4. icq'[c].exited = TRUE
    BY <1>3, <2>1
  <2>5. icq'[c] \in IcqRecord
    BY <1>3, <2>1
  <2> QED BY <2>2, <2>3, <2>4, <2>5
<1>5. icq' \in [Icq -> IcqRecord]
  BY <1>1, <1>2, <1>4
<1>6. Linked' = Linked \ {c}
  <2>1. \A d \in Icq : d \in Linked' <=> d \in Linked /\ d # c
    BY <1>1, <1>3, <1>4 DEF Linked
  <2> QED BY <2>1 DEF Linked
<1>7. /\ icq_hint' \in [Ioc -> Icq \cup {Nil}]
      /\ \A i \in Ioc : icq_hint'[i] \in {Nil, icq_hint[i]}
      /\ icq_hint'[icq[c].ioc] # c
  <2>1. c # Nil /\ icq_hint \in [Ioc -> Icq \cup {Nil}]
    BY <1>1, IocAssumption DEF TypeOK, IocAssumption
  <2>2. CASE icq_hint' = [icq_hint EXCEPT ![icq[c].ioc] = Nil]
    BY <2>1, <2>2
  <2>3. CASE icq_hint[icq[c].ioc] # c /\ UNCHANGED icq_hint
    BY <2>1, <2>3
  <2> QED BY <2>2, <2>3 DEF ioc_destroy_icq
<1> QED BY <1>1, <1>3, <1>4, <1>5, <1>6, <1>7 DEF ioc_destroy_icq

\* What ioc_exit_icq() does.
LEMMA ExitEffect ==
  ASSUME TypeOK, NEW t \in Task, NEW c \in Icq, WalkExit(t, c)
  PROVE  /\ icq' \in [Icq -> IcqRecord]
         /\ \A d \in Icq : SameLinks(d) /\ icq'[d].st = icq[d].st
         /\ \A d \in Icq \ {c} : SameIcq(d)
         /\ icq'[c].exited = TRUE
         /\ Linked' = Linked
         /\ c \in Linked /\ icq[c].ioc = ioc[t]
<1> USE DEF IcqRecord, SameIcq, SameLinks
<1>1. icq \in [Icq -> IcqRecord]
  BY DEF TypeOK
<1>2. icq' = [icq EXCEPT ![c] = [icq[c] EXCEPT !.exited = TRUE]]
  BY <1>1 DEF WalkExit
<1>3. /\ icq'[c] = [icq[c] EXCEPT !.exited = TRUE]
      /\ \A d \in Icq \ {c} : icq'[d] = icq[d]
  BY <1>1, <1>2
<1>4. /\ icq'[c] \in IcqRecord
      /\ icq'[c].st = icq[c].st /\ icq'[c].exited = TRUE
      /\ icq'[c].ioc = icq[c].ioc /\ icq'[c].q = icq[c].q
      /\ icq'[c].stale = icq[c].stale
  <2>1. icq[c] \in IcqRecord
    BY <1>1
  <2>2. icq'[c].st = icq[c].st /\ icq'[c].ioc = icq[c].ioc /\ icq'[c].q = icq[c].q
    BY <1>3, <2>1
  <2>3. icq'[c].stale = icq[c].stale
    BY <1>3, <2>1
  <2>4. icq'[c].exited = TRUE
    BY <1>3, <2>1
  <2>5. icq'[c] \in IcqRecord
    BY <1>3, <2>1
  <2> QED BY <2>2, <2>3, <2>4, <2>5
<1>5. icq' \in [Icq -> IcqRecord]
  BY <1>1, <1>2, <1>4
<1>6. Linked' = Linked
  BY <1>1, <1>3, <1>4 DEF Linked
<1>7. c \in Linked /\ icq[c].ioc = ioc[t]
  BY DEF WalkExit, OfIoc
<1> QED BY <1>1, <1>3, <1>4, <1>5, <1>6, <1>7

\* What linking a new icq does.
LEMMA LinkEffect ==
  ASSUME TypeOK, NEW c \in Icq, icq' = [icq EXCEPT ![c].st = "linked"]
  PROVE  /\ icq' \in [Icq -> IcqRecord]
         /\ \A d \in Icq : SameLinks(d) /\ icq'[d].exited = icq[d].exited
         /\ \A d \in Icq \ {c} : SameIcq(d)
         /\ icq'[c].st = "linked"
         /\ Linked' = Linked \cup {c}
<1> USE DEF IcqRecord, SameIcq, SameLinks
<1>1. icq \in [Icq -> IcqRecord]
  BY DEF TypeOK
<1>2. icq' = [icq EXCEPT ![c] = [icq[c] EXCEPT !.st = "linked"]]
  BY <1>1
<1>3. /\ icq'[c] = [icq[c] EXCEPT !.st = "linked"]
      /\ \A d \in Icq \ {c} : icq'[d] = icq[d]
  BY <1>1, <1>2
<1>4. /\ icq'[c] \in IcqRecord
      /\ icq'[c].st = "linked" /\ icq'[c].exited = icq[c].exited
      /\ icq'[c].ioc = icq[c].ioc /\ icq'[c].q = icq[c].q
      /\ icq'[c].stale = icq[c].stale
  BY <1>1, <1>3
<1>5. icq' \in [Icq -> IcqRecord]
  BY <1>1, <1>2, <1>4
<1>6. Linked' = Linked \cup {c}
  BY <1>1, <1>3, <1>4 DEF Linked
<1> QED BY <1>1, <1>3, <1>4, <1>5, <1>6

\* What changing an icq that is not linked to one that is not does.
LEMMA SetEffect ==
  ASSUME TypeOK, NEW c \in Icq, NEW x \in IcqRecord,
         icq[c].st # "linked", x.st # "linked",
         icq' = [icq EXCEPT ![c] = x]
  PROVE  /\ icq' \in [Icq -> IcqRecord]
         /\ \A d \in Icq \ {c} : SameIcq(d)
         /\ icq'[c] = x
         /\ Linked' = Linked
<1>1. icq \in [Icq -> IcqRecord]
  BY DEF TypeOK, IcqRecord
<1>2. icq'[c] = x /\ \A d \in Icq \ {c} : icq'[d] = icq[d]
  BY <1>1
<1>3. icq' \in [Icq -> IcqRecord]
  BY <1>1
<1>4. Linked' = Linked
  BY <1>2 DEF Linked
<1> QED BY <1>2, <1>3, <1>4 DEF SameIcq

\* What the end of a clearing does: the icqs of the queue become stale, but
\* there are none that are linked.
LEMMA EndEffect ==
  ASSUME TypeOK, DrainInv, TaskInv, NEW q \in Queue, NEW where,
         ClearEnd(q, where)
  PROVE  /\ icq' \in [Icq -> IcqRecord]
         /\ \A d \in Icq : /\ icq'[d].st = icq[d].st
                           /\ icq'[d].ioc = icq[d].ioc
                           /\ icq'[d].q = icq[d].q
                           /\ icq'[d].exited = icq[d].exited
                           /\ icq[d].q # q => SameIcq(d)
         /\ Linked' = Linked
         /\ \A d \in Linked : SameIcq(d)
<1> USE DEF IcqRecord, SameIcq
<1>1. icq \in [Icq -> IcqRecord]
  BY DEF TypeOK
<1>2. ASSUME NEW d \in Icq
      PROVE  /\ icq'[d] \in IcqRecord
             /\ icq'[d].st = icq[d].st
             /\ icq'[d].ioc = icq[d].ioc
             /\ icq'[d].q = icq[d].q
             /\ icq'[d].exited = icq[d].exited
             /\ icq[d].q # q => icq'[d] = icq[d]
  <2>1. icq'[d] = [icq[d] EXCEPT !.stale = @ \/
                    (icq[d].q = q /\ icq[d].st \in {"new", "linked"})]
    BY DEF ClearEnd
  <2>2. icq[d] \in IcqRecord
    BY <1>1
  <2>3. CASE icq[d].q # q
    <3>1. icq'[d] = [icq[d] EXCEPT !.stale = icq[d].stale]
      BY <2>1, <2>2, <2>3
    <3> QED BY <3>1, <2>2
  <2>4. CASE icq[d].q = q
    BY <2>1, <2>2, <2>4
  <2> QED BY <2>3, <2>4
<1>3. icq' \in [Icq -> IcqRecord]
  <2>1. DOMAIN icq' = Icq /\ icq' = [d \in Icq |-> icq'[d]]
    BY DEF ClearEnd
  <2> QED BY <2>1, <1>2
<1>4. Linked' = Linked
  BY <1>2 DEF Linked
<1>5. \A d \in Linked : icq[d].q # q
  BY DEF DrainInv, ClearEnd, OfQueue
<1> QED BY <1>2, <1>3, <1>4, <1>5 DEF Linked

-----------------------------------------------------------------------------
(* The parts of the invariants *)

\* NoUseAfterFree, pointer by pointer.
HintsLive == \A i \in alive : icq_hint[i] # Nil => icq_hint[i] \in OfIoc(i)
IcqsLive == \A c \in Linked : /\ icq[c].ioc \in alive
                              /\ state[icq[c].q] # "gone"
IocsLive == \A t \in Task : ioc[t] # Nil => ioc[t] \in alive
SetsLive == \A t \in Task : pc[t] = "set" =>
              ptr[t] \in OfIoc(ioc[t]) \cap OfQueue(queue[t])
LookupsLive == \A t \in Task : pc[t] = "lookup" /\ ptr[t] # Nil =>
                 icq[ptr[t]].st # "free"
RequestsLive == \A r \in Rq : rq[r] # Nil => rq[r] \in Linked
VictimsLive == \A q \in Queue : state[q] = "pick" => victim[q] \in OfQueue(q)
WorksLive == \A i \in Ioc : release_work[i] # "no" => i \in alive

\* The parts hold now...
LEMMA PointersNow ==
  ASSUME IInv
  PROVE  /\ HintsLive /\ IcqsLive /\ IocsLive /\ SetsLive /\ LookupsLive
         /\ RequestsLive /\ VictimsLive /\ WorksLive
BY DEF IInv, NoUseAfterFree, HintsLive, IcqsLive, IocsLive, SetsLive,
       LookupsLive, RequestsLive, VictimsLive, WorksLive

\* ...and make up the whole.
LEMMA PointersNext ==
  ASSUME HintsLive', IcqsLive', IocsLive', SetsLive', LookupsLive',
         RequestsLive', VictimsLive', WorksLive'
  PROVE  NoUseAfterFree'
BY DEF NoUseAfterFree, HintsLive, IcqsLive, IocsLive, SetsLive, LookupsLive,
       RequestsLive, VictimsLive, WorksLive

\* TaskInv: a process has what it works on, and a new icq has one creator.
Placed == \A t \in Task :
  /\ pc[t] # "idle" => ioc[t] # Nil
  /\ pc[t] \in {"lookup", "create", "link", "set"} => queue[t] # Nil
IsNew(t) == /\ ptr[t] # Nil
            /\ icq[ptr[t]] = [st |-> "new", ioc |-> ioc[t], q |-> queue[t],
                              exited |-> FALSE, stale |-> FALSE]
Creating == \A t \in Task : pc[t] = "link" => IsNew(t)
OneCreator == \A t, u \in Task :
  pc[t] = "link" /\ pc[u] = "link" /\ ptr[t] = ptr[u] => t = u
OnQueues == \A c \in Linked : icq[c].q # Nil

\* The parts make up the whole.
LEMMA TaskParts ==
  ASSUME Placed', Creating', OneCreator', OnQueues'
  PROVE  TaskInv'
BY DEF TaskInv, Placed, Creating, IsNew, OneCreator, OnQueues

\* IoschedNotified: somebody will exit the icq, or it has been exited.
Watched(c) == \/ icq[c].exited
              \/ Active(icq[c].ioc) # {}
              \/ \E t \in Task : ioc[t] = icq[c].ioc
                                  /\ pc[t] \in {"walk", "exit"}
NoneStale == \A c \in Linked : ~icq[c].stale
OnePerPair == \A c, d \in Linked :
  icq[c].ioc = icq[d].ioc /\ icq[c].q = icq[d].q => c = d

\* The parts make up the whole.
LEMMA NotifiedParts ==
  ASSUME \A c \in Linked' : Watched(c)', NoneStale', OnePerPair'
  PROVE  IoschedNotified'
BY DEF IoschedNotified, Watched, NoneStale, OnePerPair

\* LastInv: who releases an ioc, and that nobody else does.
LastTasks == \A t \in Task : pc[t] = "last" =>
  /\ refcount[ioc[t]] = 0
  /\ release_work[ioc[t]] = "no"
  /\ \A u \in Task : pc[u] = "last" /\ ioc[u] = ioc[t] => u = t
  /\ \A r \in last : icq[rq[r]].ioc # ioc[t]
LastRequests == \A r \in last :
  /\ rq[r] # Nil
  /\ refcount[icq[rq[r]].ioc] = 0
  /\ release_work[icq[rq[r]].ioc] = "no"
  /\ \A p \in last : icq[rq[p]].ioc = icq[rq[r]].ioc => p = r
LastWorks == \A i \in Ioc : release_work[i] # "no" => refcount[i] = 0

\* The parts make up the whole.
LEMMA LastParts ==
  ASSUME LastTasks', LastRequests', LastWorks'
  PROVE  LastInv'
BY DEF LastInv, LastTasks, LastRequests, LastWorks

\* RefsExact for one ioc.
Exact(i) == /\ active_ref[i] = Cardinality(Active(i))
            /\ refcount[i] = Cardinality(Users(i)) + Cardinality(Requests(i))

-----------------------------------------------------------------------------
(* What leaves the counts and the notifications alone *)

\* Steps that move nobody between holders and non-holders keep the counts.
LEMMA RefsKept ==
  ASSUME RefsExact,
         alive' \subseteq alive, last' = last,
         \A j \in alive' : /\ active_ref'[j] = active_ref[j]
                           /\ refcount'[j] = refcount[j],
         \A t \in Task :
           /\ ioc'[t] = ioc[t]
           /\ pc'[t] = "last" <=> pc[t] = "last"
           /\ pc'[t] \in {"walk", "exit", "put", "last"}
                <=> pc[t] \in {"walk", "exit", "put", "last"},
         \A r \in Rq : /\ rq'[r] = rq[r]
                       /\ rq[r] # Nil => icq'[rq[r]].ioc = icq[rq[r]].ioc
  PROVE  RefsExact'
<1> SUFFICES ASSUME NEW j \in alive'
             PROVE  Exact(j)'
  BY DEF RefsExact, Exact
<1>1. Active(j)' = Active(j)
  BY DEF Active
<1>2. Users(j)' = Users(j)
  BY DEF Users
<1>3. Requests(j)' = Requests(j)
  BY DEF Requests
<1> QED BY <1>1, <1>2, <1>3 DEF RefsExact, Exact

\* Steps that link no icq, and that let nobody go who is active or walks, keep
\* the notifications coming.
LEMMA NotifiedKept ==
  ASSUME IoschedNotified, Linked' \subseteq Linked, TaskInv,
         \A c \in Linked' : /\ icq'[c].ioc = icq[c].ioc
                            /\ icq'[c].q = icq[c].q
                            /\ icq'[c].stale = icq[c].stale
                            /\ icq[c].exited => icq'[c].exited
                            /\ icq[c].ioc # Nil,
         \A t \in Task : ioc[t] # Nil /\ pc[t] \notin {"put", "last"}
           => ioc'[t] = ioc[t] /\ pc'[t] \notin {"put", "last"}
  PROVE  IoschedNotified'
<1>1. ASSUME NEW c \in Linked', ~icq'[c].exited
      PROVE  \E t \in Task : ioc'[t] = icq'[c].ioc
                               /\ pc'[t] \notin {"put", "last"}
  <2>1. \E t \in Task : ioc[t] = icq[c].ioc /\ pc[t] \notin {"put", "last"}
    BY <1>1 DEF IoschedNotified, Active
  <2> QED BY <2>1, <1>1
<1>2. ASSUME NEW c \in Linked'
      PROVE  Watched(c)'
  BY <1>1 DEF Active, Watched
<1>3. NoneStale'
  BY DEF IoschedNotified, NoneStale
<1>4. OnePerPair'
  BY DEF IoschedNotified, OnePerPair
<1> QED BY <1>2, <1>3, <1>4, NotifiedParts

\* Changes of the icqs that no request uses leave the releases alone.
LEMMA LastKept ==
  ASSUME LastInv, TypeOK, UNCHANGED <<refcount, release_work, last, rq, ioc>>,
         \A t \in Task : pc'[t] = "last" <=> pc[t] = "last",
         \A r \in last : icq'[rq[r]].ioc = icq[rq[r]].ioc
  PROVE  LastInv'
BY DEF LastInv, TypeOK

\* Without references, an ioc has no users but who releases it.
LEMMA NoHolders ==
  ASSUME IInv, NEW i \in alive, refcount[i] = 0
  PROVE  /\ \A t \in Task : ioc[t] = i => pc[t] = "last"
         /\ \A r \in Rq : rq[r] # Nil /\ icq[rq[r]].ioc = i => r \in last
<1>1. i \in Ioc /\ i # Nil
  BY IocAssumption DEF IInv, TypeOK, IocAssumption
<1>2. ASSUME NEW t \in Task, ioc[t] = i, pc[t] # "last" PROVE FALSE
  BY <1>1, <1>2, TaskHolds DEF IInv, TypeOK
<1>3. ASSUME NEW r \in Rq, rq[r] # Nil, icq[rq[r]].ioc = i, r \notin last
      PROVE  FALSE
  BY <1>1, <1>3, RequestHolds DEF IInv, TypeOK
<1> QED BY <1>2, <1>3

\* While the work releases an ioc, nobody has it at all.
LEMMA WorkAlone ==
  ASSUME IInv, NEW i \in Ioc, release_work[i] # "no"
  PROVE  /\ i \in alive
         /\ \A t \in Task : ioc[t] # i
         /\ \A r \in Rq : rq[r] # Nil => icq[rq[r]].ioc # i
<1>1. i \in alive /\ refcount[i] = 0
  BY DEF IInv, NoUseAfterFree, LastInv
<1>2. \A t \in Task : ioc[t] # i
  BY <1>1, NoHolders DEF IInv, LastInv
<1>3. \A r \in Rq : rq[r] # Nil => icq[rq[r]].ioc # i
  BY <1>1, NoHolders DEF IInv, LastInv
<1> QED BY <1>1, <1>2, <1>3

\* The icq that a process is about to link.
LEMMA NewIcq ==
  ASSUME IInv, NEW t \in Task, pc[t] = "link"
  PROVE  /\ ptr[t] \in Icq /\ ptr[t] # Nil
         /\ icq[ptr[t]].st = "new"
         /\ icq[ptr[t]].ioc = ioc[t] /\ icq[ptr[t]].q = queue[t]
         /\ icq[ptr[t]].exited = FALSE /\ icq[ptr[t]].stale = FALSE
         /\ \A u \in Task : pc[u] = "link" /\ ptr[u] = ptr[t] => u = t
<1>1. /\ icq[ptr[t]] = [st |-> "new", ioc |-> ioc[t], q |-> queue[t],
                        exited |-> FALSE, stale |-> FALSE]
      /\ ptr[t] \in Icq /\ ptr[t] # Nil
  BY DEF IInv, TaskInv, TypeOK
<1>2. \A u \in Task : pc[u] = "link" /\ ptr[u] = ptr[t] => u = t
  BY DEF IInv, TaskInv
<1> QED BY <1>1, <1>2

-----------------------------------------------------------------------------
(* Every step preserves the invariant *)

\* A new io_context has one user, its creator.
LEMMA create_io_contextInv ==
  ASSUME IInv, NEW t \in Task, NEW i \in Ioc,
         create_io_context(t, i)
  PROVE  IInv'
<1>n. \A e \in Linked : icq[e].ioc # Nil
  BY IocAssumption DEF IInv, NoUseAfterFree, TypeOK, IocAssumption
<1>a. /\ \A u \in Task : ioc[u] # i
      /\ \A c \in Linked : icq[c].ioc # i
      /\ release_work[i] = "no"
  BY IocAssumption
     DEF IInv, create_io_context, NoUseAfterFree, TypeOK, IocAssumption
<1>b. \A r \in Rq : rq[r] # Nil => icq[rq[r]].ioc \in alive
  BY RequestHolds
<1>1. TypeOK'
  BY TaskHolds, RequestHolds, IocAssumption, <1>n, <1>a, <1>b
     DEF IInv, create_io_context, clearVars, TypeOK, TaskPc, IocAssumption,
         NoUseAfterFree, TaskInv
<1>2. LookupInv'
  BY <1>n, <1>a, <1>b
     DEF IInv, create_io_context, clearVars, LookupInv, TypeOK, NoUseAfterFree,
         OfIoc, Linked
<1>3. TaskInv'
  BY <1>n, <1>a, <1>b
     DEF IInv, create_io_context, clearVars, TaskInv, Linked, TypeOK
<1>4. DrainInv'
  BY DEF IInv, create_io_context, clearVars, DrainInv, Drained, OfQueue, Linked
<1>5. LastInv'
  BY <1>a, <1>b
     DEF IInv, create_io_context, clearVars, LastInv, TypeOK, TaskInv,
         NoUseAfterFree
<1>6. RefsExact'
  <2> SUFFICES ASSUME NEW j \in alive'
               PROVE  Exact(j)'
    BY DEF RefsExact, Exact
  <2>1. j \in Ioc /\ i \notin alive /\ pc[t] = "idle" /\ ioc[t] = Nil
    BY DEF create_io_context, IInv, TypeOK
  <2>2. ioc' = [ioc EXCEPT ![t] = i] /\ UNCHANGED <<pc, rq, last, icq>>
    BY DEF create_io_context
  <2>3. CASE j = i
    <3>1. Active(j)' = {t} /\ Users(j)' = {t}
      BY <2>1, <2>2, <2>3, <1>a DEF Active, Users, IInv, TypeOK
    <3>2. Requests(j)' = {}
      BY <2>1, <2>2, <2>3, <1>b DEF Requests
    <3>3. active_ref'[j] = 1 /\ refcount'[j] = 1
      BY <2>3 DEF create_io_context, IInv, TypeOK
    <3>4. /\ Cardinality(Active(j)') = 1 /\ Cardinality(Users(j)') = 1
          /\ Cardinality(Requests(j)') = 0
      BY <3>1, <3>2, FS_Singleton, FS_EmptySet
    <3> QED BY <3>3, <3>4 DEF Exact
  <2>4. CASE j # i
    <3>1. Active(j)' = Active(j) /\ Users(j)' = Users(j)
      BY <2>1, <2>2, <2>4, IocAssumption
         DEF Active, Users, IInv, TypeOK, IocAssumption
    <3>2. Requests(j)' = Requests(j)
      BY <2>2 DEF Requests
    <3>3. /\ j \in alive
          /\ active_ref'[j] = active_ref[j] /\ refcount'[j] = refcount[j]
      BY <2>1, <2>4 DEF create_io_context, IInv, TypeOK
    <3> QED BY <3>1, <3>2, <3>3 DEF IInv, RefsExact, Exact
  <2> QED BY <2>3, <2>4
<1>7. NoUseAfterFree'
  BY <1>n, <1>a, <1>b
     DEF IInv, create_io_context, clearVars, NoUseAfterFree, OfIoc, OfQueue,
         Linked, TypeOK
<1>8. IoschedNotified'
  BY NotifiedKept, <1>n
     DEF IInv, create_io_context, clearVars, TypeOK, Linked
<1> QED BY <1>1, <1>2, <1>3, <1>4, <1>5, <1>6, <1>7, <1>8 DEF IInv

\* A clone takes one reference of each kind.
LEMMA ioc_task_linkInv ==
  ASSUME IInv, NEW t \in Task, NEW u \in Task,
         ioc_task_link(t, u)
  PROVE  IInv'
<1>n. \A e \in Linked : icq[e].ioc # Nil
  BY IocAssumption DEF IInv, NoUseAfterFree, TypeOK, IocAssumption
<1>a. /\ ioc[t] \in alive /\ ioc[t] \in Ioc /\ ioc[t] # Nil
      /\ refcount[ioc[t]] > 0
  BY TaskHolds DEF ioc_task_link
<1>1. TypeOK'
  BY TaskHolds, RequestHolds, IocAssumption, <1>n, <1>a
     DEF IInv, ioc_task_link, clearVars, TypeOK, TaskPc, IocAssumption,
         NoUseAfterFree, TaskInv
<1>2. LookupInv'
  BY <1>n, <1>a
     DEF IInv, ioc_task_link, clearVars, LookupInv, TypeOK, NoUseAfterFree,
         OfIoc, Linked
<1>3. TaskInv'
  BY <1>n, <1>a
     DEF IInv, ioc_task_link, clearVars, TaskInv, Linked, TypeOK
<1>4. DrainInv'
  BY DEF IInv, ioc_task_link, clearVars, DrainInv, Drained, OfQueue, Linked
<1>5. LastInv'
  BY TaskHolds, RequestHolds, <1>n, <1>a
     DEF IInv, ioc_task_link, clearVars, LastInv, TypeOK
<1>6. RefsExact'
  <2> DEFINE i == ioc[t]
  <2> SUFFICES ASSUME NEW j \in alive'
               PROVE  Exact(j)'
    BY DEF RefsExact, Exact
  <2>1. /\ j \in alive /\ j \in Ioc /\ active_ref[j] \in Nat
        /\ refcount[j] \in Nat
    BY DEF ioc_task_link, IInv, TypeOK
  <2>2. /\ pc[u] = "idle" /\ ioc[u] = Nil /\ u # t
        /\ ioc' = [ioc EXCEPT ![u] = i]
        /\ UNCHANGED <<pc, rq, last, icq>>
    BY DEF ioc_task_link
  <2>3. Requests(j)' = Requests(j)
    BY <2>2 DEF Requests
  <2>4. /\ active_ref[j] = Cardinality(Active(j))
        /\ refcount[j] = Cardinality(Users(j)) + Cardinality(Requests(j))
    BY <2>1 DEF IInv, RefsExact
  <2>5. CASE j = i
    <3>1. Active(j)' = Active(j) \cup {u} /\ u \notin Active(j)
      BY <1>a, <2>2, <2>5 DEF Active, IInv, TypeOK
    <3>2. Users(j)' = Users(j) \cup {u} /\ u \notin Users(j)
      BY <1>a, <2>2, <2>5 DEF Users, IInv, TypeOK
    <3>3. active_ref'[j] = active_ref[j] + 1 /\ refcount'[j] = refcount[j] + 1
      BY <2>1, <2>5 DEF ioc_task_link, IInv, TypeOK
    <3>4. /\ Cardinality(Active(j)') = Cardinality(Active(j)) + 1
          /\ Cardinality(Users(j)') = Cardinality(Users(j)) + 1
      BY <3>1, <3>2, HoldersFinite, CardAdd
    <3> HIDE DEF i
    <3> QED BY <2>3, <2>4, <3>3, <3>4, HoldersFinite DEF Exact
  <2>6. CASE j # i
    <3>1. Active(j)' = Active(j) /\ Users(j)' = Users(j)
      BY <2>1, <2>2, <2>6, IocAssumption
         DEF Active, Users, IInv, TypeOK, IocAssumption
    <3>2. active_ref'[j] = active_ref[j] /\ refcount'[j] = refcount[j]
      BY <2>1, <2>6 DEF ioc_task_link, IInv, TypeOK
    <3> QED BY <2>3, <2>4, <3>1, <3>2 DEF Exact
  <2> QED BY <2>5, <2>6
<1>7. NoUseAfterFree'
  BY <1>n, <1>a
     DEF IInv, ioc_task_link, clearVars, NoUseAfterFree, OfIoc, OfQueue,
         Linked, TypeOK
<1>8. IoschedNotified'
  BY NotifiedKept, <1>n
     DEF IInv, ioc_task_link, clearVars, TypeOK, Linked
<1> QED BY <1>1, <1>2, <1>3, <1>4, <1>5, <1>6, <1>7, <1>8 DEF IInv

\* A reference is taken only from a process that has one.
LEMMA get_task_io_contextInv ==
  ASSUME IInv, NEW t \in Task, NEW u \in Task,
         get_task_io_context(t, u)
  PROVE  IInv'
<1>n. \A e \in Linked : icq[e].ioc # Nil
  BY IocAssumption DEF IInv, NoUseAfterFree, TypeOK, IocAssumption
<1>a. /\ ioc[u] \in alive /\ ioc[u] \in Ioc /\ ioc[u] # Nil /\ u # t
      /\ refcount[ioc[u]] > 0
  BY TaskHolds DEF get_task_io_context, Active
<1>b. \A v \in Task : pc[v] = "last" => ioc[v] # ioc[u]
  BY <1>a DEF IInv, LastInv
<1>1. TypeOK'
  BY TaskHolds, RequestHolds, IocAssumption, <1>n, <1>a, <1>b
     DEF IInv, get_task_io_context, Step, clearVars, TypeOK, TaskPc,
         IocAssumption, NoUseAfterFree, TaskInv
<1>2. LookupInv'
  BY <1>n, <1>a, <1>b
     DEF IInv, get_task_io_context, Step, clearVars, LookupInv, TypeOK,
         NoUseAfterFree, OfIoc, Linked
<1>3. TaskInv'
  BY <1>n, <1>a, <1>b
     DEF IInv, get_task_io_context, Step, clearVars, TaskInv, Linked, TypeOK
<1>4. DrainInv'
  BY <1>n, <1>a, <1>b
     DEF IInv, get_task_io_context, Step, clearVars, DrainInv, Drained,
         OfQueue, Linked, TypeOK
<1>5. LastInv'
  BY <1>a, <1>b
     DEF IInv, get_task_io_context, Step, clearVars, LastInv, TypeOK, TaskInv,
         NoUseAfterFree
<1>6. RefsExact'
  <2> DEFINE i == ioc[u]
  <2> SUFFICES ASSUME NEW j \in alive'
               PROVE  Exact(j)'
    BY DEF RefsExact, Exact
  <2>1. /\ j \in alive /\ j \in Ioc /\ active_ref[j] \in Nat
        /\ refcount[j] \in Nat
    BY DEF get_task_io_context, IInv, TypeOK
  <2>2. /\ pc[t] = "idle" /\ ioc[t] = Nil
        /\ ioc' = [ioc EXCEPT ![t] = i] /\ pc' = [pc EXCEPT ![t] = "put"]
        /\ UNCHANGED <<active_ref, rq, last, icq>>
    BY DEF get_task_io_context, Step
  <2>3. Requests(j)' = Requests(j)
    BY <2>2 DEF Requests
  <2>4. /\ active_ref[j] = Cardinality(Active(j))
        /\ refcount[j] = Cardinality(Users(j)) + Cardinality(Requests(j))
    BY <2>1 DEF IInv, RefsExact
  <2>5. Active(j)' = Active(j)
    BY <2>1, <2>2, IocAssumption DEF Active, IInv, TypeOK, IocAssumption
  <2>6. CASE j = i
    <3>1. Users(j)' = Users(j) \cup {t} /\ t \notin Users(j)
      BY <1>a, <2>2, <2>6 DEF Users, IInv, TypeOK
    <3>2. refcount'[j] = refcount[j] + 1
      BY <2>1, <2>6 DEF get_task_io_context, IInv, TypeOK
    <3>3. Cardinality(Users(j)') = Cardinality(Users(j)) + 1
      BY <3>1, HoldersFinite, CardAdd
    <3> HIDE DEF i
    <3> QED BY <2>2, <2>3, <2>4, <2>5, <3>2, <3>3, HoldersFinite DEF Exact
  <2>7. CASE j # i
    <3>1. Users(j)' = Users(j)
      BY <2>1, <2>2, <2>7, IocAssumption
         DEF Users, IInv, TypeOK, IocAssumption
    <3>2. refcount'[j] = refcount[j]
      BY <2>1, <2>7 DEF get_task_io_context, IInv, TypeOK
    <3> QED BY <2>2, <2>3, <2>4, <2>5, <3>1, <3>2 DEF Exact
  <2> QED BY <2>6, <2>7
<1>7. NoUseAfterFree'
  BY <1>n, <1>a, <1>b
     DEF IInv, get_task_io_context, Step, clearVars, NoUseAfterFree, OfIoc,
         OfQueue, Linked, TypeOK
<1>8. IoschedNotified'
  BY NotifiedKept, <1>n
     DEF IInv, get_task_io_context, Step, clearVars, TypeOK, Linked
<1> QED BY <1>1, <1>2, <1>3, <1>4, <1>5, <1>6, <1>7, <1>8 DEF IInv

\* The hint a lookup reads is linked at that moment.
LEMMA LookupHintInv ==
  ASSUME IInv, NEW t \in Task, NEW q \in Queue,
         LookupHint(t, q)
  PROVE  IInv'
<1>n. \A e \in Linked : icq[e].ioc # Nil
  BY IocAssumption DEF IInv, NoUseAfterFree, TypeOK, IocAssumption
<1>1. TypeOK'
  BY TaskHolds, RequestHolds, IocAssumption
     DEF IInv, LookupHint, Goto, iocVars, clearVars, TypeOK, TaskPc,
         IocAssumption, NoUseAfterFree, TaskInv
<1>2. LookupInv'
  BY DEF IInv, LookupHint, Goto, iocVars, clearVars, LookupInv, TypeOK,
         NoUseAfterFree, OfIoc, Linked
<1>3. TaskInv'
  BY IocAssumption
     DEF IInv, LookupHint, Goto, iocVars, clearVars, TaskInv, Linked, TypeOK,
         IocAssumption
<1>4. DrainInv'
  BY DEF IInv, LookupHint, Goto, iocVars, clearVars, DrainInv, Drained,
         QLocked, OfQueue, Linked, TypeOK
<1>5. LastInv'
  BY TaskHolds, RequestHolds
     DEF IInv, LookupHint, Goto, iocVars, clearVars, LastInv, TypeOK
<1>6. RefsExact'
  BY RefsKept
     DEF IInv, LookupHint, Goto, iocVars, clearVars, TypeOK
<1>7. NoUseAfterFree'
  BY DEF IInv, LookupHint, Goto, iocVars, clearVars, NoUseAfterFree, OfIoc,
         OfQueue, Linked, TypeOK
<1>8. IoschedNotified'
  BY NotifiedKept, <1>n
     DEF IInv, LookupHint, Goto, iocVars, clearVars, TypeOK, Linked
<1> QED BY <1>1, <1>2, <1>3, <1>4, <1>5, <1>6, <1>7, <1>8 DEF IInv

\* The icq a lookup finds is linked: the hint may be about to be freed, but
\* then it belongs to another queue and is not taken.
LEMMA LookupTreeInv ==
  ASSUME IInv, NEW t \in Task,
         LookupTree(t)
  PROVE  IInv'
<1> DEFINE i == ioc[t]
           q == queue[t]
           c == Found(i, q, ptr[t])
           h == HintAfter(i, q, ptr[t])
<1>a. pc[t] = "lookup" /\ i \in alive /\ i \in Ioc /\ q # Nil
  BY TaskHolds DEF LookupTree, IInv, TaskInv
<1>b. c = Nil \/ (c \in OfIoc(i) /\ c \in OfQueue(q))
  BY <1>a, FoundIs DEF IInv, LookupInv, TypeOK, Hit, OfIoc, OfQueue, Linked
<1>c. h = icq_hint[i] \/ (h = c /\ c # Nil)
  BY DEF HintAfter
<1>p. PICK where, on, d :
        /\ \/ /\ state[q] = "live" /\ on = q /\ d = c
              /\ where = IF c = Nil THEN "create" ELSE "set"
           \/ where = "idle" /\ on = Nil /\ d = Nil
        /\ pc' = [pc EXCEPT ![t] = where]
        /\ queue' = [queue EXCEPT ![t] = on] /\ ptr' = [ptr EXCEPT ![t] = d]
  BY DEF LookupTree, Goto
<1>d. /\ icq_hint' = [icq_hint EXCEPT ![i] = h]
      /\ pc' = [pc EXCEPT ![t] = where]
      /\ queue' = [queue EXCEPT ![t] = on] /\ ptr' = [ptr EXCEPT ![t] = d]
      /\ readers' = [e \in Icq |-> readers[e] \ {t}]
      /\ UNCHANGED <<iocVars, icq, ioc, rq, last, clearVars, gets>>
  BY <1>p DEF LookupTree
<1>e. /\ c \in Icq \cup {Nil} /\ h \in Icq \cup {Nil}
      /\ q \in Queue /\ q = queue[t] /\ i = ioc[t]
      /\ where \in {"idle", "create", "set"}
      /\ on \in Queue \cup {Nil} /\ d \in Icq \cup {Nil}
      /\ where # "idle" => state[q] = "live" /\ on = q
      /\ where = "set" => d = c /\ c # Nil
  BY <1>a, <1>b, <1>c, <1>p DEF OfIoc, Linked, IInv, TypeOK
<1> HIDE DEF i, q, c, h
<1>n. \A e \in Linked : icq[e].ioc # Nil
  BY IocAssumption DEF IInv, NoUseAfterFree, TypeOK, IocAssumption
<1>1. TypeOK'
  BY <1>a, <1>d, <1>e
     DEF IInv, iocVars, clearVars, TypeOK, TaskPc
<1>2. LookupInv'
  BY <1>a, <1>b, <1>c, <1>d, <1>e, <1>n
     DEF IInv, iocVars, clearVars, LookupInv, TypeOK, NoUseAfterFree, OfIoc,
         Linked
<1>3. TaskInv'
  BY <1>a, <1>b, <1>c, <1>d, <1>e, <1>n
     DEF IInv, iocVars, clearVars, TaskInv, Linked, TypeOK
<1>4. DrainInv'
  BY <1>a, <1>d, <1>e
     DEF IInv, iocVars, clearVars, TypeOK, DrainInv, Drained, OfQueue, Linked
<1>5. LastInv'
  BY TaskHolds, RequestHolds, <1>a, <1>b, <1>c, <1>d, <1>e, <1>n
     DEF IInv, iocVars, clearVars, LastInv, TypeOK
<1>6. RefsExact'
  BY <1>a, <1>d, <1>e, RefsKept
     DEF IInv, iocVars, clearVars, TypeOK
<1>7. NoUseAfterFree'
  <2> USE PointersNow, <1>a, <1>d, <1>e DEF iocVars, taskVars, clearVars
  <2>1. HintsLive'
    BY <1>b, <1>c DEF HintsLive, OfIoc, Linked, IInv, TypeOK
  <2>2. IcqsLive'
    BY DEF IcqsLive, OfIoc, OfQueue, Linked, IInv, TypeOK
  <2>3. IocsLive'
    BY DEF IocsLive, IInv, TypeOK
  <2>4. SetsLive'
    BY <1>b DEF SetsLive, OfIoc, OfQueue, Linked, IInv, TypeOK
  <2>5. LookupsLive'
    BY DEF LookupsLive, LookupInv, IInv, TypeOK
  <2>6. RequestsLive'
    BY DEF RequestsLive, Linked, IInv, TypeOK
  <2>7. VictimsLive'
    BY DEF VictimsLive, OfQueue, Linked, IInv, TypeOK
  <2>8. WorksLive'
    BY DEF WorksLive, IInv, TypeOK
  <2> QED BY <2>1, <2>2, <2>3, <2>4, <2>5, <2>6, <2>7, <2>8, PointersNext
<1>8. IoschedNotified'
  BY <1>a, <1>d, <1>e, <1>n, NotifiedKept
     DEF IInv, iocVars, clearVars, TypeOK, Linked
<1> QED BY <1>1, <1>2, <1>3, <1>4, <1>5, <1>6, <1>7, <1>8 DEF IInv

\* A failed allocation leaves nothing behind.
LEMMA ElvprivFailInv ==
  ASSUME IInv, NEW t \in Task,
         ElvprivFail(t)
  PROVE  IInv'
<1>1. TypeOK'
  BY TaskHolds, RequestHolds, IocAssumption
     DEF IInv, ElvprivFail, Goto, iocVars, clearVars, TypeOK, TaskPc,
         IocAssumption, NoUseAfterFree, TaskInv
<1>2. LookupInv'
  BY DEF IInv, ElvprivFail, Goto, iocVars, clearVars, LookupInv, TypeOK,
         NoUseAfterFree, OfIoc, Linked
<1>3. TaskInv'
  BY DEF IInv, ElvprivFail, Goto, iocVars, clearVars, TaskInv, Linked, TypeOK
<1>4. DrainInv'
  BY DEF IInv, ElvprivFail, Goto, iocVars, clearVars, DrainInv, Drained,
         OfQueue, Linked, TypeOK
<1>5. LastInv'
  BY TaskHolds, RequestHolds
     DEF IInv, ElvprivFail, Goto, iocVars, clearVars, LastInv, TypeOK
<1>6. RefsExact'
  BY RefsKept
     DEF IInv, ElvprivFail, Goto, iocVars, clearVars, TypeOK
<1>7. NoUseAfterFree'
  BY DEF IInv, ElvprivFail, Goto, iocVars, clearVars, NoUseAfterFree, OfIoc,
         OfQueue, Linked, TypeOK
<1>8. IoschedNotified'
  BY DEF IInv, ElvprivFail, Goto, iocVars, clearVars, IoschedNotified, Linked,
         Active, TypeOK
<1> QED BY <1>1, <1>2, <1>3, <1>4, <1>5, <1>6, <1>7, <1>8 DEF IInv

\* A new icq is known to its creator only.
LEMMA CreateLockInv ==
  ASSUME IInv, NEW t \in Task, NEW c \in Icq,
         CreateLock(t, c)
  PROVE  IInv'
<1> DEFINE x == [st |-> "new", ioc |-> ioc[t], q |-> queue[t],
                 exited |-> FALSE, stale |-> FALSE]
<1>a. /\ icq[c].st = "free" /\ icq' = [icq EXCEPT ![c] = x]
      /\ pc[t] = "create" /\ pc' = [pc EXCEPT ![t] = "link"]
      /\ queue' = [queue EXCEPT ![t] = queue[t]]
      /\ ptr' = [ptr EXCEPT ![t] = c]
      /\ UNCHANGED <<iocVars, icq_hint, readers, ioc, rq, last, clearVars,
                     gets>>
  BY DEF CreateLock, Goto
<1>b. /\ ioc[t] \in Ioc /\ queue[t] \in Queue /\ c # Nil
      /\ ioc[t] # Nil /\ queue[t] # Nil
  BY <1>a, IocAssumption DEF IInv, TaskInv, TypeOK, IocAssumption
<1>c. x \in IcqRecord /\ x.st # "linked" /\ x.st = "new"
  BY <1>b DEF IcqRecord
<1>d. /\ icq' \in [Icq -> IcqRecord]
      /\ \A d \in Icq \ {c} : icq'[d] = icq[d]
      /\ icq'[c] = x
      /\ Linked' = Linked /\ c \notin Linked
  BY <1>a, <1>c, SetEffect DEF IInv, SameIcq, Linked
<1>e. \A r \in Rq : rq[r] # Nil => icq'[rq[r]] = icq[rq[r]]
  BY <1>d, RequestHolds
<1>n. \A e \in Linked : icq[e].ioc # Nil
  BY IocAssumption DEF IInv, NoUseAfterFree, TypeOK, IocAssumption
<1>1. TypeOK'
  BY <1>a, <1>b, <1>d
     DEF IInv, iocVars, clearVars, TypeOK, TaskPc, IcqRecord
<1>2. LookupInv'
  BY <1>a, <1>d
     DEF IInv, iocVars, clearVars, TypeOK, LookupInv
<1>3. TaskInv'
  <2> HIDE DEF x
  <2> USE <1>a, <1>b, <1>d
  <2>1. \A u \in Task : pc[u] = "link" => ptr[u] # c
    BY NewIcq
  <2>2. Creating'
    <3> SUFFICES ASSUME NEW u \in Task, pc'[u] = "link"
                 PROVE  IsNew(u)'
      BY DEF Creating
    <3>1. CASE u = t
      BY <3>1 DEF IInv, TypeOK, IsNew, x
    <3>2. CASE u # t
      <4>1. /\ pc[u] = "link" /\ ptr'[u] = ptr[u] /\ queue'[u] = queue[u]
            /\ ioc'[u] = ioc[u] /\ ptr[u] \in Icq \ {c}
        BY <2>1, <3>2, NewIcq DEF IInv, TypeOK
      <4>2. icq'[ptr[u]] = icq[ptr[u]]
        BY <4>1
      <4> QED BY <4>1, <4>2 DEF IInv, TaskInv, IsNew
    <3> QED BY <3>1, <3>2
  <2>3. OneCreator'
    BY <2>1 DEF IInv, TaskInv, TypeOK, OneCreator
  <2>4. Placed'
    BY DEF IInv, TaskInv, TypeOK, Placed
  <2>5. OnQueues'
    BY DEF IInv, TaskInv, OnQueues, Linked
  <2> QED BY <2>2, <2>3, <2>4, <2>5, TaskParts
<1>4. DrainInv'
  <2> HIDE DEF x
  <2> QED BY <1>a, <1>b, <1>d, <1>e
          DEF IInv, DrainInv, Drained, OfQueue, Linked, TypeOK, clearVars
<1>5. LastInv'
  BY <1>a, <1>e, LastKept
     DEF IInv, iocVars, clearVars, TypeOK, LastInv
<1>6. RefsExact'
  BY <1>a, <1>e, RefsKept
     DEF IInv, iocVars, clearVars, TypeOK
<1>7. NoUseAfterFree'
  <2> HIDE DEF x
  <2> QED BY <1>a, <1>b, <1>c, <1>d
          DEF IInv, NoUseAfterFree, TypeOK, OfIoc, OfQueue, Linked, iocVars,
              clearVars, x
<1>8. IoschedNotified'
  BY <1>a, <1>d, <1>n, NotifiedKept
     DEF IInv, iocVars, clearVars, TypeOK, Linked
<1> QED BY <1>1, <1>2, <1>3, <1>4, <1>5, <1>6, <1>7, <1>8 DEF IInv

\* The first process to link an icq for the pair is active, so the icq will
\* be exited, and the queue is not drained, so it is not gone.
LEMMA LinkWonInv ==
  ASSUME IInv, NEW t \in Task,
         CreateLink(t), \A e \in OfIoc(ioc[t]) : icq[e].q # queue[t]
  PROVE  IInv'
<1> DEFINE c == ptr[t]
           i == ioc[t]
           q == queue[t]
<1>a. /\ pc[t] = "link" /\ ~ILocked(i) /\ c \in Icq /\ c # Nil
      /\ icq[c].st = "new" /\ icq[c].ioc = i /\ icq[c].q = q
      /\ icq[c].exited = FALSE /\ icq[c].stale = FALSE
      /\ \A u \in Task : pc[u] = "link" /\ ptr[u] = c => u = t
  BY NewIcq DEF CreateLink
<1>b. i \in alive /\ i \in Ioc /\ i # Nil /\ q \in Queue /\ q # Nil
  BY <1>a, TaskHolds DEF IInv, TaskInv, TypeOK
<1>c. state[q] \in {"live", "drain"}
  BY <1>a, <1>b DEF IInv, DrainInv, Drained
<1>d. /\ icq' = [icq EXCEPT ![c].st = "linked"]
      /\ pc' = [pc EXCEPT ![t] = "set"] /\ queue' = [queue EXCEPT ![t] = q]
      /\ ptr' = [ptr EXCEPT ![t] = c]
      /\ UNCHANGED <<iocVars, icq_hint, readers, ioc, rq, last, clearVars,
                     gets>>
  BY DEF CreateLink, Goto
<1>e. /\ icq' \in [Icq -> IcqRecord]
      /\ icq'[c].st = "linked" /\ icq'[c].ioc = i /\ icq'[c].q = q
      /\ icq'[c].exited = FALSE /\ icq'[c].stale = FALSE
      /\ \A d \in Icq \ {c} : icq'[d] = icq[d]
      /\ Linked' = Linked \cup {c}
  BY <1>a, <1>d, LinkEffect DEF IInv, SameIcq, SameLinks
<1>f. \A r \in Rq : rq[r] # Nil => icq'[rq[r]] = icq[rq[r]]
  BY <1>a, <1>e, RequestHolds DEF Linked
<1> HIDE DEF c, i, q
<1>g. c = ptr[t] /\ i = ioc[t] /\ q = queue[t]
  BY DEF c, i, q
<1>1. TypeOK'
  BY <1>a, <1>b, <1>d, <1>e, <1>g
     DEF IInv, iocVars, clearVars, TypeOK, TaskPc, IcqRecord
<1>2. LookupInv'
  BY <1>a, <1>b, <1>d, <1>e, <1>g
     DEF IInv, iocVars, clearVars, TypeOK, LookupInv
<1>3. TaskInv'
  <2> USE <1>a, <1>b, <1>d, <1>e, <1>g
  <2>1. \A u \in Task : /\ pc'[u] = "link" => pc[u] = "link" /\ u # t
                        /\ u # t => ptr'[u] = ptr[u] /\ queue'[u] = queue[u]
    BY DEF IInv, TypeOK
  <2>2. Creating'
    <3> SUFFICES ASSUME NEW u \in Task, pc'[u] = "link"
                 PROVE  IsNew(u)'
      BY DEF Creating
    <3>1. /\ pc[u] = "link" /\ u # t /\ ptr'[u] = ptr[u]
          /\ queue'[u] = queue[u] /\ ioc'[u] = ioc[u]
      BY <2>1
    <3>2. ptr[u] \in Icq \ {c}
      BY <3>1, NewIcq
    <3>3. icq'[ptr[u]] = icq[ptr[u]]
      BY <3>2
    <3> QED BY <3>1, <3>3 DEF IInv, TaskInv, IsNew
  <2>3. OneCreator'
    BY <2>1 DEF IInv, TaskInv, OneCreator
  <2>4. Placed'
    BY DEF IInv, TaskInv, TypeOK, Placed
  <2>5. OnQueues'
    BY DEF IInv, TaskInv, OnQueues, Linked
  <2> QED BY <2>2, <2>3, <2>4, <2>5, TaskParts
<1>4. DrainInv'
  <2> SUFFICES ASSUME NEW p \in Queue
               PROVE  (/\ state[p] \notin {"live", "drain"} => Drained(p)
                       /\ state[p] \in {"clear", "pick", "gone"} =>
                            \A u \in Task : pc[u] = "lookup" => queue[u] # p
                       /\ state[p] \in {"cleared", "gone"} => OfQueue(p) = {})'
    BY DEF DrainInv
  <2>1. CASE p = q
    BY <2>1, <1>c, <1>d DEF clearVars
  <2>2. CASE p # q
    <3> USE <2>2, <1>a, <1>b, <1>d, <1>e, <1>g DEF clearVars
    <3>1. state'[p] \notin {"live", "drain"} => Drained(p)'
      BY <1>f DEF IInv, DrainInv, Drained, TypeOK
    <3>2. state'[p] \in {"cleared", "gone"} => OfQueue(p)' = {}
      BY DEF IInv, DrainInv, OfQueue, Linked
    <3>3. state'[p] \in {"clear", "pick", "gone"} =>
            \A u \in Task : pc'[u] = "lookup" => queue'[u] # p
      BY DEF IInv, DrainInv, TypeOK
    <3> QED BY <3>1, <3>2, <3>3
  <2> QED BY <2>1, <2>2
<1>5. LastInv'
  BY <1>a, <1>d, <1>f, <1>g, LastKept
     DEF IInv, iocVars, clearVars, TypeOK, LastInv
<1>6. RefsExact'
  BY <1>a, <1>d, <1>f, <1>g, RefsKept
     DEF IInv, iocVars, clearVars, TypeOK
<1>7. NoUseAfterFree'
  <2> USE PointersNow, <1>a, <1>b, <1>d, <1>e, <1>g DEF iocVars, taskVars, clearVars
  <2>1. HintsLive'
    BY DEF HintsLive, OfIoc, Linked, IInv, TypeOK
  <2>2. IcqsLive'
    BY <1>c DEF IcqsLive, OfIoc, OfQueue, Linked, IInv, TypeOK
  <2>3. IocsLive'
    BY DEF IocsLive, IInv, TypeOK
  <2>4. SetsLive'
    BY DEF SetsLive, OfIoc, OfQueue, Linked, IInv, TypeOK
  <2>5. LookupsLive'
    BY DEF LookupsLive, LookupInv, IInv, TypeOK
  <2>6. RequestsLive'
    BY DEF RequestsLive, Linked, IInv, TypeOK
  <2>7. VictimsLive'
    BY DEF VictimsLive, OfQueue, Linked, IInv, TypeOK
  <2>8. WorksLive'
    BY DEF WorksLive, IInv, TypeOK
  <2> QED BY <2>1, <2>2, <2>3, <2>4, <2>5, <2>6, <2>7, <2>8, PointersNext
<1>8. IoschedNotified'
  <2> USE <1>a, <1>b, <1>d, <1>e, <1>g
  <2>1. NoneStale'
    BY DEF IInv, IoschedNotified, NoneStale, Linked
  <2>2. OnePerPair'
    BY DEF IInv, IoschedNotified, OnePerPair, Linked, OfIoc
  <2>3. ASSUME NEW e \in Linked'
        PROVE  Watched(e)'
    <3>1. CASE e = c
      <4>1. ioc'[t] = icq'[e].ioc /\ pc'[t] = "set"
        BY <3>1 DEF IInv, TypeOK
      <4>2. t \in Active(icq[e].ioc)'
        BY <4>1 DEF Active
      <4> QED BY <4>2 DEF Watched
    <3>2. CASE e # c
      <4>1. e \in Linked /\ icq'[e] = icq[e]
        BY <2>3, <3>2 DEF Linked
      <4>2. \A u \in Task : /\ ioc'[u] = ioc[u]
                            /\ u # t => pc'[u] = pc[u]
                            /\ u = t => pc'[u] = "set"
        BY DEF IInv, TypeOK
      <4>3. CASE icq[e].exited
        BY <4>1, <4>3 DEF Watched
      <4>4. CASE \E u \in Task : u \in Active(icq[e].ioc)
        BY <4>1, <4>2, <4>4 DEF Active, Watched
      <4>5. CASE \E u \in Task : ioc[u] = icq[e].ioc /\ pc[u] \in {"walk", "exit"}
        BY <4>1, <4>2, <4>5 DEF Active, Watched
      <4> QED BY <4>1, <4>3, <4>4, <4>5 DEF IInv, IoschedNotified, Active
    <3> QED BY <3>1, <3>2
  <2> QED BY <2>1, <2>2, <2>3, NotifiedParts
<1> QED BY <1>1, <1>2, <1>3, <1>4, <1>5, <1>6, <1>7, <1>8 DEF IInv

\* The second one frees its icq, which nobody knows, and takes the first.
LEMMA LinkLostInv ==
  ASSUME IInv, NEW t \in Task,
         CreateLink(t), \E e \in OfIoc(ioc[t]) : icq[e].q = queue[t]
  PROVE  IInv'
<1> DEFINE c == ptr[t]
           i == ioc[t]
           q == queue[t]
<1>a. /\ pc[t] = "link" /\ ~ILocked(i) /\ c \in Icq /\ c # Nil
      /\ icq[c].st = "new" /\ icq[c].ioc = i /\ icq[c].q = q
      /\ icq[c].exited = FALSE /\ icq[c].stale = FALSE
      /\ \A u \in Task : pc[u] = "link" /\ ptr[u] = c => u = t
  BY NewIcq DEF CreateLink
<1>b. i \in alive /\ i \in Ioc /\ i # Nil /\ q \in Queue /\ q # Nil
  BY <1>a, TaskHolds DEF IInv, TaskInv, TypeOK
<1>c. state[q] \in {"live", "drain"}
  BY <1>a, <1>b DEF IInv, DrainInv, Drained
<1> DEFINE d == Found(i, q, icq_hint[i])
           h == HintAfter(i, q, icq_hint[i])
<1>d. /\ icq' = [icq EXCEPT ![c] = Unused]
      /\ pc' = [pc EXCEPT ![t] = "set"] /\ queue' = [queue EXCEPT ![t] = q]
      /\ ptr' = [ptr EXCEPT ![t] = d]
      /\ icq_hint' = [icq_hint EXCEPT ![i] = h]
      /\ UNCHANGED <<iocVars, readers, ioc, rq, last, clearVars, gets>>
  BY DEF CreateLink, Goto
<1>e. /\ icq' \in [Icq -> IcqRecord]
      /\ \A e \in Icq \ {c} : icq'[e] = icq[e]
      /\ Linked' = Linked /\ c \notin Linked
      /\ icq'[c].st = "free"
  <2>1. Unused \in IcqRecord /\ Unused.st = "free"
    BY DEF Unused, IcqRecord
  <2> QED BY <1>a, <1>d, <2>1, SetEffect DEF IInv, SameIcq, Linked
<1>f. \A r \in Rq : rq[r] # Nil => icq'[rq[r]] = icq[rq[r]]
  BY <1>a, <1>e, RequestHolds DEF Linked
<1>g. d \in OfIoc(i) /\ d \in OfQueue(q) /\ d \in Icq
  BY <1>b, FoundIs
     DEF IInv, NoUseAfterFree, Hit, OfIoc, OfQueue, Linked
<1>h. h = icq_hint[i] \/ h = d
  BY DEF HintAfter
<1> HIDE DEF c, i, q, d, h
<1>i. c = ptr[t] /\ i = ioc[t] /\ q = queue[t]
  BY DEF c, i, q
<1>n. \A e \in Linked : icq[e].ioc # Nil
  BY IocAssumption DEF IInv, NoUseAfterFree, TypeOK, IocAssumption
<1>1. TypeOK'
  BY <1>a, <1>b, <1>d, <1>e, <1>i, <1>g, <1>h
     DEF IInv, iocVars, clearVars, TypeOK, TaskPc, IcqRecord
<1>2. LookupInv'
  BY <1>a, <1>b, <1>d, <1>e, <1>i
     DEF IInv, iocVars, clearVars, TypeOK, LookupInv
<1>3. TaskInv'
  <2> USE <1>a, <1>b, <1>d, <1>e, <1>i
  <2>1. \A u \in Task : /\ pc'[u] = "link" => pc[u] = "link" /\ u # t
                        /\ u # t => ptr'[u] = ptr[u] /\ queue'[u] = queue[u]
    BY DEF IInv, TypeOK
  <2>2. Creating'
    <3> SUFFICES ASSUME NEW u \in Task, pc'[u] = "link"
                 PROVE  IsNew(u)'
      BY DEF Creating
    <3>1. /\ pc[u] = "link" /\ u # t /\ ptr'[u] = ptr[u]
          /\ queue'[u] = queue[u] /\ ioc'[u] = ioc[u]
      BY <2>1
    <3>2. ptr[u] \in Icq \ {c}
      BY <3>1, NewIcq
    <3>3. icq'[ptr[u]] = icq[ptr[u]]
      BY <3>2
    <3> QED BY <3>1, <3>3 DEF IInv, TaskInv, IsNew
  <2>3. OneCreator'
    BY <2>1 DEF IInv, TaskInv, OneCreator
  <2>4. Placed'
    BY DEF IInv, TaskInv, TypeOK, Placed
  <2>5. OnQueues'
    BY DEF IInv, TaskInv, OnQueues, Linked
  <2> QED BY <2>2, <2>3, <2>4, <2>5, TaskParts
<1>4. DrainInv'
  <2> SUFFICES ASSUME NEW p \in Queue
               PROVE  (/\ state[p] \notin {"live", "drain"} => Drained(p)
                       /\ state[p] \in {"clear", "pick", "gone"} =>
                            \A u \in Task : pc[u] = "lookup" => queue[u] # p
                       /\ state[p] \in {"cleared", "gone"} => OfQueue(p) = {})'
    BY DEF DrainInv
  <2>1. CASE p = q
    BY <2>1, <1>c, <1>d DEF clearVars
  <2>2. CASE p # q
    <3> USE <2>2, <1>a, <1>b, <1>d, <1>e, <1>i DEF clearVars
    <3>1. state'[p] \notin {"live", "drain"} => Drained(p)'
      BY <1>f DEF IInv, DrainInv, Drained, TypeOK
    <3>2. state'[p] \in {"cleared", "gone"} => OfQueue(p)' = {}
      BY DEF IInv, DrainInv, OfQueue, Linked
    <3>3. state'[p] \in {"clear", "pick", "gone"} =>
            \A u \in Task : pc'[u] = "lookup" => queue'[u] # p
      BY DEF IInv, DrainInv, TypeOK
    <3> QED BY <3>1, <3>2, <3>3
  <2> QED BY <2>1, <2>2
<1>5. LastInv'
  BY <1>a, <1>d, <1>f, <1>i, LastKept
     DEF IInv, iocVars, clearVars, TypeOK, LastInv
<1>6. RefsExact'
  BY <1>a, <1>d, <1>f, <1>i, RefsKept
     DEF IInv, iocVars, clearVars, TypeOK
<1>7. NoUseAfterFree'
  <2> USE PointersNow, <1>a, <1>b, <1>d, <1>e, <1>i DEF iocVars, taskVars, clearVars
  <2>1. HintsLive'
    BY <1>g, <1>h DEF HintsLive, OfIoc, Linked, IInv, TypeOK
  <2>2. IcqsLive'
    BY DEF IcqsLive, OfIoc, OfQueue, Linked, IInv, TypeOK
  <2>3. IocsLive'
    BY DEF IocsLive, IInv, TypeOK
  <2>4. SetsLive'
    BY <1>g DEF SetsLive, OfIoc, OfQueue, Linked, IInv, TypeOK
  <2>5. LookupsLive'
    BY DEF LookupsLive, LookupInv, IInv, TypeOK
  <2>6. RequestsLive'
    BY DEF RequestsLive, Linked, IInv, TypeOK
  <2>7. VictimsLive'
    BY DEF VictimsLive, OfQueue, Linked, IInv, TypeOK
  <2>8. WorksLive'
    BY DEF WorksLive, IInv, TypeOK
  <2> QED BY <2>1, <2>2, <2>3, <2>4, <2>5, <2>6, <2>7, <2>8, PointersNext
<1>8. IoschedNotified'
  BY <1>d, <1>e, <1>n, NotifiedKept
     DEF IInv, iocVars, clearVars, TypeOK, Linked
<1> QED BY <1>1, <1>2, <1>3, <1>4, <1>5, <1>6, <1>7, <1>8 DEF IInv

\* One of the two happens.
LEMMA CreateLinkInv ==
  ASSUME IInv, NEW t \in Task, CreateLink(t)
  PROVE  IInv'
BY LinkWonInv, LinkLostInv

\* A request takes a reference while its allocator has one.
LEMMA SetRequestInv ==
  ASSUME IInv, NEW t \in Task, NEW r \in Rq,
         SetRequest(t, r)
  PROVE  IInv'
<1>n. \A e \in Linked : icq[e].ioc # Nil
  BY IocAssumption DEF IInv, NoUseAfterFree, TypeOK, IocAssumption
<1> DEFINE i == icq[ptr[t]].ioc
<1>a. /\ pc[t] = "set" /\ rq[r] = Nil /\ rq' = [rq EXCEPT ![r] = ptr[t]]
      /\ refcount' = [refcount EXCEPT ![i] = refcount[i] + 1]
      /\ pc' = [pc EXCEPT ![t] = "idle"] /\ queue' = [queue EXCEPT ![t] = Nil]
      /\ ptr' = [ptr EXCEPT ![t] = Nil]
      /\ UNCHANGED <<alive, active_ref, icq_hint, release_work, icq, readers,
                     ioc, last, clearVars, gets>>
  BY DEF SetRequest, Goto
<1>b. /\ ptr[t] \in Linked /\ ptr[t] \in Icq /\ ptr[t] # Nil
      /\ i = ioc[t] /\ icq[ptr[t]].q = queue[t] /\ queue[t] \in Queue
  BY <1>a, IocAssumption
     DEF IInv, NoUseAfterFree, TaskInv, TypeOK, OfIoc, OfQueue, Linked,
         IocAssumption
<1>c. /\ i \in alive /\ i \in Ioc /\ i # Nil
      /\ refcount[i] \in Nat /\ refcount[i] > 0
  BY <1>a, <1>b, TaskHolds DEF IInv, TaskInv, TypeOK
<1>d. r \notin last
  BY <1>a DEF IInv, LastInv
<1> HIDE DEF i
<1>1. TypeOK'
  BY <1>a, <1>b, <1>c
     DEF IInv, clearVars, TypeOK, TaskPc
<1>2. LookupInv'
  BY <1>a
     DEF IInv, clearVars, TypeOK, LookupInv
<1>3. TaskInv'
  BY <1>a
     DEF IInv, clearVars, TypeOK, TaskInv, Linked
<1>4. DrainInv'
  BY <1>a, <1>b
     DEF IInv, clearVars, TypeOK, DrainInv, Drained, OfQueue, Linked
<1>5. LastInv'
  <2>1. \A u \in Task : pc[u] = "last" => ioc[u] # i
    BY <1>c DEF IInv, LastInv
  <2>2. \A s \in last : icq[rq[s]].ioc # i
    BY <1>c DEF IInv, LastInv
  <2>3. release_work[i] = "no"
    BY <1>c DEF IInv, LastInv
  <2>4. \A u \in Task : pc'[u] = "last" <=> pc[u] = "last"
    BY <1>a DEF IInv, TypeOK
  <2>5. \A s \in last : rq'[s] = rq[s]
    BY <1>a, <1>d DEF IInv, TypeOK
  <2>6. \A j \in Ioc \ {i} : refcount'[j] = refcount[j]
    BY <1>a DEF IInv, TypeOK
  <2>7. /\ \A u \in Task : pc[u] = "last" => ioc[u] \in Ioc
        /\ \A s \in last : icq[rq[s]].ioc \in Ioc
    BY TaskHolds, RequestHolds DEF IInv, TypeOK, TaskInv, LastInv
  <2> QED BY <1>a, <2>1, <2>2, <2>3, <2>4, <2>5, <2>6, <2>7 DEF IInv, LastInv
<1>6. RefsExact'
  <2> SUFFICES ASSUME NEW j \in alive'
               PROVE  Exact(j)'
    BY DEF RefsExact, Exact
  <2>1. /\ j \in alive /\ j \in Ioc /\ active_ref[j] \in Nat
        /\ refcount[j] \in Nat
    BY <1>a DEF IInv, TypeOK
  <2>2. Active(j)' = Active(j) /\ Users(j)' = Users(j)
    BY <1>a DEF Active, Users, IInv, TypeOK
  <2>3. /\ active_ref[j] = Cardinality(Active(j))
        /\ refcount[j] = Cardinality(Users(j)) + Cardinality(Requests(j))
    BY <2>1 DEF IInv, RefsExact
  <2>4. CASE j = i
    <3>1. Requests(j)' = Requests(j) \cup {r} /\ r \notin Requests(j)
      BY <1>a, <1>b, <1>d, <2>4 DEF Requests, IInv, TypeOK, i
    <3>2. refcount'[j] = refcount[j] + 1
      BY <1>a, <1>c, <2>4 DEF IInv, TypeOK
    <3>3. Cardinality(Requests(j)') = Cardinality(Requests(j)) + 1
      BY <3>1, HoldersFinite, CardAdd
    <3> QED BY <1>a, <2>1, <2>2, <2>3, <3>2, <3>3, HoldersFinite DEF Exact
  <2>5. CASE j # i
    <3>1. Requests(j)' = Requests(j)
      BY <1>a, <2>5 DEF Requests, IInv, TypeOK, i
    <3>2. refcount'[j] = refcount[j]
      BY <1>a, <2>1, <2>5 DEF IInv, TypeOK
    <3> QED BY <1>a, <2>2, <2>3, <3>1, <3>2 DEF Exact
  <2> QED BY <2>4, <2>5
<1>7. NoUseAfterFree'
  <2> USE PointersNow, <1>a, <1>b DEF iocVars, taskVars, clearVars
  <2>1. HintsLive'
    BY DEF HintsLive, OfIoc, Linked, IInv, TypeOK
  <2>2. IcqsLive'
    BY DEF IcqsLive, OfIoc, OfQueue, Linked, IInv, TypeOK
  <2>3. IocsLive'
    BY DEF IocsLive, IInv, TypeOK
  <2>4. SetsLive'
    BY DEF SetsLive, OfIoc, OfQueue, Linked, IInv, TypeOK
  <2>5. LookupsLive'
    BY DEF LookupsLive, LookupInv, IInv, TypeOK
  <2>6. RequestsLive'
    BY DEF RequestsLive, Linked, IInv, TypeOK
  <2>7. VictimsLive'
    BY DEF VictimsLive, OfQueue, Linked, IInv, TypeOK
  <2>8. WorksLive'
    BY DEF WorksLive, IInv, TypeOK
  <2> QED BY <2>1, <2>2, <2>3, <2>4, <2>5, <2>6, <2>7, <2>8, PointersNext
<1>8. IoschedNotified'
  BY <1>a, <1>n, NotifiedKept
     DEF IInv, clearVars, TypeOK, Linked
<1> QED BY <1>1, <1>2, <1>3, <1>4, <1>5, <1>6, <1>7, <1>8 DEF IInv

\* The scheduler takes a reference while a request has one.
LEMMA cfq_dispatch_requestInv ==
  ASSUME IInv, NEW p \in Rq, NEW r \in Rq,
         cfq_dispatch_request(p, r)
  PROVE  IInv'
<1>n. \A e \in Linked : icq[e].ioc # Nil
  BY IocAssumption DEF IInv, NoUseAfterFree, TypeOK, IocAssumption
<1> DEFINE i == icq[rq[p]].ioc
<1>a. /\ rq[p] # Nil /\ rq[r] = Nil /\ rq' = [rq EXCEPT ![r] = rq[p]]
      /\ ~QLocked(icq[rq[p]].q)
      /\ refcount' = [refcount EXCEPT ![i] = refcount[i] + 1]
      /\ UNCHANGED <<alive, active_ref, icq_hint, release_work, icq, readers,
                     pc, ioc, queue, ptr, last, clearVars, gets>>
  BY DEF cfq_dispatch_request, taskVars
<1>b. /\ rq[p] \in Linked /\ rq[p] \in Icq
      /\ i \in alive /\ i \in Ioc /\ p \notin last
  BY <1>a, RequestHolds DEF QLocked
<1>c. i # Nil /\ refcount[i] \in Nat /\ refcount[i] > 0
  BY <1>a, <1>b, <1>n, RequestHolds DEF IInv, TypeOK
<1>d. r \notin last
  BY <1>a DEF IInv, LastInv
<1> HIDE DEF i
<1>1. TypeOK'
  BY <1>a, <1>b, <1>c
     DEF IInv, clearVars, TypeOK, TaskPc
<1>2. LookupInv'
  BY <1>a
     DEF IInv, clearVars, TypeOK, LookupInv
<1>3. TaskInv'
  BY <1>a
     DEF IInv, clearVars, TypeOK, TaskInv, Linked
<1>4. DrainInv'
  BY <1>a, <1>b
     DEF IInv, clearVars, TypeOK, DrainInv, Drained, OfQueue, Linked
<1>5. LastInv'
  <2>1. \A u \in Task : pc[u] = "last" => ioc[u] # i
    BY <1>c DEF IInv, LastInv
  <2>2. \A s \in last : icq[rq[s]].ioc # i
    BY <1>c DEF IInv, LastInv
  <2>3. release_work[i] = "no"
    BY <1>b, <1>c DEF IInv, LastInv
  <2>4. \A u \in Task : pc'[u] = "last" <=> pc[u] = "last"
    BY <1>a
  <2>5. \A s \in last : rq'[s] = rq[s]
    BY <1>a, <1>d DEF IInv, TypeOK
  <2>6. \A j \in Ioc \ {i} : refcount'[j] = refcount[j]
    BY <1>a DEF IInv, TypeOK
  <2>7. /\ \A u \in Task : pc[u] = "last" => ioc[u] \in Ioc
        /\ \A s \in last : icq[rq[s]].ioc \in Ioc
    BY TaskHolds, RequestHolds DEF IInv, TypeOK, TaskInv, LastInv
  <2> QED BY <1>a, <2>1, <2>2, <2>3, <2>4, <2>5, <2>6, <2>7 DEF IInv, LastInv
<1>6. RefsExact'
  <2> SUFFICES ASSUME NEW j \in alive'
               PROVE  Exact(j)'
    BY DEF RefsExact, Exact
  <2>1. /\ j \in alive /\ j \in Ioc /\ active_ref[j] \in Nat
        /\ refcount[j] \in Nat
    BY <1>a DEF IInv, TypeOK
  <2>2. Active(j)' = Active(j) /\ Users(j)' = Users(j)
    BY <1>a DEF Active, Users, IInv, TypeOK
  <2>3. /\ active_ref[j] = Cardinality(Active(j))
        /\ refcount[j] = Cardinality(Users(j)) + Cardinality(Requests(j))
    BY <2>1 DEF IInv, RefsExact
  <2>4. CASE j = i
    <3>1. Requests(j)' = Requests(j) \cup {r} /\ r \notin Requests(j)
      BY <1>a, <1>b, <1>d, <2>4 DEF Requests, IInv, TypeOK, i
    <3>2. refcount'[j] = refcount[j] + 1
      BY <1>a, <1>c, <2>4 DEF IInv, TypeOK
    <3>3. Cardinality(Requests(j)') = Cardinality(Requests(j)) + 1
      BY <3>1, HoldersFinite, CardAdd
    <3> QED BY <1>a, <2>1, <2>2, <2>3, <3>2, <3>3, HoldersFinite DEF Exact
  <2>5. CASE j # i
    <3>1. Requests(j)' = Requests(j)
      BY <1>a, <2>5 DEF Requests, IInv, TypeOK, i
    <3>2. refcount'[j] = refcount[j]
      BY <1>a, <2>1, <2>5 DEF IInv, TypeOK
    <3> QED BY <1>a, <2>2, <2>3, <3>1, <3>2 DEF Exact
  <2> QED BY <2>4, <2>5
<1>7. NoUseAfterFree'
  <2> USE PointersNow, <1>a, <1>b DEF iocVars, taskVars, clearVars
  <2>1. HintsLive'
    BY DEF HintsLive, OfIoc, Linked, IInv, TypeOK
  <2>2. IcqsLive'
    BY DEF IcqsLive, OfIoc, OfQueue, Linked, IInv, TypeOK
  <2>3. IocsLive'
    BY DEF IocsLive, IInv, TypeOK
  <2>4. SetsLive'
    BY DEF SetsLive, OfIoc, OfQueue, Linked, IInv, TypeOK
  <2>5. LookupsLive'
    BY DEF LookupsLive, LookupInv, IInv, TypeOK
  <2>6. RequestsLive'
    BY DEF RequestsLive, Linked, IInv, TypeOK
  <2>7. VictimsLive'
    BY DEF VictimsLive, OfQueue, Linked, IInv, TypeOK
  <2>8. WorksLive'
    BY DEF WorksLive, IInv, TypeOK
  <2> QED BY <2>1, <2>2, <2>3, <2>4, <2>5, <2>6, <2>7, <2>8, PointersNext
<1>8. IoschedNotified'
  BY <1>a, <1>n, NotifiedKept
     DEF IInv, clearVars, TypeOK, Linked
<1> QED BY <1>1, <1>2, <1>3, <1>4, <1>5, <1>6, <1>7, <1>8 DEF IInv

\* The end of a request puts its reference; if it was the last, nobody else
\* is left.
LEMMA FreeRequestInv ==
  ASSUME IInv, NEW r \in Rq,
         FreeRequest(r)
  PROVE  IInv'
<1> DEFINE i == icq[rq[r]].ioc
<1>a. /\ rq[r] # Nil /\ r \notin last
      /\ refcount' = [refcount EXCEPT ![i] = refcount[i] - 1]
      /\ UNCHANGED <<alive, active_ref, icq_hint, release_work, icq, readers,
                     taskVars, clearVars, gets>>
  BY DEF FreeRequest
<1>b. \/ refcount[i] = 1 /\ last' = last \cup {r} /\ rq' = rq
      \/ refcount[i] # 1 /\ last' = last /\ rq' = [rq EXCEPT ![r] = Nil]
  BY DEF FreeRequest
<1>c. /\ rq[r] \in Linked /\ rq[r] \in Icq /\ i \in alive /\ i \in Ioc
      /\ refcount[i] \in Nat /\ refcount[i] > 0
  BY <1>a, RequestHolds DEF IInv, TypeOK
<1>d. /\ \A s \in last : icq[rq[s]].ioc # i
      /\ \A u \in Task : pc[u] = "last" => ioc[u] # i
      /\ release_work[i] = "no"
  BY <1>c DEF IInv, LastInv
<1>e. i = icq[rq[r]].ioc
  OBVIOUS
<1> HIDE DEF i
<1>1. TypeOK'
  BY <1>a, <1>b, <1>c
     DEF IInv, taskVars, clearVars, TypeOK, TaskPc
<1>2. LookupInv'
  BY <1>a
     DEF IInv, taskVars, clearVars, LookupInv
<1>3. TaskInv'
  BY <1>a
     DEF IInv, taskVars, clearVars, TaskInv, Linked
<1>4. DrainInv'
  BY <1>a, <1>b
     DEF IInv, taskVars, clearVars, TypeOK, DrainInv, Drained, OfQueue, Linked
<1>5. LastInv'
  <2>1. \A j \in Ioc \ {i} : refcount'[j] = refcount[j]
    BY <1>a DEF IInv, TypeOK
  <2>2. /\ \A u \in Task : pc[u] = "last" => ioc[u] \in Ioc
        /\ \A s \in last : icq[rq[s]].ioc \in Ioc
    BY TaskHolds, RequestHolds DEF IInv, TypeOK, TaskInv, LastInv
  <2>3. \A s \in last : rq'[s] = rq[s] /\ s # r
    BY <1>a, <1>b DEF IInv, TypeOK
  <2>4. refcount[i] = 1 => refcount'[i] = 0
    BY <1>a, <1>c DEF IInv, TypeOK
  <2>5. LastTasks'
    BY <1>a, <1>b, <1>d, <1>e, <2>1, <2>2, <2>3
       DEF IInv, LastInv, LastTasks, taskVars
  <2>6. LastRequests'
    BY <1>a, <1>b, <1>d, <1>e, <2>1, <2>2, <2>3, <2>4
       DEF IInv, LastInv, LastRequests
  <2>7. LastWorks'
    BY <1>a, <1>d, <2>1 DEF IInv, LastInv, LastWorks
  <2> QED BY <2>5, <2>6, <2>7, LastParts
<1>6. RefsExact'
  <2> SUFFICES ASSUME NEW j \in alive'
               PROVE  Exact(j)'
    BY DEF RefsExact, Exact
  <2>1. /\ j \in alive /\ j \in Ioc /\ active_ref[j] \in Nat
        /\ refcount[j] \in Nat
    BY <1>a DEF IInv, TypeOK
  <2>2. Active(j)' = Active(j) /\ Users(j)' = Users(j)
    BY <1>a DEF Active, Users, taskVars
  <2>3. /\ active_ref[j] = Cardinality(Active(j))
        /\ refcount[j] = Cardinality(Users(j)) + Cardinality(Requests(j))
    BY <2>1 DEF IInv, RefsExact
  <2>4. CASE j = i
    <3>1. Requests(j)' = Requests(j) \ {r} /\ r \in Requests(j)
      BY <1>a, <1>b, <1>e, <2>4 DEF Requests, IInv, TypeOK
    <3>2. refcount'[j] = refcount[j] - 1
      BY <1>a, <1>c, <2>4 DEF IInv, TypeOK
    <3>3. Cardinality(Requests(j)') = Cardinality(Requests(j)) - 1
      BY <3>1, HoldersFinite, CardDel
    <3> QED BY <1>a, <2>1, <2>2, <2>3, <3>2, <3>3, HoldersFinite DEF Exact
  <2>5. CASE j # i
    <3>1. Requests(j)' = Requests(j)
      BY <1>a, <1>b, <1>e, <2>5 DEF Requests, IInv, TypeOK
    <3>2. refcount'[j] = refcount[j]
      BY <1>a, <2>1, <2>5 DEF IInv, TypeOK
    <3> QED BY <1>a, <2>2, <2>3, <3>1, <3>2 DEF Exact
  <2> QED BY <2>4, <2>5
<1>7. NoUseAfterFree'
  <2> USE PointersNow, <1>a, <1>b DEF iocVars, taskVars, clearVars
  <2>1. HintsLive'
    BY DEF HintsLive, OfIoc, Linked, IInv, TypeOK
  <2>2. IcqsLive'
    BY DEF IcqsLive, OfIoc, OfQueue, Linked, IInv, TypeOK
  <2>3. IocsLive'
    BY DEF IocsLive, IInv, TypeOK
  <2>4. SetsLive'
    BY DEF SetsLive, OfIoc, OfQueue, Linked, IInv, TypeOK
  <2>5. LookupsLive'
    BY DEF LookupsLive, LookupInv, IInv, TypeOK
  <2>6. RequestsLive'
    BY DEF RequestsLive, Linked, IInv, TypeOK
  <2>7. VictimsLive'
    BY DEF VictimsLive, OfQueue, Linked, IInv, TypeOK
  <2>8. WorksLive'
    BY DEF WorksLive, IInv, TypeOK
  <2> QED BY <2>1, <2>2, <2>3, <2>4, <2>5, <2>6, <2>7, <2>8, PointersNext
<1>8. IoschedNotified'
  BY <1>a
     DEF IInv, taskVars, clearVars, IoschedNotified, Linked, Active
<1> QED BY <1>1, <1>2, <1>3, <1>4, <1>5, <1>6, <1>7, <1>8 DEF IInv

\* The last request leaves an icq behind, so the work is scheduled.
LEMMA FreeLastInv ==
  ASSUME IInv, NEW r \in Rq,
         FreeLast(r)
  PROVE  IInv'
<1> DEFINE i == icq[rq[r]].ioc
<1>a. /\ r \in last /\ PutLast(i)
      /\ rq' = [rq EXCEPT ![r] = Nil] /\ last' = last \ {r}
      /\ UNCHANGED <<refcount, active_ref, icq_hint, icq, readers, taskVars,
                     clearVars, gets>>
  BY DEF FreeLast
<1>b. /\ rq[r] # Nil /\ rq[r] \in Linked /\ rq[r] \in OfIoc(i)
      /\ i \in alive /\ i \in Ioc /\ refcount[i] = 0
  BY <1>a, RequestHolds DEF IInv, LastInv, OfIoc
<1>c. \A u \in Task : ioc[u] # i
  BY <1>a, <1>b, NoHolders DEF IInv, LastInv
<1>d. \A s \in Rq : rq[s] # Nil /\ icq[rq[s]].ioc = i => s = r
  BY <1>a, <1>b, NoHolders DEF IInv, LastInv
<1>e. alive' = alive /\ release_work' = [release_work EXCEPT ![i] = "queued"]
  BY <1>a, <1>b DEF PutLast
<1>f. i = icq[rq[r]].ioc
  OBVIOUS
<1> HIDE DEF i
<1>1. TypeOK'
  BY <1>a, <1>b, <1>e
     DEF IInv, taskVars, clearVars, TypeOK, TaskPc
<1>2. LookupInv'
  BY <1>a
     DEF IInv, taskVars, clearVars, LookupInv
<1>3. TaskInv'
  BY <1>a
     DEF IInv, taskVars, clearVars, TaskInv, Linked
<1>4. DrainInv'
  BY <1>a
     DEF IInv, taskVars, clearVars, TypeOK, DrainInv, Drained, OfQueue, Linked
<1>5. LastInv'
  <2>1. \A j \in Ioc \ {i} : release_work'[j] = release_work[j]
    BY <1>e DEF IInv, TypeOK
  <2>2. /\ \A u \in Task : pc[u] = "last" => ioc[u] \in Ioc
        /\ \A s \in last : icq[rq[s]].ioc \in Ioc /\ rq[s] # Nil
    BY TaskHolds, RequestHolds DEF IInv, TypeOK, TaskInv, LastInv
  <2>3. \A s \in last' : /\ rq'[s] = rq[s] /\ s \in last
                        /\ icq[rq[s]].ioc # i
    BY <1>a, <1>d, <2>2 DEF IInv, TypeOK
  <2>5. LastTasks'
    BY <1>a, <1>c, <2>1, <2>2, <2>3 DEF IInv, LastInv, taskVars, LastTasks
  <2>6. LastRequests'
    BY <1>a, <2>1, <2>2, <2>3 DEF IInv, LastInv, LastRequests
  <2>7. LastWorks'
    BY <1>a, <1>b, <2>1 DEF IInv, LastInv, LastWorks
  <2> QED BY <2>5, <2>6, <2>7, LastParts
<1>6. RefsExact'
  <2> SUFFICES ASSUME NEW j \in alive'
               PROVE  Exact(j)'
    BY DEF RefsExact, Exact
  <2>1. j \in alive /\ UNCHANGED <<active_ref, refcount>>
    BY <1>a, <1>e
  <2>2. Active(j)' = Active(j) /\ Users(j)' = Users(j)
    BY <1>a DEF Active, Users, taskVars
  <2>3. Requests(j)' = Requests(j)
    <3>1. \A s \in Rq \ last' : s # r => s \notin last /\ rq'[s] = rq[s]
      BY <1>a DEF IInv, TypeOK
    <3>2. rq'[r] = Nil /\ r \notin Requests(j)
      BY <1>a DEF IInv, TypeOK, Requests
    <3> QED BY <1>a, <3>1, <3>2 DEF Requests
  <2> QED BY <2>1, <2>2, <2>3 DEF IInv, RefsExact, Exact
<1>7. NoUseAfterFree'
  <2> USE PointersNow, <1>a, <1>b, <1>e DEF iocVars, taskVars, clearVars
  <2>1. HintsLive'
    BY DEF HintsLive, OfIoc, Linked, IInv, TypeOK
  <2>2. IcqsLive'
    BY DEF IcqsLive, OfIoc, OfQueue, Linked, IInv, TypeOK
  <2>3. IocsLive'
    BY DEF IocsLive, IInv, TypeOK
  <2>4. SetsLive'
    BY DEF SetsLive, OfIoc, OfQueue, Linked, IInv, TypeOK
  <2>5. LookupsLive'
    BY DEF LookupsLive, LookupInv, IInv, TypeOK
  <2>6. RequestsLive'
    BY DEF RequestsLive, Linked, IInv, TypeOK
  <2>7. VictimsLive'
    BY DEF VictimsLive, OfQueue, Linked, IInv, TypeOK
  <2>8. WorksLive'
    BY DEF WorksLive, IInv, TypeOK
  <2> QED BY <2>1, <2>2, <2>3, <2>4, <2>5, <2>6, <2>7, <2>8, PointersNext
<1>8. IoschedNotified'
  BY <1>a
     DEF IInv, taskVars, clearVars, IoschedNotified, Linked, Active
<1> QED BY <1>1, <1>2, <1>3, <1>4, <1>5, <1>6, <1>7, <1>8 DEF IInv

\* A process that exits leaves another active one, or walks the icqs.
LEMMA exit_io_contextInv ==
  ASSUME IInv, NEW t \in Task,
         exit_io_context(t)
  PROVE  IInv'
<1> DEFINE i == ioc[t]
           w == IF active_ref[i] = 1 THEN "walk" ELSE "put"
<1>a. /\ pc[t] = "idle" /\ i # Nil
      /\ active_ref' = [active_ref EXCEPT ![i] = active_ref[i] - 1]
      /\ pc' = [pc EXCEPT ![t] = w]
      /\ UNCHANGED <<alive, refcount, icq_hint, release_work, icq, readers,
                     ioc, queue, ptr, rq, last, clearVars, gets>>
  BY DEF exit_io_context, Step
<1>b. /\ i \in alive /\ i \in Ioc
      /\ active_ref[i] \in Nat /\ active_ref[i] > 0
  BY <1>a, TaskHolds DEF IInv, TypeOK
<1>c. w \in {"walk", "put"} /\ (w = "put" => active_ref[i] # 1)
  OBVIOUS
<1>d. \A j \in Ioc : /\ j = i => Active(j)' = Active(j) \ {t} /\ t \in Active(j)
                     /\ j # i => Active(j)' = Active(j)
  BY <1>a, <1>c DEF Active, IInv, TypeOK
<1>e. \A u \in Task : u # t => pc'[u] = pc[u]
  BY <1>a DEF IInv, TypeOK
<1>f. i = ioc[t] /\ pc'[t] = w
  BY <1>a DEF IInv, TypeOK
<1> HIDE DEF i, w
<1>1. TypeOK'
  BY <1>a, <1>b, <1>c
     DEF IInv, clearVars, TypeOK, TaskPc
<1>2. LookupInv'
  BY <1>a, <1>c, <1>e, <1>f
     DEF IInv, clearVars, LookupInv
<1>3. TaskInv'
  BY <1>a, <1>c, <1>e, <1>f
     DEF IInv, clearVars, TaskInv, Linked
<1>4. DrainInv'
  BY <1>a, <1>c, <1>e, <1>f
     DEF IInv, clearVars, TypeOK, DrainInv, Drained, OfQueue, Linked
<1>5. LastInv'
  BY <1>a, <1>c, <1>e, <1>f, LastKept
     DEF IInv, clearVars, LastInv
<1>6. RefsExact'
  <2> SUFFICES ASSUME NEW j \in alive'
               PROVE  Exact(j)'
    BY DEF RefsExact, Exact
  <2>1. /\ j \in alive /\ j \in Ioc /\ active_ref[j] \in Nat
        /\ UNCHANGED refcount
    BY <1>a DEF IInv, TypeOK
  <2>2. Users(j)' = Users(j)
    BY <1>a, <1>c, <1>e, <1>f DEF Users
  <2>3. Requests(j)' = Requests(j)
    BY <1>a DEF Requests
  <2>4. active_ref[j] = Cardinality(Active(j))
    BY <2>1 DEF IInv, RefsExact
  <2>5. active_ref'[j] = Cardinality(Active(j)')
    <3>1. CASE j = i
      <4>1. Cardinality(Active(j)') = Cardinality(Active(j)) - 1
        BY <1>d, <2>1, <3>1, HoldersFinite, CardDel
      <4> QED BY <4>1, <1>a, <1>b, <2>4, <3>1 DEF IInv, TypeOK
    <3>2. CASE j # i
      BY <1>a, <1>d, <2>1, <2>4, <3>2 DEF IInv, TypeOK
    <3> QED BY <3>1, <3>2
  <2> QED BY <2>1, <2>2, <2>3, <2>5 DEF IInv, RefsExact, Exact
<1>7. NoUseAfterFree'
  BY <1>a, <1>c, <1>e, <1>f
     DEF IInv, clearVars, NoUseAfterFree, OfIoc, OfQueue, Linked
<1>8. IoschedNotified'
  <2>1. ASSUME NEW e \in Linked, w = "put", icq[e].ioc = i
        PROVE  \E u \in Task : ioc[u] = i /\ u # t
                 /\ pc[u] \notin {"walk", "exit", "put", "last"}
    <3>1. Cardinality(Active(i)) = active_ref[i] /\ IsFiniteSet(Active(i))
      BY <1>b, HoldersFinite DEF IInv, RefsExact
    <3>2. Cardinality(Active(i) \ {t}) = active_ref[i] - 1
      BY <1>b, <1>d, <3>1, CardDel
    <3>3. Active(i) \ {t} # {}
      BY <1>b, <1>c, <2>1, <3>2, FS_EmptySet
    <3> QED BY <3>3 DEF Active
  <2>2. ASSUME NEW e \in Linked'
        PROVE  Watched(e)'
    <3>1. e \in Linked /\ icq' = icq /\ ioc' = ioc /\ icq[e].ioc \in Ioc
      BY <1>a, <2>2 DEF Linked, IInv, NoUseAfterFree, TypeOK
    <3>2. CASE icq[e].ioc = i /\ w = "put"
      BY <1>e, <2>1, <3>1, <3>2 DEF Active, Watched
    <3>3. CASE icq[e].ioc = i /\ w = "walk"
      BY <1>f, <3>1, <3>3 DEF Watched
    <3>4. CASE icq[e].ioc # i
      <4>1. Active(icq[e].ioc)' = Active(icq[e].ioc)
        BY <1>d, <3>1, <3>4
      <4>2. \A u \in Task : pc[u] \in {"walk", "exit"} => pc'[u] = pc[u]
        BY <1>a, <1>e
      <4> QED BY <3>1, <4>1, <4>2 DEF IInv, IoschedNotified, Watched
    <3> QED BY <1>c, <3>2, <3>3, <3>4
  <2>3. NoneStale'
    BY <1>a DEF IInv, IoschedNotified, NoneStale, Linked
  <2>4. OnePerPair'
    BY <1>a DEF IInv, IoschedNotified, OnePerPair, Linked
  <2> QED BY <2>2, <2>3, <2>4, NotifiedParts
<1> QED BY <1>1, <1>2, <1>3, <1>4, <1>5, <1>6, <1>7, <1>8 DEF IInv

\* The walk begins.
LEMMA WalkLockInv ==
  ASSUME IInv, NEW t \in Task,
         WalkLock(t)
  PROVE  IInv'
<1>n. \A e \in Linked : icq[e].ioc # Nil
  BY IocAssumption DEF IInv, NoUseAfterFree, TypeOK, IocAssumption
<1>1. TypeOK'
  BY TaskHolds, RequestHolds, IocAssumption, <1>n
     DEF IInv, WalkLock, Step, WalkFrame, iocVars, clearVars, TypeOK, TaskPc,
         IocAssumption, NoUseAfterFree, TaskInv
<1>2. LookupInv'
  BY <1>n
     DEF IInv, WalkLock, Step, WalkFrame, iocVars, clearVars, LookupInv,
         TypeOK, NoUseAfterFree, OfIoc, Linked
<1>3. TaskInv'
  BY <1>n
     DEF IInv, WalkLock, Step, WalkFrame, iocVars, clearVars, TaskInv, Linked,
         TypeOK
<1>4. DrainInv'
  BY <1>n
     DEF IInv, WalkLock, Step, WalkFrame, iocVars, clearVars, DrainInv,
         Drained, OfQueue, Linked, TypeOK
<1>5. LastInv'
  BY TaskHolds, RequestHolds, <1>n
     DEF IInv, WalkLock, Step, WalkFrame, iocVars, clearVars, LastInv, TypeOK
<1>6. RefsExact'
  BY RefsKept
     DEF IInv, WalkLock, Step, WalkFrame, iocVars, clearVars, TypeOK
<1>7. NoUseAfterFree'
  BY <1>n
     DEF IInv, WalkLock, Step, WalkFrame, iocVars, clearVars, NoUseAfterFree,
         OfIoc, OfQueue, Linked, TypeOK
<1>8. IoschedNotified'
  BY NotifiedKept, <1>n
     DEF IInv, WalkLock, Step, WalkFrame, iocVars, clearVars, TypeOK, Linked
<1> QED BY <1>1, <1>2, <1>3, <1>4, <1>5, <1>6, <1>7, <1>8 DEF IInv

\* An icq is exited where it is.
LEMMA WalkExitInv ==
  ASSUME IInv, NEW t \in Task, NEW c \in Icq,
         WalkExit(t, c)
  PROVE  IInv'
<1>n. \A e \in Linked : icq[e].ioc # Nil
  BY IocAssumption DEF IInv, NoUseAfterFree, TypeOK, IocAssumption
<1>a. /\ pc[t] = "exit"
      /\ UNCHANGED <<pc, iocVars, icq_hint, readers, ioc, queue, ptr, rq,
                     last, clearVars, gets>>
  BY DEF WalkExit, WalkFrame
<1>b. /\ icq' \in [Icq -> IcqRecord]
      /\ \A d \in Icq : /\ icq'[d].st = icq[d].st
                        /\ icq'[d].ioc = icq[d].ioc
                        /\ icq'[d].q = icq[d].q
                        /\ icq'[d].stale = icq[d].stale
      /\ \A d \in Icq \ {c} : icq'[d] = icq[d]
      /\ icq'[c].exited = TRUE
      /\ Linked' = Linked /\ c \in Linked /\ icq[c].st = "linked"
  BY ExitEffect DEF IInv, SameIcq, SameLinks, Linked
<1>c. \A r \in Rq : rq[r] # Nil => icq'[rq[r]].ioc = icq[rq[r]].ioc
  BY <1>b, RequestHolds
<1>1. TypeOK'
  BY <1>a, <1>b
     DEF IInv, iocVars, clearVars, TypeOK, IcqRecord
<1>2. LookupInv'
  BY <1>a, <1>b
     DEF IInv, iocVars, clearVars, LookupInv, TypeOK
<1>3. TaskInv'
  <2>1. Creating'
    <3> SUFFICES ASSUME NEW u \in Task, pc[u] = "link"
                 PROVE  IsNew(u)'
      BY <1>a DEF Creating
    <3>1. icq'[ptr[u]] = icq[ptr[u]]
      BY <1>b, NewIcq
    <3> QED BY <1>a, <3>1 DEF IInv, TaskInv, IsNew
  <2>2. OneCreator'
    BY <1>a DEF IInv, TaskInv, OneCreator
  <2>3. Placed'
    BY <1>a DEF IInv, TaskInv, Placed
  <2>4. OnQueues'
    BY <1>b DEF IInv, TaskInv, OnQueues, Linked
  <2> QED BY <2>1, <2>2, <2>3, <2>4, TaskParts
<1>4. DrainInv'
  BY <1>a, <1>b, <1>c, RequestHolds
     DEF IInv, iocVars, clearVars, DrainInv, Drained, OfQueue, Linked
<1>5. LastInv'
  BY <1>a, <1>c, LastKept
     DEF IInv, iocVars, clearVars, TypeOK, LastInv
<1>6. RefsExact'
  BY <1>a, <1>c, RefsKept
     DEF IInv, iocVars, clearVars
<1>7. NoUseAfterFree'
  BY <1>a, <1>b
     DEF IInv, iocVars, clearVars, NoUseAfterFree, OfIoc, OfQueue, Linked,
         TypeOK
<1>8. IoschedNotified'
  <2>1. \A e \in Linked : /\ icq'[e].ioc = icq[e].ioc /\ icq'[e].q = icq[e].q
                          /\ icq'[e].stale = icq[e].stale
                          /\ icq[e].exited => icq'[e].exited
    BY <1>b DEF Linked
  <2> QED BY <1>a, <1>b, <1>n, <2>1, NotifiedKept DEF IInv
<1> QED BY <1>1, <1>2, <1>3, <1>4, <1>5, <1>6, <1>7, <1>8 DEF IInv

\* The walk starts again.
LEMMA WalkRetryInv ==
  ASSUME IInv, NEW t \in Task, NEW c \in Icq,
         WalkRetry(t, c)
  PROVE  IInv'
<1>1. TypeOK'
  BY TaskHolds, RequestHolds, IocAssumption
     DEF IInv, WalkRetry, Step, WalkFrame, iocVars, clearVars, TypeOK, TaskPc,
         IocAssumption, NoUseAfterFree, TaskInv
<1>2. LookupInv'
  BY DEF IInv, WalkRetry, Step, WalkFrame, iocVars, clearVars, LookupInv,
         TypeOK, NoUseAfterFree, OfIoc, Linked
<1>3. TaskInv'
  BY DEF IInv, WalkRetry, Step, WalkFrame, iocVars, clearVars, TaskInv, Linked,
         TypeOK
<1>4. DrainInv'
  BY DEF IInv, WalkRetry, Step, WalkFrame, iocVars, clearVars, DrainInv,
         Drained, OfQueue, Linked, TypeOK
<1>5. LastInv'
  BY TaskHolds, RequestHolds
     DEF IInv, WalkRetry, Step, WalkFrame, iocVars, clearVars, LastInv, TypeOK
<1>6. RefsExact'
  BY RefsKept
     DEF IInv, WalkRetry, Step, WalkFrame, iocVars, clearVars, TypeOK
<1>7. NoUseAfterFree'
  BY DEF IInv, WalkRetry, Step, WalkFrame, iocVars, clearVars, NoUseAfterFree,
         OfIoc, OfQueue, Linked, TypeOK
<1>8. IoschedNotified'
  BY DEF IInv, WalkRetry, Step, WalkFrame, iocVars, clearVars, IoschedNotified,
         Linked, Active, TypeOK
<1> QED BY <1>1, <1>2, <1>3, <1>4, <1>5, <1>6, <1>7, <1>8 DEF IInv

\* The walk ends when every icq has been exited.
LEMMA WalkDoneInv ==
  ASSUME IInv, NEW t \in Task,
         WalkDone(t)
  PROVE  IInv'
<1>a. /\ pc[t] = "exit" /\ pc' = [pc EXCEPT ![t] = "put"]
      /\ \A e \in OfIoc(ioc[t]) : icq[e].exited
      /\ UNCHANGED <<icq, ioc>>
  BY DEF WalkDone, WalkFrame, Step
<1>1. TypeOK'
  BY TaskHolds, RequestHolds, IocAssumption, <1>a
     DEF IInv, WalkDone, Step, WalkFrame, iocVars, clearVars, TypeOK, TaskPc,
         IocAssumption, NoUseAfterFree, TaskInv
<1>2. LookupInv'
  BY <1>a
     DEF IInv, WalkDone, Step, WalkFrame, iocVars, clearVars, LookupInv,
         TypeOK, NoUseAfterFree, OfIoc, Linked
<1>3. TaskInv'
  BY <1>a
     DEF IInv, WalkDone, Step, WalkFrame, iocVars, clearVars, TaskInv, Linked,
         TypeOK
<1>4. DrainInv'
  BY <1>a
     DEF IInv, WalkDone, Step, WalkFrame, iocVars, clearVars, DrainInv,
         Drained, OfQueue, Linked, TypeOK
<1>5. LastInv'
  BY TaskHolds, RequestHolds, <1>a
     DEF IInv, WalkDone, Step, WalkFrame, iocVars, clearVars, LastInv, TypeOK
<1>6. RefsExact'
  BY RefsKept
     DEF IInv, WalkDone, Step, WalkFrame, iocVars, clearVars, TypeOK
<1>7. NoUseAfterFree'
  BY <1>a
     DEF IInv, WalkDone, Step, WalkFrame, iocVars, clearVars, NoUseAfterFree,
         OfIoc, OfQueue, Linked, TypeOK
<1>8. IoschedNotified'
  <2>1. ASSUME NEW e \in Linked'
        PROVE  Watched(e)'
    <3>1. e \in Linked /\ icq' = icq /\ ioc' = ioc
      BY <1>a, <2>1 DEF Linked
    <3>2. \A u \in Task : /\ u # t => pc'[u] = pc[u]
                          /\ pc[t] = "exit"
      BY <1>a DEF IInv, TypeOK
    <3>3. CASE icq[e].exited
      BY <3>1, <3>3 DEF Watched
    <3>4. CASE ~icq[e].exited
      <4>1. ioc[t] # icq[e].ioc
        BY <1>a, <3>1, <3>4 DEF OfIoc
      <4>2. \A u \in Task : ioc[u] = icq[e].ioc => pc'[u] = pc[u]
        BY <3>2, <4>1
      <4> QED BY <3>1, <3>4, <4>2 DEF IInv, IoschedNotified, Active, Watched
    <3> QED BY <3>3, <3>4
  <2>2. NoneStale'
    BY <1>a DEF IInv, IoschedNotified, NoneStale, Linked
  <2>3. OnePerPair'
    BY <1>a DEF IInv, IoschedNotified, OnePerPair, Linked
  <2> QED BY <2>1, <2>2, <2>3, NotifiedParts
<1> QED BY <1>1, <1>2, <1>3, <1>4, <1>5, <1>6, <1>7, <1>8 DEF IInv

\* A process puts its reference; if it was the last, nobody else is left.
LEMMA put_io_contextInv ==
  ASSUME IInv, NEW t \in Task,
         put_io_context(t)
  PROVE  IInv'
<1>n. \A e \in Linked : icq[e].ioc # Nil
  BY IocAssumption DEF IInv, NoUseAfterFree, TypeOK, IocAssumption
<1> DEFINE i == ioc[t]
<1>a. /\ pc[t] = "put"
      /\ refcount' = [refcount EXCEPT ![i] = refcount[i] - 1]
      /\ UNCHANGED <<alive, active_ref, icq_hint, release_work, icq, readers,
                     queue, ptr, rq, last, clearVars, gets>>
  BY DEF put_io_context
<1>b. \/ refcount[i] = 1 /\ pc' = [pc EXCEPT ![t] = "last"] /\ ioc' = ioc
      \/ refcount[i] # 1 /\ pc' = [pc EXCEPT ![t] = "idle"]
                         /\ ioc' = [ioc EXCEPT ![t] = Nil]
  BY DEF put_io_context, Step, Leave
<1>c. /\ i # Nil /\ i \in alive /\ i \in Ioc
      /\ refcount[i] \in Nat /\ refcount[i] > 0
  BY <1>a, TaskHolds DEF IInv, TaskInv, TypeOK
<1>d. /\ \A s \in last : icq[rq[s]].ioc # i
      /\ \A u \in Task : pc[u] = "last" => ioc[u] # i
      /\ release_work[i] = "no"
  BY <1>c DEF IInv, LastInv
<1>e. \A u \in Task : u # t => pc'[u] = pc[u] /\ ioc'[u] = ioc[u]
  BY <1>b DEF IInv, TypeOK
<1>f. \/ refcount[i] = 1 /\ pc'[t] = "last" /\ ioc'[t] = i
      \/ refcount[i] # 1 /\ pc'[t] = "idle" /\ ioc'[t] = Nil
  BY <1>b DEF IInv, TypeOK
<1>g. i = ioc[t]
  OBVIOUS
<1> HIDE DEF i
<1>1. TypeOK'
  BY <1>a, <1>b, <1>c
     DEF IInv, clearVars, TypeOK, TaskPc
<1>2. LookupInv'
  BY <1>a, <1>e, <1>f
     DEF IInv, clearVars, LookupInv
<1>3. TaskInv'
  <2> USE <1>a, <1>c, <1>e, <1>f DEF IInv, TaskInv
  <2>1. Placed'
    BY DEF Placed
  <2>2. Creating'
    BY DEF Creating, IsNew
  <2>3. OneCreator'
    BY DEF OneCreator
  <2>4. OnQueues'
    BY DEF OnQueues, Linked
  <2> QED BY <2>1, <2>2, <2>3, <2>4, TaskParts
<1>4. DrainInv'
  BY <1>a, <1>e, <1>f
     DEF IInv, clearVars, DrainInv, Drained, OfQueue, Linked
<1>5. LastInv'
  <2>1. \A j \in Ioc \ {i} : refcount'[j] = refcount[j]
    BY <1>a DEF IInv, TypeOK
  <2>2. /\ \A u \in Task : pc[u] = "last" => ioc[u] \in Ioc
        /\ \A s \in last : icq[rq[s]].ioc \in Ioc
    BY TaskHolds, RequestHolds DEF IInv, TypeOK, TaskInv, LastInv
  <2>3. refcount[i] = 1 => refcount'[i] = 0
    BY <1>a, <1>c DEF IInv, TypeOK
  <2>4. ASSUME NEW u \in Task, pc'[u] = "last"
        PROVE  \/ u = t /\ ioc'[u] = i /\ refcount[i] = 1
               \/ u # t /\ pc[u] = "last" /\ ioc'[u] = ioc[u] /\ ioc[u] # i
    BY <1>d, <1>e, <1>f, <2>4
  <2>5. LastTasks'
    BY <1>a, <1>d, <2>1, <2>2, <2>3, <2>4 DEF IInv, LastInv, LastTasks
  <2>6. LastRequests'
    BY <1>a, <1>d, <2>1, <2>2 DEF IInv, LastInv, LastRequests
  <2>7. LastWorks'
    BY <1>a, <1>d, <2>1 DEF IInv, LastInv, LastWorks
  <2> QED BY <2>5, <2>6, <2>7, LastParts
<1>6. RefsExact'
  <2> SUFFICES ASSUME NEW j \in alive'
               PROVE  Exact(j)'
    BY DEF RefsExact, Exact
  <2>1. /\ j \in alive /\ j \in Ioc /\ refcount[j] \in Nat /\ j # Nil
        /\ active_ref' = active_ref
    BY <1>a, IocAssumption DEF IInv, TypeOK, IocAssumption
  <2>2. Active(j)' = Active(j)
    BY <1>a, <1>e, <1>f, <2>1 DEF Active
  <2>3. Requests(j)' = Requests(j)
    BY <1>a DEF Requests
  <2>4. refcount[j] = Cardinality(Users(j)) + Cardinality(Requests(j))
    BY <2>1 DEF IInv, RefsExact
  <2>5. CASE j = i
    <3>1. Users(j)' = Users(j) \ {t} /\ t \in Users(j)
      BY <1>a, <1>e, <1>f, <1>g, <2>1, <2>5 DEF Users
    <3>2. refcount'[j] = refcount[j] - 1
      BY <1>a, <1>c, <2>5 DEF IInv, TypeOK
    <3>3. Cardinality(Users(j)') = Cardinality(Users(j)) - 1
      BY <3>1, HoldersFinite, CardDel
    <3>4. refcount'[j] = Cardinality(Users(j)') + Cardinality(Requests(j)')
      BY <2>1, <2>3, <2>4, <3>2, <3>3, HoldersFinite
    <3> QED BY <2>1, <2>2, <3>4 DEF IInv, RefsExact, Exact
  <2>6. CASE j # i
    <3>1. Users(j)' = Users(j)
      BY <1>a, <1>e, <1>f, <1>g, <2>1, <2>6 DEF Users
    <3>2. refcount'[j] = refcount[j]
      BY <1>a, <2>1, <2>6 DEF IInv, TypeOK
    <3> QED BY <2>1, <2>2, <2>3, <2>4, <3>1, <3>2 DEF IInv, RefsExact, Exact
  <2> QED BY <2>5, <2>6
<1>7. NoUseAfterFree'
  BY <1>a, <1>c, <1>e, <1>f
     DEF IInv, clearVars, NoUseAfterFree, OfIoc, OfQueue, Linked
<1>8. IoschedNotified'
  BY <1>a, <1>e, <1>f, <1>n, NotifiedKept
     DEF IInv, clearVars, Linked
<1> QED BY <1>1, <1>2, <1>3, <1>4, <1>5, <1>6, <1>7, <1>8 DEF IInv

\* The last process frees an ioc without icqs, or schedules the work.
LEMMA PutTaskLastInv ==
  ASSUME IInv, NEW t \in Task,
         PutTaskLast(t)
  PROVE  IInv'
<1> DEFINE i == ioc[t]
<1>a. /\ pc[t] = "last" /\ PutLast(i)
      /\ pc' = [pc EXCEPT ![t] = "idle"] /\ ioc' = [ioc EXCEPT ![t] = Nil]
      /\ UNCHANGED <<refcount, active_ref, icq_hint, icq, readers, queue, ptr,
                     rq, last, clearVars, gets>>
  BY DEF PutTaskLast, Leave
<1>b. /\ i # Nil /\ i \in alive /\ i \in Ioc
      /\ refcount[i] = 0 /\ release_work[i] = "no"
  BY <1>a, TaskHolds DEF IInv, LastInv, TaskInv
<1>c. \A u \in Task : ioc[u] = i => u = t
  BY <1>a, <1>b, NoHolders DEF IInv, LastInv
<1>d. \A s \in Rq : rq[s] # Nil => icq[rq[s]].ioc # i
  BY <1>a, <1>b, NoHolders DEF IInv, LastInv
<1>e. \/ /\ alive' = alive
         /\ release_work' = [release_work EXCEPT ![i] = "queued"]
      \/ /\ OfIoc(i) = {} /\ alive' = alive \ {i}
         /\ release_work' = release_work
  BY <1>a DEF PutLast
<1>f. i = ioc[t]
  OBVIOUS
<1>g. \A u \in Task \ {t} : ioc'[u] = ioc[u] /\ pc'[u] = pc[u]
  BY <1>a DEF IInv, TypeOK
<1>h. ioc'[t] = Nil /\ pc'[t] = "idle"
  BY <1>a DEF IInv, TypeOK
<1> HIDE DEF i
<1>n. \A e \in Linked : icq[e].ioc # Nil
  BY IocAssumption DEF IInv, NoUseAfterFree, TypeOK, IocAssumption
<1>1. TypeOK'
  BY <1>a, <1>b, <1>e
     DEF IInv, clearVars, TypeOK, TaskPc
<1>2. LookupInv'
  BY <1>a, <1>g, <1>h
     DEF IInv, clearVars, LookupInv
<1>3. TaskInv'
  BY <1>a, <1>g, <1>h
     DEF IInv, clearVars, TaskInv, Linked
<1>4. DrainInv'
  BY <1>a, <1>g, <1>h
     DEF IInv, clearVars, TypeOK, DrainInv, Drained, OfQueue, Linked
<1>5. LastInv'
  <2>1. \A j \in Ioc \ {i} : release_work'[j] = release_work[j]
    BY <1>e DEF IInv, TypeOK
  <2>2. /\ \A u \in Task : pc[u] = "last" => ioc[u] \in Ioc
        /\ \A s \in last : icq[rq[s]].ioc \in Ioc /\ rq[s] # Nil
    BY TaskHolds, RequestHolds DEF IInv, TypeOK, TaskInv, LastInv
  <2>5. LastTasks'
    BY <1>a, <1>c, <1>g, <1>h, <2>1, <2>2 DEF IInv, LastInv, LastTasks
  <2>6. LastRequests'
    BY <1>a, <1>d, <2>1, <2>2 DEF IInv, LastInv, TypeOK, LastRequests
  <2>7. LastWorks'
    BY <1>a, <1>b, <2>1 DEF IInv, LastInv, LastWorks
  <2> QED BY <2>5, <2>6, <2>7, LastParts
<1>6. RefsExact'
  <2> SUFFICES ASSUME NEW j \in alive'
               PROVE  Exact(j)'
    BY DEF RefsExact, Exact
  <2>1. j \in alive /\ j # Nil /\ UNCHANGED <<active_ref, refcount>>
    BY <1>a, <1>e, IocAssumption DEF IInv, TypeOK, IocAssumption
  <2>2. Active(j)' = Active(j)
    BY <1>a, <1>g, <1>h, <2>1 DEF Active
  <2>3. Users(j)' = Users(j)
    BY <1>a, <1>g, <1>h, <2>1 DEF Users
  <2>4. Requests(j)' = Requests(j)
    BY <1>a DEF Requests
  <2> QED BY <2>1, <2>2, <2>3, <2>4 DEF IInv, RefsExact, Exact
<1>7. NoUseAfterFree'
  <2> USE PointersNow, <1>a, <1>b, <1>e, <1>g, <1>h DEF iocVars, taskVars, clearVars
  <2>1. HintsLive'
    BY DEF HintsLive, OfIoc, Linked, IInv, TypeOK
  <2>2. IcqsLive'
    BY DEF IcqsLive, OfIoc, OfQueue, Linked, IInv, TypeOK
  <2>3. IocsLive'
    BY <1>c DEF IocsLive, IInv, TypeOK
  <2>4. SetsLive'
    BY DEF SetsLive, OfIoc, OfQueue, Linked, IInv, TypeOK
  <2>5. LookupsLive'
    BY DEF LookupsLive, LookupInv, IInv, TypeOK
  <2>6. RequestsLive'
    BY DEF RequestsLive, Linked, IInv, TypeOK
  <2>7. VictimsLive'
    BY DEF VictimsLive, OfQueue, Linked, IInv, TypeOK
  <2>8. WorksLive'
    BY DEF WorksLive, IInv, TypeOK
  <2> QED BY <2>1, <2>2, <2>3, <2>4, <2>5, <2>6, <2>7, <2>8, PointersNext
<1>8. IoschedNotified'
  BY <1>a, <1>g, <1>h, <1>n, NotifiedKept
     DEF IInv, clearVars, Linked
<1> QED BY <1>1, <1>2, <1>3, <1>4, <1>5, <1>6, <1>7, <1>8 DEF IInv

\* After the grace period no lookup has the icq.
LEMMA icq_free_icq_rcuInv ==
  ASSUME IInv, NEW c \in Icq,
         icq_free_icq_rcu(c)
  PROVE  IInv'
<1>n. \A e \in Linked : icq[e].ioc # Nil
  BY IocAssumption DEF IInv, NoUseAfterFree, TypeOK, IocAssumption
<1>a. /\ icq[c].st = "rcu" /\ readers[c] = {}
      /\ icq' = [icq EXCEPT ![c] = Unused]
      /\ UNCHANGED <<iocVars, icq_hint, readers, taskVars, rq, last,
                     clearVars, gets>>
  BY DEF icq_free_icq_rcu
<1>b. /\ icq' \in [Icq -> IcqRecord]
      /\ \A e \in Icq \ {c} : icq'[e] = icq[e]
      /\ Linked' = Linked /\ c \notin Linked
  <2>1. Unused \in IcqRecord /\ Unused.st = "free"
    BY DEF Unused, IcqRecord
  <2> QED BY <1>a, <2>1, SetEffect DEF IInv, SameIcq, Linked
<1>c. \A r \in Rq : rq[r] # Nil => icq'[rq[r]] = icq[rq[r]]
  BY <1>b, RequestHolds
<1>d. \A t \in Task : pc[t] = "lookup" => ptr[t] # c
  BY <1>a, IocAssumption DEF IInv, LookupInv, IocAssumption
<1>e. \A t \in Task : pc[t] = "link" => ptr[t] # c
  BY <1>a, NewIcq
<1>1. TypeOK'
  BY <1>a, <1>b
     DEF IInv, iocVars, taskVars, clearVars, TypeOK, IcqRecord
<1>2. LookupInv'
  BY <1>a, <1>b, <1>d
     DEF IInv, iocVars, taskVars, clearVars, LookupInv, TypeOK
<1>3. TaskInv'
  <2>1. Creating'
    <3> SUFFICES ASSUME NEW u \in Task, pc[u] = "link"
                 PROVE  IsNew(u)'
      BY <1>a DEF Creating, taskVars
    <3>1. icq'[ptr[u]] = icq[ptr[u]]
      BY <1>b, <1>e, NewIcq
    <3> QED BY <1>a, <3>1 DEF IInv, TaskInv, IsNew, taskVars
  <2>2. OneCreator'
    BY <1>a DEF IInv, TaskInv, OneCreator, taskVars
  <2>3. Placed'
    BY <1>a DEF IInv, TaskInv, Placed, taskVars
  <2>4. OnQueues'
    BY <1>b, <1>e DEF IInv, TaskInv, OnQueues, Linked
  <2> QED BY <2>1, <2>2, <2>3, <2>4, TaskParts
<1>4. DrainInv'
  BY <1>a, <1>b, <1>c
     DEF IInv, iocVars, taskVars, clearVars, DrainInv, Drained, OfQueue, Linked
<1>5. LastInv'
  BY <1>a, <1>c, LastKept
     DEF IInv, iocVars, taskVars, clearVars, TypeOK, LastInv
<1>6. RefsExact'
  BY <1>a, <1>c, RefsKept
     DEF IInv, iocVars, taskVars, clearVars
<1>7. NoUseAfterFree'
  BY <1>a, <1>b, <1>d
     DEF IInv, iocVars, taskVars, clearVars, NoUseAfterFree, OfIoc, OfQueue,
         Linked, TypeOK
<1>8. IoschedNotified'
  BY <1>a, <1>b, <1>n, NotifiedKept
     DEF IInv, iocVars, taskVars, clearVars, Linked
<1> QED BY <1>1, <1>2, <1>3, <1>4, <1>5, <1>6, <1>7, <1>8 DEF IInv

\* The work takes the lock of an ioc nobody has.
LEMMA WorkLockInv ==
  ASSUME IInv, NEW i \in Ioc,
         WorkLock(i)
  PROVE  IInv'
<1>1. TypeOK'
  BY TaskHolds, RequestHolds, IocAssumption
     DEF IInv, WorkLock, WorkFrame, taskVars, clearVars, TypeOK, TaskPc,
         IocAssumption, NoUseAfterFree, TaskInv
<1>2. LookupInv'
  BY DEF IInv, WorkLock, WorkFrame, taskVars, clearVars, LookupInv
<1>3. TaskInv'
  BY DEF IInv, WorkLock, WorkFrame, taskVars, clearVars, TaskInv, Linked
<1>4. DrainInv'
  BY DEF IInv, WorkLock, WorkFrame, taskVars, clearVars, DrainInv, Drained,
         OfQueue, Linked
<1>5. LastInv'
  BY TaskHolds, RequestHolds
     DEF IInv, WorkLock, WorkFrame, taskVars, clearVars, LastInv, TypeOK
<1>6. RefsExact'
  BY DEF IInv, WorkLock, WorkFrame, taskVars, clearVars, RefsExact, Active,
         Users, Requests
<1>7. NoUseAfterFree'
  BY DEF IInv, WorkLock, WorkFrame, taskVars, clearVars, NoUseAfterFree, OfIoc,
         OfQueue, Linked, TypeOK
<1>8. IoschedNotified'
  BY DEF IInv, WorkLock, WorkFrame, taskVars, clearVars, IoschedNotified,
         Linked, Active
<1> QED BY <1>1, <1>2, <1>3, <1>4, <1>5, <1>6, <1>7, <1>8 DEF IInv

\* The work destroys icqs that no process, request or clearing uses.
LEMMA WorkDestroyInv ==
  ASSUME IInv, NEW i \in Ioc, NEW c \in Icq,
         WorkDestroy(i, c)
  PROVE  IInv'
<1>n. \A e \in Linked : icq[e].ioc # Nil
  BY IocAssumption DEF IInv, NoUseAfterFree, TypeOK, IocAssumption
<1>a. /\ UNCHANGED <<refcount, active_ref, taskVars, rq, last, clearVars, gets,
                     alive, release_work>>
      /\ ~QLocked(icq[c].q)
  BY DEF WorkDestroy, WorkFrame
<1>b. /\ c \in Linked /\ c \in Icq /\ icq[c].st = "linked" /\ icq[c].ioc = i
      /\ icq[c].ioc \in Ioc /\ ioc_destroy_icq(c)
  BY DEF WorkDestroy, OfIoc, Linked
<1>c. /\ icq' \in [Icq -> IcqRecord]
      /\ \A d \in Icq : /\ icq'[d].ioc = icq[d].ioc
                        /\ icq'[d].q = icq[d].q
                        /\ icq'[d].stale = icq[d].stale
      /\ \A d \in Icq \ {c} : icq'[d] = icq[d]
      /\ icq'[c].st = "rcu" /\ icq'[c].exited = TRUE
      /\ Linked' = Linked \ {c}
      /\ icq_hint' \in [Ioc -> Icq \cup {Nil}]
      /\ \A j \in Ioc : icq_hint'[j] \in {Nil, icq_hint[j]}
      /\ icq_hint'[icq[c].ioc] # c
      /\ readers' = [readers EXCEPT ![c] = {t \in Task : pc[t] = "lookup"}]
  BY <1>b, DestroyEffect DEF IInv, SameIcq, SameLinks
<1>d. \A r \in Rq : rq[r] # Nil => icq'[rq[r]].ioc = icq[rq[r]].ioc
                                   /\ icq'[rq[r]].q = icq[rq[r]].q
  BY <1>c, RequestHolds
<1>w. /\ \A u \in Task : ioc[u] # i
      /\ \A r \in Rq : rq[r] # Nil => icq[rq[r]].ioc # i
  BY WorkAlone DEF WorkDestroy
<1>e. \A u \in Task : pc[u] = "lookup" /\ ptr[u] = c => queue[u] # icq[c].q
  BY <1>b, <1>w, IocAssumption DEF IInv, LookupInv, IocAssumption
<1>f. \A u \in Task : pc[u] = "set" => ptr[u] # c
  BY <1>b, <1>w DEF IInv, NoUseAfterFree, OfIoc
<1>g. \A r \in Rq : rq[r] # Nil => rq[r] # c
  BY <1>b, <1>w
<1>h. \A p \in Queue : state[p] = "pick" => victim[p] # c
  BY <1>a, <1>b DEF IInv, NoUseAfterFree, OfQueue, QLocked
<1>1. TypeOK'
  BY <1>a, <1>b, <1>c
     DEF IInv, taskVars, clearVars, TypeOK, IcqRecord
<1>2. LookupInv'
  <2> SUFFICES ASSUME NEW u \in Task, pc[u] = "lookup", ptr[u] # Nil
               PROVE  /\ icq'[ptr[u]].ioc = ioc[u]
                      /\ icq'[ptr[u]].st = "linked"
                           \/ (icq'[ptr[u]].st = "rcu" /\ u \in readers'[ptr[u]])
                      /\ icq'[ptr[u]].q = queue[u] => icq'[ptr[u]].st = "linked"
    BY <1>a DEF LookupInv, taskVars
  <2>1. ptr[u] \in Icq
    BY DEF IInv, TypeOK
  <2>2. CASE ptr[u] = c
    <3>1. u \in readers'[c]
      BY <1>b, <1>c, <2>1, <2>2 DEF IInv, TypeOK
    <3> QED BY <1>b, <1>c, <1>e, <2>2, <3>1 DEF IInv, LookupInv
  <2>3. CASE ptr[u] # c
    BY <1>b, <1>c, <2>1, <2>3 DEF IInv, LookupInv, TypeOK
  <2> QED BY <2>2, <2>3
<1>3. TaskInv'
  <2>1. Creating'
    <3> SUFFICES ASSUME NEW u \in Task, pc[u] = "link"
                 PROVE  IsNew(u)'
      BY <1>a DEF Creating, taskVars
    <3>1. icq'[ptr[u]] = icq[ptr[u]]
      BY <1>b, <1>c, NewIcq
    <3> QED BY <1>a, <3>1 DEF IInv, TaskInv, IsNew, taskVars
  <2>2. OneCreator'
    BY <1>a DEF IInv, TaskInv, OneCreator, taskVars
  <2>3. Placed'
    BY <1>a DEF IInv, TaskInv, Placed, taskVars
  <2>4. OnQueues'
    BY <1>b, <1>c DEF IInv, TaskInv, OnQueues, Linked
  <2> QED BY <2>1, <2>2, <2>3, <2>4, TaskParts
<1>4. DrainInv'
  BY <1>a, <1>b, <1>c, <1>d
     DEF IInv, taskVars, clearVars, DrainInv, Drained, OfQueue, Linked, TypeOK
<1>5. LastInv'
  BY <1>a, <1>d, LastKept
     DEF IInv, taskVars, clearVars, TypeOK, LastInv
<1>6. RefsExact'
  BY <1>a, <1>d, RefsKept
     DEF IInv, taskVars, clearVars
<1>7. NoUseAfterFree'
  <2> USE PointersNow, <1>a, <1>b, <1>c DEF iocVars, taskVars, clearVars
  <2>1. HintsLive'
    BY DEF HintsLive, OfIoc, Linked, IInv, TypeOK
  <2>2. IcqsLive'
    BY DEF IcqsLive, OfIoc, OfQueue, Linked, IInv, TypeOK
  <2>3. IocsLive'
    BY DEF IocsLive, IInv, TypeOK
  <2>4. SetsLive'
    BY <1>f DEF SetsLive, OfIoc, OfQueue, Linked, IInv, TypeOK
  <2>5. LookupsLive'
    BY DEF LookupsLive, LookupInv, IInv, TypeOK
  <2>6. RequestsLive'
    BY <1>g DEF RequestsLive, Linked, IInv, TypeOK
  <2>7. VictimsLive'
    BY <1>h DEF VictimsLive, OfQueue, Linked, IInv, TypeOK
  <2>8. WorksLive'
    BY DEF WorksLive, IInv, TypeOK
  <2> QED BY <2>1, <2>2, <2>3, <2>4, <2>5, <2>6, <2>7, <2>8, PointersNext
<1>8. IoschedNotified'
  <2>1. \A e \in Linked' : /\ icq'[e].ioc = icq[e].ioc /\ icq'[e].q = icq[e].q
                           /\ icq'[e].stale = icq[e].stale
                           /\ icq[e].exited => icq'[e].exited
                           /\ icq[e].ioc # Nil
    BY <1>c, <1>n DEF Linked
  <2>2. Linked' \subseteq Linked
    BY <1>c
  <2> QED BY <1>a, <2>1, <2>2, NotifiedKept DEF IInv, taskVars
<1> QED BY <1>1, <1>2, <1>3, <1>4, <1>5, <1>6, <1>7, <1>8 DEF IInv

\* The work starts again.
LEMMA WorkRetryInv ==
  ASSUME IInv, NEW i \in Ioc, NEW c \in Icq,
         WorkRetry(i, c)
  PROVE  IInv'
<1>1. TypeOK'
  BY TaskHolds, RequestHolds, IocAssumption
     DEF IInv, WorkRetry, WorkFrame, taskVars, clearVars, TypeOK, TaskPc,
         IocAssumption, NoUseAfterFree, TaskInv
<1>2. LookupInv'
  BY DEF IInv, WorkRetry, WorkFrame, taskVars, clearVars, LookupInv
<1>3. TaskInv'
  BY DEF IInv, WorkRetry, WorkFrame, taskVars, clearVars, TaskInv, Linked
<1>4. DrainInv'
  BY DEF IInv, WorkRetry, WorkFrame, taskVars, clearVars, DrainInv, Drained,
         OfQueue, Linked
<1>5. LastInv'
  BY TaskHolds, RequestHolds
     DEF IInv, WorkRetry, WorkFrame, taskVars, clearVars, LastInv, TypeOK
<1>6. RefsExact'
  BY DEF IInv, WorkRetry, WorkFrame, taskVars, clearVars, RefsExact, Active,
         Users, Requests
<1>7. NoUseAfterFree'
  BY DEF IInv, WorkRetry, WorkFrame, taskVars, clearVars, NoUseAfterFree,
         OfIoc, OfQueue, Linked, TypeOK
<1>8. IoschedNotified'
  BY DEF IInv, WorkRetry, WorkFrame, taskVars, clearVars, IoschedNotified,
         Linked, Active
<1> QED BY <1>1, <1>2, <1>3, <1>4, <1>5, <1>6, <1>7, <1>8 DEF IInv

\* The work frees an ioc nobody has.
LEMMA WorkFreeInv ==
  ASSUME IInv, NEW i \in Ioc,
         WorkFree(i)
  PROVE  IInv'
<1>a. /\ i \in alive /\ OfIoc(i) = {}
      /\ \A t \in Task : ioc[t] # i
      /\ \A r \in Rq : rq[r] # Nil => icq[rq[r]].ioc # i
  BY WorkAlone DEF WorkFree
<1>1. TypeOK'
  BY TaskHolds, RequestHolds, IocAssumption, <1>a
     DEF IInv, WorkFree, WorkFrame, taskVars, clearVars, TypeOK, TaskPc,
         IocAssumption, NoUseAfterFree, TaskInv
<1>2. LookupInv'
  BY DEF IInv, WorkFree, WorkFrame, taskVars, clearVars, LookupInv
<1>3. TaskInv'
  BY DEF IInv, WorkFree, WorkFrame, taskVars, clearVars, TaskInv, Linked
<1>4. DrainInv'
  BY DEF IInv, WorkFree, WorkFrame, taskVars, clearVars, DrainInv, Drained,
         OfQueue, Linked
<1>5. LastInv'
  BY TaskHolds, RequestHolds, <1>a
     DEF IInv, WorkFree, WorkFrame, taskVars, clearVars, LastInv, TypeOK
<1>6. RefsExact'
  BY RefsKept
     DEF IInv, WorkFree, WorkFrame, taskVars, clearVars, TypeOK
<1>7. NoUseAfterFree'
  BY <1>a
     DEF IInv, WorkFree, WorkFrame, taskVars, clearVars, NoUseAfterFree,
         TypeOK, OfIoc, OfQueue, Linked
<1>8. IoschedNotified'
  BY DEF IInv, WorkFree, WorkFrame, taskVars, clearVars, IoschedNotified,
         Linked, Active
<1> QED BY <1>1, <1>2, <1>3, <1>4, <1>5, <1>6, <1>7, <1>8 DEF IInv

\* A queue that starts to drain is still in use.
LEMMA ClearStartInv ==
  ASSUME IInv, NEW q \in Queue,
         ClearStart(q)
  PROVE  IInv'
<1>1. TypeOK'
  BY TaskHolds, RequestHolds, IocAssumption
     DEF IInv, ClearStart, At, iocVars, taskVars, TypeOK, TaskPc,
         IocAssumption, NoUseAfterFree, TaskInv
<1>2. LookupInv'
  BY DEF IInv, ClearStart, At, iocVars, taskVars, LookupInv
<1>3. TaskInv'
  BY DEF IInv, ClearStart, At, iocVars, taskVars, TaskInv, Linked
<1>4. DrainInv'
  BY DEF IInv, ClearStart, At, iocVars, taskVars, DrainInv, Drained, OfQueue,
         Linked, TypeOK
<1>5. LastInv'
  BY DEF IInv, ClearStart, At, iocVars, taskVars, LastInv
<1>6. RefsExact'
  BY DEF IInv, ClearStart, At, iocVars, taskVars, RefsExact, Active, Users,
         Requests
<1>7. NoUseAfterFree'
  BY DEF IInv, ClearStart, At, iocVars, taskVars, NoUseAfterFree, OfIoc,
         OfQueue, Linked, TypeOK
<1>8. IoschedNotified'
  BY DEF IInv, ClearStart, At, iocVars, taskVars, IoschedNotified, Linked,
         Active
<1> QED BY <1>1, <1>2, <1>3, <1>4, <1>5, <1>6, <1>7, <1>8 DEF IInv

\* A drained queue is locked.
LEMMA ClearLockInv ==
  ASSUME IInv, NEW q \in Queue,
         ClearLock(q)
  PROVE  IInv'
<1>1. TypeOK'
  BY TaskHolds, RequestHolds, IocAssumption
     DEF IInv, ClearLock, At, ClearFrame, iocVars, taskVars, TypeOK, TaskPc,
         IocAssumption, NoUseAfterFree, TaskInv
<1>2. LookupInv'
  BY DEF IInv, ClearLock, At, ClearFrame, iocVars, taskVars, LookupInv
<1>3. TaskInv'
  BY DEF IInv, ClearLock, At, ClearFrame, iocVars, taskVars, TaskInv, Linked
<1>4. DrainInv'
  BY DEF IInv, ClearLock, At, ClearFrame, iocVars, taskVars, DrainInv, Drained,
         QLocked, OfQueue, Linked, TypeOK
<1>5. LastInv'
  BY DEF IInv, ClearLock, At, ClearFrame, iocVars, taskVars, LastInv
<1>6. RefsExact'
  BY DEF IInv, ClearLock, At, ClearFrame, iocVars, taskVars, RefsExact, Active,
         Users, Requests
<1>7. NoUseAfterFree'
  BY DEF IInv, ClearLock, At, ClearFrame, iocVars, taskVars, NoUseAfterFree,
         OfIoc, OfQueue, Linked, TypeOK
<1>8. IoschedNotified'
  BY DEF IInv, ClearLock, At, ClearFrame, iocVars, taskVars, IoschedNotified,
         Linked, Active
<1> QED BY <1>1, <1>2, <1>3, <1>4, <1>5, <1>6, <1>7, <1>8 DEF IInv

\* What is picked is on the queue's list.
LEMMA ClearPickInv ==
  ASSUME IInv, NEW q \in Queue, NEW c \in Icq,
         ClearPick(q, c)
  PROVE  IInv'
<1>1. TypeOK'
  BY TaskHolds, RequestHolds, IocAssumption
     DEF IInv, ClearPick, At, ClearFrame, iocVars, taskVars, TypeOK, TaskPc,
         IocAssumption, NoUseAfterFree, TaskInv
<1>2. LookupInv'
  BY DEF IInv, ClearPick, At, ClearFrame, iocVars, taskVars, LookupInv
<1>3. TaskInv'
  BY DEF IInv, ClearPick, At, ClearFrame, iocVars, taskVars, TaskInv, Linked
<1>4. DrainInv'
  BY DEF IInv, ClearPick, At, ClearFrame, iocVars, taskVars, DrainInv, Drained,
         OfQueue, Linked, TypeOK
<1>5. LastInv'
  BY DEF IInv, ClearPick, At, ClearFrame, iocVars, taskVars, LastInv
<1>6. RefsExact'
  BY DEF IInv, ClearPick, At, ClearFrame, iocVars, taskVars, RefsExact, Active,
         Users, Requests
<1>7. NoUseAfterFree'
  BY DEF IInv, ClearPick, At, ClearFrame, iocVars, taskVars, NoUseAfterFree,
         OfIoc, OfQueue, Linked, TypeOK
<1>8. IoschedNotified'
  BY DEF IInv, ClearPick, At, ClearFrame, iocVars, taskVars, IoschedNotified,
         Linked, Active
<1> QED BY <1>1, <1>2, <1>3, <1>4, <1>5, <1>6, <1>7, <1>8 DEF IInv

\* A drained queue's icqs are used by no allocation and no request of it,
\* and lookups for other queues only pass over them.
LEMMA ClearDestroyInv ==
  ASSUME IInv, NEW q \in Queue,
         ClearDestroy(q)
  PROVE  IInv'
<1>n. \A e \in Linked : icq[e].ioc # Nil
  BY IocAssumption DEF IInv, NoUseAfterFree, TypeOK, IocAssumption
<1> DEFINE c == victim[q]
<1>a. /\ UNCHANGED <<alive, refcount, active_ref, release_work, taskVars, rq,
                     last, clears, gets>>
      /\ state[q] = "pick" /\ state' = [state EXCEPT ![q] = "clear"]
      /\ victim' = [victim EXCEPT ![q] = Nil]
  BY DEF ClearDestroy, ClearFrame, At, iocVars
<1>b. /\ c \in Linked /\ c \in Icq /\ icq[c].st = "linked" /\ icq[c].q = q
      /\ icq[c].ioc \in Ioc /\ c # Nil /\ ioc_destroy_icq(c)
  BY <1>a, IocAssumption
     DEF ClearDestroy, IInv, NoUseAfterFree, TypeOK, OfQueue, Linked,
         IocAssumption
<1>c. /\ icq' \in [Icq -> IcqRecord]
      /\ \A d \in Icq : /\ icq'[d].ioc = icq[d].ioc
                        /\ icq'[d].q = icq[d].q
                        /\ icq'[d].stale = icq[d].stale
      /\ \A d \in Icq \ {c} : icq'[d] = icq[d]
      /\ icq'[c].st = "rcu" /\ icq'[c].exited = TRUE
      /\ Linked' = Linked \ {c}
      /\ icq_hint' \in [Ioc -> Icq \cup {Nil}]
      /\ \A j \in Ioc : icq_hint'[j] \in {Nil, icq_hint[j]}
      /\ icq_hint'[icq[c].ioc] # c
      /\ readers' = [readers EXCEPT ![c] = {t \in Task : pc[t] = "lookup"}]
  BY <1>b, DestroyEffect DEF IInv, SameIcq, SameLinks
<1>d. \A r \in Rq : rq[r] # Nil => icq'[rq[r]].ioc = icq[rq[r]].ioc
                                   /\ icq'[rq[r]].q = icq[rq[r]].q
  BY <1>c, RequestHolds
<1>w. Drained(q)
  BY <1>a DEF IInv, DrainInv
<1> HIDE DEF c
<1>e. \A u \in Task : pc[u] = "lookup" /\ ptr[u] = c => queue[u] # icq[c].q
  BY <1>a, <1>b DEF IInv, DrainInv
<1>f. \A u \in Task : pc[u] = "set" => ptr[u] # c
  BY <1>b, <1>w DEF IInv, NoUseAfterFree, OfQueue, Drained
<1>g. \A r \in Rq : rq[r] # Nil => rq[r] # c
  BY <1>b, <1>w DEF Drained
<1>h. \A p \in Queue : state[p] = "pick" /\ p # q => victim[p] # c
  BY <1>a, <1>b DEF IInv, NoUseAfterFree, OfQueue
<1>1. TypeOK'
  BY <1>a, <1>b, <1>c
     DEF IInv, iocVars, taskVars, TypeOK, IcqRecord
<1>2. LookupInv'
  <2> SUFFICES ASSUME NEW u \in Task, pc[u] = "lookup", ptr[u] # Nil
               PROVE  /\ icq'[ptr[u]].ioc = ioc[u]
                      /\ icq'[ptr[u]].st = "linked"
                           \/ (icq'[ptr[u]].st = "rcu" /\ u \in readers'[ptr[u]])
                      /\ icq'[ptr[u]].q = queue[u] => icq'[ptr[u]].st = "linked"
    BY <1>a DEF LookupInv, taskVars
  <2>1. ptr[u] \in Icq
    BY DEF IInv, TypeOK
  <2>2. CASE ptr[u] = c
    <3>1. u \in readers'[c]
      BY <1>b, <1>c, <2>1, <2>2 DEF IInv, TypeOK
    <3> QED BY <1>b, <1>c, <1>e, <2>2, <3>1 DEF IInv, LookupInv
  <2>3. CASE ptr[u] # c
    BY <1>b, <1>c, <2>1, <2>3 DEF IInv, LookupInv, TypeOK
  <2> QED BY <2>2, <2>3
<1>3. TaskInv'
  <2>1. Creating'
    <3> SUFFICES ASSUME NEW u \in Task, pc[u] = "link"
                 PROVE  IsNew(u)'
      BY <1>a DEF Creating, taskVars
    <3>1. icq'[ptr[u]] = icq[ptr[u]]
      BY <1>b, <1>c, NewIcq
    <3> QED BY <1>a, <3>1 DEF IInv, TaskInv, IsNew, taskVars
  <2>2. OneCreator'
    BY <1>a DEF IInv, TaskInv, OneCreator, taskVars
  <2>3. Placed'
    BY <1>a DEF IInv, TaskInv, Placed, taskVars
  <2>4. OnQueues'
    BY <1>b, <1>c DEF IInv, TaskInv, OnQueues, Linked
  <2> QED BY <2>1, <2>2, <2>3, <2>4, TaskParts
<1>4. DrainInv'
  BY <1>a, <1>b, <1>c, <1>d
     DEF IInv, iocVars, taskVars, DrainInv, Drained, OfQueue, Linked, TypeOK
<1>5. LastInv'
  BY <1>a, <1>d, LastKept
     DEF IInv, iocVars, taskVars, TypeOK, LastInv
<1>6. RefsExact'
  BY <1>a, <1>d, RefsKept
     DEF IInv, iocVars, taskVars
<1>7. NoUseAfterFree'
  <2> USE PointersNow, <1>a, <1>b, <1>c DEF iocVars, taskVars, clearVars
  <2>1. HintsLive'
    BY DEF HintsLive, OfIoc, Linked, IInv, TypeOK
  <2>2. IcqsLive'
    BY DEF IcqsLive, OfIoc, OfQueue, Linked, IInv, TypeOK
  <2>3. IocsLive'
    BY DEF IocsLive, IInv, TypeOK
  <2>4. SetsLive'
    BY <1>f DEF SetsLive, OfIoc, OfQueue, Linked, IInv, TypeOK
  <2>5. LookupsLive'
    BY DEF LookupsLive, LookupInv, IInv, TypeOK
  <2>6. RequestsLive'
    BY <1>g DEF RequestsLive, Linked, IInv, TypeOK
  <2>7. VictimsLive'
    BY <1>h DEF VictimsLive, OfQueue, Linked, IInv, TypeOK
  <2>8. WorksLive'
    BY DEF WorksLive, IInv, TypeOK
  <2> QED BY <2>1, <2>2, <2>3, <2>4, <2>5, <2>6, <2>7, <2>8, PointersNext
<1>8. IoschedNotified'
  <2>1. \A e \in Linked' : /\ icq'[e].ioc = icq[e].ioc /\ icq'[e].q = icq[e].q
                           /\ icq'[e].stale = icq[e].stale
                           /\ icq[e].exited => icq'[e].exited
                           /\ icq[e].ioc # Nil
    BY <1>c, <1>n DEF Linked
  <2>2. Linked' \subseteq Linked
    BY <1>c
  <2> QED BY <1>a, <2>1, <2>2, NotifiedKept DEF IInv, taskVars
<1> QED BY <1>1, <1>2, <1>3, <1>4, <1>5, <1>6, <1>7, <1>8 DEF IInv

\* A cleared queue has no icqs.
LEMMA ClearDoneInv ==
  ASSUME IInv, NEW q \in Queue,
         ClearDone(q)
  PROVE  IInv'
<1>1. TypeOK'
  BY TaskHolds, RequestHolds, IocAssumption
     DEF IInv, ClearDone, At, ClearFrame, iocVars, taskVars, TypeOK, TaskPc,
         IocAssumption, NoUseAfterFree, TaskInv
<1>2. LookupInv'
  BY DEF IInv, ClearDone, At, ClearFrame, iocVars, taskVars, LookupInv
<1>3. TaskInv'
  BY DEF IInv, ClearDone, At, ClearFrame, iocVars, taskVars, TaskInv, Linked
<1>4. DrainInv'
  BY DEF IInv, ClearDone, At, ClearFrame, iocVars, taskVars, DrainInv, Drained,
         OfQueue, Linked, TypeOK
<1>5. LastInv'
  BY DEF IInv, ClearDone, At, ClearFrame, iocVars, taskVars, LastInv
<1>6. RefsExact'
  BY DEF IInv, ClearDone, At, ClearFrame, iocVars, taskVars, RefsExact, Active,
         Users, Requests
<1>7. NoUseAfterFree'
  BY DEF IInv, ClearDone, At, ClearFrame, iocVars, taskVars, NoUseAfterFree,
         OfIoc, OfQueue, Linked, TypeOK
<1>8. IoschedNotified'
  BY DEF IInv, ClearDone, At, ClearFrame, iocVars, taskVars, IoschedNotified,
         Linked, Active
<1> QED BY <1>1, <1>2, <1>3, <1>4, <1>5, <1>6, <1>7, <1>8 DEF IInv

\* A queue without icqs may go, or change its elevator.
LEMMA ClearEndInv ==
  ASSUME IInv, NEW q \in Queue, NEW where \in {"live", "gone"},
         ClearEnd(q, where)
  PROVE  IInv'
<1>a. /\ state[q] = "cleared" /\ where \in {"live", "gone"}
      /\ state' = [state EXCEPT ![q] = where]
      /\ UNCHANGED <<iocVars, taskVars, rq, last, clears, gets, icq_hint,
                     readers, victim>>
  BY DEF ClearEnd, ClearFrame, At
<1>b. /\ icq' \in [Icq -> IcqRecord]
      /\ \A d \in Icq : /\ icq'[d].st = icq[d].st
                        /\ icq'[d].ioc = icq[d].ioc
                        /\ icq'[d].q = icq[d].q
                        /\ icq[d].q # q => icq'[d] = icq[d]
      /\ Linked' = Linked
      /\ \A d \in Linked : icq'[d] = icq[d]
  BY EndEffect DEF IInv, SameIcq
<1>c. Drained(q) /\ OfQueue(q) = {}
  BY <1>a DEF IInv, DrainInv
<1>l. \A t \in Task : pc[t] = "lookup" => queue[t] # q
  BY DEF ClearEnd, QLocked
<1>d. \A r \in Rq : rq[r] # Nil => icq'[rq[r]] = icq[rq[r]]
  BY <1>b, RequestHolds
<1>e. \A t \in Task : pc[t] = "link" => ptr[t] \in Icq /\ icq[ptr[t]].q # q
  BY <1>c, NewIcq DEF Drained
<1>n. \A e \in Linked : icq[e].ioc # Nil
  BY IocAssumption DEF IInv, NoUseAfterFree, TypeOK, IocAssumption
<1>1. TypeOK'
  BY <1>a, <1>b
     DEF IInv, iocVars, taskVars, TypeOK, IcqRecord
<1>2. LookupInv'
  BY <1>a, <1>b
     DEF IInv, iocVars, taskVars, LookupInv, TypeOK
<1>3. TaskInv'
  <2>1. Creating'
    <3> SUFFICES ASSUME NEW u \in Task, pc[u] = "link"
                 PROVE  IsNew(u)'
      BY <1>a DEF Creating, taskVars
    <3>1. icq'[ptr[u]] = icq[ptr[u]]
      BY <1>b, <1>e, NewIcq
    <3> QED BY <1>a, <3>1 DEF IInv, TaskInv, IsNew, taskVars
  <2>2. OneCreator'
    BY <1>a DEF IInv, TaskInv, OneCreator, taskVars
  <2>3. Placed'
    BY <1>a DEF IInv, TaskInv, Placed, taskVars
  <2>4. OnQueues'
    BY <1>b, <1>e DEF IInv, TaskInv, OnQueues, Linked
  <2> QED BY <2>1, <2>2, <2>3, <2>4, TaskParts
<1>4. DrainInv'
  BY <1>a, <1>b, <1>c, <1>d, <1>l
     DEF IInv, iocVars, taskVars, DrainInv, Drained, OfQueue, Linked, TypeOK
<1>5. LastInv'
  BY <1>a, <1>d, LastKept
     DEF IInv, iocVars, taskVars, TypeOK, LastInv
<1>6. RefsExact'
  BY <1>a, <1>d, RefsKept
     DEF IInv, iocVars, taskVars
<1>7. NoUseAfterFree'
  <2> USE PointersNow, <1>a, <1>b DEF iocVars, taskVars, clearVars
  <2>1. HintsLive'
    BY DEF HintsLive, OfIoc, Linked, IInv, TypeOK
  <2>2. IcqsLive'
    BY <1>c DEF IcqsLive, OfIoc, OfQueue, Linked, IInv, TypeOK
  <2>3. IocsLive'
    BY DEF IocsLive, IInv, TypeOK
  <2>4. SetsLive'
    BY DEF SetsLive, OfIoc, OfQueue, Linked, IInv, TypeOK
  <2>5. LookupsLive'
    BY DEF LookupsLive, LookupInv, IInv, TypeOK
  <2>6. RequestsLive'
    BY DEF RequestsLive, Linked, IInv, TypeOK
  <2>7. VictimsLive'
    BY DEF VictimsLive, OfQueue, Linked, IInv, TypeOK
  <2>8. WorksLive'
    BY DEF WorksLive, IInv, TypeOK
  <2> QED BY <2>1, <2>2, <2>3, <2>4, <2>5, <2>6, <2>7, <2>8, PointersNext
<1>8. IoschedNotified'
  BY <1>a, <1>b, <1>n, NotifiedKept
     DEF IInv, iocVars, taskVars
<1> QED BY <1>1, <1>2, <1>3, <1>4, <1>5, <1>6, <1>7, <1>8 DEF IInv

-----------------------------------------------------------------------------
(* The theorems *)

\* Nothing is allocated at first.
LEMMA InitInv == Init => IInv
<1> SUFFICES ASSUME Init PROVE IInv
  OBVIOUS
<1>1. TypeOK
  BY IocAssumption DEF Init, TypeOK, TaskPc, Unused, IocAssumption
<1>2. Linked = {}
  BY DEF Init, Linked, Unused
<1>3. LookupInv /\ TaskInv
  BY <1>2 DEF Init, LookupInv, TaskInv
<1>4. DrainInv
  BY <1>2 DEF Init, DrainInv
<1>5. LastInv
  BY DEF Init, LastInv
<1>6. RefsExact
  BY DEF Init, RefsExact
<1>7. NoUseAfterFree
  BY <1>2, IocAssumption DEF Init, NoUseAfterFree
<1>8. IoschedNotified
  BY <1>2 DEF IoschedNotified
<1> QED BY <1>1, <1>3, <1>4, <1>5, <1>6, <1>7, <1>8 DEF IInv

\* A step that changes nothing preserves the invariant.
LEMMA StutterInv == IInv /\ UNCHANGED vars => IInv'
<1> SUFFICES ASSUME IInv, UNCHANGED vars PROVE IInv'
  OBVIOUS
<1> USE DEF IInv, vars
<1>1. TypeOK'
  BY DEF TypeOK
<1>2. LookupInv' /\ TaskInv'
  BY DEF LookupInv, TaskInv, Linked
<1>3. DrainInv' /\ LastInv'
  BY DEF DrainInv, LastInv, Drained, OfQueue, Linked
<1>4. RefsExact'
  BY DEF RefsExact, Active, Users, Requests
<1>5. NoUseAfterFree'
  BY DEF NoUseAfterFree, OfIoc, OfQueue, Linked
<1>6. IoschedNotified'
  BY DEF IoschedNotified, Active, Linked
<1> QED BY <1>1, <1>2, <1>3, <1>4, <1>5, <1>6

\* Every step preserves the invariant.
LEMMA NextInv == IInv /\ [Next]_vars => IInv'
<1> SUFFICES ASSUME IInv, [Next]_vars PROVE IInv'
  OBVIOUS
<1>1. CASE \E t \in Task, i \in Ioc : create_io_context(t, i)
  BY <1>1, create_io_contextInv
<1>2. CASE \E t, u \in Task : ioc_task_link(t, u) \/ get_task_io_context(t, u)
  BY <1>2, ioc_task_linkInv, get_task_io_contextInv
<1>3. CASE \E t \in Task, q \in Queue : LookupHint(t, q)
  BY <1>3, LookupHintInv
<1>4. CASE \E t \in Task : exit_io_context(t)
  BY <1>4, exit_io_contextInv
<1>5. CASE \E q \in Queue : ClearStart(q)
  BY <1>5, ClearStartInv
<1>6. CASE \E r \in Rq : FreeRequest(r)
  BY <1>6, FreeRequestInv
<1>7. CASE \/ \E r, s \in Rq : cfq_dispatch_request(r, s)
           \/ \E c \in Icq : icq_free_icq_rcu(c)
  BY <1>7, cfq_dispatch_requestInv, icq_free_icq_rcuInv
<1>8. CASE LinkStep \/ LastStep \/ ClearStep
  BY <1>8, CreateLinkInv, FreeLastInv, ClearDestroyInv
     DEF LinkStep, LastStep, ClearStep
<1>9. ASSUME NEW t \in Task, TaskStep(t) PROVE IInv'
  <2>1. CASE LookupTree(t) \/ ElvprivFail(t)
    BY <2>1, LookupTreeInv, ElvprivFailInv
  <2>2. CASE \E c \in Icq : CreateLock(t, c)
    BY <2>2, CreateLockInv
  <2>3. CASE \E r \in Rq : SetRequest(t, r)
    BY <2>3, SetRequestInv
  <2>4. CASE WalkLock(t) \/ WalkDone(t)
    BY <2>4, WalkLockInv, WalkDoneInv
  <2>5. CASE \E c \in Icq : WalkExit(t, c) \/ WalkRetry(t, c)
    BY <2>5, WalkExitInv, WalkRetryInv
  <2>6. CASE put_io_context(t) \/ PutTaskLast(t)
    BY <2>6, put_io_contextInv, PutTaskLastInv
  <2> QED BY <1>9, <2>1, <2>2, <2>3, <2>4, <2>5, <2>6 DEF TaskStep
<1>10. ASSUME NEW i \in Ioc, WorkStep(i) PROVE IInv'
  BY <1>10, WorkLockInv, WorkDestroyInv, WorkRetryInv, WorkFreeInv
     DEF WorkStep
<1>11. ASSUME NEW q \in Queue, QueueStep(q) PROVE IInv'
  BY <1>11, ClearLockInv, ClearPickInv, ClearDoneInv, ClearEndInv
     DEF QueueStep
<1>12. CASE UNCHANGED vars
  BY <1>12, StutterInv
<1> QED BY <1>1, <1>2, <1>3, <1>4, <1>5, <1>6, <1>7, <1>8, <1>9, <1>10, <1>11,
           <1>12 DEF Next

\* The invariant holds throughout, whatever processes, requests, elevator
\* switches and releases of io_contexts do meanwhile (block/blk-ioc.c).
THEOREM IocInvariant == Spec => []IInv
BY InitInv, NextInv, PTL DEF Spec

\* Every variable keeps its type; the reference counts do not go below zero.
THEOREM TypeCorrect == Spec => []TypeOK
<1>1. IInv => TypeOK
  BY DEF IInv
<1> QED BY IocInvariant, <1>1, PTL

\* ioc->refcount and ioc->active_ref count exactly the processes and requests
\* that will put a reference: no ioc is freed early and none leaks.
THEOREM ReferencesExact == Spec => []RefsExact
<1>1. IInv => RefsExact
  BY DEF IInv
<1> QED BY IocInvariant, <1>1, PTL

\* Icqs have no reference count, yet the hint, the trees, requests, lookups
\* and ioc_clear_queue() never hold one that is gone.
THEOREM PointersLive == Spec => []NoUseAfterFree
<1>1. IInv => NoUseAfterFree
  BY DEF IInv
<1> QED BY IocInvariant, <1>1, PTL

\* put_io_context_active() has every icq exited by the time the last active
\* process is gone, and no icq outlives the elevator it was created for.
THEOREM EveryIcqExited == Spec => []IoschedNotified
<1>1. IInv => IoschedNotified
  BY DEF IInv
<1> QED BY IocInvariant, <1>1, PTL

=============================================================================
