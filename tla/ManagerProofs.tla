---------------------------- MODULE ManagerProofs ----------------------------
(***************************************************************************)
(* Theorems about ManagerConcurrency: snapshots are untorn, isolated and   *)
(* bracketed, and the manager implements QueueRegistry, for any callers,   *)
(* pods, queues and specs.                                                 *)
(***************************************************************************)
EXTENDS ManagerConcurrency, TLAPS

(***************************************************************************)
(* The inductive invariant.  Where pointers may point: the table's and a   *)
(* caller's to a slot of their queue's name, a clone's to the slot that    *)
(* only Clone allocates.  Nobody but the table, the callers and the        *)
(* snapshot keeps a pointer, and whatever they point to is allocated.      *)
(***************************************************************************)
Slots(name) == {name} \X (0..MaxOrphans)

TableOK ==
    /\ DOMAIN queueByName \subseteq Names
    /\ \A n \in DOMAIN queueByName : queueByName[n] \in Slots(n)

CallRecords ==
    [op : {"add", "delete"}, pod : PodObjects,
     at : {"called", "found", "quota", "ok", "error"},
     ptr : {Nil} \cup (Names \X (0..MaxOrphans))]

CallsOK ==
    /\ calls \in [Callers -> {Idle} \cup CallRecords]
    /\ \A c \in Callers : HoldsQueue(c) => calls[c].ptr \in Slots(calls[c].pod.queue)

UpdatingOK ==
    \/ updating = Idle
    \/ /\ updating = [op |-> "update", ptr |-> updating.ptr, cfg |-> updating.cfg]
       /\ updating.ptr \in PointersOf(queueByName)

CloneOK ==
    /\ clone = [at |-> clone.at, queues |-> clone.queues, todo |-> clone.todo]
    /\ clone.at \in {"none", "copying", "ready", "changed"}
    /\ DOMAIN clone.queues \subseteq Names
    /\ clone.todo \subseteq DOMAIN clone.queues
    /\ \A n \in clone.todo : clone.queues[n] \in Slots(n)
    /\ \A n \in DOMAIN clone.queues \ clone.todo : clone.queues[n] = <<n, CloneSlot>>
    /\ clone.at # "copying" => clone.todo = {}
    /\ clone.at = "none" => DOMAIN clone.queues = {}

QuotaShape(q) == q = [max |-> q.max, used |-> q.used, podsByID |-> q.podsByID]
QueueShape(x) == x = [quota |-> x.quota, cfg |-> x.cfg] /\ QuotaShape(x.quota)

HeapOK ==
    /\ DOMAIN heap = Reachable
    /\ \A ptr \in DOMAIN heap : QueueShape(heap[ptr])

StateInv == TableOK /\ CallsOK /\ UpdatingOK /\ CloneOK /\ HeapOK

-----------------------------------------------------------------------------
(* The operations of one quota.                                            *)

\* A fresh queue has an empty ledger and the maximum asked for.
LEMMA NewQueueFacts ==
    ASSUME NEW max
    PROVE  /\ QuotaShape(NewQueue(max))
           /\ NewQueue(max).max = max
           /\ DOMAIN NewQueue(max).podsByID = {}
  BY DEF QuotaShape, NewQueue, SetMax, NewQuota

\* An update of the maximum leaves the ledger alone.
LEMMA SetMaxFacts ==
    ASSUME NEW q, QuotaShape(q), NEW max
    PROVE  /\ QuotaShape(SetMax(q, max))
           /\ SetMax(q, max).max = max
           /\ SetMax(q, max).podsByID = q.podsByID
  <1>1. SetMax(q, max) = [max |-> max, used |-> q.used, podsByID |-> q.podsByID]
    BY DEF QuotaShape, SetMax
  <1> QED  BY <1>1 DEF QuotaShape

\* A quota with other entries and another total.
LEMMA QuotaExcept ==
    ASSUME NEW q, QuotaShape(q), NEW m, NEW used
    PROVE  [q EXCEPT !.podsByID = m, !.used = used] =
              [max |-> q.max, used |-> used, podsByID |-> m]
  <1> DEFINE r == [q EXCEPT !.podsByID = m]
  <1>1. r = [max |-> q.max, used |-> q.used, podsByID |-> m]
    BY DEF QuotaShape
  <1> HIDE DEF r
  <1>2. [r EXCEPT !.used = used] = [max |-> q.max, used |-> used, podsByID |-> m]
    BY <1>1
  <1> QED  BY <1>2 DEF r

\* Adding or deleting a pod leaves the maximum alone and changes the ledger
\* by that pod at most.
LEMMA AccountFacts ==
    ASSUME NEW q, QuotaShape(q), NEW call
    PROVE  /\ QuotaShape(Account(q, call))
           /\ Account(q, call).max = q.max
           /\ DOMAIN Account(q, call).podsByID =
                IF call.op = "add" THEN DOMAIN q.podsByID \cup {call.pod.uid}
                ELSE DOMAIN q.podsByID \ {call.pod.uid}
  <1> DEFINE u == call.pod.uid
             added == [max |-> q.max, used |-> Add(q.used, FromPodReq(call.pod.req)),
                       podsByID |-> MapSet(q.podsByID, u, call.pod.req)]
             deleted == [max |-> q.max, used |-> Sub(q.used, FromPodReq(call.pod.req)),
                         podsByID |-> MapDelete(q.podsByID, u)]
  <1>1. AddPodIfNotPresent(q, call.pod) = IF u \in DOMAIN q.podsByID THEN q ELSE added
    BY QuotaExcept DEF AddPodIfNotPresent, ContainsPod
  <1>2. DeletePodIfPresent(q, call.pod) = IF u \in DOMAIN q.podsByID THEN deleted ELSE q
    BY QuotaExcept DEF DeletePodIfPresent, ContainsPod
  <1>3. DOMAIN MapSet(q.podsByID, u, call.pod.req) = DOMAIN q.podsByID \cup {u}
    BY DEF MapSet
  <1>4. DOMAIN MapDelete(q.podsByID, u) = DOMAIN q.podsByID \ {u}
    BY DEF MapDelete
  <1>5. QuotaShape(added) /\ QuotaShape(deleted)
    BY DEF QuotaShape
  <1> HIDE DEF u
  <1>6. CASE call.op = "add"
    <2>1. Account(q, call) = AddPodIfNotPresent(q, call.pod)  BY <1>6 DEF Account
    <2> QED  BY <2>1, <1>1, <1>3, <1>5, <1>6 DEF u
  <1>7. CASE call.op # "add"
    <2>1. Account(q, call) = DeletePodIfPresent(q, call.pod)  BY <1>7 DEF Account
    <2> QED  BY <2>1, <1>2, <1>4, <1>5, <1>7 DEF u
  <1> QED  BY <1>6, <1>7

LEMMA AccountGains ==
    ASSUME NEW q, QuotaShape(q), NEW call
    PROVE  DOMAIN Account(q, call).podsByID \subseteq DOMAIN q.podsByID \cup {call.pod.uid}
  <1> DEFINE d == DOMAIN Account(q, call).podsByID
  <1>1. d = IF call.op = "add" THEN DOMAIN q.podsByID \cup {call.pod.uid}
            ELSE DOMAIN q.podsByID \ {call.pod.uid}
    BY AccountFacts
  <1> HIDE DEF d
  <1>2. d \subseteq DOMAIN q.podsByID \cup {call.pod.uid}
    BY <1>1
  <1> QED  BY <1>2 DEF d

-----------------------------------------------------------------------------
(* What a step does to the heap.                                           *)

\* Pointers that are in use.
LEMMA InReachable ==
    \A ptr : ptr \in Reachable <=>
        \/ \E n \in DOMAIN queueByName : ptr = queueByName[n]
        \/ \E n \in DOMAIN clone.queues : ptr = clone.queues[n]
        \/ \E c \in Callers : HoldsQueue(c) /\ ptr = calls[c].ptr
  BY DEF Reachable, PointersOf

\* Every queue in use after the step was there before and is unchanged.
Preserves ==
    /\ DOMAIN heap' = Reachable'
    /\ \A ptr \in DOMAIN heap' : ptr \in DOMAIN heap /\ heap'[ptr] = heap[ptr]

\* The same of every queue but the one at p, which is x after the step.
Rewrites(p, x) ==
    /\ DOMAIN heap' = Reachable'
    /\ \A ptr \in DOMAIN heap' :
          \/ ptr = p /\ heap'[ptr] = x
          \/ ptr # p /\ ptr \in DOMAIN heap /\ heap'[ptr] = heap[ptr]

\* The queue x with its quota replaced.
WithQuota(x, q) == [quota |-> q, cfg |-> x.cfg]

\* EXCEPT on a queue's quota.
LEMMA QueueExcept ==
    ASSUME NEW x, QueueShape(x), NEW q
    PROVE  [x EXCEPT !.quota = q] = WithQuota(x, q)
  BY DEF QueueShape, WithQuota

\* Steps that neither change the heap nor let go of a pointer.
LEMMA CallPreserves ==
    ASSUME StateInv, NEW c \in Callers,
           \/ \E op \in {"add", "delete"}, pod \in PodObjects : Invoke(c, op, pod)
           \/ IgnorePod(c) \/ GetByName(c) \/ GetQuota(c) \/ Return(c)
    PROVE  Preserves
  <1>1. heap' = heap /\ queueByName' = queueByName /\ clone' = clone
    BY DEF Invoke, IgnorePod, GetByName, GetQuota, Return
  <1>2. \A d \in Callers \ {c} : calls'[d] = calls[d]
    BY DEF Invoke, IgnorePod, GetByName, GetQuota, Return, StateInv, CallsOK
  <1>3. HoldsQueue(c)' => \/ HoldsQueue(c) /\ calls'[c].ptr = calls[c].ptr
                          \/ calls'[c].ptr \in PointersOf(queueByName)
    <2> USE DEF HoldsQueue, At, Idle, StateInv, CallsOK, CallRecords, PointersOf, HasQueue
    <2>1. ASSUME NEW op \in {"add", "delete"}, NEW pod \in PodObjects, Invoke(c, op, pod)
          PROVE  ~HoldsQueue(c)'
      BY <2>1 DEF Invoke
    <2>2. ASSUME IgnorePod(c) PROVE ~HoldsQueue(c)'  BY <2>2 DEF IgnorePod
    <2>3. ASSUME GetByName(c), HoldsQueue(c)' PROVE calls'[c].ptr \in PointersOf(queueByName)
      BY <2>3 DEF GetByName
    <2>4. ASSUME GetQuota(c) PROVE HoldsQueue(c) /\ calls'[c].ptr = calls[c].ptr
      BY <2>4 DEF GetQuota
    <2>5. ASSUME Return(c) PROVE ~HoldsQueue(c)'  BY <2>5 DEF Return
    <2> QED  BY <2>1, <2>2, <2>3, <2>4, <2>5
  <1>4. HoldsQueue(c) => HoldsQueue(c)' /\ calls'[c].ptr = calls[c].ptr
    BY DEF HoldsQueue, At, Idle, StateInv, CallsOK, CallRecords,
           Invoke, IgnorePod, GetByName, GetQuota, Return
  <1>5. \A d \in Callers \ {c} : HoldsQueue(d)' <=> HoldsQueue(d)
    BY <1>2 DEF HoldsQueue, At
  <1>6. Reachable' = Reachable
    <2>1. Reachable \subseteq Reachable'
      BY <1>1, <1>2, <1>4, <1>5 DEF Reachable, PointersOf
    <2>2. Reachable' \subseteq Reachable
      BY <1>1, <1>2, <1>3, <1>5 DEF Reachable, PointersOf
    <2> QED  BY <2>1, <2>2
  <1> QED  BY <1>1, <1>6 DEF Preserves, StateInv, HeapOK

\* Copying the table copies pointers only.
LEMMA CopyPreserves ==
    ASSUME StateInv, CopyTable
    PROVE  Preserves
  <1>1. /\ heap' = heap /\ queueByName' = queueByName /\ calls' = calls
        /\ clone'.queues = queueByName /\ DOMAIN clone.queues = {}
    BY DEF CopyTable, StateInv, CloneOK
  <1>2. Reachable' = Reachable
    BY <1>1 DEF Reachable, PointersOf, HoldsQueue, At
  <1> QED  BY <1>1, <1>2 DEF Preserves, StateInv, HeapOK

\* Deleting a queue and dropping a snapshot free queues, no more.
LEMMA DeletePreserves ==
    ASSUME StateInv, NEW name \in Names, DeleteQueue(name)
    PROVE  Preserves
  <1>1. Reachable' \subseteq Reachable
    BY DEF DeleteQueue, Delete, Reachable, PointersOf, HoldsQueue, At
  <1> QED  BY <1>1 DEF DeleteQueue, Collected, Preserves, StateInv, HeapOK

LEMMA DropPreserves ==
    ASSUME StateInv, DropClone
    PROVE  Preserves
  <1>1. Reachable' \subseteq Reachable
    BY DEF DropClone, NoClone, Reachable, PointersOf, HoldsQueue, At
  <1> QED  BY <1>1 DEF DropClone, Collected, Preserves, StateInv, HeapOK

\* A caller changes the quota of the queue it holds.
LEMMA ApplyRewrites ==
    ASSUME StateInv, NEW c \in Callers, ApplyToQuota(c)
    PROVE  LET p == calls[c].ptr IN
           /\ p \in DOMAIN heap
           /\ Rewrites(p, WithQuota(heap[p], Account(heap[p].quota, calls[c])))
  <1> DEFINE p == calls[c].ptr
             x == [heap[p] EXCEPT !.quota = Account(heap[p].quota, calls[c])]
  <1>1. p \in DOMAIN heap
    BY DEF ApplyToQuota, HoldsQueue, StateInv, HeapOK, Reachable
  <1>2. x = WithQuota(heap[p], Account(heap[p].quota, calls[c]))
    BY <1>1, QueueExcept DEF StateInv, HeapOK
  <1>3. heap' = [ptr \in Reachable' |-> [heap EXCEPT ![p] = x][ptr]]
    BY DEF ApplyToQuota, Collected
  <1>4. Reachable' \subseteq Reachable
    <2>1. queueByName' = queueByName /\ clone' = clone
      BY DEF ApplyToQuota
    <2>2. \A d \in Callers : HoldsQueue(d)' => HoldsQueue(d) /\ calls'[d].ptr = calls[d].ptr
      BY DEF ApplyToQuota, HoldsQueue, At, Idle, StateInv, CallsOK, CallRecords
    <2> QED  BY <2>1, <2>2 DEF Reachable, PointersOf
  <1> HIDE DEF x, p
  <1>5. Rewrites(p, x)
    BY <1>1, <1>3, <1>4 DEF Rewrites, StateInv, HeapOK
  <1> QED  BY <1>1, <1>2, <1>5 DEF p

\* Put works on an address nobody uses.
LEMMA PutRewrites ==
    ASSUME StateInv, NEW name \in Names, NEW spec \in Specs, PutQueue(name, spec)
    PROVE  /\ Allocated(name) \in Slots(name)
           /\ Allocated(name) \notin DOMAIN heap
           /\ Rewrites(Allocated(name), New(spec))
  <1> DEFINE p == Allocated(name)
  <1>1. p \in Slots(name) /\ p \notin DOMAIN heap
    BY DEF PutQueue, Allocated, Free, Slots
  <1> HIDE DEF p
  <1>2. Reachable' \subseteq Reachable \cup {p}
    <2>1. calls' = calls /\ clone' = clone /\ queueByName' = Bind(queueByName, name, p)
      BY DEF PutQueue, p
    <2> QED  BY <2>1 DEF Bind, Reachable, PointersOf, HoldsQueue, At
  <1>3. heap' = [ptr \in Reachable' |-> Bind(heap, p, New(spec))[ptr]]
    BY DEF PutQueue, Collected, p
  <1>4. Rewrites(p, New(spec))
    BY <1>1, <1>2, <1>3 DEF Rewrites, Bind, StateInv, HeapOK
  <1> QED  BY <1>1, <1>4 DEF p

\* The two halves of Update work on a queue of the table.
LEMMA ApplyFirstRewrites ==
    ASSUME StateInv, NEW name \in Names, NEW spec \in Specs, ApplyFirstOpts(name, spec)
    PROVE  LET p == queueByName[name] IN
           /\ p \in DOMAIN heap
           /\ Rewrites(p, WithQuota(heap[p], SetMax(heap[p].quota, spec.max)))
  <1> DEFINE p == queueByName[name]
             x == [heap[p] EXCEPT !.quota = SetMax(heap[p].quota, spec.max)]
  <1>1. p \in DOMAIN heap
    BY DEF ApplyFirstOpts, StateInv, HeapOK, Reachable, PointersOf
  <1>2. x = WithQuota(heap[p], SetMax(heap[p].quota, spec.max))
    BY <1>1, QueueExcept DEF StateInv, HeapOK
  <1>3. heap' = [heap EXCEPT ![p] = x]
    BY DEF ApplyFirstOpts
  <1>4. Reachable' = Reachable
    BY DEF ApplyFirstOpts, Reachable, PointersOf, HoldsQueue, At
  <1> HIDE DEF x, p
  <1>5. Rewrites(p, x)
    BY <1>1, <1>3, <1>4 DEF Rewrites, StateInv, HeapOK
  <1> QED  BY <1>1, <1>2, <1>5 DEF p

LEMMA ApplyLastRewrites ==
    ASSUME StateInv, ApplyLastOpts
    PROVE  LET p == updating.ptr IN
           /\ p \in DOMAIN heap
           /\ Rewrites(p, [quota |-> heap[p].quota, cfg |-> updating.cfg])
  <1> DEFINE p == updating.ptr
             x == [heap[p] EXCEPT !.cfg = updating.cfg]
  <1>1. p \in DOMAIN heap
    BY DEF ApplyLastOpts, StateInv, HeapOK, UpdatingOK, Reachable
  <1>2. x = [quota |-> heap[p].quota, cfg |-> updating.cfg]
    <2> DEFINE y == heap[p]
    <2>1. QueueShape(y)  BY <1>1 DEF StateInv, HeapOK
    <2> HIDE DEF y
    <2>2. [y EXCEPT !.cfg = updating.cfg] = [quota |-> y.quota, cfg |-> updating.cfg]
      BY <2>1 DEF QueueShape
    <2> QED  BY <2>2 DEF y
  <1>3. heap' = [heap EXCEPT ![p] = x]
    BY DEF ApplyLastOpts
  <1>4. Reachable' = Reachable
    BY DEF ApplyLastOpts, Reachable, PointersOf, HoldsQueue, At
  <1> HIDE DEF x, p
  <1>5. Rewrites(p, x)
    BY <1>1, <1>3, <1>4 DEF Rewrites, StateInv, HeapOK
  <1> QED  BY <1>1, <1>2, <1>5 DEF p

\* Cloning a queue writes to the slot for clones of its name.
LEMMA CloneRewrites ==
    ASSUME StateInv, NEW name \in Names, CloneQueue(name)
    PROVE  /\ clone.queues[name] \in DOMAIN heap
           /\ Rewrites(<<name, CloneSlot>>, CloneOf(heap[clone.queues[name]]))
  <1> DEFINE p == <<name, CloneSlot>>
             x == CloneOf(heap[clone.queues[name]])
  <1>1. clone.queues[name] \in DOMAIN heap
    BY DEF CloneQueue, StateInv, HeapOK, CloneOK, Reachable, PointersOf
  <1>2. Reachable' \subseteq Reachable \cup {p}
    <2>1. /\ calls' = calls /\ queueByName' = queueByName
          /\ clone'.queues = [clone.queues EXCEPT ![name] = p]
      BY DEF CloneQueue
    <2> HIDE DEF p
    <2> QED  BY <2>1 DEF Reachable, PointersOf, HoldsQueue, At
  <1>3. heap' = [ptr \in Reachable' |-> Bind(heap, p, x)[ptr]]
    BY DEF CloneQueue, Collected
  <1> HIDE DEF p, x
  <1>4. Rewrites(p, x)
    BY <1>2, <1>3 DEF Rewrites, Bind, StateInv, HeapOK
  <1> QED  BY <1>1, <1>4 DEF p, x

\* A simulated change works on a clone.
LEMMA SimulateRewrites ==
    ASSUME StateInv, NEW op, NEW pod, Simulate(op, pod)
    PROVE  LET p == <<pod.queue, CloneSlot>> IN
           /\ p \in DOMAIN heap
           /\ Rewrites(p, WithQuota(heap[p], Account(heap[p].quota, [op |-> op, pod |-> pod])))
  <1> DEFINE p == <<pod.queue, CloneSlot>>
             x == [heap[p] EXCEPT !.quota = Account(heap[p].quota, [op |-> op, pod |-> pod])]
  <1>1. pod.queue \in DOMAIN clone.queues /\ clone.queues[pod.queue] = p
    BY DEF Simulate, HasQueue, StateInv, CloneOK
  <1>2. p \in DOMAIN heap
    BY <1>1 DEF StateInv, HeapOK, Reachable, PointersOf
  <1>3. x = WithQuota(heap[p], Account(heap[p].quota, [op |-> op, pod |-> pod]))
    BY <1>2, QueueExcept DEF StateInv, HeapOK
  <1>4. heap' = [heap EXCEPT ![p] = x]
    BY <1>1 DEF Simulate
  <1>5. Reachable' = Reachable
    <2>1. clone'.queues = clone.queues /\ calls' = calls /\ queueByName' = queueByName
      BY DEF Simulate, StateInv, CloneOK
    <2> QED  BY <2>1 DEF Reachable, PointersOf, HoldsQueue, At
  <1> HIDE DEF x, p
  <1>6. Rewrites(p, x)
    BY <1>2, <1>4, <1>5 DEF Rewrites, StateInv, HeapOK
  <1> QED  BY <1>2, <1>3, <1>6 DEF p

-----------------------------------------------------------------------------
(* StateInv is an invariant.                                               *)

LEMMA StateInvInit ==
    ASSUME Init
    PROVE  StateInv
  <1> USE CallersAssumption, QueuesAssumption
  <1>1. TableOK
    BY DEF Init, TableOK, Slots
  <1>2. CallsOK
    BY DEF Init, CallsOK, HoldsQueue, At
  <1>3. UpdatingOK
    BY DEF Init, UpdatingOK
  <1>4. CloneOK
    BY DEF Init, CloneOK, NoClone
  <1>5. HeapOK
    <2>1. Reachable = PointersOf(queueByName)
      BY DEF Init, Reachable, PointersOf, NoClone, HoldsQueue, At
    <2>2. \A ptr \in DOMAIN heap : QueueShape(heap[ptr])
      BY NewQueueFacts DEF Init, QueueShape, New
    <2> QED  BY <2>1, <2>2 DEF Init, HeapOK
  <1> QED  BY <1>1, <1>2, <1>3, <1>4, <1>5 DEF StateInv

\* The shape of the heap, from what the step does to it.
LEMMA HeapOKKept ==
    ASSUME HeapOK, Preserves
    PROVE  HeapOK'
  BY DEF HeapOK, Preserves

LEMMA HeapOKRewritten ==
    ASSUME HeapOK, NEW p, NEW x, Rewrites(p, x), QueueShape(x)
    PROVE  HeapOK'
  BY DEF HeapOK, Rewrites

\* Every other part of StateInv is about variables that most steps leave alone.
LEMMA TableKept ==
    ASSUME queueByName' = queueByName
    PROVE  /\ TableOK => TableOK'
           /\ UpdatingOK /\ updating' = updating => UpdatingOK'
  BY DEF TableOK, UpdatingOK, PointersOf

LEMMA CloneKept ==
    ASSUME CloneOK, clone' = clone
    PROVE  CloneOK'
  BY DEF CloneOK

LEMMA CallsKept ==
    ASSUME CallsOK, calls' = calls
    PROVE  CallsOK'
  BY DEF CallsOK, HoldsQueue, At

\* A step of a caller's call.
LEMMA CallStepInv ==
    ASSUME StateInv, NEW c \in Callers,
           \/ \E op \in {"add", "delete"}, pod \in PodObjects : Invoke(c, op, pod)
           \/ CallerStep(c)
    PROVE  StateInv'
  <1>1. queueByName' = queueByName /\ updating' = updating /\ clone' = clone
    BY DEF CallerStep, Invoke, IgnorePod, GetByName, GetQuota, ApplyToQuota, Return
  <1>2. TableOK' /\ UpdatingOK' /\ CloneOK'
    BY <1>1, TableKept, CloneKept DEF StateInv
  <1>3. CallsOK'
    <2> DEFINE CallMoves ==
                 /\ calls' \in [Callers -> {Idle} \cup CallRecords]
                 /\ HoldsQueue(c)' => calls'[c].ptr \in Slots(calls'[c].pod.queue)
                 /\ \A d \in Callers \ {c} : calls'[d] = calls[d]
    <2>1. CallMoves
      <3> USE DEF StateInv, CallsOK, CallRecords, HoldsQueue, At, Idle
      <3>1. ASSUME NEW op \in {"add", "delete"}, NEW pod \in PodObjects, Invoke(c, op, pod)
            PROVE  CallMoves
        BY <3>1 DEF Invoke
      <3>2. ASSUME IgnorePod(c) PROVE CallMoves  BY <3>2 DEF IgnorePod
      <3>3. ASSUME GetByName(c) PROVE CallMoves
        <4>1. CASE HasQueue(queueByName, calls[c].pod)
          <5>1. calls[c].pod.queue \in Names
            BY <4>1 DEF HasQueue, TableOK
          <5>2. queueByName[calls[c].pod.queue] \in Slots(calls[c].pod.queue)
            BY <4>1 DEF HasQueue, TableOK
          <5> QED  BY <3>3, <4>1, <5>1, <5>2 DEF GetByName, Slots
        <4>2. CASE ~HasQueue(queueByName, calls[c].pod)
          BY <3>3, <4>2 DEF GetByName
        <4> QED  BY <4>1, <4>2
      <3>4. ASSUME GetQuota(c) PROVE CallMoves  BY <3>4 DEF GetQuota
      <3>5. ASSUME ApplyToQuota(c) PROVE CallMoves
        <4>1. At(c, "quota") /\ calls' = [calls EXCEPT ![c].at = "ok", ![c].ptr = Nil]
          BY <3>5 DEF ApplyToQuota
        <4>2. calls[c] \in CallRecords
          BY <4>1
        <4> DEFINE r == [calls[c] EXCEPT !.at = "ok", !.ptr = Nil]
        <4>3. r \in CallRecords /\ r.at = "ok"
          BY <4>2
        <4>4. calls' = [calls EXCEPT ![c] = r]
          BY <4>1
        <4> HIDE DEF r, CallRecords
        <4> QED  BY <4>3, <4>4
      <3>6. ASSUME Return(c) PROVE CallMoves  BY <3>6 DEF Return
      <3> QED  BY <3>1, <3>2, <3>3, <3>4, <3>5, <3>6 DEF CallerStep
    <2>2. \A d \in Callers \ {c} : HoldsQueue(d)' <=> HoldsQueue(d)
      BY <2>1 DEF HoldsQueue, At
    <2> QED  BY <2>1, <2>2 DEF StateInv, CallsOK
  <1>4. HeapOK'
    <2>1. CASE ApplyToQuota(c)
      <3> DEFINE p == calls[c].ptr
                 q == Account(heap[p].quota, calls[c])
      <3>1. p \in DOMAIN heap /\ Rewrites(p, WithQuota(heap[p], q))
        BY <2>1, ApplyRewrites
      <3>2. QuotaShape(q)
        BY <3>1, AccountFacts DEF StateInv, HeapOK, QueueShape
      <3> HIDE DEF p, q
      <3>3. QueueShape(WithQuota(heap[p], q))
        BY <3>2 DEF QueueShape, WithQuota
      <3> QED  BY <3>1, <3>3, HeapOKRewritten DEF StateInv
    <2>2. CASE ~ApplyToQuota(c)
      BY <2>2, CallPreserves, HeapOKKept DEF CallerStep, StateInv
    <2> QED  BY <2>1, <2>2
  <1> QED  BY <1>2, <1>3, <1>4 DEF StateInv

\* Put, Update and Delete.
LEMMA PutInv ==
    ASSUME StateInv, NEW name \in Names, NEW spec \in Specs, PutQueue(name, spec)
    PROVE  StateInv'
  <1> DEFINE p == Allocated(name)
  <1>1. p \in Slots(name) /\ Rewrites(p, New(spec))
    BY PutRewrites
  <1>2. /\ queueByName' = Bind(queueByName, name, p) /\ updating = Idle
        /\ calls' = calls /\ updating' = updating /\ clone' = clone
    BY DEF PutQueue
  <1> HIDE DEF p
  <1>3. TableOK'
    BY <1>1, <1>2 DEF Bind, StateInv, TableOK
  <1>4. UpdatingOK' /\ CloneOK' /\ CallsOK'
    BY <1>2, CloneKept, CallsKept DEF StateInv, UpdatingOK
  <1>5. QueueShape(New(spec))
    BY NewQueueFacts DEF QueueShape, New
  <1> QED  BY <1>1, <1>3, <1>4, <1>5, HeapOKRewritten DEF StateInv

LEMMA ApplyFirstInv ==
    ASSUME StateInv, NEW name \in Names, NEW spec \in Specs, ApplyFirstOpts(name, spec)
    PROVE  StateInv'
  <1> DEFINE p == queueByName[name]
             q == SetMax(heap[p].quota, spec.max)
  <1>1. p \in DOMAIN heap /\ Rewrites(p, WithQuota(heap[p], q))
    BY ApplyFirstRewrites
  <1>2. QuotaShape(q)
    BY <1>1, SetMaxFacts DEF StateInv, HeapOK, QueueShape
  <1>3. queueByName' = queueByName /\ calls' = calls /\ clone' = clone
    BY DEF ApplyFirstOpts
  <1>4. UpdatingOK'
    BY DEF ApplyFirstOpts, UpdatingOK, PointersOf
  <1> HIDE DEF p, q
  <1>5. QueueShape(WithQuota(heap[p], q))
    BY <1>2 DEF QueueShape, WithQuota
  <1>6. HeapOK'
    BY <1>1, <1>5, HeapOKRewritten DEF StateInv
  <1> QED  BY <1>3, <1>4, <1>6, TableKept, CloneKept, CallsKept DEF StateInv

LEMMA ApplyLastInv ==
    ASSUME StateInv, ApplyLastOpts
    PROVE  StateInv'
  <1> DEFINE p == updating.ptr
             x == [quota |-> heap[p].quota, cfg |-> updating.cfg]
  <1>1. p \in DOMAIN heap /\ Rewrites(p, x)
    BY ApplyLastRewrites
  <1>2. /\ queueByName' = queueByName /\ calls' = calls /\ clone' = clone
        /\ updating' = Idle
    BY DEF ApplyLastOpts
  <1>3. QueueShape(x)
    BY <1>1 DEF StateInv, HeapOK, QueueShape
  <1> HIDE DEF p, x
  <1>4. HeapOK'
    BY <1>1, <1>3, HeapOKRewritten DEF StateInv
  <1>5. UpdatingOK'
    BY <1>2 DEF UpdatingOK
  <1> QED  BY <1>2, <1>4, <1>5, TableKept, CloneKept, CallsKept DEF StateInv

LEMMA DeleteInv ==
    ASSUME StateInv, NEW name \in Names, DeleteQueue(name)
    PROVE  StateInv'
  <1>1. /\ queueByName' = Delete(queueByName, name) /\ updating = Idle
        /\ calls' = calls /\ updating' = updating /\ clone' = clone
    BY DEF DeleteQueue
  <1>2. TableOK'
    BY <1>1 DEF Delete, StateInv, TableOK
  <1>3. UpdatingOK' /\ CloneOK' /\ CallsOK'
    BY <1>1, CloneKept, CallsKept DEF StateInv, UpdatingOK
  <1> QED  BY <1>2, <1>3, DeletePreserves, HeapOKKept DEF StateInv

\* Clone and what follows it.
LEMMA CopyInv ==
    ASSUME StateInv, CopyTable
    PROVE  StateInv'
  <1>1. queueByName' = queueByName /\ updating' = updating /\ calls' = calls
    BY DEF CopyTable
  <1>2. CloneOK'
    BY DEF CopyTable, CloneOK, StateInv, TableOK
  <1> QED  BY <1>1, <1>2, TableKept, CallsKept, CopyPreserves, HeapOKKept DEF StateInv

LEMMA CloneQueueInv ==
    ASSUME StateInv, NEW name \in Names, CloneQueue(name)
    PROVE  StateInv'
  <1> DEFINE p == clone.queues[name]
  <1>1. p \in DOMAIN heap /\ Rewrites(<<name, CloneSlot>>, CloneOf(heap[p]))
    BY CloneRewrites
  <1>2. queueByName' = queueByName /\ updating' = updating /\ calls' = calls
    BY DEF CloneQueue
  <1>3. CloneOK'
    <2>1. /\ name \in clone.todo
          /\ clone' = [at     |-> IF clone.todo = {name} THEN "ready" ELSE "copying",
                       queues |-> [clone.queues EXCEPT ![name] = <<name, CloneSlot>>],
                       todo   |-> clone.todo \ {name}]
      BY DEF CloneQueue
    <2> QED  BY <2>1 DEF CloneOK, StateInv
  <1>4. QueueShape(CloneOf(heap[p]))
    BY <1>1 DEF StateInv, HeapOK, QueueShape, CloneOf
  <1>5. HeapOK'
    BY <1>1, <1>4, HeapOKRewritten DEF StateInv
  <1> QED  BY <1>2, <1>3, <1>5, TableKept, CallsKept DEF StateInv

LEMMA SimulateInv ==
    ASSUME StateInv, NEW op \in {"add", "delete"}, NEW pod \in PodObjects, Simulate(op, pod)
    PROVE  StateInv'
  <1> DEFINE p == <<pod.queue, CloneSlot>>
             q == Account(heap[p].quota, [op |-> op, pod |-> pod])
  <1>1. p \in DOMAIN heap /\ Rewrites(p, WithQuota(heap[p], q))
    BY SimulateRewrites
  <1>2. QuotaShape(q)
    BY <1>1, AccountFacts DEF StateInv, HeapOK, QueueShape
  <1>3. queueByName' = queueByName /\ updating' = updating /\ calls' = calls
    BY DEF Simulate
  <1>4. CloneOK'
    BY DEF Simulate, CloneOK, StateInv
  <1> HIDE DEF p, q
  <1>5. QueueShape(WithQuota(heap[p], q))
    BY <1>2 DEF QueueShape, WithQuota
  <1>6. HeapOK'
    BY <1>1, <1>5, HeapOKRewritten DEF StateInv
  <1> QED  BY <1>3, <1>4, <1>6, TableKept, CallsKept DEF StateInv

LEMMA DropInv ==
    ASSUME StateInv, DropClone
    PROVE  StateInv'
  <1>1. queueByName' = queueByName /\ updating' = updating /\ calls' = calls
    BY DEF DropClone
  <1>2. CloneOK'
    BY DEF DropClone, NoClone, CloneOK
  <1> QED  BY <1>1, <1>2, TableKept, CallsKept, DropPreserves, HeapOKKept DEF StateInv

\* The steps of Next, with Update resolved into creating and changing a queue.
QueueStep ==
    \E name \in Names :
        \/ \E spec \in Specs : PutQueue(name, spec) \/ ApplyFirstOpts(name, spec)
        \/ DeleteQueue(name)

LEMMA Steps ==
    ASSUME Next
    PROVE  \/ \E c \in Callers :
                \/ \E op \in {"add", "delete"}, pod \in PodObjects : Invoke(c, op, pod)
                \/ CallerStep(c)
           \/ QueueStep
           \/ ApplyLastOpts
           \/ CopyTable
           \/ \E name \in Names : CloneQueue(name)
           \/ DropClone
           \/ \E op \in {"add", "delete"}, pod \in PodObjects : Simulate(op, pod)
  BY QueuesAssumption DEF Next, UpdateQueue, QueueStep, CloneStep

LEMMA StateInvNext ==
    ASSUME StateInv, [Next]_vars
    PROVE  StateInv'
  <1>1. CASE Next
    BY <1>1, Steps, CallStepInv, PutInv, ApplyFirstInv, ApplyLastInv, DeleteInv, CopyInv,
       CloneQueueInv, SimulateInv, DropInv DEF QueueStep
  <1>2. CASE UNCHANGED vars
    <2>1. /\ queueByName' = queueByName /\ updating' = updating /\ calls' = calls
          /\ clone' = clone /\ heap' = heap
      BY <1>2 DEF vars
    <2>2. HeapOK'
      BY <2>1 DEF StateInv, HeapOK, Reachable, PointersOf, HoldsQueue, At
    <2> QED  BY <2>1, <2>2, TableKept, CallsKept, CloneKept DEF StateInv
  <1> QED  BY <1>1, <1>2

-----------------------------------------------------------------------------
(* Snapshots are untorn.  What is true of every queue, cloned or not: its  *)
(* maximum and its rules come from one spec, taking the rules that an      *)
(* update under way is about to write.  A clone is never the queue that is *)
(* being updated.                                                          *)

SpecsOK ==
    \A ptr \in DOMAIN heap :
        [max |-> heap[ptr].quota.max,
         cfg |-> IF QueueLocked(ptr) THEN updating.cfg ELSE heap[ptr].cfg] \in Specs

\* The slot for clones is none of the slots for the table's queues.
LEMMA NotACloneSlot ==
    ASSUME NEW n, NEW m, NEW ptr \in Slots(n)
    PROVE  ptr # <<m, CloneSlot>> /\ ptr[1] = n
  BY CallersAssumption DEF Slots, CloneSlot

\* Queues under an update are the table's.
LEMMA LockedSlot ==
    ASSUME TableOK, UpdatingOK, NEW ptr, QueueLocked(ptr)
    PROVE  \E n \in DOMAIN queueByName : ptr = queueByName[n] /\ ptr \in Slots(n)
  BY DEF TableOK, UpdatingOK, QueueLocked, PointersOf

LEMMA SpecsOKInit ==
    ASSUME Init
    PROVE  SpecsOK
  <1> SUFFICES ASSUME NEW ptr \in DOMAIN heap
               PROVE  [max |-> heap[ptr].quota.max,
                       cfg |-> IF QueueLocked(ptr) THEN updating.cfg ELSE heap[ptr].cfg] \in Specs
    BY DEF SpecsOK
  <1>1. heap[ptr] = New(Initial[ptr[1]]) /\ Initial[ptr[1]] \in Specs
    BY QueuesAssumption DEF Init, PointersOf
  <1>2. ~QueueLocked(ptr)
    BY DEF Init, QueueLocked
  <1> QED  BY <1>1, <1>2, QueuesAssumption, NewQueueFacts DEF New

\* A step that changes one queue, or none, and locks none.
LEMMA SpecsKept ==
    ASSUME SpecsOK, Preserves, updating' = updating
    PROVE  SpecsOK'
  BY DEF SpecsOK, Preserves, QueueLocked

LEMMA SpecsRewritten ==
    ASSUME SpecsOK, updating' = updating, NEW p, NEW x, Rewrites(p, x),
           [max |-> x.quota.max, cfg |-> IF QueueLocked(p) THEN updating.cfg ELSE x.cfg] \in Specs
    PROVE  SpecsOK'
  BY DEF SpecsOK, Rewrites, QueueLocked

LEMMA SpecsOKNext ==
    ASSUME StateInv, SpecsOK, [Next]_vars
    PROVE  SpecsOK'
  <1>1. ASSUME NEW c \in Callers,
               \/ \E op \in {"add", "delete"}, pod \in PodObjects : Invoke(c, op, pod)
               \/ CallerStep(c)
        PROVE  SpecsOK'
    <2>1. updating' = updating
      BY <1>1 DEF CallerStep, Invoke, IgnorePod, GetByName, GetQuota, ApplyToQuota, Return
    <2>2. CASE ApplyToQuota(c)
      <3> DEFINE p == calls[c].ptr
                 q == Account(heap[p].quota, calls[c])
      <3>1. p \in DOMAIN heap /\ Rewrites(p, WithQuota(heap[p], q))
        BY <2>2, ApplyRewrites
      <3>2. q.max = heap[p].quota.max
        BY <3>1, AccountFacts DEF StateInv, HeapOK, QueueShape
      <3> HIDE DEF p, q
      <3> QED  BY <2>1, <3>1, <3>2, SpecsRewritten DEF WithQuota, SpecsOK
    <2>3. CASE ~ApplyToQuota(c)
      BY <1>1, <2>1, <2>3, CallPreserves, SpecsKept DEF CallerStep
    <2> QED  BY <2>2, <2>3
  <1>2. ASSUME NEW name \in Names, NEW spec \in Specs, PutQueue(name, spec)
        PROVE  SpecsOK'
    <2>1. Rewrites(Allocated(name), New(spec)) /\ updating' = updating /\ updating = Idle
      BY <1>2, PutRewrites DEF PutQueue
    <2>2. [max |-> New(spec).quota.max, cfg |-> New(spec).cfg] \in Specs
      BY NewQueueFacts, QueuesAssumption DEF New
    <2> QED  BY <2>1, <2>2, SpecsRewritten DEF QueueLocked
  <1>3. ASSUME NEW name \in Names, NEW spec \in Specs, ApplyFirstOpts(name, spec)
        PROVE  SpecsOK'
    <2> DEFINE p == queueByName[name]
               q == SetMax(heap[p].quota, spec.max)
    <2>1. p \in DOMAIN heap /\ Rewrites(p, WithQuota(heap[p], q))
      BY <1>3, ApplyFirstRewrites
    <2>2. q.max = spec.max
      BY <2>1, SetMaxFacts DEF StateInv, HeapOK, QueueShape
    <2>3. /\ updating = Idle /\ updating' # Idle
          /\ updating'.ptr = p /\ updating'.cfg = spec.cfg
      BY <1>3 DEF ApplyFirstOpts, Idle
    <2>4. [max |-> spec.max, cfg |-> spec.cfg] \in Specs
      BY QueuesAssumption
    <2> HIDE DEF p, q
    <2> QED  BY <2>1, <2>2, <2>3, <2>4 DEF SpecsOK, Rewrites, WithQuota, QueueLocked
  <1>4. ASSUME ApplyLastOpts
        PROVE  SpecsOK'
    <2>1. /\ updating.ptr \in DOMAIN heap
          /\ Rewrites(updating.ptr, [quota |-> heap[updating.ptr].quota, cfg |-> updating.cfg])
      BY <1>4, ApplyLastRewrites
    <2>2. updating # Idle /\ updating' = Idle
      BY <1>4 DEF ApplyLastOpts
    <2> QED  BY <2>1, <2>2 DEF SpecsOK, Rewrites, QueueLocked
  <1>5. ASSUME NEW name \in Names, DeleteQueue(name)
        PROVE  SpecsOK'
    BY <1>5, DeletePreserves, SpecsKept DEF DeleteQueue
  <1>6. ASSUME CopyTable \/ DropClone
        PROVE  SpecsOK'
    BY <1>6, CopyPreserves, DropPreserves, SpecsKept DEF CopyTable, DropClone
  <1>7. ASSUME NEW name \in Names, CloneQueue(name)
        PROVE  SpecsOK'
    <2> DEFINE p == clone.queues[name]
    <2>1. p \in DOMAIN heap /\ Rewrites(<<name, CloneSlot>>, CloneOf(heap[p]))
      BY <1>7, CloneRewrites
    <2>2. ~QueueLocked(p) /\ updating' = updating
      BY <1>7 DEF CloneQueue
    <2>3. ~QueueLocked(<<name, CloneSlot>>)
      BY LockedSlot, NotACloneSlot DEF StateInv
    <2> HIDE DEF p
    <2> QED  BY <2>1, <2>2, <2>3, SpecsRewritten DEF CloneOf, SpecsOK
  <1>8. ASSUME NEW op \in {"add", "delete"}, NEW pod \in PodObjects, Simulate(op, pod)
        PROVE  SpecsOK'
    <2> DEFINE p == <<pod.queue, CloneSlot>>
               q == Account(heap[p].quota, [op |-> op, pod |-> pod])
    <2>1. p \in DOMAIN heap /\ Rewrites(p, WithQuota(heap[p], q))
      BY <1>8, SimulateRewrites
    <2>2. q.max = heap[p].quota.max
      BY <2>1, AccountFacts DEF StateInv, HeapOK, QueueShape
    <2>3. updating' = updating
      BY <1>8 DEF Simulate
    <2> HIDE DEF p, q
    <2> QED  BY <2>1, <2>2, <2>3, SpecsRewritten DEF WithQuota, SpecsOK
  <1>9. ASSUME UNCHANGED vars
        PROVE  SpecsOK'
    BY <1>9 DEF vars, SpecsOK, QueueLocked
  <1> QED  BY <1>1, <1>2, <1>3, <1>4, <1>5, <1>6, <1>7, <1>8, <1>9, Steps DEF QueueStep

\* The maximum and the preemption rules of a cloned queue come from one spec:
\* Queue.Clone holds the lock that ApplyOpts holds from its first option to
\* its last (queue.go:127, :141).
THEOREM SnapshotAlwaysUntorn == Spec => []SnapshotUntorn
  <1>1. Init => StateInv /\ SpecsOK
    BY StateInvInit, SpecsOKInit
  <1>2. StateInv /\ SpecsOK /\ [Next]_vars => (StateInv /\ SpecsOK)'
    BY StateInvNext, SpecsOKNext
  <1>3. StateInv /\ SpecsOK => SnapshotUntorn
    <2> SUFFICES ASSUME StateInv, SpecsOK, NEW n \in DOMAIN clone.queues \ clone.todo
                 PROVE  [max |-> heap[clone.queues[n]].quota.max,
                         cfg |-> heap[clone.queues[n]].cfg] \in Specs
      BY DEF SnapshotUntorn
    <2>1. clone.queues[n] = <<n, CloneSlot>> /\ clone.queues[n] \in DOMAIN heap
      BY DEF StateInv, CloneOK, HeapOK, Reachable, PointersOf
    <2>2. ~QueueLocked(<<n, CloneSlot>>)
      BY LockedSlot, NotACloneSlot DEF StateInv
    <2> QED  BY <2>1, <2>2 DEF SpecsOK
  <1> QED  BY <1>1, <1>2, <1>3, PTL DEF Spec

-----------------------------------------------------------------------------
(* Snapshots are isolated.                                                 *)

\* No step but the scheduling cycle's own changes a queue in a clone's slot
\* that is already filled.
ClonesKept ==
    \A n \in (DOMAIN clone.queues \ clone.todo) \cap DOMAIN clone'.queues :
        /\ clone'.queues[n] = <<n, CloneSlot>> /\ clone.queues[n] = <<n, CloneSlot>>
        /\ heap'[<<n, CloneSlot>>] = heap[<<n, CloneSlot>>]

\* Two cases of a step that changes neither clone nor the clones' slots.
LEMMA ClonesPreserved ==
    ASSUME StateInv, StateInv', clone' = clone, Preserves
    PROVE  ClonesKept
  BY DEF ClonesKept, Preserves, StateInv, CloneOK, HeapOK, Reachable, PointersOf

LEMMA ClonesNotRewritten ==
    ASSUME StateInv, StateInv', clone' = clone,
           NEW m, NEW p \in Slots(m), NEW x, Rewrites(p, x)
    PROVE  ClonesKept
  <1>1. \A n : p # <<n, CloneSlot>>
    BY NotACloneSlot
  <1> QED
    BY <1>1 DEF ClonesKept, Rewrites, StateInv, CloneOK, HeapOK, Reachable, PointersOf

\* Accounting calls and changes of the registry.
LEMMA CallKeepsClones ==
    ASSUME StateInv, StateInv', NEW c \in Callers,
           \/ \E op \in {"add", "delete"}, pod \in PodObjects : Invoke(c, op, pod)
           \/ CallerStep(c)
    PROVE  ClonesKept /\ clone' = clone
  <1>1. clone' = clone
    BY DEF CallerStep, Invoke, IgnorePod, GetByName, GetQuota, ApplyToQuota, Return
  <1>2. CASE ApplyToQuota(c)
    <2>1. calls[c].ptr \in Slots(calls[c].pod.queue)
      BY <1>2 DEF ApplyToQuota, HoldsQueue, StateInv, CallsOK
    <2> QED  BY <1>1, <1>2, <2>1, ApplyRewrites, ClonesNotRewritten
  <1>3. CASE ~ApplyToQuota(c)
    BY <1>1, <1>3, CallPreserves, ClonesPreserved DEF CallerStep
  <1> QED  BY <1>1, <1>2, <1>3

LEMMA QueueKeepsClones ==
    ASSUME StateInv, StateInv', QueueStep \/ ApplyLastOpts
    PROVE  ClonesKept /\ clone' = clone
  <1>1. ASSUME NEW name \in Names, NEW spec \in Specs, PutQueue(name, spec)
        PROVE  ClonesKept /\ clone' = clone
    BY <1>1, PutRewrites, ClonesNotRewritten DEF PutQueue
  <1>2. ASSUME NEW name \in Names, NEW spec \in Specs, ApplyFirstOpts(name, spec)
        PROVE  ClonesKept /\ clone' = clone
    <2>1. queueByName[name] \in Slots(name) /\ clone' = clone
      BY <1>2 DEF ApplyFirstOpts, StateInv, TableOK
    <2> QED  BY <1>2, <2>1, ApplyFirstRewrites, ClonesNotRewritten
  <1>3. ASSUME ApplyLastOpts
        PROVE  ClonesKept /\ clone' = clone
    <2>1. QueueLocked(updating.ptr) /\ clone' = clone
      BY <1>3 DEF ApplyLastOpts, QueueLocked
    <2>2. \E n \in DOMAIN queueByName : updating.ptr \in Slots(n)
      BY <2>1, LockedSlot DEF StateInv
    <2> QED  BY <1>3, <2>1, <2>2, ApplyLastRewrites, ClonesNotRewritten
  <1>4. ASSUME NEW name \in Names, DeleteQueue(name)
        PROVE  ClonesKept /\ clone' = clone
    BY <1>4, DeletePreserves, ClonesPreserved DEF DeleteQueue
  <1> QED  BY <1>1, <1>2, <1>3, <1>4 DEF QueueStep

\* Cloning another queue.
LEMMA CloneKeepsClones ==
    ASSUME StateInv, StateInv', NEW name \in Names, CloneQueue(name)
    PROVE  ClonesKept
  <1>1. /\ name \in clone.todo
        /\ DOMAIN clone'.queues = DOMAIN clone.queues
        /\ clone'.todo = clone.todo \ {name}
    BY DEF CloneQueue
  <1>2. \A n \in DOMAIN clone.queues \ clone.todo : n # name /\ n \notin clone'.todo
    BY <1>1
  <1>3. \A n \in DOMAIN clone.queues \ clone.todo :
            clone.queues[n] = <<n, CloneSlot>> /\ clone'.queues[n] = <<n, CloneSlot>>
    BY <1>1, <1>2 DEF StateInv, CloneOK
  <1>4. \A n \in DOMAIN clone.queues \ clone.todo : <<n, CloneSlot>> \in DOMAIN heap'
    BY <1>1, <1>3 DEF StateInv, HeapOK, Reachable, PointersOf
  <1>5. \A n \in DOMAIN clone.queues \ clone.todo : <<n, CloneSlot>> # <<name, CloneSlot>>
    BY <1>2
  <1>6. \A n \in DOMAIN clone.queues \ clone.todo :
            heap'[<<n, CloneSlot>>] = heap[<<n, CloneSlot>>]
    BY <1>4, <1>5, CloneRewrites DEF Rewrites
  <1> QED  BY <1>1, <1>3, <1>6 DEF ClonesKept

LEMMA StepKeepsClones ==
    ASSUME StateInv, StateInv', [Next]_vars, ~Simulating
    PROVE  ClonesKept
  <1>1. CASE CopyTable
    BY <1>1 DEF CopyTable, ClonesKept, StateInv, CloneOK
  <1>2. CASE DropClone
    BY <1>2 DEF DropClone, NoClone, ClonesKept
  <1>3. CASE UNCHANGED vars
    BY <1>3 DEF vars, ClonesKept, StateInv, CloneOK
  <1>4. ASSUME NEW op, NEW pod PROVE ~Simulate(op, pod)
    BY DEF Simulate, Simulating, StateInv, CloneOK
  <1> QED
    BY <1>1, <1>2, <1>3, <1>4, Steps, CallKeepsClones, QueueKeepsClones, CloneKeepsClones

\* What the scheduling cycle simulates stays in the clones' slots.
LEMMA SimulationContained ==
    ASSUME StateInv, [Next]_vars, Simulating
    PROVE  \A n \in DOMAIN queueByName : heap'[queueByName'[n]] = heap[queueByName[n]]
  <1>1. clone' # clone /\ clone.at = "ready" /\ clone'.at = "changed"
    BY DEF Simulating
  <1>2. PICK op, pod : Simulate(op, pod)
    <2>1. ~CopyTable /\ ~DropClone /\ ~(UNCHANGED vars)
      BY <1>1 DEF CopyTable, DropClone, NoClone, vars
    <2>2. \A name : ~CloneQueue(name)
      BY <1>1 DEF CloneQueue
    <2>3. \A c \in Callers : ~CallerStep(c)
                             /\ \A o \in {"add", "delete"}, x \in PodObjects : ~Invoke(c, o, x)
      BY <1>1 DEF CallerStep, Invoke, IgnorePod, GetByName, GetQuota, ApplyToQuota, Return
    <2>4. ~QueueStep /\ ~ApplyLastOpts
      BY <1>1 DEF QueueStep, ApplyLastOpts, PutQueue, ApplyFirstOpts, DeleteQueue
    <2> QED  BY <2>1, <2>2, <2>3, <2>4, Steps
  <1>3. PICK m : clone.queues[pod.queue] = <<m, CloneSlot>>
    BY <1>2 DEF Simulate, HasQueue, StateInv, CloneOK
  <1>4. ASSUME NEW n \in DOMAIN queueByName
        PROVE  queueByName[n] # <<m, CloneSlot>> /\ queueByName[n] \in DOMAIN heap
    BY NotACloneSlot DEF StateInv, TableOK, HeapOK, Reachable, PointersOf
  <1> QED  BY <1>2, <1>3, <1>4 DEF Simulate

\* What other goroutines do to the live queues, or to replaced ones, does not
\* reach a cloned queue, nor what a cycle does to its clone a live queue, for
\* any number of callers and queues (manager.go:151).
THEOREM SnapshotsIsolated == Spec => SnapshotIsolated
  <1> DEFINE Isolated ==
          IF Simulating
          THEN \A n \in DOMAIN queueByName : heap'[queueByName'[n]] = heap[queueByName[n]]
          ELSE \A n \in (DOMAIN clone.queues \ clone.todo) \cap DOMAIN clone'.queues :
                   heap'[clone'.queues[n]] = heap[clone.queues[n]]
  <1>1. Init => StateInv
    BY StateInvInit
  <1>2. StateInv /\ [Next]_vars => StateInv'
    BY StateInvNext
  <1>3. StateInv /\ StateInv' /\ [Next]_vars => [Isolated]_vars
    BY StepKeepsClones, SimulationContained DEF ClonesKept
  <1> QED  BY <1>1, <1>2, <1>3, PTL DEF Spec, SnapshotIsolated

-----------------------------------------------------------------------------
(* Snapshots are bracketed.                                                *)

\* The pods on the ledger of a queue.
Ledger(x) == DOMAIN x.quota.podsByID

\* A ledger lists only pods that carry its queue's label.
OwnLedgers ==
    \A ptr \in DOMAIN heap : \A u \in Ledger(heap[ptr]) :
        \E pod \in PodObjects : pod.uid = u /\ pod.queue = ptr[1]

(***************************************************************************)
(* While the queues are copied: a pod that has been on the ledgers all the *)
(* time is on a copied ledger, or on one still to be copied that is live;  *)
(* and whatever is on a copied ledger, or on one still to be copied, live  *)
(* or replaced, or about to be, has been seen.                             *)
(***************************************************************************)
AlwaysTaken ==
    \A u \in window.always : \E n \in DOMAIN clone.queues :
        /\ u \in Ledger(heap[clone.queues[n]])
        /\ n \in clone.todo => n \in DOMAIN queueByName /\ queueByName[n] = clone.queues[n]

TakenEver ==
    /\ \A n \in DOMAIN clone.queues : Ledger(heap[clone.queues[n]]) \subseteq window.ever
    /\ clone.at = "copying" => BeingAdded \subseteq window.ever

WindowInv == clone.at \in {"copying", "ready"} => AlwaysTaken /\ TakenEver

LEMMA OwnLedgersInit ==
    ASSUME Init
    PROVE  OwnLedgers
  <1>1. \A ptr \in DOMAIN heap : heap[ptr] = New(Initial[ptr[1]])
    BY DEF Init, PointersOf
  <1> QED  BY <1>1, NewQueueFacts DEF OwnLedgers, Ledger, New

LEMMA OwnKept ==
    ASSUME OwnLedgers, Preserves
    PROVE  OwnLedgers'
  BY DEF OwnLedgers, Preserves, Ledger

LEMMA OwnRewritten ==
    ASSUME OwnLedgers, NEW p, NEW x, Rewrites(p, x),
           \A u \in Ledger(x) : \E pod \in PodObjects : pod.uid = u /\ pod.queue = p[1]
    PROVE  OwnLedgers'
  BY DEF OwnLedgers, Rewrites, Ledger

LEMMA OwnLedgersNext ==
    ASSUME StateInv, OwnLedgers, [Next]_vars
    PROVE  OwnLedgers'
  <1>1. ASSUME NEW c \in Callers,
               \/ \E op \in {"add", "delete"}, pod \in PodObjects : Invoke(c, op, pod)
               \/ CallerStep(c)
        PROVE  OwnLedgers'
    <2>1. CASE ApplyToQuota(c)
      <3> DEFINE p == calls[c].ptr
                 q == Account(heap[p].quota, calls[c])
      <3>1. p \in DOMAIN heap /\ Rewrites(p, WithQuota(heap[p], q))
        BY <2>1, ApplyRewrites
      <3>2. DOMAIN q.podsByID \subseteq Ledger(heap[p]) \cup {calls[c].pod.uid}
        BY <3>1, AccountGains DEF StateInv, HeapOK, QueueShape, Ledger
      <3>3. calls[c].pod \in PodObjects /\ p \in Slots(calls[c].pod.queue)
        BY <2>1 DEF ApplyToQuota, At, HoldsQueue, StateInv, CallsOK, CallRecords
      <3>4. p[1] = calls[c].pod.queue
        BY <3>3, NotACloneSlot
      <3> HIDE DEF p, q
      <3> QED  BY <3>1, <3>2, <3>3, <3>4, OwnRewritten DEF WithQuota, Ledger, OwnLedgers
    <2>2. CASE ~ApplyToQuota(c)
      BY <1>1, <2>2, CallPreserves, OwnKept DEF CallerStep
    <2> QED  BY <2>1, <2>2
  <1>2. ASSUME NEW name \in Names, NEW spec \in Specs, PutQueue(name, spec)
        PROVE  OwnLedgers'
    <2>1. Ledger(New(spec)) = {}
      BY NewQueueFacts DEF New, Ledger
    <2> QED  BY <1>2, <2>1, PutRewrites, OwnRewritten
  <1>3. ASSUME NEW name \in Names, NEW spec \in Specs, ApplyFirstOpts(name, spec)
        PROVE  OwnLedgers'
    <2> DEFINE p == queueByName[name]
               q == SetMax(heap[p].quota, spec.max)
    <2>1. p \in DOMAIN heap /\ Rewrites(p, WithQuota(heap[p], q))
      BY <1>3, ApplyFirstRewrites
    <2>2. q.podsByID = heap[p].quota.podsByID
      BY <2>1, SetMaxFacts DEF StateInv, HeapOK, QueueShape
    <2> HIDE DEF p, q
    <2> QED  BY <2>1, <2>2, OwnRewritten DEF WithQuota, Ledger, OwnLedgers
  <1>4. ASSUME ApplyLastOpts
        PROVE  OwnLedgers'
    BY <1>4, ApplyLastRewrites, OwnRewritten DEF Ledger, OwnLedgers
  <1>5. ASSUME NEW name \in Names, DeleteQueue(name)
        PROVE  OwnLedgers'
    BY <1>5, DeletePreserves, OwnKept
  <1>6. ASSUME CopyTable \/ DropClone
        PROVE  OwnLedgers'
    BY <1>6, CopyPreserves, DropPreserves, OwnKept
  <1>7. ASSUME NEW name \in Names, CloneQueue(name)
        PROVE  OwnLedgers'
    <2> DEFINE p == clone.queues[name]
    <2>1. p \in DOMAIN heap /\ Rewrites(<<name, CloneSlot>>, CloneOf(heap[p]))
      BY <1>7, CloneRewrites
    <2>2. p \in Slots(name)
      BY <1>7 DEF CloneQueue, StateInv, CloneOK
    <2>3. p[1] = name
      BY <2>2, NotACloneSlot
    <2> HIDE DEF p
    <2> QED  BY <2>1, <2>3, OwnRewritten DEF CloneOf, Ledger, OwnLedgers
  <1>8. ASSUME NEW op \in {"add", "delete"}, NEW pod \in PodObjects, Simulate(op, pod)
        PROVE  OwnLedgers'
    <2> DEFINE p == <<pod.queue, CloneSlot>>
               q == Account(heap[p].quota, [op |-> op, pod |-> pod])
    <2>1. p \in DOMAIN heap /\ Rewrites(p, WithQuota(heap[p], q)) /\ p[1] = pod.queue
      BY <1>8, SimulateRewrites
    <2>2. DOMAIN q.podsByID \subseteq Ledger(heap[p]) \cup {pod.uid}
      BY <2>1, AccountGains DEF StateInv, HeapOK, QueueShape, Ledger
    <2> HIDE DEF p, q
    <2> QED  BY <2>1, <2>2, OwnRewritten DEF WithQuota, Ledger, OwnLedgers
  <1>9. ASSUME UNCHANGED vars
        PROVE  OwnLedgers'
    BY <1>9 DEF vars, OwnLedgers, Ledger
  <1> QED  BY <1>1, <1>2, <1>3, <1>4, <1>5, <1>6, <1>7, <1>8, <1>9, Steps DEF QueueStep

\* What the other goroutines' steps do to the ledgers: a ledger gains only a
\* pod that was being added, and a queue that is new to the table is empty.
LedgersMove ==
    /\ \A ptr \in DOMAIN heap \cap DOMAIN heap' :
          Ledger(heap'[ptr]) \subseteq Ledger(heap[ptr]) \cup BeingAdded
    /\ \A n \in DOMAIN queueByName' :
          \/ n \in DOMAIN queueByName /\ queueByName'[n] = queueByName[n]
          \/ Ledger(heap'[queueByName'[n]]) = {}

LEMMA CallMovesLedgers ==
    ASSUME StateInv, NEW c \in Callers,
           \/ \E op \in {"add", "delete"}, pod \in PodObjects : Invoke(c, op, pod)
           \/ CallerStep(c)
    PROVE  LedgersMove
  <1>1. queueByName' = queueByName
    BY DEF CallerStep, Invoke, IgnorePod, GetByName, GetQuota, ApplyToQuota, Return
  <1>2. CASE ApplyToQuota(c)
    <2> DEFINE p == calls[c].ptr
               q == Account(heap[p].quota, calls[c])
    <2>1. p \in DOMAIN heap /\ Rewrites(p, WithQuota(heap[p], q))
      BY <1>2, ApplyRewrites
    <2>2. DOMAIN q.podsByID \subseteq Ledger(heap[p]) \cup BeingAdded
      <3>1. DOMAIN q.podsByID = IF calls[c].op = "add" THEN Ledger(heap[p]) \cup {calls[c].pod.uid}
                                ELSE Ledger(heap[p]) \ {calls[c].pod.uid}
        BY <2>1, AccountFacts DEF StateInv, HeapOK, QueueShape, Ledger
      <3>2. calls[c].op = "add" => calls[c].pod.uid \in BeingAdded
        BY <1>2 DEF ApplyToQuota, HoldsQueue, BeingAdded
      <3> HIDE DEF p, q
      <3> QED  BY <3>1, <3>2
    <2> HIDE DEF p, q
    <2> QED  BY <1>1, <2>1, <2>2 DEF LedgersMove, Rewrites, WithQuota, Ledger
  <1>3. CASE ~ApplyToQuota(c)
    BY <1>1, <1>3, CallPreserves DEF CallerStep, LedgersMove, Preserves
  <1> QED  BY <1>2, <1>3

LEMMA QueueMovesLedgers ==
    ASSUME StateInv, StateInv', QueueStep \/ ApplyLastOpts
    PROVE  LedgersMove
  <1>1. ASSUME NEW name \in Names, NEW spec \in Specs, PutQueue(name, spec)
        PROVE  LedgersMove
    <2> DEFINE p == Allocated(name)
    <2>1. p \notin DOMAIN heap /\ Rewrites(p, New(spec))
      BY <1>1, PutRewrites
    <2>2. Ledger(New(spec)) = {}
      BY NewQueueFacts DEF New, Ledger
    <2>3. queueByName' = Bind(queueByName, name, p)
      BY <1>1 DEF PutQueue
    <2>4. p \in DOMAIN heap'
      BY <2>3 DEF Bind, StateInv, HeapOK, Reachable, PointersOf
    <2> HIDE DEF p
    <2> QED  BY <2>1, <2>2, <2>3, <2>4 DEF LedgersMove, Rewrites, Bind
  <1>2. ASSUME NEW name \in Names, NEW spec \in Specs, ApplyFirstOpts(name, spec)
        PROVE  LedgersMove
    <2> DEFINE p == queueByName[name]
               q == SetMax(heap[p].quota, spec.max)
    <2>1. p \in DOMAIN heap /\ Rewrites(p, WithQuota(heap[p], q)) /\ queueByName' = queueByName
      BY <1>2, ApplyFirstRewrites DEF ApplyFirstOpts
    <2>2. q.podsByID = heap[p].quota.podsByID
      BY <2>1, SetMaxFacts DEF StateInv, HeapOK, QueueShape
    <2> HIDE DEF p, q
    <2> QED  BY <2>1, <2>2 DEF LedgersMove, Rewrites, WithQuota, Ledger
  <1>3. ASSUME ApplyLastOpts
        PROVE  LedgersMove
    BY <1>3, ApplyLastRewrites DEF ApplyLastOpts, LedgersMove, Rewrites, Ledger
  <1>4. ASSUME NEW name \in Names, DeleteQueue(name)
        PROVE  LedgersMove
    <2>1. queueByName' = Delete(queueByName, name)
      BY <1>4 DEF DeleteQueue
    <2> QED  BY <1>4, <2>1, DeletePreserves DEF LedgersMove, Preserves, Delete
  <1> QED  BY <1>1, <1>2, <1>3, <1>4 DEF QueueStep

\* A pod is on the ledgers of one queue only.
LEMMA OneQueueOnly ==
    ASSUME OwnLedgers, NEW p \in DOMAIN heap, NEW o \in DOMAIN heap,
           NEW u, u \in Ledger(heap[p]), u \in Ledger(heap[o])
    PROVE  p[1] = o[1]
  BY PodObjectsAssumption DEF OwnLedgers

\* Other goroutines' steps while queues are copied, or after.
LEMMA WindowWhileOthersStep ==
    ASSUME StateInv, StateInv', OwnLedgers, OwnLedgers', WindowInv,
           clone' = clone, ClonesKept, LedgersMove, ObserveClone
    PROVE  WindowInv'
  <1> USE DEF Ledger
  <1>1. CASE clone.at = "copying"
    <2>1. window' = [always |-> window.always \cap OnLedgers',
                     ever   |-> window.ever \cup (OnLedgers \cup BeingAdded)']
      BY <1>1 DEF ObserveClone
    <2>2. AlwaysTaken /\ TakenEver
      BY <1>1 DEF WindowInv
    <2>3. \A n \in DOMAIN clone.queues : clone.queues[n] \in DOMAIN heap \cap DOMAIN heap'
      BY DEF StateInv, HeapOK, Reachable, PointersOf
    <2>4. AlwaysTaken'
      <3> SUFFICES ASSUME NEW u \in window.always, u \in OnLedgers'
                   PROVE  \E n \in DOMAIN clone.queues :
                            /\ u \in Ledger(heap'[clone.queues[n]])
                            /\ n \in clone.todo => /\ n \in DOMAIN queueByName'
                                                   /\ queueByName'[n] = clone.queues[n]
        BY <2>1 DEF AlwaysTaken
      <3>1. PICK n \in DOMAIN clone.queues :
                /\ u \in Ledger(heap[clone.queues[n]])
                /\ n \in clone.todo => n \in DOMAIN queueByName /\ queueByName[n] = clone.queues[n]
        BY <2>2 DEF AlwaysTaken
      <3>2. CASE n \notin clone.todo
        BY <3>1, <3>2 DEF ClonesKept
      <3>3. CASE n \in clone.todo
        <4>1. PICK m \in DOMAIN queueByName' : u \in Ledger(heap'[queueByName'[m]])
          BY DEF OnLedgers
        <4>2. m \in DOMAIN queueByName /\ queueByName'[m] = queueByName[m]
          BY <4>1 DEF LedgersMove
        <4>3. queueByName[m] \in DOMAIN heap' /\ queueByName[n] \in DOMAIN heap
          BY <3>1, <3>3, <4>1, <4>2 DEF StateInv, HeapOK, Reachable, PointersOf
        <4>4. queueByName[m][1] = m /\ queueByName[n][1] = n
          BY <3>1, <3>3, <4>2, NotACloneSlot DEF StateInv, TableOK
        <4>5. m = n
          BY <3>1, <3>3, <4>1, <4>2, <4>3, <4>4, PodObjectsAssumption DEF OwnLedgers
        <4> QED  BY <3>1, <3>3, <4>1, <4>2, <4>5
      <3> QED  BY <3>2, <3>3
    <2>5. TakenEver'
      <3>1. \A n \in DOMAIN clone.queues : Ledger(heap'[clone.queues[n]]) \subseteq window.ever
        BY <1>1, <2>2, <2>3 DEF LedgersMove, TakenEver
      <3> QED  BY <2>1, <3>1 DEF TakenEver
    <2> QED  BY <2>4, <2>5 DEF WindowInv
  <1>2. CASE clone.at = "ready"
    <2>1. window' = window /\ clone.todo = {} /\ clone.at # "copying"
      BY <1>2 DEF ObserveClone, StateInv, CloneOK
    <2>2. \A n \in DOMAIN clone.queues : heap'[clone.queues[n]] = heap[clone.queues[n]]
      BY <2>1 DEF ClonesKept
    <2> QED  BY <1>2, <2>1, <2>2 DEF WindowInv, AlwaysTaken, TakenEver
  <1> QED  BY <1>1, <1>2 DEF WindowInv

\* The copy of the table opens the window.
LEMMA WindowOpens ==
    ASSUME StateInv, CopyTable, ObserveClone
    PROVE  WindowInv'
  <1>1. /\ clone.at = "none" /\ clone'.at \in {"copying", "ready"}
        /\ clone'.queues = queueByName /\ clone'.todo = DOMAIN queueByName
        /\ queueByName' = queueByName
    BY DEF CopyTable
  <1>2. window' = [always |-> OnLedgers', ever |-> (OnLedgers \cup BeingAdded)']
    BY <1>1 DEF ObserveClone
  <1>3. AlwaysTaken'
    BY <1>1, <1>2 DEF AlwaysTaken, OnLedgers, Ledger
  <1>4. TakenEver'
    <2>1. OnLedgers' = UNION {Ledger(heap'[queueByName[n]]) : n \in DOMAIN queueByName}
      BY <1>1 DEF OnLedgers, Ledger
    <2>2. \A n \in DOMAIN clone'.queues : Ledger(heap'[clone'.queues[n]]) \subseteq OnLedgers'
      BY <1>1, <2>1
    <2> QED  BY <1>2, <2>2 DEF TakenEver, Ledger
  <1> QED  BY <1>3, <1>4 DEF WindowInv

\* The copy of a queue: it is live, or nothing on it counts as always there.
LEMMA WindowWhileCloning ==
    ASSUME StateInv, StateInv', WindowInv, NEW name \in Names, CloneQueue(name), ObserveClone
    PROVE  WindowInv'
  <1> DEFINE p == <<name, CloneSlot>>
  <1>1. /\ clone.at = "copying" /\ name \in clone.todo
        /\ clone'.at \in {"copying", "ready"}
        /\ clone'.queues = [clone.queues EXCEPT ![name] = p]
        /\ clone'.todo = clone.todo \ {name}
        /\ queueByName' = queueByName /\ calls' = calls
    BY DEF CloneQueue
  <1>2. window' = [always |-> window.always \cap OnLedgers',
                   ever   |-> window.ever \cup (OnLedgers \cup BeingAdded)']
    BY <1>1 DEF ObserveClone
  <1>3. Rewrites(p, CloneOf(heap[clone.queues[name]])) /\ name \in DOMAIN clone.queues
    BY <1>1, CloneRewrites DEF StateInv, CloneOK
  <1>4. \A n \in DOMAIN clone.queues \ {name} :
            /\ clone'.queues[n] = clone.queues[n] /\ clone.queues[n] # p
            /\ clone.queues[n] \in DOMAIN heap'
    <2>1. \A n \in DOMAIN clone.queues \ {name} : clone'.queues[n] = clone.queues[n]
      BY <1>1
    <2>2. ASSUME NEW n \in DOMAIN clone.queues \ {name} PROVE clone.queues[n] # p
      <3>1. CASE n \in clone.todo
        <4>1. clone.queues[n] \in Slots(n)
          BY <3>1 DEF StateInv, CloneOK
        <4> QED  BY <4>1, NotACloneSlot
      <3>2. CASE n \notin clone.todo
        <4>1. clone.queues[n] = <<n, CloneSlot>>
          BY <3>2 DEF StateInv, CloneOK
        <4> QED  BY <4>1
      <3> QED  BY <3>1, <3>2
    <2>3. \A n \in DOMAIN clone'.queues : clone'.queues[n] \in DOMAIN heap'
      BY DEF StateInv, HeapOK, Reachable, PointersOf
    <2> QED  BY <1>1, <2>1, <2>2, <2>3
  <1>5. p \in DOMAIN heap' /\ clone'.queues[name] = p
    BY <1>1, <1>3 DEF StateInv, HeapOK, Reachable, PointersOf
  <1> HIDE DEF p
  <1>6. \A n \in DOMAIN clone.queues :
            Ledger(heap'[clone'.queues[n]]) = Ledger(heap[clone.queues[n]])
    <2>1. \A n \in DOMAIN clone.queues \ {name} : heap'[clone'.queues[n]] = heap[clone.queues[n]]
      BY <1>3, <1>4 DEF Rewrites
    <2>2. heap'[clone'.queues[name]] = CloneOf(heap[clone.queues[name]])
      BY <1>3, <1>5 DEF Rewrites
    <2> QED  BY <2>1, <2>2 DEF Ledger, CloneOf
  <1>7. AlwaysTaken /\ TakenEver /\ DOMAIN clone'.queues = DOMAIN clone.queues
    BY <1>1 DEF WindowInv
  <1>8. AlwaysTaken'
    <2> SUFFICES ASSUME NEW u \in window.always
                 PROVE  \E n \in DOMAIN clone'.queues :
                          /\ u \in Ledger(heap'[clone'.queues[n]])
                          /\ n \in clone'.todo => /\ n \in DOMAIN queueByName'
                                                  /\ queueByName'[n] = clone'.queues[n]
      BY <1>2 DEF AlwaysTaken, Ledger
    <2>1. PICK n \in DOMAIN clone.queues :
              /\ u \in Ledger(heap[clone.queues[n]])
              /\ n \in clone.todo => n \in DOMAIN queueByName /\ queueByName[n] = clone.queues[n]
      BY <1>7 DEF AlwaysTaken
    <2>2. n \in clone'.todo => n \in clone.todo /\ clone'.queues[n] = clone.queues[n]
      BY <1>1, <1>4
    <2> QED  BY <1>1, <1>6, <1>7, <2>1, <2>2
  <1>9. TakenEver'
    <2>1. \A n \in DOMAIN clone'.queues : Ledger(heap'[clone'.queues[n]]) \subseteq window.ever
      BY <1>6, <1>7 DEF TakenEver
    <2> QED  BY <1>2, <2>1 DEF TakenEver, Ledger
  <1> QED  BY <1>8, <1>9 DEF WindowInv

BracketInv == StateInv /\ OwnLedgers /\ WindowInv

LEMMA BracketInvNext ==
    ASSUME BracketInv, [Next]_vars
    PROVE  BracketInv'
  <1>1. StateInv' /\ OwnLedgers'
    BY StateInvNext, OwnLedgersNext DEF BracketInv
  <1>2. WindowInv'
    <2>1. CASE UNCHANGED vars
      BY <2>1 DEF vars, BracketInv, WindowInv, AlwaysTaken, TakenEver, BeingAdded, HoldsQueue, At,
                  Ledger
    <2>2. CASE Next
      <3>1. ObserveClone
        BY <2>2 DEF Next
      <3>2. ASSUME DropClone \/ \E op \in {"add", "delete"}, pod \in PodObjects : Simulate(op, pod)
            PROVE  WindowInv'
        <4>1. CASE DropClone
          BY <4>1 DEF DropClone, NoClone, WindowInv
        <4>2. ASSUME NEW op \in {"add", "delete"}, NEW pod \in PodObjects, Simulate(op, pod)
              PROVE  WindowInv'
          <5>1. clone' = [clone EXCEPT !.at = "changed"] /\ CloneOK
            BY <4>2 DEF Simulate, BracketInv, StateInv
          <5>2. clone'.at = "changed"
            BY <5>1 DEF CloneOK
          <5> QED  BY <5>2 DEF WindowInv
        <4> QED  BY <3>2, <4>1, <4>2
      <3> QED
        BY <1>1, <2>2, <3>1, <3>2, Steps, CallKeepsClones, QueueKeepsClones, CallMovesLedgers,
           QueueMovesLedgers, WindowWhileOthersStep, WindowOpens, WindowWhileCloning
           DEF BracketInv
    <2> QED  BY <2>1, <2>2
  <1> QED  BY <1>1, <1>2 DEF BracketInv

\* However long Clone takes (manager.go:151), and whatever happens to the
\* queues and their ledgers meanwhile, the snapshot has every pod that was
\* counted throughout and none that was neither counted nor being added.
THEOREM SnapshotAlwaysBracketed == Spec => []SnapshotBracketed
  <1>1. Init => BracketInv
    <2>1. Init => WindowInv
      BY DEF Init, NoClone, WindowInv
    <2> QED  BY <2>1, StateInvInit, OwnLedgersInit DEF BracketInv
  <1>2. BracketInv /\ [Next]_vars => BracketInv'
    BY BracketInvNext
  <1>3. BracketInv => SnapshotBracketed
    <2> SUFFICES ASSUME BracketInv, clone.at = "ready"
                 PROVE  LET taken == UNION {Ledger(heap[clone.queues[n]]) : n \in DOMAIN clone.queues}
                        IN  window.always \subseteq taken /\ taken \subseteq window.ever
      BY DEF SnapshotBracketed, Ledger
    <2>1. AlwaysTaken /\ TakenEver
      BY DEF BracketInv, WindowInv
    <2> QED  BY <2>1 DEF AlwaysTaken, TakenEver
  <1> QED  BY <1>1, <1>2, <1>3, PTL DEF Spec

-----------------------------------------------------------------------------
(* The manager implements QueueRegistry.  Every step is a step of the      *)
(* registry or leaves what callers can tell unchanged.                     *)

RegistryUnchanged ==
    LiveQuotas' = LiveQuotas /\ LiveCfgs' = LiveCfgs /\ PublicCalls' = PublicCalls

\* Live queues are read through the table.
LEMMA LiveKept ==
    ASSUME StateInv, StateInv', queueByName' = queueByName, updating' = updating, Preserves
    PROVE  LiveQuotas' = LiveQuotas /\ LiveCfgs' = LiveCfgs
  <1>1. \A n \in DOMAIN queueByName : queueByName[n] \in DOMAIN heap'
    BY DEF StateInv, HeapOK, Reachable, PointersOf
  <1> QED  BY <1>1 DEF Preserves, LiveQuotas, LiveCfgs, QueueLocked

LEMMA LiveNotRewritten ==
    ASSUME StateInv, StateInv', queueByName' = queueByName, updating' = updating,
           NEW p, p \notin PointersOf(queueByName), NEW x, Rewrites(p, x)
    PROVE  LiveQuotas' = LiveQuotas /\ LiveCfgs' = LiveCfgs
  <1>1. \A n \in DOMAIN queueByName : queueByName[n] \in DOMAIN heap' /\ queueByName[n] # p
    BY DEF StateInv, HeapOK, Reachable, PointersOf
  <1> QED  BY <1>1 DEF Rewrites, LiveQuotas, LiveCfgs, QueueLocked

\* A table without that pointer changes nothing for the callers.
LEMMA CallsUnchanged ==
    ASSUME calls' = calls, queueByName' = queueByName
    PROVE  PublicCalls' = PublicCalls
  BY DEF PublicCalls, PublicCall, ResultOf, PointersOf

\* Of two pointers into slots of one name in the table, both are the table's.
LEMMA HeldIsLive ==
    ASSUME StateInv, NEW c \in Callers, HoldsQueue(c)
    PROVE  /\ calls[c].ptr \in DOMAIN heap
           /\ calls[c] # Idle /\ calls[c] \in CallRecords
           /\ \A n \in DOMAIN queueByName :
                 calls[c].ptr = queueByName[n] => n = calls[c].pod.queue
  <1>1. calls[c].ptr \in DOMAIN heap /\ calls[c] # Idle /\ calls[c] \in CallRecords
    BY DEF HoldsQueue, At, StateInv, HeapOK, CallsOK, Reachable
  <1>2. calls[c].ptr \in Slots(calls[c].pod.queue)
    BY DEF StateInv, CallsOK
  <1>3. \A n \in DOMAIN queueByName : queueByName[n] \in Slots(n)
    BY DEF StateInv, TableOK
  <1>4. calls[c].ptr[1] = calls[c].pod.queue
    BY <1>2 DEF Slots
  <1>5. \A n \in DOMAIN queueByName : queueByName[n][1] = n
    BY <1>3 DEF Slots
  <1> QED  BY <1>1, <1>4, <1>5

\* Steps of one caller leave the others' calls as they appear.
LEMMA OthersCalls ==
    ASSUME StateInv, NEW c \in Callers, queueByName' = queueByName,
           \A d \in Callers \ {c} : calls'[d] = calls[d]
    PROVE  \A d \in Callers \ {c} : PublicCall(d)' = PublicCall(d)
  BY DEF PublicCall, ResultOf, PointersOf

\* What callers see of c changes to call.
LEMMA OneCallChanges ==
    ASSUME NEW c \in Callers, NEW call, PublicCall(c)' = call,
           \A d \in Callers \ {c} : PublicCall(d)' = PublicCall(d)
    PROVE  PublicCalls' = [PublicCalls EXCEPT ![c] = call]
  BY DEF PublicCalls

LEMMA CallMovesOne ==
    ASSUME StateInv, NEW c \in Callers,
           \/ \E op \in {"add", "delete"}, pod \in PodObjects : Invoke(c, op, pod)
           \/ CallerStep(c)
    PROVE  /\ queueByName' = queueByName /\ updating' = updating /\ clone' = clone
           /\ \A d \in Callers \ {c} : calls'[d] = calls[d]
           /\ \A d \in Callers \ {c} : PublicCall(d)' = PublicCall(d)
  <1>1. queueByName' = queueByName /\ updating' = updating /\ clone' = clone
    BY DEF CallerStep, Invoke, IgnorePod, GetByName, GetQuota, ApplyToQuota, Return
  <1>2. \A d \in Callers \ {c} : calls'[d] = calls[d]
    BY DEF CallerStep, Invoke, IgnorePod, GetByName, GetQuota, ApplyToQuota, Return,
           StateInv, CallsOK
  <1> QED  BY <1>1, <1>2, OthersCalls

LEMMA InvokeRefines ==
    ASSUME StateInv, StateInv', NEW c \in Callers, NEW op \in {"add", "delete"},
           NEW pod \in PodObjects, Invoke(c, op, pod)
    PROVE  Registry!Invoke(c, op, pod)
  <1>1. calls[c] = Idle /\ calls'[c] = [op |-> op, pod |-> pod, at |-> "called", ptr |-> Nil]
    BY DEF Invoke, StateInv, CallsOK
  <1>2. PublicCall(c)' = [op |-> op, pod |-> pod, result |-> "none"]
    BY <1>1 DEF PublicCall, ResultOf, Idle
  <1>3. PublicCalls' = [PublicCalls EXCEPT ![c] = [op |-> op, pod |-> pod, result |-> "none"]]
    BY <1>2, CallMovesOne, OneCallChanges
  <1>4. LiveQuotas' = LiveQuotas /\ LiveCfgs' = LiveCfgs
    BY CallMovesOne, CallPreserves, LiveKept
  <1>5. PublicCalls[c] = Idle
    BY <1>1 DEF PublicCalls, PublicCall
  <1> QED  BY <1>3, <1>4, <1>5 DEF Registry!Invoke, Registry!Idle, Idle

\* The registry's operators on quotas and tables are the manager's own.
LEMMA SameQuotaOperators ==
    ASSUME NEW q, NEW pod, NEW max
    PROVE  /\ Registry!AddPodIfNotPresent(q, pod) = AddPodIfNotPresent(q, pod)
           /\ Registry!DeletePodIfPresent(q, pod) = DeletePodIfPresent(q, pod)
           /\ Registry!SetMax(q, max) = SetMax(q, max)
           /\ Registry!NewQueue(max) = NewQueue(max)
  <1>1. ASSUME NEW r, NEW o
        PROVE  Registry!Add(r, o) = Add(r, o) /\ Registry!Sub(r, o) = Sub(r, o)
    BY DEF Registry!Add, Add, Registry!Sub, Sub, Registry!getResNames, getResNames, Registry!Qty, Qty
  <1>2. Registry!FromPodReq(pod.req) = FromPodReq(pod.req)
    BY DEF Registry!FromPodReq, FromPodReq, Registry!ResourceNamePods, ResourceNamePods
  <1>3. ASSUME NEW m
        PROVE  /\ Registry!MapSet(m, pod.uid, pod.req) = MapSet(m, pod.uid, pod.req)
               /\ Registry!MapDelete(m, pod.uid) = MapDelete(m, pod.uid)
    BY DEF Registry!MapSet, MapSet, Registry!MapDelete, MapDelete
  <1>4. Registry!ContainsPod(q, pod) = ContainsPod(q, pod)
    BY DEF Registry!ContainsPod, ContainsPod
  <1>5. Registry!AddPodIfNotPresent(q, pod) = AddPodIfNotPresent(q, pod)
    BY <1>1, <1>2, <1>3, <1>4 DEF Registry!AddPodIfNotPresent, AddPodIfNotPresent
  <1>6. Registry!DeletePodIfPresent(q, pod) = DeletePodIfPresent(q, pod)
    BY <1>1, <1>2, <1>3, <1>4 DEF Registry!DeletePodIfPresent, DeletePodIfPresent
  <1>7. Registry!SetMax(q, max) = SetMax(q, max) /\ Registry!NewQueue(max) = NewQueue(max)
    BY DEF Registry!SetMax, SetMax, Registry!NewQueue, NewQueue, Registry!NewQuota, NewQuota,
           Registry!NoResources, NoResources
  <1> QED  BY <1>5, <1>6, <1>7

LEMMA SameTableOperators ==
    ASSUME NEW qm, NEW pod, NEW name, NEW max
    PROVE  /\ Registry!AddPod(qm, pod) = AddPod(qm, pod)
           /\ Registry!DeletePod(qm, pod) = DeletePod(qm, pod)
           /\ Registry!AddPodFails(qm, pod) <=> AddPodFails(qm, pod)
           /\ Registry!Put(qm, name, max) = Put(qm, name, max)
           /\ Registry!Update(qm, name, max) = Update(qm, name, max)
           /\ Registry!Delete(qm, name) = Delete(qm, name)
  <1>1. Registry!HasQueue(qm, pod) <=> HasQueue(qm, pod)
    BY DEF Registry!HasQueue, HasQueue
  <1>2. Registry!AddPod(qm, pod) = AddPod(qm, pod)
    BY <1>1, SameQuotaOperators DEF Registry!AddPod, AddPod
  <1>3. Registry!DeletePod(qm, pod) = DeletePod(qm, pod)
    BY <1>1, SameQuotaOperators DEF Registry!DeletePod, DeletePod
  <1>4. Registry!AddPodFails(qm, pod) <=> AddPodFails(qm, pod)
    BY <1>1 DEF Registry!AddPodFails, AddPodFails
  <1>5. Registry!Put(qm, name, max) = Put(qm, name, max)
    BY SameQuotaOperators DEF Registry!Put, Put
  <1>6. Registry!Update(qm, name, max) = Update(qm, name, max)
    BY <1>5, SameQuotaOperators DEF Registry!Update, Update
  <1>7. Registry!Delete(qm, name) = Delete(qm, name)
    BY DEF Registry!Delete, Delete
  <1> QED  BY <1>2, <1>3, <1>4, <1>5, <1>6, <1>7

\* A call that takes effect with result r: what callers see of it.
LEMMA Resolved ==
    ASSUME StateInv, NEW c \in Callers, NEW r,
           PublicCall(c) = [op |-> calls[c].op, pod |-> calls[c].pod, result |-> "none"],
           PublicCall(c)' = [op |-> calls[c].op, pod |-> calls[c].pod, result |-> r],
           \A d \in Callers \ {c} : PublicCall(d)' = PublicCall(d)
    PROVE  PublicCalls' = [d \in Callers |-> IF d \in {c} THEN [PublicCalls[d] EXCEPT !.result = r]
                                             ELSE PublicCalls[d]]
  <1> DEFINE old == [op |-> calls[c].op, pod |-> calls[c].pod, result |-> "none"]
             new == [op |-> calls[c].op, pod |-> calls[c].pod, result |-> r]
  <1>1. [old EXCEPT !.result = r] = new
    OBVIOUS
  <1> HIDE DEF old, new
  <1>2. PublicCall(c) = old /\ PublicCall(c)' = new
    BY DEF old, new
  <1> QED  BY <1>1, <1>2 DEF PublicCalls

\* The registry's step, from its effect.
LEMMA EffectRefines ==
    ASSUME StateInv, NEW c \in Callers, calls[c] # Idle, calls[c] \in CallRecords, NEW r,
           PublicCall(c) = [op |-> calls[c].op, pod |-> calls[c].pod, result |-> "none"],
           PublicCall(c)' = [op |-> calls[c].op, pod |-> calls[c].pod, result |-> r],
           \A d \in Callers \ {c} : PublicCall(d)' = PublicCall(d),
           LiveQuotas' = IF calls[c].op = "add" THEN AddPod(LiveQuotas, calls[c].pod)
                         ELSE DeletePod(LiveQuotas, calls[c].pod),
           r = IF AddPodFails(LiveQuotas, calls[c].pod) THEN "error" ELSE "ok",
           LiveCfgs' = LiveCfgs
    PROVE  Registry!TakeEffect(c)
  <1>1. PublicCalls[c] = PublicCall(c)
    BY DEF PublicCalls
  <1>2. /\ PublicCalls[c].op = calls[c].op /\ PublicCalls[c].pod = calls[c].pod
        /\ PublicCalls[c].result = "none"
    BY <1>1
  <1>3. PublicCalls[c] # Registry!Idle
    BY <1>2 DEF Registry!Idle, CallRecords
  <1>4. Registry!Resolve({c}, IF AddPodFails(LiveQuotas, calls[c].pod) THEN "error" ELSE "ok")
    BY Resolved DEF Registry!Resolve
  <1> QED  BY <1>2, <1>3, <1>4, SameTableOperators DEF Registry!TakeEffect

\* A pod without the label, or one whose queue is not there.
LEMMA NoEffectRefines ==
    ASSUME StateInv, StateInv', NEW c \in Callers,
           \/ IgnorePod(c)
           \/ GetByName(c) /\ ~HasQueue(queueByName, calls[c].pod)
    PROVE  Registry!TakeEffect(c)
  <1> DEFINE pod == calls[c].pod
             r == IF pod.queue = NoLabel THEN "ok" ELSE "error"
  <1>1. /\ calls[c] # Idle /\ calls[c] \in CallRecords /\ calls[c].at = "called"
    BY DEF IgnorePod, GetByName, At, StateInv, CallsOK
  <1>2. ~HasQueue(LiveQuotas, pod)
    BY QueuesAssumption DEF IgnorePod, HasQueue, LiveQuotas, StateInv, TableOK
  <1>3. /\ calls'[c] # Idle /\ calls'[c].op = calls[c].op /\ calls'[c].pod = calls[c].pod
        /\ calls'[c].at = r
    BY <1>1 DEF IgnorePod, GetByName, StateInv, CallsOK, CallRecords, Idle
  <1>4. PublicCall(c) = [op |-> calls[c].op, pod |-> calls[c].pod, result |-> "none"]
    BY <1>1 DEF PublicCall, ResultOf
  <1>5. PublicCall(c)' = [op |-> calls[c].op, pod |-> calls[c].pod, result |-> r]
    BY <1>3 DEF PublicCall, ResultOf
  <1>6. LiveQuotas' = LiveQuotas /\ LiveCfgs' = LiveCfgs
    BY CallMovesOne, CallPreserves, LiveKept DEF CallerStep
  <1>7. AddPod(LiveQuotas, pod) = LiveQuotas /\ DeletePod(LiveQuotas, pod) = LiveQuotas
    BY <1>2 DEF AddPod, DeletePod
  <1>8. r = IF AddPodFails(LiveQuotas, pod) THEN "error" ELSE "ok"
    BY <1>2 DEF AddPodFails
  <1>9. \A d \in Callers \ {c} : PublicCall(d)' = PublicCall(d)
    BY CallMovesOne DEF CallerStep
  <1> QED  BY <1>1, <1>4, <1>5, <1>6, <1>7, <1>8, <1>9, EffectRefines

\* Looking the queue up, and the quota: nobody can tell.
LEMMA LookupRefines ==
    ASSUME StateInv, StateInv', NEW c \in Callers,
           \/ GetByName(c) /\ HasQueue(queueByName, calls[c].pod)
           \/ GetQuota(c)
    PROVE  RegistryUnchanged
  <1>1. CallerStep(c)
    BY DEF CallerStep
  <1>2. LiveQuotas' = LiveQuotas /\ LiveCfgs' = LiveCfgs
    BY <1>1, CallMovesOne, CallPreserves, LiveKept
  <1>3. calls[c] # Idle /\ calls[c] \in CallRecords
    BY DEF GetQuota, GetByName, At, StateInv, CallsOK
  <1>4. calls'[c] # Idle /\ calls'[c].op = calls[c].op /\ calls'[c].pod = calls[c].pod
    BY <1>3 DEF GetQuota, GetByName, StateInv, CallsOK, CallRecords, Idle
  <1>5. ResultOf(c)' = ResultOf(c)
    <2>1. CASE GetQuota(c)
      <3>1. /\ calls[c].at = "found" /\ calls'[c].at = "quota" /\ calls'[c].ptr = calls[c].ptr
            /\ queueByName' = queueByName
        BY <1>3, <2>1 DEF GetQuota, At, StateInv, CallsOK, CallRecords
      <3> QED  BY <3>1 DEF ResultOf, PointersOf
    <2>2. CASE GetByName(c) /\ HasQueue(queueByName, calls[c].pod)
      <3>1. /\ calls[c].at = "called" /\ calls'[c].at = "found"
            /\ calls'[c].ptr = queueByName[calls[c].pod.queue]
            /\ queueByName' = queueByName
        BY <1>3, <2>2 DEF GetByName, At, StateInv, CallsOK, CallRecords
      <3>2. calls'[c].ptr \in PointersOf(queueByName)'
        BY <2>2, <3>1 DEF HasQueue, PointersOf
      <3> QED  BY <3>1, <3>2 DEF ResultOf
    <2> QED  BY <2>1, <2>2
  <1>6. PublicCall(c)' = PublicCall(c)
    BY <1>3, <1>4, <1>5 DEF PublicCall
  <1>7. PublicCalls' = PublicCalls
    BY <1>1, <1>6, CallMovesOne DEF PublicCalls
  <1> QED  BY <1>2, <1>7 DEF RegistryUnchanged

LEMMA ReturnRefines ==
    ASSUME StateInv, StateInv', NEW c \in Callers, Return(c)
    PROVE  Registry!Return(c)
  <1>1. /\ calls[c] # Idle /\ calls[c] \in CallRecords /\ calls[c].at \in {"ok", "error"}
        /\ calls'[c] = Idle
    BY DEF Return, At, StateInv, CallsOK
  <1>2. PublicCalls[c] = [op |-> calls[c].op, pod |-> calls[c].pod, result |-> calls[c].at]
    BY <1>1 DEF PublicCalls, PublicCall, ResultOf
  <1>3. PublicCalls[c] # Registry!Idle /\ PublicCalls[c].result # "none"
    BY <1>1, <1>2 DEF Registry!Idle, CallRecords
  <1>4. PublicCall(c)' = Idle
    BY <1>1 DEF PublicCall
  <1>5. PublicCalls' = [PublicCalls EXCEPT ![c] = Idle]
    BY <1>4, CallMovesOne, OneCallChanges DEF CallerStep
  <1>6. LiveQuotas' = LiveQuotas /\ LiveCfgs' = LiveCfgs
    BY CallMovesOne, CallPreserves, LiveKept DEF CallerStep
  <1> QED  BY <1>3, <1>5, <1>6 DEF Registry!Return, Registry!Idle, Idle

\* The change of the ledger.  On a queue of the table the call takes effect
\* here; on a replaced one it has done so before.
LEMMA ApplyRefines ==
    ASSUME StateInv, StateInv', NEW c \in Callers, ApplyToQuota(c)
    PROVE  Registry!TakeEffect(c) \/ RegistryUnchanged
  <1> DEFINE p == calls[c].ptr
             pod == calls[c].pod
             q == Account(heap[p].quota, calls[c])
  <1>1. p \in DOMAIN heap /\ Rewrites(p, WithQuota(heap[p], q))
    BY ApplyRewrites
  <1>2. HoldsQueue(c) /\ calls[c].at = "quota"
    BY DEF ApplyToQuota, HoldsQueue, At
  <1>3. /\ calls[c] # Idle /\ calls[c] \in CallRecords
        /\ \A n \in DOMAIN queueByName : p = queueByName[n] => n = pod.queue
    BY <1>2, HeldIsLive
  <1>4. /\ calls'[c] # Idle /\ calls'[c].op = calls[c].op /\ calls'[c].pod = pod
        /\ calls'[c].at = "ok"
    <2>1. calls' = [calls EXCEPT ![c].at = "ok", ![c].ptr = Nil]
      BY DEF ApplyToQuota
    <2> DEFINE r == [calls[c] EXCEPT !.at = "ok", !.ptr = Nil]
    <2>2. r.op = calls[c].op /\ r.pod = pod /\ r.at = "ok" /\ r # Idle
      BY <1>3 DEF CallRecords, Idle
    <2>3. calls'[c] = r
      BY <2>1 DEF StateInv, CallsOK
    <2> QED  BY <2>2, <2>3
  <1>5. PublicCall(c)' = [op |-> calls[c].op, pod |-> pod, result |-> "ok"]
    BY <1>4 DEF PublicCall, ResultOf
  <1>6. /\ \A d \in Callers \ {c} : PublicCall(d)' = PublicCall(d)
        /\ queueByName' = queueByName /\ updating' = updating
    BY CallMovesOne DEF CallerStep
  <1>7. CASE p \notin PointersOf(queueByName)
    <2>1. PublicCall(c) = [op |-> calls[c].op, pod |-> pod, result |-> "ok"]
      BY <1>2, <1>3, <1>7 DEF PublicCall, ResultOf
    <2>2. PublicCalls' = PublicCalls
      BY <1>5, <1>6, <2>1 DEF PublicCalls
    <2>3. LiveQuotas' = LiveQuotas /\ LiveCfgs' = LiveCfgs
      BY <1>1, <1>6, <1>7, LiveNotRewritten
    <2> QED  BY <2>2, <2>3 DEF RegistryUnchanged
  <1>8. CASE p \in PointersOf(queueByName)
    <2>1. PublicCall(c) = [op |-> calls[c].op, pod |-> pod, result |-> "none"]
      BY <1>2, <1>3, <1>8 DEF PublicCall, ResultOf
    <2>2. pod.queue \in DOMAIN queueByName /\ queueByName[pod.queue] = p
      BY <1>3, <1>8 DEF PointersOf
    <2>3. \A n \in DOMAIN queueByName : /\ queueByName[n] \in DOMAIN heap'
                                        /\ queueByName[n] = p <=> n = pod.queue
      BY <1>3, <1>6, <2>2 DEF StateInv, HeapOK, Reachable, PointersOf
    <2> HIDE DEF p, q, pod
    <2>4. \A n \in DOMAIN queueByName :
              heap'[queueByName[n]] = IF n = pod.queue THEN WithQuota(heap[p], q)
                                      ELSE heap[queueByName[n]]
      BY <1>1, <2>3 DEF Rewrites
    <2>5. LiveCfgs' = LiveCfgs
      <3>1. \A n \in DOMAIN queueByName : heap'[queueByName[n]].cfg = heap[queueByName[n]].cfg
        BY <2>2, <2>4 DEF WithQuota
      <3> QED  BY <1>6, <3>1 DEF LiveCfgs, QueueLocked
    <2>6. LiveQuotas' = [LiveQuotas EXCEPT ![pod.queue] = q]
      <3>1. \A n \in DOMAIN queueByName :
                heap'[queueByName[n]].quota = IF n = pod.queue THEN q
                                              ELSE heap[queueByName[n]].quota
        BY <2>4 DEF WithQuota
      <3> QED  BY <1>6, <3>1 DEF LiveQuotas
    <2>7. HasQueue(LiveQuotas, pod) /\ LiveQuotas[pod.queue] = heap[p].quota
      BY <2>2 DEF HasQueue, LiveQuotas
    <2>8. q = IF calls[c].op = "add" THEN AddPodIfNotPresent(heap[p].quota, pod)
              ELSE DeletePodIfPresent(heap[p].quota, pod)
      BY DEF q, Account, pod
    <2>9. LiveQuotas' = IF calls[c].op = "add" THEN AddPod(LiveQuotas, pod)
                        ELSE DeletePod(LiveQuotas, pod)
      BY <2>6, <2>7, <2>8 DEF AddPod, DeletePod
    <2>10. ~AddPodFails(LiveQuotas, pod)
      BY <2>7 DEF AddPodFails
    <2> QED  BY <1>3, <1>5, <1>6, <2>1, <2>5, <2>9, <2>10, EffectRefines DEF pod
  <1> QED  BY <1>7, <1>8

\* The calls that Put and Delete overtake: those that hold the table's queue.
Overtaken(name) ==
    {c \in Callers : /\ HoldsQueue(c) /\ name \in DOMAIN queueByName
                     /\ calls[c].ptr = queueByName[name]}

LEMMA OvertakenResolve ==
    ASSUME StateInv, NEW name \in Names, calls' = calls,
           \A n \in DOMAIN queueByName \ {name} :
               n \in DOMAIN queueByName' /\ queueByName'[n] = queueByName[n],
           \A n \in DOMAIN queueByName' \ {name} :
               n \in DOMAIN queueByName /\ queueByName'[n] = queueByName[n],
           name \in DOMAIN queueByName' => queueByName'[name] \notin DOMAIN heap
    PROVE  Registry!ResolveOn(name)
  <1> DEFINE S == Overtaken(name)
  <1>1. ASSUME NEW c \in S
        PROVE  /\ PublicCall(c) = [op |-> calls[c].op, pod |-> calls[c].pod, result |-> "none"]
               /\ PublicCall(c)' = [op |-> calls[c].op, pod |-> calls[c].pod, result |-> "ok"]
               /\ calls[c].pod.queue = name /\ calls[c] \in CallRecords
    <2>1. /\ HoldsQueue(c) /\ name \in DOMAIN queueByName /\ calls[c].ptr = queueByName[name]
          /\ c \in Callers
      BY DEF Overtaken
    <2>2. /\ calls[c].ptr \in DOMAIN heap /\ calls[c] # Idle /\ calls[c] \in CallRecords
          /\ \A n \in DOMAIN queueByName : calls[c].ptr = queueByName[n] => n = calls[c].pod.queue
      BY <2>1, HeldIsLive
    <2>3. calls[c].ptr \in PointersOf(queueByName)
      BY <2>1 DEF PointersOf
    <2>4. calls[c].ptr \notin PointersOf(queueByName')
      BY <2>1, <2>2 DEF PointersOf
    <2> QED  BY <2>1, <2>2, <2>3, <2>4 DEF HoldsQueue, At, PublicCall, ResultOf
  <1>2. ASSUME NEW c \in Callers \ S
        PROVE  PublicCall(c)' = PublicCall(c)
    <2>1. CASE ~HoldsQueue(c)
      BY <2>1 DEF HoldsQueue, At, PublicCall, ResultOf
    <2>2. CASE HoldsQueue(c)
      <3>1. calls[c].ptr \in DOMAIN heap
        BY <2>2, HeldIsLive
      <3>2. ~(name \in DOMAIN queueByName /\ calls[c].ptr = queueByName[name])
        BY <2>2 DEF Overtaken
      <3>3. calls[c].ptr \in PointersOf(queueByName) <=> calls[c].ptr \in PointersOf(queueByName')
        BY <3>1, <3>2 DEF PointersOf
      <3> QED  BY <3>3 DEF PublicCall, ResultOf
    <2> QED  BY <2>1, <2>2
  <1>3. S \in SUBSET {c \in Callers : Registry!PendingOn(c, name)}
    <2> SUFFICES ASSUME NEW c \in S
                 PROVE  c \in Callers /\ Registry!PendingOn(c, name)
      OBVIOUS
    <2>1. c \in Callers
      BY DEF Overtaken
    <2>2. PublicCalls[c] = [op |-> calls[c].op, pod |-> calls[c].pod, result |-> "none"]
      BY <1>1, <2>1 DEF PublicCalls
    <2>3. calls[c].op # "none"
      BY <1>1 DEF CallRecords
    <2> QED  BY <1>1, <2>1, <2>2, <2>3 DEF Registry!PendingOn, Registry!Idle
  <1>4. S # {} => name \in DOMAIN LiveQuotas
    BY DEF Overtaken, LiveQuotas
  <1>5. Registry!Resolve(S, "ok")
    <2>1. ASSUME NEW c \in S
          PROVE  PublicCall(c)' = [PublicCall(c) EXCEPT !.result = "ok"]
      <3> DEFINE old == [op |-> calls[c].op, pod |-> calls[c].pod, result |-> "none"]
                 new == [op |-> calls[c].op, pod |-> calls[c].pod, result |-> "ok"]
      <3>1. [old EXCEPT !.result = "ok"] = new
        OBVIOUS
      <3>2. PublicCall(c) = old /\ PublicCall(c)' = new
        BY <1>1
      <3> HIDE DEF old, new
      <3> QED  BY <3>1, <3>2
    <2> HIDE DEF S
    <2> QED  BY <1>2, <2>1 DEF PublicCalls, Registry!Resolve
  <1> HIDE DEF S
  <1> QED  BY <1>3, <1>4, <1>5 DEF Registry!ResolveOn

LEMMA PutRefines ==
    ASSUME StateInv, StateInv', NEW name \in Names, NEW spec \in Specs, PutQueue(name, spec)
    PROVE  Registry!PutQueue(name, spec)
  <1> DEFINE p == Allocated(name)
  <1>1. p \notin DOMAIN heap /\ Rewrites(p, New(spec))
    BY PutRewrites
  <1>2. /\ queueByName' = Bind(queueByName, name, p) /\ calls' = calls
        /\ updating' = updating /\ updating = Idle
    BY DEF PutQueue
  <1> HIDE DEF p
  <1>3. /\ DOMAIN queueByName' = DOMAIN queueByName \cup {name} /\ queueByName'[name] = p
        /\ \A n \in DOMAIN queueByName \ {name} : queueByName'[n] = queueByName[n]
    BY <1>2 DEF Bind
  <1>4. \A n \in DOMAIN queueByName' : queueByName'[n] \in DOMAIN heap'
    BY DEF StateInv, HeapOK, Reachable, PointersOf
  <1>5. \A n \in DOMAIN queueByName : queueByName[n] # p
    BY <1>1 DEF StateInv, HeapOK, Reachable, PointersOf
  <1>6. \A n \in DOMAIN queueByName' :
            heap'[queueByName'[n]] = IF n = name THEN New(spec) ELSE heap[queueByName[n]]
    BY <1>1, <1>3, <1>4, <1>5 DEF Rewrites
  <1>7. LiveQuotas' = Put(LiveQuotas, name, spec.max)
    <2>1. \A n \in DOMAIN queueByName' :
              heap'[queueByName'[n]].quota = IF n = name THEN NewQueue(spec.max)
                                             ELSE heap[queueByName[n]].quota
      BY <1>6 DEF New
    <2> QED  BY <1>3, <2>1 DEF LiveQuotas, Put
  <1>8. LiveCfgs' = [n \in DOMAIN LiveCfgs \cup {name} |->
                        IF n = name THEN spec.cfg ELSE LiveCfgs[n]]
    <2>1. \A n \in DOMAIN queueByName' :
              heap'[queueByName'[n]].cfg = IF n = name THEN spec.cfg ELSE heap[queueByName[n]].cfg
      BY <1>6 DEF New
    <2> QED  BY <1>2, <1>3, <2>1 DEF LiveCfgs, QueueLocked
  <1>9. Registry!ResolveOn(name)
    BY <1>1, <1>2, <1>3, OvertakenResolve
  <1> QED  BY <1>7, <1>8, <1>9, SameTableOperators DEF Registry!PutQueue

LEMMA DeleteRefines ==
    ASSUME StateInv, StateInv', NEW name \in Names, DeleteQueue(name)
    PROVE  Registry!DeleteQueue(name)
  <1>1. /\ queueByName' = Delete(queueByName, name) /\ calls' = calls
        /\ updating' = updating /\ updating = Idle
    BY DEF DeleteQueue
  <1>2. /\ DOMAIN queueByName' = DOMAIN queueByName \ {name}
        /\ \A n \in DOMAIN queueByName' : queueByName'[n] = queueByName[n]
    BY <1>1 DEF Delete
  <1>3. \A n \in DOMAIN queueByName' : heap'[queueByName'[n]] = heap[queueByName[n]]
    <2>1. \A n \in DOMAIN queueByName' : queueByName'[n] \in DOMAIN heap'
      BY DEF StateInv, HeapOK, Reachable, PointersOf
    <2> QED  BY <1>2, <2>1, DeletePreserves DEF Preserves
  <1>4. LiveQuotas' = Delete(LiveQuotas, name)
    BY <1>2, <1>3 DEF LiveQuotas, Delete
  <1>5. LiveCfgs' = [n \in DOMAIN LiveCfgs \ {name} |-> LiveCfgs[n]]
    BY <1>1, <1>2, <1>3 DEF LiveCfgs, QueueLocked
  <1>6. Registry!ResolveOn(name)
    BY <1>1, <1>2, OvertakenResolve
  <1> QED  BY <1>4, <1>5, <1>6, SameTableOperators DEF Registry!DeleteQueue

\* An update takes effect with its first option.
LEMMA ApplyFirstRefines ==
    ASSUME StateInv, StateInv', NEW name \in Names, NEW spec \in Specs, ApplyFirstOpts(name, spec)
    PROVE  Registry!UpdateQueue(name, spec)
  <1> DEFINE p == queueByName[name]
             q == SetMax(heap[p].quota, spec.max)
  <1>1. p \in DOMAIN heap /\ Rewrites(p, WithQuota(heap[p], q))
    BY ApplyFirstRewrites
  <1>2. /\ name \in DOMAIN queueByName /\ queueByName' = queueByName /\ calls' = calls
        /\ updating = Idle /\ updating' # Idle
        /\ updating'.ptr = p /\ updating'.cfg = spec.cfg
    BY DEF ApplyFirstOpts, Idle
  <1>3. \A n \in DOMAIN queueByName : queueByName[n] \in Slots(n)
    BY DEF StateInv, TableOK
  <1>4. \A n \in DOMAIN queueByName : /\ queueByName[n] \in DOMAIN heap'
                                      /\ queueByName[n] = p <=> n = name
    BY <1>2, <1>3 DEF Slots, StateInv, HeapOK, Reachable, PointersOf
  <1>5. LiveQuotas[name] = heap[p].quota
    BY <1>2 DEF LiveQuotas
  <1> HIDE DEF p
  <1>6. q = SetMax(LiveQuotas[name], spec.max)
    BY <1>5
  <1> HIDE DEF q
  <1>7. \A n \in DOMAIN queueByName :
            heap'[queueByName[n]] = IF n = name THEN WithQuota(heap[p], q)
                                    ELSE heap[queueByName[n]]
    BY <1>1, <1>4 DEF Rewrites
  <1>8. LiveQuotas' = [LiveQuotas EXCEPT ![name] = q]
    <2>1. \A n \in DOMAIN queueByName :
              heap'[queueByName[n]].quota = IF n = name THEN q ELSE heap[queueByName[n]].quota
      BY <1>7 DEF WithQuota
    <2> QED  BY <1>2, <2>1 DEF LiveQuotas
  <1>9. LiveQuotas' = Update(LiveQuotas, name, spec.max)
    <2>1. name \in DOMAIN LiveQuotas
      BY <1>2 DEF LiveQuotas
    <2> QED  BY <1>6, <1>8, <2>1 DEF Update
  <1>10. LiveCfgs' = [n \in DOMAIN LiveCfgs \cup {name} |->
                         IF n = name THEN spec.cfg ELSE LiveCfgs[n]]
    <2>1. \A n \in DOMAIN queueByName \ {name} :
              heap'[queueByName[n]].cfg = heap[queueByName[n]].cfg
      BY <1>7
    <2>2. DOMAIN LiveCfgs \cup {name} = DOMAIN queueByName
      BY <1>2 DEF LiveCfgs
    <2> QED  BY <1>2, <1>4, <2>1, <2>2 DEF LiveCfgs, QueueLocked
  <1>11. PublicCalls' = PublicCalls
    BY <1>2, CallsUnchanged
  <1> QED  BY <1>9, <1>10, <1>11, SameTableOperators DEF Registry!UpdateQueue

\* The last option writes what readers are already taken to see.
LEMMA ApplyLastRefines ==
    ASSUME StateInv, StateInv', ApplyLastOpts
    PROVE  RegistryUnchanged
  <1> DEFINE p == updating.ptr
             x == [quota |-> heap[p].quota, cfg |-> updating.cfg]
  <1>1. p \in DOMAIN heap /\ Rewrites(p, x)
    BY ApplyLastRewrites
  <1>2. queueByName' = queueByName /\ calls' = calls /\ updating' = Idle /\ updating # Idle
    BY DEF ApplyLastOpts
  <1>3. \A n \in DOMAIN queueByName : queueByName[n] \in DOMAIN heap'
    BY <1>2 DEF StateInv, HeapOK, Reachable, PointersOf
  <1>4. \A n \in DOMAIN queueByName :
            /\ heap'[queueByName[n]].quota = heap[queueByName[n]].quota
            /\ heap'[queueByName[n]].cfg = IF queueByName[n] = p THEN updating.cfg
                                           ELSE heap[queueByName[n]].cfg
    BY <1>1, <1>3 DEF Rewrites
  <1>5. LiveQuotas' = LiveQuotas
    BY <1>2, <1>4 DEF LiveQuotas
  <1>6. LiveCfgs' = LiveCfgs
    BY <1>2, <1>4 DEF LiveCfgs, QueueLocked
  <1> QED  BY <1>2, <1>5, <1>6, CallsUnchanged DEF RegistryUnchanged

\* Nobody can tell that a snapshot is taken or changed.
LEMMA SnapshotRefines ==
    ASSUME StateInv, StateInv',
           \/ CopyTable \/ DropClone
           \/ \E name \in Names : CloneQueue(name)
           \/ \E op \in {"add", "delete"}, pod \in PodObjects : Simulate(op, pod)
    PROVE  RegistryUnchanged
  <1>1. queueByName' = queueByName /\ calls' = calls /\ updating' = updating
    BY DEF CopyTable, DropClone, CloneQueue, Simulate
  <1>2. \A n : <<n, CloneSlot>> \notin PointersOf(queueByName)
    BY NotACloneSlot DEF PointersOf, StateInv, TableOK
  <1>3. LiveQuotas' = LiveQuotas /\ LiveCfgs' = LiveCfgs
    <2>1. CASE CopyTable \/ DropClone
      BY <1>1, <2>1, CopyPreserves, DropPreserves, LiveKept
    <2>2. ASSUME NEW name \in Names, CloneQueue(name)
          PROVE  LiveQuotas' = LiveQuotas /\ LiveCfgs' = LiveCfgs
      BY <1>1, <1>2, <2>2, CloneRewrites, LiveNotRewritten
    <2>3. ASSUME NEW op \in {"add", "delete"}, NEW pod \in PodObjects, Simulate(op, pod)
          PROVE  LiveQuotas' = LiveQuotas /\ LiveCfgs' = LiveCfgs
      BY <1>1, <1>2, <2>3, SimulateRewrites, LiveNotRewritten
    <2> QED  BY <2>1, <2>2, <2>3
  <1> QED  BY <1>1, <1>3, CallsUnchanged DEF RegistryUnchanged

LEMMA StepRefines ==
    ASSUME StateInv, StateInv', [Next]_vars
    PROVE  Registry!Next \/ RegistryUnchanged
  <1>1. CASE UNCHANGED vars
    BY <1>1 DEF vars, RegistryUnchanged, LiveQuotas, LiveCfgs, QueueLocked, PublicCalls,
                PublicCall, ResultOf, PointersOf
  <1>2. CASE Next
    <2>1. ASSUME NEW c \in Callers,
                 \/ \E op \in {"add", "delete"}, pod \in PodObjects : Invoke(c, op, pod)
                 \/ CallerStep(c)
          PROVE  Registry!Next \/ RegistryUnchanged
      BY <2>1, InvokeRefines, NoEffectRefines, LookupRefines, ApplyRefines, ReturnRefines
         DEF CallerStep, Registry!Next
    <2>2. ASSUME QueueStep
          PROVE  Registry!Next
      BY <2>2, PutRefines, DeleteRefines, ApplyFirstRefines DEF QueueStep, Registry!Next
    <2> QED  BY <1>2, <2>1, <2>2, Steps, ApplyLastRefines, SnapshotRefines
  <1> QED  BY <1>1, <1>2

LEMMA InitRefines ==
    ASSUME Init
    PROVE  Registry!Init
  <1>1. /\ \A n \in DOMAIN queueByName : heap[queueByName[n]] = New(Initial[n])
        /\ DOMAIN queueByName = DOMAIN Initial /\ updating = Idle
    BY DEF Init, PointersOf
  <1>2. ASSUME NEW n \in DOMAIN queueByName
        PROVE  /\ heap[queueByName[n]].quota = NewQueue(Initial[n].max)
               /\ heap[queueByName[n]].cfg = Initial[n].cfg
    <2> DEFINE spec == Initial[n]
    <2>1. New(spec).quota = NewQueue(spec.max) /\ New(spec).cfg = spec.cfg
      BY DEF New
    <2> QED  BY <1>1, <2>1
  <1>3. /\ LiveQuotas = [n \in DOMAIN Initial |-> NewQueue(Initial[n].max)]
        /\ LiveCfgs = [n \in DOMAIN Initial |-> Initial[n].cfg]
    BY <1>1, <1>2 DEF LiveQuotas, LiveCfgs, QueueLocked
  <1>4. PublicCalls = [c \in Callers |-> Idle]
    BY DEF Init, PublicCalls, PublicCall
  <1> QED  BY <1>3, <1>4, SameQuotaOperators DEF Registry!Init, Registry!Idle, Idle

\* The manager implements the registry: accounting calls and changes of the
\* registry are atomic to their callers although no lock spans them
\* (manager.go:118), for any number of callers, pods, queues and specs.
THEOREM ManagerLinearizable == Spec => Linearizable
  <1>1. Init => StateInv
    BY StateInvInit
  <1>2. StateInv /\ [Next]_vars => StateInv'
    BY StateInvNext
  <1>3. Init => Registry!Init
    BY InitRefines
  <1>4. StateInv /\ StateInv' /\ [Next]_vars => [Registry!Next]_(Registry!vars)
    BY StepRefines DEF RegistryUnchanged, Registry!vars
  <1> QED  BY <1>1, <1>2, <1>3, <1>4, PTL DEF Spec, Linearizable, Registry!Spec
=============================================================================
