-------------------------- MODULE ManagerConcurrency --------------------------
(***************************************************************************)
(* internal/queue/manager.go, queue.go and quota.go at the granularity of  *)
(* their locks: the manager's table holds pointers to queues, a call looks *)
(* a pointer up under the manager's lock and uses it after the lock is     *)
(* released, and Clone copies the table first and the queues one by one    *)
(* afterwards.                                                             *)
(*                                                                         *)
(* The goroutines are the pod handlers and binding cycles (accounting      *)
(* calls), the queue handlers (Put, Update, Delete, one at a time) and the *)
(* scheduling loop, which both calls and clones.  A lock held for one      *)
(* step needs no variable; only Update holds locks from one step to the    *)
(* next.                                                                   *)
(***************************************************************************)
EXTENDS QueueManager

CONSTANTS
    Callers, Scheduler,    \* goroutines, the scheduling loop among them
    OpsOf,                 \* the accounting calls each of them makes
    Names, PodObjects, Specs,
    Initial,               \* the queues that exist at first: name -> spec
    Edited,                \* names the queue handlers are called for
    MaxOrphans,            \* bound: replaced queues of a name still in use
    Nil

\* Addresses: a queue called n that Put or Update creates is at <<n, i>>, one
\* that Clone creates at <<n, CloneSlot>>.
CloneSlot == MaxOrphans + 1

ASSUME CallersAssumption ==
    /\ Scheduler \in Callers
    /\ OpsOf \in [Callers -> SUBSET {"add", "delete"}]
    /\ MaxOrphans \in Nat
ASSUME QueuesAssumption ==
    /\ DOMAIN Initial \subseteq Names /\ Edited \subseteq Names
    /\ NoLabel \notin Names
    /\ \A n \in DOMAIN Initial : Initial[n] \in Specs
    /\ \A s \in Specs : s = [max |-> s.max, cfg |-> s.cfg]
\* A UID names one pod, whose queue label does not change.
ASSUME PodObjectsAssumption ==
    \A p, o \in PodObjects : p.uid = o.uid => p.queue = o.queue

VARIABLES
    queueByName,  \* the table: name -> pointer
    heap,         \* the queues that are allocated: pointer -> queue
    calls,        \* the accounting call each caller is in
    updating,     \* the queue ApplyOpts is at work on, and the spec applied
    clone,        \* the scheduling loop's snapshot, or as much as is copied
    window        \* history: pods on the ledgers while the snapshot is taken

vars == <<queueByName, heap, calls, updating, clone, window>>

Idle == [op |-> "none"]
NoClone == [at |-> "none", queues |-> [n \in {} |-> Nil], todo |-> {}]
NoWindow == [always |-> {}, ever |-> {}]

-----------------------------------------------------------------------------
\* New: a queue of its own, with the options applied before anyone sees it.
New(spec) == [quota |-> NewQueue(spec.max), cfg |-> spec.cfg]

\* Mutant of CloneOf: podsByID is not taken over.
CloneWithoutPods(queue) ==
    [quota |-> NewQueue(queue.quota.max), cfg |-> queue.cfg]

\* Queue.Clone; the quota's maps are copied, its immutable podsByID shared.
CloneOf(queue) == [quota |-> queue.quota, cfg |-> queue.cfg]

\* Update runs ApplyOpts with the manager's and the queue's lock held.
ManagerLocked == updating # Idle
\* Mutant of QueueLocked: ApplyOpts does not lock the queue.
NeverLocked(ptr) == FALSE
QueueLocked(ptr) == updating # Idle /\ updating.ptr = ptr

\* Where caller c is in its call, and whether it holds a pointer to a queue.
At(c, where) == calls[c] # Idle /\ calls[c].at = where
HoldsQueue(c) == At(c, "found") \/ At(c, "quota")

PointersOf(f) == {f[x] : x \in DOMAIN f}

\* What the garbage collector keeps.
Reachable ==
    PointersOf(queueByName) \cup PointersOf(clone.queues)
    \cup {calls[c].ptr : c \in {d \in Callers : HoldsQueue(d)}}

\* The heap h after the step, with what nobody points to collected.
Collected(h) == heap' = [ptr \in Reachable' |-> h[ptr]]

\* Where a new queue called name can be, and where it is put.
Free(name) == ({name} \X (0..MaxOrphans)) \ DOMAIN heap
Allocated(name) == CHOOSE ptr \in Free(name) : TRUE

\* The map f with the entry for x set to y.
Bind(f, x, y) == [n \in DOMAIN f \cup {x} |-> IF n = x THEN y ELSE f[n]]

-----------------------------------------------------------------------------
(* AddPodIfNotPresent and DeletePodIfPresent of the manager.               *)

\* The scheduling loop calls (Reserve) once it is done with its snapshot.
Invoke(c, op, pod) ==
    /\ calls[c] = Idle
    /\ op \in OpsOf[c]
    /\ c = Scheduler => clone = NoClone
    /\ calls' = [calls EXCEPT ![c] = [op |-> op, pod |-> pod, at |-> "called", ptr |-> Nil]]
    /\ UNCHANGED <<queueByName, heap, updating, clone>>

\* A pod without the label is not tracked: the call returns at once.
IgnorePod(c) ==
    /\ At(c, "called")
    /\ calls[c].pod.queue = NoLabel
    /\ calls' = [calls EXCEPT ![c].at = "ok"]
    /\ UNCHANGED <<queueByName, heap, updating, clone>>

\* GetByName, under the manager's read lock.
GetByName(c) ==
    /\ At(c, "called")
    /\ calls[c].pod.queue # NoLabel
    /\ ~ManagerLocked
    /\ calls' = [calls EXCEPT
                    ![c].ptr = IF HasQueue(queueByName, calls[c].pod)
                               THEN queueByName[calls[c].pod.queue] ELSE Nil,
                    ![c].at  = IF HasQueue(queueByName, calls[c].pod)
                               THEN "found" ELSE "error"]
    /\ UNCHANGED <<queueByName, heap, updating, clone>>

\* Queue.Quota, under the queue's read lock.
GetQuota(c) ==
    /\ At(c, "found")
    /\ ~QueueLocked(calls[c].ptr)
    /\ calls' = [calls EXCEPT ![c].at = "quota"]
    /\ UNCHANGED <<queueByName, heap, updating, clone>>

\* The quota's own method, under its lock.
Account(quota, call) ==
    IF call.op = "add"
    THEN AddPodIfNotPresent(quota, call.pod)
    ELSE DeletePodIfPresent(quota, call.pod)

\* Mutant of ApplyToQuota: stores the queue back under its name.
ApplyAndStore(c) ==
    /\ At(c, "quota")
    /\ queueByName' = Bind(queueByName, calls[c].pod.queue, calls[c].ptr)
    /\ calls' = [calls EXCEPT ![c].at = "ok", ![c].ptr = Nil]
    /\ UNCHANGED <<updating, clone>>
    /\ Collected([heap EXCEPT ![calls[c].ptr].quota = Account(@, calls[c])])

ApplyToQuota(c) ==
    /\ At(c, "quota")
    /\ calls' = [calls EXCEPT ![c].at = "ok", ![c].ptr = Nil]
    /\ UNCHANGED <<queueByName, updating, clone>>
    /\ Collected([heap EXCEPT ![calls[c].ptr].quota = Account(@, calls[c])])

Return(c) ==
    /\ At(c, "ok") \/ At(c, "error")
    /\ calls' = [calls EXCEPT ![c] = Idle]
    /\ UNCHANGED <<queueByName, heap, updating, clone>>

-----------------------------------------------------------------------------
(* Put, Update and Delete, called by the queue handlers.                   *)

PutQueue(name, spec) ==
    /\ updating = Idle
    /\ Free(name) # {}
    /\ queueByName' = Bind(queueByName, name, Allocated(name))
    /\ UNCHANGED <<calls, updating, clone>>
    /\ Collected(Bind(heap, Allocated(name), New(spec)))

\* Update of a known queue takes both locks and applies the options in
\* order: WithQuotaMax, then WithPreemptionConfig.
ApplyFirstOpts(name, spec) ==
    /\ updating = Idle
    /\ name \in DOMAIN queueByName
    /\ heap' = [heap EXCEPT ![queueByName[name]].quota = SetMax(@, spec.max)]
    /\ updating' = [op |-> "update", ptr |-> queueByName[name], cfg |-> spec.cfg]
    /\ UNCHANGED <<queueByName, calls, clone>>

ApplyLastOpts ==
    /\ updating # Idle
    /\ heap' = [heap EXCEPT ![updating.ptr].cfg = updating.cfg]
    /\ updating' = Idle
    /\ UNCHANGED <<queueByName, calls, clone>>

\* Update of an unknown queue creates it.
UpdateQueue(name, spec) ==
    \/ name \notin DOMAIN queueByName /\ PutQueue(name, spec)
    \/ ApplyFirstOpts(name, spec)

DeleteQueue(name) ==
    /\ updating = Idle
    /\ name \in DOMAIN queueByName
    /\ queueByName' = Delete(queueByName, name)
    /\ UNCHANGED <<calls, updating, clone>>
    /\ Collected(heap)

-----------------------------------------------------------------------------
(* Clone, and what the scheduling cycle does to its snapshot.              *)

\* maps.Clone, under the manager's read lock: the pointers are copied.
CopyTable ==
    /\ clone.at = "none"
    /\ calls[Scheduler] = Idle
    /\ ~ManagerLocked
    /\ clone' = [at |-> IF DOMAIN queueByName = {} THEN "ready" ELSE "copying",
                 queues |-> queueByName, todo |-> DOMAIN queueByName]
    /\ UNCHANGED <<queueByName, heap, calls, updating>>

\* Mutant of CloneQueue: the snapshot keeps the pointer it copied.
ShareQueue(name) ==
    /\ clone.at = "copying"
    /\ name \in clone.todo
    /\ ~QueueLocked(clone.queues[name])
    /\ clone' = [at     |-> IF clone.todo = {name} THEN "ready" ELSE "copying",
                 queues |-> clone.queues, todo |-> clone.todo \ {name}]
    /\ UNCHANGED <<queueByName, heap, calls, updating>>

\* One iteration of the loop, with no lock of the manager held: the queue may
\* have been replaced since the table was copied.
CloneQueue(name) ==
    /\ clone.at = "copying"
    /\ name \in clone.todo
    /\ ~QueueLocked(clone.queues[name])
    /\ clone' = [at     |-> IF clone.todo = {name} THEN "ready" ELSE "copying",
                 queues |-> [clone.queues EXCEPT ![name] = <<name, CloneSlot>>],
                 todo   |-> clone.todo \ {name}]
    /\ UNCHANGED <<queueByName, calls, updating>>
    /\ Collected(Bind(heap, <<name, CloneSlot>>, CloneOf(heap[clone.queues[name]])))

\* Plugin.AddPod and RemovePod, and the nominated pods PreFilter counts: the
\* manager's methods on the snapshot, which no other goroutine uses.  One of
\* them stands for the sequence a cycle makes.
Simulate(op, pod) ==
    /\ clone.at = "ready"
    /\ HasQueue(clone.queues, pod)
    /\ heap' = [heap EXCEPT ![clone.queues[pod.queue]].quota =
                                Account(@, [op |-> op, pod |-> pod])]
    /\ clone' = [clone EXCEPT !.at = "changed"]
    /\ UNCHANGED <<queueByName, calls, updating>>

\* The end of the scheduling cycle.
DropClone ==
    /\ clone.at \in {"ready", "changed"}
    /\ clone' = NoClone
    /\ UNCHANGED <<queueByName, calls, updating>>
    /\ Collected(heap)

-----------------------------------------------------------------------------
\* The pods on the ledgers of the table's queues, and on those or about to be
\* put on the ledger some call has found.
OnLedgers ==
    UNION {DOMAIN heap[queueByName[n]].quota.podsByID : n \in DOMAIN queueByName}
BeingAdded ==
    {calls[c].pod.uid : c \in {d \in Callers : HoldsQueue(d) /\ calls[d].op = "add"}}

\* history: which pods were on the ledgers always, and which ever, from the
\* copy of the table to the copy of the last queue.
ObserveClone ==
    window' =
        CASE clone'.at \in {"none", "changed"} -> NoWindow
          [] clone.at = "none" /\ clone'.at # "none" ->
                [always |-> OnLedgers', ever |-> (OnLedgers \cup BeingAdded)']
          [] clone.at = "copying" ->
                [always |-> window.always \cap OnLedgers',
                 ever   |-> window.ever \cup (OnLedgers \cup BeingAdded)']
          [] OTHER -> window

\* The queues of Initial have been put, one pointer each.
Init ==
    /\ queueByName = [n \in DOMAIN Initial |-> <<n, 0>>]
    /\ heap = [ptr \in PointersOf(queueByName) |-> New(Initial[ptr[1]])]
    /\ calls = [c \in Callers |-> Idle]
    /\ updating = Idle
    /\ clone = NoClone
    /\ window = NoWindow

CallerStep(c) == IgnorePod(c) \/ GetByName(c) \/ GetQuota(c) \/ ApplyToQuota(c) \/ Return(c)
CloneStep == (\E name \in Names : CloneQueue(name)) \/ DropClone

Next ==
    /\ \/ \E c \in Callers :
            \/ \E op \in {"add", "delete"}, pod \in PodObjects : Invoke(c, op, pod)
            \/ CallerStep(c)
       \/ \E name \in Edited :
            \/ \E spec \in Specs : PutQueue(name, spec) \/ UpdateQueue(name, spec)
            \/ DeleteQueue(name)
       \/ ApplyLastOpts
       \/ CopyTable \/ CloneStep
       \/ \E op \in {"add", "delete"}, pod \in PodObjects : Simulate(op, pod)
    /\ ObserveClone

Spec == Init /\ [][Next]_vars
-----------------------------------------------------------------------------
(* Properties.                                                             *)

(***************************************************************************)
(* Refinement.  A call that found its queue and has not used it yet is     *)
(* still pending as long as the table points to that queue; once the queue *)
(* has been replaced or deleted, the call took effect right before that.   *)
(* An update takes effect with its first option: nobody reads the others   *)
(* before the queue is unlocked.                                           *)
(***************************************************************************)
ResultOf(c) ==
    CASE calls[c].at = "called" -> "none"
      [] calls[c].at \in {"found", "quota"} ->
            IF calls[c].ptr \in PointersOf(queueByName) THEN "none" ELSE "ok"
      [] OTHER -> calls[c].at

PublicCall(c) ==
    IF calls[c] = Idle THEN Idle
    ELSE [op |-> calls[c].op, pod |-> calls[c].pod, result |-> ResultOf(c)]

LiveQuotas == [n \in DOMAIN queueByName |-> heap[queueByName[n]].quota]
LiveCfgs   == [n \in DOMAIN queueByName |->
                  IF QueueLocked(queueByName[n]) THEN updating.cfg ELSE heap[queueByName[n]].cfg]
PublicCalls == [c \in Callers |-> PublicCall(c)]

Registry == INSTANCE QueueRegistry WITH
    queueByName <- LiveQuotas, cfgByName <- LiveCfgs, calls <- PublicCalls

\* Every accounting call takes effect at one instant and with the right
\* result, also when its queue is replaced or deleted between the lookup and
\* the change (manager.go:118), and what the scheduling cycle simulates on a
\* snapshot never reaches a live ledger.
Linearizable == Registry!Spec

\* A snapshot (manager.go:151) of a queue has every pod that was on the ledger
\* from the copy of the table to the copy of the last queue, in particular all
\* that the scheduling loop itself reserved, and no pod that was neither on it
\* nor being added meanwhile.
SnapshotBracketed ==
    clone.at = "ready" =>
        LET taken == UNION {DOMAIN heap[clone.queues[n]].quota.podsByID : n \in DOMAIN clone.queues}
        IN  window.always \subseteq taken /\ taken \subseteq window.ever

\* The maximum and the preemption rules of a queue in a snapshot come from one
\* spec: a clone cannot catch a queue between two options of an update.
SnapshotUntorn ==
    \A n \in DOMAIN clone.queues \ clone.todo :
        LET queue == heap[clone.queues[n]]
        IN  [max |-> queue.quota.max, cfg |-> queue.cfg] \in Specs

\* The step in which the scheduling cycle changes its snapshot.
Simulating == clone.at = "ready" /\ clone'.at = "changed"

\* Whatever the other goroutines do, a queue once cloned changes only by what
\* the scheduling cycle simulates on it, and what the cycle simulates reaches
\* no live queue.
SnapshotIsolated ==
    [][IF Simulating
       THEN \A n \in DOMAIN queueByName : heap'[queueByName'[n]] = heap[queueByName[n]]
       ELSE \A n \in (DOMAIN clone.queues \ clone.todo) \cap DOMAIN clone'.queues :
                heap'[clone'.queues[n]] = heap[clone.queues[n]]]_vars
=============================================================================
