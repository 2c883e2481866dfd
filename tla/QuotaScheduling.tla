--------------------------- MODULE QuotaScheduling ---------------------------
(***************************************************************************)
(* The life of a quota: pods and queues change at the API server, informer *)
(* calls carry the changes to the Synchronizer's handlers, and the         *)
(* scheduling plugin checks (PreFilter), takes (Reserve) and gives back    *)
(* (Unreserve) quota, all on the one queue manager the process holds.      *)
(*                                                                         *)
(* Sources: internal/queue/synchronizer.go and                             *)
(* internal/plugin/quotaawarepreempt/plugin.go.  Kubernetes itself (API    *)
(* server, informers, scheduling and binding cycles) is external and       *)
(* modelled from how that code uses it.  The goroutines are: one that runs *)
(* the pod handlers, one that runs the queue handlers, the scheduling      *)
(* loop, and one per binding cycle.                                        *)
(***************************************************************************)
EXTENDS QueueManager, Sequences

CONSTANTS
    Pods,            \* UIDs; a UID names at most one pod for ever
    ForeignPods,     \* those another scheduler binds
    Queues,          \* names of queues
    QueueOf,         \* the queue label of each pod, NoLabel if it has none
    Priority,        \* the priority of each pod
    InitialReq,      \* the request a pod is created with
    ResizedReq,      \* the request after an in-place resize
    InitialMax,      \* the queues that exist at first, with their spec.quota.max
    Maxes,           \* every spec.quota.max a queue may be given
    Disruptions,     \* which kinds of disruption the environment commits
    MaxDisruptions   \* how many of them, at most

DisruptionKinds ==
    {"queueLifecycle", "watchLoss", "queueWatchLoss", "lateBind", "restart", "resize"}

IsResources(r) == \A n \in DOMAIN r : r[n] \in Int
IsRequest(r)   == \A n \in DOMAIN r : r[n] \in Nat

ASSUME PodsAssumption ==
    /\ IsFiniteSet(Pods) /\ IsFiniteSet(Queues)
    /\ ForeignPods \subseteq Pods
    /\ NoLabel \notin Queues
    /\ QueueOf \in [Pods -> Queues \cup {NoLabel}]
    /\ Priority \in [Pods -> Int]

ASSUME RequestsAssumption ==
    /\ DOMAIN InitialReq = Pods /\ \A p \in Pods : IsRequest(InitialReq[p])
    /\ DOMAIN ResizedReq = Pods /\ \A p \in Pods : IsRequest(ResizedReq[p])

ASSUME MaxesAssumption ==
    /\ \A m \in Maxes : IsResources(m)
    /\ DOMAIN InitialMax \subseteq Queues
    /\ \A q \in DOMAIN InitialMax : InitialMax[q] \in Maxes

ASSUME DisruptionsAssumption ==
    /\ Disruptions \subseteq DisruptionKinds
    /\ MaxDisruptions \in Nat

VARIABLES
    pods,         \* the pod objects at the API server
    podStore,     \* the pod informer's cache of them
    watchUp,      \* FALSE while the pod watch is broken
    podCalls,     \* calls waiting for the pod handler goroutine
    queues,       \* the queue objects at the API server: name -> max
    queueStore,   \* the queue informer's cache of them
    queueWatchUp, \* FALSE while the queue watch is broken
    queueCalls,   \* calls waiting for the queue handler goroutine
    queueByName,  \* the manager
    step,         \* where each pod is in the scheduler
    nominated,    \* pods with a nominated node
    disruptions   \* disruptions committed so far

apiVars == <<pods, podStore, watchUp, podCalls>>
queueApiVars == <<queues, queueStore, queueWatchUp>>
queueVars == <<queueApiVars, queueCalls>>
vars == <<apiVars, queueVars, queueByName, step, nominated, disruptions>>

-----------------------------------------------------------------------------
(* Pod objects.                                                            *)

\* Pending and Running are "NonTerminal", Succeeded and Failed "Terminal".
\* PodUnknown, which no component of Kubernetes sets any more, is left out.
Phases == {"NonTerminal", "Terminal"}

IsTerminal(pod) == pod.phase = "Terminal"
IsNonTerminal(pod) == pod.phase = "NonTerminal"

\* The object as created; it is also what the scheduler's cycles hold, since
\* they start before the pod is bound.
Fresh(p) ==
    [uid |-> p, queue |-> QueueOf[p], req |-> InitialReq[p],
     life |-> "live", bound |-> FALSE, phase |-> "NonTerminal"]

Live(p) == pods[p].life = "live"

\* FilterFunc: only objects with a node reach the handlers.
FilterFunc(pod) == pod.life = "live" /\ pod.bound

\* FilteringResourceEventHandler: what the step from the cached object to the
\* new one becomes.  kind tells an observed deletion ("delete") from one that
\* a relist only infers ("tombstone").
CallsFor(old, new, kind) ==
    CASE FilterFunc(old) /\ FilterFunc(new)  -> <<[call |-> "update", old |-> old, pod |-> new]>>
      [] ~FilterFunc(old) /\ FilterFunc(new) -> <<[call |-> "add", old |-> old, pod |-> new]>>
      [] FilterFunc(old) /\ ~FilterFunc(new) -> <<[call |-> kind, old |-> old, pod |-> old]>>
      [] OTHER -> <<>>

\* A write to pod p at the API server, as the informer sees it: at once
\* while the watch is up, only at the next relist otherwise.
Write(p, new) ==
    /\ pods' = [pods EXCEPT ![p] = new]
    /\ IF watchUp
       THEN /\ podStore' = [podStore EXCEPT ![p] = new]
            /\ podCalls' = podCalls \o CallsFor(podStore[p], new, "delete")
       ELSE UNCHANGED <<podStore, podCalls>>
    /\ UNCHANGED watchUp

\* The orders in which a list can deliver the members of S.
Orders(S) == {f \in [1..Cardinality(S) -> S] : \A i, j \in DOMAIN f : f[i] = f[j] => i = j}

Disrupt(kind) ==
    /\ kind \in Disruptions
    /\ disruptions < MaxDisruptions
    /\ disruptions' = disruptions + 1

-----------------------------------------------------------------------------
(* The cluster: users, kubelets and other schedulers.                      *)

CreatePod(p) ==
    /\ pods[p].life = "new"
    /\ Write(p, Fresh(p))
    /\ UNCHANGED <<queueVars, queueByName, step, nominated, disruptions>>

RemovePod(p) ==
    /\ Live(p)
    /\ Write(p, [pods[p] EXCEPT !.life = "gone"])
    /\ nominated' = nominated \ {p}
    /\ UNCHANGED <<queueVars, queueByName, step, disruptions>>

FinishPod(p) ==
    /\ Live(p) /\ pods[p].bound /\ pods[p].phase # "Terminal"
    /\ Write(p, [pods[p] EXCEPT !.phase = "Terminal"])
    /\ UNCHANGED <<queueVars, queueByName, step, nominated, disruptions>>

ForeignBind(p) ==
    /\ p \in ForeignPods
    /\ Live(p) /\ ~pods[p].bound
    /\ Write(p, [pods[p] EXCEPT !.bound = TRUE])
    /\ UNCHANGED <<queueVars, queueByName, step, nominated, disruptions>>

ResizePod(p) ==
    /\ Disrupt("resize")
    /\ Live(p) /\ pods[p].bound
    /\ Write(p, [pods[p] EXCEPT !.req = ResizedReq[p]])
    /\ UNCHANGED <<queueVars, queueByName, step, nominated>>

QueueCall(call, q, max) == [call |-> call, queue |-> q, max |-> max]

\* As Write, for the queues.
WriteQueues(newQueues, call) ==
    /\ queues' = newQueues
    /\ IF queueWatchUp
       THEN queueStore' = newQueues /\ queueCalls' = Append(queueCalls, call)
       ELSE UNCHANGED <<queueStore, queueCalls>>
    /\ UNCHANGED queueWatchUp

CreateQueue(q, max) ==
    /\ Disrupt("queueLifecycle")
    /\ q \notin DOMAIN queues
    /\ WriteQueues([x \in DOMAIN queues \cup {q} |-> IF x = q THEN max ELSE queues[x]],
                   QueueCall("add", q, max))
    /\ UNCHANGED <<apiVars, queueByName, step, nominated>>

ChangeQueue(q, max) ==
    /\ Disrupt("queueLifecycle")
    /\ q \in DOMAIN queues
    /\ WriteQueues([queues EXCEPT ![q] = max], QueueCall("update", q, max))
    /\ UNCHANGED <<apiVars, queueByName, step, nominated>>

RemoveQueue(q) ==
    /\ Disrupt("queueLifecycle")
    /\ q \in DOMAIN queues
    /\ WriteQueues([x \in DOMAIN queues \ {q} |-> queues[x]], QueueCall("delete", q, queues[q]))
    /\ UNCHANGED <<apiVars, queueByName, step, nominated>>

-----------------------------------------------------------------------------
(* The informers lose their watch and recover by listing.                  *)

WatchDown ==
    /\ Disrupt("watchLoss")
    /\ watchUp
    /\ watchUp' = FALSE
    /\ UNCHANGED <<pods, podStore, podCalls, queueVars, queueByName, step, nominated>>

Stale == {p \in Pods : podStore[p] # pods[p]}

\* One call per pod, in the order given.  The list also re-delivers the pods
\* that did not change; the handlers ignore those.
RelistCalls(order) ==
    [i \in DOMAIN order |-> CallsFor(podStore[order[i]], pods[order[i]], "tombstone")[1]]

Relist ==
    /\ ~watchUp
    /\ \E order \in Orders({p \in Stale : FilterFunc(podStore[p]) \/ FilterFunc(pods[p])}) :
           podCalls' = podCalls \o RelistCalls(order)
    /\ podStore' = pods
    /\ watchUp' = TRUE
    /\ UNCHANGED <<pods, queueVars, queueByName, step, nominated, disruptions>>

QueueWatchDown ==
    /\ Disrupt("queueWatchLoss")
    /\ queueWatchUp
    /\ queueWatchUp' = FALSE
    /\ UNCHANGED <<apiVars, queues, queueStore, queueCalls, queueByName, step, nominated>>

QueueRelistCall(q) ==
    IF q \notin DOMAIN queues THEN QueueCall("tombstone", q, queueStore[q])
    ELSE IF q \in DOMAIN queueStore THEN QueueCall("update", q, queues[q])
    ELSE QueueCall("add", q, queues[q])

QueueRelist ==
    /\ ~queueWatchUp
    /\ \E order \in Orders(DOMAIN queueStore \cup DOMAIN queues) :
           queueCalls' = queueCalls \o [i \in DOMAIN order |-> QueueRelistCall(order[i])]
    /\ queueStore' = queues
    /\ queueWatchUp' = TRUE
    /\ UNCHANGED <<apiVars, queues, queueByName, step, nominated, disruptions>>

-----------------------------------------------------------------------------
(* The Synchronizer's handlers.                                            *)

\* The call at the head of a goroutine's queue is of this kind.
Handle(calls, kind) ==
    /\ calls # <<>>
    /\ Head(calls).call = kind

\* Mutant of addPod: waits for Reserve to count the pod.
addPodIgnored ==
    /\ Handle(podCalls, "add")
    /\ podCalls' = Tail(podCalls)
    /\ UNCHANGED <<pods, podStore, watchUp, queueVars, queueByName, step, nominated, disruptions>>

addPod ==
    /\ Handle(podCalls, "add")
    /\ queueByName' = AddPod(queueByName, Head(podCalls).pod)
    /\ podCalls' = Tail(podCalls)
    /\ UNCHANGED <<pods, podStore, watchUp, queueVars, step, nominated, disruptions>>

\* Mutant of updatePod: the test on the old phase is made on the new one.
updatePodNewPhase ==
    /\ Handle(podCalls, "update")
    /\ queueByName' =
          IF IsTerminal(Head(podCalls).pod) \/ IsNonTerminal(Head(podCalls).pod)
          THEN queueByName
          ELSE DeletePod(queueByName, Head(podCalls).pod)
    /\ podCalls' = Tail(podCalls)
    /\ UNCHANGED <<pods, podStore, watchUp, queueVars, step, nominated, disruptions>>

updatePod ==
    /\ Handle(podCalls, "update")
    /\ queueByName' =
          IF IsTerminal(Head(podCalls).old) \/ IsNonTerminal(Head(podCalls).pod)
          THEN queueByName
          ELSE DeletePod(queueByName, Head(podCalls).pod)
    /\ podCalls' = Tail(podCalls)
    /\ UNCHANGED <<pods, podStore, watchUp, queueVars, step, nominated, disruptions>>

deletePod ==
    /\ Handle(podCalls, "delete")
    /\ queueByName' = DeletePod(queueByName, Head(podCalls).pod)
    /\ podCalls' = Tail(podCalls)
    /\ UNCHANGED <<pods, podStore, watchUp, queueVars, step, nominated, disruptions>>

\* A DeletedFinalStateUnknown is no *corev1.Pod: the type assertion leaves a
\* nil pod, which the manager ignores.
deletePodTombstone ==
    /\ Handle(podCalls, "tombstone")
    /\ podCalls' = Tail(podCalls)
    /\ UNCHANGED <<pods, podStore, watchUp, queueVars, queueByName, step, nominated, disruptions>>

addQueue ==
    /\ Handle(queueCalls, "add")
    /\ queueByName' = Put(queueByName, Head(queueCalls).queue, Head(queueCalls).max)
    /\ queueCalls' = Tail(queueCalls)
    /\ UNCHANGED <<apiVars, queueApiVars, step, nominated, disruptions>>

updateQueue ==
    /\ Handle(queueCalls, "update")
    /\ queueByName' = Update(queueByName, Head(queueCalls).queue, Head(queueCalls).max)
    /\ queueCalls' = Tail(queueCalls)
    /\ UNCHANGED <<apiVars, queueApiVars, step, nominated, disruptions>>

deleteQueue ==
    /\ Handle(queueCalls, "delete")
    /\ queueByName' = Delete(queueByName, Head(queueCalls).queue)
    /\ queueCalls' = Tail(queueCalls)
    /\ UNCHANGED <<apiVars, queueApiVars, step, nominated, disruptions>>

-----------------------------------------------------------------------------
(* The scheduler.  One scheduling cycle runs at a time; the binding cycles *)
(* that follow it run concurrently.                                        *)

Idle == \A p \in Pods : step[p] # "filtered"

\* The scheduler still has p to schedule, as far as its cache knows.
Schedulable(p) ==
    /\ p \notin ForeignPods
    /\ step[p] = "queued"
    /\ podStore[p].life = "live" /\ ~podStore[p].bound

\* Pods with a nominated node that PreFilter lets go ahead of p.
NominatedAhead(p) ==
    {o \in nominated \ {p} : Priority[o] >= Priority[p] /\ QueueOf[o] = QueueOf[p]}

\* The snapshot of p's quota with the nominated pods counted in.
Snapshot(p) ==
    AddPodsIfNotPresent(queueByName[QueueOf[p]],
                        [o \in NominatedAhead(p) |-> InitialReq[o]])

\* No quota applies to a pod without a queue, or whose queue is unknown.
FitsQuota(p) ==
    HasQueue(queueByName, Fresh(p)) =>
        ~WouldPutOverMax(Snapshot(p), FromPodReq(InitialReq[p]))

PreFilter(p) ==
    /\ Idle
    /\ Schedulable(p)
    /\ FitsQuota(p)
    /\ step' = [step EXCEPT ![p] = "filtered"]
    /\ UNCHANGED <<apiVars, queueVars, queueByName, nominated, disruptions>>

\* No node fits: the cycle ends without a reservation.
Unschedulable(p) ==
    /\ step[p] = "filtered"
    /\ step' = [step EXCEPT ![p] = "queued"]
    /\ UNCHANGED <<apiVars, queueVars, queueByName, nominated, disruptions>>

\* Mutant of Reserve: leaves counting to the informer.
ReserveNothing(p) ==
    /\ step[p] = "filtered"
    /\ ~AddPodFails(queueByName, Fresh(p))
    /\ step' = [step EXCEPT ![p] = "binding"]
    /\ nominated' = nominated \ {p}
    /\ UNCHANGED <<apiVars, queueVars, queueByName, disruptions>>

\* Assuming the pod drops its nomination.  Reserve does not check the quota
\* again.
Reserve(p) ==
    /\ step[p] = "filtered"
    /\ ~AddPodFails(queueByName, Fresh(p))
    /\ queueByName' = AddPod(queueByName, Fresh(p))
    /\ step' = [step EXCEPT ![p] = "binding"]
    /\ nominated' = nominated \ {p}
    /\ UNCHANGED <<apiVars, queueVars, disruptions>>

\* Reserve's error return: the framework then calls Unreserve.
ReserveFails(p) ==
    /\ step[p] = "filtered"
    /\ AddPodFails(queueByName, Fresh(p))
    /\ queueByName' = DeletePod(queueByName, Fresh(p))
    /\ step' = [step EXCEPT ![p] = "queued"]
    /\ UNCHANGED <<apiVars, queueVars, nominated, disruptions>>

Bind(p) ==
    /\ step[p] = "binding"
    /\ Live(p) /\ ~pods[p].bound
    /\ Write(p, [pods[p] EXCEPT !.bound = TRUE])
    /\ step' = [step EXCEPT ![p] = "done"]
    /\ UNCHANGED <<queueVars, queueByName, nominated, disruptions>>

\* The API server binds the pod but the answer does not arrive: the binding
\* cycle takes it for a failure.
BindUnanswered(p) ==
    /\ Disrupt("lateBind")
    /\ step[p] = "binding"
    /\ Live(p) /\ ~pods[p].bound
    /\ Write(p, [pods[p] EXCEPT !.bound = TRUE])
    /\ UNCHANGED <<queueVars, queueByName, step, nominated>>

\* Mutant of Unreserve: releases nothing.
UnreserveNothing(p) ==
    /\ step[p] = "binding"
    /\ step' = [step EXCEPT ![p] = "queued"]
    /\ UNCHANGED <<apiVars, queueVars, queueByName, nominated, disruptions>>

Unreserve(p) ==
    /\ step[p] = "binding"
    /\ queueByName' = DeletePod(queueByName, Fresh(p))
    /\ step' = [step EXCEPT ![p] = "queued"]
    /\ UNCHANGED <<apiVars, queueVars, nominated, disruptions>>

\* PostFilter found room by preemption for a pod that did not fit.
Nominate(p) ==
    /\ Idle
    /\ Schedulable(p)
    /\ QueueOf[p] # NoLabel
    /\ p \notin nominated
    /\ nominated' = nominated \cup {p}
    /\ UNCHANGED <<apiVars, queueVars, queueByName, step, disruptions>>

\* The preemption of a more important pod takes the nominated node away.
ClearNomination(p) ==
    /\ Idle
    /\ p \in nominated
    /\ nominated' = nominated \ {p}
    /\ UNCHANGED <<apiVars, queueVars, queueByName, step, disruptions>>

-----------------------------------------------------------------------------
(* The process ends and is started again.                                  *)

\* A new process starts empty: both informers list, and their first calls
\* wait for two different goroutines.
NewProcess ==
    /\ queueByName' = NewManager
    /\ podStore' = pods
    /\ watchUp' = TRUE
    /\ \E order \in Orders({p \in Pods : FilterFunc(pods[p])}) :
           podCalls' = [i \in DOMAIN order |->
                           [call |-> "add", old |-> pods[order[i]], pod |-> pods[order[i]]]]
    /\ queueStore' = queues
    /\ queueWatchUp' = TRUE
    /\ \E order \in Orders(DOMAIN queues) :
           queueCalls' = [i \in DOMAIN order |-> QueueCall("add", order[i], queues[order[i]])]
    /\ step' = [p \in Pods |-> "queued"]
    /\ UNCHANGED <<pods, queues, nominated>>

Restart == Disrupt("restart") /\ NewProcess

\* Mutant of deleteQueueTombstone: ignored, as deletePod ignores one.
deleteQueueTombstoneIgnored ==
    /\ Handle(queueCalls, "tombstone")
    /\ queueCalls' = Tail(queueCalls)
    /\ UNCHANGED <<apiVars, queueApiVars, queueByName, step, nominated, disruptions>>

\* The failed type assertion leaves a nil queue, whose name is then read: the
\* handler panics and takes the process down.
deleteQueueTombstone ==
    /\ Handle(queueCalls, "tombstone")
    /\ NewProcess
    /\ UNCHANGED disruptions

\* A process that has been up for a while, before the first pod: the queues
\* of InitialMax have been handled.
Init ==
    /\ pods = [p \in Pods |-> [Fresh(p) EXCEPT !.life = "new"]]
    /\ podStore = pods
    /\ watchUp = TRUE
    /\ podCalls = <<>>
    /\ queues = InitialMax /\ queueStore = queues
    /\ queueWatchUp = TRUE
    /\ queueCalls = <<>>
    /\ queueByName = [q \in DOMAIN InitialMax |-> NewQueue(InitialMax[q])]
    /\ step = [p \in Pods |-> "queued"]
    /\ nominated = {}
    /\ disruptions = 0

PodHandlers == addPod \/ updatePod \/ deletePod \/ deletePodTombstone
QueueHandlers == addQueue \/ updateQueue \/ deleteQueue \/ deleteQueueTombstone
SchedulingCycle(p) == Unschedulable(p) \/ Reserve(p) \/ ReserveFails(p)
BindingCycle(p) == Bind(p) \/ Unreserve(p)

Next ==
    \/ \E p \in Pods :
        \/ CreatePod(p) \/ RemovePod(p) \/ FinishPod(p) \/ ForeignBind(p)
        \/ ResizePod(p)
        \/ PreFilter(p) \/ SchedulingCycle(p)
        \/ BindingCycle(p) \/ BindUnanswered(p)
        \/ Nominate(p) \/ ClearNomination(p)
    \/ \E q \in Queues :
        \/ \E max \in Maxes : CreateQueue(q, max) \/ ChangeQueue(q, max)
        \/ RemoveQueue(q)
    \/ WatchDown \/ Relist \/ QueueWatchDown \/ QueueRelist
    \/ PodHandlers \/ QueueHandlers
    \/ Restart

Spec == Init /\ [][Next]_vars

-----------------------------------------------------------------------------
(* Fairness: handlers run, started cycles end, a broken watch is retried.  *)
(* Nothing is assumed of users, kubelets, other schedulers or the order in *)
(* which the scheduler picks pods.                                         *)
Fairness ==
    /\ WF_vars(PodHandlers)
    /\ WF_vars(QueueHandlers)
    /\ WF_vars(Relist) /\ WF_vars(QueueRelist)
    /\ \A p \in Pods : WF_vars(SchedulingCycle(p)) /\ WF_vars(BindingCycle(p))

FairSpec == Spec /\ Fairness
-----------------------------------------------------------------------------
(* Properties.                                                             *)

\* The requests pod p may be seen with.
Reqs(p) == {InitialReq[p]} \cup (IF "resize" \in Disruptions THEN {ResizedReq[p]} ELSE {})

PodObjects(p) ==
    [uid : {p}, queue : {QueueOf[p]}, req : Reqs(p),
     life : {"new", "live", "gone"}, bound : BOOLEAN, phase : Phases]

PodCalls ==
    UNION {[call : {"add", "update", "delete", "tombstone"},
            old : PodObjects(p), pod : PodObjects(p)] : p \in Pods}

QueueCalls == [call : {"add", "update", "delete", "tombstone"}, queue : Queues, max : Maxes]

\* The quota of queue q: only pods labelled q contribute to it.
QuotaTypeOK(quota, q) ==
    /\ quota = [max |-> quota.max, used |-> quota.used, podsByID |-> quota.podsByID]
    /\ quota.max \in Maxes
    /\ IsResources(quota.used)
    /\ \A u \in DOMAIN quota.podsByID :
          u \in Pods /\ QueueOf[u] = q /\ quota.podsByID[u] \in Reqs(u)

ManagerTypeOK(qm) ==
    /\ DOMAIN qm \subseteq Queues
    /\ \A q \in DOMAIN qm : QuotaTypeOK(qm[q], q)

\* Type invariant: objects sit under their own UID and label, both objects of
\* a call are of one pod, and a ledger names only pods of its own queue.
TypeOK ==
    /\ DOMAIN pods = Pods /\ \A p \in Pods : pods[p] \in PodObjects(p)
    /\ DOMAIN podStore = Pods /\ \A p \in Pods : podStore[p] \in PodObjects(p)
    /\ watchUp \in BOOLEAN
    /\ podCalls \in Seq(PodCalls)
    /\ DOMAIN queues \subseteq Queues /\ \A q \in DOMAIN queues : queues[q] \in Maxes
    /\ DOMAIN queueStore \subseteq Queues /\ \A q \in DOMAIN queueStore : queueStore[q] \in Maxes
    /\ queueWatchUp \in BOOLEAN
    /\ queueCalls \in Seq(QueueCalls)
    /\ ManagerTypeOK(queueByName)
    /\ step \in [Pods -> {"queued", "filtered", "binding", "done"}]
    /\ nominated \subseteq Pods
    /\ disruptions \in 0..MaxDisruptions

\* p is on the ledger of its queue.
Counted(p) ==
    /\ QueueOf[p] \in DOMAIN queueByName
    /\ p \in DOMAIN queueByName[QueueOf[p]].podsByID

\* p holds resources of the cluster.
Occupies(p) == Live(p) /\ pods[p].bound /\ pods[p].phase # "Terminal"

\* The used total of every queue (quota.go: "Used is the used resources") is
\* exactly what the pods on its ledger requested, whatever order reservations,
\* informer calls, queue changes and restarts come in.
LedgerExact == \A q \in DOMAIN queueByName : Exact(queueByName[q])

\* Check-then-act: the quota check a pod passed in PreFilter still holds,
\* nominated pods included, for as long as its scheduling cycle is on its way
\* to Reserve, which does not check again.
FilteredStillFits == \A p \in Pods : step[p] = "filtered" => FitsQuota(p)

\* A pod this scheduler bound is on the ledger for as long as it runs, in
\* particular between Bind and the arrival of the informer's add.
OwnPodsCounted ==
    \A p \in Pods \ ForeignPods :
        Occupies(p) /\ HasQueue(queueByName, pods[p]) => Counted(p)

OccupantReqs(q) == [p \in {o \in Pods : Occupies(o) /\ QueueOf[o] = q} |-> pods[p].req]

\* README: "the sum of pods in that queue cannot exceed quota", about the pods
\* and queues at the API server, not about the scheduler's books.
BoundWithinMax ==
    \A q \in DOMAIN queues : \A n \in DOMAIN queues[q] \cap RequestNames(OccupantReqs(q)) :
        Requested(OccupantReqs(q), n) <= queues[q][n]

\* With the queue watch up and its calls handled, the manager has exactly the
\* queues of the API server, each with its maximum, whatever happened to the
\* queues while the watch was down.
QueuesInSync ==
    queueCalls = <<>> /\ queueWatchUp =>
        /\ DOMAIN queueByName = DOMAIN queues
        /\ \A q \in DOMAIN queues : queueByName[q].max = queues[q]

\* Every call handled, no cycle under way, the watches up.
Settled ==
    /\ podCalls = <<>> /\ queueCalls = <<>> /\ watchUp /\ queueWatchUp
    /\ \A p \in Pods : step[p] \in {"queued", "done"}

\* Once settled, the ledgers hold no pod that holds no resources.
NoPhantom == Settled => \A p \in Pods : Counted(p) => Occupies(p)

\* Once settled, the ledgers hold no pod that does not exist any more: the
\* deletion of a pod gives back its quota, seen by the watch or not.
DeletedReleased == Settled => \A p \in Pods : Counted(p) => Live(p)

\* Once settled, the ledgers miss no pod of a known queue.
NothingMissed ==
    Settled => \A p \in Pods :
        Occupies(p) /\ HasQueue(queueByName, pods[p]) => Counted(p)

\* synchronizer.go: "Synchronizer keeps the queue manager in sync with the
\* cluster."
InSync == NoPhantom /\ NothingMissed

Departed(p) == pods[p].life = "gone" \/ pods[p].phase = "Terminal"

\* What a finished or deleted pod held goes back to its queue and stays
\* there, also when the pod is deleted in the middle of its binding cycle.
DepartedLeaveLedger == \A p \in Pods : Departed(p) ~> [](~Counted(p))

\* A pod any scheduler binds in a known queue gets on the ledger, or departs.
BoundGetCounted ==
    \A p \in Pods :
        Occupies(p) /\ QueueOf[p] \in DOMAIN queueByName ~> Counted(p) \/ Departed(p)
=============================================================================
