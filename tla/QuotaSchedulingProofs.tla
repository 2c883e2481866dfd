------------------------ MODULE QuotaSchedulingProofs ------------------------
(***************************************************************************)
(* Safety theorems about QuotaScheduling, for any pods, queues, requests   *)
(* and quotas, and whatever disrupts the scheduler: types, exact ledgers   *)
(* and queues that follow the cluster.                                     *)
(***************************************************************************)
EXTENDS QuotaScheduling, QuotaProofs, SequenceTheorems

-----------------------------------------------------------------------------
(* Pod objects and calls.                                                  *)

\* Whatever request a pod is seen with, its quantities are natural numbers.
LEMMA ReqsAreRequests ==
    ASSUME NEW p \in Pods, NEW r \in Reqs(p)
    PROVE  IsReq(r)
  BY RequestsAssumption DEF Reqs, IsReq, IsRequest

\* A created pod is an object of its own UID.
LEMMA FreshType ==
    ASSUME NEW p \in Pods
    PROVE  Fresh(p) \in PodObjects(p)
  BY DEF Fresh, PodObjects, Reqs, Phases

\* The writes of the cluster and of Bind keep an object well formed.
LEMMA EditType ==
    ASSUME NEW p \in Pods, NEW o \in PodObjects(p)
    PROVE  /\ \A v \in {"new", "live", "gone"} : [o EXCEPT !.life = v] \in PodObjects(p)
           /\ \A v \in Phases : [o EXCEPT !.phase = v] \in PodObjects(p)
           /\ \A v \in Reqs(p) : [o EXCEPT !.req = v] \in PodObjects(p)
           /\ [o EXCEPT !.bound = TRUE] \in PodObjects(p)
  <1>1. \A v \in {"new", "live", "gone"} : [o EXCEPT !.life = v] \in PodObjects(p)
    BY DEF PodObjects
  <1>2. \A v \in Phases : [o EXCEPT !.phase = v] \in PodObjects(p)
    BY DEF PodObjects
  <1>3. \A v \in Reqs(p) : [o EXCEPT !.req = v] \in PodObjects(p)
    BY DEF PodObjects
  <1>4. [o EXCEPT !.bound = TRUE] \in PodObjects(p)
    BY DEF PodObjects
  <1> QED
    BY <1>1, <1>2, <1>3, <1>4

\* What the informer makes of a change is at most one well-formed call.
LEMMA CallsForType ==
    ASSUME NEW p \in Pods, NEW old \in PodObjects(p), NEW new \in PodObjects(p),
           NEW kind \in {"delete", "tombstone"}
    PROVE  CallsFor(old, new, kind) \in Seq(PodCalls)
  <1>1. ASSUME NEW c \in {"add", "update", "delete", "tombstone"}, NEW o \in PodObjects(p)
        PROVE  <<[call |-> c, old |-> old, pod |-> o]>> \in Seq(PodCalls)
    BY DEF PodCalls
  <1> QED
    BY <1>1 DEF CallsFor

\* A write at the API server keeps the API, the cache and the calls typed.
LEMMA WriteType ==
    ASSUME TypeOK, NEW p \in Pods, NEW new \in PodObjects(p), Write(p, new)
    PROVE  /\ DOMAIN pods' = Pods /\ \A x \in Pods : pods'[x] \in PodObjects(x)
           /\ DOMAIN podStore' = Pods /\ \A x \in Pods : podStore'[x] \in PodObjects(x)
           /\ watchUp' \in BOOLEAN
           /\ podCalls' \in Seq(PodCalls)
  <1>1. DOMAIN pods' = Pods /\ \A x \in Pods : pods'[x] \in PodObjects(x)
    BY DEF TypeOK, Write
  <1>2. DOMAIN podStore' = Pods /\ \A x \in Pods : podStore'[x] \in PodObjects(x)
    BY DEF TypeOK, Write
  <1>3. podCalls' \in Seq(PodCalls)
    <2>1. CallsFor(podStore[p], new, "delete") \in Seq(PodCalls)
      BY CallsForType DEF TypeOK
    <2>2. podCalls \in Seq(PodCalls)
      BY DEF TypeOK
    <2>3. podCalls \o CallsFor(podStore[p], new, "delete") \in Seq(PodCalls)
      BY <2>1, <2>2
    <2>4. podCalls' = podCalls \o CallsFor(podStore[p], new, "delete") \/ podCalls' = podCalls
      BY DEF Write
    <2> QED
      BY <2>2, <2>3, <2>4
  <1> QED
    BY <1>1, <1>2, <1>3 DEF TypeOK, Write

-----------------------------------------------------------------------------
(* The manager's operations.                                               *)

\* A fresh queue is well typed.
LEMMA NewQueueType ==
    ASSUME NEW q \in Queues, NEW max \in Maxes
    PROVE  QuotaTypeOK(NewQueue(max), q)
  <1>1. NewQueue(max) = [max |-> max, used |-> NoResources, podsByID |-> [u \in {} |-> NoResources]]
    BY DEF NewQueue, SetMax, NewQuota
  <1> QED
    BY <1>1 DEF QuotaTypeOK, IsResources, NoResources

\* Put, Update and Delete keep the manager well typed.
LEMMA PutType ==
    ASSUME NEW qm, ManagerTypeOK(qm), NEW q \in Queues, NEW max \in Maxes
    PROVE  ManagerTypeOK(Put(qm, q, max))
  <1>1. QuotaTypeOK(NewQueue(max), q)
    BY NewQueueType
  <1> QED
    BY <1>1 DEF ManagerTypeOK, Put

\* As PutType.
LEMMA UpdateType ==
    ASSUME NEW qm, ManagerTypeOK(qm), NEW q \in Queues, NEW max \in Maxes
    PROVE  ManagerTypeOK(Update(qm, q, max))
  <1>1. CASE q \notin DOMAIN qm
    BY <1>1, PutType DEF Update
  <1>2. CASE q \in DOMAIN qm
    <2>1. QuotaTypeOK(qm[q], q)
      BY <1>2 DEF ManagerTypeOK
    <2>2. SetMax(qm[q], max) = [max |-> max, used |-> qm[q].used, podsByID |-> qm[q].podsByID]
      BY <2>1 DEF SetMax, QuotaTypeOK
    <2>3. QuotaTypeOK(SetMax(qm[q], max), q)
      BY <2>1, <2>2 DEF QuotaTypeOK
    <2>4. Update(qm, q, max) = [qm EXCEPT ![q] = SetMax(qm[q], max)]
      BY <1>2 DEF Update
    <2> QED
      BY <2>3, <2>4 DEF ManagerTypeOK
  <1> QED
    BY <1>1, <1>2

\* As PutType.
LEMMA DeleteType ==
    ASSUME NEW qm, ManagerTypeOK(qm), NEW q
    PROVE  ManagerTypeOK(Delete(qm, q))
  BY DEF ManagerTypeOK, Delete

\* The used total stays a total of integers.
LEMMA AddSubType ==
    ASSUME NEW r, IsResources(r), NEW req, IsReq(req)
    PROVE  /\ IsResources(Add(r, FromPodReq(req)))
           /\ IsResources(Sub(r, FromPodReq(req)))
  <1>1. \A n : Qty(FromPodReq(req), n) \in Nat
    BY QtyOfRequest
  <1>2. \A n \in DOMAIN FromPodReq(req) : FromPodReq(req)[n] \in Nat
    BY <1>1 DEF Qty
  <1> QED
    BY <1>1, <1>2 DEF IsResources, Add, Sub, getResNames

\* AddPodIfNotPresent of a pod object keeps the manager well typed.
LEMMA AddPodType ==
    ASSUME NEW qm, ManagerTypeOK(qm), NEW p \in Pods, NEW o \in PodObjects(p)
    PROVE  ManagerTypeOK(AddPod(qm, o))
  <1> DEFINE q == QueueOf[p]
  <1>1. o.uid = p /\ o.queue = q /\ o.req \in Reqs(p)
    BY DEF PodObjects
  <1>2. CASE q \notin DOMAIN qm
    BY <1>1, <1>2 DEF AddPod, HasQueue
  <1>3. CASE q \in DOMAIN qm
    <2>1. QuotaTypeOK(qm[q], q)
      BY <1>3 DEF ManagerTypeOK
    <2>2. AddPod(qm, o) = [qm EXCEPT ![q] = AddPodIfNotPresent(qm[q], o)]
      BY <1>1, <1>3 DEF AddPod, HasQueue
    <2>3. QuotaTypeOK(AddPodIfNotPresent(qm[q], o), q)
      <3>1. CASE p \in DOMAIN qm[q].podsByID
        BY <3>1, <1>1, <2>1 DEF AddPodIfNotPresent, ContainsPod
      <3>2. CASE p \notin DOMAIN qm[q].podsByID
        <4>1. AddPodIfNotPresent(qm[q], o) =
                 [max |-> qm[q].max, used |-> Add(qm[q].used, FromPodReq(o.req)),
                  podsByID |-> MapSet(qm[q].podsByID, p, o.req)]
          BY <3>2, <1>1, <2>1 DEF AddPodIfNotPresent, ContainsPod, QuotaTypeOK
        <4>2. IsResources(Add(qm[q].used, FromPodReq(o.req)))
          BY <1>1, <2>1, ReqsAreRequests, AddSubType DEF QuotaTypeOK
        <4> QED
          BY <4>1, <4>2, <1>1, <2>1 DEF QuotaTypeOK, MapSet
      <3> QED
        BY <3>1, <3>2
    <2> QED
      BY <2>2, <2>3 DEF ManagerTypeOK
  <1> QED
    BY <1>2, <1>3

\* So does DeletePodIfPresent.
LEMMA DeletePodType ==
    ASSUME NEW qm, ManagerTypeOK(qm), NEW p \in Pods, NEW o \in PodObjects(p)
    PROVE  ManagerTypeOK(DeletePod(qm, o))
  <1> DEFINE q == QueueOf[p]
  <1>1. o.uid = p /\ o.queue = q /\ o.req \in Reqs(p)
    BY DEF PodObjects
  <1>2. CASE q \notin DOMAIN qm
    BY <1>1, <1>2 DEF DeletePod, HasQueue
  <1>3. CASE q \in DOMAIN qm
    <2>1. QuotaTypeOK(qm[q], q)
      BY <1>3 DEF ManagerTypeOK
    <2>2. DeletePod(qm, o) = [qm EXCEPT ![q] = DeletePodIfPresent(qm[q], o)]
      BY <1>1, <1>3 DEF DeletePod, HasQueue
    <2>3. QuotaTypeOK(DeletePodIfPresent(qm[q], o), q)
      <3>1. CASE p \notin DOMAIN qm[q].podsByID
        BY <3>1, <1>1, <2>1 DEF DeletePodIfPresent, ContainsPod
      <3>2. CASE p \in DOMAIN qm[q].podsByID
        <4>1. DeletePodIfPresent(qm[q], o) =
                 [max |-> qm[q].max, used |-> Sub(qm[q].used, FromPodReq(o.req)),
                  podsByID |-> MapDelete(qm[q].podsByID, p)]
          BY <3>2, <1>1, <2>1 DEF DeletePodIfPresent, ContainsPod, QuotaTypeOK
        <4>2. IsResources(Sub(qm[q].used, FromPodReq(o.req)))
          BY <1>1, <2>1, ReqsAreRequests, AddSubType DEF QuotaTypeOK
        <4> QED
          BY <4>1, <4>2, <1>1, <2>1 DEF QuotaTypeOK, MapDelete
      <3> QED
        BY <3>1, <3>2
    <2> QED
      BY <2>2, <2>3 DEF ManagerTypeOK
  <1> QED
    BY <1>2, <1>3

-----------------------------------------------------------------------------
(* Type correctness.                                                       *)

\* A list delivers each of finitely many objects once: a sequence.
LEMMA OrdersType ==
    ASSUME NEW S, IsFiniteSet(S), NEW order \in Orders(S)
    PROVE  order \in Seq(S)
  <1>1. Cardinality(S) \in Nat
    BY FS_CardinalityType
  <1> QED
    BY <1>1 DEF Orders

\* A relist makes well-formed calls.
LEMMA RelistCallsType ==
    ASSUME TypeOK,
           NEW S \in SUBSET Pods,
           \A p \in S : FilterFunc(podStore[p]) \/ FilterFunc(pods[p]),
           NEW order \in Orders(S)
    PROVE  RelistCalls(order) \in Seq(PodCalls)
  <1>1. order \in Seq(S)
    BY PodsAssumption, FS_Subset, OrdersType
  <1>2. ASSUME NEW p \in S
        PROVE  CallsFor(podStore[p], pods[p], "tombstone")[1] \in PodCalls
    <2>1. podStore[p] \in PodObjects(p) /\ pods[p] \in PodObjects(p)
      BY DEF TypeOK
    <2>2. \A c \in {"add", "update", "delete", "tombstone"}, o \in PodObjects(p) :
            [call |-> c, old |-> podStore[p], pod |-> o] \in PodCalls
      BY <2>1 DEF PodCalls
    <2> QED
      BY <2>1, <2>2 DEF CallsFor
  <1>3. \A i \in DOMAIN order : CallsFor(podStore[order[i]], pods[order[i]], "tombstone")[1] \in PodCalls
    BY <1>1, <1>2
  <1> QED
    BY <1>1, <1>3 DEF RelistCalls

\* The object of the next pod call belongs to one pod, and the rest of the
\* calls stay typed.
LEMMA PodCallsHead ==
    ASSUME TypeOK, podCalls # <<>>
    PROVE  /\ Tail(podCalls) \in Seq(PodCalls)
           /\ \E p \in Pods : Head(podCalls).pod \in PodObjects(p)
  <1>1. Tail(podCalls) \in Seq(PodCalls) /\ Head(podCalls) \in PodCalls
    BY DEF TypeOK
  <1> QED
    BY <1>1 DEF PodCalls

\* As PodCallsHead, for the queue handlers.
LEMMA QueueCallsHead ==
    ASSUME TypeOK, queueCalls # <<>>
    PROVE  /\ Tail(queueCalls) \in Seq(QueueCalls)
           /\ Head(queueCalls).queue \in Queues
           /\ Head(queueCalls).max \in Maxes
  <1>1. Tail(queueCalls) \in Seq(QueueCalls) /\ Head(queueCalls) \in QueueCalls
    BY DEF TypeOK
  <1> QED
    BY <1>1 DEF QueueCalls

\* A write to the queues keeps them, the cache and the calls typed.
LEMMA WriteQueuesType ==
    ASSUME TypeOK, NEW new, DOMAIN new \subseteq Queues, \A q \in DOMAIN new : new[q] \in Maxes,
           NEW call \in QueueCalls, WriteQueues(new, call)
    PROVE  /\ DOMAIN queues' \subseteq Queues /\ \A q \in DOMAIN queues' : queues'[q] \in Maxes
           /\ DOMAIN queueStore' \subseteq Queues
           /\ \A q \in DOMAIN queueStore' : queueStore'[q] \in Maxes
           /\ queueWatchUp' \in BOOLEAN
           /\ queueCalls' \in Seq(QueueCalls)
  <1>1. queueCalls \in Seq(QueueCalls) /\ Append(queueCalls, call) \in Seq(QueueCalls)
    BY DEF TypeOK
  <1>2. queueCalls' \in Seq(QueueCalls)
    BY <1>1 DEF WriteQueues
  <1> QED
    BY <1>2 DEF WriteQueues, TypeOK

\* A new process starts well typed.
LEMMA NewProcessType ==
    ASSUME TypeOK, NewProcess, disruptions' \in 0..MaxDisruptions
    PROVE  TypeOK'
  <1>1. ManagerTypeOK(queueByName')
    BY DEF NewProcess, NewManager, ManagerTypeOK
  <1>2. podCalls' \in Seq(PodCalls)
    <2>1. PICK order \in Orders({p \in Pods : FilterFunc(pods[p])}) :
            podCalls' = [i \in DOMAIN order |->
                           [call |-> "add", old |-> pods[order[i]], pod |-> pods[order[i]]]]
      BY DEF NewProcess
    <2>2. order \in Seq({p \in Pods : FilterFunc(pods[p])})
      BY PodsAssumption, FS_Subset, OrdersType
    <2>3. \A p \in Pods : [call |-> "add", old |-> pods[p], pod |-> pods[p]] \in PodCalls
      BY DEF TypeOK, PodCalls
    <2> QED
      BY <2>1, <2>2, <2>3
  <1>3. queueCalls' \in Seq(QueueCalls)
    <2>1. PICK order \in Orders(DOMAIN queues) :
            queueCalls' = [i \in DOMAIN order |-> QueueCall("add", order[i], queues[order[i]])]
      BY DEF NewProcess
    <2>2. order \in Seq(DOMAIN queues)
      BY PodsAssumption, FS_Subset, OrdersType DEF TypeOK
    <2>3. \A q \in DOMAIN queues : QueueCall("add", q, queues[q]) \in QueueCalls
      BY DEF TypeOK, QueueCall, QueueCalls
    <2> QED
      BY <2>1, <2>2, <2>3
  <1> QED
    BY <1>1, <1>2, <1>3 DEF NewProcess, TypeOK

\* Every state is well typed at the start.
LEMMA InitType == Init => TypeOK
  <1> SUFFICES ASSUME Init PROVE TypeOK
    OBVIOUS
  <1>1. \A p \in Pods : pods[p] \in PodObjects(p)
    BY FreshType, EditType DEF Init
  <1>2. ManagerTypeOK(queueByName)
    BY MaxesAssumption, NewQueueType DEF Init, ManagerTypeOK
  <1>3. podCalls \in Seq(PodCalls) /\ queueCalls \in Seq(QueueCalls)
    BY DEF Init
  <1>4. disruptions \in 0..MaxDisruptions
    BY DisruptionsAssumption DEF Init
  <1>5. DOMAIN pods = Pods /\ podStore = pods /\ watchUp = TRUE
        /\ step \in [Pods -> {"queued", "filtered", "binding", "done"}]
        /\ nominated = {} /\ queues = InitialMax /\ queueStore = queues /\ queueWatchUp = TRUE
    BY DEF Init
  <1> QED
    BY <1>1, <1>2, <1>3, <1>4, <1>5, MaxesAssumption DEF TypeOK

\* Every step of the system keeps the state well typed.
LEMMA NextType == TypeOK /\ [Next]_vars => TypeOK'
  <1> SUFFICES ASSUME TypeOK, [Next]_vars PROVE TypeOK'
    OBVIOUS
  <1> USE DEF apiVars, queueVars, queueApiVars
  <1>0. \A kind : Disrupt(kind) => disruptions' \in 0..MaxDisruptions
    BY DisruptionsAssumption DEF TypeOK, Disrupt
  <1>1. ASSUME NEW p \in Pods, CreatePod(p) PROVE TypeOK'
    BY <1>1, WriteType, FreshType DEF CreatePod, TypeOK
  <1>2. ASSUME NEW p \in Pods, RemovePod(p) PROVE TypeOK'
    <2> DEFINE new == [pods[p] EXCEPT !.life = "gone"]
    <2>1. new \in PodObjects(p)
      BY EditType DEF TypeOK
    <2>2. Write(p, new)
      BY <1>2 DEF RemovePod
    <2> HIDE DEF new
    <2> QED
      BY <1>2, <2>1, <2>2, WriteType DEF RemovePod, TypeOK
  <1>3. ASSUME NEW p \in Pods, FinishPod(p) PROVE TypeOK'
    <2> DEFINE new == [pods[p] EXCEPT !.phase = "Terminal"]
    <2>1. new \in PodObjects(p)
      BY EditType DEF TypeOK, Phases
    <2>2. Write(p, new)
      BY <1>3 DEF FinishPod
    <2> HIDE DEF new
    <2> QED
      BY <1>3, <2>1, <2>2, WriteType DEF FinishPod, TypeOK
  <1>4. ASSUME NEW p \in Pods PROVE [pods[p] EXCEPT !.bound = TRUE] \in PodObjects(p)
    BY EditType DEF TypeOK
  <1>5. ASSUME NEW p \in Pods, ForeignBind(p) PROVE TypeOK'
    BY <1>5, <1>4, WriteType DEF ForeignBind, TypeOK
  <1>6. ASSUME NEW p \in Pods, ResizePod(p) PROVE TypeOK'
    <2>1. "resize" \in Disruptions
      BY <1>6 DEF ResizePod, Disrupt
    <2>2. [pods[p] EXCEPT !.req = ResizedReq[p]] \in PodObjects(p)
      BY <2>1, EditType DEF TypeOK, Reqs
    <2> QED
      BY <1>6, <1>0, <2>2, WriteType DEF ResizePod, TypeOK
  <1>7. ASSUME NEW p \in Pods, PreFilter(p) PROVE TypeOK'
    BY <1>7 DEF PreFilter, TypeOK
  <1>8. ASSUME NEW p \in Pods, SchedulingCycle(p) PROVE TypeOK'
    <2>1. CASE Unschedulable(p)
      BY <2>1 DEF Unschedulable, TypeOK
    <2>2. CASE Reserve(p)
      <3>1. ManagerTypeOK(queueByName')
        BY <2>2, AddPodType, FreshType DEF Reserve, TypeOK
      <3> QED
        BY <2>2, <3>1 DEF Reserve, TypeOK
    <2>3. CASE ReserveFails(p)
      <3>1. ManagerTypeOK(queueByName')
        BY <2>3, DeletePodType, FreshType DEF ReserveFails, TypeOK
      <3> QED
        BY <2>3, <3>1 DEF ReserveFails, TypeOK
    <2> QED
      BY <1>8, <2>1, <2>2, <2>3 DEF SchedulingCycle
  <1>9. ASSUME NEW p \in Pods, BindingCycle(p) PROVE TypeOK'
    <2>1. CASE Bind(p)
      BY <2>1, <1>4, WriteType DEF Bind, TypeOK
    <2>2. CASE Unreserve(p)
      <3>1. ManagerTypeOK(queueByName')
        BY <2>2, DeletePodType, FreshType DEF Unreserve, TypeOK
      <3> QED
        BY <2>2, <3>1 DEF Unreserve, TypeOK
    <2> QED
      BY <1>9, <2>1, <2>2 DEF BindingCycle
  <1>10. ASSUME NEW p \in Pods, BindUnanswered(p) PROVE TypeOK'
    BY <1>10, <1>0, <1>4, WriteType DEF BindUnanswered, TypeOK
  <1>11. ASSUME NEW p \in Pods, Nominate(p) \/ ClearNomination(p) PROVE TypeOK'
    BY <1>11 DEF Nominate, ClearNomination, TypeOK
  <1>12. ASSUME NEW q \in Queues, NEW max \in Maxes, CreateQueue(q, max) PROVE TypeOK'
    <2> DEFINE new == [x \in DOMAIN queues \cup {q} |-> IF x = q THEN max ELSE queues[x]]
    <2>1. DOMAIN new \subseteq Queues /\ \A x \in DOMAIN new : new[x] \in Maxes
      BY DEF TypeOK
    <2>2. QueueCall("add", q, max) \in QueueCalls
      BY DEF QueueCall, QueueCalls
    <2>3. WriteQueues(new, QueueCall("add", q, max))
      BY <1>12 DEF CreateQueue
    <2> HIDE DEF new
    <2> QED
      BY <1>12, <1>0, <2>1, <2>2, <2>3, WriteQueuesType DEF CreateQueue, TypeOK
  <1>13. ASSUME NEW q \in Queues, RemoveQueue(q) PROVE TypeOK'
    <2> DEFINE new == [x \in DOMAIN queues \ {q} |-> queues[x]]
    <2>1. DOMAIN new \subseteq Queues /\ \A x \in DOMAIN new : new[x] \in Maxes
      BY DEF TypeOK
    <2>2. QueueCall("delete", q, queues[q]) \in QueueCalls
      BY <1>13 DEF RemoveQueue, TypeOK, QueueCall, QueueCalls
    <2>3. WriteQueues(new, QueueCall("delete", q, queues[q]))
      BY <1>13 DEF RemoveQueue
    <2> HIDE DEF new
    <2> QED
      BY <1>13, <1>0, <2>1, <2>2, <2>3, WriteQueuesType DEF RemoveQueue, TypeOK
  <1>14. CASE WatchDown
    BY <1>14, <1>0 DEF WatchDown, TypeOK
  <1>15. CASE Relist
    <2>1. PICK order \in Orders({p \in Stale : FilterFunc(podStore[p]) \/ FilterFunc(pods[p])}) :
            podCalls' = podCalls \o RelistCalls(order)
      BY <1>15 DEF Relist
    <2>2. RelistCalls(order) \in Seq(PodCalls)
      BY RelistCallsType DEF Stale
    <2>3. podCalls' \in Seq(PodCalls)
      BY <2>1, <2>2 DEF TypeOK
    <2> QED
      BY <1>15, <2>3 DEF Relist, TypeOK
  <1>16. CASE PodHandlers
    <2>1. podCalls # <<>> /\ podCalls' = Tail(podCalls)
      BY <1>16 DEF PodHandlers, addPod, updatePod, deletePod, deletePodTombstone, Handle
    <2>2. PICK p \in Pods : Head(podCalls).pod \in PodObjects(p)
      BY <2>1, PodCallsHead
    <2>3. \/ queueByName' = queueByName
          \/ queueByName' = AddPod(queueByName, Head(podCalls).pod)
          \/ queueByName' = DeletePod(queueByName, Head(podCalls).pod)
      BY <1>16 DEF PodHandlers, addPod, updatePod, deletePod, deletePodTombstone
    <2>4. ManagerTypeOK(queueByName')
      BY <2>2, <2>3, AddPodType, DeletePodType DEF TypeOK
    <2>5. podCalls' \in Seq(PodCalls)
      BY <2>1, PodCallsHead
    <2> QED
      BY <1>16, <2>4, <2>5
      DEF PodHandlers, addPod, updatePod, deletePod, deletePodTombstone, TypeOK
  <1>17. CASE QueueHandlers
    <2>1. CASE deleteQueueTombstone
      <3>1. disruptions' \in 0..MaxDisruptions
        BY <2>1 DEF deleteQueueTombstone, TypeOK
      <3> QED
        BY <2>1, <3>1, NewProcessType DEF deleteQueueTombstone
    <2>2. CASE addQueue \/ updateQueue \/ deleteQueue
      <3>1. queueCalls # <<>> /\ queueCalls' = Tail(queueCalls)
        BY <2>2 DEF addQueue, updateQueue, deleteQueue, Handle
      <3>2. ManagerTypeOK(queueByName')
        BY <2>2, <3>1, QueueCallsHead, PutType, UpdateType, DeleteType
        DEF addQueue, updateQueue, deleteQueue, TypeOK
      <3>3. queueCalls' \in Seq(QueueCalls)
        BY <3>1, QueueCallsHead
      <3> QED
        BY <2>2, <3>2, <3>3 DEF addQueue, updateQueue, deleteQueue, TypeOK
    <2> QED
      BY <1>17, <2>1, <2>2 DEF QueueHandlers
  <1>18. CASE Restart
    BY <1>18, <1>0, NewProcessType DEF Restart
  <1>19. CASE UNCHANGED vars
    BY <1>19 DEF vars, TypeOK
  <1>20. ASSUME NEW q \in Queues, NEW max \in Maxes, ChangeQueue(q, max) PROVE TypeOK'
    <2> DEFINE new == [queues EXCEPT ![q] = max]
    <2>1. DOMAIN new \subseteq Queues /\ \A x \in DOMAIN new : new[x] \in Maxes
      BY DEF TypeOK
    <2>2. QueueCall("update", q, max) \in QueueCalls
      BY DEF QueueCall, QueueCalls
    <2>3. WriteQueues(new, QueueCall("update", q, max))
      BY <1>20 DEF ChangeQueue
    <2> HIDE DEF new
    <2> QED
      BY <1>20, <1>0, <2>1, <2>2, <2>3, WriteQueuesType DEF ChangeQueue, TypeOK
  <1>21. CASE QueueWatchDown
    BY <1>21, <1>0 DEF QueueWatchDown, TypeOK
  <1>22. CASE QueueRelist
    <2> DEFINE S == DOMAIN queueStore \cup DOMAIN queues
    <2>1. PICK order \in Orders(S) :
            queueCalls' = queueCalls \o [i \in DOMAIN order |-> QueueRelistCall(order[i])]
      BY <1>22 DEF QueueRelist
    <2>2. order \in Seq(S)
      BY PodsAssumption, FS_Subset, OrdersType DEF TypeOK
    <2>3. \A q \in S : QueueRelistCall(q) \in QueueCalls
      BY DEF TypeOK, QueueRelistCall, QueueCall, QueueCalls
    <2>4. [i \in DOMAIN order |-> QueueRelistCall(order[i])] \in Seq(QueueCalls)
      BY <2>2, <2>3
    <2>5. queueCalls' \in Seq(QueueCalls)
      BY <2>1, <2>4 DEF TypeOK
    <2> QED
      BY <1>22, <2>5 DEF QueueRelist, TypeOK
  <1> QED
    BY <1>1, <1>2, <1>3, <1>5, <1>6, <1>7, <1>8, <1>9, <1>10, <1>11, <1>12, <1>13,
       <1>14, <1>15, <1>16, <1>17, <1>18, <1>19, <1>20, <1>21, <1>22 DEF Next

\* Type correctness of handlers, informer calls, ledgers and scheduler steps,
\* for any cluster and any disruption.
THEOREM TypeCorrect == Spec => []TypeOK
  BY InitType, NextType, PTL DEF Spec

-----------------------------------------------------------------------------
(* The ledgers are exact.                                                  *)

LedgersConsistent(qm) == \A q \in DOMAIN qm : Consistent(qm[q])

\* A queue put, updated or deleted leaves exact ledgers behind.
LEMMA QueueOpsConsistent ==
    ASSUME NEW qm, ManagerTypeOK(qm), LedgersConsistent(qm), NEW q, NEW max
    PROVE  /\ LedgersConsistent(Put(qm, q, max))
           /\ LedgersConsistent(Update(qm, q, max))
           /\ LedgersConsistent(Delete(qm, q))
  <1>1. Consistent(NewQueue(max))
    <2>1. NewQueue(max) = NewQuota(max)
      BY DEF NewQueue, SetMax, NewQuota
    <2> QED
      BY <2>1, NewQuotaConsistent
  <1>2. LedgersConsistent(Put(qm, q, max))
    BY <1>1 DEF LedgersConsistent, Put
  <1>3. LedgersConsistent(Update(qm, q, max))
    <2>1. CASE q \notin DOMAIN qm
      BY <2>1, <1>2 DEF Update
    <2>2. CASE q \in DOMAIN qm
      <3>1. qm[q] = [max |-> qm[q].max, used |-> qm[q].used, podsByID |-> qm[q].podsByID]
        BY <2>2 DEF ManagerTypeOK, QuotaTypeOK
      <3>2. Consistent(SetMax(qm[q], max))
        BY <2>2, <3>1, SetMaxConsistent DEF LedgersConsistent
      <3>3. Update(qm, q, max) = [qm EXCEPT ![q] = SetMax(qm[q], max)]
        BY <2>2 DEF Update
      <3> QED
        BY <3>2, <3>3 DEF LedgersConsistent
    <2> QED
      BY <2>1, <2>2
  <1>4. LedgersConsistent(Delete(qm, q))
    BY DEF LedgersConsistent, Delete
  <1> QED
    BY <1>2, <1>3, <1>4

\* Without resizes a pod is added and deleted with one and the same request,
\* so its ledger stays exact.
LEMMA PodOpsConsistent ==
    ASSUME "resize" \notin Disruptions,
           NEW qm, ManagerTypeOK(qm), LedgersConsistent(qm),
           NEW p \in Pods, NEW o \in PodObjects(p)
    PROVE  /\ LedgersConsistent(AddPod(qm, o))
           /\ LedgersConsistent(DeletePod(qm, o))
  <1> DEFINE q == QueueOf[p]
  <1>1. o.uid = p /\ o.queue = q /\ o.req \in Reqs(p) /\ Reqs(p) = {InitialReq[p]}
    BY DEF PodObjects, Reqs
  <1>2. CASE q \notin DOMAIN qm
    BY <1>1, <1>2 DEF AddPod, DeletePod, HasQueue
  <1>3. CASE q \in DOMAIN qm
    <2>1. qm[q] = [max |-> qm[q].max, used |-> qm[q].used, podsByID |-> qm[q].podsByID]
      BY <1>3 DEF ManagerTypeOK, QuotaTypeOK
    <2>2. p \in DOMAIN qm[q].podsByID => qm[q].podsByID[p] = o.req
      BY <1>1, <1>3 DEF ManagerTypeOK, QuotaTypeOK
    <2>3. Consistent(qm[q]) /\ IsReq(o.req)
      BY <1>1, <1>3, ReqsAreRequests DEF LedgersConsistent
    <2>4. Consistent(AddPodIfNotPresent(qm[q], o))
      BY <2>1, <2>3, AddPodConsistent
    <2>5. Consistent(DeletePodIfPresent(qm[q], o))
      BY <1>1, <2>1, <2>2, <2>3, DeletePodConsistent
    <2>6. AddPod(qm, o) = [qm EXCEPT ![q] = AddPodIfNotPresent(qm[q], o)]
      BY <1>1, <1>3 DEF AddPod, HasQueue
    <2>7. DeletePod(qm, o) = [qm EXCEPT ![q] = DeletePodIfPresent(qm[q], o)]
      BY <1>1, <1>3 DEF DeletePod, HasQueue
    <2> QED
      BY <2>4, <2>5, <2>6, <2>7 DEF LedgersConsistent
  <1> QED
    BY <1>2, <1>3

\* The ways any step can change the manager.
LEMMA ManagerSteps ==
    ASSUME TypeOK, [Next]_vars
    PROVE  \/ queueByName' = queueByName
           \/ queueByName' = NewManager
           \/ \E p \in Pods, o \in UNION {PodObjects(x) : x \in Pods} :
                 /\ o \in PodObjects(p)
                 /\ \/ queueByName' = AddPod(queueByName, o)
                    \/ queueByName' = DeletePod(queueByName, o)
           \/ \E q \in Queues, max \in Maxes :
                 \/ queueByName' = Put(queueByName, q, max)
                 \/ queueByName' = Update(queueByName, q, max)
                 \/ queueByName' = Delete(queueByName, q)
  <1>1. ASSUME NEW p \in Pods,
               CreatePod(p) \/ RemovePod(p) \/ FinishPod(p) \/ ForeignBind(p) \/ ResizePod(p)
        PROVE  queueByName' = queueByName
    BY <1>1 DEF CreatePod, RemovePod, FinishPod, ForeignBind, ResizePod
  <1>2. ASSUME NEW p \in Pods,
               PreFilter(p) \/ Unschedulable(p) \/ Bind(p) \/ BindUnanswered(p)
               \/ Nominate(p) \/ ClearNomination(p)
        PROVE  queueByName' = queueByName
    BY <1>2 DEF PreFilter, Unschedulable, Bind, BindUnanswered, Nominate, ClearNomination
  <1>3. ASSUME NEW p \in Pods, Reserve(p) \/ ReserveFails(p) \/ Unreserve(p)
        PROVE  /\ Fresh(p) \in PodObjects(p)
               /\ \/ queueByName' = AddPod(queueByName, Fresh(p))
                  \/ queueByName' = DeletePod(queueByName, Fresh(p))
    BY <1>3, FreshType DEF Reserve, ReserveFails, Unreserve
  <1>4. ASSUME NEW q \in Queues,
               (\E max \in Maxes : CreateQueue(q, max) \/ ChangeQueue(q, max)) \/ RemoveQueue(q)
        PROVE  queueByName' = queueByName
    BY <1>4 DEF CreateQueue, ChangeQueue, RemoveQueue
  <1>5. ASSUME WatchDown \/ Relist \/ QueueWatchDown \/ QueueRelist
        PROVE  queueByName' = queueByName
    BY <1>5 DEF WatchDown, Relist, QueueWatchDown, QueueRelist
  <1>6. ASSUME PodHandlers
        PROVE  /\ \E p \in Pods : Head(podCalls).pod \in PodObjects(p)
               /\ \/ queueByName' = queueByName
                  \/ queueByName' = AddPod(queueByName, Head(podCalls).pod)
                  \/ queueByName' = DeletePod(queueByName, Head(podCalls).pod)
    <2>1. podCalls # <<>>
      BY <1>6 DEF PodHandlers, addPod, updatePod, deletePod, deletePodTombstone, Handle
    <2> QED
      BY <1>6, <2>1, PodCallsHead
      DEF PodHandlers, addPod, updatePod, deletePod, deletePodTombstone
  <1>7. ASSUME addQueue \/ updateQueue \/ deleteQueue
        PROVE  \E q \in Queues, max \in Maxes :
                 \/ queueByName' = Put(queueByName, q, max)
                 \/ queueByName' = Update(queueByName, q, max)
                 \/ queueByName' = Delete(queueByName, q)
    <2>1. queueCalls # <<>>
      BY <1>7 DEF addQueue, updateQueue, deleteQueue, Handle
    <2> QED
      BY <1>7, <2>1, QueueCallsHead DEF addQueue, updateQueue, deleteQueue
  <1>8. ASSUME Restart \/ deleteQueueTombstone
        PROVE  queueByName' = NewManager
    BY <1>8 DEF Restart, deleteQueueTombstone, NewProcess
  <1>9. ASSUME UNCHANGED vars
        PROVE  queueByName' = queueByName
    BY <1>9 DEF vars
  <1> QED
    BY <1>1, <1>2, <1>3, <1>4, <1>5, <1>6, <1>7, <1>8, <1>9
    DEF Next, SchedulingCycle, BindingCycle, QueueHandlers

\* The ledgers agree with their entries at first, and every step keeps that.
LEMMA LedgersConsistentInit == Init => LedgersConsistent(queueByName)
  <1> SUFFICES ASSUME Init, NEW q \in DOMAIN InitialMax
               PROVE  Consistent(NewQueue(InitialMax[q]))
    BY DEF Init, LedgersConsistent
  <1>1. NewQueue(InitialMax[q]) = NewQuota(InitialMax[q])
    BY DEF NewQueue, SetMax, NewQuota
  <1> QED
    BY <1>1, NewQuotaConsistent

\* As LedgersConsistentInit.
LEMMA LedgersConsistentNext ==
    ASSUME "resize" \notin Disruptions, TypeOK, LedgersConsistent(queueByName), [Next]_vars
    PROVE  LedgersConsistent(queueByName')
  <1>1. ManagerTypeOK(queueByName)
    BY DEF TypeOK
  <1>2. CASE queueByName' = queueByName
    BY <1>2
  <1>3. CASE queueByName' = NewManager
    BY <1>3 DEF NewManager, LedgersConsistent
  <1>4. ASSUME NEW p \in Pods, NEW o \in PodObjects(p),
               queueByName' = AddPod(queueByName, o) \/ queueByName' = DeletePod(queueByName, o)
        PROVE  LedgersConsistent(queueByName')
    BY <1>1, <1>4, PodOpsConsistent
  <1>5. ASSUME NEW q \in Queues, NEW max \in Maxes,
               \/ queueByName' = Put(queueByName, q, max)
               \/ queueByName' = Update(queueByName, q, max)
               \/ queueByName' = Delete(queueByName, q)
        PROVE  LedgersConsistent(queueByName')
    BY <1>1, <1>5, QueueOpsConsistent
  <1> QED
    BY <1>2, <1>3, <1>4, <1>5, ManagerSteps

\* As long as pods are not resized in place, the used total of every queue is
\* what the pods on its ledger request: through every interleaving of
\* reservations, late or repeated informer calls, queue changes and restarts.
THEOREM LedgerAlwaysExact ==
    ASSUME "resize" \notin Disruptions
    PROVE  Spec => []LedgerExact
  <1>1. TypeOK /\ LedgersConsistent(queueByName) /\ [Next]_vars => LedgersConsistent(queueByName)'
    BY LedgersConsistentNext DEF LedgersConsistent
  <1>2. LedgersConsistent(queueByName) => LedgerExact
    BY ConsistentIsExact DEF LedgersConsistent, LedgerExact
  <1> QED
    BY <1>1, <1>2, LedgersConsistentInit, InitType, NextType, PTL DEF Spec

-----------------------------------------------------------------------------
(* The manager follows the queues of the cluster, whatever happens to them *)
(* and to the queue watch, and across restarts.                            *)

\* Adding or deleting a pod keeps the names and the maxima.
LEMMA PodOpsKeepQueues ==
    ASSUME NEW qm, ManagerTypeOK(qm), NEW o
    PROVE  /\ DOMAIN AddPod(qm, o) = DOMAIN qm /\ DOMAIN DeletePod(qm, o) = DOMAIN qm
           /\ \A q \in DOMAIN qm : /\ AddPod(qm, o)[q].max = qm[q].max
                                   /\ DeletePod(qm, o)[q].max = qm[q].max
  <1>1. ASSUME NEW q \in DOMAIN qm
        PROVE  /\ AddPodIfNotPresent(qm[q], o).max = qm[q].max
               /\ DeletePodIfPresent(qm[q], o).max = qm[q].max
    <2>1. qm[q] = [max |-> qm[q].max, used |-> qm[q].used, podsByID |-> qm[q].podsByID]
      BY DEF ManagerTypeOK, QuotaTypeOK
    <2> QED
      BY <2>1 DEF AddPodIfNotPresent, DeletePodIfPresent
  <1> QED
    BY <1>1 DEF AddPod, DeletePod, HasQueue

\* An index of two sequences joined is an index of one of them.
LEMMA ConcatIndex ==
    ASSUME NEW S, NEW s \in Seq(S), NEW t \in Seq(S)
    PROVE  /\ \A i \in DOMAIN (s \o t) :
                 \/ i \in DOMAIN s /\ (s \o t)[i] = s[i]
                 \/ /\ i > Len(s) /\ i - Len(s) \in DOMAIN t
                    /\ (s \o t)[i] = t[i - Len(s)]
           /\ \A i \in DOMAIN s : i \in DOMAIN (s \o t) /\ (s \o t)[i] = s[i]
           /\ \A i \in DOMAIN t :
                 i + Len(s) \in DOMAIN (s \o t) /\ (s \o t)[i + Len(s)] = t[i]
  OBVIOUS

\* A list delivers each of its objects, and only once.
LEMMA OrdersOnto ==
    ASSUME NEW S, IsFiniteSet(S), NEW order \in Orders(S)
    PROVE  \A x \in S : \E i \in DOMAIN order : order[i] = x
  <1> DEFINE n == Cardinality(S)
  <1>1. n \in Nat
    BY FS_CardinalityType
  <1>2. IsFiniteSet(1..n) /\ Cardinality(1..n) = n
    BY <1>1, FS_Interval
  <1>3. order \in [1..n -> S] /\ \A i, j \in 1..n : order[i] = order[j] => i = j
    BY DEF Orders
  <1> HIDE DEF n
  <1>4. order \in Injection(1..n, S)
    BY <1>3 DEF Injection, IsInjective
  <1>5. order \in Surjection(1..n, S)
    BY <1>2, <1>4, FS_Injection DEF n
  <1> QED
    BY <1>3, <1>5 DEF Surjection

\* No call about q waits for the queue handlers.
NoCallFor(q) == \A i \in DOMAIN queueCalls : queueCalls[i].queue # q

\* Call i is the last that waits about its queue.
LastCall(i) ==
    \A j \in DOMAIN queueCalls : j > i => queueCalls[j].queue # queueCalls[i].queue

\* Call c says what the queues of store are.
Tells(c, store) ==
    IF c.call \in {"add", "update"}
    THEN c.queue \in DOMAIN store /\ store[c.queue] = c.max
    ELSE c.queue \notin DOMAIN store

\* The manager and store agree on q.
Agree(qm, store, q) ==
    /\ q \in DOMAIN qm <=> q \in DOMAIN store
    /\ q \in DOMAIN store => qm[q].max = store[q]

\* The inductive invariant of QueuesInSync: the last call that waits about a
\* queue tells what the cache has, and a queue about which none waits is in
\* the manager as it is in the cache.
QueueSyncInv ==
    /\ queueWatchUp => queueStore = queues
    /\ \A i \in DOMAIN queueCalls : LastCall(i) => Tells(queueCalls[i], queueStore)
    /\ \A q \in Queues : NoCallFor(q) => Agree(queueByName, queueStore, q)

\* Calls that join those that wait, about all the queues the cache changed.
LEMMA CallsJoin ==
    ASSUME TypeOK, QueueSyncInv, NEW t \in Seq(QueueCalls), queueCalls' = queueCalls \o t,
           queueByName' = queueByName, queueWatchUp' => queueStore' = queues',
           \A i, j \in DOMAIN t : t[i].queue = t[j].queue => i = j,
           \A i \in DOMAIN t : Tells(t[i], queueStore'),
           \A q \in Queues : (\A i \in DOMAIN t : t[i].queue # q) =>
               /\ q \in DOMAIN queueStore' <=> q \in DOMAIN queueStore
               /\ q \in DOMAIN queueStore => queueStore'[q] = queueStore[q]
    PROVE  QueueSyncInv'
  <1>1. queueCalls \in Seq(QueueCalls)
    BY DEF TypeOK
  <1>2. /\ \A i \in DOMAIN queueCalls' :
              \/ i \in DOMAIN queueCalls /\ queueCalls'[i] = queueCalls[i]
              \/ /\ i > Len(queueCalls) /\ i - Len(queueCalls) \in DOMAIN t
                 /\ queueCalls'[i] = t[i - Len(queueCalls)]
        /\ \A i \in DOMAIN queueCalls : i \in DOMAIN queueCalls' /\ queueCalls'[i] = queueCalls[i]
        /\ \A i \in DOMAIN t :
              i + Len(queueCalls) \in DOMAIN queueCalls'
              /\ queueCalls'[i + Len(queueCalls)] = t[i]
    BY <1>1, ConcatIndex
  <1>3. \A i \in DOMAIN queueCalls : queueCalls[i].queue \in Queues
    <2>1. \A i \in DOMAIN queueCalls : queueCalls[i] \in QueueCalls
      BY <1>1
    <2> QED
      BY <2>1 DEF QueueCalls
  <1>4. \A i \in DOMAIN queueCalls, k \in DOMAIN t : k + Len(queueCalls) > i
    BY <1>1
  <1>5. ASSUME NEW i \in DOMAIN queueCalls', LastCall(i)'
        PROVE  Tells(queueCalls'[i], queueStore')
    <2>1. CASE i \in DOMAIN queueCalls /\ queueCalls'[i] = queueCalls[i]
      <3>1. \A k \in DOMAIN t : t[k].queue # queueCalls[i].queue
        BY <1>2, <1>4, <1>5, <2>1 DEF LastCall
      <3>2. LastCall(i)
        BY <1>2, <1>5, <2>1 DEF LastCall
      <3>3. Tells(queueCalls[i], queueStore)
        BY <2>1, <3>2 DEF QueueSyncInv
      <3> QED
        BY <1>3, <2>1, <3>1, <3>3 DEF Tells
    <2>2. CASE i - Len(queueCalls) \in DOMAIN t /\ queueCalls'[i] = t[i - Len(queueCalls)]
      BY <2>2
    <2> QED
      BY <1>2, <2>1, <2>2
  <1>6. ASSUME NEW q \in Queues, NoCallFor(q)'
        PROVE  Agree(queueByName', queueStore', q)
    <2>1. NoCallFor(q)
      BY <1>2, <1>6 DEF NoCallFor
    <2>2. ASSUME NEW i \in DOMAIN t
          PROVE  t[i].queue # q
      <3> DEFINE k == i + Len(queueCalls)
      <3>1. k \in DOMAIN queueCalls' /\ queueCalls'[k] = t[i]
        BY <1>2
      <3> HIDE DEF k
      <3> QED
        BY <1>6, <3>1 DEF NoCallFor
    <2> QED
      BY <2>1, <2>2 DEF QueueSyncInv, Agree
  <1> QED
    BY <1>5, <1>6 DEF QueueSyncInv

\* An edit of queue q at the API server.
LEMMA EditKeepsQueueSync ==
    ASSUME TypeOK, QueueSyncInv, NEW q \in Queues, NEW new,
           NEW c \in QueueCalls, c.queue = q, Tells(c, new),
           \A x \in Queues : x # q => /\ x \in DOMAIN new <=> x \in DOMAIN queues
                                      /\ x \in DOMAIN queues => new[x] = queues[x],
           WriteQueues(new, c), queueByName' = queueByName
    PROVE  QueueSyncInv'
  <1>1. CASE queueWatchUp
    <2> DEFINE t == <<c>>
    <2>1. t \in Seq(QueueCalls) /\ \A i \in DOMAIN t : i = 1 /\ t[i] = c
      OBVIOUS
    <2>2. queueCalls' = queueCalls \o t
      <3>1. queueCalls' = Append(queueCalls, c) /\ queueCalls \in Seq(QueueCalls)
        BY <1>1 DEF WriteQueues, TypeOK
      <3> QED
        BY <3>1
    <2>3. queueStore' = new /\ queues' = new /\ queueStore = queues
      BY <1>1 DEF WriteQueues, QueueSyncInv
    <2>4. 1 \in DOMAIN t
      OBVIOUS
    <2> HIDE DEF t
    <2>5. \A x \in Queues : (\A i \in DOMAIN t : t[i].queue # x) =>
             /\ x \in DOMAIN queueStore' <=> x \in DOMAIN queueStore
             /\ x \in DOMAIN queueStore => queueStore'[x] = queueStore[x]
      BY <2>1, <2>3, <2>4
    <2> QED
      BY <2>1, <2>2, <2>3, <2>5, CallsJoin
  <1>2. CASE ~queueWatchUp
    BY <1>2 DEF WriteQueues, QueueSyncInv, LastCall, NoCallFor
  <1> QED
    BY <1>1, <1>2

\* A relist of the queues.
LEMMA RelistKeepsQueueSync ==
    ASSUME TypeOK, QueueSyncInv, QueueRelist
    PROVE  QueueSyncInv'
  <1> DEFINE S == DOMAIN queueStore \cup DOMAIN queues
  <1>1. PICK order \in Orders(S) :
          queueCalls' = queueCalls \o [i \in DOMAIN order |-> QueueRelistCall(order[i])]
    BY DEF QueueRelist
  <1> DEFINE t == [i \in DOMAIN order |-> QueueRelistCall(order[i])]
  <1>2. IsFiniteSet(S) /\ S \subseteq Queues
    BY PodsAssumption, FS_Subset DEF TypeOK
  <1>3. order \in Seq(S) /\ \A i, j \in DOMAIN order : order[i] = order[j] => i = j
    BY <1>2, OrdersType DEF Orders
  <1>4. \A q \in S : /\ QueueRelistCall(q) \in QueueCalls
                     /\ QueueRelistCall(q).queue = q
                     /\ Tells(QueueRelistCall(q), queues)
    <2> SUFFICES ASSUME NEW q \in S
                 PROVE  /\ QueueRelistCall(q) \in QueueCalls
                        /\ QueueRelistCall(q).queue = q
                        /\ Tells(QueueRelistCall(q), queues)
      OBVIOUS
    <2>1. CASE q \notin DOMAIN queues
      BY <1>2, <2>1 DEF QueueRelistCall, QueueCall, QueueCalls, Tells, TypeOK
    <2>2. CASE q \in DOMAIN queues
      BY <1>2, <2>2 DEF QueueRelistCall, QueueCall, QueueCalls, Tells, TypeOK
    <2> QED
      BY <2>1, <2>2
  <1>5. t \in Seq(QueueCalls) /\ DOMAIN t = DOMAIN order
        /\ \A i \in DOMAIN t : t[i] = QueueRelistCall(order[i]) /\ order[i] \in S
    BY <1>3, <1>4
  <1>6. queueCalls' = queueCalls \o t
    BY <1>1
  <1> HIDE DEF t
  <1>7. queueStore' = queues /\ queues' = queues /\ queueByName' = queueByName
    BY DEF QueueRelist
  <1>8. \A i, j \in DOMAIN t : t[i].queue = t[j].queue => i = j
    BY <1>3, <1>4, <1>5
  <1>9. \A i \in DOMAIN t : Tells(t[i], queueStore')
    BY <1>4, <1>5, <1>7
  <1>10. ASSUME NEW q \in Queues, \A i \in DOMAIN t : t[i].queue # q
         PROVE  q \notin S
    <2> SUFFICES ASSUME q \in S PROVE FALSE
      OBVIOUS
    <2>1. PICK i \in DOMAIN order : order[i] = q
      BY <1>2, OrdersOnto
    <2> QED
      BY <1>4, <1>5, <1>10, <2>1
  <1> QED
    BY <1>5, <1>6, <1>7, <1>8, <1>9, <1>10, CallsJoin

\* A new process: it knows no queue, and an add of each waits.
LEMMA NewProcessQueueSync ==
    ASSUME TypeOK, NewProcess
    PROVE  QueueSyncInv'
  <1>1. PICK order \in Orders(DOMAIN queues) :
          queueCalls' = [i \in DOMAIN order |-> QueueCall("add", order[i], queues[order[i]])]
    BY DEF NewProcess
  <1>2. IsFiniteSet(DOMAIN queues)
    BY PodsAssumption, FS_Subset DEF TypeOK
  <1>3. order \in Seq(DOMAIN queues)
    BY <1>2, OrdersType
  <1>4. queueStore' = queues /\ queues' = queues /\ DOMAIN queueByName' = {}
    BY DEF NewProcess, NewManager
  <1>5. \A i \in DOMAIN queueCalls' :
           /\ i \in DOMAIN order
           /\ queueCalls'[i] = QueueCall("add", order[i], queues[order[i]])
           /\ order[i] \in DOMAIN queues
    BY <1>1, <1>3
  <1>6. \A i \in DOMAIN queueCalls' : Tells(queueCalls'[i], queueStore')
    BY <1>4, <1>5 DEF Tells, QueueCall
  <1>7. ASSUME NEW q \in Queues, NoCallFor(q)'
        PROVE  q \notin DOMAIN queues
    <2> SUFFICES ASSUME q \in DOMAIN queues PROVE FALSE
      OBVIOUS
    <2>1. PICK i \in DOMAIN order : order[i] = q
      BY <1>2, OrdersOnto
    <2>2. i \in DOMAIN queueCalls' /\ queueCalls'[i].queue = q
      BY <1>1, <2>1 DEF QueueCall
    <2> QED
      BY <1>7, <2>2 DEF NoCallFor
  <1> QED
    BY <1>4, <1>6, <1>7 DEF QueueSyncInv, Agree

\* What the queue operations leave of each queue.
LEMMA QueueOpsAgree ==
    ASSUME NEW qm, ManagerTypeOK(qm), NEW q, NEW max
    PROVE  /\ q \in DOMAIN Put(qm, q, max) /\ Put(qm, q, max)[q].max = max
           /\ q \in DOMAIN Update(qm, q, max) /\ Update(qm, q, max)[q].max = max
           /\ q \notin DOMAIN Delete(qm, q)
           /\ \A x : x # q =>
                 /\ x \in DOMAIN Put(qm, q, max) <=> x \in DOMAIN qm
                 /\ x \in DOMAIN qm => Put(qm, q, max)[x] = qm[x]
                 /\ x \in DOMAIN Update(qm, q, max) <=> x \in DOMAIN qm
                 /\ x \in DOMAIN qm => Update(qm, q, max)[x] = qm[x]
                 /\ x \in DOMAIN Delete(qm, q) <=> x \in DOMAIN qm
                 /\ x \in DOMAIN qm => Delete(qm, q)[x] = qm[x]
  <1>1. NewQueue(max).max = max
    BY DEF NewQueue, SetMax, NewQuota
  <1>2. /\ q \in DOMAIN Put(qm, q, max) /\ Put(qm, q, max)[q].max = max
        /\ \A x : x # q => /\ x \in DOMAIN Put(qm, q, max) <=> x \in DOMAIN qm
                           /\ x \in DOMAIN qm => Put(qm, q, max)[x] = qm[x]
    BY <1>1 DEF Put
  <1>3. /\ q \notin DOMAIN Delete(qm, q)
        /\ \A x : x # q => /\ x \in DOMAIN Delete(qm, q) <=> x \in DOMAIN qm
                           /\ x \in DOMAIN qm => Delete(qm, q)[x] = qm[x]
    BY DEF Delete
  <1>4. CASE q \notin DOMAIN qm
    BY <1>2, <1>3, <1>4 DEF Update
  <1>5. CASE q \in DOMAIN qm
    <2>1. SetMax(qm[q], max).max = max
      <3>1. qm[q] = [max |-> qm[q].max, used |-> qm[q].used, podsByID |-> qm[q].podsByID]
        BY <1>5 DEF ManagerTypeOK, QuotaTypeOK
      <3> QED
        BY <3>1 DEF SetMax
    <2>2. Update(qm, q, max) = [qm EXCEPT ![q] = SetMax(qm[q], max)]
      BY <1>5 DEF Update
    <2> QED
      BY <1>2, <1>3, <1>5, <2>1, <2>2
  <1> QED
    BY <1>4, <1>5

\* The queue handlers.
LEMMA HandlersKeepQueueSync ==
    ASSUME TypeOK, QueueSyncInv, addQueue \/ updateQueue \/ deleteQueue
    PROVE  QueueSyncInv'
  <1> DEFINE c == queueCalls[1]
  <1>1. queueCalls # <<>> /\ queueCalls' = Tail(queueCalls) /\ queueCalls \in Seq(QueueCalls)
    BY DEF addQueue, updateQueue, deleteQueue, Handle, TypeOK
  <1>2. /\ Head(queueCalls) = c /\ 1 \in DOMAIN queueCalls /\ c \in QueueCalls
        /\ \A i \in DOMAIN queueCalls' :
              i + 1 \in DOMAIN queueCalls /\ queueCalls'[i] = queueCalls[i + 1]
        /\ \A i \in DOMAIN queueCalls : i # 1 =>
              i - 1 \in DOMAIN queueCalls' /\ queueCalls'[i - 1] = queueCalls[i]
    BY <1>1
  <1>3. UNCHANGED <<queues, queueStore, queueWatchUp>>
    BY DEF addQueue, updateQueue, deleteQueue, queueApiVars
  <1>4. \/ c.call = "add" /\ queueByName' = Put(queueByName, c.queue, c.max)
        \/ c.call = "update" /\ queueByName' = Update(queueByName, c.queue, c.max)
        \/ c.call = "delete" /\ queueByName' = Delete(queueByName, c.queue)
    BY <1>2 DEF addQueue, updateQueue, deleteQueue, Handle
  <1>5. ManagerTypeOK(queueByName)
    BY DEF TypeOK
  <1>6. ASSUME NEW i \in DOMAIN queueCalls', LastCall(i)'
        PROVE  Tells(queueCalls'[i], queueStore')
    <2> DEFINE k == i + 1
    <2>1. k \in DOMAIN queueCalls /\ queueCalls'[i] = queueCalls[k] /\ k - 1 = i
          /\ i \in Nat /\ i >= 1
      BY <1>1, <1>2
    <2>2. \A j \in DOMAIN queueCalls : j > k => j # 1 /\ j - 1 > i
      BY <1>1, <2>1
    <2> HIDE DEF k
    <2>3. LastCall(k)
      BY <1>2, <1>6, <2>1, <2>2 DEF LastCall
    <2> QED
      BY <1>3, <2>1, <2>3 DEF QueueSyncInv
  <1>7. ASSUME NEW x \in Queues, NoCallFor(x)'
        PROVE  Agree(queueByName', queueStore, x)
    <2>1. \A i \in DOMAIN queueCalls : i # 1 => queueCalls[i].queue # x
      BY <1>2, <1>7 DEF NoCallFor
    <2>2. CASE x # c.queue
      <3>1. NoCallFor(x)
        BY <2>1, <2>2 DEF NoCallFor
      <3>2. Agree(queueByName, queueStore, x)
        BY <3>1 DEF QueueSyncInv
      <3> HIDE DEF c
      <3> QED
        BY <1>4, <1>5, <2>2, <3>2, QueueOpsAgree DEF Agree
    <2>3. CASE x = c.queue
      <3>1. \A j \in DOMAIN queueCalls : j > 1 => j # 1
        BY <1>1
      <3>2. LastCall(1)
        BY <2>1, <2>3, <3>1 DEF LastCall
      <3>3. Tells(c, queueStore)
        BY <1>2, <3>2 DEF QueueSyncInv
      <3> HIDE DEF c
      <3> QED
        <4>1. CASE c.call \in {"add", "update"}
          <5>1. c.queue \in DOMAIN queueByName' /\ queueByName'[c.queue].max = c.max
            BY <1>4, <1>5, <4>1, QueueOpsAgree
          <5> QED
            BY <2>3, <3>3, <4>1, <5>1 DEF Agree, Tells
        <4>2. CASE c.call = "delete"
          <5>1. c.queue \notin DOMAIN queueByName'
            BY <1>4, <4>2 DEF Delete
          <5> QED
            BY <2>3, <3>3, <4>2, <5>1 DEF Agree, Tells
        <4> QED
          BY <1>4, <4>1, <4>2
    <2> QED
      BY <2>2, <2>3
  <1> QED
    BY <1>3, <1>6, <1>7 DEF QueueSyncInv

\* A step that leaves the queues' cache and calls alone, and the names and
\* maxima in the manager.
LEMMA QuietKeepsQueueSync ==
    ASSUME QueueSyncInv, UNCHANGED <<queues, queueStore, queueCalls>>,
           queueWatchUp' => queueWatchUp,
           DOMAIN queueByName' = DOMAIN queueByName,
           \A q \in DOMAIN queueByName : queueByName'[q].max = queueByName[q].max
    PROVE  QueueSyncInv'
  BY DEF QueueSyncInv, LastCall, NoCallFor, Agree

\* Every step of the system keeps the invariant.
LEMMA QueueSyncNext ==
    ASSUME TypeOK, QueueSyncInv, [Next]_vars
    PROVE  QueueSyncInv'
  <1> USE DEF apiVars, queueVars, queueApiVars
  <1>1. ASSUME UNCHANGED <<queues, queueStore, queueCalls>>, queueWatchUp' => queueWatchUp,
               \/ queueByName' = queueByName
               \/ \E o : \/ queueByName' = AddPod(queueByName, o)
                        \/ queueByName' = DeletePod(queueByName, o)
        PROVE  QueueSyncInv'
    <2>1. /\ DOMAIN queueByName' = DOMAIN queueByName
          /\ \A q \in DOMAIN queueByName : queueByName'[q].max = queueByName[q].max
      BY <1>1, PodOpsKeepQueues DEF TypeOK
    <2> QED
      BY <1>1, <2>1, QuietKeepsQueueSync
  <1>2. ASSUME NEW p \in Pods,
               CreatePod(p) \/ RemovePod(p) \/ FinishPod(p) \/ ForeignBind(p) \/ ResizePod(p)
        PROVE  QueueSyncInv'
    BY <1>1, <1>2 DEF CreatePod, RemovePod, FinishPod, ForeignBind, ResizePod
  <1>3. ASSUME NEW p \in Pods,
               PreFilter(p) \/ SchedulingCycle(p) \/ BindingCycle(p) \/ BindUnanswered(p)
               \/ Nominate(p) \/ ClearNomination(p)
        PROVE  QueueSyncInv'
    BY <1>1, <1>3 DEF PreFilter, SchedulingCycle, BindingCycle, BindUnanswered, Nominate,
                      ClearNomination, Unschedulable, Reserve, ReserveFails, Bind, Unreserve
  <1>4. ASSUME WatchDown \/ Relist \/ QueueWatchDown \/ PodHandlers \/ UNCHANGED vars
        PROVE  QueueSyncInv'
    BY <1>1, <1>4 DEF WatchDown, Relist, QueueWatchDown, PodHandlers, addPod, updatePod,
                      deletePod, deletePodTombstone, vars
  <1>5. ASSUME NEW q \in Queues, NEW max \in Maxes, CreateQueue(q, max)
        PROVE  QueueSyncInv'
    <2> DEFINE new == [x \in DOMAIN queues \cup {q} |-> IF x = q THEN max ELSE queues[x]]
               c == QueueCall("add", q, max)
    <2>1. WriteQueues(new, c) /\ queueByName' = queueByName
      BY <1>5 DEF CreateQueue
    <2>2. c \in QueueCalls /\ c.queue = q /\ Tells(c, new)
      BY DEF QueueCall, QueueCalls, Tells
    <2>3. \A x \in Queues : x # q => /\ x \in DOMAIN new <=> x \in DOMAIN queues
                                     /\ x \in DOMAIN queues => new[x] = queues[x]
      OBVIOUS
    <2> HIDE DEF new, c
    <2> QED
      BY <2>1, <2>2, <2>3, EditKeepsQueueSync
  <1>6. ASSUME NEW q \in Queues, NEW max \in Maxes, ChangeQueue(q, max)
        PROVE  QueueSyncInv'
    <2> DEFINE new == [queues EXCEPT ![q] = max]
               c == QueueCall("update", q, max)
    <2>1. WriteQueues(new, c) /\ queueByName' = queueByName /\ q \in DOMAIN queues
      BY <1>6 DEF ChangeQueue
    <2>2. c \in QueueCalls /\ c.queue = q /\ Tells(c, new)
      BY <2>1 DEF QueueCall, QueueCalls, Tells
    <2>3. \A x \in Queues : x # q => /\ x \in DOMAIN new <=> x \in DOMAIN queues
                                     /\ x \in DOMAIN queues => new[x] = queues[x]
      OBVIOUS
    <2> HIDE DEF new, c
    <2> QED
      BY <2>1, <2>2, <2>3, EditKeepsQueueSync
  <1>7. ASSUME NEW q \in Queues, RemoveQueue(q)
        PROVE  QueueSyncInv'
    <2> DEFINE new == [x \in DOMAIN queues \ {q} |-> queues[x]]
               c == QueueCall("delete", q, queues[q])
    <2>1. WriteQueues(new, c) /\ queueByName' = queueByName /\ q \in DOMAIN queues
      BY <1>7 DEF RemoveQueue
    <2>2. c \in QueueCalls /\ c.queue = q /\ Tells(c, new)
      BY <2>1 DEF QueueCall, QueueCalls, Tells, TypeOK
    <2>3. \A x \in Queues : x # q => /\ x \in DOMAIN new <=> x \in DOMAIN queues
                                     /\ x \in DOMAIN queues => new[x] = queues[x]
      OBVIOUS
    <2> HIDE DEF new, c
    <2> QED
      BY <2>1, <2>2, <2>3, EditKeepsQueueSync
  <1>8. CASE QueueRelist
    BY <1>8, RelistKeepsQueueSync
  <1>9. CASE addQueue \/ updateQueue \/ deleteQueue
    BY <1>9, HandlersKeepQueueSync
  <1>10. CASE Restart \/ deleteQueueTombstone
    BY <1>10, NewProcessQueueSync DEF Restart, deleteQueueTombstone
  <1> QED
    BY <1>2, <1>3, <1>4, <1>5, <1>6, <1>7, <1>8, <1>9, <1>10 DEF Next, QueueHandlers

\* With the queue watch up and its calls handled, the manager has the queues
\* of the API server and their maxima: whatever was created, changed and
\* removed while the watch was down, in whatever order a relist delivers it,
\* and although a deletion that is only inferred crashes the process
\* (deleteQueue on a tombstone).
THEOREM QueuesAlwaysInSync == Spec => []QueuesInSync
  <1>1. TypeOK /\ QueueSyncInv => QueuesInSync
    <2> SUFFICES ASSUME TypeOK, QueueSyncInv, queueCalls = <<>>, queueWatchUp
                 PROVE  /\ DOMAIN queueByName = DOMAIN queues
                        /\ \A q \in DOMAIN queues : queueByName[q].max = queues[q]
      BY DEF QueuesInSync
    <2>1. \A q \in Queues : Agree(queueByName, queues, q)
      BY DEF QueueSyncInv, NoCallFor
    <2>2. DOMAIN queueByName \subseteq Queues /\ DOMAIN queues \subseteq Queues
      BY DEF TypeOK, ManagerTypeOK
    <2> QED
      BY <2>1, <2>2 DEF Agree
  <1>2. Init => QueueSyncInv
    <2>1. \A max : NewQueue(max).max = max
      BY DEF NewQueue, SetMax, NewQuota
    <2> QED
      BY <2>1 DEF Init, QueueSyncInv, Agree
  <1>3. TypeOK /\ QueueSyncInv /\ [Next]_vars => QueueSyncInv'
    BY QueueSyncNext
  <1> QED
    BY <1>1, <1>2, <1>3, TypeCorrect, PTL DEF Spec
=============================================================================
