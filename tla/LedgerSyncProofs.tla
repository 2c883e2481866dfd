-------------------------- MODULE LedgerSyncProofs --------------------------
(***************************************************************************)
(* The ledgers follow the cluster: theorems about QuotaScheduling for any  *)
(* pods, queues, requests and quotas, in a process that is not restarted,  *)
(* whose queues keep their maxima and whose binds are answered.            *)
(***************************************************************************)
EXTENDS QuotaSchedulingProofs

-----------------------------------------------------------------------------
(* The queues stay as they are.                                            *)

\* The calls that wait for the queue handlers are those of a relist that found
\* nothing changed.
QueuesFixed ==
    /\ queues = InitialMax /\ queueStore = InitialMax
    /\ DOMAIN queueByName = DOMAIN InitialMax
    /\ \A q \in DOMAIN InitialMax : queueByName[q].max = InitialMax[q]
    /\ \A i \in DOMAIN queueCalls :
          /\ queueCalls[i].call = "update"
          /\ queueCalls[i].queue \in DOMAIN InitialMax
          /\ queueCalls[i].max = InitialMax[queueCalls[i].queue]

\* Nothing that changes the queues or ends the process is among the
\* disruptions.
QueuesKept == Disruptions \cap {"queueLifecycle", "restart"} = {}

\* The manager maps the same names to the same queues.
SameQueues ==
    /\ DOMAIN queueByName' = DOMAIN queueByName
    /\ \A q \in DOMAIN queueByName : queueByName'[q] = queueByName[q]

\* Setting the maximum a queue has already changes nothing.
LEMMA UpdateSame ==
    ASSUME NEW qm, ManagerTypeOK(qm), NEW q \in DOMAIN qm
    PROVE  /\ DOMAIN Update(qm, q, qm[q].max) = DOMAIN qm
           /\ \A x \in DOMAIN qm : Update(qm, q, qm[q].max)[x] = qm[x]
  <1>1. qm[q] = [max |-> qm[q].max, used |-> qm[q].used, podsByID |-> qm[q].podsByID]
    BY DEF ManagerTypeOK, QuotaTypeOK
  <1>2. SetMax(qm[q], qm[q].max) = qm[q]
    BY <1>1 DEF SetMax
  <1>3. Update(qm, q, qm[q].max) = [qm EXCEPT ![q] = SetMax(qm[q], qm[q].max)]
    BY DEF Update
  <1> QED
    BY <1>2, <1>3

\* The call at the head of the queue handlers' calls, and the calls behind it.
LEMMA QueuesFixedHead ==
    ASSUME TypeOK, QueuesFixed, queueCalls # <<>>
    PROVE  /\ Head(queueCalls).call = "update"
           /\ Head(queueCalls).queue \in DOMAIN InitialMax
           /\ Head(queueCalls).max = InitialMax[Head(queueCalls).queue]
           /\ \A i \in DOMAIN Tail(queueCalls) :
                 /\ Tail(queueCalls)[i].call = "update"
                 /\ Tail(queueCalls)[i].queue \in DOMAIN InitialMax
                 /\ Tail(queueCalls)[i].max = InitialMax[Tail(queueCalls)[i].queue]
  <1>1. queueCalls \in Seq(QueueCalls)
    BY DEF TypeOK
  <1>2. /\ Head(queueCalls) = queueCalls[1] /\ 1 \in DOMAIN queueCalls
        /\ \A i \in DOMAIN Tail(queueCalls) :
              i + 1 \in DOMAIN queueCalls /\ Tail(queueCalls)[i] = queueCalls[i + 1]
    BY <1>1
  <1> QED
    BY <1>2 DEF QueuesFixed

\* The queue handlers change nothing.
LEMMA QueueHandlersIdle ==
    ASSUME TypeOK, QueuesFixed, QueueHandlers
    PROVE  /\ SameQueues
           /\ queueCalls # <<>> /\ queueCalls' = Tail(queueCalls)
           /\ UNCHANGED <<apiVars, queueApiVars, step, nominated>>
  <1>1. queueCalls # <<>>
    BY DEF QueueHandlers, addQueue, updateQueue, deleteQueue, deleteQueueTombstone, Handle
  <1>2. updateQueue
    BY <1>1, QueuesFixedHead
    DEF QueueHandlers, addQueue, updateQueue, deleteQueue, deleteQueueTombstone, Handle
  <1> DEFINE q == Head(queueCalls).queue
  <1>3. q \in DOMAIN queueByName /\ Head(queueCalls).max = queueByName[q].max
    BY <1>1, QueuesFixedHead DEF QueuesFixed
  <1>4. queueByName' = Update(queueByName, q, queueByName[q].max)
    BY <1>2, <1>3 DEF updateQueue
  <1>5. SameQueues
    BY <1>3, <1>4, UpdateSame DEF SameQueues, TypeOK
  <1> QED
    BY <1>1, <1>2, <1>5 DEF updateQueue

\* Nothing changes the queues.
LEMMA QueuesFixedNext ==
    ASSUME QueuesKept, TypeOK, QueuesFixed, [Next]_vars
    PROVE  QueuesFixed'
  <1> USE DEF apiVars, queueVars, queueApiVars
  <1>0. \A kind \in {"queueLifecycle", "restart"} : ~Disrupt(kind)
    BY DEF QueuesKept, Disrupt
  <1>1. ASSUME UNCHANGED <<queues, queueStore, queueCalls>>,
               \/ queueByName' = queueByName
               \/ \E o : \/ queueByName' = AddPod(queueByName, o)
                        \/ queueByName' = DeletePod(queueByName, o)
        PROVE  QueuesFixed'
    <2>1. /\ DOMAIN queueByName' = DOMAIN queueByName
          /\ \A q \in DOMAIN queueByName : queueByName'[q].max = queueByName[q].max
      BY <1>1, PodOpsKeepQueues DEF TypeOK
    <2> QED
      BY <1>1, <2>1 DEF QueuesFixed
  <1>2. ASSUME NEW p \in Pods,
               CreatePod(p) \/ RemovePod(p) \/ FinishPod(p) \/ ForeignBind(p) \/ ResizePod(p)
        PROVE  QueuesFixed'
    BY <1>1, <1>2 DEF CreatePod, RemovePod, FinishPod, ForeignBind, ResizePod
  <1>3. ASSUME NEW p \in Pods,
               PreFilter(p) \/ SchedulingCycle(p) \/ BindingCycle(p) \/ BindUnanswered(p)
               \/ Nominate(p) \/ ClearNomination(p)
        PROVE  QueuesFixed'
    BY <1>1, <1>3 DEF PreFilter, SchedulingCycle, BindingCycle, BindUnanswered, Nominate,
                      ClearNomination, Unschedulable, Reserve, ReserveFails, Bind, Unreserve
  <1>4. ASSUME WatchDown \/ Relist \/ QueueWatchDown \/ PodHandlers \/ UNCHANGED vars
        PROVE  QueuesFixed'
    BY <1>1, <1>4 DEF WatchDown, Relist, QueueWatchDown, PodHandlers, addPod, updatePod,
                      deletePod, deletePodTombstone, vars
  <1>5. ASSUME NEW q \in Queues,
               (\E max \in Maxes : CreateQueue(q, max) \/ ChangeQueue(q, max)) \/ RemoveQueue(q)
        PROVE  QueuesFixed'
    BY <1>0, <1>5 DEF CreateQueue, ChangeQueue, RemoveQueue
  <1>6. CASE QueueRelist
    <2> DEFINE S == DOMAIN queueStore \cup DOMAIN queues
    <2>1. PICK order \in Orders(S) :
            queueCalls' = queueCalls \o [i \in DOMAIN order |-> QueueRelistCall(order[i])]
      BY <1>6 DEF QueueRelist
    <2> DEFINE t == [i \in DOMAIN order |-> QueueRelistCall(order[i])]
    <2>2. S = DOMAIN InitialMax
      BY DEF QueuesFixed
    <2>3. order \in Seq(S)
      BY PodsAssumption, FS_Subset, OrdersType DEF TypeOK
    <2>4. \A q \in S : /\ QueueRelistCall(q) = QueueCall("update", q, InitialMax[q])
                       /\ QueueRelistCall(q) \in QueueCalls
      BY <2>2 DEF QueueRelistCall, QueuesFixed, TypeOK, QueueCalls, QueueCall
    <2>5. t \in Seq(QueueCalls) /\ DOMAIN t = DOMAIN order
      BY <2>3, <2>4
    <2>6. \A i \in DOMAIN t : /\ t[i].call = "update"
                              /\ t[i].queue \in DOMAIN InitialMax
                              /\ t[i].max = InitialMax[t[i].queue]
      BY <2>2, <2>3, <2>4 DEF QueueCall
    <2> HIDE DEF t
    <2>7. queueCalls \in Seq(QueueCalls)
      BY DEF TypeOK
    <2>8. \A i \in DOMAIN (queueCalls \o t) :
             \/ i \in DOMAIN queueCalls /\ (queueCalls \o t)[i] = queueCalls[i]
             \/ i - Len(queueCalls) \in DOMAIN t /\ (queueCalls \o t)[i] = t[i - Len(queueCalls)]
      BY <2>5, <2>7
    <2>9. queueCalls' = queueCalls \o t
      BY <2>1 DEF t
    <2>10. \A i \in DOMAIN queueCalls' :
              /\ queueCalls'[i].call = "update"
              /\ queueCalls'[i].queue \in DOMAIN InitialMax
              /\ queueCalls'[i].max = InitialMax[queueCalls'[i].queue]
      BY <2>6, <2>8, <2>9 DEF QueuesFixed
    <2>11. UNCHANGED <<queues, queueByName>> /\ queueStore' = queues
      BY <1>6 DEF QueueRelist
    <2> QED
      BY <2>10, <2>11 DEF QueuesFixed
  <1>7. CASE QueueHandlers
    <2>1. SameQueues /\ queueCalls # <<>> /\ queueCalls' = Tail(queueCalls)
          /\ UNCHANGED <<queues, queueStore>>
      BY <1>7, QueueHandlersIdle
    <2> QED
      BY <2>1, QueuesFixedHead DEF QueuesFixed, SameQueues
  <1>8. CASE Restart
    BY <1>0, <1>8 DEF Restart
  <1> QED
    BY <1>2, <1>3, <1>4, <1>5, <1>6, <1>7, <1>8 DEF Next

\* QueuesFixed holds at first.
LEMMA QueuesFixedInit == Init => QueuesFixed
  <1>1. \A max : NewQueue(max).max = max
    BY DEF NewQueue, SetMax, NewQuota
  <1> QED
    BY <1>1 DEF Init, QueuesFixed

-----------------------------------------------------------------------------
(* The inductive invariant.                                                *)

\* The informer's cache is never ahead of the API server.
StoreBehind ==
    \A p \in Pods :
        /\ watchUp => podStore[p] = pods[p]
        /\ podStore[p].life = "gone" => pods[p].life = "gone"
        /\ podStore[p].phase = "Terminal" => pods[p].phase = "Terminal"
        /\ podStore[p].bound => pods[p].bound

\* A pod that has finished was bound, and a pod that is bound was created.
LifeCycle ==
    \A p \in Pods :
        /\ pods[p].phase = "Terminal" => pods[p].bound
        /\ podStore[p].phase = "Terminal" => podStore[p].bound
        /\ pods[p].life = "new" => ~pods[p].bound
        /\ podStore[p].life = "new" => ~podStore[p].bound

\* What a waiting call tells is in the cache already, and an add is the first
\* call of its pod.
CallsBehind ==
    \A i \in DOMAIN podCalls :
        LET c == podCalls[i]
            p == c.pod.uid
        IN  /\ podStore[p].bound
            /\ c.call = "delete" => podStore[p].life = "gone"
            /\ c.call = "update" /\ c.pod.phase = "Terminal" => podStore[p].phase = "Terminal"
            /\ c.call = "add" => \A j \in 1..(i - 1) : podCalls[j].pod.uid # p

\* The cache has p departed: a call that takes p off its ledger may be made.
StoreDeparted(p) == podStore[p].life = "gone" \/ podStore[p].phase = "Terminal"

\* An add of p waits for the pod handlers.
AddWaits(p) == \E i \in DOMAIN podCalls : podCalls[i].call = "add" /\ podCalls[i].pod.uid = p

\* From Reserve on a pod of this scheduler is counted, until a call that takes
\* it off may have been made; and as long as its add waits.
OwnReserved ==
    \A p \in Pods \ ForeignPods :
        /\ pods[p].bound => step[p] = "done"
        /\ QueueOf[p] \in DOMAIN queueByName =>
              /\ step[p] \in {"binding", "done"} /\ ~StoreDeparted(p) => Counted(p)
              /\ AddWaits(p) => Counted(p)

\* A pod of another scheduler is counted once its add has been handled.
ForeignAdded ==
    \A p \in ForeignPods :
        /\ step[p] = "queued"
        /\ QueueOf[p] \in DOMAIN queueByName /\ podStore[p].bound /\ ~StoreDeparted(p) =>
              Counted(p) \/ AddWaits(p)

\* The inductive invariant of OwnPodsCounted and NothingMissed.
SyncInv == QueuesFixed /\ StoreBehind /\ LifeCycle /\ CallsBehind /\ OwnReserved /\ ForeignAdded

\* A call that takes its pod off its ledger.
TakesOff(c) ==
    \/ c.call = "delete"
    \/ c.call = "update" /\ c.old.phase # "Terminal" /\ c.pod.phase = "Terminal"

\* The cache has p hold nothing any more, or nothing yet.
HoldsNothing(p) == ~podStore[p].bound \/ StoreDeparted(p)

\* A call that takes p off its ledger waits behind call i.
TakenOffAfter(p, i) ==
    \E j \in DOMAIN podCalls : j > i /\ TakesOff(podCalls[j]) /\ podCalls[j].pod.uid = p

\* A pod that holds nothing is counted only while it is being bound or a call
\* that takes it off waits, behind its add if that waits too.
PhantomInv ==
    /\ watchUp
    /\ \A p \in Pods : HoldsNothing(p) =>
          /\ Counted(p) => step[p] = "binding" \/ TakenOffAfter(p, 0)
          /\ \A i \in DOMAIN podCalls :
                podCalls[i].call = "add" /\ podCalls[i].pod.uid = p => TakenOffAfter(p, i)

-----------------------------------------------------------------------------
(* What the informer does, at a write or at a relist: the cache moves      *)
(* ahead, and the calls for what changed join those that wait.             *)

\* new is what an object o may have become.
Ahead(o, new) ==
    /\ o.life = "gone" => new.life = "gone"
    /\ o.phase = "Terminal" => new.phase = "Terminal"
    /\ o.bound => new.bound
    /\ new.phase = "Terminal" => new.bound
    /\ new.life = "new" => ~new.bound

\* The calls of t are those the changes of the cache make, in some order.
InformerStep(t) ==
    /\ t \in Seq(PodCalls)
    /\ podCalls' = podCalls \o t
    /\ \A p \in Pods : podStore'[p] \in PodObjects(p) /\ Ahead(podStore[p], podStore'[p])
    /\ \A i \in DOMAIN t : \E kind \in {"delete", "tombstone"}, p \in Pods :
          CallsFor(podStore[p], podStore'[p], kind) = <<t[i]>>
    /\ \A i, j \in DOMAIN t : t[i].pod.uid = t[j].pod.uid => i = j
    /\ \A p \in Pods :
          FilterFunc(podStore'[p]) /\ ~FilterFunc(podStore[p]) =>
              \E i \in DOMAIN t : t[i].call = "add" /\ t[i].pod.uid = p

\* What a call says of the objects before and after the change.
LEMMA CallMeans ==
    ASSUME NEW p \in Pods, NEW old \in PodObjects(p), NEW new \in PodObjects(p),
           Ahead(old, new), old.life = "new" => ~old.bound,
           NEW kind \in {"delete", "tombstone"}, NEW c, CallsFor(old, new, kind) = <<c>>
    PROVE  /\ c.pod.uid = p
           /\ new.bound
           /\ c.call = "delete" => new.life = "gone"
           /\ c.call = "update" /\ c.pod.phase = "Terminal" => new.phase = "Terminal"
           /\ c.call = "add" => ~old.bound /\ FilterFunc(new)
           /\ c.call = "add" <=> FilterFunc(new) /\ ~FilterFunc(old)
  <1>1. old.uid = p /\ new.uid = p /\ old.bound \in BOOLEAN /\ new.bound \in BOOLEAN
        /\ old.life \in {"new", "live", "gone"} /\ new.life \in {"new", "live", "gone"}
    BY DEF PodObjects
  <1>2. CASE FilterFunc(old) /\ FilterFunc(new)
    <2>1. c = [call |-> "update", old |-> old, pod |-> new]
      BY <1>2 DEF CallsFor
    <2> QED
      BY <1>1, <1>2, <2>1 DEF FilterFunc
  <1>3. CASE ~FilterFunc(old) /\ FilterFunc(new)
    <2>1. c = [call |-> "add", old |-> old, pod |-> new]
      BY <1>3 DEF CallsFor
    <2>2. ~old.bound
      BY <1>1, <1>3 DEF FilterFunc, Ahead
    <2> QED
      BY <1>1, <1>3, <2>1, <2>2 DEF FilterFunc
  <1>4. CASE FilterFunc(old) /\ ~FilterFunc(new)
    <2>1. c = [call |-> kind, old |-> old, pod |-> old]
      BY <1>4 DEF CallsFor
    <2>2. new.bound /\ new.life = "gone"
      BY <1>1, <1>4 DEF FilterFunc, Ahead
    <2> QED
      BY <1>1, <1>4, <2>1, <2>2 DEF FilterFunc
  <1>5. CASE ~FilterFunc(old) /\ ~FilterFunc(new)
    <2>1. CallsFor(old, new, kind) = <<>>
      BY <1>5 DEF CallsFor
    <2> QED
      BY <2>1
  <1> QED
    BY <1>2, <1>3, <1>4, <1>5

\* The calls that wait stay behind the cache when the informer moves.
LEMMA CallsBehindInformer ==
    ASSUME TypeOK, LifeCycle, CallsBehind, NEW t, InformerStep(t)
    PROVE  CallsBehind'
  <1>1. podCalls \in Seq(PodCalls) /\ t \in Seq(PodCalls) /\ podCalls' = podCalls \o t
    BY DEF TypeOK, InformerStep
  <1>2. \A p \in Pods : podStore[p] \in PodObjects(p) /\ (podStore[p].life = "new" => ~podStore[p].bound)
    BY DEF TypeOK, LifeCycle
  <1>3. \A i \in DOMAIN podCalls : podCalls[i].pod.uid \in Pods
    BY <1>1 DEF PodCalls, PodObjects
  <1>4. ASSUME NEW k \in DOMAIN t
        PROVE  LET u == t[k].pod.uid
               IN  /\ u \in Pods
                   /\ podStore'[u].bound
                   /\ t[k].call = "delete" => podStore'[u].life = "gone"
                   /\ t[k].call = "update" /\ t[k].pod.phase = "Terminal" =>
                         podStore'[u].phase = "Terminal"
                   /\ t[k].call = "add" => ~podStore[u].bound
    <2>1. PICK kind \in {"delete", "tombstone"}, p \in Pods :
            CallsFor(podStore[p], podStore'[p], kind) = <<t[k]>>
      BY DEF InformerStep
    <2>2. podStore'[p] \in PodObjects(p) /\ Ahead(podStore[p], podStore'[p])
      BY DEF InformerStep
    <2> QED
      BY <1>2, <2>1, <2>2, CallMeans
  <1>5. \A p \in Pods : Ahead(podStore[p], podStore'[p])
    BY DEF InformerStep
  <1> SUFFICES ASSUME NEW i \in DOMAIN podCalls'
               PROVE  LET c == podCalls'[i]
                          p == c.pod.uid
                      IN  /\ podStore'[p].bound
                          /\ c.call = "delete" => podStore'[p].life = "gone"
                          /\ c.call = "update" /\ c.pod.phase = "Terminal" =>
                                podStore'[p].phase = "Terminal"
                          /\ c.call = "add" => \A j \in 1..(i - 1) : podCalls'[j].pod.uid # p
    BY DEF CallsBehind
  <1>6. CASE i \in DOMAIN podCalls /\ podCalls'[i] = podCalls[i]
    <2>1. \A j \in 1..(i - 1) : podCalls'[j] = podCalls[j]
      BY <1>1, <1>6
    <2> QED
      BY <1>3, <1>5, <1>6, <2>1 DEF CallsBehind, Ahead
  <1>7. CASE /\ i > Len(podCalls) /\ i - Len(podCalls) \in DOMAIN t
             /\ podCalls'[i] = t[i - Len(podCalls)]
    <2> DEFINE k == i - Len(podCalls)
               u == t[k].pod.uid
    <2>1. ASSUME t[k].call = "add", NEW j \in 1..(i - 1)
          PROVE  podCalls'[j].pod.uid # u
      <3>1. CASE j \in DOMAIN podCalls /\ podCalls'[j] = podCalls[j]
        BY <1>4, <1>7, <2>1, <3>1 DEF CallsBehind
      <3>2. CASE j - Len(podCalls) \in DOMAIN t /\ podCalls'[j] = t[j - Len(podCalls)]
        <4>1. j - Len(podCalls) # k
          BY <1>1
        <4> QED
          BY <1>7, <3>2, <4>1 DEF InformerStep
      <3>3. j \in DOMAIN podCalls'
        BY <1>1
      <3> QED
        BY <1>1, <3>1, <3>2, <3>3, ConcatIndex
    <2> QED
      BY <1>4, <1>7, <2>1
  <1> QED
    BY <1>1, <1>6, <1>7, ConcatIndex

\* The cache is ahead of itself, and the API server ahead of the cache.
LEMMA AheadOfStore ==
    ASSUME TypeOK, StoreBehind, LifeCycle, NEW p \in Pods
    PROVE  /\ Ahead(podStore[p], podStore[p])
           /\ Ahead(podStore[p], pods[p])
           /\ Ahead(pods[p], pods[p])
  BY DEF TypeOK, StoreBehind, LifeCycle, Ahead

\* A write is such a step of the informer.
LEMMA WriteInforms ==
    ASSUME TypeOK, StoreBehind, LifeCycle, NEW p \in Pods, NEW new \in PodObjects(p),
           Ahead(pods[p], new), Write(p, new)
    PROVE  /\ \E t : InformerStep(t)
           /\ StoreBehind' /\ LifeCycle'
  <1>1. pods' = [pods EXCEPT ![p] = new] /\ watchUp' = watchUp
    BY DEF Write
  <1>2. /\ \A x \in Pods : Ahead(pods[x], pods[x]) /\ Ahead(podStore[x], podStore[x])
        /\ \A x \in Pods : Ahead(podStore[x], pods[x])
    BY AheadOfStore
  <1>3. /\ DOMAIN pods = Pods /\ DOMAIN podStore = Pods
        /\ \A x \in Pods : podStore[x] \in PodObjects(x)
        /\ \A x \in Pods : podStore[x].life = "new" => ~podStore[x].bound
    BY DEF TypeOK, LifeCycle
  <1>4. CASE watchUp
    <2>1. podStore' = [podStore EXCEPT ![p] = new] /\ podStore[p] = pods[p]
      BY <1>4 DEF Write, StoreBehind
    <2> DEFINE t == CallsFor(podStore[p], new, "delete")
    <2>2. t \in Seq(PodCalls)
      BY <1>3, CallsForType
    <2>3. podCalls' = podCalls \o t
      BY <1>4 DEF Write
    <2>4. \A x \in Pods : podStore'[x] \in PodObjects(x) /\ Ahead(podStore[x], podStore'[x])
      BY <1>2, <1>3, <2>1
    <2>5. t = <<>> \/ \E c : t = <<c>>
      BY DEF CallsFor
    <2>6. podStore'[p] = new /\ CallsFor(podStore[p], podStore'[p], "delete") = t
      BY <1>3, <2>1
    <2>7. FilterFunc(podStore'[p]) /\ ~FilterFunc(podStore[p]) =>
             \E c : t = <<c>> /\ c.call = "add" /\ c.pod.uid = p
      BY <2>6 DEF CallsFor, PodObjects
    <2>8. \A x \in Pods \ {p} : podStore'[x] = podStore[x]
      BY <1>3, <2>1
    <2> HIDE DEF t
    <2>9. \A i \in DOMAIN t : i = 1 /\ t = <<t[i]>>
      BY <2>5
    <2>10. InformerStep(t)
      <3>1. \A i \in DOMAIN t : \E kind \in {"delete", "tombstone"}, x \in Pods :
              CallsFor(podStore[x], podStore'[x], kind) = <<t[i]>>
        BY <2>6, <2>9
      <3>2. \A i, j \in DOMAIN t : t[i].pod.uid = t[j].pod.uid => i = j
        BY <2>9
      <3>3. \A x \in Pods : FilterFunc(podStore'[x]) /\ ~FilterFunc(podStore[x]) =>
              \E i \in DOMAIN t : t[i].call = "add" /\ t[i].pod.uid = x
        BY <2>7, <2>8
      <3> QED
        BY <2>2, <2>3, <2>4, <3>1, <3>2, <3>3 DEF InformerStep
    <2> QED
      BY <1>1, <1>2, <1>3, <2>1, <2>10 DEF StoreBehind, LifeCycle, Ahead
  <1>5. CASE ~watchUp
    <2>1. UNCHANGED <<podStore, podCalls>>
      BY <1>5 DEF Write
    <2>2. podCalls' = podCalls \o <<>> /\ <<>> \in Seq(PodCalls)
      BY <2>1 DEF TypeOK
    <2>3. InformerStep(<<>>)
      BY <1>2, <1>3, <2>1, <2>2 DEF InformerStep
    <2> QED
      BY <1>1, <1>2, <1>3, <1>5, <2>1, <2>3 DEF StoreBehind, LifeCycle, Ahead
  <1> QED
    BY <1>4, <1>5 DEF TypeOK

\* So is a relist.
LEMMA RelistInforms ==
    ASSUME TypeOK, StoreBehind, LifeCycle, Relist
    PROVE  /\ \E t : InformerStep(t)
           /\ StoreBehind' /\ LifeCycle'
  <1> DEFINE S == {p \in Stale : FilterFunc(podStore[p]) \/ FilterFunc(pods[p])}
  <1>1. PICK order \in Orders(S) : podCalls' = podCalls \o RelistCalls(order)
    BY DEF Relist
  <1>2. podStore' = pods /\ pods' = pods /\ watchUp' = TRUE
    BY DEF Relist
  <1>3. IsFiniteSet(S) /\ S \subseteq Pods
    BY PodsAssumption, FS_Subset DEF Stale
  <1>4. order \in Seq(S) /\ \A i, j \in DOMAIN order : order[i] = order[j] => i = j
    BY <1>3, OrdersType DEF Orders
  <1> DEFINE t == RelistCalls(order)
  <1>5. t \in Seq(PodCalls)
    BY <1>3, RelistCallsType DEF Stale
  <1>6. DOMAIN t = DOMAIN order
        /\ \A i \in DOMAIN t : t[i] = CallsFor(podStore[order[i]], pods[order[i]], "tombstone")[1]
    BY DEF RelistCalls
  <1>7. ASSUME NEW p \in S
        PROVE  CallsFor(podStore[p], pods[p], "tombstone")
                 = <<CallsFor(podStore[p], pods[p], "tombstone")[1]>>
    BY DEF CallsFor
  <1>8. \A p \in Pods : /\ podStore[p] \in PodObjects(p) /\ pods[p] \in PodObjects(p)
                        /\ Ahead(podStore[p], pods[p])
                        /\ podStore[p].life = "new" => ~podStore[p].bound
    BY AheadOfStore DEF TypeOK, LifeCycle
  <1> HIDE DEF t
  <1>9. ASSUME NEW i \in DOMAIN t
        PROVE  /\ order[i] \in S
               /\ CallsFor(podStore[order[i]], pods[order[i]], "tombstone") = <<t[i]>>
               /\ t[i].pod.uid = order[i]
               /\ t[i].call = "add" <=> FilterFunc(pods[order[i]]) /\ ~FilterFunc(podStore[order[i]])
    <2>1. order[i] \in S
      BY <1>4, <1>6
    <2>2. CallsFor(podStore[order[i]], pods[order[i]], "tombstone") = <<t[i]>>
      BY <1>6, <1>7, <2>1
    <2> QED
      BY <1>3, <1>8, <2>1, <2>2, CallMeans
  <1>10. \A i, j \in DOMAIN t : t[i].pod.uid = t[j].pod.uid => i = j
    BY <1>4, <1>6, <1>9
  <1>11. ASSUME NEW p \in Pods, FilterFunc(pods[p]), ~FilterFunc(podStore[p])
         PROVE  \E i \in DOMAIN t : t[i].call = "add" /\ t[i].pod.uid = p
    <2>1. p \in S
      BY <1>11 DEF Stale
    <2>2. PICK i \in DOMAIN order : order[i] = p
      BY <1>3, <2>1, OrdersOnto
    <2> QED
      BY <1>6, <1>9, <1>11, <2>2
  <1>12. InformerStep(t)
    <2>1. podCalls' = podCalls \o t
      BY <1>1 DEF t
    <2>2. \A i \in DOMAIN t : \E kind \in {"delete", "tombstone"}, p \in Pods :
            CallsFor(podStore[p], podStore'[p], kind) = <<t[i]>>
      BY <1>2, <1>3, <1>9
    <2> QED
      BY <1>2, <1>5, <1>8, <1>10, <1>11, <2>1, <2>2 DEF InformerStep
  <1> QED
    BY <1>2, <1>12 DEF StoreBehind, LifeCycle

-----------------------------------------------------------------------------
(* The manager's operations, seen by who is counted.                       *)

\* A pod added is counted if its queue is known, and nobody else is affected.
LEMMA CountedAdd ==
    ASSUME TypeOK, NEW p \in Pods, NEW o \in PodObjects(p),
           queueByName' = AddPod(queueByName, o)
    PROVE  /\ DOMAIN queueByName' = DOMAIN queueByName
           /\ \A x \in Pods :
                 Counted(x)' <=> Counted(x) \/ (x = p /\ QueueOf[p] \in DOMAIN queueByName)
  <1> DEFINE q == QueueOf[p]
  <1>1. o.uid = p /\ o.queue = q
    BY DEF PodObjects
  <1>2. CASE q \notin DOMAIN queueByName
    BY <1>1, <1>2 DEF AddPod, HasQueue, Counted
  <1>3. CASE q \in DOMAIN queueByName
    <2>1. queueByName' = [queueByName EXCEPT ![q] = AddPodIfNotPresent(queueByName[q], o)]
      BY <1>1, <1>3 DEF AddPod, HasQueue
    <2>2. queueByName[q] = [max |-> queueByName[q].max, used |-> queueByName[q].used,
                            podsByID |-> queueByName[q].podsByID]
      BY <1>3 DEF TypeOK, ManagerTypeOK, QuotaTypeOK
    <2>3. DOMAIN AddPodIfNotPresent(queueByName[q], o).podsByID
            = DOMAIN queueByName[q].podsByID \cup {p}
      BY <1>1, <2>2 DEF AddPodIfNotPresent, ContainsPod, MapSet
    <2> QED
      BY <1>3, <2>1, <2>3 DEF Counted
  <1> QED
    BY <1>2, <1>3

\* A pod deleted is not counted, and nobody else is affected.
LEMMA CountedDelete ==
    ASSUME TypeOK, NEW p \in Pods, NEW o \in PodObjects(p),
           queueByName' = DeletePod(queueByName, o)
    PROVE  /\ DOMAIN queueByName' = DOMAIN queueByName
           /\ \A x \in Pods : Counted(x)' <=> Counted(x) /\ x # p
  <1> DEFINE q == QueueOf[p]
  <1>1. o.uid = p /\ o.queue = q
    BY DEF PodObjects
  <1>2. CASE q \notin DOMAIN queueByName
    BY <1>1, <1>2 DEF DeletePod, HasQueue, Counted
  <1>3. CASE q \in DOMAIN queueByName
    <2>1. queueByName' = [queueByName EXCEPT ![q] = DeletePodIfPresent(queueByName[q], o)]
      BY <1>1, <1>3 DEF DeletePod, HasQueue
    <2>2. queueByName[q] = [max |-> queueByName[q].max, used |-> queueByName[q].used,
                            podsByID |-> queueByName[q].podsByID]
      BY <1>3 DEF TypeOK, ManagerTypeOK, QuotaTypeOK
    <2>3. DOMAIN DeletePodIfPresent(queueByName[q], o).podsByID
            = DOMAIN queueByName[q].podsByID \ {p}
      BY <1>1, <2>2 DEF DeletePodIfPresent, ContainsPod, MapDelete
    <2>4. \A x \in Pods : x # p /\ QueueOf[x] = q => (Counted(x)' <=> Counted(x))
      BY <1>3, <2>1, <2>3 DEF Counted
    <2>5. \A x \in Pods : QueueOf[x] # q => (Counted(x)' <=> Counted(x))
      BY <1>3, <2>1 DEF Counted
    <2>6. ~Counted(p)' /\ DOMAIN queueByName' = DOMAIN queueByName
      BY <1>3, <2>1, <2>3 DEF Counted
    <2> QED
      BY <2>4, <2>5, <2>6
  <1> QED
    BY <1>2, <1>3

\* Who is counted depends on the queues only.
LEMMA CountedSame ==
    ASSUME SameQueues
    PROVE  \A x : Counted(x)' <=> Counted(x)
  BY DEF SameQueues, Counted

-----------------------------------------------------------------------------
(* The steps of the system.                                                *)

\* What the next pod call is, and which calls are left.
LEMMA PodHandlersStep ==
    ASSUME TypeOK, PodHandlers
    PROVE  LET c == Head(podCalls)
               p == c.pod.uid
           IN  /\ c = podCalls[1] /\ 1 \in DOMAIN podCalls
               /\ p \in Pods /\ c.pod \in PodObjects(p)
               /\ podCalls' = Tail(podCalls)
               /\ \A i \in DOMAIN podCalls' :
                     i + 1 \in DOMAIN podCalls /\ podCalls'[i] = podCalls[i + 1]
               /\ \A i \in DOMAIN podCalls : i # 1 =>
                     i - 1 \in DOMAIN podCalls' /\ podCalls'[i - 1] = podCalls[i]
               /\ UNCHANGED <<pods, podStore, watchUp, queues, step, nominated>>
               /\ c.call = "add" => queueByName' = AddPod(queueByName, c.pod)
               /\ TakesOff(c) => queueByName' = DeletePod(queueByName, c.pod)
               /\ c.call # "add" /\ ~TakesOff(c) => queueByName' = queueByName
  <1>1. podCalls # <<>> /\ podCalls' = Tail(podCalls)
    BY DEF PodHandlers, addPod, updatePod, deletePod, deletePodTombstone, Handle
  <1>2. podCalls \in Seq(PodCalls)
    BY DEF TypeOK
  <1>3. /\ Head(podCalls) = podCalls[1] /\ 1 \in DOMAIN podCalls /\ Head(podCalls) \in PodCalls
        /\ \A i \in DOMAIN Tail(podCalls) :
              i + 1 \in DOMAIN podCalls /\ Tail(podCalls)[i] = podCalls[i + 1]
        /\ \A i \in DOMAIN podCalls : i # 1 =>
              i - 1 \in DOMAIN Tail(podCalls) /\ Tail(podCalls)[i - 1] = podCalls[i]
    BY <1>1, <1>2
  <1>4. PICK x \in Pods : Head(podCalls) \in [call : {"add", "update", "delete", "tombstone"},
                                             old : PodObjects(x), pod : PodObjects(x)]
    BY <1>3 DEF PodCalls
  <1>5. Head(podCalls).pod \in PodObjects(x) /\ Head(podCalls).pod.uid = x
        /\ Head(podCalls).pod.phase \in Phases /\ Head(podCalls).old.phase \in Phases
    BY <1>4 DEF PodObjects
  <1>6. UNCHANGED <<pods, podStore, watchUp, queues, step, nominated>>
    BY DEF PodHandlers, addPod, updatePod, deletePod, deletePodTombstone, queueVars, queueApiVars
  <1>7. /\ Head(podCalls).call = "add" => queueByName' = AddPod(queueByName, Head(podCalls).pod)
        /\ TakesOff(Head(podCalls)) => queueByName' = DeletePod(queueByName, Head(podCalls).pod)
        /\ Head(podCalls).call # "add" /\ ~TakesOff(Head(podCalls)) => queueByName' = queueByName
    BY <1>5 DEF PodHandlers, addPod, updatePod, deletePod, deletePodTombstone, Handle, TakesOff,
                IsTerminal, IsNonTerminal, Phases
  <1> QED
    BY <1>1, <1>3, <1>5, <1>6, <1>7

\* Where a step of the informer leaves the manager alone and nobody reserves,
\* everybody stays accounted for.
LEMMA InformerKeepsSync ==
    ASSUME TypeOK, StoreBehind, LifeCycle, CallsBehind, OwnReserved, ForeignAdded,
           NEW t, InformerStep(t), SameQueues, StoreBehind', LifeCycle',
           \A x \in Pods \ ForeignPods :
               /\ pods'[x].bound => step'[x] = "done"
               /\ step'[x] \in {"binding", "done"} => step[x] \in {"binding", "done"},
           \A x \in ForeignPods : step'[x] = step[x]
    PROVE  CallsBehind' /\ OwnReserved' /\ ForeignAdded'
  <1>1. CallsBehind'
    BY CallsBehindInformer
  <1>2. podCalls \in Seq(PodCalls) /\ t \in Seq(PodCalls) /\ podCalls' = podCalls \o t
    BY DEF TypeOK, InformerStep
  <1>3. \A x : Counted(x)' <=> Counted(x)
    BY CountedSame
  <1>4. \A x \in Pods : /\ Ahead(podStore[x], podStore'[x])
                        /\ podStore[x] \in PodObjects(x) /\ podStore'[x] \in PodObjects(x)
                        /\ podStore[x].life = "new" => ~podStore[x].bound
                        /\ podStore[x].phase = "Terminal" => podStore[x].bound
    BY DEF InformerStep, TypeOK, LifeCycle
  <1>5. \A x \in Pods : ~StoreDeparted(x)' => ~StoreDeparted(x)
    BY <1>4 DEF StoreDeparted, Ahead
  <1>6. ASSUME NEW k \in DOMAIN t, t[k].call = "add"
        PROVE  LET u == t[k].pod.uid
               IN  u \in Pods /\ ~podStore[u].bound /\ FilterFunc(podStore'[u])
    <2>1. PICK kind \in {"delete", "tombstone"}, p \in Pods :
            CallsFor(podStore[p], podStore'[p], kind) = <<t[k]>>
      BY DEF InformerStep
    <2> QED
      BY <1>4, <1>6, <2>1, CallMeans
  <1>7. ASSUME NEW x \in Pods, AddWaits(x)'
        PROVE  AddWaits(x) \/ (~podStore[x].bound /\ FilterFunc(podStore'[x]))
    <2>1. PICK i \in DOMAIN podCalls' : podCalls'[i].call = "add" /\ podCalls'[i].pod.uid = x
      BY <1>7 DEF AddWaits
    <2>2. CASE i \in DOMAIN podCalls /\ podCalls'[i] = podCalls[i]
      BY <2>1, <2>2 DEF AddWaits
    <2>3. CASE i - Len(podCalls) \in DOMAIN t /\ podCalls'[i] = t[i - Len(podCalls)]
      BY <1>6, <2>1, <2>3
    <2> QED
      BY <1>2, <2>2, <2>3, ConcatIndex
  <1>8. \A x \in Pods : AddWaits(x) => AddWaits(x)'
    BY <1>2, ConcatIndex DEF AddWaits
  <1>9. OwnReserved'
    <2> SUFFICES ASSUME NEW x \in Pods \ ForeignPods, QueueOf[x] \in DOMAIN queueByName
                 PROVE  /\ step'[x] \in {"binding", "done"} /\ ~StoreDeparted(x)' => Counted(x)
                        /\ AddWaits(x)' => Counted(x)
      BY <1>3 DEF OwnReserved, SameQueues
    <2>1. step'[x] \in {"binding", "done"} /\ ~StoreDeparted(x)' => Counted(x)
      BY <1>5 DEF OwnReserved
    <2>2. ASSUME AddWaits(x)', ~AddWaits(x)
          PROVE  Counted(x)
      <3>1. ~podStore[x].bound /\ FilterFunc(podStore'[x])
        BY <1>7, <2>2
      <3>2. ~StoreDeparted(x)
        BY <1>4, <3>1 DEF StoreDeparted, Ahead, FilterFunc
      <3>3. pods'[x].bound
        BY <3>1 DEF StoreBehind, FilterFunc
      <3> QED
        BY <3>2, <3>3 DEF OwnReserved
    <2> QED
      BY <2>1, <2>2 DEF OwnReserved
  <1>10. ForeignAdded'
    <2> SUFFICES ASSUME NEW x \in ForeignPods, QueueOf[x] \in DOMAIN queueByName,
                        podStore'[x].bound, ~StoreDeparted(x)'
                 PROVE  Counted(x) \/ AddWaits(x)'
      BY <1>3 DEF ForeignAdded, SameQueues
    <2>0. x \in Pods
      BY PodsAssumption
    <2>1. CASE podStore[x].bound
      BY <1>5, <1>8, <2>0, <2>1 DEF ForeignAdded
    <2>2. CASE ~podStore[x].bound
      <3>1. FilterFunc(podStore'[x]) /\ ~FilterFunc(podStore[x])
        <4>1. podStore'[x].life = "live"
          <5>1. podStore'[x].life \in {"new", "live", "gone"}
            BY <1>4, <2>0 DEF PodObjects
          <5>2. podStore'[x].life # "new" /\ podStore'[x].life # "gone"
            BY <1>4, <2>0 DEF StoreDeparted, Ahead
          <5> QED
            BY <5>1, <5>2
        <4> QED
          BY <2>2, <4>1 DEF FilterFunc
      <3>2. PICK k \in DOMAIN t : t[k].call = "add" /\ t[k].pod.uid = x
        BY <2>0, <3>1 DEF InformerStep
      <3>3. k + Len(podCalls) \in DOMAIN podCalls' /\ podCalls'[k + Len(podCalls)] = t[k]
        BY <1>2, ConcatIndex
      <3> QED
        BY <3>2, <3>3 DEF AddWaits
    <2> QED
      BY <2>1, <2>2
  <1> QED
    BY <1>1, <1>9, <1>10

\* A step that leaves the informer alone is one with nothing to tell.
LEMMA QuietInforms ==
    ASSUME TypeOK, StoreBehind, LifeCycle,
           UNCHANGED <<pods, podStore, podCalls>>, watchUp' => watchUp
    PROVE  InformerStep(<<>>) /\ StoreBehind' /\ LifeCycle'
  <1>1. \A x \in Pods : Ahead(podStore[x], podStore[x])
    BY AheadOfStore
  <1>2. podCalls' = podCalls \o <<>> /\ <<>> \in Seq(PodCalls)
    BY DEF TypeOK
  <1>3. \A x \in Pods : podStore'[x] \in PodObjects(x)
    BY DEF TypeOK
  <1>4. InformerStep(<<>>)
    BY <1>1, <1>2, <1>3 DEF InformerStep
  <1> QED
    BY <1>4 DEF StoreBehind, LifeCycle

\* What the writes of the cluster and of Bind make of an object.
LEMMA WritesAhead ==
    ASSUME TypeOK, StoreBehind, LifeCycle, NEW p \in Pods
    PROVE  /\ CreatePod(p) => Ahead(pods[p], Fresh(p))
           /\ Ahead(pods[p], [pods[p] EXCEPT !.life = "gone"])
           /\ Live(p) /\ pods[p].bound => Ahead(pods[p], [pods[p] EXCEPT !.phase = "Terminal"])
           /\ Live(p) => Ahead(pods[p], [pods[p] EXCEPT !.bound = TRUE])
           /\ Ahead(pods[p], [pods[p] EXCEPT !.req = ResizedReq[p]])
  <1> DEFINE o == pods[p]
  <1>1. o \in PodObjects(p) /\ Ahead(o, o)
    BY AheadOfStore DEF TypeOK
  <1>2. /\ o.life = "new" => ~o.bound
        /\ o.phase = "Terminal" => o.bound
    BY DEF LifeCycle
  <1> HIDE DEF o
  <1>3. o.life = "new" => Ahead(o, Fresh(p))
    BY <1>2 DEF Ahead, Fresh
  <1>4. Ahead(o, [o EXCEPT !.life = "gone"])
    BY <1>1 DEF Ahead, PodObjects
  <1>5. o.life = "live" /\ o.bound => Ahead(o, [o EXCEPT !.phase = "Terminal"])
    BY <1>1 DEF Ahead, PodObjects
  <1>6. o.life = "live" => Ahead(o, [o EXCEPT !.bound = TRUE])
    BY <1>1 DEF Ahead, PodObjects
  <1>7. Ahead(o, [o EXCEPT !.req = ResizedReq[p]])
    BY <1>1 DEF Ahead, PodObjects
  <1> QED
    BY <1>3, <1>4, <1>5, <1>6, <1>7 DEF o, CreatePod, Live

\* The pod handlers keep everybody accounted for.
LEMMA HandlersKeepSync ==
    ASSUME TypeOK, StoreBehind, LifeCycle, CallsBehind, OwnReserved, ForeignAdded, PodHandlers
    PROVE  StoreBehind' /\ LifeCycle' /\ CallsBehind' /\ OwnReserved' /\ ForeignAdded'
  <1> DEFINE c == podCalls[1]
             u == c.pod.uid
  <1>1. /\ 1 \in DOMAIN podCalls
        /\ u \in Pods /\ c.pod \in PodObjects(u)
        /\ \A i \in DOMAIN podCalls' : i + 1 \in DOMAIN podCalls /\ podCalls'[i] = podCalls[i + 1]
        /\ \A i \in DOMAIN podCalls : i # 1 =>
              i - 1 \in DOMAIN podCalls' /\ podCalls'[i - 1] = podCalls[i]
        /\ UNCHANGED <<pods, podStore, watchUp, step>>
        /\ c.call = "add" => queueByName' = AddPod(queueByName, c.pod)
        /\ TakesOff(c) => queueByName' = DeletePod(queueByName, c.pod)
        /\ c.call # "add" /\ ~TakesOff(c) => queueByName' = queueByName
    BY PodHandlersStep
  <1>2. podCalls \in Seq(PodCalls)
    BY DEF TypeOK
  <1>11. podCalls' = Tail(podCalls) /\ podCalls # <<>>
    BY PodHandlersStep, <1>1
  <1>3. TakesOff(c) => StoreDeparted(u) /\ c.call # "add"
    BY <1>1 DEF CallsBehind, TakesOff, StoreDeparted
  <1> HIDE DEF c, u
  <1>4. /\ DOMAIN queueByName' = DOMAIN queueByName
        /\ \A x \in Pods : Counted(x) /\ ~Counted(x)' => x = u /\ TakesOff(c)
        /\ \A x \in Pods : x = u /\ c.call = "add" /\ QueueOf[x] \in DOMAIN queueByName =>
              Counted(x)'
    <2>1. CASE c.call = "add"
      <3>1. queueByName' = AddPod(queueByName, c.pod)
        BY <1>1, <2>1
      <3>2. /\ DOMAIN queueByName' = DOMAIN queueByName
            /\ \A x \in Pods :
                  Counted(x)' <=> Counted(x) \/ (x = u /\ QueueOf[u] \in DOMAIN queueByName)
        BY <1>1, <3>1, CountedAdd
      <3> QED
        BY <3>2
    <2>2. CASE TakesOff(c)
      BY <1>1, <1>3, <2>2, CountedDelete
    <2>3. CASE c.call # "add" /\ ~TakesOff(c)
      BY <1>1, <2>3 DEF Counted
    <2> QED
      BY <2>1, <2>2, <2>3
  <1>5. \A x \in Pods : StoreDeparted(x)' <=> StoreDeparted(x)
    BY <1>1 DEF StoreDeparted
  <1>6. CallsBehind'
    <2> SUFFICES ASSUME NEW i \in DOMAIN podCalls'
                 PROVE  LET d == podCalls[i + 1]
                            p == d.pod.uid
                        IN  /\ podStore[p].bound
                            /\ d.call = "delete" => podStore[p].life = "gone"
                            /\ d.call = "update" /\ d.pod.phase = "Terminal" =>
                                  podStore[p].phase = "Terminal"
                            /\ d.call = "add" => \A j \in 1..(i - 1) : podCalls'[j].pod.uid # p
      BY <1>1 DEF CallsBehind
    <2>1. i + 1 \in DOMAIN podCalls /\ i \in Nat /\ i >= 1
      BY <1>1, <1>2, <1>11
    <2>2. \A j \in 1..(i - 1) : /\ j + 1 \in 1..(i + 1 - 1)
                                /\ j \in DOMAIN podCalls'
      BY <1>2, <1>11, <2>1
    <2>3. \A j \in 1..(i - 1) : podCalls'[j] = podCalls[j + 1]
      BY <1>1, <2>2
    <2> QED
      BY <2>1, <2>2, <2>3 DEF CallsBehind
  <1>7. \A x \in Pods : AddWaits(x)' => AddWaits(x) /\ x # u
    <2> SUFFICES ASSUME NEW x \in Pods, NEW i \in DOMAIN podCalls',
                        podCalls'[i].call = "add", podCalls'[i].pod.uid = x
                 PROVE  AddWaits(x) /\ x # u
      BY DEF AddWaits
    <2> DEFINE k == i + 1
    <2>1. k \in DOMAIN podCalls /\ podCalls[k].call = "add" /\ podCalls[k].pod.uid = x
      BY <1>1
    <2>2. 1 \in 1..(k - 1)
      BY <1>2, <1>11, <2>1
    <2> HIDE DEF k
    <2>3. podCalls[1].pod.uid # podCalls[k].pod.uid
      BY <2>1, <2>2 DEF CallsBehind
    <2> QED
      BY <2>1, <2>3 DEF AddWaits, c, u
  <1>8. \A x \in Pods : AddWaits(x) => AddWaits(x)' \/ (x = u /\ c.call = "add")
    BY <1>1 DEF AddWaits, c, u
  <1>9. OwnReserved'
    BY <1>1, <1>3, <1>4, <1>5, <1>7 DEF OwnReserved
  <1>10. ForeignAdded'
    <2> SUFFICES ASSUME NEW x \in ForeignPods, QueueOf[x] \in DOMAIN queueByName,
                        podStore[x].bound, ~StoreDeparted(x)
                 PROVE  Counted(x)' \/ AddWaits(x)'
      BY <1>1, <1>4, <1>5, PodsAssumption DEF ForeignAdded
    <2>1. x \in Pods /\ (Counted(x) \/ AddWaits(x))
      BY PodsAssumption DEF ForeignAdded
    <2> QED
      BY <1>3, <1>4, <1>8, <2>1
  <1> QED
    BY <1>1, <1>6, <1>9, <1>10 DEF StoreBehind, LifeCycle

\* Reserve counts the pod it takes quota for.
LEMMA ReserveKeepsSync ==
    ASSUME TypeOK, StoreBehind, LifeCycle, CallsBehind, OwnReserved, ForeignAdded,
           NEW p \in Pods, Reserve(p)
    PROVE  StoreBehind' /\ LifeCycle' /\ CallsBehind' /\ OwnReserved' /\ ForeignAdded'
  <1>1. UNCHANGED <<pods, podStore, watchUp, podCalls>> /\ step[p] = "filtered"
        /\ step' = [step EXCEPT ![p] = "binding"]
        /\ queueByName' = AddPod(queueByName, Fresh(p))
    BY DEF Reserve, apiVars
  <1>2. /\ DOMAIN queueByName' = DOMAIN queueByName
        /\ \A x \in Pods :
              Counted(x)' <=> Counted(x) \/ (x = p /\ QueueOf[p] \in DOMAIN queueByName)
    BY <1>1, FreshType, CountedAdd
  <1>3. p \notin ForeignPods /\ ~pods[p].bound
    BY <1>1 DEF ForeignAdded, OwnReserved
  <1>4. \A x \in Pods : /\ StoreDeparted(x)' <=> StoreDeparted(x)
                        /\ AddWaits(x)' <=> AddWaits(x)
    BY <1>1 DEF StoreDeparted, AddWaits
  <1>5. \A x \in Pods \ {p} : step'[x] = step[x]
    BY <1>1 DEF TypeOK
  <1>6. OwnReserved'
    BY <1>1, <1>2, <1>3, <1>4, <1>5 DEF OwnReserved
  <1>7. ForeignAdded'
    BY <1>1, <1>2, <1>3, <1>4, <1>5, PodsAssumption DEF ForeignAdded
  <1> QED
    BY <1>1, <1>6, <1>7 DEF StoreBehind, LifeCycle, CallsBehind

\* Unreserve takes off a pod that is not bound and whose add does not wait.
LEMMA UnreserveKeepsSync ==
    ASSUME TypeOK, StoreBehind, LifeCycle, CallsBehind, OwnReserved, ForeignAdded,
           NEW p \in Pods, Unreserve(p)
    PROVE  StoreBehind' /\ LifeCycle' /\ CallsBehind' /\ OwnReserved' /\ ForeignAdded'
  <1>1. UNCHANGED <<pods, podStore, watchUp, podCalls>> /\ step[p] = "binding"
        /\ step' = [step EXCEPT ![p] = "queued"]
        /\ queueByName' = DeletePod(queueByName, Fresh(p))
    BY DEF Unreserve, apiVars
  <1>2. /\ DOMAIN queueByName' = DOMAIN queueByName
        /\ \A x \in Pods : Counted(x)' <=> Counted(x) /\ x # p
    BY <1>1, FreshType, CountedDelete
  <1>3. p \notin ForeignPods /\ ~pods[p].bound
    BY <1>1 DEF ForeignAdded, OwnReserved
  <1>4. \A x \in Pods : /\ StoreDeparted(x)' <=> StoreDeparted(x)
                        /\ AddWaits(x)' <=> AddWaits(x)
    BY <1>1 DEF StoreDeparted, AddWaits
  <1>5. step'[p] = "queued" /\ \A x \in Pods \ {p} : step'[x] = step[x]
    BY <1>1 DEF TypeOK
  <1>6. ~AddWaits(p)
    BY <1>3 DEF AddWaits, CallsBehind, StoreBehind
  <1>7. OwnReserved'
    BY <1>1, <1>2, <1>3, <1>4, <1>5, <1>6 DEF OwnReserved
  <1>8. ForeignAdded'
    BY <1>1, <1>2, <1>3, <1>4, <1>5, PodsAssumption DEF ForeignAdded
  <1> QED
    BY <1>1, <1>7, <1>8 DEF StoreBehind, LifeCycle, CallsBehind

\* So do a write of a pod and the step of its binding cycle that made it.
LEMMA WriteKeepsSync ==
    ASSUME TypeOK, StoreBehind, LifeCycle, CallsBehind, OwnReserved, ForeignAdded,
           NEW p \in Pods, NEW new \in PodObjects(p), Ahead(pods[p], new), Write(p, new),
           queueByName' = queueByName,
           \/ step' = step /\ (new.bound => pods[p].bound \/ p \in ForeignPods)
           \/ step[p] = "binding" /\ step' = [step EXCEPT ![p] = "done"]
    PROVE  StoreBehind' /\ LifeCycle' /\ CallsBehind' /\ OwnReserved' /\ ForeignAdded'
  <1>1. SameQueues
    BY DEF SameQueues
  <1>2. DOMAIN pods = Pods /\ pods' = [pods EXCEPT ![p] = new]
    BY DEF TypeOK, Write
  <1>3. \A x \in Pods : pods'[x] = IF x = p THEN new ELSE pods[x]
    BY <1>2
  <1>4. \A x \in ForeignPods : step'[x] = step[x]
    BY PodsAssumption DEF TypeOK, ForeignAdded
  <1>5. \A x \in Pods \ ForeignPods :
           /\ pods'[x].bound => step'[x] = "done"
           /\ step'[x] \in {"binding", "done"} => step[x] \in {"binding", "done"}
    BY <1>3 DEF TypeOK, OwnReserved
  <1>6. (\E t : InformerStep(t)) /\ StoreBehind' /\ LifeCycle'
    BY WriteInforms
  <1>7. PICK t : InformerStep(t)
    BY <1>6
  <1> QED
    BY <1>1, <1>4, <1>5, <1>6, <1>7, InformerKeepsSync

\* And a step that leaves the informer and the manager alone.
LEMMA QuietKeepsSync ==
    ASSUME TypeOK, StoreBehind, LifeCycle, CallsBehind, OwnReserved, ForeignAdded,
           UNCHANGED <<pods, podStore, podCalls>>, watchUp' => watchUp, SameQueues,
           \/ step' = step
           \/ \E p \in Pods, s \in {"queued", "filtered"} :
                 /\ step[p] \in {"queued", "filtered"} /\ p \notin ForeignPods
                 /\ step' = [step EXCEPT ![p] = s]
    PROVE  StoreBehind' /\ LifeCycle' /\ CallsBehind' /\ OwnReserved' /\ ForeignAdded'
  <1>1. \A x \in ForeignPods : step'[x] = step[x]
    BY PodsAssumption DEF TypeOK
  <1>2. \A x \in Pods \ ForeignPods :
           /\ pods'[x].bound => step'[x] = "done"
           /\ step'[x] \in {"binding", "done"} => step[x] \in {"binding", "done"}
    BY DEF TypeOK, OwnReserved
  <1>3. InformerStep(<<>>) /\ StoreBehind' /\ LifeCycle'
    BY QuietInforms
  <1> QED
    BY <1>1, <1>2, <1>3, InformerKeepsSync

-----------------------------------------------------------------------------
(* Everybody stays accounted for.                                          *)

\* The queues are kept, the process runs on and binds are answered.
Uninterrupted == Disruptions \cap {"queueLifecycle", "restart", "lateBind"} = {}

\* Every step of the system keeps the inductive invariant.
LEMMA SyncNext ==
    ASSUME Uninterrupted, TypeOK, SyncInv, [Next]_vars
    PROVE  SyncInv'
  <1> DEFINE Rest == StoreBehind /\ LifeCycle /\ CallsBehind /\ OwnReserved /\ ForeignAdded
  <1> USE DEF apiVars, queueVars, queueApiVars
  <1>0. QueuesFixed'
    BY QueuesFixedNext DEF Uninterrupted, QueuesKept, SyncInv
  <1>1. \A kind \in {"queueLifecycle", "restart", "lateBind"} : ~Disrupt(kind)
    BY DEF Uninterrupted, Disrupt
  <1>2. StoreBehind /\ LifeCycle /\ CallsBehind /\ OwnReserved /\ ForeignAdded /\ QueuesFixed
    BY DEF SyncInv
  <1>3. \A p \in Pods : pods[p] \in PodObjects(p)
    BY DEF TypeOK
  <1>4. queueByName' = queueByName => SameQueues
    BY DEF SameQueues
  <1>5. ASSUME NEW p \in Pods, CreatePod(p)
        PROVE  Rest'
    <2>1. Ahead(pods[p], Fresh(p)) /\ ~Fresh(p).bound
      BY <1>2, <1>5, WritesAhead DEF Fresh
    <2> QED
      BY <1>2, <1>5, <2>1, FreshType, WriteKeepsSync DEF CreatePod
  <1>6. ASSUME NEW p \in Pods, RemovePod(p)
        PROVE  Rest'
    <2> DEFINE new == [pods[p] EXCEPT !.life = "gone"]
    <2>1. Ahead(pods[p], new) /\ new \in PodObjects(p)
      BY <1>2, <1>3, WritesAhead, EditType
    <2>2. new.bound = pods[p].bound
      BY <1>3 DEF PodObjects
    <2>3. Write(p, new) /\ queueByName' = queueByName /\ step' = step
      BY <1>6 DEF RemovePod
    <2> HIDE DEF new
    <2> QED
      BY <1>2, <2>1, <2>2, <2>3, WriteKeepsSync
  <1>7. ASSUME NEW p \in Pods, FinishPod(p)
        PROVE  Rest'
    <2> DEFINE new == [pods[p] EXCEPT !.phase = "Terminal"]
    <2>1. Ahead(pods[p], new) /\ new \in PodObjects(p)
      BY <1>2, <1>3, <1>7, WritesAhead, EditType DEF FinishPod, Phases
    <2>2. pods[p].bound
      BY <1>7 DEF FinishPod
    <2>3. Write(p, new) /\ queueByName' = queueByName /\ step' = step
      BY <1>7 DEF FinishPod
    <2> HIDE DEF new
    <2> QED
      BY <1>2, <2>1, <2>2, <2>3, WriteKeepsSync
  <1>8. ASSUME NEW p \in Pods, ForeignBind(p)
        PROVE  Rest'
    <2> DEFINE new == [pods[p] EXCEPT !.bound = TRUE]
    <2>1. Ahead(pods[p], new) /\ new \in PodObjects(p)
      BY <1>2, <1>3, <1>8, WritesAhead, EditType DEF ForeignBind
    <2>2. Write(p, new) /\ queueByName' = queueByName /\ step' = step /\ p \in ForeignPods
      BY <1>8 DEF ForeignBind
    <2> HIDE DEF new
    <2> QED
      BY <1>2, <2>1, <2>2, WriteKeepsSync
  <1>9. ASSUME NEW p \in Pods, ResizePod(p)
        PROVE  Rest'
    <2> DEFINE new == [pods[p] EXCEPT !.req = ResizedReq[p]]
    <2>1. ResizedReq[p] \in Reqs(p)
      BY <1>9 DEF ResizePod, Disrupt, Reqs
    <2>2. Ahead(pods[p], new) /\ new \in PodObjects(p)
      BY <1>2, <1>3, <2>1, WritesAhead, EditType
    <2>3. Write(p, new) /\ queueByName' = queueByName /\ step' = step /\ pods[p].bound
      BY <1>9 DEF ResizePod
    <2> HIDE DEF new
    <2> QED
      BY <1>2, <2>2, <2>3, WriteKeepsSync
  <1>10. ASSUME NEW p \in Pods, Bind(p)
         PROVE  Rest'
    <2> DEFINE new == [pods[p] EXCEPT !.bound = TRUE]
    <2>1. Ahead(pods[p], new) /\ new \in PodObjects(p)
      BY <1>2, <1>3, <1>10, WritesAhead, EditType DEF Bind
    <2>2. Write(p, new) /\ queueByName' = queueByName
          /\ step[p] = "binding" /\ step' = [step EXCEPT ![p] = "done"]
      BY <1>10 DEF Bind
    <2> HIDE DEF new
    <2> QED
      BY <1>2, <2>1, <2>2, WriteKeepsSync
  <1>11. ASSUME NEW p \in Pods, PreFilter(p) \/ Unschedulable(p) \/ ReserveFails(p)
         PROVE  Rest'
    <2>1. p \notin ForeignPods /\ step[p] \in {"queued", "filtered"}
      BY <1>2, <1>11 DEF PreFilter, Schedulable, Unschedulable, ReserveFails, ForeignAdded
    <2>2. \E s \in {"queued", "filtered"} : step' = [step EXCEPT ![p] = s]
      BY <1>11 DEF PreFilter, Unschedulable, ReserveFails
    <2>3. queueByName' = queueByName
      BY <1>11 DEF PreFilter, Unschedulable, ReserveFails, AddPodFails, DeletePod
    <2>4. UNCHANGED <<pods, podStore, podCalls, watchUp>>
      BY <1>11 DEF PreFilter, Unschedulable, ReserveFails
    <2> QED
      BY <1>2, <1>4, <2>1, <2>2, <2>3, <2>4, QuietKeepsSync
  <1>12. ASSUME NEW p \in Pods, Reserve(p)
         PROVE  Rest'
    BY <1>2, <1>12, ReserveKeepsSync
  <1>13. ASSUME NEW p \in Pods, Unreserve(p)
         PROVE  Rest'
    BY <1>2, <1>13, UnreserveKeepsSync
  <1>14. ASSUME NEW p \in Pods, BindUnanswered(p)
         PROVE  Rest'
    BY <1>1, <1>14 DEF BindUnanswered
  <1>15. ASSUME NEW p \in Pods, Nominate(p) \/ ClearNomination(p)
         PROVE  Rest'
    BY <1>2, <1>4, <1>15, QuietKeepsSync DEF Nominate, ClearNomination
  <1>16. ASSUME NEW q \in Queues,
                (\E max \in Maxes : CreateQueue(q, max) \/ ChangeQueue(q, max)) \/ RemoveQueue(q)
         PROVE  Rest'
    BY <1>1, <1>16 DEF CreateQueue, ChangeQueue, RemoveQueue
  <1>17. ASSUME WatchDown \/ QueueWatchDown \/ QueueRelist \/ UNCHANGED vars
         PROVE  Rest'
    BY <1>2, <1>4, <1>17, QuietKeepsSync DEF WatchDown, QueueWatchDown, QueueRelist, vars
  <1>18. ASSUME Relist
         PROVE  Rest'
    <2>1. SameQueues /\ UNCHANGED <<pods, step>>
      BY <1>4, <1>18 DEF Relist
    <2>2. (\E t : InformerStep(t)) /\ StoreBehind' /\ LifeCycle'
      BY <1>2, <1>18, RelistInforms
    <2>3. PICK t : InformerStep(t)
      BY <2>2
    <2>4. \A x \in Pods \ ForeignPods : pods'[x].bound => step'[x] = "done"
      BY <1>2, <2>1 DEF OwnReserved
    <2> QED
      BY <1>2, <2>1, <2>2, <2>3, <2>4, InformerKeepsSync
  <1>19. ASSUME PodHandlers
         PROVE  Rest'
    BY <1>2, <1>19, HandlersKeepSync
  <1>20. ASSUME QueueHandlers
         PROVE  Rest'
    BY <1>2, <1>20, QueueHandlersIdle, QuietKeepsSync
  <1>21. ASSUME Restart
         PROVE  Rest'
    BY <1>1, <1>21 DEF Restart
  <1>22. Rest'
    BY <1>5, <1>6, <1>7, <1>8, <1>9, <1>10, <1>11, <1>12, <1>13, <1>14, <1>15, <1>16, <1>17,
       <1>18, <1>19, <1>20, <1>21 DEF Next, SchedulingCycle, BindingCycle
  <1> QED
    BY <1>0, <1>22 DEF SyncInv

\* The inductive invariant holds at first.
LEMMA SyncInit == Init => SyncInv
  <1> SUFFICES ASSUME Init PROVE SyncInv
    OBVIOUS
  <1>1. \A p \in Pods : /\ pods[p] = [Fresh(p) EXCEPT !.life = "new"] /\ podStore[p] = pods[p]
                        /\ pods[p].life = "new" /\ ~pods[p].bound /\ pods[p].phase = "NonTerminal"
                        /\ step[p] = "queued"
    BY DEF Init, Fresh
  <1>2. podCalls = <<>>
    BY DEF Init
  <1>3. StoreBehind /\ LifeCycle
    BY <1>1 DEF StoreBehind, LifeCycle
  <1>4. CallsBehind
    BY <1>2 DEF CallsBehind
  <1>5. \A p : ~AddWaits(p)
    BY <1>2 DEF AddWaits
  <1>6. OwnReserved
    BY <1>1, <1>5 DEF OwnReserved
  <1>7. ForeignAdded
    BY <1>1, <1>5, PodsAssumption DEF ForeignAdded
  <1> QED
    BY <1>3, <1>4, <1>6, <1>7, QueuesFixedInit DEF SyncInv

\* A pod this scheduler bound is on its ledger for as long as it runs
\* (synchronizer.go and Reserve together), whatever the watches lose and in
\* whatever order reservations and informer calls come.
THEOREM OwnPodsAlwaysCounted ==
    ASSUME Uninterrupted
    PROVE  Spec => []OwnPodsCounted
  <1>1. TypeOK /\ SyncInv => OwnPodsCounted
    <2> SUFFICES ASSUME TypeOK, SyncInv, NEW p \in Pods \ ForeignPods,
                        Occupies(p), HasQueue(queueByName, pods[p])
                 PROVE  Counted(p)
      BY DEF OwnPodsCounted
    <2>1. pods[p].queue = QueueOf[p]
      BY DEF TypeOK, PodObjects
    <2>2. pods[p].bound /\ pods[p].life # "gone" /\ pods[p].phase # "Terminal"
      BY DEF Occupies, Live
    <2>3. step[p] = "done" /\ ~StoreDeparted(p)
      BY <2>2 DEF SyncInv, OwnReserved, StoreBehind, StoreDeparted
    <2> QED
      BY <2>1, <2>3 DEF SyncInv, OwnReserved, HasQueue
  <1>2. TypeOK /\ SyncInv /\ [Next]_vars => SyncInv'
    BY SyncNext
  <1> QED
    BY <1>1, <1>2, SyncInit, TypeCorrect, PTL DEF Spec

\* Once the watches are up and every call has been handled, the ledgers miss
\* no pod that holds resources, this scheduler's or another's.
THEOREM NothingEverMissed ==
    ASSUME Uninterrupted
    PROVE  Spec => []NothingMissed
  <1>1. TypeOK /\ SyncInv => NothingMissed
    <2> SUFFICES ASSUME TypeOK, SyncInv, Settled, NEW p \in Pods,
                        Occupies(p), HasQueue(queueByName, pods[p])
                 PROVE  Counted(p)
      BY DEF NothingMissed
    <2>1. pods[p].queue = QueueOf[p]
      BY DEF TypeOK, PodObjects
    <2>2. pods[p].bound /\ pods[p].life # "gone" /\ pods[p].phase # "Terminal"
      BY DEF Occupies, Live
    <2>3. podStore[p] = pods[p] /\ podCalls = <<>>
      BY DEF SyncInv, StoreBehind, Settled
    <2>4. ~StoreDeparted(p) /\ ~AddWaits(p)
      BY <2>2, <2>3 DEF StoreDeparted, AddWaits
    <2>5. CASE p \in ForeignPods
      BY <2>1, <2>2, <2>3, <2>4, <2>5 DEF SyncInv, ForeignAdded, HasQueue
    <2>6. CASE p \notin ForeignPods
      BY <2>1, <2>2, <2>4, <2>6 DEF SyncInv, OwnReserved, HasQueue
    <2> QED
      BY <2>5, <2>6
  <1>2. TypeOK /\ SyncInv /\ [Next]_vars => SyncInv'
    BY SyncNext
  <1> QED
    BY <1>1, <1>2, SyncInit, TypeCorrect, PTL DEF Spec

-----------------------------------------------------------------------------
(* Nobody is counted for ever.  Here the pod watch never breaks: a relist  *)
(* tells of a deletion by a tombstone, which deletePod ignores.            *)

\* An object becomes one that holds nothing: no add is made, and one that held
\* something is told to be taken off.
LEMMA DepartureTold ==
    ASSUME NEW p \in Pods, NEW old \in PodObjects(p), NEW new \in PodObjects(p),
           Ahead(old, new), old.life = "new" => ~old.bound,
           new.bound => (new.life = "live" /\ new.phase # "Terminal") \/ old.bound,
           ~new.bound \/ new.life = "gone" \/ new.phase = "Terminal",
           NEW t, t = CallsFor(old, new, "delete")
    PROVE  /\ \A i \in DOMAIN t : t[i].call # "add"
           /\ old.bound /\ old.life # "gone" /\ old.phase # "Terminal" =>
                 \E c : t = <<c>> /\ TakesOff(c) /\ c.pod.uid = p
  <1>1. /\ old.uid = p /\ new.uid = p /\ old.bound \in BOOLEAN /\ new.bound \in BOOLEAN
        /\ old.life \in {"new", "live", "gone"} /\ new.life \in {"new", "live", "gone"}
    BY DEF PodObjects
  <1>2. FilterFunc(new) => FilterFunc(old)
    BY <1>1 DEF FilterFunc, Ahead
  <1>3. CASE FilterFunc(old) /\ FilterFunc(new)
    <2>1. t = <<[call |-> "update", old |-> old, pod |-> new]>>
      BY <1>3 DEF CallsFor
    <2>2. new.phase = "Terminal"
      BY <1>3 DEF FilterFunc
    <2> QED
      BY <1>1, <2>1, <2>2 DEF TakesOff
  <1>4. CASE FilterFunc(old) /\ ~FilterFunc(new)
    <2>1. t = <<[call |-> "delete", old |-> old, pod |-> old]>>
      BY <1>4 DEF CallsFor
    <2> QED
      BY <1>1, <2>1 DEF TakesOff
  <1>5. CASE ~FilterFunc(old) /\ ~FilterFunc(new)
    <2>1. t = <<>>
      BY <1>5 DEF CallsFor
    <2>2. ~(old.bound /\ old.life # "gone" /\ old.phase # "Terminal")
      BY <1>1, <1>5 DEF FilterFunc
    <2> QED
      BY <2>1, <2>2
  <1> QED
    BY <1>2, <1>3, <1>4, <1>5

\* A write of a pod keeps PhantomInv.
LEMMA WriteKeepsPhantom ==
    ASSUME TypeOK, LifeCycle, PhantomInv,
           NEW p \in Pods, NEW new \in PodObjects(p), Ahead(podStore[p], new), Write(p, new),
           new.bound => (new.life = "live" /\ new.phase # "Terminal") \/ podStore[p].bound,
           queueByName' = queueByName,
           \/ step' = step
           \/ step' = [step EXCEPT ![p] = "done"] /\ new.bound
              /\ new.life = "live" /\ new.phase # "Terminal"
    PROVE  PhantomInv'
  <1> DEFINE old == podStore[p]
             t == CallsFor(old, new, "delete")
  <1>1. watchUp /\ watchUp' /\ podStore' = [podStore EXCEPT ![p] = new] /\ podCalls' = podCalls \o t
    BY DEF PhantomInv, Write
  <1>2. /\ DOMAIN podStore = Pods /\ old \in PodObjects(p)
        /\ old.life = "new" => ~old.bound
        /\ podCalls \in Seq(PodCalls)
    BY DEF TypeOK, LifeCycle
  <1>3. t \in Seq(PodCalls)
    BY <1>2, CallsForType
  <1>4. \A i \in DOMAIN t : i = 1 /\ t[i].pod.uid = p
    <2>1. old.uid = p /\ new.uid = p
      BY <1>2 DEF PodObjects
    <2> QED
      BY <2>1 DEF CallsFor
  <1>5. ASSUME ~new.bound \/ new.life = "gone" \/ new.phase = "Terminal"
        PROVE  /\ \A i \in DOMAIN t : t[i].call # "add"
               /\ old.bound /\ old.life # "gone" /\ old.phase # "Terminal" =>
                     \E c : t = <<c>> /\ TakesOff(c) /\ c.pod.uid = p
    BY <1>2, <1>5, DepartureTold
  <1> HIDE DEF t
  <1>6. /\ \A i \in DOMAIN podCalls' :
              \/ i \in DOMAIN podCalls /\ podCalls'[i] = podCalls[i]
              \/ /\ i > Len(podCalls) /\ i - Len(podCalls) \in DOMAIN t
                 /\ podCalls'[i] = t[i - Len(podCalls)]
        /\ \A i \in DOMAIN podCalls : i \in DOMAIN podCalls' /\ podCalls'[i] = podCalls[i]
        /\ \A i \in DOMAIN t :
              i + Len(podCalls) \in DOMAIN podCalls' /\ podCalls'[i + Len(podCalls)] = t[i]
    BY <1>1, <1>2, <1>3, ConcatIndex
  <1>7. \A x, i : TakenOffAfter(x, i) => TakenOffAfter(x, i)'
    BY <1>6 DEF TakenOffAfter
  <1>8. \A x : Counted(x)' <=> Counted(x)
    BY DEF Counted
  <1>9. /\ podStore'[p] = new
        /\ \A x \in Pods \ {p} : podStore'[x] = podStore[x] /\ step'[x] = step[x]
    BY <1>1, <1>2 DEF TypeOK
  <1>10. ASSUME NEW x \in Pods \ {p}, HoldsNothing(x)'
         PROVE  /\ Counted(x)' => step'[x] = "binding" \/ TakenOffAfter(x, 0)'
                /\ \A i \in DOMAIN podCalls' :
                      podCalls'[i].call = "add" /\ podCalls'[i].pod.uid = x => TakenOffAfter(x, i)'
    <2>1. HoldsNothing(x)
      BY <1>9, <1>10 DEF HoldsNothing, StoreDeparted
    <2>2. \A i \in DOMAIN podCalls' : podCalls'[i].pod.uid = x =>
             i \in DOMAIN podCalls /\ podCalls'[i] = podCalls[i]
      BY <1>4, <1>6
    <2> QED
      BY <1>7, <1>8, <1>9, <2>1, <2>2 DEF PhantomInv
  <1>11. ASSUME HoldsNothing(p)'
         PROVE  /\ Counted(p)' => step'[p] = "binding" \/ TakenOffAfter(p, 0)'
                /\ \A i \in DOMAIN podCalls' :
                      podCalls'[i].call = "add" /\ podCalls'[i].pod.uid = p => TakenOffAfter(p, i)'
    <2>1. ~new.bound \/ new.life = "gone" \/ new.phase = "Terminal"
      BY <1>9, <1>11 DEF HoldsNothing, StoreDeparted
    <2>2. \A i \in DOMAIN podCalls' : podCalls'[i].call = "add" =>
             i \in DOMAIN podCalls /\ podCalls'[i] = podCalls[i]
      BY <1>5, <1>6, <2>1
    <2>3. step' = step
      BY <2>1
    <2>4. CASE HoldsNothing(p)
      BY <1>7, <1>8, <2>2, <2>3, <2>4 DEF PhantomInv
    <2>5. CASE ~HoldsNothing(p)
      <3>1. PICK c : t = <<c>> /\ TakesOff(c) /\ c.pod.uid = p
        BY <1>5, <2>1, <2>5 DEF HoldsNothing, StoreDeparted
      <3> DEFINE k == 1 + Len(podCalls)
      <3>2. 1 \in DOMAIN t /\ t[1] = c
        BY <3>1
      <3>3. k \in DOMAIN podCalls' /\ podCalls'[k] = c
        BY <1>6, <3>2
      <3>4. k > 0 /\ \A i \in DOMAIN podCalls : k > i
        BY <1>2
      <3> HIDE DEF k
      <3>5. TakenOffAfter(p, 0)' /\ \A i \in DOMAIN podCalls : TakenOffAfter(p, i)'
        BY <3>1, <3>3, <3>4 DEF TakenOffAfter
      <3> QED
        BY <2>2, <3>5
    <2> QED
      BY <2>4, <2>5
  <1> QED
    BY <1>1, <1>10, <1>11 DEF PhantomInv

\* The pod handlers keep PhantomInv: the call that takes a pod off comes after
\* the one that counts it.
LEMMA HandlersKeepPhantom ==
    ASSUME TypeOK, PhantomInv, PodHandlers
    PROVE  PhantomInv'
  <1> DEFINE c == podCalls[1]
             u == c.pod.uid
  <1>1. /\ 1 \in DOMAIN podCalls
        /\ u \in Pods /\ c.pod \in PodObjects(u)
        /\ \A i \in DOMAIN podCalls' : i + 1 \in DOMAIN podCalls /\ podCalls'[i] = podCalls[i + 1]
        /\ \A i \in DOMAIN podCalls : i # 1 =>
              i - 1 \in DOMAIN podCalls' /\ podCalls'[i - 1] = podCalls[i]
        /\ UNCHANGED <<pods, podStore, watchUp, step>>
        /\ c.call = "add" => queueByName' = AddPod(queueByName, c.pod)
        /\ TakesOff(c) => queueByName' = DeletePod(queueByName, c.pod)
        /\ c.call # "add" /\ ~TakesOff(c) => queueByName' = queueByName
    BY PodHandlersStep
  <1>2. podCalls \in Seq(PodCalls) /\ podCalls' \in Seq(PodCalls)
    <2>1. podCalls \in Seq(PodCalls) /\ podCalls' = Tail(podCalls)
      BY PodHandlersStep DEF TypeOK
    <2>2. podCalls # <<>>
      BY <1>1
    <2> QED
      BY <2>1, <2>2, PodCallsHead
  <1>3. \A i \in DOMAIN podCalls : i \in Nat /\ i >= 1
    BY <1>2
  <1>4. \A i \in DOMAIN podCalls' : i \in Nat /\ i >= 1
    BY <1>2
  <1>5. TakesOff(c) => c.call # "add"
    BY DEF TakesOff
  <1> HIDE DEF c, u
  <1>6. \A x \in Pods : Counted(x)' => \/ Counted(x) /\ ~(x = u /\ TakesOff(c))
                                       \/ x = u /\ c.call = "add"
    <2>1. CASE c.call = "add"
      <3>1. queueByName' = AddPod(queueByName, c.pod)
        BY <1>1, <2>1
      <3>2. \A x \in Pods :
               Counted(x)' <=> Counted(x) \/ (x = u /\ QueueOf[u] \in DOMAIN queueByName)
        BY <1>1, <3>1, CountedAdd
      <3> QED
        BY <1>5, <2>1, <3>2
    <2>2. CASE TakesOff(c)
      BY <1>1, <2>2, CountedDelete
    <2>3. CASE c.call # "add" /\ ~TakesOff(c)
      BY <1>1, <2>3 DEF Counted
    <2> QED
      BY <2>1, <2>2, <2>3
  <1>7. ASSUME NEW x, NEW i \in Nat, TakenOffAfter(x, i), i >= 1
        PROVE  TakenOffAfter(x, i - 1)'
    <2>1. PICK j \in DOMAIN podCalls : j > i /\ TakesOff(podCalls[j]) /\ podCalls[j].pod.uid = x
      BY <1>7 DEF TakenOffAfter
    <2> DEFINE k == j - 1
    <2>2. k \in DOMAIN podCalls' /\ podCalls'[k] = podCalls[j] /\ k > i - 1
      BY <1>1, <1>3, <1>7, <2>1
    <2> HIDE DEF k
    <2> QED
      BY <2>1, <2>2 DEF TakenOffAfter
  <1>8. ASSUME NEW x, TakenOffAfter(x, 0), ~(x = u /\ TakesOff(c))
        PROVE  TakenOffAfter(x, 0)'
    <2>1. TakenOffAfter(x, 1)
      BY <1>3, <1>8 DEF TakenOffAfter, c, u
    <2>2. TakenOffAfter(x, 1 - 1)'
      BY <1>7, <2>1
    <2> QED
      BY <2>2
  <1> SUFFICES ASSUME NEW x \in Pods, HoldsNothing(x)'
               PROVE  /\ Counted(x)' => step'[x] = "binding" \/ TakenOffAfter(x, 0)'
                      /\ \A i \in DOMAIN podCalls' :
                            podCalls'[i].call = "add" /\ podCalls'[i].pod.uid = x =>
                                TakenOffAfter(x, i)'
    BY <1>1 DEF PhantomInv
  <1>9. HoldsNothing(x)
    BY <1>1 DEF HoldsNothing, StoreDeparted
  <1>10. ASSUME Counted(x)', step'[x] # "binding"
         PROVE  TakenOffAfter(x, 0)'
    <2>1. CASE Counted(x) /\ ~(x = u /\ TakesOff(c))
      BY <1>1, <1>8, <1>9, <1>10, <2>1 DEF PhantomInv
    <2>2. CASE x = u /\ c.call = "add"
      <3>1. TakenOffAfter(x, 1)
        BY <1>1, <1>9, <2>2 DEF PhantomInv, c, u
      <3>2. TakenOffAfter(x, 1 - 1)'
        BY <1>7, <3>1
      <3> QED
        BY <3>2
    <2> QED
      BY <1>6, <1>10, <2>1, <2>2
  <1>11. ASSUME NEW i \in DOMAIN podCalls', podCalls'[i].call = "add", podCalls'[i].pod.uid = x
         PROVE  TakenOffAfter(x, i)'
    <2> DEFINE k == i + 1
    <2>1. k \in DOMAIN podCalls /\ podCalls[k].call = "add" /\ podCalls[k].pod.uid = x
      BY <1>1, <1>11
    <2>2. k \in Nat /\ k >= 1 /\ k - 1 = i
      BY <1>4
    <2> HIDE DEF k
    <2>3. TakenOffAfter(x, k)
      BY <1>9, <2>1 DEF PhantomInv
    <2>4. TakenOffAfter(x, k - 1)'
      BY <1>7, <2>2, <2>3
    <2> QED
      BY <2>2, <2>4
  <1> QED
    BY <1>10, <1>11

\* A step that leaves the informer alone keeps PhantomInv when it counts a pod
\* only to bind it and ends no binding cycle of a counted pod.
LEMMA QuietKeepsPhantom ==
    ASSUME PhantomInv, UNCHANGED <<podStore, podCalls, watchUp>>,
           \A x \in Pods : Counted(x)' /\ step'[x] # "binding" => Counted(x) /\ step[x] # "binding"
    PROVE  PhantomInv'
  <1>1. \A x \in Pods : HoldsNothing(x)' <=> HoldsNothing(x)
    BY DEF HoldsNothing, StoreDeparted
  <1>2. \A x, i : TakenOffAfter(x, i)' <=> TakenOffAfter(x, i)
    BY DEF TakenOffAfter
  <1> QED
    BY <1>1, <1>2 DEF PhantomInv

\* Every step of the system keeps PhantomInv.
LEMMA PhantomNext ==
    ASSUME Uninterrupted, "watchLoss" \notin Disruptions,
           TypeOK, SyncInv, PhantomInv, [Next]_vars
    PROVE  PhantomInv'
  <1> USE DEF apiVars, queueVars, queueApiVars
  <1>1. \A kind \in {"queueLifecycle", "restart", "lateBind", "watchLoss"} : ~Disrupt(kind)
    BY DEF Uninterrupted, Disrupt
  <1>2. StoreBehind /\ LifeCycle /\ QueuesFixed /\ watchUp
    BY DEF SyncInv, PhantomInv
  <1>3. \A p \in Pods : /\ pods[p] \in PodObjects(p) /\ podStore[p] = pods[p]
                        /\ pods[p].phase = "Terminal" => pods[p].bound
    BY <1>2 DEF TypeOK, StoreBehind, LifeCycle
  <1>4. queueByName' = queueByName => \A x : Counted(x)' <=> Counted(x)
    BY DEF Counted
  <1>5. ASSUME NEW p \in Pods, CreatePod(p)
        PROVE  PhantomInv'
    <2>1. Ahead(podStore[p], Fresh(p)) /\ ~Fresh(p).bound
      BY <1>2, <1>3, <1>5, WritesAhead DEF Fresh
    <2> QED
      BY <1>2, <1>5, <2>1, FreshType, WriteKeepsPhantom DEF CreatePod
  <1>6. ASSUME NEW p \in Pods, RemovePod(p)
        PROVE  PhantomInv'
    <2> DEFINE new == [pods[p] EXCEPT !.life = "gone"]
    <2>1. Ahead(podStore[p], new) /\ new \in PodObjects(p)
      BY <1>2, <1>3, WritesAhead, EditType
    <2>2. new.bound = podStore[p].bound
      BY <1>3 DEF PodObjects
    <2>3. Write(p, new) /\ queueByName' = queueByName /\ step' = step
      BY <1>6 DEF RemovePod
    <2> HIDE DEF new
    <2> QED
      BY <1>2, <2>1, <2>2, <2>3, WriteKeepsPhantom
  <1>7. ASSUME NEW p \in Pods, FinishPod(p)
        PROVE  PhantomInv'
    <2> DEFINE new == [pods[p] EXCEPT !.phase = "Terminal"]
    <2>1. Ahead(podStore[p], new) /\ new \in PodObjects(p)
      BY <1>2, <1>3, <1>7, WritesAhead, EditType DEF FinishPod, Phases
    <2>2. podStore[p].bound
      BY <1>3, <1>7 DEF FinishPod
    <2>3. Write(p, new) /\ queueByName' = queueByName /\ step' = step
      BY <1>7 DEF FinishPod
    <2> HIDE DEF new
    <2> QED
      BY <1>2, <2>1, <2>2, <2>3, WriteKeepsPhantom
  <1>8. ASSUME NEW p \in Pods, ForeignBind(p) \/ Bind(p)
        PROVE  PhantomInv'
    <2> DEFINE new == [pods[p] EXCEPT !.bound = TRUE]
    <2>1. Live(p) /\ ~pods[p].bound
      BY <1>8 DEF ForeignBind, Bind
    <2>2. Ahead(podStore[p], new) /\ new \in PodObjects(p)
      BY <1>2, <1>3, <2>1, WritesAhead, EditType
    <2>3. new.bound /\ new.life = "live" /\ new.phase # "Terminal"
      BY <1>3, <2>1 DEF PodObjects, Live
    <2>4. /\ Write(p, new) /\ queueByName' = queueByName
          /\ step' = step \/ step' = [step EXCEPT ![p] = "done"]
      BY <1>8 DEF ForeignBind, Bind
    <2> HIDE DEF new
    <2> QED
      BY <1>2, <2>2, <2>3, <2>4, WriteKeepsPhantom
  <1>9. ASSUME NEW p \in Pods, ResizePod(p)
        PROVE  PhantomInv'
    <2> DEFINE new == [pods[p] EXCEPT !.req = ResizedReq[p]]
    <2>1. ResizedReq[p] \in Reqs(p)
      BY <1>9 DEF ResizePod, Disrupt, Reqs
    <2>2. Ahead(podStore[p], new) /\ new \in PodObjects(p)
      BY <1>2, <1>3, <2>1, WritesAhead, EditType
    <2>3. Write(p, new) /\ queueByName' = queueByName /\ step' = step /\ podStore[p].bound
      BY <1>3, <1>9 DEF ResizePod
    <2> HIDE DEF new
    <2> QED
      BY <1>2, <2>2, <2>3, WriteKeepsPhantom
  <1>10. ASSUME NEW p \in Pods, PreFilter(p) \/ Unschedulable(p) \/ ReserveFails(p)
         PROVE  PhantomInv'
    <2>1. step[p] \in {"queued", "filtered"} /\ \E s : step' = [step EXCEPT ![p] = s]
      BY <1>10 DEF PreFilter, Schedulable, Unschedulable, ReserveFails
    <2>2. queueByName' = queueByName /\ UNCHANGED <<podStore, podCalls, watchUp>>
      BY <1>10 DEF PreFilter, Unschedulable, ReserveFails, AddPodFails, DeletePod
    <2>3. \A x \in Pods : step'[x] # "binding" => step[x] # "binding"
      BY <2>1 DEF TypeOK
    <2> QED
      BY <1>4, <2>2, <2>3, QuietKeepsPhantom
  <1>11. ASSUME NEW p \in Pods, Reserve(p)
         PROVE  PhantomInv'
    <2>1. /\ queueByName' = AddPod(queueByName, Fresh(p))
          /\ UNCHANGED <<podStore, podCalls, watchUp>>
      BY <1>11 DEF Reserve
    <2>2. \A x \in Pods : Counted(x)' => Counted(x) \/ x = p
      BY <2>1, FreshType, CountedAdd
    <2>3. step'[p] = "binding" /\ \A x \in Pods \ {p} : step'[x] = step[x]
      BY <1>11 DEF TypeOK, Reserve
    <2> QED
      BY <2>1, <2>2, <2>3, QuietKeepsPhantom
  <1>12. ASSUME NEW p \in Pods, Unreserve(p)
         PROVE  PhantomInv'
    <2>1. /\ queueByName' = DeletePod(queueByName, Fresh(p))
          /\ UNCHANGED <<podStore, podCalls, watchUp>>
      BY <1>12 DEF Unreserve
    <2>2. \A x \in Pods : Counted(x)' => Counted(x) /\ x # p
      BY <2>1, FreshType, CountedDelete
    <2>3. \A x \in Pods \ {p} : step'[x] = step[x]
      BY <1>12 DEF TypeOK, Unreserve
    <2> QED
      BY <2>1, <2>2, <2>3, QuietKeepsPhantom
  <1>13. ASSUME NEW p \in Pods, BindUnanswered(p)
         PROVE  PhantomInv'
    BY <1>1, <1>13 DEF BindUnanswered
  <1>14. ASSUME NEW p \in Pods, Nominate(p) \/ ClearNomination(p)
         PROVE  PhantomInv'
    BY <1>4, <1>14, QuietKeepsPhantom DEF Nominate, ClearNomination
  <1>15. ASSUME NEW q \in Queues,
                (\E max \in Maxes : CreateQueue(q, max) \/ ChangeQueue(q, max)) \/ RemoveQueue(q)
         PROVE  PhantomInv'
    BY <1>1, <1>15 DEF CreateQueue, ChangeQueue, RemoveQueue
  <1>16. CASE QueueWatchDown \/ QueueRelist \/ UNCHANGED vars
    BY <1>4, <1>16, QuietKeepsPhantom DEF QueueWatchDown, QueueRelist, vars
  <1>17. CASE WatchDown \/ Relist \/ Restart
    BY <1>1, <1>2, <1>17 DEF WatchDown, Relist, Restart
  <1>18. CASE PodHandlers
    BY <1>18, HandlersKeepPhantom
  <1>19. CASE QueueHandlers
    <2>1. SameQueues /\ UNCHANGED <<podStore, podCalls, watchUp, step>>
      BY <1>2, <1>19, QueueHandlersIdle
    <2> QED
      BY <2>1, CountedSame, QuietKeepsPhantom
  <1> QED
    BY <1>5, <1>6, <1>7, <1>8, <1>9, <1>10, <1>11, <1>12, <1>13, <1>14, <1>15, <1>16, <1>17,
       <1>18, <1>19 DEF Next, SchedulingCycle, BindingCycle

\* synchronizer.go: "Synchronizer keeps the queue manager in sync with the
\* cluster."  Once settled, the ledgers hold the pods that hold resources and
\* no others.  A broken pod watch is excluded: a deletion the informer only
\* infers from a relist is lost (deletePod ignores the tombstone).
THEOREM AlwaysInSync ==
    ASSUME Uninterrupted, "watchLoss" \notin Disruptions
    PROVE  Spec => []InSync
  <1>1. TypeOK /\ SyncInv /\ PhantomInv => NoPhantom
    <2> SUFFICES ASSUME TypeOK, SyncInv, PhantomInv, Settled, NEW p \in Pods, Counted(p)
                 PROVE  Occupies(p)
      BY DEF NoPhantom
    <2>1. podStore[p] = pods[p] /\ (podStore[p].life = "new" => ~podStore[p].bound)
      BY DEF SyncInv, StoreBehind, LifeCycle, Settled
    <2>2. podStore[p].life \in {"new", "live", "gone"}
      BY DEF TypeOK, PodObjects
    <2>3. podCalls = <<>> /\ step[p] # "binding"
      BY DEF Settled
    <2>4. ~TakenOffAfter(p, 0)
      BY <2>3 DEF TakenOffAfter
    <2>5. ~HoldsNothing(p)
      BY <2>3, <2>4 DEF PhantomInv
    <2> QED
      BY <2>1, <2>2, <2>5 DEF HoldsNothing, StoreDeparted, Occupies, Live
  <1>2. Init => PhantomInv
    <2> SUFFICES ASSUME Init PROVE PhantomInv
      OBVIOUS
    <2>1. \A q \in DOMAIN InitialMax : DOMAIN NewQueue(InitialMax[q]).podsByID = {}
      BY DEF NewQueue, SetMax, NewQuota
    <2>2. \A p : ~Counted(p)
      BY <2>1 DEF Init, Counted
    <2>3. watchUp /\ podCalls = <<>>
      BY DEF Init
    <2> QED
      BY <2>2, <2>3 DEF PhantomInv
  <1>3. TypeOK /\ SyncInv /\ [Next]_vars => SyncInv'
    BY SyncNext
  <1>4. TypeOK /\ SyncInv /\ PhantomInv /\ [Next]_vars => PhantomInv'
    BY PhantomNext
  <1>5. Spec => []NothingMissed
    BY NothingEverMissed
  <1>6. NoPhantom /\ NothingMissed => InSync
    BY DEF InSync
  <1> QED
    BY <1>1, <1>2, <1>3, <1>4, <1>5, <1>6, SyncInit, TypeCorrect, PTL DEF Spec

-----------------------------------------------------------------------------
(***************************************************************************)
(* The quota holds: the check a pod passed in PreFilter still holds at     *)
(* Reserve, no ledger passes its maximum, and neither do the pods that run *)
(* in a queue.  For any pods, queues, requests, priorities and maxima, as  *)
(* long as this scheduler is the only one, nothing interrupts it, its      *)
(* queues keep their maxima and pods keep their requests; both watches may *)
(* break and recover at any time.                                          *)
(***************************************************************************)

\* The conditions under which the quota holds.
Undisturbed == ForeignPods = {} /\ Disruptions \subseteq {"watchLoss", "queueWatchLoss"}

\* The inductive invariant of FilteredStillFits and, with SyncInv, of
\* BoundWithinMax.
GateInv ==
    /\ LedgersConsistent(queueByName)
    /\ \A p, o \in Pods : step[p] = "filtered" /\ step[o] = "filtered" => p = o
    /\ FilteredStillFits
    /\ \A q \in DOMAIN queueByName : WithinMax(queueByName[q])

\* The snapshot of queue q's ledger with the pods of N counted in.
With(qm, q, N) == AddPodsIfNotPresent(qm[q], [o \in N |-> InitialReq[o]])

\* What such a snapshot holds.
LEMMA SnapshotHolds ==
    ASSUME "resize" \notin Disruptions,
           NEW qm, ManagerTypeOK(qm), LedgersConsistent(qm),
           NEW q \in DOMAIN qm, NEW N \in SUBSET Pods
    PROVE  LET s == With(qm, q, N)
           IN  /\ Consistent(s)
               /\ s.max = qm[q].max /\ \A n \in DOMAIN s.max : s.max[n] \in Int
               /\ DOMAIN s.podsByID = DOMAIN qm[q].podsByID \cup N
               /\ \A u \in DOMAIN s.podsByID : s.podsByID[u] = InitialReq[u]
               /\ \A u \in DOMAIN qm[q].podsByID : qm[q].podsByID[u] = InitialReq[u]
               /\ DOMAIN qm[q].used \subseteq DOMAIN s.used
               /\ \A n \in DOMAIN s.used :
                     n \in DOMAIN qm[q].used \/ \E u \in N : n \in DOMAIN FromPodReq(InitialReq[u])
  <1> DEFINE m == qm[q].podsByID
             reqs == [o \in N |-> InitialReq[o]]
             s == With(qm, q, N)
  <1>1. qm[q] = [max |-> qm[q].max, used |-> qm[q].used, podsByID |-> m]
        /\ qm[q].max \in Maxes
        /\ \A u \in DOMAIN m : u \in Pods /\ m[u] \in Reqs(u)
    BY DEF ManagerTypeOK, QuotaTypeOK
  <1>2. \A u \in DOMAIN m : m[u] = InitialReq[u]
    BY <1>1 DEF Reqs
  <1>3. IsFiniteSet(DOMAIN reqs) /\ \A u \in DOMAIN reqs : IsReq(reqs[u])
    <2>1. IsFiniteSet(N)
      BY PodsAssumption, FS_Subset
    <2>2. \A u \in N : IsReq(InitialReq[u])
      BY RequestsAssumption DEF IsRequest, IsReq
    <2> QED
      BY <2>1, <2>2
  <1>4. Consistent(qm[q])
    BY DEF LedgersConsistent
  <1>5. DOMAIN reqs = N /\ \A u \in N : reqs[u] = InitialReq[u]
    OBVIOUS
  <1>6. s = AddPodsIfNotPresent(qm[q], reqs)
    BY DEF With
  <1> HIDE DEF reqs, s
  <1>7. /\ Consistent(s)
        /\ s.max = qm[q].max
        /\ DOMAIN qm[q].used \subseteq DOMAIN s.used
        /\ \A n \in DOMAIN s.used :
              \/ n \in DOMAIN qm[q].used
              \/ \E u \in DOMAIN reqs : n \in DOMAIN FromPodReq(reqs[u])
        /\ DOMAIN s.podsByID = DOMAIN m \cup DOMAIN reqs
        /\ \A u \in DOMAIN m : s.podsByID[u] = m[u]
        /\ \A u \in DOMAIN reqs \ DOMAIN m : s.podsByID[u] = reqs[u]
    BY <1>1, <1>3, <1>4, <1>6, AddPodsConsistent
  <1>8. \A n \in DOMAIN s.max : s.max[n] \in Int
    BY <1>1, <1>7, MaxesAssumption DEF IsResources
  <1>9. \A n \in DOMAIN s.used :
           n \in DOMAIN qm[q].used \/ \E u \in N : n \in DOMAIN FromPodReq(InitialReq[u])
    BY <1>5, <1>7
  <1>10. /\ \A u \in DOMAIN s.podsByID : s.podsByID[u] = InitialReq[u]
         /\ DOMAIN s.podsByID = DOMAIN m \cup N
    BY <1>2, <1>5, <1>7
  <1> QED
    BY <1>2, <1>7, <1>8, <1>9, <1>10 DEF s

\* The ledgers of qm1 are no larger than those of qm.
AllNoLarger(qm1, qm) ==
    /\ DOMAIN qm1 = DOMAIN qm
    /\ \A q \in DOMAIN qm : NoLarger(qm1[q], qm[q])

\* With smaller ledgers and fewer nominated pods, the snapshot is smaller.
LEMMA SnapshotSmaller ==
    ASSUME "resize" \notin Disruptions,
           NEW qm, ManagerTypeOK(qm), LedgersConsistent(qm),
           NEW qm1, ManagerTypeOK(qm1), LedgersConsistent(qm1), AllNoLarger(qm1, qm),
           NEW q \in DOMAIN qm, NEW N \in SUBSET Pods, NEW N1 \in SUBSET N
    PROVE  NoLarger(With(qm1, q, N1), With(qm, q, N))
  <1> DEFINE s == With(qm, q, N)
             s1 == With(qm1, q, N1)
  <1>1. q \in DOMAIN qm1 /\ N1 \in SUBSET Pods /\ NoLarger(qm1[q], qm[q])
    BY DEF AllNoLarger
  <1>2. /\ Consistent(s)
        /\ s.max = qm[q].max
        /\ DOMAIN s.podsByID = DOMAIN qm[q].podsByID \cup N
        /\ \A u \in DOMAIN s.podsByID : s.podsByID[u] = InitialReq[u]
        /\ DOMAIN qm[q].used \subseteq DOMAIN s.used
    BY SnapshotHolds
  <1>3. /\ s1.max = qm1[q].max
        /\ DOMAIN s1.podsByID = DOMAIN qm1[q].podsByID \cup N1
        /\ \A u \in DOMAIN s1.podsByID : s1.podsByID[u] = InitialReq[u]
        /\ \A n \in DOMAIN s1.used :
              n \in DOMAIN qm1[q].used \/ \E u \in N1 : n \in DOMAIN FromPodReq(InitialReq[u])
    BY <1>1, SnapshotHolds
  <1> HIDE DEF s, s1
  <1>4. SubMap(s1.podsByID, s.podsByID)
    BY <1>1, <1>2, <1>3 DEF NoLarger, SubMap
  <1>5. \A u \in N : DOMAIN FromPodReq(InitialReq[u]) \subseteq DOMAIN s.used
    BY <1>2 DEF Consistent
  <1>6. DOMAIN s1.used \subseteq DOMAIN s.used
    BY <1>1, <1>2, <1>3, <1>5 DEF NoLarger
  <1>7. s1.max = s.max
    BY <1>1, <1>2, <1>3 DEF NoLarger
  <1> QED
    BY <1>4, <1>6, <1>7 DEF NoLarger, s, s1

\* FitsQuota in these terms.
LEMMA FitsMeans ==
    ASSUME NEW p \in Pods
    PROVE  /\ FitsQuota(p) <=>
                 (QueueOf[p] \in DOMAIN queueByName =>
                     ~WouldPutOverMax(With(queueByName, QueueOf[p], NominatedAhead(p)),
                                      FromPodReq(InitialReq[p])))
           /\ FitsQuota(p)' <=>
                 (QueueOf[p] \in DOMAIN queueByName' =>
                     ~WouldPutOverMax(With(queueByName', QueueOf[p], NominatedAhead(p)'),
                                      FromPodReq(InitialReq[p])))
  <1>1. Fresh(p).queue = QueueOf[p]
    BY DEF Fresh
  <1> QED
    BY <1>1 DEF FitsQuota, HasQueue, Snapshot, With

\* A pod that fits still fits when ledgers and nominations only shrink.
LEMMA StillFits ==
    ASSUME "resize" \notin Disruptions, TypeOK, TypeOK',
           LedgersConsistent(queueByName), LedgersConsistent(queueByName'),
           AllNoLarger(queueByName', queueByName), nominated' \subseteq nominated,
           NEW p \in Pods, FitsQuota(p)
    PROVE  FitsQuota(p)'
  <1> DEFINE q == QueueOf[p]
             N == NominatedAhead(p)
             N1 == NominatedAhead(p)'
             s == With(queueByName, q, N)
             s1 == With(queueByName', q, N1)
             r == FromPodReq(InitialReq[p])
  <1> SUFFICES ASSUME q \in DOMAIN queueByName
               PROVE  ~WouldPutOverMax(s1, r)
    BY FitsMeans DEF AllNoLarger
  <1>1. N \in SUBSET Pods /\ N1 \in SUBSET N
    BY DEF NominatedAhead, TypeOK
  <1>2. ManagerTypeOK(queueByName) /\ ManagerTypeOK(queueByName') /\ q \in DOMAIN queueByName'
    BY DEF TypeOK, AllNoLarger
  <1>3. ~WouldPutOverMax(s, r)
    BY FitsMeans
  <1> HIDE DEF N, N1
  <1>4. NoLarger(s1, s)
    BY <1>1, <1>2, SnapshotSmaller
  <1>5. Consistent(s) /\ \A n \in DOMAIN s.max : s.max[n] \in Int
    BY <1>1, <1>2, SnapshotHolds
  <1>6. Consistent(s1)
    BY <1>1, <1>2, SnapshotHolds
  <1>7. IsReq(InitialReq[p])
    BY RequestsAssumption DEF IsRequest, IsReq
  <1> HIDE DEF s, s1
  <1> QED
    BY <1>3, <1>4, <1>5, <1>6, <1>7, FitsSmaller

-----------------------------------------------------------------------------
(* What the steps do to the ledgers.                                       *)

\* The ledgers of the same queues are no larger.
LEMMA SameNoLarger ==
    ASSUME NEW qm, NEW qm1, DOMAIN qm1 = DOMAIN qm, \A q \in DOMAIN qm : qm1[q] = qm[q]
    PROVE  AllNoLarger(qm1, qm)
  BY DEF AllNoLarger, NoLarger, SubMap

\* Deleting a pod makes no ledger larger.
LEMMA DeleteNoLarger ==
    ASSUME "resize" \notin Disruptions,
           NEW qm, ManagerTypeOK(qm), LedgersConsistent(qm),
           NEW p \in Pods, NEW o \in PodObjects(p)
    PROVE  AllNoLarger(DeletePod(qm, o), qm)
  <1> DEFINE q == QueueOf[p]
  <1>1. o.uid = p /\ o.queue = q /\ o.req = InitialReq[p]
    BY DEF PodObjects, Reqs
  <1>2. CASE q \notin DOMAIN qm \/ p \notin DOMAIN qm[q].podsByID
    <2>1. DOMAIN DeletePod(qm, o) = DOMAIN qm /\ \A x \in DOMAIN qm : DeletePod(qm, o)[x] = qm[x]
      BY <1>1, <1>2 DEF DeletePod, HasQueue, DeletePodIfPresent, ContainsPod
    <2> QED
      BY <2>1, SameNoLarger
  <1>3. CASE q \in DOMAIN qm /\ p \in DOMAIN qm[q].podsByID
    <2> DEFINE l == qm[q]
               l1 == DeletePodIfPresent(l, o)
               r == FromPodReq(o.req)
    <2>1. l = [max |-> l.max, used |-> l.used, podsByID |-> l.podsByID]
          /\ l.podsByID[p] = InitialReq[p]
      BY <1>3 DEF ManagerTypeOK, QuotaTypeOK, Reqs
    <2>2. l1 = [max |-> l.max, used |-> Sub(l.used, r), podsByID |-> MapDelete(l.podsByID, p)]
      BY <1>1, <1>3, <2>1 DEF DeletePodIfPresent, ContainsPod
    <2>3. DOMAIN r \subseteq DOMAIN l.used
      BY <1>1, <1>3, <2>1 DEF LedgersConsistent, Consistent
    <2>4. DOMAIN Sub(l.used, r) = DOMAIN l.used
      BY <2>3 DEF Sub, getResNames
    <2>5. SubMap(MapDelete(l.podsByID, p), l.podsByID)
      BY DEF SubMap, MapDelete
    <2>6. DeletePod(qm, o) = [qm EXCEPT ![q] = l1]
      BY <1>1, <1>3 DEF DeletePod, HasQueue
    <2> HIDE DEF l1, r
    <2>7. NoLarger(l1, l)
      BY <2>2, <2>4, <2>5 DEF NoLarger
    <2>8. \A x \in DOMAIN qm : NoLarger(qm[x], qm[x])
      BY DEF NoLarger, SubMap
    <2> QED
      BY <1>3, <2>6, <2>7, <2>8 DEF AllNoLarger
  <1> QED
    BY <1>2, <1>3

\* Adding a pod that is counted already, or whose queue is unknown, changes
\* nothing.
LEMMA AddCountedSame ==
    ASSUME NEW p \in Pods, NEW o \in PodObjects(p),
           QueueOf[p] \in DOMAIN queueByName => Counted(p)
    PROVE  AllNoLarger(AddPod(queueByName, o), queueByName)
  <1>1. o.uid = p /\ o.queue = QueueOf[p]
    BY DEF PodObjects
  <1>2. /\ DOMAIN AddPod(queueByName, o) = DOMAIN queueByName
        /\ \A x \in DOMAIN queueByName : AddPod(queueByName, o)[x] = queueByName[x]
    BY <1>1 DEF AddPod, HasQueue, AddPodIfNotPresent, ContainsPod, Counted
  <1> QED
    BY <1>2, SameNoLarger

\* The pod handlers make no ledger larger: an add that waits is of a pod that
\* Reserve has counted.
LEMMA HandlersNoLarger ==
    ASSUME Undisturbed, TypeOK, SyncInv, LedgersConsistent(queueByName), PodHandlers
    PROVE  AllNoLarger(queueByName', queueByName) /\ UNCHANGED <<nominated, step>>
  <1> DEFINE c == podCalls[1]
             u == c.pod.uid
  <1>1. /\ 1 \in DOMAIN podCalls
        /\ u \in Pods /\ c.pod \in PodObjects(u)
        /\ c.call = "add" => queueByName' = AddPod(queueByName, c.pod)
        /\ TakesOff(c) => queueByName' = DeletePod(queueByName, c.pod)
        /\ c.call # "add" /\ ~TakesOff(c) => queueByName' = queueByName
        /\ UNCHANGED <<nominated, step>>
    BY PodHandlersStep
  <1>2. "resize" \notin Disruptions /\ ForeignPods = {}
    BY DEF Undisturbed
  <1>3. CASE c.call = "add"
    <2>1. AddWaits(u)
      BY <1>1, <1>3 DEF AddWaits
    <2>2. QueueOf[u] \in DOMAIN queueByName => Counted(u)
      BY <1>1, <1>2, <2>1 DEF SyncInv, OwnReserved
    <2> HIDE DEF c, u
    <2> QED
      BY <1>1, <1>3, <2>2, AddCountedSame
  <1>4. CASE TakesOff(c)
    <2> HIDE DEF c, u
    <2> QED
      BY <1>1, <1>2, <1>4, DeleteNoLarger DEF TypeOK
  <1>5. CASE c.call # "add" /\ ~TakesOff(c)
    BY <1>1, <1>5, SameNoLarger
  <1> QED
    BY <1>1, <1>3, <1>4, <1>5

\* Where ledgers, nominations and the pods on their way to Reserve only become
\* fewer, the gate holds.
LEMMA GateShrinks ==
    ASSUME Undisturbed, TypeOK, TypeOK', GateInv, LedgersConsistent(queueByName'),
           AllNoLarger(queueByName', queueByName), nominated' \subseteq nominated,
           \A p \in Pods : step'[p] = "filtered" => step[p] = "filtered"
    PROVE  GateInv'
  <1>1. "resize" \notin Disruptions /\ LedgersConsistent(queueByName)
    BY DEF Undisturbed, GateInv
  <1>2. FilteredStillFits'
    BY <1>1, StillFits DEF GateInv, FilteredStillFits
  <1>3. ASSUME NEW q \in DOMAIN queueByName'
        PROVE  WithinMax(queueByName'[q])
    <2>1. q \in DOMAIN queueByName /\ NoLarger(queueByName'[q], queueByName[q])
      BY DEF AllNoLarger
    <2>2. Consistent(queueByName[q]) /\ Consistent(queueByName'[q]) /\ WithinMax(queueByName[q])
      BY <1>1, <2>1 DEF LedgersConsistent, GateInv
    <2>3. \A n \in DOMAIN queueByName[q].max : queueByName[q].max[n] \in Int
      BY <2>1, MaxesAssumption DEF TypeOK, ManagerTypeOK, QuotaTypeOK, IsResources
    <2> QED
      BY <2>1, <2>2, <2>3, WithinMaxSmaller
  <1>4. \A p, o \in Pods : step'[p] = "filtered" /\ step'[o] = "filtered" => p = o
    BY DEF GateInv
  <1> QED
    BY <1>2, <1>3, <1>4 DEF GateInv, LedgersConsistent

\* Reserve keeps the ledger within its maximum although it does not check
\* again: what PreFilter checked was no smaller.
LEMMA ReserveKeepsGate ==
    ASSUME Undisturbed, TypeOK, GateInv, LedgersConsistent(queueByName'),
           NEW p \in Pods, Reserve(p)
    PROVE  GateInv'
  <1> DEFINE q == QueueOf[p]
             qm == queueByName
             l == qm[q]
             N == NominatedAhead(p)
  <1>1. step[p] = "filtered" /\ step' = [step EXCEPT ![p] = "binding"]
        /\ queueByName' = AddPod(queueByName, Fresh(p))
    BY DEF Reserve
  <1>2. \A x \in Pods : step'[x] # "filtered"
    BY <1>1 DEF GateInv, TypeOK
  <1>3. Fresh(p).uid = p /\ Fresh(p).queue = q /\ Fresh(p).req = InitialReq[p]
    BY DEF Fresh
  <1>4. "resize" \notin Disruptions /\ LedgersConsistent(qm) /\ ManagerTypeOK(qm)
    BY DEF Undisturbed, GateInv, TypeOK
  <1>5. IsReq(InitialReq[p])
    BY RequestsAssumption DEF IsRequest, IsReq
  <1>6. CASE q \in DOMAIN qm
    <2>1. ~WouldPutOverMax(With(qm, q, N), FromPodReq(InitialReq[p]))
      BY <1>1, <1>6, FitsMeans DEF GateInv, FilteredStillFits
    <2>2. N \in SUBSET Pods
      BY DEF NominatedAhead, TypeOK
    <2> DEFINE s == With(qm, q, N)
    <2> HIDE DEF N
    <2>3. /\ Consistent(s)
          /\ s.max = l.max /\ \A n \in DOMAIN s.max : s.max[n] \in Int
          /\ DOMAIN s.podsByID = DOMAIN l.podsByID \cup N
          /\ \A u \in DOMAIN s.podsByID : s.podsByID[u] = InitialReq[u]
          /\ \A u \in DOMAIN l.podsByID : l.podsByID[u] = InitialReq[u]
          /\ DOMAIN l.used \subseteq DOMAIN s.used
      BY <1>4, <1>6, <2>2, SnapshotHolds
    <2> HIDE DEF s
    <2>4. NoLarger(l, s)
      BY <2>3 DEF NoLarger, SubMap
    <2>5. Consistent(l) /\ WithinMax(l)
      BY <1>4, <1>6 DEF LedgersConsistent, GateInv
    <2>6. ~WouldPutOverMax(l, FromPodReq(InitialReq[p]))
      BY <1>5, <2>1, <2>3, <2>4, <2>5, FitsSmaller DEF s
    <2>7. l = [max |-> l.max, used |-> l.used, podsByID |-> l.podsByID]
      BY <1>4, <1>6 DEF ManagerTypeOK, QuotaTypeOK
    <2>8. WithinMax(AddPodIfNotPresent(l, Fresh(p)))
      BY <1>3, <1>5, <2>5, <2>6, <2>7, AddPodWithinMax
    <2>9. queueByName' = [queueByName EXCEPT ![q] = AddPodIfNotPresent(l, Fresh(p))]
      BY <1>1, <1>3, <1>6 DEF AddPod, HasQueue
    <2>10. \A x \in DOMAIN queueByName' : WithinMax(queueByName'[x])
      BY <1>6, <2>8, <2>9 DEF GateInv
    <2> QED
      BY <1>2, <2>10 DEF GateInv, FilteredStillFits, LedgersConsistent
  <1>7. CASE q \notin DOMAIN qm
    <2>1. queueByName' = queueByName
      BY <1>1, <1>3, <1>7 DEF AddPod, HasQueue
    <2> QED
      BY <1>2, <2>1 DEF GateInv, FilteredStillFits, LedgersConsistent
  <1> QED
    BY <1>6, <1>7

\* Every step of the system keeps the gate.
LEMMA GateNext ==
    ASSUME Undisturbed, TypeOK, SyncInv, GateInv, [Next]_vars
    PROVE  GateInv'
  <1> USE DEF apiVars, queueVars, queueApiVars
  <1>1. TypeOK' /\ LedgersConsistent(queueByName')
    BY NextType, LedgersConsistentNext DEF Undisturbed, GateInv
  <1>2. \A kind \in {"queueLifecycle", "restart", "lateBind", "resize"} : ~Disrupt(kind)
    BY DEF Undisturbed, Disrupt
  <1>3. "resize" \notin Disruptions /\ LedgersConsistent(queueByName) /\ ManagerTypeOK(queueByName)
    BY DEF Undisturbed, GateInv, TypeOK
  <1>4. queueByName' = queueByName => AllNoLarger(queueByName', queueByName)
    BY SameNoLarger
  <1>5. ASSUME NEW p \in Pods,
               CreatePod(p) \/ RemovePod(p) \/ FinishPod(p) \/ ForeignBind(p) \/ ResizePod(p)
        PROVE  GateInv'
    BY <1>1, <1>4, <1>5, GateShrinks
    DEF CreatePod, RemovePod, FinishPod, ForeignBind, ResizePod
  <1>6. ASSUME NEW p \in Pods, PreFilter(p)
        PROVE  GateInv'
    <2>1. /\ UNCHANGED <<queueByName, nominated>> /\ FitsQuota(p) /\ Idle
          /\ step' = [step EXCEPT ![p] = "filtered"]
      BY <1>6 DEF PreFilter
    <2>2. \A x \in Pods : step'[x] = "filtered" => x = p
      BY <2>1 DEF Idle, TypeOK
    <2>3. FitsQuota(p)'
      BY <2>1 DEF FitsQuota, Snapshot, NominatedAhead
    <2> QED
      BY <1>1, <2>1, <2>2, <2>3 DEF GateInv, FilteredStillFits, LedgersConsistent
  <1>7. ASSUME NEW p \in Pods, Unschedulable(p) \/ ReserveFails(p) \/ Bind(p)
        PROVE  GateInv'
    <2>1. queueByName' = queueByName /\ nominated' = nominated
      BY <1>7 DEF Unschedulable, ReserveFails, Bind, AddPodFails, DeletePod
    <2>2. \A x \in Pods : step'[x] = "filtered" => step[x] = "filtered"
      BY <1>7 DEF Unschedulable, ReserveFails, Bind, TypeOK
    <2> QED
      BY <1>1, <1>4, <2>1, <2>2, GateShrinks
  <1>8. ASSUME NEW p \in Pods, Reserve(p)
        PROVE  GateInv'
    BY <1>1, <1>8, ReserveKeepsGate
  <1>9. ASSUME NEW p \in Pods, Unreserve(p)
        PROVE  GateInv'
    <2>1. queueByName' = DeletePod(queueByName, Fresh(p)) /\ nominated' = nominated
      BY <1>9 DEF Unreserve
    <2>2. AllNoLarger(queueByName', queueByName)
      BY <1>3, <2>1, FreshType, DeleteNoLarger
    <2>3. \A x \in Pods : step'[x] = "filtered" => step[x] = "filtered"
      BY <1>9 DEF Unreserve, TypeOK
    <2> QED
      BY <1>1, <2>1, <2>2, <2>3, GateShrinks
  <1>10. ASSUME NEW p \in Pods, BindUnanswered(p)
         PROVE  GateInv'
    BY <1>2, <1>10 DEF BindUnanswered
  <1>11. ASSUME NEW p \in Pods, Nominate(p)
         PROVE  GateInv'
    <2>1. UNCHANGED <<queueByName, step>> /\ Idle
      BY <1>11 DEF Nominate
    <2> QED
      BY <1>1, <2>1 DEF GateInv, Idle, FilteredStillFits, LedgersConsistent
  <1>12. ASSUME NEW p \in Pods, ClearNomination(p)
         PROVE  GateInv'
    BY <1>1, <1>4, <1>12, GateShrinks DEF ClearNomination
  <1>13. ASSUME NEW q \in Queues,
                (\E max \in Maxes : CreateQueue(q, max) \/ ChangeQueue(q, max)) \/ RemoveQueue(q)
         PROVE  GateInv'
    BY <1>2, <1>13 DEF CreateQueue, ChangeQueue, RemoveQueue
  <1>14. CASE WatchDown \/ Relist \/ QueueWatchDown \/ QueueRelist \/ UNCHANGED vars
    BY <1>1, <1>4, <1>14, GateShrinks DEF WatchDown, Relist, QueueWatchDown, QueueRelist, vars
  <1>15. CASE PodHandlers
    <2>1. AllNoLarger(queueByName', queueByName) /\ UNCHANGED <<nominated, step>>
      BY <1>3, <1>15, HandlersNoLarger
    <2> QED
      BY <1>1, <2>1, GateShrinks
  <1>16. CASE QueueHandlers
    <2>1. SameQueues /\ UNCHANGED <<nominated, step>>
      BY <1>16, QueueHandlersIdle DEF SyncInv
    <2>2. AllNoLarger(queueByName', queueByName)
      BY <2>1, SameNoLarger DEF SameQueues
    <2> QED
      BY <1>1, <2>1, <2>2, GateShrinks
  <1>17. CASE Restart
    BY <1>2, <1>17 DEF Restart
  <1> QED
    BY <1>5, <1>6, <1>7, <1>8, <1>9, <1>10, <1>11, <1>12, <1>13, <1>14, <1>15, <1>16, <1>17
    DEF Next, SchedulingCycle, BindingCycle

\* The gate holds at first.
LEMMA GateInit == Init => GateInv
  <1> SUFFICES ASSUME Init PROVE GateInv
    OBVIOUS
  <1>1. LedgersConsistent(queueByName)
    BY LedgersConsistentInit
  <1>2. \A p \in Pods : step[p] # "filtered"
    BY DEF Init
  <1>3. \A q \in DOMAIN InitialMax : DOMAIN NewQueue(InitialMax[q]).used = {}
    BY DEF NewQueue, SetMax, NewQuota, NoResources
  <1>4. \A q \in DOMAIN queueByName : WithinMax(queueByName[q])
    BY <1>3 DEF Init, WithinMax, AnyGreaterIntersecting
  <1> QED
    BY <1>1, <1>2, <1>4 DEF GateInv, FilteredStillFits

\* What the two theorems share.
LEMMA GateHolds ==
    ASSUME Undisturbed
    PROVE  Spec => [](TypeOK /\ SyncInv /\ GateInv)
  <1>1. TypeOK /\ SyncInv /\ [Next]_vars => SyncInv'
    BY SyncNext DEF Undisturbed, Uninterrupted
  <1>2. TypeOK /\ SyncInv /\ GateInv /\ [Next]_vars => GateInv'
    BY GateNext
  <1> QED
    BY <1>1, <1>2, SyncInit, GateInit, InitType, NextType, PTL DEF Spec

\* Check-then-act: the quota check a pod passed in PreFilter still holds, the
\* nominated pods counted in, when Reserve takes the quota without checking
\* again, whatever binding cycles, informer calls, deletions and broken watches
\* come in between.
THEOREM CheckStillHolds ==
    ASSUME Undisturbed
    PROVE  Spec => []FilteredStillFits
  <1>1. GateInv => FilteredStillFits
    BY DEF GateInv
  <1> QED
    BY <1>1, GateHolds, PTL

\* README: "the sum of pods in that queue cannot exceed quota".  The pods that
\* run in a queue are on its ledger, and the ledger is within the maximum.
THEOREM QuotaRespected ==
    ASSUME Undisturbed
    PROVE  Spec => []BoundWithinMax
  <1>1. TypeOK /\ SyncInv /\ GateInv => BoundWithinMax
    <2> SUFFICES ASSUME TypeOK, SyncInv, GateInv, NEW q \in DOMAIN queues,
                        NEW n \in DOMAIN queues[q] \cap RequestNames(OccupantReqs(q))
                 PROVE  Requested(OccupantReqs(q), n) <= queues[q][n]
      BY DEF BoundWithinMax
    <2> DEFINE l == queueByName[q]
               occ == OccupantReqs(q)
    <2>1. q \in DOMAIN queueByName /\ l.max = queues[q]
      BY DEF SyncInv, QueuesFixed
    <2>2. Consistent(l) /\ WithinMax(l)
      BY <2>1 DEF GateInv, LedgersConsistent
    <2>3. \A k \in DOMAIN l.max : l.max[k] \in Int
      BY <2>1, MaxesAssumption DEF TypeOK, ManagerTypeOK, QuotaTypeOK, IsResources
    <2>4. DOMAIN occ = {o \in Pods : Occupies(o) /\ QueueOf[o] = q}
          /\ \A p \in DOMAIN occ : occ[p] = pods[p].req
      BY DEF OccupantReqs
    <2> HIDE DEF occ
    <2>5. ASSUME NEW p \in DOMAIN occ
          PROVE  p \in DOMAIN l.podsByID /\ occ[p] = l.podsByID[p]
      <3>1. p \in Pods \ ForeignPods /\ Occupies(p) /\ QueueOf[p] = q
        BY <2>4 DEF Undisturbed
      <3>2. pods[p].bound /\ pods[p].life # "gone" /\ pods[p].phase # "Terminal"
        BY <3>1 DEF Occupies, Live
      <3>3. step[p] = "done" /\ ~StoreDeparted(p)
        BY <3>1, <3>2 DEF SyncInv, OwnReserved, StoreBehind, StoreDeparted
      <3>4. Counted(p)
        BY <2>1, <3>1, <3>3 DEF SyncInv, OwnReserved
      <3>5. p \in DOMAIN l.podsByID
        BY <3>1, <3>4 DEF Counted
      <3>6. l.podsByID[p] \in Reqs(p) /\ pods[p].req \in Reqs(p)
        BY <2>1, <3>1, <3>5 DEF TypeOK, ManagerTypeOK, QuotaTypeOK, PodObjects
      <3>7. l.podsByID[p] = pods[p].req
        BY <3>6 DEF Reqs, Undisturbed
      <3> QED
        BY <2>4, <3>5, <3>7
    <2>6. SubMap(occ, l.podsByID)
      BY <2>5 DEF SubMap
    <2>7. n \in DOMAIN l.used \cap DOMAIN l.max
      <3>1. PICK u \in DOMAIN occ : n \in DOMAIN FromPodReq(occ[u])
        BY DEF RequestNames, occ
      <3> QED
        BY <2>1, <2>2, <2>5, <3>1 DEF Consistent
    <2>8. Requested(occ, n) \in Nat /\ Requested(l.podsByID, n) \in Nat
          /\ Requested(occ, n) <= Requested(l.podsByID, n)
      BY <2>2, <2>6, SubMapRequests DEF Consistent
    <2>9. Requested(l.podsByID, n) <= l.max[n]
      BY <2>2, <2>3, <2>7, WithinMaxMeans
    <2> QED
      BY <2>1, <2>3, <2>7, <2>8, <2>9 DEF occ
  <1> QED
    BY <1>1, GateHolds, PTL
=============================================================================
