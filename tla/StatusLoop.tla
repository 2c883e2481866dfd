----------------------------- MODULE StatusLoop -----------------------------
(***************************************************************************)
(* internal/queue/synchronizer.go, statusUpdateLoop: every few seconds the *)
(* effective maximum and the usage of every queue are written to the       *)
(* status of its Queue object, from the cluster's total (ClusterTracker)   *)
(* and a clone of the queue manager.                                       *)
(*                                                                         *)
(* Handlers and scheduling cycles change the manager at any time and in    *)
(* any way its operations allow.  The API server and the timer are         *)
(* external.                                                               *)
(***************************************************************************)
EXTENDS ClusterTracker, QueueManager

CONSTANTS
    QueueNames,
    Maxes,            \* the maxima a queue may be given
    PodObjects,       \* pods: [uid, queue, req]
    MaxDisruptions    \* bound on queue objects created or deleted and on restarts

ASSUME StatusAssumption ==
    /\ \A m \in Maxes : \A n \in DOMAIN m : m[n] \in Int
    /\ MaxDisruptions \in Nat

VARIABLES
    status,        \* the Queue objects: name -> [effectiveMax, used]
    queueByName,   \* the manager
    pc,            \* whether the loop has its total and is about to clone
    clusterTotal,  \* clusterTotalRes of the current pass
    todo,          \* queues it still has to patch, as cloned
    disruptions

loopVars == <<pc, clusterTotal, todo>>
statusVars == <<status, queueByName, loopVars, disruptions>>
allVars == <<vars, statusVars>>

-----------------------------------------------------------------------------
(* Queue objects and the manager.                                          *)

Disrupt == disruptions < MaxDisruptions /\ disruptions' = disruptions + 1

EmptyStatus == [effectiveMax |-> NoResources, used |-> NoResources]

CreateQueue(q) ==
    /\ Disrupt
    /\ q \notin DOMAIN status
    /\ status' = MapSet(status, q, EmptyStatus)
    /\ UNCHANGED <<vars, queueByName, loopVars>>

RemoveQueue(q) ==
    /\ Disrupt
    /\ q \in DOMAIN status
    /\ status' = MapDelete(status, q)
    /\ UNCHANGED <<vars, queueByName, loopVars>>

ManagerCall ==
    /\ \/ \E q \in QueueNames : queueByName' = Delete(queueByName, q)
       \/ \E q \in QueueNames, m \in Maxes : queueByName' = Update(queueByName, q, m)
       \/ \E o \in PodObjects : queueByName' = AddPod(queueByName, o)
       \/ \E o \in PodObjects : queueByName' = DeletePod(queueByName, o)
    /\ UNCHANGED <<vars, status, loopVars, disruptions>>

-----------------------------------------------------------------------------
(* The loop.                                                               *)

NoQueues == [q \in {} |-> NewQueue(NoResources)]

\* The timer fires and a pass begins.
GetTotal ==
    /\ pc = "sleeping" /\ todo = NoQueues
    /\ pc' = "totalled"
    /\ clusterTotal' = total
    /\ UNCHANGED <<vars, todo, status, queueByName, disruptions>>

\* QueueIter: the pass goes over a clone of the manager.
QueueIter ==
    /\ pc = "totalled"
    /\ pc' = "sleeping"
    /\ todo' = queueByName
    /\ UNCHANGED <<vars, clusterTotal, status, queueByName, disruptions>>

StatusPatch(q) ==
    [effectiveMax |-> TakeMinExisting(clusterTotal, todo[q].max), used |-> todo[q].used]

\* A JSON merge patch leaves alone the names it does not mention, and with
\* omitempty an empty map is not mentioned at all.
Merge(old, patch) ==
    [n \in DOMAIN old \cup DOMAIN patch |-> IF n \in DOMAIN patch THEN patch[n] ELSE old[n]]

MergeStatus(old, patch) ==
    [effectiveMax |-> Merge(old.effectiveMax, patch.effectiveMax),
     used |-> Merge(old.used, patch.used)]

\* The loop is done with q; after the last queue it sleeps again.
Done(q) ==
    /\ todo' = MapDelete(todo, q)
    /\ clusterTotal' = IF DOMAIN todo = {q} THEN NoResources ELSE clusterTotal

Patch(q) ==
    /\ q \in DOMAIN todo
    /\ q \in DOMAIN status
    /\ status' = [status EXCEPT ![q] = MergeStatus(@, StatusPatch(q))]
    /\ Done(q)
    /\ UNCHANGED <<vars, pc, queueByName, disruptions>>

\* Mutant of PatchFails: an error ends the loop.
PatchFailsEndsLoop(q) ==
    /\ q \in DOMAIN todo
    /\ pc' = "ended" /\ todo' = NoQueues /\ clusterTotal' = NoResources
    /\ UNCHANGED <<vars, status, queueByName, disruptions>>

\* Any error, such as that of an object that does not exist, is logged.
PatchFails(q) ==
    /\ q \in DOMAIN todo
    /\ Done(q)
    /\ UNCHANGED <<vars, pc, status, queueByName, disruptions>>

\* A new process: empty manager and total, the nodes listed again.  The
\* status of the Queue objects is what the old process left.
Restart ==
    /\ Disrupt
    /\ queueByName' = NewManager
    /\ pc' = "sleeping" /\ clusterTotal' = NoResources /\ todo' = NoQueues
    /\ nodeIDs' = {} /\ total' = NoResources
    /\ store' = nodes /\ watchUp' = TRUE
    /\ \E order \in Orders(DOMAIN nodes) :
          calls' = [i \in DOMAIN order |->
                       NodeCall("add", order[i], nodes[order[i]], nodes[order[i]])]
    /\ UNCHANGED <<nameOf, nodes, gone, heartbeats, losses, status>>

-----------------------------------------------------------------------------
StatusInit ==
    /\ Init
    /\ status = [q \in QueueNames |-> EmptyStatus]
    /\ queueByName = NewManager
    /\ pc = "sleeping" /\ clusterTotal = NoResources /\ todo = NoQueues
    /\ disruptions = 0

PatchOne(q) == Patch(q) \/ PatchFails(q)

\* The next step of the loop's goroutine.
LoopStep == GetTotal \/ QueueIter \/ \E q \in QueueNames : PatchOne(q)

StatusNext ==
    \/ Next /\ UNCHANGED statusVars
    \/ ManagerCall
    \/ \E q \in QueueNames : CreateQueue(q) \/ RemoveQueue(q) \/ PatchOne(q)
    \/ GetTotal \/ QueueIter
    \/ Restart

StatusSpec == StatusInit /\ [][StatusNext]_allVars

(* The timer fires, the loop and the node handlers run, a broken watch is  *)
(* retried, and a patch that is tried again and again succeeds in the end. *)
StatusFairness ==
    /\ WF_allVars(LoopStep)
    /\ WF_allVars(NodeHandlers /\ UNCHANGED statusVars)
    /\ WF_allVars(Relist /\ UNCHANGED statusVars)
    /\ \A q \in QueueNames : SF_allVars(Patch(q))

StatusFairSpec == StatusSpec /\ StatusFairness

-----------------------------------------------------------------------------
(* Properties.                                                             *)

\* What queue q may use of resource n: no more than its maximum, if that is
\* set, and no more than the nodes of the cluster provide.
EffectiveMax(q, n) ==
    LET max == queueByName[q].max
    IN  IF n \in DOMAIN max /\ max[n] < Allocatable(nodes, n)
        THEN max[n] ELSE Allocatable(nodes, n)

StatusAgrees(q) ==
    /\ \A n \in DOMAIN queueByName[q].used :
          Qty(status[q].used, n) = queueByName[q].used[n]
    /\ losses = 0 =>
          \A n \in DOMAIN total : Qty(status[q].effectiveMax, n) = EffectiveMax(q, n)

\* queue_types.go: "EffectiveMax is the effective max resource for this queue.
\* This takes into account unset resources, cluster capacity, etc." and "Used
\* is the used quota for this queue."  Once queues, ledgers and nodes stop
\* changing, the status of every queue gets to agree with its ledger and with
\* the nodes that exist, on every name they have, although patches fail, are
\* computed from old reads and may hit an object that replaced the one read.
StatusConverges ==
    <>[][UNCHANGED <<queueByName, nodes, DOMAIN status>>]_allVars
        => <>[](\A q \in DOMAIN queueByName \cap DOMAIN status : StatusAgrees(q))
=============================================================================
