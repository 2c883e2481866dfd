---------------------------- MODULE QueueManager ----------------------------
(***************************************************************************)
(* internal/queue/manager.go and queue.go: the registry of queues.         *)
(*                                                                         *)
(* queueByName is a function from the names of the known queues to their   *)
(* quotas; a name outside its domain is the nil *Queue of a Go map read.   *)
(* A pod argument is a record with the fields uid, queue (the value of its *)
(* queue label, or NoLabel) and req.                                       *)
(***************************************************************************)
EXTENDS Quota

CONSTANT NoLabel    \* stands for a pod without the queue label

NewManager == [name \in {} |-> NewQuota(NoResources)]

\* Mutant of NewQueue: the options are not applied.
NewQueueNoOpts(max) == NewQuota(NoResources)

\* New(name, WithQuotaMax(max)): a fresh, empty ledger.
NewQueue(max) == SetMax(NewQuota(NoResources), max)

HasQueue(qm, pod) == pod.queue \in DOMAIN qm

\* Put always installs a fresh queue, also over an existing one.
Put(qm, name, max) ==
    [x \in DOMAIN qm \cup {name} |-> IF x = name THEN NewQueue(max) ELSE qm[x]]

\* Update keeps the ledger of a known queue and creates an unknown one.
Update(qm, name, max) ==
    IF name \in DOMAIN qm
    THEN [qm EXCEPT ![name] = SetMax(@, max)]
    ELSE Put(qm, name, max)

Delete(qm, name) == [x \in DOMAIN qm \ {name} |-> qm[x]]

\* An error (queue label set, queue unknown) leaves the manager unchanged.
AddPod(qm, pod) ==
    IF HasQueue(qm, pod)
    THEN [qm EXCEPT ![pod.queue] = AddPodIfNotPresent(@, pod)]
    ELSE qm

DeletePod(qm, pod) ==
    IF HasQueue(qm, pod)
    THEN [qm EXCEPT ![pod.queue] = DeletePodIfPresent(@, pod)]
    ELSE qm

\* AddPodIfNotPresent returns an error exactly here.
AddPodFails(qm, pod) == pod.queue # NoLabel /\ ~HasQueue(qm, pod)
=============================================================================
