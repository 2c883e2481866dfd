# A TLA+ model of kaschnit-scheduler

kaschnit-scheduler is a kube-scheduler with one plugin, `QuotaAwarePreemption`:
pods carry a queue label, queues (a custom resource) carry a quota, and the
plugin admits, counts and preempts pods so that the pods of a queue stay within
its quota. This directory models its logic in TLA+, checks it with TLC on
small instances and proves its safety properties with TLAPS.

Paths below are relative to `src/internal/` unless they begin with `src/`.

## 1. The system

### Components, their state and their operations

| Component | State | Operations |
|---|---|---|
| Resource algebra (`alloc/resource.go`) | none | `Add`, `Sub`, comparisons over named quantities; a missing name reads as 0 in some, is skipped in others |
| Quota (`queue/quota.go`) | `max`, `used` (a running total), `podsByID` | `AddPodIfNotPresent`, `DeletePodIfPresent`, `WouldPutOverMax`, `SetMax`, `Clone` |
| Queue manager (`queue/manager.go`, `queue.go`) | `queueByName`, a table of pointers to queues, each with its lock | `Put`, `Update`, `Delete`, pod accounting, `Clone`, `QueueIter` |
| Synchronizer (`queue/synchronizer.go`) | none beyond the manager | handlers of the pod and the queue informer; a loop that writes queue status every 5 s |
| Plugin (`plugin/quotaawarepreempt/plugin.go`, `state.go`) | a snapshot per scheduling cycle | `PreFilter`, `Reserve`, `Unreserve`, `AddPod`/`RemovePod` on the snapshot, `PostFilter`, `PreEnqueue` |
| Preemption (`plugin/quotaawarepreempt/preemption.go`) | local to the call | eligibility, potential victims, victim selection on a node |
| Preemption rules (`queue/preemption.go`, `match/`) | none | who may preempt whom, from the rules of both queues |
| Budget evaluation (`pdbeval/`) | local to the call | which removals violate a disruption budget |
| Cluster tracker (`alloc/cluster_tracker.go`, `node_aggregator.go`) | `nodeIDs`, `total` | handlers of the node informer, `Put`, `Delete` |
| API types, generated clients, entry point, chart, test support | — | — |

### How they interact

One process holds one queue manager. These goroutines share it:

* the goroutine that runs the **pod handlers** (`addPod`, `updatePod`,
  `deletePod`), fed by the pod informer through a filter that lets only pods
  with a node pass;
* the goroutine that runs the **queue handlers**;
* the **scheduling loop**: `PreFilter` copies the manager, counts in nominated
  pods and checks the quota on the copy; later `Reserve` adds the pod to the
  manager itself, without a second check;
* a **binding cycle** per reserved pod, which ends in a bind or in `Unreserve`.

A fifth, the **status loop**, reads it and the tracker's total every five
seconds. When `PreFilter` or the filters reject a pod, `PostFilter` looks for
victims, nominates a node and has the framework's executor evict them; the
deletions requeue the pod. The node cache that the scheduler's own handlers
maintain and the ledgers that this plugin's handlers maintain learn of a
deletion at different times.

`Reserve` and the pod handlers account for the same pod independently; that is
why adding and removing are idempotent by UID. Nothing is persisted: after a
restart the ledgers are rebuilt from what the informers list.

### What is hard

* `used` is a running total, updated from different objects of the same pod.
* Check and reservation are separate; the ledger lags behind the cluster.
* Calls of the two informers are not ordered with respect to each other.
* An informer that loses its watch coalesces changes and infers deletions.
* The manager's lock is released between looking a queue up and changing it,
  and while a snapshot copies the queues.
* A preemptor is retried while its victims terminate, while one of the two
  views of the cluster lags behind the other, and after its nominated node is
  lost.
* A bind may succeed although the scheduler believes that it failed.
* Victim selection simulates on a node and on ledgers that come from different
  caches, with budgets that reorder the candidates.

`PROJECT.json` lists each of these hazards at its line, with the properties
that would catch it going wrong.

### What makes each component correct

* Quota: the total is what the pods on the ledger requested (`LedgerExact`).
* Synchronizer: once everything is handled, the ledgers list exactly the pods
  that hold resources (`InSync`, in two halves `NoPhantom`, of which
  `DeletedReleased` is the part about deleted pods, and `NothingMissed`);
  bound pods get on, departed pods get off for good
  (`BoundGetCounted`, `DepartedLeaveLedger`); the manager has the queues that
  exist (`QueuesInSync`).
* Queue manager: calls are linearizable (`Linearizable`, a refinement), and a
  snapshot is bracketed in time, untorn and isolated.
* Plugin: a check that passed stays valid until the reservation
  (`FilteredStillFits`), bound pods are never off the ledger
  (`OwnPodsCounted`), and the pods that run in a queue never exceed its maximum
  (`BoundWithinMax`).
* Preemption: victims make room, none is evicted for the sake of a less
  deserving pod, what is reported is right, no budget is exceeded by more
  victims than are reported (`BudgetsAccounted`), the simulation predicts the
  eviction; a preemptor evicts nobody while the victims that are terminating
  on its node leave it room (`PatientPreemptor`), and room is taken in the end
  (`RoomIsTaken`).
* Tracker: the total is the sum over the nodes (`TotalInSync`); of that,
  `TotalWhileWatched` is what holds until a watch breaks, and `NoNodeMissed`
  what holds after.
* Status loop: the status comes to agree with the ledgers and the nodes
  (`StatusConverges`).

## 2. The modules

| Module | Models | Notes |
|---|---|---|
| `Resources` | `alloc/resource.go` | operators on functions from names to integers |
| `Quota` | `queue/quota.go` | operators on a record `[max, used, podsByID]`; `Requested` is the reference sum |
| `QueueManager` | `queue/manager.go`, `queue.go` | operators on `queueByName` |
| `QueueRegistry` | what `queue/manager.go` promises | abstract: every call takes effect at one instant, with `QueueManager`'s operators |
| `ManagerConcurrency` | `queue/manager.go`, `queue.go` lock by lock | detailed: pointers, lookups and `Clone` in steps; implements `QueueRegistry` |
| `QuotaScheduling` | `queue/synchronizer.go`, the quota gate of `plugin.go` | the state machine, properties, fairness |
| `PreemptionRules` | `queue/preemption.go`, `match/` | operators |
| `VictimSelection` | `preemption.go`, `pdbeval/`, `pods/compare.go` | one call of `SelectVictimsOnNode` as a state machine |
| `PreemptionCycle` | `PreEnqueue`, `PostFilter`, `EventsToRegister` of `plugin.go`; `PodEligibleToPreemptOthers` of `preemption.go` | preemption from the rejected check to the binding, over several nodes; extends `QueueManager` and `PreemptionRules` |
| `ClusterTracker` | `alloc/node_aggregator.go`, `cluster_tracker.go` | state machine |
| `StatusLoop` | `statusUpdateLoop` of `queue/synchronizer.go` | composes `ClusterTracker` with the manager and the loop |
| `QuotaProofs` | — | lemmas about ledgers |
| `QuotaSchedulingProofs`, `LedgerSyncProofs` | — | theorems about `QuotaScheduling`, the second on top of the first |
| `ManagerProofs`, `PreemptionProofs`, `VictimProofs`, `TrackerProofs`, `AlgebraProofs` | — | theorems about `ManagerConcurrency`, `PreemptionCycle`, `VictimSelection`, `StatusLoop` with `ClusterTracker`, `MCResources` |
| `MCQuotaScheduling`, `MCResources`, `MCVictimSelection`, `MCClusterTracker`, `MCStatusLoop`, `MCManagerConcurrency`, `MCPreemptionCycle` | — | instances for TLC; `MCResources` also states the properties of the algebra |

All state machines but `ClusterTracker` are built on `QueueManager`, which is
built on `Quota` and `Resources`: the operators that the theorems are about are
the ones that TLC runs. `QuotaScheduling`, `PreemptionCycle` and `StatusLoop`
take each manager call as one step; `ManagerConcurrency` implementing
`QueueRegistry` is what justifies that.

### QuotaScheduling and the code

| Variable | Stands for |
|---|---|
| `pods`, `queues` | the objects at the API server (external) |
| `podStore`, `watchUp`, `queueStore`, `queueWatchUp` | the two informers' caches and watches (external) |
| `podCalls`, `queueCalls` | calls that wait for the two handler goroutines |
| `queueByName` | `Manager.queueByName` |
| `step` | where a pod is in the scheduler: queued, filtered (between `PreFilter` and `Reserve`), binding, done |
| `nominated` | pods with a nominated node |
| `disruptions` | how many disruptions the environment has committed |

One action per handler and extension point: `addPod`, `updatePod`, `deletePod`
(and `deletePodTombstone`, the same handler on a `DeletedFinalStateUnknown`),
`addQueue`, `updateQueue`, `deleteQueue` (and `deleteQueueTombstone`, where
the nil queue is dereferenced: the handler panics, client-go lets the panic
through, and the process is started again), `PreFilter`, `Reserve`,
`ReserveFails` (the error return, after which the framework calls
`Unreserve`), `Unreserve`. A `PreFilter` that rejects a pod changes no state
and is not an action. `NewProcess` is the construction in `NewPlugin` and
`NewSynchronizer` after a crash: an empty manager, both lists delivered in any
order. The remaining actions are Kubernetes.

Disruptions are switched on per run by `Disruptions` and counted against
`MaxDisruptions`: `queueLifecycle` (queues created, edited, deleted),
`watchLoss` (of pods), `queueWatchLoss`, `lateBind` (a bind carried out whose answer is lost), `restart`,
`resize` (in-place resize of a running pod).

Abstractions: a UID names one pod for ever and a pod's queue label does not
change; the phases Pending and Running are one, Succeeded and Failed another,
and Unknown, which Kubernetes no longer sets, is left out; a nomination is made
and cleared by the environment at any time (the decision is the subject of
`VictimSelection` and `PreemptionCycle`); each manager call is one step. A queue's spec appears as its maximum; its preemption rules are in
`PreemptionRules`. A node is not represented: whether a pod finds one is the
choice between `Reserve` and `Unschedulable`.

### VictimSelection and the code

The inputs (pods on the node, pods on the ledgers, capacity, allowed
disruptions) are chosen in `Init`; the call then returns early
(`NoPotentialVictims`, `DoesNotHelp`) or removes the potential victims and
tries them one by one, `Reprieve` or `Condemn` per call of `maybeReprievePod`,
ending in `SortVictims`. `slices.SortFunc` is not stable, so pods of equal
importance come in any order (`ByImportance`); the grouping by budgets is stable
(`ReprieveOrder`). Filter plugins are external and stand for the
capacity of the node; other nominated pods on the node are part of the
capacity. The error returns of the framework's calls are left out: they end
the call without a result.

### ManagerConcurrency, QueueRegistry and the code

The table `queueByName` maps names to pointers; `heap` holds the queues that are
allocated, and a queue nobody points to is collected, so that addresses can be
reused. An accounting call is `Invoke`, then `IgnorePod` for a pod without the
queue label, or else `GetByName` (manager's lock), `GetQuota` (queue's lock) and
`ApplyToQuota` (quota's lock), then `Return`. `Update` applies its options in
two steps with both locks held; `Put` and `Delete` are one step each, under the
manager's lock. `Clone` is `CopyTable` followed by one `CloneQueue` per queue,
with no lock of the manager held; the scheduling loop then changes its copy
(`Simulate`) and drops it. `window` is a history variable that records which
pods were on the ledgers throughout, and which at any time, while a snapshot
was taken.

The refinement mapping reads the quotas through the pointers. A call that has
found its queue is pending as long as the table still points to that queue; if
the queue is replaced or deleted first, the call is taken to have had its
effect at the instant before: what it adds to the orphaned ledger is lost, as
the whole ledger is. `QueueRegistry` allows that with `ResolveOn`. An update
takes effect with its first option.

### PreemptionCycle and the code

A scheduling cycle is one step: `Schedule` (all checks pass, `Reserve`, bind),
`GiveUp` (`PostFilter` without a result) or `Preempt`. `OverQuota` is
`PreFilter`'s check, `PodEligibleToPreemptOthers` the method of that name; its
path for a preemptor without a queue is not reachable, since
`CanPodPreemptOthers` (`queue/preemption.go:44`) has already refused such a pod.
`Victims` states the result of `SelectVictimsOnNode` by what the run `victims`
checks of it: going through the potential victims by importance, one is spared
exactly when it fits beside those spared before. Budgets are left to that run,
and so are pods of equal importance: `MoreImportantPod` leaves out the tie-break
by start time, and the runs give every pod its own priority.
With asynchronous preemption the executor evicts all victims but the last,
takes the preemptor off its list, and evicts the last (`EvictAllButLast`,
`EvictLast`); without it the eviction is part of the cycle. Each deletion is
delivered twice: to the scheduler's handlers (`HandleCacheCall`, which also
requeues the pods this plugin rejected) and to the Synchronizer's
(`HandleLedgerCall`). Evictions do not fail, queues do not change, and which of
several candidate nodes is taken is left open.

`PatientPreemptor` is about pods that terminate on the preemptor's nominated
node, whose pods are all that the check at `preemption.go:133` goes through. A pod of its queue that
terminates on another node is not waited for: where that pod's quota alone would
make the room, the preemptor does preempt again.

### StatusLoop and the code

One pass is `GetTotal`, `QueueIter` (the clone) and one `Patch` or `PatchFails`
per queue. `ManagerCall` lets handlers and cycles change the manager in any way
its operations allow, at any time. Queue objects may be deleted and created
again, and the process may restart, in the middle of a pass; `Merge` is the
API server's merge patch, which leaves names alone that the patch omits.

### ClusterTracker and the code

`nodeIDs` and `total` are those of `NodeAggregator`; `addNode`, `updateNode`
and `deleteNode` are the handlers. `NeedsUpdate` is the comparison in
`updateNode`, which reads both quantities from the old node. `Allocatable`, the
sum over the nodes that the properties compare the total with, is counted in
units, one per node, resource and quantity.

The aggregator knows nodes by UID, the informer's cache by name. `nameOf` is
chosen in `Init` from `Namings`, and a name is one node's at a time. A node that
is deleted and registered again under its name while the watch is down therefore
comes as one update from the old object to the new (`CatchUp`); with the same
number of resource names `updateNode` puts nothing, and the aggregator goes on
counting the old UID with the old size. `NoNodeMissed` is what is left then: the
name is counted, by its node or an earlier one, and its deletion, coming with
the new UID, takes nothing off.

## 3. What TLC checks

### Runs that pass

| Run | Question | Answer |
|---|---|---|
| `core` | Does the plugin enforce the quota when it is the only scheduler, also with a watch that breaks? | yes, in every interleaving; a broken watch only makes the ledger too full |
| `disrupted` | Can the total drift from the entries, or the manager's queues from the objects, under any mix of three disruptions (not resizes)? | no; for a queue deleted while its watch was down, only because the process dies |
| `foreign_binder` | Do the handlers alone keep the ledger in step with pods bound by another scheduler, and with resized ones? | yes, eventually; a resize confuses only the total (see below) |
| `algebra` | Do the resource operations mean what their pointwise reading says, and is adding pods in bulk the loop? | yes, on the names noted below |
| `status` | Is the cluster total the sum over nodes that come and go, and does the status come to agree with nodes and ledgers? | yes; after a watch break the total may keep a node too long, and keep it in the place of the node that took over its name, but loses no name; the status agrees on the names the ledger has |
| `victims` | Is victim selection right, whatever is on the node, on the ledgers and left of the budgets? | yes |
| `manager` | Are the manager's calls atomic to their callers although no lock spans them, and are snapshots usable? | yes: it implements `QueueRegistry`; no deadlock |
| `preemption` | Does preemption keep the quota, avoid needless rounds while victims terminate, and end in a binding? | yes, with up-to-date caches for the second (see `preempted_twice`) |

`FilteredStillFits` is what justifies that `Reserve` does not check again: one
scheduling cycle runs at a time, so between check and reservation only the
informer adds pods, and those this scheduler bound are already counted. With
another scheduler in the cluster this argument fails, so the property and
`BoundWithinMax` are not claimed in `foreign_binder`.

### Runs that show a disagreement

Each checks one property that a comment, a test or the README states, and TLC
finds a behaviour of the code that violates it; `PROJECT.json` gives the line.

| Run | What happens |
|---|---|
| `lost_deletion` | a pod is bound and its add waits for `addPod`, the watch breaks, the pod is deleted, the relist brings a tombstone: `addPod` counts the pod, `deletePod` does not unwrap the tombstone (`queue/synchronizer.go:257`) and never takes it off. All pods here are bound by another scheduler, so that no other way of keeping a pod exists (see below): with a `deletePod` that unwraps the tombstone the run has no error |
| `node_changed` | a node goes from 1 to 2 cpu: `updateNode` compares the old quantity with itself (`alloc/cluster_tracker.go:104`), puts nothing, and the total stays. The sizes of the run have the same resource names, so that this comparison decides |
| `preempted_twice` | a victim is gone from the node cache and still on the ledger: the nominated pod fails `PreFilter` and evicts a second pod, although there is room |
| `nominated_node_lost` | a preemptor's nominated node is deleted and another pod takes the quota: `PreFilter` fails first, the lost node is not reported as unresolvable, and the pod is refused preemption for ever while it keeps the nomination |

Further differences met while modelling and not kept as runs. TLC reproduces
the first six with the constants of `disrupted` and
`MaxDisruptions = 1`, the next two with those of `core`, each with `Disruptions`
and the invariant as said:

* `NoPhantom` fails with `{"restart"}`: `addPod` counts a pod whatever its
  phase, so completed pods that still exist are counted after a restart, and
  `updatePod` never takes them off, their old phase being terminal already
  (`queue/synchronizer.go:221`, `:243`).
* `DeletedReleased` fails with `{"watchLoss"}` and `ForeignPods = {}` too, where
  this scheduler binds every pod: reserved before the watch breaks, bound and deleted before it is back,
  it is last known to the informer without a node, so the filter
  (`queue/synchronizer.go:60`) drops the tombstone and nothing takes the
  reservation off. Unwrapping tombstones in `deletePod` does not help here.
* `NoPhantom` fails with `{"watchLoss"}` also for pods that still exist: one that
  is bound and completes while the watch is down comes as an add, and `addPod`
  counts it, or leaves its reservation, as after a restart.
* `NothingMissed` fails with `{"restart"}`: `WaitForCacheSync` waits for the
  queue informer's store, not for `addQueue`; a pod's add that is handled before
  its queue's fails, is logged and never retried (`queue/synchronizer.go:51`).
* `NothingMissed` fails with `{"lateBind"}`: a bind that succeeded without an
  answer ends in `Unreserve`, which takes the running pod off after the
  informer's add found it present (`plugin.go:341`).
* `LedgerExact` fails with `{"resize"}`: `DeletePodIfPresent` subtracts the
  request the pod has now, not the one that was added (`queue/quota.go:73`).
* `BoundWithinMax` fails with `{"queueLifecycle"}`: a queue
  that is deleted and created again starts with an empty ledger
  (`queue/manager.go:64`) and is filled a second time while its old pods run.
* `BoundWithinMax` fails with `{"restart"}`: scheduling may begin
  before the handlers have seen the queues and pods that exist, and `PreFilter`
  lets pods of unknown queues pass (`plugin.go:167`).
* `TotalInSync` fails with the constants of `status`: `deleteNode` does not
  unwrap tombstones either (`alloc/cluster_tracker.go:128`). So does, with the
  same constants, a `NoNodeMissed` that demands that every node is in `nodeIDs`:
  a node that took over a name during a watch break is not
  (`alloc/cluster_tracker.go:84-121`), and a larger one leaves the total short.
* Where a node's change also changes the number of its resource names,
  `updateNode` does call `Put`, but the total still goes wrong: `Put` first
  subtracts the new size for the old (`alloc/node_aggregator.go:86`), and `Sub`
  copies the name that is new (`alloc/resource.go:88`).
* `StatusConverges` says nothing of names a ledger no longer has, for the
  reason that the status keeps them: after a restart, or when a queue is put
  again, `used` starts empty, `omitempty` leaves it out of the patch, and the
  merge patch leaves the old usage in place (`queue/synchronizer.go:104`).
* `Sub` copies a name that only the subtrahend has instead of negating it
  (`alloc/resource.go:88`); the test that expects the negation
  (`alloc/resource_test.go:105`) is in a function named `TesResourceMinus`,
  which does not run. `SubUndoesAdd` therefore compares `Minus` with adding
  the negation only where every name is present.
* `AllGreater` and `AllGreaterIntersecting` accept equal quantities where
  their comments say "greater than" (`alloc/resource.go:162`, `:183`).
* `SetMinExisting` "only affects resources that exist in r"
  (`alloc/resource.go:111`), but a negative minimum for a name `r` lacks adds
  the name. `EffectiveMaxIsMeet` is therefore about quantities that are not
  negative.
* `AllLess` makes the comparison of `AllGreater` (`alloc/resource.go:238`). It
  has no caller.

### Bounds

* `MCQuotaScheduling`: one queue, two or three pods. Every property of the
  ledger is about one queue, and the manager's operations touch one queue
  each. Three pods whose requests (1, 2 and 1 cpu, the last also 1 gpu) fit
  in pairs at most under a maximum of 2 cpu, 1 gpu and 2 pods give a pod
  that is checked while a second is between bind and informer call and a
  third is nominated. Equal and different priorities occur. The
  other runs use two pods, one of them bound by another scheduler where the
  run is about that: enough for a disruption to meet a pod in each of its
  stages, and every finding needs only one disruption. In `disrupted` a second
  maximum lets edits shrink a quota below its use. Pods without a queue label
  are left to the theorems: they touch no ledger.
* `MCVictimSelection`: six other pods of two queues, all subsets on the node
  and on the ledgers, two capacities (one of them scarce in cpu, one in pods),
  two overlapping budgets with 0 or 1 disruptions left. Two potential victims
  are equally important.
* `MCResources`: all pairs of values over two names and -2..2; up to three pods
  added in every order.
* `MCStatusLoop`: two nodes that together provide more than the maximum, one
  as much, with two names or sharing one, so that the second can take over the
  name of the first; one queue and one pod that come and go without bound in the manager;
  `MaxUpsets` bounds heartbeats and watch breaks together, `MaxDisruptions`
  queue objects deleted or created and restarts together: 2, so that an object
  can be replaced in the middle of a pass. `MCClusterTracker` (`node_changed`)
  has two nodes of two sizes with the same resource names.
* `MCManagerConcurrency`: the scheduling loop and other callers, three pods of
  which one has no queue label, two queues of
  which the handlers edit one (`Edited`), so that a snapshot has a queue that
  is stable and one that is replaced while it is copied. `MaxOrphans` bounds how
  many replaced queues of a name are still in use: one suffices for a call to
  work on an orphan while the name has a new queue. One `Simulate` stands for
  those of a cycle.
* `MCPreemptionCycle`: three pods of different priorities and two nodes, of
  which `MaxNodeLosses` may be lost. In `preemption` the pods request 1, 1 and 2
  cpu under a maximum of 3, on nodes of 2: quota and nodes both bind, the most
  important pod has a choice between victims, and after the loss of a node needs
  two. The feature gate for asynchronous preemption is on or off.

Deadlock is checked in `manager`. The other models end when the finitely many
pods or nodes have come and gone, or the call has returned.

### Fairness

`FairSpec` assumes weak fairness of the pod handlers, of the queue handlers, of
the relist (the reflector retries), and of the end of each scheduling and
binding cycle (the framework runs every cycle to its end). It assumes nothing
of users, kubelets, other schedulers or the order in which pods are picked.
`DepartedLeaveLedger` and `BoundGetCounted` need the handlers' and the cycles'
fairness: a pod deleted during its binding cycle leaves the ledger only because
that cycle ends.

`PreemptionCycle` assumes weak fairness of both handlers, the executor, the
termination of victims and the scheduling queue's timer (which moves a pod that
has been unschedulable for some minutes), and strong fairness of a pod's
scheduling cycle: a pod that is in the active queue again and again is popped
in the end, since cycles are short compared to the timer that brings more
important pods back. Without the timer `RoomIsTaken` fails: the retry that
a deletion causes may come before the ledger has heard of it
(`plugin.go:360`).

`StatusLoop` assumes weak fairness of the loop's goroutine as a whole
(`LoopStep`: timer, reads, and a patch or its failure), of the node
handlers and of the relist, and strong fairness of a successful patch: if the API
server is asked again and again it answers in the end. `StatusConverges` is
about behaviours in which ledgers, nodes and queue objects stop changing.

## 4. What TLAPS proves

The theorems hold for every value of the constants that satisfies the `ASSUME`s
of the modules: any pods, queues, labels, priorities, callers, nodes, rules,
budgets and maxima, any number of disruptions. The assumptions are that pods
(and in `QuotaScheduling` queues) are finitely many, that requests are natural
numbers and maxima and capacities integers, that a UID names one pod with one
queue label, and that the absent label is not the name of a queue. Further
hypotheses are stated in the theorems, and for each of them section 3 has the
behaviour that makes it necessary.

| Theorem | Statement | Hypotheses |
|---|---|---|
| `TypeCorrect` | `[]TypeOK` | — |
| `LedgerAlwaysExact` | `[]LedgerExact` | no in-place resize |
| `OwnPodsAlwaysCounted` | `[]OwnPodsCounted` | `Uninterrupted` |
| `NothingEverMissed` | `[]NothingMissed` | `Uninterrupted` |
| `AlwaysInSync` | `[]InSync` | `Uninterrupted`, the pod watch does not break |
| `CheckStillHolds` | `[]FilteredStillFits` | `Undisturbed` |
| `QuotaRespected` | `[]BoundWithinMax` | `Undisturbed` |
| `QueuesAlwaysInSync` | `[]QueuesInSync` | — |
| `SnapshotAlwaysUntorn`, `SnapshotAlwaysBracketed` | `[]SnapshotUntorn`, `[]SnapshotBracketed` | — |
| `SnapshotsIsolated` | `SnapshotIsolated`, an action property | — |
| `ManagerLinearizable` | `ManagerConcurrency` implements `QueueRegistry` | — |
| `PreemptionRespectsMax` | `[]RunningWithinMax` | — |
| `VictimsAlwaysMakeRoom`, `VictimsAlwaysReported`, `BudgetsAlwaysAccounted`, `SimulationAlwaysFaithful` | `[]VictimsMakeRoom`, `[]VictimsReported`, `[]BudgetsAccounted`, `[]SimulationFaithful` | — |
| `NoVictimNeedless` | `[]NoNeedlessVictim` | no negative maximum |
| `PreemptorsArePatient` | `PatientPreemptor`, an action property | no negative maximum |
| `NoNodeEverMissed`, `TotalAlwaysExact` | `[]NoNodeMissed`, `[]TotalWhileWatched` | nodes do not change size (`~MayChange`) |
| `SubAlwaysUndoesAdd`, `ComparisonsAlwaysAgree`, `AllGreaterAlwaysOrders`, `EffectiveMaxAlwaysMeet`, `BulkAddAlwaysLoop` | `[]SubUndoesAdd`, `[]IntersectingComparisonsAgree`, `[]AllGreaterOrders`, `[]EffectiveMaxIsMeet`, `[]BulkAddIsLoop` | — |

`Uninterrupted` excludes `queueLifecycle`, `restart` and `lateBind`: both
watches may break, pods may be resized and other schedulers may bind.
`Undisturbed` allows broken watches only, and no other scheduler.

### The arguments

*Sums.* The sum of requests is a cardinality: `Units` has one element per pod
and unit requested, and `Requested` counts them. Adding or deleting a pod adds
or removes a disjoint row of units, and the library's cardinality theorems do
the rest. This keeps induction out of the proofs.

*Exact ledgers.* `LedgerExact` is not inductive. `Consistent` (`QuotaProofs`)
adds that `used` has a quantity for every name some request on the ledger
mentions, because `Sub` treats a name missing from the total differently
(section 3): the invariant is the reason why that case never arises. The
no-resize hypothesis enters where `DeletePodIfPresent` subtracts the request of
the object it is given: with `TypeOK`, every object of a pod carries the request
the ledger holds.

*Ledgers that follow the cluster* (`SyncInv`, `LedgerSyncProofs`). The API
server is ahead of the informer's cache, the cache ahead of the calls that wait
(`StoreBehind`, `CallsBehind`), and a pod only ever moves from new to bound to
departed (`LifeCycle`). Hence a call that would take a pod off is of a pod that
has departed for good, and a pod that `Reserve` counted (`OwnReserved`) or whose
add waits (`ForeignAdded`) gets and stays on. `PhantomInv` is the other
direction: a pod that holds nothing is counted only while its binding cycle runs
or while a call that takes it off waits, behind its add if that waits too. This
is where a broken watch has to be excluded: the tombstone is not unwrapped.

*The quota gate* (`GateInv`, `LedgerSyncProofs`). At most one pod is between
check and reservation, its check still holds, and every ledger is within its
maximum. While a pod is in between, nobody but the pod handlers touches the
ledgers, and an add they handle is of a pod that is counted (`SyncInv`), so the
ledger only shrinks. `Reserve` then adds what was checked. `QuotaRespected`
follows as the pods that run are among those on the ledger.

*Queues* (`QueueSyncInv`, `QuotaSchedulingProofs`). The last call that waits about a queue tells what the
cache has, and a queue about which none waits is in the manager as it is in the
cache. A tombstone does not break it, as the process dies of it.

*The manager* (`ManagerProofs`). `StateInv` says where pointers may point: the
table's and the callers' to a slot of their queue's name, the snapshot's to the
slot only `Clone` allocates, and that just what is pointed to is allocated.
`SpecsOK` adds that a queue on which no update is at work has maximum and rules
of one spec, `WindowInv` what the history variable records. For the refinement
every action is shown to be one step of `QueueRegistry` or to leave its
variables alone, with the quotas read through the table (`LiveQuotas`) and a
caller's progress reduced to what others can see of it (`PublicCalls`).

*Preemption* (`CycleInv`). The ledgers lag behind in one direction only: they may
count a pod that is gone, never miss one that runs. That needs that every
deletion that waits is of a pod that is gone, since a `DeletePodIfPresent` would
take off one that runs.

*Patience* (`FollowInv`, on top of `CycleInv`). Cache and ledgers follow the API
server: what they do not show yet is the subject of a call that waits. Once none
waits, they show exactly the pods that run, and the terminating ones as such. If
a terminating pod on the nominated node is of the preemptor's queue, the
eligibility check refuses at once. If they are all of other queues, their going
does not change the quota check, so the room the preemptor has means that it
passes that check (`RoomPassesCheck`), and again it is refused; and if there is
none, it fits its node now and is not rejected. The hypothesis on the maxima is
that of `NoVictimNeedless`.

*Victim selection* (`SelectionInv`). The potential victims are split into those
to try, those condemned and those spared; simulated node and ledgers hold the
spared ones and no other potential victim; the preemptor fits beside them; those
to try are in order and come after those tried; and each condemned pod would not
have fitted beside the spared ones that it does not come before, which stays
true as more are spared. The ledgers are compared up to names at 0 that removed
pods leave behind. Under a negative maximum such a name alone counts as over the
maximum, hence the hypothesis of `NoVictimNeedless`.

*Budgets* (`BudgetInv`, on top of `SelectionInv`). The potential victims that a
budget covers and that are not among the violating ones were each within the
budget when they were tested, and the number of covered pods tested so far grows
from one to the next. That number is an injection of them into
`1..allowed[b]`, so there are at most that many, and the other victims the budget
covers are counted as violations.

*The tracker* (`TrackerInv`). Every UID has one size for ever (`SizeInv`), so that
whatever object a handler is given, it adds and subtracts the same; the total is
what the counted nodes provide. Each node in the informer's cache has a node that
stands in for it (`StandsIn`): itself or an earlier one of its name, gone by now,
that is counted, or whose add waits, and whose deletion does not wait
(`CountInv`): no name is missed, also after broken watches and in a new process.
As long as the watch holds, an update is of one node, and a node that is gone
and counted has its deletion waiting, behind its add if that waits too
(`LeaveInv`): the total is exact. With nodes that change size `SizeInv` is
false, as `node_changed` shows.

*The algebra* (`AlgebraInv`). Name by name from the definitions, for any names and
quantities. `BulkAddIsLoop` takes `Consistent` and that the total of a ledger
nothing was taken off has no name that no pod requests.

### Only model-checked

The liveness properties (`DepartedLeaveLedger`, `BoundGetCounted`, `RoomIsTaken`,
`StatusConverges`): fairness is out of the prover's reach. So is that nothing
deadlocks in `manager`, which is about `ENABLED`. Every other property of the
passing runs is stated by a theorem.

## 5. What is not modelled

* Failing evictions and the choice among candidate nodes, which are the
  framework's; the requeueing on queue events (`PreemptionCycle` has constant
  queues).
* Relabelled pods, and a pod deleted and created again under its name while
  the watch is down.
* `DeletePodsFunc`, `SetIfNotPresent` and queue labels, which have no caller.
* Generated code, API declarations, the entry point, the chart and the test
  support: no logic of their own.

## 6. Plan

Every invariant and action property of the passing runs is proved. What is left:

1. To weaken `Uninterrupted` and `Undisturbed`, so that a restart, or an edit of
   a queue, is excluded only from the last one on rather than for ever.
2. `VictimSelection` and `Victims` of `PreemptionCycle` are tied together by the
   run `victims` and `NoVictimNeedless`; a theorem that the call without budgets
   returns just `Victims` would close that gap.
