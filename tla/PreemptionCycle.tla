--------------------------- MODULE PreemptionCycle ---------------------------
(***************************************************************************)
(* Preemption from the failed quota check to the preemptor's binding:      *)
(* eligibility, choice of victims, nomination, eviction, and the retries   *)
(* that deletions and a timer cause, while pods and nodes come and go.     *)
(*                                                                         *)
(* Sources: internal/plugin/quotaawarepreempt/plugin.go and preemption.go. *)
(* A scheduling cycle is one step here; what happens between its check and *)
(* its reservation is the subject of QuotaScheduling.  A deletion reaches  *)
(* the process through one informer, but the scheduler's node cache and    *)
(* the queue manager are updated by two goroutines, each at its own pace:  *)
(* cacheCalls and ledgerCalls.  Victims are chosen by the contract that    *)
(* VictimSelection checks, without disruption budgets.  The scheduling     *)
(* queue and the preemption evaluator and executor are external.           *)
(***************************************************************************)
EXTENDS QueueManager, PreemptionRules, Sequences

CONSTANTS
    Pods,           \* UIDs
    PodOf,          \* each pod: [uid, queue, req, labels, priority]
    Never,          \* pods whose preemptionPolicy does not allow preemption
    CfgOf, MaxOf,   \* the PreemptionConfig and the maximum of each queue
    Nodes, Capacity,
    NoNode,
    MaxNodeLosses,  \* bound
    EnableAsyncPreemption  \* the settings of the feature gate to consider

ASSUME CycleAssumption ==
    /\ DOMAIN PodOf = Pods /\ Never \subseteq Pods
    /\ DOMAIN CfgOf = DOMAIN MaxOf
    /\ DOMAIN Capacity = Nodes /\ NoNode \notin Nodes
    /\ MaxNodeLosses \in Nat /\ EnableAsyncPreemption \subseteq BOOLEAN

ASSUME QuantitiesAssumption ==
    /\ IsFiniteSet(Pods)
    /\ \A p \in Pods : PodOf[p].uid = p /\ \A n \in DOMAIN PodOf[p].req : PodOf[p].req[n] \in Nat
    /\ \A q \in DOMAIN MaxOf : \A n \in DOMAIN MaxOf[q] : MaxOf[q][n] \in Int

VARIABLES
    life,         \* each pod: new, pending, bound, terminating or gone
    nodeOf,       \* the node a pod is bound to
    nodes,        \* the nodes that exist
    cache,        \* the scheduler's cache: node and whether terminating
    cacheCalls,   \* calls waiting for the scheduler's own handlers
    ledgerCalls,  \* calls waiting for the Synchronizer's pod handlers
    queueByName,  \* the manager
    waiting,      \* its place in the scheduling queue: active, unschedulable, done
    nominated,    \* the nominated node of each pod
    evicting,     \* victims of a preemption the executor has yet to carry out
    finishing,    \* victims it evicts last, its preemptor off its list already
    async         \* enableAsyncPreemption, read once at the start

podVars == <<life, nodeOf, nodes>>
callVars == <<cacheCalls, ledgerCalls>>
vars == <<podVars, cache, callVars, queueByName, waiting, nominated, evicting, finishing, async>>

-----------------------------------------------------------------------------
(* What a scheduling cycle for p sees.                                     *)

Priority(p) == PodOf[p].priority

\* The cache's NodeInfo of n.
OnNode(n) == {u \in Pods : cache[u].node = n}

\* Nominated pods of at least p's priority, on nodes that are still there.
NominatedAhead(p) ==
    {o \in Pods \ {p} : nominated[o] \in nodes /\ Priority(o) >= Priority(p)}

\* PreFilter's snapshot of p's quota, nominated pods counted in.
Snapshot(p) ==
    AddPodsIfNotPresent(queueByName[PodOf[p].queue],
        [o \in {x \in NominatedAhead(p) : PodOf[x].queue = PodOf[p].queue} |-> PodOf[o].req])

OverQuota(p) ==
    /\ HasQueue(queueByName, PodOf[p])
    /\ WouldPutOverMax(Snapshot(p), FromPodReq(PodOf[p].req))

\* The filters, for the pods S on node n and those nominated to it.
FitsNode(p, n, S) ==
    LET there == S \cup {o \in NominatedAhead(p) : nominated[o] = n} \cup {p}
        reqs  == [u \in there |-> PodOf[u].req]
    IN  \A name \in DOMAIN Capacity[n] : Requested(reqs, name) <= Capacity[n][name]

Feasible(p) == {n \in nodes : FitsNode(p, n, OnNode(n) \ {p})}

\* The scheduling loop takes the most important pod of the active queue.
Popped(p) ==
    /\ life[p] = "pending" /\ waiting[p] = "active"
    /\ \A o \in Pods : life[o] = "pending" /\ waiting[o] = "active" => Priority(o) <= Priority(p)

Rejected(p) == Popped(p) /\ (OverQuota(p) \/ Feasible(p) = {})

-----------------------------------------------------------------------------
(* PodEligibleToPreemptOthers.                                             *)

PolicyAllowsPreemption(p) == p \notin Never

TerminatingByPreemption(u) == cache[u].terminating

\* A pod on the nominated node whose termination will make room for p.
WaitsForVictim(p) ==
    \E v \in OnNode(nominated[p]) :
        /\ TerminatingByPreemption(v)
        /\ Priority(v) < Priority(p)
        /\ HasQueue(queueByName, PodOf[v])
        /\ CanPodBePreemptedByOthers(CfgOf, PodOf[v])
        /\ PodOf[v].queue = PodOf[p].queue \/ ~OverQuota(p)

\* The status the framework reports for a node that is gone: that of the
\* quota check if it failed, UnschedulableAndUnresolvable otherwise.
NominatedNodeUnresolvable(p) == ~OverQuota(p) /\ nominated[p] \notin nodes

\* Mutant of PodEligibleToPreemptOthers: does not wait for victims.
EligibleAlways(p) ==
    /\ PolicyAllowsPreemption(p)
    /\ CanPodPreemptOthers(CfgOf, PodOf[p])

\* Only a pod with a known queue gets past CanPodPreemptOthers: the code's
\* path for other preemptors is not reached.
PodEligibleToPreemptOthers(p) ==
    /\ PolicyAllowsPreemption(p)
    /\ CanPodPreemptOthers(CfgOf, PodOf[p])
    /\ \/ nominated[p] = NoNode
       \/ NominatedNodeUnresolvable(p)
       \/ nominated[p] \in nodes /\ ~WaitsForVictim(p)

-----------------------------------------------------------------------------
(* SelectVictimsOnNode, by its contract.                                   *)

findPotentialVictims(p, n) ==
    {u \in OnNode(n) : IsPreemptionAllowed(CfgOf, PodOf[p], PodOf[u])}

\* p fits n and its quota when of the potential victims those in K stay.
FitsKeeping(p, n, K) ==
    LET q    == PodOf[p].queue
        kept == (DOMAIN Snapshot(p).podsByID \ findPotentialVictims(p, n))
                \cup {u \in K : PodOf[u].queue = q}
    IN  /\ FitsNode(p, n, (OnNode(n) \ findPotentialVictims(p, n)) \cup K)
        /\ ~WouldPutOverMax(AddPodsIfNotPresent(NewQueue(MaxOf[q]), [u \in kept |-> PodOf[u].req]),
                            FromPodReq(PodOf[p].req))

\* schedutil.MoreImportantPod without its tie-break by start time: the runs
\* give every pod a priority of its own, and no property depends on the order
\* of equals.
MoreImportantPod(a, b) == Priority(a) > Priority(b)

\* A potential victim is spared exactly when it fits next to those spared
\* before it.
Victims(p, n) ==
    LET potential == findPotentialVictims(p, n)
    IN  CHOOSE V \in SUBSET potential :
            \A u \in potential :
                u \in V <=>
                    ~FitsKeeping(p, n, {w \in potential \ V : MoreImportantPod(w, u)} \cup {u})

\* A node is a candidate if there are victims on it and their removal helps.
Candidates(p) ==
    {n \in nodes :
        /\ findPotentialVictims(p, n) # {}
        /\ FitsKeeping(p, n, {})
        /\ Victims(p, n) # {}}

-----------------------------------------------------------------------------
(* The API server and the two goroutines that hear of its changes.         *)

Notify(call, S) ==
    /\ \E order \in {f \in [1..Cardinality(S) -> S] : \A i, j \in DOMAIN f : f[i] = f[j] => i = j} :
          LET calls == [i \in DOMAIN order |-> [call |-> call, pod |-> order[i]]]
          IN  cacheCalls' = cacheCalls \o calls /\ ledgerCalls' = ledgerCalls \o calls

\* The executor marks the pods S as disrupted and deletes them; those that
\* are gone or on their way are left alone.
Evict(S) ==
    LET hit == {v \in Pods : v \in S /\ life[v] = "bound"}
    IN  /\ life' = [u \in Pods |-> IF u \in hit THEN "terminating" ELSE life[u]]
        /\ Notify("update", hit)

\* Mutant of PreEnqueue: a pod is gated for as long as it is nominated.
GatedWhileNominated(p) == async => nominated[p] = NoNode

IsPodRunningPreemption(p) == evicting[p] # {}

PreEnqueue(p) == async => ~IsPodRunningPreemption(p)

\* Pods that were found unschedulable are tried again.
Requeue(S) ==
    waiting' = [p \in Pods |->
                   IF p \in S /\ waiting[p] = "unschedulable" /\ PreEnqueue(p)
                   THEN "active" ELSE waiting[p]]

CreatePod(p) ==
    /\ life[p] = "new"
    /\ life' = [life EXCEPT ![p] = "pending"]
    /\ waiting' = [waiting EXCEPT ![p] = "active"]
    /\ UNCHANGED <<nodeOf, nodes, cache, callVars, queueByName, nominated, evicting, finishing, async>>

\* A pod that waits is deleted: the scheduling queue and the nominator drop it.
RemovePending(p) ==
    /\ life[p] = "pending"
    /\ life' = [life EXCEPT ![p] = "gone"]
    /\ nominated' = [nominated EXCEPT ![p] = NoNode]
    /\ UNCHANGED <<nodeOf, nodes, cache, callVars, queueByName, waiting, evicting, finishing, async>>

\* A pod that ran is gone: it was deleted, or a victim has terminated.
RemoveBound(p) ==
    /\ life[p] \in {"bound", "terminating"}
    /\ life' = [life EXCEPT ![p] = "gone"]
    /\ Notify("delete", {p})
    /\ UNCHANGED <<nodeOf, nodes, cache, queueByName, waiting, nominated, evicting, finishing, async>>

LoseNode(n) ==
    /\ n \in nodes
    /\ Cardinality(Nodes \ nodes) < MaxNodeLosses
    /\ nodes' = nodes \ {n}
    /\ UNCHANGED <<life, nodeOf, cache, callVars, queueByName, waiting, nominated, evicting, finishing, async>>

\* The scheduler's handlers: the cache first, then EventsToRegister's hints
\* move every pod this plugin rejected.
HandleCacheCall ==
    /\ cacheCalls # <<>>
    /\ LET c == Head(cacheCalls)
       IN  /\ cache' = [cache EXCEPT ![c.pod] =
                           IF c.call = "delete" THEN [node |-> NoNode, terminating |-> FALSE]
                           ELSE [@ EXCEPT !.terminating = TRUE]]
           /\ Requeue(Pods)
    /\ cacheCalls' = Tail(cacheCalls)
    /\ UNCHANGED <<podVars, ledgerCalls, queueByName, nominated, evicting, finishing, async>>

\* The Synchronizer's handlers: updatePod leaves a running pod alone.
HandleLedgerCall ==
    /\ ledgerCalls # <<>>
    /\ queueByName' = IF Head(ledgerCalls).call = "delete"
                      THEN DeletePod(queueByName, PodOf[Head(ledgerCalls).pod])
                      ELSE queueByName
    /\ ledgerCalls' = Tail(ledgerCalls)
    /\ UNCHANGED <<podVars, cache, cacheCalls, waiting, nominated, evicting, finishing, async>>

\* The scheduling queue's timer.
Flush(p) ==
    /\ life[p] = "pending" /\ waiting[p] = "unschedulable"
    /\ PreEnqueue(p)
    /\ Requeue({p})
    /\ UNCHANGED <<podVars, cache, callVars, queueByName, nominated, evicting, finishing, async>>

-----------------------------------------------------------------------------
(* The scheduling cycle.                                                   *)

\* PreFilter, Filter, Reserve and the binding cycle; a nominated node that
\* fits is taken.
Schedule(p) ==
    /\ Popped(p) /\ ~OverQuota(p)
    /\ \E n \in Feasible(p) :
          /\ nominated[p] \in Feasible(p) => n = nominated[p]
          /\ nodeOf' = [nodeOf EXCEPT ![p] = n]
          /\ cache' = [cache EXCEPT ![p] = [node |-> n, terminating |-> FALSE]]
    /\ life' = [life EXCEPT ![p] = "bound"]
    /\ queueByName' = AddPod(queueByName, PodOf[p])
    /\ nominated' = [nominated EXCEPT ![p] = NoNode]
    /\ waiting' = [waiting EXCEPT ![p] = "done"]
    /\ UNCHANGED <<nodes, callVars, evicting, finishing, async>>

\* PostFilter without a result: an ineligible pod keeps its nomination, one
\* for which no node is a candidate loses it.
GiveUp(p) ==
    /\ Rejected(p)
    /\ \/ ~PodEligibleToPreemptOthers(p) /\ UNCHANGED nominated
       \/ /\ PodEligibleToPreemptOthers(p) /\ Candidates(p) = {}
          /\ nominated' = [nominated EXCEPT ![p] = NoNode]
    /\ waiting' = [waiting EXCEPT ![p] = "unschedulable"]
    /\ UNCHANGED <<podVars, cache, callVars, queueByName, evicting, finishing, async>>

\* PostFilter with a candidate: nominations of less important pods for the
\* node are dropped, and the victims evicted in the cycle or left to the
\* executor.
Preempt(p, n) ==
    /\ Rejected(p)
    /\ PodEligibleToPreemptOthers(p)
    /\ n \in Candidates(p)
    /\ nominated' = [o \in Pods |->
                        IF o = p THEN n
                        ELSE IF nominated[o] = n /\ Priority(o) < Priority(p) THEN NoNode
                        ELSE nominated[o]]
    /\ waiting' = [waiting EXCEPT ![p] = "unschedulable"]
    /\ IF async
       THEN /\ evicting' = [evicting EXCEPT ![p] = @ \cup Victims(p, n)]
            /\ UNCHANGED <<life, callVars>>
       ELSE Evict(Victims(p, n)) /\ UNCHANGED evicting
    /\ UNCHANGED <<nodeOf, nodes, cache, queueByName, finishing, async>>

Last(S) == CHOOSE v \in S : \A u \in S : Priority(v) <= Priority(u)

\* The executor evicts all victims but the last, takes the preemptor off its
\* list and only then evicts the last: the event of that eviction finds the
\* preemptor no longer gated.
EvictAllButLast(p) ==
    /\ evicting[p] # {}
    /\ Evict(evicting[p] \ {Last(evicting[p])})
    /\ evicting' = [evicting EXCEPT ![p] = {}]
    /\ finishing' = [finishing EXCEPT ![p] = @ \cup {Last(evicting[p])}]
    /\ UNCHANGED <<nodeOf, nodes, cache, queueByName, waiting, nominated, async>>

EvictLast(p) ==
    /\ finishing[p] # {}
    /\ Evict(finishing[p])
    /\ finishing' = [finishing EXCEPT ![p] = {}]
    /\ UNCHANGED <<nodeOf, nodes, cache, queueByName, waiting, nominated, evicting, async>>

Init ==
    /\ life = [p \in Pods |-> "new"]
    /\ nodeOf = [p \in Pods |-> NoNode]
    /\ nodes = Nodes
    /\ cache = [p \in Pods |-> [node |-> NoNode, terminating |-> FALSE]]
    /\ cacheCalls = <<>> /\ ledgerCalls = <<>>
    /\ queueByName = [q \in DOMAIN MaxOf |-> NewQueue(MaxOf[q])]
    /\ waiting = [p \in Pods |-> "active"]
    /\ nominated = [p \in Pods |-> NoNode]
    /\ evicting = [p \in Pods |-> {}]
    /\ finishing = [p \in Pods |-> {}]
    /\ async \in EnableAsyncPreemption

Cycle(p) == Schedule(p) \/ GiveUp(p) \/ \E n \in Nodes : Preempt(p, n)

Next ==
    \/ \E p \in Pods :
        \/ CreatePod(p) \/ RemovePending(p) \/ RemoveBound(p)
        \/ Cycle(p) \/ Flush(p)
        \/ EvictAllButLast(p) \/ EvictLast(p)
    \/ \E n \in Nodes : LoseNode(n)
    \/ HandleCacheCall \/ HandleLedgerCall

Spec == Init /\ [][Next]_vars

\* The trace a cycle of p leaves in the scheduling queue, whatever its outcome.
Served(p) ==
    /\ Popped(p)
    /\ \E w \in {"unschedulable", "done"} : waiting' = [waiting EXCEPT ![p] = w]

(***************************************************************************)
(* Handlers and executor run, victims terminate, the timer fires, and a    *)
(* pod that is active again and again is popped: the queue empties much    *)
(* faster than the timer refills it.  Nothing is assumed of users.         *)
(***************************************************************************)
Fairness ==
    /\ WF_vars(HandleCacheCall) /\ WF_vars(HandleLedgerCall)
    /\ \A p \in Pods :
        /\ WF_vars(EvictAllButLast(p)) /\ WF_vars(EvictLast(p)) /\ WF_vars(Flush(p))
        /\ WF_vars(life[p] = "terminating" /\ RemoveBound(p))
        /\ SF_waiting(Served(p))

FairSpec == Spec /\ Fairness
-----------------------------------------------------------------------------
(* Properties.                                                             *)

Running(p) == life[p] \in {"bound", "terminating"}

\* What the pods in S request stays within the maximum of queue q.
Within(S, q) ==
    LET reqs == [p \in {u \in S : PodOf[u].queue = q} |-> PodOf[p].req]
    IN  \A name \in DOMAIN MaxOf[q] \cap RequestNames(reqs) :
            Requested(reqs, name) <= MaxOf[q][name]

\* README: "the sum of pods in that queue cannot exceed quota", with victims
\* counted until they are gone.
RunningWithinMax == \A q \in DOMAIN MaxOf : Within({p \in Pods : Running(p)}, q)

\* p has room at the API server, without the pods in S: under its maximum and
\* on a node, with the pods nominated ahead of it.
HasRoom(p, ns, S) ==
    /\ PodOf[p].queue \in DOMAIN MaxOf =>
          Within({u \in Pods \ S : Running(u)} \cup NominatedAhead(p) \cup {p}, PodOf[p].queue)
    /\ \E n \in ns : FitsNode(p, n, {u \in Pods \ S : Running(u) /\ nodeOf[u] = n})

\* The pods on p's nominated node that are on their way out and that p may
\* have been nominated for: less important, and subject to preemption.
Awaited(p) ==
    {u \in Pods :
        /\ life[u] = "terminating" /\ nodeOf[u] = nominated[p]
        /\ Priority(u) < Priority(p)
        /\ CanPodBePreemptedByOthers(CfgOf, PodOf[u])}

\* Pods that a scheduling cycle of p decides to evict.
Sentenced(p) ==
    {u \in Pods :
        /\ waiting[p] = "active" /\ waiting'[p] = "unschedulable"
        /\ life[u] = "bound" /\ (life'[u] = "terminating" \/ u \in evicting'[p])}

\* The scheduler's cache is up to date: no call for it is outstanding and no
\* eviction under way.
CacheUpToDate == cacheCalls = <<>> /\ \A p \in Pods : evicting[p] \cup finishing[p] = {}

\* preemption.go: "This check prevents additional preemptions unnecessarily."
\* A nominated pod evicts nobody if the victims that are terminating on its
\* node make room for it, as far as the caches tell.
PatientPreemptor ==
    [][\A p \in Pods :
          CacheUpToDate /\ ledgerCalls = <<>> /\ Sentenced(p) # {} =>
              ~HasRoom(p, {nominated[p]} \cap nodes, Awaited(p))]_vars

\* plugin.go, above the quota check: "we must re-compute the quota for this
\* pod's queue to ensure that quota snapshot is in sync with the state of the
\* cycle snapshot".  A pod with a nominated node that has room, its victims
\* gone from the scheduler's cache, does not preempt again.
NoSecondPreemption ==
    [][\A p \in Pods :
          nominated[p] # NoNode /\ CacheUpToDate /\ Sentenced(p) # {} =>
              ~HasRoom(p, nodes, {})]_vars

\* A pod that has room for good is bound in the end, although its retries may
\* come before the ledger has heard of the deletion that made the room, and
\* although it is gated while it preempts.
RoomIsTaken ==
    \A p \in Pods :
        ~<>[](life[p] = "pending" /\ HasRoom(p, nodes, {}))

\* preemption.go: "Thus we must allow it to be considered for preemption again;
\* running preemption again will nominate it for a different node."  No
\* nomination lasts for ever.
NominationEnds == \A p \in Pods : nominated[p] # NoNode ~> nominated[p] = NoNode
=============================================================================
