--------------------------- MODULE VictimSelection ---------------------------
(***************************************************************************)
(* SelectVictimsOnNode of internal/plugin/quotaawarepreempt/preemption.go: *)
(* which pods of one node a preemptor takes the place of.                  *)
(*                                                                         *)
(* The call simulates on a copy of the node and of the queue snapshot: it  *)
(* removes every pod the preemptor may preempt, gives up unless the        *)
(* preemptor then fits the node and its quota, and puts the pods back one  *)
(* by one, most important first and those whose disruption budget would be *)
(* violated before the others.  A pod that does not fit any more next to   *)
(* the preemptor is a victim.  Filter plugins are external: they stand for *)
(* the node's capacity.                                                    *)
(***************************************************************************)
EXTENDS QueueManager, PreemptionRules, SequencesExt

CONSTANTS
    Others,       \* the other pods, by UID
    Preemptor,    \* the UID of the pod that preempts
    PodOf,        \* each pod: [uid, queue, req, labels, priority, start]
    CfgOf,        \* each queue's PreemptionConfig
    MaxOf,        \* each queue's maximum
    Capacities,   \* capacities (Resources) the node may have
    PDBs,         \* disruption budgets
    Protects,     \* the pods each budget covers, less its DisruptedPods
    MaxAllowed    \* bound on status.disruptionsAllowed

ASSUME VictimSelectionAssumption ==
    /\ Preemptor \notin Others
    /\ DOMAIN PodOf = Others \cup {Preemptor}
    /\ DOMAIN CfgOf = DOMAIN MaxOf
    /\ MaxAllowed \in Nat

ASSUME VictimPodsAssumption ==
    /\ IsFiniteSet(Others)
    /\ \A u \in Others \cup {Preemptor} :
          PodOf[u].uid = u /\ \A n \in DOMAIN PodOf[u].req : PodOf[u].req[n] \in Nat
    /\ \A q \in DOMAIN MaxOf : \A n \in DOMAIN MaxOf[q] : MaxOf[q][n] \in Int
    /\ \A c \in Capacities : \A n \in DOMAIN c : c[n] \in Int

VARIABLES
    onNode, counted, capacity, allowed,   \* the inputs of the call
    nodePods,    \* pods on the simulated node
    snapshot,    \* the simulated queue manager
    todo,        \* potential victims still to be tried, in order
    violating,   \* potential victims whose removal violates a budget
    victims,     \* the result so far, a sequence
    numPDBViolationVictims,
    status       \* "begin", "reprieve", "sort", or how the call returned

inputs == <<onNode, counted, capacity, allowed>>
vars == <<inputs, nodePods, snapshot, todo, violating, victims, numPDBViolationVictims, status>>

-----------------------------------------------------------------------------
\* The ledgers of the manager when exactly the pods in S are counted.
ManagerWith(S) ==
    [q \in DOMAIN MaxOf |->
        AddPodsIfNotPresent(NewQueue(MaxOf[q]),
                            [u \in {x \in S : PodOf[x].queue = q} |-> PodOf[u].req])]

\* schedutil.MoreImportantPod.
MoreImportantPod(a, b) ==
    \/ PodOf[a].priority > PodOf[b].priority
    \/ PodOf[a].priority = PodOf[b].priority /\ PodOf[a].start < PodOf[b].start

\* Mutant of ByImportance: the comparison is reversed.
ByImportanceAsc(S) ==
    {s \in SetToSeqs(S) :
        \A i, j \in DOMAIN s : i < j => ~MoreImportantPod(s[i], s[j])}

\* The pods of S sorted with CompareImportanceDesc.  slices.SortFunc is not
\* stable: equally important pods come in any order.
ByImportance(S) ==
    {s \in SetToSeqs(S) :
        \A i, j \in DOMAIN s : i < j => ~MoreImportantPod(s[j], s[i])}

\* The preemptor and the pods in S fit the node.
FitsNode(S) ==
    LET reqs == [u \in S \cup {Preemptor} |-> PodOf[u].req]
    IN  \A n \in DOMAIN capacity : Requested(reqs, n) <= capacity[n]

\* A preemptor without a known queue is under no quota.
FitsPreemptorQuota(qm) ==
    HasQueue(qm, PodOf[Preemptor]) =>
        ~WouldPutOverMax(qm[PodOf[Preemptor].queue], FromPodReq(PodOf[Preemptor].req))

findPotentialVictims ==
    IF IsConfiguredForPreemption(CfgOf, PodOf[Preemptor])
    THEN {u \in onNode : IsPreemptionAllowed(CfgOf, PodOf[Preemptor], PodOf[u])}
    ELSE {u \in onNode : /\ ~HasQueue(snapshot, PodOf[u])
                         /\ PodOf[u].priority < PodOf[Preemptor].priority}

\* Mutant of ViolatingPods: a budget is tested before it is decremented.
ViolatingPodsTestedFirst(list) ==
    {list[i] : i \in {k \in DOMAIN list :
        \E b \in PDBs :
            /\ list[k] \in Protects[b]
            /\ Cardinality({j \in 1..(k - 1) : list[j] \in Protects[b]}) > allowed[b]}}

\* CheckPodRemovalViolations: each pod of the list uses up the budgets that
\* cover it, whether or not they are exhausted already.
ViolatingPods(list) ==
    {list[i] : i \in {k \in DOMAIN list :
        \E b \in PDBs :
            /\ list[k] \in Protects[b]
            /\ Cardinality({j \in 1..k : list[j] \in Protects[b]}) > allowed[b]}}

\* The pods of a sorted list as they are tried: those in V, then the others,
\* each in the order of the list.
ReprieveOrder(list, V) ==
    {t \in SetToSeqs(Range(list)) :
        \A i, j \in DOMAIN t : i < j =>
            \E x, y \in DOMAIN list :
                /\ t[i] = list[x] /\ t[j] = list[y]
                /\ \/ t[i] \in V /\ t[j] \notin V
                   \/ (t[i] \in V <=> t[j] \in V) /\ x < y}

\* RemovePod of PreFilterExtensions for every pod of S.
RemovePods(qm, S) ==
    [q \in DOMAIN qm |->
        LET mine == {u \in S : PodOf[u].queue = q} \cap DOMAIN qm[q].podsByID
            reqs == [u \in mine |-> PodOf[u].req]
        IN  [qm[q] EXCEPT
               !.podsByID = [u \in DOMAIN @ \ mine |-> @[u]],
               !.used = [n \in DOMAIN @ |-> @[n] - Requested(reqs, n)]]]

-----------------------------------------------------------------------------
Return(s) ==
    /\ status' = s
    /\ UNCHANGED <<inputs, nodePods, snapshot, todo, violating, victims, numPDBViolationVictims>>

NoPotentialVictims ==
    /\ status = "begin"
    /\ findPotentialVictims = {}
    /\ Return("UnschedulableAndUnresolvable")

\* Even without all of them the preemptor fails the filters or its quota.
DoesNotHelp ==
    /\ status = "begin"
    /\ findPotentialVictims # {}
    /\ \/ ~FitsNode(onNode \ findPotentialVictims)
       \/ ~FitsPreemptorQuota(RemovePods(snapshot, findPotentialVictims))
    /\ Return("Unschedulable")

RemovePotentialVictims ==
    /\ status = "begin"
    /\ findPotentialVictims # {}
    /\ FitsNode(onNode \ findPotentialVictims)
    /\ FitsPreemptorQuota(RemovePods(snapshot, findPotentialVictims))
    /\ nodePods' = onNode \ findPotentialVictims
    /\ snapshot' = RemovePods(snapshot, findPotentialVictims)
    /\ \E sorted \in ByImportance(findPotentialVictims) :
          /\ violating' = ViolatingPods(sorted)
          /\ todo' \in ReprieveOrder(sorted, violating')
    /\ status' = "reprieve"
    /\ UNCHANGED <<inputs, victims, numPDBViolationVictims>>

\* maybeReprievePod for the next potential victim: both checks are made with
\* the pod added back, and it is removed again if one of them fails.
AddedBack(u) == AddPod(snapshot, PodOf[u])

\* Mutant of StillFits: only the filters are asked.
StillFitsNodeOnly(u) == FitsNode(nodePods \cup {u})

StillFits(u) == FitsNode(nodePods \cup {u}) /\ FitsPreemptorQuota(AddedBack(u))

Reprieve ==
    /\ status = "reprieve" /\ todo # <<>>
    /\ StillFits(Head(todo))
    /\ nodePods' = nodePods \cup {Head(todo)}
    /\ snapshot' = AddedBack(Head(todo))
    /\ todo' = Tail(todo)
    /\ UNCHANGED <<inputs, violating, victims, numPDBViolationVictims, status>>

\* Mutant of Condemn: the victim stays on the simulated ledger.
CondemnKeepsCounted ==
    /\ status = "reprieve" /\ todo # <<>>
    /\ ~StillFits(Head(todo))
    /\ snapshot' = AddedBack(Head(todo))
    /\ victims' = Append(victims, Head(todo))
    /\ numPDBViolationVictims' =
          numPDBViolationVictims + (IF Head(todo) \in violating THEN 1 ELSE 0)
    /\ todo' = Tail(todo)
    /\ UNCHANGED <<inputs, nodePods, violating, status>>

Condemn ==
    /\ status = "reprieve" /\ todo # <<>>
    /\ ~StillFits(Head(todo))
    /\ snapshot' = DeletePod(AddedBack(Head(todo)), PodOf[Head(todo)])
    /\ victims' = Append(victims, Head(todo))
    /\ numPDBViolationVictims' =
          numPDBViolationVictims + (IF Head(todo) \in violating THEN 1 ELSE 0)
    /\ todo' = Tail(todo)
    /\ UNCHANGED <<inputs, nodePods, violating, status>>

\* Mutant of SortVictims: victims are returned as they were found.
ReturnUnsorted ==
    /\ status = "reprieve" /\ todo = <<>>
    /\ status' = "Success"
    /\ UNCHANGED <<inputs, nodePods, snapshot, todo, violating, victims, numPDBViolationVictims>>

SortVictims ==
    /\ status = "reprieve" /\ todo = <<>>
    /\ victims' \in ByImportance(Range(victims))
    /\ status' = "Success"
    /\ UNCHANGED <<inputs, nodePods, snapshot, todo, violating, numPDBViolationVictims>>

\* The node's pods and the ledgers come from different caches, so a pod may
\* be on the node and not on the ledger, and the other way round.
Init ==
    /\ onNode \in SUBSET Others
    /\ counted \in SUBSET Others
    /\ capacity \in Capacities
    /\ allowed \in [PDBs -> 0..MaxAllowed]
    /\ nodePods = onNode
    /\ snapshot = ManagerWith(counted)
    /\ todo = <<>> /\ violating = {} /\ victims = <<>> /\ numPDBViolationVictims = 0
    /\ status = "begin"

Next ==
    \/ NoPotentialVictims \/ DoesNotHelp \/ RemovePotentialVictims
    \/ Reprieve \/ Condemn \/ SortVictims

Spec == Init /\ [][Next]_vars

-----------------------------------------------------------------------------
(* Properties.                                                             *)

Victims == Range(victims)

Potential == findPotentialVictims

\* The preemptor fits when of the potential victims those in K stay: on the
\* node, and under its quota with K counted.
FitsKeeping(K) ==
    /\ FitsNode((onNode \ Potential) \cup K)
    /\ FitsPreemptorQuota(ManagerWith((counted \ Potential) \cup K))

\* Evicting the victims makes room: the preemptor then fits the node and its
\* queue's quota.  This is what nominating the node promises.
VictimsMakeRoom ==
    status = "Success" =>
        /\ FitsNode(onNode \ Victims)
        /\ FitsPreemptorQuota(ManagerWith(counted \ Victims))

\* The order in which pods are spared: a pod whose budget would be violated
\* before one whose would not, then by importance.
SparedBefore(a, b) ==
    \/ a \in violating /\ b \notin violating
    \/ (a \in violating <=> b \in violating) /\ MoreImportantPod(a, b)

\* No pod is evicted for the sake of a less deserving one: next to just the
\* spared pods it does not come before, a victim leaves no room for the
\* preemptor.
NoNeedlessVictim ==
    status = "Success" =>
        \A v \in Victims :
            ~FitsKeeping({u \in Potential \ Victims : ~SparedBefore(v, u)} \cup {v})

\* The number of budget violations reported, by which nodes are compared, is
\* that of the victims returned, and these are in order of importance.
VictimsReported ==
    status = "Success" =>
        /\ numPDBViolationVictims = Cardinality(Victims \cap violating)
        /\ Len(victims) = Cardinality(Victims)
        /\ \A i, j \in DOMAIN victims : i < j => ~MoreImportantPod(victims[j], victims[i])

\* preemption.go counts the victims that violate a budget; nodes with fewer of
\* them are preferred, and with none the eviction is taken to be harmless.  It
\* is: a budget is exceeded by no more victims than are counted, although one
\* budget is used up by pods that violate another, decremented below zero and
\* charged for pods that are spared in the end.
BudgetsAccounted ==
    status = "Success" =>
        \A b \in PDBs :
            Cardinality(Victims \cap Protects[b]) <= allowed[b] + numPDBViolationVictims

\* The simulation ends where the eviction would: node and ledgers differ from
\* the inputs by the victims only, plus spared pods the ledgers had missed.
SimulationFaithful ==
    status = "Success" =>
        /\ nodePods = onNode \ Victims
        /\ \A q \in DOMAIN snapshot :
             LET expected == ManagerWith((counted \cup Potential) \ Victims)[q]
             IN  /\ DOMAIN snapshot[q].podsByID = DOMAIN expected.podsByID
                 /\ Equivalent(snapshot[q].used, expected.used)
=============================================================================
