---------------------------- MODULE VictimProofs ----------------------------
(***************************************************************************)
(* Victim selection is right on every node and with every ledger: the      *)
(* victims make room, none is needless, what is reported is true, budgets  *)
(* are accounted for and the simulation predicts the eviction.  For any    *)
(* pods, queues, rules, capacities and disruption budgets.                 *)
(***************************************************************************)
EXTENDS VictimSelection, QuotaProofs

-----------------------------------------------------------------------------
(* The simulated ledgers.                                                  *)

InQueue(S, q) == {u \in S : PodOf[u].queue = q}

\* l is a ledger of queue q on which just the pods of S are.  Its total may
\* have names at 0 that pods left behind.
LedgerOf(q, l, S) ==
    /\ l = [max |-> MaxOf[q], used |-> l.used, podsByID |-> l.podsByID]
    /\ DOMAIN l.podsByID = InQueue(S, q)
    /\ \A u \in DOMAIN l.podsByID : l.podsByID[u] = PodOf[u].req
    /\ Consistent(l)

\* The manager qm counts just the pods of S.
Counts(qm, S) == DOMAIN qm = DOMAIN MaxOf /\ \A q \in DOMAIN MaxOf : LedgerOf(q, qm[q], S)

\* A pod's request consists of natural numbers.
LEMMA RequestOf ==
    ASSUME NEW u \in Others \cup {Preemptor}
    PROVE  PodOf[u].uid = u /\ IsReq(PodOf[u].req)
  BY VictimPodsAssumption DEF IsReq

\* A queue without pods.
LEMMA EmptyLedger ==
    ASSUME NEW q \in DOMAIN MaxOf
    PROVE  LET l == NewQueue(MaxOf[q])
           IN  /\ l = [max |-> MaxOf[q], used |-> l.used, podsByID |-> l.podsByID]
               /\ DOMAIN l.used = {} /\ DOMAIN l.podsByID = {}
               /\ Consistent(l)
  <1> DEFINE l == NewQueue(MaxOf[q])
             none == NewQuota(NoResources)
  <1>1. none = [max |-> NoResources, used |-> NoResources, podsByID |-> none.podsByID]
        /\ DOMAIN none.podsByID = {} /\ DOMAIN NoResources = {}
    BY DEF NewQuota, NoResources
  <1>2. Consistent(none)
    BY NewQuotaConsistent
  <1> HIDE DEF none
  <1>3. l = SetMax(none, MaxOf[q])
    BY DEF NewQueue, none
  <1>4. Consistent(l)
    BY <1>1, <1>2, <1>3, SetMaxConsistent
  <1>5. l = [max |-> MaxOf[q], used |-> NoResources, podsByID |-> none.podsByID]
    BY <1>1, <1>3 DEF SetMax
  <1> HIDE DEF l
  <1> QED
    BY <1>1, <1>4, <1>5 DEF l

\* What ManagerWith builds, with no names but those of requests.
LEMMA ManagerWithCounts ==
    ASSUME NEW S \in SUBSET Others
    PROVE  /\ Counts(ManagerWith(S), S)
           /\ \A q \in DOMAIN MaxOf : \A n \in DOMAIN ManagerWith(S)[q].used :
                 \E u \in InQueue(S, q) : n \in DOMAIN FromPodReq(PodOf[u].req)
  <1> SUFFICES ASSUME NEW q \in DOMAIN MaxOf
               PROVE  /\ LedgerOf(q, ManagerWith(S)[q], S)
                      /\ \A n \in DOMAIN ManagerWith(S)[q].used :
                            \E u \in InQueue(S, q) : n \in DOMAIN FromPodReq(PodOf[u].req)
    BY DEF Counts, ManagerWith
  <1> DEFINE e == NewQueue(MaxOf[q])
             reqs == [u \in InQueue(S, q) |-> PodOf[u].req]
             l == AddPodsIfNotPresent(e, reqs)
  <1>1. ManagerWith(S)[q] = l
    BY DEF ManagerWith, InQueue
  <1>2. e = [max |-> e.max, used |-> e.used, podsByID |-> e.podsByID] /\ e.max = MaxOf[q]
        /\ DOMAIN e.used = {} /\ DOMAIN e.podsByID = {} /\ Consistent(e)
    <2>1. e = [max |-> MaxOf[q], used |-> e.used, podsByID |-> e.podsByID]
          /\ DOMAIN e.used = {} /\ DOMAIN e.podsByID = {} /\ Consistent(e)
      BY EmptyLedger
    <2> HIDE DEF e
    <2>2. e.max = MaxOf[q]
      BY <2>1
    <2> QED
      BY <2>1, <2>2
  <1>3. IsFiniteSet(DOMAIN reqs) /\ \A u \in DOMAIN reqs : IsReq(reqs[u])
    <2>1. IsFiniteSet(InQueue(S, q))
      BY VictimPodsAssumption, FS_Subset DEF InQueue
    <2>2. \A u \in InQueue(S, q) : IsReq(PodOf[u].req)
      BY RequestOf DEF InQueue
    <2> QED
      BY <2>1, <2>2
  <1>4. DOMAIN reqs = InQueue(S, q) /\ \A u \in DOMAIN reqs : reqs[u] = PodOf[u].req
    OBVIOUS
  <1> HIDE DEF reqs, e
  <1>5. /\ Consistent(l)
        /\ l.max = e.max
        /\ \A n \in DOMAIN l.used :
              \/ n \in DOMAIN e.used
              \/ \E u \in DOMAIN reqs : n \in DOMAIN FromPodReq(reqs[u])
        /\ DOMAIN l.podsByID = DOMAIN e.podsByID \cup DOMAIN reqs
        /\ \A u \in DOMAIN reqs \ DOMAIN e.podsByID : l.podsByID[u] = reqs[u]
    <2>1. e = [max |-> e.max, used |-> e.used, podsByID |-> e.podsByID] /\ Consistent(e)
      BY <1>2, Zenon
    <2>2. Consistent(AddPodsIfNotPresent(e, reqs)) /\ AddPodsIfNotPresent(e, reqs).max = e.max
      BY <1>3, <2>1, AddPodsConsistent
    <2>3. \A n \in DOMAIN AddPodsIfNotPresent(e, reqs).used :
             \/ n \in DOMAIN e.used
             \/ \E u \in DOMAIN reqs : n \in DOMAIN FromPodReq(reqs[u])
      BY <1>3, <2>1, AddPodsConsistent
    <2>4. DOMAIN AddPodsIfNotPresent(e, reqs).podsByID = DOMAIN e.podsByID \cup DOMAIN reqs
      BY <1>3, <2>1, AddPodsConsistent
    <2>5. \A u \in DOMAIN reqs \ DOMAIN e.podsByID :
             AddPodsIfNotPresent(e, reqs).podsByID[u] = reqs[u]
      BY <1>3, <2>1, AddPodsConsistent
    <2> QED
      BY <2>2, <2>3, <2>4, <2>5
  <1>6. l = [max |-> l.max, used |-> l.used, podsByID |-> l.podsByID]
    <2> DEFINE fresh == [u \in DOMAIN reqs \ DOMAIN e.podsByID |-> reqs[u]]
               m == [u \in DOMAIN e.podsByID \cup DOMAIN fresh |->
                         IF u \in DOMAIN fresh THEN fresh[u] ELSE e.podsByID[u]]
               used == [n \in DOMAIN e.used \cup RequestNames(fresh) |->
                           Qty(e.used, n) + Requested(fresh, n)]
    <2>1. l = [e EXCEPT !.podsByID = m, !.used = used]
      BY Zenon DEF AddPodsIfNotPresent
    <2> HIDE DEF m, used, l
    <2>2. l = [max |-> e.max, used |-> used, podsByID |-> m]
      BY <1>2, <2>1
    <2> QED
      BY <2>2
  <1> HIDE DEF l
  <1>7. LedgerOf(q, l, S)
    BY <1>2, <1>4, <1>5, <1>6 DEF LedgerOf
  <1>8. \A n \in DOMAIN l.used : \E u \in InQueue(S, q) : n \in DOMAIN FromPodReq(PodOf[u].req)
    BY <1>2, <1>4, <1>5
  <1> QED
    BY <1>1, <1>7, <1>8

\* Two maps of requests with no pod in common.
LEMMA RequestsSplit ==
    ASSUME NEW m, NEW m1, NEW m2, DOMAIN m = DOMAIN m1 \cup DOMAIN m2,
           DOMAIN m1 \cap DOMAIN m2 = {},
           \A u \in DOMAIN m1 : m[u] = m1[u], \A u \in DOMAIN m2 : m[u] = m2[u],
           NEW n, IsFiniteSet(Units(m, n))
    PROVE  Requested(m, n) = Requested(m1, n) + Requested(m2, n)
  <1>1. Units(m, n) = Units(m1, n) \cup Units(m2, n)
    BY UnitsAreRows
  <1>2. Units(m1, n) \cap Units(m2, n) = {}
    BY DEF Units
  <1>3. IsFiniteSet(Units(m1, n)) /\ IsFiniteSet(Units(m2, n))
    BY <1>1, FS_Subset
  <1>4. Cardinality(Units(m, n)) = Cardinality(Units(m1, n)) + Cardinality(Units(m2, n)) - 0
    BY <1>1, <1>2, <1>3, FS_Union, FS_EmptySet
  <1>5. Cardinality(Units(m1, n)) \in Nat /\ Cardinality(Units(m2, n)) \in Nat
    BY <1>3, FS_CardinalityType
  <1> QED
    BY <1>3, <1>4, <1>5 DEF Requested

\* Removing the potential victims leaves the other pods counted.
LEMMA RemovePodsCounts ==
    ASSUME NEW qm, NEW S \in SUBSET Others, Counts(qm, S), NEW V \in SUBSET Others
    PROVE  Counts(RemovePods(qm, V), S \ V)
  <1>1. DOMAIN RemovePods(qm, V) = DOMAIN MaxOf
    BY DEF RemovePods, Counts
  <1>2. ASSUME NEW q \in DOMAIN MaxOf
        PROVE  LedgerOf(q, RemovePods(qm, V)[q], S \ V)
    <2> DEFINE l == qm[q]
               m == l.podsByID
               mine == {u \in V : PodOf[u].queue = q} \cap DOMAIN m
               reqs == [u \in mine |-> PodOf[u].req]
               m1 == [u \in DOMAIN m \ mine |-> m[u]]
               used1 == [n \in DOMAIN l.used |-> l.used[n] - Requested(reqs, n)]
               l1 == RemovePods(qm, V)[q]
    <2>1. LedgerOf(q, l, S) /\ q \in DOMAIN qm
      BY DEF Counts
    <2>2. l = [max |-> MaxOf[q], used |-> l.used, podsByID |-> m] /\ Consistent(l)
          /\ DOMAIN m = InQueue(S, q) /\ \A u \in DOMAIN m : m[u] = PodOf[u].req
      BY <2>1 DEF LedgerOf
    <2>3. l1 = [l EXCEPT !.podsByID = m1, !.used = used1]
      BY <2>1, Zenon DEF RemovePods
    <2>4. l1 = [max |-> MaxOf[q], used |-> used1, podsByID |-> m1]
      <3> HIDE DEF l, m, m1, used1, l1
      <3>1. l.max = MaxOf[q] /\ l.podsByID = m
        BY <2>2
      <3>2. l = [max |-> l.max, used |-> l.used, podsByID |-> l.podsByID]
        BY <2>2, <3>1
      <3>3. l1 = [max |-> l.max, used |-> used1, podsByID |-> m1]
        BY <2>3, <3>2
      <3> QED
        BY <3>1, <3>3
    <2>5. /\ DOMAIN m1 = DOMAIN m \ mine /\ \A u \in DOMAIN m1 : m1[u] = m[u]
          /\ DOMAIN reqs = mine /\ \A u \in DOMAIN reqs : m[u] = reqs[u]
          /\ DOMAIN used1 = DOMAIN l.used
          /\ \A n \in DOMAIN used1 : used1[n] = l.used[n] - Requested(reqs, n)
      BY <2>2
    <2>6. DOMAIN m1 = InQueue(S \ V, q) /\ \A u \in DOMAIN m1 : m1[u] = PodOf[u].req
      BY <2>2, <2>5 DEF InQueue
    <2>7. mine \subseteq DOMAIN m
      OBVIOUS
    <2> HIDE DEF l, m, m1, used1, l1, reqs, mine
    <2>8. /\ \A n : IsFiniteSet(Units(l.podsByID, n))
          /\ \A u \in DOMAIN l.podsByID : DOMAIN FromPodReq(l.podsByID[u]) \subseteq DOMAIN l.used
          /\ \A n \in DOMAIN l.used : l.used[n] = Requested(l.podsByID, n)
      BY <2>2 DEF Consistent
    <2>9. l.podsByID = m
      BY DEF m
    <2>10. ASSUME NEW n
           PROVE  /\ IsFiniteSet(Units(m1, n))
                  /\ Requested(m1, n) \in Nat /\ Requested(reqs, n) \in Nat
                  /\ Requested(m, n) = Requested(m1, n) + Requested(reqs, n)
      <3>1. DOMAIN m = DOMAIN m1 \cup DOMAIN reqs /\ DOMAIN m1 \cap DOMAIN reqs = {}
        BY <2>5, <2>7
      <3>2. IsFiniteSet(Units(m, n))
        BY <2>8, <2>9
      <3>3. (\A u \in DOMAIN m1 : m[u] = m1[u]) /\ (\A u \in DOMAIN reqs : m[u] = reqs[u])
        BY <2>5
      <3>4. IsFiniteSet(Units(m1, n)) /\ Requested(m1, n) \in Nat
        BY <3>1, <3>2, <3>3, SubMapRequests DEF SubMap
      <3>5. Requested(reqs, n) \in Nat
        BY <3>1, <3>2, <3>3, SubMapRequests DEF SubMap
      <3>6. Requested(m, n) = Requested(m1, n) + Requested(reqs, n)
        BY <3>1, <3>2, <3>3, RequestsSplit
      <3> QED
        BY <3>4, <3>5, <3>6
    <2>11. Consistent([max |-> MaxOf[q], used |-> used1, podsByID |-> m1])
      <3>1. \A n \in DOMAIN used1 : used1[n] = Requested(m1, n)
        BY <2>5, <2>8, <2>9, <2>10
      <3>2. \A u \in DOMAIN m1 : DOMAIN FromPodReq(m1[u]) \subseteq DOMAIN used1
        BY <2>5, <2>8, <2>9
      <3> QED
        BY <2>10, <3>1, <3>2 DEF Consistent
    <2>12. LedgerOf(q, l1, S \ V)
      BY <2>4, <2>6, <2>11 DEF LedgerOf
    <2> QED
      BY <2>12 DEF l1
  <1> QED
    BY <1>1, <1>2 DEF Counts

\* Adding a potential victim back.
LEMMA AddPodCounts ==
    ASSUME NEW qm, NEW S \in SUBSET Others, Counts(qm, S), NEW p \in Others
    PROVE  Counts(AddPod(qm, PodOf[p]), S \cup {p})
  <1> DEFINE q == PodOf[p].queue
             l == qm[q]
             l1 == AddPodIfNotPresent(l, PodOf[p])
             T == S \cup {p}
  <1>1. \A x : x # q => InQueue(T, x) = InQueue(S, x)
    BY DEF InQueue
  <1>2. InQueue(T, q) = InQueue(S, q) \cup {p}
    BY DEF InQueue
  <1>3. DOMAIN qm = DOMAIN MaxOf /\ \A x \in DOMAIN MaxOf : LedgerOf(x, qm[x], S)
    BY DEF Counts
  <1>4. \A x \in DOMAIN MaxOf : x # q => LedgerOf(x, qm[x], T)
    BY <1>1, <1>3 DEF LedgerOf
  <1>5. CASE q \notin DOMAIN qm
    <2>1. AddPod(qm, PodOf[p]) = qm
      BY <1>5 DEF AddPod, HasQueue
    <2> QED
      BY <1>3, <1>4, <1>5, <2>1 DEF Counts
  <1>6. CASE q \in DOMAIN qm
    <2>1. AddPod(qm, PodOf[p]) = [qm EXCEPT ![q] = l1]
      BY <1>6 DEF AddPod, HasQueue
    <2>2. LedgerOf(q, l, S) /\ q \in DOMAIN MaxOf
      BY <1>3, <1>6
    <2> HIDE DEF l
    <2>3. l.max = MaxOf[q] /\ Consistent(l) /\ DOMAIN l.podsByID = InQueue(S, q)
          /\ \A u \in DOMAIN l.podsByID : l.podsByID[u] = PodOf[u].req
      BY <2>2 DEF LedgerOf
    <2>4. l = [max |-> l.max, used |-> l.used, podsByID |-> l.podsByID]
      BY <2>2, <2>3 DEF LedgerOf
    <2>5. PodOf[p].uid = p /\ IsReq(PodOf[p].req)
      BY RequestOf
    <2>6. Consistent(l1)
      BY <2>3, <2>4, <2>5, AddPodConsistent
    <2>7. /\ l1 = [max |-> MaxOf[q], used |-> l1.used, podsByID |-> l1.podsByID]
          /\ DOMAIN l1.podsByID = DOMAIN l.podsByID \cup {p}
          /\ \A u \in DOMAIN l1.podsByID : l1.podsByID[u] = PodOf[u].req
      <3>1. CASE p \in DOMAIN l.podsByID
        <4>1. l1 = l
          BY <2>5, <3>1 DEF AddPodIfNotPresent, ContainsPod
        <4> HIDE DEF l1
        <4> QED
          BY <2>3, <2>4, <3>1, <4>1
      <3>2. CASE p \notin DOMAIN l.podsByID
        <4> DEFINE m == MapSet(l.podsByID, p, PodOf[p].req)
        <4>1. l1 = [max |-> l.max, used |-> Add(l.used, FromPodReq(PodOf[p].req)), podsByID |-> m]
          BY <2>4, <2>5, <3>2 DEF AddPodIfNotPresent, ContainsPod
        <4>2. DOMAIN m = DOMAIN l.podsByID \cup {p} /\ \A u \in DOMAIN m : m[u] = PodOf[u].req
          BY <2>3 DEF MapSet
        <4> HIDE DEF l1, m
        <4> QED
          BY <2>3, <4>1, <4>2
      <3> QED
        BY <3>1, <3>2
    <2> HIDE DEF l1
    <2>8. LedgerOf(q, l1, T)
      BY <1>2, <2>3, <2>6, <2>7 DEF LedgerOf
    <2>9. Counts([qm EXCEPT ![q] = l1], T)
      BY <1>3, <1>4, <2>8 DEF Counts
    <2> QED
      BY <2>1, <2>9
  <1> QED
    BY <1>5, <1>6

\* Removing it again.
LEMMA DeletePodCounts ==
    ASSUME NEW qm, NEW S \in SUBSET Others, Counts(qm, S), NEW p \in Others
    PROVE  Counts(DeletePod(qm, PodOf[p]), S \ {p})
  <1> DEFINE q == PodOf[p].queue
             l == qm[q]
             l1 == DeletePodIfPresent(l, PodOf[p])
             T == S \ {p}
  <1>1. \A x : x # q => InQueue(T, x) = InQueue(S, x)
    BY DEF InQueue
  <1>2. InQueue(T, q) = InQueue(S, q) \ {p}
    BY DEF InQueue
  <1>3. DOMAIN qm = DOMAIN MaxOf /\ \A x \in DOMAIN MaxOf : LedgerOf(x, qm[x], S)
    BY DEF Counts
  <1>4. \A x \in DOMAIN MaxOf : x # q => LedgerOf(x, qm[x], T)
    BY <1>1, <1>3 DEF LedgerOf
  <1>5. CASE q \notin DOMAIN qm
    <2>1. DeletePod(qm, PodOf[p]) = qm
      BY <1>5 DEF DeletePod, HasQueue
    <2> QED
      BY <1>3, <1>4, <1>5, <2>1 DEF Counts
  <1>6. CASE q \in DOMAIN qm
    <2>1. DeletePod(qm, PodOf[p]) = [qm EXCEPT ![q] = l1]
      BY <1>6 DEF DeletePod, HasQueue
    <2>2. LedgerOf(q, l, S) /\ q \in DOMAIN MaxOf
      BY <1>3, <1>6
    <2> HIDE DEF l
    <2>3. l.max = MaxOf[q] /\ Consistent(l) /\ DOMAIN l.podsByID = InQueue(S, q)
          /\ \A u \in DOMAIN l.podsByID : l.podsByID[u] = PodOf[u].req
      BY <2>2 DEF LedgerOf
    <2>4. l = [max |-> l.max, used |-> l.used, podsByID |-> l.podsByID]
      BY <2>2, <2>3 DEF LedgerOf
    <2>5. PodOf[p].uid = p /\ IsReq(PodOf[p].req)
      BY RequestOf
    <2>6. Consistent(l1)
      BY <2>3, <2>4, <2>5, DeletePodConsistent
    <2>7. /\ l1 = [max |-> MaxOf[q], used |-> l1.used, podsByID |-> l1.podsByID]
          /\ DOMAIN l1.podsByID = DOMAIN l.podsByID \ {p}
          /\ \A u \in DOMAIN l1.podsByID : l1.podsByID[u] = PodOf[u].req
      <3>1. CASE p \notin DOMAIN l.podsByID
        <4>1. l1 = l
          BY <2>5, <3>1 DEF DeletePodIfPresent, ContainsPod
        <4> HIDE DEF l1
        <4> QED
          BY <2>3, <2>4, <3>1, <4>1
      <3>2. CASE p \in DOMAIN l.podsByID
        <4> DEFINE m == MapDelete(l.podsByID, p)
        <4>1. l1 = [max |-> l.max, used |-> Sub(l.used, FromPodReq(PodOf[p].req)), podsByID |-> m]
          BY <2>4, <2>5, <3>2 DEF DeletePodIfPresent, ContainsPod
        <4>2. DOMAIN m = DOMAIN l.podsByID \ {p} /\ \A u \in DOMAIN m : m[u] = PodOf[u].req
          BY <2>3 DEF MapDelete
        <4> HIDE DEF l1, m
        <4> QED
          BY <2>3, <4>1, <4>2
      <3> QED
        BY <3>1, <3>2
    <2> HIDE DEF l1
    <2>8. LedgerOf(q, l1, T)
      BY <1>2, <2>3, <2>6, <2>7 DEF LedgerOf
    <2>9. Counts([qm EXCEPT ![q] = l1], T)
      BY <1>3, <1>4, <2>8 DEF Counts
    <2> QED
      BY <2>1, <2>9
  <1> QED
    BY <1>5, <1>6

-----------------------------------------------------------------------------
(* What fits.                                                              *)

\* FitsNode with the capacity as an argument.
FitsOn(c, S) ==
    \A n \in DOMAIN c : Requested([u \in S \cup {Preemptor} |-> PodOf[u].req], n) <= c[n]

\* What fits a node fits next to fewer pods.
LEMMA NodeFitsFewer ==
    ASSUME NEW c \in Capacities, NEW S \in SUBSET Others, NEW T \in SUBSET S, FitsOn(c, S)
    PROVE  FitsOn(c, T)
  <1> SUFFICES ASSUME NEW n \in DOMAIN c
               PROVE  Requested([u \in T \cup {Preemptor} |-> PodOf[u].req], n) <= c[n]
    BY DEF FitsOn
  <1> DEFINE m == [u \in S \cup {Preemptor} |-> PodOf[u].req]
             m1 == [u \in T \cup {Preemptor} |-> PodOf[u].req]
  <1>1. Requested(m, n) <= c[n] /\ c[n] \in Int
    BY VictimPodsAssumption DEF FitsOn
  <1>2. IsFiniteSet(DOMAIN m) /\ \A u \in DOMAIN m : IsReq(m[u])
    <2>1. IsFiniteSet(S \cup {Preemptor})
      BY VictimPodsAssumption, FS_Subset, FS_AddElement
    <2> QED
      BY <2>1, RequestOf
  <1>3. SubMap(m1, m)
    BY DEF SubMap
  <1> HIDE DEF m, m1
  <1>4. IsFiniteSet(Units(m, n))
    BY <1>2, FiniteUnits
  <1>5. Requested(m1, n) \in Nat /\ Requested(m, n) \in Nat /\ Requested(m1, n) <= Requested(m, n)
    BY <1>3, <1>4, SubMapRequests
  <1>6. Requested(m1, n) <= c[n]
    BY <1>1, <1>5
  <1> QED
    BY <1>6 DEF m1

\* FitsPreemptorQuota in terms of the preemptor's ledger.
LEMMA QuotaMeans ==
    ASSUME NEW qm, NEW S, Counts(qm, S)
    PROVE  FitsPreemptorQuota(qm) <=>
               (PodOf[Preemptor].queue \in DOMAIN MaxOf =>
                   ~WouldPutOverMax(qm[PodOf[Preemptor].queue], FromPodReq(PodOf[Preemptor].req)))
  BY DEF Counts, FitsPreemptorQuota, HasQueue

\* Two ledgers of one queue, one with fewer pods.
LEMMA FewerPods ==
    ASSUME NEW q, NEW S, NEW T \in SUBSET S, NEW l, LedgerOf(q, l, S), NEW l1, LedgerOf(q, l1, T)
    PROVE  SubMap(l1.podsByID, l.podsByID) /\ l1.max = l.max /\ l.max = MaxOf[q]
           /\ Consistent(l) /\ Consistent(l1)
  <1>1. l.max = MaxOf[q] /\ DOMAIN l.podsByID = InQueue(S, q) /\ Consistent(l)
        /\ \A u \in DOMAIN l.podsByID : l.podsByID[u] = PodOf[u].req
    BY DEF LedgerOf
  <1>2. l1.max = MaxOf[q] /\ DOMAIN l1.podsByID = InQueue(T, q) /\ Consistent(l1)
        /\ \A u \in DOMAIN l1.podsByID : l1.podsByID[u] = PodOf[u].req
    BY DEF LedgerOf
  <1>3. InQueue(T, q) \subseteq InQueue(S, q)
    BY DEF InQueue
  <1> QED
    BY <1>1, <1>2, <1>3 DEF SubMap

\* What fits the quota fits with fewer pods counted.
LEMMA QuotaFitsFewer ==
    ASSUME NEW qm, NEW S \in SUBSET Others, Counts(qm, S), NEW T \in SUBSET S,
           FitsPreemptorQuota(qm)
    PROVE  FitsPreemptorQuota(ManagerWith(T))
  <1> DEFINE q == PodOf[Preemptor].queue
             req == PodOf[Preemptor].req
             l == qm[q]
             l1 == ManagerWith(T)[q]
  <1>1. Counts(ManagerWith(T), T)
        /\ \A x \in DOMAIN MaxOf : \A n \in DOMAIN ManagerWith(T)[x].used :
              \E u \in InQueue(T, x) : n \in DOMAIN FromPodReq(PodOf[u].req)
    BY ManagerWithCounts
  <1> SUFFICES ASSUME q \in DOMAIN MaxOf
               PROVE  ~WouldPutOverMax(l1, FromPodReq(req))
    BY <1>1, QuotaMeans
  <1>2. LedgerOf(q, l, S) /\ LedgerOf(q, l1, T) /\ ~WouldPutOverMax(l, FromPodReq(req))
    BY <1>1, QuotaMeans DEF Counts
  <1>3. \A n \in DOMAIN l1.used : \E u \in InQueue(T, q) : n \in DOMAIN FromPodReq(PodOf[u].req)
    BY <1>1
  <1>4. IsReq(req)
    BY RequestOf
  <1>5. \A n \in DOMAIN MaxOf[q] : MaxOf[q][n] \in Int
    BY VictimPodsAssumption
  <1> HIDE DEF l, l1, req, q
  <1>6. SubMap(l1.podsByID, l.podsByID) /\ l1.max = l.max /\ l.max = MaxOf[q]
        /\ Consistent(l) /\ Consistent(l1)
    BY <1>2, FewerPods
  <1>7. DOMAIN l1.used \subseteq DOMAIN l.used
    <2>1. \A u \in DOMAIN l.podsByID : DOMAIN FromPodReq(PodOf[u].req) \subseteq DOMAIN l.used
      BY <1>2 DEF LedgerOf, Consistent
    <2>2. InQueue(T, q) \subseteq DOMAIN l.podsByID
      BY <1>2 DEF LedgerOf, InQueue
    <2> QED
      BY <1>3, <2>1, <2>2
  <1>8. NoLarger(l1, l)
    BY <1>6, <1>7 DEF NoLarger
  <1>9. \A n \in DOMAIN l.max : l.max[n] \in Int
    BY <1>5, <1>6
  <1> QED
    BY <1>2, <1>4, <1>6, <1>8, <1>9, FitsSmaller

\* No queue has a negative maximum.
NonNegativeMaxima == \A q \in DOMAIN MaxOf : \A n \in DOMAIN MaxOf[q] : MaxOf[q][n] >= 0

\* What does not fit the quota does not with more pods counted.  The ledger
\* may have names at 0 that a new one has not: under a negative maximum such a
\* name alone is over it.
LEMMA QuotaFitsNoMore ==
    ASSUME NonNegativeMaxima,
           NEW qm, NEW S \in SUBSET Others, Counts(qm, S), NEW T \in SUBSET Others, S \subseteq T,
           ~FitsPreemptorQuota(qm)
    PROVE  ~FitsPreemptorQuota(ManagerWith(T))
  <1> DEFINE q == PodOf[Preemptor].queue
             req == PodOf[Preemptor].req
             r == FromPodReq(req)
             l == qm[q]
             l1 == ManagerWith(T)[q]
  <1>1. Counts(ManagerWith(T), T)
    BY ManagerWithCounts
  <1>2. q \in DOMAIN MaxOf /\ WouldPutOverMax(l, r)
    BY QuotaMeans
  <1> SUFFICES WouldPutOverMax(l1, r)
    BY <1>1, <1>2, QuotaMeans
  <1>3. LedgerOf(q, l, S) /\ LedgerOf(q, l1, T)
    BY <1>1, <1>2 DEF Counts
  <1>4. IsReq(req)
    BY RequestOf
  <1>5. \A n \in DOMAIN MaxOf[q] : MaxOf[q][n] \in Int /\ MaxOf[q][n] >= 0
    BY <1>2, VictimPodsAssumption DEF NonNegativeMaxima
  <1> HIDE DEF l, l1, req, q
  <1>6. SubMap(l.podsByID, l1.podsByID) /\ l1.max = l.max /\ l1.max = MaxOf[q]
        /\ Consistent(l) /\ Consistent(l1)
    BY <1>3, FewerPods
  <1>7. PICK n \in (DOMAIN l.used \cup DOMAIN r) \cap DOMAIN l.max :
            Requested(l.podsByID, n) + Qty(r, n) > l.max[n]
    BY <1>2, <1>4, <1>6, OverMaxMeans
  <1>8. IsFiniteSet(Units(l1.podsByID, n))
    BY <1>6 DEF Consistent
  <1>9. Requested(l.podsByID, n) \in Nat /\ Requested(l1.podsByID, n) \in Nat
        /\ Requested(l.podsByID, n) <= Requested(l1.podsByID, n)
    BY <1>6, <1>8, SubMapRequests
  <1>10. Qty(r, n) \in Nat /\ (n \notin DOMAIN r => Qty(r, n) = 0)
    BY <1>4, QtyOfRequest
  <1>11. l.max[n] \in Int /\ l.max[n] >= 0 /\ l1.max[n] = l.max[n]
    BY <1>5, <1>6
  <1> HIDE DEF r
  <1>12. Requested(l1.podsByID, n) + Qty(r, n) > l1.max[n]
    BY <1>7, <1>9, <1>10, <1>11
  <1>13. n \in DOMAIN l1.used \cup DOMAIN r
    <2>1. SUFFICES ASSUME n \notin DOMAIN l1.used, n \notin DOMAIN r
                   PROVE  FALSE
      OBVIOUS
    <2>2. Requested(l1.podsByID, n) = 0
      BY <1>6, <2>1, NameNotCarried
    <2>3. Qty(r, n) = 0
      BY <1>10, <2>1
    <2> QED
      BY <1>11, <1>12, <2>2, <2>3
  <1>14. n \in (DOMAIN l1.used \cup DOMAIN r) \cap DOMAIN l1.max
    BY <1>6, <1>7, <1>13
  <1> QED
    BY <1>4, <1>6, <1>12, <1>14, OverMaxMeans DEF r

-----------------------------------------------------------------------------
(* Lists of pods.                                                          *)

\* SetToSeqs lists every pod of a set once.
LEMMA SeqsOfSet ==
    ASSUME NEW S \in SUBSET Others, NEW s \in SetToSeqs(S)
    PROVE  s \in Seq(S) /\ IsInjective(s) /\ Range(s) = S /\ Len(s) = Cardinality(S)
  <1> DEFINE n == Cardinality(S)
  <1>1. IsFiniteSet(S) /\ n \in Nat
    BY VictimPodsAssumption, FS_Subset, FS_CardinalityType
  <1>2. s \in [1..n -> S] /\ IsInjective(s)
    BY DEF SetToSeqs, IsInjective
  <1>3. Range(s) = S
    <2>1. s \in Injection(1..n, S)
      BY <1>2 DEF Injection
    <2>2. IsFiniteSet(1..n) /\ Cardinality(1..n) = n
      BY <1>1, FS_Interval
    <2>3. s \in Surjection(1..n, S)
      BY <1>1, <2>1, <2>2, FS_Injection
    <2> QED
      BY <1>2, <2>3 DEF Surjection, Range
  <1> QED
    BY <1>1, <1>2, <1>3

\* Taking the first pod off a list without repetitions.
LEMMA HeadAndTail ==
    ASSUME NEW S, NEW t \in Seq(S), IsInjective(t), t # <<>>
    PROVE  /\ Head(t) \in Range(t) /\ Head(t) \notin Range(Tail(t)) /\ Head(t) = t[1]
           /\ Range(t) = {Head(t)} \cup Range(Tail(t))
           /\ Tail(t) \in Seq(S) /\ IsInjective(Tail(t))
           /\ \A i \in DOMAIN Tail(t) : i \in Nat \ {0} /\ i + 1 \in DOMAIN t /\ Tail(t)[i] = t[i + 1]
  <1>1. Len(t) \in Nat \ {0} /\ DOMAIN t = 1..Len(t) /\ Head(t) = t[1]
    OBVIOUS
  <1>2. Tail(t) \in Seq(S) /\ DOMAIN Tail(t) = 1..(Len(t) - 1)
    BY <1>1
  <1>3. \A i \in DOMAIN Tail(t) : i \in Nat \ {0} /\ i + 1 \in DOMAIN t /\ Tail(t)[i] = t[i + 1]
    BY <1>1, <1>2
  <1>4. \A i, j \in DOMAIN t : t[i] = t[j] => i = j
    BY DEF IsInjective
  <1>5. IsInjective(Tail(t))
    <2> SUFFICES ASSUME NEW i \in DOMAIN Tail(t), NEW j \in DOMAIN Tail(t), Tail(t)[i] = Tail(t)[j]
                 PROVE  i = j
      BY DEF IsInjective
    <2>1. i + 1 = j + 1
      BY <1>3, <1>4
    <2> QED
      BY <1>3, <2>1
  <1>6. Head(t) \notin Range(Tail(t))
    <2> SUFFICES ASSUME NEW i \in DOMAIN Tail(t), Tail(t)[i] = t[1]
                 PROVE  FALSE
      BY <1>1 DEF Range
    <2>1. i + 1 = 1
      BY <1>1, <1>3, <1>4
    <2> QED
      BY <1>3, <2>1
  <1>7. Range(t) \subseteq {Head(t)} \cup Range(Tail(t))
    <2> SUFFICES ASSUME NEW k \in DOMAIN t, k # 1
                 PROVE  t[k] \in Range(Tail(t))
      BY <1>1 DEF Range
    <2> DEFINE i == k - 1
    <2>1. i \in 1..(Len(t) - 1) /\ i + 1 = k
      BY <1>1
    <2> HIDE DEF i
    <2>2. i \in DOMAIN Tail(t)
      BY <1>2, <2>1
    <2>3. Tail(t)[i] = t[k]
      BY <1>3, <2>1, <2>2
    <2> QED
      BY <2>2, <2>3 DEF Range
  <1>8. {Head(t)} \cup Range(Tail(t)) \subseteq Range(t)
    <2>1. Head(t) \in Range(t)
      BY <1>1 DEF Range
    <2>2. Range(Tail(t)) \subseteq Range(t)
      BY <1>3 DEF Range
    <2> QED
      BY <2>1, <2>2
  <1> QED
    BY <1>1, <1>2, <1>3, <1>5, <1>6, <1>7, <1>8

\* Adding a pod that is not on a list.
LEMMA AppendNew ==
    ASSUME NEW S, NEW s \in Seq(S), IsInjective(s), NEW h \in S, h \notin Range(s)
    PROVE  LET t == Append(s, h)
           IN  t \in Seq(S) /\ IsInjective(t) /\ Range(t) = Range(s) \cup {h}
  <1> DEFINE t == Append(s, h)
             k == Len(s) + 1
  <1>1. Len(s) \in Nat /\ DOMAIN s = 1..Len(s)
    OBVIOUS
  <1>2. t \in Seq(S) /\ DOMAIN t = 1..k /\ t[k] = h /\ \A i \in 1..Len(s) : t[i] = s[i]
    BY <1>1
  <1>3. DOMAIN t = DOMAIN s \cup {k} /\ k \notin DOMAIN s
    BY <1>1, <1>2
  <1>4. \A i \in DOMAIN s : t[i] = s[i] /\ s[i] # h
    BY <1>1, <1>2 DEF Range
  <1> HIDE DEF t, k
  <1>5. \A i, j \in DOMAIN s : s[i] = s[j] => i = j
    BY DEF IsInjective
  <1>6. IsInjective(t)
    BY <1>2, <1>3, <1>4, <1>5 DEF IsInjective
  <1>7. Range(t) = Range(s) \cup {h}
    BY <1>2, <1>3, <1>4 DEF Range
  <1> QED
    BY <1>2, <1>6, <1>7 DEF t

-----------------------------------------------------------------------------
(* The inductive invariant, over explicit arguments so that it can be      *)
(* spoken of before and after a step.                                      *)

\* The potential victims on a node with the pods of N.
PotentialOf(N) ==
    IF IsConfiguredForPreemption(CfgOf, PodOf[Preemptor])
    THEN {u \in N : IsPreemptionAllowed(CfgOf, PodOf[Preemptor], PodOf[u])}
    ELSE {u \in N : /\ PodOf[u].queue \notin DOMAIN MaxOf
                    /\ PodOf[u].priority < PodOf[Preemptor].priority}

\* SparedBefore and FitsKeeping.
Before(V, a, b) ==
    \/ a \in V /\ b \notin V
    \/ (a \in V <=> b \in V) /\ MoreImportantPod(a, b)

Keeping(c, N, C, K) ==
    /\ FitsOn(c, (N \ PotentialOf(N)) \cup K)
    /\ FitsPreemptorQuota(ManagerWith((C \ PotentialOf(N)) \cup K))

\* Of the potential victims P, those still to try are the list t, those
\* condemned the list vs, and the others are spared.
Lists(P, t, vs) ==
    /\ t \in Seq(P) /\ IsInjective(t)
    /\ vs \in Seq(P) /\ IsInjective(vs)
    /\ Range(t) \cap Range(vs) = {}

SparedOf(P, t, vs) == P \ (Range(t) \cup Range(vs))

\* The pods of t come after those tried, and in order.
InOrder(P, V, t) ==
    /\ \A i, j \in DOMAIN t : i < j => ~Before(V, t[j], t[i])
    /\ \A a \in P \ Range(t), b \in Range(t) : ~Before(V, b, a)

\* Simulated node and ledgers have the spared pods K, and no other potential
\* victim.
Simulates(N, C, np, qm, K) ==
    /\ np = (N \ PotentialOf(N)) \cup K
    /\ Counts(qm, (C \ PotentialOf(N)) \cup K)

\* Next to the spared pods that do not come after it no victim could stay.
Needed(c, N, C, V, K, vs) ==
    \A v \in Range(vs) : ~Keeping(c, N, C, {u \in K : ~Before(V, v, u)} \cup {v})

Selecting(N, C, c, np, qm, t, V, vs, num) ==
    LET P == PotentialOf(N)
        K == SparedOf(P, t, vs)
    IN  /\ Lists(P, t, vs)
        /\ InOrder(P, V, t)
        /\ Simulates(N, C, np, qm, K)
        /\ Keeping(c, N, C, K)
        /\ num = Cardinality(Range(vs) \cap V)
        /\ NonNegativeMaxima => Needed(c, N, C, V, K, vs)

\* The invariant.
SelectionInv ==
    /\ onNode \in SUBSET Others /\ counted \in SUBSET Others /\ capacity \in Capacities
    /\ DOMAIN snapshot = DOMAIN MaxOf
    /\ status = "begin" => /\ nodePods = onNode /\ Counts(snapshot, counted)
                           /\ victims = <<>> /\ numPDBViolationVictims = 0
    /\ status \in {"reprieve", "Success"} =>
          Selecting(onNode, counted, capacity, nodePods, snapshot, todo, violating, victims,
                    numPDBViolationVictims)
    /\ status = "Success" => todo = <<>> /\ victims \in ByImportance(Range(victims))

\* Once all potential victims are removed.
LEMMA SelectionStarts ==
    ASSUME NEW N \in SUBSET Others, NEW C \in SUBSET Others, NEW c \in Capacities,
           NEW qm, Counts(qm, C), NEW P, P = PotentialOf(N), FitsOn(c, N \ P),
           FitsPreemptorQuota(RemovePods(qm, P)),
           NEW s \in ByImportance(P), NEW V, NEW t \in ReprieveOrder(s, V)
    PROVE  Selecting(N, C, c, N \ P, RemovePods(qm, P), t, V, <<>>, 0)
  <1>1. P \in SUBSET Others
    BY DEF PotentialOf
  <1>2. s \in SetToSeqs(P) /\ \A i, j \in DOMAIN s : i < j => ~MoreImportantPod(s[j], s[i])
    BY DEF ByImportance
  <1>3. Range(s) = P
    BY <1>1, <1>2, SeqsOfSet
  <1>4. t \in SetToSeqs(P)
    BY <1>3 DEF ReprieveOrder
  <1>5. t \in Seq(P) /\ IsInjective(t) /\ Range(t) = P
    BY <1>1, <1>4, SeqsOfSet
  <1>6. <<>> \in Seq(P) /\ IsInjective(<<>>) /\ Range(<<>>) = {}
    BY DEF IsInjective, Range
  <1>7. Lists(P, t, <<>>) /\ SparedOf(P, t, <<>>) = {}
    BY <1>5, <1>6 DEF Lists, SparedOf
  <1>8. InOrder(P, V, t)
    <2>1. ASSUME NEW i \in DOMAIN t, NEW j \in DOMAIN t, i < j
          PROVE  ~Before(V, t[j], t[i])
      <3>1. PICK x \in DOMAIN s, y \in DOMAIN s :
                /\ t[i] = s[x] /\ t[j] = s[y]
                /\ \/ t[i] \in V /\ t[j] \notin V
                   \/ (t[i] \in V <=> t[j] \in V) /\ x < y
        BY <2>1 DEF ReprieveOrder
      <3>2. x < y => ~MoreImportantPod(t[j], t[i])
        BY <1>2, <3>1
      <3> QED
        BY <3>1, <3>2 DEF Before
    <2> QED
      BY <1>5, <2>1 DEF InOrder
  <1>9. Counts(RemovePods(qm, P), C \ P)
    BY <1>1, RemovePodsCounts
  <1>10. FitsPreemptorQuota(ManagerWith(C \ P))
    BY <1>9, QuotaFitsFewer
  <1>11. (N \ P) \cup {} = N \ P /\ (C \ P) \cup {} = C \ P
    OBVIOUS
  <1>12. Simulates(N, C, N \ P, RemovePods(qm, P), {})
    BY <1>9, <1>11 DEF Simulates
  <1>13. Keeping(c, N, C, {})
    BY <1>10, <1>11 DEF Keeping
  <1>14. Cardinality(Range(<<>>) \cap V) = 0
    BY <1>6, FS_EmptySet
  <1>15. Needed(c, N, C, V, {}, <<>>)
    BY <1>6 DEF Needed
  <1> QED
    BY <1>7, <1>8, <1>12, <1>13, <1>14, <1>15 DEF Selecting

\* Keeping more leaves no more room.
LEMMA KeepingFewer ==
    ASSUME NEW N \in SUBSET Others, NEW C \in SUBSET Others, NEW c \in Capacities,
           NEW K \in SUBSET Others, NEW J \in SUBSET K, Keeping(c, N, C, K)
    PROVE  Keeping(c, N, C, J)
  <1> DEFINE P == PotentialOf(N)
  <1>1. FitsOn(c, (N \ P) \cup J)
    <2>1. (N \ P) \cup K \in SUBSET Others /\ (N \ P) \cup J \in SUBSET ((N \ P) \cup K)
      OBVIOUS
    <2>2. FitsOn(c, (N \ P) \cup K)
      BY DEF Keeping
    <2> QED
      BY <2>1, <2>2, NodeFitsFewer
  <1>2. FitsPreemptorQuota(ManagerWith((C \ P) \cup J))
    <2>1. (C \ P) \cup K \in SUBSET Others /\ (C \ P) \cup J \in SUBSET ((C \ P) \cup K)
      OBVIOUS
    <2>2. Counts(ManagerWith((C \ P) \cup K), (C \ P) \cup K)
      BY <2>1, ManagerWithCounts
    <2>3. FitsPreemptorQuota(ManagerWith((C \ P) \cup K))
      BY DEF Keeping
    <2> QED
      BY <2>1, <2>2, <2>3, QuotaFitsFewer
  <1> QED
    BY <1>1, <1>2 DEF Keeping

\* The order goes on holding when the first pod of the list is tried.
LEMMA InOrderTail ==
    ASSUME NEW P, NEW V, NEW t \in Seq(P), IsInjective(t), t # <<>>, InOrder(P, V, t)
    PROVE  InOrder(P, V, Tail(t)) /\ \A a \in P \ Range(t) : ~Before(V, Head(t), a)
  <1> DEFINE h == Head(t)
             s == Tail(t)
  <1>1. /\ h \in Range(t) /\ h = t[1] /\ Range(t) = {h} \cup Range(s)
        /\ \A i \in DOMAIN s : i \in Nat \ {0} /\ i + 1 \in DOMAIN t /\ s[i] = t[i + 1]
    BY HeadAndTail
  <1>2. DOMAIN t \subseteq Nat /\ 1 \in DOMAIN t
    OBVIOUS
  <1> HIDE DEF h, s
  <1>3. /\ \A i, j \in DOMAIN t : i < j => ~Before(V, t[j], t[i])
        /\ \A a \in P \ Range(t), b \in Range(t) : ~Before(V, b, a)
    BY DEF InOrder
  <1>4. \A i, j \in DOMAIN s : i < j => ~Before(V, s[j], s[i])
    <2> SUFFICES ASSUME NEW i \in DOMAIN s, NEW j \in DOMAIN s, i < j
                 PROVE  ~Before(V, s[j], s[i])
      OBVIOUS
    <2>1. i + 1 < j + 1
      BY <1>1
    <2> QED
      BY <1>1, <1>3, <2>1
  <1>5. \A b \in Range(s) : ~Before(V, b, h)
    <2> SUFFICES ASSUME NEW j \in DOMAIN s
                 PROVE  ~Before(V, s[j], t[1])
      BY <1>1 DEF Range
    <2>1. 1 < j + 1
      BY <1>1
    <2> QED
      BY <1>1, <1>2, <1>3, <2>1
  <1>6. \A a \in P \ Range(s), b \in Range(s) : ~Before(V, b, a)
    BY <1>1, <1>3, <1>5
  <1> QED
    BY <1>1, <1>3, <1>4, <1>6 DEF InOrder, h, s

\* After a reprieve: the pod is spared.
LEMMA SelectionReprieves ==
    ASSUME NEW N \in SUBSET Others, NEW C \in SUBSET Others, NEW c \in Capacities,
           NEW np, NEW qm, NEW t, NEW V, NEW vs, NEW num,
           Selecting(N, C, c, np, qm, t, V, vs, num), t # <<>>,
           FitsOn(c, np \cup {Head(t)}), FitsPreemptorQuota(AddPod(qm, PodOf[Head(t)]))
    PROVE  Selecting(N, C, c, np \cup {Head(t)}, AddPod(qm, PodOf[Head(t)]), Tail(t), V, vs, num)
  <1> DEFINE P == PotentialOf(N)
             K == SparedOf(P, t, vs)
             h == Head(t)
             K1 == K \cup {h}
             B == C \ P
  <1>1. /\ Lists(P, t, vs) /\ InOrder(P, V, t) /\ Simulates(N, C, np, qm, K)
        /\ num = Cardinality(Range(vs) \cap V)
        /\ NonNegativeMaxima => Needed(c, N, C, V, K, vs)
    BY DEF Selecting
  <1>2. P \in SUBSET Others /\ K \in SUBSET P
    BY DEF PotentialOf, SparedOf
  <1>3. t \in Seq(P) /\ IsInjective(t) /\ Range(t) \cap Range(vs) = {} /\ Range(t) \subseteq P
    BY <1>1 DEF Lists, Range
  <1>4. /\ h \in Range(t) /\ h \notin Range(Tail(t)) /\ Range(t) = {h} \cup Range(Tail(t))
        /\ Tail(t) \in Seq(P) /\ IsInjective(Tail(t))
    BY <1>3, HeadAndTail
  <1>5. Lists(P, Tail(t), vs)
    BY <1>1, <1>3, <1>4 DEF Lists
  <1>6. SparedOf(P, Tail(t), vs) = K1
    BY <1>3, <1>4 DEF SparedOf
  <1>7. InOrder(P, V, Tail(t))
    BY <1>1, <1>3, InOrderTail
  <1>8. h \in Others /\ K1 \in SUBSET Others
    BY <1>2, <1>3, <1>4
  <1> HIDE DEF P, K, h
  <1>9. np = (N \ P) \cup K /\ Counts(qm, B \cup K) /\ B \cup K \in SUBSET Others
    BY <1>1, <1>2 DEF Simulates, P
  <1>10. Counts(AddPod(qm, PodOf[h]), (B \cup K) \cup {h})
    BY <1>8, <1>9, AddPodCounts
  <1>11. (B \cup K) \cup {h} = B \cup K1 /\ np \cup {h} = (N \ P) \cup K1 /\ B \cup K1 \in SUBSET Others
    BY <1>8, <1>9
  <1>12. Counts(AddPod(qm, PodOf[h]), B \cup K1)
    BY <1>10, <1>11
  <1>13. Simulates(N, C, np \cup {h}, AddPod(qm, PodOf[h]), K1)
    BY <1>11, <1>12 DEF Simulates, P
  <1>14. Keeping(c, N, C, K1)
    <2>1. FitsPreemptorQuota(ManagerWith(B \cup K1))
      BY <1>11, <1>12, QuotaFitsFewer DEF h
    <2>2. FitsOn(c, (N \ P) \cup K1)
      BY <1>11 DEF h
    <2> QED
      BY <2>1, <2>2 DEF Keeping, P
  <1>15. ASSUME NonNegativeMaxima
         PROVE  Needed(c, N, C, V, K1, vs)
    <2> SUFFICES ASSUME NEW v \in Range(vs),
                        Keeping(c, N, C, {u \in K1 : ~Before(V, v, u)} \cup {v})
                 PROVE  FALSE
      BY DEF Needed
    <2> DEFINE J == {u \in K : ~Before(V, v, u)} \cup {v}
               J1 == {u \in K1 : ~Before(V, v, u)} \cup {v}
    <2>1. v \in Others
      BY <1>1, <1>2 DEF Lists, Range
    <2>2. J1 \in SUBSET Others /\ J \in SUBSET J1
      BY <1>8, <2>1
    <2>3. Keeping(c, N, C, J)
      BY <2>2, KeepingFewer
    <2> QED
      BY <1>1, <1>15, <2>3 DEF Needed
  <1> QED
    BY <1>1, <1>5, <1>6, <1>7, <1>13, <1>14, <1>15 DEF Selecting, P, h

\* After a condemnation: the pod is a victim, and was needed.
LEMMA SelectionCondemns ==
    ASSUME NEW N \in SUBSET Others, NEW C \in SUBSET Others, NEW c \in Capacities,
           NEW np, NEW qm, NEW t, NEW V, NEW vs, NEW num,
           Selecting(N, C, c, np, qm, t, V, vs, num), t # <<>>,
           ~(FitsOn(c, np \cup {Head(t)}) /\ FitsPreemptorQuota(AddPod(qm, PodOf[Head(t)])))
    PROVE  Selecting(N, C, c, np, DeletePod(AddPod(qm, PodOf[Head(t)]), PodOf[Head(t)]),
                     Tail(t), V, Append(vs, Head(t)), num + (IF Head(t) \in V THEN 1 ELSE 0))
  <1> DEFINE P == PotentialOf(N)
             K == SparedOf(P, t, vs)
             h == Head(t)
             ws == Append(vs, h)
             B == C \ P
             added == AddPod(qm, PodOf[h])
  <1>1. /\ Lists(P, t, vs) /\ InOrder(P, V, t) /\ Simulates(N, C, np, qm, K)
        /\ Keeping(c, N, C, K)
        /\ num = Cardinality(Range(vs) \cap V)
        /\ NonNegativeMaxima => Needed(c, N, C, V, K, vs)
    BY DEF Selecting
  <1>2. P \in SUBSET Others /\ K \in SUBSET P
    BY DEF PotentialOf, SparedOf
  <1>3. /\ t \in Seq(P) /\ IsInjective(t) /\ Range(t) \cap Range(vs) = {} /\ Range(t) \subseteq P
        /\ vs \in Seq(P) /\ IsInjective(vs) /\ Range(vs) \subseteq P
    BY <1>1 DEF Lists, Range
  <1>4. /\ h \in Range(t) /\ h \notin Range(Tail(t)) /\ Range(t) = {h} \cup Range(Tail(t))
        /\ Tail(t) \in Seq(P) /\ IsInjective(Tail(t))
    BY <1>3, HeadAndTail
  <1>5. h \in P /\ h \notin Range(vs) /\ h \notin K /\ h \in Others
    BY <1>2, <1>3, <1>4 DEF SparedOf
  <1>6. ws \in Seq(P) /\ IsInjective(ws) /\ Range(ws) = Range(vs) \cup {h}
    BY <1>3, <1>5, AppendNew
  <1>7. InOrder(P, V, Tail(t)) /\ \A a \in P \ Range(t) : ~Before(V, h, a)
    BY <1>1, <1>3, InOrderTail
  <1> HIDE DEF ws
  <1>8. Lists(P, Tail(t), ws)
    BY <1>3, <1>4, <1>6 DEF Lists
  <1>9. SparedOf(P, Tail(t), ws) = K
    BY <1>4, <1>6 DEF SparedOf
  <1>10. \A u \in K : ~Before(V, h, u)
    BY <1>7 DEF SparedOf
  <1> HIDE DEF P, K, h
  <1>11. np = (N \ P) \cup K /\ Counts(qm, B \cup K) /\ B \cup K \in SUBSET Others
    BY <1>1, <1>2 DEF Simulates, P
  <1>12. Counts(added, (B \cup K) \cup {h}) /\ (B \cup K) \cup {h} \in SUBSET Others
    BY <1>5, <1>11, AddPodCounts
  <1>13. Counts(DeletePod(added, PodOf[h]), B \cup K)
    <2>1. ((B \cup K) \cup {h}) \ {h} = B \cup K
      BY <1>5
    <2>2. Counts(DeletePod(added, PodOf[h]), ((B \cup K) \cup {h}) \ {h})
      BY <1>5, <1>12, DeletePodCounts
    <2> QED
      BY <2>1, <2>2
  <1>14. Simulates(N, C, np, DeletePod(added, PodOf[h]), K)
    BY <1>11, <1>13 DEF Simulates, P
  <1>15. num + (IF h \in V THEN 1 ELSE 0) = Cardinality(Range(ws) \cap V)
    <2> DEFINE X == Range(vs) \cap V
    <2>1. IsFiniteSet(X) /\ Cardinality(X) \in Nat
      <3>1. IsFiniteSet(Range(vs))
        BY <1>2, <1>3, VictimPodsAssumption, FS_Subset
      <3> QED
        BY <3>1, FS_Subset, FS_CardinalityType
    <2>2. h \notin X /\ num = Cardinality(X)
      BY <1>1, <1>5
    <2>3. Range(ws) \cap V = IF h \in V THEN X \cup {h} ELSE X
      BY <1>6
    <2> HIDE DEF X
    <2>4. Cardinality(X \cup {h}) = Cardinality(X) + 1
      BY <2>1, <2>2, FS_AddElement
    <2>5. CASE h \in V
      <3>1. Cardinality(Range(ws) \cap V) = Cardinality(X) + 1
        BY <2>3, <2>4, <2>5
      <3> QED
        BY <2>1, <2>2, <2>5, <3>1
    <2>6. CASE h \notin V
      <3>1. Cardinality(Range(ws) \cap V) = Cardinality(X)
        BY <2>3, <2>6
      <3> QED
        BY <2>1, <2>2, <2>6, <3>1
    <2> QED
      BY <2>5, <2>6
  <1>16. ASSUME NonNegativeMaxima
         PROVE  Needed(c, N, C, V, K, ws)
    <2>1. K \cup {h} \in SUBSET Others
      BY <1>2, <1>5
    <2>2. ~Keeping(c, N, C, K \cup {h})
      <3>1. (B \cup K) \cup {h} = B \cup (K \cup {h}) /\ np \cup {h} = (N \ P) \cup (K \cup {h})
        BY <1>11
      <3>2. CASE ~FitsOn(c, np \cup {h})
        BY <3>1, <3>2 DEF Keeping, P
      <3>3. CASE ~FitsPreemptorQuota(added)
        <4>1. ~FitsPreemptorQuota(ManagerWith((B \cup K) \cup {h}))
          BY <1>12, <1>16, <3>3, QuotaFitsNoMore
        <4> QED
          BY <3>1, <4>1 DEF Keeping, P
      <3> QED
        BY <3>2, <3>3 DEF h
    <2>3. {u \in K : ~Before(V, h, u)} \cup {h} = K \cup {h}
      BY <1>10
    <2>4. \A v \in Range(vs) : ~Keeping(c, N, C, {u \in K : ~Before(V, v, u)} \cup {v})
      BY <1>1, <1>16 DEF Needed
    <2> QED
      BY <1>6, <2>2, <2>3, <2>4 DEF Needed
  <1> QED
    BY <1>1, <1>7, <1>8, <1>9, <1>14, <1>15, <1>16 DEF Selecting, P, h, ws

-----------------------------------------------------------------------------
(* The theorems.                                                           *)

\* The operators of the specification, over explicit arguments.
LEMMA InTheState ==
    /\ DOMAIN snapshot = DOMAIN MaxOf => findPotentialVictims = PotentialOf(onNode)
    /\ \A S : FitsNode(S) <=> FitsOn(capacity, S)
    /\ \A a, b : SparedBefore(a, b) <=> Before(violating, a, b)
  <1>1. DOMAIN snapshot = DOMAIN MaxOf => findPotentialVictims = PotentialOf(onNode)
    BY DEF findPotentialVictims, PotentialOf, HasQueue
  <1>2. \A S : FitsNode(S) <=> FitsOn(capacity, S)
    BY DEF FitsNode, FitsOn
  <1>3. \A a, b : SparedBefore(a, b) <=> Before(violating, a, b)
    BY DEF SparedBefore, Before
  <1> QED
    BY <1>1, <1>2, <1>3

\* The invariant holds of every state the call goes through.
LEMMA SelectionInvariant == Spec => []SelectionInv
  <1>1. Init => SelectionInv
    <2> SUFFICES ASSUME Init PROVE SelectionInv
      OBVIOUS
    <2>1. onNode \in SUBSET Others /\ counted \in SUBSET Others /\ capacity \in Capacities
          /\ nodePods = onNode /\ victims = <<>> /\ numPDBViolationVictims = 0 /\ status = "begin"
          /\ snapshot = ManagerWith(counted)
      BY DEF Init
    <2>2. Counts(snapshot, counted)
      BY <2>1, ManagerWithCounts
    <2>3. DOMAIN snapshot = DOMAIN MaxOf
      BY <2>2 DEF Counts
    <2> QED
      BY <2>1, <2>2, <2>3 DEF SelectionInv
  <1>2. SelectionInv /\ [Next]_vars => SelectionInv'
    <2> SUFFICES ASSUME SelectionInv, [Next]_vars PROVE SelectionInv'
      OBVIOUS
    <2>1. /\ onNode \in SUBSET Others /\ counted \in SUBSET Others /\ capacity \in Capacities
          /\ DOMAIN snapshot = DOMAIN MaxOf
      BY DEF SelectionInv
    <2>2. /\ findPotentialVictims = PotentialOf(onNode)
          /\ \A S : FitsNode(S) <=> FitsOn(capacity, S)
      BY <2>1, InTheState
    <2>3. CASE NoPotentialVictims
      BY <2>1, <2>3 DEF NoPotentialVictims, Return, inputs, SelectionInv
    <2>4. CASE DoesNotHelp
      BY <2>1, <2>4 DEF DoesNotHelp, Return, inputs, SelectionInv
    <2>5. CASE RemovePotentialVictims
      <3> DEFINE P == PotentialOf(onNode)
      <3>1. /\ FitsOn(capacity, onNode \ P) /\ FitsPreemptorQuota(RemovePods(snapshot, P))
            /\ nodePods' = onNode \ P /\ snapshot' = RemovePods(snapshot, P)
            /\ \E s \in ByImportance(P) : todo' \in ReprieveOrder(s, violating')
            /\ status = "begin" /\ status' = "reprieve"
            /\ onNode' = onNode /\ counted' = counted /\ capacity' = capacity
            /\ victims' = victims /\ numPDBViolationVictims' = numPDBViolationVictims
        BY <2>2, <2>5 DEF RemovePotentialVictims, inputs
      <3>2. Counts(snapshot, counted) /\ victims' = <<>> /\ numPDBViolationVictims' = 0
        BY <3>1 DEF SelectionInv
      <3>3. PICK s \in ByImportance(P) : todo' \in ReprieveOrder(s, violating')
        BY <3>1
      <3>4. Selecting(onNode, counted, capacity, onNode \ P, RemovePods(snapshot, P), todo',
                      violating', <<>>, 0)
        BY <2>1, <3>1, <3>2, <3>3, SelectionStarts
      <3>5. Selecting(onNode', counted', capacity', nodePods', snapshot', todo', violating',
                      victims', numPDBViolationVictims')
        BY <3>1, <3>2, <3>4
      <3>6. DOMAIN snapshot' = DOMAIN MaxOf
        BY <3>5 DEF Selecting, Simulates, Counts
      <3> QED
        BY <2>1, <3>1, <3>5, <3>6 DEF SelectionInv
    <2>6. CASE Reprieve
      <3> DEFINE h == Head(todo)
      <3>1. /\ status = "reprieve" /\ status' = status /\ todo # <<>>
            /\ FitsOn(capacity, nodePods \cup {h}) /\ FitsPreemptorQuota(AddPod(snapshot, PodOf[h]))
            /\ nodePods' = nodePods \cup {h} /\ snapshot' = AddPod(snapshot, PodOf[h])
            /\ todo' = Tail(todo)
            /\ onNode' = onNode /\ counted' = counted /\ capacity' = capacity
            /\ violating' = violating
            /\ victims' = victims /\ numPDBViolationVictims' = numPDBViolationVictims
        BY <2>2, <2>6 DEF Reprieve, StillFits, AddedBack, inputs
      <3>2. Selecting(onNode, counted, capacity, nodePods, snapshot, todo, violating, victims,
                      numPDBViolationVictims)
        BY <3>1 DEF SelectionInv
      <3>3. Selecting(onNode, counted, capacity, nodePods \cup {h}, AddPod(snapshot, PodOf[h]),
                      Tail(todo), violating, victims, numPDBViolationVictims)
        BY <2>1, <3>1, <3>2, SelectionReprieves
      <3>4. Selecting(onNode', counted', capacity', nodePods', snapshot', todo', violating',
                      victims', numPDBViolationVictims')
        BY <3>1, <3>3
      <3>5. DOMAIN snapshot' = DOMAIN MaxOf
        BY <3>4 DEF Selecting, Simulates, Counts
      <3> QED
        BY <2>1, <3>1, <3>4, <3>5 DEF SelectionInv
    <2>7. CASE Condemn
      <3> DEFINE h == Head(todo)
                 qm == DeletePod(AddPod(snapshot, PodOf[h]), PodOf[h])
                 num == numPDBViolationVictims + (IF h \in violating THEN 1 ELSE 0)
      <3>1. /\ status = "reprieve" /\ status' = status /\ todo # <<>>
            /\ ~(FitsOn(capacity, nodePods \cup {h}) /\ FitsPreemptorQuota(AddPod(snapshot, PodOf[h])))
            /\ nodePods' = nodePods /\ snapshot' = qm
            /\ todo' = Tail(todo)
            /\ onNode' = onNode /\ counted' = counted /\ capacity' = capacity
            /\ violating' = violating
            /\ victims' = Append(victims, h) /\ numPDBViolationVictims' = num
        BY <2>2, <2>7 DEF Condemn, StillFits, AddedBack, inputs
      <3>2. Selecting(onNode, counted, capacity, nodePods, snapshot, todo, violating, victims,
                      numPDBViolationVictims)
        BY <3>1 DEF SelectionInv
      <3>3. Selecting(onNode, counted, capacity, nodePods, qm, Tail(todo), violating,
                      Append(victims, h), num)
        BY <2>1, <3>1, <3>2, SelectionCondemns
      <3> HIDE DEF qm, num
      <3>4. Selecting(onNode', counted', capacity', nodePods', snapshot', todo', violating',
                      victims', numPDBViolationVictims')
        BY <3>1, <3>3
      <3>5. DOMAIN snapshot' = DOMAIN MaxOf
        BY <3>4 DEF Selecting, Simulates, Counts
      <3> QED
        BY <2>1, <3>1, <3>4, <3>5 DEF SelectionInv
    <2>8. CASE SortVictims
      <3>1. /\ status = "reprieve" /\ status' = "Success" /\ todo = <<>> /\ todo' = todo
            /\ victims' \in ByImportance(Range(victims))
            /\ nodePods' = nodePods /\ snapshot' = snapshot
            /\ onNode' = onNode /\ counted' = counted /\ capacity' = capacity
            /\ violating' = violating /\ numPDBViolationVictims' = numPDBViolationVictims
        BY <2>8 DEF SortVictims, inputs
      <3>2. Selecting(onNode, counted, capacity, nodePods, snapshot, todo, violating, victims,
                      numPDBViolationVictims)
        BY <3>1 DEF SelectionInv
      <3>3. Range(victims) \subseteq PotentialOf(onNode) /\ PotentialOf(onNode) \in SUBSET Others
        BY <2>1, <3>2 DEF Selecting, Lists, Range, PotentialOf
      <3>4. victims' \in Seq(Range(victims)) /\ IsInjective(victims') /\ Range(victims') = Range(victims)
        BY <3>1, <3>3, SeqsOfSet DEF ByImportance
      <3>5. victims' \in Seq(PotentialOf(onNode))
        BY <3>3, <3>4
      <3>6. Lists(PotentialOf(onNode), todo, victims')
            /\ SparedOf(PotentialOf(onNode), todo, victims') = SparedOf(PotentialOf(onNode), todo, victims)
        BY <3>2, <3>4, <3>5 DEF Selecting, Lists, SparedOf
      <3>7. Selecting(onNode, counted, capacity, nodePods, snapshot, todo, violating, victims',
                      numPDBViolationVictims)
        BY <3>2, <3>4, <3>6 DEF Selecting, Needed
      <3>8. Selecting(onNode', counted', capacity', nodePods', snapshot', todo', violating',
                      victims', numPDBViolationVictims')
        BY <3>1, <3>7
      <3>9. victims' \in ByImportance(Range(victims'))
        BY <3>1, <3>4
      <3> QED
        BY <2>1, <3>1, <3>8, <3>9 DEF SelectionInv
    <2>9. CASE UNCHANGED vars
      BY <2>9 DEF vars, inputs, SelectionInv
    <2> QED
      BY <2>3, <2>4, <2>5, <2>6, <2>7, <2>8, <2>9 DEF Next
  <1> QED
    BY <1>1, <1>2, PTL DEF Spec

\* What the invariant says of the result.
LEMMA AtSuccess ==
    ASSUME SelectionInv, status = "Success"
    PROVE  /\ onNode \in SUBSET Others /\ counted \in SUBSET Others /\ capacity \in Capacities
           /\ Potential = PotentialOf(onNode) /\ Potential \subseteq onNode
           /\ Victims \subseteq Potential
           /\ nodePods = (onNode \ Potential) \cup (Potential \ Victims)
           /\ Counts(snapshot, (counted \ Potential) \cup (Potential \ Victims))
           /\ Keeping(capacity, onNode, counted, Potential \ Victims)
           /\ numPDBViolationVictims = Cardinality(Victims \cap violating)
           /\ NonNegativeMaxima =>
                 Needed(capacity, onNode, counted, violating, Potential \ Victims, victims)
  <1> DEFINE P == PotentialOf(onNode)
             K == SparedOf(P, todo, victims)
  <1>1. /\ onNode \in SUBSET Others /\ counted \in SUBSET Others /\ capacity \in Capacities
        /\ Selecting(onNode, counted, capacity, nodePods, snapshot, todo, violating, victims,
                     numPDBViolationVictims)
        /\ todo = <<>>
    BY DEF SelectionInv
  <1>2. Potential = P /\ P \subseteq onNode
    BY InTheState DEF SelectionInv, Potential, PotentialOf
  <1>3. Range(todo) = {}
    BY <1>1 DEF Range
  <1>4. /\ Lists(P, todo, victims) /\ Simulates(onNode, counted, nodePods, snapshot, K)
        /\ Keeping(capacity, onNode, counted, K)
        /\ numPDBViolationVictims = Cardinality(Range(victims) \cap violating)
        /\ NonNegativeMaxima => Needed(capacity, onNode, counted, violating, K, victims)
    BY <1>1 DEF Selecting
  <1>5. K = P \ Range(victims) /\ Range(victims) \subseteq P
    BY <1>3, <1>4 DEF SparedOf, Lists, Range
  <1> HIDE DEF K, P
  <1>6. nodePods = (onNode \ P) \cup K /\ Counts(snapshot, (counted \ P) \cup K)
    BY <1>4 DEF Simulates, P
  <1> QED
    BY <1>1, <1>2, <1>4, <1>5, <1>6 DEF Victims, P

\* Evicting the victims makes room: SelectVictimsOnNode never nominates a
\* node on which the preemptor would still not fit, or for which its queue
\* would still be over its maximum, once the victims are gone.
THEOREM VictimsAlwaysMakeRoom == Spec => []VictimsMakeRoom
  <1>1. SelectionInv => VictimsMakeRoom
    <2> SUFFICES ASSUME SelectionInv, status = "Success"
                 PROVE  /\ FitsNode(onNode \ Victims)
                        /\ FitsPreemptorQuota(ManagerWith(counted \ Victims))
      BY DEF VictimsMakeRoom
    <2> DEFINE K == Potential \ Victims
               S == (counted \ Potential) \cup K
    <2>1. /\ onNode \in SUBSET Others /\ counted \in SUBSET Others
          /\ Potential = PotentialOf(onNode) /\ Potential \subseteq onNode
          /\ Victims \subseteq Potential /\ Keeping(capacity, onNode, counted, K)
      BY AtSuccess
    <2>2. FitsOn(capacity, (onNode \ Potential) \cup K) /\ FitsPreemptorQuota(ManagerWith(S))
      BY <2>1 DEF Keeping
    <2>3. (onNode \ Potential) \cup K = onNode \ Victims
      BY <2>1
    <2>4. FitsNode(onNode \ Victims)
      BY <2>2, <2>3, InTheState
    <2>5. S \in SUBSET Others /\ counted \ Victims \in SUBSET S
      BY <2>1
    <2> HIDE DEF S
    <2>6. Counts(ManagerWith(S), S)
      BY <2>5, ManagerWithCounts
    <2>7. FitsPreemptorQuota(ManagerWith(counted \ Victims))
      BY <2>2, <2>5, <2>6, QuotaFitsFewer
    <2> QED
      BY <2>4, <2>7
  <1> QED
    BY <1>1, SelectionInvariant, PTL

\* No pod is evicted for the sake of a less deserving one.  Without negative
\* maxima: under one, a ledger that is left with a resource at 0 is over it
\* and a new ledger is not.
THEOREM NoVictimNeedless ==
    ASSUME NonNegativeMaxima
    PROVE  Spec => []NoNeedlessVictim
  <1>1. SelectionInv => NoNeedlessVictim
    <2> SUFFICES ASSUME SelectionInv, status = "Success", NEW v \in Victims
                 PROVE  ~FitsKeeping({u \in Potential \ Victims : ~SparedBefore(v, u)} \cup {v})
      BY DEF NoNeedlessVictim
    <2> DEFINE K == Potential \ Victims
               J == {u \in K : ~SparedBefore(v, u)} \cup {v}
    <2>1. Potential = PotentialOf(onNode)
          /\ Needed(capacity, onNode, counted, violating, K, victims)
      BY AtSuccess
    <2>2. J = {u \in K : ~Before(violating, v, u)} \cup {v}
      BY InTheState
    <2>3. ~Keeping(capacity, onNode, counted, {u \in K : ~Before(violating, v, u)} \cup {v})
      BY <2>1 DEF Needed, Victims
    <2>4. FitsKeeping(J) => Keeping(capacity, onNode, counted, J)
      BY <2>1, InTheState DEF FitsKeeping, Keeping
    <2> QED
      BY <2>2, <2>3, <2>4
  <1> QED
    BY <1>1, SelectionInvariant, PTL

\* The budget violations reported are those of the victims returned, each
\* victim is returned once, and they are sorted.
THEOREM VictimsAlwaysReported == Spec => []VictimsReported
  <1>1. SelectionInv => VictimsReported
    <2> SUFFICES ASSUME SelectionInv, status = "Success"
                 PROVE  /\ numPDBViolationVictims = Cardinality(Victims \cap violating)
                        /\ Len(victims) = Cardinality(Victims)
                        /\ \A i, j \in DOMAIN victims :
                              i < j => ~MoreImportantPod(victims[j], victims[i])
      BY DEF VictimsReported
    <2>1. numPDBViolationVictims = Cardinality(Victims \cap violating) /\ Victims \in SUBSET Others
      BY AtSuccess
    <2>2. /\ victims \in SetToSeqs(Victims)
          /\ \A i, j \in DOMAIN victims : i < j => ~MoreImportantPod(victims[j], victims[i])
      BY DEF SelectionInv, ByImportance, Victims
    <2>3. Len(victims) = Cardinality(Victims)
      BY <2>1, <2>2, SeqsOfSet
    <2> QED
      BY <2>1, <2>2, <2>3
  <1> QED
    BY <1>1, SelectionInvariant, PTL

\* The places of a list up to i that hold pods of B.
UpTo(s, i, B) == {j \in 1..i : s[j] \in B}

\* Each pod of W has at most a pods of B on the list s up to and including it.
\* The count grows from one pod of W to the next, so that there are at most a.
LEMMA CountedOff ==
    ASSUME NEW C, NEW s \in Seq(C), NEW B, NEW a \in Nat, NEW W \in SUBSET (Range(s) \cap B),
           \A i \in DOMAIN s : s[i] \in W => Cardinality(UpTo(s, i, B)) <= a
    PROVE  Cardinality(W) <= a
  <1> DEFINE upTo(i) == UpTo(s, i, B)
             ix(w) == CHOOSE i \in DOMAIN s : s[i] = w
             f == [w \in W |-> Cardinality(upTo(ix(w)))]
  <1>1. \A i \in DOMAIN s : i \in Nat /\ i > 0
    OBVIOUS
  <1>2. \A w \in W : ix(w) \in DOMAIN s /\ s[ix(w)] = w
    BY DEF Range
  <1>3. \A i \in DOMAIN s : IsFiniteSet(upTo(i)) /\ Cardinality(upTo(i)) \in Nat
    <2> SUFFICES ASSUME NEW i \in DOMAIN s
                 PROVE  IsFiniteSet(upTo(i)) /\ Cardinality(upTo(i)) \in Nat
      OBVIOUS
    <2>1. IsFiniteSet(1..i)
      BY <1>1, FS_Interval
    <2>2. upTo(i) \subseteq 1..i
      BY DEF UpTo
    <2> QED
      BY <2>1, <2>2, FS_Subset, FS_CardinalityType
  <1>4. ASSUME NEW i \in DOMAIN s, NEW k \in DOMAIN s, s[k] \in W, i < k
        PROVE  Cardinality(upTo(i)) # Cardinality(upTo(k))
    <2>1. upTo(i) \subseteq upTo(k)
      BY <1>1, <1>4 DEF UpTo
    <2>2. k \in upTo(k) /\ k \notin upTo(i)
      BY <1>1, <1>4 DEF UpTo
    <2> HIDE DEF upTo
    <2> QED
      BY <1>3, <2>1, <2>2, FS_Subset
  <1>5. ASSUME NEW w \in W PROVE Cardinality(upTo(ix(w))) \in 1..a
    <2>1. Cardinality(upTo(ix(w))) <= a
      BY <1>2
    <2>2. ix(w) \in upTo(ix(w))
      BY <1>1, <1>2 DEF UpTo
    <2> HIDE DEF upTo, ix
    <2>3. Cardinality(upTo(ix(w))) # 0
      BY <1>2, <1>3, <2>2, FS_EmptySet
    <2> QED
      BY <1>2, <1>3, <2>1, <2>3
  <1>6. ASSUME NEW v \in W, NEW w \in W, Cardinality(upTo(ix(v))) = Cardinality(upTo(ix(w)))
        PROVE  v = w
    <2> HIDE DEF upTo, ix
    <2>1. ~(ix(v) < ix(w)) /\ ~(ix(w) < ix(v))
      BY <1>2, <1>4, <1>6
    <2>2. ix(v) = ix(w)
      BY <1>1, <1>2, <2>1
    <2> QED
      BY <1>2, <2>2
  <1>7. f \in Injection(W, 1..a)
    <2> HIDE DEF upTo, ix
    <2> QED
      BY <1>5, <1>6 DEF Injection, IsInjective
  <1>8. IsFiniteSet(1..a) /\ Cardinality(1..a) = a
    BY FS_Interval
  <1> HIDE DEF f
  <1> QED
    BY <1>7, <1>8, FS_Injection

\* The potential victims that violate no budget stay within every budget.
BudgetInv ==
    /\ allowed \in [PDBs -> 0..MaxAllowed]
    /\ status \in {"reprieve", "Success"} =>
          \A b \in PDBs :
             Cardinality((PotentialOf(onNode) \ violating) \cap Protects[b]) <= allowed[b]

LEMMA BudgetInvariant == Spec => []BudgetInv
  <1>1. Init => BudgetInv
    BY DEF Init, BudgetInv
  <1>2. SelectionInv /\ BudgetInv /\ [Next]_vars => BudgetInv'
    <2> SUFFICES ASSUME SelectionInv, BudgetInv, [Next]_vars PROVE BudgetInv'
      OBVIOUS
    <2>1. CASE RemovePotentialVictims
      <3> DEFINE P == PotentialOf(onNode)
      <3>1. P \in SUBSET Others /\ findPotentialVictims = P
        BY InTheState DEF SelectionInv, PotentialOf
      <3>2. PICK s \in ByImportance(P) : violating' = ViolatingPods(s)
        BY <2>1, <3>1 DEF RemovePotentialVictims
      <3>3. onNode' = onNode /\ allowed' = allowed /\ status' = "reprieve"
        BY <2>1 DEF RemovePotentialVictims, inputs
      <3>4. s \in Seq(P) /\ Range(s) = P
        BY <3>1, SeqsOfSet DEF ByImportance
      <3>5. ASSUME NEW b \in PDBs
            PROVE  Cardinality((P \ violating') \cap Protects[b]) <= allowed[b]
        <4> DEFINE W == (P \ violating') \cap Protects[b]
        <4>1. allowed[b] \in Nat
          BY VictimSelectionAssumption DEF BudgetInv
        <4>2. ASSUME NEW i \in DOMAIN s, s[i] \in W
              PROVE  Cardinality(UpTo(s, i, Protects[b])) <= allowed[b]
          <5>1. s[i] \notin ViolatingPods(s) /\ s[i] \in Protects[b]
            BY <3>2, <4>2
          <5>2. ~(Cardinality(UpTo(s, i, Protects[b])) > allowed[b])
            BY <5>1 DEF ViolatingPods, UpTo
          <5>3. Cardinality(UpTo(s, i, Protects[b])) \in Nat
            <6>1. IsFiniteSet(1..i)
              BY <3>4, FS_Interval
            <6>2. UpTo(s, i, Protects[b]) \subseteq 1..i
              BY DEF UpTo
            <6> QED
              BY <6>1, <6>2, FS_Subset, FS_CardinalityType
          <5> QED
            BY <4>1, <5>2, <5>3
        <4>3. W \in SUBSET (Range(s) \cap Protects[b])
          BY <3>4
        <4>4. \A i \in DOMAIN s :
                 s[i] \in W => Cardinality(UpTo(s, i, Protects[b])) <= allowed[b]
          BY <4>2
        <4> HIDE DEF W, P
        <4>5. Cardinality(W) <= allowed[b]
          BY <3>4, <4>1, <4>3, <4>4, CountedOff
        <4> QED
          BY <4>5 DEF W
      <3>6. PotentialOf(onNode)' = P
        BY <3>3 DEF PotentialOf
      <3> HIDE DEF P
      <3> QED
        BY <3>3, <3>5, <3>6 DEF BudgetInv
    <2>2. CASE NoPotentialVictims \/ DoesNotHelp
      BY <2>2 DEF NoPotentialVictims, DoesNotHelp, Return, inputs, BudgetInv
    <2>3. CASE Reprieve \/ Condemn \/ SortVictims \/ UNCHANGED vars
      <3>1. /\ onNode' = onNode /\ allowed' = allowed /\ violating' = violating
            /\ status' \in {"reprieve", "Success"} => status \in {"reprieve", "Success"}
        BY <2>3 DEF Reprieve, Condemn, SortVictims, vars, inputs
      <3>2. PotentialOf(onNode)' = PotentialOf(onNode)
        BY <3>1 DEF PotentialOf
      <3> QED
        BY <3>1, <3>2 DEF BudgetInv
    <2> QED
      BY <2>1, <2>2, <2>3 DEF Next
  <1> QED
    BY <1>1, <1>2, SelectionInvariant, PTL DEF Spec

\* A disruption budget is exceeded by no more victims than are reported as
\* violating one: CheckPodRemovalViolations takes every potential victim off
\* the budgets that cover it, and pods that are spared later only help.
THEOREM BudgetsAlwaysAccounted == Spec => []BudgetsAccounted
  <1>1. SelectionInv /\ BudgetInv => BudgetsAccounted
    <2> SUFFICES ASSUME SelectionInv, BudgetInv, status = "Success", NEW b \in PDBs
                 PROVE  Cardinality(Victims \cap Protects[b]) <= allowed[b] + numPDBViolationVictims
      BY DEF BudgetsAccounted
    <2> DEFINE P == PotentialOf(onNode)
               G == (P \ violating) \cap Protects[b]
               H == Victims \cap violating
               X == Victims \cap Protects[b]
    <2>1. Victims \subseteq P /\ P \in SUBSET Others /\ numPDBViolationVictims = Cardinality(H)
      BY AtSuccess DEF PotentialOf
    <2>2. IsFiniteSet(G) /\ IsFiniteSet(H)
      BY <2>1, VictimPodsAssumption, FS_Subset
    <2>3. X \subseteq G \cup H /\ G \cap H = {}
      BY <2>1
    <2>4. Cardinality(G) <= allowed[b] /\ allowed[b] \in Nat
      BY VictimSelectionAssumption DEF BudgetInv
    <2> HIDE DEF P, G, H, X
    <2>5. IsFiniteSet(G \cup H)
          /\ Cardinality(G \cup H) = Cardinality(G) + Cardinality(H) - Cardinality({})
      BY <2>2, <2>3, FS_Union
    <2>6. Cardinality(X) <= Cardinality(G \cup H) /\ Cardinality(X) \in Nat
      BY <2>3, <2>5, FS_Subset, FS_CardinalityType
    <2>7. Cardinality(G) \in Nat /\ Cardinality(H) \in Nat /\ Cardinality({}) = 0
      BY <2>2, FS_CardinalityType, FS_EmptySet
    <2>8. Cardinality(X) <= allowed[b] + Cardinality(H)
      BY <2>4, <2>5, <2>6, <2>7
    <2> QED
      BY <2>1, <2>8 DEF X
  <1> QED
    BY <1>1, SelectionInvariant, BudgetInvariant, PTL

\* Ledgers with the same pods have the same totals.
LEMMA SamePodsSameTotals ==
    ASSUME NEW q, NEW S, NEW l, LedgerOf(q, l, S), NEW l1, LedgerOf(q, l1, S)
    PROVE  DOMAIN l.podsByID = DOMAIN l1.podsByID /\ Equivalent(l.used, l1.used)
  <1>1. /\ DOMAIN l.podsByID = DOMAIN l1.podsByID
        /\ \A u \in DOMAIN l.podsByID : l.podsByID[u] = l1.podsByID[u]
        /\ Consistent(l) /\ Consistent(l1)
    BY DEF LedgerOf
  <1>2. ASSUME NEW n
        PROVE  Qty(l.used, n) = Qty(l1.used, n)
    <2> DEFINE m == l.podsByID
               m1 == l1.podsByID
    <2>1. Units(m, n) = Units(m1, n)
      <3>1. DOMAIN m = DOMAIN m1 /\ \A u \in DOMAIN m : m[u] = m1[u]
        BY <1>1
      <3> HIDE DEF m, m1
      <3> QED
        BY <3>1, UnitsAreRows
    <2>2. Requested(l.podsByID, n) = Requested(l1.podsByID, n)
      BY <2>1 DEF Requested
    <2> QED
      BY <1>1, <2>2, ConsistentQty
  <1> QED
    BY <1>1, <1>2 DEF Equivalent

\* The simulation ends where evicting the victims would.
THEOREM SimulationAlwaysFaithful == Spec => []SimulationFaithful
  <1>1. SelectionInv => SimulationFaithful
    <2> SUFFICES ASSUME SelectionInv, status = "Success"
                 PROVE  /\ nodePods = onNode \ Victims
                        /\ \A q \in DOMAIN snapshot :
                             LET expected == ManagerWith((counted \cup Potential) \ Victims)[q]
                             IN  /\ DOMAIN snapshot[q].podsByID = DOMAIN expected.podsByID
                                 /\ Equivalent(snapshot[q].used, expected.used)
      BY DEF SimulationFaithful
    <2> DEFINE S == (counted \cup Potential) \ Victims
    <2>1. /\ onNode \in SUBSET Others /\ counted \in SUBSET Others
          /\ Potential \subseteq onNode /\ Victims \subseteq Potential
          /\ nodePods = (onNode \ Potential) \cup (Potential \ Victims)
          /\ Counts(snapshot, (counted \ Potential) \cup (Potential \ Victims))
      BY AtSuccess
    <2>2. nodePods = onNode \ Victims
      BY <2>1
    <2>3. (counted \ Potential) \cup (Potential \ Victims) = S /\ S \in SUBSET Others
      BY <2>1
    <2> HIDE DEF S
    <2>4. Counts(snapshot, S) /\ Counts(ManagerWith(S), S)
      BY <2>1, <2>3, ManagerWithCounts
    <2>5. ASSUME NEW q \in DOMAIN snapshot
          PROVE  /\ DOMAIN snapshot[q].podsByID = DOMAIN ManagerWith(S)[q].podsByID
                 /\ Equivalent(snapshot[q].used, ManagerWith(S)[q].used)
      <3>1. LedgerOf(q, snapshot[q], S) /\ LedgerOf(q, ManagerWith(S)[q], S)
        BY <2>4, <2>5 DEF Counts
      <3> QED
        BY <3>1, SamePodsSameTotals
    <2> QED
      BY <2>2, <2>5 DEF S
  <1> QED
    BY <1>1, SelectionInvariant, PTL
=============================================================================
