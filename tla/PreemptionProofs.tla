-------------------------- MODULE PreemptionProofs --------------------------
(***************************************************************************)
(* Preemption, for any pods, nodes, priorities, preemption rules and       *)
(* maxima, evicting synchronously or not.                                  *)
(*                                                                         *)
(* It does not bring a queue over its maximum, with victims counted until  *)
(* they are gone.  RunningWithinMax is about the pods at the API server,   *)
(* the quota check about the manager's ledger.  What ties them together is *)
(* that a ledger lags behind in one direction only: it may still count a   *)
(* pod that is gone, never miss one that runs.  That in turn needs that a  *)
(* deletion still to be handled is of a pod that is gone for good.         *)
(*                                                                         *)
(* And a preemptor is patient: it evicts nobody while the terminating pods *)
(* on its node leave it room.                                              *)
(***************************************************************************)
EXTENDS PreemptionCycle, QuotaProofs

Lives == {"new", "pending", "bound", "terminating", "gone"}

LedgerCalls == [call : {"update", "delete"}, pod : Pods]

\* The ledger l of queue q.
LedgerOK(q, l) ==
    /\ l = [max |-> MaxOf[q], used |-> l.used, podsByID |-> l.podsByID]
    /\ \A u \in DOMAIN l.podsByID : u \in Pods /\ l.podsByID[u] = PodOf[u].req
    /\ Consistent(l)
    /\ WithinMax(l)

LedgersOK(qm) == DOMAIN qm = DOMAIN MaxOf /\ \A q \in DOMAIN qm : LedgerOK(q, qm[q])

\* A deletion that waits is of a pod that is gone.
DeletedAreGone(calls, alive) ==
    \A i \in DOMAIN calls : calls[i].call = "delete" => alive[calls[i].pod] = "gone"

\* p is on the ledger of its queue, if there is one.
Counted(qm, p) ==
    PodOf[p].queue \in DOMAIN qm => p \in DOMAIN qm[PodOf[p].queue].podsByID

\* The inductive invariant of RunningWithinMax.
CycleInv ==
    /\ life \in [Pods -> Lives]
    /\ ledgerCalls \in Seq(LedgerCalls)
    /\ DeletedAreGone(ledgerCalls, life)
    /\ LedgersOK(queueByName)
    /\ \A p \in Pods : Running(p) => Counted(queueByName, p)

\* A pod's request consists of natural numbers.
LEMMA RequestOf ==
    ASSUME NEW p \in Pods
    PROVE  PodOf[p].uid = p /\ IsReq(PodOf[p].req)
  BY QuantitiesAssumption DEF IsReq

\* The maximum of a ledger.
LEMMA LedgerMax ==
    ASSUME NEW q \in DOMAIN MaxOf, NEW l, LedgerOK(q, l)
    PROVE  l.max = MaxOf[q] /\ \A n \in DOMAIN l.max : l.max[n] \in Int
  <1>1. l.max = MaxOf[q]
    BY DEF LedgerOK
  <1> QED
    BY <1>1, QuantitiesAssumption

-----------------------------------------------------------------------------
(* What the steps do to the ledgers.                                       *)

\* The snapshot of a ledger with the pods of N counted in is no smaller than
\* the ledger.
LEMMA SnapshotNoSmaller ==
    ASSUME NEW q \in DOMAIN MaxOf, NEW l, LedgerOK(q, l), NEW N \in SUBSET Pods
    PROVE  LET s == AddPodsIfNotPresent(l, [o \in N |-> PodOf[o].req])
           IN  Consistent(s) /\ NoLarger(l, s) /\ \A n \in DOMAIN s.max : s.max[n] \in Int
  <1> DEFINE reqs == [o \in N |-> PodOf[o].req]
             s == AddPodsIfNotPresent(l, reqs)
  <1>1. IsFiniteSet(DOMAIN reqs) /\ \A u \in DOMAIN reqs : IsReq(reqs[u])
    <2>1. IsFiniteSet(N)
      BY QuantitiesAssumption, FS_Subset
    <2>2. \A u \in N : IsReq(PodOf[u].req)
      BY RequestOf
    <2> QED
      BY <2>1, <2>2
  <1>2. Consistent(l) /\ l = [max |-> l.max, used |-> l.used, podsByID |-> l.podsByID]
    BY DEF LedgerOK
  <1> HIDE DEF reqs
  <1>3. /\ Consistent(s)
        /\ s.max = l.max
        /\ DOMAIN l.used \subseteq DOMAIN s.used
        /\ DOMAIN s.podsByID = DOMAIN l.podsByID \cup DOMAIN reqs
        /\ \A u \in DOMAIN l.podsByID : s.podsByID[u] = l.podsByID[u]
    BY <1>1, <1>2, AddPodsConsistent
  <1> HIDE DEF s
  <1>4. NoLarger(l, s)
    BY <1>3 DEF NoLarger, SubMap
  <1> QED
    BY <1>3, <1>4, LedgerMax DEF s, reqs

\* A pod that passed the quota check is added: every ledger stays in order,
\* the pod is counted and so are those that were.
LEMMA AddKeepsLedgers ==
    ASSUME NEW qm, LedgersOK(qm), NEW p \in Pods,
           PodOf[p].queue \in DOMAIN qm =>
               ~WouldPutOverMax(qm[PodOf[p].queue], FromPodReq(PodOf[p].req))
    PROVE  /\ LedgersOK(AddPod(qm, PodOf[p]))
           /\ Counted(AddPod(qm, PodOf[p]), p)
           /\ \A o \in Pods : Counted(qm, o) => Counted(AddPod(qm, PodOf[p]), o)
           /\ \A k \in DOMAIN qm : \A u \in DOMAIN AddPod(qm, PodOf[p])[k].podsByID :
                 u \in DOMAIN qm[k].podsByID \/ (u = p /\ k = PodOf[p].queue)
  <1> DEFINE q == PodOf[p].queue
             l == qm[q]
             l1 == AddPodIfNotPresent(l, PodOf[p])
  <1>1. CASE q \notin DOMAIN qm
    BY <1>1 DEF AddPod, HasQueue, Counted
  <1>2. CASE q \in DOMAIN qm
    <2>1. AddPod(qm, PodOf[p]) = [qm EXCEPT ![q] = l1]
      BY <1>2 DEF AddPod, HasQueue
    <2>2. LedgerOK(q, l) /\ q \in DOMAIN MaxOf
      BY <1>2 DEF LedgersOK
    <2>3. l = [max |-> l.max, used |-> l.used, podsByID |-> l.podsByID]
          /\ l.max = MaxOf[q] /\ Consistent(l) /\ WithinMax(l)
          /\ \A u \in DOMAIN l.podsByID : u \in Pods /\ l.podsByID[u] = PodOf[u].req
      BY <2>2 DEF LedgerOK
    <2>4. PodOf[p].uid = p /\ IsReq(PodOf[p].req)
      BY RequestOf
    <2> HIDE DEF l
    <2>5. Consistent(l1)
      BY <2>3, <2>4, AddPodConsistent
    <2>6. WithinMax(l1)
      BY <1>2, <2>3, <2>4, AddPodWithinMax DEF l
    <2>7. /\ l1 = [max |-> MaxOf[q], used |-> l1.used, podsByID |-> l1.podsByID]
          /\ DOMAIN l1.podsByID = DOMAIN l.podsByID \cup {p}
          /\ \A u \in DOMAIN l1.podsByID : u \in Pods /\ l1.podsByID[u] = PodOf[u].req
      <3>1. CASE p \in DOMAIN l.podsByID
        <4>1. l1 = l
          BY <2>4, <3>1 DEF AddPodIfNotPresent, ContainsPod
        <4> HIDE DEF l1
        <4> QED
          BY <2>3, <3>1, <4>1
      <3>2. CASE p \notin DOMAIN l.podsByID
        <4> DEFINE m == MapSet(l.podsByID, p, PodOf[p].req)
        <4>1. l1 = [max |-> l.max, used |-> Add(l.used, FromPodReq(PodOf[p].req)), podsByID |-> m]
          BY <2>3, <2>4, <3>2 DEF AddPodIfNotPresent, ContainsPod
        <4>2. DOMAIN m = DOMAIN l.podsByID \cup {p}
              /\ \A u \in DOMAIN m : u \in Pods /\ m[u] = PodOf[u].req
          BY <2>3 DEF MapSet
        <4> HIDE DEF l1, m
        <4> QED
          BY <2>3, <4>1, <4>2
      <3> QED
        BY <3>1, <3>2
    <2> HIDE DEF l1
    <2>8. LedgerOK(q, l1)
      BY <2>5, <2>6, <2>7 DEF LedgerOK
    <2>9. LedgersOK([qm EXCEPT ![q] = l1])
      BY <1>2, <2>8 DEF LedgersOK
    <2>10. Counted([qm EXCEPT ![q] = l1], p)
      BY <1>2, <2>7 DEF Counted
    <2>11. ASSUME NEW o \in Pods, Counted(qm, o)
           PROVE  Counted([qm EXCEPT ![q] = l1], o)
      BY <1>2, <2>7, <2>11 DEF Counted, l
    <2>12. \A k \in DOMAIN qm : \A u \in DOMAIN [qm EXCEPT ![q] = l1][k].podsByID :
              u \in DOMAIN qm[k].podsByID \/ (u = p /\ k = q)
      BY <1>2, <2>7 DEF l
    <2> QED
      BY <2>1, <2>9, <2>10, <2>11, <2>12
  <1> QED
    BY <1>1, <1>2

\* Deleting a pod keeps every ledger in order and counts every other pod.
LEMMA DeleteKeepsLedgers ==
    ASSUME NEW qm, LedgersOK(qm), NEW p \in Pods
    PROVE  /\ LedgersOK(DeletePod(qm, PodOf[p]))
           /\ \A o \in Pods \ {p} : Counted(qm, o) => Counted(DeletePod(qm, PodOf[p]), o)
           /\ \A k \in DOMAIN qm : \A u \in DOMAIN DeletePod(qm, PodOf[p])[k].podsByID :
                 u \in DOMAIN qm[k].podsByID /\ ~(u = p /\ k = PodOf[p].queue)
  <1> DEFINE q == PodOf[p].queue
             l == qm[q]
             l1 == DeletePodIfPresent(l, PodOf[p])
  <1>1. CASE q \notin DOMAIN qm
    BY <1>1 DEF DeletePod, HasQueue
  <1>2. CASE q \in DOMAIN qm
    <2>1. DeletePod(qm, PodOf[p]) = [qm EXCEPT ![q] = l1]
      BY <1>2 DEF DeletePod, HasQueue
    <2>2. LedgerOK(q, l) /\ q \in DOMAIN MaxOf
      BY <1>2 DEF LedgersOK
    <2>3. l = [max |-> l.max, used |-> l.used, podsByID |-> l.podsByID]
          /\ l.max = MaxOf[q] /\ Consistent(l) /\ WithinMax(l)
          /\ \A u \in DOMAIN l.podsByID : u \in Pods /\ l.podsByID[u] = PodOf[u].req
      BY <2>2 DEF LedgerOK
    <2>4. PodOf[p].uid = p /\ IsReq(PodOf[p].req)
      BY RequestOf
    <2> HIDE DEF l
    <2>5. Consistent(l1)
      BY <2>3, <2>4, DeletePodConsistent
    <2>6. /\ l1 = [max |-> MaxOf[q], used |-> l1.used, podsByID |-> l1.podsByID]
          /\ DOMAIN l1.podsByID = DOMAIN l.podsByID \ {p}
          /\ \A u \in DOMAIN l1.podsByID : l1.podsByID[u] = l.podsByID[u]
          /\ DOMAIN l1.used = DOMAIN l.used
      <3>1. CASE p \notin DOMAIN l.podsByID
        <4>1. l1 = l
          BY <2>4, <3>1 DEF DeletePodIfPresent, ContainsPod
        <4> HIDE DEF l1
        <4> QED
          BY <2>3, <3>1, <4>1
      <3>2. CASE p \in DOMAIN l.podsByID
        <4> DEFINE m == MapDelete(l.podsByID, p)
                   r == FromPodReq(PodOf[p].req)
        <4>1. l1 = [max |-> l.max, used |-> Sub(l.used, r), podsByID |-> m]
          BY <2>3, <2>4, <3>2 DEF DeletePodIfPresent, ContainsPod
        <4>2. DOMAIN m = DOMAIN l.podsByID \ {p} /\ \A u \in DOMAIN m : m[u] = l.podsByID[u]
          BY DEF MapDelete
        <4>3. DOMAIN r \subseteq DOMAIN l.used
          BY <2>3, <3>2 DEF Consistent
        <4> HIDE DEF r
        <4>4. DOMAIN Sub(l.used, r) = DOMAIN l.used
          BY <4>3 DEF Sub, getResNames
        <4> HIDE DEF l1, m
        <4> QED
          BY <2>3, <4>1, <4>2, <4>4
      <3> QED
        BY <3>1, <3>2
    <2> HIDE DEF l1
    <2>7. NoLarger(l1, l)
      <3>1. l1.max = MaxOf[q]
        BY <2>6
      <3> QED
        BY <2>3, <2>6, <3>1 DEF NoLarger, SubMap
    <2>8. \A n \in DOMAIN l.max : l.max[n] \in Int
      BY <2>2, LedgerMax DEF l
    <2>9. WithinMax(l1)
      BY <2>3, <2>5, <2>7, <2>8, WithinMaxSmaller
    <2>10. LedgerOK(q, l1)
      BY <2>3, <2>5, <2>6, <2>9 DEF LedgerOK
    <2>11. LedgersOK([qm EXCEPT ![q] = l1])
      BY <1>2, <2>10 DEF LedgersOK
    <2>12. ASSUME NEW o \in Pods \ {p}, Counted(qm, o)
           PROVE  Counted([qm EXCEPT ![q] = l1], o)
      BY <1>2, <2>6, <2>12 DEF Counted, l
    <2>13. \A k \in DOMAIN qm : \A u \in DOMAIN [qm EXCEPT ![q] = l1][k].podsByID :
              u \in DOMAIN qm[k].podsByID /\ ~(u = p /\ k = q)
      BY <1>2, <2>6 DEF l
    <2> QED
      BY <2>1, <2>11, <2>12, <2>13
  <1> QED
    BY <1>1, <1>2

-----------------------------------------------------------------------------
(* What the steps do to the calls that wait and to the pods.               *)

\* Calls that are joined to those that wait.
LEMMA JoinedCalls ==
    ASSUME NEW s \in Seq(LedgerCalls), NEW t \in Seq(LedgerCalls), NEW alive,
           DeletedAreGone(s, alive), DeletedAreGone(t, alive)
    PROVE  s \o t \in Seq(LedgerCalls) /\ DeletedAreGone(s \o t, alive)
  <1>1. s \o t \in Seq(LedgerCalls)
    OBVIOUS
  <1>2. \A i \in DOMAIN (s \o t) :
           \/ i \in DOMAIN s /\ (s \o t)[i] = s[i]
           \/ i - Len(s) \in DOMAIN t /\ (s \o t)[i] = t[i - Len(s)]
    OBVIOUS
  <1> QED
    BY <1>1, <1>2 DEF DeletedAreGone

\* Notify appends calls for the pods of S; for a deletion these have to be
\* gone.
LEMMA NotifyKeepsCalls ==
    ASSUME NEW call \in {"update", "delete"}, NEW S \in SUBSET Pods, Notify(call, S),
           ledgerCalls \in Seq(LedgerCalls), NEW alive, DeletedAreGone(ledgerCalls, alive),
           call = "delete" => \A p \in S : alive[p] = "gone"
    PROVE  ledgerCalls' \in Seq(LedgerCalls) /\ DeletedAreGone(ledgerCalls', alive)
  <1>1. PICK order \in [1..Cardinality(S) -> S] :
           ledgerCalls' = ledgerCalls \o [i \in DOMAIN order |-> [call |-> call, pod |-> order[i]]]
    BY Zenon DEF Notify
  <1> DEFINE t == [i \in DOMAIN order |-> [call |-> call, pod |-> order[i]]]
             k == Cardinality(S)
  <1>2. k \in Nat
    BY QuantitiesAssumption, FS_Subset, FS_CardinalityType
  <1>3. \A p \in Pods : [call |-> call, pod |-> p] \in LedgerCalls
    BY DEF LedgerCalls
  <1>4. \A i \in 1..k : order[i] \in S /\ order[i] \in Pods
    BY <1>1
  <1>5. t \in Seq(LedgerCalls)
    BY <1>1, <1>2, <1>3, <1>4
  <1>6. DeletedAreGone(t, alive)
    BY <1>1, <1>4 DEF DeletedAreGone
  <1> HIDE DEF t
  <1> QED
    BY <1>1, <1>5, <1>6, JoinedCalls DEF t

\* A step that leaves the ledgers alone, starts no pod and lets no pod return.
LEMMA CallsOnly ==
    ASSUME CycleInv, life' \in [Pods -> Lives], queueByName' = queueByName,
           ledgerCalls' \in Seq(LedgerCalls), DeletedAreGone(ledgerCalls', life'),
           \A p \in Pods : Running(p)' => Running(p)
    PROVE  CycleInv'
  BY DEF CycleInv

\* Deletions that wait are still of pods that are gone, where no pod returns.
LEMMA GoneStays ==
    ASSUME CycleInv, \A p \in Pods : life[p] = "gone" => life'[p] = "gone"
    PROVE  DeletedAreGone(ledgerCalls, life')
  <1>1. \A i \in DOMAIN ledgerCalls : ledgerCalls[i] \in LedgerCalls
    BY DEF CycleInv
  <1>2. \A i \in DOMAIN ledgerCalls : ledgerCalls[i].pod \in Pods
    BY <1>1 DEF LedgerCalls
  <1> QED
    BY <1>2 DEF CycleInv, DeletedAreGone

\* An eviction starts a termination and tells of it; the pod keeps running.
LEMMA EvictKeeps ==
    ASSUME CycleInv, NEW S, Evict(S), queueByName' = queueByName
    PROVE  CycleInv'
  <1> DEFINE hit == {v \in Pods : v \in S /\ life[v] = "bound"}
  <1>1. life' = [u \in Pods |-> IF u \in hit THEN "terminating" ELSE life[u]]
        /\ Notify("update", hit)
    BY DEF Evict
  <1>2. life \in [Pods -> Lives]
    BY DEF CycleInv
  <1>3. life' \in [Pods -> Lives] /\ \A p \in Pods : Running(p)' => Running(p)
    BY <1>1, <1>2 DEF Lives, Running
  <1>4. \A p \in Pods : life[p] = "gone" => life'[p] = "gone"
    BY <1>1
  <1>5. ledgerCalls \in Seq(LedgerCalls) /\ DeletedAreGone(ledgerCalls, life')
    BY <1>4, GoneStays DEF CycleInv
  <1>6. ledgerCalls' \in Seq(LedgerCalls) /\ DeletedAreGone(ledgerCalls', life')
    BY <1>1, <1>5, NotifyKeepsCalls
  <1> QED
    BY <1>3, <1>6, CallsOnly

\* A pod that ran is gone: the deletion that is now to be handled is of it.
LEMMA RemoveBoundKeeps ==
    ASSUME CycleInv, NEW p \in Pods, RemoveBound(p)
    PROVE  CycleInv'
  <1>1. life' = [life EXCEPT ![p] = "gone"] /\ Notify("delete", {p})
        /\ queueByName' = queueByName
    BY DEF RemoveBound
  <1>2. life' \in [Pods -> Lives] /\ \A o \in Pods : Running(o)' => Running(o)
    BY <1>1 DEF Lives, Running, CycleInv
  <1>3. \A o \in Pods : life[o] = "gone" => life'[o] = "gone"
    BY <1>1 DEF CycleInv
  <1>4. life'[p] = "gone"
    BY <1>1 DEF CycleInv
  <1>5. ledgerCalls \in Seq(LedgerCalls) /\ DeletedAreGone(ledgerCalls, life')
    BY <1>3, GoneStays DEF CycleInv
  <1>6. ledgerCalls' \in Seq(LedgerCalls) /\ DeletedAreGone(ledgerCalls', life')
    BY <1>1, <1>4, <1>5, NotifyKeepsCalls
  <1> QED
    BY <1>1, <1>2, <1>6, CallsOnly

\* Pods are created, and removed before they are bound, unknown to the ledgers.
LEMMA PendingKeeps ==
    ASSUME CycleInv, NEW p \in Pods, CreatePod(p) \/ RemovePending(p)
    PROVE  CycleInv'
  <1>1. queueByName' = queueByName /\ ledgerCalls' = ledgerCalls
    BY DEF CreatePod, RemovePending, callVars
  <1>2. life' \in [Pods -> Lives] /\ \A o \in Pods : Running(o)' => Running(o)
    BY DEF CreatePod, RemovePending, Lives, Running, CycleInv
  <1>3. \A o \in Pods : life[o] = "gone" => life'[o] = "gone"
    BY DEF CreatePod, RemovePending, CycleInv
  <1>4. DeletedAreGone(ledgerCalls, life')
    BY <1>3, GoneStays
  <1> QED
    BY <1>1, <1>2, <1>4, CallsOnly DEF CycleInv

\* The Synchronizer takes a pod that is gone off its ledger.
LEMMA HandleLedgerCallKeeps ==
    ASSUME CycleInv, HandleLedgerCall
    PROVE  CycleInv'
  <1> DEFINE c == Head(ledgerCalls)
  <1>1. /\ ledgerCalls # <<>>
        /\ queueByName' = IF c.call = "delete" THEN DeletePod(queueByName, PodOf[c.pod])
                          ELSE queueByName
        /\ ledgerCalls' = Tail(ledgerCalls)
        /\ life' = life
    BY DEF HandleLedgerCall, podVars
  <1>2. ledgerCalls \in Seq(LedgerCalls) /\ DeletedAreGone(ledgerCalls, life) /\ LedgersOK(queueByName)
        /\ life \in [Pods -> Lives]
    BY DEF CycleInv
  <1>3. /\ ledgerCalls' \in Seq(LedgerCalls)
        /\ \A i \in DOMAIN ledgerCalls' : i + 1 \in DOMAIN ledgerCalls /\ ledgerCalls'[i] = ledgerCalls[i + 1]
        /\ 1 \in DOMAIN ledgerCalls /\ c = ledgerCalls[1] /\ c \in LedgerCalls
    BY <1>1, <1>2
  <1>4. DeletedAreGone(ledgerCalls', life')
    <2> SUFFICES ASSUME NEW i \in DOMAIN ledgerCalls', ledgerCalls'[i].call = "delete"
                 PROVE  life'[ledgerCalls'[i].pod] = "gone"
      BY DEF DeletedAreGone
    <2> DEFINE k == i + 1
    <2>1. k \in DOMAIN ledgerCalls /\ ledgerCalls'[i] = ledgerCalls[k]
      BY <1>3
    <2> HIDE DEF k
    <2> QED
      BY <1>1, <1>2, <2>1 DEF DeletedAreGone
  <1>5. c.pod \in Pods /\ (c.call = "delete" => life[c.pod] = "gone")
    BY <1>2, <1>3 DEF LedgerCalls, DeletedAreGone
  <1>6. \A o \in Pods : Running(o)' <=> Running(o)
    BY <1>1 DEF Running
  <1> HIDE DEF c
  <1>7. LedgersOK(queueByName') /\ \A o \in Pods : Running(o)' => Counted(queueByName', o)
    <2>1. CASE c.call # "delete"
      BY <1>1, <1>2, <1>6, <2>1 DEF CycleInv
    <2>2. CASE c.call = "delete"
      <3>1. queueByName' = DeletePod(queueByName, PodOf[c.pod])
        BY <1>1, <2>2
      <3>2. \A o \in Pods : Running(o) => o # c.pod /\ Counted(queueByName, o)
        BY <1>5, <2>2 DEF Running, CycleInv
      <3> QED
        BY <1>2, <1>5, <1>6, <3>1, <3>2, DeleteKeepsLedgers
    <2> QED
      BY <2>1, <2>2
  <1> QED
    BY <1>1, <1>2, <1>3, <1>4, <1>7 DEF CycleInv

\* A pod that passes the check of the snapshot fits its ledger, which is no
\* larger.
LEMMA AdmittedFitsLedger ==
    ASSUME CycleInv, NEW p \in Pods, ~OverQuota(p), PodOf[p].queue \in DOMAIN queueByName
    PROVE  ~WouldPutOverMax(queueByName[PodOf[p].queue], FromPodReq(PodOf[p].req))
  <1> DEFINE q == PodOf[p].queue
             l == queueByName[q]
             N == {x \in NominatedAhead(p) : PodOf[x].queue = q}
             s == AddPodsIfNotPresent(l, [o \in N |-> PodOf[o].req])
  <1>1. ~WouldPutOverMax(s, FromPodReq(PodOf[p].req))
    BY DEF OverQuota, HasQueue, Snapshot
  <1>2. N \in SUBSET Pods
    BY DEF NominatedAhead
  <1>3. q \in DOMAIN MaxOf /\ LedgerOK(q, l) /\ Consistent(l)
    BY DEF CycleInv, LedgersOK, LedgerOK
  <1> HIDE DEF l, N
  <1>4. Consistent(s) /\ NoLarger(l, s) /\ \A n \in DOMAIN s.max : s.max[n] \in Int
    BY <1>2, <1>3, SnapshotNoSmaller
  <1>5. IsReq(PodOf[p].req)
    BY RequestOf
  <1> HIDE DEF s
  <1>6. ~WouldPutOverMax(l, FromPodReq(PodOf[p].req))
    BY <1>1, <1>3, <1>4, <1>5, FitsSmaller
  <1> QED
    BY <1>6 DEF l

\* Reserve counts the pod, in a ledger no larger than the snapshot that was
\* checked, before it runs.
LEMMA ScheduleKeeps ==
    ASSUME CycleInv, NEW p \in Pods, Schedule(p)
    PROVE  CycleInv'
  <1>1. /\ ~OverQuota(p) /\ life[p] = "pending"
        /\ life' = [life EXCEPT ![p] = "bound"]
        /\ queueByName' = AddPod(queueByName, PodOf[p])
        /\ ledgerCalls' = ledgerCalls
    BY DEF Schedule, Popped, callVars
  <1>2. LedgersOK(queueByName) /\ life \in [Pods -> Lives] /\ ledgerCalls \in Seq(LedgerCalls)
    BY DEF CycleInv
  <1>3. PodOf[p].queue \in DOMAIN queueByName =>
           ~WouldPutOverMax(queueByName[PodOf[p].queue], FromPodReq(PodOf[p].req))
    BY <1>1, AdmittedFitsLedger
  <1>4. /\ LedgersOK(queueByName')
        /\ Counted(queueByName', p)
        /\ \A o \in Pods : Counted(queueByName, o) => Counted(queueByName', o)
    BY <1>1, <1>2, <1>3, AddKeepsLedgers
  <1>5. life' \in [Pods -> Lives]
    BY <1>1, <1>2 DEF Lives
  <1>6. \A o \in Pods : life[o] = "gone" => life'[o] = "gone"
    BY <1>1, <1>2
  <1>7. DeletedAreGone(ledgerCalls', life')
    BY <1>1, <1>6, GoneStays
  <1>8. \A o \in Pods : Running(o)' => o = p \/ Running(o)
    BY <1>1, <1>2 DEF Running
  <1>9. \A o \in Pods : Running(o)' => Counted(queueByName', o)
    BY <1>4, <1>8 DEF CycleInv
  <1> QED
    BY <1>1, <1>2, <1>4, <1>5, <1>7, <1>9 DEF CycleInv

\* The invariant holds at first.
LEMMA CycleInit == Init => CycleInv
  <1> SUFFICES ASSUME Init PROVE CycleInv
    OBVIOUS
  <1>1. life \in [Pods -> Lives] /\ \A p \in Pods : ~Running(p)
    BY DEF Init, Lives, Running
  <1>2. ledgerCalls \in Seq(LedgerCalls) /\ DeletedAreGone(ledgerCalls, life)
    BY DEF Init, DeletedAreGone
  <1>3. ASSUME NEW q \in DOMAIN MaxOf
        PROVE  LedgerOK(q, NewQueue(MaxOf[q]))
    <2> DEFINE l == NewQueue(MaxOf[q])
               none == NewQuota(NoResources)
    <2>1. none = [max |-> NoResources, used |-> NoResources, podsByID |-> none.podsByID]
          /\ DOMAIN none.podsByID = {} /\ DOMAIN NoResources = {}
      BY DEF NewQuota, NoResources
    <2>2. Consistent(none)
      BY NewQuotaConsistent
    <2> HIDE DEF none
    <2>3. l = SetMax(none, MaxOf[q])
      BY DEF NewQueue, none
    <2>4. Consistent(l)
      BY <2>1, <2>2, <2>3, SetMaxConsistent
    <2>5. l = [max |-> MaxOf[q], used |-> NoResources, podsByID |-> none.podsByID]
      BY <2>1, <2>3 DEF SetMax
    <2> HIDE DEF l
    <2>6. WithinMax(l)
      BY <2>1, <2>5 DEF WithinMax, AnyGreaterIntersecting
    <2> QED
      BY <2>1, <2>4, <2>5, <2>6 DEF LedgerOK, l
  <1>4. LedgersOK(queueByName)
    BY <1>3 DEF Init, LedgersOK
  <1> QED
    BY <1>1, <1>2, <1>4 DEF CycleInv

\* Every step keeps it.
LEMMA CycleNext == CycleInv /\ [Next]_vars => CycleInv'
  <1> SUFFICES ASSUME CycleInv, [Next]_vars PROVE CycleInv'
    OBVIOUS
  <1> USE DEF podVars, callVars
  <1>1. ASSUME UNCHANGED <<life, ledgerCalls, queueByName>>
        PROVE  CycleInv'
    BY <1>1 DEF CycleInv, Running
  <1>2. ASSUME NEW p \in Pods, CreatePod(p) \/ RemovePending(p) \/ RemoveBound(p)
        PROVE  CycleInv'
    BY <1>2, PendingKeeps, RemoveBoundKeeps
  <1>3. ASSUME NEW p \in Pods, GiveUp(p) \/ Flush(p)
        PROVE  CycleInv'
    BY <1>1, <1>3 DEF GiveUp, Flush
  <1>4. ASSUME NEW p \in Pods, Schedule(p)
        PROVE  CycleInv'
    BY <1>4, ScheduleKeeps
  <1>5. ASSUME NEW p \in Pods, NEW n \in Nodes, Preempt(p, n)
        PROVE  CycleInv'
    <2>1. queueByName' = queueByName
          /\ (UNCHANGED <<life, ledgerCalls>> \/ Evict(Victims(p, n)))
      BY <1>5 DEF Preempt
    <2> QED
      BY <1>1, <2>1, EvictKeeps
  <1>6. ASSUME NEW p \in Pods, EvictAllButLast(p) \/ EvictLast(p)
        PROVE  CycleInv'
    BY <1>6, EvictKeeps DEF EvictAllButLast, EvictLast
  <1>7. ASSUME (\E n \in Nodes : LoseNode(n)) \/ HandleCacheCall \/ UNCHANGED vars
        PROVE  CycleInv'
    BY <1>1, <1>7 DEF LoseNode, HandleCacheCall, vars
  <1>8. CASE HandleLedgerCall
    BY <1>8, HandleLedgerCallKeeps
  <1> QED
    BY <1>2, <1>3, <1>4, <1>5, <1>6, <1>7, <1>8 DEF Next, Cycle

\* README: "the sum of pods in that queue cannot exceed quota".  The pods that
\* run in a queue, those being evicted included, stay within its maximum
\* although the preemptor is admitted on a ledger that hears of its victims'
\* deletions late.
THEOREM PreemptionRespectsMax == Spec => []RunningWithinMax
  <1>1. CycleInv => RunningWithinMax
    <2> SUFFICES ASSUME CycleInv, NEW q \in DOMAIN MaxOf
                 PROVE  Within({p \in Pods : Running(p)}, q)
      BY DEF RunningWithinMax
    <2> DEFINE S == {p \in Pods : Running(p)}
               reqs == [p \in {u \in S : PodOf[u].queue = q} |-> PodOf[p].req]
               l == queueByName[q]
    <2> SUFFICES ASSUME NEW n \in DOMAIN MaxOf[q] \cap RequestNames(reqs)
                 PROVE  Requested(reqs, n) <= MaxOf[q][n]
      BY DEF Within
    <2>1. /\ q \in DOMAIN queueByName
          /\ LedgerOK(q, l) /\ Consistent(l) /\ WithinMax(l)
          /\ \A u \in DOMAIN l.podsByID : l.podsByID[u] = PodOf[u].req
      BY DEF CycleInv, LedgersOK, LedgerOK
    <2>2. l.max = MaxOf[q] /\ \A k \in DOMAIN l.max : l.max[k] \in Int
      BY <2>1, LedgerMax
    <2>3. /\ \A p \in DOMAIN reqs : Running(p) /\ p \in Pods /\ PodOf[p].queue = q
          /\ \A p \in DOMAIN reqs : reqs[p] = PodOf[p].req
      OBVIOUS
    <2>4. \E u \in DOMAIN reqs : n \in DOMAIN FromPodReq(reqs[u])
      BY DEF RequestNames
    <2>5. \A p \in Pods : Running(p) /\ PodOf[p].queue = q => p \in DOMAIN l.podsByID
      BY <2>1 DEF CycleInv, Counted
    <2> HIDE DEF reqs, l
    <2>6. SubMap(reqs, l.podsByID)
      BY <2>1, <2>3, <2>5 DEF SubMap
    <2>7. n \in DOMAIN l.used \cap DOMAIN l.max
      BY <2>1, <2>2, <2>4, <2>6 DEF Consistent, SubMap
    <2>8. Requested(reqs, n) \in Nat /\ Requested(l.podsByID, n) \in Nat
          /\ Requested(reqs, n) <= Requested(l.podsByID, n)
      BY <2>1, <2>6, SubMapRequests DEF Consistent
    <2>9. Requested(l.podsByID, n) <= l.max[n]
      BY <2>1, <2>2, <2>7, WithinMaxMeans
    <2>10. l.max[n] \in Int /\ l.max[n] = MaxOf[q][n]
      BY <2>2, <2>7
    <2> QED
      BY <2>8, <2>9, <2>10
  <1> QED
    BY <1>1, CycleInit, CycleNext, PTL DEF Spec

-----------------------------------------------------------------------------
(***************************************************************************)
(* A preemptor's patience.  PodEligibleToPreemptOthers reads the cache and *)
(* the ledgers, PatientPreemptor speaks of the pods at the API server.     *)
(* Both views follow the API server: what they do not show yet is the      *)
(* subject of a call that still waits.                                     *)
(***************************************************************************)

Places == {"active", "unschedulable", "done"}

CacheEntries == [node : Nodes \cup {NoNode}, terminating : BOOLEAN]

\* A call about pod u waits.
Waits(calls, call, u) == \E i \in DOMAIN calls : calls[i].call = call /\ calls[i].pod = u

\* What the scheduler's cache knows of pod u.
CacheFollows(u) ==
    /\ Running(u) => cache[u].node = nodeOf[u]
    /\ life[u] = "terminating" => cache[u].terminating \/ Waits(cacheCalls, "update", u)
    /\ cache[u].node # NoNode => Running(u) \/ Waits(cacheCalls, "delete", u)

\* What the ledger of queue q counts.
LedgerFollows(q) ==
    \A u \in DOMAIN queueByName[q].podsByID :
        PodOf[u].queue = q /\ (Running(u) \/ Waits(ledgerCalls, "delete", u))

\* The invariant PatientPreemptor needs on top of CycleInv.
FollowInv ==
    /\ nodes \subseteq Nodes
    /\ waiting \in [Pods -> Places]
    /\ nodeOf \in [Pods -> Nodes \cup {NoNode}]
    /\ cache \in [Pods -> CacheEntries]
    /\ cacheCalls \in Seq(LedgerCalls)
    /\ DeletedAreGone(cacheCalls, life)
    /\ \A u \in Pods : CacheFollows(u)
    /\ \A q \in DOMAIN queueByName : LedgerFollows(q)

\* Calls that wait still do when others join them, and so do those.
LEMMA JoinedCallsWait ==
    ASSUME NEW s \in Seq(LedgerCalls), NEW t \in Seq(LedgerCalls), NEW call, NEW u
    PROVE  Waits(s, call, u) \/ Waits(t, call, u) => Waits(s \o t, call, u)
  <1>1. /\ \A i \in DOMAIN s : i \in DOMAIN (s \o t) /\ (s \o t)[i] = s[i]
        /\ \A i \in DOMAIN t : i + Len(s) \in DOMAIN (s \o t) /\ (s \o t)[i + Len(s)] = t[i]
    OBVIOUS
  <1> QED
    BY <1>1 DEF Waits

\* When the first call has been handled, the others wait.
LEMMA OthersWait ==
    ASSUME NEW s \in Seq(LedgerCalls), s # <<>>, NEW call, NEW u, Waits(s, call, u)
    PROVE  Waits(Tail(s), call, u) \/ (Head(s).call = call /\ Head(s).pod = u)
  <1>1. PICK i \in DOMAIN s : s[i].call = call /\ s[i].pod = u
    BY DEF Waits
  <1>2. CASE i = 1
    BY <1>1, <1>2
  <1>3. CASE i # 1
    <2> DEFINE k == i - 1
    <2>1. k \in DOMAIN Tail(s) /\ Tail(s)[k] = s[i]
      BY <1>1, <1>3
    <2> HIDE DEF k
    <2> QED
      BY <1>1, <2>1 DEF Waits
  <1> QED
    BY <1>2, <1>3

\* Notify tells both goroutines of every pod of S.
LEMMA NotifyTells ==
    ASSUME NEW call \in {"update", "delete"}, NEW S \in SUBSET Pods, Notify(call, S),
           cacheCalls \in Seq(LedgerCalls), ledgerCalls \in Seq(LedgerCalls),
           NEW alive, DeletedAreGone(cacheCalls, alive),
           call = "delete" => \A p \in S : alive[p] = "gone"
    PROVE  /\ cacheCalls' \in Seq(LedgerCalls) /\ DeletedAreGone(cacheCalls', alive)
           /\ \A k, u : Waits(cacheCalls, k, u) => Waits(cacheCalls', k, u)
           /\ \A k, u : Waits(ledgerCalls, k, u) => Waits(ledgerCalls', k, u)
           /\ \A u \in S : Waits(cacheCalls', call, u) /\ Waits(ledgerCalls', call, u)
  <1> DEFINE n == Cardinality(S)
  <1>1. PICK order \in {f \in [1..n -> S] : \A i, j \in DOMAIN f : f[i] = f[j] => i = j} :
           /\ cacheCalls' = cacheCalls \o [i \in DOMAIN order |-> [call |-> call, pod |-> order[i]]]
           /\ ledgerCalls' = ledgerCalls \o [i \in DOMAIN order |-> [call |-> call, pod |-> order[i]]]
    BY Zenon DEF Notify
  <1> DEFINE t == [i \in DOMAIN order |-> [call |-> call, pod |-> order[i]]]
  <1>2. IsFiniteSet(S) /\ n \in Nat
    BY QuantitiesAssumption, FS_Subset, FS_CardinalityType
  <1>3. order \in [1..n -> S] /\ \A i, j \in 1..n : order[i] = order[j] => i = j
    BY <1>1
  <1>4. t \in Seq(LedgerCalls) /\ DeletedAreGone(t, alive)
    <2>1. \A p \in Pods : [call |-> call, pod |-> p] \in LedgerCalls
      BY DEF LedgerCalls
    <2>2. \A i \in 1..n : order[i] \in S /\ order[i] \in Pods
      BY <1>3
    <2>3. t \in Seq(LedgerCalls)
      BY <1>2, <1>3, <2>1, <2>2
    <2>4. DeletedAreGone(t, alive)
      BY <1>3, <2>2 DEF DeletedAreGone
    <2> QED
      BY <2>3, <2>4
  <1>5. ASSUME NEW u \in S
        PROVE  Waits(t, call, u)
    <2>1. IsFiniteSet(1..n) /\ Cardinality(1..n) = n
      BY <1>2, FS_Interval
    <2> HIDE DEF n
    <2>2. order \in Injection(1..n, S)
      BY <1>3 DEF Injection, IsInjective
    <2>3. order \in Surjection(1..n, S)
      BY <1>2, <2>1, <2>2, FS_Injection DEF n
    <2>4. PICK i \in 1..n : order[i] = u
      BY <2>3 DEF Surjection
    <2>5. i \in DOMAIN t /\ t[i].call = call /\ t[i].pod = u
      BY <1>3, <2>4
    <2> QED
      BY <2>5 DEF Waits
  <1>6. cacheCalls' = cacheCalls \o t /\ ledgerCalls' = ledgerCalls \o t
    BY <1>1
  <1> HIDE DEF t
  <1> QED
    BY <1>4, <1>5, <1>6, JoinedCalls, JoinedCallsWait

\* Steps that neither start nor end a pod or a termination and leave the calls
\* and what is known of the pods alone.
LEMMA NothingToTell ==
    ASSUME CycleInv, FollowInv, nodes' \subseteq nodes, waiting' \in [Pods -> Places],
           UNCHANGED <<nodeOf, cache, callVars, queueByName>>,
           \A u \in Pods : Running(u)' <=> Running(u),
           \A u \in Pods : life'[u] = "terminating" => life[u] = "terminating",
           \A u \in Pods : life[u] = "gone" => life'[u] = "gone"
    PROVE  FollowInv'
  <1>0. UNCHANGED <<nodeOf, cache, cacheCalls, ledgerCalls, queueByName>>
    BY DEF callVars
  <1>1. \A i \in DOMAIN cacheCalls : cacheCalls[i].pod \in Pods
    <2>1. \A i \in DOMAIN cacheCalls : cacheCalls[i] \in LedgerCalls
      BY DEF FollowInv
    <2> QED
      BY <2>1 DEF LedgerCalls
  <1>2. DeletedAreGone(cacheCalls', life')
    BY <1>0, <1>1 DEF FollowInv, DeletedAreGone
  <1>3. ASSUME NEW u \in Pods
        PROVE  CacheFollows(u)'
    BY <1>0 DEF FollowInv, CacheFollows
  <1>4. ASSUME NEW q \in DOMAIN queueByName'
        PROVE  LedgerFollows(q)'
    <2>1. LedgersOK(queueByName) /\ LedgerFollows(q) /\ queueByName' = queueByName
      BY <1>0 DEF CycleInv, FollowInv
    <2>2. \A u \in DOMAIN queueByName[q].podsByID : u \in Pods
      BY <2>1 DEF LedgersOK, LedgerOK
    <2> QED
      BY <1>0, <2>1, <2>2 DEF LedgerFollows
  <1> QED
    BY <1>0, <1>2, <1>3, <1>4 DEF FollowInv

\* Steps that tell of pods of S, ended or about to.
LEMMA TellingKeeps ==
    ASSUME CycleInv, FollowInv, NEW call \in {"update", "delete"}, NEW S \in SUBSET Pods,
           Notify(call, S),
           UNCHANGED <<nodes, nodeOf, cache, queueByName>>, waiting' \in [Pods -> Places],
           \A u \in S : Running(u) /\ life'[u] = (IF call = "delete" THEN "gone" ELSE "terminating"),
           \A u \in Pods \ S : life'[u] = life[u]
    PROVE  FollowInv'
  <1>1. cacheCalls \in Seq(LedgerCalls) /\ ledgerCalls \in Seq(LedgerCalls)
    BY DEF CycleInv, FollowInv
  <1>2. \A i \in DOMAIN cacheCalls : cacheCalls[i].pod \in Pods
    <2>1. \A i \in DOMAIN cacheCalls : cacheCalls[i] \in LedgerCalls
      BY <1>1
    <2> QED
      BY <2>1 DEF LedgerCalls
  <1>3. DeletedAreGone(cacheCalls, life')
    <2>1. \A u \in Pods : life[u] = "gone" => life'[u] = "gone"
      BY DEF Running
    <2> QED
      BY <1>2, <2>1 DEF FollowInv, DeletedAreGone
  <1>4. /\ cacheCalls' \in Seq(LedgerCalls) /\ DeletedAreGone(cacheCalls', life')
        /\ \A k, u : Waits(cacheCalls, k, u) => Waits(cacheCalls', k, u)
        /\ \A k, u : Waits(ledgerCalls, k, u) => Waits(ledgerCalls', k, u)
        /\ \A u \in S : Waits(cacheCalls', call, u) /\ Waits(ledgerCalls', call, u)
    BY <1>1, <1>3, NotifyTells
  <1>5. ASSUME NEW u \in Pods
        PROVE  /\ Running(u)' => Running(u)
               /\ Running(u) => Running(u)' \/ (call = "delete" /\ u \in S)
               /\ life'[u] = "terminating" => life[u] = "terminating" \/ (call = "update" /\ u \in S)
    BY DEF Running
  <1>6. ASSUME NEW u \in Pods
        PROVE  CacheFollows(u)'
    BY <1>4, <1>5 DEF FollowInv, CacheFollows
  <1>7. ASSUME NEW q \in DOMAIN queueByName'
        PROVE  LedgerFollows(q)'
    <2>1. LedgersOK(queueByName) /\ LedgerFollows(q) /\ queueByName' = queueByName
      BY DEF CycleInv, FollowInv
    <2>2. \A u \in DOMAIN queueByName[q].podsByID : u \in Pods
      BY <2>1 DEF LedgersOK, LedgerOK
    <2> QED
      BY <1>4, <1>5, <2>1, <2>2 DEF LedgerFollows
  <1> QED
    BY <1>4, <1>6, <1>7 DEF FollowInv

\* An eviction tells of the terminations it starts.
LEMMA EvictFollows ==
    ASSUME CycleInv, FollowInv, NEW S, Evict(S),
           UNCHANGED <<nodes, nodeOf, cache, queueByName>>, waiting' \in [Pods -> Places]
    PROVE  FollowInv'
  <1> DEFINE hit == {v \in Pods : v \in S /\ life[v] = "bound"}
  <1>1. life' = [u \in Pods |-> IF u \in hit THEN "terminating" ELSE life[u]]
        /\ Notify("update", hit)
    BY DEF Evict
  <1>2. /\ hit \in SUBSET Pods
        /\ \A u \in hit : Running(u) /\ life'[u] = "terminating"
        /\ \A u \in Pods \ hit : life'[u] = life[u]
    BY <1>1 DEF Running
  <1> HIDE DEF hit
  <1> QED
    BY <1>1, <1>2, TellingKeeps

\* The scheduler's handler: the first call that waits is now in the cache.
LEMMA HandleCacheCallFollows ==
    ASSUME CycleInv, FollowInv, HandleCacheCall
    PROVE  FollowInv'
  <1> DEFINE c == Head(cacheCalls)
  <1>1. /\ cacheCalls # <<>> /\ cacheCalls' = Tail(cacheCalls)
        /\ cache' = [cache EXCEPT ![c.pod] =
                        IF c.call = "delete" THEN [node |-> NoNode, terminating |-> FALSE]
                        ELSE [@ EXCEPT !.terminating = TRUE]]
        /\ UNCHANGED <<life, nodeOf, nodes, ledgerCalls, queueByName>>
    BY DEF HandleCacheCall, podVars
  <1>2. waiting' \in [Pods -> Places]
    BY DEF HandleCacheCall, Requeue, FollowInv, Places
  <1>3. cacheCalls \in Seq(LedgerCalls) /\ DeletedAreGone(cacheCalls, life)
        /\ cache \in [Pods -> CacheEntries]
    BY DEF FollowInv
  <1>4. /\ cacheCalls' \in Seq(LedgerCalls)
        /\ \A i \in DOMAIN cacheCalls' : i + 1 \in DOMAIN cacheCalls /\ cacheCalls'[i] = cacheCalls[i + 1]
        /\ 1 \in DOMAIN cacheCalls /\ c = cacheCalls[1] /\ c \in LedgerCalls
    BY <1>1, <1>3
  <1>5. DeletedAreGone(cacheCalls', life')
    <2> SUFFICES ASSUME NEW i \in DOMAIN cacheCalls', cacheCalls'[i].call = "delete"
                 PROVE  life'[cacheCalls'[i].pod] = "gone"
      BY DEF DeletedAreGone
    <2> DEFINE k == i + 1
    <2>1. k \in DOMAIN cacheCalls /\ cacheCalls'[i] = cacheCalls[k]
      BY <1>4
    <2> HIDE DEF k
    <2> QED
      BY <1>1, <1>3, <2>1 DEF DeletedAreGone
  <1>6. /\ c.pod \in Pods /\ c.call \in {"update", "delete"}
        /\ c.call = "delete" => life[c.pod] = "gone"
    BY <1>3, <1>4 DEF LedgerCalls, DeletedAreGone
  <1>7. \A k, u : Waits(cacheCalls, k, u) =>
                     Waits(cacheCalls', k, u) \/ (c.call = k /\ c.pod = u)
    BY <1>1, <1>3, OthersWait
  <1> HIDE DEF c
  <1>8. /\ cache' \in [Pods -> CacheEntries]
        /\ \A u \in Pods \ {c.pod} : cache'[u] = cache[u]
        /\ c.call = "delete" => cache'[c.pod].node = NoNode
        /\ c.call = "update" => cache'[c.pod].node = cache[c.pod].node /\ cache'[c.pod].terminating
    <2>1. CASE c.call = "delete"
      BY <1>1, <1>3, <1>6, <2>1 DEF CacheEntries
    <2>2. CASE c.call = "update"
      <3>1. cache' = [cache EXCEPT ![c.pod] = [cache[c.pod] EXCEPT !.terminating = TRUE]]
        BY <1>1, <2>2
      <3>2. cache[c.pod] \in CacheEntries
        BY <1>3, <1>6
      <3> QED
        BY <1>3, <1>6, <2>2, <3>1, <3>2 DEF CacheEntries
    <2> QED
      BY <1>6, <2>1, <2>2
  <1>9. ASSUME NEW u \in Pods
        PROVE  CacheFollows(u)'
    <2>1. CacheFollows(u) /\ life' = life /\ nodeOf' = nodeOf
      BY <1>1 DEF FollowInv
    <2>2. CASE u # c.pod
      BY <1>7, <1>8, <2>1, <2>2 DEF CacheFollows, Running
    <2>3. CASE u = c.pod
      BY <1>6, <1>7, <1>8, <2>1, <2>3 DEF CacheFollows, Running
    <2> QED
      BY <2>2, <2>3
  <1>10. ASSUME NEW q \in DOMAIN queueByName'
         PROVE  LedgerFollows(q)'
    BY <1>1 DEF FollowInv, LedgerFollows, Running
  <1> QED
    BY <1>1, <1>2, <1>4, <1>5, <1>8, <1>9, <1>10 DEF FollowInv

\* The Synchronizer's handler: a pod whose deletion it handles is counted no
\* more.
LEMMA HandleLedgerCallFollows ==
    ASSUME CycleInv, FollowInv, HandleLedgerCall
    PROVE  FollowInv'
  <1> DEFINE c == Head(ledgerCalls)
  <1>1. /\ ledgerCalls # <<>> /\ ledgerCalls' = Tail(ledgerCalls)
        /\ queueByName' = IF c.call = "delete" THEN DeletePod(queueByName, PodOf[c.pod])
                          ELSE queueByName
        /\ UNCHANGED <<life, nodeOf, nodes, cache, cacheCalls, waiting>>
    BY DEF HandleLedgerCall, podVars
  <1>2. ledgerCalls \in Seq(LedgerCalls) /\ LedgersOK(queueByName)
    BY DEF CycleInv
  <1>3. c \in LedgerCalls
    BY <1>1, <1>2
  <1>4. c.pod \in Pods
    BY <1>3 DEF LedgerCalls
  <1>5. \A k, u : Waits(ledgerCalls, k, u) =>
                     Waits(ledgerCalls', k, u) \/ (c.call = k /\ c.pod = u)
    BY <1>1, <1>2, OthersWait
  <1> HIDE DEF c
  <1>6. /\ DOMAIN queueByName' = DOMAIN queueByName
        /\ \A q \in DOMAIN queueByName : \A u \in DOMAIN queueByName'[q].podsByID :
              /\ u \in DOMAIN queueByName[q].podsByID
              /\ ~(c.call = "delete" /\ u = c.pod /\ q = PodOf[c.pod].queue)
    <2>1. CASE c.call = "delete"
      BY <1>1, <1>2, <1>4, <2>1, DeleteKeepsLedgers DEF LedgersOK
    <2>2. CASE c.call # "delete"
      BY <1>1, <2>2
    <2> QED
      BY <2>1, <2>2
  <1>7. ASSUME NEW q \in DOMAIN queueByName'
        PROVE  LedgerFollows(q)'
    <2>1. LedgerFollows(q) /\ life' = life /\ q \in DOMAIN queueByName
      BY <1>1, <1>6 DEF FollowInv
    <2> QED
      BY <1>5, <1>6, <2>1 DEF LedgerFollows, Running
  <1>8. ASSUME NEW u \in Pods
        PROVE  CacheFollows(u)'
    BY <1>1 DEF FollowInv, CacheFollows, Running
  <1> QED
    BY <1>1, <1>7, <1>8 DEF FollowInv

\* A pod that is bound is in the cache and on its ledger at once.
LEMMA ScheduleFollows ==
    ASSUME CycleInv, FollowInv, NEW p \in Pods, Schedule(p)
    PROVE  FollowInv'
  <1>1. PICK n \in Feasible(p) :
           /\ nodeOf' = [nodeOf EXCEPT ![p] = n]
           /\ cache' = [cache EXCEPT ![p] = [node |-> n, terminating |-> FALSE]]
    BY DEF Schedule
  <1>2. /\ ~OverQuota(p) /\ life[p] = "pending" /\ life' = [life EXCEPT ![p] = "bound"]
        /\ queueByName' = AddPod(queueByName, PodOf[p])
        /\ waiting' = [waiting EXCEPT ![p] = "done"]
        /\ UNCHANGED <<nodes, cacheCalls, ledgerCalls>>
    BY DEF Schedule, Popped, callVars
  <1>3. n \in Nodes
    BY DEF Feasible, FollowInv
  <1>4. /\ life \in [Pods -> Lives] /\ LedgersOK(queueByName)
        /\ nodeOf \in [Pods -> Nodes \cup {NoNode}] /\ cache \in [Pods -> CacheEntries]
        /\ waiting \in [Pods -> Places]
    BY DEF CycleInv, FollowInv
  <1>5. /\ nodeOf' \in [Pods -> Nodes \cup {NoNode}] /\ cache' \in [Pods -> CacheEntries]
        /\ waiting' \in [Pods -> Places]
    BY <1>1, <1>2, <1>3, <1>4 DEF CacheEntries, Places
  <1>6. DeletedAreGone(cacheCalls', life')
    <2>1. \A i \in DOMAIN cacheCalls : cacheCalls[i] \in LedgerCalls
      BY DEF FollowInv
    <2>2. \A i \in DOMAIN cacheCalls : cacheCalls[i].pod \in Pods
      BY <2>1 DEF LedgerCalls
    <2> QED
      BY <1>2, <1>4, <2>2 DEF FollowInv, DeletedAreGone
  <1>7. ASSUME NEW u \in Pods
        PROVE  CacheFollows(u)'
    <2>1. CASE u = p
      BY <1>1, <1>2, <1>4, <2>1 DEF CacheFollows, Running
    <2>2. CASE u # p
      <3>1. /\ cache'[u] = cache[u] /\ nodeOf'[u] = nodeOf[u] /\ life'[u] = life[u]
            /\ CacheFollows(u) /\ cacheCalls' = cacheCalls
        BY <1>1, <1>2, <1>4, <2>2 DEF FollowInv
      <3> QED
        BY <3>1 DEF CacheFollows, Running
    <2> QED
      BY <2>1, <2>2
  <1>8. ASSUME NEW q \in DOMAIN queueByName'
        PROVE  LedgerFollows(q)'
    <2>1. PodOf[p].queue \in DOMAIN queueByName =>
             ~WouldPutOverMax(queueByName[PodOf[p].queue], FromPodReq(PodOf[p].req))
      BY <1>2, AdmittedFitsLedger
    <2>2. /\ DOMAIN queueByName' = DOMAIN queueByName
          /\ \A u \in DOMAIN queueByName'[q].podsByID :
                u \in DOMAIN queueByName[q].podsByID \/ (u = p /\ q = PodOf[p].queue)
      <3>1. LedgersOK(queueByName')
        BY <1>2, <1>4, <2>1, AddKeepsLedgers
      <3>2. DOMAIN queueByName' = DOMAIN queueByName
        BY <1>4, <3>1 DEF LedgersOK
      <3> QED
        BY <1>2, <1>4, <2>1, <3>2, AddKeepsLedgers
    <2>3. LedgerFollows(q) /\ \A u \in DOMAIN queueByName[q].podsByID : u \in Pods
      BY <1>4, <2>2 DEF FollowInv, LedgersOK, LedgerOK
    <2>4. \A u \in Pods : (Running(u) => Running(u)') /\ Running(p)'
      BY <1>2, <1>4 DEF Running
    <2> QED
      BY <1>2, <2>2, <2>3, <2>4 DEF LedgerFollows
  <1> QED
    BY <1>2, <1>5, <1>6, <1>7, <1>8 DEF FollowInv

\* The invariant holds at first.
LEMMA FollowInit == Init => FollowInv
  <1> SUFFICES ASSUME Init PROVE FollowInv
    OBVIOUS
  <1>1. /\ nodes \subseteq Nodes /\ waiting \in [Pods -> Places]
        /\ nodeOf \in [Pods -> Nodes \cup {NoNode}] /\ cache \in [Pods -> CacheEntries]
        /\ cacheCalls \in Seq(LedgerCalls) /\ DeletedAreGone(cacheCalls, life)
    BY DEF Init, Places, CacheEntries, DeletedAreGone
  <1>2. \A u \in Pods : CacheFollows(u)
    BY DEF Init, CacheFollows, Running
  <1>3. ASSUME NEW q \in DOMAIN queueByName
        PROVE  LedgerFollows(q)
    <2>1. queueByName[q].podsByID = [u \in {} |-> NoResources]
      BY DEF Init, NewQueue, NewQuota, SetMax
    <2> QED
      BY <2>1 DEF LedgerFollows
  <1> QED
    BY <1>1, <1>2, <1>3 DEF FollowInv

\* Every step keeps it.
LEMMA FollowNext == CycleInv /\ FollowInv /\ [Next]_vars => FollowInv'
  <1> SUFFICES ASSUME CycleInv, FollowInv, [Next]_vars PROVE FollowInv'
    OBVIOUS
  <1> USE DEF podVars
  <1>1. ASSUME nodes' \subseteq nodes, waiting' \in [Pods -> Places], life' = life,
               UNCHANGED <<nodeOf, cache, callVars, queueByName>>
        PROVE  FollowInv'
    <2>1. \A u \in Pods : (Running(u)' <=> Running(u)) /\ life'[u] = life[u]
      BY <1>1 DEF Running
    <2> QED
      BY <1>1, <2>1, NothingToTell
  <1>2. waiting \in [Pods -> Places]
    BY DEF FollowInv
  <1>3. ASSUME NEW p \in Pods, CreatePod(p) \/ RemovePending(p)
        PROVE  FollowInv'
    <2>1. /\ nodes' = nodes /\ UNCHANGED <<nodeOf, cache, callVars, queueByName>>
          /\ waiting' \in [Pods -> Places]
      BY <1>2, <1>3 DEF CreatePod, RemovePending, Places
    <2>2. life \in [Pods -> Lives]
      BY DEF CycleInv
    <2>3. /\ \A u \in Pods : Running(u)' <=> Running(u)
          /\ \A u \in Pods : life'[u] = "terminating" => life[u] = "terminating"
          /\ \A u \in Pods : life[u] = "gone" => life'[u] = "gone"
      <3>1. CASE CreatePod(p)
        BY <2>2, <3>1 DEF CreatePod, Running
      <3>2. CASE RemovePending(p)
        BY <2>2, <3>2 DEF RemovePending, Running
      <3> QED
        BY <1>3, <3>1, <3>2
    <2> QED
      BY <2>1, <2>3, NothingToTell
  <1>4. ASSUME NEW p \in Pods, RemoveBound(p)
        PROVE  FollowInv'
    <2>1. /\ Notify("delete", {p}) /\ life' = [life EXCEPT ![p] = "gone"] /\ Running(p)
          /\ UNCHANGED <<nodes, nodeOf, cache, queueByName>> /\ waiting' = waiting
      BY <1>4 DEF RemoveBound, Running
    <2>2. life \in [Pods -> Lives]
      BY DEF CycleInv
    <2>3. /\ \A u \in {p} : Running(u) /\ life'[u] = "gone"
          /\ \A u \in Pods \ {p} : life'[u] = life[u]
      BY <2>1, <2>2
    <2> QED
      BY <1>2, <2>1, <2>3, TellingKeeps
  <1>5. ASSUME NEW p \in Pods, GiveUp(p) \/ Flush(p)
        PROVE  FollowInv'
    <2>1. /\ nodes' = nodes /\ life' = life /\ UNCHANGED <<nodeOf, cache, callVars, queueByName>>
          /\ waiting' \in [Pods -> Places]
      BY <1>2, <1>5 DEF GiveUp, Flush, Requeue, Places
    <2> QED
      BY <1>1, <2>1
  <1>6. ASSUME NEW p \in Pods, NEW n \in Nodes, Preempt(p, n)
        PROVE  FollowInv'
    <2>1. /\ nodes' = nodes /\ nodeOf' = nodeOf /\ cache' = cache /\ queueByName' = queueByName
          /\ waiting' = [waiting EXCEPT ![p] = "unschedulable"]
          /\ (UNCHANGED <<life, callVars>> \/ Evict(Victims(p, n)))
      BY <1>6 DEF Preempt
    <2>2. waiting' \in [Pods -> Places]
      BY <1>2, <2>1 DEF Places
    <2>3. CASE UNCHANGED <<life, callVars>>
      BY <1>1, <2>1, <2>2, <2>3
    <2>4. CASE Evict(Victims(p, n))
      BY <2>1, <2>2, <2>4, EvictFollows
    <2> QED
      BY <2>1, <2>3, <2>4
  <1>7. ASSUME NEW p \in Pods, EvictAllButLast(p) \/ EvictLast(p)
        PROVE  FollowInv'
    BY <1>2, <1>7, EvictFollows DEF EvictAllButLast, EvictLast
  <1>8. ASSUME (\E n \in Nodes : LoseNode(n)) \/ UNCHANGED vars
        PROVE  FollowInv'
    <2>1. /\ nodes' \subseteq nodes /\ life' = life
          /\ UNCHANGED <<nodeOf, cache, callVars, queueByName>> /\ waiting' = waiting
      BY <1>8 DEF LoseNode, vars
    <2> QED
      BY <1>1, <1>2, <2>1
  <1> QED
    BY <1>3, <1>4, <1>5, <1>6, <1>7, <1>8, ScheduleFollows, HandleCacheCallFollows,
       HandleLedgerCallFollows DEF Next, Cycle

\* No queue has a negative maximum.
NonNegativeMaxima == \A q \in DOMAIN MaxOf : \A n \in DOMAIN MaxOf[q] : MaxOf[q][n] >= 0

\* A pending pod that has room under its maximum passes the quota check of a
\* ledger that is up to date, pods of other queues left aside.  The ledger may
\* carry names at 0 that nobody requests: under a negative maximum such a name
\* alone is over it.
LEMMA RoomPassesCheck ==
    ASSUME NonNegativeMaxima, CycleInv, FollowInv, ledgerCalls = <<>>,
           NEW p \in Pods, life[p] = "pending",
           NEW A, \A u \in A : PodOf[u].queue # PodOf[p].queue,
           PodOf[p].queue \in DOMAIN MaxOf =>
               Within({u \in Pods \ A : Running(u)} \cup NominatedAhead(p) \cup {p}, PodOf[p].queue)
    PROVE  ~OverQuota(p)
  <1> DEFINE q == PodOf[p].queue
             l == queueByName[q]
             N == {x \in NominatedAhead(p) : PodOf[x].queue = q}
             ahead == [o \in N |-> PodOf[o].req]
             s == AddPodsIfNotPresent(l, ahead)
             S == {u \in Pods \ A : Running(u)} \cup NominatedAhead(p) \cup {p}
             reqs == [x \in {u \in S : PodOf[u].queue = q} |-> PodOf[x].req]
             r == FromPodReq(PodOf[p].req)
  <1>1. SUFFICES ASSUME q \in DOMAIN queueByName, WouldPutOverMax(s, r)
                 PROVE  FALSE
    BY DEF OverQuota, HasQueue, Snapshot
  <1>2. /\ q \in DOMAIN MaxOf /\ LedgerOK(q, l) /\ Consistent(l) /\ LedgerFollows(q)
        /\ l = [max |-> l.max, used |-> l.used, podsByID |-> l.podsByID]
        /\ \A u \in DOMAIN l.podsByID : u \in Pods /\ l.podsByID[u] = PodOf[u].req
    BY <1>1 DEF CycleInv, FollowInv, LedgersOK, LedgerOK
  <1>3. \A u \in DOMAIN l.podsByID : u \in Pods \ A /\ Running(u) /\ PodOf[u].queue = q
    <2>1. \A u : ~Waits(ledgerCalls, "delete", u)
      BY DEF Waits
    <2> QED
      BY <1>2, <2>1 DEF LedgerFollows
  <1>4. l.max = MaxOf[q] /\ \A n \in DOMAIN l.max : l.max[n] \in Int /\ l.max[n] >= 0
    BY <1>2, LedgerMax DEF NonNegativeMaxima
  <1>5. N \in SUBSET Pods /\ p \notin N /\ \A u \in N : u \in NominatedAhead(p) /\ PodOf[u].queue = q
    BY DEF NominatedAhead
  <1>6. /\ Consistent(s) /\ s.max = l.max
        /\ DOMAIN s.podsByID = DOMAIN l.podsByID \cup N
        /\ \A u \in DOMAIN s.podsByID : s.podsByID[u] = PodOf[u].req
    <2>1. IsFiniteSet(N) /\ \A u \in N : IsReq(PodOf[u].req)
      BY <1>5, QuantitiesAssumption, FS_Subset, RequestOf
    <2>2. DOMAIN ahead = N /\ \A u \in N : ahead[u] = PodOf[u].req
      OBVIOUS
    <2>3. IsFiniteSet(DOMAIN ahead) /\ \A u \in DOMAIN ahead : IsReq(ahead[u])
      BY <2>1, <2>2
    <2> HIDE DEF l, N, ahead
    <2>4. /\ Consistent(s) /\ s.max = l.max
          /\ DOMAIN s.podsByID = DOMAIN l.podsByID \cup DOMAIN ahead
          /\ \A u \in DOMAIN l.podsByID : s.podsByID[u] = l.podsByID[u]
          /\ \A u \in DOMAIN ahead \ DOMAIN l.podsByID : s.podsByID[u] = ahead[u]
      BY <1>2, <2>3, AddPodsConsistent
    <2> HIDE DEF s
    <2> QED
      BY <1>2, <2>2, <2>4
  <1>7. /\ p \in DOMAIN reqs /\ reqs[p] = PodOf[p].req /\ ~Running(p)
        /\ DOMAIN reqs \subseteq Pods /\ \A u \in DOMAIN reqs : reqs[u] = PodOf[u].req
    BY DEF NominatedAhead, Running
  <1>8. SubMap(s.podsByID, reqs) /\ p \notin DOMAIN s.podsByID
    <2>1. DOMAIN s.podsByID \subseteq DOMAIN reqs
      BY <1>3, <1>5, <1>6
    <2> HIDE DEF s, reqs
    <2>2. p \notin DOMAIN s.podsByID
      BY <1>3, <1>5, <1>6, <1>7
    <2> QED
      BY <1>6, <1>7, <2>1, <2>2 DEF SubMap
  <1>9. Within(S, q)
    BY <1>2
  <1>10. \A n \in DOMAIN MaxOf[q] \cap RequestNames(reqs) : Requested(reqs, n) <= MaxOf[q][n]
    BY <1>9 DEF Within
  <1>11. IsReq(PodOf[p].req) /\ \A n : Qty(r, n) \in Nat
    BY RequestOf, QtyOfRequest
  <1>12. \A n : IsFiniteSet(Units(reqs, n))
    <2>1. IsFiniteSet(DOMAIN reqs) /\ \A u \in DOMAIN reqs : IsReq(reqs[u])
      BY <1>7, QuantitiesAssumption, FS_Subset, RequestOf
    <2> HIDE DEF reqs
    <2> QED
      BY <2>1, FiniteUnits
  <1> HIDE DEF s, reqs, r, l, S, N
  <1>13. PICK n \in (DOMAIN s.used \cup DOMAIN r) \cap DOMAIN s.max :
            Requested(s.podsByID, n) + Qty(r, n) > s.max[n]
    BY <1>1, <1>6, <1>11, OverMaxMeans DEF r
  <1>14. /\ Requested(s.podsByID, n) \in Nat /\ Requested(reqs, n) \in Nat
         /\ Requested(s.podsByID, n) + Qty(r, n) <= Requested(reqs, n)
    <2>1. Requested(s.podsByID, n) \in Nat /\ Requested(reqs, n) \in Nat
      BY <1>8, <1>12, SubMapRequests
    <2> QED
      BY <1>7, <1>8, <1>11, <1>12, <2>1, SubMapRoom DEF r
  <1>15. n \in DOMAIN MaxOf[q] /\ s.max[n] = MaxOf[q][n] /\ s.max[n] \in Int /\ s.max[n] >= 0
    BY <1>4, <1>6, <1>13
  <1>16. CASE n \in RequestNames(reqs)
    BY <1>10, <1>11, <1>13, <1>14, <1>15, <1>16
  <1>17. CASE n \notin RequestNames(reqs)
    <2>1. Requested(reqs, n) = 0
      BY <1>17, NameNotRequested DEF RequestNames
    <2> QED
      BY <1>11, <1>13, <1>14, <1>15, <2>1
  <1> QED
    BY <1>16, <1>17

\* Once nothing waits for the cache, a node's pods in it are those that run on
\* the node, and it knows the terminating ones.
LEMMA CacheTells ==
    ASSUME FollowInv, cacheCalls = <<>>
    PROVE  /\ \A n \in Nodes : OnNode(n) = {u \in Pods : Running(u) /\ nodeOf[u] = n}
           /\ \A u \in Pods : life[u] = "terminating" => cache[u].terminating
  <1>1. \A call, u : ~Waits(cacheCalls, call, u)
    BY DEF Waits
  <1>2. \A n \in Nodes : n # NoNode
    BY CycleAssumption
  <1> QED
    BY <1>1, <1>2 DEF FollowInv, CacheFollows, OnNode

\* Only PostFilter with a candidate sentences pods, once no eviction is under
\* way.
LEMMA OnlyPreemptSentences ==
    ASSUME FollowInv, [Next]_vars, NEW p \in Pods, evicting[p] = {}, Sentenced(p) # {}
    PROVE  Rejected(p) /\ PodEligibleToPreemptOthers(p)
  <1> USE DEF podVars
  <1>1. PICK u \in Pods : /\ waiting[p] = "active" /\ waiting'[p] = "unschedulable"
                          /\ life[u] = "bound" /\ (life'[u] = "terminating" \/ u \in evicting'[p])
    BY DEF Sentenced
  <1>2. waiting \in [Pods -> Places]
    BY DEF FollowInv
  <1>3. waiting' # waiting
    BY <1>1
  <1>4. ASSUME NEW o \in Pods, CreatePod(o) \/ Schedule(o) \/ Flush(o) \/ HandleCacheCall
        PROVE  FALSE
    <2>1. CASE CreatePod(o)
      BY <1>1, <1>2, <2>1 DEF CreatePod
    <2>2. CASE Schedule(o)
      BY <1>1, <1>2, <2>2 DEF Schedule
    <2>3. CASE Flush(o) \/ HandleCacheCall
      BY <1>1, <1>2, <2>3 DEF Flush, HandleCacheCall, Requeue
    <2> QED
      BY <1>4, <2>1, <2>2, <2>3
  <1>5. ASSUME NEW o \in Pods, \/ RemovePending(o) \/ RemoveBound(o)
                               \/ EvictAllButLast(o) \/ EvictLast(o) \/ HandleLedgerCall
                               \/ (\E n \in Nodes : LoseNode(n)) \/ UNCHANGED vars
        PROVE  FALSE
    BY <1>3, <1>5 DEF RemovePending, RemoveBound, EvictAllButLast, EvictLast,
                      HandleLedgerCall, LoseNode, vars
  <1>6. ASSUME NEW o \in Pods, GiveUp(o)
        PROVE  FALSE
    <2>1. life' = life /\ evicting' = evicting
      BY <1>6 DEF GiveUp
    <2> QED
      BY <1>1, <2>1
  <1>7. ASSUME NEW o \in Pods, NEW n \in Nodes, Preempt(o, n)
        PROVE  Rejected(p) /\ PodEligibleToPreemptOthers(p)
    <2>1. /\ waiting' = [waiting EXCEPT ![o] = "unschedulable"]
          /\ Rejected(o) /\ PodEligibleToPreemptOthers(o)
      BY <1>7 DEF Preempt
    <2>2. o = p
      BY <1>1, <1>2, <2>1
    <2> QED
      BY <2>1, <2>2
  <1> QED
    BY <1>4, <1>5, <1>6, <1>7 DEF Next, Cycle

\* preemption.go: "This check prevents additional preemptions unnecessarily."
\* If no maximum is negative, PodEligibleToPreemptOthers makes a nominated pod
\* wait whenever the terminating pods on its node leave it room, for any pods,
\* nodes and rules and although the check looks at queues and priorities only,
\* never at how much room there will be.
THEOREM PreemptorsArePatient == NonNegativeMaxima => (Spec => PatientPreemptor)
  <1> SUFFICES ASSUME NonNegativeMaxima PROVE Spec => PatientPreemptor
    OBVIOUS
  <1> DEFINE Patient(p) ==
                CacheUpToDate /\ ledgerCalls = <<>> /\ Sentenced(p) # {} =>
                    ~HasRoom(p, {nominated[p]} \cap nodes, Awaited(p))
  <1>1. ASSUME CycleInv, FollowInv, [Next]_vars, NEW p \in Pods
        PROVE  Patient(p)
    <2> SUFFICES ASSUME CacheUpToDate, ledgerCalls = <<>>, Sentenced(p) # {},
                        HasRoom(p, {nominated[p]} \cap nodes, Awaited(p))
                 PROVE  FALSE
      OBVIOUS
    <2> DEFINE m == nominated[p]
               q == PodOf[p].queue
               A == Awaited(p)
    <2>1. cacheCalls = <<>> /\ evicting[p] = {}
      BY DEF CacheUpToDate
    <2>2. Rejected(p) /\ PodEligibleToPreemptOthers(p) /\ life[p] = "pending"
      BY <1>1, <2>1, OnlyPreemptSentences DEF Rejected, Popped
    <2>3. /\ m \in nodes /\ m \in Nodes /\ m # NoNode
          /\ FitsNode(p, m, {u \in Pods \ A : Running(u) /\ nodeOf[u] = m})
          /\ q \in DOMAIN MaxOf =>
                Within({u \in Pods \ A : Running(u)} \cup NominatedAhead(p) \cup {p}, q)
      BY <1>1, CycleAssumption DEF HasRoom, FollowInv
    <2>4. ~WaitsForVictim(p)
      BY <2>2, <2>3 DEF PodEligibleToPreemptOthers, NominatedNodeUnresolvable
    <2>5. ASSUME NEW u \in A
          PROVE  PodOf[u].queue # q /\ OverQuota(p)
      <3>1. u \in OnNode(m) /\ cache[u].terminating
        BY <1>1, <2>1, <2>3, CacheTells DEF Awaited, Running
      <3>2. HasQueue(queueByName, PodOf[u])
        BY <1>1, CycleAssumption DEF Awaited, CanPodBePreemptedByOthers, HasQueue, CycleInv, LedgersOK
      <3> QED
        BY <2>4, <3>1, <3>2 DEF Awaited, WaitsForVictim, TerminatingByPreemption
    <2>6. ~OverQuota(p)
      BY <1>1, <2>2, <2>3, <2>5, RoomPassesCheck
    <2>7. A = {}
      BY <2>5, <2>6
    <2>8. OnNode(m) = {u \in Pods : Running(u) /\ nodeOf[u] = m} /\ p \notin OnNode(m)
      BY <1>1, <2>1, <2>2, <2>3, CacheTells DEF Running
    <2>9. {u \in Pods \ A : Running(u) /\ nodeOf[u] = m} = OnNode(m) \ {p}
      BY <2>7, <2>8
    <2>10. m \in Feasible(p)
      BY <2>3, <2>9 DEF Feasible
    <2> QED
      BY <2>2, <2>6, <2>10 DEF Rejected
  <1>2. CycleInv /\ FollowInv /\ [Next]_vars => [\A p \in Pods : Patient(p)]_vars
    BY <1>1
  <1>3. PatientPreemptor <=> [][\A p \in Pods : Patient(p)]_vars
    BY DEF PatientPreemptor
  <1> HIDE DEF Patient
  <1> QED
    BY <1>2, <1>3, CycleInit, CycleNext, FollowInit, FollowNext, PTL DEF Spec
=============================================================================
