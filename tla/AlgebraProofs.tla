---------------------------- MODULE AlgebraProofs ----------------------------
(***************************************************************************)
(* The properties of the resource algebra for any names and quantities of  *)
(* any size, and AddPodIfNotPresent in bulk and in a loop for any pods.    *)
(***************************************************************************)
EXTENDS MCResources, QuotaProofs

IsResources(x) == \A n \in DOMAIN x : x[n] \in Int

\* The pair of values is one of Resources, and the quota is what the loop has
\* made of the pods so far.
AlgebraInv ==
    /\ IsResources(r) /\ IsResources(other)
    /\ reqs = [u \in DOMAIN reqs |-> reqs[u]] /\ \A u \in DOMAIN reqs : IsReq(reqs[u])
    /\ quota = [max |-> NoResources, used |-> quota.used, podsByID |-> reqs]
    /\ Consistent(quota)
    /\ DOMAIN quota.used = RequestNames(reqs)

\* The elements of Values and of Amounts.
LEMMA ValuesAreResources ==
    /\ \A x \in Values : IsResources(x)
    /\ \A x \in Amounts : IsReq(x)
  BY MaxQtyAssumption DEF Values, Amounts, IsResources, IsReq

\* Storing one more request adds its names.
LEMMA NamesOfMapSet ==
    ASSUME NEW m, NEW u, u \notin DOMAIN m, NEW req
    PROVE  RequestNames(MapSet(m, u, req)) = RequestNames(m) \cup DOMAIN FromPodReq(req)
  <1>1. /\ DOMAIN MapSet(m, u, req) = DOMAIN m \cup {u} /\ MapSet(m, u, req)[u] = req
        /\ \A x \in DOMAIN m : MapSet(m, u, req)[x] = m[x]
    BY DEF MapSet
  <1> QED
    BY <1>1 DEF RequestNames

LEMMA AlgebraInvariant == Spec => []AlgebraInv
  <1>1. Init => AlgebraInv
    <2> SUFFICES ASSUME Init PROVE AlgebraInv
      OBVIOUS
    <2>1. /\ IsResources(r) /\ IsResources(other) /\ DOMAIN reqs = {}
          /\ reqs = [u \in DOMAIN reqs |-> reqs[u]]
      BY DEF Init, IsResources, NoResources
    <2>2. quota = [max |-> NoResources, used |-> NoResources, podsByID |-> reqs]
      BY DEF Init, NewQuota
    <2>3. Consistent(quota)
      BY NewQuotaConsistent DEF Init
    <2>4. DOMAIN quota.used = RequestNames(reqs)
      BY <2>1, <2>2 DEF RequestNames, NoResources
    <2> QED
      BY <2>1, <2>2, <2>3, <2>4 DEF AlgebraInv
  <1>2. AlgebraInv /\ [Next]_vars => AlgebraInv'
    <2> SUFFICES ASSUME AlgebraInv, [Next]_vars PROVE AlgebraInv'
      OBVIOUS
    <2>1. CASE Pick
      BY <2>1, ValuesAreResources DEF Pick, AlgebraInv
    <2>2. ASSUME NEW u \in PodIDs, AddOne(u) PROVE AlgebraInv'
      <3>1. PICK req \in Amounts :
               /\ reqs' = MapSet(reqs, u, req)
               /\ quota' = AddPodIfNotPresent(quota, [uid |-> u, req |-> req])
        BY <2>2 DEF AddOne
      <3>2. u \notin DOMAIN reqs /\ UNCHANGED <<r, other>>
        BY <2>2 DEF AddOne
      <3>3. IsReq(req)
        BY ValuesAreResources
      <3> DEFINE used == quota.used
                 pod == [uid |-> u, req |-> req]
      <3>4. quota = [max |-> NoResources, used |-> used, podsByID |-> reqs]
            /\ Consistent(quota) /\ DOMAIN used = RequestNames(reqs)
        BY DEF AlgebraInv
      <3> HIDE DEF used
      <3>5. quota' = [max |-> NoResources, used |-> Add(used, FromPodReq(req)), podsByID |-> reqs']
        BY <3>1, <3>2, <3>4 DEF AddPodIfNotPresent, ContainsPod
      <3>6. Consistent(quota')
        <4>1. pod.req = req /\ IsReq(pod.req)
          BY <3>3
        <4> HIDE DEF pod
        <4>2. Consistent(AddPodIfNotPresent([max |-> NoResources, used |-> used, podsByID |-> reqs], pod))
          BY <3>4, <4>1, AddPodConsistent
        <4> QED
          BY <3>1, <3>4, <4>2 DEF pod
      <3>7. DOMAIN quota'.used = RequestNames(reqs')
        <4>1. DOMAIN Add(used, FromPodReq(req)) = DOMAIN used \cup DOMAIN FromPodReq(req)
          BY DEF Add, getResNames
        <4>2. RequestNames(reqs') = RequestNames(reqs) \cup DOMAIN FromPodReq(req)
          BY <3>1, <3>2, NamesOfMapSet
        <4> QED
          BY <3>4, <3>5, <4>1, <4>2
      <3>8. /\ \A x \in DOMAIN reqs' : IsReq(reqs'[x])
            /\ reqs' = [x \in DOMAIN reqs' |-> reqs'[x]]
        BY <3>1, <3>3 DEF MapSet, AlgebraInv
      <3> QED
        BY <3>2, <3>5, <3>6, <3>7, <3>8 DEF AlgebraInv
    <2>3. CASE UNCHANGED vars
      BY <2>3 DEF vars, AlgebraInv
    <2> QED
      BY <2>1, <2>2, <2>3 DEF Next
  <1> QED
    BY <1>1, <1>2, PTL DEF Spec

\* Quota.DeletePodIfPresent and NodeAggregator rely on it: Minus takes off what
\* Plus put on, and is adding the negation where every name is present.
THEOREM SubAlwaysUndoesAdd == Spec => []SubUndoesAdd
  <1>1. AlgebraInv => SubUndoesAdd
    BY DEF AlgebraInv, SubUndoesAdd, IsResources, Equivalent, Equal, Minus, Plus, Negated,
           Sub, Add, Negate, Qty, getResNames
  <1> QED
    BY <1>1, AlgebraInvariant, PTL

\* The comparisons on shared names that decide whether a quota is exceeded are
\* each other's negations.
THEOREM ComparisonsAlwaysAgree == Spec => []IntersectingComparisonsAgree
  <1>1. AlgebraInv => IntersectingComparisonsAgree
    BY DEF AlgebraInv, IntersectingComparisonsAgree, IsResources, AnyGreaterIntersecting,
           AllLessIntersecting, AnyLessIntersecting, AllGreaterIntersecting, EqualIntersecting
  <1> QED
    BY <1>1, AlgebraInvariant, PTL

\* AllGreater compares all names and is an order up to Equivalent.
THEOREM AllGreaterAlwaysOrders == Spec => []AllGreaterOrders
  <1>1. AlgebraInv => AllGreaterOrders
    BY DEF AlgebraInv, AllGreaterOrders, IsResources, AllGreater, Equivalent, Equal, Qty,
           getResNames
  <1> QED
    BY <1>1, AlgebraInvariant, PTL

\* TakeMinExisting, from which the status loop takes a queue's effective
\* maximum, is the meet of cluster total and maximum, where neither has a
\* negative quantity.
THEOREM EffectiveMaxAlwaysMeet == Spec => []EffectiveMaxIsMeet
  <1>1. AlgebraInv => EffectiveMaxIsMeet
    BY DEF AlgebraInv, EffectiveMaxIsMeet, IsAmount, IsResources, TakeMinExisting,
           SetMinExisting, LowerIn, AllLessIntersecting, AllGreater, Qty, getResNames
  <1> QED
    BY <1>1, AlgebraInvariant, PTL

\* The loop of AddPodIfNotPresent over the nominated pods that PreFilter runs
\* amounts to the sum of their requests, whatever the order.
THEOREM BulkAddAlwaysLoop == Spec => []BulkAddIsLoop
  <1>1. AlgebraInv => BulkAddIsLoop
    <2> SUFFICES ASSUME AlgebraInv PROVE BulkAddIsLoop
      OBVIOUS
    <2> DEFINE bulk == AddPodsIfNotPresent(NewQuota(NoResources), reqs)
    <2>1. quota.podsByID = reqs /\ DOMAIN quota.used = RequestNames(reqs)
          /\ \A n \in DOMAIN quota.used : quota.used[n] = Requested(reqs, n)
      BY DEF AlgebraInv, Consistent
    <2>2. \A n : Requested(reqs, n) \in Nat
      BY <2>1, FS_CardinalityType DEF AlgebraInv, Consistent, Requested
    <2> DEFINE empty == NewQuota(NoResources)
               fresh == [u \in DOMAIN reqs \ DOMAIN empty.podsByID |-> reqs[u]]
    <2>3. /\ empty = [max |-> NoResources, used |-> NoResources, podsByID |-> empty.podsByID]
          /\ DOMAIN empty.podsByID = {} /\ DOMAIN NoResources = {}
      BY DEF NewQuota, NoResources
    <2>4. fresh = reqs
      BY <2>3 DEF AlgebraInv
    <2>5. /\ bulk.podsByID = [u \in DOMAIN reqs |-> reqs[u]]
          /\ bulk.used = [n \in RequestNames(reqs) |-> Qty(NoResources, n) + Requested(reqs, n)]
      <3>1. AddPodsIfNotPresent(empty, reqs) =
              [empty EXCEPT
                 !.podsByID = [u \in DOMAIN empty.podsByID \cup DOMAIN fresh |->
                                  IF u \in DOMAIN fresh THEN fresh[u] ELSE empty.podsByID[u]],
                 !.used = [n \in DOMAIN empty.used \cup RequestNames(fresh) |->
                              Qty(empty.used, n) + Requested(fresh, n)]]
        BY DEF AddPodsIfNotPresent
      <3> HIDE DEF empty, fresh
      <3>2. AddPodsIfNotPresent(empty, reqs).podsByID = [u \in DOMAIN reqs |-> reqs[u]]
        BY <2>3, <2>4, <3>1
      <3>3. AddPodsIfNotPresent(empty, reqs).used =
              [n \in RequestNames(reqs) |-> Qty(NoResources, n) + Requested(reqs, n)]
        BY <2>3, <2>4, <3>1
      <3> QED
        BY <3>2, <3>3 DEF empty
    <2>6. DOMAIN bulk.used = DOMAIN quota.used
          /\ \A n \in DOMAIN bulk.used : bulk.used[n] = quota.used[n]
      BY <2>1, <2>2, <2>3, <2>5 DEF Qty
    <2>7. bulk.podsByID = quota.podsByID
      BY <2>1, <2>5 DEF AlgebraInv
    <2> HIDE DEF bulk
    <2>8. Equal(bulk.used, quota.used)
      BY <2>6 DEF Equal, getResNames
    <2> QED
      BY <2>7, <2>8 DEF BulkAddIsLoop, bulk
  <1> QED
    BY <1>1, AlgebraInvariant, PTL
=============================================================================
