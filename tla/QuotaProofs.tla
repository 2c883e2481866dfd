----------------------------- MODULE QuotaProofs -----------------------------
(***************************************************************************)
(* What AddPodIfNotPresent and DeletePodIfPresent do to a ledger that      *)
(* agrees with its entries.                                                *)
(*                                                                         *)
(* Exact alone is not preserved: Sub copies the subtrahend into a missing  *)
(* name, so a ledger also has to carry every name its pods request, and    *)
(* Cardinality is only arithmetic on finite sets of units.                 *)
(***************************************************************************)
EXTENDS Quota, FiniteSetTheorems, TLAPS

\* The units one request contributes.
Row(u, req, n) == {u} \X (1..Qty(FromPodReq(req), n))

IsReq(r) == \A n \in DOMAIN r : r[n] \in Nat

\* The inductive form of Exact.
Consistent(q) ==
    /\ \A n : IsFiniteSet(Units(q.podsByID, n))
    /\ \A u \in DOMAIN q.podsByID : DOMAIN FromPodReq(q.podsByID[u]) \subseteq DOMAIN q.used
    /\ \A n \in DOMAIN q.used : q.used[n] = Requested(q.podsByID, n)

\* FromPodReq keeps quantities natural, the quantity of a missing name is 0.
LEMMA QtyOfRequest ==
    ASSUME NEW req, IsReq(req), NEW n
    PROVE  /\ Qty(FromPodReq(req), n) \in Nat
           /\ n \notin DOMAIN FromPodReq(req) => Qty(FromPodReq(req), n) = 0
  BY DEF Qty, FromPodReq, IsReq, ResourceNamePods

\* A row has as many units as the request asks for.
LEMMA RowSize ==
    ASSUME NEW u, NEW req, IsReq(req), NEW n
    PROVE  /\ IsFiniteSet(Row(u, req, n))
           /\ Cardinality(Row(u, req, n)) = Qty(FromPodReq(req), n)
  <1> DEFINE k == Qty(FromPodReq(req), n)
  <1>1. k \in Nat
    BY QtyOfRequest
  <1> HIDE DEF k
  <1>2. IsFiniteSet(1..k) /\ Cardinality(1..k) = k
    BY <1>1, FS_Interval
  <1>3. IsFiniteSet({u}) /\ Cardinality({u}) = 1
    BY FS_Singleton
  <1>4. IsFiniteSet({u} \X (1..k)) /\ Cardinality({u} \X (1..k)) = 1 * k
    BY <1>2, <1>3, FS_Product
  <1>5. Cardinality({u} \X (1..k)) = k
    BY <1>1, <1>4
  <1> QED
    BY <1>4, <1>5 DEF Row, k

\* Units in terms of rows.
LEMMA UnitsAreRows ==
    ASSUME NEW reqs, NEW n
    PROVE  Units(reqs, n) = UNION {Row(u, reqs[u], n) : u \in DOMAIN reqs}
  BY DEF Units, Row

\* Storing a new pod adds exactly its row.
LEMMA UnitsOfMapSet ==
    ASSUME NEW reqs, NEW u, u \notin DOMAIN reqs, NEW req, NEW n
    PROVE  /\ Units(MapSet(reqs, u, req), n) = Units(reqs, n) \cup Row(u, req, n)
           /\ Units(reqs, n) \cap Row(u, req, n) = {}
  <1> DEFINE new == MapSet(reqs, u, req)
  <1>1. DOMAIN new = DOMAIN reqs \cup {u} /\ new[u] = req
        /\ \A x \in DOMAIN reqs : new[x] = reqs[x]
    BY DEF MapSet
  <1> HIDE DEF new
  <1>2. ASSUME NEW x \in DOMAIN new
        PROVE  Row(x, new[x], n) = IF x = u THEN Row(u, req, n) ELSE Row(x, reqs[x], n)
    BY <1>1, <1>2
  <1>3. Units(new, n) = Units(reqs, n) \cup Row(u, req, n)
    BY <1>1, <1>2, UnitsAreRows
  <1>4. ASSUME NEW x \in DOMAIN reqs
        PROVE  Row(x, reqs[x], n) \cap Row(u, req, n) = {}
    BY DEF Row
  <1>5. Units(reqs, n) \cap Row(u, req, n) = {}
    BY <1>4, UnitsAreRows
  <1> QED
    BY <1>3, <1>5 DEF new

\* Deleting a stored pod takes exactly its row away.
LEMMA UnitsOfMapDelete ==
    ASSUME NEW reqs, NEW u \in DOMAIN reqs, NEW n
    PROVE  /\ Units(reqs, n) = Units(MapDelete(reqs, u), n) \cup Row(u, reqs[u], n)
           /\ Units(MapDelete(reqs, u), n) \cap Row(u, reqs[u], n) = {}
  <1> DEFINE rest == MapDelete(reqs, u)
  <1>1. DOMAIN rest = DOMAIN reqs \ {u} /\ \A x \in DOMAIN rest : rest[x] = reqs[x]
    BY DEF MapDelete
  <1> HIDE DEF rest
  <1>2. Units(reqs, n) = Units(rest, n) \cup Row(u, reqs[u], n)
    BY <1>1, UnitsAreRows
  <1>3. ASSUME NEW x \in DOMAIN rest
        PROVE  Row(x, rest[x], n) \cap Row(u, reqs[u], n) = {}
    BY <1>1 DEF Row
  <1>4. Units(rest, n) \cap Row(u, reqs[u], n) = {}
    BY <1>3, UnitsAreRows
  <1> QED
    BY <1>2, <1>4 DEF rest

\* A fresh ledger agrees with its (no) entries.
LEMMA NewQuotaConsistent ==
    ASSUME NEW max
    PROVE  Consistent(NewQuota(max))
  <1> DEFINE none == [u \in {} |-> NoResources]
  <1>1. \A n : Units(none, n) = {}
    BY DEF Units
  <1>2. \A n : IsFiniteSet(Units(none, n))
    BY <1>1, FS_EmptySet
  <1> QED
    BY <1>2 DEF Consistent, NewQuota, NoResources

\* SetMax touches neither the total nor the entries.
LEMMA SetMaxConsistent ==
    ASSUME NEW max0, NEW used, NEW m, NEW max,
           Consistent([max |-> max0, used |-> used, podsByID |-> m])
    PROVE  Consistent(SetMax([max |-> max0, used |-> used, podsByID |-> m], max))
  BY DEF SetMax, Consistent

\* AddPodIfNotPresent keeps a ledger in agreement with its entries.
LEMMA AddPodConsistent ==
    ASSUME NEW max, NEW used, NEW m, NEW pod, IsReq(pod.req),
           Consistent([max |-> max, used |-> used, podsByID |-> m])
    PROVE  Consistent(AddPodIfNotPresent([max |-> max, used |-> used, podsByID |-> m], pod))
  <1> DEFINE q == [max |-> max, used |-> used, podsByID |-> m]
             u == pod.uid
             r == FromPodReq(pod.req)
             m1 == MapSet(m, u, pod.req)
             used1 == Add(used, r)
  <1>0. CASE u \in DOMAIN m
    BY <1>0 DEF AddPodIfNotPresent, ContainsPod
  <1>1. CASE u \notin DOMAIN m
    <2>1. AddPodIfNotPresent(q, pod) = [max |-> max, used |-> used1, podsByID |-> m1]
      BY <1>1 DEF AddPodIfNotPresent, ContainsPod
    <2>2. /\ \A n : IsFiniteSet(Units(m, n))
          /\ \A x \in DOMAIN m : DOMAIN FromPodReq(m[x]) \subseteq DOMAIN used
          /\ \A n \in DOMAIN used : used[n] = Requested(m, n)
      BY DEF Consistent
    <2>3. ASSUME NEW n
          PROVE  /\ IsFiniteSet(Units(m1, n))
                 /\ Requested(m, n) \in Nat
                 /\ Requested(m1, n) = Requested(m, n) + Qty(r, n)
      <3>1. Units(m1, n) = Units(m, n) \cup Row(u, pod.req, n)
            /\ Units(m, n) \cap Row(u, pod.req, n) = {}
        BY <1>1, UnitsOfMapSet
      <3>2. IsFiniteSet(Row(u, pod.req, n)) /\ Cardinality(Row(u, pod.req, n)) = Qty(r, n)
        BY RowSize
      <3>3. IsFiniteSet(Units(m, n)) /\ Cardinality(Units(m, n)) \in Nat
        BY <2>2, FS_CardinalityType
      <3>4. Qty(r, n) \in Nat
        BY QtyOfRequest
      <3>5. IsFiniteSet(Units(m1, n))
            /\ Cardinality(Units(m1, n)) = Cardinality(Units(m, n)) + Qty(r, n) - 0
        BY <3>1, <3>2, <3>3, FS_Union, FS_EmptySet
      <3> QED
        BY <3>3, <3>4, <3>5 DEF Requested
    <2>4. \A n : n \notin DOMAIN r => Qty(r, n) = 0
      BY QtyOfRequest
    <2>5. DOMAIN used1 = DOMAIN used \cup DOMAIN r
          /\ \A n \in DOMAIN used1 :
                used1[n] = IF n \in DOMAIN used THEN used[n] + Qty(r, n) ELSE r[n]
      BY DEF Add, getResNames
    <2>6. ASSUME NEW n, n \notin DOMAIN used
          PROVE  Requested(m, n) = 0
      <3>1. \A x \in DOMAIN m : n \notin DOMAIN FromPodReq(m[x])
        BY <2>2, <2>6
      <3>2. \A x \in DOMAIN m : Qty(FromPodReq(m[x]), n) = 0
        BY <3>1 DEF Qty
      <3>3. \A x \in DOMAIN m : Row(x, m[x], n) = {}
        BY <3>2 DEF Row
      <3>4. Units(m, n) = {}
        BY <3>3, UnitsAreRows
      <3> QED
        BY <3>4, FS_EmptySet DEF Requested
    <2>7. \A n \in DOMAIN used1 : used1[n] = Requested(m1, n)
      <3> SUFFICES ASSUME NEW n \in DOMAIN used1 PROVE used1[n] = Requested(m1, n)
        OBVIOUS
      <3>1. CASE n \in DOMAIN used
        BY <3>1, <2>2, <2>3, <2>5
      <3>2. CASE n \notin DOMAIN used
        <4>1. used1[n] = Qty(r, n) /\ Qty(r, n) \in Nat
          BY <3>2, <2>5, QtyOfRequest DEF Qty
        <4>2. Requested(m1, n) = 0 + Qty(r, n)
          BY <3>2, <2>3, <2>6
        <4> QED
          BY <4>1, <4>2
      <3> QED
        BY <3>1, <3>2
    <2>8. \A x \in DOMAIN m1 : DOMAIN FromPodReq(m1[x]) \subseteq DOMAIN used1
      BY <2>2, <2>5 DEF MapSet
    <2> HIDE DEF m1, used1
    <2> QED
      BY <2>1, <2>3, <2>7, <2>8 DEF Consistent
  <1> QED
    BY <1>0, <1>1

\* DeletePodIfPresent keeps the agreement when the pod passed in asks for
\* what it asked for when it was added.
LEMMA DeletePodConsistent ==
    ASSUME NEW max, NEW used, NEW m, NEW pod, IsReq(pod.req),
           pod.uid \in DOMAIN m => m[pod.uid] = pod.req,
           Consistent([max |-> max, used |-> used, podsByID |-> m])
    PROVE  Consistent(DeletePodIfPresent([max |-> max, used |-> used, podsByID |-> m], pod))
  <1> DEFINE q == [max |-> max, used |-> used, podsByID |-> m]
             u == pod.uid
             r == FromPodReq(pod.req)
             m1 == MapDelete(m, u)
             used1 == Sub(used, r)
  <1>0. CASE u \notin DOMAIN m
    BY <1>0 DEF DeletePodIfPresent, ContainsPod
  <1>1. CASE u \in DOMAIN m
    <2>1. DeletePodIfPresent(q, pod) = [max |-> max, used |-> used1, podsByID |-> m1]
      BY <1>1 DEF DeletePodIfPresent, ContainsPod
    <2>2. /\ \A n : IsFiniteSet(Units(m, n))
          /\ \A x \in DOMAIN m : DOMAIN FromPodReq(m[x]) \subseteq DOMAIN used
          /\ \A n \in DOMAIN used : used[n] = Requested(m, n)
      BY DEF Consistent
    <2>3. ASSUME NEW n
          PROVE  /\ IsFiniteSet(Units(m1, n))
                 /\ Requested(m1, n) \in Nat
                 /\ Requested(m, n) = Requested(m1, n) + Qty(r, n)
      <3>1. Units(m, n) = Units(m1, n) \cup Row(u, pod.req, n)
            /\ Units(m1, n) \cap Row(u, pod.req, n) = {}
        BY <1>1, UnitsOfMapDelete
      <3>2. IsFiniteSet(Row(u, pod.req, n)) /\ Cardinality(Row(u, pod.req, n)) = Qty(r, n)
        BY RowSize
      <3>3. IsFiniteSet(Units(m1, n)) /\ Cardinality(Units(m1, n)) \in Nat
        BY <2>2, <3>1, FS_Subset, FS_CardinalityType
      <3>4. Qty(r, n) \in Nat
        BY QtyOfRequest
      <3>5. Cardinality(Units(m, n)) = Cardinality(Units(m1, n)) + Qty(r, n) - 0
        BY <3>1, <3>2, <3>3, FS_Union, FS_EmptySet
      <3> QED
        BY <3>3, <3>4, <3>5 DEF Requested
    <2>4. DOMAIN r \subseteq DOMAIN used
      BY <1>1, <2>2
    <2>5. DOMAIN used1 = DOMAIN used
          /\ \A n \in DOMAIN used1 : used1[n] = used[n] - Qty(r, n)
      BY <2>4 DEF Sub, getResNames
    <2>6. ASSUME NEW n \in DOMAIN used1
          PROVE  used1[n] = Requested(m1, n)
      <3>1. used1[n] = Requested(m, n) - Qty(r, n)
        BY <2>2, <2>5
      <3>2. Qty(r, n) \in Nat
        BY QtyOfRequest
      <3> QED
        BY <2>3, <3>1, <3>2
    <2>7. \A x \in DOMAIN m1 : DOMAIN FromPodReq(m1[x]) \subseteq DOMAIN used1
      BY <2>2, <2>5 DEF MapDelete
    <2> HIDE DEF m1, used1
    <2> QED
      BY <2>1, <2>3, <2>6, <2>7 DEF Consistent
  <1> QED
    BY <1>0, <1>1

\* The inductive form implies the property the runs check.
LEMMA ConsistentIsExact ==
    ASSUME NEW q, Consistent(q)
    PROVE  Exact(q)
  <1>1. RequestNames(q.podsByID) \subseteq DOMAIN q.used
    BY DEF Consistent, RequestNames
  <1> QED
    BY <1>1 DEF Exact, Consistent, Qty

-----------------------------------------------------------------------------
(* Ledgers compared.                                                       *)

\* Finitely many pods request finitely many units.
LEMMA FiniteUnits ==
    ASSUME NEW reqs, IsFiniteSet(DOMAIN reqs), \A u \in DOMAIN reqs : IsReq(reqs[u]), NEW n
    PROVE  IsFiniteSet(Units(reqs, n))
  <1> DEFINE rows == {Row(u, reqs[u], n) : u \in DOMAIN reqs}
             f == [u \in DOMAIN reqs |-> Row(u, reqs[u], n)]
  <1>1. f \in Surjection(DOMAIN reqs, rows)
    BY DEF Surjection
  <1>2. IsFiniteSet(rows)
    BY <1>1, FS_Surjection
  <1>3. \A row \in rows : IsFiniteSet(row)
    BY RowSize
  <1>4. IsFiniteSet(UNION rows)
    BY <1>2, <1>3, FS_UNION
  <1> QED
    BY <1>4, UnitsAreRows

\* The pods of m1 are among those of m, with the same requests.
SubMap(m1, m) == DOMAIN m1 \subseteq DOMAIN m /\ \A u \in DOMAIN m1 : m1[u] = m[u]

\* Fewer pods request no more.
LEMMA SubMapRequests ==
    ASSUME NEW m, NEW m1, SubMap(m1, m), NEW n, IsFiniteSet(Units(m, n))
    PROVE  /\ IsFiniteSet(Units(m1, n))
           /\ Requested(m1, n) \in Nat /\ Requested(m, n) \in Nat
           /\ Requested(m1, n) <= Requested(m, n)
  <1>1. Units(m1, n) \subseteq Units(m, n)
    BY UnitsAreRows DEF SubMap
  <1>2. IsFiniteSet(Units(m1, n)) /\ Cardinality(Units(m1, n)) <= Cardinality(Units(m, n))
    BY <1>1, FS_Subset
  <1> QED
    BY <1>2, FS_CardinalityType DEF Requested

\* They leave room for the request of a pod that is not among them.
LEMMA SubMapRoom ==
    ASSUME NEW m, NEW m1, SubMap(m1, m), NEW u \in DOMAIN m \ DOMAIN m1, IsReq(m[u]),
           NEW n, IsFiniteSet(Units(m, n))
    PROVE  Requested(m1, n) + Qty(FromPodReq(m[u]), n) <= Requested(m, n)
  <1> DEFINE rest == MapDelete(m, u)
             row == Row(u, m[u], n)
             k == Qty(FromPodReq(m[u]), n)
  <1>1. Units(m, n) = Units(rest, n) \cup row /\ Units(rest, n) \cap row = {}
    BY UnitsOfMapDelete
  <1>2. IsFiniteSet(row) /\ Cardinality(row) = k /\ k \in Nat
    BY RowSize, QtyOfRequest
  <1>3. SubMap(m1, rest) /\ SubMap(rest, m)
    BY DEF SubMap, MapDelete
  <1> HIDE DEF rest, row, k
  <1>4. /\ IsFiniteSet(Units(rest, n)) /\ Requested(rest, n) \in Nat
        /\ Requested(m1, n) \in Nat /\ Requested(m1, n) <= Requested(rest, n)
    BY <1>3, SubMapRequests
  <1>5. Cardinality(Units(m, n)) = Cardinality(Units(rest, n)) + Cardinality(row)
    <2>1. Cardinality(Units(m, n)) =
             Cardinality(Units(rest, n)) + Cardinality(row) - Cardinality(Units(rest, n) \cap row)
      BY <1>1, <1>2, <1>4, FS_Union
    <2>2. Cardinality(Units(rest, n) \cap row) = 0
      BY <1>1, FS_EmptySet
    <2> QED
      BY <1>2, <1>4, <2>1, <2>2 DEF Requested
  <1>6. Requested(m, n) = Requested(rest, n) + k
    BY <1>2, <1>5 DEF Requested
  <1> QED
    BY <1>2, <1>4, <1>6 DEF k

\* A name that no request mentions is not requested.
LEMMA NameNotRequested ==
    ASSUME NEW m, NEW n, \A x \in DOMAIN m : n \notin DOMAIN FromPodReq(m[x])
    PROVE  Requested(m, n) = 0
  <1>1. \A x \in DOMAIN m : Qty(FromPodReq(m[x]), n) = 0
    BY DEF Qty
  <1>2. \A x \in DOMAIN m : Row(x, m[x], n) = {}
    BY <1>1 DEF Row
  <1>3. Units(m, n) = {}
    BY <1>2, UnitsAreRows
  <1> QED
    BY <1>3, FS_EmptySet DEF Requested

\* A name that a ledger does not carry is requested by none of its pods.
LEMMA NameNotCarried ==
    ASSUME NEW q, Consistent(q), NEW n, n \notin DOMAIN q.used
    PROVE  Requested(q.podsByID, n) = 0
  <1>1. \A x \in DOMAIN q.podsByID : n \notin DOMAIN FromPodReq(q.podsByID[x])
    BY DEF Consistent
  <1> QED
    BY <1>1, NameNotRequested

\* The total of a ledger, for every name.
LEMMA ConsistentQty ==
    ASSUME NEW q, Consistent(q), NEW n
    PROVE  /\ Qty(q.used, n) = Requested(q.podsByID, n)
           /\ Requested(q.podsByID, n) \in Nat
  <1>1. IsFiniteSet(Units(q.podsByID, n))
    BY DEF Consistent
  <1> QED
    BY <1>1, NameNotCarried, FS_CardinalityType DEF Consistent, Qty, Requested

\* Pods counted in on top of a ledger (the snapshot PreFilter checks).
LEMMA AddPodsConsistent ==
    ASSUME NEW q, q = [max |-> q.max, used |-> q.used, podsByID |-> q.podsByID], Consistent(q),
           NEW reqs, IsFiniteSet(DOMAIN reqs), \A u \in DOMAIN reqs : IsReq(reqs[u])
    PROVE  LET s == AddPodsIfNotPresent(q, reqs)
           IN  /\ Consistent(s)
               /\ s.max = q.max
               /\ DOMAIN q.used \subseteq DOMAIN s.used
               /\ \A n \in DOMAIN s.used :
                     \/ n \in DOMAIN q.used
                     \/ \E u \in DOMAIN reqs : n \in DOMAIN FromPodReq(reqs[u])
               /\ DOMAIN s.podsByID = DOMAIN q.podsByID \cup DOMAIN reqs
               /\ \A u \in DOMAIN q.podsByID : s.podsByID[u] = q.podsByID[u]
               /\ \A u \in DOMAIN reqs \ DOMAIN q.podsByID : s.podsByID[u] = reqs[u]
  <1> DEFINE max == q.max
             used == q.used
             m == q.podsByID
             fresh == [u \in DOMAIN reqs \ DOMAIN m |-> reqs[u]]
             m1 == [u \in DOMAIN m \cup DOMAIN fresh |->
                       IF u \in DOMAIN fresh THEN fresh[u] ELSE m[u]]
             used1 == [n \in DOMAIN used \cup RequestNames(fresh) |->
                          Qty(used, n) + Requested(fresh, n)]
  <1>1. AddPodsIfNotPresent(q, reqs) = [max |-> max, used |-> used1, podsByID |-> m1]
    <2>1. AddPodsIfNotPresent(q, reqs) = [q EXCEPT !.podsByID = m1, !.used = used1]
      BY Zenon DEF AddPodsIfNotPresent
    <2> HIDE DEF m1, used1
    <2> QED
      BY <2>1
  <1>2. /\ DOMAIN fresh = DOMAIN reqs \ DOMAIN m
        /\ \A u \in DOMAIN fresh : fresh[u] = reqs[u] /\ IsReq(fresh[u])
    OBVIOUS
  <1> HIDE DEF fresh
  <1>3. /\ DOMAIN m1 = DOMAIN m \cup DOMAIN reqs
        /\ \A u \in DOMAIN m : m1[u] = m[u]
        /\ \A u \in DOMAIN fresh : m1[u] = fresh[u]
    BY <1>2
  <1>4. IsFiniteSet(DOMAIN fresh)
    BY <1>2, FS_Subset
  <1>5. /\ DOMAIN used1 = DOMAIN used \cup RequestNames(fresh)
        /\ \A n \in DOMAIN used1 : used1[n] = Qty(used, n) + Requested(fresh, n)
    OBVIOUS
  <1> HIDE DEF m1, used1
  <1>6. ASSUME NEW n
        PROVE  /\ IsFiniteSet(Units(m1, n))
               /\ Requested(m1, n) = Requested(m, n) + Requested(fresh, n)
    <2>1. Units(m1, n) = Units(m, n) \cup Units(fresh, n)
      <3>1. \A u \in DOMAIN m : Row(u, m1[u], n) = Row(u, m[u], n)
        BY <1>3
      <3>2. \A u \in DOMAIN fresh : Row(u, m1[u], n) = Row(u, fresh[u], n)
        BY <1>3
      <3>3. DOMAIN m1 = DOMAIN m \cup DOMAIN fresh
        BY <1>2, <1>3
      <3> QED
        BY <3>1, <3>2, <3>3, UnitsAreRows
    <2>2. Units(m, n) \cap Units(fresh, n) = {}
      BY <1>2 DEF Units
    <2>3. IsFiniteSet(Units(m, n)) /\ IsFiniteSet(Units(fresh, n))
      BY <1>2, <1>4, FiniteUnits DEF Consistent
    <2>4. /\ IsFiniteSet(Units(m1, n))
          /\ Cardinality(Units(m1, n)) = Cardinality(Units(m, n)) + Cardinality(Units(fresh, n)) - 0
      BY <2>1, <2>2, <2>3, FS_Union, FS_EmptySet
    <2>5. Cardinality(Units(m, n)) \in Nat /\ Cardinality(Units(fresh, n)) \in Nat
      BY <2>3, FS_CardinalityType
    <2> QED
      BY <2>4, <2>5 DEF Requested
  <1>7. \A n \in DOMAIN used1 : used1[n] = Requested(m1, n)
    <2>1. \A n : Qty(used, n) = Requested(m, n)
      BY ConsistentQty
    <2> QED
      BY <1>5, <1>6, <2>1
  <1>8. \A u \in DOMAIN m1 : DOMAIN FromPodReq(m1[u]) \subseteq DOMAIN used1
    <2>1. \A u \in DOMAIN m : DOMAIN FromPodReq(m[u]) \subseteq DOMAIN used
      BY DEF Consistent
    <2>2. \A u \in DOMAIN fresh : DOMAIN FromPodReq(fresh[u]) \subseteq RequestNames(fresh)
      BY DEF RequestNames
    <2> QED
      BY <1>2, <1>3, <1>5, <2>1, <2>2
  <1>9. Consistent([max |-> max, used |-> used1, podsByID |-> m1])
    BY <1>6, <1>7, <1>8 DEF Consistent
  <1> DEFINE s == AddPodsIfNotPresent(q, reqs)
  <1>10. Consistent(s) /\ s.max = max /\ s.used = used1 /\ s.podsByID = m1
    BY <1>1, <1>9
  <1> HIDE DEF s
  <1>11. /\ DOMAIN s.podsByID = DOMAIN m \cup DOMAIN reqs
         /\ \A u \in DOMAIN m : s.podsByID[u] = m[u]
         /\ \A u \in DOMAIN reqs \ DOMAIN m : s.podsByID[u] = reqs[u]
    BY <1>2, <1>3, <1>10
  <1>12. \A n \in RequestNames(fresh) : \E u \in DOMAIN reqs : n \in DOMAIN FromPodReq(reqs[u])
    BY <1>2 DEF RequestNames
  <1>13. /\ DOMAIN used \subseteq DOMAIN s.used
         /\ \A n \in DOMAIN s.used :
               n \in DOMAIN used \/ \E u \in DOMAIN reqs : n \in DOMAIN FromPodReq(reqs[u])
    BY <1>5, <1>10, <1>12
  <1> QED
    BY <1>10, <1>11, <1>13 DEF s

\* What the quota check asks of a ledger that agrees with its entries.
LEMMA OverMaxMeans ==
    ASSUME NEW q, Consistent(q), NEW req, IsReq(req)
    PROVE  LET r == FromPodReq(req)
           IN  WouldPutOverMax(q, r) <=>
                   \E n \in (DOMAIN q.used \cup DOMAIN r) \cap DOMAIN q.max :
                       Requested(q.podsByID, n) + Qty(r, n) > q.max[n]
  <1> DEFINE r == FromPodReq(req)
             sum == Plus(q.used, r)
  <1>1. DOMAIN sum = DOMAIN q.used \cup DOMAIN r
    BY DEF Plus, Add, getResNames
  <1>2. ASSUME NEW n \in DOMAIN sum
        PROVE  sum[n] = Requested(q.podsByID, n) + Qty(r, n)
    <2>1. Qty(r, n) \in Nat
      BY QtyOfRequest
    <2>2. Requested(q.podsByID, n) \in Nat /\ Qty(q.used, n) = Requested(q.podsByID, n)
      BY ConsistentQty
    <2>3. sum[n] = IF n \in DOMAIN q.used THEN q.used[n] + Qty(r, n) ELSE r[n]
      BY <1>2 DEF Plus, Add, getResNames
    <2> QED
      BY <1>1, <2>1, <2>2, <2>3 DEF Qty
  <1> HIDE DEF sum, r
  <1>3. WouldPutOverMax(q, r) <=> \E n \in DOMAIN sum \cap DOMAIN q.max : sum[n] > q.max[n]
    BY DEF WouldPutOverMax, AnyGreaterIntersecting, sum
  <1> QED
    BY <1>1, <1>2, <1>3 DEF r

\* A ledger is no larger than another.
NoLarger(q1, q) ==
    /\ q1.max = q.max
    /\ DOMAIN q1.used \subseteq DOMAIN q.used
    /\ SubMap(q1.podsByID, q.podsByID)

\* What fits a ledger fits a smaller one.
LEMMA FitsSmaller ==
    ASSUME NEW q, Consistent(q), NEW q1, Consistent(q1), NoLarger(q1, q),
           \A n \in DOMAIN q.max : q.max[n] \in Int,
           NEW req, IsReq(req), ~WouldPutOverMax(q, FromPodReq(req))
    PROVE  ~WouldPutOverMax(q1, FromPodReq(req))
  <1> DEFINE r == FromPodReq(req)
  <1>1. \A n : /\ Requested(q1.podsByID, n) \in Nat /\ Requested(q.podsByID, n) \in Nat
               /\ Requested(q1.podsByID, n) <= Requested(q.podsByID, n)
    BY SubMapRequests DEF Consistent, NoLarger
  <1>2. \A n : Qty(r, n) \in Nat
    BY QtyOfRequest
  <1>3. \A n \in (DOMAIN q.used \cup DOMAIN r) \cap DOMAIN q.max :
           ~(Requested(q.podsByID, n) + Qty(r, n) > q.max[n])
    BY OverMaxMeans
  <1> HIDE DEF r
  <1>4. \A n \in (DOMAIN q1.used \cup DOMAIN r) \cap DOMAIN q1.max :
           ~(Requested(q1.podsByID, n) + Qty(r, n) > q1.max[n])
    BY <1>1, <1>2, <1>3 DEF NoLarger
  <1> QED
    BY <1>4, OverMaxMeans DEF r

\* What being within the maximum means for such a ledger.
LEMMA WithinMaxMeans ==
    ASSUME NEW q, Consistent(q), \A n \in DOMAIN q.max : q.max[n] \in Int
    PROVE  WithinMax(q) <=>
               \A n \in DOMAIN q.used \cap DOMAIN q.max : Requested(q.podsByID, n) <= q.max[n]
  <1>1. \A n \in DOMAIN q.used : q.used[n] = Requested(q.podsByID, n)
    BY DEF Consistent
  <1>2. \A n : Requested(q.podsByID, n) \in Nat
    BY ConsistentQty
  <1> QED
    BY <1>1, <1>2 DEF WithinMax, AnyGreaterIntersecting

\* A pod that fits leaves the ledger within its maximum.
LEMMA AddPodWithinMax ==
    ASSUME NEW max, NEW used, NEW m, NEW pod, IsReq(pod.req),
           Consistent([max |-> max, used |-> used, podsByID |-> m]),
           WithinMax([max |-> max, used |-> used, podsByID |-> m]),
           ~WouldPutOverMax([max |-> max, used |-> used, podsByID |-> m], FromPodReq(pod.req))
    PROVE  WithinMax(AddPodIfNotPresent([max |-> max, used |-> used, podsByID |-> m], pod))
  BY DEF AddPodIfNotPresent, ContainsPod, WouldPutOverMax, WithinMax, Plus

\* A smaller ledger stays within the maximum.
LEMMA WithinMaxSmaller ==
    ASSUME NEW q, Consistent(q), NEW q1, Consistent(q1), NoLarger(q1, q),
           \A n \in DOMAIN q.max : q.max[n] \in Int, WithinMax(q)
    PROVE  WithinMax(q1)
  <1>1. \A n : /\ Requested(q1.podsByID, n) \in Nat /\ Requested(q.podsByID, n) \in Nat
               /\ Requested(q1.podsByID, n) <= Requested(q.podsByID, n)
    BY SubMapRequests DEF Consistent, NoLarger
  <1>2. \A n \in DOMAIN q.used \cap DOMAIN q.max : Requested(q.podsByID, n) <= q.max[n]
    BY WithinMaxMeans
  <1>3. \A n \in DOMAIN q1.used \cap DOMAIN q1.max : Requested(q1.podsByID, n) <= q1.max[n]
    BY <1>1, <1>2 DEF NoLarger
  <1>4. \A n \in DOMAIN q1.max : q1.max[n] \in Int
    BY DEF NoLarger
  <1> QED
    BY <1>3, <1>4, WithinMaxMeans
=============================================================================
