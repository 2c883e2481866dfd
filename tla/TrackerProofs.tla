---------------------------- MODULE TrackerProofs ----------------------------
(***************************************************************************)
(* The total of the cluster's resources loses no name of a node, and is    *)
(* exact while the node watch holds: theorems about StatusLoop, where      *)
(* ClusterTracker runs beside the status loop and the process may restart. *)
(*                                                                         *)
(* They hold for nodes whose allocatable resources do not change; the run  *)
(* node_changed shows why.                                                 *)
(***************************************************************************)
EXTENDS StatusLoop, FiniteSetTheorems, SequenceTheorems, TLAPS

\* The nodes there have been.
Known == DOMAIN nodes \cup gone

IsCall(i, kind, u) == calls[i].call = kind /\ calls[i].node.uid = u

\* The calls that wait and report nodes of the sizes in size.  An update of a
\* relist may be from another node, of another size.
SizedCalls(size) ==
    {c \in [call : {"add", "update", "delete", "tombstone"},
            old : Allocatables, node : [uid : Nodes, alloc : Allocatables]] :
        /\ c.node.uid \in DOMAIN size
        /\ c.node.alloc = size[c.node.uid]}

\* The units of resource n that node u of size a provides.
NodeUnits(u, a, n) == {u} \X (1..Qty(a, n))

\* The units that the nodes in S provide.
UnitsOf(size, S, n) == UNION {NodeUnits(u, size[u], n) : u \in S}

\* The total t is what the nodes in S provide, name by name.
Totals(size, S, t) ==
    /\ \A n : IsFiniteSet(UnitsOf(size, S, n))
    /\ \A u \in S : DOMAIN size[u] \subseteq DOMAIN t
    /\ \A n \in DOMAIN t : t[n] = Cardinality(UnitsOf(size, S, n))

\* Every node has one size for ever, and the aggregator counts it with it.
SizedBy(size) ==
    /\ size \in [Known -> Allocatables]
    /\ \A u \in DOMAIN nodes : nodes[u] = size[u]
    /\ \A u \in DOMAIN store : u \in Known /\ store[u] = size[u]
    /\ calls \in Seq(SizedCalls(size))
    /\ nodeIDs \subseteq Known
    /\ Totals(size, nodeIDs, total)

SizeInv ==
    /\ Known \subseteq Nodes /\ IsFiniteSet(Known)
    /\ \E size \in [Known -> Allocatables] : SizedBy(size)

\* Node v stands in for node u: it is u or an earlier node of its name, it is
\* counted or about to be, and nothing that waits takes it off.
StandsIn(v, u) ==
    /\ nameOf[v] = nameOf[u] /\ (v = u \/ v \in gone)
    /\ v \in nodeIDs \/ \E i \in DOMAIN calls : IsCall(i, "add", v)
    /\ \A i \in DOMAIN calls : ~IsCall(i, "delete", v)

\* Names are unique, and every node in the informer's cache has one that
\* stands in for it.
CountInv ==
    /\ watchUp => store = nodes
    /\ DOMAIN nodes \cap gone = {}
    /\ \A u, v \in DOMAIN nodes : nameOf[u] = nameOf[v] => u = v
    /\ \A i \in DOMAIN calls :
          calls[i].call \in {"delete", "tombstone"} => calls[i].node.uid \in gone \ DOMAIN store
    /\ \A u \in DOMAIN store : \E v : StandsIn(v, u)

\* As long as the watch holds, updates are of one node, and a node that is gone
\* and counted, or about to be counted, is about to be taken off.
LeaveInv ==
    losses = 0 =>
        /\ watchUp
        /\ \A i \in DOMAIN calls : calls[i].call # "tombstone"
        /\ \A i \in DOMAIN calls : calls[i].call = "update" => calls[i].old = calls[i].node.alloc
        /\ \A u \in nodeIDs :
              u \in DOMAIN store \/ \E i \in DOMAIN calls : IsCall(i, "delete", u)
        /\ \A i \in DOMAIN calls : calls[i].call = "add" =>
              \/ calls[i].node.uid \in DOMAIN store
              \/ \E j \in DOMAIN calls : j > i /\ IsCall(j, "delete", calls[i].node.uid)

\* The inductive invariant.
TrackerInv == SizeInv /\ CountInv /\ LeaveInv /\ losses \in Nat

-----------------------------------------------------------------------------
(* Totals of nodes of natural sizes.                                       *)

IsSize(a) == \A n \in DOMAIN a : a[n] \in Nat

\* A row of units is as long as the node is large.
LEMMA NodeRow ==
    ASSUME NEW u, NEW a, IsSize(a), NEW n
    PROVE  /\ Qty(a, n) \in Nat
           /\ IsFiniteSet(NodeUnits(u, a, n))
           /\ Cardinality(NodeUnits(u, a, n)) = Qty(a, n)
  <1> DEFINE k == Qty(a, n)
  <1>1. k \in Nat
    BY DEF Qty, IsSize
  <1> HIDE DEF k
  <1>2. IsFiniteSet(1..k) /\ Cardinality(1..k) = k
    BY <1>1, FS_Interval
  <1>3. IsFiniteSet({u}) /\ Cardinality({u}) = 1
    BY FS_Singleton
  <1>4. IsFiniteSet({u} \X (1..k)) /\ Cardinality({u} \X (1..k)) = 1 * k
    BY <1>2, <1>3, FS_Product
  <1> QED
    BY <1>1, <1>4 DEF k, NodeUnits

\* One more node adds its row to the units, and nothing else.
LEMMA OneMoreNode ==
    ASSUME NEW size, NEW S, NEW u, u \notin S, IsSize(size[u]), NEW n,
           IsFiniteSet(UnitsOf(size, S, n))
    PROVE  /\ Qty(size[u], n) \in Nat
           /\ Cardinality(UnitsOf(size, S, n)) \in Nat
           /\ IsFiniteSet(UnitsOf(size, S \cup {u}, n))
           /\ Cardinality(UnitsOf(size, S \cup {u}, n)) =
                 Cardinality(UnitsOf(size, S, n)) + Qty(size[u], n)
  <1> DEFINE row == NodeUnits(u, size[u], n)
             units == UnitsOf(size, S, n)
  <1>1. UnitsOf(size, S \cup {u}, n) = units \cup row /\ units \cap row = {}
    <2>1. \A x \in S : NodeUnits(x, size[x], n) \cap row = {}
      BY DEF NodeUnits
    <2>2. UnitsOf(size, S \cup {u}, n) = units \cup row
      BY DEF UnitsOf
    <2>3. units \cap row = {}
      BY <2>1 DEF UnitsOf
    <2> QED
      BY <2>2, <2>3
  <1>2. /\ Qty(size[u], n) \in Nat
        /\ IsFiniteSet(row) /\ Cardinality(row) = Qty(size[u], n)
    BY NodeRow
  <1>3. IsFiniteSet(units) /\ Cardinality(units) \in Nat
    BY FS_CardinalityType
  <1> HIDE DEF row, units
  <1>4. /\ IsFiniteSet(units \cup row)
        /\ Cardinality(units \cup row) = Cardinality(units) + Cardinality(row) - Cardinality({})
    BY <1>1, <1>2, <1>3, FS_Union
  <1>5. Cardinality({}) = 0
    BY FS_EmptySet
  <1>6. Cardinality(units \cup row) = Cardinality(units) + Qty(size[u], n)
    BY <1>2, <1>3, <1>4, <1>5
  <1> QED
    BY <1>1, <1>2, <1>3, <1>4, <1>6 DEF units

\* No node that is counted provides what the total has no name for.
LEMMA UnnamedIsNone ==
    ASSUME NEW size, NEW S, NEW t, Totals(size, S, t), NEW n, n \notin DOMAIN t
    PROVE  UnitsOf(size, S, n) = {} /\ Cardinality(UnitsOf(size, S, n)) = 0
  <1>1. \A u \in S : Qty(size[u], n) = 0
    BY DEF Totals, Qty
  <1>2. \A u \in S : NodeUnits(u, size[u], n) = {}
    BY <1>1 DEF NodeUnits
  <1>3. UnitsOf(size, S, n) = {}
    BY <1>2 DEF UnitsOf
  <1> QED
    BY <1>3, FS_EmptySet

\* Add puts a node on the total.
LEMMA AddTotals ==
    ASSUME NEW size, NEW S, NEW t, NEW u, u \notin S, IsSize(size[u]), Totals(size, S, t)
    PROVE  Totals(size, S \cup {u}, Add(t, size[u]))
  <1> DEFINE t1 == Add(t, size[u])
  <1>1. DOMAIN t1 = DOMAIN t \cup DOMAIN size[u]
        /\ \A n \in DOMAIN t1 :
              t1[n] = IF n \in DOMAIN t THEN t[n] + Qty(size[u], n) ELSE Qty(size[u], n)
    BY DEF Add, getResNames, Qty
  <1>2. \A n : /\ IsFiniteSet(UnitsOf(size, S \cup {u}, n))
               /\ Cardinality(UnitsOf(size, S, n)) \in Nat
               /\ Qty(size[u], n) \in Nat
               /\ Cardinality(UnitsOf(size, S \cup {u}, n)) =
                     Cardinality(UnitsOf(size, S, n)) + Qty(size[u], n)
    BY OneMoreNode DEF Totals
  <1>3. \A x \in S \cup {u} : DOMAIN size[x] \subseteq DOMAIN t1
    BY <1>1 DEF Totals
  <1>4. ASSUME NEW n \in DOMAIN t1
        PROVE  t1[n] = Cardinality(UnitsOf(size, S \cup {u}, n))
    <2>1. CASE n \in DOMAIN t
      BY <1>1, <1>2, <2>1 DEF Totals
    <2>2. CASE n \notin DOMAIN t
      <3>1. Cardinality(UnitsOf(size, S, n)) = 0
        BY <2>2, UnnamedIsNone
      <3> QED
        <4>1. t1[n] = Qty(size[u], n) /\ Qty(size[u], n) \in Nat
          BY <1>1, <1>2, <2>2
        <4>2. Cardinality(UnitsOf(size, S \cup {u}, n)) = 0 + Qty(size[u], n)
          BY <1>2, <3>1
        <4> QED
          BY <4>1, <4>2
    <2> QED
      BY <2>1, <2>2
  <1> HIDE DEF t1
  <1>5. Totals(size, S \cup {u}, t1)
    BY <1>2, <1>3, <1>4 DEF Totals
  <1> QED
    BY <1>5 DEF t1

\* Sub takes a counted node off the total.
LEMMA SubTotals ==
    ASSUME NEW size, NEW S, NEW t, NEW u \in S, IsSize(size[u]), Totals(size, S, t)
    PROVE  Totals(size, S \ {u}, Sub(t, size[u]))
  <1> DEFINE t1 == Sub(t, size[u])
             R == S \ {u}
  <1>1. DOMAIN t1 = DOMAIN t /\ \A n \in DOMAIN t1 : t1[n] = t[n] - Qty(size[u], n)
    BY DEF Sub, getResNames, Totals
  <1>2. S = R \cup {u} /\ u \notin R
    OBVIOUS
  <1>3. \A n : IsFiniteSet(UnitsOf(size, R, n))
    <2>1. \A n : UnitsOf(size, R, n) \subseteq UnitsOf(size, S, n)
      BY DEF UnitsOf
    <2> QED
      BY <2>1, FS_Subset DEF Totals
  <1> HIDE DEF R
  <1>4. \A n : /\ Cardinality(UnitsOf(size, R, n)) \in Nat
               /\ Qty(size[u], n) \in Nat
               /\ Cardinality(UnitsOf(size, S, n)) =
                     Cardinality(UnitsOf(size, R, n)) + Qty(size[u], n)
    BY <1>2, <1>3, OneMoreNode
  <1>5. \A n \in DOMAIN t1 : t1[n] = Cardinality(UnitsOf(size, R, n))
    BY <1>1, <1>4 DEF Totals
  <1>6. \A x \in R : DOMAIN size[x] \subseteq DOMAIN t1
    BY <1>1, <1>2 DEF Totals
  <1> HIDE DEF t1
  <1>7. Totals(size, R, t1)
    BY <1>3, <1>5, <1>6 DEF Totals
  <1> QED
    BY <1>7 DEF R, t1

\* Only the sizes of the nodes that are counted matter.
LEMMA TotalsOfSame ==
    ASSUME NEW size, NEW new, NEW S, NEW t, Totals(size, S, t), \A u \in S : new[u] = size[u]
    PROVE  Totals(new, S, t)
  <1>1. \A n : UnitsOf(new, S, n) = UnitsOf(size, S, n)
    BY DEF UnitsOf
  <1> QED
    BY <1>1 DEF Totals

\* PutNode counts a node, whether it is counted already or not.
LEMMA PutTotals ==
    ASSUME NEW size, NEW c, c = [ids |-> c.ids, total |-> c.total],
           NEW node, node.alloc = size[node.uid], IsSize(size[node.uid]),
           Totals(size, c.ids, c.total)
    PROVE  /\ PutNode(c, node).ids = c.ids \cup {node.uid}
           /\ Totals(size, c.ids \cup {node.uid}, PutNode(c, node).total)
  <1> DEFINE u == node.uid
  <1>1. CASE u \in c.ids
    <2>1. Totals(size, c.ids \ {u}, Sub(c.total, size[u]))
      BY <1>1, SubTotals
    <2>2. Totals(size, (c.ids \ {u}) \cup {u}, Add(Sub(c.total, size[u]), size[u]))
      BY <2>1, AddTotals
    <2>3. PutNode(c, node) =
            [ids |-> (c.ids \ {u}) \cup {u}, total |-> Add(Sub(c.total, size[u]), size[u])]
      BY <1>1 DEF PutNode, addNoLock, deleteNoLock
    <2>4. (c.ids \ {u}) \cup {u} = c.ids \cup {u}
      OBVIOUS
    <2> QED
      BY <2>2, <2>3, <2>4
  <1>2. CASE u \notin c.ids
    <2>1. Totals(size, c.ids \cup {u}, Add(c.total, size[u]))
      BY <1>2, AddTotals
    <2>2. PutNode(c, node) = [ids |-> c.ids \cup {u}, total |-> Add(c.total, size[u])]
      BY <1>2 DEF PutNode, addNoLock, deleteNoLock
    <2> QED
      BY <2>1, <2>2
  <1> QED
    BY <1>1, <1>2

\* DeleteNode takes a node off, if it is counted.
LEMMA DeleteTotals ==
    ASSUME NEW size, NEW c, c = [ids |-> c.ids, total |-> c.total],
           NEW node, node.alloc = size[node.uid], IsSize(size[node.uid]),
           Totals(size, c.ids, c.total)
    PROVE  /\ DeleteNode(c, node).ids = c.ids \ {node.uid}
           /\ Totals(size, c.ids \ {node.uid}, DeleteNode(c, node).total)
  <1> DEFINE u == node.uid
  <1>1. CASE u \in c.ids
    BY <1>1, SubTotals DEF DeleteNode, deleteNoLock
  <1>2. CASE u \notin c.ids
    <2>1. c.ids \ {u} = c.ids /\ DeleteNode(c, node) = c
      BY <1>2 DEF DeleteNode, deleteNoLock
    <2> QED
      BY <2>1
  <1> QED
    BY <1>1, <1>2

-----------------------------------------------------------------------------
(* The informer's side: calls join those that wait, the aggregator rests.  *)

\* An index of two sequences joined is an index of one of them.
LEMMA JoinIndex ==
    ASSUME NEW C, NEW s \in Seq(C), NEW t \in Seq(C)
    PROVE  /\ s \o t \in Seq(C)
           /\ \A i \in DOMAIN (s \o t) :
                 \/ i \in DOMAIN s /\ (s \o t)[i] = s[i]
                 \/ /\ i > Len(s) /\ i - Len(s) \in DOMAIN t
                    /\ (s \o t)[i] = t[i - Len(s)]
           /\ \A i \in DOMAIN s : i \in DOMAIN (s \o t) /\ (s \o t)[i] = s[i]
           /\ \A i \in DOMAIN t :
                 i + Len(s) \in DOMAIN (s \o t) /\ (s \o t)[i + Len(s)] = t[i]
  OBVIOUS

\* Calls of size are calls of a size that knows more nodes.
LEMMA MoreSizedCalls ==
    ASSUME NEW size, NEW new, DOMAIN size \subseteq DOMAIN new,
           \A u \in DOMAIN size : new[u] = size[u]
    PROVE  Seq(SizedCalls(size)) \subseteq Seq(SizedCalls(new))
  <1>1. SizedCalls(size) \subseteq SizedCalls(new)
    BY DEF SizedCalls
  <1> QED
    BY <1>1

\* A step of the cluster or the informer that knows the sizes new.
LEMMA SizesJoin ==
    ASSUME NEW size, SizedBy(size), Known' \subseteq Nodes, IsFiniteSet(Known'), Known \subseteq Known',
           NEW new \in [Known' -> Allocatables], \A u \in Known : new[u] = size[u],
           \A u \in DOMAIN nodes' : nodes'[u] = new[u],
           \A u \in DOMAIN store' : u \in Known' /\ store'[u] = new[u],
           NEW t \in Seq(SizedCalls(new)), calls' = calls \o t,
           UNCHANGED <<nodeIDs, total>>
    PROVE  SizeInv'
  <1>1. DOMAIN size = Known /\ DOMAIN new = Known'
    BY DEF SizedBy
  <1>2. calls \in Seq(SizedCalls(new))
    BY <1>1, MoreSizedCalls DEF SizedBy
  <1>3. calls' \in Seq(SizedCalls(new))
    BY <1>2, JoinIndex
  <1>4. Totals(new, nodeIDs, total)
    BY TotalsOfSame DEF SizedBy
  <1>5. SizedBy(new)'
    BY <1>3, <1>4 DEF SizedBy
  <1> QED
    BY <1>5 DEF SizeInv

LEMMA CountJoin ==
    ASSUME CountInv, NEW C, calls \in Seq(C), NEW t \in Seq(C), calls' = calls \o t,
           watchUp' => store' = nodes', DOMAIN nodes' \cap gone' = {},
           \A u, v \in DOMAIN nodes' : nameOf[u] = nameOf[v] => u = v,
           gone \subseteq gone', DOMAIN store' \cap gone \subseteq DOMAIN store,
           \A i \in DOMAIN t :
              t[i].call \in {"delete", "tombstone"} => t[i].node.uid \in gone' \ DOMAIN store',
           \A i \in DOMAIN t : t[i].call = "delete" => t[i].node.uid \notin gone,
           \A u \in DOMAIN store' :
              \/ \E y \in DOMAIN store : nameOf[y] = nameOf[u] /\ (y = u \/ y \in gone)
              \/ \E i \in DOMAIN t : t[i].call = "add" /\ t[i].node.uid = u,
           UNCHANGED <<nameOf, nodeIDs>>
    PROVE  CountInv'
  <1>1. /\ \A i \in DOMAIN calls' :
              \/ i \in DOMAIN calls /\ calls'[i] = calls[i]
              \/ i - Len(calls) \in DOMAIN t /\ calls'[i] = t[i - Len(calls)]
        /\ \A i \in DOMAIN calls : i \in DOMAIN calls' /\ calls'[i] = calls[i]
        /\ \A i \in DOMAIN t :
              i + Len(calls) \in DOMAIN calls' /\ calls'[i + Len(calls)] = t[i]
    BY JoinIndex
  <1>2. ASSUME NEW i \in DOMAIN calls', calls'[i].call \in {"delete", "tombstone"}
        PROVE  calls'[i].node.uid \in gone' \ DOMAIN store'
    BY <1>1, <1>2 DEF CountInv
  <1>3. ASSUME NEW u \in DOMAIN store'
        PROVE  \E v : StandsIn(v, u)'
    <2>1. CASE \E y \in DOMAIN store : nameOf[y] = nameOf[u] /\ (y = u \/ y \in gone)
      <3>1. PICK y \in DOMAIN store : nameOf[y] = nameOf[u] /\ (y = u \/ y \in gone)
        BY <2>1
      <3>2. PICK v : StandsIn(v, y)
        BY DEF CountInv
      <3>3. nameOf[v] = nameOf[u] /\ (v = u \/ v \in gone)
        BY <3>1, <3>2 DEF StandsIn
      <3>4. v \in nodeIDs' \/ \E i \in DOMAIN calls' : IsCall(i, "add", v)'
        BY <1>1, <3>2 DEF StandsIn, IsCall
      <3>5. ASSUME NEW i \in DOMAIN calls', calls'[i].call = "delete", calls'[i].node.uid = v
            PROVE  FALSE
        <4>1. CASE i \in DOMAIN calls /\ calls'[i] = calls[i]
          BY <3>2, <3>5, <4>1 DEF StandsIn, IsCall
        <4>2. CASE i - Len(calls) \in DOMAIN t /\ calls'[i] = t[i - Len(calls)]
          BY <3>3, <3>5, <4>2
        <4> QED
          BY <1>1, <4>1, <4>2
      <3> QED
        BY <3>3, <3>4, <3>5 DEF StandsIn, IsCall
    <2>2. CASE \E i \in DOMAIN t : t[i].call = "add" /\ t[i].node.uid = u
      <3>1. PICK i \in DOMAIN t : t[i].call = "add" /\ t[i].node.uid = u
        BY <2>2
      <3>2. i + Len(calls) \in DOMAIN calls' /\ calls'[i + Len(calls)] = t[i]
        BY <1>1
      <3>3. \A j \in DOMAIN calls' : ~(calls'[j].call = "delete" /\ calls'[j].node.uid = u)
        BY <1>2
      <3>4. \E j \in DOMAIN calls' : calls'[j].call = "add" /\ calls'[j].node.uid = u
        BY <3>1, <3>2
      <3>5. StandsIn(u, u)'
        BY <3>3, <3>4 DEF StandsIn, IsCall
      <3> QED
        BY <3>5
    <2> QED
      BY <2>1, <2>2
  <1> QED
    BY <1>2, <1>3 DEF CountInv

LEMMA LeaveJoin ==
    ASSUME LeaveInv, NEW C, calls \in Seq(C), NEW t \in Seq(C), calls' = calls \o t,
           losses' = 0 =>
              /\ losses = 0 /\ watchUp'
              /\ \A i \in DOMAIN t : t[i].call # "tombstone"
              /\ \A i \in DOMAIN t : t[i].call = "update" => t[i].old = t[i].node.alloc
              /\ \A i \in DOMAIN t : t[i].call = "add" => t[i].node.uid \in DOMAIN store'
              /\ \A u \in DOMAIN store \ DOMAIN store' :
                    \E i \in DOMAIN t : t[i].call = "delete" /\ t[i].node.uid = u,
           nodeIDs' = nodeIDs
    PROVE  LeaveInv'
  <1> SUFFICES ASSUME losses' = 0 PROVE LeaveInv'
    BY DEF LeaveInv
  <1>0. /\ \A i \in DOMAIN calls : calls[i].call # "tombstone"
        /\ \A i \in DOMAIN calls : calls[i].call = "update" => calls[i].old = calls[i].node.alloc
        /\ \A u \in nodeIDs :
              u \in DOMAIN store \/ \E i \in DOMAIN calls : IsCall(i, "delete", u)
        /\ \A i \in DOMAIN calls : calls[i].call = "add" =>
              \/ calls[i].node.uid \in DOMAIN store
              \/ \E j \in DOMAIN calls : j > i /\ IsCall(j, "delete", calls[i].node.uid)
    BY DEF LeaveInv
  <1>1. /\ \A i \in DOMAIN calls' :
              \/ i \in DOMAIN calls /\ calls'[i] = calls[i]
              \/ i - Len(calls) \in DOMAIN t /\ calls'[i] = t[i - Len(calls)]
        /\ \A i \in DOMAIN calls : i \in DOMAIN calls' /\ calls'[i] = calls[i]
        /\ \A i \in DOMAIN t :
              i + Len(calls) \in DOMAIN calls' /\ calls'[i + Len(calls)] = t[i]
    BY JoinIndex
  <1>2. /\ \A i \in DOMAIN calls : i \in Nat /\ i <= Len(calls)
        /\ \A i \in DOMAIN t : i \in Nat /\ i > 0
        /\ Len(calls) \in Nat
    OBVIOUS
  <1>3. ASSUME NEW u \in DOMAIN store \ DOMAIN store'
        PROVE  \E j \in DOMAIN calls' :
                  j > Len(calls) /\ calls'[j].call = "delete" /\ calls'[j].node.uid = u
    <2>1. PICK i \in DOMAIN t : t[i].call = "delete" /\ t[i].node.uid = u
      BY <1>3
    <2>2. i + Len(calls) > Len(calls)
      BY <1>2
    <2> QED
      BY <1>1, <2>1, <2>2
  <1>4. /\ \A i \in DOMAIN calls' : calls'[i].call # "tombstone"
        /\ \A i \in DOMAIN calls' :
              calls'[i].call = "update" => calls'[i].old = calls'[i].node.alloc
    BY <1>0, <1>1
  <1>5. ASSUME NEW u \in nodeIDs'
        PROVE  u \in DOMAIN store' \/ \E i \in DOMAIN calls' : IsCall(i, "delete", u)'
    BY <1>0, <1>1, <1>3 DEF IsCall
  <1>6. ASSUME NEW i \in DOMAIN calls', calls'[i].call = "add"
        PROVE  \/ calls'[i].node.uid \in DOMAIN store'
               \/ \E j \in DOMAIN calls' : j > i /\ IsCall(j, "delete", calls[i].node.uid)'
    <2>1. CASE i \in DOMAIN calls /\ calls'[i] = calls[i]
      <3>1. CASE calls[i].node.uid \in DOMAIN store
        <4>1. CASE calls[i].node.uid \in DOMAIN store'
          BY <2>1, <4>1
        <4>2. CASE calls[i].node.uid \notin DOMAIN store'
          <5>1. PICK j \in DOMAIN calls' :
                   /\ j > Len(calls)
                   /\ calls'[j].call = "delete" /\ calls'[j].node.uid = calls[i].node.uid
            BY <1>3, <3>1, <4>2
          <5>2. j \in Nat
            <6>1. calls' \in Seq(C)
              BY JoinIndex
            <6> QED
              BY <6>1
          <5>3. j > i
            BY <1>2, <2>1, <5>1, <5>2
          <5> QED
            BY <2>1, <5>1, <5>3 DEF IsCall
        <4> QED
          BY <4>1, <4>2
      <3>2. CASE \E j \in DOMAIN calls : j > i /\ IsCall(j, "delete", calls[i].node.uid)
        BY <1>1, <2>1, <3>2 DEF IsCall
      <3> QED
        BY <1>0, <1>6, <2>1, <3>1, <3>2
    <2>2. CASE i - Len(calls) \in DOMAIN t /\ calls'[i] = t[i - Len(calls)]
      BY <1>6, <2>2
    <2> QED
      BY <1>1, <2>1, <2>2
  <1> QED
    BY <1>4, <1>5, <1>6 DEF LeaveInv

-----------------------------------------------------------------------------
(* The handlers' side: the first call is taken, the cluster rests.         *)

LEMMA TailIndex ==
    ASSUME NEW C, NEW s \in Seq(C), s # <<>>
    PROVE  /\ Tail(s) \in Seq(C) /\ Head(s) \in C /\ 1 \in DOMAIN s /\ s[1] = Head(s)
           /\ \A i \in DOMAIN Tail(s) : i \in Nat /\ i + 1 \in DOMAIN s /\ Tail(s)[i] = s[i + 1]
           /\ \A i \in DOMAIN s :
                 i \in Nat /\ (i # 1 => i - 1 \in DOMAIN Tail(s) /\ Tail(s)[i - 1] = s[i])
  OBVIOUS

LEMMA CountHandled ==
    ASSUME CountInv, NEW C, calls \in Seq(C), calls # <<>>, calls' = Tail(calls),
           UNCHANGED clusterVars,
           \A v \in nodeIDs \ nodeIDs' : Head(calls).call = "delete" /\ Head(calls).node.uid = v,
           Head(calls).call = "add" => Head(calls).node.uid \in nodeIDs'
    PROVE  CountInv'
  <1>1. /\ calls[1] = Head(calls) /\ 1 \in DOMAIN calls
        /\ \A i \in DOMAIN calls' : i + 1 \in DOMAIN calls /\ calls'[i] = calls[i + 1]
        /\ \A i \in DOMAIN calls :
              i # 1 => i - 1 \in DOMAIN calls' /\ calls'[i - 1] = calls[i]
    BY TailIndex
  <1>2. ASSUME NEW i \in DOMAIN calls', calls'[i].call \in {"delete", "tombstone"}
        PROVE  calls'[i].node.uid \in gone' \ DOMAIN store'
    BY <1>1, <1>2 DEF CountInv, clusterVars
  <1>3. ASSUME NEW u \in DOMAIN store'
        PROVE  \E v : StandsIn(v, u)'
    <2>1. PICK v : StandsIn(v, u)
      BY DEF CountInv, clusterVars
    <2>2. nameOf'[v] = nameOf'[u] /\ (v = u \/ v \in gone')
      BY <2>1 DEF StandsIn, clusterVars
    <2>3. v \in nodeIDs' \/ \E i \in DOMAIN calls' : IsCall(i, "add", v)'
      <3>1. CASE v \in nodeIDs
        BY <1>1, <2>1, <3>1 DEF StandsIn, IsCall
      <3>2. CASE \E i \in DOMAIN calls : IsCall(i, "add", v)
        <4>1. PICK i \in DOMAIN calls : calls[i].call = "add" /\ calls[i].node.uid = v
          BY <3>2 DEF IsCall
        <4>2. CASE i = 1
          BY <1>1, <4>1, <4>2
        <4>3. CASE i # 1
          <5>1. i - 1 \in DOMAIN calls' /\ calls'[i - 1] = calls[i]
            BY <1>1, <4>3
          <5> QED
            BY <4>1, <5>1 DEF IsCall
        <4> QED
          BY <4>2, <4>3
      <3> QED
        BY <2>1, <3>1, <3>2 DEF StandsIn
    <2>4. \A i \in DOMAIN calls' : ~IsCall(i, "delete", v)'
      BY <1>1, <2>1 DEF StandsIn, IsCall
    <2> QED
      BY <2>2, <2>3, <2>4 DEF StandsIn
  <1> QED
    BY <1>2, <1>3 DEF CountInv, clusterVars

LEMMA LeaveHandled ==
    ASSUME LeaveInv, NEW C, calls \in Seq(C), calls # <<>>, calls' = Tail(calls),
           UNCHANGED clusterVars,
           \A u \in nodeIDs' \ nodeIDs : Head(calls).call = "add" /\ Head(calls).node.uid = u,
           Head(calls).call = "delete" => Head(calls).node.uid \notin nodeIDs'
    PROVE  LeaveInv'
  <1> SUFFICES ASSUME losses = 0 PROVE LeaveInv'
    BY DEF LeaveInv, clusterVars
  <1>0. /\ watchUp
        /\ \A i \in DOMAIN calls : calls[i].call # "tombstone"
        /\ \A i \in DOMAIN calls : calls[i].call = "update" => calls[i].old = calls[i].node.alloc
        /\ \A u \in nodeIDs :
              u \in DOMAIN store \/ \E i \in DOMAIN calls : IsCall(i, "delete", u)
        /\ \A i \in DOMAIN calls : calls[i].call = "add" =>
              \/ calls[i].node.uid \in DOMAIN store
              \/ \E j \in DOMAIN calls : j > i /\ IsCall(j, "delete", calls[i].node.uid)
    BY DEF LeaveInv
  <1>1. /\ calls[1] = Head(calls) /\ 1 \in DOMAIN calls
        /\ \A i \in DOMAIN calls' :
              i \in Nat /\ i + 1 \in DOMAIN calls /\ calls'[i] = calls[i + 1]
        /\ \A i \in DOMAIN calls :
              i \in Nat /\ (i # 1 => i - 1 \in DOMAIN calls' /\ calls'[i - 1] = calls[i])
    BY TailIndex
  <1>2. store' = store /\ watchUp' = watchUp
    BY DEF clusterVars
  <1>3. /\ \A i \in DOMAIN calls' : calls'[i].call # "tombstone"
        /\ \A i \in DOMAIN calls' :
              calls'[i].call = "update" => calls'[i].old = calls'[i].node.alloc
    BY <1>0, <1>1
  <1>4. ASSUME NEW u \in nodeIDs'
        PROVE  u \in DOMAIN store' \/ \E i \in DOMAIN calls' : IsCall(i, "delete", u)'
    <2>1. CASE u \in nodeIDs
      <3>1. CASE u \in DOMAIN store
        BY <1>2, <3>1
      <3>2. CASE \E i \in DOMAIN calls : IsCall(i, "delete", u)
        <4>1. PICK i \in DOMAIN calls : calls[i].call = "delete" /\ calls[i].node.uid = u
          BY <3>2 DEF IsCall
        <4>2. i # 1
          BY <1>1, <1>4, <4>1
        <4>3. i - 1 \in DOMAIN calls' /\ calls'[i - 1] = calls[i]
          BY <1>1, <4>2
        <4> QED
          BY <4>1, <4>3 DEF IsCall
      <3> QED
        BY <1>0, <2>1, <3>1, <3>2
    <2>2. CASE u \notin nodeIDs
      <3>1. calls[1].call = "add" /\ calls[1].node.uid = u
        BY <1>1, <1>4, <2>2
      <3>2. u \in DOMAIN store \/ \E j \in DOMAIN calls : j > 1 /\ IsCall(j, "delete", u)
        BY <1>0, <1>1, <3>1
      <3> QED
        BY <1>1, <1>2, <3>2 DEF IsCall
    <2> QED
      BY <2>1, <2>2
  <1>5. ASSUME NEW i \in DOMAIN calls', calls'[i].call = "add"
        PROVE  \/ calls'[i].node.uid \in DOMAIN store'
               \/ \E j \in DOMAIN calls' : j > i /\ IsCall(j, "delete", calls[i].node.uid)'
    <2>1. /\ i + 1 \in DOMAIN calls /\ calls'[i] = calls[i + 1] /\ i \in Nat
      BY <1>1
    <2>2. CASE calls[i + 1].node.uid \in DOMAIN store
      BY <1>2, <2>1, <2>2
    <2>3. CASE \E j \in DOMAIN calls : j > i + 1 /\ IsCall(j, "delete", calls[i + 1].node.uid)
      <3>1. PICK j \in DOMAIN calls : j > i + 1 /\ IsCall(j, "delete", calls[i + 1].node.uid)
        BY <2>3
      <3>2. j \in Nat /\ j # 1 /\ j - 1 > i
        BY <1>1, <2>1, <3>1
      <3>3. j - 1 \in DOMAIN calls' /\ calls'[j - 1] = calls[j]
        BY <1>1, <3>2
      <3> QED
        BY <2>1, <3>1, <3>2, <3>3 DEF IsCall
    <2> QED
      BY <1>0, <1>5, <2>1, <2>2, <2>3
  <1> QED
    BY <1>0, <1>2, <1>3, <1>4, <1>5 DEF LeaveInv

-----------------------------------------------------------------------------
(* The cluster and the informer.                                           *)

\* An order of a finite set is a sequence with all its elements.
LEMMA OrdersCover ==
    ASSUME NEW S, IsFiniteSet(S), NEW order \in Orders(S)
    PROVE  /\ order \in Seq(S) /\ order \in [DOMAIN order -> S]
           /\ \A x \in S : \E i \in DOMAIN order : order[i] = x
  <1> DEFINE k == Cardinality(S)
  <1>1. k \in Nat
    BY FS_CardinalityType
  <1> HIDE DEF k
  <1>2. IsFiniteSet(1..k) /\ Cardinality(1..k) = k
    BY <1>1, FS_Interval
  <1>3. order \in Injection(1..k, S)
    BY DEF Orders, Injection, IsInjective, k
  <1>4. order \in Surjection(1..k, S)
    BY <1>2, <1>3, FS_Injection DEF k
  <1>5. order \in [1..k -> S] /\ DOMAIN order = 1..k
    BY DEF Orders, k
  <1> QED
    BY <1>1, <1>4, <1>5 DEF Surjection

\* What Observe puts on the calls that wait.
Delivered(c) == IF watchUp THEN <<c>> ELSE <<>>

LEMMA ObserveJoins ==
    ASSUME NEW C, calls \in Seq(C), NEW c \in C, NEW newNodes, Observe(newNodes, c)
    PROVE  /\ Delivered(c) \in Seq(C) /\ calls' = calls \o Delivered(c)
           /\ \A i \in DOMAIN Delivered(c) : watchUp /\ Delivered(c)[i] = c
           /\ watchUp => 1 \in DOMAIN Delivered(c)
           /\ nodes' = newNodes
           /\ watchUp => store' = newNodes
           /\ ~watchUp => store' = store
           /\ UNCHANGED <<nameOf, watchUp, losses, nodeIDs, total>>
  <1>1. CASE watchUp
    BY <1>1 DEF Observe, Delivered
  <1>2. CASE ~watchUp
    BY <1>2 DEF Observe, Delivered
  <1> QED
    BY <1>1, <1>2

\* The calls the cluster and the informer make are of the known sizes.
LEMMA NodeCallSized ==
    ASSUME NEW size, NEW u \in DOMAIN size, u \in Nodes, size[u] \in Allocatables,
           NEW kind \in {"add", "update", "delete", "tombstone"}, NEW old \in Allocatables
    PROVE  NodeCall(kind, u, old, size[u]) \in SizedCalls(size)
  BY DEF NodeCall, SizedCalls

LEMMA RegisterKeeps ==
    ASSUME TrackerInv, NEW u \in Nodes, NEW a \in Allocatables, Register(u, a)
    PROVE  TrackerInv'
  <1>1. PICK size \in [Known -> Allocatables] : SizedBy(size)
    BY DEF TrackerInv, SizeInv
  <1> DEFINE new == MapSet(size, u, a)
             c == NodeCall("add", u, a, a)
  <1>2. /\ u \notin Known /\ Observe(With(nodes, u, a), c) /\ gone' = gone
        /\ \A x \in DOMAIN nodes : nameOf[x] # nameOf[u]
    BY DEF Register, Known, Names
  <1>3. /\ new \in [Known \cup {u} -> Allocatables] /\ DOMAIN new = Known \cup {u}
        /\ new[u] = a /\ \A x \in Known : new[x] = size[x]
    BY <1>2 DEF MapSet
  <1>4. c \in SizedCalls(new)
    BY <1>3, NodeCallSized
  <1>5. calls \in Seq(SizedCalls(new))
    BY <1>1, <1>3, MoreSizedCalls DEF SizedBy
  <1>c. c.call = "add" /\ c.node.uid = u
    BY DEF NodeCall
  <1> HIDE DEF new, c
  <1>6. /\ Delivered(c) \in Seq(SizedCalls(new)) /\ calls' = calls \o Delivered(c)
        /\ \A i \in DOMAIN Delivered(c) : watchUp /\ Delivered(c)[i] = c
        /\ watchUp => 1 \in DOMAIN Delivered(c)
        /\ nodes' = With(nodes, u, a)
        /\ watchUp => store' = With(nodes, u, a)
        /\ ~watchUp => store' = store
        /\ UNCHANGED <<nameOf, watchUp, losses, nodeIDs, total>>
    BY <1>2, <1>4, <1>5, ObserveJoins
  <1>7. /\ DOMAIN With(nodes, u, a) = DOMAIN nodes \cup {u}
        /\ \A x \in DOMAIN nodes \cup {u} : With(nodes, u, a)[x] = new[x]
    BY <1>1, <1>2, <1>3 DEF With, SizedBy, Known
  <1>8. Known' = Known \cup {u}
    BY <1>2, <1>6, <1>7 DEF Known
  <1>9. IsFiniteSet(Known') /\ Known' \subseteq Nodes
    BY <1>8, FS_AddElement DEF TrackerInv, SizeInv
  <1>10. \A x \in DOMAIN store' : x \in Known' /\ store'[x] = new[x]
    BY <1>1, <1>3, <1>6, <1>7, <1>8 DEF SizedBy, Known
  <1>11. SizeInv'
    BY <1>1, <1>3, <1>6, <1>7, <1>8, <1>9, <1>10, SizesJoin
  <1>12. CountInv'
    <2>1. watchUp' => store' = nodes'
      BY <1>6
    <2>2. DOMAIN nodes' \cap gone' = {}
      BY <1>2, <1>6, <1>7 DEF TrackerInv, CountInv, Known
    <2>3. DOMAIN store' \cap gone \subseteq DOMAIN store
      BY <1>2, <1>6, <1>7 DEF TrackerInv, CountInv, Known
    <2>4. \A i \in DOMAIN Delivered(c) : Delivered(c)[i].call = "add"
      BY <1>6, <1>c
    <2>5. \A x \in DOMAIN store' \ DOMAIN store :
             \E i \in DOMAIN Delivered(c) : Delivered(c)[i].call = "add" /\ Delivered(c)[i].node.uid = x
      BY <1>6, <1>7, <1>c DEF TrackerInv, CountInv
    <2>6. \A x, y \in DOMAIN nodes' : nameOf[x] = nameOf[y] => x = y
      BY <1>2, <1>6, <1>7 DEF TrackerInv, CountInv
    <2>7. \A x \in DOMAIN store' :
             \/ \E y \in DOMAIN store : nameOf[y] = nameOf[x] /\ (y = x \/ y \in gone)
             \/ \E i \in DOMAIN Delivered(c) :
                   Delivered(c)[i].call = "add" /\ Delivered(c)[i].node.uid = x
      BY <2>5
    <2>8. /\ \A i \in DOMAIN Delivered(c) :
                Delivered(c)[i].call \in {"delete", "tombstone"} =>
                   Delivered(c)[i].node.uid \in gone' \ DOMAIN store'
          /\ \A i \in DOMAIN Delivered(c) :
                Delivered(c)[i].call = "delete" => Delivered(c)[i].node.uid \notin gone
      BY <2>4
    <2> QED
      BY <1>2, <1>5, <1>6, <2>1, <2>2, <2>3, <2>6, <2>7, <2>8, CountJoin DEF TrackerInv
  <1>13. LeaveInv'
    <2>1. \A i \in DOMAIN Delivered(c) :
             Delivered(c)[i].call = "add" /\ Delivered(c)[i].node.uid \in DOMAIN store'
      BY <1>6, <1>7, <1>c
    <2>2. DOMAIN store \subseteq DOMAIN store'
      BY <1>6, <1>7 DEF TrackerInv, CountInv
    <2>3. losses = 0 => watchUp
      BY DEF TrackerInv, LeaveInv
    <2> QED
      BY <1>5, <1>6, <2>1, <2>2, <2>3, LeaveJoin DEF TrackerInv
  <1> QED
    BY <1>6, <1>11, <1>12, <1>13 DEF TrackerInv

LEMMA HeartbeatKeeps ==
    ASSUME ~MayChange, TrackerInv, NEW u \in Nodes, NEW a \in Allocatables, Heartbeat(u, a)
    PROVE  TrackerInv'
  <1>1. PICK size \in [Known -> Allocatables] : SizedBy(size)
    BY DEF TrackerInv, SizeInv
  <1> DEFINE c == NodeCall("update", u, nodes[u], a)
  <1>2. /\ u \in DOMAIN nodes /\ a = nodes[u]
        /\ Observe(With(nodes, u, a), c) /\ gone' = gone
    BY DEF Heartbeat
  <1>3. u \in Known /\ a = size[u] /\ nodes[u] = size[u] /\ DOMAIN size = Known
    BY <1>1, <1>2 DEF SizedBy, Known
  <1>4. c \in SizedCalls(size)
    BY <1>3, NodeCallSized
  <1>5. calls \in Seq(SizedCalls(size))
    BY <1>1 DEF SizedBy
  <1>c. c.call = "update" /\ c.old = nodes[u] /\ c.node.alloc = a
    BY DEF NodeCall
  <1> HIDE DEF c
  <1>6. /\ Delivered(c) \in Seq(SizedCalls(size)) /\ calls' = calls \o Delivered(c)
        /\ \A i \in DOMAIN Delivered(c) : Delivered(c)[i] = c
        /\ nodes' = With(nodes, u, a)
        /\ watchUp => store' = With(nodes, u, a)
        /\ ~watchUp => store' = store
        /\ UNCHANGED <<nameOf, watchUp, losses, nodeIDs, total>>
    BY <1>2, <1>4, <1>5, ObserveJoins
  <1>7. /\ DOMAIN With(nodes, u, a) = DOMAIN nodes
        /\ \A x \in DOMAIN nodes : With(nodes, u, a)[x] = size[x]
    BY <1>1, <1>2, <1>3 DEF With, SizedBy, Known
  <1>8. Known' = Known /\ DOMAIN store' = DOMAIN store
    BY <1>2, <1>6, <1>7 DEF Known, TrackerInv, CountInv
  <1>10. \A x \in DOMAIN store' : x \in Known' /\ store'[x] = size[x]
    BY <1>1, <1>6, <1>7, <1>8 DEF SizedBy, Known
  <1>11. SizeInv'
    <2>1. Known' \subseteq Nodes /\ IsFiniteSet(Known')
      BY <1>8 DEF TrackerInv, SizeInv
    <2> QED
      BY <1>1, <1>6, <1>7, <1>8, <1>10, <2>1, SizesJoin
  <1>12. CountInv'
    <2>1. watchUp' => store' = nodes'
      BY <1>6
    <2>2. DOMAIN nodes' \cap gone' = {} /\ \A x, y \in DOMAIN nodes' : nameOf[x] = nameOf[y] => x = y
      BY <1>2, <1>6, <1>7 DEF TrackerInv, CountInv
    <2>3. \A x \in DOMAIN store' :
             \/ \E y \in DOMAIN store : nameOf[y] = nameOf[x] /\ (y = x \/ y \in gone)
             \/ \E i \in DOMAIN Delivered(c) :
                   Delivered(c)[i].call = "add" /\ Delivered(c)[i].node.uid = x
      BY <1>8
    <2>4. /\ \A i \in DOMAIN Delivered(c) :
                Delivered(c)[i].call \in {"delete", "tombstone"} =>
                   Delivered(c)[i].node.uid \in gone' \ DOMAIN store'
          /\ \A i \in DOMAIN Delivered(c) :
                Delivered(c)[i].call = "delete" => Delivered(c)[i].node.uid \notin gone
      BY <1>6, <1>c
    <2>5. gone \subseteq gone' /\ DOMAIN store' \cap gone \subseteq DOMAIN store
      BY <1>2, <1>8
    <2> QED
      BY <1>5, <1>6, <2>1, <2>2, <2>3, <2>4, <2>5, CountJoin DEF TrackerInv
  <1>13. LeaveInv'
    <2>1. losses = 0 => watchUp
      BY DEF TrackerInv, LeaveInv
    <2> QED
      BY <1>2, <1>5, <1>6, <1>8, <1>c, <2>1, LeaveJoin DEF TrackerInv
  <1> QED
    BY <1>6, <1>11, <1>12, <1>13 DEF TrackerInv

LEMMA DeregisterKeeps ==
    ASSUME TrackerInv, NEW u \in Nodes, Deregister(u)
    PROVE  TrackerInv'
  <1>1. PICK size \in [Known -> Allocatables] : SizedBy(size)
    BY DEF TrackerInv, SizeInv
  <1> DEFINE c == NodeCall("delete", u, nodes[u], nodes[u])
  <1>2. u \in DOMAIN nodes /\ Observe(Without(nodes, u), c) /\ gone' = gone \cup {u}
    BY DEF Deregister
  <1>3. u \in Known /\ nodes[u] = size[u] /\ DOMAIN size = Known
    BY <1>1, <1>2 DEF SizedBy, Known
  <1>4. c \in SizedCalls(size)
    BY <1>3, NodeCallSized
  <1>5. calls \in Seq(SizedCalls(size))
    BY <1>1 DEF SizedBy
  <1>c. c.call = "delete" /\ c.node.uid = u
    BY DEF NodeCall
  <1> HIDE DEF c
  <1>6. /\ Delivered(c) \in Seq(SizedCalls(size)) /\ calls' = calls \o Delivered(c)
        /\ \A i \in DOMAIN Delivered(c) : watchUp /\ Delivered(c)[i] = c
        /\ watchUp => 1 \in DOMAIN Delivered(c)
        /\ nodes' = Without(nodes, u)
        /\ watchUp => store' = Without(nodes, u)
        /\ ~watchUp => store' = store
        /\ UNCHANGED <<nameOf, watchUp, losses, nodeIDs, total>>
    BY <1>2, <1>4, <1>5, ObserveJoins
  <1>7. /\ DOMAIN Without(nodes, u) = DOMAIN nodes \ {u}
        /\ \A x \in DOMAIN nodes \ {u} : Without(nodes, u)[x] = size[x]
    BY <1>1, <1>2, <1>3 DEF Without, SizedBy, Known
  <1>8. Known' = Known
    BY <1>2, <1>6, <1>7 DEF Known
  <1>9. DOMAIN store' \subseteq DOMAIN store
    BY <1>6, <1>7 DEF TrackerInv, CountInv
  <1>10. \A x \in DOMAIN store' : x \in Known' /\ store'[x] = size[x]
    BY <1>1, <1>6, <1>7, <1>8 DEF SizedBy, Known
  <1>11. SizeInv'
    <2>1. Known' \subseteq Nodes /\ IsFiniteSet(Known')
      BY <1>8 DEF TrackerInv, SizeInv
    <2> QED
      BY <1>1, <1>6, <1>7, <1>8, <1>10, <2>1, SizesJoin
  <1>12. CountInv'
    <2>1. watchUp' => store' = nodes'
      BY <1>6
    <2>2. DOMAIN nodes' \cap gone' = {} /\ \A x, y \in DOMAIN nodes' : nameOf[x] = nameOf[y] => x = y
      BY <1>2, <1>6, <1>7 DEF TrackerInv, CountInv
    <2>3. \A i \in DOMAIN Delivered(c) :
             Delivered(c)[i].node.uid \in gone' \ DOMAIN store' /\ Delivered(c)[i].node.uid \notin gone
      BY <1>2, <1>6, <1>7, <1>c DEF TrackerInv, CountInv
    <2> QED
      BY <1>2, <1>5, <1>6, <1>9, <2>1, <2>2, <2>3, CountJoin DEF TrackerInv
  <1>13. LeaveInv'
    <2>1. losses = 0 => watchUp
      BY DEF TrackerInv, LeaveInv
    <2>2. watchUp => \A x \in DOMAIN store \ DOMAIN store' : x = u
      BY <1>6, <1>7 DEF TrackerInv, CountInv
    <2>3. losses = 0 => \A x \in DOMAIN store \ DOMAIN store' :
             \E i \in DOMAIN Delivered(c) :
                Delivered(c)[i].call = "delete" /\ Delivered(c)[i].node.uid = x
      BY <1>6, <1>c, <2>1, <2>2
    <2>4. \A i \in DOMAIN Delivered(c) : Delivered(c)[i].call = "delete"
      BY <1>6, <1>c
    <2> QED
      BY <1>5, <1>6, <2>1, <2>3, <2>4, LeaveJoin DEF TrackerInv
  <1> QED
    BY <1>6, <1>11, <1>12, <1>13 DEF TrackerInv

LEMMA WatchDownKeeps ==
    ASSUME TrackerInv, WatchDown
    PROVE  TrackerInv'
  <1>1. /\ UNCHANGED <<nameOf, nodes, gone, store, calls, nodeIDs, total>>
        /\ watchUp' = FALSE /\ losses' = losses + 1
    BY DEF WatchDown
  <1>2. Known' = Known
    BY <1>1 DEF Known
  <1>3. SizeInv'
    BY <1>1, <1>2 DEF TrackerInv, SizeInv, SizedBy
  <1>4. CountInv'
    BY <1>1 DEF TrackerInv, CountInv, StandsIn, IsCall
  <1>5. losses' \in Nat /\ losses' # 0
    BY <1>1 DEF TrackerInv
  <1> QED
    BY <1>3, <1>4, <1>5 DEF TrackerInv, LeaveInv

LEMMA RelistKeeps ==
    ASSUME TrackerInv, Relist
    PROVE  TrackerInv'
  <1>1. PICK size \in [Known -> Allocatables] : SizedBy(size)
    BY DEF TrackerInv, SizeInv
  <1> DEFINE M == Names(nodes) \cup Names(store)
  <1>2. PICK order \in Orders(M) : calls' = calls \o [i \in DOMAIN order |-> CatchUp(order[i])]
    BY DEF Relist
  <1> DEFINE t == [i \in DOMAIN order |-> CatchUp(order[i])]
  <1>3. /\ ~watchUp /\ store' = nodes /\ watchUp' = TRUE
        /\ UNCHANGED <<nameOf, nodes, gone, losses, nodeIDs, total>>
    BY DEF Relist
  <1>4. IsFiniteSet(M)
    <2> DEFINE names == {nameOf[x] : x \in Known}
    <2>1. [x \in Known |-> nameOf[x]] \in Surjection(Known, names)
      BY DEF Surjection
    <2>2. IsFiniteSet(names)
      BY <2>1, FS_Surjection DEF TrackerInv, SizeInv
    <2>3. M \subseteq names
      BY <1>1 DEF SizedBy, Known, Names
    <2> QED
      BY <2>2, <2>3, FS_Subset
  <1>5. /\ order \in Seq(M) /\ order \in [DOMAIN order -> M]
        /\ \A m \in M : \E i \in DOMAIN order : order[i] = m
    <2> HIDE DEF M
    <2> QED
      BY <1>2, <1>4, OrdersCover
  <1>6. /\ \A m \in Names(nodes) : Named(nodes, m) \in DOMAIN nodes /\ nameOf[Named(nodes, m)] = m
        /\ \A m \in Names(store) : Named(store, m) \in DOMAIN store /\ nameOf[Named(store, m)] = m
    BY DEF Names, Named
  <1>7. ASSUME NEW m \in M
        PROVE  /\ CatchUp(m) \in SizedCalls(size) /\ CatchUp(m).call # "delete"
               /\ m \notin Names(store) =>
                     CatchUp(m).call = "add" /\ CatchUp(m).node.uid = Named(nodes, m)
               /\ CatchUp(m).call = "tombstone" =>
                     CatchUp(m).node.uid \in DOMAIN store \ DOMAIN nodes
    <2>1. /\ \A x \in DOMAIN nodes : x \in Known /\ nodes[x] = size[x]
          /\ \A x \in DOMAIN store : x \in Known /\ store[x] = size[x]
      BY <1>1 DEF SizedBy, Known
    <2>2. \A x \in Known : x \in DOMAIN size /\ x \in Nodes /\ size[x] \in Allocatables
      BY <1>1 DEF TrackerInv, SizeInv
    <2>3. \A kind \in {"add", "update", "tombstone"} : \A x \in Known : \A old \in Allocatables :
             /\ NodeCall(kind, x, old, size[x]) \in SizedCalls(size)
             /\ NodeCall(kind, x, old, size[x]).call = kind
             /\ NodeCall(kind, x, old, size[x]).node.uid = x
      BY <2>2, NodeCallSized DEF NodeCall
    <2>4. CASE m \in Names(store) /\ m \in Names(nodes)
      <3>1. CatchUp(m) = NodeCall("update", Named(nodes, m), size[Named(store, m)],
                                  size[Named(nodes, m)])
        BY <1>6, <2>1, <2>4 DEF CatchUp
      <3> QED
        BY <1>6, <2>1, <2>2, <2>3, <2>4, <3>1
    <2>5. CASE m \notin Names(store)
      <3>1. m \in Names(nodes)
        BY <2>5
      <3>2. CatchUp(m) = NodeCall("add", Named(nodes, m), size[Named(nodes, m)],
                                  size[Named(nodes, m)])
        BY <1>6, <2>1, <2>5, <3>1 DEF CatchUp
      <3> QED
        BY <1>6, <2>1, <2>2, <2>3, <2>5, <3>1, <3>2
    <2>6. CASE m \notin Names(nodes)
      <3>1. m \in Names(store)
        BY <2>6
      <3>2. CatchUp(m) = NodeCall("tombstone", Named(store, m), size[Named(store, m)],
                                  size[Named(store, m)])
        BY <1>6, <2>1, <2>6, <3>1 DEF CatchUp
      <3>3. Named(store, m) \notin DOMAIN nodes
        BY <1>6, <2>6, <3>1 DEF Names
      <3> QED
        BY <1>6, <2>1, <2>2, <2>3, <3>1, <3>2, <3>3
    <2> QED
      BY <2>4, <2>5, <2>6
  <1>8. /\ DOMAIN t = DOMAIN order
        /\ \A i \in DOMAIN t : order[i] \in M /\ t[i] = CatchUp(order[i])
    BY <1>5
  <1>9. t \in Seq(SizedCalls(size))
    <2>1. \A i \in DOMAIN order : CatchUp(order[i]) \in SizedCalls(size)
      BY <1>7, <1>8
    <2>2. DOMAIN order = 1..Len(order) /\ Len(order) \in Nat
      BY <1>5
    <2> QED
      BY <2>1, <2>2
  <1> HIDE DEF t
  <1>10. calls \in Seq(SizedCalls(size)) /\ calls' = calls \o t
    BY <1>1, <1>2 DEF SizedBy, t
  <1>11. Known' = Known
    BY <1>3 DEF Known
  <1>12. SizeInv'
    <2>1. Known' \subseteq Nodes /\ IsFiniteSet(Known')
      BY <1>11 DEF TrackerInv, SizeInv
    <2>2. \A x \in DOMAIN store' : x \in Known' /\ store'[x] = size[x]
      BY <1>1, <1>3 DEF SizedBy, Known
    <2>3. \A x \in DOMAIN nodes' : nodes'[x] = size[x]
      BY <1>1, <1>3 DEF SizedBy
    <2> QED
      BY <1>1, <1>3, <1>9, <1>10, <1>11, <2>1, <2>2, <2>3, SizesJoin
  <1>13. CountInv'
    <2>1. /\ DOMAIN nodes' \cap gone' = {} /\ DOMAIN store' \cap gone \subseteq DOMAIN store
          /\ \A x, y \in DOMAIN nodes' : nameOf[x] = nameOf[y] => x = y
      BY <1>3 DEF TrackerInv, CountInv
    <2>2. \A i \in DOMAIN t : t[i].call # "delete"
      BY <1>7, <1>8
    <2>3. \A i \in DOMAIN t : t[i].call = "tombstone" => t[i].node.uid \in gone' \ DOMAIN store'
      <3>1. DOMAIN store \subseteq Known
        BY <1>1 DEF SizedBy
      <3> QED
        BY <1>3, <1>7, <1>8, <3>1 DEF Known
    <2>4. ASSUME NEW x \in DOMAIN store'
          PROVE  \/ \E y \in DOMAIN store : nameOf[y] = nameOf[x] /\ (y = x \/ y \in gone)
                 \/ \E i \in DOMAIN t : t[i].call = "add" /\ t[i].node.uid = x
      <3>1. x \in DOMAIN nodes /\ nameOf[x] \in Names(nodes) /\ nameOf[x] \in M
        BY <1>3 DEF Names
      <3>2. Named(nodes, nameOf[x]) = x
        BY <1>6, <3>1 DEF TrackerInv, CountInv
      <3>3. CASE nameOf[x] \in Names(store)
        <4> DEFINE y == Named(store, nameOf[x])
        <4>1. y \in DOMAIN store /\ nameOf[y] = nameOf[x]
          BY <1>6, <3>3
        <4>2. y \in DOMAIN nodes => y = x
          BY <3>1, <4>1 DEF TrackerInv, CountInv
        <4>3. y \in DOMAIN nodes \/ y \in gone
          BY <1>1, <4>1 DEF SizedBy, Known
        <4> QED
          BY <4>1, <4>2, <4>3
      <3>4. CASE nameOf[x] \notin Names(store)
        <4>1. PICK i \in DOMAIN order : order[i] = nameOf[x]
          BY <1>5, <3>1
        <4> QED
          BY <1>7, <1>8, <3>1, <3>2, <3>4, <4>1
      <3> QED
        BY <3>3, <3>4
    <2>5. \A i \in DOMAIN t :
             t[i].call \in {"delete", "tombstone"} => t[i].node.uid \in gone' \ DOMAIN store'
      BY <2>2, <2>3
    <2>6. \A x \in DOMAIN store' :
             \/ \E y \in DOMAIN store : nameOf[y] = nameOf[x] /\ (y = x \/ y \in gone)
             \/ \E i \in DOMAIN t : t[i].call = "add" /\ t[i].node.uid = x
      BY <2>4
    <2>7. \A i \in DOMAIN t : t[i].call = "delete" => t[i].node.uid \notin gone
      BY <2>2
    <2>8. /\ gone \subseteq gone' /\ (watchUp' => store' = nodes')
          /\ UNCHANGED <<nameOf, nodeIDs>> /\ CountInv
      BY <1>3 DEF TrackerInv
    <2> QED
      BY <1>9, <1>10, <2>1, <2>5, <2>6, <2>7, <2>8, CountJoin
  <1>14. LeaveInv'
    BY <1>3 DEF TrackerInv, LeaveInv
  <1> QED
    BY <1>3, <1>12, <1>13, <1>14 DEF TrackerInv

\* A new process counts nothing and has an add of every node before it.
LEMMA RestartKeeps ==
    ASSUME TrackerInv, Restart
    PROVE  TrackerInv'
  <1>1. PICK size \in [Known -> Allocatables] : SizedBy(size)
    BY DEF TrackerInv, SizeInv
  <1>2. PICK order \in Orders(DOMAIN nodes) :
           calls' = [i \in DOMAIN order |->
                        NodeCall("add", order[i], nodes[order[i]], nodes[order[i]])]
    BY DEF Restart
  <1>3. /\ nodeIDs' = {} /\ total' = NoResources /\ store' = nodes /\ watchUp' = TRUE
        /\ UNCHANGED <<nameOf, nodes, gone, losses>>
    BY DEF Restart
  <1>4. DOMAIN nodes \subseteq Known /\ IsFiniteSet(DOMAIN nodes) /\ Known' = Known
    BY <1>3, FS_Subset DEF Known, TrackerInv, SizeInv
  <1>5. /\ order \in Seq(DOMAIN nodes) /\ order \in [DOMAIN order -> DOMAIN nodes]
        /\ \A x \in DOMAIN nodes : \E i \in DOMAIN order : order[i] = x
    BY <1>4, OrdersCover
  <1>6. ASSUME NEW x \in DOMAIN nodes
        PROVE  /\ NodeCall("add", x, nodes[x], nodes[x]) \in SizedCalls(size)
               /\ NodeCall("add", x, nodes[x], nodes[x]).call = "add"
               /\ NodeCall("add", x, nodes[x], nodes[x]).node.uid = x
    <2>1. x \in DOMAIN size /\ x \in Nodes /\ size[x] \in Allocatables /\ nodes[x] = size[x]
      BY <1>1, <1>4 DEF TrackerInv, SizeInv, SizedBy
    <2> QED
      BY <2>1, NodeCallSized DEF NodeCall
  <1>7. /\ DOMAIN calls' = DOMAIN order
        /\ \A i \in DOMAIN calls' :
              /\ order[i] \in DOMAIN nodes /\ calls'[i] \in SizedCalls(size)
              /\ calls'[i].call = "add" /\ calls'[i].node.uid = order[i]
    BY <1>2, <1>5, <1>6
  <1>8. calls' \in Seq(SizedCalls(size))
    <2>1. DOMAIN order = 1..Len(order) /\ Len(order) \in Nat
      BY <1>5
    <2>2. calls' = [i \in 1..Len(order) |-> calls'[i]]
      BY <1>2, <2>1
    <2> QED
      BY <1>7, <2>1, <2>2
  <1>9. Totals(size, {}, NoResources)
    <2>1. \A n : UnitsOf(size, {}, n) = {}
      BY DEF UnitsOf
    <2> QED
      BY <2>1, FS_EmptySet DEF Totals, NoResources
  <1>10. SizeInv'
    <2>1. SizedBy(size)'
      BY <1>1, <1>3, <1>4, <1>8, <1>9 DEF SizedBy
    <2> QED
      BY <1>1, <1>4, <2>1 DEF TrackerInv, SizeInv
  <1>11. CountInv'
    <2>1. \A i \in DOMAIN calls' : calls'[i].call = "add"
      BY <1>7
    <2>2. ASSUME NEW x \in DOMAIN store'
          PROVE  StandsIn(x, x)'
      <3>1. \E i \in DOMAIN calls' : IsCall(i, "add", x)'
        BY <1>3, <1>5, <1>7 DEF IsCall
      <3> QED
        BY <2>1, <3>1 DEF StandsIn, IsCall
    <2> QED
      BY <1>3, <2>1, <2>2 DEF TrackerInv, CountInv
  <1>12. LeaveInv'
    BY <1>3, <1>7 DEF LeaveInv
  <1> QED
    BY <1>3, <1>10, <1>11, <1>12 DEF TrackerInv

-----------------------------------------------------------------------------
(* The handlers.                                                           *)

\* The first call is of a node of the size it is known by.
LEMMA HeadSized ==
    ASSUME NEW size \in [Known -> Allocatables], SizedBy(size), calls # <<>>
    PROVE  /\ Head(calls).node.uid \in Known
           /\ Head(calls).node.alloc = size[Head(calls).node.uid]
           /\ IsSize(size[Head(calls).node.uid])
           /\ Tail(calls) \in Seq(SizedCalls(size))
  <1>1. Head(calls) \in SizedCalls(size) /\ Tail(calls) \in Seq(SizedCalls(size))
    BY TailIndex DEF SizedBy
  <1>2. DOMAIN size = Known
    OBVIOUS
  <1> QED
    BY <1>1, <1>2, AllocatablesAssumption DEF SizedCalls, IsSize

\* The handlers leave the cluster and the sizes of its nodes alone.
LEMMA SizesHandled ==
    ASSUME TrackerInv, NEW size \in [Known -> Allocatables], SizedBy(size), calls # <<>>,
           calls' = Tail(calls), UNCHANGED clusterVars,
           nodeIDs' \subseteq Known, Totals(size, nodeIDs', total')
    PROVE  SizeInv'
  <1>1. Known' = Known /\ UNCHANGED <<nodes, store>>
    BY DEF Known, clusterVars
  <1>2. calls' \in Seq(SizedCalls(size))
    BY HeadSized
  <1>3. SizedBy(size)'
    BY <1>1, <1>2 DEF SizedBy
  <1> QED
    BY <1>1, <1>3 DEF TrackerInv, SizeInv

LEMMA HandlersKeep ==
    ASSUME TrackerInv, NodeHandlers
    PROVE  TrackerInv'
  <1>1. PICK size \in [Known -> Allocatables] : SizedBy(size)
    BY DEF TrackerInv, SizeInv
  <1> DEFINE c == Head(calls)
             u == c.node.uid
  <1>2. calls # <<>> /\ calls' = Tail(calls) /\ UNCHANGED clusterVars
    BY DEF NodeHandlers, addNode, updateNode, deleteNode, deleteNodeTombstone, Handle
  <1>3. /\ u \in Known /\ c.node.alloc = size[u] /\ IsSize(size[u])
    BY <1>1, <1>2, HeadSized
  <1>4. /\ Counter = [ids |-> Counter.ids, total |-> Counter.total]
        /\ Counter.ids = nodeIDs /\ Counter.total = total
    BY DEF Counter
  <1>5. Totals(size, nodeIDs, total) /\ nodeIDs \subseteq Known
        /\ calls \in Seq(SizedCalls(size))
    BY <1>1 DEF SizedBy
  <1>6. losses' = losses /\ losses \in Nat
    BY <1>2 DEF clusterVars, TrackerInv
  <1>7. CASE addNode \/ (updateNode /\ NeedsUpdate(c.old, c.node.alloc))
    <2>1. c.call \in {"add", "update"} /\ nodeIDs' = PutNode(Counter, c.node).ids
          /\ total' = PutNode(Counter, c.node).total
      BY <1>7 DEF addNode, updateNode, Handle, Becomes
    <2>2. nodeIDs' = nodeIDs \cup {u} /\ Totals(size, nodeIDs', total')
      <3>1. /\ PutNode(Counter, c.node).ids = Counter.ids \cup {c.node.uid}
            /\ Totals(size, Counter.ids \cup {c.node.uid}, PutNode(Counter, c.node).total)
        <4> HIDE DEF c
        <4>1. Totals(size, Counter.ids, Counter.total)
          BY <1>4, <1>5
        <4> QED
          BY <1>3, <1>4, <4>1, PutTotals
      <3> QED
        BY <1>4, <2>1, <3>1
    <2>3. SizeInv'
      BY <1>1, <1>2, <1>3, <1>5, <2>2, SizesHandled
    <2>4. CountInv'
      BY <1>2, <1>5, <2>1, <2>2, CountHandled DEF TrackerInv
    <2>5. LeaveInv'
      <3>1. CASE c.call = "add"
        BY <1>2, <1>5, <2>1, <2>2, <3>1, LeaveHandled DEF TrackerInv
      <3>2. CASE c.call = "update"
        <4>1. NeedsUpdate(c.old, c.node.alloc)
          BY <1>7, <3>2 DEF addNode, Handle
        <4>2. c.old # c.node.alloc
          BY <4>1 DEF NeedsUpdate
        <4>3. 1 \in DOMAIN calls /\ calls[1] = c
          BY <1>2, <1>5, TailIndex
        <4>4. losses # 0
          BY <3>2, <4>2, <4>3 DEF TrackerInv, LeaveInv
        <4> QED
          BY <1>6, <4>4 DEF LeaveInv
      <3> QED
        BY <2>1, <3>1, <3>2
    <2> QED
      BY <1>6, <2>3, <2>4, <2>5 DEF TrackerInv
  <1>8. CASE deleteNode
    <2>1. c.call = "delete" /\ nodeIDs' = DeleteNode(Counter, c.node).ids
          /\ total' = DeleteNode(Counter, c.node).total
      BY <1>8 DEF deleteNode, Handle, Becomes
    <2>2. nodeIDs' = nodeIDs \ {u} /\ Totals(size, nodeIDs', total')
      <3>1. /\ DeleteNode(Counter, c.node).ids = Counter.ids \ {c.node.uid}
            /\ Totals(size, Counter.ids \ {c.node.uid}, DeleteNode(Counter, c.node).total)
        <4> HIDE DEF c
        <4>1. Totals(size, Counter.ids, Counter.total)
          BY <1>4, <1>5
        <4> QED
          BY <1>3, <1>4, <4>1, DeleteTotals
      <3> QED
        BY <1>4, <2>1, <3>1
    <2>3. SizeInv'
      BY <1>1, <1>2, <1>5, <2>2, SizesHandled
    <2>4. CountInv'
      BY <1>2, <1>5, <2>1, <2>2, CountHandled DEF TrackerInv
    <2>5. LeaveInv'
      BY <1>2, <1>5, <2>1, <2>2, LeaveHandled DEF TrackerInv
    <2> QED
      BY <1>6, <2>3, <2>4, <2>5 DEF TrackerInv
  <1>9. CASE (updateNode /\ ~NeedsUpdate(c.old, c.node.alloc)) \/ deleteNodeTombstone
    <2>2. c.call \in {"update", "tombstone"} /\ nodeIDs' = nodeIDs /\ total' = total
      BY <1>4, <1>9 DEF updateNode, deleteNodeTombstone, Handle, Becomes
    <2>3. SizeInv'
      BY <1>1, <1>2, <1>5, <2>2, SizesHandled
    <2>4. CountInv'
      BY <1>2, <1>5, <2>2, CountHandled DEF TrackerInv
    <2>5. LeaveInv'
      BY <1>2, <1>5, <2>2, LeaveHandled DEF TrackerInv
    <2> QED
      BY <1>6, <2>3, <2>4, <2>5 DEF TrackerInv
  <1> QED
    BY <1>7, <1>8, <1>9 DEF NodeHandlers

-----------------------------------------------------------------------------
LEMMA TrackerInvariant == ~MayChange => (StatusSpec => []TrackerInv)
  <1> SUFFICES ASSUME ~MayChange PROVE StatusSpec => []TrackerInv
    OBVIOUS
  <1>1. StatusInit => TrackerInv
    <2> SUFFICES ASSUME StatusInit PROVE TrackerInv
      OBVIOUS
    <2>1. /\ DOMAIN nodes = {} /\ store = nodes /\ gone = {} /\ watchUp /\ calls = <<>>
          /\ nodeIDs = {} /\ total = NoResources /\ losses = 0
      BY DEF StatusInit, Init
    <2>2. Known = {}
      BY <2>1 DEF Known
    <2> DEFINE none == [x \in {} |-> NoResources]
    <2>3. Totals(none, {}, NoResources)
      <3>1. \A n : UnitsOf(none, {}, n) = {}
        BY DEF UnitsOf
      <3> QED
        BY <3>1, FS_EmptySet DEF Totals, NoResources
    <2>4. none \in [Known -> Allocatables]
      BY <2>2
    <2> HIDE DEF none
    <2>5. SizedBy(none)
      BY <2>1, <2>2, <2>3, <2>4 DEF SizedBy
    <2>6. SizeInv
      BY <2>2, <2>4, <2>5, FS_EmptySet DEF SizeInv
    <2> QED
      BY <2>1, <2>6 DEF TrackerInv, CountInv, LeaveInv
  <1>2. TrackerInv /\ [StatusNext]_allVars => TrackerInv'
    <2> SUFFICES ASSUME TrackerInv, [StatusNext]_allVars PROVE TrackerInv'
      OBVIOUS
    <2>1. CASE Next
      <3>1. ASSUME NEW u \in Nodes, NEW a \in Allocatables, Register(u, a) PROVE TrackerInv'
        BY <3>1, RegisterKeeps
      <3>2. ASSUME NEW u \in Nodes, NEW a \in Allocatables, Heartbeat(u, a) PROVE TrackerInv'
        BY <3>2, HeartbeatKeeps
      <3>3. ASSUME NEW u \in Nodes, Deregister(u) PROVE TrackerInv'
        BY <3>3, DeregisterKeeps
      <3>4. CASE WatchDown
        BY <3>4, WatchDownKeeps
      <3>5. CASE Relist
        BY <3>5, RelistKeeps
      <3>6. CASE NodeHandlers
        BY <3>6, HandlersKeep
      <3> QED
        BY <2>1, <3>1, <3>2, <3>3, <3>4, <3>5, <3>6 DEF Next
    <2>2. CASE Restart
      BY <2>2, RestartKeeps
    <2>3. CASE UNCHANGED vars
      <3>1. UNCHANGED <<nameOf, nodes, gone, store, watchUp, calls, nodeIDs, total, losses>>
        BY <2>3 DEF vars, clusterVars
      <3>2. Known' = Known
        BY <3>1 DEF Known
      <3>3. SizeInv'
        BY <3>1, <3>2 DEF TrackerInv, SizeInv, SizedBy
      <3>4. CountInv' /\ LeaveInv' /\ losses' \in Nat
        BY <3>1 DEF TrackerInv, CountInv, LeaveInv, StandsIn, IsCall
      <3> QED
        BY <3>3, <3>4 DEF TrackerInv
    <2>4. ManagerCall \/ GetTotal \/ QueueIter => UNCHANGED vars
      BY DEF ManagerCall, GetTotal, QueueIter
    <2>5. \A q \in QueueNames :
             CreateQueue(q) \/ RemoveQueue(q) \/ PatchOne(q) => UNCHANGED vars
      BY DEF CreateQueue, RemoveQueue, PatchOne, Patch, PatchFails
    <2>6. UNCHANGED allVars => UNCHANGED vars
      BY DEF allVars
    <2> QED
      BY <2>1, <2>2, <2>3, <2>4, <2>5, <2>6 DEF StatusNext
  <1> QED
    BY <1>1, <1>2, PTL DEF StatusSpec

\* What the nodes f provide, in terms of the sizes of nodes.
LEMMA AllocatableOfSizes ==
    ASSUME NEW f, NEW size, \A u \in DOMAIN f : f[u] = size[u], NEW n
    PROVE  AllocatableUnits(f, n) = UnitsOf(size, DOMAIN f, n)
  BY DEF AllocatableUnits, UnitsOf, NodeUnits

\* ClusterResourceTracker, "tracks the total available resources in the cluster
\* by watching cluster nodes": whatever watches break and restarts happen, once
\* the handlers of the node informer are done every existing node is counted or
\* an earlier one of its name still is, and the total is at least what the nodes
\* that are the first of their name provide.
THEOREM NoNodeEverMissed == ~MayChange => (StatusSpec => []NoNodeMissed)
  <1>1. TrackerInv => NoNodeMissed
    <2> DEFINE first == [u \in FirstOfName |-> nodes[u]]
    <2> SUFFICES ASSUME TrackerInv, calls = <<>>, watchUp
                 PROVE  /\ \A u \in DOMAIN nodes :
                              u \in nodeIDs \/ \E v \in nodeIDs \cap gone : nameOf[v] = nameOf[u]
                        /\ \A n \in ResourceNames : Qty(total, n) >= Allocatable(first, n)
      BY DEF NoNodeMissed
    <2>1. PICK size \in [Known -> Allocatables] : SizedBy(size)
      BY DEF TrackerInv, SizeInv
    <2>2. ASSUME NEW u \in DOMAIN nodes
          PROVE  u \in nodeIDs \/ \E v \in nodeIDs \cap gone : nameOf[v] = nameOf[u]
      <3>1. PICK v : StandsIn(v, u)
        BY DEF TrackerInv, CountInv
      <3>2. v \in nodeIDs
        BY <3>1 DEF StandsIn
      <3> QED
        BY <3>1, <3>2 DEF StandsIn
    <2>3. FirstOfName \subseteq nodeIDs /\ FirstOfName \subseteq DOMAIN nodes
      BY <2>2 DEF FirstOfName
    <2>4. \A u \in DOMAIN first : first[u] = size[u] /\ DOMAIN first = FirstOfName
      BY <2>1, <2>3 DEF SizedBy
    <2> HIDE DEF first
    <2>5. ASSUME NEW n
          PROVE  Qty(total, n) >= Allocatable(first, n)
      <3>1. AllocatableUnits(first, n) \subseteq UnitsOf(size, nodeIDs, n)
        BY <2>3, <2>4, AllocatableOfSizes DEF UnitsOf
      <3>2. IsFiniteSet(UnitsOf(size, nodeIDs, n)) /\ Totals(size, nodeIDs, total)
        BY <2>1 DEF SizedBy, Totals
      <3>3. /\ Allocatable(first, n) <= Cardinality(UnitsOf(size, nodeIDs, n))
            /\ Allocatable(first, n) \in Nat
        BY <3>1, <3>2, FS_Subset, FS_CardinalityType DEF Allocatable
      <3>4. Cardinality(UnitsOf(size, nodeIDs, n)) \in Nat
        BY <3>2, FS_CardinalityType
      <3>5. Qty(total, n) = Cardinality(UnitsOf(size, nodeIDs, n))
        BY <3>2, UnnamedIsNone DEF Qty, Totals
      <3> QED
        BY <3>3, <3>4, <3>5
    <2> QED
      BY <2>2, <2>5
  <1> QED
    BY <1>1, TrackerInvariant, PTL

\* As long as the watch has not broken, the total is exactly the sum over the
\* nodes that exist whenever the handlers are done.
THEOREM TotalAlwaysExact == ~MayChange => (StatusSpec => []TotalWhileWatched)
  <1>1. TrackerInv => TotalWhileWatched
    <2> SUFFICES ASSUME TrackerInv, losses = 0, calls = <<>>, watchUp, NEW n
                 PROVE  Qty(total, n) = Allocatable(nodes, n)
      BY DEF TotalWhileWatched, TotalInSync
    <2>1. PICK size \in [Known -> Allocatables] : SizedBy(size)
      BY DEF TrackerInv, SizeInv
    <2>2. nodeIDs = DOMAIN nodes
      <3>1. nodeIDs \subseteq DOMAIN nodes
        BY DEF TrackerInv, CountInv, LeaveInv
      <3>2. DOMAIN nodes \subseteq nodeIDs
        BY <3>1 DEF TrackerInv, CountInv, StandsIn
      <3> QED
        BY <3>1, <3>2
    <2>3. AllocatableUnits(nodes, n) = UnitsOf(size, nodeIDs, n)
      BY <2>1, <2>2, AllocatableOfSizes DEF SizedBy
    <2>4. Totals(size, nodeIDs, total)
      BY <2>1 DEF SizedBy
    <2> QED
      BY <2>3, <2>4, UnnamedIsNone DEF Qty, Totals, Allocatable
  <1> QED
    BY <1>1, TrackerInvariant, PTL
=============================================================================
