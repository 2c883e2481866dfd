--------------------------- MODULE ClusterTracker ---------------------------
(***************************************************************************)
(* internal/alloc/node_aggregator.go and cluster_tracker.go: the running   *)
(* total of the allocatable resources of the cluster's nodes, kept by the  *)
(* handlers of the node informer.                                          *)
(*                                                                         *)
(* The aggregator knows a node by its UID, the informer by its name, which *)
(* a node that registers again, with a new UID, may take over.  Nodes and  *)
(* the informer are external.                                              *)
(***************************************************************************)
EXTENDS Resources, FiniteSets, Sequences

CONSTANTS
    Nodes,            \* UIDs of nodes
    Namings,          \* the ways in which nodes may be named
    Allocatables,     \* the status.allocatable values nodes report
    MayChange,        \* whether a node's allocatable may change while it exists
    MaxWatchLosses,   \* bound on breaks of the node watch
    MaxUpsets         \* bound on breaks of the watch and status updates together

ASSUME AllocatablesAssumption ==
    \A a \in Allocatables : \A n \in DOMAIN a : a[n] \in Nat

ASSUME NamingsAssumption == \A f \in Namings : DOMAIN f = Nodes

ASSUME TrackerBoundsAssumption ==
    MayChange \in BOOLEAN /\ MaxWatchLosses \in Nat /\ MaxUpsets \in Nat

VARIABLES
    nameOf,       \* the name of each node, which it never changes
    nodes,        \* the API server's nodes: UID -> allocatable
    gone,         \* UIDs deleted, never used again
    store,        \* the informer's cache of nodes
    watchUp,      \* FALSE while the node watch is broken
    calls,        \* calls waiting for the handler goroutine
    nodeIDs,      \* the aggregator's set of counted nodes
    total,        \* the aggregator's running total
    heartbeats,   \* status updates so far
    losses        \* watch breaks so far

clusterVars == <<nameOf, nodes, gone, store, watchUp, heartbeats, losses>>
vars == <<clusterVars, calls, nodeIDs, total>>

-----------------------------------------------------------------------------
(* NodeAggregator.  An aggregator value is a record [ids, total].          *)

\* Mutant of addNoLock: the node's UID is not recorded.
addNoLockForgetsID(c, node) ==
    IF node.uid \in c.ids
    THEN c
    ELSE [ids |-> c.ids, total |-> Add(c.total, node.alloc)]

addNoLock(c, node) ==
    IF node.uid \in c.ids
    THEN c
    ELSE [ids |-> c.ids \cup {node.uid}, total |-> Add(c.total, node.alloc)]

\* Subtracts what the node passed in reports, not what was added for it.
deleteNoLock(c, node) ==
    IF node.uid \in c.ids
    THEN [ids |-> c.ids \ {node.uid}, total |-> Sub(c.total, node.alloc)]
    ELSE c

PutNode(c, node) == addNoLock(deleteNoLock(c, node), node)

DeleteNode(c, node) == deleteNoLock(c, node)

\* updateNode's test for a change worth a Put.  Both quantities it compares
\* are read from the old node.
NeedsUpdate(old, new) ==
    IF Cardinality(DOMAIN old) = Cardinality(DOMAIN new)
    THEN \E n \in DOMAIN old \cup DOMAIN new :
            n \notin DOMAIN old \/ old[n] # old[n]
    ELSE TRUE

-----------------------------------------------------------------------------
(* The cluster and the informer.                                           *)

With(f, u, a) == [x \in DOMAIN f \cup {u} |-> IF x = u THEN a ELSE f[x]]
Without(f, u) == [x \in DOMAIN f \ {u} |-> f[x]]

NodeCall(call, u, old, new) ==
    [call |-> call, old |-> old, node |-> [uid |-> u, alloc |-> new]]

\* The names of the nodes of f, and its node of name m.
Names(f) == {nameOf[u] : u \in DOMAIN f}
Named(f, m) == CHOOSE u \in DOMAIN f : nameOf[u] = m

Observe(newNodes, newCall) ==
    /\ nodes' = newNodes
    /\ IF watchUp
       THEN store' = newNodes /\ calls' = Append(calls, newCall)
       ELSE UNCHANGED <<store, calls>>
    /\ UNCHANGED <<nameOf, watchUp, losses, nodeIDs, total>>

Register(u, a) ==
    /\ u \notin DOMAIN nodes \cup gone
    /\ nameOf[u] \notin Names(nodes)
    /\ Observe(With(nodes, u, a), NodeCall("add", u, a, a))
    /\ UNCHANGED <<gone, heartbeats>>

\* A status update, which need not change the allocatable resources.
Heartbeat(u, a) ==
    /\ heartbeats + losses < MaxUpsets
    /\ u \in DOMAIN nodes
    /\ MayChange \/ a = nodes[u]
    /\ Observe(With(nodes, u, a), NodeCall("update", u, nodes[u], a))
    /\ heartbeats' = heartbeats + 1
    /\ UNCHANGED gone

Deregister(u) ==
    /\ u \in DOMAIN nodes
    /\ Observe(Without(nodes, u), NodeCall("delete", u, nodes[u], nodes[u]))
    /\ gone' = gone \cup {u}
    /\ UNCHANGED heartbeats

WatchDown ==
    /\ watchUp /\ losses < MaxWatchLosses /\ heartbeats + losses < MaxUpsets
    /\ watchUp' = FALSE
    /\ losses' = losses + 1
    /\ UNCHANGED <<nameOf, nodes, gone, store, heartbeats, calls, nodeIDs, total>>

\* The orders in which a list may deliver its nodes.
Orders(S) == {f \in [1..Cardinality(S) -> S] : \A i, j \in DOMAIN f : f[i] = f[j] => i = j}

\* The relist catches up name by name.  A name that vanished comes as a
\* DeletedFinalStateUnknown, but one that another node has taken over as an
\* update, from the old node to the new.
CatchUp(m) ==
    LET old == Named(store, m)
        new == Named(nodes, m)
    IN  CASE m \in Names(store) /\ m \in Names(nodes) ->
                NodeCall("update", new, store[old], nodes[new])
          [] m \notin Names(store) -> NodeCall("add", new, nodes[new], nodes[new])
          [] m \notin Names(nodes) -> NodeCall("tombstone", old, store[old], store[old])

Relist ==
    /\ ~watchUp
    /\ \E order \in Orders(Names(nodes) \cup Names(store)) :
          calls' = calls \o [i \in DOMAIN order |-> CatchUp(order[i])]
    /\ store' = nodes
    /\ watchUp' = TRUE
    /\ UNCHANGED <<nameOf, nodes, gone, heartbeats, losses, nodeIDs, total>>

-----------------------------------------------------------------------------
(* ClusterResourceTracker's handlers.                                      *)

Counter == [ids |-> nodeIDs, total |-> total]

Becomes(c) == nodeIDs' = c.ids /\ total' = c.total

Handle(kind) ==
    /\ calls # <<>> /\ Head(calls).call = kind
    /\ calls' = Tail(calls)
    /\ UNCHANGED clusterVars

addNode == Handle("add") /\ Becomes(PutNode(Counter, Head(calls).node))

updateNode ==
    /\ Handle("update")
    /\ IF NeedsUpdate(Head(calls).old, Head(calls).node.alloc)
       THEN Becomes(PutNode(Counter, Head(calls).node))
       ELSE Becomes(Counter)

deleteNode == Handle("delete") /\ Becomes(DeleteNode(Counter, Head(calls).node))

\* The failed type assertion leaves a nil node, which Delete ignores.
deleteNodeTombstone == Handle("tombstone") /\ Becomes(Counter)

Init ==
    /\ nameOf \in Namings
    /\ nodes = [u \in {} |-> NoResources] /\ store = nodes
    /\ gone = {}
    /\ watchUp = TRUE
    /\ calls = <<>>
    /\ nodeIDs = {} /\ total = NoResources
    /\ heartbeats = 0 /\ losses = 0

NodeHandlers == addNode \/ updateNode \/ deleteNode \/ deleteNodeTombstone

Next ==
    \/ \E u \in Nodes :
        \/ \E a \in Allocatables : Register(u, a) \/ Heartbeat(u, a)
        \/ Deregister(u)
    \/ WatchDown \/ Relist
    \/ NodeHandlers

Spec == Init /\ [][Next]_vars

-----------------------------------------------------------------------------
(* Properties.                                                             *)

\* What the allocatable f of a set of nodes amounts to in resource n, counted
\* in units.
AllocatableUnits(f, n) == UNION {{u} \X (1..Qty(f[u], n)) : u \in DOMAIN f}

Allocatable(f, n) == Cardinality(AllocatableUnits(f, n))

ResourceNames == UNION {DOMAIN a : a \in Allocatables}

\* cluster_tracker.go: "ClusterResourceTracker tracks the total available
\* resources in the cluster by watching cluster nodes."  Once every call is
\* handled, the total is the sum over the nodes that exist.
TotalInSync ==
    calls = <<>> /\ watchUp =>
        \A n \in ResourceNames \cup DOMAIN total : Qty(total, n) = Allocatable(nodes, n)

\* That holds while the watch has not broken and nodes do not change size.
TotalWhileWatched == losses = 0 => TotalInSync

\* The existing nodes whose name no earlier node had.
FirstOfName == {u \in DOMAIN nodes : \A v \in gone : nameOf[v] # nameOf[u]}

\* A watch that breaks can leave a node behind in the total, and the node that
\* takes over its name out, since updateNode sees no change.  It does not lose
\* a name: once every call is handled, each existing node is counted or an
\* earlier one of its name still is, and the total is at least what the nodes
\* that are the first of their name provide.
NoNodeMissed ==
    calls = <<>> /\ watchUp =>
        /\ \A u \in DOMAIN nodes :
              u \in nodeIDs \/ \E v \in nodeIDs \cap gone : nameOf[v] = nameOf[u]
        /\ \A n \in ResourceNames :
              Qty(total, n) >= Allocatable([u \in FirstOfName |-> nodes[u]], n)
=============================================================================
