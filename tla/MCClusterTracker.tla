-------------------------- MODULE MCClusterTracker --------------------------
(* Instances of ClusterTracker for TLC.                                    *)
EXTENDS ClusterTracker

\* Two sizes with the same resource names.
TwoSizes == {[cpu |-> 1], [cpu |-> 2]}
OwnNames == {[u \in Nodes |-> u]}
=============================================================================
