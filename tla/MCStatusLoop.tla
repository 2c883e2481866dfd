---------------------------- MODULE MCStatusLoop ----------------------------
(* Instances of StatusLoop for TLC.                                        *)
EXTENDS StatusLoop, TLC

CONSTANTS qa, p1, m1

\* Two names, or one name that the second node takes over.
OwnOrSharedNames == {[u \in Nodes |-> u], [u \in Nodes |-> m1]}

\* Two nodes provide more than the maximum, one as much, none less.
OneSize == {[cpu |-> 1]}
OneMax == {[cpu |-> 1]}
OnePod == {[uid |-> p1, queue |-> qa, req |-> [cpu |-> 1]]}
=============================================================================
