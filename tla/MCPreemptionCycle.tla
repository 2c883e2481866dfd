------------------------- MODULE MCPreemptionCycle -------------------------
(* Instances of PreemptionCycle for TLC: three pods, each more important than *)
(* the one before.                                                          *)
EXTENDS PreemptionCycle, TLC

CONSTANTS lo, mid, hi, qa, qb, n1, n2, plain

ThreePods == {lo, mid, hi}

Pod(u, q, cpu, priority) ==
    [uid |-> u, queue |-> q, req |-> [cpu |-> cpu], labels |-> plain, priority |-> priority]

\* All of one queue and size.
Equals == (lo :> Pod(lo, qa, 1, 1)) @@ (mid :> Pod(mid, qa, 1, 2)) @@ (hi :> Pod(hi, qa, 1, 3))

\* All of one queue, the most important one twice the size of the others.
Graded == (lo :> Pod(lo, qa, 1, 1)) @@ (mid :> Pod(mid, qa, 1, 2)) @@ (hi :> Pod(hi, qa, 2, 3))

Rule == [fromPods |-> {plain}, toPods |-> {plain}]
MCCfgOf ==
    [q \in {qa, qb} |-> NewPreemptionConfigFromSpec([preempts |-> Rule, preemptedBy |-> Rule])]

RoomForOne == [q \in {qa, qb} |-> [cpu |-> 1]]
RoomForTwo == [q \in {qa, qb} |-> [cpu |-> 2]]
RoomForThree == [q \in {qa, qb} |-> [cpu |-> 3]]

TwoSmallNodes == [n \in {n1, n2} |-> [cpu |-> 1]]
TwoNodes == [n \in {n1, n2} |-> [cpu |-> 2]]
=============================================================================
