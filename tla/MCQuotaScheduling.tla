-------------------------- MODULE MCQuotaScheduling --------------------------
(* Instances of QuotaScheduling for TLC.                                   *)
EXTENDS QuotaScheduling, TLC

CONSTANTS p1, p2, p3, qa

MaxLarge == [cpu |-> 2, gpu |-> 1, pods |-> 2]
MaxSmall == [cpu |-> 1]

\* One queue wanted by three pods, any two of which but not all fit in it.
ThreePods == {p1, p2, p3}
OneQueue == [p \in ThreePods |-> qa]
ThreePriorities == (p1 :> 1) @@ (p2 :> 1) @@ (p3 :> 2)
ThreeReqs == (p1 :> [cpu |-> 1]) @@ (p2 :> [cpu |-> 2]) @@ (p3 :> [cpu |-> 1, gpu |-> 1])

\* Two pods that do not fit the queue together.
TwoPods == {p1, p2}
SameQueue == [p \in TwoPods |-> qa]
TwoPriorities == (p1 :> 1) @@ (p2 :> 2)
TwoReqs == (p1 :> [cpu |-> 1]) @@ (p2 :> [cpu |-> 2])
TwoResized == (p1 :> [cpu |-> 2]) @@ (p2 :> [cpu |-> 1])

LargeOnly == {MaxLarge}
LargeAndSmall == {MaxLarge, MaxSmall}
OneMax == qa :> MaxLarge
=============================================================================
