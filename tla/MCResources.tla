----------------------------- MODULE MCResources -----------------------------
(***************************************************************************)
(* The resource algebra against its pointwise reading, in which a missing  *)
(* name is 0, on every pair of small Resources values; and the bulk form   *)
(* of AddPodIfNotPresent against the loop that the code runs.              *)
(***************************************************************************)
EXTENDS Quota

CONSTANTS
    Names,     \* the resources there are
    MaxQty,    \* quantities are -MaxQty..MaxQty
    PodIDs     \* pods added to a quota in bulk

ASSUME MaxQtyAssumption == MaxQty \in Nat

Values == UNION {[D -> -MaxQty..MaxQty] : D \in SUBSET Names}
Amounts == UNION {[D -> 0..MaxQty] : D \in SUBSET Names}

VARIABLES r, other, reqs, quota
vars == <<r, other, reqs, quota>>

Init ==
    /\ r = NoResources /\ other = NoResources
    /\ reqs = [u \in {} |-> NoResources]
    /\ quota = NewQuota(NoResources)

\* A pair of values to compute with.
Pick ==
    /\ DOMAIN reqs = {}
    /\ r = NoResources /\ other = NoResources
    /\ r' \in Values /\ other' \in Values
    /\ UNCHANGED <<reqs, quota>>

\* One more iteration of the loop over pods, in any order.
AddOne(u) ==
    /\ r = NoResources /\ other = NoResources
    /\ u \notin DOMAIN reqs
    /\ \E req \in Amounts :
          /\ reqs' = MapSet(reqs, u, req)
          /\ quota' = AddPodIfNotPresent(quota, [uid |-> u, req |-> req])
    /\ UNCHANGED <<r, other>>

Next == Pick \/ \E u \in PodIDs : AddOne(u)

Spec == Init /\ [][Next]_vars

-----------------------------------------------------------------------------
IsAmount(x) == \A n \in DOMAIN x : x[n] >= 0

\* Taking off a ledger what was put on it restores it, on which quota.go and
\* node_aggregator.go rely; and taking off is adding the negation, as long as
\* every name taken off is there.
SubUndoesAdd ==
    /\ Equivalent(Minus(Plus(r, other), other), r)
    /\ DOMAIN other \subseteq DOMAIN r => Equal(Minus(r, other), Plus(r, Negated(other)))

\* The two readings of "over the maximum" agree: some shared resource exceeds
\* exactly when not all shared resources are within.
IntersectingComparisonsAgree ==
    /\ AnyGreaterIntersecting(r, other) <=> ~AllLessIntersecting(r, other)
    /\ AnyLessIntersecting(r, other) <=> ~AllGreaterIntersecting(r, other)
    /\ EqualIntersecting(r, other) <=>
          AllLessIntersecting(r, other) /\ AllGreaterIntersecting(r, other)

\* AllGreater is an order up to Equivalent, which Equal refines.
AllGreaterOrders ==
    /\ AllGreater(r, other) /\ AllGreater(other, r) <=> Equivalent(r, other)
    /\ Equal(r, other) => Equivalent(r, other)

\* The effective maximum the status loop reports, cluster total r limited by
\* maximum other: never above either, and of the total's resources only.  This
\* is for quantities that are not negative: a negative maximum for a name that
\* the total lacks is below its 0, and SetMinExisting adds the name.
EffectiveMaxIsMeet ==
    IsAmount(r) /\ IsAmount(other) =>
        /\ DOMAIN TakeMinExisting(r, other) = DOMAIN r
        /\ AllLessIntersecting(TakeMinExisting(r, other), other)
        /\ AllGreater(r, TakeMinExisting(r, other))
        /\ \A n \in DOMAIN r : TakeMinExisting(r, other)[n] \in {r[n], Qty(other, n)}

\* Adding pods in bulk, as PreFilter does with the nominated pods, gives what
\* adding them one by one gives, in whatever order.
BulkAddIsLoop ==
    LET bulk == AddPodsIfNotPresent(NewQuota(NoResources), reqs)
    IN  bulk.podsByID = quota.podsByID /\ Equal(bulk.used, quota.used)
=============================================================================
