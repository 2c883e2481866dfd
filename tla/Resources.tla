------------------------------ MODULE Resources ------------------------------
(***************************************************************************)
(* internal/alloc/resource.go: the algebra of named resource quantities    *)
(* on which quotas, node totals and victim selection are built.            *)
(*                                                                         *)
(* A Resources value is a function from a set of resource names to         *)
(* integers.  resource.Quantity falls back to arbitrary precision, so Int  *)
(* is its range.  The nil map and the empty map are one value here: every  *)
(* method below treats them alike.                                         *)
(***************************************************************************)
EXTENDS Integers

ResourceNamePods == "pods"

NoResources == [n \in {} |-> 0]

\* Reading a missing key of a Go map yields the zero Quantity.
Qty(r, n) == IF n \in DOMAIN r THEN r[n] ELSE 0

\* reshelper.PodRequests plus the one "pods" unit every pod consumes.
FromPodReq(rl) ==
    [n \in DOMAIN rl \cup {ResourceNamePods} |->
        IF n = ResourceNamePods THEN 1 ELSE rl[n]]

getResNames(r, other) == DOMAIN r \cup DOMAIN other

-----------------------------------------------------------------------------
(* Mutators and their non-mutating variants.                               *)

Add(r, other) ==
    [n \in getResNames(r, other) |->
        IF n \in DOMAIN r THEN r[n] + Qty(other, n) ELSE other[n]]

\* Mutant of Sub: operands swapped.
SubSwapped(r, other) ==
    [n \in getResNames(r, other) |-> Qty(other, n) - Qty(r, n)]

\* A name missing from r receives the subtrahend itself, not its negation.
Sub(r, other) ==
    [n \in getResNames(r, other) |->
        IF n \in DOMAIN r THEN r[n] - Qty(other, n) ELSE other[n]]

Negate(r) == [n \in DOMAIN r |-> 0 - r[n]]

\* Names of other whose quantity is below r's (a missing one reads as 0).
LowerIn(r, other) == {n \in DOMAIN other : other[n] < Qty(r, n)}

\* Mutant of SetMinExisting: the smaller value is not looked for.
SetExisting(r, other) ==
    [n \in DOMAIN r |-> IF n \in DOMAIN other THEN other[n] ELSE r[n]]

SetMinExisting(r, other) ==
    [n \in DOMAIN r \cup LowerIn(r, other) |->
        IF n \in LowerIn(r, other) THEN other[n] ELSE r[n]]

TakeMinExisting(r, other) == SetMinExisting(r, other)

Plus(r, other) == Add(r, other)

Minus(r, other) == Sub(r, other)

Negated(r) == Negate(r)

-----------------------------------------------------------------------------
(* Comparisons.                                                            *)

\* Mutant of AllGreater: names only other has are not looked at.
AllGreaterOwnNames(r, other) == \A n \in DOMAIN r : ~(r[n] < Qty(other, n))

AllGreater(r, other) ==
    \A n \in getResNames(r, other) : ~(Qty(r, n) < Qty(other, n))

AllGreaterIntersecting(r, other) ==
    \A n \in DOMAIN r \cap DOMAIN other : ~(r[n] < other[n])

\* Mutant of AnyGreaterIntersecting: off by one, equal counts as greater.
AnyGreaterOrEqual(r, other) ==
    \E n \in DOMAIN r \cap DOMAIN other : r[n] >= other[n]

AnyGreaterIntersecting(r, other) ==
    \E n \in DOMAIN r \cap DOMAIN other : r[n] > other[n]

\* The code compares with "< 0" here as well.
AllLess(r, other) ==
    \A n \in getResNames(r, other) : ~(Qty(r, n) < Qty(other, n))

AllLessIntersecting(r, other) ==
    \A n \in DOMAIN r \cap DOMAIN other : ~(r[n] > other[n])

AnyLessIntersecting(r, other) ==
    \E n \in DOMAIN r \cap DOMAIN other : r[n] < other[n]

Equal(r, other) ==
    \A n \in getResNames(r, other) :
        /\ n \in DOMAIN r
        /\ n \in DOMAIN other
        /\ r[n] = other[n]

EqualIntersecting(r, other) ==
    \A n \in DOMAIN r \cap DOMAIN other : r[n] = other[n]

Equivalent(r, other) ==
    \A n \in getResNames(r, other) : Qty(r, n) = Qty(other, n)
=============================================================================
