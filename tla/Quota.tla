-------------------------------- MODULE Quota --------------------------------
(***************************************************************************)
(* internal/queue/quota.go: the ledger of one queue.                       *)
(*                                                                         *)
(* A quota is a record                                                     *)
(*    max       the configured maximum (a Resources value),                *)
(*    used      the running total the code maintains incrementally,        *)
(*    podsByID  the pods that contribute to used.                          *)
(* Of a stored pod only the request it was added with is kept: podsByID    *)
(* maps its UID to that request.  A pod argument is any record with fields *)
(* uid and req; nil pods, which every method skips, are left out.  Each    *)
(* method runs under the quota's lock from its first read to its last      *)
(* write, so each is one operator from quota to quota.                     *)
(***************************************************************************)
EXTENDS Resources, FiniteSets

NewQuota(max) == [max |-> max, used |-> NoResources, podsByID |-> [u \in {} |-> NoResources]]

SetMax(q, max) == [q EXCEPT !.max = max]

ContainsPod(q, pod) == pod.uid \in DOMAIN q.podsByID

\* immut.Map's Set and Delete: new maps, the old one is never modified.
MapSet(m, u, req) == [x \in DOMAIN m \cup {u} |-> IF x = u THEN req ELSE m[x]]
MapDelete(m, u)   == [x \in DOMAIN m \ {u} |-> m[x]]

\* Mutant of AddPodIfNotPresent: the presence check is missing.
AddPodAlways(q, pod) ==
    [q EXCEPT !.podsByID = MapSet(@, pod.uid, pod.req),
              !.used     = Add(@, FromPodReq(pod.req))]

\* Mutant of AddPodIfNotPresent: the new map that Set returns is dropped.
AddPodWithoutEntry(q, pod) ==
    IF ContainsPod(q, pod)
    THEN q
    ELSE [q EXCEPT !.used = Add(@, FromPodReq(pod.req))]

AddPodIfNotPresent(q, pod) ==
    IF ContainsPod(q, pod)
    THEN q
    ELSE [q EXCEPT !.podsByID = MapSet(@, pod.uid, pod.req),
                   !.used     = Add(@, FromPodReq(pod.req))]

\* Mutant of DeletePodIfPresent: subtracts also for a pod not present.
DeletePodAlways(q, pod) ==
    [q EXCEPT !.podsByID = MapDelete(@, pod.uid),
              !.used     = Sub(@, FromPodReq(pod.req))]

\* The request subtracted is the one of the pod passed in, which need not be
\* the one podsByID holds.
DeletePodIfPresent(q, pod) ==
    IF ContainsPod(q, pod)
    THEN [q EXCEPT !.podsByID = MapDelete(@, pod.uid),
                   !.used     = Sub(@, FromPodReq(pod.req))]
    ELSE q

\* Mutant of WouldPutOverMax: the request is not added.
IsOverMax(q, request) == AnyGreaterIntersecting(q.used, q.max)

WouldPutOverMax(q, request) == AnyGreaterIntersecting(Plus(q.used, request), q.max)

-----------------------------------------------------------------------------
(***************************************************************************)
(* What a set of requests (a function from UIDs) amounts to, resource by   *)
(* resource: one unit per pod, per resource, per quantity requested.       *)
(* Counting units rather than folding a sum keeps the definition within    *)
(* reach of the provers; requests are natural numbers.                     *)
(***************************************************************************)
Units(reqs, n) ==
    UNION {{u} \X (1..Qty(FromPodReq(reqs[u]), n)) : u \in DOMAIN reqs}

Requested(reqs, n) == Cardinality(Units(reqs, n))

\* The names any request of reqs mentions.
RequestNames(reqs) == UNION {DOMAIN FromPodReq(reqs[u]) : u \in DOMAIN reqs}

\* AddPodIfNotPresent of several pods (reqs, by UID), in whatever order.
AddPodsIfNotPresent(q, reqs) ==
    LET fresh == [u \in DOMAIN reqs \ DOMAIN q.podsByID |-> reqs[u]]
    IN  [q EXCEPT
            !.podsByID = [u \in DOMAIN @ \cup DOMAIN fresh |->
                             IF u \in DOMAIN fresh THEN fresh[u] ELSE @[u]],
            !.used = [n \in DOMAIN @ \cup RequestNames(fresh) |->
                         Qty(@, n) + Requested(fresh, n)]]

-----------------------------------------------------------------------------
(* The ledger agrees with its entries: for every resource, used is what    *)
(* the pods in podsByID requested when they were added.                    *)
Exact(q) ==
    \A n \in DOMAIN q.used \cup RequestNames(q.podsByID) :
        Qty(q.used, n) = Requested(q.podsByID, n)

\* No resource the maximum names is used beyond it.
WithinMax(q) == ~AnyGreaterIntersecting(q.used, q.max)
=============================================================================
