------------------------ MODULE MCManagerConcurrency ------------------------
(* An instance of ManagerConcurrency for TLC: two queues, a pod of each, and *)
(* one without a queue.                                                     *)
EXTENDS ManagerConcurrency

CONSTANTS p1, p2, p3, qa, qb, handler, scheduler

\* The scheduling loop only reserves; the other caller stands for the pod
\* handlers and the binding cycles.
Ops == [c \in {handler, scheduler} |-> IF c = handler THEN {"add", "delete"} ELSE {"add"}]

ThreePods ==
    {[uid |-> p1, queue |-> qa, req |-> [cpu |-> 1]],
     [uid |-> p2, queue |-> qb, req |-> [cpu |-> 2]],
     [uid |-> p3, queue |-> NoLabel, req |-> [cpu |-> 1]]}

Strict == [max |-> [cpu |-> 1], cfg |-> "strict"]
Lenient == [max |-> [cpu |-> 2], cfg |-> "lenient"]
TwoSpecs == {Strict, Lenient}
BothStrict == [q \in {qa, qb} |-> Strict]
=============================================================================
