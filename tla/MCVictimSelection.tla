-------------------------- MODULE MCVictimSelection --------------------------
(* An instance of VictimSelection for TLC: a preemptor of queue qa, two     *)
(* potential victims that share its quota, two of queue qb that do not, one *)
(* pod of qa too important to preempt and one of qb its labels protect.     *)
(* Two of the potential victims, a1 and b2, are equally important.          *)
EXTENDS VictimSelection

CONSTANTS a1, a2, a3, b1, b2, b3, pre, qa, qb, batch, service, pdb1, pdb2

AllOthers == {a1, a2, a3, b1, b2, b3}

Pod(u, q, cpu, labels, priority, start) ==
    [uid |-> u, queue |-> q, req |-> [cpu |-> cpu], labels |-> labels,
     priority |-> priority, start |-> start]

MCPodOf ==
    [u \in AllOthers \cup {pre} |->
        CASE u = pre -> Pod(pre, qa, 2, service, 5, 7)
          [] u = a1  -> Pod(a1, qa, 1, batch, 1, 1)
          [] u = a2  -> Pod(a2, qa, 2, batch, 3, 2)
          [] u = a3  -> Pod(a3, qa, 1, batch, 5, 3)
          [] u = b1  -> Pod(b1, qb, 1, batch, 3, 4)
          [] u = b2  -> Pod(b2, qb, 2, batch, 1, 1)
          [] u = b3  -> Pod(b3, qb, 1, service, 1, 6)]

\* qa's service pods may preempt batch pods anywhere; qb lets its batch pods
\* be preempted by anyone and preempts nobody (no selector given).
MCCfgOf ==
    [q \in {qa, qb} |->
        NewPreemptionConfigFromSpec(
            IF q = qa
            THEN [preempts    |-> [fromPods |-> {service}, toPods |-> {batch}],
                  preemptedBy |-> [fromPods |-> {service}, toPods |-> {batch}]]
            ELSE [preempts    |-> [fromPods |-> NilSelector, toPods |-> NilSelector],
                  preemptedBy |-> [fromPods |-> {batch, service}, toPods |-> {batch}]])]

MCMaxOf == [q \in {qa, qb} |-> IF q = qa THEN [cpu |-> 4] ELSE NoResources]

MCCapacities == {[cpu |-> 3], [cpu |-> 5, pods |-> 4]}

MCProtects == [b \in {pdb1, pdb2} |-> IF b = pdb1 THEN {a1, b1} ELSE {b1, b2, a2}]
=============================================================================
