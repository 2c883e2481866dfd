---------------------------- MODULE QueueRegistry ----------------------------
(***************************************************************************)
(* What internal/queue/manager.go promises to its concurrent callers: an   *)
(* accounting call takes effect at one instant between its invocation and  *)
(* its return, and so does every change of the registry.  The effects are  *)
(* the operators of QueueManager, which QuotaScheduling uses as atomic     *)
(* steps.                                                                  *)
(***************************************************************************)
EXTENDS QueueManager

CONSTANTS
    Callers,     \* goroutines that add pods to and delete pods from quotas
    Names,       \* names of queues
    PodObjects,  \* the pods they are called with
    Specs,       \* what a queue may be configured with: [max, cfg]
    Initial      \* the queues that exist at first: name -> spec

VARIABLES
    queueByName,  \* name -> quota
    cfgByName,    \* name -> preemption configuration
    calls         \* the accounting call each caller is in

vars == <<queueByName, cfgByName, calls>>

Idle == [op |-> "none"]
Results == {"ok", "error"}

\* A call of c on a queue called name that has not taken effect yet.
PendingOn(c, name) ==
    /\ calls[c] # Idle
    /\ calls[c].result = "none"
    /\ calls[c].pod.queue = name

Init ==
    /\ queueByName = [name \in DOMAIN Initial |-> NewQueue(Initial[name].max)]
    /\ cfgByName = [name \in DOMAIN Initial |-> Initial[name].cfg]
    /\ calls = [c \in Callers |-> Idle]

Invoke(c, op, pod) ==
    /\ calls[c] = Idle
    /\ calls' = [calls EXCEPT ![c] = [op |-> op, pod |-> pod, result |-> "none"]]
    /\ UNCHANGED <<queueByName, cfgByName>>

\* Calls S take effect with result r.
Resolve(S, r) ==
    calls' = [c \in Callers |-> IF c \in S THEN [calls[c] EXCEPT !.result = r] ELSE calls[c]]

TakeEffect(c) ==
    /\ calls[c] # Idle /\ calls[c].result = "none"
    /\ queueByName' = IF calls[c].op = "add"
                      THEN AddPod(queueByName, calls[c].pod)
                      ELSE DeletePod(queueByName, calls[c].pod)
    /\ Resolve({c}, IF AddPodFails(queueByName, calls[c].pod) THEN "error" ELSE "ok")
    /\ UNCHANGED cfgByName

Return(c) ==
    /\ calls[c] # Idle /\ calls[c].result # "none"
    /\ calls' = [calls EXCEPT ![c] = Idle]
    /\ UNCHANGED <<queueByName, cfgByName>>

\* Calls that take effect at the instant before their queue goes: whatever
\* they did to its ledger goes with it.
ResolveOn(name) ==
    \E S \in SUBSET {c \in Callers : PendingOn(c, name)} :
        /\ S # {} => name \in DOMAIN queueByName
        /\ Resolve(S, "ok")

PutQueue(name, spec) ==
    /\ queueByName' = Put(queueByName, name, spec.max)
    /\ cfgByName' = [n \in DOMAIN cfgByName \cup {name} |->
                        IF n = name THEN spec.cfg ELSE cfgByName[n]]
    /\ ResolveOn(name)

UpdateQueue(name, spec) ==
    /\ queueByName' = Update(queueByName, name, spec.max)
    /\ cfgByName' = [n \in DOMAIN cfgByName \cup {name} |->
                        IF n = name THEN spec.cfg ELSE cfgByName[n]]
    /\ UNCHANGED calls

DeleteQueue(name) ==
    /\ queueByName' = Delete(queueByName, name)
    /\ cfgByName' = [n \in DOMAIN cfgByName \ {name} |-> cfgByName[n]]
    /\ ResolveOn(name)

Next ==
    \/ \E c \in Callers :
        \/ \E op \in {"add", "delete"}, pod \in PodObjects : Invoke(c, op, pod)
        \/ TakeEffect(c)
        \/ Return(c)
    \/ \E name \in Names :
        \/ \E spec \in Specs : PutQueue(name, spec) \/ UpdateQueue(name, spec)
        \/ DeleteQueue(name)

Spec == Init /\ [][Next]_vars
=============================================================================
