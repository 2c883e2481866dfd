--------------------------- MODULE PreemptionRules ---------------------------
(***************************************************************************)
(* internal/queue/preemption.go, internal/match and the preemption part of *)
(* queue.go: who may preempt whom.                                         *)
(*                                                                         *)
(* A pod's labels are one model value; a matcher is the set of labels it   *)
(* matches.  A pod argument is a record with fields queue, labels and      *)
(* priority.  cfgs maps the known queues to their PreemptionConfig.        *)
(***************************************************************************)
EXTENDS Integers

CONSTANTS
    NilMatcher,       \* a LabelMatcher that is nil
    NilSelector,      \* a metav1.LabelSelector pointer that is nil
    InvalidSelector   \* a selector that does not convert

\* A nil or invalid selector matches nothing; any other is the set of labels
\* it selects.
LabelSelectorAsMatcherOrNothing(selector) ==
    IF selector \in {NilSelector, InvalidSelector} THEN {} ELSE selector

makePreemptionRuleFromSpecRule(rule) ==
    [fromPods |-> LabelSelectorAsMatcherOrNothing(rule.fromPods),
     toPods   |-> LabelSelectorAsMatcherOrNothing(rule.toPods)]

\* An invalid selector is reported and the rest of the configuration is used.
NewPreemptionConfigFromSpec(spec) ==
    [preempts    |-> makePreemptionRuleFromSpecRule(spec.preempts),
     preemptedBy |-> makePreemptionRuleFromSpecRule(spec.preemptedBy)]

\* CanPreempt and CanBePreempted.
Configured(rule) == rule.fromPods # NilMatcher /\ rule.toPods # NilMatcher

IsConfiguredForPreemption(cfgs, preemptor) == preemptor.queue \in DOMAIN cfgs

\* False as well for a pod without a known queue.
CanPodPreemptOthers(cfgs, preemptor) ==
    /\ preemptor.queue \in DOMAIN cfgs
    /\ Configured(cfgs[preemptor.queue].preempts)
    /\ preemptor.labels \in cfgs[preemptor.queue].preempts.fromPods

\* The victim's side of the rules, whoever the preemptor is.
CanPodBePreemptedByOthers(cfgs, victim) ==
    /\ victim.queue \in DOMAIN cfgs
    /\ Configured(cfgs[victim.queue].preemptedBy)
    /\ victim.labels \in cfgs[victim.queue].preemptedBy.toPods

IsPreemptionAllowed(cfgs, preemptor, victim) ==
    /\ victim.priority < preemptor.priority
    /\ CanPodPreemptOthers(cfgs, preemptor)
    /\ victim.labels \in cfgs[preemptor.queue].preempts.toPods
    /\ CanPodBePreemptedByOthers(cfgs, victim)
    /\ preemptor.labels \in cfgs[victim.queue].preemptedBy.fromPods
=============================================================================
