----------------------------- MODULE Governance -----------------------------
(***************************************************************************)
(* Who governs a pod, a pod template or a departed identity                *)
(* (internal/governance, governance.go and policies.go).  Decide is here a *)
(* function of what the walk has read so far: it returns the decision, or  *)
(* the read it needs next.                                                 *)
(*                                                                         *)
(* A level says [out, policy]: whether it opts out and the Policy it names *)
(* or Nobody.  A Policy is [namespaces, labels, invalid, manages]: the     *)
(* namespaces it accepts, {} for every one, the label sets its selector    *)
(* matches, whether the selector does not parse, and the kinds it manages. *)
(* A subject is [namespace, labels, says, controller, override]: whether a *)
(* pod has a controller, and a valid owner-name annotation.                *)
(***************************************************************************)

CONSTANTS
    Policies,           \* the Policies by name
    Excluded,           \* namespaces no Policy governs
    ObjectKinds         \* kinds of workload whose annotations can be read

Nobody == "nobody"      \* no Policy, owner kind or refusal
Unread == "unread"      \* what the walk has not read

NotRead == [out |-> FALSE, policy |-> Unread]
Silent == [out |-> FALSE, policy |-> Nobody]

\* A level decides when it opts out or names a Policy.
Decides(says) == says.out \/ says.policy # Nobody

Refused(why) == [need |-> Nobody, policy |-> Nobody, refusal |-> why]
Governed(name) == [need |-> Nobody, policy |-> name, refusal |-> Nobody]
Needs(read) == [need |-> read, policy |-> Nobody, refusal |-> Nobody]

-----------------------------------------------------------------------------
namespaceRefusal(p, namespace) ==
    IF namespace \in Excluded THEN "namespace-excluded"
    ELSE IF p.namespaces # {} /\ namespace \notin p.namespaces
         THEN "namespace-not-selected"
         ELSE Nobody

labelRefusal(p, labels) ==
    IF p.invalid THEN "selector-invalid"
    ELSE IF labels \notin p.labels THEN "labels-not-selected" ELSE Nobody

\* consent, as the refusal it returns.
consent(name, namespace, labels) ==
    IF name \notin DOMAIN Policies THEN "policy-missing"
    ELSE IF namespaceRefusal(Policies[name], namespace) # Nobody
         THEN namespaceRefusal(Policies[name], namespace)
         ELSE labelRefusal(Policies[name], labels)

\* departedConsent: there are no labels to match.
departedConsent(name, namespace) ==
    IF name \notin DOMAIN Policies THEN "policy-missing"
    ELSE IF namespaceRefusal(Policies[name], namespace) # Nobody
         THEN namespaceRefusal(Policies[name], namespace)
         ELSE IF Policies[name].invalid THEN "selector-invalid" ELSE Nobody

\* The pre-gate.
gateRefusal(namespace, labels) ==
    IF namespace \in Excluded THEN "namespace-excluded"
    ELSE IF \E name \in DOMAIN Policies :
               /\ namespaceRefusal(Policies[name], namespace) = Nobody
               /\ labelRefusal(Policies[name], labels) # "labels-not-selected"
         THEN Nobody
         ELSE "no-policy-selects"

managedBy(name, kind) ==
    IF kind \in Policies[name].manages THEN Governed(name)
    ELSE Refused("kind-not-managed")

\* ApplyOwnerNameOverride, for the kind: a valid annotation makes a pod with
\* no controller an identity of kind Pod.
identityKind(kind, override) == IF kind = Nobody /\ override THEN "Pod" ELSE kind

-----------------------------------------------------------------------------
\* decide, once the level that decides is known.  Only a pod's owner may still
\* be unread.
OptedIn(s, says, kind) ==
    IF says.out THEN Refused("opted-out")
    ELSE LET refusal == consent(says.policy, s.namespace, s.labels)
         IN  IF refusal # Nobody THEN Refused(refusal)
             ELSE IF kind = Unread THEN Needs("owner")
             ELSE managedBy(says.policy, identityKind(kind, s.override))

\* The least specific level, behind the gate.
FromNamespace(s, says, kind) ==
    LET refusal == gateRefusal(s.namespace, s.labels)
    IN  IF refusal # Nobody THEN Refused(refusal)
        ELSE IF Decides(says) THEN OptedIn(s, says, kind)
        ELSE Refused("not-opted-in")

\* A pod's workload level: behind the gate too, and read from the real owner.
FromWorkload(s, kind, workload, namespace) ==
    IF gateRefusal(s.namespace, s.labels) # Nobody
    THEN Refused(gateRefusal(s.namespace, s.labels))
    ELSE IF kind = Unread THEN Needs("owner")
    ELSE IF kind \in ObjectKinds /\ workload = NotRead THEN Needs("annotations")
    ELSE LET says == IF kind \in ObjectKinds THEN workload ELSE Silent
         IN  IF Decides(says) THEN OptedIn(s, says, kind)
             ELSE FromNamespace(s, namespace, kind)

\* Decide of a pod, of whose owner it has read the kind and what the object
\* says.
PodDecision(s, kind, workload, namespace) ==
    IF ~s.controller /\ ~s.override THEN Refused("no-owner")
    ELSE LET owner == IF s.controller THEN kind ELSE Nobody
         IN  IF Decides(s.says) THEN OptedIn(s, s.says, owner)
             ELSE IF s.controller THEN FromWorkload(s, owner, workload, namespace)
             ELSE FromNamespace(s, namespace, owner)

\* Decide of a pod template, which comes with its workload.
TemplateDecision(s, kind, workload, namespace) ==
    IF Decides(s.says) THEN OptedIn(s, s.says, kind)
    ELSE IF Decides(workload) THEN OptedIn(s, workload, kind)
    ELSE FromNamespace(s, namespace, kind)

\* Decide of an identity with no live member, by the Policy it is stored for.
DepartedDecision(name, kind, namespace) ==
    IF departedConsent(name, namespace) # Nobody
    THEN Refused(departedConsent(name, namespace))
    ELSE managedBy(name, kind)
=============================================================================
