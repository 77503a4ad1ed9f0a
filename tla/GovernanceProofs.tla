-------------------------- MODULE GovernanceProofs --------------------------
(***************************************************************************)
(* What the walk of Governance guarantees, for every set of Policies and   *)
(* every subject.                                                          *)
(***************************************************************************)
EXTENDS Governance, TLAPS

\* The words a decision is made of are told apart.
LEMMA Words ==
    /\ Nobody # "owner" /\ Nobody # "annotations" /\ Nobody # "labels-not-selected"
    /\ Nobody # "no-policy-selects" /\ Nobody # "namespace-excluded"
    /\ Nobody # "not-opted-in" /\ Nobody # "opted-out" /\ Nobody # "no-owner"
    /\ Nobody # "policy-missing" /\ Nobody # "kind-not-managed"
    /\ Nobody # "selector-invalid" /\ Nobody # "namespace-not-selected"
    /\ Unread # Nobody
BY DEF Nobody, Unread

\* "It is sound because the full decision applies the same namespace and label
\* rule": the gate refuses no subject that some Policy consents to, so what
\* it saves is reads and never a Policy's rule (gate, gateRefusal, consent).
THEOREM GateIsSound ==
    ASSUME NEW name, NEW namespace, NEW labels,
           consent(name, namespace, labels) = Nobody
    PROVE  gateRefusal(namespace, labels) = Nobody
<1>1. name \in DOMAIN Policies
  BY Words DEF consent
<1>2. namespaceRefusal(Policies[name], namespace) = Nobody
  BY <1>1 DEF consent
<1>3. labelRefusal(Policies[name], labels) = Nobody
  BY <1>1, <1>2 DEF consent
<1>4. namespace \notin Excluded
  BY <1>2, Words DEF namespaceRefusal
<1> QED
  BY <1>1, <1>2, <1>3, <1>4, Words DEF gateRefusal

\* Behind the gate or not, the level that decides names the same Policy.
LEMMA GateChangesNoPolicy ==
    ASSUME NEW s, NEW says, NEW kind,
           gateRefusal(s.namespace, s.labels) # Nobody
    PROVE  OptedIn(s, says, kind).policy = Nobody
<1>1. consent(says.policy, s.namespace, s.labels) # Nobody
  BY GateIsSound
<1> QED
  BY <1>1 DEF OptedIn, Refused

\* "They cannot disagree on who governs a pod": once it has read what it needs
\* the webhook decides for a pod what the inventory decides for its template,
\* although it asks the gate at another level (Decide).
THEOREM PodAgreesWithTemplate ==
    ASSUME NEW s, NEW kind \in ObjectKinds, NEW workload, NEW namespace,
           s.controller, kind # Unread, workload # NotRead
    PROVE  PodDecision(s, kind, workload, namespace).policy
             = TemplateDecision(s, kind, workload, namespace).policy
<1>1. CASE Decides(s.says)
  BY <1>1 DEF PodDecision, TemplateDecision
<1>2. CASE ~Decides(s.says) /\ gateRefusal(s.namespace, s.labels) = Nobody
  BY <1>2 DEF PodDecision, TemplateDecision, FromWorkload
<1>3. CASE ~Decides(s.says) /\ gateRefusal(s.namespace, s.labels) # Nobody
  <2>1. PodDecision(s, kind, workload, namespace).policy = Nobody
    BY <1>3 DEF PodDecision, FromWorkload, Refused
  <2>2. OptedIn(s, workload, kind).policy = Nobody
    BY <1>3, GateChangesNoPolicy
  <2>3. FromNamespace(s, namespace, kind).policy = Nobody
    BY <1>3 DEF FromNamespace, Refused
  <2> QED
    BY <1>3, <2>1, <2>2, <2>3 DEF TemplateDecision
<1> QED
  BY <1>1, <1>2, <1>3

\* What a pod's walk may have read of its owner and of the owner's object.
Partial(kind, workload, kind0, workload0) ==
    kind0 \in {Unread, kind} /\ workload0 \in {NotRead, workload}

LEMMA OptedInIsFinal ==
    ASSUME NEW s, NEW says, NEW kind, NEW kind0 \in {Unread, kind},
           OptedIn(s, says, kind0).need = Nobody
    PROVE  OptedIn(s, says, kind) = OptedIn(s, says, kind0)
<1>1. CASE kind0 = kind
  BY <1>1
<1>2. CASE kind0 = Unread
  <2>1. says.out \/ consent(says.policy, s.namespace, s.labels) # Nobody
    BY <1>2, Words DEF OptedIn, Needs
  <2> QED
    BY <2>1 DEF OptedIn
<1> QED
  BY <1>1, <1>2

\* "Decide calls a method only when its answer can change the Decision", the
\* other way round: a decision made without a read is the decision made with
\* it, so an admission that stops early decides as one that reads on (walk).
THEOREM EarlyDecisionIsFinal ==
    ASSUME NEW s, NEW kind, NEW workload, NEW namespace,
           NEW kind0, NEW workload0, Partial(kind, workload, kind0, workload0),
           PodDecision(s, kind0, workload0, namespace).need = Nobody
    PROVE  PodDecision(s, kind, workload, namespace)
             = PodDecision(s, kind0, workload0, namespace)
<1>0. kind0 \in {Unread, kind} /\ workload0 \in {NotRead, workload}
  BY DEF Partial
<1>1. CASE ~s.controller
  BY <1>1 DEF PodDecision
<1>2. CASE s.controller /\ Decides(s.says)
  BY <1>0, <1>2, OptedInIsFinal DEF PodDecision
<1>3. CASE s.controller /\ ~Decides(s.says)
  <2>1. FromWorkload(s, kind0, workload0, namespace).need = Nobody
    BY <1>3 DEF PodDecision
  <2>2. CASE gateRefusal(s.namespace, s.labels) # Nobody
    BY <1>3, <2>2 DEF PodDecision, FromWorkload
  <2>3. CASE gateRefusal(s.namespace, s.labels) = Nobody
    <3>1. kind0 # Unread
      BY <2>1, <2>3, Words DEF FromWorkload, Needs
    <3>2. kind0 = kind
      BY <1>0, <3>1
    <3>3. kind \in ObjectKinds => workload0 # NotRead
      BY <2>1, <2>3, <3>1, <3>2, Words DEF FromWorkload, Needs
    <3>4. kind \in ObjectKinds => workload0 = workload
      BY <1>0, <3>3
    <3> QED
      BY <1>3, <2>3, <3>1, <3>2, <3>3, <3>4 DEF PodDecision, FromWorkload
  <2> QED
    BY <2>2, <2>3
<1> QED
  BY <1>1, <1>2, <1>3

\* An identity that loses its last member stays with the Policy that governed
\* it, unless the Policy changes: what a departed identity is judged by asks no
\* more of the Policy than what a live one is (departedConsent, consent).
THEOREM DepartureKeepsThePolicy ==
    ASSUME NEW s, NEW kind, NEW workload, NEW namespace, NEW name,
           kind # Nobody, name # Nobody,
           TemplateDecision(s, kind, workload, namespace).policy = name
    PROVE  DepartedDecision(name, kind, s.namespace) = Governed(name)
<1>1. PICK says : OptedIn(s, says, kind).policy = name
  BY DEF TemplateDecision, FromNamespace, Refused
<1>2. consent(says.policy, s.namespace, s.labels) = Nobody
  BY <1>1 DEF OptedIn, Refused
<1>3. managedBy(says.policy, kind).policy = name
  BY <1>1, <1>2 DEF OptedIn, Refused, Needs, identityKind
<1>4. says.policy = name /\ managedBy(name, kind) = Governed(name)
  BY <1>3 DEF managedBy, Refused, Governed
<1>5. departedConsent(name, s.namespace) = Nobody
  BY <1>2, <1>4, Words DEF consent, departedConsent, labelRefusal
<1> QED
  BY <1>4, <1>5 DEF DepartedDecision
=============================================================================
