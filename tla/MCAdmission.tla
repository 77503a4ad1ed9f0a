---------------------------- MODULE MCAdmission -----------------------------
(***************************************************************************)
(* Instances of Admission for TLC.                                         *)
(***************************************************************************)
EXTENDS Admission

CONSTANT w

\* Pods of one ReplicaSet of a Deployment.
OneRef == [r \in Requests |-> "rs"]
OneOwner == [ref \in {"rs"} |-> w]
AllThings == {"rs", w}
TwoCaches == [t \in Things |-> IF t = w THEN "annotations" ELSE "owners"]
OneKey == [r \in Requests |-> w]

OnePolicy ==
    [p \in {"P"} |->
        [namespaces |-> {}, labels |-> {"web"}, invalid |-> FALSE,
         manages |-> {"Deployment"}]]

Pod == [namespace |-> "shop", labels |-> "web", says |-> Silent,
        controller |-> TRUE, override |-> FALSE]
Pods == [r \in Requests |-> Pod]

NamesP == [out |-> FALSE, policy |-> "P"]
SomeSays == {NamesP, Silent}
Nothing == Silent
Unknown == [kind |-> Unread, workload |-> NotRead]
=============================================================================
