---------------------------- MODULE MCPromInputs ----------------------------
(***************************************************************************)
(* Instances of PromInputs for TLC.                                        *)
(***************************************************************************)
EXTENDS PromInputs

OneGroup == [i \in Identities |-> "deployments"]

\* Every container count known, and one unknown.
KnownOrNot == {[i \in Identities |-> 1], [i \in Identities |-> IF i = 3 THEN 0 ELSE 1]}

UsageThenOOM == <<TRUE, FALSE>>
\* The usage signal is dearer than the OOM one.
DearUsage == <<2, 1>>

OOMHistory == <<FALSE, TRUE>>

\* The first identity's usage is too much for Prometheus, in a shard and
\* alone, and so is the last one's OOM signal.
SickFirst == {<<1, q>> : q \in {x \in Queries : 1 \in x}} \cup {<<2, {3}>>}
=============================================================================
