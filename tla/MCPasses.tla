------------------------------ MODULE MCPasses ------------------------------
(***************************************************************************)
(* Instances of Passes for TLC.                                            *)
(***************************************************************************)
EXTENDS Passes, TLC

CONSTANTS i1, m1

\* Every member belongs to one identity.
OneGroup == [x \in Members |-> i1]

KeyOrder == [x \in Members |-> IF x = m1 THEN 1 ELSE 2]

\* Times matter only relative to the clock, and a past one only as past.
Ahead(t) == IF t = Never THEN Never ELSE Greatest(t - now, 0)

EntryAhead(e) ==
    [e EXCEPT !.failure = IF Transient(e) THEN [@ EXCEPT !.due = Ahead(@)] ELSE @]

Timeless ==
    <<events, policy, governs, live, [x \in Members |-> EntryAhead(members[x])],
      claims, queued, [p \in Policies |-> Ahead(wake[p])], unlisted, pass, failedBy>>

\* Policies have no order.
Swaps == Permutations(Policies)
=============================================================================
