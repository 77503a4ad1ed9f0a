----------------------------- MODULE MCOOMWatch -----------------------------
(***************************************************************************)
(* Instances of OOMWatch for TLC.                                          *)
(***************************************************************************)
EXTENDS OOMWatch

CONSTANT p1

Of(i, c) == [id |-> i, container |-> c]

\* Identities of one container and of two.
Three == {Of("v", "a"), Of("w", "a"), Of("w", "b")}
Two == {Of("v", "a"), Of("w", "a")}

\* Pods of one identity, or of two.
Shared == [p \in Pods |-> "w"]
Apart == [p \in Pods |-> IF p = p1 THEN "w" ELSE "v"]
Either == {Shared, Apart}
SharedOnly == {Shared}

\* Three containers of the pods are killed, one of them at an unknown time.
Hungry == {x \in Pods \X Keys : x[1] = p1 \/ x[2].container = "a"}
Vague == {x \in Hungry : x[2].container = "b"}

Small == [req |-> 20, lim |-> 30]

\* The coordinated request is bounded again, and the ratio of a large one is
\* beyond the integers.
Memory == [resource |-> "memory", keepRequest |-> FALSE, headroom |-> 15,
           min |-> Nil, max |-> 90, strategy |-> "keepLimitRequestRatio",
           ratio |-> [num |-> 3, den |-> 2], coordinated |-> TRUE, anchor |-> Nil]

\* The bounds are in conflict, and the container's own limit is kept.
Cores == [Memory EXCEPT !.resource = "cpu", !.min = 50, !.max = 45,
                        !.anchor = 50, !.strategy = "keepLimit"]

Memories == {Memory}
Both == {Memory, Cores}

Busy == [target |-> 80, current |-> 6, min |-> 1, max |-> 4]

Quiet == [kills |-> 0, peak |-> Nil, limit |-> 0, live |-> FALSE]
NoKills == {Quiet}
=============================================================================
