---------------------------- MODULE MCLifecycle ----------------------------
(***************************************************************************)
(* Instances of Lifecycle for TLC.  Time unit: ten minutes, so that        *)
(* RefreshInterval = 1, MinStalenessBudget = 3, SweepGrace = 1 and, at the *)
(* default ten minutes, ReconcileInterval = 1.                             *)
(***************************************************************************)
EXTENDS Lifecycle

\* Revisions matter only as equal to the stored one or not: a copy that is
\* not at the stored revision never is again.  Safety runs identify states
\* that differ only in the numbers.
Relative(c) ==
    [c EXCEPT !.rv = IF Exists(obj) /\ c.rv = obj.rv THEN 1 ELSE 0,
              !.uid = IF ~Exists(c) THEN 0
                      ELSE IF c.uid = obj.uid THEN 1 ELSE 2]

View == <<now, events, Relative(obj), pol, members, inputs,
          [ccache EXCEPT !.obj = Relative(@)],
          [wcache EXCEPT !.obj = Relative(@)],
          [p \in Policies |-> [pass[p] EXCEPT !.known = Relative(@)]],
          [stub EXCEPT !.known = Relative(@)], computedAt>>
=============================================================================
