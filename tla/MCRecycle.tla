----------------------------- MODULE MCRecycle ------------------------------
(***************************************************************************)
(* Instances of Recycle for TLC.                                           *)
(***************************************************************************)
EXTENDS Recycle

Both(app, side) == [c \in {"app", "side"} |-> IF c = "app" THEN app ELSE side]

Current == Both([req |-> 300, lim |-> 400], [req |-> 50, lim |-> Unset])

Enough == Both(150, 10)

NoChange == [req |-> Nil, lim |-> Nil, remove |-> FALSE]

\* On the template's resources the first lowers the request within the
\* threshold and the limit beyond it, the second raises both containers'
\* requests and keeps the limit, and pods crash-loop with the third.
Lowered == Both([req |-> 290, lim |-> 290, remove |-> FALSE], NoChange)
Raised == Both([req |-> 400, lim |-> Nil, remove |-> FALSE],
               [req |-> 80, lim |-> Nil, remove |-> FALSE])
Starving == Both([req |-> 100, lim |-> Nil, remove |-> TRUE], NoChange)
Mixed == {Lowered, Raised, Starving}

FivePercent == [percent |-> 5, floor |-> 15]
=============================================================================
