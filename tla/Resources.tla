----------------------------- MODULE Resources ------------------------------
(***************************************************************************)
(* What a recommendation changes on a container (internal/workload,        *)
(* inject.go and match.go), for one resource: CPU and memory go through    *)
(* the same steps apart from each other.  A quantity is a number of its    *)
(* milli-units.  A container's request or limit may be unset; a field of a *)
(* recommendation may be nil, which leaves the container's alone.          *)
(***************************************************************************)
EXTENDS Integers

Unset == -1
Nil == -1

Quantities == Nat \cup {Unset}

Requirements == [req : Quantities, lim : Quantities]

Recommendations == [req : Nat \cup {Nil}, lim : Nat \cup {Nil}, remove : BOOLEAN]

\* An unset value reads as zero.
Value(q) == IF q = Unset THEN 0 ELSE q

Larger(a, b) == IF a > b THEN a ELSE b

-----------------------------------------------------------------------------
setQuantity(current, q) ==
    IF q \in {Nil, Value(current)} THEN current ELSE q

applyLimit(current, q, remove) ==
    IF remove THEN Unset ELSE setQuantity(current, q)

\* Mutant: the limit is what the recommendation says.
GuardedNot(req, lim) == lim

\* The guard: a limit below its request is raised to it.
Guarded(req, lim) ==
    IF lim # Unset /\ req # Unset /\ req > lim THEN req ELSE lim

\* applyTo, and Inject of one container.
NewRequest(current, rec) == setQuantity(current.req, rec.req)

NewLimit(current, rec) ==
    Guarded(NewRequest(current, rec), applyLimit(current.lim, rec.lim, rec.remove))

Applied(current, rec) ==
    [req |-> NewRequest(current, rec), lim |-> NewLimit(current, rec)]

requestsEqual(a, b) == Value(a.req) = Value(b.req)

valueEqual(a, b) == requestsEqual(a, b) /\ Value(a.lim) = Value(b.lim)

\* containerChange.
Change(current, rec) ==
    CASE Value(NewRequest(current, rec)) # Value(current.req) -> "request"
      [] Value(NewLimit(current, rec)) # Value(current.lim)   -> "limit"
      [] OTHER                                                -> "none"

-----------------------------------------------------------------------------
\* The downsize threshold.  The band divides before it multiplies.
Band(current, tol) ==
    Larger((Value(current) \div 100) * tol.percent, tol.floor)

withinDecrease(current, q, tol) ==
    /\ q # Nil
    /\ Value(current) - q > 0
    /\ Value(current) - q < Band(current, tol)

\* clampDecreaseToTolerance: a withheld decrease becomes nil.  The removal of
\* a limit never is.
Clamped(current, rec, tol) ==
    [rec EXCEPT
        !.req = IF withinDecrease(current.req, @, tol) THEN Nil ELSE @,
        !.lim = IF ~rec.remove /\ withinDecrease(current.lim, @, tol)
                THEN Nil ELSE @]

\* Mutant: what is applied and what counts as a change disagree.
PlanForUnclamped(current, rec, tol) ==
    [rec |-> Clamped(current, rec, tol), change |-> Change(current, rec)]

\* planFor: what applying rec to a pod of these requirements comes to.
PlanFor(current, rec, tol) ==
    LET clamped == Clamped(current, rec, tol)
    IN  [rec |-> clamped, change |-> Change(current, clamped)]

stale(current, rec, tol) == PlanFor(current, rec, tol).change = "request"
=============================================================================
