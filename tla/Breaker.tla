------------------------------ MODULE Breaker -------------------------------
(***************************************************************************)
(* The Prometheus client's circuit breaker and its in-flight slots         *)
(* (internal/prometheus, breaker.go and client.go), and the callers that   *)
(* go through both for every query.                                        *)
(*                                                                         *)
(* openUntil matters only relative to the clock: left is the time until    *)
(* it, 0 once it has passed, Closed when it is the zero time.  Failures    *)
(* past MaxFailures are not told apart.                                    *)
(***************************************************************************)
EXTENDS Integers, FiniteSets

CONSTANTS
    Callers,
    MaxFailures,        \* 0 disables the breaker
    Cooldown,
    MaxInflight         \* slots of the in-flight semaphore

ASSUME ClientAssumption ==
    /\ MaxFailures \in Nat
    /\ Cooldown \in Nat \ {0}
    /\ MaxInflight \in Nat \ {0}

VARIABLES
    failures, left,     \* the breaker
    at,                 \* where each caller is in its query
    probes,             \* callers that hold the half-open probe
    healthy             \* whether Prometheus answers

vars == <<failures, left, at, probes, healthy>>

Closed == -1

Enabled == MaxFailures > 0

Places == {"idle", "queued", "acquired", "querying"}

\* Callers that hold a slot.
Holders == {c \in Callers : at[c] \in {"acquired", "querying"}}

Goto(c, place) == at' = [at EXCEPT ![c] = place]

-----------------------------------------------------------------------------
isOpen == Enabled /\ left > 0

\* A call starts.  Once the cooldown is over the caller takes the probe, which
\* advances openUntil; while it lasts the call returns ErrCircuitOpen and the
\* caller stays where it was.
allow(c) ==
    /\ at[c] = "idle"
    /\ Enabled => left <= 0
    /\ IF Enabled /\ left = 0
       THEN left' = Cooldown /\ probes' = probes \cup {c}
       ELSE UNCHANGED <<left, probes>>
    /\ Goto(c, "queued")
    /\ UNCHANGED <<failures, healthy>>

\* acquire: a slot becomes free.
TakeSlot(c) ==
    /\ at[c] = "queued"
    /\ Cardinality(Holders) < MaxInflight
    /\ Goto(c, "acquired")
    /\ UNCHANGED <<failures, left, probes, healthy>>

\* acquire: the context or the queue timeout ends the wait.
AbortQueued(c) ==
    /\ at[c] = "queued"
    /\ Goto(c, "idle")
    /\ probes' = probes \ {c}
    /\ UNCHANGED <<failures, left, healthy>>

\* Mutant: the probe holder is re-checked too.
MayQueryNoExemption(c) == ~isOpen

\* acquire's re-check after queuing.
MayQuery(c) == c \in probes \/ ~isOpen

Recheck(c) ==
    /\ at[c] = "acquired"
    /\ IF MayQuery(c)
       THEN Goto(c, "querying") /\ UNCHANGED probes
       ELSE Goto(c, "idle") /\ probes' = probes \ {c}
    /\ UNCHANGED <<failures, left, healthy>>

Finish(c) ==
    /\ at[c] = "querying"
    /\ Goto(c, "idle")
    /\ probes' = probes \ {c}
    /\ UNCHANGED healthy

\* success.
Succeeds(c) ==
    /\ Finish(c) /\ healthy
    /\ IF Enabled THEN failures' = 0 /\ left' = Closed
       ELSE UNCHANGED <<failures, left>>

\* Mutant: opens for one more cooldown from openUntil instead of from now.
FailsExtending(c) ==
    /\ Finish(c)
    /\ IF Enabled
       THEN /\ failures' = IF failures < MaxFailures THEN failures + 1 ELSE failures
            /\ left' = IF failures' < MaxFailures THEN left
                       ELSE Cooldown + IF left > 0 THEN left ELSE 0
       ELSE UNCHANGED <<failures, left>>

\* failure.  Prometheus fails, or the caller's deadline passes or its context
\* is cancelled, which counts too.
Fails(c) ==
    /\ Finish(c)
    /\ IF Enabled
       THEN /\ failures' = IF failures < MaxFailures THEN failures + 1 ELSE failures
            /\ left' = IF failures' >= MaxFailures THEN Cooldown ELSE left
       ELSE UNCHANGED <<failures, left>>

\* recordQueryFailure does not count an abort that a sibling caused.
AbortedBySibling(c) == Finish(c) /\ UNCHANGED <<failures, left>>

HealthChanges == healthy' = ~healthy /\ UNCHANGED <<failures, left, at, probes>>

Tick ==
    /\ left > 0
    /\ left' = left - 1
    /\ UNCHANGED <<failures, at, probes, healthy>>

-----------------------------------------------------------------------------
Init ==
    /\ failures = 0 /\ left = Closed
    /\ at = [c \in Callers |-> "idle"]
    /\ probes = {}
    /\ healthy \in BOOLEAN

Call(c) == allow(c) \/ TakeSlot(c) \/ AbortQueued(c) \/ Recheck(c)

Answer(c) == Succeeds(c) \/ Fails(c) \/ AbortedBySibling(c)

Next == \/ \E c \in Callers : Call(c) \/ Answer(c)
        \/ HealthChanges \/ Tick

Spec == Init /\ [][Next]_vars

-----------------------------------------------------------------------------
\* Every variable has its type.
TypeOK ==
    /\ failures \in 0..MaxFailures
    /\ left \in Closed..Cooldown
    /\ at \in [Callers -> Places]
    /\ probes \subseteq Callers
    /\ healthy \in BOOLEAN

\* The circuit is open, or waiting for its probe to answer, exactly while the
\* last MaxFailures answers were failures: a probe that never answers leaves
\* it so, and any success, late ones included, closes it (allow, success,
\* failure).
OpenIsEarned == Enabled => (left # Closed <=> failures >= MaxFailures)

\* While the cooldown runs no call but the probe's starts a query, those that
\* queued before the circuit opened included (acquire).
OnlyProbesWhileOpen ==
    [][\A c \in Callers :
          at[c] # "querying" /\ at'[c] = "querying" => c \in probes \/ ~isOpen]_vars
=============================================================================
