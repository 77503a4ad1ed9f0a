------------------------------- MODULE Ledger -------------------------------
(***************************************************************************)
(* The controller's memory of applying each live member (internal/ledger): *)
(* a member's entry, what one result makes of it, what a Policy claims,    *)
(* the health of an identity and the time until a Policy's next pass.      *)
(*                                                                         *)
(* An entry holds nothing exactly when the code has deleted it from its    *)
(* map: a stored entry is measured or failing.  Pod counts are abstracted  *)
(* to whether there are any, and an error to the set of causes found in    *)
(* its tree.                                                               *)
(***************************************************************************)
EXTENDS Integers

CONSTANTS
    Policies,
    Identities,
    Members,
    Owner,              \* the identity of each member
    Rank,               \* the place of each member in key order
    Steps,              \* the steps that may fail
    Errors,             \* the errors they may fail with
    BaseRetryDelay,
    MaxRetryDelay,
    RetryFloor,         \* the second a retry already due is put off by
    ReconcileInterval,
    MaxShift,
    DurationBits        \* width of a time.Duration

Causes == {"refused", "rejected", "notfound", "conflict", "throttled", "server"}

\* a << k on a signed integer of DurationBits bits.
ShiftLeft(a, k) ==
    LET u == (a * 2^k) % 2^DurationBits
    IN  IF u < 2^(DurationBits - 1) THEN u ELSE u - 2^DurationBits

Least(a, b) == IF a < b THEN a ELSE b
Greatest(a, b) == IF a > b THEN a ELSE b

ASSUME KeysAssumption ==
    /\ Rank \in [Members -> Nat]
    /\ \A m, n \in Members : Rank[m] = Rank[n] => m = n
    /\ Owner \in [Members -> Identities]
    /\ Policies \cap Identities = {}
    /\ "" \notin Steps

ASSUME ErrorsAssumption == Errors \subseteq (SUBSET Causes) \ {{}}

ASSUME DelaysAssumption ==
    /\ {BaseRetryDelay, MaxRetryDelay, RetryFloor, ReconcileInterval}
         \subseteq Nat \ {0}
    /\ RetryFloor <= BaseRetryDelay
    /\ BaseRetryDelay <= MaxRetryDelay

\* "30s << 16 is far above MaxRetryDelay, nowhere near overflow".
ASSUME ShiftAssumption ==
    /\ MaxShift \in Nat
    /\ \A k \in 0..MaxShift :
          /\ ShiftLeft(BaseRetryDelay, k) \in Int
          /\ BaseRetryDelay <= ShiftLeft(BaseRetryDelay, k)

-----------------------------------------------------------------------------
NoFailure == [step |-> "", permanent |-> FALSE, attempts |-> 0, due |-> 0]

Failures ==
    {NoFailure} \cup
    [step : Steps, permanent : {TRUE}, attempts : {0}, due : {0}] \cup
    [step : Steps, permanent : {FALSE}, attempts : Nat \ {0}, due : Nat]

Entries == [measured : BOOLEAN, failure : Failures]

Empty == [measured |-> FALSE, failure |-> NoFailure]

Blocked(e) == e.failure # NoFailure

Transient(e) == Blocked(e) /\ ~e.failure.permanent

\* Mutant: doubles without end.
RetryDelayUnbounded(attempts) ==
    ShiftLeft(BaseRetryDelay, Least(attempts - 1, MaxShift))

RetryDelay(attempts) ==
    Least(ShiftLeft(BaseRetryDelay, Least(attempts - 1, MaxShift)), MaxRetryDelay)

permanentError(err) == err \cap {"refused", "rejected"} # {}

\* While a transient failure backs off its member may not run.
MayRun(e, now) == Transient(e) => now >= e.failure.due

\* failLocked: a permanent failure in between restarts the backoff.
FailureOf(prev, step, err, now) ==
    IF permanentError(err)
    THEN [NoFailure EXCEPT !.step = step, !.permanent = TRUE]
    ELSE LET n == prev.attempts + 1
         IN  [step |-> step, permanent |-> FALSE, attempts |-> n,
              due |-> now + RetryDelay(n)]

\* What one pass did with one live member.
Result(kind) == [kind |-> kind, step |-> "", err |-> {}]

Ran == {Result("Done"), Result("Idle"), Result("Uncounted")}
Failed(step, err) == [kind |-> "Failed", step |-> step, err |-> err]
Skipped == Result("Skipped")

\* recordLocked.
Recorded(e, res, now) ==
    CASE res.kind = "Skipped" -> e
      [] res.kind = "Failed" ->
           [e EXCEPT !.failure = FailureOf(@, res.step, res.err, now)]
      [] res.kind = "Done" -> [Empty EXCEPT !.measured = TRUE]
      [] res.kind = "Idle" -> Empty
      [] res.kind = "Uncounted" -> [e EXCEPT !.failure = NoFailure]

\* Mutant: forgets what the Policy claimed and another may claim still.
ForgottenByOne(members, before, claims, p) ==
    [m \in Members |-> IF m \in before \ claims[p] THEN Empty ELSE members[m]]

\* claimLocked: of the members p claimed before, those no Policy claims now
\* are forgotten.
Forgotten(members, before, claims, p) ==
    [m \in Members |->
        IF m \in before /\ \A q \in Policies : m \notin claims[q]
        THEN Empty ELSE members[m]]

\* claimedLocked.
ClaimedFor(claims, i) ==
    {m \in Members : Owner[m] = i /\ \E p \in Policies : m \in claims[p]}

\* healthLocked: Blocked on the step its first Blocked member fails on.
BlockedOn(members, claims, i) ==
    LET failing == {m \in ClaimedFor(claims, i) : Blocked(members[m])}
        first == CHOOSE m \in failing : \A n \in failing : Rank[m] <= Rank[n]
    IN  IF failing = {} THEN "" ELSE members[first].failure.step

Measured(members, claims, i) ==
    \E m \in ClaimedFor(claims, i) : members[m].measured

\* The retries requeueAfter waits for.
Retries(members, claims, p) ==
    {members[m].failure.due : m \in {n \in claims[p] : Transient(members[n])}}

\* Mutant: a retry already due requeues at once.
requeueAfterUnfloored(members, claims, p, floor, now) ==
    LET due == Retries(members, claims, p)
        earliest == CHOOSE d \in due : \A e \in due : d <= e
    IN  IF due = {} THEN ReconcileInterval
        ELSE Least(ReconcileInterval, Greatest(earliest - now, 0))

requeueAfter(members, claims, p, floor, now) ==
    LET due == Retries(members, claims, p)
        earliest == CHOOSE d \in due : \A e \in due : d <= e
    IN  IF due = {} THEN ReconcileInterval
        ELSE Least(ReconcileInterval, Greatest(earliest - now, floor))
=============================================================================
