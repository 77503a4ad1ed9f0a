-------------------------------- MODULE WLR --------------------------------
(***************************************************************************)
(* internal/wlrcache: what a stored WorkloadRecommendation is, what each   *)
(* writer makes of it and what it means to its readers.  Pure operators,   *)
(* no state: Lifecycle.tla runs them concurrently.                         *)
(*                                                                         *)
(* Data abstraction.  One workload identity.  A container's recommended    *)
(* quantities are [by, level]: the Policy whose settings they were         *)
(* computed under, and an opaque value.  The container snapshot is the set *)
(* of container names it holds.  Traces, the stub label (which nothing     *)
(* reads) and the wording of errors are left out.  Times are naturals, 0   *)
(* being Go's zero time.                                                   *)
(***************************************************************************)
EXTENDS Integers

CONSTANTS
    Policies,           \* names of the Policies
    Names,              \* container names
    Levels,             \* distinguishable recommended values
    RefreshInterval,    \* wlrcache.RefreshInterval
    MinStalenessBudget, \* wlrcache.MinStalenessBudget
    SweepGrace,         \* wlrcache.sweepGrace
    ReconcileInterval,  \* --reconcile-interval
    Retention           \* --recommendation-retention

NoPolicy == ""

ASSUME PoliciesAssumption == NoPolicy \notin Policies

ASSUME LevelsAssumption == "" \notin Levels

\* The config refuses a reconcile interval or a retention of zero or less.
ASSUME DurationsAssumption ==
    /\ RefreshInterval \in Nat \ {0}
    /\ MinStalenessBudget \in Nat \ {0}
    /\ SweepGrace \in Nat \ {0}
    /\ ReconcileInterval \in Nat \ {0}
    /\ Retention \in Nat \ {0}

-----------------------------------------------------------------------------
(* The stored object *)

Outcomes == {"Computed", "NoData", "TooYoung", "FetchFailed", "Conflicted"}

\* A container without a recommended value.
Unset == [by |-> NoPolicy, level |-> ""]

Recommended == [by : Policies, level : Levels] \cup {Unset}

NoRecs == [n \in Names |-> Unset]

\* uid 0 stands for "no such object"; rv is the resourceVersion.  The
\* remaining fields are the ones of metadata, spec and status.
Objects ==
    [uid : Nat, rv : Nat, created : Nat,
     policy : Policies \cup {NoPolicy}, label : Policies \cup {NoPolicy},
     outcome : Outcomes \cup {""}, departed : BOOLEAN,
     computedBy : Policies \cup {NoPolicy},
     recs : [Names -> Recommended], observed : SUBSET Names,
     observedAt : Nat, servableUntil : Nat]

Missing ==
    [uid |-> 0, rv |-> 0, created |-> 0,
     policy |-> NoPolicy, label |-> NoPolicy,
     outcome |-> "", departed |-> FALSE, computedBy |-> NoPolicy,
     recs |-> NoRecs, observed |-> {}, observedAt |-> 0, servableUntil |-> 0]

Exists(o) == o.uid # 0

\* newObject, as the API server stores it: revision r, empty status.
NewObject(p, r, t) ==
    [Missing EXCEPT !.uid = r, !.rv = r, !.created = t,
                    !.policy = p, !.label = p]

HasRecs(o) == \E n \in Names : o.recs[n] # Unset

-----------------------------------------------------------------------------
(* How long a Recommendation is served *)

StalenessBudget ==
    IF MinStalenessBudget > 3 * ReconcileInterval
    THEN MinStalenessBudget ELSE 3 * ReconcileInterval

LastComputed(o) == IF o.created > o.observedAt THEN o.created ELSE o.observedAt

Later(a, b) == IF a > b THEN a ELSE b

LongestWindow == Later(Retention, StalenessBudget)

\* A Departed or Conflicted identity's Recommendation, which nothing refreshes.
Frozen(o) == o.departed \/ o.outcome = "Conflicted"

ServableUntil(o) ==
    IF ~HasRecs(o) THEN 0
    ELSE LastComputed(o) + (IF Frozen(o) THEN Retention ELSE StalenessBudget)

\* Mutant: any status write stamps, not only a Computed record.
StampAnyWrite(known, o, computed) == ServableUntil(o)

\* The stamp of status o written over known: only a Computed record gives an
\* object its first.
Stamp(known, o, computed) ==
    IF known.servableUntil = 0 /\ ~computed THEN 0 ELSE ServableUntil(o)

-----------------------------------------------------------------------------
(* Writers.  Every write is a JSON merge patch of the difference between    *)
(* the object its writer knows and the one it wants, applied by name to     *)
(* whatever the API server stores, with no precondition.                    *)

\* Mutant: an update of the whole object instead of a merge patch.
SentWhole(known, desired, stored) == desired

Sent(known, desired, stored) == IF known = desired THEN stored ELSE desired

\* A map is merged key by key, a key that was dropped being sent as null.
SentSet(known, desired, stored) ==
    (stored \ (known \ desired)) \cup (desired \ known)

\* The status subresource leaves metadata and spec alone.
PatchStatus(stored, known, desired) ==
    [stored EXCEPT
        !.outcome = Sent(known.outcome, desired.outcome, @),
        !.departed = Sent(known.departed, desired.departed, @),
        !.computedBy = Sent(known.computedBy, desired.computedBy, @),
        !.recs = [n \in Names |->
                     Sent(known.recs[n], desired.recs[n], stored.recs[n])],
        !.observed = SentSet(known.observed, desired.observed, @),
        !.observedAt = Sent(known.observedAt, desired.observedAt, @),
        !.servableUntil = Sent(known.servableUntil, desired.servableUntil, @)]

\* Mutant: a claim that leaves the label behind.
ClaimSpec(stored, known, p) ==
    [stored EXCEPT !.policy = Sent(known.policy, p, @)]

\* claim: point spec and label at p.  A blind claim knows only the name.
Claim(stored, known, p) ==
    [stored EXCEPT !.policy = Sent(known.policy, p, @),
                   !.label = Sent(known.label, p, @)]

\* Mutant: an object is adopted only while it names no Policy in its label.
NeedsClaimUnlabelled(known, p) == known.label = NoPolicy

\* Ensure adopts an object that names another Policy in spec or label.
NeedsClaim(known, p) == known.policy # p \/ known.label # p

\* Ensure's status write: the snapshot becomes running, departed is cleared.
NeedsEnsure(known, running) == known.departed \/ known.observed # running

EnsureStatus(known, running) ==
    LET live == [known EXCEPT !.departed = FALSE, !.observed = running]
    IN  [live EXCEPT !.servableUntil = Stamp(known, live, FALSE)]

\* The webhook asks for an object, or for a container the snapshot of an
\* object the controller keeps no live view of lacks.
ShouldRequest(known, p, running) ==
    \/ ~Exists(known)
    \/ /\ known.policy = p
       /\ known.departed \/ known.observed = {}
       /\ ~(running \subseteq known.observed)

SnapshotStatus(known, running) ==
    [known EXCEPT !.observed = @ \cup running]

\* statusEquivalent ignores observedAt and servableUntil.
StatusEquivalent(a, b) ==
    /\ a.outcome = b.outcome
    /\ a.computedBy = b.computedBy
    /\ a.departed = b.departed
    /\ a.recs = b.recs
    /\ a.observed = b.observed

\* Record's desired status for decision d = [outcome, departed, recs] at t.
\* Equal to known when Record finds nothing to write.
RecordStatus(known, d, t) ==
    LET base == [known EXCEPT !.outcome = d.outcome, !.departed = d.departed]
        fresh == [base EXCEPT !.computedBy = known.policy, !.recs = d.recs]
        due == \/ ~StatusEquivalent(known, fresh)
               \/ known.observedAt = 0
               \/ t - known.observedAt >= RefreshInterval
        decided == IF d.outcome # "Computed" THEN base
                   ELSE IF due THEN [fresh EXCEPT !.observedAt = t] ELSE fresh
    IN  [decided EXCEPT
            !.servableUntil = Stamp(known, decided, d.outcome = "Computed")]

-----------------------------------------------------------------------------
(* Readers *)

\* Mutant: who computed the numbers is not looked at.
ReadBySpec(known, p, t) ==
    CASE ~Exists(known) -> "absent"
      [] Exists(known) /\ known.policy # p -> "withheld"
      [] Exists(known) /\ known.policy = p /\ ~HasRecs(known) ->
            IF known.outcome = "" THEN "undecided" ELSE "nodata"
      [] OTHER ->
            IF t >= known.servableUntil THEN "stale"
            ELSE IF Frozen(known) THEN "retained" ELSE "fresh"

\* Read: the verdict on known for a pod of policy p admitted at t.
Read(known, p, t) ==
    CASE ~Exists(known) -> "absent"
      [] Exists(known) /\ known.policy # p -> "withheld"
      [] Exists(known) /\ known.policy = p /\ ~HasRecs(known) ->
            IF known.outcome = "" THEN "undecided" ELSE "nodata"
      [] OTHER ->
            IF known.computedBy # p THEN "withheld"
            ELSE IF t >= known.servableUntil THEN "stale"
            ELSE IF Frozen(known) THEN "retained" ELSE "fresh"

Injects(verdict) == verdict \in {"fresh", "retained"}

Standings == {"Ungoverned", "Governed", "Departed", "Conflicted"}

\* Mutant: retention counted from the object's creation.
ExpiredSinceCreation(known, p, s, t) ==
    /\ known.policy = p
    /\ t - known.created >= SweepGrace
    /\ \/ s = "Ungoverned"
       \/ /\ s \in {"Departed", "Conflicted"}
          /\ t - known.created > Retention

\* Expired: whether p's sweep deletes known, its identity at standing s in a
\* snapshot taken at t.
Expired(known, p, s, t) ==
    /\ known.policy = p
    /\ t - known.created >= SweepGrace
    /\ \/ s = "Ungoverned"
       \/ /\ s \in {"Departed", "Conflicted"}
          /\ t - LastComputed(known) > Retention
=============================================================================
