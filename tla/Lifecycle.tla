----------------------------- MODULE Lifecycle -----------------------------
(***************************************************************************)
(* The life of one identity's WorkloadRecommendation: the Policies' passes *)
(* (internal/controller), the admission webhook's requests and the orphan  *)
(* reaper, all writing one object of the API server through informer       *)
(* caches that lag behind it, while Policies and workloads change, calls   *)
(* fail and processes restart.                                             *)
(*                                                                         *)
(* Identities share no WorkloadRecommendation, so one is enough.  An       *)
(* informer may lag by any amount and each informer lags on its own, so a  *)
(* read of a cache is taken together with the API call that follows it:    *)
(* a longer gap between the two is the same behaviour with the cache       *)
(* catching up later.  What is held across API calls (the object a pass    *)
(* claimed, its snapshot's standing and instant) is kept in pass.          *)
(***************************************************************************)
EXTENDS WLR, FiniteSets

CONSTANTS
    InitialPolicies,        \* Policies that exist, with finalizer, at start
    LegacyPolicies,         \* Policies an object of an older release may name
    Inputs,                 \* what the recommender may decide: outcomes, levels
    PolicyConcurrencyLimit, \* MaxConcurrentReconciles
    Lagging,                \* the informers that lag behind the API server
    Happens,                \* the kinds of environment events and faults
    MaxTime,                \* bound on the clock
    MaxEvents               \* bound on environment events and faults

ASSUME InputsAssumption ==
    /\ Inputs \subseteq Levels \cup {"NoData", "TooYoung", "FetchFailed"}
    /\ Levels \cap Outcomes = {}

ASSUME SetsAssumption ==
    /\ InitialPolicies \subseteq Policies
    /\ LegacyPolicies \subseteq Policies

\* Informers of the controller (recommendations, Policies, workloads) and of
\* the webhook (recommendations, Policies).
Informers == {"wlr", "policy", "workload", "webhook-wlr", "webhook-policy"}

EventKinds == {"admit", "members", "inputs", "policies", "call-fails",
               "backoff", "restart", "webhook-restart"}

ASSUME EnvironmentAssumption ==
    /\ Lagging \subseteq Informers
    /\ Happens \subseteq EventKinds

ASSUME BoundsAssumption ==
    /\ PolicyConcurrencyLimit \in Nat \ {0}
    /\ MaxTime \in Nat \ {0}
    /\ MaxEvents \in Nat

VARIABLES
    now,        \* the clock every process reads
    events,     \* environment events and faults left
    rev,        \* the API server's last resourceVersion
    obj,        \* the stored WorkloadRecommendation
    pol,        \* the stored Policies
    members,    \* the identity's live members: who governs them, containers
    inputs,     \* what each Policy's recommender decides now
    ccache,     \* the controller's lagging informers: [obj, pol, members]
    wcache,     \* the webhook's lagging informers: [obj, pol]
    pass,       \* each Policy's reconcile in progress
    stub,       \* the webhook's stub awaiting its snapshot: [known, running]
    computedAt  \* history: the last instant a Computed decision was recorded

vars == <<now, events, rev, obj, pol, members, inputs, ccache, wcache, pass,
          stub, computedAt>>

Phases == {"absent", "new", "live", "deleting"}

\* phase: "new" lacks the finalizer; covers: the Policy's namespaces and kinds
\* take in the identity's.  A live member whose labels its Policy's selector
\* refuses is one that opts into none.
PolicyStates == [phase : Phases, covers : BOOLEAN]

\* by: the Policies the live members opt into, NoPolicy standing for a member
\* that opts into none; running: the union of the contributors' containers.
MemberSets ==
    [by : SUBSET (Policies \cup {NoPolicy}), running : SUBSET Names]

PassSteps == {"idle", "conflict", "claim", "blind", "status", "fetch",
              "record", "sweep", "finalizer"}

Passes == [pc : PassSteps, takenAt : Nat, standing : Standings,
           running : SUBSET Names, known : Objects,
           input : Inputs \cup {""}, at : Nat]

Idle == [pc |-> "idle", takenAt |-> 0, standing |-> "Ungoverned",
         running |-> {}, known |-> Missing, input |-> "", at |-> 0]

NoStub == [known |-> Missing, running |-> {}]

\* An environment event or a fault, which the run's budget pays for.
Event(kind) ==
    /\ kind \in Happens
    /\ events > 0
    /\ events' = events - 1

-----------------------------------------------------------------------------
(* The API server *)

\* An effective write bumps the revision, one that changes nothing does not.
Store(o) ==
    IF o = obj THEN UNCHANGED <<rev, obj>>
    ELSE /\ rev' = rev + 1
         /\ obj' = [o EXCEPT !.rv = rev + 1]

Create(p) ==
    /\ rev' = rev + 1
    /\ obj' = NewObject(p, rev + 1, now)

\* Mutant: the delete is conditioned on the uid alone.
AtJudgedIncarnation(o, known) == o.uid = known.uid

\* A delete carries the uid and the resourceVersion of the judged copy.
AtJudgedRevision(o, known) == o.uid = known.uid /\ o.rv = known.rv

Delete(known) ==
    IF Exists(obj) /\ AtJudgedRevision(obj, known)
    THEN obj' = Missing /\ UNCHANGED rev
    ELSE UNCHANGED <<rev, obj>>

-----------------------------------------------------------------------------
(* What a read of an informer cache returns *)

Seen(informer, cached, stored) == IF informer \in Lagging THEN cached ELSE stored

Controller ==
    [obj |-> Seen("wlr", ccache.obj, obj),
     pol |-> Seen("policy", ccache.pol, pol),
     members |-> Seen("workload", ccache.members, members)]

Webhook ==
    [obj |-> Seen("webhook-wlr", wcache.obj, obj),
     pol |-> Seen("webhook-policy", wcache.pol, pol)]

-----------------------------------------------------------------------------
(* The inventory: where the identity stands in a snapshot of the caches *)

Exist(pols) == {p \in Policies : pols[p].phase # "absent"}

\* consent and departedConsent: the Policy exists and takes the identity in.
Consenting(pols) == {p \in Exist(pols) : pols[p].covers}

\* MemberPolicies: the Policies that govern some member.
MemberPolicies(m, pols) == m.by \cap Consenting(pols)

\* p's snapshot holds the identity when p covers it and it has a live member
\* or an object.
Standing(p, c) ==
    LET parties == MemberPolicies(c.members, c.pol)
    IN  CASE ~c.pol[p].covers -> "Ungoverned"
          [] c.pol[p].covers /\ c.members.by = {} ->
                IF Exists(c.obj) THEN "Departed" ELSE "Ungoverned"
          [] c.pol[p].covers /\ c.members.by # {} ->
                IF parties = {} THEN "Ungoverned"
                ELSE IF \E q \in parties : parties = {q} THEN "Governed"
                ELSE "Conflicted"

\* Identity.Policy = p: the members' one Policy, or the one a departed
\* identity's object names.
Governs(p, c) ==
    \/ /\ Standing(p, c) = "Governed"
       /\ p \in MemberPolicies(c.members, c.pol)
    \/ /\ Standing(p, c) = "Departed"
       /\ c.obj.policy = p
       /\ p \in Consenting(c.pol)

-----------------------------------------------------------------------------
(* A pass: Reconcile of Policy p *)

At(p, step) == pass[p].pc = step

Goto(p, step) == pass' = [pass EXCEPT ![p].pc = step]

\* The pass is done with the object; all that is left is to apply and sweep.
ToSweep(p) ==
    pass' = [pass EXCEPT ![p] =
                [Idle EXCEPT !.pc = "sweep", !.takenAt = pass[p].takenAt,
                             !.standing = pass[p].standing]]

Known(p, step, o) == pass' = [pass EXCEPT ![p].pc = step, ![p].known = o]

\* A controller worker takes p from the queue; reconciles of one Policy never
\* overlap.
MayReconcile(p) ==
    /\ At(p, "idle")
    /\ Cardinality({q \in Policies : ~At(q, "idle")}) < PolicyConcurrencyLimit

\* A Policy without the finalizer gets it, which fails on a stale Policy.
AddFinalizer(p) ==
    \/ Controller.pol[p].phase = "live" /\ UNCHANGED pol
    \/ /\ Controller.pol[p].phase = "new"
       /\ pol[p] = Controller.pol[p]
       /\ pol' = [pol EXCEPT ![p].phase = "live"]

\* The first step of runPass on the snapshot just taken.
FirstStep(p) ==
    IF /\ Standing(p, Controller) = "Conflicted"
       /\ p \in MemberPolicies(Controller.members, Controller.pol)
       /\ Exists(Controller.obj)
    THEN "conflict"
    ELSE IF ~Governs(p, Controller) THEN "sweep"
    ELSE IF Standing(p, Controller) = "Governed" THEN "claim"
    ELSE IF Controller.obj.observed # {} THEN "fetch"
    ELSE "sweep"

TakeSnapshot(p) ==
    /\ MayReconcile(p)
    /\ AddFinalizer(p)
    /\ pass' = [pass EXCEPT ![p] =
          [Idle EXCEPT
              !.pc = FirstStep(p),
              !.takenAt = now,
              !.standing = Standing(p, Controller),
              !.running = CASE FirstStep(p) = "claim" -> Controller.members.running
                            [] FirstStep(p) = "fetch" -> Controller.obj.observed
                            [] OTHER -> {},
              !.known = IF FirstStep(p) \in {"conflict", "fetch"}
                        THEN Controller.obj ELSE Missing]]
    /\ UNCHANGED <<now, events, rev, obj, members, inputs, ccache, wcache,
                   stub, computedAt>>

\* recordConflicted: best-effort, a missing object is only logged.
RecordConflicted(p) ==
    LET known == pass[p].known
        d == [outcome |-> "Conflicted", departed |-> FALSE, recs |-> NoRecs]
    IN  /\ At(p, "conflict")
        /\ IF Exists(obj)
           THEN Store(PatchStatus(obj, known, RecordStatus(known, d, now)))
           ELSE UNCHANGED <<rev, obj>>
        /\ ToSweep(p)
        /\ UNCHANGED <<now, events, pol, members, inputs, ccache, wcache, stub,
                       computedAt>>

\* Ensure holds o: on to its status write when it needs one, else the claim
\* is done and o is what Record records into.
Ensured(p, o) ==
    Known(p, IF NeedsEnsure(o, pass[p].running) THEN "status" ELSE "fetch", o)

\* Ensure on an object the cache does not have: create it, or claim blind the
\* one another writer created.
EnsureCreate(p) ==
    /\ At(p, "claim")
    /\ ~Exists(Controller.obj)
    /\ IF Exists(obj)
       THEN Goto(p, "blind") /\ UNCHANGED <<rev, obj>>
       ELSE Create(p) /\ Ensured(p, obj')
    /\ UNCHANGED <<now, events, pol, members, inputs, ccache, wcache, stub,
                   computedAt>>

\* A claim patches by name: it adopts whatever is stored, and its response is
\* the stored object.  A missing object fails the claim, and the identity is
\* computed but not recorded.
ClaimPatch(p, known) ==
    IF Exists(obj)
    THEN Store(Claim(obj, known, p)) /\ Ensured(p, obj')
    ELSE ToSweep(p) /\ UNCHANGED <<rev, obj>>

EnsureBlind(p) ==
    /\ At(p, "blind")
    /\ ClaimPatch(p, Missing)
    /\ UNCHANGED <<now, events, pol, members, inputs, ccache, wcache, stub,
                   computedAt>>

EnsureAdopt(p) ==
    /\ At(p, "claim")
    /\ Exists(Controller.obj)
    /\ NeedsClaim(Controller.obj, p)
    /\ ClaimPatch(p, Controller.obj)
    /\ UNCHANGED <<now, events, pol, members, inputs, ccache, wcache, stub,
                   computedAt>>

\* An object that names p already is held as the cache has it.
EnsureOwn(p) ==
    /\ At(p, "claim")
    /\ Exists(Controller.obj)
    /\ ~NeedsClaim(Controller.obj, p)
    /\ Ensured(p, Controller.obj)
    /\ UNCHANGED <<now, events, rev, obj, pol, members, inputs, ccache, wcache,
                   stub, computedAt>>

\* Ensure's status write, whose response is the stored object.
EnsureSnapshot(p) ==
    LET known == pass[p].known
        desired == EnsureStatus(known, pass[p].running)
    IN  /\ At(p, "status")
        /\ IF Exists(obj)
           THEN /\ Store(PatchStatus(obj, known, desired))
                /\ Known(p, "fetch", obj')
           ELSE ToSweep(p) /\ UNCHANGED <<rev, obj>>
        /\ UNCHANGED <<now, events, pol, members, inputs, ccache, wcache, stub,
                       computedAt>>

\* recommend, and the instant record() samples before it stores anything.
Recommend(p) ==
    /\ At(p, "fetch")
    /\ pass' = [pass EXCEPT ![p].pc = "record", ![p].input = inputs[p],
                            ![p].at = now]
    /\ UNCHANGED <<now, events, rev, obj, pol, members, inputs, ccache, wcache,
                   stub, computedAt>>

\* Every live member is in retry backoff: the pass left the identity out.
BackedOff(p) ==
    /\ At(p, "fetch")
    /\ pass[p].standing = "Governed"
    /\ Event("backoff")
    /\ ToSweep(p)
    /\ UNCHANGED <<now, rev, obj, pol, members, inputs, ccache, wcache, stub,
                   computedAt>>

\* What p's pass decided, computed under p's settings.
DecisionOf(p) ==
    LET input == pass[p].input
        departed == pass[p].standing = "Departed"
    IN  IF input \in Levels
        THEN [outcome |-> "Computed", departed |-> departed,
              recs |-> [n \in Names |-> IF n \in pass[p].running
                                        THEN [by |-> p, level |-> input]
                                        ELSE Unset]]
        ELSE [outcome |-> input, departed |-> departed, recs |-> NoRecs]

\* Record: patches by name what the pass's known object differs in.
Record(p) ==
    LET known == pass[p].known
        desired == RecordStatus(known, DecisionOf(p), pass[p].at)
        recorded == Exists(obj) /\ pass[p].input \in Levels
    IN  /\ At(p, "record")
        /\ IF Exists(obj) THEN Store(PatchStatus(obj, known, desired))
           ELSE UNCHANGED <<rev, obj>>
        /\ computedAt' = IF recorded /\ pass[p].at > computedAt
                         THEN pass[p].at ELSE computedAt
        /\ ToSweep(p)
        /\ UNCHANGED <<now, events, pol, members, inputs, ccache, wcache, stub>>

\* Mutant: the sweep judges as of its own clock.
JudgedAtSweep(p) == now

\* The instant a sweep judges at is its snapshot's.
JudgedAt(p) == pass[p].takenAt

\* Sweep: p's objects by label, judged as of the snapshot's instant; a
\* conflict leaves the object to the next sweep.
Sweep(p) ==
    LET known == Controller.obj
    IN  /\ At(p, "sweep")
        /\ IF /\ Exists(known)
              /\ known.label = p
              /\ Expired(known, p, pass[p].standing, JudgedAt(p))
           THEN Delete(known) ELSE UNCHANGED <<rev, obj>>
        /\ pass' = [pass EXCEPT ![p] = Idle]
        /\ UNCHANGED <<now, events, pol, members, inputs, ccache, wcache, stub,
                       computedAt>>

\* Mutant: a conflicting delete is left to a next time that never comes.
ConflictIgnored(after) == FALSE

\* failRelease: the delete conflicted when the object it named is still there.
KeepsFinalizer(after) == Exists(after)

\* Release of a Policy being deleted: a conflict is a failure, so the
\* finalizer stays for a retry that lists afresh.
Release(p) ==
    LET known == Controller.obj
        named == Exists(known) /\ known.label = p /\ known.policy = p
    IN  /\ MayReconcile(p)
        /\ Controller.pol[p].phase = "deleting"
        /\ IF named THEN Delete(known) ELSE UNCHANGED <<rev, obj>>
        /\ IF named /\ KeepsFinalizer(obj')
           THEN UNCHANGED pass ELSE Goto(p, "finalizer")
        /\ UNCHANGED <<now, events, pol, members, inputs, ccache, wcache, stub,
                       computedAt>>

RemoveFinalizer(p) ==
    /\ At(p, "finalizer")
    /\ pol' = IF pol[p].phase = "deleting"
              THEN [pol EXCEPT ![p].phase = "absent"] ELSE pol
    /\ pass' = [pass EXCEPT ![p] = Idle]
    /\ UNCHANGED <<now, events, rev, obj, members, inputs, ccache, wcache,
                   stub, computedAt>>

-----------------------------------------------------------------------------
(* The orphan reaper and the webhook *)

\* Mutant: the reaper judges only what an existing Policy's label lists.
OrphanedListed(o, pols) == o.policy \notin Exist(pols) /\ o.label \in Exist(pols)

\* An object whose spec.policy names a Policy that does not exist.
Orphaned(o, pols) == o.policy # NoPolicy /\ o.policy \notin Exist(pols)

Reap ==
    LET known == Controller.obj
    IN  /\ Exists(known)
        /\ Orphaned(known, Controller.pol)
        /\ Delete(known)
        /\ UNCHANGED <<now, events, pol, members, inputs, ccache, wcache, pass,
                       stub, computedAt>>

\* An admitted pod of p running the given containers asks for a
\* Recommendation: a stub when the cache has no object, else its containers
\* added to the snapshot.
Admit(p, running) ==
    LET known == Webhook.obj
    IN  /\ Event("admit")
        /\ stub = NoStub
        /\ p \in Consenting(Webhook.pol)
        /\ ShouldRequest(known, p, running)
        /\ IF Exists(known)
           THEN /\ UNCHANGED stub
                /\ IF Exists(obj)
                   THEN Store(PatchStatus(obj, known,
                                          SnapshotStatus(known, running)))
                   ELSE UNCHANGED <<rev, obj>>
           ELSE IF Exists(obj) THEN UNCHANGED <<rev, obj, stub>>
           ELSE /\ Create(p)
                /\ stub' = [known |-> obj', running |-> running]
        /\ UNCHANGED <<now, pol, members, inputs, ccache, wcache, pass,
                       computedAt>>

\* The follow-up status patch of the stub the webhook created.
StubSnapshot ==
    LET known == stub.known
    IN  /\ stub # NoStub
        /\ IF Exists(obj)
           THEN Store(PatchStatus(obj, known,
                                  SnapshotStatus(known, stub.running)))
           ELSE UNCHANGED <<rev, obj>>
        /\ stub' = NoStub
        /\ UNCHANGED <<now, events, pol, members, inputs, ccache, wcache, pass,
                       computedAt>>

-----------------------------------------------------------------------------
(* Faults and the environment *)

\* An API call of p's pass fails, or its answer is lost: a claim or record
\* that failed leaves only the sweep, a failed sweep or release ends the pass.
CallFails(p) ==
    /\ Event("call-fails")
    /\ pass[p].pc \in PassSteps \ {"idle", "fetch"}
    /\ IF pass[p].pc \in {"sweep", "finalizer"}
       THEN pass' = [pass EXCEPT ![p] = Idle] ELSE ToSweep(p)
    /\ UNCHANGED <<now, rev, obj, pol, members, inputs, ccache, wcache, stub,
                   computedAt>>

\* A restarted controller lists everything afresh before it reconciles.
ControllerRestarts ==
    /\ Event("restart")
    /\ pass' = [p \in Policies |-> Idle]
    /\ ccache' = [obj |-> obj, pol |-> pol, members |-> members]
    /\ UNCHANGED <<now, rev, obj, pol, members, inputs, wcache, stub,
                   computedAt>>

\* The stub a restarted webhook had created stays without its snapshot.
WebhookRestarts ==
    /\ Event("webhook-restart")
    /\ stub' = NoStub
    /\ wcache' = [obj |-> obj, pol |-> pol]
    /\ UNCHANGED <<now, rev, obj, pol, members, inputs, ccache, pass,
                   computedAt>>

Tick ==
    /\ now < MaxTime
    /\ now' = now + 1
    /\ UNCHANGED <<events, rev, obj, pol, members, inputs, ccache, wcache,
                   pass, stub, computedAt>>

\* Members come, go, opt into another Policy or change their containers.
MembersChange ==
    /\ Event("members")
    /\ \E by \in SUBSET (Policies \cup {NoPolicy}) : \E running \in SUBSET Names :
          /\ (by = {}) = (running = {})
          /\ members' = [by |-> by, running |-> running]
    /\ members' # members
    /\ UNCHANGED <<now, rev, obj, pol, inputs, ccache, wcache, pass, stub,
                   computedAt>>

InputChanges(p) ==
    /\ Event("inputs")
    /\ \E i \in Inputs \ {inputs[p]} : inputs' = [inputs EXCEPT ![p] = i]
    /\ UNCHANGED <<now, rev, obj, pol, members, ccache, wcache, pass, stub,
                   computedAt>>

\* Create, edit (the selector) and delete a Policy; a delete of one without
\* the finalizer, or a forced one, removes it at once.
PolicyChanges(p) ==
    /\ Event("policies")
    /\ \/ /\ pol[p].phase = "absent"
          /\ pol' = [pol EXCEPT ![p] = [phase |-> "new", covers |-> TRUE]]
       \/ /\ pol[p].phase \in {"new", "live"}
          /\ pol' = [pol EXCEPT ![p].covers = ~@]
       \/ /\ pol[p].phase = "live"
          /\ pol' = [pol EXCEPT ![p].phase = "deleting"]
       \/ /\ pol[p].phase # "absent"
          /\ pol' = [pol EXCEPT ![p].phase = "absent"]
    /\ UNCHANGED <<now, rev, obj, members, inputs, ccache, wcache, pass, stub,
                   computedAt>>

\* Each informer catches up on its own.
SeeRecommendation ==
    /\ "wlr" \in Lagging
    /\ ccache' = [ccache EXCEPT !.obj = obj]
    /\ UNCHANGED <<now, events, rev, obj, pol, members, inputs, wcache, pass,
                   stub, computedAt>>

SeePolicies ==
    /\ "policy" \in Lagging
    /\ ccache' = [ccache EXCEPT !.pol = pol]
    /\ UNCHANGED <<now, events, rev, obj, pol, members, inputs, wcache, pass,
                   stub, computedAt>>

SeeMembers ==
    /\ "workload" \in Lagging
    /\ ccache' = [ccache EXCEPT !.members = members]
    /\ UNCHANGED <<now, events, rev, obj, pol, members, inputs, wcache, pass,
                   stub, computedAt>>

WebhookSeesRecommendation ==
    /\ "webhook-wlr" \in Lagging
    /\ wcache' = [wcache EXCEPT !.obj = obj]
    /\ UNCHANGED <<now, events, rev, obj, pol, members, inputs, ccache, pass,
                   stub, computedAt>>

WebhookSeesPolicies ==
    /\ "webhook-policy" \in Lagging
    /\ wcache' = [wcache EXCEPT !.pol = pol]
    /\ UNCHANGED <<now, events, rev, obj, pol, members, inputs, ccache, pass,
                   stub, computedAt>>

-----------------------------------------------------------------------------

\* An object stored by a release that did not stamp servableUntil.
Legacy(p, l) ==
    [NewObject(p, 1, 1) EXCEPT
        !.outcome = "Computed", !.computedBy = p, !.observed = Names,
        !.recs = [n \in Names |-> [by |-> p, level |-> l]], !.observedAt = 1]

Init ==
    /\ now = 1
    /\ events = MaxEvents
    /\ rev = 1
    /\ obj \in {Missing} \cup {Legacy(p, l) : p \in LegacyPolicies, l \in Levels}
    /\ pol = [p \in Policies |->
                 [phase |-> IF p \in InitialPolicies THEN "live" ELSE "absent",
                  covers |-> TRUE]]
    /\ members \in {m \in MemberSets : (m.by = {}) = (m.running = {})}
    /\ inputs \in [Policies -> Inputs]
    /\ ccache = [obj |-> obj, pol |-> pol, members |-> members]
    /\ wcache = [obj |-> obj, pol |-> pol]
    /\ pass = [p \in Policies |-> Idle]
    /\ stub = NoStub
    /\ computedAt = 0

\* The steps of p's reconcile.
PassStep(p) ==
    \/ TakeSnapshot(p)
    \/ RecordConflicted(p)
    \/ EnsureCreate(p)
    \/ EnsureBlind(p)
    \/ EnsureAdopt(p)
    \/ EnsureOwn(p)
    \/ EnsureSnapshot(p)
    \/ Recommend(p)
    \/ Record(p)
    \/ Sweep(p)
    \/ Release(p)
    \/ RemoveFinalizer(p)

Watch ==
    \/ SeeRecommendation
    \/ SeePolicies
    \/ SeeMembers
    \/ WebhookSeesRecommendation
    \/ WebhookSeesPolicies

Environment ==
    \/ Tick
    \/ MembersChange
    \/ \E p \in Policies : InputChanges(p) \/ PolicyChanges(p)
    \/ \E p \in Policies : CallFails(p) \/ BackedOff(p)
    \/ ControllerRestarts
    \/ WebhookRestarts

Next ==
    \/ \E p \in Policies : PassStep(p)
    \/ Reap
    \/ \E p \in Policies : \E running \in (SUBSET Names) \ {{}} :
          Admit(p, running)
    \/ StubSnapshot
    \/ Watch
    \/ Environment

Spec == Init /\ [][Next]_vars

\* The work queue hands every Policy to a worker again and again and a worker
\* finishes its pass; the reaper has its ticker; watches deliver.  Nothing is
\* assumed of the clock, of admissions or of the environment.
Fairness ==
    /\ \A p \in Policies : WF_vars(PassStep(p))
    /\ WF_vars(Reap)
    /\ WF_vars(StubSnapshot)
    /\ WF_vars(SeeRecommendation)
    /\ WF_vars(SeePolicies)
    /\ WF_vars(SeeMembers)
    /\ WF_vars(WebhookSeesRecommendation)
    /\ WF_vars(WebhookSeesPolicies)

FairSpec == Spec /\ Fairness

-----------------------------------------------------------------------------
(* Invariants *)

\* Every variable has its type; in particular no write of any interleaving
\* stores a malformed object.
TypeOK ==
    /\ now \in Nat
    /\ events \in Nat
    /\ rev \in Nat
    /\ obj \in Objects
    /\ pol \in [Policies -> PolicyStates]
    /\ members \in MemberSets
    /\ inputs \in [Policies -> Inputs]
    /\ ccache \in [obj : Objects, pol : [Policies -> PolicyStates],
                   members : MemberSets]
    /\ wcache \in [obj : Objects, pol : [Policies -> PolicyStates]]
    /\ pass \in [Policies -> Passes]
    /\ stub \in [known : Objects, running : SUBSET Names]
    /\ computedAt \in Nat

\* The policy label names the Policy spec.policy names, whatever stale copies
\* the claims patched from: Sweep and Release list by label and judge by spec,
\* so an object whose label strayed would be nobody's to delete.
LabelFollowsSpec == obj.label = obj.policy

Served(o, p) == Injects(Read(o, p, now))

\* What the webhook injects follows a Computed record of this controller, and
\* its last computation (or the creation of its object, where LastComputed
\* falls back to it) is less than the longest window ago: a wedged, crashed or
\* failing controller stops injection, no other write extends it, and an
\* object of a release without stamps is served nothing until it is computed
\* again (ADR 0008).
InjectedIsRecent ==
    \A p \in Policies : Served(Webhook.obj, p) =>
        /\ computedAt # 0
        /\ now < Later(computedAt, Webhook.obj.created) + LongestWindow

\* A pod of p is injected only numbers computed under p (ADR 0003).
ServedOnlyToItsPolicy ==
    \A p \in Policies : Served(Webhook.obj, p) =>
        \A n \in Names : Webhook.obj.recs[n].by \in {p, NoPolicy}

-----------------------------------------------------------------------------
(* Action properties *)

Deleted == Exists(obj) /\ ~Exists(obj')

\* A Policy's sweep or release deletes only an object that names it at the
\* moment of the delete, and the reaper one that still names the missing
\* Policy it was judged by: an object adopted since a cache listed it
\* survives (ADR 0003).
DeletesOnlyJudged ==
    [][Deleted =>
         /\ \A p \in Policies : Sweep(p) \/ Release(p) => obj.policy = p
         /\ Reap => obj.policy \notin Exist(Controller.pol)]_vars

\* A Policy's release reaches its finalizer only when no object it listed
\* still names it: one rewritten since it was listed (a webhook's snapshot, a
\* record) keeps the finalizer for a retry.
ReleaseComplete ==
    [][\A p \in Policies :
          /\ Release(p)
          /\ pass'[p].pc = "finalizer"
          /\ Controller.obj.policy = p
          => ~(obj'.uid = Controller.obj.uid /\ obj'.policy = p)]_vars

\* A sweep spares an object created within the grace period before its
\* snapshot or at any time after it, however long the pass ran: the webhook's
\* stub for a workload the snapshot could not know (ADR 0008).
SweepSparesNew ==
    [][\A p \in Policies : Sweep(p) /\ Deleted =>
          obj.created + SweepGrace <= pass[p].takenAt]_vars

\* The sweep of a Departed or Conflicted identity never takes away a
\* Recommendation some pod could still be served.
SweepSparesServed ==
    [][\A p \in Policies :
          Sweep(p) /\ Deleted /\ pass[p].standing # "Ungoverned" =>
              \A q \in Policies : ~Served(obj, q)]_vars

\* Recording Conflicted changes nothing of whose the object and its numbers
\* are nor when they were computed, even off a stale copy while another
\* Policy's pass is still writing (ADR 0002).
ConflictFreezes ==
    [][\A p \in Policies : RecordConflicted(p) =>
          /\ obj'.policy = obj.policy
          /\ obj'.recs = obj.recs
          /\ obj'.computedBy = obj.computedBy
          /\ obj'.observedAt = obj.observedAt]_vars

-----------------------------------------------------------------------------
(* Liveness *)

\* p alone governs the identity, and its recommender computes a value.
Settled(p) ==
    /\ p \in Consenting(pol)
    /\ pol[p].phase # "deleting"
    /\ inputs[p] \in Levels
    /\ \/ MemberPolicies(members, pol) = {p}
       \/ members.by = {} /\ obj.policy = p /\ obj.observed # {}

\* Once an identity's governance settles on p, its pods end up being served
\* exactly the value p's recommender computes, whatever overlapping passes,
\* adoptions, stale copies, failed calls and backoffs came before.
Converges ==
    <>[](\A p \in Policies : Settled(p) =>
            /\ Served(Webhook.obj, p)
            /\ \A n \in Names : Webhook.obj.recs[n] \in
                    {[by |-> p, level |-> inputs[p]], Unset})

\* An object naming a Policy that is gone, by release, by force or by a crash
\* between the two, is eventually adopted or deleted.
OrphansGo == <>[](Exists(obj) => obj.policy \in Exist(pol))
=============================================================================
