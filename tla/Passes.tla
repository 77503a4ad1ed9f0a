------------------------------- MODULE Passes -------------------------------
(***************************************************************************)
(* Reconcile passes of several Policies around the ledger: the work queue, *)
(* a pass from its list to its requeue and the deletion of a Policy.       *)
(*                                                                         *)
(* Two reconciles of one Policy never overlap, those of two may.  The      *)
(* ledger locks for each call, so between any two calls of one pass        *)
(* another may make its own.  policy[p] is the Policy as the               *)
(* controller's informer shows it, governs[i] the Policy the inventory     *)
(* finds governing i.                                                      *)
(***************************************************************************)
EXTENDS Ledger

CONSTANTS
    Happens,            \* the kinds of environment events that may happen
    MaxEvents,          \* bound on them
    MaxAttempts,        \* bound on consecutive transient failures
    MaxTime             \* bound on the clock

VARIABLES
    now, events,
    policy, governs, live,
    members, claims,    \* the ledger
    queued,             \* Policies in the work queue
    wake,               \* when the queue adds a Policy again
    unlisted,           \* Policies whose last pass could not list
    pass,
    failedBy            \* history: the Policy whose pass last failed a member

vars == <<now, events, policy, governs, live, members, claims, queued, wake,
          unlisted, pass, failedBy>>

EventKinds == {"move", "policies", "list", "call"}

ASSUME BoundsAssumption ==
    /\ Happens \subseteq EventKinds
    /\ {MaxEvents, MaxAttempts, MaxTime} \subseteq Nat

NoPolicy == "none"
ASSUME NoPolicyAssumption == NoPolicy \notin Policies

\* A Policy is released once its finalizer is gone and its deletion has not
\* reached the informer.
Phases == {"live", "deleting", "released", "absent"}

\* What a pass reports of one identity: the ledger's health of it, whether it
\* was computed, whether its fetch failed and whether a member failed.
Reports == [measured : BOOLEAN, blockedOn : Steps \cup {""},
            computed : BOOLEAN, fetchFailed : BOOLEAN, failed : BOOLEAN]

\* The next call of a pass.
Calls == {"none", "workList", "settle", "publish", "requeue"}

Idle == [next |-> "none", ids |-> {}, run |-> {}, backedOff |-> {},
         report |-> [i \in {} |-> {}], ready |-> FALSE]

\* No entry of the queue's delaying heap.
Never == -1

-----------------------------------------------------------------------------
\* The queue keeps the earlier of two times it is asked to wait for.
AddAfter(p, delay) ==
    wake' = [wake EXCEPT ![p] = IF delay = 0 THEN @
                                ELSE IF @ = Never THEN now + delay
                                ELSE Least(@, now + delay)]

Spend(kind) == kind \in Happens /\ events < MaxEvents /\ events' = events + 1

At(p, call) == pass[p].next = call

\* A worker takes p from the queue.
Starts(p) == At(p, "none") /\ p \in queued /\ queued' = queued \ {p}

Ledger_ == <<members, claims, failedBy>>
World == <<policy, governs, live, now>>

\* Mutant: drops the claims and keeps the entries.
ForgetsClaims(p) ==
    /\ claims' = [claims EXCEPT ![p] = {}]
    /\ UNCHANGED <<members, failedBy>>

\* Ledger.Forget.
Forgets(p) ==
    /\ claims' = [claims EXCEPT ![p] = {}]
    /\ members' = Forgotten(members, claims[p], claims', p)
    /\ UNCHANGED failedBy

\* Reconcile finds no Policy.
FindGone(p) ==
    /\ Starts(p) /\ policy[p] = "absent"
    /\ Forgets(p)
    /\ UNCHANGED <<World, events, wake, unlisted, pass>>

\* Reconcile of a Policy being deleted: release, forget, remove the
\* finalizer.
Cleanup(p) ==
    /\ Starts(p) /\ policy[p] = "deleting"
    /\ Forgets(p)
    /\ policy' = [policy EXCEPT ![p] = "released"]
    /\ UNCHANGED <<governs, live, now, events, wake, unlisted, pass>>

\* The removal fails, as it does on a Policy whose finalizer is already gone:
\* what was forgotten stays forgotten, and the error requeues.
CleanupAgain(p) ==
    /\ At(p, "none") /\ p \in queued
    /\ \/ policy[p] = "released" /\ UNCHANGED events
       \/ policy[p] = "deleting" /\ Spend("call")
    /\ Forgets(p)
    /\ UNCHANGED <<World, queued, wake, unlisted, pass>>

\* TakeForPolicy: the identities p governs and their live members.
List(p) ==
    /\ Starts(p) /\ policy[p] = "live"
    /\ LET ids == {i \in Identities : governs[i] = p}
       IN  pass' = [pass EXCEPT ![p] =
                       [Idle EXCEPT !.next = "workList", !.ids = ids,
                                    !.run = {m \in live : Owner[m] \in ids}]]
    /\ UNCHANGED <<World, events, Ledger_, wake, unlisted>>

\* The list fails: claims stay, the requeue is floored higher.
ListFails(p) ==
    /\ Starts(p) /\ policy[p] = "live" /\ Spend("list")
    /\ AddAfter(p, requeueAfter(members, claims, p, BaseRetryDelay, now))
    /\ unlisted' = unlisted \cup {p}
    /\ UNCHANGED <<World, Ledger_, pass>>

\* The members in backoff are left out, as of now: the fetch may take long.
WorkList(p) ==
    /\ At(p, "workList")
    /\ LET run == pass[p].run
           off == {m \in run : ~MayRun(members[m], now)}
       IN  pass' = [pass EXCEPT ![p] = [@ EXCEPT !.next = "settle",
                                                !.run = run \ off,
                                                !.backedOff = off]]
    /\ UNCHANGED <<World, events, Ledger_, queued, wake, unlisted>>

\* Steps that fail for all of an identity's members at once.
IdentitySteps == {"prometheus", "store"}

\* apply: one result per member that ran.  A fetch or a store fails for all
\* of an identity's.
Results(run) ==
    LET failures == {Failed(s, e) : s \in Steps, e \in Errors}
    IN  {res \in [run -> Ran \cup failures] :
            \A m \in run :
                /\ res[m].step \in IdentitySteps =>
                     \A n \in run : Owner[n] = Owner[m] => res[n] = res[m]
                /\ res[m].kind = "Failed" =>
                     members[m].failure.attempts < MaxAttempts}

\* What a pass may make of a departed identity.
DepartedOutcomes == {"unfetched", "fetchFailed", "unstored", "computed"}

\* The report's entry of a live identity: what its members' results and the
\* ledger's health of it say.
ReportOf(i, res, ms, cs) ==
    LET ran == {m \in DOMAIN res : Owner[m] = i}
        fetchFailed == \E m \in ran : res[m].step = "prometheus"
    IN  [measured |-> Measured(ms, cs, i), blockedOn |-> BlockedOn(ms, cs, i),
         computed |-> ran # {} /\ ~fetchFailed, fetchFailed |-> fetchFailed,
         failed |-> \E m \in ran : res[m].kind = "Failed"]

\* A departed identity's: it has no members, and no health.
DepartedReport(outcome) ==
    [measured |-> FALSE, blockedOn |-> "",
     computed |-> outcome \in {"unstored", "computed"},
     fetchFailed |-> outcome = "fetchFailed", failed |-> FALSE]

\* passCondition: Ready when no identity failed and none is Blocked.
ReadyAfter(report, outcomes) ==
    /\ \A i \in DOMAIN report : ~report[i].failed /\ report[i].blockedOn = ""
    /\ \A i \in DOMAIN outcomes : outcomes[i] \notin {"fetchFailed", "unstored"}

\* Settle, with the condition its verdict gives.
Settle(p) ==
    /\ At(p, "settle")
    /\ LET targets == pass[p].run \cup pass[p].backedOff
           departed == {i \in pass[p].ids : \A m \in targets : Owner[m] # i}
       IN  \E res \in Results(pass[p].run),
              outcomes \in [departed -> DepartedOutcomes] :
             LET recorded == [m \in Members |->
                                 IF m \in pass[p].run
                                 THEN Recorded(members[m], res[m], now)
                                 ELSE members[m]]
                 report == [i \in pass[p].ids |->
                               IF i \in departed THEN DepartedReport(outcomes[i])
                               ELSE ReportOf(i, res, members', claims')]
             IN  /\ claims' = [claims EXCEPT ![p] = targets]
                 /\ members' = Forgotten(recorded, claims[p], claims', p)
                 /\ failedBy' = [m \in Members |->
                       IF m \in pass[p].run /\ res[m].kind = "Failed"
                       THEN p ELSE failedBy[m]]
                 /\ pass' = [pass EXCEPT ![p] =
                       [@ EXCEPT !.next = "publish", !.report = report,
                                 !.ready = ReadyAfter(report, outcomes)]]
    /\ UNCHANGED <<World, events, queued, wake, unlisted>>

\* What the pass found goes to the publisher.
PublishPass(p) ==
    /\ At(p, "publish")
    /\ pass' = [pass EXCEPT ![p] = [@ EXCEPT !.next = "requeue"]]
    /\ UNCHANGED <<World, events, Ledger_, queued, wake, unlisted>>

\* The end of Reconcile.
Requeue(p) ==
    /\ At(p, "requeue")
    /\ AddAfter(p, requeueAfter(members, claims, p, RetryFloor, now))
    /\ unlisted' = unlisted \ {p}
    /\ pass' = [pass EXCEPT ![p] = Idle]
    /\ UNCHANGED <<World, events, Ledger_, queued>>

\* The release fails, before anything is forgotten: the error requeues.
CleanupFails(p) ==
    /\ At(p, "none") /\ p \in queued /\ policy[p] = "deleting" /\ Spend("call")
    /\ UNCHANGED <<World, Ledger_, queued, wake, unlisted, pass>>

-----------------------------------------------------------------------------
\* A workload appears, goes, or is governed by another Policy.
Move ==
    /\ Spend("move")
    /\ \/ /\ \E i \in Identities, p \in Policies \cup {NoPolicy} :
                governs' = [governs EXCEPT ![i] = p]
          /\ UNCHANGED live
       \/ /\ \E m \in Members :
                live' = IF m \in live THEN live \ {m} ELSE live \cup {m}
          /\ UNCHANGED governs
    /\ UNCHANGED <<policy, now, Ledger_, queued, wake, unlisted, pass>>

\* A Policy is created, edited, deleted, or loses its finalizer by hand; its
\* event queues it.
PolicyChanges(p) ==
    /\ Spend("policies")
    /\ \E phase \in CASE policy[p] = "absent" -> {"live"}
                      [] policy[p] = "live" -> {"live", "deleting", "absent"}
                      [] OTHER -> {"absent"} :
          policy' = [policy EXCEPT ![p] = phase]
    /\ queued' = queued \cup {p}
    /\ UNCHANGED <<governs, live, now, Ledger_, wake, unlisted, pass>>

\* The informer sees that a released Policy is gone.
SeeGone(p) ==
    /\ policy[p] = "released"
    /\ policy' = [policy EXCEPT ![p] = "absent"]
    /\ queued' = queued \cup {p}
    /\ UNCHANGED <<governs, live, now, events, Ledger_, wake,
                   unlisted, pass, failedBy>>

\* Time passes; the queue hands out what is due.
Tick ==
    /\ now < MaxTime
    /\ now' = now + 1
    /\ LET due == {p \in Policies : wake[p] = now'}
       IN  /\ queued' = queued \cup due
           /\ wake' = [p \in Policies |-> IF p \in due THEN Never ELSE wake[p]]
    /\ UNCHANGED <<policy, governs, live, events, Ledger_, unlisted,
                   pass>>

-----------------------------------------------------------------------------
\* The controller starts: every existing Policy is queued, one whose deletion
\* an earlier controller left unfinished too.
Init ==
    /\ now = 0 /\ events = 0
    /\ policy \in [Policies -> {"live", "deleting"}]
    /\ governs \in [Identities -> Policies]
    /\ live = Members
    /\ members = [m \in Members |-> Empty]
    /\ claims = [p \in Policies |-> {}]
    /\ queued = Policies
    /\ wake = [p \in Policies |-> Never]
    /\ unlisted = {}
    /\ pass = [p \in Policies |-> Idle]
    /\ failedBy = [m \in Members |-> NoPolicy]

Reconcile(p) ==
    \/ FindGone(p) \/ Cleanup(p) \/ CleanupAgain(p) \/ CleanupFails(p)
    \/ List(p) \/ ListFails(p) \/ WorkList(p) \/ Settle(p) \/ PublishPass(p)
    \/ Requeue(p)

Next ==
    \/ \E p \in Policies : Reconcile(p) \/ PolicyChanges(p) \/ SeeGone(p)
    \/ Move \/ Tick

Spec == Init /\ [][Next]_vars

-----------------------------------------------------------------------------
PassOK(s) ==
    /\ s.next \in Calls
    /\ s.ids \subseteq Identities
    /\ s.run \subseteq Members /\ s.backedOff \subseteq Members
    /\ s.ready \in BOOLEAN
    /\ s.next \in {"publish", "requeue"} => s.report \in [s.ids -> Reports]

\* Every variable has its type.
TypeOK ==
    /\ now \in 0..MaxTime /\ events \in 0..MaxEvents
    /\ policy \in [Policies -> Phases]
    /\ governs \in [Identities -> Policies \cup {NoPolicy}]
    /\ live \subseteq Members
    /\ members \in [Members -> Entries]
    /\ claims \in [Policies -> SUBSET Members]
    /\ queued \subseteq Policies
    /\ wake \in [Policies -> Nat \cup {Never}]
    /\ unlisted \subseteq Policies
    /\ \A p \in Policies : PassOK(pass[p])
    /\ failedBy \in [Members -> Policies \cup {NoPolicy}]

\* The ledger keeps state only for members some Policy claims: Settle and
\* Forget leave nothing behind for a member that is gone or governed by no
\* Policy, however the passes of two Policies interleave (claimLocked).
KeptIsClaimed ==
    \A m \in Members :
        members[m] # Empty => \E p \in Policies : m \in claims[p]

\* A Blocked member stays Blocked until a pass that ran it settles or no
\* Policy claims it any more: an identity moving between two Policies loses
\* no backoff while one of them claims it (recordLocked, claimLocked).
BlockedIsKept ==
    [][\A m \in Members :
          Blocked(members[m]) /\ ~Blocked(members'[m]) =>
             \/ \E p \in Policies : /\ At(p, "settle") /\ pass'[p].next = "publish"
                                    /\ m \in pass[p].run
             \/ \A p \in Policies : m \notin claims'[p]]_vars

\* Every transient failure backs its member off for at least BaseRetryDelay
\* and at most MaxRetryDelay, however many came before it: the doubled delay
\* never overflows a Duration (failLocked).
RetryWaits ==
    [][\A m \in Members :
          Transient(members'[m]) /\ members'[m].failure # members[m].failure =>
             members'[m].failure.due
               \in (now + BaseRetryDelay)..(now + MaxRetryDelay)]_vars

\* The queue holds p, or will by then.
RunsBy(p, t) == p \in queued \/ ~At(p, "none") \/ wake[p] \in 0..t

\* "The time a retry event names is a time a pass runs" (RequeueAfter): the
\* Policy whose pass failed a member reconciles by the time its retry is due,
\* unless it claims the member no more.  A retry that fell due during the pass
\* waits for the floor.
RetryIsScheduled ==
    \A m \in Members, p \in Policies :
        Transient(members[m]) /\ failedBy[m] = p /\ m \in claims[p] =>
           RunsBy(p, Greatest(members[m].failure.due,
                              now + IF p \in unlisted THEN BaseRetryDelay
                                    ELSE RetryFloor))
=============================================================================
