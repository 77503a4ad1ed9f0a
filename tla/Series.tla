------------------------------- MODULE Series -------------------------------
(***************************************************************************)
(* The passes of Passes with the publisher, which they and the OOM watcher *)
(* call.  Every step here is a step of Passes together with its call of    *)
(* the publisher, or the watcher counting a kill.                          *)
(***************************************************************************)
EXTENDS Passes, Publisher

CONSTANT MaxKills       \* bound on the kills the watcher sees
ASSUME KillsAssumption == MaxKills \in Nat

VARIABLES pub, kill, kills

svars == <<vars, pub, kill, kills>>

NoKill == [next |-> "none", policy |-> NoPolicy, id |-> NoPolicy]

\* Reconciles that forget their Policy.
Forget(p) ==
    /\ FindGone(p) \/ Cleanup(p) \/ CleanupAgain(p)
    /\ pub' = ForgetSeries(pub, p)
    /\ UNCHANGED <<kill, kills>>

\* Reconciles that end after a pass or a failed list.
EndReconcile(p) ==
    /\ ListFails(p) \/ Requeue(p)
    /\ pub' = Reconciled(pub, p)
    /\ UNCHANGED <<kill, kills>>

\* Which members hold a Recommendation, which identities an autoscaler
\* targets and what else the pass counted are the recommender's.
PublishSeries(p) ==
    /\ PublishPass(p)
    /\ LET computed == {i \in pass[p].ids : pass[p].report[i].computed}
       IN  \E found \in SUBSET computed, autoscaled \in SUBSET computed,
              held \in SUBSET (pass[p].run \cup pass[p].backedOff) :
             pub' = Publish(pub, p, pass[p].report, held, found, autoscaled)
    /\ UNCHANGED <<kill, kills>>

Elsewhere(p) ==
    /\ List(p) \/ WorkList(p) \/ Settle(p) \/ CleanupFails(p)
    /\ UNCHANGED <<pub, kill, kills>>

\* The OOM watcher: it finds the Policy of a killed pod, counts the kill, and
\* triggers a pass once there is room.
Kill(i) ==
    /\ kill = NoKill /\ kills < MaxKills /\ kills' = kills + 1
    /\ governs[i] # NoPolicy /\ policy[governs[i]] = "live"
    /\ kill' = [next |-> "count", policy |-> governs[i], id |-> i]
    /\ UNCHANGED <<vars, pub>>

CountKill ==
    /\ kill.next = "count"
    /\ pub' = ObservedOOM(pub, kill.policy, kill.id)
    /\ kill' = [kill EXCEPT !.next = "trigger"]
    /\ UNCHANGED <<vars, kills>>

\* A trigger queues its Policy.
Trigger(p) ==
    /\ queued' = queued \cup {p}
    /\ UNCHANGED <<World, events, Ledger_, wake, unlisted, pass>>

\* Mutant: without room the trigger is dropped.
TriggerOrDrop ==
    /\ kill.next = "trigger"
    /\ Trigger(kill.policy) \/ UNCHANGED vars
    /\ kill' = NoKill
    /\ UNCHANGED <<pub, kills>>

TriggerPass ==
    /\ kill.next = "trigger"
    /\ Trigger(kill.policy)
    /\ kill' = NoKill
    /\ UNCHANGED <<pub, kills>>

Outside ==
    /\ Move \/ Tick \/ \E p \in Policies : PolicyChanges(p) \/ SeeGone(p)
    /\ UNCHANGED <<pub, kill, kills>>

SInit == Init /\ pub = NoSeries /\ kill = NoKill /\ kills = 0

SReconcile(p) == Forget(p) \/ EndReconcile(p) \/ PublishSeries(p) \/ Elsewhere(p)

SNext ==
    \/ \E p \in Policies : SReconcile(p)
    \/ \E i \in Identities : Kill(i)
    \/ CountKill \/ TriggerPass \/ Outside

SSpec == SInit /\ [][SNext]_svars

SeesGone(p) == SeeGone(p) /\ UNCHANGED <<pub, kill, kills>>

\* Workers finish what they take, the watcher and the informer deliver.
FairSpec ==
    /\ SSpec
    /\ \A p \in Policies : WF_svars(SReconcile(p)) /\ WF_svars(SeesGone(p))
    /\ WF_svars(CountKill) /\ WF_svars(TriggerPass)

-----------------------------------------------------------------------------
\* "No series outlives what it describes": the registry holds exactly what
\* the publisher tracks, and an identity has series only while a Policy's
\* last pass, or a kill since, includes it (publish, forget, dropLocked).
SeriesAreOwned ==
    /\ pub.registry =
         SeriesOf([o \in Owners |-> pub.gauges[o] \cup pub.counters[o]])
    /\ \A i \in Identities :
          pub.gauges[i] \cup pub.counters[i] # {} => Included(pub, i)

\* A Policy that stays away leaves no series and no claims behind, whatever
\* passes were in flight and whichever kills were counted after it was
\* forgotten: the pass ObserveOOM triggers forgets it again.
AbsentIsForgotten ==
    \A p \in Policies :
        (policy[p] = "absent") ~>
           \/ policy[p] # "absent"
           \/ /\ claims[p] = {} /\ pub.includes[p] = {}
              /\ \A s \in pub.registry : s[1] # p
=============================================================================
