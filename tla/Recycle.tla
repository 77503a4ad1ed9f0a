------------------------------ MODULE Recycle -------------------------------
(***************************************************************************)
(* Applying a recommendation to the running pods of one member             *)
(* (internal/workload, apply.go and patcher.go): the pass lists the pods   *)
(* once and then, one pod after the other, resizes it in place or evicts   *)
(* it and waits for its replacement.  Meanwhile the cluster, external to   *)
(* the code, replaces, schedules, starts, crashes and resizes pods.        *)
(*                                                                         *)
(* Pods go by name, a number, in the order a pass takes names.  A pod has  *)
(* regular and sidecar containers, each with one resource (Resources).     *)
(* StatefulSet pods reuse their names, told apart by their uid, other pods *)
(* do not.  Three are history: a pod is fresh until it is first Ready,     *)
(* late holds the fresh pods created since the pass last waited for one it *)
(* evicted, half the pods of the pass whose sidecars alone stayed.         *)
(***************************************************************************)
EXTENDS Resources, FiniteSets

CONSTANTS
    Names,              \* pod names, the first Replicas in use
    Ended,              \* names of pods that have failed and are left over
    Replicas,
    StatefulSet,        \* whether the member is one
    Modes,              \* values of the patcher's inPlace
    Rules,              \* values of the kind's inPlaceOnly
    Pinned,             \* names annotated safe-to-evict=false
    Containers,         \* the containers of a pod that count
    Sidecars,           \* those that are restartable init containers
    Template,           \* requirements of the pod template's containers
    Recs,               \* recommendations that may be stored
    Tolerance,
    Needs,              \* a container with less crash-loops
    Room,               \* a pod with a container that requests more stays Pending
    Happens,            \* what may happen around the patcher
    MaxEvents           \* bound on how often

\* The API server takes no request above its limit.
Admissible(r) == r.req # Unset /\ r.lim # Unset => r.req <= r.lim

ASSUME RecycleAssumption ==
    /\ Names \subseteq Nat /\ Replicas \in Nat \ {0}
    /\ 1..Replicas \subseteq Names /\ Ended \subseteq Names \ 1..Replicas
    /\ StatefulSet \in BOOLEAN /\ Modes \subseteq BOOLEAN /\ Rules \subseteq BOOLEAN
    /\ Sidecars \subseteq Containers
    /\ Template \in [Containers -> Requirements]
    /\ \A c \in Containers : Admissible(Template[c])
    /\ Recs \subseteq [Containers -> Recommendations]
    /\ Tolerance.percent \in Nat /\ Tolerance.floor \in Nat
    /\ Needs \in [Containers -> Nat] /\ {Room, MaxEvents} \subseteq Nat

VARIABLES
    pods,               \* the cluster's pods
    rec,                \* the stored recommendation, which the webhook injects
    inPlace,            \* Patcher.inPlace
    inPlaceOnly,        \* the kind's applyRule
    pass,               \* the running Apply
    result,             \* what the last one returned, until the next starts
    late, events

vars == <<pods, rec, inPlace, inPlaceOnly, pass, result, late, events>>

settings == <<rec, inPlace, inPlaceOnly>>

Phases == {"none", "Pending", "Running", "Failed"}

Verdicts == {"", "Deferred", "Infeasible"}

Regular == Containers \ Sidecars

Bare == [c \in Containers |-> [req |-> Unset, lim |-> Unset]]

NoAdvice == [c \in Containers |-> [req |-> Nil, lim |-> Nil, remove |-> FALSE]]

Nobody == [uid |-> 0, phase |-> "none", deleting |-> FALSE, ready |-> FALSE,
           crash |-> FALSE, fresh |-> FALSE, spec |-> Bare, enacted |-> Bare,
           verdict |-> "", hidden |-> {}]

Idle == [at |-> "idle", todo |-> {}, pods |-> [n \in Names |-> Nobody],
         rec |-> NoAdvice, halted |-> FALSE, failed |-> FALSE, fixed |-> {},
         half |-> {}, evicted |-> {}]

NoResult == [kind |-> "none", counted |-> FALSE, stale |-> {}]

\* An event uses up one of MaxEvents.
Event(what) ==
    /\ what \in Happens /\ events < MaxEvents
    /\ events' = events + 1

-----------------------------------------------------------------------------
\* Predicates of a pod.
countable(pod) == ~pod.deleting /\ pod.phase \in {"Pending", "Running"}

isProgressing(pod) ==
    /\ ~pod.deleting
    /\ \/ pod.phase = "Pending"
       \/ pod.phase = "Running" /\ ~pod.ready

hasCrashLoopBackOff(pod) == pod.crash

\* Mutant: a verdict on limits alone is taken for one on a request.
stagedAnything(pod) == TRUE

\* The kubelet reports, for some container, requests other than its spec's, or
\* none at all, which may hide one.
stagedRequests(pod) ==
    \E c \in Containers :
       c \in pod.hidden \/ ~requestsEqual(pod.spec[c], pod.enacted[c])

\* podPlan.stale: the change of a pod is the greatest of its containers'.
Stale(pod, r) == \E c \in Containers : stale(pod.spec[c], r[c], Tolerance)

Countable(ps) == {n \in Names : countable(ps[n])}

\* Mutant: the wait looks at the evicted pod alone.
QuiescentGone(n, uid) == ~(pods[n].phase # "none" /\ pods[n].uid = uid)

\* waitForReplacement: the evicted pod, known by its uid, is gone and nobody
\* else progresses.
Quiescent(n, uid) ==
    /\ ~(pods[n].phase # "none" /\ pods[n].uid = uid)
    /\ \A m \in Names : ~isProgressing(pods[m])

\* Mutant: stale pods halt the pass too, fresh ones do not.
updatedPodCrashLoopingStale(ps, r) ==
    \E n \in Countable(ps) : hasCrashLoopBackOff(ps[n]) /\ Stale(ps[n], r)

updatedPodCrashLooping(ps, r) ==
    \E n \in Countable(ps) : hasCrashLoopBackOff(ps[n]) /\ ~Stale(ps[n], r)

-----------------------------------------------------------------------------
\* The end of an Apply: without error its pods are counted, those it resized
\* or evicted as up to date.
Ends(p) ==
    /\ pass' = Idle
    /\ result' = IF p.failed
                 THEN [kind |-> "failed", counted |-> FALSE, stale |-> {}]
                 ELSE [kind |-> "done", counted |-> TRUE, stale |->
                         {n \in Countable(p.pods) \ p.fixed : Stale(p.pods[n], p.rec)}]
    /\ late' = {}

\* Apply returns before it touches a pod: nothing to apply, recommend-only or
\* a refused member; a dry run counts; the list fails, of a dry run too.
ApplyNothing ==
    /\ pass.at = "idle" /\ Event("settings")
    /\ \/ result' = [kind |-> "idle", counted |-> FALSE, stale |-> {}]
       \/ result' = [kind |-> "counted", counted |-> TRUE, stale |->
                        {n \in Countable(pods) : Stale(pods[n], rec)}]
       \/ \E kind \in {"counted", "failed"} :
             result' = [kind |-> kind, counted |-> FALSE, stale |-> {}]
    /\ UNCHANGED <<pods, settings, pass, late>>

\* The pass considers a pod that is neither terminating nor terminal, and of an
\* in-place-only kind a Running one, where it can be resized at all.
Considered(pod) ==
    /\ countable(pod)
    /\ inPlaceOnly => inPlace /\ pod.phase = "Running"

\* Apply lists the member's pods; the loop skips those it does not consider.
\* The halt is read before the loop.
Start ==
    /\ pass.at = "idle"
    /\ pass' = [Idle EXCEPT !.at = "loop", !.pods = pods, !.rec = rec,
                  !.todo = {n \in Names : Considered(pods[n])},
                  !.halted = updatedPodCrashLooping(pods, rec)]
    /\ result' = NoResult
    /\ UNCHANGED <<pods, settings, late, events>>

\* sortPodsForRecycle.
Before(n, m) == IF StatefulSet THEN n > m ELSE n < m

\* n is the pod at hand; listed is its state as the pass knows it.
Turn(n, at) ==
    /\ pass.at = at /\ n \in pass.todo
    /\ \A m \in pass.todo \ {n} : Before(n, m)

Listed(n) == pass.pods[n]

\* Mutant: every pod the pass has looked at counts as up to date.
ProceedFixing(p, n, failed) ==
    pass' = [p EXCEPT !.at = "loop", !.todo = @ \ {n},
                      !.failed = @ \/ failed, !.fixed = @ \cup {n}]

\* The pass p takes the next pod; failed says whether this one failed it.
Proceed(p, n, failed) ==
    pass' = [p EXCEPT !.at = "loop", !.todo = @ \ {n}, !.failed = @ \/ failed]

End ==
    /\ pass.at = "loop" /\ pass.todo = {}
    /\ Ends(pass)
    /\ UNCHANGED <<pods, settings, events>>

-----------------------------------------------------------------------------
\* What becomes of a container of the pod at hand (resized): the target of its
\* plan, from its listed state.
Target(n, c) ==
    Applied(Listed(n).spec[c], Clamped(Listed(n).spec[c], pass.rec[c], Tolerance))

AtTarget(n, cs) ==
    \A c \in cs : valueEqual(Listed(n).spec[c], Target(n, c))

\* A pod with its containers cs at the targets of pod n; the kubelet has not
\* looked at them yet.
Patched(pod, n, cs) ==
    [pod EXCEPT !.spec = [c \in Containers |-> IF c \in cs THEN Target(n, c) ELSE @[c]],
                !.verdict = "", !.hidden = {}]

\* The pod is resized in place rather than evicted.
Resizes(n) == inPlace /\ Listed(n).phase = "Running" /\ Turn(n, "loop")

\* Nothing to submit and the kubelet cannot enact what is staged
\* (resizePodInPlaceWith, onUnsatisfiable), or the pod cannot be resized.
WantsEviction(n) ==
    IF Resizes(n)
    THEN /\ Listed(n).verdict = "Infeasible" /\ ~inPlaceOnly
         /\ stagedRequests(Listed(n)) /\ AtTarget(n, Containers)
    ELSE Stale(Listed(n), pass.rec)

\* Nothing to submit otherwise: at its target, deferred, or limits alone.
LeaveAlone(n) ==
    /\ Turn(n, "loop") /\ ~WantsEviction(n)
    /\ Resizes(n) => AtTarget(n, Containers)
    /\ Proceed(pass, n, FALSE)
    /\ UNCHANGED <<pods, settings, result, late, events>>

\* submitInPlaceResize, of the regular containers.  The listed pod is rewritten
\* before the call.
SubmitsResize(n) == Resizes(n) /\ ~AtTarget(n, Regular)

Rewritten(n) == [pass EXCEPT !.pods[n] = Patched(@, n, Regular)]

\* Accepted: it goes by name.  The sidecars have a call of their own.
Resized(n) ==
    LET p == [Rewritten(n) EXCEPT !.fixed = @ \cup {n}]
    IN  /\ SubmitsResize(n) /\ pods[n].phase # "none"
        /\ pods' = [pods EXCEPT ![n] = Patched(@, n, Regular)]
        /\ IF AtTarget(n, Sidecars) THEN Proceed(p, n, FALSE)
           ELSE pass' = [p EXCEPT !.at = "sidecars"]
        /\ UNCHANGED <<settings, result, late, events>>

\* Rejected as invalid, which reverts the listed pod: evict, unless the kind or
\* a change to limits alone forbids it.
ResizeInvalid(n) ==
    /\ SubmitsResize(n) /\ pods[n].phase # "none" /\ Event("invalid")
    /\ IF inPlaceOnly \/ ~Stale(Listed(n), pass.rec) THEN Proceed(pass, n, FALSE)
       ELSE pass' = [pass EXCEPT !.at = "evict"]
    /\ UNCHANGED <<pods, settings, result, late>>

ResizeGone(n) ==
    /\ SubmitsResize(n) /\ pods[n].phase = "none"
    /\ Proceed(Rewritten(n), n, FALSE)
    /\ UNCHANGED <<pods, settings, result, late, events>>

ResizeFails(n) ==
    /\ SubmitsResize(n) /\ Event("api-fails")
    /\ Proceed(Rewritten(n), n, TRUE)
    /\ UNCHANGED <<pods, settings, result, late>>

\* applySidecarResize, after the regular containers' resize was accepted or
\* where they need none.
SubmitsSidecars(n) ==
    \/ Turn(n, "sidecars")
    \/ Resizes(n) /\ AtTarget(n, Regular) /\ ~AtTarget(n, Sidecars)

SidecarsResized(n) ==
    /\ SubmitsSidecars(n) /\ pods[n].phase # "none"
    /\ pods' = [pods EXCEPT ![n] = Patched(@, n, Sidecars)]
    /\ Proceed([pass EXCEPT !.fixed = @ \cup {n}, !.pods[n] = Patched(@, n, Sidecars)],
               n, FALSE)
    /\ UNCHANGED <<settings, result, late, events>>

\* Best effort: no answer fails the pass, nor evicts.  A pod whose regular
\* containers were resized stays marked as changed.
SidecarsNotAccepted(n) ==
    /\ SubmitsSidecars(n)
    /\ IF pods[n].phase = "none" THEN UNCHANGED events ELSE Event("sidecars")
    /\ Proceed([pass EXCEPT !.half = @ \cup ({n} \cap pass.fixed)], n, FALSE)
    /\ UNCHANGED <<pods, settings, result, late>>

-----------------------------------------------------------------------------
\* submitEviction: the annotation first, then the halt, then the API server.
Evicts(n) == Turn(n, "evict") \/ (Turn(n, "loop") /\ WantsEviction(n))

EvictionPinned(n) ==
    /\ n \in Pinned /\ Evicts(n)
    /\ Proceed(pass, n, FALSE)
    /\ UNCHANGED <<pods, settings, result, late, events>>

Evictable(n) == n \notin Pinned /\ Evicts(n)

EvictionHalted(n) ==
    /\ Evictable(n) /\ pass.halted
    /\ Ends([pass EXCEPT !.failed = TRUE])
    /\ UNCHANGED <<pods, settings, events>>

\* The eviction goes by name too.
Evicted(n) ==
    /\ Evictable(n) /\ ~pass.halted
    /\ pods[n].phase # "none"
    /\ pods' = [pods EXCEPT ![n].deleting = TRUE]
    /\ pass' = [pass EXCEPT !.at = "wait", !.fixed = @ \cup {n},
                            !.evicted = @ \cup {n}]
    /\ UNCHANGED <<settings, result, late, events>>

EvictionGone(n) ==
    /\ Evictable(n) /\ ~pass.halted
    /\ pods[n].phase = "none"
    /\ Proceed(pass, n, FALSE)
    /\ UNCHANGED <<pods, settings, result, late, events>>

\* A PodDisruptionBudget answers 429; any other error fails the pass.
EvictionBlocked(n) ==
    /\ Evictable(n) /\ ~pass.halted
    /\ pods[n].phase # "none"
    /\ \/ Event("pdb") /\ Proceed(pass, n, FALSE)
       \/ Event("api-fails") /\ Proceed(pass, n, TRUE)
    /\ UNCHANGED <<pods, settings, result, late>>

-----------------------------------------------------------------------------
\* waitForReplacement, one poll: whatever pod of the selector crash-loops ends
\* the pass, the evicted one included.
CrashSeen == \E m \in Names : pods[m].phase # "none" /\ hasCrashLoopBackOff(pods[m])

WaitOver(n) ==
    /\ Turn(n, "wait") /\ ~CrashSeen
    /\ Quiescent(n, Listed(n).uid)
    /\ Proceed(pass, n, FALSE)
    /\ late' = {}
    /\ UNCHANGED <<pods, settings, result, events>>

WaitAborted(n) ==
    /\ Turn(n, "wait") /\ CrashSeen
    /\ Ends([pass EXCEPT !.failed = TRUE])
    /\ UNCHANGED <<pods, settings, events>>

WaitTimesOut(n) ==
    /\ Turn(n, "wait") /\ ~CrashSeen /\ ~Quiescent(n, Listed(n).uid)
    /\ Event("timeout")
    /\ Ends([pass EXCEPT !.failed = TRUE])
    /\ UNCHANGED <<pods, settings>>

\* The list of a poll fails, or the context is cancelled.
Interrupted ==
    /\ pass.at # "idle" /\ Event("cancel")
    /\ Ends([pass EXCEPT !.failed = TRUE])
    /\ UNCHANGED <<pods, settings>>

-----------------------------------------------------------------------------
\* The cluster (external).  The workload's controller keeps Replicas pods: a
\* StatefulSet replaces a pod once it is gone, another kind once it is
\* terminating or later.  A name is taken again by a StatefulSet, and else only
\* when the running pass has not listed it, as good as new; which is all the
\* same.  The webhook injects the stored recommendation, or fails open.
Free == {n \in Names : /\ pods[n].phase = "none"
                       /\ StatefulSet \/ pass.pods[n].phase = "none"}

Injected == [c \in Containers |-> Applied(Template[c], rec[c])]

Create(n) ==
    /\ Cardinality(Countable(pods)) < Replicas
    /\ n \in Free /\ \A m \in Free : n <= m
    /\ \E spec \in {Injected, Template} :
          /\ IF spec = Injected THEN UNCHANGED events ELSE Event("webhook-fails")
          /\ pods' = [pods EXCEPT ![n] =
                [Nobody EXCEPT !.uid = IF StatefulSet THEN pods[n].uid + 1 ELSE 1,
                               !.phase = "Pending", !.fresh = TRUE, !.spec = spec]]
    /\ late' = IF pass.evicted = {} THEN late ELSE late \cup {n}
    /\ UNCHANGED <<settings, pass, result>>

\* A terminating pod goes, whether its replacement exists or not.
Remove(n) ==
    /\ pods[n].deleting
    /\ pods' = [pods EXCEPT ![n] = [Nobody EXCEPT !.uid = IF StatefulSet THEN pods[n].uid ELSE 0]]
    /\ late' = late \ {n}
    /\ UNCHANGED <<settings, pass, result, events>>

\* Somebody else deletes a pod: a drained node, an operator.
Drain(n) ==
    /\ countable(pods[n]) /\ Event("drain")
    /\ pods' = [pods EXCEPT ![n].deleting = TRUE]
    /\ UNCHANGED <<settings, pass, result, late>>

Schedule(n) ==
    /\ pods[n].phase = "Pending" /\ ~pods[n].deleting
    /\ \A c \in Containers : Value(pods[n].spec[c].req) <= Room
    /\ pods' = [pods EXCEPT ![n].phase = "Running", ![n].enacted = pods[n].spec]
    /\ UNCHANGED <<settings, pass, result, late, events>>

\* A container that needs more may come up and crash later.
BecomeReady(n) ==
    /\ pods[n].phase = "Running" /\ ~pods[n].deleting
    /\ ~pods[n].ready /\ ~pods[n].crash
    /\ pods' = [pods EXCEPT ![n].ready = TRUE, ![n].fresh = FALSE]
    /\ late' = late \ {n}
    /\ UNCHANGED <<settings, pass, result, events>>

Starved(n) == \E c \in Containers : Value(pods[n].enacted[c].req) < Needs[c]

Crash(n) ==
    /\ pods[n].phase = "Running" /\ ~pods[n].crash
    /\ Starved(n)
    /\ pods' = [pods EXCEPT ![n].crash = TRUE, ![n].ready = FALSE]
    /\ UNCHANGED <<settings, pass, result, late, events>>

Recover(n) ==
    /\ pods[n].crash /\ ~Starved(n)
    /\ pods' = [pods EXCEPT ![n].crash = FALSE]
    /\ UNCHANGED <<settings, pass, result, late, events>>

\* The kubelet enacts a staged resize, puts it off or gives it up; the status
\* may then not report the resources of some containers.
Staged(n) == pods[n].phase = "Running" /\ pods[n].spec # pods[n].enacted

Enact(n) ==
    /\ Staged(n) /\ pods[n].verdict # "Infeasible"
    /\ pods' = [pods EXCEPT ![n].enacted = pods[n].spec, ![n].verdict = "",
                             ![n].hidden = {}]
    /\ UNCHANGED <<settings, pass, result, late, events>>

Refuse(n) ==
    /\ Staged(n) /\ pods[n].verdict = ""
    /\ Event("verdict")
    /\ \/ pods' = [pods EXCEPT ![n].verdict = "Deferred"]
       \/ \E hidden \in SUBSET Containers :
             pods' = [pods EXCEPT ![n].verdict = "Infeasible", ![n].hidden = hidden]
    /\ UNCHANGED <<settings, pass, result, late>>

\* The controller stores another recommendation.
Recommend ==
    /\ Event("recommend")
    /\ rec' \in Recs \ {rec}
    /\ UNCHANGED <<pods, inPlace, inPlaceOnly, pass, result, late>>

-----------------------------------------------------------------------------
\* Replicas pods run the template's resources.
Init ==
    /\ rec \in Recs /\ inPlace \in Modes /\ inPlaceOnly \in Rules
    /\ pods = [n \in Names |->
          IF n \in Ended \cup 1..Replicas
          THEN [Nobody EXCEPT !.uid = 1, !.spec = Template, !.enacted = Template,
                              !.phase = IF n \in Ended THEN "Failed" ELSE "Running",
                              !.ready = n \notin Ended]
          ELSE Nobody]
    /\ pass = Idle
    /\ result = NoResult
    /\ late = {} /\ events = 0

Decide(n) ==
    \/ LeaveAlone(n) \/ Resized(n) \/ ResizeGone(n)
    \/ SidecarsResized(n) \/ SidecarsNotAccepted(n)

Evict(n) == EvictionPinned(n) \/ EvictionHalted(n) \/ Evicted(n) \/ EvictionGone(n)

Wait(n) == WaitOver(n) \/ WaitAborted(n)

Fault(n) ==
    ResizeInvalid(n) \/ ResizeFails(n) \/ EvictionBlocked(n) \/ WaitTimesOut(n)

Patcher == Start \/ End \/ \E n \in Names : Decide(n) \/ Evict(n) \/ Wait(n)

Settle ==
    \E n \in Names : \/ Create(n) \/ Remove(n) \/ Schedule(n) \/ BecomeReady(n)
                    \/ Crash(n) \/ Recover(n) \/ Enact(n)

Next ==
    \/ ApplyNothing \/ Patcher \/ Interrupted \/ Recommend \/ Settle
    \/ \E n \in Names : Fault(n) \/ Refuse(n) \/ Drain(n)

Spec == Init /\ [][Next]_vars

\* A pass follows the other and every call returns: an API call fails only so
\* often.  The cluster goes on replacing, scheduling, starting and resizing.
FairSpec == Spec /\ WF_vars(Patcher) /\ WF_vars(Settle)

-----------------------------------------------------------------------------
Pod == [uid : Nat, phase : Phases, deleting : BOOLEAN, ready : BOOLEAN,
        crash : BOOLEAN, fresh : BOOLEAN, spec : [Containers -> Requirements],
        enacted : [Containers -> Requirements], verdict : Verdicts,
        hidden : SUBSET Containers]

\* Every variable has its type, and no container is given a request above its
\* limit, one whose decrease the tolerance withholds while it lets the limit's
\* through included (applyTo).
TypeOK ==
    /\ pods \in [Names -> Pod]
    /\ \A n \in Names, c \in Containers : Admissible(pods[n].spec[c])
    /\ rec \in Recs /\ inPlace \in BOOLEAN /\ inPlaceOnly \in BOOLEAN
    /\ pass.at \in {"idle", "loop", "sidecars", "evict", "wait"}
    /\ pass.pods \in [Names -> Pod]
    /\ {pass.todo, pass.fixed, pass.half, pass.evicted, late} \subseteq SUBSET Names
    /\ events \in 0..MaxEvents

Evicting(n) == pass.at # "wait" /\ pass'.at = "wait" /\ Turn(n, pass.at)

\* "It never evicts a pod": a pod is evicted only for requests, those of its
\* spec being stale, or those staged not enacted or not reported; a change to
\* limits alone that the kubelet reports on, rejected, staged or given up, in
\* this pass or an earlier one, of a regular container or a sidecar, never
\* evicts, and a pod of an in-place-only kind is not evicted at all.
EvictsOnlyForRequests ==
    [][\A n \in Names : Evicting(n) =>
          /\ ~inPlaceOnly
          /\ \/ Stale(Listed(n), pass.rec)
             \/ \E c \in Containers :
                   \/ c \in Listed(n).hidden
                   \/ ~requestsEqual(Listed(n).spec[c], Listed(n).enacted[c])]_vars

\* A container that is resized is done: its new plan changes nothing, so passes
\* do not resize it back and forth, the limit raised to a withheld request
\* included (containerChange).
ResizeSettles ==
    [][\A n \in Names, c \in Containers :
          pods'[n].spec[c] # pods[n].spec[c] /\ pods'[n].uid = pods[n].uid
          /\ pods'[n].phase # "none" =>
          PlanFor(pods'[n].spec[c], pass.rec[c], Tolerance).change = "none"]_vars

Gone(n) == pods[n].phase = "none" \/ pods[n].uid # Listed(n).uid

\* "One at a time, waiting for each replacement": a pass that evicts again has
\* seen off every pod it evicted before, and every replacement that is not
\* Ready yet was created since its last wait; the others have been Ready,
\* whatever pods crash, time out, come late or appear (waitForReplacement).
OneAtATime ==
    [][\A n \in Names : Evicting(n) /\ pass.evicted # {} =>
          /\ \A m \in pass.evicted : Gone(m)
          /\ \A m \in Countable(pods) : pods[m].fresh => m \in late]_vars

\* A pass that reports no stale pod leaves none of those it listed stale, the
\* blocked, skipped and rejected ones included (countPods); but for the
\* sidecars of a pod whose regular containers it resized (applySidecarResize).
CountedIsTrue ==
    [][pass.at # "idle" /\ pass'.at = "idle" /\ result'.kind = "done"
          /\ result'.stale = {} =>
          \A n \in Countable(pass.pods) \cap Countable(pods), c \in Containers :
             pods[n].uid = pass.pods[n].uid
             /\ stale(pods[n].spec[c], pass.rec[c], Tolerance) =>
             n \in pass.half /\ c \in Sidecars]_vars

\* Passes bring every pod to a recommendation that pods run with, whatever the
\* API server, the budgets, the kubelet and the webhook refuse for a while and
\* whatever crash-loops before (recycle).
Rightsized ==
    <>[](\/ inPlaceOnly
         \/ \E c \in Containers : rec[c].req # Nil /\ rec[c].req < Needs[c]
         \/ \A n \in Countable(pods) \ Pinned : ~Stale(pods[n], rec))
=============================================================================
