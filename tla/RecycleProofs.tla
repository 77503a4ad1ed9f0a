---------------------------- MODULE RecycleProofs ---------------------------
(***************************************************************************)
(* The safety of Recycle for any pods, recommendations and tolerance.      *)
(***************************************************************************)
EXTENDS Recycle, TLAPS

-----------------------------------------------------------------------------
(* What a recommendation changes *)

LEMMA QuantityTypes ==
    ASSUME NEW c \in Quantities, NEW q \in Nat \cup {Nil}
    PROVE  /\ Value(c) \in Nat /\ c \in Int /\ q \in Int
           /\ setQuantity(c, q) \in Quantities
           /\ q # Nil => Value(setQuantity(c, q)) = q
           /\ q = Nil => setQuantity(c, q) = c
           /\ Value(c) = q => setQuantity(c, q) = c
  BY DEF Quantities, Value, setQuantity, Unset, Nil

\* The plan's recommendation.
LEMMA ClampedFields ==
    ASSUME NEW c \in Requirements, NEW r \in Recommendations, NEW tol
    PROVE  /\ Clamped(c, r, tol) \in Recommendations
           /\ Clamped(c, r, tol).remove = r.remove
           /\ Clamped(c, r, tol).req =
                 IF withinDecrease(c.req, r.req, tol) THEN Nil ELSE r.req
           /\ Clamped(c, r, tol).lim =
                 IF ~r.remove /\ withinDecrease(c.lim, r.lim, tol) THEN Nil ELSE r.lim
  BY DEF Clamped, Recommendations, Nil

\* Whatever is applied, a container keeps its type and no request is above its
\* limit.
LEMMA AppliedAdmissible ==
    ASSUME NEW c \in Requirements, NEW r \in Recommendations
    PROVE  Applied(c, r) \in Requirements /\ Admissible(Applied(c, r))
<1> DEFINE q == NewRequest(c, r)
           l == applyLimit(c.lim, r.lim, r.remove)
<1>1. c.req \in Quantities /\ c.lim \in Quantities /\ r.req \in Nat \cup {Nil}
      /\ r.lim \in Nat \cup {Nil} /\ r.remove \in BOOLEAN
  BY DEF Requirements, Recommendations
<1>2. q \in Quantities
  BY <1>1, QuantityTypes DEF NewRequest
<1>3. l \in Quantities
  BY <1>1, QuantityTypes DEF applyLimit, Quantities
<1> HIDE DEF q, l
<1>4. /\ Guarded(q, l) \in Quantities
      /\ q # Unset /\ Guarded(q, l) # Unset => q <= Guarded(q, l)
  BY <1>2, <1>3 DEF Guarded, Quantities, Unset
<1>5. Applied(c, r) = [req |-> q, lim |-> Guarded(q, l)]
  BY DEF Applied, NewLimit, q, l
<1> QED
  BY <1>2, <1>4, <1>5 DEF Requirements, Admissible

\* Applying a plan leaves nothing to plan: a decrease withheld stays withheld,
\* and a limit raised to its request is raised to it again.
LEMMA AppliedSettles ==
    ASSUME NEW c \in Requirements, NEW r \in Recommendations, NEW tol
    PROVE  PlanFor(Applied(c, Clamped(c, r, tol)), r, tol).change = "none"
<1> DEFINE k == Clamped(c, r, tol)
           q == NewRequest(c, k)
           l == applyLimit(c.lim, k.lim, k.remove)
           n == Applied(c, k)
           g == Clamped(n, r, tol)
<1>1. c.req \in Quantities /\ c.lim \in Quantities /\ r.req \in Nat \cup {Nil}
      /\ r.lim \in Nat \cup {Nil} /\ r.remove \in BOOLEAN
  BY DEF Requirements, Recommendations
<1>2. /\ k.remove = r.remove
      /\ k.req = IF withinDecrease(c.req, r.req, tol) THEN Nil ELSE r.req
      /\ k.lim = IF ~r.remove /\ withinDecrease(c.lim, r.lim, tol) THEN Nil ELSE r.lim
      /\ k \in Recommendations
  BY ClampedFields
<1>3. n \in Requirements /\ n = [req |-> q, lim |-> Guarded(q, l)]
  BY <1>2, AppliedAdmissible DEF Applied, NewLimit
<1>4. n.req = q /\ n.lim = Guarded(q, l) /\ n.lim \in Quantities /\ n.req \in Quantities
  BY <1>3 DEF Requirements
<1>5. k.req \in Nat \cup {Nil} /\ k.lim \in Nat \cup {Nil}
  BY <1>2 DEF Recommendations
<1>6. /\ g.remove = r.remove
      /\ g.req = IF withinDecrease(n.req, r.req, tol) THEN Nil ELSE r.req
      /\ g.lim = IF ~r.remove /\ withinDecrease(n.lim, r.lim, tol) THEN Nil ELSE r.lim
      /\ g \in Recommendations
  BY <1>3, ClampedFields
<1>7. g.req \in Nat \cup {Nil} /\ g.lim \in Nat \cup {Nil}
  BY <1>6 DEF Recommendations
<1>8. l \in Quantities
  BY <1>1, <1>2, <1>5, QuantityTypes DEF applyLimit, Quantities
<1> HIDE DEF k, n, g
<1>9. NewRequest(n, g) = n.req
  <2>0. q = setQuantity(c.req, k.req) /\ NewRequest(n, g) = setQuantity(n.req, g.req)
    BY DEF NewRequest
  <2>1. CASE withinDecrease(c.req, r.req, tol) \/ r.req = Nil
    <3>1. k.req = Nil /\ n.req = c.req
      BY <1>1, <1>2, <1>4, <2>0, <2>1, QuantityTypes
    <3>2. g.req = Nil
      BY <1>6, <2>1, <3>1
    <3> QED
      BY <1>4, <2>0, <3>2, QuantityTypes
  <2>2. CASE ~withinDecrease(c.req, r.req, tol) /\ r.req # Nil
    <3>1. Value(n.req) = r.req
      <4>1. k.req = r.req
        BY <1>2, <2>2
      <4>2. n.req = setQuantity(c.req, r.req)
        BY <1>4, <2>0, <4>1
      <4>3. Value(setQuantity(c.req, r.req)) = r.req
        BY <1>1, <2>2, QuantityTypes
      <4> QED
        BY <4>2, <4>3
    <3>2. ~withinDecrease(n.req, r.req, tol)
      <4>1. ~(r.req - r.req > 0)
        BY <1>1, <2>2
      <4> QED
        BY <3>1, <4>1 DEF withinDecrease
    <3>3. g.req = r.req
      BY <1>6, <3>2
    <3> QED
      BY <1>1, <1>4, <2>0, <3>1, <3>3, QuantityTypes
  <2> QED
    BY <2>1, <2>2
<1> HIDE DEF q
<1>10. NewLimit(n, g) = Guarded(n.req, applyLimit(n.lim, g.lim, r.remove))
  BY <1>6, <1>9 DEF NewLimit
<1>11. Value(NewLimit(n, g)) = Value(n.lim)
  <2>1. CASE r.remove
    <3>1. l = Unset /\ n.lim = Unset /\ NewLimit(n, g) = Unset
      BY <1>2, <1>4, <1>10, <2>1 DEF applyLimit, Guarded
    <3> QED
      BY <3>1
  <2>2. CASE ~r.remove
    <3>1. l = setQuantity(c.lim, k.lim)
          /\ NewLimit(n, g) = Guarded(n.req, setQuantity(n.lim, g.lim))
      BY <1>2, <1>10, <2>2 DEF applyLimit
    <3>2. n.lim = Guarded(n.req, l)
      BY <1>4
    <3>3. Guarded(n.req, n.lim) = n.lim
      BY <1>4, <1>8, <3>2 DEF Guarded, Quantities, Unset
    <3>4. CASE g.lim = Nil
      <4>1. setQuantity(n.lim, g.lim) = n.lim
        BY <1>4, <1>7, <3>4, QuantityTypes
      <4> QED
        BY <3>1, <3>3, <4>1
    <3>5. CASE g.lim # Nil
      <4>1. g.lim = r.lim /\ r.lim \in Nat /\ ~withinDecrease(n.lim, r.lim, tol)
        BY <1>1, <1>6, <2>2, <3>5
      <4> DEFINE x == setQuantity(n.lim, r.lim)
      <4>2. x \in Quantities /\ Value(x) = r.lim
        BY <1>1, <1>4, <3>5, <4>1, QuantityTypes
      <4>3. CASE ~withinDecrease(c.lim, r.lim, tol)
        <5>1. Value(l) = r.lim
          BY <1>1, <1>2, <3>1, <3>5, <4>1, <4>3, QuantityTypes
        <5> QED
          BY <1>4, <1>8, <3>1, <3>2, <4>1, <4>2, <5>1
             DEF Guarded, Quantities, Unset, Value, setQuantity, Nil
      <4>4. CASE withinDecrease(c.lim, r.lim, tol)
        <5>1. l = c.lim /\ Value(c.lim) - r.lim > 0
          BY <1>1, <1>2, <2>2, <3>1, <4>4, QuantityTypes DEF withinDecrease
        <5>2. l \in Nat /\ l > r.lim
          BY <1>8, <4>1, <5>1 DEF Value, Quantities, Unset
        <5>3. n.lim = l => withinDecrease(n.lim, r.lim, tol)
          BY <4>4, <5>1
        <5>4. n.lim = n.req /\ n.req \in Nat /\ n.req > l
          BY <1>4, <3>2, <4>1, <5>2, <5>3 DEF Guarded, Quantities, Unset
        <5>5. x = r.lim
          BY <4>1, <4>2, <5>2, <5>4 DEF setQuantity, Value, Unset, Nil
        <5> QED
          BY <3>1, <4>1, <5>2, <5>4, <5>5 DEF Guarded, Unset
      <4> QED
        BY <4>3, <4>4
    <3> QED
      BY <3>4, <3>5
  <2> QED
    BY <1>1, <2>1, <2>2
<1>12. Change(n, g) = "none"
  BY <1>9, <1>11 DEF Change
<1> QED
  BY <1>12 DEF PlanFor, n, g, k

\* A plan that leaves the values alone changes nothing.
LEMMA EqualIsSettled ==
    ASSUME NEW c, NEW r, NEW tol, valueEqual(c, Applied(c, Clamped(c, r, tol)))
    PROVE  PlanFor(c, r, tol).change = "none"
<1> DEFINE k == Clamped(c, r, tol)
<1>1. Value(NewRequest(c, k)) = Value(c.req) /\ Value(NewLimit(c, k)) = Value(c.lim)
  BY DEF valueEqual, requestsEqual, Applied
<1>2. Change(c, k) = "none"
  <2> HIDE DEF k
  <2> QED
    BY <1>1 DEF Change
<1> QED
  BY <1>2 DEF PlanFor

-----------------------------------------------------------------------------
(* The inductive invariant *)

Specs == [Containers -> Requirements]

PassRecords ==
    [at : {"idle", "loop", "sidecars", "evict", "wait"}, todo : SUBSET Names,
     pods : [Names -> Pod], rec : [Containers -> Recommendations], halted : BOOLEAN,
     failed : BOOLEAN, fixed : SUBSET Names, half : SUBSET Names,
     evicted : SUBSET Names]

Types ==
    /\ pods \in [Names -> Pod] /\ pass \in PassRecords
    /\ rec \in Recs /\ inPlace \in BOOLEAN /\ inPlaceOnly \in BOOLEAN
    /\ late \in SUBSET Names /\ events \in 0..MaxEvents

\* A pod's fields agree.  A name that a ReplicaSet gave is not given again
\* before it is forgotten, which its uid stands for.
PodOK(pod) ==
    /\ \A c \in Containers : Admissible(pod.spec[c])
    /\ pod.phase = "none" => ~pod.deleting /\ ~pod.fresh /\ ~pod.crash
    /\ ~StatefulSet => pod.uid = IF pod.phase = "none" THEN 0 ELSE 1
    /\ pod.fresh => ~pod.ready

PodsOK == \A n \in Names : PodOK(pods[n]) /\ PodOK(pass.pods[n])

\* A pod about to be evicted is evicted for a request.
Reason(n) ==
    /\ ~inPlaceOnly
    /\ \/ Stale(Listed(n), pass.rec)
       \/ \E c \in Containers :
             \/ c \in Listed(n).hidden
             \/ ~requestsEqual(Listed(n).spec[c], Listed(n).enacted[c])

Reasons == \A n \in Names : Turn(n, "evict") => Reason(n)

\* The cluster's pod is the listed one, with its spec unless a call failed and,
\* once evicted, on its way out; or a later one.
Follows(listed, pod, evicted, failed) ==
    listed.phase # "none" =>
       /\ StatefulSet => listed.uid <= pod.uid
       /\ pod.phase # "none" /\ pod.uid = listed.uid =>
             (failed \/ pod.spec = listed.spec) /\ (evicted => pod.deleting)

Clean(pod, r, cs) == \A c \in cs : ~stale(pod.spec[c], r[c], Tolerance)

\* A pod the pass changed: of one it resized, the sidecars may be stale.
FixedOK(n) ==
    n \in pass.fixed /\ n \notin pass.evicted =>
       /\ Clean(pass.pods[n], pass.rec, Regular)
       /\ \/ Clean(pass.pods[n], pass.rec, Sidecars)
          \/ n \in pass.half \/ Turn(n, "sidecars")

\* What the pass knows: of the pods it lists, of those it fixed, and that none
\* is both evicted and to do but the one it waits for.
Lists ==
    \A n \in Names :
       /\ Follows(pass.pods[n], pods[n], n \in pass.evicted, pass.failed)
       /\ FixedOK(n)
       /\ Turn(n, "sidecars") => n \in pass.fixed /\ n \notin pass.evicted
       /\ n \in pass.evicted => pass.pods[n].phase # "none"
       /\ n \in pass.todo => /\ Considered(pass.pods[n])
                             /\ n \in pass.evicted => Turn(n, "wait")

\* One at a time: what the pass evicted is gone but the pod it waits for, and
\* past the wait no pod comes that was there when it ended.
Waited ==
    /\ \A n \in pass.evicted : Gone(n) \/ Turn(n, "wait")
    /\ pass.evicted # {} /\ pass.at # "wait" =>
          \A n \in Countable(pods) : pods[n].fresh => n \in late

Inv == Types /\ PodsOK /\ Reasons /\ Lists /\ Waited

LEMMA NobodyIsPod == Nobody \in Pod /\ PodOK(Nobody) /\ Nobody.phase = "none"
<1>1. Bare \in Specs /\ \A c \in Containers : Admissible(Bare[c])
  BY DEF Bare, Specs, Requirements, Quantities, Admissible, Unset
<1>2. "" \in Verdicts
  BY DEF Verdicts
<1> HIDE DEF Bare, Verdicts
<1>3. Nobody \in Pod
  BY <1>1, <1>2 DEF Nobody, Pod, Phases, Specs
<1>4. /\ Nobody.phase = "none" /\ Nobody.deleting = FALSE /\ Nobody.fresh = FALSE
      /\ Nobody.crash = FALSE /\ Nobody.spec = Bare /\ Nobody.uid = 0
  BY DEF Nobody
<1> QED
  BY <1>1, <1>3, <1>4 DEF PodOK

LEMMA IdleIsPass ==
    /\ Idle \in PassRecords /\ Idle.at = "idle" /\ Idle.todo = {} /\ Idle.fixed = {}
    /\ Idle.evicted = {} /\ Idle.pods = [n \in Names |-> Nobody]
    /\ Idle.failed = FALSE /\ Idle.half = {}
<1>1. NoAdvice \in [Containers -> Recommendations]
  BY DEF NoAdvice, Recommendations
<1>2. [n \in Names |-> Nobody] \in [Names -> Pod]
  BY NobodyIsPod
<1> HIDE DEF Nobody, NoAdvice
<1> QED
  BY <1>1, <1>2 DEF Idle, PassRecords

\* The pass is at one pod.
LEMMA TurnUnique ==
    ASSUME NEW n \in Names, NEW m \in Names, NEW a, NEW b, Turn(n, a), Turn(m, b)
    PROVE  n = m /\ a = b
<1>1. n \in Nat /\ m \in Nat
  BY RecycleAssumption
<1>2. n # m => Before(n, m) /\ Before(m, n)
  BY DEF Turn
<1>3. ~(Before(n, m) /\ Before(m, n))
  BY <1>1 DEF Before
<1> QED
  BY <1>2, <1>3 DEF Turn

\* No pass: it knows nothing.
LEMMA IdleInv ==
    ASSUME pass = Idle, Types, \A n \in Names : PodOK(pods[n])
    PROVE  Inv
<1>1. PodsOK
  BY IdleIsPass, NobodyIsPod DEF PodsOK
<1>2. \A n \in Names, a \in {"sidecars", "evict", "wait"} : ~Turn(n, a)
  BY IdleIsPass DEF Turn
<1>3. Reasons
  BY <1>2 DEF Reasons
<1>4. Lists
  BY <1>2, IdleIsPass, NobodyIsPod DEF Lists, Follows, FixedOK
<1>5. Waited
  BY IdleIsPass DEF Waited
<1> QED
  BY <1>1, <1>3, <1>4, <1>5 DEF Inv

LEMMA InitInv == Init => Inv
<1> SUFFICES ASSUME Init PROVE Inv
  OBVIOUS
<1>1. /\ rec \in Recs /\ inPlace \in BOOLEAN /\ inPlaceOnly \in BOOLEAN
      /\ late \in SUBSET Names /\ events \in 0..MaxEvents
  <2>1. MaxEvents \in Nat
    BY RecycleAssumption
  <2>2. Modes \subseteq BOOLEAN /\ Rules \subseteq BOOLEAN
    BY RecycleAssumption
  <2>3. late = {} /\ events = 0 /\ rec \in Recs /\ inPlace \in Modes /\ inPlaceOnly \in Rules
    BY DEF Init
  <2> QED
    BY <2>1, <2>2, <2>3
<1>2. pass = Idle
  BY DEF Init
<1>3. ASSUME NEW n \in Names PROVE pods[n] \in Pod /\ PodOK(pods[n])
  <2>1. CASE n \in Ended \cup 1..Replicas
    <3> DEFINE p == [Nobody EXCEPT !.uid = 1, !.spec = Template, !.enacted = Template,
                              !.phase = IF n \in Ended THEN "Failed" ELSE "Running",
                              !.ready = n \notin Ended]
    <3>1. pods[n] = p
      BY <2>1 DEF Init
    <3>2. /\ Template \in Specs /\ \A c \in Containers : Admissible(Template[c])
          /\ Nobody.fresh = FALSE
      BY RecycleAssumption DEF Nobody, Specs
    <3>3. /\ p \in Pod /\ p.spec = Template /\ p.uid = 1 /\ p.phase # "none"
          /\ p.fresh = FALSE
      BY <3>2, NobodyIsPod DEF Pod, Phases, Specs
    <3> HIDE DEF p
    <3> QED
      BY <3>1, <3>2, <3>3 DEF PodOK
  <2>2. CASE n \notin Ended \cup 1..Replicas
    <3>1. pods[n] = Nobody
      BY <2>2 DEF Init
    <3> QED
      BY <3>1, NobodyIsPod
  <2> QED
    BY <2>1, <2>2
<1>4. pods \in [Names -> Pod]
  <2>1. pods = [n \in Names |-> pods[n]]
    BY DEF Init
  <2> QED
    BY <1>3, <2>1
<1> QED
  BY <1>1, <1>2, <1>3, <1>4, IdleIsPass, IdleInv DEF Types

LEMMA EventBound ==
    ASSUME events \in 0..MaxEvents, NEW what, Event(what)
    PROVE  events' \in 0..MaxEvents
<1>1. MaxEvents \in Nat
  BY RecycleAssumption
<1> QED
  BY <1>1 DEF Event

\* Steps that touch nothing the invariant speaks of.
LEMMA NoStep ==
    ASSUME Inv, UNCHANGED <<pods, inPlace, inPlaceOnly, pass, late>>, rec' \in Recs,
           events' \in 0..MaxEvents
    PROVE  Inv'
<1>1. Types' /\ PodsOK'
  BY DEF Inv, Types, PodsOK
<1>2. Reasons'
  BY DEF Inv, Reasons, Reason, Turn, Listed, Stale
<1>3. Lists'
  BY DEF Inv, Lists, Follows, FixedOK, Clean, Turn, Considered
<1>4. Waited'
  BY DEF Inv, Waited, Gone, Listed, Turn, Countable
<1> QED
  BY <1>1, <1>2, <1>3, <1>4 DEF Inv

-----------------------------------------------------------------------------
(* The steps of the cluster *)

\* A step of one pod that is not the patcher's: it keeps the pod's spec and
\* does not take a deletion back, or the pod is another one; a pod that comes
\* is late, if there is a pass that has waited, or came before.
LEMMA PodStep ==
    ASSUME Inv, NEW n \in Names, NEW pod \in Pod,
           pods' = [pods EXCEPT ![n] = pod],
           UNCHANGED <<rec, inPlace, inPlaceOnly, pass>>,
           late' \in SUBSET Names, events' \in 0..MaxEvents, PodOK(pod),
           late \ {n} \subseteq late',
           countable(pod) /\ pod.fresh /\ pass.evicted # {} =>
              n \in late' \/ (countable(pods[n]) /\ pods[n].fresh /\ late \subseteq late'),
           pass.pods[n].phase # "none" =>
              /\ StatefulSet => pods[n].uid <= pod.uid
              /\ pod.phase # "none" =>
                    \/ StatefulSet /\ pods[n].uid < pod.uid
                    \/ /\ pods[n].phase # "none" /\ pods[n].uid = pod.uid
                       /\ pod.spec = pods[n].spec /\ (pods[n].deleting => pod.deleting)
    PROVE  Inv'
<1> USE DEF Inv
<1>1. Types'
  BY DEF Types
<1>2. pods \in [Names -> Pod] /\ pass \in PassRecords /\ pass.pods \in [Names -> Pod]
      /\ pass.evicted \subseteq Names
  BY DEF Types, PassRecords
<1>3. \A m \in Names : pods'[m] = IF m = n THEN pod ELSE pods[m]
  BY <1>2
<1>4. PodsOK'
  BY <1>3 DEF PodsOK
<1>5. Reasons'
  BY DEF Reasons, Reason, Turn, Listed, Stale
<1>6. \A m \in Names, a \in {"wait", "sidecars"} : Turn(m, a)' <=> Turn(m, a)
  BY DEF Turn
<1>0. pass.pods[n].uid \in Nat /\ pods[n].uid \in Nat /\ pod.uid \in Nat
  BY <1>2 DEF Pod
<1>7. Follows(pass.pods[n], pod, n \in pass.evicted, pass.failed)
  <2>2. Follows(pass.pods[n], pods[n], n \in pass.evicted, pass.failed)
    BY DEF Lists
  <2> QED
    BY <1>0, <2>2 DEF Follows
<1>8. Lists'
  <2> SUFFICES ASSUME NEW m \in Names
               PROVE  /\ Follows(pass.pods[m], pods[m], m \in pass.evicted, pass.failed)'
                      /\ FixedOK(m)'
                      /\ (Turn(m, "sidecars") => m \in pass.fixed /\ m \notin pass.evicted)'
                      /\ (m \in pass.evicted => pass.pods[m].phase # "none")'
                      /\ (m \in pass.todo => /\ Considered(pass.pods[m])
                                             /\ m \in pass.evicted => Turn(m, "wait"))'
    BY DEF Lists
  <2>1. Follows(pass.pods[m], pods[m], m \in pass.evicted, pass.failed)'
    BY <1>3, <1>7 DEF Lists, Follows
  <2>2. FixedOK(m)'
    BY <1>6 DEF Lists, FixedOK, Clean
  <2> QED
    BY <1>6, <2>1, <2>2 DEF Lists, Considered
<1>9. \A m \in pass.evicted : Gone(m) => Gone(m)'
  <2> SUFFICES ASSUME NEW m \in pass.evicted, Gone(m) PROVE Gone(m)'
    OBVIOUS
  <2>0. m \in Names /\ pass.pods[m].phase # "none"
        /\ Follows(pass.pods[m], pods[m], TRUE, pass.failed)
    BY <1>2 DEF Lists, Follows
  <2>1. CASE m # n
    BY <1>2, <1>3, <2>0, <2>1 DEF Gone, Listed
  <2>2. CASE m = n
    <3>1. CASE pod.phase = "none"
      BY <1>2, <1>3, <2>2, <3>1 DEF Gone
    <3>2. CASE StatefulSet /\ pods[n].uid < pod.uid
      <4>1. pass.pods[n].uid <= pods[n].uid
        BY <2>0, <2>2, <3>2 DEF Follows
      <4>2. pod.uid # pass.pods[n].uid
        BY <1>0, <3>2, <4>1
      <4> QED
        BY <1>3, <2>2, <4>2 DEF Gone, Listed
    <3>3. CASE pods[n].phase # "none" /\ pods[n].uid = pod.uid
      BY <1>3, <2>2, <3>3 DEF Gone, Listed
    <3> QED
      BY <2>0, <2>2, <3>1, <3>2, <3>3
  <2> QED
    BY <2>1, <2>2
<1>10. ASSUME pass.evicted # {}, pass.at # "wait", NEW m \in Names, countable(pods'[m]),
              pods'[m].fresh
       PROVE  m \in late'
  <2>1. CASE m # n
    <3>1. m \in Countable(pods) /\ pods[m].fresh
      BY <1>3, <1>10, <2>1 DEF Countable
    <3> QED
      BY <1>10, <2>1, <3>1 DEF Waited
  <2>2. CASE m = n
    BY <1>3, <1>10, <2>2 DEF Waited, Countable
  <2> QED
    BY <2>1, <2>2
<1>11. Waited'
  BY <1>2, <1>6, <1>9, <1>10 DEF Waited, Countable
<1> QED
  BY <1>1, <1>4, <1>5, <1>8, <1>11

LEMMA CreateStep ==
    ASSUME Inv, NEW n \in Names, Create(n)
    PROVE  Inv'
<1>0. /\ pods \in [Names -> Pod] /\ pods[n] \in Pod /\ pods[n].uid \in Nat
      /\ late \in SUBSET Names /\ events \in 0..MaxEvents
      /\ rec \in [Containers -> Recommendations] /\ PodOK(pods[n])
  BY RecycleAssumption DEF Inv, Types, Pod, PodsOK
<1>1. PICK spec \in {Injected, Template} :
         /\ IF spec = Injected THEN UNCHANGED events ELSE Event("webhook-fails")
         /\ pods' = [pods EXCEPT ![n] =
                [Nobody EXCEPT !.uid = IF StatefulSet THEN pods[n].uid + 1 ELSE 1,
                               !.phase = "Pending", !.fresh = TRUE, !.spec = spec]]
  BY DEF Create
<1> DEFINE pod == [Nobody EXCEPT !.uid = IF StatefulSet THEN pods[n].uid + 1 ELSE 1,
                               !.phase = "Pending", !.fresh = TRUE, !.spec = spec]
<1>2. spec \in Specs /\ \A c \in Containers : Admissible(spec[c])
  <2>1. \A c \in Containers : Template[c] \in Requirements /\ rec[c] \in Recommendations
    BY <1>0, RecycleAssumption
  <2>2. Injected \in Specs /\ \A c \in Containers : Admissible(Injected[c])
    BY <2>1, AppliedAdmissible DEF Injected, Specs
  <2> QED
    BY <2>2, RecycleAssumption DEF Specs
<1>3. Nobody \in Pod /\ Nobody.ready = FALSE /\ Nobody.deleting = FALSE
  BY NobodyIsPod DEF Nobody
<1>4. (IF StatefulSet THEN pods[n].uid + 1 ELSE 1) \in Nat
  BY <1>0
<1>5. /\ pod \in Pod /\ pod.spec = spec /\ pod.phase = "Pending" /\ pod.ready = FALSE
      /\ pod.uid = IF StatefulSet THEN pods[n].uid + 1 ELSE 1
  <2> HIDE DEF Nobody
  <2> QED
    BY <1>2, <1>3, <1>4 DEF Pod, Phases, Specs
<1> HIDE DEF pod
<1>6. PodOK(pod)
  BY <1>2, <1>5 DEF PodOK
<1>7. events' \in 0..MaxEvents
  BY <1>0, <1>1, EventBound
<1>8. /\ StatefulSet => pods[n].uid < pod.uid /\ pods[n].uid <= pod.uid
      /\ ~StatefulSet => pass.pods[n].phase = "none"
  BY <1>0, <1>5 DEF Create, Free
<1>9. pods' = [pods EXCEPT ![n] = pod]
  BY <1>1 DEF pod
<1>10. /\ late' \in SUBSET Names /\ late \ {n} \subseteq late'
       /\ pass.evicted # {} => n \in late'
  BY <1>0 DEF Create
<1> QED
  BY <1>0, <1>5, <1>6, <1>7, <1>8, <1>9, <1>10, PodStep DEF Create, settings

LEMMA RemoveStep ==
    ASSUME Inv, NEW n \in Names, Remove(n)
    PROVE  Inv'
<1> DEFINE u == IF StatefulSet THEN pods[n].uid ELSE 0
           pod == [Nobody EXCEPT !.uid = u]
<1>0. /\ pods \in [Names -> Pod] /\ pods[n] \in Pod /\ pods[n].uid \in Nat
      /\ late \in SUBSET Names /\ events \in 0..MaxEvents
  BY DEF Inv, Types, Pod
<1>1. u \in Nat
  BY <1>0
<1>2. Nobody \in Pod /\ Nobody.phase = "none" /\ PodOK(Nobody)
  BY NobodyIsPod
<1> HIDE DEF u
<1>3. /\ pod \in Pod /\ pod.uid = u /\ pod.phase = Nobody.phase /\ pod.fresh = Nobody.fresh
      /\ pod.deleting = Nobody.deleting /\ pod.spec = Nobody.spec /\ pod.ready = Nobody.ready
      /\ pod.crash = Nobody.crash
  <2> HIDE DEF Nobody
  <2> QED
    BY <1>1, <1>2 DEF Pod
<1> HIDE DEF pod
<1>4. PodOK(pod)
  BY <1>2, <1>3 DEF PodOK, u
<1>5. StatefulSet => pods[n].uid <= pod.uid
  BY <1>0, <1>3 DEF u
<1>6. pods' = [pods EXCEPT ![n] = pod]
  BY DEF Remove, pod, u
<1>7. late' \in SUBSET Names /\ late \ {n} \subseteq late' /\ ~countable(pod)
  BY <1>0, <1>2, <1>3 DEF Remove, countable
<1> QED
  BY <1>0, <1>2, <1>3, <1>4, <1>5, <1>6, <1>7, PodStep DEF Remove, settings

\* A step of the same pod.
LEMMA SamePodStep ==
    ASSUME Inv, NEW n \in Names, NEW pod \in Pod,
           pods' = [pods EXCEPT ![n] = pod],
           UNCHANGED <<rec, inPlace, inPlaceOnly, pass>>,
           late' = late \/ (late' = late \ {n} /\ ~pod.fresh), events' \in 0..MaxEvents,
           pods[n].phase # "none", pod.phase # "none",
           pod.uid = pods[n].uid, pod.spec = pods[n].spec,
           pods[n].deleting => pod.deleting, pod.fresh => ~pod.ready,
           countable(pod) /\ pod.fresh => countable(pods[n]) /\ pods[n].fresh
    PROVE  Inv'
<1>1. PodOK(pods[n]) /\ pods[n].uid \in Nat /\ late \in SUBSET Names
  BY DEF Inv, PodsOK, Types, Pod
<1>2. PodOK(pod)
  BY <1>1 DEF PodOK
<1>3. pods[n].uid <= pod.uid
  BY <1>1
<1>4. late' \in SUBSET Names /\ late \ {n} \subseteq late'
  BY <1>1
<1> QED
  BY <1>2, <1>3, <1>4, PodStep

LEMMA ClusterStep ==
    ASSUME Inv, NEW n \in Names,
           \/ Drain(n) \/ Schedule(n) \/ BecomeReady(n) \/ Crash(n) \/ Recover(n)
           \/ Enact(n) \/ Refuse(n)
    PROVE  Inv'
<1>0. /\ pods \in [Names -> Pod] /\ pods[n] \in Pod /\ PodOK(pods[n])
      /\ events \in 0..MaxEvents
  BY DEF Inv, Types, PodsOK
<1>1. pods[n].phase = "none" => ~pods[n].deleting /\ ~pods[n].fresh
  BY <1>0 DEF PodOK
<1>2. pods[n].fresh => ~pods[n].ready
  BY <1>0 DEF PodOK
<1>3. ASSUME Drain(n) PROVE Inv'
  <2> DEFINE pod == [pods[n] EXCEPT !.deleting = TRUE]
  <2>1. pods' = [pods EXCEPT ![n] = pod] /\ pods[n].phase # "none"
    BY <1>3 DEF Drain, countable
  <2>2. late' = late /\ events' \in 0..MaxEvents
    BY <1>0, <1>3, EventBound DEF Drain
  <2>3. /\ pod \in Pod /\ pod.uid = pods[n].uid /\ pod.spec = pods[n].spec
        /\ pod.phase = pods[n].phase /\ pod.deleting = TRUE /\ pod.fresh = pods[n].fresh
        /\ pod.ready = pods[n].ready
    BY <1>0 DEF Pod
  <2> HIDE DEF pod
  <2> QED
    BY <1>2, <1>3, <2>1, <2>2, <2>3, SamePodStep DEF Drain, settings, countable
<1>4. ASSUME Schedule(n) PROVE Inv'
  <2> DEFINE pod == [pods[n] EXCEPT !.phase = "Running", !.enacted = pods[n].spec]
  <2>1. pods' = [pods EXCEPT ![n] = pod] /\ pods[n].phase # "none" /\ countable(pods[n])
    BY <1>4 DEF Schedule, countable
  <2>2. late' = late /\ events' \in 0..MaxEvents
    BY <1>0, <1>4 DEF Schedule
  <2>3. /\ pod \in Pod /\ pod.uid = pods[n].uid /\ pod.spec = pods[n].spec
        /\ pod.phase = "Running" /\ pod.deleting = pods[n].deleting
        /\ pod.fresh = pods[n].fresh /\ pod.ready = pods[n].ready
    BY <1>0 DEF Pod, Phases
  <2> HIDE DEF pod
  <2> QED
    BY <1>2, <1>4, <2>1, <2>2, <2>3, SamePodStep DEF Schedule, settings
<1>5. ASSUME BecomeReady(n) PROVE Inv'
  <2> DEFINE pod == [pods[n] EXCEPT !.ready = TRUE, !.fresh = FALSE]
  <2>1. pods' = [pods EXCEPT ![n] = pod] /\ pods[n].phase # "none"
    BY <1>5 DEF BecomeReady
  <2>2. late' = late \ {n} /\ events' \in 0..MaxEvents
    BY <1>0, <1>5 DEF BecomeReady
  <2>3. /\ pod \in Pod /\ pod.uid = pods[n].uid /\ pod.spec = pods[n].spec
        /\ pod.phase = pods[n].phase /\ pod.deleting = pods[n].deleting
        /\ pod.fresh = FALSE
    BY <1>0 DEF Pod
  <2> HIDE DEF pod
  <2> QED
    BY <1>5, <2>1, <2>2, <2>3, SamePodStep DEF BecomeReady, settings
<1>6. ASSUME Crash(n) PROVE Inv'
  <2> DEFINE pod == [pods[n] EXCEPT !.crash = TRUE, !.ready = FALSE]
  <2>1. pods' = [pods EXCEPT ![n] = pod] /\ pods[n].phase # "none"
    BY <1>6 DEF Crash
  <2>2. late' = late /\ events' \in 0..MaxEvents
    BY <1>0, <1>6 DEF Crash
  <2>3. /\ pod \in Pod /\ pod.uid = pods[n].uid /\ pod.spec = pods[n].spec
        /\ pod.phase = pods[n].phase /\ pod.deleting = pods[n].deleting
        /\ pod.ready = FALSE /\ pod.fresh = pods[n].fresh
    BY <1>0 DEF Pod
  <2> HIDE DEF pod
  <2> QED
    BY <1>6, <2>1, <2>2, <2>3, SamePodStep DEF Crash, settings, countable
<1>7. ASSUME Recover(n) PROVE Inv'
  <2> DEFINE pod == [pods[n] EXCEPT !.crash = FALSE]
  <2>1. pods' = [pods EXCEPT ![n] = pod] /\ pods[n].phase # "none"
    BY <1>0, <1>7 DEF Recover, PodOK
  <2>2. late' = late /\ events' \in 0..MaxEvents
    BY <1>0, <1>7 DEF Recover
  <2>3. /\ pod \in Pod /\ pod.uid = pods[n].uid /\ pod.spec = pods[n].spec
        /\ pod.phase = pods[n].phase /\ pod.deleting = pods[n].deleting
        /\ pod.fresh = pods[n].fresh /\ pod.ready = pods[n].ready
    BY <1>0 DEF Pod
  <2> HIDE DEF pod
  <2> QED
    BY <1>2, <1>7, <2>1, <2>2, <2>3, SamePodStep DEF Recover, settings, countable
<1>8. ASSUME Enact(n) PROVE Inv'
  <2> DEFINE pod == [pods[n] EXCEPT !.enacted = pods[n].spec, !.verdict = "", !.hidden = {}]
  <2>1. pods' = [pods EXCEPT ![n] = pod] /\ pods[n].phase # "none"
    BY <1>8 DEF Enact, Staged
  <2>2. late' = late /\ events' \in 0..MaxEvents
    BY <1>0, <1>8 DEF Enact
  <2>3. /\ pod \in Pod /\ pod.uid = pods[n].uid /\ pod.spec = pods[n].spec
        /\ pod.phase = pods[n].phase /\ pod.deleting = pods[n].deleting
        /\ pod.fresh = pods[n].fresh /\ pod.ready = pods[n].ready
    BY <1>0 DEF Pod, Verdicts
  <2> HIDE DEF pod
  <2> QED
    BY <1>2, <1>8, <2>1, <2>2, <2>3, SamePodStep DEF Enact, settings, countable
<1>9. ASSUME Refuse(n) PROVE Inv'
  <2>0. PICK v \in Verdicts, h \in SUBSET Containers :
           pods' = [pods EXCEPT ![n] = [pods[n] EXCEPT !.verdict = v, !.hidden = h]]
    <3>1. CASE pods' = [pods EXCEPT ![n].verdict = "Deferred"]
      <4>1. pods[n].hidden \in SUBSET Containers /\ "Deferred" \in Verdicts
        BY <1>0 DEF Pod, Verdicts
      <4>2. [pods[n] EXCEPT !.verdict = "Deferred"]
               = [pods[n] EXCEPT !.verdict = "Deferred", !.hidden = pods[n].hidden]
        BY <1>0 DEF Pod
      <4> QED
        BY <3>1, <4>1, <4>2
    <3>2. CASE \E h \in SUBSET Containers :
                  pods' = [pods EXCEPT ![n].verdict = "Infeasible", ![n].hidden = h]
      <4>1. PICK h \in SUBSET Containers :
                  pods' = [pods EXCEPT ![n].verdict = "Infeasible", ![n].hidden = h]
        BY <3>2
      <4>2. pods' = [pods EXCEPT ![n] = [pods[n] EXCEPT !.verdict = "Infeasible", !.hidden = h]]
        BY <1>0, <4>1
      <4>3. "Infeasible" \in Verdicts
        BY DEF Verdicts
      <4> QED
        BY <4>2, <4>3
    <3> QED
      BY <1>9, <3>1, <3>2 DEF Refuse
  <2> DEFINE pod == [pods[n] EXCEPT !.verdict = v, !.hidden = h]
  <2>1. pods' = [pods EXCEPT ![n] = pod] /\ pods[n].phase # "none"
    BY <1>9, <2>0 DEF Refuse, Staged
  <2>2. late' = late /\ events' \in 0..MaxEvents
    BY <1>0, <1>9, EventBound DEF Refuse
  <2>3. /\ pod \in Pod /\ pod.uid = pods[n].uid /\ pod.spec = pods[n].spec
        /\ pod.phase = pods[n].phase /\ pod.deleting = pods[n].deleting
        /\ pod.fresh = pods[n].fresh /\ pod.ready = pods[n].ready
    BY <1>0 DEF Pod
  <2> HIDE DEF pod
  <2> QED
    BY <1>2, <1>9, <2>1, <2>2, <2>3, SamePodStep DEF Refuse, settings, countable
<1> QED
  BY <1>3, <1>4, <1>5, <1>6, <1>7, <1>8, <1>9

-----------------------------------------------------------------------------
(* The steps of the patcher *)

\* A step that moves the pass on to a pod it has not evicted, past the sidecars
\* of the one at hand.
LEMMA PassStep ==
    ASSUME Inv, UNCHANGED <<pods, rec, inPlace, inPlaceOnly, late>>,
           events' \in 0..MaxEvents, pass' \in PassRecords,
           pass'.pods = pass.pods, pass'.rec = pass.rec, pass'.fixed = pass.fixed,
           pass'.evicted = pass.evicted, pass.half \subseteq pass'.half,
           pass.failed => pass'.failed, pass'.at \in {"loop", "evict"},
           pass.at # "wait", \A m \in Names : Turn(m, "sidecars") => m \in pass'.half,
           pass'.todo \subseteq pass.todo, Reasons'
    PROVE  Inv'
<1>0. pass \in PassRecords
  BY DEF Inv, Types
<1>1. Types'
  BY DEF Inv, Types
<1>2. PodsOK'
  BY DEF Inv, PodsOK
<1>3. Lists'
  <2> SUFFICES ASSUME NEW m \in Names
               PROVE  /\ Follows(pass.pods[m], pods[m], m \in pass.evicted, pass.failed)'
                      /\ FixedOK(m)'
                      /\ (Turn(m, "sidecars") => m \in pass.fixed /\ m \notin pass.evicted)'
                      /\ (m \in pass.evicted => pass.pods[m].phase # "none")'
                      /\ (m \in pass.todo => /\ Considered(pass.pods[m])
                                             /\ m \in pass.evicted => Turn(m, "wait"))'
    BY DEF Lists
  <2>1. Follows(pass.pods[m], pods[m], m \in pass.evicted, pass.failed)'
    BY DEF Inv, Lists, Follows
  <2>2. FixedOK(m)'
    BY DEF Inv, Lists, FixedOK, Clean
  <2>3. ~Turn(m, "sidecars")'
    BY DEF Turn
  <2>4. m \in pass.todo => m \notin pass.evicted
    BY DEF Inv, Lists, Turn
  <2> QED
    BY <2>1, <2>2, <2>3, <2>4 DEF Inv, Lists, Considered
<1>4. Waited'
  BY DEF Inv, Waited, Gone, Listed, Turn, Countable
<1> QED
  BY <1>1, <1>2, <1>3, <1>4 DEF Inv

LEMMA ProceedStep ==
    ASSUME Inv, NEW n \in Names, NEW a \in {"loop", "evict"}, Turn(n, a), NEW f \in BOOLEAN,
           Proceed(pass, n, f), UNCHANGED <<pods, rec, inPlace, inPlaceOnly, late>>,
           events' \in 0..MaxEvents
    PROVE  Inv'
<1>0. pass \in PassRecords /\ pass.at = a
  BY DEF Inv, Types, Turn
<1>1. /\ pass' \in PassRecords /\ pass'.pods = pass.pods /\ pass'.rec = pass.rec
      /\ pass'.fixed = pass.fixed /\ pass'.evicted = pass.evicted
      /\ pass'.half = pass.half /\ pass'.failed = (pass.failed \/ f)
      /\ pass'.at = "loop" /\ pass'.todo = pass.todo \ {n}
  BY <1>0 DEF Proceed, PassRecords
<1>2. \A m \in Names : ~Turn(m, "sidecars")
  BY <1>0 DEF Turn
<1>3. Reasons'
  BY <1>1 DEF Reasons, Turn
<1> QED
  BY <1>0, <1>1, <1>2, <1>3, PassStep

LEMMA IdleStep ==
    ASSUME Inv, pass' = Idle, UNCHANGED <<pods, rec, inPlace, inPlaceOnly>>,
           late' = {}, events' \in 0..MaxEvents
    PROVE  Inv'
<1>1. Types'
  BY IdleIsPass DEF Inv, Types
<1>2. PodsOK'
  BY IdleIsPass, NobodyIsPod DEF Inv, PodsOK
<1>3. \A n \in Names, a \in {"sidecars", "evict", "wait"} : ~Turn(n, a)'
  BY IdleIsPass DEF Turn
<1>4. Reasons'
  BY <1>3 DEF Reasons
<1>5. Lists'
  BY <1>3, IdleIsPass, NobodyIsPod DEF Lists, Follows, FixedOK
<1>6. Waited'
  BY IdleIsPass DEF Waited
<1> QED
  BY <1>1, <1>2, <1>4, <1>5, <1>6 DEF Inv

LEMMA StartStep ==
    ASSUME Inv, Start
    PROVE  Inv'
<1>0. /\ pods \in [Names -> Pod] /\ rec \in Recs /\ rec \in [Containers -> Recommendations]
      /\ events \in 0..MaxEvents
  BY RecycleAssumption DEF Inv, Types
<1> DEFINE todo == {n \in Names : Considered(pods[n])}
           halted == updatedPodCrashLooping(pods, rec)
<1>1. halted \in BOOLEAN /\ todo \in SUBSET Names
  BY DEF updatedPodCrashLooping
<1>2. pass' = [Idle EXCEPT !.at = "loop", !.pods = pods, !.rec = rec,
                  !.todo = todo, !.halted = halted]
  BY DEF Start
<1> HIDE DEF todo, halted
<1>3. /\ pass' \in PassRecords /\ pass'.at = "loop" /\ pass'.pods = pods
      /\ pass'.rec = rec /\ pass'.todo = todo /\ pass'.fixed = {} /\ pass'.evicted = {}
  <2>1. Idle \in PassRecords /\ Idle.fixed = {} /\ Idle.evicted = {}
    BY IdleIsPass
  <2> HIDE DEF Idle
  <2> QED
    BY <1>0, <1>1, <1>2, <2>1 DEF PassRecords
<1>4. UNCHANGED <<pods, rec, inPlace, inPlaceOnly, late, events>>
  BY DEF Start, settings
<1>5. Types' /\ PodsOK'
  BY <1>3, <1>4 DEF Inv, Types, PodsOK
<1>6. Reasons'
  BY <1>3 DEF Reasons, Turn
<1>7. Lists'
  <2>1. \A n \in Names : pods[n].uid <= pods[n].uid
    BY <1>0 DEF Pod
  <2>2. \A n \in Names : ~Turn(n, "sidecars")'
    BY <1>3 DEF Turn
  <2>3. \A n \in Names : n \in todo => Considered(pods[n])'
    BY <1>4 DEF todo, Considered
  <2> QED
    BY <1>3, <1>4, <2>1, <2>2, <2>3 DEF Lists, Follows, FixedOK, Considered
<1>8. Waited'
  BY <1>3 DEF Waited
<1> QED
  BY <1>5, <1>6, <1>7, <1>8 DEF Inv

\* A pod that the pass is about to evict has a reason.
LEMMA EvictsReason ==
    ASSUME Inv, NEW n \in Names, Evicts(n)
    PROVE  Reason(n)
<1>1. CASE Turn(n, "evict")
  BY <1>1 DEF Inv, Reasons
<1>2. CASE Turn(n, "loop") /\ WantsEviction(n)
  <2>1. CASE Resizes(n)
    BY <1>2, <2>1 DEF WantsEviction, Reason, stagedRequests
  <2>2. CASE ~Resizes(n)
    <3>1. Considered(pass.pods[n])
      BY <1>2 DEF Inv, Lists, Turn
    <3>2. ~inPlaceOnly
      BY <1>2, <2>2, <3>1 DEF Considered, Resizes, Listed
    <3> QED
      BY <1>2, <2>2, <3>2 DEF WantsEviction, Reason
  <2> QED
    BY <2>1, <2>2
<1> QED
  BY <1>1, <1>2 DEF Evicts

LEMMA InvalidStep ==
    ASSUME Inv, NEW n \in Names, ResizeInvalid(n)
    PROVE  Inv'
<1>0. /\ pass \in PassRecords /\ Turn(n, "loop") /\ events \in 0..MaxEvents
      /\ pass.at = "loop" /\ UNCHANGED <<pods, rec, inPlace, inPlaceOnly, late>>
  BY DEF Inv, Types, ResizeInvalid, SubmitsResize, Resizes, Turn, settings
<1>1. events' \in 0..MaxEvents
  BY <1>0, EventBound DEF ResizeInvalid
<1>2. CASE inPlaceOnly \/ ~Stale(Listed(n), pass.rec)
  <2>1. Proceed(pass, n, FALSE)
    BY <1>2 DEF ResizeInvalid
  <2> QED
    BY <1>0, <1>1, <2>1, ProceedStep
<1>3. CASE ~(inPlaceOnly \/ ~Stale(Listed(n), pass.rec))
  <2>0. pass' = [pass EXCEPT !.at = "evict"]
    BY <1>3 DEF ResizeInvalid
  <2>1. /\ pass' \in PassRecords /\ pass'.pods = pass.pods /\ pass'.rec = pass.rec
        /\ pass'.fixed = pass.fixed /\ pass'.evicted = pass.evicted
        /\ pass'.half = pass.half /\ pass'.failed = pass.failed
        /\ pass'.at = "evict" /\ pass'.todo = pass.todo
    BY <1>0, <2>0 DEF PassRecords
  <2>2. \A m \in Names : ~Turn(m, "sidecars")
    BY <1>0 DEF Turn
  <2>3. Reasons'
    <3> SUFFICES ASSUME NEW m \in Names, Turn(m, "evict")' PROVE Reason(m)'
      BY DEF Reasons
    <3>1. Turn(m, "loop")
      BY <1>0, <2>1 DEF Turn
    <3>2. m = n
      BY <1>0, <3>1, TurnUnique
    <3>3. Reason(n)
      BY <1>3 DEF Reason
    <3> QED
      BY <1>0, <2>1, <3>2, <3>3 DEF Reason, Stale, Listed
  <2> QED
    BY <1>0, <1>1, <2>1, <2>2, <2>3, PassStep
<1> QED
  BY <1>2, <1>3

LEMMA SidecarsNotAcceptedStep ==
    ASSUME Inv, NEW n \in Names, SidecarsNotAccepted(n)
    PROVE  Inv'
<1> DEFINE half == pass.half \cup ({n} \cap pass.fixed)
           p == [pass EXCEPT !.half = half]
<1>0. /\ pass \in PassRecords /\ pass.at \in {"loop", "sidecars"}
      /\ n \in pass.todo /\ UNCHANGED <<pods, rec, inPlace, inPlaceOnly, late>>
      /\ events \in 0..MaxEvents /\ Turn(n, pass.at)
  BY DEF Inv, Types, SidecarsNotAccepted, SubmitsSidecars, Resizes, Turn, settings
<1>1. events' \in 0..MaxEvents
  BY <1>0, EventBound DEF SidecarsNotAccepted
<1>2. /\ p \in PassRecords /\ p.pods = pass.pods /\ p.rec = pass.rec /\ p.fixed = pass.fixed
      /\ p.evicted = pass.evicted /\ p.half = half /\ p.failed = pass.failed
      /\ p.todo = pass.todo
  BY <1>0 DEF PassRecords
<1>3. pass' = [p EXCEPT !.at = "loop", !.todo = @ \ {n}, !.failed = @ \/ FALSE]
  BY DEF SidecarsNotAccepted, Proceed
<1> HIDE DEF p
<1>4. /\ pass' \in PassRecords /\ pass'.pods = pass.pods /\ pass'.rec = pass.rec
      /\ pass'.fixed = pass.fixed /\ pass'.evicted = pass.evicted
      /\ pass'.half = half /\ pass'.failed = pass.failed
      /\ pass'.at = "loop" /\ pass'.todo = pass.todo \ {n}
  BY <1>2, <1>3 DEF PassRecords
<1>5. \A m \in Names : Turn(m, "sidecars") => m \in half
  <2> SUFFICES ASSUME NEW m \in Names, Turn(m, "sidecars") PROVE m \in half
    OBVIOUS
  <2>1. m = n /\ m \in pass.fixed
    BY <1>0, TurnUnique DEF Inv, Lists
  <2> QED
    BY <2>1
<1>6. Reasons'
  BY <1>4 DEF Reasons, Turn
<1> HIDE DEF half
<1>7. pass.half \subseteq half
  BY DEF half
<1> QED
  BY <1>0, <1>1, <1>4, <1>5, <1>6, <1>7, PassStep

LEMMA WaitOverStep ==
    ASSUME Inv, NEW n \in Names, WaitOver(n)
    PROVE  Inv'
<1>0. /\ pass \in PassRecords /\ Turn(n, "wait") /\ pass.at = "wait"
      /\ UNCHANGED <<pods, rec, inPlace, inPlaceOnly, events>> /\ late' = {}
      /\ pods \in [Names -> Pod] /\ pass.evicted \subseteq Names
  BY DEF Inv, Types, WaitOver, Turn, settings, PassRecords
<1>1. /\ pass' \in PassRecords /\ pass'.pods = pass.pods /\ pass'.rec = pass.rec
      /\ pass'.fixed = pass.fixed /\ pass'.evicted = pass.evicted
      /\ pass'.half = pass.half /\ pass'.failed = pass.failed
      /\ pass'.at = "loop" /\ pass'.todo = pass.todo \ {n}
  <2>1. pass' = [pass EXCEPT !.at = "loop", !.todo = @ \ {n}, !.failed = @ \/ FALSE]
    BY DEF WaitOver, Proceed
  <2> QED
    BY <1>0, <2>1 DEF PassRecords
<1>2. Types' /\ PodsOK'
  BY <1>0, <1>1 DEF Inv, Types, PodsOK
<1>3. Reasons'
  BY <1>1 DEF Reasons, Turn
<1>4. \A m \in Names : m # n => ~Turn(m, "wait")
  BY <1>0, TurnUnique
<1>5. Lists'
  <2> SUFFICES ASSUME NEW m \in Names
               PROVE  /\ Follows(pass.pods[m], pods[m], m \in pass.evicted, pass.failed)'
                      /\ FixedOK(m)'
                      /\ (Turn(m, "sidecars") => m \in pass.fixed /\ m \notin pass.evicted)'
                      /\ (m \in pass.evicted => pass.pods[m].phase # "none")'
                      /\ (m \in pass.todo => /\ Considered(pass.pods[m])
                                             /\ m \in pass.evicted => Turn(m, "wait"))'
    BY DEF Lists
  <2>1. Follows(pass.pods[m], pods[m], m \in pass.evicted, pass.failed)'
    BY <1>0, <1>1 DEF Inv, Lists, Follows
  <2>2. FixedOK(m)' /\ ~Turn(m, "sidecars")'
    <3>1. ~Turn(m, "sidecars") /\ ~Turn(m, "sidecars")'
      BY <1>0, <1>1 DEF Turn
    <3> QED
      BY <1>1, <3>1 DEF Inv, Lists, FixedOK, Clean
  <2>3. m \in pass'.todo => m \in pass.todo /\ m # n /\ m \notin pass.evicted
    BY <1>1, <1>4 DEF Inv, Lists
  <2> QED
    BY <1>0, <1>1, <2>1, <2>2, <2>3 DEF Inv, Lists, Considered
<1>6. Waited'
  <2>1. \A m \in pass.evicted : Gone(m)
    <3>1. Gone(n)
      BY DEF WaitOver, Quiescent, Gone
    <3> QED
      BY <1>0, <1>4, <3>1 DEF Inv, Waited
  <2>2. \A m \in Countable(pods) : ~pods[m].fresh
    <3> SUFFICES ASSUME NEW m \in Names, countable(pods[m]) PROVE ~pods[m].fresh
      BY DEF Countable
    <3>1. ~isProgressing(pods[m])
      BY DEF WaitOver, Quiescent
    <3>2. pods[m].ready
      BY <3>1 DEF isProgressing, countable
    <3> QED
      BY <3>2 DEF Inv, PodsOK, PodOK
  <2> QED
    BY <1>0, <1>1, <2>1, <2>2 DEF Waited, Gone, Listed, Countable
<1> QED
  BY <1>2, <1>3, <1>5, <1>6 DEF Inv

\* Steps that leave the pods alone.
LEMMA QuietStep ==
    ASSUME Inv,
           \/ ApplyNothing \/ End \/ Interrupted \/ Recommend
           \/ \E n \in Names :
                 \/ LeaveAlone(n) \/ ResizeInvalid(n) \/ SidecarsNotAccepted(n)
                 \/ EvictionPinned(n) \/ EvictionHalted(n) \/ EvictionGone(n)
                 \/ EvictionBlocked(n) \/ WaitOver(n) \/ WaitAborted(n)
                 \/ WaitTimesOut(n)
    PROVE  Inv'
<1>0. events \in 0..MaxEvents /\ pass \in PassRecords /\ rec \in Recs
  BY DEF Inv, Types
<1>1. CASE ApplyNothing
  BY <1>0, <1>1, EventBound, NoStep DEF ApplyNothing, settings
<1>2. CASE Recommend
  BY <1>0, <1>2, EventBound, NoStep DEF Recommend
<1>3. CASE End
  BY <1>0, <1>3, IdleStep DEF End, Ends, settings
<1>4. CASE Interrupted
  BY <1>0, <1>4, IdleStep, EventBound DEF Interrupted, Ends, settings
<1>5. ASSUME NEW n \in Names, LeaveAlone(n) PROVE Inv'
  BY <1>0, <1>5, ProceedStep DEF LeaveAlone, settings
<1>6. ASSUME NEW n \in Names, EvictionPinned(n) \/ EvictionGone(n) PROVE Inv'
  <2>1. Turn(n, "evict") \/ Turn(n, "loop")
    BY <1>6 DEF EvictionPinned, EvictionGone, Evictable, Evicts
  <2> QED
    BY <1>0, <1>6, <2>1, ProceedStep DEF EvictionPinned, EvictionGone, settings
<1>7. ASSUME NEW n \in Names, EvictionBlocked(n) PROVE Inv'
  <2>1. Turn(n, "evict") \/ Turn(n, "loop")
    BY <1>7 DEF EvictionBlocked, Evictable, Evicts
  <2>2. events' \in 0..MaxEvents
    BY <1>0, <1>7, EventBound DEF EvictionBlocked
  <2> QED
    BY <1>0, <1>7, <2>1, <2>2, ProceedStep DEF EvictionBlocked, settings
<1>8. ASSUME NEW n \in Names, EvictionHalted(n) \/ WaitAborted(n) PROVE Inv'
  BY <1>0, <1>8, IdleStep DEF EvictionHalted, WaitAborted, Ends, settings
<1>9. ASSUME NEW n \in Names, WaitTimesOut(n) PROVE Inv'
  BY <1>0, <1>9, IdleStep, EventBound DEF WaitTimesOut, Ends, settings
<1> QED
  BY <1>1, <1>2, <1>3, <1>4, <1>5, <1>6, <1>7, <1>8, <1>9, InvalidStep,
     SidecarsNotAcceptedStep, WaitOverStep

\* What a resize leaves: the containers at their targets, which are admissible
\* and settled, and whatever was not stale before.
LEMMA PatchedPod ==
    ASSUME Inv, NEW n \in Names, NEW pod \in Pod, PodOK(pod), NEW cs \in SUBSET Containers
    PROVE  LET new == Patched(pod, n, cs)
           IN  /\ new \in Pod /\ PodOK(new) /\ new.uid = pod.uid /\ new.phase = pod.phase
               /\ new.deleting = pod.deleting /\ new.fresh = pod.fresh
               /\ \A c \in Containers :
                     new.spec[c] = IF c \in cs THEN Target(n, c) ELSE pod.spec[c]
               /\ \A c \in cs : PlanFor(new.spec[c], pass.rec[c], Tolerance).change = "none"
               /\ \A ds \in SUBSET Containers :
                     Clean(pod, pass.rec, ds \ cs) => Clean(new, pass.rec, ds)
<1> DEFINE spec == [c \in Containers |-> IF c \in cs THEN Target(n, c) ELSE pod.spec[c]]
           new == Patched(pod, n, cs)
<1>0. /\ pass \in PassRecords /\ pass.pods[n] \in Pod /\ pass.rec \in [Containers -> Recommendations]
  BY DEF Inv, Types, PassRecords
<1>1. \A c \in Containers : /\ Listed(n).spec[c] \in Requirements
                            /\ pass.rec[c] \in Recommendations /\ pod.spec[c] \in Requirements
  BY <1>0 DEF Pod, Listed
<1>2. ASSUME NEW c \in Containers
      PROVE  /\ Target(n, c) \in Requirements /\ Admissible(Target(n, c))
             /\ PlanFor(Target(n, c), pass.rec[c], Tolerance).change = "none"
  <2>1. Clamped(Listed(n).spec[c], pass.rec[c], Tolerance) \in Recommendations
    BY <1>1, ClampedFields
  <2> QED
    BY <1>1, <2>1, AppliedAdmissible, AppliedSettles DEF Target
<1>3. spec \in [Containers -> Requirements]
  BY <1>1, <1>2
<1>4. new = [pod EXCEPT !.spec = spec, !.verdict = "", !.hidden = {}]
  BY DEF Patched
<1> HIDE DEF spec, new
<1>5. /\ new \in Pod /\ new.spec = spec /\ new.uid = pod.uid /\ new.phase = pod.phase
      /\ new.deleting = pod.deleting /\ new.fresh = pod.fresh /\ new.ready = pod.ready
      /\ new.crash = pod.crash
  BY <1>3, <1>4 DEF Pod, Verdicts
<1>6. \A c \in Containers : new.spec[c] = IF c \in cs THEN Target(n, c) ELSE pod.spec[c]
  BY <1>5 DEF spec
<1>7. PodOK(new)
  BY <1>2, <1>5, <1>6 DEF PodOK
<1>8. \A c \in cs : PlanFor(new.spec[c], pass.rec[c], Tolerance).change = "none"
  BY <1>2, <1>6
<1>9. \A ds \in SUBSET Containers :
         Clean(pod, pass.rec, ds \ cs) => Clean(new, pass.rec, ds)
  BY <1>6, <1>8 DEF Clean, stale
<1> QED
  BY <1>5, <1>6, <1>7, <1>8, <1>9 DEF new

\* A call to resize containers cs of the pod at hand: hit says whether the
\* cluster's pod is.
LEMMA RewriteStep ==
    ASSUME Inv, NEW n \in Names, Turn(n, "loop") \/ Turn(n, "sidecars"),
           NEW cs \in SUBSET Containers, NEW hit \in BOOLEAN,
           UNCHANGED <<rec, inPlace, inPlaceOnly, late>>, events' \in 0..MaxEvents,
           pods' = IF hit THEN [pods EXCEPT ![n] = Patched(pods[n], n, cs)] ELSE pods,
           pass' \in PassRecords,
           pass'.pods = [pass.pods EXCEPT ![n] = Patched(pass.pods[n], n, cs)],
           pass'.rec = pass.rec, pass'.evicted = pass.evicted, pass'.half = pass.half,
           pass'.fixed = IF hit THEN pass.fixed \cup {n} ELSE pass.fixed,
           pass.failed => pass'.failed,
           hit \/ pass'.failed \/ pods[n].phase = "none",
           \/ pass'.at = "loop" /\ pass'.todo = pass.todo \ {n}
           \/ pass'.at = "sidecars" /\ pass'.todo = pass.todo /\ hit,
           hit => Clean(pass.pods[n], pass.rec, Regular \ cs),
           pass'.at = "loop" /\ hit => Clean(pass.pods[n], pass.rec, Sidecars \ cs),
           pass.at = "loop" \/ hit
    PROVE  Inv'
<1> DEFINE old == Patched(pass.pods[n], n, cs)
           new == Patched(pods[n], n, cs)
<1>0. /\ pods \in [Names -> Pod] /\ pass \in PassRecords /\ pass.pods \in [Names -> Pod]
      /\ PodOK(pods[n]) /\ PodOK(pass.pods[n]) /\ pass.evicted \subseteq Names
      /\ pass.at \in {"loop", "sidecars"} /\ n \in pass.todo
      /\ Regular \in SUBSET Containers /\ Sidecars \in SUBSET Containers
  BY RecycleAssumption DEF Inv, Types, PassRecords, PodsOK, Turn, Regular
<1>1. /\ old \in Pod /\ PodOK(old) /\ old.uid = pass.pods[n].uid
      /\ old.phase = pass.pods[n].phase /\ old.deleting = pass.pods[n].deleting
      /\ \A c \in Containers :
            old.spec[c] = IF c \in cs THEN Target(n, c) ELSE pass.pods[n].spec[c]
      /\ \A ds \in SUBSET Containers :
            Clean(pass.pods[n], pass.rec, ds \ cs) => Clean(old, pass.rec, ds)
  BY <1>0, PatchedPod
<1>2. /\ new \in Pod /\ PodOK(new) /\ new.uid = pods[n].uid
      /\ new.phase = pods[n].phase /\ new.deleting = pods[n].deleting
      /\ new.fresh = pods[n].fresh
      /\ \A c \in Containers :
            new.spec[c] = IF c \in cs THEN Target(n, c) ELSE pods[n].spec[c]
  BY <1>0, PatchedPod
<1> HIDE DEF old, new
<1>3. \A m \in Names : pods'[m] = IF m = n /\ hit THEN new ELSE pods[m]
  BY <1>0 DEF new
<1>4. \A m \in Names : pass'.pods[m] = IF m = n THEN old ELSE pass.pods[m]
  BY <1>0 DEF old
<1>5. Types'
  <2>1. pods' \in [Names -> Pod]
    BY <1>0, <1>2 DEF new
  <2> QED
    BY <2>1 DEF Inv, Types
<1>6. PodsOK'
  BY <1>1, <1>2, <1>3, <1>4 DEF Inv, PodsOK
<1>7. Reasons'
  BY DEF Reasons, Turn
<1>8. ASSUME NEW m \in Names
      PROVE  /\ Turn(m, "sidecars")' => m = n /\ pass'.at = "sidecars"
             /\ Turn(m, "sidecars") => m = n
             /\ ~Turn(m, "wait")
             /\ m \in pass'.todo => m \in pass.todo
  <2>1. ~Turn(m, "wait")
    BY <1>0 DEF Turn
  <2>2. Turn(m, "sidecars") => m = n
    BY TurnUnique
  <2>3. m \in pass'.todo => m \in pass.todo
    OBVIOUS
  <2>4. Turn(m, "sidecars")' => m = n /\ pass'.at = "sidecars"
    <3> SUFFICES ASSUME Turn(m, "sidecars")' PROVE m = n /\ pass'.at = "sidecars"
      OBVIOUS
    <3>1. pass'.at = "sidecars" /\ pass'.todo = pass.todo
      BY DEF Turn
    <3>2. Turn(m, pass.at)
      BY <3>1 DEF Turn
    <3> QED
      BY <3>1, <3>2, TurnUnique
  <2> QED
    BY <2>1, <2>2, <2>3, <2>4
<1>9. n \notin pass.evicted
  BY <1>0, <1>8 DEF Inv, Lists
<1>10. Follows(pass'.pods[n], pods'[n], n \in pass'.evicted, pass'.failed)
  <2>1. Follows(pass.pods[n], pods[n], n \in pass.evicted, pass.failed)
    BY DEF Inv, Lists
  <2>2. CASE hit
    <3>1. pass.pods[n].spec = pods[n].spec => old.spec = new.spec
      <4>1. old.spec \in [Containers -> Requirements] /\ new.spec \in [Containers -> Requirements]
        BY <1>1, <1>2 DEF Pod
      <4> QED
        BY <1>1, <1>2, <4>1
    <3> QED
      BY <1>1, <1>2, <1>3, <1>4, <1>9, <2>1, <2>2, <3>1 DEF Follows
  <2>3. CASE ~hit
    BY <1>1, <1>3, <1>4, <1>9, <2>1, <2>3 DEF Follows
  <2> QED
    BY <2>2, <2>3
<1>11. FixedOK(n)'
  <2>1. CASE hit
    <3>1. Clean(old, pass.rec, Regular)
      BY <1>0, <1>1, <2>1
    <3>2. CASE pass'.at = "loop"
      <4>1. Clean(old, pass.rec, Sidecars)
        BY <1>0, <1>1, <2>1, <3>2
      <4> QED
        BY <1>4, <3>1, <4>1 DEF FixedOK, Clean
    <3>3. CASE pass'.at = "sidecars" /\ pass'.todo = pass.todo
      <4>1. Turn(n, "sidecars")'
        BY <3>3 DEF Turn
      <4> QED
        BY <1>4, <3>1, <4>1 DEF FixedOK, Clean
    <3> QED
      BY <3>2, <3>3
  <2>2. CASE ~hit
    <3> SUFFICES ASSUME n \in pass.fixed
                 PROVE  /\ Clean(old, pass.rec, Regular)
                        /\ Clean(old, pass.rec, Sidecars) \/ n \in pass.half
      BY <1>4, <2>2 DEF FixedOK, Clean
    <3>0. ~Turn(n, "sidecars")
      BY <2>2 DEF Turn
    <3>1. /\ Clean(pass.pods[n], pass.rec, Regular)
          /\ Clean(pass.pods[n], pass.rec, Sidecars) \/ n \in pass.half
      BY <1>9, <3>0 DEF Inv, Lists, FixedOK
    <3>2. /\ Clean(pass.pods[n], pass.rec, Regular \ cs)
          /\ Clean(pass.pods[n], pass.rec, Sidecars \ cs) \/ n \in pass.half
      BY <3>1 DEF Clean
    <3> QED
      BY <1>0, <1>1, <3>2
  <2> QED
    BY <2>1, <2>2
<1>12. Lists'
  <2> SUFFICES ASSUME NEW m \in Names
               PROVE  /\ Follows(pass.pods[m], pods[m], m \in pass.evicted, pass.failed)'
                      /\ FixedOK(m)'
                      /\ (Turn(m, "sidecars") => m \in pass.fixed /\ m \notin pass.evicted)'
                      /\ (m \in pass.evicted => pass.pods[m].phase # "none")'
                      /\ (m \in pass.todo => /\ Considered(pass.pods[m])
                                             /\ m \in pass.evicted => Turn(m, "wait"))'
    BY DEF Lists
  <2>1. CASE m = n
    <3>1. Considered(pass.pods[n])'
      BY <1>0, <1>1, <1>4 DEF Inv, Lists, Considered, countable
    <3>2. pass'.at = "sidecars" => n \in pass'.fixed
      OBVIOUS
    <3> QED
      BY <1>8, <1>9, <1>10, <1>11, <2>1, <3>1, <3>2 DEF Turn
  <2>2. CASE m # n
    <3>1. Follows(pass.pods[m], pods[m], m \in pass.evicted, pass.failed)'
      BY <1>3, <1>4, <2>2 DEF Inv, Lists, Follows
    <3>2. FixedOK(m)'
      BY <1>4, <1>8, <2>2 DEF Inv, Lists, FixedOK, Clean
    <3> QED
      BY <1>4, <1>8, <2>2, <3>1, <3>2 DEF Inv, Lists, Considered
  <2> QED
    BY <2>1, <2>2
<1>13. Waited'
  <2>1. \A m \in pass.evicted : Gone(m)'
    BY <1>0, <1>3, <1>4, <1>8, <1>9 DEF Inv, Waited, Gone, Listed
  <2>2. \A m \in Names : /\ countable(pods'[m]) <=> countable(pods[m])
                         /\ pods'[m].fresh = pods[m].fresh
    BY <1>2, <1>3 DEF countable
  <2> QED
    BY <1>0, <2>1, <2>2 DEF Inv, Waited, Countable
<1> QED
  BY <1>5, <1>6, <1>7, <1>12, <1>13 DEF Inv

\* The regular containers' call.
LEMMA RegularStep ==
    ASSUME Inv, NEW n \in Names, Resized(n) \/ ResizeGone(n) \/ ResizeFails(n)
    PROVE  Inv'
<1> DEFINE old == Patched(pass.pods[n], n, Regular)
           r == [pass EXCEPT !.pods[n] = old]
<1>0. /\ pass \in PassRecords /\ pass.pods \in [Names -> Pod] /\ Turn(n, "loop")
      /\ pass.at = "loop" /\ events \in 0..MaxEvents /\ PodOK(pass.pods[n])
      /\ UNCHANGED <<rec, inPlace, inPlaceOnly, late>>
      /\ Regular \in SUBSET Containers /\ pods \in [Names -> Pod]
  BY DEF Inv, Types, PassRecords, PodsOK, Resized, ResizeGone, ResizeFails, SubmitsResize,
     Resizes, Turn, settings, Regular
<1>1. old \in Pod
  BY <1>0, PatchedPod
<1>2. Rewritten(n) = r
  BY DEF Rewritten
<1> HIDE DEF old
<1>3. /\ r \in PassRecords /\ r.pods = [pass.pods EXCEPT ![n] = old] /\ r.rec = pass.rec
      /\ r.evicted = pass.evicted /\ r.half = pass.half /\ r.fixed = pass.fixed
      /\ r.failed = pass.failed /\ r.todo = pass.todo /\ r.at = pass.at
  BY <1>0, <1>1 DEF PassRecords
<1> HIDE DEF r
<1>4. Clean(pass.pods[n], pass.rec, Regular \ Regular)
  BY DEF Clean
<1>5. CASE Resized(n)
  <2> DEFINE p == [r EXCEPT !.fixed = @ \cup {n}]
  <2>1. /\ p \in PassRecords /\ p.pods = r.pods /\ p.rec = pass.rec
        /\ p.evicted = pass.evicted /\ p.half = pass.half /\ p.fixed = pass.fixed \cup {n}
        /\ p.failed = pass.failed /\ p.todo = pass.todo /\ p.at = pass.at
    BY <1>3 DEF PassRecords
  <2>2. /\ pods' = [pods EXCEPT ![n] = Patched(pods[n], n, Regular)] /\ events' = events
        /\ IF AtTarget(n, Sidecars) THEN Proceed(p, n, FALSE)
           ELSE pass' = [p EXCEPT !.at = "sidecars"]
    BY <1>2, <1>5 DEF Resized
  <2> HIDE DEF p
  <2>3. CASE AtTarget(n, Sidecars)
    <3>0. pass' = [p EXCEPT !.at = "loop", !.todo = @ \ {n}, !.failed = @ \/ FALSE]
      BY <2>2, <2>3 DEF Proceed
    <3>1. /\ pass' \in PassRecords /\ pass'.pods = r.pods /\ pass'.rec = pass.rec
          /\ pass'.evicted = pass.evicted /\ pass'.half = pass.half
          /\ pass'.fixed = pass.fixed \cup {n} /\ pass'.failed = pass.failed
          /\ pass'.todo = pass.todo \ {n} /\ pass'.at = "loop"
      BY <2>1, <3>0 DEF PassRecords
    <3>2. Clean(pass.pods[n], pass.rec, Sidecars \ Regular)
      <4> SUFFICES ASSUME NEW c \in Sidecars
                   PROVE  ~stale(pass.pods[n].spec[c], pass.rec[c], Tolerance)
        BY DEF Clean
      <4>1. valueEqual(pass.pods[n].spec[c], Target(n, c))
        BY <2>3 DEF AtTarget, Listed
      <4>2. PlanFor(pass.pods[n].spec[c], pass.rec[c], Tolerance).change = "none"
        BY <4>1, EqualIsSettled DEF Target, Listed
      <4> QED
        BY <4>2 DEF stale
    <3> QED
      BY <1>0, <1>3, <1>4, <2>2, <3>1, <3>2, RewriteStep DEF old
  <2>4. CASE ~AtTarget(n, Sidecars)
    <3>0. pass' = [p EXCEPT !.at = "sidecars"]
      BY <2>2, <2>4
    <3>1. /\ pass' \in PassRecords /\ pass'.pods = r.pods /\ pass'.rec = pass.rec
          /\ pass'.evicted = pass.evicted /\ pass'.half = pass.half
          /\ pass'.fixed = pass.fixed \cup {n} /\ pass'.failed = pass.failed
          /\ pass'.todo = pass.todo /\ pass'.at = "sidecars"
      BY <2>1, <3>0 DEF PassRecords
    <3> QED
      BY <1>0, <1>3, <1>4, <2>2, <3>1, RewriteStep DEF old
  <2> QED
    BY <2>3, <2>4
<1>6. ASSUME NEW f \in BOOLEAN, Proceed(r, n, f), pods' = pods, events' \in 0..MaxEvents,
             f \/ pods[n].phase = "none"
      PROVE  Inv'
  <2>0. pass' = [r EXCEPT !.at = "loop", !.todo = @ \ {n}, !.failed = @ \/ f]
    BY <1>6 DEF Proceed
  <2>1. /\ pass' \in PassRecords /\ pass'.pods = r.pods /\ pass'.rec = pass.rec
        /\ pass'.evicted = pass.evicted /\ pass'.half = pass.half
        /\ pass'.fixed = pass.fixed /\ pass'.failed = (pass.failed \/ f)
        /\ pass'.todo = pass.todo \ {n} /\ pass'.at = "loop"
    BY <1>3, <2>0 DEF PassRecords
  <2> QED
    BY <1>0, <1>3, <1>6, <2>1, RewriteStep DEF old
<1>7. CASE ResizeGone(n)
  BY <1>0, <1>2, <1>6, <1>7 DEF ResizeGone
<1>8. CASE ResizeFails(n)
  <2>1. events' \in 0..MaxEvents
    BY <1>0, <1>8, EventBound DEF ResizeFails
  <2> QED
    BY <1>2, <1>6, <1>8, <2>1 DEF ResizeFails
<1> QED
  BY <1>5, <1>7, <1>8

LEMMA SidecarsResizedStep ==
    ASSUME Inv, NEW n \in Names, SidecarsResized(n)
    PROVE  Inv'
<1> DEFINE old == Patched(pass.pods[n], n, Sidecars)
           p == [pass EXCEPT !.fixed = @ \cup {n}, !.pods[n] = old]
<1>0. /\ pass \in PassRecords /\ pass.pods \in [Names -> Pod] /\ events \in 0..MaxEvents
      /\ Turn(n, "loop") \/ Turn(n, "sidecars")
      /\ PodOK(pass.pods[n]) /\ UNCHANGED <<rec, inPlace, inPlaceOnly, late, events>>
      /\ Sidecars \in SUBSET Containers /\ pods \in [Names -> Pod]
      /\ pods' = [pods EXCEPT ![n] = Patched(pods[n], n, Sidecars)]
  BY RecycleAssumption DEF Inv, Types, PassRecords, PodsOK, SidecarsResized, SubmitsSidecars,
     Resizes, settings
<1>1. old \in Pod
  BY <1>0, PatchedPod
<1>2. pass' = [p EXCEPT !.at = "loop", !.todo = @ \ {n}, !.failed = @ \/ FALSE]
  BY DEF SidecarsResized, Proceed
<1> HIDE DEF old
<1>3. /\ p \in PassRecords /\ p.pods = [pass.pods EXCEPT ![n] = old] /\ p.rec = pass.rec
      /\ p.evicted = pass.evicted /\ p.half = pass.half /\ p.fixed = pass.fixed \cup {n}
      /\ p.failed = pass.failed /\ p.todo = pass.todo
  BY <1>0, <1>1 DEF PassRecords
<1> HIDE DEF p
<1>4. /\ pass' \in PassRecords /\ pass'.pods = p.pods /\ pass'.rec = pass.rec
      /\ pass'.evicted = pass.evicted /\ pass'.half = pass.half
      /\ pass'.fixed = pass.fixed \cup {n} /\ pass'.failed = pass.failed
      /\ pass'.todo = pass.todo \ {n} /\ pass'.at = "loop"
  BY <1>2, <1>3 DEF PassRecords
<1>5. Clean(pass.pods[n], pass.rec, Regular \ Sidecars)
  <2>1. CASE Turn(n, "sidecars")
    <3>1. Clean(pass.pods[n], pass.rec, Regular)
      BY <2>1 DEF Inv, Lists, FixedOK
    <3> QED
      BY <3>1 DEF Clean
  <2>2. CASE AtTarget(n, Regular)
    <3> SUFFICES ASSUME NEW c \in Regular
                 PROVE  ~stale(pass.pods[n].spec[c], pass.rec[c], Tolerance)
      BY DEF Clean
    <3>1. valueEqual(pass.pods[n].spec[c], Target(n, c))
      BY <2>2 DEF AtTarget, Listed
    <3>2. PlanFor(pass.pods[n].spec[c], pass.rec[c], Tolerance).change = "none"
      BY <3>1, EqualIsSettled DEF Target, Listed
    <3> QED
      BY <3>2 DEF stale
  <2> QED
    BY <2>1, <2>2 DEF SidecarsResized, SubmitsSidecars
<1>6. Clean(pass.pods[n], pass.rec, Sidecars \ Sidecars)
  BY DEF Clean
<1> QED
  BY <1>0, <1>3, <1>4, <1>5, <1>6, RewriteStep DEF old

LEMMA EvictedStep ==
    ASSUME Inv, NEW n \in Names, Evicted(n)
    PROVE  Inv'
<1> DEFINE pod == [pods[n] EXCEPT !.deleting = TRUE]
<1>0. /\ pods \in [Names -> Pod] /\ pass \in PassRecords /\ pods[n] \in Pod
      /\ pass.at \in {"loop", "evict"} /\ Turn(n, pass.at) /\ pods[n].phase # "none"
      /\ UNCHANGED <<rec, inPlace, inPlaceOnly, late, events>>
      /\ PodOK(pods[n]) /\ pass.evicted \subseteq Names
  BY DEF Inv, Types, PassRecords, PodsOK, Evicted, Evictable, Evicts, Turn, settings
<1>1. /\ pod \in Pod /\ pod.uid = pods[n].uid /\ pod.spec = pods[n].spec
      /\ pod.phase = pods[n].phase /\ pod.deleting = TRUE /\ pod.fresh = pods[n].fresh
      /\ pod.ready = pods[n].ready
  BY <1>0 DEF Pod
<1>2. /\ pods' = [pods EXCEPT ![n] = pod]
      /\ pass' = [pass EXCEPT !.at = "wait", !.fixed = @ \cup {n}, !.evicted = @ \cup {n}]
  BY <1>0 DEF Evicted
<1> HIDE DEF pod
<1>3. /\ pass' \in PassRecords /\ pass'.pods = pass.pods /\ pass'.half = pass.half
      /\ pass'.todo = pass.todo /\ pass'.fixed = pass.fixed \cup {n}
      /\ pass'.evicted = pass.evicted \cup {n} /\ pass'.rec = pass.rec /\ pass'.at = "wait"
      /\ pass'.failed = pass.failed
  BY <1>0, <1>2 DEF PassRecords
<1>4. \A m \in Names : pods'[m] = IF m = n THEN pod ELSE pods[m]
  BY <1>0, <1>2
<1>5. Types'
  BY <1>0, <1>1, <1>2, <1>3 DEF Inv, Types
<1>6. PodsOK'
  <2>1. PodOK(pod)
    BY <1>0, <1>1 DEF PodOK
  <2> QED
    BY <1>3, <1>4, <2>1 DEF Inv, PodsOK
<1>7. Reasons'
  BY <1>3 DEF Reasons, Turn
<1>8. \A m \in Names : /\ ~Turn(m, "wait") /\ ~Turn(m, "sidecars") /\ ~Turn(m, "sidecars")'
                       /\ m \in pass.todo => m \notin pass.evicted
  BY <1>0, <1>3 DEF Inv, Lists, Turn
<1>9. Turn(n, "wait")' /\ n \in pass.todo
  BY <1>0, <1>3 DEF Turn
<1>10. Lists'
  <2> SUFFICES ASSUME NEW m \in Names
               PROVE  /\ Follows(pass.pods[m], pods[m], m \in pass.evicted, pass.failed)'
                      /\ FixedOK(m)'
                      /\ (Turn(m, "sidecars") => m \in pass.fixed /\ m \notin pass.evicted)'
                      /\ (m \in pass.evicted => pass.pods[m].phase # "none")'
                      /\ (m \in pass.todo => /\ Considered(pass.pods[m])
                                             /\ m \in pass.evicted => Turn(m, "wait"))'
    BY DEF Lists
  <2>0. Considered(pass.pods[m])' <=> Considered(pass.pods[m])
    BY <1>0, <1>3 DEF Considered
  <2>1. CASE m = n
    <3>1. Follows(pass.pods[n], pods[n], n \in pass.evicted, pass.failed)
      BY DEF Inv, Lists
    <3>2. Follows(pass.pods[n], pod, TRUE, pass.failed)
      BY <1>0, <1>1, <3>1 DEF Follows
    <3>3. Considered(pass.pods[n]) /\ pass.pods[n].phase # "none"
      BY <1>9 DEF Inv, Lists, Considered, countable
    <3>4. FixedOK(n)'
      BY <1>3 DEF FixedOK
    <3> QED
      BY <1>3, <1>4, <1>8, <1>9, <2>0, <2>1, <3>2, <3>3, <3>4 DEF Follows
  <2>2. CASE m # n
    <3>1. Follows(pass.pods[m], pods[m], m \in pass.evicted, pass.failed)'
      BY <1>3, <1>4, <2>2 DEF Inv, Lists, Follows
    <3>2. FixedOK(m)'
      BY <1>3, <1>8, <2>2 DEF Inv, Lists, FixedOK, Clean
    <3> QED
      BY <1>3, <1>8, <2>0, <2>2, <3>1, <3>2 DEF Inv, Lists
  <2> QED
    BY <2>1, <2>2
<1>11. Waited'
  <2>1. ASSUME NEW m \in pass.evicted PROVE Gone(m)'
    BY <1>0, <1>1, <1>3, <1>4, <1>8 DEF Inv, Waited, Gone, Listed
  <2> QED
    BY <1>3, <1>9, <2>1 DEF Waited
<1> QED
  BY <1>5, <1>6, <1>7, <1>10, <1>11 DEF Inv

LEMMA NextInv == Inv /\ [Next]_vars => Inv'
<1> SUFFICES ASSUME Inv, [Next]_vars PROVE Inv'
  OBVIOUS
<1>1. CASE UNCHANGED vars
  BY <1>1, NoStep DEF vars, Inv, Types
<1>2. CASE ApplyNothing \/ Interrupted \/ Recommend
  BY <1>2, QuietStep
<1>3. CASE Patcher
  BY <1>3, QuietStep, StartStep, RegularStep, SidecarsResizedStep, EvictedStep
     DEF Patcher, Decide, Evict, Wait
<1>4. CASE Settle
  BY <1>4, CreateStep, RemoveStep, ClusterStep DEF Settle
<1>5. CASE \E n \in Names : Fault(n) \/ Refuse(n) \/ Drain(n)
  BY <1>5, QuietStep, RegularStep, ClusterStep DEF Fault
<1> QED
  BY <1>1, <1>2, <1>3, <1>4, <1>5 DEF Next

\* The invariant of the pods and of the pass.
THEOREM RecycleInvariant == Spec => []Inv
  BY InitInv, NextInv, PTL DEF Spec

\* Every variable keeps its type, and whatever is recommended, withheld and
\* resized, no container is given a request above its limit (applyTo).
THEOREM TypesHold == Spec => []TypeOK
<1>1. Inv => TypeOK
  BY DEF Inv, Types, PodsOK, PodOK, PassRecords, TypeOK
<1> QED
  BY <1>1, RecycleInvariant, PTL

-----------------------------------------------------------------------------
(* What a step may do *)

\* The steps that start a wait, and those that end a pass without error.
LEMMA PassMoves ==
    ASSUME Inv, [Next]_vars
    PROVE  /\ pass'.at = "wait" /\ pass.at # "wait" => \E n \in Names : Evicted(n)
           /\ pass'.at = "idle" /\ pass.at # "idle" => End \/ result'.kind # "done"
<1>0. pass \in PassRecords
  BY DEF Inv, Types
<1> DEFINE F == [pass EXCEPT !.failed = TRUE]
<1>1. ASSUME Ends(F) PROVE pass'.at = "idle" /\ result'.kind # "done"
  <2>1. F.failed
    BY <1>0 DEF PassRecords
  <2> HIDE DEF F
  <2> QED
    BY <1>1, <2>1, IdleIsPass DEF Ends
<1>2. ASSUME NEW p, NEW n, NEW f, Proceed(p, n, f), p \in PassRecords PROVE pass'.at = "loop"
  BY <1>2 DEF Proceed, PassRecords
<1>3. CASE UNCHANGED pass
  BY <1>3
<1>4. CASE Start
  BY <1>4 DEF Start, Idle
<1>5. CASE End
  BY <1>5, IdleIsPass DEF End, Ends
<1>6. CASE Interrupted
  BY <1>1, <1>6 DEF Interrupted
<1>7. ASSUME NEW n \in Names,
             \/ LeaveAlone(n) \/ EvictionPinned(n) \/ EvictionGone(n) \/ EvictionBlocked(n)
             \/ WaitOver(n)
      PROVE  pass'.at = "loop"
  BY <1>0, <1>2, <1>7 DEF LeaveAlone, EvictionPinned, EvictionGone, EvictionBlocked, WaitOver
<1>8. ASSUME NEW n \in Names, Resized(n) \/ ResizeGone(n) \/ ResizeFails(n)
      PROVE  pass'.at \in {"loop", "sidecars"}
  <2>1. pods \in [Names -> Pod] /\ pass.pods \in [Names -> Pod] /\ PodOK(pass.pods[n])
        /\ Regular \in SUBSET Containers
    BY <1>0 DEF Inv, Types, PodsOK, PassRecords, Regular
  <2>2. Patched(pass.pods[n], n, Regular) \in Pod
    BY <2>1, PatchedPod
  <2>3. Rewritten(n) \in PassRecords /\ [Rewritten(n) EXCEPT !.fixed = @ \cup {n}] \in PassRecords
    BY <1>0, <2>2 DEF Rewritten, PassRecords
  <2>4. CASE Proceed(Rewritten(n), n, TRUE) \/ Proceed(Rewritten(n), n, FALSE)
    BY <1>2, <2>3, <2>4
  <2>5. CASE Proceed([Rewritten(n) EXCEPT !.fixed = @ \cup {n}], n, FALSE)
    BY <1>2, <2>3, <2>5
  <2>6. CASE pass' = [[Rewritten(n) EXCEPT !.fixed = @ \cup {n}] EXCEPT !.at = "sidecars"]
    BY <2>3, <2>6 DEF PassRecords
  <2> QED
    BY <1>8, <2>4, <2>5, <2>6 DEF Resized, ResizeGone, ResizeFails
<1>9. ASSUME NEW n \in Names, SidecarsResized(n) \/ SidecarsNotAccepted(n)
      PROVE  pass'.at = "loop"
  BY <1>0, <1>9 DEF SidecarsResized, SidecarsNotAccepted, Proceed, PassRecords
<1>10. ASSUME NEW n \in Names, ResizeInvalid(n) PROVE pass'.at \in {"loop", "evict"}
  <2>1. CASE Proceed(pass, n, FALSE)
    BY <1>0, <1>2, <2>1
  <2>2. CASE pass' = [pass EXCEPT !.at = "evict"]
    BY <1>0, <2>2 DEF PassRecords
  <2> QED
    BY <1>10, <2>1, <2>2 DEF ResizeInvalid
<1>11. ASSUME NEW n \in Names, EvictionHalted(n) \/ WaitAborted(n) \/ WaitTimesOut(n)
       PROVE  Ends(F)
  BY <1>11 DEF EvictionHalted, WaitAborted, WaitTimesOut
<1>12. ASSUME NEW n \in Names, Evicted(n) PROVE pass'.at = "wait"
  BY <1>0, <1>12 DEF Evicted, PassRecords
<1>13. ASSUME ApplyNothing \/ Recommend \/ Settle \/ (\E n \in Names : Refuse(n) \/ Drain(n))
              \/ UNCHANGED vars
       PROVE  UNCHANGED pass
  BY <1>13 DEF ApplyNothing, Recommend, Settle, Create, Remove, Schedule, BecomeReady, Crash,
     Recover, Enact, Refuse, Drain, vars
<1> HIDE DEF F
<1> QED
  BY <1>1, <1>3, <1>4, <1>5, <1>6, <1>7, <1>8, <1>9, <1>10, <1>11, <1>12, <1>13
     DEF Next, Patcher, Decide, Evict, Wait, Fault

\* The pod being evicted is the one at hand.
LEMMA EvictingEvicts ==
    ASSUME Inv, [Next]_vars, NEW n \in Names, Evicting(n)
    PROVE  Evicts(n)
<1>1. PICK m \in Names : Evicted(m)
  BY PassMoves DEF Evicting
<1>2. Evicts(m)
  BY <1>1 DEF Evicted, Evictable
<1>3. Turn(m, "evict") \/ Turn(m, "loop")
  BY <1>2 DEF Evicts
<1>4. m = n
  BY <1>3, TurnUnique DEF Evicting
<1> QED
  BY <1>2, <1>4

\* A pod is evicted only for requests, stale, staged and not enacted or not
\* reported, and never of an in-place-only kind, for any pods, containers and
\* recommendations (resizePodInPlaceWith, onUnsatisfiable, stagedRequests).
THEOREM EvictionsHaveReason == Spec => EvictsOnlyForRequests
<1>1. ASSUME Inv, [Next]_vars
      PROVE  [\A n \in Names : Evicting(n) =>
                 /\ ~inPlaceOnly
                 /\ \/ Stale(Listed(n), pass.rec)
                    \/ \E c \in Containers :
                          \/ c \in Listed(n).hidden
                          \/ ~requestsEqual(Listed(n).spec[c], Listed(n).enacted[c])]_vars
  <2>1. \A n \in Names : Evicting(n) => Reason(n)
    BY <1>1, EvictingEvicts, EvictsReason
  <2> QED
    BY <2>1 DEF Reason
<1> QED
  BY <1>1, RecycleInvariant, PTL DEF Spec, EvictsOnlyForRequests

\* A pass that evicts again has seen off every pod it evicted before, and no
\* replacement that was there when its last wait ended is still coming, for
\* every kind of workload, whichever of the pod's end and its replacement's
\* creation comes first (waitForReplacement).
THEOREM EvictsOneAtATime == Spec => OneAtATime
<1>1. ASSUME Inv, [Next]_vars
      PROVE  [\A n \in Names : Evicting(n) /\ pass.evicted # {} =>
                 /\ \A m \in pass.evicted : Gone(m)
                 /\ \A m \in Countable(pods) : pods[m].fresh => m \in late]_vars
  BY <1>1 DEF Inv, Waited, Evicting, Turn
<1> QED
  BY <1>1, RecycleInvariant, PTL DEF Spec, OneAtATime

\* A resized container is settled: the next plan for it changes nothing, for
\* every tolerance and recommendation (planFor, containerChange).
THEOREM ResizesSettle == Spec => ResizeSettles
<1>1. ASSUME Inv, [Next]_vars, NEW n \in Names, NEW c \in Containers,
             pods'[n].spec[c] # pods[n].spec[c],
             pods'[n].uid = pods[n].uid, pods'[n].phase # "none"
      PROVE  PlanFor(pods'[n].spec[c], pass.rec[c], Tolerance).change = "none"
  <2>0. pods \in [Names -> Pod] /\ pods[n].uid \in Nat /\ PodOK(pods[n])
        /\ Regular \in SUBSET Containers /\ Sidecars \in SUBSET Containers
    BY <1>1, RecycleAssumption DEF Inv, Types, Pod, PodsOK, Regular
  <2>1. PICK m \in Names : \/ Resized(m) \/ SidecarsResized(m) \/ Evicted(m) \/ Create(m)
                           \/ Remove(m) \/ Drain(m) \/ Schedule(m) \/ BecomeReady(m)
                           \/ Crash(m) \/ Recover(m) \/ Enact(m) \/ Refuse(m)
    BY <1>1 DEF Next, vars, ApplyNothing, Patcher, Interrupted, Recommend, Settle, Fault,
       Start, End, Decide, Evict, Wait, LeaveAlone, ResizeInvalid, ResizeGone,
       ResizeFails, SidecarsNotAccepted, EvictionPinned, EvictionHalted, EvictionGone,
       EvictionBlocked, WaitOver, WaitAborted, WaitTimesOut
  <2>2. m = n
    <3>1. pods'[n] # pods[n]
      BY <1>1
    <3> QED
      BY <2>0, <2>1, <3>1 DEF Resized, SidecarsResized, Evicted, Create, Remove, Drain,
         Schedule, BecomeReady, Crash, Recover, Enact, Refuse
  <2>3. CASE Resized(n) \/ SidecarsResized(n)
    <3>1. PICK cs \in {Regular, Sidecars} : pods' = [pods EXCEPT ![n] = Patched(pods[n], n, cs)]
      BY <2>3 DEF Resized, SidecarsResized
    <3> DEFINE new == Patched(pods[n], n, cs)
    <3>2. /\ new.spec[c] = IF c \in cs THEN Target(n, c) ELSE pods[n].spec[c]
          /\ c \in cs => PlanFor(new.spec[c], pass.rec[c], Tolerance).change = "none"
      BY <1>1, <2>0, PatchedPod
    <3>3. pods'[n] = new
      BY <2>0, <3>1
    <3> HIDE DEF new
    <3> QED
      BY <1>1, <3>2, <3>3
  <2>4. CASE Create(n)
    <3> DEFINE u == IF StatefulSet THEN pods[n].uid + 1 ELSE 1
    <3>1. \E s : pods'[n] = [Nobody EXCEPT !.uid = u, !.phase = "Pending", !.fresh = TRUE,
                                           !.spec = s]
      BY <2>0, <2>4 DEF Create
    <3>2. pods'[n].uid = u
      BY <3>1 DEF Nobody
    <3>3. pods[n].phase = "none"
      BY <2>4 DEF Create, Free
    <3>4. u # pods[n].uid
      BY <2>0, <3>3 DEF PodOK
    <3> QED
      BY <1>1, <3>2, <3>4
  <2>5. CASE Remove(n)
    <3>1. pods'[n].phase = "none"
      BY <2>0, <2>5 DEF Remove, Nobody
    <3> QED
      BY <1>1, <3>1
  <2>6. CASE \/ Evicted(n) \/ Drain(n) \/ Schedule(n) \/ BecomeReady(n) \/ Crash(n)
             \/ Recover(n) \/ Enact(n) \/ Refuse(n)
    <3>1. pods'[n].spec = pods[n].spec
      <4>1. CASE Evicted(n) \/ Drain(n) \/ Recover(n)
        BY <2>0, <4>1 DEF Evicted, Drain, Recover, Pod
      <4>2. CASE Schedule(n) \/ BecomeReady(n)
        BY <2>0, <4>2 DEF Schedule, BecomeReady, Pod
      <4>3. CASE Crash(n) \/ Enact(n)
        BY <2>0, <4>3 DEF Crash, Enact, Pod
      <4>4. CASE Refuse(n)
        BY <2>0, <4>4 DEF Refuse, Pod
      <4> QED
        BY <2>6, <4>1, <4>2, <4>3, <4>4
    <3> QED
      BY <1>1, <3>1
  <2> QED
    BY <2>1, <2>2, <2>3, <2>4, <2>5, <2>6
<1>2. ASSUME Inv, [Next]_vars
      PROVE  [\A n \in Names, c \in Containers :
                 pods'[n].spec[c] # pods[n].spec[c] /\ pods'[n].uid = pods[n].uid
                 /\ pods'[n].phase # "none" =>
                 PlanFor(pods'[n].spec[c], pass.rec[c], Tolerance).change = "none"]_vars
  BY <1>1, <1>2
<1> QED
  BY <1>2, RecycleInvariant, PTL DEF Spec, ResizeSettles

\* A pass that reports no stale pod leaves none of those it listed stale, for
\* any pods, whoever replaces or deletes them meanwhile, but for the sidecars
\* of a pod whose regular containers it resized (countPods, applySidecarResize).
THEOREM CountsAreTrue == Spec => CountedIsTrue
<1>1. ASSUME Inv, [Next]_vars, pass.at # "idle", pass'.at = "idle",
             result'.kind = "done", result'.stale = {},
             NEW n \in Countable(pass.pods) \cap Countable(pods), NEW c \in Containers,
             pods[n].uid = pass.pods[n].uid, stale(pods[n].spec[c], pass.rec[c], Tolerance)
      PROVE  n \in pass.half /\ c \in Sidecars
  <2>0. pass \in PassRecords /\ n \in Names /\ countable(pods[n]) /\ countable(pass.pods[n])
    BY <1>1 DEF Inv, Types, Countable
  <2>1. End
    BY <1>1, PassMoves
  <2>2. ~pass.failed /\ pass.at = "loop"
    BY <1>1, <2>1 DEF End, Ends
  <2>3. \A m \in Countable(pass.pods) \ pass.fixed : ~Stale(pass.pods[m], pass.rec)
    BY <1>1, <2>1 DEF End, Ends
  <2>4. /\ Follows(pass.pods[n], pods[n], n \in pass.evicted, pass.failed)
        /\ FixedOK(n)
    BY <1>1, <2>0 DEF Inv, Lists
  <2>5. pods[n].spec = pass.pods[n].spec /\ n \notin pass.evicted
    BY <1>1, <2>0, <2>2, <2>4 DEF Follows, countable
  <2>6. Stale(pass.pods[n], pass.rec)
    BY <1>1, <2>5 DEF Stale
  <2>7. n \in pass.fixed
    BY <2>0, <2>3, <2>6
  <2>8. ~Turn(n, "sidecars")
    BY <2>2 DEF Turn
  <2> QED
    BY <1>1, <2>4, <2>5, <2>7, <2>8 DEF FixedOK, Clean, Regular
<1>2. ASSUME Inv, [Next]_vars
      PROVE  [pass.at # "idle" /\ pass'.at = "idle" /\ result'.kind = "done"
                 /\ result'.stale = {} =>
                 \A n \in Countable(pass.pods) \cap Countable(pods), c \in Containers :
                    pods[n].uid = pass.pods[n].uid
                    /\ stale(pods[n].spec[c], pass.rec[c], Tolerance) =>
                    n \in pass.half /\ c \in Sidecars]_vars
  BY <1>1, <1>2
<1> QED
  BY <1>2, RecycleInvariant, PTL DEF Spec, CountedIsTrue
=============================================================================
