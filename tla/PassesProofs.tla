---------------------------- MODULE PassesProofs ----------------------------
(***************************************************************************)
(* The safety of Passes for every set of Policies, identities and members, *)
(* every list of errors and every choice of the delays.                    *)
(*                                                                         *)
(* The argument: what the ledger holds of a member changes only in a step  *)
(* that settles a pass or forgets a Policy, and both leave an entry only   *)
(* where a claim remains.  A retry's time is kept by its Policy, which is  *)
(* in the queue, in a pass that ends by asking for a requeue, or asleep no *)
(* longer than until then.                                                 *)
(***************************************************************************)
EXTENDS Series, WellFoundedInduction, TLAPS

-----------------------------------------------------------------------------
(* Lemmas about the ledger's operators *)

\* A set of natural numbers has a least element.
LEMMA NatLeast ==
    ASSUME NEW T, T \subseteq Nat, T # {}
    PROVE  \E x \in T : \A y \in T : x <= y
<1> DEFINE R == OpToRel(<, Nat)
<1>1. IsWellFoundedOn(R, Nat)
  BY NatLessThanWellFounded
<1>2. PICK x \in T : \A y \in T : <<y, x>> \notin R
  <2> HIDE DEF R
  <2> QED
    BY <1>1, WFMin
<1>3. \A y \in T : ~(y < x)
  BY <1>2 DEF OpToRel
<1> QED
  BY <1>3

\* The delay of a retry is within its bounds, however many failures came
\* before it (failLocked).
LEMMA RetryDelayBounds ==
    ASSUME NEW n \in Nat \ {0}
    PROVE  /\ RetryDelay(n) \in Nat
           /\ BaseRetryDelay <= RetryDelay(n) /\ RetryDelay(n) <= MaxRetryDelay
<1> DEFINE k == Least(n - 1, MaxShift)
<1>1. k \in 0..MaxShift
  BY ShiftAssumption DEF Least
<1>2. /\ ShiftLeft(BaseRetryDelay, k) \in Int
      /\ BaseRetryDelay <= ShiftLeft(BaseRetryDelay, k)
  BY <1>1, ShiftAssumption
<1> HIDE DEF k
<1>3. RetryDelay(n) = Least(ShiftLeft(BaseRetryDelay, k), MaxRetryDelay)
  BY DEF RetryDelay, k
<1> QED
  BY <1>2, <1>3, DelaysAssumption DEF Least

\* What one failure leaves is a failure, due after its delay when transient.
LEMMA FailureOfType ==
    ASSUME NEW prev \in Failures, NEW step \in Steps, NEW err, NEW t \in Nat
    PROVE  /\ FailureOf(prev, step, err, t) \in Failures
           /\ ~FailureOf(prev, step, err, t).permanent =>
                 FailureOf(prev, step, err, t).due
                   \in (t + BaseRetryDelay)..(t + MaxRetryDelay)
           /\ FailureOf(prev, step, err, t) # NoFailure
<1>a. NoFailure.step \notin Steps
  <2>1. NoFailure.step = ""
    BY DEF NoFailure
  <2> QED
    BY <2>1, KeysAssumption, Zenon
<1>0. prev.attempts \in Nat
  <2>1. CASE prev = NoFailure
    BY <2>1 DEF NoFailure
  <2>2. CASE prev \in [step : Steps, permanent : {TRUE}, attempts : {0}, due : {0}]
    BY <2>2
  <2>3. CASE prev \in [step : Steps, permanent : {FALSE}, attempts : Nat \ {0},
                        due : Nat]
    BY <2>3
  <2> QED
    BY <2>1, <2>2, <2>3 DEF Failures
<1>1. CASE permanentError(err)
  <2>1. FailureOf(prev, step, err, t)
          = [step |-> step, permanent |-> TRUE, attempts |-> 0, due |-> 0]
    BY <1>1 DEF FailureOf, NoFailure
  <2>2. FailureOf(prev, step, err, t).step \in Steps
    BY <2>1
  <2>3. FailureOf(prev, step, err, t) \in Failures
    BY <2>1 DEF Failures
  <2>4. FailureOf(prev, step, err, t).permanent
    BY <2>1
  <2> QED
    BY <1>a, <2>2, <2>3, <2>4
<1>2. CASE ~permanentError(err)
  <2> DEFINE n == prev.attempts + 1
  <2>1. n \in Nat \ {0}
    BY <1>0
  <2>2. /\ RetryDelay(n) \in Nat
        /\ BaseRetryDelay <= RetryDelay(n) /\ RetryDelay(n) <= MaxRetryDelay
    BY <2>1, RetryDelayBounds
  <2>3. FailureOf(prev, step, err, t)
          = [step |-> step, permanent |-> FALSE, attempts |-> n,
             due |-> t + RetryDelay(n)]
    BY <1>2 DEF FailureOf
  <2>4. t + RetryDelay(n) \in (t + BaseRetryDelay)..(t + MaxRetryDelay)
    BY <2>2, DelaysAssumption
  <2>5. t + RetryDelay(n) \in Nat
    BY <2>2
  <2> HIDE DEF n
  <2>6. FailureOf(prev, step, err, t).step \in Steps
    BY <2>3
  <2>7. FailureOf(prev, step, err, t) \in Failures
    BY <2>1, <2>3, <2>5 DEF Failures
  <2>8. FailureOf(prev, step, err, t).due = t + RetryDelay(n)
    BY <2>3
  <2> QED
    BY <1>a, <2>4, <2>6, <2>7, <2>8
<1> QED
  BY <1>1, <1>2

\* The results of one pass.
AllResults == Ran \cup {Failed(s, e) : s \in Steps, e \in Errors}

\* Recording a result keeps an entry an entry; it is Blocked afterwards
\* exactly when the member failed.
LEMMA RecordedType ==
    ASSUME NEW e \in Entries, NEW res \in AllResults, NEW t \in Nat
    PROVE  /\ Recorded(e, res, t) \in Entries
           /\ res.kind # "Failed" => ~Blocked(Recorded(e, res, t))
           /\ Transient(Recorded(e, res, t)) =>
                 Recorded(e, res, t).failure.due
                   \in (t + BaseRetryDelay)..(t + MaxRetryDelay)
<1>0. e.failure \in Failures /\ e.measured \in BOOLEAN /\ NoFailure \in Failures
  BY DEF Entries, Failures
<1>1. CASE res \in Ran
  <2>1. res.kind \in {"Done", "Idle", "Uncounted"}
    <3>1. CASE res = Result("Done")
      BY <3>1 DEF Result
    <3>2. CASE res = Result("Idle")
      BY <3>2 DEF Result
    <3>3. CASE res = Result("Uncounted")
      BY <3>3 DEF Result
    <3> QED
      BY <1>1, <3>1, <3>2, <3>3 DEF Ran
  <2>2. Recorded(e, res, t) \in Entries /\ Recorded(e, res, t).failure = NoFailure
    <3>1. CASE res.kind = "Done"
      BY <1>0, <3>1 DEF Recorded, Entries, Empty
    <3>2. CASE res.kind = "Idle"
      BY <1>0, <3>2 DEF Recorded, Entries, Empty
    <3>3. CASE res.kind = "Uncounted"
      BY <1>0, <3>3 DEF Recorded, Entries
    <3> QED
      BY <2>1, <3>1, <3>2, <3>3
  <2> QED
    BY <2>2 DEF Blocked, Transient
<1>2. ASSUME NEW s \in Steps, NEW err \in Errors, res = Failed(s, err)
      PROVE  /\ Recorded(e, res, t) \in Entries
             /\ res.kind = "Failed"
             /\ Transient(Recorded(e, res, t)) =>
                   Recorded(e, res, t).failure.due
                     \in (t + BaseRetryDelay)..(t + MaxRetryDelay)
  <2>1. res.kind = "Failed" /\ res.step = s /\ res.err = err
    BY <1>2 DEF Failed
  <2> DEFINE f == FailureOf(e.failure, s, err, t)
  <2>2. Recorded(e, res, t) = [e EXCEPT !.failure = f]
    BY <2>1 DEF Recorded
  <2>3. f \in Failures /\ (~f.permanent => f.due \in (t + BaseRetryDelay)..(t + MaxRetryDelay))
    BY <1>0, FailureOfType
  <2> HIDE DEF f
  <2>4. Recorded(e, res, t) = [measured |-> e.measured, failure |-> f]
    BY <2>2 DEF Entries
  <2> QED
    BY <1>0, <2>1, <2>3, <2>4 DEF Entries, Transient
<1> QED
  BY <1>1, <1>2 DEF AllResults

\* Forgetting empties an entry or leaves it as it is, and keeps what is claimed.
LEMMA ForgottenType ==
    ASSUME NEW ms \in [Members -> Entries], NEW before,
           NEW cs \in [Policies -> SUBSET Members], NEW p \in Policies
    PROVE  /\ Forgotten(ms, before, cs, p) \in [Members -> Entries]
           /\ \A m \in Members :
                 \/ Forgotten(ms, before, cs, p)[m] = ms[m]
                 \/ /\ Forgotten(ms, before, cs, p)[m] = Empty
                    /\ \A q \in Policies : m \notin cs[q]
           /\ \A m \in Members :
                 m \in before /\ (\A q \in Policies : m \notin cs[q]) =>
                    Forgotten(ms, before, cs, p)[m] = Empty
<1>1. Empty \in Entries
  BY DEF Empty, Entries, Failures
<1> HIDE DEF Empty
<1> QED
  BY <1>1 DEF Forgotten

\* An empty entry is not Blocked.
LEMMA EmptyIsHealthy == Empty \in Entries /\ ~Blocked(Empty) /\ ~Transient(Empty)
  BY DEF Empty, Entries, Failures, Blocked, Transient

\* The due time of a transient failure is a time.
LEMMA TransientDue ==
    ASSUME NEW e \in Entries, Transient(e)
    PROVE  e.failure.due \in Nat /\ e.failure.step \in Steps
<1>1. e.failure \in Failures /\ e.failure # NoFailure /\ ~e.failure.permanent
  BY DEF Entries, Transient, Blocked
<1>2. CASE e.failure \in [step : Steps, permanent : {TRUE}, attempts : {0}, due : {0}]
  BY <1>1, <1>2
<1>3. CASE e.failure \in [step : Steps, permanent : {FALSE},
                          attempts : Nat \ {0}, due : Nat]
  BY <1>3
<1> QED
  BY <1>1, <1>2, <1>3 DEF Failures

\* The step of a Blocked entry.
LEMMA BlockedStep ==
    ASSUME NEW e \in Entries, Blocked(e)
    PROVE  e.failure.step \in Steps
<1>1. e.failure \in Failures /\ e.failure # NoFailure
  BY DEF Entries, Blocked
<1>2. CASE e.failure \in [step : Steps, permanent : {TRUE}, attempts : {0}, due : {0}]
  BY <1>2
<1>3. CASE e.failure \in [step : Steps, permanent : {FALSE},
                          attempts : Nat \ {0}, due : Nat]
  BY <1>3
<1> QED
  BY <1>1, <1>2, <1>3 DEF Failures

\* healthLocked names a step, that of the Blocked member first in key order,
\* exactly when there is one.
LEMMA BlockedOnType ==
    ASSUME NEW ms \in [Members -> Entries],
           NEW cs \in [Policies -> SUBSET Members], NEW i \in Identities
    PROVE  BlockedOn(ms, cs, i) \in Steps \cup {""}
<1> DEFINE failing == {m \in ClaimedFor(cs, i) : Blocked(ms[m])}
           first == CHOOSE m \in failing : \A n \in failing : Rank[m] <= Rank[n]
<1>1. failing \subseteq Members
  BY DEF ClaimedFor
<1>2. CASE failing = {}
  BY <1>2 DEF BlockedOn
<1>3. CASE failing # {}
  <2> DEFINE T == {Rank[m] : m \in failing}
  <2>1. T \subseteq Nat /\ T # {}
    <3>1. Rank \in [Members -> Nat]
      BY KeysAssumption
    <3> HIDE DEF failing
    <3> QED
      BY <1>1, <1>3, <3>1
  <2>2. PICK x \in T : \A y \in T : x <= y
    BY <2>1, NatLeast
  <2>3. PICK m \in failing : Rank[m] = x
    BY <2>2
  <2>4. \A n \in failing : Rank[m] <= Rank[n]
    BY <2>2, <2>3
  <2>5. first \in failing
    <3> HIDE DEF failing
    <3> QED
      BY <2>3, <2>4
  <2>6. BlockedOn(ms, cs, i) = ms[first].failure.step
    BY <1>3 DEF BlockedOn
  <2>7. ms[first] \in Entries /\ Blocked(ms[first])
    BY <1>1, <2>5
  <2> QED
    BY <2>6, <2>7, BlockedStep
<1> QED
  BY <1>2, <1>3

\* RequeueAfter waits some time, no longer than to the floor or any retry of
\* the Policy's, whichever is later.
LEMMA RequeueAfterBounds ==
    ASSUME NEW ms \in [Members -> Entries],
           NEW cs \in [Policies -> SUBSET Members], NEW p \in Policies,
           NEW floor \in Nat \ {0}, NEW t \in Nat
    PROVE  /\ requeueAfter(ms, cs, p, floor, t) \in Nat \ {0}
           /\ \A m \in cs[p] : Transient(ms[m]) =>
                 t + requeueAfter(ms, cs, p, floor, t)
                   <= Greatest(ms[m].failure.due, t + floor)
<1> DEFINE due == Retries(ms, cs, p)
           earliest == CHOOSE d \in due : \A e \in due : d <= e
<1>1. due \subseteq Nat
  BY TransientDue DEF Retries
<1>2. \A m \in cs[p] : Transient(ms[m]) => ms[m].failure.due \in due
  BY DEF Retries
<1>3. CASE due = {}
  BY <1>2, <1>3, DelaysAssumption DEF requeueAfter
<1>4. CASE due # {}
  <2>1. \E d \in due : \A e \in due : d <= e
    <3> HIDE DEF due
    <3> QED
      BY <1>1, <1>4, NatLeast
  <2>2. earliest \in due /\ \A e \in due : earliest <= e
    <3> HIDE DEF due
    <3> QED
      BY <2>1
  <2>3. requeueAfter(ms, cs, p, floor, t)
          = Least(ReconcileInterval, Greatest(earliest - t, floor))
    BY <1>4 DEF requeueAfter
  <2> HIDE DEF due, earliest
  <2>4. earliest \in Nat
    BY <1>1, <2>2
  <2>5. ASSUME NEW m \in cs[p], Transient(ms[m])
        PROVE  t + requeueAfter(ms, cs, p, floor, t)
                 <= Greatest(ms[m].failure.due, t + floor)
    <3>1. ms[m].failure.due \in Nat /\ earliest <= ms[m].failure.due
      BY <1>1, <1>2, <2>2, <2>5
    <3> QED
      BY <2>3, <2>4, <3>1, DelaysAssumption DEF Least, Greatest
  <2>6. requeueAfter(ms, cs, p, floor, t) \in Nat \ {0}
    BY <2>3, <2>4, DelaysAssumption DEF Least, Greatest
  <2> QED
    BY <2>5, <2>6
<1> QED
  BY <1>3, <1>4

-----------------------------------------------------------------------------
(* The inductive invariant *)

\* The fields of a pass, and what they may hold.
Reportings == UNION {[ids -> Reports] : ids \in SUBSET Identities}

PassRecords ==
    [next : Calls, ids : SUBSET Identities, run : SUBSET Members,
     backedOff : SUBSET Members, report : Reportings, ready : BOOLEAN]

PassShape == pass \in [Policies -> PassRecords]

IInv == TypeOK /\ PassShape /\ KeptIsClaimed /\ RetryIsScheduled

\* What the queue keeps after AddAfter is no later than asked.
LEMMA AddAfterWakes ==
    ASSUME wake \in [Policies -> Nat \cup {Never}], now \in Nat,
           NEW p \in Policies, NEW delay \in Nat \ {0}, AddAfter(p, delay)
    PROVE  /\ wake' \in [Policies -> Nat \cup {Never}]
           /\ wake'[p] \in 0..(now + delay)
           /\ \A q \in Policies \ {p} : wake'[q] = wake[q]
<1>1. wake[p] \in Nat \cup {-1}
  BY DEF Never
<1>2. wake' = [wake EXCEPT ![p] = IF wake[p] = -1 THEN now + delay
                                  ELSE Least(wake[p], now + delay)]
  BY DEF AddAfter, Never
<1>3. wake'[p] = IF wake[p] = -1 THEN now + delay
                 ELSE Least(wake[p], now + delay)
  BY <1>2
<1>4. wake'[p] \in 0..(now + delay)
  BY <1>1, <1>3 DEF Least
<1>5. wake'[p] \in Nat
  BY <1>4
<1> QED
  BY <1>2, <1>4, <1>5 DEF Never

\* A replaced pass: the others keep theirs.
LEMMA PassReplaced ==
    ASSUME PassShape, NEW p \in Policies, NEW s \in PassRecords, PassOK(s),
           \A q \in Policies : PassOK(pass[q]),
           pass' = [pass EXCEPT ![p] = s]
    PROVE  /\ PassShape' /\ \A q \in Policies : PassOK(pass'[q])
           /\ pass'[p] = s
           /\ \A q \in Policies \ {p} : pass'[q] = pass[q]
<1>1. /\ pass' \in [Policies -> PassRecords]
      /\ pass'[p] = s /\ \A q \in Policies \ {p} : pass'[q] = pass[q]
  BY DEF PassShape
<1>2. \A q \in Policies : PassOK(pass'[q])
  BY <1>1
<1> QED
  BY <1>1, <1>2 DEF PassShape

\* Idle is the pass of a Policy nothing runs for.
LEMMA IdleShape == Idle \in PassRecords /\ PassOK(Idle) /\ Idle.next = "none"
<1>1. [i \in {} |-> {}] \in [{} -> Reports]
  OBVIOUS
<1>2. [i \in {} |-> {}] \in Reportings
  BY <1>1, Zenon DEF Reportings
<1> DEFINE e == [i \in {} |-> {}]
<1>3. Idle = [next |-> "none", ids |-> {}, run |-> {}, backedOff |-> {},
              report |-> e, ready |-> FALSE]
  BY DEF Idle
<1>4. e \in Reportings
  BY <1>2
<1> HIDE DEF e
<1> QED
  BY <1>3, <1>4 DEF PassRecords, PassOK, Calls

\* A step that leaves the ledger, the time, the failed lists and the waits as
\* they are and takes nothing from the queue but what it starts keeps every
\* retry scheduled.
LEMMA SameLedger ==
    ASSUME RetryIsScheduled, UNCHANGED <<members, claims, failedBy, now, unlisted, wake>>,
           \A p \in Policies :
              \/ pass'[p].next # "none"
              \/ pass'[p] = pass[p] /\ (p \in queued => p \in queued')
    PROVE  RetryIsScheduled'
  BY DEF RetryIsScheduled, RunsBy, At

LEMMA InitIInv == Init => IInv
<1> SUFFICES ASSUME Init PROVE IInv
  OBVIOUS
<1>1. TypeOK
  <2>1. now \in 0..MaxTime /\ events \in 0..MaxEvents
    BY BoundsAssumption DEF Init
  <2>2. /\ policy \in [Policies -> Phases]
        /\ governs \in [Identities -> Policies \cup {NoPolicy}]
        /\ live \subseteq Members
        /\ claims \in [Policies -> SUBSET Members]
        /\ queued \subseteq Policies
        /\ unlisted \subseteq Policies
        /\ failedBy \in [Members -> Policies \cup {NoPolicy}]
    BY DEF Init, Phases
  <2>3. members \in [Members -> Entries]
    BY EmptyIsHealthy DEF Init
  <2>4. wake \in [Policies -> Nat \cup {Never}]
    BY DEF Init
  <2>5. \A p \in Policies : PassOK(pass[p])
    BY IdleShape DEF Init
  <2> QED
    BY <2>1, <2>2, <2>3, <2>4, <2>5 DEF TypeOK
<1>2. PassShape
  BY IdleShape DEF Init, PassShape
<1>3. KeptIsClaimed
  BY DEF Init, KeptIsClaimed
<1>4. RetryIsScheduled
  BY DEF Init, RetryIsScheduled
<1> QED
  BY <1>1, <1>2, <1>3, <1>4 DEF IInv

-----------------------------------------------------------------------------
(* The steps *)

\* Forget: of the entries only those nobody claims go, and the Policy's own
\* retries with its claims.
LEMMA ForgetsStep ==
    ASSUME IInv, NEW p \in Policies, Forgets(p),
           UNCHANGED <<pass, wake, unlisted, now>>,
           \A q \in Policies \ {p} : q \in queued => q \in queued'
    PROVE  /\ members' \in [Members -> Entries]
           /\ claims' \in [Policies -> SUBSET Members]
           /\ failedBy' = failedBy
           /\ KeptIsClaimed' /\ RetryIsScheduled'
<1>0. /\ members \in [Members -> Entries]
      /\ claims \in [Policies -> SUBSET Members]
  BY DEF IInv, TypeOK
<1>1. /\ claims' \in [Policies -> SUBSET Members]
      /\ claims'[p] = {}
      /\ \A q \in Policies \ {p} : claims'[q] = claims[q]
      /\ members' = Forgotten(members, claims[p], claims', p)
      /\ failedBy' = failedBy
  BY <1>0 DEF Forgets
<1>2. /\ members' \in [Members -> Entries]
      /\ \A m \in Members :
            \/ members'[m] = members[m]
            \/ members'[m] = Empty /\ \A q \in Policies : m \notin claims'[q]
      /\ \A m \in Members :
            m \in claims[p] /\ (\A q \in Policies : m \notin claims'[q]) =>
               members'[m] = Empty
  BY <1>0, <1>1, EmptyIsHealthy DEF Forgotten
<1>3. KeptIsClaimed'
  BY <1>1, <1>2 DEF IInv, KeptIsClaimed
<1>4. RetryIsScheduled'
  <2> SUFFICES ASSUME NEW m \in Members, NEW q \in Policies,
                      Transient(members'[m]), failedBy'[m] = q, m \in claims'[q]
               PROVE  RunsBy(q, Greatest(members[m].failure.due,
                                  now + IF q \in unlisted THEN BaseRetryDelay
                                        ELSE RetryFloor))'
    BY DEF RetryIsScheduled
  <2>1. q # p /\ m \in claims[q] /\ failedBy[m] = q /\ members'[m] = members[m]
    BY <1>1, <1>2, EmptyIsHealthy
  <2>2. RunsBy(q, Greatest(members[m].failure.due,
                           now + IF q \in unlisted THEN BaseRetryDelay
                                 ELSE RetryFloor))
    BY <2>1 DEF IInv, RetryIsScheduled
  <2> QED
    BY <2>1, <2>2 DEF RunsBy, At
<1> QED
  BY <1>1, <1>2, <1>3, <1>4

\* The end of a pass, and a failed list: the Policy is asleep until its next
\* retry or the floor, if any.
LEMMA RequeuesStep ==
    ASSUME IInv, NEW p \in Policies, NEW floor \in Nat \ {0},
           AddAfter(p, requeueAfter(members, claims, p, floor, now)),
           UNCHANGED <<members, claims, failedBy, now>>,
           floor <= IF p \in unlisted' THEN BaseRetryDelay ELSE RetryFloor,
           \A q \in Policies \ {p} : /\ q \in queued => q \in queued'
                                     /\ pass'[q] = pass[q]
                                     /\ q \in unlisted' <=> q \in unlisted
    PROVE  wake' \in [Policies -> Nat \cup {Never}] /\ RetryIsScheduled'
<1> DEFINE delay == requeueAfter(members, claims, p, floor, now)
<1>0. /\ members \in [Members -> Entries]
      /\ claims \in [Policies -> SUBSET Members]
      /\ now \in Nat
      /\ wake \in [Policies -> Nat \cup {Never}]
  BY BoundsAssumption DEF IInv, TypeOK
<1>1. /\ delay \in Nat \ {0}
      /\ \A m \in claims[p] : Transient(members[m]) =>
            now + delay <= Greatest(members[m].failure.due, now + floor)
  BY <1>0, RequeueAfterBounds
<1>2. AddAfter(p, delay)
  OBVIOUS
<1> HIDE DEF delay
<1>3. /\ wake' \in [Policies -> Nat \cup {Never}]
      /\ wake'[p] \in 0..(now + delay)
      /\ \A q \in Policies \ {p} : wake'[q] = wake[q]
  BY <1>0, <1>1, <1>2, AddAfterWakes
<1>4. RetryIsScheduled'
  <2> SUFFICES ASSUME NEW m \in Members, NEW q \in Policies,
                      Transient(members[m]), failedBy[m] = q, m \in claims[q]
               PROVE  RunsBy(q, Greatest(members[m].failure.due,
                                  now + IF q \in unlisted THEN BaseRetryDelay
                                        ELSE RetryFloor))'
    BY DEF RetryIsScheduled
  <2>1. CASE q = p
    <3> DEFINE d == members[m].failure.due
               f == IF p \in unlisted' THEN BaseRetryDelay ELSE RetryFloor
    <3>1. d \in Nat
      BY <1>0, TransientDue
    <3>2. now + delay <= Greatest(d, now + floor)
      BY <1>1, <2>1
    <3>3. f \in Nat /\ floor <= f
      BY DelaysAssumption
    <3> HIDE DEF d, f
    <3>4. wake'[p] \in 0..Greatest(d, now + f)
      BY <1>0, <1>1, <1>3, <3>1, <3>2, <3>3 DEF Greatest
    <3> QED
      BY <2>1, <3>4 DEF RunsBy, d, f
  <2>2. CASE q # p
    <3>1. RunsBy(q, Greatest(members[m].failure.due,
                             now + IF q \in unlisted THEN BaseRetryDelay
                                   ELSE RetryFloor))
      BY DEF IInv, RetryIsScheduled
    <3> QED
      BY <1>3, <2>2, <3>1 DEF RunsBy, At
  <2> QED
    BY <2>1, <2>2
<1> QED
  BY <1>3, <1>4

\* A result of a pass is one the ledger can record.
LEMMA ResultsType ==
    ASSUME NEW run \in SUBSET Members, NEW res \in Results(run)
    PROVE  res \in [run -> AllResults]
  BY DEF Results, AllResults

\* A record of a report's fields is a report.
LEMMA ReportRecord ==
    ASSUME NEW a \in BOOLEAN, NEW b \in Steps \cup {""}, NEW c \in BOOLEAN,
           NEW d \in BOOLEAN, NEW e \in BOOLEAN
    PROVE  [measured |-> a, blockedOn |-> b, computed |-> c, fetchFailed |-> d,
            failed |-> e] \in Reports
  BY DEF Reports

\* What a pass reports of one identity is a report.
LEMMA ReportType ==
    ASSUME NEW ms \in [Members -> Entries],
           NEW cs \in [Policies -> SUBSET Members], NEW i \in Identities,
           NEW res, NEW outcome
    PROVE  /\ ReportOf(i, res, ms, cs) \in Reports
           /\ DepartedReport(outcome) \in Reports
<1>1. BlockedOn(ms, cs, i) \in Steps \cup {""}
  BY BlockedOnType
<1>2. Measured(ms, cs, i) \in BOOLEAN
  BY DEF Measured
<1>3. "" \in Steps \cup {""}
  OBVIOUS
<1> DEFINE ran == {m \in DOMAIN res : Owner[m] = i}
           fetchFailed == \E m \in ran : res[m].step = "prometheus"
           failed == \E m \in ran : res[m].kind = "Failed"
<1>4. ReportOf(i, res, ms, cs) =
        [measured |-> Measured(ms, cs, i), blockedOn |-> BlockedOn(ms, cs, i),
         computed |-> ran # {} /\ ~fetchFailed, fetchFailed |-> fetchFailed,
         failed |-> failed]
  BY DEF ReportOf
<1>5. fetchFailed \in BOOLEAN /\ failed \in BOOLEAN
      /\ (ran # {} /\ ~fetchFailed) \in BOOLEAN
  OBVIOUS
<1>6. ReportOf(i, res, ms, cs) \in Reports
  <2> DEFINE computed == ran # {} /\ ~fetchFailed
             measured == Measured(ms, cs, i)
             blockedOn == BlockedOn(ms, cs, i)
  <2>1. /\ measured \in BOOLEAN /\ blockedOn \in Steps \cup {""}
        /\ computed \in BOOLEAN /\ fetchFailed \in BOOLEAN /\ failed \in BOOLEAN
    BY <1>1, <1>2, <1>5
  <2>2. ReportOf(i, res, ms, cs) =
          [measured |-> measured, blockedOn |-> blockedOn, computed |-> computed,
           fetchFailed |-> fetchFailed, failed |-> failed]
    BY <1>4
  <2> HIDE DEF computed, measured, blockedOn, ran, fetchFailed, failed
  <2>3. [measured |-> measured, blockedOn |-> blockedOn, computed |-> computed,
         fetchFailed |-> fetchFailed, failed |-> failed] \in Reports
    BY <2>1, ReportRecord, Zenon
  <2> QED
    BY <2>2, <2>3
<1>7. DepartedReport(outcome) \in Reports
  <2>1. (outcome \in {"unstored", "computed"}) \in BOOLEAN
        /\ (outcome = "fetchFailed") \in BOOLEAN /\ FALSE \in BOOLEAN
    OBVIOUS
  <2> QED
    BY <1>3, <2>1, ReportRecord, Zenon DEF DepartedReport
<1> QED
  BY <1>6, <1>7

\* What a pass leaves of each member: the record of its result, nothing when
\* no Policy claims it any more, or what there was.
LEMMA SettleEffect ==
    ASSUME IInv, NEW p \in Policies, Settle(p)
    PROVE  /\ claims' \in [Policies -> SUBSET Members]
           /\ members' \in [Members -> Entries]
           /\ failedBy' \in [Members -> Policies \cup {NoPolicy}]
           /\ claims'[p] = pass[p].run \cup pass[p].backedOff
           /\ \A q \in Policies \ {p} : claims'[q] = claims[q]
           /\ \A m \in Members :
                 m \in claims[p] /\ (\A q \in Policies : m \notin claims'[q]) =>
                    members'[m] = Empty
           /\ \A m \in Members :
                 \/ members'[m] = members[m] /\ failedBy'[m] = failedBy[m]
                 \/ members'[m] = Empty /\ \A q \in Policies : m \notin claims'[q]
                 \/ /\ m \in pass[p].run
                    /\ \/ failedBy'[m] = p
                       \/ ~Blocked(members'[m])
                    /\ Transient(members'[m]) =>
                          members'[m].failure.due
                            \in (now + BaseRetryDelay)..(now + MaxRetryDelay)
<1>0. /\ members \in [Members -> Entries]
      /\ claims \in [Policies -> SUBSET Members]
      /\ failedBy \in [Members -> Policies \cup {NoPolicy}]
      /\ pass[p].run \subseteq Members /\ pass[p].backedOff \subseteq Members
      /\ now \in Nat
  BY BoundsAssumption DEF IInv, TypeOK, PassOK
<1> DEFINE run == pass[p].run
           targets == run \cup pass[p].backedOff
           recorded(res) == [m \in Members |->
                               IF m \in run THEN Recorded(members[m], res[m], now)
                               ELSE members[m]]
<1>1. PICK res \in Results(run) :
         /\ claims' = [claims EXCEPT ![p] = targets]
         /\ members' = Forgotten(recorded(res), claims[p], claims', p)
         /\ failedBy' = [m \in Members |->
                           IF m \in run /\ res[m].kind = "Failed"
                           THEN p ELSE failedBy[m]]
  BY DEF Settle
<1>2. res \in [run -> AllResults]
  BY <1>0, <1>1, ResultsType
<1>3. /\ claims' \in [Policies -> SUBSET Members]
      /\ claims'[p] = targets
      /\ \A q \in Policies \ {p} : claims'[q] = claims[q]
  BY <1>0, <1>1
<1>4. \A m \in run : /\ Recorded(members[m], res[m], now) \in Entries
                     /\ res[m].kind # "Failed" =>
                          ~Blocked(Recorded(members[m], res[m], now))
                     /\ Transient(Recorded(members[m], res[m], now)) =>
                          Recorded(members[m], res[m], now).failure.due
                            \in (now + BaseRetryDelay)..(now + MaxRetryDelay)
  BY <1>0, <1>2, RecordedType
<1>5. recorded(res) \in [Members -> Entries]
  BY <1>0, <1>4
<1>6. /\ \A m \in run : recorded(res)[m] = Recorded(members[m], res[m], now)
      /\ \A m \in Members \ run : recorded(res)[m] = members[m]
  BY <1>0
<1>7. failedBy' \in [Members -> Policies \cup {NoPolicy}]
  BY <1>0, <1>1
<1>8. \A m \in Members : failedBy'[m] = IF m \in run /\ res[m].kind = "Failed"
                                        THEN p ELSE failedBy[m]
  BY <1>1
<1>9. members' \in [Members -> Entries]
      /\ \A m \in Members :
           members'[m] = IF m \in claims[p] /\ \A q \in Policies : m \notin claims'[q]
                         THEN Empty ELSE recorded(res)[m]
  <2> HIDE DEF recorded
  <2> QED
    BY <1>1, <1>5, EmptyIsHealthy DEF Forgotten
<1> HIDE DEF recorded
<1>10. ASSUME NEW m \in Members
       PROVE  \/ members'[m] = members[m] /\ failedBy'[m] = failedBy[m]
              \/ members'[m] = Empty /\ \A q \in Policies : m \notin claims'[q]
              \/ /\ m \in run
                 /\ \/ failedBy'[m] = p
                    \/ ~Blocked(members'[m])
                 /\ Transient(members'[m]) =>
                       members'[m].failure.due
                         \in (now + BaseRetryDelay)..(now + MaxRetryDelay)
  <2>1. CASE m \in claims[p] /\ \A q \in Policies : m \notin claims'[q]
    BY <1>9, <2>1
  <2>2. CASE /\ ~(m \in claims[p] /\ \A q \in Policies : m \notin claims'[q])
             /\ m \notin run
    BY <1>6, <1>8, <1>9, <2>2
  <2>3. CASE /\ ~(m \in claims[p] /\ \A q \in Policies : m \notin claims'[q])
             /\ m \in run
    <3>1. members'[m] = Recorded(members[m], res[m], now)
      BY <1>6, <1>9, <2>3
    <3> QED
      BY <1>4, <1>8, <2>3, <3>1
  <2> QED
    BY <2>1, <2>2, <2>3
<1> QED
  BY <1>3, <1>7, <1>9, <1>10

\* A settled pass: its report is one of its identities, and it publishes next.
LEMMA SettlePass ==
    ASSUME IInv, NEW p \in Policies, Settle(p)
    PROVE  /\ PassShape' /\ \A q \in Policies : PassOK(pass'[q])
           /\ pass'[p].next = "publish"
           /\ \A q \in Policies \ {p} : pass'[q] = pass[q]
<1>0. /\ pass[p] \in PassRecords /\ PassOK(pass[p]) /\ PassShape
      /\ \A q \in Policies : PassOK(pass[q])
      /\ pass[p].ids \subseteq Identities
  BY DEF IInv, TypeOK, PassShape, PassOK
<1>1. members' \in [Members -> Entries] /\ claims' \in [Policies -> SUBSET Members]
  BY SettleEffect
<1> DEFINE targets == pass[p].run \cup pass[p].backedOff
           departed == {i \in pass[p].ids : \A m \in targets : Owner[m] # i}
           report(res, outcomes) ==
              [i \in pass[p].ids |->
                  IF i \in departed THEN DepartedReport(outcomes[i])
                  ELSE ReportOf(i, res, members', claims')]
<1>2. PICK res \in Results(pass[p].run), outcomes \in [departed -> DepartedOutcomes] :
         pass' = [pass EXCEPT ![p] =
                    [@ EXCEPT !.next = "publish", !.report = report(res, outcomes),
                              !.ready = ReadyAfter(report(res, outcomes), outcomes)]]
  BY DEF Settle
<1> DEFINE rep == report(res, outcomes)
           s == [pass[p] EXCEPT !.next = "publish", !.report = rep,
                                !.ready = ReadyAfter(rep, outcomes)]
<1>3. rep \in [pass[p].ids -> Reports]
  <2>1. \A i \in Identities : /\ ReportOf(i, res, members', claims') \in Reports
                              /\ DepartedReport(outcomes[i]) \in Reports
    BY <1>1, ReportType
  <2> QED
    BY <1>0, <2>1
<1>4. ReadyAfter(rep, outcomes) \in BOOLEAN
  BY DEF ReadyAfter
<1>5. pass' = [pass EXCEPT ![p] = s]
  BY <1>2
<1> HIDE DEF rep
<1>6. rep \in Reportings
  BY <1>0, <1>3 DEF Reportings
<1>7. s \in PassRecords
  BY <1>0, <1>4, <1>6 DEF PassRecords, Calls
<1>8. s.next = "publish" /\ s.ids = pass[p].ids /\ s.run = pass[p].run
      /\ s.backedOff = pass[p].backedOff /\ s.report = rep
      /\ s.ready = ReadyAfter(rep, outcomes)
  BY <1>0 DEF PassRecords
<1> HIDE DEF s
<1>9. PassOK(s)
  BY <1>0, <1>3, <1>4, <1>8 DEF PassOK, Calls
<1> QED
  BY <1>0, <1>5, <1>7, <1>8, <1>9, PassReplaced

\* The pass a list starts, and the work list it makes.
LEMMA ListPass ==
    ASSUME IInv, NEW p \in Policies, List(p)
    PROVE  /\ PassShape' /\ \A q \in Policies : PassOK(pass'[q])
           /\ pass'[p].next = "workList"
           /\ \A q \in Policies \ {p} : pass'[q] = pass[q]
<1> DEFINE ids == {i \in Identities : governs[i] = p}
           run == {m \in live : Owner[m] \in ids}
           s == [Idle EXCEPT !.next = "workList", !.ids = ids, !.run = run]
<1>0. /\ PassShape /\ \A q \in Policies : PassOK(pass[q])
      /\ ids \subseteq Identities /\ run \subseteq Members
  BY DEF IInv, TypeOK
<1>1. pass' = [pass EXCEPT ![p] = s]
  BY DEF List
<1> HIDE DEF ids, run
<1>2. s \in PassRecords /\ s.next = "workList" /\ s.ids = ids /\ s.run = run
      /\ s.backedOff = Idle.backedOff /\ s.ready = Idle.ready
  BY <1>0, IdleShape DEF PassRecords, Calls
<1> HIDE DEF s
<1>3. PassOK(s)
  BY <1>0, <1>2, IdleShape DEF PassOK, Calls
<1> QED
  BY <1>0, <1>1, <1>2, <1>3, PassReplaced

LEMMA WorkListPass ==
    ASSUME IInv, NEW p \in Policies, WorkList(p)
    PROVE  /\ PassShape' /\ \A q \in Policies : PassOK(pass'[q])
           /\ pass'[p].next = "settle"
           /\ \A q \in Policies \ {p} : pass'[q] = pass[q]
<1> DEFINE off == {m \in pass[p].run : ~MayRun(members[m], now)}
           s == [pass[p] EXCEPT !.next = "settle", !.run = pass[p].run \ off,
                                !.backedOff = off]
<1>0. /\ PassShape /\ \A q \in Policies : PassOK(pass[q])
      /\ pass[p] \in PassRecords /\ off \subseteq Members
      /\ pass[p].run \subseteq Members
  BY DEF IInv, TypeOK, PassShape, PassOK
<1>1. pass' = [pass EXCEPT ![p] = s]
  BY DEF WorkList
<1> HIDE DEF off
<1>2. s \in PassRecords /\ s.next = "settle" /\ s.ids = pass[p].ids
      /\ s.run = pass[p].run \ off /\ s.backedOff = off /\ s.ready = pass[p].ready
  BY <1>0 DEF PassRecords, Calls
<1> HIDE DEF s
<1>3. PassOK(s)
  BY <1>0, <1>2 DEF PassOK, Calls
<1> QED
  BY <1>0, <1>1, <1>2, <1>3, PassReplaced

LEMMA PublishedPass ==
    ASSUME IInv, NEW p \in Policies, PublishPass(p)
    PROVE  /\ PassShape' /\ \A q \in Policies : PassOK(pass'[q])
           /\ pass'[p].next = "requeue"
           /\ \A q \in Policies \ {p} : pass'[q] = pass[q]
<1> DEFINE s == [pass[p] EXCEPT !.next = "requeue"]
<1>0. /\ PassShape /\ \A q \in Policies : PassOK(pass[q])
      /\ pass[p] \in PassRecords /\ PassOK(pass[p]) /\ pass[p].next = "publish"
  BY DEF IInv, TypeOK, PassShape, PublishPass, At
<1>1. pass' = [pass EXCEPT ![p] = s]
  BY DEF PublishPass
<1>2. s \in PassRecords /\ s.next = "requeue" /\ s.ids = pass[p].ids
      /\ s.run = pass[p].run /\ s.backedOff = pass[p].backedOff
      /\ s.ready = pass[p].ready /\ s.report = pass[p].report
  BY <1>0 DEF PassRecords, Calls
<1> HIDE DEF s
<1>3. PassOK(s)
  BY <1>0, <1>2 DEF PassOK, Calls
<1> QED
  BY <1>0, <1>1, <1>2, <1>3, PassReplaced

\* Reconcile keeps the invariant, step by step.
LEMMA ReconcileStep ==
    ASSUME IInv, NEW p \in Policies, Reconcile(p)
    PROVE  IInv'
<1> USE DEF IInv
<1>1. CASE FindGone(p) \/ Cleanup(p) \/ CleanupAgain(p)
  <2>1. /\ Forgets(p) /\ UNCHANGED <<pass, wake, unlisted, now, governs, live>>
        /\ queued' \subseteq queued
        /\ \A q \in Policies \ {p} : q \in queued => q \in queued'
    BY <1>1 DEF FindGone, Cleanup, CleanupAgain, Starts, World
  <2>2. /\ members' \in [Members -> Entries]
        /\ claims' \in [Policies -> SUBSET Members]
        /\ failedBy' = failedBy
        /\ KeptIsClaimed' /\ RetryIsScheduled'
    BY <2>1, ForgetsStep
  <2>3. policy' \in [Policies -> Phases]
    BY <1>1 DEF TypeOK, FindGone, Cleanup, CleanupAgain, Phases, World
  <2>4. events' \in 0..MaxEvents
    BY <1>1, BoundsAssumption
    DEF TypeOK, FindGone, Cleanup, CleanupAgain, Spend
  <2> QED
    BY <2>1, <2>2, <2>3, <2>4 DEF TypeOK, PassShape
<1>2. CASE CleanupFails(p)
  <2>1. UNCHANGED <<World, members, claims, failedBy, queued, wake, unlisted, pass>>
    BY <1>2 DEF CleanupFails, Ledger_
  <2>2. events' \in 0..MaxEvents
    BY <1>2, BoundsAssumption DEF TypeOK, CleanupFails, Spend
  <2> QED
    BY <2>1, <2>2 DEF TypeOK, PassShape, KeptIsClaimed, RetryIsScheduled, RunsBy,
       At, World
<1>3. CASE List(p) \/ WorkList(p) \/ PublishPass(p)
  <2>1. /\ PassShape' /\ \A q \in Policies : PassOK(pass'[q])
        /\ pass'[p].next # "none"
        /\ \A q \in Policies \ {p} : pass'[q] = pass[q]
    BY <1>3, ListPass, WorkListPass, PublishedPass
  <2>2. /\ UNCHANGED <<World, events, members, claims, failedBy, wake, unlisted>>
        /\ queued' \subseteq queued
        /\ \A q \in Policies \ {p} : q \in queued => q \in queued'
    BY <1>3 DEF List, WorkList, PublishPass, Ledger_, Starts
  <2>3. RetryIsScheduled'
    BY <2>1, <2>2, SameLedger DEF World
  <2> QED
    BY <2>1, <2>2, <2>3 DEF TypeOK, KeptIsClaimed, World
<1>4. CASE ListFails(p)
  <2>1. /\ AddAfter(p, requeueAfter(members, claims, p, BaseRetryDelay, now))
        /\ unlisted' = unlisted \cup {p}
        /\ UNCHANGED <<World, members, claims, failedBy, pass>>
        /\ queued' \subseteq queued
        /\ \A q \in Policies \ {p} : q \in queued => q \in queued'
    BY <1>4 DEF ListFails, Ledger_, Starts
  <2>2. events' \in 0..MaxEvents
    BY <1>4, BoundsAssumption DEF TypeOK, ListFails, Spend
  <2>3. BaseRetryDelay \in Nat \ {0}
    BY DelaysAssumption
  <2>4. wake' \in [Policies -> Nat \cup {Never}] /\ RetryIsScheduled'
    BY <2>1, <2>3, RequeuesStep DEF World
  <2> QED
    BY <2>1, <2>2, <2>4 DEF TypeOK, PassShape, KeptIsClaimed, World
<1>5. CASE Requeue(p)
  <2>1. /\ AddAfter(p, requeueAfter(members, claims, p, RetryFloor, now))
        /\ unlisted' = unlisted \ {p}
        /\ pass' = [pass EXCEPT ![p] = Idle]
        /\ UNCHANGED <<World, events, members, claims, failedBy, queued>>
    BY <1>5 DEF Requeue, Ledger_
  <2>2. RetryFloor \in Nat \ {0}
    BY DelaysAssumption
  <2>3. /\ PassShape' /\ \A q \in Policies : PassOK(pass'[q])
        /\ \A q \in Policies \ {p} : pass'[q] = pass[q]
    BY <2>1, IdleShape, PassReplaced DEF TypeOK
  <2>4. wake' \in [Policies -> Nat \cup {Never}] /\ RetryIsScheduled'
    BY <2>1, <2>2, <2>3, RequeuesStep DEF World
  <2> QED
    BY <2>1, <2>3, <2>4 DEF TypeOK, KeptIsClaimed, World
<1>6. CASE Settle(p)
  <2>1. /\ PassShape' /\ \A q \in Policies : PassOK(pass'[q])
        /\ pass'[p].next = "publish"
        /\ \A q \in Policies \ {p} : pass'[q] = pass[q]
    BY <1>6, SettlePass
  <2>2. UNCHANGED <<World, events, queued, wake, unlisted>>
    BY <1>6 DEF Settle
  <2>3. /\ claims' \in [Policies -> SUBSET Members]
        /\ members' \in [Members -> Entries]
        /\ failedBy' \in [Members -> Policies \cup {NoPolicy}]
    BY <1>6, SettleEffect
  <2>4. KeptIsClaimed'
    BY <1>6, SettleEffect DEF KeptIsClaimed
  <2>5. RetryIsScheduled'
    <3> SUFFICES ASSUME NEW m \in Members, NEW q \in Policies,
                        Transient(members'[m]), failedBy'[m] = q, m \in claims'[q]
                 PROVE  RunsBy(q, Greatest(members[m].failure.due,
                                    now + IF q \in unlisted THEN BaseRetryDelay
                                          ELSE RetryFloor))'
      BY DEF RetryIsScheduled
    <3>1. CASE q = p
      BY <2>1, <3>1 DEF RunsBy, At
    <3>2. CASE q # p
      <4>1. Blocked(members'[m]) /\ members'[m] # Empty
        BY EmptyIsHealthy DEF Transient
      <4>2. /\ members'[m] = members[m] /\ failedBy'[m] = failedBy[m]
            /\ claims'[q] = claims[q]
        BY <1>6, <3>2, <4>1, SettleEffect
      <4>3. RunsBy(q, Greatest(members[m].failure.due,
                               now + IF q \in unlisted THEN BaseRetryDelay
                                     ELSE RetryFloor))
        BY <4>2 DEF RetryIsScheduled
      <4> QED
        BY <2>1, <2>2, <3>2, <4>2, <4>3 DEF RunsBy, At, World
    <3> QED
      BY <3>1, <3>2
  <2> QED
    BY <2>1, <2>2, <2>3, <2>4, <2>5 DEF TypeOK, World
<1> QED
  BY <1>1, <1>2, <1>3, <1>4, <1>5, <1>6 DEF Reconcile

\* What happens outside the controller, and the clock, keep the invariant.
LEMMA OutsideStep ==
    ASSUME IInv, Move \/ Tick \/ \E p \in Policies : PolicyChanges(p) \/ SeeGone(p)
    PROVE  IInv'
<1> USE DEF IInv
<1>1. CASE Move
  <2>1. UNCHANGED <<policy, now, members, claims, failedBy, queued, wake, unlisted,
                    pass>>
    BY <1>1 DEF Move, Ledger_
  <2>2. events' \in 0..MaxEvents
    BY <1>1, BoundsAssumption DEF TypeOK, Move, Spend
  <2>3. /\ governs' \in [Identities -> Policies \cup {NoPolicy}]
        /\ live' \subseteq Members
    BY <1>1 DEF TypeOK, Move
  <2>4. RetryIsScheduled'
    BY <2>1, SameLedger
  <2> QED
    BY <2>1, <2>2, <2>3, <2>4 DEF TypeOK, PassShape, KeptIsClaimed
<1>2. ASSUME NEW p \in Policies, PolicyChanges(p) \/ SeeGone(p)
      PROVE  IInv'
  <2>1. /\ UNCHANGED <<governs, live, now, members, claims, failedBy, wake,
                       unlisted, pass>>
        /\ queued' = queued \cup {p}
    BY <1>2 DEF PolicyChanges, SeeGone, Ledger_
  <2>2. events' \in 0..MaxEvents
    BY <1>2, BoundsAssumption DEF TypeOK, PolicyChanges, SeeGone, Spend
  <2>3. policy' \in [Policies -> Phases]
    <3>1. CASE PolicyChanges(p)
      <4>1. PICK phase \in {"live", "deleting", "absent"} :
               policy' = [policy EXCEPT ![p] = phase]
        BY <3>1 DEF PolicyChanges
      <4> QED
        BY <4>1 DEF TypeOK, Phases
    <3>2. CASE SeeGone(p)
      BY <3>2 DEF SeeGone, TypeOK, Phases
    <3> QED
      BY <1>2, <3>1, <3>2
  <2>4. RetryIsScheduled'
    BY <2>1, SameLedger
  <2> QED
    BY <2>1, <2>2, <2>3, <2>4 DEF TypeOK, PassShape, KeptIsClaimed
<1>3. CASE Tick
  <2> DEFINE due == {p \in Policies : wake[p] = now'}
  <2>1. /\ now < MaxTime /\ now' = now + 1
        /\ queued' = queued \cup due
        /\ wake' = [p \in Policies |-> IF p \in due THEN Never ELSE wake[p]]
        /\ UNCHANGED <<policy, governs, live, events, members, claims, failedBy,
                       unlisted, pass>>
    BY <1>3 DEF Tick, Ledger_
  <2>2. now \in Nat /\ now' \in 0..MaxTime /\ wake \in [Policies -> Nat \cup {Never}]
    BY <2>1, BoundsAssumption DEF TypeOK
  <2>3. wake' \in [Policies -> Nat \cup {Never}]
    BY <2>1, <2>2
  <2>4. RetryIsScheduled'
    <3> SUFFICES ASSUME NEW m \in Members, NEW q \in Policies,
                        Transient(members[m]), failedBy[m] = q, m \in claims[q]
                 PROVE  RunsBy(q, Greatest(members[m].failure.due,
                                    now + IF q \in unlisted THEN BaseRetryDelay
                                          ELSE RetryFloor))'
      BY <2>1 DEF RetryIsScheduled
    <3> DEFINE d == members[m].failure.due
               f == IF q \in unlisted THEN BaseRetryDelay ELSE RetryFloor
    <3>1. d \in Nat /\ f \in Nat
      BY TransientDue, DelaysAssumption DEF TypeOK
    <3>2. RunsBy(q, Greatest(d, now + f))
      BY DEF RetryIsScheduled
    <3>3. CASE q \in queued \/ ~At(q, "none")
      BY <2>1, <3>3 DEF RunsBy, At
    <3>4. CASE wake[q] \in 0..Greatest(d, now + f)
      <4>1. CASE wake[q] = now'
        BY <2>1, <4>1 DEF RunsBy
      <4>2. CASE wake[q] # now'
        <5>1. wake'[q] = wake[q]
          BY <2>1, <4>2
        <5> HIDE DEF d, f
        <5>2. wake'[q] \in 0..Greatest(d, now' + f)
          BY <2>1, <2>2, <3>1, <3>4, <5>1 DEF Greatest
        <5> QED
          BY <2>1, <5>2 DEF RunsBy, d, f
      <4> QED
        BY <4>1, <4>2
    <3> QED
      BY <3>2, <3>3, <3>4 DEF RunsBy
  <2> QED
    BY <2>1, <2>2, <2>3, <2>4 DEF TypeOK, PassShape, KeptIsClaimed
<1> QED
  BY <1>1, <1>2, <1>3

LEMMA StutterIInv == IInv /\ UNCHANGED vars => IInv'
  BY DEF IInv, vars, TypeOK, PassShape, KeptIsClaimed, RetryIsScheduled, RunsBy, At,
     PassOK

LEMMA NextIInv == IInv /\ [Next]_vars => IInv'
  BY ReconcileStep, OutsideStep, StutterIInv DEF Next

-----------------------------------------------------------------------------
\* The inductive invariant holds throughout.
THEOREM PassesInvariant == Spec => []IInv
<1>1. IInv /\ [Next]_vars => IInv'
  BY NextIInv
<1> QED
  BY InitIInv, <1>1, PTL DEF Spec

\* Every variable of the passes keeps its type: the ledger holds entries, the
\* queue Policies, a pass what its next call needs.
THEOREM TypeCorrect == Spec => []TypeOK
  BY PassesInvariant, PTL DEF IInv

\* The ledger keeps state only for members some Policy claims, however the
\* passes of any number of Policies interleave (settle, forget, claimLocked).
THEOREM KeptAlwaysClaimed == Spec => []KeptIsClaimed
  BY PassesInvariant, PTL DEF IInv

\* The Policy whose pass failed a member is queued, in a pass, or asleep no
\* longer than to the member's retry, for any delays, any number of members
\* and any other Policy's passes in between (requeueAfter).
THEOREM RetryAlwaysScheduled == Spec => []RetryIsScheduled
  BY PassesInvariant, PTL DEF IInv

\* What a step makes of the ledger's entries.
LEMMA EntriesStep ==
    ASSUME IInv, [Next]_vars, NEW m \in Members
    PROVE  \/ members'[m] = members[m]
           \/ members'[m] = Empty /\ \A q \in Policies : m \notin claims'[q]
           \/ /\ \E p \in Policies : At(p, "settle") /\ pass'[p].next = "publish"
                                     /\ m \in pass[p].run
              /\ Transient(members'[m]) =>
                    members'[m].failure.due
                      \in (now + BaseRetryDelay)..(now + MaxRetryDelay)
<1>1. CASE members' = members
  BY <1>1
<1>2. ASSUME NEW p \in Policies, Forgets(p)
      PROVE  \/ members'[m] = members[m]
             \/ members'[m] = Empty /\ \A q \in Policies : m \notin claims'[q]
  BY <1>2 DEF Forgets, Forgotten
<1>3. ASSUME NEW p \in Policies, Settle(p)
      PROVE  \/ members'[m] = members[m]
             \/ members'[m] = Empty /\ \A q \in Policies : m \notin claims'[q]
             \/ /\ At(p, "settle") /\ pass'[p].next = "publish" /\ m \in pass[p].run
                /\ Transient(members'[m]) =>
                      members'[m].failure.due
                        \in (now + BaseRetryDelay)..(now + MaxRetryDelay)
  <2>1. At(p, "settle")
    BY <1>3 DEF Settle
  <2> QED
    BY <1>3, <2>1, SettleEffect, SettlePass
<1>4. \/ members' = members
      \/ \E p \in Policies : Forgets(p) \/ Settle(p)
  BY DEF Next, Reconcile, FindGone, Cleanup, CleanupAgain, CleanupFails, List,
     ListFails, WorkList, PublishPass, Requeue, PolicyChanges, SeeGone, Move, Tick,
     Ledger_, vars
<1> QED
  BY <1>1, <1>2, <1>3, <1>4

\* No step but a pass that ran the member, or the last claim's end, makes a
\* Blocked member healthy (recordLocked, claimLocked).
THEOREM BlockedStaysKept == Spec => BlockedIsKept
<1>1. IInv /\ [Next]_vars =>
        [\A m \in Members :
            Blocked(members[m]) /\ ~Blocked(members'[m]) =>
               \/ \E p \in Policies : /\ At(p, "settle") /\ pass'[p].next = "publish"
                                      /\ m \in pass[p].run
               \/ \A p \in Policies : m \notin claims'[p]]_vars
  BY EntriesStep
<1> QED
  BY PassesInvariant, <1>1, PTL DEF Spec, BlockedIsKept

\* Every transient failure a step records backs its member off within the
\* bounds, however many failed before (failLocked).
THEOREM RetryAlwaysWaits == Spec => RetryWaits
<1>1. IInv /\ [Next]_vars =>
        [\A m \in Members :
            Transient(members'[m]) /\ members'[m].failure # members[m].failure =>
               members'[m].failure.due
                 \in (now + BaseRetryDelay)..(now + MaxRetryDelay)]_vars
  BY EntriesStep, EmptyIsHealthy
<1> QED
  BY PassesInvariant, <1>1, PTL DEF Spec, RetryWaits

-----------------------------------------------------------------------------
(* The publisher's series *)

\* What the publisher may remember.
PubRecords ==
    [includes : [Policies -> SUBSET Identities],
     gauges : [Owners -> SUBSET GaugeNames],
     counters : [Owners -> SUBSET CounterNames],
     registry : SUBSET (Owners \X Names)]

\* The registry holds exactly what the publisher tracks.
Tracked(b) ==
    \A o \in Owners, n \in Names :
        <<o, n>> \in b.registry <=> n \in b.gauges[o] \cup b.counters[o]

\* The identities that have series.
Shown(b) == {i \in Identities : b.gauges[i] \cup b.counters[i] # {}}

LEMMA TrackedIsSeries ==
    ASSUME NEW b \in PubRecords
    PROVE  Tracked(b) <=>
             b.registry = SeriesOf([o \in Owners |-> b.gauges[o] \cup b.counters[o]])
<1> DEFINE f == [o \in Owners |-> b.gauges[o] \cup b.counters[o]]
<1>1. \A o \in Owners, n \in Names :
         <<o, n>> \in SeriesOf(f) <=> n \in b.gauges[o] \cup b.counters[o]
  BY DEF SeriesOf
<1>2. SeriesOf(f) \subseteq Owners \X Names /\ b.registry \subseteq Owners \X Names
  BY DEF SeriesOf, PubRecords
<1> HIDE DEF f
<1>3. ASSUME Tracked(b) PROVE b.registry = SeriesOf(f)
  <2>1. ASSUME NEW s \in Owners \X Names
        PROVE  s \in b.registry <=> s \in SeriesOf(f)
    <3>1. PICK o \in Owners, n \in Names : s = <<o, n>>
      BY <2>1
    <3> QED
      BY <1>1, <1>3, <3>1 DEF Tracked
  <2> QED
    BY <1>2, <2>1
<1>4. ASSUME b.registry = SeriesOf(f) PROVE Tracked(b)
  BY <1>1, <1>4 DEF Tracked
<1> QED
  BY <1>3, <1>4 DEF f

\* replace: the owners given hold the gauges given, and the registry follows.
LEMMA ReplaceTracked ==
    ASSUME NEW b \in PubRecords, Tracked(b),
           NEW D \in SUBSET Owners, NEW names \in [D -> SUBSET GaugeNames]
    PROVE  /\ Replace(b, names) \in PubRecords /\ Tracked(Replace(b, names))
           /\ Replace(b, names).includes = b.includes
           /\ Shown(Replace(b, names)) \subseteq Shown(b) \cup D
<1> DEFINE gone == [o \in DOMAIN names |-> b.gauges[o] \ names[o]]
           g == [o \in Owners |-> IF o \in DOMAIN names THEN names[o] ELSE b.gauges[o]]
           reg == (b.registry \ SeriesOf(gone)) \cup SeriesOf(names)
           r == [b EXCEPT !.gauges = g, !.registry = reg]
<1>1. Replace(b, names) = r
  BY DEF Replace
<1>2. /\ b.includes \in [Policies -> SUBSET Identities]
      /\ b.gauges \in [Owners -> SUBSET GaugeNames]
      /\ b.counters \in [Owners -> SUBSET CounterNames]
      /\ b.registry \subseteq Owners \X Names
  BY DEF PubRecords
<1>3. g \in [Owners -> SUBSET GaugeNames]
  BY <1>2
<1>4. reg \subseteq Owners \X Names
  BY <1>2 DEF SeriesOf
<1>5. \A o \in Owners : g[o] = IF o \in D THEN names[o] ELSE b.gauges[o]
  OBVIOUS
<1>6. \A o \in Owners, n \in Names :
         <<o, n>> \in reg <=> n \in g[o] \cup b.counters[o]
  <2> SUFFICES ASSUME NEW o \in Owners, NEW n \in Names
               PROVE  <<o, n>> \in reg <=> n \in g[o] \cup b.counters[o]
    OBVIOUS
  <2>1. <<o, n>> \in b.registry <=> n \in b.gauges[o] \cup b.counters[o]
    BY DEF Tracked
  <2>2. /\ <<o, n>> \in SeriesOf(names) <=> o \in D /\ n \in names[o]
        /\ <<o, n>> \in SeriesOf(gone) <=> o \in D /\ n \in b.gauges[o] \ names[o]
    BY DEF SeriesOf
  <2>3. n \in b.counters[o] => n \notin b.gauges[o]
    BY <1>2, NamesAssumption
  <2> HIDE DEF gone, g
  <2> QED
    BY <1>5, <2>1, <2>2, <2>3
<1> HIDE DEF g, reg
<1>7. r \in PubRecords /\ r.includes = b.includes /\ r.gauges = g
      /\ r.counters = b.counters /\ r.registry = reg
  BY <1>2, <1>3, <1>4 DEF PubRecords
<1> HIDE DEF r
<1>8. Tracked(r)
  BY <1>6, <1>7 DEF Tracked
<1>9. Shown(r) \subseteq Shown(b) \cup D
  BY <1>5, <1>7 DEF Shown, Owners
<1> QED
  BY <1>1, <1>7, <1>8, <1>9

\* add, observe: the owners given count more, and the registry follows.
LEMMA CountTracked ==
    ASSUME NEW b \in PubRecords, Tracked(b),
           NEW D \in SUBSET Owners, NEW names \in [D -> SUBSET CounterNames]
    PROVE  /\ Count(b, names) \in PubRecords /\ Tracked(Count(b, names))
           /\ Count(b, names).includes = b.includes
           /\ Shown(Count(b, names)) \subseteq Shown(b) \cup D
<1> DEFINE c == [o \in Owners |-> IF o \in DOMAIN names THEN b.counters[o] \cup names[o]
                                  ELSE b.counters[o]]
           reg == b.registry \cup SeriesOf(names)
           r == [b EXCEPT !.counters = c, !.registry = reg]
<1>1. Count(b, names) = r
  BY DEF Count
<1>2. /\ b.includes \in [Policies -> SUBSET Identities]
      /\ b.gauges \in [Owners -> SUBSET GaugeNames]
      /\ b.counters \in [Owners -> SUBSET CounterNames]
      /\ b.registry \subseteq Owners \X Names
  BY DEF PubRecords
<1>3. c \in [Owners -> SUBSET CounterNames]
  BY <1>2
<1>4. reg \subseteq Owners \X Names
  BY <1>2 DEF SeriesOf
<1>5. \A o \in Owners : c[o] = IF o \in D THEN b.counters[o] \cup names[o]
                               ELSE b.counters[o]
  OBVIOUS
<1>6. \A o \in Owners, n \in Names :
         <<o, n>> \in reg <=> n \in b.gauges[o] \cup c[o]
  <2> SUFFICES ASSUME NEW o \in Owners, NEW n \in Names
               PROVE  <<o, n>> \in reg <=> n \in b.gauges[o] \cup c[o]
    OBVIOUS
  <2>1. <<o, n>> \in b.registry <=> n \in b.gauges[o] \cup b.counters[o]
    BY DEF Tracked
  <2>2. <<o, n>> \in SeriesOf(names) <=> o \in D /\ n \in names[o]
    BY DEF SeriesOf
  <2> HIDE DEF c
  <2> QED
    BY <1>5, <2>1, <2>2
<1> HIDE DEF c, reg
<1>7. r \in PubRecords /\ r.includes = b.includes /\ r.gauges = b.gauges
      /\ r.counters = c /\ r.registry = reg
  BY <1>2, <1>3, <1>4 DEF PubRecords
<1> HIDE DEF r
<1>8. Tracked(r)
  BY <1>6, <1>7 DEF Tracked
<1>9. Shown(r) \subseteq Shown(b) \cup D
  BY <1>5, <1>7 DEF Shown, Owners
<1> QED
  BY <1>1, <1>7, <1>8, <1>9

\* deleteAll: the owners given hold nothing, and the registry follows.
LEMMA DeleteTracked ==
    ASSUME NEW b \in PubRecords, Tracked(b), NEW D \in SUBSET Owners
    PROVE  /\ DeleteAll(b, D) \in PubRecords /\ Tracked(DeleteAll(b, D))
           /\ DeleteAll(b, D).includes = b.includes
           /\ Shown(DeleteAll(b, D)) \subseteq Shown(b) \ D
<1> DEFINE gone == [o \in D |-> b.gauges[o] \cup b.counters[o]]
           g == [o \in Owners |-> IF o \in D THEN {} ELSE b.gauges[o]]
           c == [o \in Owners |-> IF o \in D THEN {} ELSE b.counters[o]]
           reg == b.registry \ SeriesOf(gone)
           r == [b EXCEPT !.gauges = g, !.counters = c, !.registry = reg]
<1>1. DeleteAll(b, D) = r
  BY DEF DeleteAll
<1>2. /\ b.includes \in [Policies -> SUBSET Identities]
      /\ b.gauges \in [Owners -> SUBSET GaugeNames]
      /\ b.counters \in [Owners -> SUBSET CounterNames]
      /\ b.registry \subseteq Owners \X Names
  BY DEF PubRecords
<1>3. g \in [Owners -> SUBSET GaugeNames] /\ c \in [Owners -> SUBSET CounterNames]
  BY <1>2
<1>4. reg \subseteq Owners \X Names
  BY <1>2
<1>5. \A o \in Owners : /\ g[o] = IF o \in D THEN {} ELSE b.gauges[o]
                        /\ c[o] = IF o \in D THEN {} ELSE b.counters[o]
  OBVIOUS
<1>6. \A o \in Owners, n \in Names : <<o, n>> \in reg <=> n \in g[o] \cup c[o]
  <2> SUFFICES ASSUME NEW o \in Owners, NEW n \in Names
               PROVE  <<o, n>> \in reg <=> n \in g[o] \cup c[o]
    OBVIOUS
  <2>1. <<o, n>> \in b.registry <=> n \in b.gauges[o] \cup b.counters[o]
    BY DEF Tracked
  <2>2. <<o, n>> \in SeriesOf(gone)
           <=> o \in D /\ n \in b.gauges[o] \cup b.counters[o]
    BY DEF SeriesOf
  <2> HIDE DEF gone, g, c
  <2> QED
    BY <1>5, <2>1, <2>2
<1> HIDE DEF g, c, reg
<1>7. r \in PubRecords /\ r.includes = b.includes /\ r.gauges = g
      /\ r.counters = c /\ r.registry = reg
  BY <1>2, <1>3, <1>4 DEF PubRecords
<1> HIDE DEF r
<1>8. Tracked(r)
  BY <1>6, <1>7 DEF Tracked
<1>9. Shown(r) \subseteq Shown(b) \ D
  BY <1>5, <1>7 DEF Shown, Owners
<1> QED
  BY <1>1, <1>7, <1>8, <1>9

\* The end of publish, and of forget: when what has series is included
\* already or is about to be, what has series afterwards is included.
LEMMA IncludeTracked ==
    ASSUME NEW b \in PubRecords, Tracked(b), NEW p \in Policies,
           NEW ids \in SUBSET Identities,
           \A i \in Shown(b) : Included(b, i) \/ i \in ids
    PROVE  /\ Include(b, p, ids) \in PubRecords /\ Tracked(Include(b, p, ids))
           /\ \A i \in Shown(Include(b, p, ids)) : Included(Include(b, p, ids), i)
<1> DEFINE inc == [b.includes EXCEPT ![p] = ids]
           c == [b EXCEPT !.includes[p] = ids]
           D == {i \in b.includes[p] : ~Included(c, i)}
           d == DeleteAll(c, D)
<1>1. /\ b.includes \in [Policies -> SUBSET Identities]
      /\ b.gauges \in [Owners -> SUBSET GaugeNames]
      /\ b.counters \in [Owners -> SUBSET CounterNames]
      /\ b.registry \subseteq Owners \X Names
  BY DEF PubRecords
<1>2. /\ inc \in [Policies -> SUBSET Identities] /\ inc[p] = ids
      /\ \A q \in Policies \ {p} : inc[q] = b.includes[q]
  BY <1>1
<1>3. c \in PubRecords /\ c.includes = inc /\ c.gauges = b.gauges
      /\ c.counters = b.counters /\ c.registry = b.registry
  BY <1>1, <1>2 DEF PubRecords
<1>4. Include(b, p, ids) = d
  BY DEF Include, DropExcluded
<1>5. Tracked(c) /\ Shown(c) = Shown(b)
  BY <1>3 DEF Tracked, Shown
<1>6. D \in SUBSET Owners
  BY <1>1 DEF Owners
<1> HIDE DEF c, D, inc
<1>7. d \in PubRecords /\ Tracked(d) /\ d.includes = c.includes
      /\ Shown(d) \subseteq Shown(c) \ D
  BY <1>3, <1>5, <1>6, DeleteTracked
<1>8. ASSUME NEW i \in Shown(d) PROVE Included(d, i)
  <2>1. i \in Shown(b) /\ i \notin D
    BY <1>5, <1>7
  <2>2. CASE i \in ids
    BY <1>2, <1>3, <1>7, <2>2 DEF Included
  <2>3. CASE i \notin ids
    <3>1. PICK q \in Policies : i \in b.includes[q]
      BY <2>1, <2>3 DEF Included
    <3>2. CASE q = p
      BY <1>7, <2>1, <3>1, <3>2 DEF D, Included
    <3>3. CASE q # p
      BY <1>2, <1>3, <1>7, <3>1, <3>3 DEF Included
    <3> QED
      BY <3>2, <3>3
  <2> QED
    BY <2>2, <2>3
<1> QED
  BY <1>4, <1>7, <1>8

\* What SeriesAreOwned says of one state of the publisher.
Owned(b) ==
    b \in PubRecords /\ Tracked(b) /\ \A i \in Shown(b) : Included(b, i)

LEMMA ForgetOwned ==
    ASSUME NEW b, Owned(b), NEW p \in Policies
    PROVE  Owned(ForgetSeries(b, p))
<1> DEFINE d == DeleteAll(b, {p})
<1>1. {p} \in SUBSET Owners
  BY DEF Owners
<1>2. d \in PubRecords /\ Tracked(d) /\ d.includes = b.includes
      /\ Shown(d) \subseteq Shown(b)
  BY <1>1, DeleteTracked DEF Owned
<1> HIDE DEF d
<1>3. \A i \in Shown(d) : Included(d, i)
  BY <1>2 DEF Owned, Included
<1> QED
  BY <1>2, <1>3, IncludeTracked DEF ForgetSeries, Owned, d

LEMMA ReconciledOwned ==
    ASSUME NEW b, Owned(b), NEW p \in Policies
    PROVE  Owned(Reconciled(b, p))
<1> DEFINE names == [o \in {p} |-> {"reconciles"}]
           d == Count(b, names)
<1>1. {p} \in SUBSET Owners
  BY DEF Owners
<1>2. names \in [{p} -> SUBSET CounterNames]
  BY DEF CounterNames
<1> HIDE DEF names
<1>3. d \in PubRecords /\ Tracked(d) /\ d.includes = b.includes
      /\ Shown(d) \subseteq Shown(b) \cup {p}
  BY <1>1, <1>2, CountTracked DEF Owned
<1> HIDE DEF d
<1>4. p \notin Shown(d)
  <2>1. Policies \cap Identities = {}
    BY KeysAssumption
  <2> QED
    BY <2>1 DEF Shown
<1>5. \A i \in Shown(d) : Included(d, i)
  BY <1>3, <1>4 DEF Owned, Included
<1> QED
  BY <1>3, <1>5 DEF Reconciled, Owned, d, names

LEMMA ObservedOwned ==
    ASSUME NEW b, Owned(b), NEW p \in Policies, NEW i \in Identities
    PROVE  Owned(ObservedOOM(b, p, i))
<1> DEFINE names == [o \in {i} |-> {"ooms"}]
           inc == [b.includes EXCEPT ![p] = @ \cup {i}]
           c == [b EXCEPT !.includes[p] = @ \cup {i}]
           d == Count(c, names)
<1>1. {i} \in SUBSET Owners
  BY DEF Owners
<1>2. names \in [{i} -> SUBSET CounterNames]
  BY DEF CounterNames
<1>3. /\ b.includes \in [Policies -> SUBSET Identities]
      /\ b.gauges \in [Owners -> SUBSET GaugeNames]
      /\ b.counters \in [Owners -> SUBSET CounterNames]
      /\ b.registry \subseteq Owners \X Names
  BY DEF PubRecords, Owned
<1>4. /\ inc \in [Policies -> SUBSET Identities] /\ inc[p] = b.includes[p] \cup {i}
      /\ \A q \in Policies \ {p} : inc[q] = b.includes[q]
  BY <1>3
<1>5. c \in PubRecords /\ c.includes = inc /\ c.gauges = b.gauges
      /\ c.counters = b.counters /\ c.registry = b.registry
  BY <1>3, <1>4 DEF PubRecords, Owned
<1>6. ObservedOOM(b, p, i) = d
  BY DEF ObservedOOM
<1> HIDE DEF names, c, inc
<1>7. Tracked(c) /\ Shown(c) = Shown(b)
  BY <1>5 DEF Tracked, Shown, Owned
<1>8. d \in PubRecords /\ Tracked(d) /\ d.includes = c.includes
      /\ Shown(d) \subseteq Shown(c) \cup {i}
  BY <1>1, <1>2, <1>5, <1>7, CountTracked
<1> HIDE DEF d
<1>9. ASSUME NEW j \in Shown(d) PROVE Included(d, j)
  <2>1. CASE j = i
    BY <1>4, <1>5, <1>8, <2>1 DEF Included
  <2>2. CASE j # i
    <3>1. PICK q \in Policies : j \in b.includes[q]
      BY <1>7, <1>8, <2>2 DEF Owned, Included
    <3>2. j \in inc[q]
      BY <1>4, <3>1
    <3> QED
      BY <1>5, <1>8, <3>2 DEF Included
  <2> QED
    BY <2>1, <2>2
<1> QED
  BY <1>6, <1>8, <1>9 DEF Owned

LEMMA PublishOwned ==
    ASSUME NEW b, Owned(b), NEW p \in Policies, NEW ids \in SUBSET Identities,
           NEW report \in [ids -> Reports], NEW held \in SUBSET Members,
           NEW found, NEW autoscaled
    PROVE  Owned(Publish(b, p, report, held, found, autoscaled))
<1> DEFINE D == ids \cup {p}
           gauges == [o \in D |->
                         IF o = p THEN {"rollup"} \cup held
                         ELSE IdentityGauges(b, o, report[o], autoscaled)]
           counters == [o \in D |->
                         IF o = p
                         THEN {n \in {"fetchFailures"} :
                                  \E i \in ids : report[i].fetchFailed}
                         ELSE IdentityCounters(o, report[o], found)]
           r == Replace(b, gauges)
           c == Count(r, counters)
<1>1. Publish(b, p, report, held, found, autoscaled) = Include(c, p, ids)
  BY DEF Publish
<1>2. D \in SUBSET Owners
  BY DEF Owners
<1>3. gauges \in [D -> SUBSET GaugeNames]
  <2>1. {"rollup"} \cup held \subseteq GaugeNames
    BY DEF GaugeNames
  <2>2. ASSUME NEW i \in ids
        PROVE  IdentityGauges(b, i, report[i], autoscaled) \subseteq GaugeNames
    <3>1. report[i].blockedOn \in Steps \cup {""}
      BY <2>2 DEF Reports
    <3>2. {report[i].blockedOn} \ {""} \subseteq GaugeNames
      BY <3>1, Zenon DEF GaugeNames
    <3> QED
      BY <3>2 DEF IdentityGauges, GaugeNames
  <2> QED
    BY <2>1, <2>2
<1>4. counters \in [D -> SUBSET CounterNames]
  <2>1. {n \in {"fetchFailures"} : \E i \in ids : report[i].fetchFailed}
          \subseteq CounterNames
    BY DEF CounterNames
  <2>2. \A i \in ids : IdentityCounters(i, report[i], found) \subseteq CounterNames
    BY DEF IdentityCounters, CounterNames
  <2> QED
    BY <2>1, <2>2
<1> HIDE DEF D, gauges, counters
<1>5. r \in PubRecords /\ Tracked(r) /\ r.includes = b.includes
      /\ Shown(r) \subseteq Shown(b) \cup D
  BY <1>2, <1>3, ReplaceTracked DEF Owned
<1> HIDE DEF r
<1>6. c \in PubRecords /\ Tracked(c) /\ c.includes = r.includes
      /\ Shown(c) \subseteq Shown(r) \cup D
  BY <1>2, <1>4, <1>5, CountTracked
<1> HIDE DEF c
<1>7. p \notin Shown(c)
  <2>1. Policies \cap Identities = {}
    BY KeysAssumption
  <2> QED
    BY <2>1 DEF Shown
<1>8. \A i \in Shown(c) : Included(c, i) \/ i \in ids
  BY <1>5, <1>6, <1>7 DEF Owned, Included, D
<1> QED
  BY <1>1, <1>6, <1>8, IncludeTracked DEF Owned

-----------------------------------------------------------------------------
(* The composition of the passes, the publisher and the OOM watcher *)

\* A kill the watcher works on has a Policy and an identity.
KillOK ==
    /\ kill \in [next : {"none", "count", "trigger"},
                 policy : Policies \cup {NoPolicy}, id : Identities \cup {NoPolicy}]
    /\ kill.next # "none" => kill.policy \in Policies /\ kill.id \in Identities

SInv == IInv /\ KillOK /\ Owned(pub)

LEMMA InitSInv == SInit => SInv
<1> SUFFICES ASSUME SInit PROVE SInv
  OBVIOUS
<1>1. IInv
  BY InitIInv DEF SInit
<1>2. KillOK
  BY DEF SInit, KillOK, NoKill
<1>3. Owned(pub)
  <2>1. /\ pub.includes = [p \in Policies |-> {}] /\ pub.gauges = [o \in Owners |-> {}]
        /\ pub.counters = [o \in Owners |-> {}] /\ pub.registry = {}
    BY DEF SInit, NoSeries
  <2>2. pub \in PubRecords
    BY DEF SInit, NoSeries, PubRecords
  <2>3. Tracked(pub) /\ Shown(pub) = {}
    BY <2>1 DEF Tracked, Shown, Owners
  <2> QED
    BY <2>2, <2>3 DEF Owned
<1> QED
  BY <1>1, <1>2, <1>3 DEF SInv

\* A trigger only adds to the queue.
LEMMA TriggerStep ==
    ASSUME IInv, NEW p \in Policies, Trigger(p)
    PROVE  IInv'
<1>1. /\ queued' = queued \cup {p}
      /\ UNCHANGED <<policy, governs, live, now, events, members, claims, failedBy,
                     wake, unlisted, pass>>
  BY DEF Trigger, World, Ledger_
<1>2. RetryIsScheduled'
  BY <1>1, SameLedger DEF IInv
<1> QED
  BY <1>1, <1>2 DEF IInv, TypeOK, PassShape, KeptIsClaimed

LEMMA NextSInv ==
    ASSUME SInv, [SNext]_svars
    PROVE  SInv'
<1>0. IInv /\ KillOK /\ Owned(pub)
  BY DEF SInv
<1>1. ASSUME NEW p \in Policies, SReconcile(p)
      PROVE  SInv'
  <2>1. Reconcile(p)
    BY <1>1 DEF SReconcile, Forget, EndReconcile, PublishSeries, Elsewhere, Reconcile
  <2>2. IInv'
    BY <1>0, <2>1, ReconcileStep
  <2>3. kill' = kill
    BY <1>1 DEF SReconcile, Forget, EndReconcile, PublishSeries, Elsewhere
  <2>4. Owned(pub)'
    <3>1. CASE Forget(p)
      BY <1>0, <3>1, ForgetOwned DEF Forget
    <3>2. CASE EndReconcile(p)
      BY <1>0, <3>2, ReconciledOwned DEF EndReconcile
    <3>3. CASE PublishSeries(p)
      <4>1. /\ pass[p].ids \in SUBSET Identities
            /\ pass[p].run \cup pass[p].backedOff \subseteq Members
            /\ pass[p].report \in [pass[p].ids -> Reports]
        BY <1>0, <3>3
        DEF IInv, TypeOK, PassOK, PublishSeries, PublishPass, At
      <4> DEFINE computed == {i \in pass[p].ids : pass[p].report[i].computed}
      <4>2. PICK found \in SUBSET computed, autoscaled \in SUBSET computed,
                 held \in SUBSET (pass[p].run \cup pass[p].backedOff) :
               pub' = Publish(pub, p, pass[p].report, held, found, autoscaled)
        BY <3>3 DEF PublishSeries
      <4>3. held \in SUBSET Members
        BY <4>1, <4>2
      <4> QED
        BY <1>0, <4>1, <4>2, <4>3, PublishOwned
    <3>4. CASE Elsewhere(p)
      BY <1>0, <3>4 DEF Elsewhere
    <3> QED
      BY <1>1, <3>1, <3>2, <3>3, <3>4 DEF SReconcile
  <2> QED
    BY <1>0, <2>2, <2>3, <2>4 DEF SInv, KillOK
<1>2. ASSUME NEW i \in Identities, Kill(i)
      PROVE  SInv'
  <2>1. /\ governs[i] \in Policies
        /\ kill' = [next |-> "count", policy |-> governs[i], id |-> i]
        /\ UNCHANGED <<vars, pub>>
    BY <1>0, <1>2 DEF Kill, IInv, TypeOK
  <2>2. IInv'
    BY <1>0, <2>1, StutterIInv
  <2>3. KillOK'
    BY <2>1 DEF KillOK
  <2> QED
    BY <1>0, <2>1, <2>2, <2>3 DEF SInv
<1>3. CASE CountKill
  <2>1. /\ kill.next = "count" /\ pub' = ObservedOOM(pub, kill.policy, kill.id)
        /\ kill' = [kill EXCEPT !.next = "trigger"]
        /\ UNCHANGED vars
    BY <1>3 DEF CountKill
  <2>2. kill.policy \in Policies /\ kill.id \in Identities
    BY <1>0, <2>1 DEF KillOK
  <2>3. KillOK'
    BY <1>0, <2>1, <2>2 DEF KillOK
  <2>4. Owned(pub')
    BY <1>0, <2>1, <2>2, ObservedOwned
  <2> QED
    BY <1>0, <2>1, <2>3, <2>4, StutterIInv DEF SInv
<1>4. CASE TriggerPass
  <2>1. /\ kill.next = "trigger" /\ Trigger(kill.policy) /\ kill' = NoKill
        /\ pub' = pub
    BY <1>4 DEF TriggerPass
  <2>2. kill.policy \in Policies
    BY <1>0, <2>1 DEF KillOK
  <2>3. IInv'
    BY <1>0, <2>1, <2>2, TriggerStep
  <2>4. KillOK'
    BY <2>1 DEF KillOK, NoKill
  <2> QED
    BY <1>0, <2>1, <2>3, <2>4 DEF SInv
<1>5. CASE Outside
  <2>1. UNCHANGED <<pub, kill>>
    BY <1>5 DEF Outside
  <2>2. IInv'
    BY <1>0, <1>5, OutsideStep DEF Outside
  <2> QED
    BY <1>0, <2>1, <2>2 DEF SInv, KillOK
<1>6. CASE UNCHANGED svars
  BY <1>0, <1>6, StutterIInv DEF svars, SInv, KillOK
<1> QED
  BY <1>1, <1>2, <1>3, <1>4, <1>5, <1>6 DEF SNext

\* The passes keep their invariant with the publisher and the watcher beside
\* them, and the publisher its own.
THEOREM SeriesInvariant == SSpec => []SInv
<1>1. SInv /\ [SNext]_svars => SInv'
  BY NextSInv
<1> QED
  BY InitSInv, <1>1, PTL DEF SSpec

\* "No series outlives what it describes", for any number of Policies and
\* identities, whatever passes, deletions and kills interleave (publish,
\* forget, observedOOM, dropLocked).
THEOREM SeriesAlwaysOwned == SSpec => []SeriesAreOwned
<1>1. SInv => SeriesAreOwned
  <2> SUFFICES ASSUME SInv PROVE SeriesAreOwned
    OBVIOUS
  <2>1. pub \in PubRecords /\ Tracked(pub) /\ \A i \in Shown(pub) : Included(pub, i)
    BY DEF SInv, Owned
  <2>2. pub.registry =
          SeriesOf([o \in Owners |-> pub.gauges[o] \cup pub.counters[o]])
    BY <2>1, TrackedIsSeries
  <2>3. \A i \in Identities :
           pub.gauges[i] \cup pub.counters[i] # {} => Included(pub, i)
    BY <2>1 DEF Shown
  <2> QED
    BY <2>2, <2>3 DEF SeriesAreOwned
<1> QED
  BY SeriesInvariant, <1>1, PTL

\* The passes of the composition are passes as Passes describes them, but for
\* the triggers: what the ledger promises of its entries holds there too.
THEOREM ComposedLedger == SSpec => [](KeptIsClaimed /\ RetryIsScheduled)
  BY SeriesInvariant, PTL DEF SInv, IInv
=============================================================================
