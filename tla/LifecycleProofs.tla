-------------------------- MODULE LifecycleProofs --------------------------
(***************************************************************************)
(* The safety of Lifecycle for every set of Policies, containers, informer *)
(* lags and faults and every choice of the durations.                      *)
(*                                                                         *)
(* The argument: whatever copy of the object a process holds (a cache, a   *)
(* pass, the webhook's stub request), it is no younger than the stored     *)
(* one, and equal to it when the revisions agree.  A stored object is      *)
(* therefore the judged one when a delete succeeds, and a patch computed   *)
(* from any copy keeps the stored label, creation and stamp in order.      *)
(***************************************************************************)
EXTENDS Lifecycle, WLRProofs, FiniteSetTheorems

-----------------------------------------------------------------------------
(* The inductive invariant *)

\* A copy c of the object, next to the stored o at revision r and instant t,
\* ca being the last Computed record.
CopyOK(c, r, o, t, ca) ==
    /\ c.rv <= r
    /\ c.created <= t
    /\ c.label = c.policy
    /\ ~Exists(c) => c = Missing
    /\ Stamped(c, ca)
    /\ Exists(o) => c.created <= o.created /\ (c.rv = o.rv => c = o)

Copies == {obj, ccache.obj, wcache.obj, stub.known}
             \cup {pass[p].known : p \in Policies}

CopiesOK == \A c \in Copies : CopyOK(c, rev, obj, now, computedAt)

\* A pass about to record holds a decision made at an instant of the past.
RecordsPast ==
    \A p \in Policies : pass[p].pc = "record" =>
        pass[p].input \in Inputs /\ pass[p].at \in 1..now

\* A stored object has been created and revised.
ObjectRevised == Exists(obj) => obj.created >= 1 /\ obj.rv # 0

IInv ==
    /\ TypeOK
    /\ now >= 1
    /\ ObjectRevised
    /\ CopiesOK
    /\ RecordsPast

-----------------------------------------------------------------------------
(* What a step may do to the stored object *)

\* A write that took effect.
Put ==
    /\ rev' = rev + 1
    /\ obj'.rv = rev'
    /\ Exists(obj')
    /\ obj'.label = obj'.policy
    /\ obj'.created = IF Exists(obj) THEN obj.created ELSE now
    /\ Stamped(obj', computedAt')

Moved ==
    /\ now <= now'
    /\ computedAt <= computedAt'
    /\ \/ rev' = rev /\ obj' = obj
       \/ rev' = rev /\ obj' = Missing
       \/ Put

\* Every copy is a well-formed object.
LEMMA CopiesType ==
    ASSUME TypeOK
    PROVE  Copies \subseteq Objects
<1>1. obj \in Objects /\ ccache.obj \in Objects /\ wcache.obj \in Objects
      /\ stub.known \in Objects
  BY DEF TypeOK
<1>2. \A p \in Policies : pass[p].known \in Objects
  <2> TAKE p \in Policies
  <2>1. pass[p] \in Passes
    BY DEF TypeOK
  <2> QED
    BY <2>1 DEF Passes
<1> QED
  BY <1>1, <1>2 DEF Copies

\* A stamp in order stays in order when something is computed later.
LEMMA StampedLater ==
    ASSUME NEW o \in Objects, NEW a \in Nat, NEW b \in Nat, a <= b, Stamped(o, a)
    PROVE  Stamped(o, b)
<1>1. /\ Later(a, 1) <= Later(b, 1) /\ Later(a, o.created) <= Later(b, o.created)
      /\ Later(a, 1) \in Nat /\ Later(b, 1) \in Nat
      /\ Later(a, o.created) \in Nat /\ Later(b, o.created) \in Nat
  BY InstantsType DEF Later
<1>2. o.observedAt <= Later(b, 1)
  BY <1>1, InstantsType DEF Stamped
<1>3. o.servableUntil # 0 => b # 0
  BY DEF Stamped
<1>4. o.servableUntil # 0 => o.servableUntil <= Later(b, o.created) + LongestWindow
  BY <1>1, InstantsType, Windows DEF Stamped
<1> QED
  BY <1>2, <1>3, <1>4 DEF Stamped

\* The absent object is in order next to anything.
LEMMA MissingOK ==
    ASSUME NEW r \in Nat, NEW o \in Objects, NEW t \in Nat, NEW ca \in Nat,
           Exists(o) => o.rv # 0
    PROVE  CopyOK(Missing, r, o, t, ca)
<1>1. Stamped(Missing, ca)
  BY LaterIsMax DEF Stamped, Missing
<1>2. Missing.rv = 0 /\ Missing.created = 0 /\ Missing.label = Missing.policy
  BY DEF Missing
<1> QED
  BY <1>1, <1>2, InstantsType DEF CopyOK

\* A copy in order stays in order across a step that moves the object.
LEMMA CopyMoves ==
    ASSUME NEW c \in Objects, TypeOK, TypeOK', Moved,
           CopyOK(c, rev, obj, now, computedAt)
    PROVE  CopyOK(c, rev', obj', now', computedAt')
<1>1. /\ rev \in Nat /\ rev' \in Nat /\ now \in Nat /\ now' \in Nat
      /\ computedAt \in Nat /\ computedAt' \in Nat
      /\ obj \in Objects /\ obj' \in Objects
      /\ c.rv \in Nat /\ c.created \in Nat
  BY DEF TypeOK, Objects
<1>2. c.rv <= rev' /\ c.created <= now'
  BY <1>1 DEF Moved, Put, CopyOK
<1>3. Stamped(c, computedAt')
  BY <1>1, StampedLater DEF Moved, CopyOK
<1>4. ASSUME Exists(obj')
      PROVE  c.created <= obj'.created /\ (c.rv = obj'.rv => c = obj')
  <2>1. CASE obj' = obj
    BY <1>4, <2>1 DEF CopyOK
  <2>2. CASE obj' = Missing
    BY <1>4, <2>2 DEF Exists, Missing
  <2>3. CASE Put
    BY <1>1, <2>3 DEF Put, CopyOK
  <2> QED
    BY <2>1, <2>2, <2>3 DEF Moved
<1> QED
  BY <1>2, <1>3, <1>4 DEF CopyOK

\* What a step leaves in the caches and passes is what they had, the stored
\* object or nothing.
Copied == Copies' \subseteq Copies \cup {obj', Missing}

\* Such a step preserves the invariant.
LEMMA Preserved ==
    ASSUME IInv, TypeOK', Moved, Copied, RecordsPast'
    PROVE  IInv'
<1>1. /\ rev \in Nat /\ rev' \in Nat /\ now \in Nat /\ now' \in Nat
      /\ computedAt \in Nat /\ computedAt' \in Nat
      /\ obj \in Objects /\ obj' \in Objects
  BY DEF TypeOK, IInv
<1>2. now' >= 1
  BY <1>1 DEF Moved, IInv
<1>3. obj'.created \in Nat /\ obj'.rv \in Nat
  BY <1>1 DEF Objects
<1>4. Exists(obj') => obj'.created >= 1 /\ obj'.created <= now'
  <2>0. obj \in Copies /\ CopyOK(obj, rev, obj, now, computedAt)
    BY DEF IInv, Copies, CopiesOK
  <2>1. obj.created \in Nat /\ obj.created <= now
    BY <2>0, <1>1 DEF CopyOK, Objects
  <2>2. CASE obj' = obj
    BY <2>1, <2>2, <1>1 DEF IInv, ObjectRevised, Moved
  <2>3. CASE obj' = Missing
    BY <2>3 DEF Exists, Missing
  <2>4. CASE Put
    BY <2>1, <2>4, <1>1 DEF IInv, ObjectRevised, Moved, Put
  <2> QED
    BY <2>2, <2>3, <2>4 DEF Moved
<1>5. ASSUME NEW c \in Copies
      PROVE  CopyOK(c, rev', obj', now', computedAt')
  <2>1. c \in Objects
    BY CopiesType DEF IInv
  <2>2. CopyOK(c, rev, obj, now, computedAt)
    BY DEF IInv, CopiesOK
  <2> QED
    BY <2>1, <2>2, CopyMoves DEF IInv
<1>6. Exists(obj') => obj'.rv # 0
  <2>0. obj \in Copies /\ Missing \in Objects
    BY MissingType DEF Copies
  <2>1. Exists(obj) => obj.rv # 0
    BY DEF IInv, ObjectRevised
  <2>2. CASE obj' = obj
    BY <2>1, <2>2
  <2>3. CASE obj' = Missing
    BY <2>3 DEF Exists, Missing
  <2>4. CASE Put
    BY <2>4, <1>1 DEF Put
  <2> QED
    BY <2>2, <2>3, <2>4 DEF Moved
<1>7. CopyOK(obj', rev', obj', now', computedAt')
  <2>1. CASE obj' = obj
    BY <2>1, <1>5 DEF Copies
  <2>2. CASE obj' = Missing
    BY <2>2, <1>1, <1>6, MissingOK
  <2>3. CASE Put
    BY <2>3, <1>1, <1>3, <1>4 DEF Put, CopyOK
  <2> QED
    BY <2>1, <2>2, <2>3 DEF Moved
<1>8. CopyOK(Missing, rev', obj', now', computedAt')
  BY <1>1, <1>6, MissingOK
<1>9. CopiesOK'
  BY <1>5, <1>7, <1>8 DEF CopiesOK, Copied
<1> QED
  BY <1>2, <1>4, <1>6, <1>9 DEF IInv, ObjectRevised

-----------------------------------------------------------------------------
(* The API server's calls *)

\* A copy is in order, and so is the absent object.
LEMMA HeldOK ==
    ASSUME IInv, NEW c \in Copies \cup {Missing}
    PROVE  /\ c \in Objects
           /\ CopyOK(c, rev, obj, now, computedAt)
<1>1. CASE c \in Copies
  BY <1>1, CopiesType DEF IInv, CopiesOK
<1>2. CASE c = Missing
  BY <1>2, MissingType, MissingOK DEF IInv, TypeOK, ObjectRevised
<1> QED
  BY <1>1, <1>2

\* A patch that keeps metadata, label and stamp in order.
LEMMA StoreMoves ==
    ASSUME IInv, Exists(obj), NEW o \in Objects, o.uid = obj.uid,
           o.created = obj.created, o.label = o.policy,
           computedAt' \in Nat, computedAt <= computedAt',
           Stamped(o, computedAt'), Store(o), now' = now
    PROVE  Moved /\ rev' \in Nat /\ obj' \in Objects /\ Exists(obj')
<1>1. rev \in Nat /\ now \in Nat /\ obj \in Objects
  BY DEF IInv, TypeOK
<1>2. CASE o = obj
  BY <1>1, <1>2 DEF Store, Moved
<1>3. CASE o # obj
  <2>1. rev' = rev + 1 /\ obj' = [o EXCEPT !.rv = rev + 1]
    BY <1>3 DEF Store
  <2>2. /\ obj' \in Objects /\ obj'.rv = rev + 1
        /\ obj'.uid = o.uid /\ obj'.created = o.created
        /\ obj'.label = o.label /\ obj'.policy = o.policy
        /\ obj'.observedAt = o.observedAt /\ obj'.servableUntil = o.servableUntil
    BY <1>1, <2>1, RevisedType
  <2>3. Stamped(obj', computedAt')
    BY <2>2 DEF Stamped
  <2>4. Exists(obj')
    BY <2>2 DEF Exists
  <2>5. Put
    BY <2>1, <2>2, <2>3, <2>4 DEF Put
  <2> QED
    BY <1>1, <2>1, <2>2, <2>4, <2>5 DEF Moved
<1> QED
  BY <1>2, <1>3

\* A status patch from a held copy.
LEMMA PatchMoves ==
    ASSUME IInv, Exists(obj), NEW known \in Copies \cup {Missing},
           NEW desired \in Objects,
           computedAt' \in Nat, computedAt <= computedAt',
           Desirable(desired, computedAt', known.created),
           Store(PatchStatus(obj, known, desired)), now' = now
    PROVE  Moved /\ rev' \in Nat /\ obj' \in Objects /\ Exists(obj')
<1> DEFINE o == PatchStatus(obj, known, desired)
<1>1. obj \in Objects /\ computedAt \in Nat /\ known \in Objects
  BY HeldOK DEF IInv, TypeOK
<1>2. /\ o \in Objects /\ o.uid = obj.uid /\ o.created = obj.created
      /\ o.policy = obj.policy /\ o.label = obj.label
  BY <1>1, PatchStatusType
<1>3. CopyOK(obj, rev, obj, now, computedAt)
  BY HeldOK DEF Copies
<1>4. o.label = o.policy
  BY <1>2, <1>3 DEF CopyOK
<1>5. known.created \in Nat /\ known.created <= obj.created
  BY <1>1, HeldOK, InstantsType DEF CopyOK
<1>6. obj.created \in Nat /\ 1 <= obj.created
  BY <1>1, InstantsType DEF IInv, ObjectRevised
<1>7. Stamped(obj, computedAt')
  BY <1>1, <1>3, StampedLater DEF CopyOK
<1>8. Stamped(o, computedAt')
  BY <1>1, <1>5, <1>6, <1>7, PatchStatusBound
<1> HIDE DEF o
<1>9. Store(o)
  BY DEF o
<1> QED
  BY <1>2, <1>4, <1>8, <1>9, StoreMoves

\* A claim from a held copy, or a blind one.
LEMMA ClaimMoves ==
    ASSUME IInv, Exists(obj), NEW known \in Copies \cup {Missing},
           NEW p \in Policies, Store(Claim(obj, known, p)),
           now' = now, computedAt' = computedAt
    PROVE  Moved /\ rev' \in Nat /\ obj' \in Objects /\ Exists(obj')
<1> DEFINE o == Claim(obj, known, p)
<1>1. obj \in Objects /\ known \in Objects /\ computedAt \in Nat
  BY HeldOK DEF IInv, TypeOK
<1>2. CopyOK(obj, rev, obj, now, computedAt) /\ known.policy = known.label
  BY HeldOK DEF Copies, CopyOK
<1>3. /\ o \in Objects /\ o.uid = obj.uid /\ o.created = obj.created
      /\ o.label = o.policy /\ o.observedAt = obj.observedAt
      /\ o.servableUntil = obj.servableUntil
  BY <1>1, <1>2, ClaimType DEF CopyOK
<1>4. Stamped(o, computedAt')
  BY <1>2, <1>3 DEF CopyOK, Stamped
<1> HIDE DEF o
<1>5. Store(o)
  BY DEF o
<1> QED
  BY <1>1, <1>3, <1>4, <1>5, StoreMoves

\* A create.
LEMMA CreateMoves ==
    ASSUME IInv, ~Exists(obj), NEW p \in Policies, Create(p),
           now' = now, computedAt' = computedAt
    PROVE  Moved /\ rev' \in Nat /\ obj' \in Objects /\ Exists(obj')
<1>1. rev \in Nat /\ now \in Nat /\ computedAt \in Nat
  BY DEF IInv, TypeOK
<1>2. rev' = rev + 1 /\ obj' = NewObject(p, rev + 1, now)
  BY DEF Create
<1>3. obj' \in Objects
  BY <1>1, <1>2, NewObjectType
<1>4. /\ obj'.uid = rev + 1 /\ obj'.rv = rev + 1 /\ obj'.created = now
      /\ obj'.policy = p /\ obj'.label = p
      /\ obj'.observedAt = 0 /\ obj'.servableUntil = 0
  BY <1>2 DEF NewObject, Missing
<1>5. Stamped(obj', computedAt')
  BY <1>1, <1>4, LaterIsMax DEF Stamped
<1>6. Put /\ Exists(obj')
  BY <1>1, <1>2, <1>4, <1>5 DEF Put, Exists
<1> QED
  BY <1>1, <1>2, <1>3, <1>6 DEF Moved

\* A conditional delete.
LEMMA DeleteMoves ==
    ASSUME IInv, NEW known, Delete(known), now' = now, computedAt' = computedAt
    PROVE  Moved /\ rev' \in Nat /\ obj' \in Objects
BY MissingType DEF IInv, TypeOK, Delete, Moved

\* Leaving the object alone.
LEMMA StaysMoves ==
    ASSUME IInv, UNCHANGED <<rev, obj>>, now' = now,
           computedAt' \in Nat, computedAt <= computedAt'
    PROVE  Moved /\ rev' \in Nat /\ obj' \in Objects
BY DEF IInv, TypeOK, Moved

-----------------------------------------------------------------------------
(* The steps of a pass *)

\* A pass keeps, drops or takes o as the object it knows.
PassMoves(o) ==
    /\ pass' \in [Policies -> Passes]
    /\ \A q \in Policies :
          /\ pass'[q].known \in {pass[q].known, Missing, o}
          /\ pass'[q].pc = "record" => pass'[q] = pass[q]

\* The idle pass is well formed.
LEMMA IdleType == Idle \in Passes /\ Idle.known = Missing /\ Idle.pc = "idle"
BY MissingType DEF Idle, Passes, PassSteps, Standings

\* Replacing p's pass by one that is not about to record.
LEMMA PassSet ==
    ASSUME TypeOK, NEW p \in Policies, NEW x \in Passes, NEW o \in Objects,
           x.known \in {pass[p].known, Missing, o}, x.pc # "record",
           pass' = [pass EXCEPT ![p] = x]
    PROVE  PassMoves(o)
BY DEF TypeOK, PassMoves

\* The pass goes on with o.
LEMMA KnownMoves ==
    ASSUME TypeOK, NEW p \in Policies, NEW step \in PassSteps, step # "record",
           NEW o \in Objects, Known(p, step, o)
    PROVE  PassMoves(o)
<1> DEFINE x == [pass[p] EXCEPT !.pc = step, !.known = o]
<1>1. pass[p] \in Passes /\ pass \in [Policies -> Passes]
  BY DEF TypeOK
<1>2. x \in Passes /\ x.known = o /\ x.pc = step
  BY <1>1 DEF Passes
<1>3. pass' = [pass EXCEPT ![p] = x]
  BY <1>1 DEF Known, Passes
<1> HIDE DEF x
<1> QED
  BY <1>2, <1>3, PassSet

\* The pass goes on with what it holds.
LEMMA GotoMoves ==
    ASSUME TypeOK, NEW p \in Policies, NEW step \in PassSteps, step # "record",
           Goto(p, step)
    PROVE  PassMoves(Missing)
<1> DEFINE x == [pass[p] EXCEPT !.pc = step]
<1>1. pass[p] \in Passes /\ pass \in [Policies -> Passes]
  BY DEF TypeOK
<1>2. x \in Passes /\ x.known = pass[p].known /\ x.pc = step
  BY <1>1 DEF Passes
<1>3. pass' = [pass EXCEPT ![p] = x]
  BY <1>1 DEF Goto
<1> HIDE DEF x
<1> QED
  BY <1>2, <1>3, MissingType, PassSet

\* The pass drops the object.
LEMMA ToSweepMoves ==
    ASSUME TypeOK, NEW p \in Policies, ToSweep(p)
    PROVE  PassMoves(Missing)
<1> DEFINE x == [Idle EXCEPT !.pc = "sweep", !.takenAt = pass[p].takenAt,
                             !.standing = pass[p].standing]
<1>1. pass[p] \in Passes /\ pass \in [Policies -> Passes]
  BY DEF TypeOK
<1>2. pass[p].takenAt \in Nat /\ pass[p].standing \in Standings
  BY <1>1 DEF Passes
<1>3. x \in Passes /\ x.known = Missing /\ x.pc = "sweep"
  BY <1>2, IdleType DEF Passes, PassSteps
<1>4. pass' = [pass EXCEPT ![p] = x]
  BY DEF ToSweep
<1> HIDE DEF x
<1> QED
  BY <1>3, <1>4, MissingType, PassSet

\* The pass ends.
LEMMA EndMoves ==
    ASSUME TypeOK, NEW p \in Policies, pass' = [pass EXCEPT ![p] = Idle]
    PROVE  PassMoves(Missing)
BY IdleType, MissingType, PassSet

\* No pass moves.
LEMMA StillMoves ==
    ASSUME TypeOK, pass' = pass
    PROVE  PassMoves(Missing)
BY DEF TypeOK, PassMoves

\* A step of this shape preserves the invariant.
LEMMA PassPreserves ==
    ASSUME IInv, Moved, rev' \in Nat, obj' \in Objects, now' = now,
           events' \in Nat, computedAt' \in Nat,
           pol' \in [Policies -> PolicyStates],
           UNCHANGED <<members, inputs, ccache, wcache, stub>>,
           NEW o \in Copies \cup {obj', Missing}, PassMoves(o)
    PROVE  IInv'
<1>1. TypeOK'
  BY DEF IInv, TypeOK, PassMoves
<1>2. RecordsPast'
  BY DEF IInv, RecordsPast, PassMoves
<1>3. Copied
  <2>1. \A q \in Policies : pass'[q].known \in Copies \cup {obj', Missing}
    BY DEF PassMoves, Copies
  <2>2. ccache'.obj \in Copies /\ wcache'.obj \in Copies /\ stub'.known \in Copies
    BY DEF Copies
  <2> QED
    BY <2>1, <2>2 DEF Copied, Copies
<1> QED
  BY <1>1, <1>2, <1>3, Preserved

-----------------------------------------------------------------------------
(* One lemma per step of a pass *)

\* What a cache read returns is a copy.
LEMMA ReadsCopies ==
    ASSUME TypeOK
    PROVE  /\ Controller.obj \in Copies /\ Webhook.obj \in Copies
           /\ Controller.pol \in [Policies -> PolicyStates]
           /\ Controller.members \in MemberSets
BY DEF TypeOK, Controller, Webhook, Seen, Copies

\* The inventory's standing is one of the four.
LEMMA StandingType ==
    ASSUME TypeOK, NEW p \in Policies
    PROVE  Standing(p, Controller) \in Standings
<1>1. Controller.pol[p].covers \in BOOLEAN
  BY ReadsCopies DEF PolicyStates
<1> QED
  BY <1>1 DEF Standing, Standings

\* The Policy's finalizer, then the snapshot.
LEMMA TakeSnapshotStep ==
    ASSUME IInv, NEW p \in Policies, TakeSnapshot(p)
    PROVE  IInv'
<1>0. TypeOK /\ pol \in [Policies -> PolicyStates]
  BY DEF IInv, TypeOK
<1> DEFINE step == FirstStep(p)
           c == Controller.obj
           running == CASE step = "claim" -> Controller.members.running
                        [] step = "fetch" -> c.observed
                        [] OTHER -> {}
           known == IF step \in {"conflict", "fetch"} THEN c ELSE Missing
           x == [Idle EXCEPT !.pc = step, !.takenAt = now,
                             !.standing = Standing(p, Controller),
                             !.running = running, !.known = known]
<1>1. step \in {"conflict", "claim", "fetch", "sweep"}
  BY DEF FirstStep
<1>2. c \in Copies /\ c \in Objects /\ known \in {c, Missing} /\ known \in Objects
  BY <1>0, ReadsCopies, CopiesType, MissingType
<1>3. running \in SUBSET Names
  BY <1>0, <1>1, <1>2, ReadsCopies DEF MemberSets, Objects
<1>4. now \in Nat /\ Standing(p, Controller) \in Standings
  BY <1>0, StandingType DEF TypeOK
<1>5. pass' = [pass EXCEPT ![p] = x]
  BY DEF TakeSnapshot
<1> HIDE DEF step, c, running, known
<1>6. x \in Passes /\ x.known = known /\ x.pc = step
  BY <1>1, <1>2, <1>3, <1>4, IdleType DEF Passes, PassSteps
<1> HIDE DEF x
<1>7. PassMoves(c)
  BY <1>0, <1>1, <1>2, <1>5, <1>6, PassSet
<1>8. pol' \in [Policies -> PolicyStates]
  BY <1>0 DEF TakeSnapshot, AddFinalizer, PolicyStates, Phases
<1>9. /\ UNCHANGED <<now, events, rev, obj, members, inputs, ccache, wcache,
                     stub, computedAt>>
      /\ Moved
  BY StaysMoves DEF TakeSnapshot, IInv, TypeOK
<1> QED
  BY <1>0, <1>2, <1>7, <1>8, <1>9, PassPreserves DEF TypeOK

\* A pass's status write into the stored object, if there is one.
LEMMA PassPatch ==
    ASSUME IInv, NEW known \in Copies, NEW desired \in Objects,
           computedAt' \in Nat, computedAt <= computedAt', now' = now,
           Exists(obj) => Desirable(desired, computedAt', known.created),
           IF Exists(obj) THEN Store(PatchStatus(obj, known, desired))
           ELSE UNCHANGED <<rev, obj>>
    PROVE  Moved /\ rev' \in Nat /\ obj' \in Objects
BY PatchMoves, StaysMoves

\* The object a pass holds.
LEMMA PassKnown ==
    ASSUME IInv, NEW p \in Policies
    PROVE  /\ pass[p] \in Passes
           /\ pass[p].known \in Copies /\ pass[p].known \in Objects
           /\ Stamped(pass[p].known, computedAt)
<1>1. pass[p] \in Passes /\ pass[p].known \in Copies
  BY DEF IInv, TypeOK, Copies
<1> QED
  BY <1>1, HeldOK DEF CopyOK

\* recordConflicted.
LEMMA RecordConflictedStep ==
    ASSUME IInv, NEW p \in Policies, RecordConflicted(p)
    PROVE  IInv'
<1> DEFINE known == pass[p].known
           d == [outcome |-> "Conflicted", departed |-> FALSE, recs |-> NoRecs]
           desired == RecordStatus(known, d, now)
<1>1. /\ now \in Nat /\ computedAt \in Nat
      /\ known \in Copies /\ known \in Objects /\ Stamped(known, computedAt)
  BY PassKnown DEF IInv, TypeOK
<1>2. d \in Decisions /\ d.outcome # "Computed"
  BY RecsType DEF Decisions, Outcomes
<1> HIDE DEF d, known
<1>3. desired \in Objects /\ Desirable(desired, computedAt, known.created)
  BY <1>1, <1>2, RecordStatusType, RecordStatusBound
<1>4. /\ IF Exists(obj) THEN Store(PatchStatus(obj, known, desired))
         ELSE UNCHANGED <<rev, obj>>
      /\ ToSweep(p)
      /\ UNCHANGED <<now, events, pol, members, inputs, ccache, wcache, stub,
                     computedAt>>
  BY DEF RecordConflicted, d, known
<1> HIDE DEF desired
<1>5. Moved /\ rev' \in Nat /\ obj' \in Objects
  BY <1>1, <1>3, <1>4, PassPatch
<1> QED
  BY <1>1, <1>4, <1>5, ToSweepMoves, PassPreserves DEF IInv, TypeOK

\* Ensure goes on with an object it was given.
LEMMA EnsuredMoves ==
    ASSUME TypeOK, NEW p \in Policies, NEW o \in Objects, Ensured(p, o)
    PROVE  PassMoves(o)
BY KnownMoves DEF Ensured, PassSteps

\* Ensure on an object the cache lacks.
LEMMA EnsureCreateStep ==
    ASSUME IInv, NEW p \in Policies, EnsureCreate(p)
    PROVE  IInv'
<1>1. /\ TypeOK
      /\ UNCHANGED <<now, events, pol, members, inputs, ccache, wcache, stub,
                     computedAt>>
  BY DEF IInv, EnsureCreate
<1>2. CASE Exists(obj)
  <2>1. PassMoves(Missing)
    BY <1>1, <1>2, GotoMoves DEF EnsureCreate, PassSteps
  <2>2. Moved /\ rev' \in Nat /\ obj' \in Objects
    BY <1>1, <1>2, StaysMoves DEF EnsureCreate, TypeOK
  <2> QED
    BY <1>1, <2>1, <2>2, PassPreserves DEF TypeOK
<1>3. CASE ~Exists(obj)
  <2>1. Moved /\ rev' \in Nat /\ obj' \in Objects
    BY <1>1, <1>3, CreateMoves DEF EnsureCreate
  <2>2. PassMoves(obj')
    BY <1>1, <1>3, <2>1, EnsuredMoves DEF EnsureCreate
  <2> QED
    BY <1>1, <2>1, <2>2, PassPreserves DEF TypeOK
<1> QED
  BY <1>2, <1>3

\* A claim patch.
LEMMA ClaimPatchStep ==
    ASSUME IInv, NEW p \in Policies, NEW known \in Copies \cup {Missing},
           ClaimPatch(p, known),
           UNCHANGED <<now, events, pol, members, inputs, ccache, wcache, stub,
                       computedAt>>
    PROVE  IInv'
<1>1. TypeOK
  BY DEF IInv
<1>2. CASE Exists(obj)
  <2>1. Moved /\ rev' \in Nat /\ obj' \in Objects
    BY <1>2, ClaimMoves DEF ClaimPatch
  <2>2. PassMoves(obj')
    BY <1>1, <1>2, <2>1, EnsuredMoves DEF ClaimPatch
  <2> QED
    BY <1>1, <2>1, <2>2, PassPreserves DEF TypeOK
<1>3. CASE ~Exists(obj)
  <2>1. Moved /\ rev' \in Nat /\ obj' \in Objects
    BY <1>1, <1>3, StaysMoves DEF ClaimPatch, TypeOK
  <2>2. PassMoves(Missing)
    BY <1>1, <1>3, ToSweepMoves DEF ClaimPatch
  <2> QED
    BY <1>1, <2>1, <2>2, PassPreserves DEF TypeOK
<1> QED
  BY <1>2, <1>3

\* Ensure's two claims.
LEMMA EnsureClaimStep ==
    ASSUME IInv, NEW p \in Policies, EnsureBlind(p) \/ EnsureAdopt(p)
    PROVE  IInv'
<1>1. TypeOK
  BY DEF IInv
<1>2. CASE EnsureBlind(p)
  BY <1>2, ClaimPatchStep DEF EnsureBlind
<1>3. CASE EnsureAdopt(p)
  BY <1>1, <1>3, ReadsCopies, ClaimPatchStep DEF EnsureAdopt
<1> QED
  BY <1>2, <1>3

\* Ensure on an object that names p.
LEMMA EnsureOwnStep ==
    ASSUME IInv, NEW p \in Policies, EnsureOwn(p)
    PROVE  IInv'
<1>1. /\ TypeOK
      /\ UNCHANGED <<now, events, rev, obj, pol, members, inputs, ccache,
                     wcache, stub, computedAt>>
      /\ Ensured(p, Controller.obj)
  BY DEF IInv, EnsureOwn
<1>2. Controller.obj \in Copies /\ Controller.obj \in Objects
  BY <1>1, ReadsCopies, CopiesType
<1>3. PassMoves(Controller.obj)
  BY <1>1, <1>2, EnsuredMoves
<1>4. Moved /\ rev' \in Nat /\ obj' \in Objects
  BY <1>1, StaysMoves DEF TypeOK
<1> QED
  BY <1>1, <1>2, <1>3, <1>4, PassPreserves DEF TypeOK

\* Ensure's status write.
LEMMA EnsureSnapshotStep ==
    ASSUME IInv, NEW p \in Policies, EnsureSnapshot(p)
    PROVE  IInv'
<1> DEFINE known == pass[p].known
           desired == EnsureStatus(known, pass[p].running)
<1>1. /\ TypeOK /\ computedAt \in Nat
      /\ known \in Copies /\ known \in Objects /\ Stamped(known, computedAt)
      /\ pass[p].running \in SUBSET Names
  BY PassKnown DEF IInv, TypeOK, Passes
<1>2. desired \in Objects /\ Desirable(desired, computedAt, known.created)
  BY <1>1, EnsureStatusType, EnsureStatusBound
<1>3. /\ IF Exists(obj)
         THEN Store(PatchStatus(obj, known, desired)) /\ Known(p, "fetch", obj')
         ELSE ToSweep(p) /\ UNCHANGED <<rev, obj>>
      /\ UNCHANGED <<now, events, pol, members, inputs, ccache, wcache, stub,
                     computedAt>>
  BY DEF EnsureSnapshot
<1> HIDE DEF known, desired
<1>4. Moved /\ rev' \in Nat /\ obj' \in Objects
  BY <1>1, <1>2, <1>3, PassPatch
<1>5. CASE Exists(obj)
  <2>1. PassMoves(obj')
    BY <1>1, <1>3, <1>4, <1>5, KnownMoves DEF PassSteps
  <2> QED
    BY <1>1, <1>3, <1>4, <2>1, PassPreserves DEF TypeOK
<1>6. CASE ~Exists(obj)
  BY <1>1, <1>3, <1>4, <1>6, ToSweepMoves, PassPreserves DEF TypeOK
<1> QED
  BY <1>5, <1>6

\* recommend: the one step that leads to a record.
LEMMA RecommendStep ==
    ASSUME IInv, NEW p \in Policies, Recommend(p)
    PROVE  IInv'
<1> DEFINE x == [pass[p] EXCEPT !.pc = "record", !.input = inputs[p], !.at = now]
<1>1. /\ pass \in [Policies -> Passes] /\ pass[p] \in Passes
      /\ inputs[p] \in Inputs /\ now \in Nat /\ now >= 1 /\ computedAt \in Nat
  BY DEF IInv, TypeOK
<1>2. /\ pass' = [pass EXCEPT ![p] = x]
      /\ UNCHANGED <<now, events, rev, obj, pol, members, inputs, ccache, wcache,
                     stub, computedAt>>
  BY <1>1 DEF Recommend, Passes
<1>3. /\ x \in Passes /\ x.known = pass[p].known
      /\ x.input \in Inputs /\ x.at = now
  BY <1>1 DEF Passes, PassSteps
<1> HIDE DEF x
<1>4. \A q \in Policies : pass'[q] = IF q = p THEN x ELSE pass[q]
  BY <1>1, <1>2
<1>5. TypeOK'
  BY <1>1, <1>2, <1>3 DEF IInv, TypeOK
<1>6. Moved
  BY <1>1, <1>2, StaysMoves
<1>7. RecordsPast'
  BY <1>1, <1>2, <1>3, <1>4 DEF IInv, RecordsPast
<1>8. Copied
  <2>1. \A q \in Policies : pass'[q].known = pass[q].known
    BY <1>3, <1>4
  <2> QED
    BY <1>2, <2>1 DEF Copied, Copies
<1> QED
  BY <1>5, <1>6, <1>7, <1>8, Preserved

\* The decision p's pass records is a decision, Computed only for a value.
LEMMA DecisionType ==
    ASSUME NEW p \in Policies, pass[p] \in Passes, pass[p].input \in Inputs
    PROVE  /\ DecisionOf(p) \in Decisions
           /\ DecisionOf(p).outcome = "Computed" => pass[p].input \in Levels
<1> DEFINE input == pass[p].input
           departed == pass[p].standing = "Departed"
           recs == [n \in Names |-> IF n \in pass[p].running
                                    THEN [by |-> p, level |-> input] ELSE Unset]
<1>1. CASE input \in Levels
  <2>1. recs \in [Names -> Recommended]
    BY <1>1 DEF Recommended
  <2>2. DecisionOf(p) = [outcome |-> "Computed", departed |-> departed,
                         recs |-> recs]
    BY <1>1 DEF DecisionOf
  <2> HIDE DEF recs
  <2> QED
    BY <1>1, <2>1, <2>2 DEF Decisions, Outcomes
<1>2. CASE input \notin Levels
  <2>1. input \in {"NoData", "TooYoung", "FetchFailed"}
    BY <1>2, InputsAssumption
  <2>2. DecisionOf(p) = [outcome |-> input, departed |-> departed,
                         recs |-> NoRecs]
    BY <1>2 DEF DecisionOf
  <2> QED
    BY <2>1, <2>2, RecsType DEF Decisions, Outcomes
<1> QED
  BY <1>1, <1>2

\* Record.
LEMMA RecordStep ==
    ASSUME IInv, NEW p \in Policies, Record(p)
    PROVE  IInv'
<1> DEFINE known == pass[p].known
           d == DecisionOf(p)
           at == pass[p].at
           desired == RecordStatus(known, d, at)
<1>1. /\ TypeOK /\ now \in Nat /\ computedAt \in Nat
      /\ known \in Copies /\ known \in Objects /\ Stamped(known, computedAt)
      /\ pass[p] \in Passes
  BY PassKnown DEF IInv, TypeOK
<1>2. pass[p].input \in Inputs /\ at \in 1..now /\ at \in Nat
  BY <1>1 DEF IInv, RecordsPast, Record, At
<1>3. d \in Decisions /\ (d.outcome = "Computed" => pass[p].input \in Levels)
  BY <1>1, <1>2, DecisionType
<1>4. /\ IF Exists(obj) THEN Store(PatchStatus(obj, known, desired))
         ELSE UNCHANGED <<rev, obj>>
      /\ computedAt' = IF (Exists(obj) /\ pass[p].input \in Levels)
                              /\ at > computedAt
                       THEN at ELSE computedAt
      /\ ToSweep(p)
      /\ UNCHANGED <<now, events, pol, members, inputs, ccache, wcache, stub>>
  BY DEF Record
<1> HIDE DEF known, d, at
<1>5. computedAt' \in Nat /\ computedAt <= computedAt'
  BY <1>1, <1>2, <1>4
<1>6. Stamped(known, computedAt')
  BY <1>1, <1>5, StampedLater
<1>7. desired \in Objects
  BY <1>1, <1>2, <1>3, RecordStatusType
<1>8. Exists(obj) => Desirable(desired, computedAt', known.created)
  <2>1. Exists(obj) /\ d.outcome = "Computed" =>
           computedAt' # 0 /\ at <= computedAt'
    BY <1>1, <1>2, <1>3, <1>4
  <2> QED
    BY <1>1, <1>2, <1>3, <1>5, <1>6, <2>1, RecordStatusBound
<1> HIDE DEF desired
<1>9. Moved /\ rev' \in Nat /\ obj' \in Objects
  BY <1>1, <1>4, <1>5, <1>7, <1>8, PassPatch
<1> QED
  BY <1>1, <1>4, <1>5, <1>9, ToSweepMoves, PassPreserves DEF TypeOK

\* The sweep.
LEMMA SweepStep ==
    ASSUME IInv, NEW p \in Policies, Sweep(p)
    PROVE  IInv'
<1>1. /\ TypeOK /\ computedAt \in Nat
      /\ UNCHANGED <<now, events, pol, members, inputs, ccache, wcache, stub,
                     computedAt>>
      /\ pass' = [pass EXCEPT ![p] = Idle]
      /\ Delete(Controller.obj) \/ UNCHANGED <<rev, obj>>
  BY DEF IInv, TypeOK, Sweep
<1>2. Moved /\ rev' \in Nat /\ obj' \in Objects
  BY <1>1, DeleteMoves, StaysMoves
<1> QED
  BY <1>1, <1>2, EndMoves, PassPreserves DEF TypeOK

\* A release.
LEMMA ReleaseStep ==
    ASSUME IInv, NEW p \in Policies, Release(p)
    PROVE  IInv'
<1>1. /\ TypeOK /\ computedAt \in Nat
      /\ UNCHANGED <<now, events, pol, members, inputs, ccache, wcache, stub,
                     computedAt>>
      /\ pass' = pass \/ Goto(p, "finalizer")
      /\ Delete(Controller.obj) \/ UNCHANGED <<rev, obj>>
  BY DEF IInv, TypeOK, Release
<1>2. Moved /\ rev' \in Nat /\ obj' \in Objects
  BY <1>1, DeleteMoves, StaysMoves
<1>3. PassMoves(Missing)
  BY <1>1, GotoMoves, StillMoves DEF PassSteps
<1> QED
  BY <1>1, <1>2, <1>3, PassPreserves DEF TypeOK

\* The finalizer's removal.
LEMMA RemoveFinalizerStep ==
    ASSUME IInv, NEW p \in Policies, RemoveFinalizer(p)
    PROVE  IInv'
<1>1. /\ TypeOK /\ computedAt \in Nat /\ pol \in [Policies -> PolicyStates]
      /\ UNCHANGED <<now, events, rev, obj, members, inputs, ccache, wcache,
                     stub, computedAt>>
      /\ pass' = [pass EXCEPT ![p] = Idle]
  BY DEF IInv, TypeOK, RemoveFinalizer
<1>2. pol' \in [Policies -> PolicyStates]
  BY <1>1 DEF RemoveFinalizer, PolicyStates, Phases
<1>3. Moved /\ rev' \in Nat /\ obj' \in Objects
  BY <1>1, StaysMoves
<1> QED
  BY <1>1, <1>2, <1>3, EndMoves, PassPreserves DEF TypeOK

\* Every step of a pass.
LEMMA PassStepStep ==
    ASSUME IInv, NEW p \in Policies, PassStep(p)
    PROVE  IInv'
BY TakeSnapshotStep, RecordConflictedStep, EnsureCreateStep, EnsureClaimStep,
   EnsureOwnStep, EnsureSnapshotStep, RecommendStep, RecordStep, SweepStep,
   ReleaseStep, RemoveFinalizerStep
   DEF PassStep

\* A failed call, or an identity in backoff.
LEMMA PassFaultStep ==
    ASSUME IInv, NEW p \in Policies, CallFails(p) \/ BackedOff(p)
    PROVE  IInv'
<1>1. /\ TypeOK /\ computedAt \in Nat /\ events \in Nat
      /\ UNCHANGED <<now, rev, obj, pol, members, inputs, ccache, wcache,
                     stub, computedAt>>
      /\ pass' = [pass EXCEPT ![p] = Idle] \/ ToSweep(p)
      /\ events > 0 /\ events' = events - 1
  BY DEF IInv, TypeOK, CallFails, BackedOff, Event
<1>2. PassMoves(Missing)
  BY <1>1, EndMoves, ToSweepMoves
<1>3. Moved /\ rev' \in Nat /\ obj' \in Objects /\ events' \in Nat
  BY <1>1, StaysMoves
<1> QED
  BY <1>1, <1>2, <1>3, PassPreserves DEF TypeOK

-----------------------------------------------------------------------------
(* The other steps *)

\* A step that leaves the passes alone.
LEMMA ElsewherePreserves ==
    ASSUME IInv, TypeOK', Moved, pass' = pass,
           ccache'.obj \in Copies \cup {obj'}, wcache'.obj \in Copies \cup {obj'},
           stub'.known \in Copies \cup {obj', Missing}
    PROVE  IInv'
<1>1. now \in Nat /\ now' \in Nat /\ now <= now'
  BY DEF IInv, TypeOK, Moved
<1>2. RecordsPast'
  BY <1>1 DEF IInv, RecordsPast
<1>3. Copied
  BY DEF Copied, Copies
<1> QED
  BY <1>2, <1>3, Preserved

\* The orphan reaper.
LEMMA ReapStep ==
    ASSUME IInv, Reap
    PROVE  IInv'
<1>1. /\ TypeOK /\ Delete(Controller.obj)
      /\ UNCHANGED <<now, events, pol, members, inputs, ccache, wcache, pass,
                     stub, computedAt>>
  BY DEF IInv, Reap
<1>2. Moved /\ rev' \in Nat /\ obj' \in Objects
  BY <1>1, DeleteMoves
<1>3. TypeOK'
  BY <1>1, <1>2 DEF TypeOK
<1> QED
  BY <1>1, <1>2, <1>3, ElsewherePreserves DEF Copies

\* The webhook's snapshot of a held copy.
LEMMA SnapshotMoves ==
    ASSUME IInv, NEW known \in Copies, NEW running \in SUBSET Names,
           IF Exists(obj)
           THEN Store(PatchStatus(obj, known, SnapshotStatus(known, running)))
           ELSE UNCHANGED <<rev, obj>>,
           now' = now, computedAt' = computedAt
    PROVE  Moved /\ rev' \in Nat /\ obj' \in Objects
<1> DEFINE desired == SnapshotStatus(known, running)
<1>1. /\ computedAt \in Nat /\ known \in Objects /\ known.created \in Nat
      /\ known.servableUntil \in Nat
      /\ Stamped(known, computedAt)
  BY HeldOK, InstantsType DEF IInv, TypeOK, CopyOK
<1>2. /\ desired \in Objects /\ desired.observedAt = known.observedAt
      /\ desired.servableUntil = known.servableUntil
  BY <1>1, SnapshotStatusType
<1> HIDE DEF desired
<1>3. Later(computedAt, known.created) <= Later(computedAt, Later(known.created, 1))
  BY <1>1 DEF Later
<1>4. /\ Later(computedAt, known.created) \in Nat
      /\ Later(computedAt, Later(known.created, 1)) \in Nat
      /\ LongestWindow \in Nat
  BY <1>1, Windows DEF Later
<1>5. Desirable(desired, computedAt, known.created)
  <2>1. desired.observedAt <= Later(computedAt, 1)
    BY <1>1, <1>2 DEF Stamped
  <2>2. desired.servableUntil # 0 =>
           /\ computedAt # 0
           /\ known.servableUntil <= Later(computedAt, known.created) + LongestWindow
    BY <1>1, <1>2 DEF Stamped
  <2>3. desired.servableUntil # 0 =>
           desired.servableUntil
              <= Later(computedAt, Later(known.created, 1)) + LongestWindow
    BY <1>1, <1>2, <1>3, <1>4, <2>2
  <2> QED
    BY <2>1, <2>2, <2>3 DEF Desirable
<1> QED
  BY <1>1, <1>2, <1>5, PassPatch DEF desired

\* An admission's request.
LEMMA AdmitStep ==
    ASSUME IInv, NEW p \in Policies, NEW running \in SUBSET Names,
           Admit(p, running)
    PROVE  IInv'
<1> DEFINE known == Webhook.obj
<1>1. /\ TypeOK /\ events' \in Nat /\ computedAt \in Nat
      /\ UNCHANGED <<now, pol, members, inputs, ccache, wcache, pass, computedAt>>
  BY DEF IInv, TypeOK, Admit, Event
<1>2. known \in Copies /\ stub.known \in Copies
  BY <1>1, ReadsCopies DEF Copies
<1>3. stub \in [known : Objects, running : SUBSET Names]
  BY <1>1 DEF TypeOK
<1>4. /\ Moved /\ rev' \in Nat /\ obj' \in Objects
      /\ \/ stub' = stub
         \/ stub' = [known |-> obj', running |-> running]
  <2>1. CASE Exists(known)
    BY <1>1, <1>2, <2>1, SnapshotMoves DEF Admit
  <2>2. CASE ~Exists(known) /\ Exists(obj)
    BY <1>1, <2>2, StaysMoves DEF Admit
  <2>3. CASE ~Exists(known) /\ ~Exists(obj)
    BY <1>1, <2>3, CreateMoves DEF Admit
  <2> QED
    BY <2>1, <2>2, <2>3
<1>5. /\ stub' \in [known : Objects, running : SUBSET Names]
      /\ stub'.known \in Copies \cup {obj'}
  BY <1>2, <1>3, <1>4
<1>6. TypeOK'
  BY <1>1, <1>4, <1>5 DEF TypeOK
<1> QED
  BY <1>1, <1>4, <1>5, <1>6, ElsewherePreserves DEF Copies

\* The stub's snapshot.
LEMMA StubSnapshotStep ==
    ASSUME IInv, StubSnapshot
    PROVE  IInv'
<1>1. /\ TypeOK /\ computedAt \in Nat
      /\ UNCHANGED <<now, events, pol, members, inputs, ccache, wcache, pass,
                     computedAt>>
      /\ stub' = NoStub
  BY DEF IInv, TypeOK, StubSnapshot
<1>2. stub.known \in Copies /\ stub.running \in SUBSET Names
  BY <1>1 DEF Copies, TypeOK
<1>3. Moved /\ rev' \in Nat /\ obj' \in Objects
  BY <1>1, <1>2, SnapshotMoves DEF StubSnapshot
<1>4. /\ NoStub \in [known : Objects, running : SUBSET Names]
      /\ NoStub.known = Missing
  BY MissingType DEF NoStub
<1>5. TypeOK'
  BY <1>1, <1>3, <1>4 DEF TypeOK
<1> QED
  BY <1>1, <1>3, <1>4, <1>5, ElsewherePreserves DEF Copies

\* A restarted controller.
LEMMA ControllerRestartsStep ==
    ASSUME IInv, ControllerRestarts
    PROVE  IInv'
<1>1. /\ TypeOK /\ events' \in Nat /\ computedAt \in Nat
      /\ UNCHANGED <<now, rev, obj, pol, members, inputs, wcache, stub, computedAt>>
      /\ pass' = [p \in Policies |-> Idle]
      /\ ccache' = [obj |-> obj, pol |-> pol, members |-> members]
  BY DEF IInv, TypeOK, ControllerRestarts, Event
<1>2. TypeOK'
  BY <1>1, IdleType DEF TypeOK
<1>3. Moved
  BY <1>1, StaysMoves
<1>4. RecordsPast'
  BY <1>1, IdleType DEF RecordsPast
<1>5. Copied
  BY <1>1, IdleType DEF Copied, Copies
<1> QED
  BY <1>2, <1>3, <1>4, <1>5, Preserved

\* A restarted webhook.
LEMMA WebhookRestartsStep ==
    ASSUME IInv, WebhookRestarts
    PROVE  IInv'
<1>1. /\ TypeOK /\ events' \in Nat /\ computedAt \in Nat
      /\ UNCHANGED <<now, rev, obj, pol, members, inputs, ccache, pass, computedAt>>
      /\ stub' = NoStub /\ wcache' = [obj |-> obj, pol |-> pol]
  BY DEF IInv, TypeOK, WebhookRestarts, Event
<1>2. /\ NoStub \in [known : Objects, running : SUBSET Names]
      /\ NoStub.known = Missing
  BY MissingType DEF NoStub
<1>3. TypeOK'
  BY <1>1, <1>2 DEF TypeOK
<1>4. Moved
  BY <1>1, StaysMoves
<1> QED
  BY <1>1, <1>2, <1>3, <1>4, ElsewherePreserves DEF Copies

\* The clock.
LEMMA TickStep ==
    ASSUME IInv, Tick
    PROVE  IInv'
<1>1. /\ TypeOK /\ now \in Nat /\ computedAt \in Nat /\ now' = now + 1
      /\ UNCHANGED <<events, rev, obj, pol, members, inputs, ccache, wcache,
                     pass, stub, computedAt>>
  BY DEF IInv, TypeOK, Tick
<1>2. TypeOK'
  BY <1>1 DEF TypeOK
<1>3. Moved
  BY <1>1 DEF Moved
<1> QED
  BY <1>1, <1>2, <1>3, ElsewherePreserves DEF Copies

\* Members, recommenders and Policies change.
LEMMA ChangesStep ==
    ASSUME IInv,
           \/ MembersChange
           \/ \E p \in Policies : InputChanges(p) \/ PolicyChanges(p)
    PROVE  IInv'
<1>1. /\ TypeOK /\ events' \in Nat /\ computedAt \in Nat
      /\ UNCHANGED <<now, rev, obj, ccache, wcache, pass, stub, computedAt>>
  BY DEF IInv, TypeOK, MembersChange, InputChanges, PolicyChanges, Event
<1>2. /\ members' \in MemberSets /\ inputs' \in [Policies -> Inputs]
      /\ pol' \in [Policies -> PolicyStates]
  <2>1. CASE MembersChange
    BY <1>1, <2>1 DEF MembersChange, MemberSets, TypeOK
  <2>2. ASSUME NEW p \in Policies, InputChanges(p)
        PROVE  <1>2!:
    BY <1>1, <2>2 DEF InputChanges, TypeOK
  <2>3. ASSUME NEW p \in Policies, PolicyChanges(p)
        PROVE  <1>2!:
    <3>1. pol \in [Policies -> PolicyStates] /\ UNCHANGED <<members, inputs>>
      BY <1>1, <2>3 DEF PolicyChanges, TypeOK
    <3>2. ASSUME NEW s \in PolicyStates, pol' = [pol EXCEPT ![p] = s]
          PROVE  pol' \in [Policies -> PolicyStates]
      BY <3>1, <3>2
    <3>3. \E s \in PolicyStates : pol' = [pol EXCEPT ![p] = s]
      <4>1. pol[p] \in PolicyStates
        BY <3>1
      <4>2. /\ [phase |-> "new", covers |-> TRUE] \in PolicyStates
            /\ [pol[p] EXCEPT !.covers = ~pol[p].covers] \in PolicyStates
            /\ [pol[p] EXCEPT !.phase = "deleting"] \in PolicyStates
            /\ [pol[p] EXCEPT !.phase = "absent"] \in PolicyStates
        BY <4>1 DEF PolicyStates, Phases
      <4>3. \/ pol' = [pol EXCEPT ![p] = [phase |-> "new", covers |-> TRUE]]
            \/ pol' = [pol EXCEPT ![p] = [pol[p] EXCEPT !.covers = ~pol[p].covers]]
            \/ pol' = [pol EXCEPT ![p] = [pol[p] EXCEPT !.phase = "deleting"]]
            \/ pol' = [pol EXCEPT ![p] = [pol[p] EXCEPT !.phase = "absent"]]
        BY <2>3, <3>1 DEF PolicyChanges
      <4> QED
        BY <4>2, <4>3
    <3> QED
      BY <1>1, <3>1, <3>2, <3>3 DEF TypeOK
  <2> QED
    BY <2>1, <2>2, <2>3
<1>3. TypeOK'
  BY <1>1, <1>2 DEF TypeOK
<1>4. Moved
  BY <1>1, StaysMoves
<1> QED
  BY <1>1, <1>3, <1>4, ElsewherePreserves DEF Copies

\* Informers catch up.
LEMMA WatchStep ==
    ASSUME IInv, Watch
    PROVE  IInv'
<1>1. /\ TypeOK /\ computedAt \in Nat
      /\ UNCHANGED <<now, events, rev, obj, pol, members, inputs, pass, stub,
                     computedAt>>
  BY DEF IInv, TypeOK, Watch, SeeRecommendation, SeePolicies, SeeMembers,
         WebhookSeesRecommendation, WebhookSeesPolicies
<1>2. /\ ccache' \in [obj : Objects, pol : [Policies -> PolicyStates],
                      members : MemberSets]
      /\ wcache' \in [obj : Objects, pol : [Policies -> PolicyStates]]
      /\ ccache'.obj \in {ccache.obj, obj} /\ wcache'.obj \in {wcache.obj, obj}
  BY <1>1 DEF TypeOK, Watch, SeeRecommendation, SeePolicies, SeeMembers,
              WebhookSeesRecommendation, WebhookSeesPolicies
<1>3. TypeOK'
  BY <1>1, <1>2 DEF TypeOK
<1>4. Moved
  BY <1>1, StaysMoves
<1> QED
  BY <1>1, <1>2, <1>3, <1>4, ElsewherePreserves DEF Copies

-----------------------------------------------------------------------------
(* The invariant *)

\* It holds at start: nothing is stored, or an older release's object without
\* a stamp.
LEMMA InitOK == Init => IInv
<1> SUFFICES ASSUME Init
             PROVE  IInv
  OBVIOUS
<1>1. obj = Missing \/ \E p \in LegacyPolicies, l \in Levels : obj = Legacy(p, l)
  BY DEF Init
<1>2. ASSUME NEW p \in LegacyPolicies, NEW l \in Levels, obj = Legacy(p, l)
      PROVE  /\ obj \in Objects /\ obj.rv = 1 /\ obj.created = 1 /\ Exists(obj)
             /\ obj.label = obj.policy
             /\ obj.observedAt = 1 /\ obj.servableUntil = 0
  <2> DEFINE new == NewObject(p, 1, 1)
             recs == [n \in Names |-> [by |-> p, level |-> l]]
  <2>1. p \in Policies
    BY SetsAssumption
  <2>2. /\ new \in Objects /\ new.uid = 1 /\ new.rv = 1 /\ new.created = 1
        /\ new.label = new.policy /\ new.servableUntil = 0
    BY <2>1, NewObjectType DEF NewObject, Missing
  <2>3. recs \in [Names -> Recommended]
    BY <2>1 DEF Recommended
  <2>4. obj = [new EXCEPT !.outcome = "Computed", !.computedBy = p,
                          !.observed = Names, !.recs = recs, !.observedAt = 1]
    BY <1>2 DEF Legacy
  <2> HIDE DEF new, recs
  <2>5. obj \in Objects
    BY <2>1, <2>2, <2>3, <2>4 DEF Objects, Outcomes
  <2>6. /\ obj.uid = new.uid /\ obj.rv = new.rv /\ obj.created = new.created
        /\ obj.label = new.label /\ obj.policy = new.policy
        /\ obj.servableUntil = new.servableUntil /\ obj.observedAt = 1
    BY <2>2, <2>4 DEF Objects
  <2> QED
    BY <2>2, <2>5, <2>6 DEF Exists
<1>3. /\ obj \in Objects
      /\ Exists(obj) => obj.created = 1 /\ obj.rv = 1
      /\ CopyOK(obj, 1, obj, 1, 0)
  <2>1. CASE obj = Missing
    BY <2>1, MissingType, MissingOK DEF Exists, Missing
  <2>2. CASE obj # Missing
    BY <1>1, <1>2, <2>2, LaterIsMax DEF CopyOK, Stamped
  <2> QED
    BY <2>1, <2>2
<1>4. CopyOK(Missing, 1, obj, 1, 0)
  BY <1>3, MissingOK
<1>5. now = 1 /\ rev = 1 /\ computedAt = 0
  BY DEF Init
<1>6. TypeOK
  <2>1. pol \in [Policies -> PolicyStates] /\ events \in Nat
    BY BoundsAssumption DEF Init, PolicyStates, Phases
  <2>2. members \in MemberSets /\ inputs \in [Policies -> Inputs]
    BY DEF Init
  <2>3. pass \in [Policies -> Passes] /\ stub \in [known : Objects, running : SUBSET Names]
    BY IdleType, MissingType DEF Init, NoStub
  <2>4. ccache = [obj |-> obj, pol |-> pol, members |-> members]
        /\ wcache = [obj |-> obj, pol |-> pol]
    BY DEF Init
  <2> QED
    BY <1>3, <1>5, <2>1, <2>2, <2>3, <2>4 DEF TypeOK
<1>7. Copies \subseteq {obj, Missing}
  BY IdleType DEF Init, Copies, NoStub
<1>8. CopiesOK
  BY <1>3, <1>4, <1>5, <1>7 DEF CopiesOK
<1>9. RecordsPast
  BY IdleType DEF Init, RecordsPast
<1> QED
  BY <1>3, <1>5, <1>6, <1>8, <1>9 DEF IInv, ObjectRevised

\* Every step preserves it.
LEMMA StepOK == IInv /\ [Next]_vars => IInv'
<1> SUFFICES ASSUME IInv, [Next]_vars
             PROVE  IInv'
  OBVIOUS
<1>1. CASE Next
  BY <1>1, PassStepStep, ReapStep, AdmitStep, StubSnapshotStep, WatchStep,
     TickStep, ChangesStep, PassFaultStep, ControllerRestartsStep,
     WebhookRestartsStep
     DEF Next, Environment
<1>2. CASE UNCHANGED vars
  BY <1>2 DEF vars, IInv, TypeOK, ObjectRevised, CopiesOK, Copies, RecordsPast
<1> QED
  BY <1>1, <1>2

\* It is an invariant.
LEMMA Inductive == Spec => []IInv
BY InitOK, StepOK, PTL DEF Spec

-----------------------------------------------------------------------------
(* Theorems *)

\* No interleaving of passes, requests, deletes, restarts and lost calls
\* stores or holds a malformed object (every writer of internal/wlrcache).
THEOREM TypeCorrect == Spec => []TypeOK
<1>1. IInv => TypeOK
  BY DEF IInv
<1> QED
  BY <1>1, Inductive, PTL

\* The policy label follows spec.policy through creates, adoptions and blind
\* claims (claim, newObject), so Sweep and Release list what they judge.
THEOREM LabelAlwaysFollowsSpec == Spec => []LabelFollowsSpec
<1>1. IInv => LabelFollowsSpec
  BY DEF IInv, CopiesOK, Copies, CopyOK, LabelFollowsSpec
<1> QED
  BY <1>1, Inductive, PTL

\* What the webhook injects was computed, less than the longest window ago
\* (Read's use of servableUntil, and stamp).
THEOREM InjectedAlwaysRecent == Spec => []InjectedIsRecent
<1>1. IInv => InjectedIsRecent
  <2> SUFFICES ASSUME IInv, NEW p \in Policies, Served(Webhook.obj, p)
               PROVE  /\ computedAt # 0
                      /\ now < Later(computedAt, Webhook.obj.created)
                                  + LongestWindow
    BY DEF InjectedIsRecent
  <2> DEFINE o == Webhook.obj
  <2>1. o \in Objects /\ Stamped(o, computedAt)
    BY ReadsCopies, HeldOK DEF IInv, CopyOK
  <2>2. now \in Nat /\ computedAt \in Nat
    BY DEF IInv, TypeOK
  <2>3. ~(now >= o.servableUntil)
    BY DEF Served, Injects, Read
  <2> HIDE DEF o
  <2>4. o.servableUntil \in Nat /\ o.created \in Nat
    BY <2>1, InstantsType
  <2>5. now < o.servableUntil /\ o.servableUntil # 0
    BY <2>2, <2>3, <2>4
  <2>6. /\ Later(computedAt, o.created) \in Nat
        /\ LongestWindow \in Nat
    BY <2>2, <2>4, Windows, LaterIsMax
  <2>7. /\ computedAt # 0
        /\ o.servableUntil <= Later(computedAt, o.created) + LongestWindow
    BY <2>1, <2>5 DEF Stamped
  <2>8. now < Later(computedAt, o.created) + LongestWindow
    BY <2>2, <2>4, <2>5, <2>6, <2>7
  <2> QED
    BY <2>7, <2>8 DEF o
<1> QED
  BY <1>1, Inductive, PTL

\* A successful delete removed exactly the copy it was judged on
\* (deleteWhere's uid and resourceVersion preconditions).
LEMMA DeletesWhatItKnows ==
    ASSUME IInv, Deleted, NEW known \in Copies, Delete(known)
    PROVE  known = obj
<1>1. Exists(obj) /\ known.rv = obj.rv
  BY DEF Deleted, Delete, AtJudgedRevision
<1> QED
  BY <1>1, HeldOK DEF CopyOK

\* Sweep, Release and Reap delete only an object that still is what they
\* judged it to be (deleteWhere).
THEOREM DeletesAreJudged == Spec => DeletesOnlyJudged
<1>1. IInv /\ [Next]_vars =>
        [Deleted =>
           /\ \A p \in Policies : Sweep(p) \/ Release(p) => obj.policy = p
           /\ Reap => obj.policy \notin Exist(Controller.pol)]_vars
  <2> SUFFICES ASSUME IInv, Deleted
               PROVE  /\ \A p \in Policies :
                            Sweep(p) \/ Release(p) => obj.policy = p
                      /\ Reap => obj.policy \notin Exist(Controller.pol)
    OBVIOUS
  <2>1. Controller.obj \in Copies
    BY ReadsCopies DEF IInv
  <2>2. obj' # obj
    BY DEF Deleted
  <2>3. ASSUME NEW p \in Policies, Sweep(p)
        PROVE  obj.policy = p
    <3>1. Delete(Controller.obj) /\ Controller.obj.policy = p
      BY <2>2, <2>3 DEF Sweep, Expired
    <3> QED
      BY <2>1, <3>1, DeletesWhatItKnows
  <2>4. ASSUME NEW p \in Policies, Release(p)
        PROVE  obj.policy = p
    <3>1. Delete(Controller.obj) /\ Controller.obj.policy = p
      BY <2>2, <2>4 DEF Release
    <3> QED
      BY <2>1, <3>1, DeletesWhatItKnows
  <2>5. ASSUME Reap
        PROVE  obj.policy \notin Exist(Controller.pol)
    <3>1. Delete(Controller.obj)
          /\ Controller.obj.policy \notin Exist(Controller.pol)
      BY <2>5 DEF Reap, Orphaned
    <3> QED
      BY <2>1, <3>1, DeletesWhatItKnows
  <2> QED
    BY <2>3, <2>4, <2>5
<1> QED
  BY <1>1, Inductive, PTL DEF Spec, DeletesOnlyJudged

\* A sweep spares what was created within the grace before its snapshot or
\* after it (Expired's sweepGrace, judged as of TakenAt).
THEOREM NewIsSpared == Spec => SweepSparesNew
<1>1. IInv /\ [Next]_vars =>
        [\A p \in Policies : Sweep(p) /\ Deleted =>
            obj.created + SweepGrace <= pass[p].takenAt]_vars
  <2> SUFFICES ASSUME IInv, NEW p \in Policies, Sweep(p), Deleted
               PROVE  obj.created + SweepGrace <= pass[p].takenAt
    OBVIOUS
  <2>1. Controller.obj \in Copies
    BY ReadsCopies DEF IInv
  <2>2. /\ Delete(Controller.obj)
        /\ pass[p].takenAt - Controller.obj.created >= SweepGrace
    BY DEF Sweep, Deleted, Expired, JudgedAt
  <2>3. Controller.obj = obj
    BY <2>1, <2>2, DeletesWhatItKnows
  <2>4. obj.created \in Nat /\ pass[p].takenAt \in Nat /\ SweepGrace \in Nat
    BY InstantsType, PassKnown, DurationsAssumption DEF IInv, TypeOK, Passes
  <2> QED
    BY <2>2, <2>3, <2>4
<1> QED
  BY <1>1, Inductive, PTL DEF Spec, SweepSparesNew

\* A release that reaches the finalizer left no listed object naming the
\* Policy (failRelease turns a conflict into a retry).
THEOREM ReleaseIsComplete == Spec => ReleaseComplete
<1>1. IInv /\ [Next]_vars =>
        [\A p \in Policies :
           /\ Release(p)
           /\ pass'[p].pc = "finalizer"
           /\ Controller.obj.policy = p
           => ~(obj'.uid = Controller.obj.uid /\ obj'.policy = p)]_vars
  <2> SUFFICES ASSUME IInv, NEW p \in Policies, Release(p),
                      pass'[p].pc = "finalizer", Controller.obj.policy = p
               PROVE  obj'.uid # Controller.obj.uid
    OBVIOUS
  <2> DEFINE known == Controller.obj
  <2>1. known \in Objects /\ CopyOK(known, rev, obj, now, computedAt)
    BY ReadsCopies, HeldOK DEF IInv
  <2>2. Exists(known) /\ known.label = p
    <3>1. Missing.policy = NoPolicy /\ known.label = known.policy
      BY <2>1 DEF CopyOK, Missing
    <3>2. ~Exists(known) => known.policy = NoPolicy
      BY <2>1, <3>1 DEF CopyOK
    <3> QED
      BY <3>1, <3>2, PoliciesAssumption
  <2>3. pass[p].pc = "idle"
    BY DEF Release, MayReconcile, At
  <2>4. ~KeepsFinalizer(obj')
    BY <2>2, <2>3 DEF Release
  <2> QED
    BY <2>2, <2>4 DEF KeepsFinalizer, Exists
<1> QED
  BY <1>1, Inductive, PTL DEF Spec, ReleaseComplete

\* Recording Conflicted, from whatever copy, leaves spec and numbers alone
\* (recordConflicted and Record's merge patch).
THEOREM ConflictAlwaysFreezes == Spec => ConflictFreezes
<1>1. IInv /\ [Next]_vars =>
        [\A p \in Policies : RecordConflicted(p) =>
            /\ obj'.policy = obj.policy
            /\ obj'.recs = obj.recs
            /\ obj'.computedBy = obj.computedBy
            /\ obj'.observedAt = obj.observedAt]_vars
  <2> SUFFICES ASSUME IInv, NEW p \in Policies, RecordConflicted(p),
                      Exists(obj)
               PROVE  /\ obj'.policy = obj.policy
                      /\ obj'.recs = obj.recs
                      /\ obj'.computedBy = obj.computedBy
                      /\ obj'.observedAt = obj.observedAt
    BY DEF RecordConflicted
  <2> DEFINE known == pass[p].known
             d == [outcome |-> "Conflicted", departed |-> FALSE, recs |-> NoRecs]
             desired == RecordStatus(known, d, now)
             o == PatchStatus(obj, known, desired)
  <2>1. known \in Objects /\ obj \in Objects /\ rev \in Nat /\ now \in Nat
    BY PassKnown DEF IInv, TypeOK
  <2>2. /\ desired.recs = known.recs /\ desired.computedBy = known.computedBy
        /\ desired.observedAt = known.observedAt
    BY <2>1, ConflictedStatus
  <2>3. desired \in Objects
    BY <2>1, RecsType, RecordStatusType DEF Decisions, Outcomes
  <2>4. Store(o)
    BY DEF RecordConflicted
  <2> HIDE DEF known, desired
  <2>5. /\ o \in Objects /\ o.policy = obj.policy /\ o.recs = obj.recs
        /\ o.computedBy = obj.computedBy /\ o.observedAt = obj.observedAt
    BY <2>1, <2>2, <2>3, PatchStatusType, PatchStatusKeeps
  <2> HIDE DEF o
  <2>6. CASE o = obj
    BY <2>4, <2>6 DEF Store
  <2>7. CASE o # obj
    <3>1. obj' = [o EXCEPT !.rv = rev + 1]
      BY <2>4, <2>7 DEF Store
    <3> QED
      BY <2>1, <2>5, <3>1, RevisedType
  <2> QED
    BY <2>6, <2>7
<1> QED
  BY <1>1, Inductive, PTL DEF Spec, ConflictFreezes

-----------------------------------------------------------------------------
(* One worker with a current cache.  Passes then follow each other, so the  *)
(* object a pass holds is the stored one up to the webhook's snapshots,     *)
(* provided nobody replaces the object in the middle of the pass.  That     *)
(* takes both a Policy taken away by force, whose object the reaper         *)
(* deletes, and an admission that creates another in its place.             *)

Forced == "policies" \in Happens

Alone ==
    /\ PolicyConcurrencyLimit = 1
    /\ "wlr" \notin Lagging
    /\ ~(Forced /\ "admit" \in Happens)

OneWorker ==
    \A p, q \in Policies : pass[p].pc # "idle" /\ pass[q].pc # "idle" => p = q

\* While Policies are left alone they are the ones of the start.
Unforced ==
    ~Forced =>
        /\ \A p \in Policies :
              pol[p].phase = IF p \in InitialPolicies THEN "live" ELSE "absent"
        /\ ccache.pol = pol
        /\ \A p \in Policies : pass[p].pc # "idle" => p \in InitialPolicies

\* The steps at which a pass holds the object it claimed.
Holding == {"status", "fetch", "record"}

\* Pass x of p, next to the stored object o at instant t: what it claimed names
\* p and is what is stored; what it is to mark Conflicted is stored, or an
\* object that holds no numbers has replaced it.
PassSound(p, x, o, t) ==
    /\ x.takenAt <= t
    /\ x.pc \in Holding =>
          /\ x.known.policy = p
          /\ Exists(o) => Same(x.known, o)
          /\ ~Forced => Exists(o)
    /\ x.pc = "conflict" /\ Exists(o) => Same(x.known, o) \/ ~HasRecs(o)

SoleInv ==
    /\ Sound(obj) /\ Sound(wcache.obj)
    /\ OneWorker
    /\ Unforced
    /\ \A p \in Policies : PassSound(p, pass[p], obj, now)

\* The controller reads what is stored.
LEMMA ReadsStored ==
    ASSUME Alone, SoleInv
    PROVE  /\ Controller.obj = obj
           /\ ~Forced => Controller.pol = pol
BY DEF Alone, Controller, Seen, SoleInv, Unforced

\* While a pass takes a step the others are idle.
LEMMA OthersIdle ==
    ASSUME Alone, OneWorker, NEW p \in Policies,
           pass[p].pc # "idle" \/ MayReconcile(p)
    PROVE  \A q \in Policies \ {p} : pass[q].pc = "idle"
<1> SUFFICES ASSUME NEW q \in Policies \ {p}, pass[q].pc # "idle"
             PROVE  FALSE
  OBVIOUS
<1>1. MayReconcile(p)
  BY DEF OneWorker
<1> DEFINE busy == {r \in Policies : ~At(r, "idle")}
<1>2. Cardinality(busy) < 1
  BY <1>1 DEF MayReconcile, Alone
<1>3. busy = {q}
  BY DEF OneWorker, At
<1> HIDE DEF busy
<1>4. Cardinality(busy) = 1
  BY <1>3, FS_Singleton
<1> QED
  BY <1>2, <1>4

\* A step that replaces p's pass by x.
LEMMA SolePass ==
    ASSUME SoleInv, TypeOK, NEW p \in Policies, NEW x,
           \A q \in Policies \ {p} : pass[q].pc = "idle",
           pass' = [pass EXCEPT ![p] = x], UNCHANGED <<now, ccache, wcache>>,
           Sound(obj'), PassSound(p, x, obj', now),
           ~Forced => pol' = pol /\ (x.pc # "idle" => p \in InitialPolicies)
    PROVE  SoleInv'
<1>1. pass \in [Policies -> Passes]
  BY DEF TypeOK
<1>2. pass'[p] = x /\ \A q \in Policies \ {p} : pass'[q] = pass[q]
  BY <1>1
<1>3. OneWorker'
  BY <1>2 DEF OneWorker
<1>4. Unforced'
  BY <1>2 DEF SoleInv, Unforced
<1>5. ASSUME NEW q \in Policies PROVE PassSound(q, pass'[q], obj', now)
  <2>1. CASE q = p
    BY <1>2, <2>1
  <2>2. CASE q # p
    <3>1. pass[q].pc = "idle" /\ pass'[q] = pass[q] /\ PassSound(q, pass[q], obj, now)
      BY <1>2, <2>2 DEF SoleInv
    <3> QED
      BY <3>1 DEF PassSound, Holding
  <2> QED
    BY <2>1, <2>2
<1>6. Sound(wcache'.obj)
  BY DEF SoleInv
<1> QED
  BY <1>3, <1>4, <1>5, <1>6 DEF SoleInv

\* A pass that holds nothing is sound next to any object.
LEMMA EmptyPass ==
    ASSUME NEW p \in Policies, NEW x, NEW o, NEW t, x.takenAt <= t,
           x.pc \notin Holding \cup {"conflict"}
    PROVE  PassSound(p, x, o, t)
BY DEF PassSound

\* A pass that goes on to its sweep or ends.
LEMMA SoleDrops ==
    ASSUME SoleInv, TypeOK, Alone, NEW p \in Policies,
           pass[p].pc # "idle",
           ToSweep(p) \/ pass' = [pass EXCEPT ![p] = Idle],
           UNCHANGED <<now, ccache, wcache>>,
           Sound(obj'), ~Forced => pol' = pol
    PROVE  SoleInv'
<1>0. \A q \in Policies \ {p} : pass[q].pc = "idle"
  BY OthersIdle DEF SoleInv
<1>1. pass[p] \in Passes /\ pass[p].takenAt <= now /\ now \in Nat
  BY DEF SoleInv, PassSound, TypeOK
<1>2. ~Forced => p \in InitialPolicies
  BY DEF SoleInv, Unforced
<1>3. CASE ToSweep(p)
  <2> DEFINE x == [Idle EXCEPT !.pc = "sweep", !.takenAt = pass[p].takenAt,
                               !.standing = pass[p].standing]
  <2>1. x.pc = "sweep" /\ x.takenAt = pass[p].takenAt
    BY DEF Idle
  <2>2. pass' = [pass EXCEPT ![p] = x]
    BY <1>3 DEF ToSweep
  <2> HIDE DEF x
  <2>3. PassSound(p, x, obj', now)
    BY <1>1, <2>1, EmptyPass DEF Holding
  <2> QED
    BY <1>0, <1>2, <2>2, <2>3, SolePass
<1>4. CASE pass' = [pass EXCEPT ![p] = Idle]
  <2>1. Idle.pc = "idle" /\ Idle.takenAt = 0
    BY DEF Idle
  <2>2. PassSound(p, Idle, obj', now)
    BY <1>1, <2>1, EmptyPass DEF Holding
  <2> QED
    BY <1>0, <1>4, <2>1, <2>2, SolePass
<1> QED
  BY <1>3, <1>4

\* A pass that goes on holding o, which is what is stored.
LEMMA SoleHolds ==
    ASSUME SoleInv, TypeOK, Alone, NEW p \in Policies, NEW step \in Holding,
           pass[p].pc # "idle",
           Known(p, step, obj'), UNCHANGED <<now, ccache, wcache, pol>>,
           Exists(obj'), obj'.policy = p, Sound(obj')
    PROVE  SoleInv'
<1> DEFINE x == [pass[p] EXCEPT !.pc = step, !.known = obj']
<1>0. \A q \in Policies \ {p} : pass[q].pc = "idle"
  BY OthersIdle DEF SoleInv
<1>1. pass[p] \in Passes /\ pass \in [Policies -> Passes] /\ pass[p].takenAt <= now
  BY DEF SoleInv, PassSound, TypeOK
<1>2. x.pc = step /\ x.known = obj' /\ x.takenAt = pass[p].takenAt
  BY <1>1 DEF Passes
<1>3. pass' = [pass EXCEPT ![p] = x]
  BY <1>1 DEF Known, Passes
<1> HIDE DEF x
<1>4. PassSound(p, x, obj', now)
  BY <1>1, <1>2 DEF PassSound, Same, Holding
<1>5. ~Forced => p \in InitialPolicies
  BY DEF SoleInv, Unforced
<1> QED
  BY <1>0, <1>3, <1>4, <1>5, SolePass

\* What an effective write leaves.
LEMMA StoreSame ==
    ASSUME TypeOK, NEW o \in Objects, Store(o)
    PROVE  /\ Same(o, obj') /\ obj' \in Objects
           /\ Exists(obj') <=> Exists(o)
<1>1. rev \in Nat /\ obj \in Objects
  BY DEF TypeOK
<1>2. CASE o = obj
  BY <1>1, <1>2 DEF Store, Same
<1>3. CASE o # obj
  <2>1. obj' = [o EXCEPT !.rv = rev + 1]
    BY <1>3 DEF Store
  <2> QED
    BY <1>1, <2>1, RevisedType DEF Same, Exists
<1> QED
  BY <1>2, <1>3

\* A status patch from what is stored, or of other fields from any copy.
LEMMA PatchSound ==
    ASSUME TypeOK, Exists(obj), NEW known \in Objects, NEW desired \in Objects,
           Same(known, obj), Sound(desired), desired.created = known.created,
           desired.policy = known.policy, Store(PatchStatus(obj, known, desired))
    PROVE  /\ Same(desired, obj') /\ Sound(obj') /\ Exists(obj') /\ obj' \in Objects
<1> DEFINE o == PatchStatus(obj, known, desired)
<1>0. obj \in Objects
  BY DEF TypeOK
<1>1. o \in Objects /\ o.uid = obj.uid
  BY <1>0, PatchStatusType
<1>2. Same(desired, o)
  BY <1>0, PatchCurrent
<1>3. Store(o)
  OBVIOUS
<1> HIDE DEF o
<1>4. Same(o, obj') /\ obj' \in Objects /\ Exists(obj')
  BY <1>1, <1>3, StoreSame DEF Exists
<1>5. Same(desired, obj')
  BY <1>2, <1>4 DEF Same
<1> QED
  BY <1>4, <1>5, SoundSame

\* The object p's pass holds, when something is stored.
LEMMA HoldsStored ==
    ASSUME SoleInv, TypeOK, NEW p \in Policies, pass[p].pc \in Holding, Exists(obj)
    PROVE  LET known == pass[p].known
           IN  /\ known \in Objects /\ known.policy = p /\ Same(known, obj)
               /\ Sound(known) /\ obj.policy = p
<1> DEFINE known == pass[p].known
<1>1. pass[p] \in Passes /\ obj \in Objects
  BY DEF TypeOK
<1>2. known \in Objects
  BY <1>1 DEF Passes
<1>3. known.policy = p /\ Same(known, obj)
  BY DEF SoleInv, PassSound
<1>4. Same(obj, known) /\ Sound(obj) /\ obj.policy = p
  BY <1>3 DEF Same, SoleInv
<1>5. Sound(known)
  BY <1>1, <1>2, <1>4, SoundSame
<1> QED
  BY <1>2, <1>3, <1>4, <1>5

LEMMA SoleTakeSnapshot ==
    ASSUME SoleInv, IInv, Alone, NEW p \in Policies, TakeSnapshot(p)
    PROVE  SoleInv'
<1>0. TypeOK /\ now \in Nat /\ obj \in Objects
  BY DEF IInv, TypeOK
<1>1. Controller.obj = obj /\ (~Forced => Controller.pol = pol)
  BY ReadsStored
<1>2. \A q \in Policies \ {p} : pass[q].pc = "idle"
  BY OthersIdle DEF SoleInv, TakeSnapshot
<1> DEFINE x == [Idle EXCEPT
              !.pc = FirstStep(p),
              !.takenAt = now,
              !.standing = Standing(p, Controller),
              !.running = CASE FirstStep(p) = "claim" -> Controller.members.running
                            [] FirstStep(p) = "fetch" -> Controller.obj.observed
                            [] OTHER -> {},
              !.known = IF FirstStep(p) \in {"conflict", "fetch"}
                        THEN Controller.obj ELSE Missing]
<1>3. /\ x.pc = FirstStep(p) /\ x.takenAt = now
      /\ FirstStep(p) \in {"conflict", "fetch"} => x.known = obj
  BY <1>1 DEF Idle
<1>4. pass' = [pass EXCEPT ![p] = x]
  BY DEF TakeSnapshot
<1> HIDE DEF x
<1>5. FirstStep(p) \in {"conflict", "sweep", "claim", "fetch"}
  BY DEF FirstStep
<1>6. ASSUME FirstStep(p) = "fetch"
      PROVE  Exists(obj) /\ obj.policy = p
  <2>1. Governs(p, Controller) /\ Standing(p, Controller) # "Governed"
    BY <1>6 DEF FirstStep
  <2>2. Standing(p, Controller) = "Departed" /\ Controller.obj.policy = p
    BY <2>1 DEF Governs
  <2>3. Exists(Controller.obj)
    <3>1. Controller.pol[p].covers \in BOOLEAN
      BY <1>0, ReadsCopies DEF PolicyStates
    <3> QED
      BY <2>2, <3>1 DEF Standing
  <2> QED
    BY <1>1, <2>2, <2>3
<1>7. PassSound(p, x, obj', now)
  <2>1. obj' = obj
    BY DEF TakeSnapshot
  <2>2. CASE FirstStep(p) = "fetch"
    BY <1>0, <1>3, <1>6, <2>1, <2>2 DEF PassSound, Same, Holding
  <2>3. CASE FirstStep(p) = "conflict"
    BY <1>0, <1>3, <2>1, <2>3 DEF PassSound, Same, Holding
  <2>4. CASE FirstStep(p) \in {"sweep", "claim"}
    BY <1>0, <1>3, <2>4 DEF PassSound, Holding
  <2> QED
    BY <1>5, <2>2, <2>3, <2>4
<1>8. ASSUME ~Forced PROVE pol' = pol /\ p \in InitialPolicies
  <2>1. pol[p].phase = IF p \in InitialPolicies THEN "live" ELSE "absent"
    BY <1>8 DEF SoleInv, Unforced
  <2>2. AddFinalizer(p) /\ Controller.pol = pol
    BY <1>1, <1>8 DEF TakeSnapshot
  <2> QED
    BY <2>1, <2>2 DEF AddFinalizer
<1>9. UNCHANGED <<now, ccache, wcache>> /\ Sound(obj')
  BY DEF TakeSnapshot, SoleInv
<1> QED
  BY <1>0, <1>2, <1>4, <1>7, <1>8, <1>9, SolePass

LEMMA SoleRecordConflicted ==
    ASSUME SoleInv, IInv, Alone, NEW p \in Policies, RecordConflicted(p)
    PROVE  SoleInv'
<1> DEFINE known == pass[p].known
           d == [outcome |-> "Conflicted", departed |-> FALSE, recs |-> NoRecs]
           desired == RecordStatus(known, d, now)
           o == PatchStatus(obj, known, desired)
<1>1. TypeOK /\ known \in Objects /\ obj \in Objects /\ now \in Nat
  BY PassKnown DEF IInv, TypeOK
<1>2. pass[p].pc = "conflict"
  BY DEF RecordConflicted, At
<1>3. d \in Decisions /\ d.outcome # "Computed"
  BY RecsType DEF Decisions, Outcomes
<1>4. /\ desired \in Objects /\ desired.recs = known.recs
      /\ desired.computedBy = known.computedBy /\ desired.observedAt = known.observedAt
  BY <1>1, <1>3, RecordStatusType, ConflictedStatus
<1>5. IF Exists(obj) THEN Store(o) ELSE UNCHANGED <<rev, obj>>
  BY DEF RecordConflicted
<1>6. Sound(obj) /\ (Exists(obj) => Same(known, obj) \/ ~HasRecs(obj))
  BY <1>2 DEF SoleInv, PassSound
<1>7. Sound(obj')
  <2>1. CASE ~Exists(obj)
    BY <1>5, <1>6, <2>1
  <2>2. CASE Exists(obj) /\ Same(known, obj)
    <3>1. Sound(known)
      BY <1>1, <1>6, <2>2, SoundSame DEF Same
    <3>2. Sound(desired) /\ desired.created = known.created /\ desired.policy = known.policy
      BY <1>1, <1>3, <3>1, RecordStatusSound
    <3> HIDE DEF desired, known
    <3> QED
      BY <1>1, <1>4, <1>5, <2>2, <3>2, PatchSound
  <2>3. CASE Exists(obj) /\ ~HasRecs(obj)
    <3> HIDE DEF desired, known
    <3>1. /\ o \in Objects /\ o.recs = obj.recs /\ o.computedBy = obj.computedBy
      BY <1>1, <1>4, PatchStatusType, PatchStatusKeeps
    <3>2. Store(o)
      BY <1>5, <2>3
    <3> HIDE DEF o
    <3>3. Same(o, obj') /\ obj' \in Objects
      BY <1>1, <3>1, <3>2, StoreSame
    <3>4. Sound(o)
      BY <1>6, <2>3, <3>1 DEF Sound, HasRecs
    <3> QED
      BY <3>1, <3>3, <3>4, SoundSame
  <2> QED
    BY <1>6, <2>1, <2>2, <2>3
<1>8. ToSweep(p) /\ UNCHANGED <<now, ccache, wcache, pol>>
  BY DEF RecordConflicted
<1> QED
  BY <1>1, <1>2, <1>7, <1>8, SoleDrops

LEMMA SoleEnsured ==
    ASSUME SoleInv, TypeOK, Alone, NEW p \in Policies, pass[p].pc # "idle",
           Ensured(p, obj'), UNCHANGED <<now, ccache, wcache, pol>>,
           Exists(obj'), obj'.policy = p, Sound(obj')
    PROVE  SoleInv'
<1> DEFINE step == IF NeedsEnsure(obj', pass[p].running) THEN "status" ELSE "fetch"
<1>1. step \in Holding /\ Known(p, step, obj')
  BY DEF Ensured, Holding
<1> HIDE DEF step
<1> QED
  BY <1>1, SoleHolds

LEMMA SoleEnsureCreate ==
    ASSUME SoleInv, IInv, Alone, NEW p \in Policies, EnsureCreate(p)
    PROVE  SoleInv'
<1>1. /\ TypeOK /\ rev \in Nat /\ now \in Nat /\ pass[p] \in Passes
      /\ pass \in [Policies -> Passes]
  BY DEF IInv, TypeOK
<1>2. /\ Controller.obj = obj /\ pass[p].pc = "claim" /\ ~Exists(obj)
  BY ReadsStored DEF EnsureCreate, At
<1>3. /\ Create(p) /\ Ensured(p, obj') /\ UNCHANGED <<now, ccache, wcache, pol>>
  BY <1>2 DEF EnsureCreate
<1>4. obj' = NewObject(p, rev + 1, now) /\ rev + 1 \in Nat /\ rev + 1 # 0
  BY <1>1, <1>3 DEF Create
<1>5. Sound(obj') /\ obj'.policy = p /\ Exists(obj')
  BY <1>1, <1>4, NewObjectEmpty DEF Exists
<1> QED
  BY <1>1, <1>2, <1>3, <1>5, SoleEnsured

\* A claim from what is stored, or a blind one.
LEMMA ClaimSame ==
    ASSUME TypeOK, NEW p \in Policies, NEW known \in {obj, Missing},
           LabelFollowsSpec
    PROVE  LET o == Claim(obj, known, p)
           IN  /\ o \in Objects /\ o.policy = p /\ o.uid = obj.uid
               /\ o.created = obj.created /\ o.recs = obj.recs
               /\ o.computedBy = obj.computedBy
               /\ o.observedAt = obj.observedAt
               /\ o.servableUntil = obj.servableUntil
<1>1. obj \in Objects /\ Missing \in Objects
  BY MissingType DEF TypeOK
<1>2. Missing.policy = NoPolicy /\ Missing.label = NoPolicy /\ p # NoPolicy
  BY PoliciesAssumption DEF Missing
<1>3. Sent(known.policy, p, obj.policy) = p /\ Sent(known.label, p, obj.label) = p
  BY <1>2 DEF Sent
<1>4. Claim(obj, known, p) = [obj EXCEPT !.policy = p, !.label = p]
  BY <1>1, <1>3 DEF Claim
<1> QED
  BY <1>1, <1>4 DEF Objects

LEMMA SoleClaimPatch ==
    ASSUME SoleInv, IInv, Alone, NEW p \in Policies, NEW known \in {obj, Missing},
           pass[p].pc # "idle", ClaimPatch(p, known),
           UNCHANGED <<now, ccache, wcache, pol>>
    PROVE  SoleInv'
<1>1. TypeOK /\ LabelFollowsSpec /\ obj \in Objects /\ Sound(obj)
  BY DEF IInv, TypeOK, CopiesOK, Copies, CopyOK, LabelFollowsSpec, SoleInv
<1>2. CASE Exists(obj)
  <2> DEFINE o == Claim(obj, known, p)
  <2>1. /\ o \in Objects /\ o.policy = p /\ o.uid = obj.uid
        /\ o.created = obj.created /\ o.recs = obj.recs
        /\ o.computedBy = obj.computedBy
        /\ o.observedAt = obj.observedAt
        /\ o.servableUntil = obj.servableUntil
    BY <1>1, ClaimSame
  <2>2. Store(o) /\ Ensured(p, obj')
    BY <1>2 DEF ClaimPatch
  <2> HIDE DEF o
  <2>3. Sound(o) /\ Exists(o)
    BY <1>1, <1>2, <2>1 DEF Sound, HasRecs, LastComputed, Exists
  <2>4. Same(o, obj') /\ obj' \in Objects /\ Exists(obj')
    BY <1>1, <2>1, <2>2, <2>3, StoreSame
  <2>5. Sound(obj') /\ obj'.policy = p
    BY <2>1, <2>3, <2>4, SoundSame DEF Same
  <2> QED
    BY <1>1, <2>2, <2>4, <2>5, SoleEnsured
<1>3. CASE ~Exists(obj)
  BY <1>1, <1>3, SoleDrops DEF ClaimPatch
<1> QED
  BY <1>2, <1>3

LEMMA SoleEnsureClaim ==
    ASSUME SoleInv, IInv, Alone, NEW p \in Policies, EnsureBlind(p) \/ EnsureAdopt(p)
    PROVE  SoleInv'
<1>1. Controller.obj = obj
  BY ReadsStored
<1>2. CASE EnsureBlind(p)
  BY <1>2, SoleClaimPatch DEF EnsureBlind, At
<1>3. CASE EnsureAdopt(p)
  BY <1>1, <1>3, SoleClaimPatch DEF EnsureAdopt, At
<1> QED
  BY <1>2, <1>3

LEMMA SoleEnsureOwn ==
    ASSUME SoleInv, IInv, Alone, NEW p \in Policies, EnsureOwn(p)
    PROVE  SoleInv'
<1>1. /\ Controller.obj = obj /\ pass[p].pc = "claim" /\ Exists(obj) /\ obj' = obj
      /\ obj.policy = p /\ UNCHANGED <<now, ccache, wcache, pol>>
      /\ Ensured(p, obj')
  BY ReadsStored DEF EnsureOwn, At, NeedsClaim
<1>2. TypeOK /\ Sound(obj')
  BY <1>1 DEF IInv, SoleInv
<1> QED
  BY <1>1, <1>2, SoleEnsured

LEMMA SoleEnsureSnapshot ==
    ASSUME SoleInv, IInv, Alone, NEW p \in Policies, EnsureSnapshot(p)
    PROVE  SoleInv'
<1> DEFINE known == pass[p].known
           desired == EnsureStatus(known, pass[p].running)
<1>1. TypeOK /\ pass[p] \in Passes /\ pass[p].running \in SUBSET Names
  BY DEF IInv, TypeOK, Passes
<1>2. /\ pass[p].pc = "status" /\ UNCHANGED <<now, ccache, wcache, pol>>
      /\ IF Exists(obj)
         THEN Store(PatchStatus(obj, known, desired)) /\ Known(p, "fetch", obj')
         ELSE ToSweep(p) /\ UNCHANGED <<rev, obj>>
  BY DEF EnsureSnapshot, At
<1>3. CASE Exists(obj)
  <2>1. /\ known \in Objects /\ known.policy = p /\ Same(known, obj) /\ Sound(known)
    BY <1>1, <1>2, <1>3, HoldsStored DEF Holding
  <2>2. /\ desired \in Objects /\ Sound(desired)
        /\ desired.created = known.created /\ desired.policy = known.policy
    BY <1>1, <2>1, EnsureStatusType, EnsureStatusSound
  <2> HIDE DEF desired, known
  <2>3. Same(desired, obj') /\ Sound(obj') /\ Exists(obj')
    BY <1>1, <1>2, <1>3, <2>1, <2>2, PatchSound
  <2>4. obj'.policy = p
    BY <2>1, <2>2, <2>3 DEF Same
  <2> QED
    BY <1>1, <1>2, <1>3, <2>3, <2>4, SoleHolds DEF Holding
<1>4. CASE ~Exists(obj)
  BY <1>1, <1>2, <1>4, SoleDrops DEF SoleInv
<1> QED
  BY <1>3, <1>4

LEMMA SoleRecommend ==
    ASSUME SoleInv, IInv, Alone, NEW p \in Policies, Recommend(p)
    PROVE  SoleInv'
<1> DEFINE x == [pass[p] EXCEPT !.pc = "record", !.input = inputs[p], !.at = now]
<1>1. TypeOK /\ pass \in [Policies -> Passes] /\ pass[p] \in Passes
  BY DEF IInv, TypeOK
<1>2. /\ pass[p].pc = "fetch" /\ obj' = obj
      /\ UNCHANGED <<now, ccache, wcache, pol>>
  BY DEF Recommend, At
<1>3. pass' = [pass EXCEPT ![p] = x]
  BY <1>1 DEF Recommend, Passes
<1>4. x.pc = "record" /\ x.known = pass[p].known /\ x.takenAt = pass[p].takenAt
  BY <1>1 DEF Passes
<1> HIDE DEF x
<1>5. PassSound(p, pass[p], obj, now)
  BY DEF SoleInv
<1>6. PassSound(p, x, obj', now)
  BY <1>2, <1>4, <1>5 DEF PassSound, Holding
<1>7. \A q \in Policies \ {p} : pass[q].pc = "idle"
  BY <1>2, OthersIdle DEF SoleInv
<1>8. (~Forced => p \in InitialPolicies) /\ Sound(obj')
  BY <1>2 DEF SoleInv, Unforced
<1> QED
  BY <1>1, <1>2, <1>3, <1>6, <1>7, <1>8, SolePass

\* What p's pass decides is computed under p.
LEMMA DecisionBy ==
    ASSUME NEW p \in Policies, NEW n \in Names
    PROVE  DecisionOf(p).recs[n].by \in {p, NoPolicy}
<1>1. CASE pass[p].input \in Levels
  BY <1>1 DEF DecisionOf, Unset
<1>2. CASE pass[p].input \notin Levels
  BY <1>2 DEF DecisionOf, NoRecs, Unset
<1> QED
  BY <1>1, <1>2

LEMMA SoleRecord ==
    ASSUME SoleInv, IInv, Alone, NEW p \in Policies, Record(p)
    PROVE  SoleInv'
<1> DEFINE known == pass[p].known
           d == DecisionOf(p)
           at == pass[p].at
           desired == RecordStatus(known, d, at)
<1>1. TypeOK /\ pass[p] \in Passes /\ now \in Nat
  BY DEF IInv, TypeOK
<1>2. /\ pass[p].pc = "record" /\ UNCHANGED <<now, ccache, wcache, pol>>
      /\ ToSweep(p)
      /\ IF Exists(obj) THEN Store(PatchStatus(obj, known, desired))
         ELSE UNCHANGED <<rev, obj>>
  BY DEF Record, At
<1>3. pass[p].input \in Inputs /\ at \in Nat
  BY <1>1, <1>2 DEF IInv, RecordsPast
<1>4. d \in Decisions /\ \A n \in Names : d.recs[n].by \in {p, NoPolicy}
  BY <1>1, <1>3, DecisionType, DecisionBy
<1> HIDE DEF d, at
<1>5. Sound(obj')
  <2>1. CASE Exists(obj)
    <3>1. /\ known \in Objects /\ known.policy = p /\ Same(known, obj) /\ Sound(known)
      BY <1>1, <1>2, <2>1, HoldsStored DEF Holding
    <3> HIDE DEF known
    <3>2. /\ desired \in Objects /\ Sound(desired)
          /\ desired.created = known.created /\ desired.policy = known.policy
      BY <1>3, <1>4, <3>1, RecordStatusType, RecordStatusSound
    <3> HIDE DEF desired
    <3> QED
      BY <1>1, <1>2, <2>1, <3>1, <3>2, PatchSound
  <2>2. CASE ~Exists(obj)
    BY <1>2, <2>2 DEF SoleInv
  <2> QED
    BY <2>1, <2>2
<1> QED
  BY <1>1, <1>2, <1>5, SoleDrops

LEMMA SoleDelete ==
    ASSUME SoleInv, NEW known, Delete(known)
    PROVE  Sound(obj')
BY MissingEmpty DEF SoleInv, Delete

LEMMA SoleSweep ==
    ASSUME SoleInv, IInv, Alone, NEW p \in Policies, Sweep(p)
    PROVE  SoleInv'
<1>1. /\ TypeOK /\ pass[p].pc = "sweep" /\ UNCHANGED <<now, ccache, wcache, pol>>
      /\ pass' = [pass EXCEPT ![p] = Idle]
      /\ Delete(Controller.obj) \/ obj' = obj
  BY DEF IInv, Sweep, At
<1>2. Sound(obj')
  BY <1>1, SoleDelete DEF SoleInv
<1> QED
  BY <1>1, <1>2, SoleDrops

LEMMA SoleRelease ==
    ASSUME SoleInv, IInv, Alone, NEW p \in Policies, Release(p)
    PROVE  SoleInv'
<1>1. /\ TypeOK /\ pass \in [Policies -> Passes] /\ pass[p] \in Passes
      /\ pass[p].pc = "idle" /\ UNCHANGED <<now, ccache, wcache, pol>>
      /\ Delete(Controller.obj) \/ obj' = obj
      /\ pass' = pass \/ Goto(p, "finalizer")
  BY DEF IInv, TypeOK, Release, MayReconcile, At
<1>2. Sound(obj')
  BY <1>1, SoleDelete DEF SoleInv
<1>3. \A q \in Policies \ {p} : pass[q].pc = "idle"
  BY OthersIdle DEF SoleInv, Release
<1>4. Forced
  <2>1. Controller.pol[p].phase = "deleting"
    BY DEF Release
  <2> QED
    BY <2>1, ReadsStored DEF SoleInv, Unforced
<1> DEFINE x == IF pass' = pass THEN pass[p] ELSE [pass[p] EXCEPT !.pc = "finalizer"]
<1>5. pass' = [pass EXCEPT ![p] = x]
  BY <1>1 DEF Goto
<1>6. x.takenAt = pass[p].takenAt /\ x.pc \in {"idle", "finalizer"}
  BY <1>1 DEF Passes
<1> HIDE DEF x
<1>7. PassSound(p, x, obj', now)
  BY <1>6, EmptyPass DEF SoleInv, PassSound, Holding
<1> QED
  BY <1>1, <1>2, <1>3, <1>4, <1>5, <1>7, SolePass

LEMMA SoleRemoveFinalizer ==
    ASSUME SoleInv, IInv, Alone, NEW p \in Policies, RemoveFinalizer(p)
    PROVE  SoleInv'
<1>1. /\ TypeOK /\ pass[p].pc = "finalizer" /\ UNCHANGED <<now, ccache, wcache, obj>>
      /\ pass' = [pass EXCEPT ![p] = Idle]
      /\ pol' = IF pol[p].phase = "deleting"
                THEN [pol EXCEPT ![p].phase = "absent"] ELSE pol
  BY DEF IInv, RemoveFinalizer, At
<1>2. ~Forced => pol' = pol
  BY <1>1 DEF SoleInv, Unforced
<1>3. Sound(obj')
  BY <1>1 DEF SoleInv
<1> QED
  BY <1>1, <1>2, <1>3, SoleDrops

LEMMA SoleFault ==
    ASSUME SoleInv, IInv, Alone, NEW p \in Policies, CallFails(p) \/ BackedOff(p)
    PROVE  SoleInv'
<1>1. /\ TypeOK /\ pass[p].pc # "idle" /\ UNCHANGED <<now, ccache, wcache, obj, pol>>
      /\ ToSweep(p) \/ pass' = [pass EXCEPT ![p] = Idle]
  BY DEF IInv, CallFails, BackedOff, At
<1>2. Sound(obj')
  BY <1>1 DEF SoleInv
<1> QED
  BY <1>1, <1>2, SoleDrops

LEMMA SolePassStep ==
    ASSUME SoleInv, IInv, Alone, NEW p \in Policies, PassStep(p)
    PROVE  SoleInv'
BY SoleTakeSnapshot, SoleRecordConflicted, SoleEnsureCreate, SoleEnsureClaim,
   SoleEnsureOwn, SoleEnsureSnapshot, SoleRecommend, SoleRecord, SoleSweep,
   SoleRelease, SoleRemoveFinalizer DEF PassStep

\* A step outside the passes that leaves the object what it is.
LEMMA SoleBeside ==
    ASSUME SoleInv, TypeOK, pass' = pass, now' \in Nat, now <= now',
           Same(obj, obj'), Exists(obj') <=> Exists(obj), obj' \in Objects,
           Sound(wcache'.obj), ~Forced => pol' = pol /\ ccache'.pol = ccache.pol
    PROVE  SoleInv'
<1>1. obj \in Objects /\ now \in Nat
  BY DEF TypeOK
<1>2. Sound(obj') /\ (HasRecs(obj) <=> HasRecs(obj'))
  BY <1>1, SoundSame DEF SoleInv
<1>3. ASSUME NEW p \in Policies PROVE PassSound(p, pass[p], obj', now')
  <2>1. PassSound(p, pass[p], obj, now)
    BY DEF SoleInv
  <2>2. pass[p].takenAt \in Nat
    BY DEF TypeOK, Passes
  <2>3. Same(pass[p].known, obj) => Same(pass[p].known, obj')
    BY DEF Same
  <2> QED
    BY <1>1, <1>2, <2>1, <2>2, <2>3 DEF PassSound
<1>4. OneWorker' /\ Unforced'
  BY DEF SoleInv, OneWorker, Unforced
<1> QED
  BY <1>2, <1>3, <1>4 DEF SoleInv

\* A webhook's snapshot, from any copy.
LEMMA SnapshotSame ==
    ASSUME IInv, NEW known \in Copies, NEW running \in SUBSET Names,
           IF Exists(obj)
           THEN Store(PatchStatus(obj, known, SnapshotStatus(known, running)))
           ELSE UNCHANGED <<rev, obj>>
    PROVE  /\ Same(obj, obj') /\ obj' \in Objects
           /\ Exists(obj') <=> Exists(obj)
<1> DEFINE desired == SnapshotStatus(known, running)
           o == PatchStatus(obj, known, desired)
<1>1. TypeOK /\ obj \in Objects /\ known \in Objects
  BY HeldOK DEF IInv, TypeOK
<1>2. CASE ~Exists(obj)
  BY <1>1, <1>2 DEF Same
<1>3. CASE Exists(obj)
  <2>1. /\ desired \in Objects /\ desired.recs = known.recs
        /\ desired.computedBy = known.computedBy
        /\ desired.observedAt = known.observedAt
        /\ desired.servableUntil = known.servableUntil
    BY <1>1, SnapshotStatusType DEF SnapshotStatus, Objects
  <2>2. Store(o)
    BY <1>3
  <2> HIDE DEF desired
  <2>3. Same(obj, o) /\ o \in Objects /\ o.uid = obj.uid
    BY <1>1, <2>1, PatchBeside, PatchStatusType
  <2> HIDE DEF o
  <2>4. Same(o, obj') /\ obj' \in Objects /\ (Exists(obj') <=> Exists(o))
    BY <1>1, <2>2, <2>3, StoreSame
  <2> QED
    BY <2>3, <2>4 DEF Same, Exists
<1> QED
  BY <1>2, <1>3

\* The object of a Policy at work is no orphan, unless the Policy was forced
\* away.
LEMMA SoleReap ==
    ASSUME SoleInv, IInv, Alone, Reap
    PROVE  SoleInv'
<1>1. /\ TypeOK /\ obj \in Objects /\ now \in Nat
      /\ UNCHANGED <<now, ccache, wcache, pol, pass>>
      /\ Exists(obj) /\ Orphaned(obj, Controller.pol) /\ Delete(obj)
  BY ReadsStored DEF IInv, TypeOK, Reap
<1>2. obj' = Missing /\ ~Exists(obj') /\ Sound(obj')
  <2>1. obj' = Missing
    BY <1>1 DEF Delete, AtJudgedRevision
  <2>2. ~Exists(Missing)
    BY DEF Exists, Missing
  <2> QED
    BY <2>1, <2>2, MissingEmpty
<1>3. ASSUME NEW p \in Policies PROVE PassSound(p, pass[p], obj', now)
  <2>1. PassSound(p, pass[p], obj, now)
    BY DEF SoleInv
  <2>2. ASSUME pass[p].pc \in Holding PROVE Forced
    <3> SUFFICES ASSUME ~Forced PROVE FALSE
      OBVIOUS
    <3>1. obj.policy = p
      BY <1>1, <2>2, HoldsStored
    <3>2. pass[p].pc # "idle"
      BY <2>2 DEF Holding
    <3>3. pol[p].phase = "live" /\ Controller.pol = pol
      BY <3>2, ReadsStored DEF SoleInv, Unforced
    <3> QED
      BY <1>1, <3>1, <3>3 DEF Orphaned, Exist
  <2> QED
    BY <1>2, <2>1, <2>2 DEF PassSound
<1>4. OneWorker' /\ Unforced' /\ Sound(wcache'.obj)
  BY <1>1 DEF SoleInv, OneWorker, Unforced
<1> QED
  BY <1>1, <1>2, <1>3, <1>4 DEF SoleInv

LEMMA SoleAdmit ==
    ASSUME SoleInv, IInv, Alone, NEW p \in Policies, NEW running \in SUBSET Names,
           Admit(p, running)
    PROVE  SoleInv'
<1> DEFINE known == Webhook.obj
<1>1. /\ TypeOK /\ obj \in Objects /\ now \in Nat /\ rev \in Nat
      /\ UNCHANGED <<now, ccache, wcache, pol, pass>>
      /\ known \in Copies
  BY ReadsCopies DEF IInv, TypeOK, Admit
<1>2. Sound(wcache'.obj)
  BY <1>1 DEF SoleInv
<1>3. CASE Exists(known)
  <2>1. /\ Same(obj, obj') /\ obj' \in Objects
        /\ Exists(obj') <=> Exists(obj)
    BY <1>1, <1>3, SnapshotSame DEF Admit
  <2> QED
    BY <1>1, <1>2, <2>1, SoleBeside
<1>4. CASE ~Exists(known) /\ Exists(obj)
  <2>1. obj' = obj
    BY <1>4 DEF Admit
  <2> QED
    BY <1>1, <1>2, <2>1, SoleBeside DEF Same
<1>5. CASE ~Exists(known) /\ ~Exists(obj)
  <2>1. obj' = NewObject(p, rev + 1, now) /\ rev + 1 \in Nat
    BY <1>1, <1>5 DEF Admit, Create
  <2>2. Sound(obj') /\ ~HasRecs(obj')
    BY <1>1, <2>1, NewObjectEmpty
  <2>3. ~Forced
    BY DEF Alone, Admit, Event
  <2>4. ASSUME NEW q \in Policies PROVE PassSound(q, pass[q], obj', now)
    <3>1. PassSound(q, pass[q], obj, now)
      BY DEF SoleInv
    <3> QED
      BY <1>5, <2>2, <2>3, <3>1 DEF PassSound
  <2>5. OneWorker' /\ Unforced'
    BY <1>1 DEF SoleInv, OneWorker, Unforced
  <2> QED
    BY <1>1, <1>2, <2>2, <2>4, <2>5 DEF SoleInv
<1> QED
  BY <1>3, <1>4, <1>5

LEMMA SoleStubSnapshot ==
    ASSUME SoleInv, IInv, StubSnapshot
    PROVE  SoleInv'
<1>1. /\ TypeOK /\ now \in Nat /\ UNCHANGED <<now, ccache, wcache, pol, pass>>
      /\ stub.known \in Copies /\ stub.running \in SUBSET Names
  BY DEF IInv, TypeOK, StubSnapshot, Copies
<1>2. /\ Same(obj, obj') /\ obj' \in Objects
      /\ Exists(obj') <=> Exists(obj)
  BY <1>1, SnapshotSame DEF StubSnapshot
<1>3. Sound(wcache'.obj)
  BY <1>1 DEF SoleInv
<1> QED
  BY <1>1, <1>2, <1>3, SoleBeside

\* Time, users and watches.
LEMMA SoleAround ==
    ASSUME SoleInv, IInv,
           \/ Tick \/ MembersChange \/ Watch \/ WebhookRestarts
           \/ \E p \in Policies : InputChanges(p) \/ PolicyChanges(p)
           \/ UNCHANGED vars
    PROVE  SoleInv'
<1>1. TypeOK /\ now \in Nat /\ obj \in Objects
  BY DEF IInv, TypeOK
<1>2. obj' = obj /\ pass' = pass
  BY DEF Tick, MembersChange, Watch, WebhookRestarts, InputChanges, PolicyChanges,
     SeeRecommendation, SeePolicies, SeeMembers, WebhookSeesRecommendation,
     WebhookSeesPolicies, vars
<1>3. now' \in Nat /\ now <= now'
  BY <1>1 DEF Tick, MembersChange, Watch, WebhookRestarts, InputChanges, PolicyChanges,
     SeeRecommendation, SeePolicies, SeeMembers, WebhookSeesRecommendation,
     WebhookSeesPolicies, vars
<1>4. wcache'.obj \in {wcache.obj, obj}
  BY <1>1 DEF Tick, MembersChange, Watch, WebhookRestarts, InputChanges, PolicyChanges,
     SeeRecommendation, SeePolicies, SeeMembers, WebhookSeesRecommendation,
     WebhookSeesPolicies, vars, TypeOK
<1>5. ~Forced => pol' = pol
  BY DEF Tick, MembersChange, Watch, WebhookRestarts, InputChanges, PolicyChanges,
     SeeRecommendation, SeePolicies, SeeMembers, WebhookSeesRecommendation,
     WebhookSeesPolicies, vars, Forced, Event
<1>6. ccache'.pol \in {ccache.pol, pol}
  BY <1>1 DEF Tick, MembersChange, Watch, WebhookRestarts, InputChanges, PolicyChanges,
     SeeRecommendation, SeePolicies, SeeMembers, WebhookSeesRecommendation,
     WebhookSeesPolicies, vars, TypeOK
<1>7. Sound(wcache'.obj)
  BY <1>4 DEF SoleInv
<1>8. ~Forced => ccache'.pol = ccache.pol
  BY <1>6 DEF SoleInv, Unforced
<1> QED
  BY <1>1, <1>2, <1>3, <1>5, <1>7, <1>8, SoleBeside DEF Same

LEMMA SoleRestart ==
    ASSUME SoleInv, IInv, ControllerRestarts
    PROVE  SoleInv'
<1>1. /\ pass' = [p \in Policies |-> Idle] /\ ccache'.pol = pol
      /\ UNCHANGED <<now, wcache, pol, obj>>
  BY DEF ControllerRestarts
<1>2. Idle.pc = "idle" /\ Idle.takenAt = 0 /\ now \in Nat
  BY DEF Idle, IInv, TypeOK
<1>3. \A p \in Policies : PassSound(p, pass'[p], obj', now')
  BY <1>1, <1>2 DEF PassSound, Holding
<1>4. OneWorker' /\ Unforced'
  BY <1>1, <1>2 DEF SoleInv, OneWorker, Unforced
<1>5. Sound(obj') /\ Sound(wcache'.obj)
  BY <1>1 DEF SoleInv
<1> QED
  BY <1>3, <1>4, <1>5 DEF SoleInv

LEMMA SoleStep ==
    ASSUME SoleInv, IInv, Alone, [Next]_vars
    PROVE  SoleInv'
<1>1. CASE \E p \in Policies : PassStep(p)
  BY <1>1, SolePassStep
<1>2. CASE Reap \/ StubSnapshot \/ ControllerRestarts
  BY <1>2, SoleReap, SoleStubSnapshot, SoleRestart
<1>3. CASE \E p \in Policies : \E running \in (SUBSET Names) \ {{}} : Admit(p, running)
  BY <1>3, SoleAdmit
<1>4. CASE \E p \in Policies : CallFails(p) \/ BackedOff(p)
  BY <1>4, SoleFault
<1>5. CASE \/ Tick \/ MembersChange \/ Watch \/ WebhookRestarts
           \/ \E p \in Policies : InputChanges(p) \/ PolicyChanges(p)
           \/ UNCHANGED vars
  BY <1>5, SoleAround
<1> QED
  BY <1>1, <1>2, <1>3, <1>4, <1>5 DEF Next, Environment

\* An object of an older release names the Policy that computed it, and has no
\* stamp.
LEMMA LegacySound ==
    ASSUME NEW p \in LegacyPolicies, NEW l \in Levels
    PROVE  Sound(Legacy(p, l))
<1> DEFINE new == NewObject(p, 1, 1)
           recs == [n \in Names |-> [by |-> p, level |-> l]]
           o == Legacy(p, l)
<1>1. p \in Policies
  BY SetsAssumption
<1>2. new \in Objects /\ new.servableUntil = 0 /\ new.created = 1
  BY <1>1, NewObjectType DEF NewObject, Missing
<1>3. o = [new EXCEPT !.outcome = "Computed", !.computedBy = p,
                      !.observed = Names, !.recs = recs, !.observedAt = 1]
  BY DEF Legacy
<1>4. \A n \in Names : recs[n].by = p
  OBVIOUS
<1> HIDE DEF new, recs, o
<1>5. /\ o.computedBy = p /\ o.recs = recs /\ o.created = 1 /\ o.observedAt = 1
      /\ o.servableUntil = 0
  BY <1>2, <1>3 DEF Objects
<1>6. o.servableUntil <= LastComputed(o) + LongestWindow
  BY <1>5, Windows DEF LastComputed
<1>7. Sound(o)
  BY <1>4, <1>5, <1>6 DEF Sound
<1> QED
  BY <1>7 DEF o

LEMMA SoleInit == Init => SoleInv
<1> SUFFICES ASSUME Init PROVE SoleInv
  OBVIOUS
<1>1. obj = Missing \/ \E p \in LegacyPolicies, l \in Levels : obj = Legacy(p, l)
  BY DEF Init
<1>2. Sound(obj)
  BY <1>1, MissingEmpty, LegacySound
<1>3. Idle.pc = "idle" /\ Idle.takenAt = 0
  BY DEF Idle
<1>4. \A p \in Policies : pass[p] = Idle
  BY DEF Init
<1>5. OneWorker /\ \A p \in Policies : PassSound(p, pass[p], obj, now)
  BY <1>3, <1>4 DEF OneWorker, PassSound, Holding, Init
<1>6. wcache.obj = obj /\ ccache.pol = pol
  BY DEF Init
<1>7. \A p \in Policies : pol[p].phase = IF p \in InitialPolicies THEN "live" ELSE "absent"
  BY DEF Init
<1> QED
  BY <1>2, <1>3, <1>4, <1>5, <1>6, <1>7 DEF SoleInv, Unforced

\* With one worker and a current cache a pod of a Policy is injected only
\* numbers computed under that Policy, whatever the webhook's cache shows,
\* unless a Policy is forced away and its object replaced while it is at work
\* (ADR 0003; Ensure, Record and Read).
THEOREM ServedByItsPolicy == Alone => (Spec => []ServedOnlyToItsPolicy)
<1> SUFFICES ASSUME Alone PROVE Spec => []ServedOnlyToItsPolicy
  OBVIOUS
<1>1. SoleInv /\ IInv /\ [Next]_vars => SoleInv'
  BY SoleStep
<1>2. SoleInv => ServedOnlyToItsPolicy
  <2> SUFFICES ASSUME SoleInv, NEW p \in Policies, Served(Webhook.obj, p),
                      NEW n \in Names
               PROVE  Webhook.obj.recs[n].by \in {p, NoPolicy}
    BY DEF ServedOnlyToItsPolicy
  <2>1. Sound(Webhook.obj)
    BY DEF SoleInv, Webhook, Seen
  <2>2. Webhook.obj.computedBy = p
    BY DEF Served, Injects, Read
  <2> QED
    BY <2>1, <2>2 DEF Sound
<1> QED
  BY <1>1, <1>2, SoleInit, Inductive, PTL DEF Spec

\* Under the same conditions, and when Recommendations are retained at least as
\* long as they count as fresh, the sweep of a Departed or Conflicted identity
\* takes away nothing that some pod could still be served (Expired as of the
\* snapshot's instant, against the stamp of the stored object).
THEOREM SweepsSpareServed ==
    Alone /\ StalenessBudget <= Retention => (Spec => SweepSparesServed)
<1> SUFFICES ASSUME Alone, StalenessBudget <= Retention
             PROVE  Spec => SweepSparesServed
  OBVIOUS
<1>1. SoleInv /\ IInv /\ [Next]_vars => SoleInv'
  BY SoleStep
<1>2. SoleInv /\ IInv /\ [Next]_vars =>
        [\A p \in Policies :
           Sweep(p) /\ Deleted /\ pass[p].standing # "Ungoverned" =>
               \A q \in Policies : ~Served(obj, q)]_vars
  <2> SUFFICES ASSUME SoleInv, IInv, NEW p \in Policies, Sweep(p), Deleted,
                      pass[p].standing # "Ungoverned", NEW q \in Policies,
                      Served(obj, q)
               PROVE  FALSE
    OBVIOUS
  <2>1. Controller.obj = obj
    BY ReadsStored
  <2>2. Expired(obj, p, pass[p].standing, pass[p].takenAt)
    BY <2>1 DEF Sweep, Deleted, JudgedAt
  <2>3. pass[p].takenAt - LastComputed(obj) > Retention
    BY <2>2 DEF Expired
  <2>4. HasRecs(obj) /\ ~(now >= obj.servableUntil)
    BY DEF Served, Injects, Read
  <2>5. obj.servableUntil <= LastComputed(obj) + LongestWindow
    BY <2>4 DEF SoleInv, Sound
  <2>6. LongestWindow = Retention
    BY Windows, DurationsAssumption DEF LongestWindow, Later
  <2>7. pass[p].takenAt <= now
    BY DEF SoleInv, PassSound
  <2>8. /\ now \in Nat /\ obj.servableUntil \in Nat /\ LastComputed(obj) \in Nat
        /\ pass[p].takenAt \in Nat /\ Retention \in Nat
    BY InstantsType, DurationsAssumption DEF IInv, TypeOK, Passes, LastComputed
  <2> QED
    BY <2>3, <2>4, <2>5, <2>6, <2>7, <2>8
<1> QED
  BY <1>1, <1>2, SoleInit, Inductive, PTL DEF Spec, SweepSparesServed
=============================================================================
