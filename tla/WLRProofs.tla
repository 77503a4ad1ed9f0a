----------------------------- MODULE WLRProofs -----------------------------
(***************************************************************************)
(* What the writers of WLR.tla preserve: every one of them turns           *)
(* well-formed objects into well-formed objects, and bounds the stamp it   *)
(* leaves.                                                                 *)
(***************************************************************************)
EXTENDS WLR, TLAPS

\* A container map patched key by key stays a container map.
LEMMA RecsType ==
    /\ Unset \in Recommended
    /\ NoRecs \in [Names -> Recommended]
BY DEF Unset, Recommended, NoRecs

\* The absent object is a well-formed one.
LEMMA MissingType == Missing \in Objects
BY RecsType DEF Missing, Objects

\* newObject is well formed.
LEMMA NewObjectType ==
    ASSUME NEW p \in Policies, NEW r \in Nat, NEW t \in Nat
    PROVE  NewObject(p, r, t) \in Objects
BY RecsType DEF NewObject, Missing, Objects

\* A revision changes nothing but the resourceVersion.
LEMMA RevisedType ==
    ASSUME NEW o \in Objects, NEW r \in Nat
    PROVE  LET n == [o EXCEPT !.rv = r]
           IN  /\ n \in Objects /\ n.rv = r
               /\ n.uid = o.uid /\ n.created = o.created
               /\ n.label = o.label /\ n.policy = o.policy
               /\ n.recs = o.recs /\ n.computedBy = o.computedBy
               /\ n.observedAt = o.observedAt /\ n.servableUntil = o.servableUntil
BY DEF Objects

\* servableUntil's formula is a time.
LEMMA ServableUntilType ==
    ASSUME NEW o \in Objects
    PROVE  ServableUntil(o) \in Nat
<1>1. StalenessBudget \in Nat
  BY DurationsAssumption DEF StalenessBudget
<1>2. LastComputed(o) \in Nat
  BY DEF LastComputed, Objects
<1> QED
  BY <1>1, <1>2, DurationsAssumption DEF ServableUntil

\* So is a stamp.
LEMMA StampType ==
    ASSUME NEW known \in Objects, NEW o \in Objects, NEW b \in BOOLEAN
    PROVE  Stamp(known, o, b) \in Nat
BY ServableUntilType DEF Stamp

\* A merge patch of the status leaves metadata and spec alone and stores a
\* well-formed object.
LEMMA PatchStatusType ==
    ASSUME NEW stored \in Objects, NEW known \in Objects, NEW desired \in Objects
    PROVE  LET o == PatchStatus(stored, known, desired)
           IN  /\ o \in Objects
               /\ o.uid = stored.uid /\ o.rv = stored.rv
               /\ o.created = stored.created
               /\ o.policy = stored.policy /\ o.label = stored.label
               /\ o.observedAt \in {stored.observedAt, desired.observedAt}
               /\ o.servableUntil \in {stored.servableUntil, desired.servableUntil}
<1> DEFINE recs == [n \in Names |->
                 Sent(known.recs[n], desired.recs[n], stored.recs[n])]
           observed == SentSet(known.observed, desired.observed, stored.observed)
           outcome == Sent(known.outcome, desired.outcome, stored.outcome)
           departed == Sent(known.departed, desired.departed, stored.departed)
           computedBy == Sent(known.computedBy, desired.computedBy, stored.computedBy)
           at == Sent(known.observedAt, desired.observedAt, stored.observedAt)
           until == Sent(known.servableUntil, desired.servableUntil, stored.servableUntil)
           o == PatchStatus(stored, known, desired)
<1>1. recs \in [Names -> Recommended]
  BY DEF Sent, Objects
<1>2. observed \in SUBSET Names
  BY DEF SentSet, Objects
<1>3. outcome \in Outcomes \cup {""} /\ departed \in BOOLEAN
  BY DEF Sent, Objects
<1>4. computedBy \in Policies \cup {NoPolicy}
  BY DEF Sent, Objects
<1>5. at \in {stored.observedAt, desired.observedAt}
      /\ until \in {stored.servableUntil, desired.servableUntil}
  BY DEF Sent
<1>6. at \in Nat /\ until \in Nat
  BY <1>5 DEF Objects
<1>7. o = [stored EXCEPT
             !.outcome = outcome, !.departed = departed, !.computedBy = computedBy,
             !.recs = recs, !.observed = observed, !.observedAt = at,
             !.servableUntil = until]
  BY DEF PatchStatus
<1> HIDE DEF recs, observed, outcome, departed, computedBy, at, until, o
<1>8. o \in Objects
  BY <1>1, <1>2, <1>3, <1>4, <1>6, <1>7 DEF Objects
<1>9. /\ o.uid = stored.uid /\ o.rv = stored.rv /\ o.created = stored.created
      /\ o.policy = stored.policy /\ o.label = stored.label
  BY <1>7 DEF Objects
<1>10. o.observedAt = at /\ o.servableUntil = until
  BY <1>7 DEF Objects
<1> QED
  BY <1>5, <1>8, <1>9, <1>10 DEF o

\* A claim changes spec.policy and the label, to p both when it sends both.
LEMMA ClaimType ==
    ASSUME NEW stored \in Objects, NEW known \in Objects, NEW p \in Policies,
           stored.policy = stored.label, known.policy = known.label
    PROVE  LET o == Claim(stored, known, p)
           IN  /\ o \in Objects
               /\ o.uid = stored.uid /\ o.rv = stored.rv
               /\ o.created = stored.created
               /\ o.policy = o.label
               /\ o.observedAt = stored.observedAt
               /\ o.servableUntil = stored.servableUntil
BY DEF Claim, Sent, Objects

Decisions == [outcome : Outcomes, departed : BOOLEAN, recs : [Names -> Recommended]]

\* Record's desired status is well formed.
LEMMA RecordStatusType ==
    ASSUME NEW known \in Objects, NEW d \in Decisions, NEW t \in Nat
    PROVE  RecordStatus(known, d, t) \in Objects
<1> DEFINE base == [known EXCEPT !.outcome = d.outcome, !.departed = d.departed]
           fresh == [base EXCEPT !.computedBy = known.policy, !.recs = d.recs]
           due == \/ ~StatusEquivalent(known, fresh)
                  \/ known.observedAt = 0
                  \/ t - known.observedAt >= RefreshInterval
           decided == IF d.outcome # "Computed" THEN base
                      ELSE IF due THEN [fresh EXCEPT !.observedAt = t] ELSE fresh
           stamp == Stamp(known, decided, d.outcome = "Computed")
<1>1. base \in Objects
  BY DEF Objects, Decisions
<1>2. fresh \in Objects
  BY <1>1 DEF Objects, Decisions
<1>3. [fresh EXCEPT !.observedAt = t] \in Objects
  BY <1>2 DEF Objects
<1>4. decided \in Objects
  BY <1>1, <1>2, <1>3
<1> HIDE DEF decided
<1>5. stamp \in Nat
  BY <1>4, StampType
<1>6. RecordStatus(known, d, t) = [decided EXCEPT !.servableUntil = stamp]
  BY DEF RecordStatus, decided
<1> HIDE DEF stamp
<1> QED
  BY <1>4, <1>5, <1>6 DEF Objects

\* A Conflicted decision desires the numbers that are known.
LEMMA ConflictedStatus ==
    ASSUME NEW known \in Objects, NEW t \in Nat
    PROVE  LET d == [outcome |-> "Conflicted", departed |-> FALSE, recs |-> NoRecs]
               o == RecordStatus(known, d, t)
           IN  /\ o.recs = known.recs /\ o.computedBy = known.computedBy
               /\ o.observedAt = known.observedAt
BY DEF RecordStatus, Objects

\* A merge patch leaves alone the fields it does not change.
LEMMA PatchStatusKeeps ==
    ASSUME NEW stored \in Objects, NEW known \in Objects, NEW desired \in Objects,
           desired.recs = known.recs, desired.computedBy = known.computedBy,
           desired.observedAt = known.observedAt
    PROVE  LET o == PatchStatus(stored, known, desired)
           IN  /\ o.recs = stored.recs /\ o.computedBy = stored.computedBy
               /\ o.observedAt = stored.observedAt
<1> DEFINE recs == [n \in Names |->
                 Sent(known.recs[n], desired.recs[n], stored.recs[n])]
<1>1. recs = stored.recs
  BY DEF Sent, Objects
<1>2. PatchStatus(stored, known, desired).recs = recs
  BY DEF PatchStatus, Objects
<1> QED
  BY <1>1, <1>2 DEF PatchStatus, Sent, Objects

\* So is Ensure's.
LEMMA EnsureStatusType ==
    ASSUME NEW known \in Objects, NEW running \in SUBSET Names
    PROVE  EnsureStatus(known, running) \in Objects
<1> DEFINE live == [known EXCEPT !.departed = FALSE, !.observed = running]
           stamp == Stamp(known, live, FALSE)
<1>1. live \in Objects
  BY DEF Objects
<1> HIDE DEF live
<1>2. stamp \in Nat
  BY <1>1, StampType
<1>3. EnsureStatus(known, running) = [live EXCEPT !.servableUntil = stamp]
  BY DEF EnsureStatus, live
<1> HIDE DEF stamp
<1> QED
  BY <1>1, <1>2, <1>3 DEF Objects

\* And the webhook's, which changes nothing but the snapshot.
LEMMA SnapshotStatusType ==
    ASSUME NEW known \in Objects, NEW running \in SUBSET Names
    PROVE  /\ SnapshotStatus(known, running) \in Objects
           /\ SnapshotStatus(known, running).observedAt = known.observedAt
           /\ SnapshotStatus(known, running).servableUntil = known.servableUntil
BY DEF SnapshotStatus, Objects

-----------------------------------------------------------------------------
(* How far a stamp reaches.  ca is the last Computed record, 0 before any;   *)
(* 1 is the first instant of the clock.                                      *)

Stamped(o, ca) ==
    /\ o.observedAt <= Later(ca, 1)
    /\ o.servableUntil # 0 =>
          /\ ca # 0
          /\ o.servableUntil <= Later(ca, o.created) + LongestWindow

\* The windows are positive and none exceeds the longest.
LEMMA Windows ==
    /\ StalenessBudget \in Nat /\ LongestWindow \in Nat
    /\ Retention <= LongestWindow /\ StalenessBudget <= LongestWindow
BY DurationsAssumption DEF StalenessBudget, LongestWindow, Later

\* Later is the larger of its arguments.
LEMMA LaterIsMax ==
    ASSUME NEW a \in Nat, NEW b \in Nat
    PROVE  /\ Later(a, b) \in Nat /\ a <= Later(a, b) /\ b <= Later(a, b)
           /\ \A c \in Nat : a <= c /\ b <= c => Later(a, b) <= c
BY DEF Later

\* The instants of an object are naturals.
LEMMA InstantsType ==
    ASSUME NEW o \in Objects
    PROVE  o.created \in Nat /\ o.observedAt \in Nat /\ o.servableUntil \in Nat
BY DEF Objects

\* The formula reaches no further than the longest window past the later of
\* the creation and the last computation.
LEMMA ServableUntilBound ==
    ASSUME NEW o \in Objects, NEW ca \in Nat, o.observedAt <= Later(ca, 1)
    PROVE  ServableUntil(o) <= Later(ca, Later(o.created, 1)) + LongestWindow
<1>1. LastComputed(o) \in Nat /\ LastComputed(o) <= Later(ca, Later(o.created, 1))
  <2> DEFINE l == Later(o.created, 1)
             m == Later(ca, l)
  <2>1. /\ l \in Nat /\ o.created <= l /\ 1 <= l
        /\ m \in Nat /\ ca <= m /\ l <= m
    BY InstantsType, LaterIsMax
  <2>2. Later(ca, 1) <= m
    <3> HIDE DEF l, m
    <3> QED  BY <2>1, LaterIsMax
  <2>3. Later(ca, 1) \in Nat
    BY LaterIsMax
  <2> HIDE DEF l, m
  <2>4. o.created <= m /\ o.observedAt <= m
    BY <2>1, <2>2, <2>3, InstantsType
  <2> QED
    BY <2>4, InstantsType DEF LastComputed, l, m
<1>2. Later(ca, Later(o.created, 1)) \in Nat
  BY InstantsType, LaterIsMax
<1> QED
  BY <1>1, <1>2, Windows, DurationsAssumption DEF ServableUntil

\* What a writer that computed nothing, or computed at t, desires.
Desirable(o, ca, created) ==
    /\ o.observedAt <= Later(ca, 1)
    /\ o.servableUntil # 0 =>
          /\ ca # 0
          /\ o.servableUntil <= Later(ca, Later(created, 1)) + LongestWindow

\* Ensure's restamp stays within the window of what it knows.
LEMMA EnsureStatusBound ==
    ASSUME NEW known \in Objects, NEW running \in SUBSET Names, NEW ca \in Nat,
           Stamped(known, ca)
    PROVE  Desirable(EnsureStatus(known, running), ca, known.created)
<1> DEFINE live == [known EXCEPT !.departed = FALSE, !.observed = running]
<1>1. /\ live \in Objects
      /\ live.created = known.created /\ live.observedAt = known.observedAt
  BY DEF Objects
<1>2. live.observedAt <= Later(ca, 1)
  BY <1>1 DEF Stamped
<1> HIDE DEF live
<1>3. ServableUntil(live) <= Later(ca, Later(known.created, 1)) + LongestWindow
  BY <1>1, <1>2, ServableUntilBound
<1>4. LET s == Stamp(known, live, FALSE)
      IN  s # 0 => ca # 0 /\ s <= Later(ca, Later(known.created, 1)) + LongestWindow
  BY <1>3 DEF Stamp, Stamped
<1>5. /\ EnsureStatus(known, running).observedAt = live.observedAt
      /\ EnsureStatus(known, running).servableUntil = Stamp(known, live, FALSE)
  BY <1>1 DEF EnsureStatus, Objects, live
<1> QED
  BY <1>2, <1>4, <1>5 DEF Desirable

\* Record's stamp too: only a Computed decision at t moves observedAt, and by
\* then the last Computed record is at t or later.
LEMMA RecordStatusBound ==
    ASSUME NEW known \in Objects, NEW d \in Decisions, NEW t \in Nat,
           NEW ca \in Nat, Stamped(known, ca),
           d.outcome = "Computed" => ca # 0 /\ t <= ca
    PROVE  Desirable(RecordStatus(known, d, t), ca, known.created)
<1> DEFINE base == [known EXCEPT !.outcome = d.outcome, !.departed = d.departed]
           fresh == [base EXCEPT !.computedBy = known.policy, !.recs = d.recs]
           due == \/ ~StatusEquivalent(known, fresh)
                  \/ known.observedAt = 0
                  \/ t - known.observedAt >= RefreshInterval
           dated == [fresh EXCEPT !.observedAt = t]
           decided == IF d.outcome # "Computed" THEN base
                      ELSE IF due THEN dated ELSE fresh
           stamp == Stamp(known, decided, d.outcome = "Computed")
<1>1. /\ base \in Objects /\ fresh \in Objects /\ dated \in Objects
      /\ base.created = known.created /\ base.observedAt = known.observedAt
      /\ fresh.created = known.created /\ fresh.observedAt = known.observedAt
      /\ dated.created = known.created /\ dated.observedAt = t
  BY DEF Objects, Decisions
<1> HIDE DEF base, fresh, dated, due
<1>2. decided \in Objects /\ decided.created = known.created
  BY <1>1
<1>3. decided.observedAt <= Later(ca, 1)
  <2>1. known.observedAt <= Later(ca, 1)
    BY DEF Stamped
  <2>2. d.outcome = "Computed" => t <= Later(ca, 1)
    BY LaterIsMax
  <2> QED
    BY <1>1, <2>1, <2>2
<1>4. RecordStatus(known, d, t) = [decided EXCEPT !.servableUntil = stamp]
  BY DEF RecordStatus, base, fresh, dated, due
<1> HIDE DEF decided
<1>5. ServableUntil(decided) <= Later(ca, Later(known.created, 1)) + LongestWindow
  BY <1>2, <1>3, ServableUntilBound
<1>6. stamp # 0 =>
         ca # 0 /\ stamp <= Later(ca, Later(known.created, 1)) + LongestWindow
  BY <1>5 DEF Stamp, Stamped
<1>7. /\ RecordStatus(known, d, t).observedAt = decided.observedAt
      /\ RecordStatus(known, d, t).servableUntil = stamp
  BY <1>2, <1>4 DEF Objects
<1> QED
  BY <1>3, <1>6, <1>7 DEF Desirable

\* Patching a desirable status into an object at least as young as the copy
\* it was computed from keeps the stored stamp within its window.
LEMMA PatchStatusBound ==
    ASSUME NEW stored \in Objects, NEW known \in Objects, NEW desired \in Objects,
           NEW ca \in Nat, NEW created \in Nat,
           Stamped(stored, ca), Desirable(desired, ca, created),
           created <= stored.created, 1 <= stored.created
    PROVE  Stamped(PatchStatus(stored, known, desired), ca)
<1> DEFINE o == PatchStatus(stored, known, desired)
<1>1. /\ o.created = stored.created
      /\ o.observedAt \in {stored.observedAt, desired.observedAt}
      /\ o.servableUntil \in {stored.servableUntil, desired.servableUntil}
  BY PatchStatusType
<1>2. Later(created, 1) \in Nat /\ Later(created, 1) <= stored.created
  BY InstantsType, LaterIsMax
<1>3. Later(ca, Later(created, 1)) <= Later(ca, stored.created)
  <2> DEFINE l == Later(created, 1)
             m == Later(ca, stored.created)
  <2>1. m \in Nat /\ ca <= m /\ stored.created <= m
    BY InstantsType, LaterIsMax
  <2> HIDE DEF l, m
  <2>2. l \in Nat /\ l <= m
    BY <1>2, <2>1, InstantsType DEF l
  <2> QED
    <3>1. Later(ca, l) <= m
      BY <2>1, <2>2, LaterIsMax
    <3> QED
      BY <3>1 DEF l, m
<1>4. /\ Later(ca, Later(created, 1)) \in Nat /\ Later(ca, stored.created) \in Nat
      /\ LongestWindow \in Nat
      /\ desired.servableUntil \in Nat
  BY <1>2, Windows, InstantsType, LaterIsMax
<1> HIDE DEF o
<1>5. o.observedAt <= Later(ca, 1)
  BY <1>1 DEF Stamped, Desirable
<1>6. desired.servableUntil # 0 =>
         ca # 0 /\ desired.servableUntil <= Later(ca, stored.created) + LongestWindow
  BY <1>3, <1>4 DEF Desirable
<1>7. Stamped(o, ca)
  BY <1>1, <1>5, <1>6 DEF Stamped
<1> QED
  BY <1>7 DEF o

-----------------------------------------------------------------------------
(* Whose numbers an object holds, and how long they are served *)

\* Two copies agree on everything but the outcome, the departed mark, the
\* snapshot and the revision.
Same(a, b) ==
    /\ a.created = b.created /\ a.policy = b.policy
    /\ a.computedBy = b.computedBy /\ a.recs = b.recs
    /\ a.observedAt = b.observedAt /\ a.servableUntil = b.servableUntil

\* The numbers are those of the Policy that is said to have computed them, and
\* are served no longer than the longest window after they were computed.
Sound(o) ==
    /\ \A n \in Names : o.recs[n].by \in {o.computedBy, NoPolicy}
    /\ HasRecs(o) => o.servableUntil <= LastComputed(o) + LongestWindow

LEMMA SoundSame ==
    ASSUME NEW a \in Objects, NEW b \in Objects, Same(a, b), Sound(a)
    PROVE  Sound(b) /\ (HasRecs(a) <=> HasRecs(b))
BY DEF Same, Sound, HasRecs, LastComputed

\* An object without numbers is sound.
LEMMA EmptySound ==
    ASSUME NEW o \in Objects, o.recs = NoRecs
    PROVE  Sound(o) /\ ~HasRecs(o)
<1>1. \A n \in Names : o.recs[n] = Unset
  BY DEF NoRecs
<1>2. ~HasRecs(o)
  BY <1>1 DEF HasRecs
<1>3. Unset.by = NoPolicy
  BY DEF Unset
<1>4. \A n \in Names : o.recs[n].by = NoPolicy
  BY <1>1, <1>3
<1> QED
  BY <1>2, <1>4 DEF Sound

LEMMA NewObjectEmpty ==
    ASSUME NEW p \in Policies, NEW r \in Nat, NEW t \in Nat
    PROVE  LET o == NewObject(p, r, t)
           IN  Sound(o) /\ ~HasRecs(o) /\ o.policy = p /\ o.uid = r
<1> DEFINE o == NewObject(p, r, t)
<1>1. o \in Objects
  BY NewObjectType
<1>2. o.recs = NoRecs /\ o.policy = p /\ o.uid = r
  BY DEF NewObject, Missing
<1> HIDE DEF o
<1>3. Sound(o) /\ ~HasRecs(o)
  BY <1>1, <1>2, EmptySound
<1> QED
  BY <1>2, <1>3 DEF o

LEMMA MissingEmpty == Sound(Missing) /\ ~HasRecs(Missing)
<1>1. Missing.recs = NoRecs
  BY DEF Missing
<1> QED
  BY <1>1, MissingType, EmptySound

\* A stamp reaches no further than the longest window.
LEMMA StampWindow ==
    ASSUME NEW known \in Objects, NEW o \in Objects, NEW b \in BOOLEAN
    PROVE  Stamp(known, o, b) <= LastComputed(o) + LongestWindow
<1>1. LastComputed(o) \in Nat
  BY InstantsType DEF LastComputed
<1>2. ServableUntil(o) <= LastComputed(o) + LongestWindow
  BY <1>1, Windows, DurationsAssumption DEF ServableUntil
<1> QED
  BY <1>1, <1>2, Windows DEF Stamp

\* A patch of a field the writer knows as it is stored.
LEMMA PatchCurrent ==
    ASSUME NEW stored \in Objects, NEW known \in Objects, NEW desired \in Objects,
           Same(known, stored), desired.created = known.created,
           desired.policy = known.policy
    PROVE  Same(desired, PatchStatus(stored, known, desired))
<1> DEFINE o == PatchStatus(stored, known, desired)
           recs == [n \in Names |->
                       Sent(known.recs[n], desired.recs[n], stored.recs[n])]
<1>1. o.created = stored.created /\ o.policy = stored.policy
  BY PatchStatusType
<1>2. /\ o.computedBy = desired.computedBy /\ o.observedAt = desired.observedAt
      /\ o.servableUntil = desired.servableUntil
  BY DEF PatchStatus, Objects, Sent, Same
<1>3. o.recs = recs
  BY DEF PatchStatus, Objects
<1>4. recs = desired.recs
  <2>1. desired.recs \in [Names -> Recommended]
    BY DEF Objects
  <2>2. \A n \in Names : recs[n] = desired.recs[n]
    BY DEF Sent, Same
  <2> QED
    BY <2>1, <2>2
<1> HIDE DEF o, recs
<1>5. Same(desired, o)
  BY <1>1, <1>2, <1>3, <1>4 DEF Same
<1> QED
  BY <1>5 DEF o

\* A patch of other fields leaves these as they are stored.
LEMMA PatchBeside ==
    ASSUME NEW stored \in Objects, NEW known \in Objects, NEW desired \in Objects,
           desired.recs = known.recs, desired.computedBy = known.computedBy,
           desired.observedAt = known.observedAt,
           desired.servableUntil = known.servableUntil
    PROVE  Same(stored, PatchStatus(stored, known, desired))
<1> DEFINE o == PatchStatus(stored, known, desired)
<1>1. o.created = stored.created /\ o.policy = stored.policy
  BY PatchStatusType
<1>2. /\ o.recs = stored.recs /\ o.computedBy = stored.computedBy
      /\ o.observedAt = stored.observedAt
  BY PatchStatusKeeps
<1>3. o.servableUntil = stored.servableUntil
  BY DEF PatchStatus, Objects, Sent
<1> HIDE DEF o
<1>4. Same(stored, o)
  BY <1>1, <1>2, <1>3 DEF Same
<1> QED
  BY <1>4 DEF o

\* What Ensure wants of a sound object is sound.
LEMMA EnsureStatusSound ==
    ASSUME NEW known \in Objects, NEW running \in SUBSET Names, Sound(known)
    PROVE  LET o == EnsureStatus(known, running)
           IN  /\ Sound(o) /\ o.recs = known.recs
               /\ o.created = known.created /\ o.policy = known.policy
<1> DEFINE live == [known EXCEPT !.departed = FALSE, !.observed = running]
           stamp == Stamp(known, live, FALSE)
           o == EnsureStatus(known, running)
<1>1. /\ live \in Objects /\ live.created = known.created
      /\ live.policy = known.policy /\ live.recs = known.recs
      /\ live.computedBy = known.computedBy /\ live.observedAt = known.observedAt
  BY DEF Objects
<1>2. o = [live EXCEPT !.servableUntil = stamp]
  BY DEF EnsureStatus
<1> HIDE DEF live
<1>3. stamp <= LastComputed(live) + LongestWindow
  BY <1>1, StampWindow
<1> HIDE DEF stamp, o
<1>4. /\ o.created = live.created /\ o.policy = live.policy
      /\ o.recs = live.recs /\ o.computedBy = live.computedBy
      /\ o.observedAt = live.observedAt /\ o.servableUntil = stamp
  BY <1>1, <1>2 DEF Objects
<1>5. LastComputed(o) = LastComputed(live)
  BY <1>4 DEF LastComputed
<1>6. Sound(o)
  BY <1>1, <1>3, <1>4, <1>5 DEF Sound
<1> QED
  BY <1>1, <1>4, <1>6 DEF o

\* What Record wants of a sound object is sound, when the decision it stores
\* was computed under the Policy the object names.
LEMMA RecordStatusSound ==
    ASSUME NEW known \in Objects, NEW d \in Decisions, NEW t \in Nat, Sound(known),
           d.outcome = "Computed" =>
              \A n \in Names : d.recs[n].by \in {known.policy, NoPolicy}
    PROVE  LET o == RecordStatus(known, d, t)
           IN  /\ Sound(o) /\ o.created = known.created /\ o.policy = known.policy
               /\ d.outcome # "Computed" => o.recs = known.recs
<1> DEFINE base == [known EXCEPT !.outcome = d.outcome, !.departed = d.departed]
           fresh == [base EXCEPT !.computedBy = known.policy, !.recs = d.recs]
           due == \/ ~StatusEquivalent(known, fresh)
                  \/ known.observedAt = 0
                  \/ t - known.observedAt >= RefreshInterval
           decided == IF d.outcome # "Computed" THEN base
                      ELSE IF due THEN [fresh EXCEPT !.observedAt = t] ELSE fresh
           stamp == Stamp(known, decided, d.outcome = "Computed")
           o == RecordStatus(known, d, t)
<1>1. /\ base \in Objects /\ base.created = known.created
      /\ base.policy = known.policy /\ base.recs = known.recs
      /\ base.computedBy = known.computedBy /\ base.observedAt = known.observedAt
  BY DEF Objects, Decisions
<1>2. o = [decided EXCEPT !.servableUntil = stamp]
  BY DEF RecordStatus
<1> HIDE DEF base
<1>3. /\ fresh \in Objects /\ fresh.created = base.created
      /\ fresh.policy = base.policy /\ fresh.recs = d.recs
      /\ fresh.computedBy = known.policy
  BY <1>1 DEF Objects, Decisions
<1> HIDE DEF fresh, due
<1>4. /\ decided \in Objects /\ decided.created = known.created
      /\ decided.policy = known.policy
      /\ d.outcome # "Computed" => decided = base
      /\ d.outcome = "Computed" =>
            decided.recs = d.recs /\ decided.computedBy = known.policy
  <2> DEFINE later == [fresh EXCEPT !.observedAt = t]
  <2>1. /\ later \in Objects /\ later.created = fresh.created
        /\ later.policy = fresh.policy /\ later.recs = fresh.recs
        /\ later.computedBy = fresh.computedBy
    BY <1>3 DEF Objects
  <2> HIDE DEF later
  <2>2. CASE d.outcome # "Computed"
    <3>1. decided = base
      BY <2>2
    <3> QED
      BY <1>1, <2>2, <3>1
  <2>3. CASE d.outcome = "Computed"
    <3>1. decided = fresh \/ decided = later
      BY <2>3 DEF later
    <3> HIDE DEF decided
    <3> QED
      BY <1>1, <1>3, <2>1, <2>3, <3>1
  <2> QED
    BY <2>2, <2>3
<1> HIDE DEF decided
<1>5. stamp <= LastComputed(decided) + LongestWindow
  <2>1. (d.outcome = "Computed") \in BOOLEAN
    OBVIOUS
  <2> QED
    BY <1>4, <2>1, StampWindow
<1> HIDE DEF stamp, o
<1>6. /\ o.created = decided.created /\ o.policy = decided.policy
      /\ o.recs = decided.recs /\ o.computedBy = decided.computedBy
      /\ o.observedAt = decided.observedAt /\ o.servableUntil = stamp
  BY <1>2, <1>4 DEF Objects
<1>7. LastComputed(o) = LastComputed(decided)
  BY <1>6 DEF LastComputed
<1>8. Sound(o)
  BY <1>1, <1>4, <1>5, <1>6, <1>7 DEF Sound
<1> QED
  BY <1>1, <1>4, <1>6, <1>8 DEF o
=============================================================================
