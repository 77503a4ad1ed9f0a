--------------------------- MODULE AdmissionProofs --------------------------
(***************************************************************************)
(* The safety of Admission for any number of admissions, workloads and     *)
(* identities and every choice of the caches' sizes and times.             *)
(***************************************************************************)
EXTENDS Admission, FiniteSetTheorems, SequenceTheorems, TLAPS

-----------------------------------------------------------------------------
(* The LRU cache *)

\* The entries a cache holds.
Held(c) == {c[j] : j \in DOMAIN c}

\* No key has two entries.
OnePerKey(c) == \A j, k \in DOMAIN c : c[j].key = c[k].key => j = k

\* The entry at a key that has one.
LEMMA AtHeld ==
    ASSUME NEW S, NEW c \in Seq(S), NEW key, Has(c, key)
    PROVE  /\ Place(c, key) \in 1..Len(c)
           /\ At(c, key) \in S /\ At(c, key) \in Held(c) /\ At(c, key).key = key
<1>1. Place(c, key) \in DOMAIN c /\ c[Place(c, key)].key = key
  BY DEF Has, Place
<1> QED
  BY <1>1 DEF At, Held

\* Taking an entry out of a cache.
LEMMA WithoutHeld ==
    ASSUME NEW S, NEW c \in Seq(S), NEW key, OnePerKey(c)
    PROVE  /\ Without(c, key) \in Seq(S) /\ OnePerKey(Without(c, key))
           /\ Len(Without(c, key)) <= Len(c)
           /\ Held(Without(c, key)) = {e \in Held(c) : e.key # key}
           /\ Has(c, key) => Len(Without(c, key)) = Len(c) - 1
<1> DEFINE n == Len(c)
           w == Without(c, key)
<1>1. CASE ~Has(c, key)
  BY <1>1 DEF Without, Has, Held
<1>2. CASE Has(c, key)
  <2> DEFINE i == Place(c, key)
  <2>1. i \in 1..n /\ c[i].key = key
    BY <1>2, AtHeld DEF At
  <2>2. w = SubSeq(c, 1, i - 1) \o SubSeq(c, i + 1, n)
    BY <1>2 DEF Without
  <2> HIDE DEF i, w
  <2>3. /\ w \in Seq(S) /\ Len(w) = n - 1
        /\ \A j \in 1..(n - 1) : w[j] = IF j < i THEN c[j] ELSE c[j + 1]
    <3> DEFINE a == SubSeq(c, 1, i - 1)
               b == SubSeq(c, i + 1, n)
    <3>1. n \in Nat /\ \A j \in 1..n : c[j] \in S
      BY LenProperties, ElementOfSeq
    <3>2. /\ a \in Seq(S) /\ Len(a) = i - 1
          /\ \A j \in 1..(i - 1) : a[j] = c[j]
      BY <2>1, <3>1, SubSeqProperties
    <3>3. /\ b \in Seq(S) /\ Len(b) = n - i
          /\ \A j \in 1..(n - i) : b[j] = c[i + j]
      BY <2>1, <3>1, SubSeqProperties
    <3> HIDE DEF a, b
    <3>4. w = a \o b
      BY <2>2 DEF a, b
    <3>5. /\ w \in Seq(S) /\ Len(w) = n - 1
          /\ \A j \in 1..(n - 1) : w[j] = IF j <= i - 1 THEN a[j] ELSE b[j - (i - 1)]
      <4>1. /\ a \o b \in Seq(S) /\ Len(a \o b) = Len(a) + Len(b)
            /\ \A j \in 1..(Len(a) + Len(b)) :
                  (a \o b)[j] = IF j <= Len(a) THEN a[j] ELSE b[j - Len(a)]
        BY <3>2, <3>3, ConcatProperties
      <4>2. Len(a) + Len(b) = n - 1
        BY <2>1, <3>1, <3>2, <3>3
      <4> QED
        BY <3>2, <3>4, <4>1, <4>2
    <3>6. ASSUME NEW j \in 1..(n - 1)
          PROVE  w[j] = IF j < i THEN c[j] ELSE c[j + 1]
      <4>1. CASE j < i
        <5>1. j \in 1..(i - 1)
          BY <2>1, <4>1
        <5>2. j <= i - 1
          BY <5>1
        <5>3. w[j] = a[j]
          BY <3>5, <5>2
        <5>4. a[j] = c[j]
          BY <3>2, <5>1
        <5> QED
          BY <4>1, <5>3, <5>4
      <4>2. CASE ~(j < i)
        <5>1. j - (i - 1) \in 1..(n - i)
          BY <2>1, <3>1, <4>2
        <5>2. b[j - (i - 1)] = c[i + (j - (i - 1))]
          BY <3>3, <5>1
        <5>3. i + (j - (i - 1)) = j + 1
          BY <2>1
        <5> QED
          BY <2>1, <3>5, <4>2, <5>2, <5>3
      <4> QED
        BY <4>1, <4>2
    <3> QED
      BY <3>5, <3>6
  <2>4. OnePerKey(w)
    <3> SUFFICES ASSUME NEW j \in 1..(n - 1), NEW k \in 1..(n - 1),
                        w[j].key = w[k].key
                 PROVE  j = k
      BY <2>3 DEF OnePerKey
    <3> DEFINE at(x) == IF x < i THEN x ELSE x + 1
    <3>1. at(j) \in 1..n /\ at(k) \in 1..n /\ w[j] = c[at(j)] /\ w[k] = c[at(k)]
      BY <2>1, <2>3
    <3>2. at(j) = at(k)
      BY <3>1 DEF OnePerKey
    <3> QED
      BY <2>1, <3>2
  <2>5. Held(w) = {e \in Held(c) : e.key # key}
    <3>1. ASSUME NEW j \in 1..(n - 1)
          PROVE  w[j] \in {e \in Held(c) : e.key # key}
      <4> DEFINE x == IF j < i THEN j ELSE j + 1
      <4>1. x \in 1..n /\ x # i
        BY <2>1
      <4>2. w[j] = c[x]
        BY <2>3
      <4> HIDE DEF x
      <4>3. c[x] \in Held(c)
        BY <4>1 DEF Held
      <4>4. c[x].key # key
        BY <2>1, <4>1 DEF OnePerKey
      <4> QED
        BY <4>2, <4>3, <4>4
    <3>2. ASSUME NEW k \in 1..n, c[k].key # key
          PROVE  c[k] \in Held(w)
      <4>1. k # i
        BY <2>1, <3>2
      <4>2. CASE k < i
        BY <2>1, <2>3, <4>2 DEF Held
      <4>3. CASE k > i
        <5>1. k - 1 \in 1..(n - 1) /\ w[k - 1] = c[k]
          BY <2>1, <2>3, <4>3
        <5> QED
          BY <2>3, <5>1 DEF Held
      <4> QED
        BY <2>1, <4>1, <4>2, <4>3
    <3> QED
      BY <2>3, <3>1, <3>2 DEF Held
  <2> QED
    BY <2>3, <2>4, <2>5 DEF w
<1> QED
  BY <1>1, <1>2

\* Putting an entry in front of others.
LEMMA FrontHeld ==
    ASSUME NEW S, NEW e \in S, NEW w \in Seq(S), OnePerKey(w),
           \A x \in Held(w) : x.key # e.key
    PROVE  /\ <<e>> \o w \in Seq(S) /\ OnePerKey(<<e>> \o w)
           /\ Len(<<e>> \o w) = Len(w) + 1
           /\ (<<e>> \o w)[1] = e
           /\ Held(<<e>> \o w) = {e} \cup Held(w)
<1> DEFINE n == Len(w)
           f == <<e>> \o w
<1>1. <<e>> \in Seq(S) /\ Len(<<e>>) = 1 /\ <<e>>[1] = e
  OBVIOUS
<1>2. /\ f \in Seq(S) /\ Len(f) = 1 + n
      /\ \A j \in 1..(1 + n) : f[j] = IF j <= 1 THEN <<e>>[j] ELSE w[j - 1]
  BY <1>1, ConcatProperties
<1>3. n \in Nat /\ w \in [1..n -> S]
  BY LenProperties
<1> HIDE DEF f, n
<1>4. f[1] = e /\ \A j \in 1..n : f[j + 1] = w[j]
  BY <1>1, <1>2, <1>3
<1>5. DOMAIN f = 1..(n + 1) /\ DOMAIN w = 1..n
  BY <1>2, <1>3, LenProperties
<1>6. \A j \in 1..(n + 1) : j = 1 \/ (j - 1 \in 1..n /\ f[j] = w[j - 1])
  BY <1>2, <1>3
<1>7. OnePerKey(f)
  <2> SUFFICES ASSUME NEW j \in 1..(n + 1), NEW k \in 1..(n + 1), f[j].key = f[k].key
               PROVE  j = k
    BY <1>5 DEF OnePerKey
  <2>1. CASE j = 1 /\ k = 1
    BY <2>1
  <2>2. CASE j = 1 /\ k # 1
    BY <1>4, <1>5, <1>6, <2>2 DEF Held
  <2>3. CASE j # 1 /\ k = 1
    BY <1>4, <1>5, <1>6, <2>3 DEF Held
  <2>4. CASE j # 1 /\ k # 1
    <3>1. j - 1 \in 1..n /\ k - 1 \in 1..n /\ w[j - 1].key = w[k - 1].key
      BY <1>6, <2>4
    <3>2. j - 1 = k - 1
      BY <1>5, <3>1 DEF OnePerKey
    <3> QED
      BY <3>2
  <2> QED
    BY <2>1, <2>2, <2>3, <2>4
<1>8. Held(f) = {e} \cup Held(w)
  <2>1. Held(f) \subseteq {e} \cup Held(w)
    BY <1>4, <1>5, <1>6 DEF Held
  <2>2. e \in Held(f)
    BY <1>3, <1>4, <1>5 DEF Held
  <2>3. ASSUME NEW j \in 1..n PROVE w[j] \in Held(f)
    <3>1. j + 1 \in DOMAIN f /\ f[j + 1] = w[j]
      BY <1>3, <1>4, <1>5
    <3> QED
      BY <3>1 DEF Held
  <2>4. Held(w) \subseteq Held(f)
    BY <1>5, <2>3 DEF Held
  <2> QED
    BY <2>1, <2>2, <2>4
<1> QED
  BY <1>2, <1>3, <1>4, <1>7, <1>8 DEF f, n

\* Cutting a cache to its size.
LEMMA CutHeld ==
    ASSUME NEW S, NEW c \in Seq(S), OnePerKey(c), NEW k \in 1..Len(c)
    PROVE  /\ SubSeq(c, 1, k) \in Seq(S) /\ OnePerKey(SubSeq(c, 1, k))
           /\ Len(SubSeq(c, 1, k)) = k /\ c[1] \in Held(SubSeq(c, 1, k))
           /\ Held(SubSeq(c, 1, k)) \subseteq Held(c)
           /\ k = Len(c) => Held(SubSeq(c, 1, k)) = Held(c)
<1> DEFINE s == SubSeq(c, 1, k)
<1>1. Len(c) \in Nat /\ \A j \in 1..Len(c) : c[j] \in S
  BY LenProperties, ElementOfSeq
<1>2. s \in Seq(S) /\ Len(s) = k /\ \A j \in 1..k : s[j] = c[j]
  BY <1>1, SubSeqProperties
<1>3. DOMAIN s = 1..k /\ DOMAIN c = 1..Len(c)
  BY <1>2, LenProperties
<1> HIDE DEF s
<1>4. OnePerKey(s)
  BY <1>1, <1>2, <1>3 DEF OnePerKey
<1>5. c[1] \in Held(s)
  BY <1>1, <1>2, <1>3 DEF Held
<1>6. Held(s) \subseteq Held(c)
  BY <1>1, <1>2, <1>3 DEF Held
<1>7. ASSUME k = Len(c) PROVE Held(c) \subseteq Held(s)
  BY <1>1, <1>2, <1>3, <1>7 DEF Held
<1> QED
  BY <1>2, <1>4, <1>5, <1>6, <1>7 DEF s

\* setLocked: the new entry is in, one of its key is not, and others are
\* evicted only from a full cache.
LEMMA SetHeld ==
    ASSUME NEW S, NEW c \in Seq(S), OnePerKey(c), NEW key, NEW value, NEW t,
           Entry(key, value, t) \in S, NEW max \in Nat \ {0}
    PROVE  /\ Set(c, key, value, t, max) \in Seq(S)
           /\ OnePerKey(Set(c, key, value, t, max))
           /\ Len(Set(c, key, value, t, max)) <= max
           /\ Entry(key, value, t) \in Held(Set(c, key, value, t, max))
           /\ Held(Set(c, key, value, t, max))
                 \subseteq {Entry(key, value, t)} \cup {e \in Held(c) : e.key # key}
           /\ Len(<<Entry(key, value, t)>> \o Without(c, key)) <= max =>
                 Held(Set(c, key, value, t, max))
                   = {Entry(key, value, t)} \cup {e \in Held(c) : e.key # key}
<1> DEFINE new == Entry(key, value, t)
           w == Without(c, key)
           f == <<new>> \o w
           k == IF Len(f) > max THEN max ELSE Len(f)
<1>1. w \in Seq(S) /\ OnePerKey(w) /\ Held(w) = {e \in Held(c) : e.key # key}
  BY WithoutHeld
<1>2. new.key = key
  BY DEF Entry
<1> HIDE DEF new, w
<1>3. /\ f \in Seq(S) /\ OnePerKey(f) /\ Len(f) = Len(w) + 1 /\ f[1] = new
      /\ Held(f) = {new} \cup Held(w)
  BY <1>1, <1>2, FrontHeld DEF new
<1>4. Len(w) \in Nat
  BY <1>1, LenProperties
<1> HIDE DEF f
<1>5. k \in 1..Len(f) /\ k <= max /\ (Len(f) <= max => k = Len(f))
  BY <1>3, <1>4
<1> HIDE DEF k
<1>6. /\ SubSeq(f, 1, k) \in Seq(S) /\ OnePerKey(SubSeq(f, 1, k))
      /\ Len(SubSeq(f, 1, k)) = k /\ f[1] \in Held(SubSeq(f, 1, k))
      /\ Held(SubSeq(f, 1, k)) \subseteq Held(f)
      /\ k = Len(f) => Held(SubSeq(f, 1, k)) = Held(f)
  BY <1>3, <1>5, CutHeld
<1>7. Set(c, key, value, t, max) = SubSeq(f, 1, k)
  BY DEF Set, f, k, new, w
<1> QED
  BY <1>1, <1>3, <1>5, <1>6, <1>7 DEF f, new, w

\* MoveToFront: the cache holds what it held.
LEMMA TouchHeld ==
    ASSUME NEW S, NEW c \in Seq(S), OnePerKey(c), NEW key, Has(c, key)
    PROVE  /\ Touch(c, key) \in Seq(S) /\ OnePerKey(Touch(c, key))
           /\ Len(Touch(c, key)) = Len(c)
           /\ Held(Touch(c, key)) = Held(c)
<1> DEFINE e == At(c, key)
           w == Without(c, key)
<1>1. /\ w \in Seq(S) /\ OnePerKey(w) /\ Held(w) = {x \in Held(c) : x.key # key}
      /\ Len(w) = Len(c) - 1
  BY WithoutHeld
<1>2. e \in S /\ e \in Held(c) /\ e.key = key
  BY AtHeld
<1> HIDE DEF e, w
<1>3. /\ <<e>> \o w \in Seq(S) /\ OnePerKey(<<e>> \o w)
      /\ Len(<<e>> \o w) = Len(w) + 1
      /\ Held(<<e>> \o w) = {e} \cup Held(w)
  BY <1>1, <1>2, FrontHeld
<1>4. \A x \in Held(c) : x.key = key => x = e
  BY <1>2 DEF OnePerKey, Held
<1>5. {e} \cup Held(w) = Held(c)
  BY <1>1, <1>2, <1>4
<1>6. Len(w) + 1 = Len(c)
  BY <1>1, LenProperties
<1> QED
  BY <1>3, <1>5, <1>6 DEF Touch, e, w

\* DeleteIf: the entry of the key goes when it holds the value.
LEMMA DeleteIfHeld ==
    ASSUME NEW S, NEW c \in Seq(S), OnePerKey(c), NEW key, NEW value
    PROVE  /\ DeleteIf(c, key, value) \in Seq(S)
           /\ OnePerKey(DeleteIf(c, key, value))
           /\ Len(DeleteIf(c, key, value)) <= Len(c)
           /\ \A e \in Held(c) :
                 \/ e \in Held(DeleteIf(c, key, value))
                 \/ e.key = key /\ e.value = value
           /\ Held(DeleteIf(c, key, value)) \subseteq Held(c)
<1>0. Len(c) \in Nat
  BY LenProperties
<1>1. CASE Has(c, key) /\ At(c, key).value = value
  <2>1. At(c, key) \in Held(c) /\ At(c, key).key = key
    BY <1>1, AtHeld
  <2>2. \A x \in Held(c) : x.key = key => x = At(c, key)
    BY <2>1 DEF OnePerKey, Held
  <2> QED
    BY <1>1, <2>1, <2>2, WithoutHeld DEF DeleteIf
<1>2. CASE ~(Has(c, key) /\ At(c, key).value = value)
  BY <1>0, <1>2 DEF DeleteIf
<1> QED
  BY <1>1, <1>2

\* A key is fresh when its entry is.
LEMMA FreshHeld ==
    ASSUME NEW S, NEW c \in Seq(S), OnePerKey(c), NEW key, NEW ttl, NEW t
    PROVE  /\ Fresh(c, key, ttl, t) =>
                 /\ Has(c, key) /\ At(c, key) \in Held(c) /\ At(c, key).key = key
                 /\ t - At(c, key).storedAt <= ttl
           /\ \A e \in Held(c) : e.key = key /\ t - e.storedAt <= ttl =>
                 Fresh(c, key, ttl, t)
<1>1. ASSUME Has(c, key)
      PROVE  At(c, key) \in Held(c) /\ At(c, key).key = key
  BY <1>1, AtHeld
<1>2. ASSUME NEW e \in Held(c), e.key = key
      PROVE  Has(c, key) /\ e = At(c, key)
  <2>1. Has(c, key)
    BY <1>2 DEF Held, Has
  <2> QED
    BY <1>1, <1>2, <2>1 DEF OnePerKey, Held
<1> QED
  BY <1>1, <1>2 DEF Fresh, StoredWithin

-----------------------------------------------------------------------------
(* Stub requests *)

ClaimEntries == [key : Keys, value : 1..seq, storedAt : 0..now]

Writing == {r \in Requests : request[r].at = "writing"}

\* The slots taken are those of the writers.
SlotsAreHeld == IsFiniteSet(Writing) /\ slots = Cardinality(Writing)

\* Every request that got a claim has its own.
ClaimsAreOwn ==
    /\ \A r \in Requests :
          /\ request[r].at \in {"new", "refused"} => request[r].claim = 0
          /\ request[r].at \notin {"new", "refused"} => request[r].claim # 0
    /\ \A r, s \in Requests :
          request[r].claim # 0 /\ request[r].claim = request[s].claim => r = s

\* While its window lasts, the claim of an issued request is in the dedup.
WindowIsHeld ==
    Cardinality(Keys) <= DedupMaxEntries =>
       \A r \in Issued :
          now - request[r].since <= DedupTTL =>
             Entry(KeyOf[r], request[r].claim, request[r].since) \in Held(claims)

StopIsKept == shutdown # "none" => stopping

StubInv ==
    /\ TypeOK /\ SlotsAreHeld /\ StopIsKept /\ DrainedIsQuiet
    /\ ClaimsAreOwn /\ WindowIsHeld /\ OneRequestPerWindow

\* A cache with an entry per key is no longer than there are keys.
LEMMA KeysBound ==
    ASSUME NEW S, \A e \in S : e.key \in Keys, NEW c \in Seq(S), OnePerKey(c)
    PROVE  Len(c) <= Cardinality(Keys)
<1> DEFINE n == Len(c)
           f == [j \in 1..n |-> c[j].key]
<1>1. n \in Nat /\ DOMAIN c = 1..n /\ \A j \in 1..n : c[j] \in S
  BY LenProperties, ElementOfSeq
<1>2. f \in [1..n -> Keys]
  BY <1>1
<1>3. \A j, k \in 1..n : f[j] = f[k] => j = k
  BY <1>1 DEF OnePerKey
<1> HIDE DEF f, n
<1>4. f \in Injection(1..n, Keys)
  BY <1>2, <1>3 DEF Injection, IsInjective
<1>5. IsFiniteSet(Keys)
  BY StubAssumption
<1>6. Cardinality(1..n) <= Cardinality(Keys)
  BY <1>4, <1>5, FS_Injection
<1>7. Cardinality(1..n) = n
  BY <1>1, FS_Interval
<1> QED
  BY <1>6, <1>7 DEF n

\* The types the steps below start from.
LEMMA StubTypes ==
    ASSUME StubInv
    PROVE  /\ now \in 0..MaxTime /\ seq \in Nat /\ claims \in Seq(ClaimEntries)
           /\ OnePerKey(claims) /\ MaxTime \in Nat /\ now \in Nat
           /\ request \in [Requests -> [at : Places, claim : 0..seq, since : 0..now]]
           /\ KeyOf \in [Requests -> Keys] /\ DedupMaxEntries \in Nat \ {0}
           /\ DedupTTL \in Nat \ {0} /\ slots \in 0..MaxInflight
           /\ MaxInflight \in Nat /\ Len(claims) <= DedupMaxEntries
<1>1. MaxTime \in Nat /\ DedupMaxEntries \in Nat \ {0} /\ DedupTTL \in Nat \ {0}
      /\ MaxInflight \in Nat /\ KeyOf \in [Requests -> Keys]
  BY StubAssumption
<1>2. now \in Nat
  BY <1>1 DEF StubInv, TypeOK
<1>3. claims \in Seq(ClaimEntries) /\ OnePerKey(claims)
  BY DEF StubInv, TypeOK, ClaimEntries, OnePerKey
<1> QED
  BY <1>1, <1>2, <1>3 DEF StubInv, TypeOK

\* Granting a claim to a request whose key is not fresh.
LEMMA GrantStep ==
    ASSUME StubInv, NEW r \in Requests, request[r].at = "new", ~stopping,
           ~Fresh(claims, KeyOf[r], DedupTTL, now),
           seq' = seq + 1,
           claims' = Set(claims, KeyOf[r], seq + 1, now, DedupMaxEntries),
           request' = [request EXCEPT ![r] = [at |-> "queued", claim |-> seq + 1,
                                              since |-> now]],
           UNCHANGED <<now, slots, stopping, shutdown>>
    PROVE  StubInv'
<1> DEFINE key == KeyOf[r]
           S == ClaimEntries'
           new == Entry(key, seq + 1, now)
<1>1. /\ now \in 0..MaxTime /\ seq \in Nat /\ claims \in Seq(ClaimEntries)
      /\ OnePerKey(claims) /\ MaxTime \in Nat /\ now \in Nat
      /\ request \in [Requests -> [at : Places, claim : 0..seq, since : 0..now]]
      /\ KeyOf \in [Requests -> Keys] /\ DedupMaxEntries \in Nat \ {0}
      /\ DedupTTL \in Nat \ {0}
  BY StubTypes
<1>2. claims \in Seq(S)
  <2>1. ClaimEntries \subseteq S
    BY <1>1 DEF ClaimEntries
  <2> QED
    BY <1>1, <2>1, SeqMonotonic
<1>3. new \in S
  BY <1>1 DEF Entry, ClaimEntries
<1>4. /\ claims' \in Seq(S) /\ OnePerKey(claims') /\ Len(claims') <= DedupMaxEntries
      /\ new \in Held(claims')
      /\ Len(<<new>> \o Without(claims, key)) <= DedupMaxEntries =>
            Held(claims') = {new} \cup {e \in Held(claims) : e.key # key}
  BY <1>1, <1>2, <1>3, SetHeld
<1>5. /\ request'[r] = [at |-> "queued", claim |-> seq + 1, since |-> now]
      /\ \A s \in Requests \ {r} : request'[s] = request[s]
      /\ request' \in [Requests -> [at : Places, claim : 0..seq', since : 0..now]]
  <2>1. [at |-> "queued", claim |-> seq + 1, since |-> now]
           \in [at : Places, claim : 0..seq', since : 0..now]
    BY <1>1 DEF Places
  <2>2. [at : Places, claim : 0..seq, since : 0..now]
          \subseteq [at : Places, claim : 0..seq', since : 0..now]
    BY <1>1
  <2> QED
    BY <1>1, <2>1, <2>2
<1>6. request'[r].at = "queued" /\ request'[r].claim = seq + 1 /\ request'[r].since = now
  BY <1>5
<1>7. TypeOK'
  BY <1>1, <1>4, <1>5 DEF TypeOK, StubInv, OnePerKey, ClaimEntries
<1>8. SlotsAreHeld' /\ StopIsKept' /\ DrainedIsQuiet'
  <2>1. Writing' = Writing
    BY <1>5, <1>6 DEF Writing
  <2>2. shutdown = "none"
    BY DEF StubInv, StopIsKept
  <2> QED
    BY <2>1, <2>2 DEF StubInv, SlotsAreHeld, StopIsKept, DrainedIsQuiet
<1>9. ClaimsAreOwn'
  <2>1. \A s \in Requests : request[s].claim \in 0..seq
    BY <1>1
  <2> QED
    BY <1>1, <1>5, <1>6, <2>1 DEF StubInv, ClaimsAreOwn
<1>10. ASSUME Cardinality(Keys) <= DedupMaxEntries
       PROVE  /\ \A s \in Issued : KeyOf[s] = key => now - request[s].since > DedupTTL
              /\ Held(claims') = {new} \cup {e \in Held(claims) : e.key # key}
  <2>1. ASSUME NEW s \in Issued, KeyOf[s] = key
        PROVE  now - request[s].since > DedupTTL
    <3>1. s \in Requests /\ request[s].since \in 0..now
      BY <1>1 DEF Issued
    <3>2. ASSUME now - request[s].since <= DedupTTL
          PROVE  FALSE
      <4>1. Entry(key, request[s].claim, request[s].since) \in Held(claims)
        BY <1>10, <2>1, <3>2 DEF StubInv, WindowIsHeld
      <4> DEFINE e == Entry(key, request[s].claim, request[s].since)
      <4>2. e.key = key /\ e.storedAt = request[s].since
        BY DEF Entry
      <4> HIDE DEF e
      <4>3. e \in Held(claims) /\ e.key = key /\ now - e.storedAt <= DedupTTL
        BY <3>2, <4>1, <4>2 DEF e
      <4>4. Fresh(claims, key, DedupTTL, now)
        BY <1>1, <4>3, FreshHeld
      <4> QED
        BY <1>1, <4>4
    <3> QED
      BY <1>1, <3>1, <3>2
  <2>2. Len(<<new>> \o Without(claims, key)) <= Cardinality(Keys)
    <3> DEFINE w == Without(claims, key)
    <3>1. w \in Seq(S) /\ OnePerKey(w) /\ \A x \in Held(w) : x.key # key
      BY <1>1, <1>2, WithoutHeld
    <3>2. new.key = key
      BY DEF Entry
    <3> HIDE DEF w, new
    <3>3. <<new>> \o w \in Seq(S) /\ OnePerKey(<<new>> \o w)
      BY <1>3, <3>1, <3>2, FrontHeld
    <3>4. \A e \in S : e.key \in Keys
      BY DEF ClaimEntries
    <3> QED
      BY <3>3, <3>4, KeysBound DEF w
  <2>3. /\ Len(<<new>> \o Without(claims, key)) \in Nat
        /\ Cardinality(Keys) \in Nat
    <3>1. Without(claims, key) \in Seq(S)
      BY <1>1, <1>2, WithoutHeld
    <3>2. <<new>> \o Without(claims, key) \in Seq(S)
      BY <1>3, <3>1, ConcatProperties
    <3> QED
      BY <3>2, LenProperties, StubAssumption, FS_CardinalityType
  <2> QED
    BY <1>1, <1>4, <1>10, <2>1, <2>2, <2>3
<1>11. Issued' = Issued \cup {r} /\ r \notin Issued
  BY <1>5, <1>6 DEF Issued
<1>12. WindowIsHeld'
  <2> SUFFICES ASSUME Cardinality(Keys) <= DedupMaxEntries, NEW s \in Issued',
                      now - request'[s].since <= DedupTTL
               PROVE  Entry(KeyOf[s], request'[s].claim, request'[s].since)
                        \in Held(claims')
    BY DEF WindowIsHeld
  <2>1. CASE s = r
    BY <1>4, <1>6, <2>1
  <2>2. CASE s # r
    <3>1. s \in Issued /\ s \in Requests /\ request'[s] = request[s]
      BY <1>5, <1>11, <2>2 DEF Issued
    <3>2. KeyOf[s] # key
      BY <1>1, <1>10, <3>1
    <3>3. Entry(KeyOf[s], request[s].claim, request[s].since) \in Held(claims)
      BY <3>1 DEF StubInv, WindowIsHeld
    <3> QED
      BY <1>10, <3>1, <3>2, <3>3 DEF Entry
  <2> QED
    BY <2>1, <2>2
<1>13. OneRequestPerWindow'
  <2> SUFFICES ASSUME Cardinality(Keys) <= DedupMaxEntries,
                      NEW a \in Issued', NEW b \in Issued', a # b, KeyOf[a] = KeyOf[b],
                      request'[a].since <= request'[b].since
               PROVE  request'[b].since - request'[a].since > DedupTTL
    BY DEF OneRequestPerWindow
  <2>1. CASE b = r
    <3>1. a \in Issued /\ request'[a] = request[a]
      BY <1>5, <1>11, <2>1 DEF Issued
    <3> QED
      BY <1>6, <1>10, <2>1, <3>1
  <2>2. CASE a = r
    <3>1. b \in Issued /\ request'[b] = request[b] /\ b \in Requests
      BY <1>5, <1>11, <2>2 DEF Issued
    <3>2. now <= request[b].since /\ request[b].since \in 0..now
      BY <1>1, <1>6, <2>2, <3>1
    <3>3. now - request[b].since > DedupTTL
      BY <1>10, <2>2, <3>1
    <3> QED
      BY <1>1, <3>2, <3>3
  <2>3. CASE a # r /\ b # r
    BY <1>5, <1>11, <2>3 DEF StubInv, OneRequestPerWindow, Issued
  <2> QED
    BY <2>1, <2>2, <2>3
<1> QED
  BY <1>7, <1>8, <1>9, <1>12, <1>13 DEF StubInv

\* A step that moves one request, and no other, without touching the dedup's
\* promises: its claim stays what it was, and it is issued afterwards only if
\* it was before.
LEMMA MoveStep ==
    ASSUME StubInv, NEW r \in Requests, NEW place \in Places,
           request' = [request EXCEPT ![r].at = place],
           place # "new",
           place = "refused" => request[r].at \in {"new", "refused"},
           request[r].at = "refused" => place = "refused",
           request[r].at = "new" => place = "refused",
           place \in {"queued", "writing", "written"} => r \in Issued,
           place \in {"queued", "writing"} => r \in Running,
           UNCHANGED now, seq' \in {seq, seq + 1},
           \A e \in Held(claims) :
              \/ e \in Held(claims')
              \/ /\ place = "abandoned" /\ e.key = KeyOf[r]
                 /\ e.value = request[r].claim
    PROVE  /\ request' \in [Requests -> [at : Places, claim : 0..seq', since : 0..now]]
           /\ request'[r].at = place
           /\ \A s \in Requests \ {r} : request'[s] = request[s]
           /\ \A s \in Requests : request'[s].claim = request[s].claim
           /\ Running' \subseteq Running
           /\ ClaimsAreOwn' /\ WindowIsHeld' /\ OneRequestPerWindow'
<1>1. /\ request \in [Requests -> [at : Places, claim : 0..seq, since : 0..now]]
      /\ now \in Nat /\ seq \in Nat
  BY StubTypes
<1>2. /\ request' \in [Requests -> [at : Places, claim : 0..seq', since : 0..now]]
      /\ request'[r].at = place /\ request'[r].claim = request[r].claim
      /\ request'[r].since = request[r].since
      /\ \A s \in Requests \ {r} : request'[s] = request[s]
  <2>1. request \in [Requests -> [at : Places, claim : 0..seq', since : 0..now]]
    <3>1. [at : Places, claim : 0..seq, since : 0..now]
            \subseteq [at : Places, claim : 0..seq', since : 0..now]
      BY <1>1
    <3> QED
      BY <1>1, <3>1
  <2> QED
    BY <2>1
<1>3. \A s \in Requests : request'[s].claim = request[s].claim
                         /\ request'[s].since = request[s].since
  BY <1>2
<1>4. Running' \subseteq Running
  BY <1>2 DEF Running
<1>5. ClaimsAreOwn'
  BY <1>2, <1>3 DEF StubInv, ClaimsAreOwn
<1>6. Issued' \subseteq Issued
  BY <1>2 DEF Issued
<1>7. WindowIsHeld'
  <2> SUFFICES ASSUME Cardinality(Keys) <= DedupMaxEntries, NEW s \in Issued',
                      now - request[s].since <= DedupTTL
               PROVE  Entry(KeyOf[s], request[s].claim, request[s].since)
                        \in Held(claims')
    BY <1>3, <1>6 DEF WindowIsHeld, Issued
  <2> DEFINE e == Entry(KeyOf[s], request[s].claim, request[s].since)
  <2>1. e \in Held(claims)
    BY <1>6 DEF StubInv, WindowIsHeld
  <2>2. e.value = request[s].claim
    BY DEF Entry
  <2>3. s \in Requests /\ request[s].claim # 0
    BY <1>6 DEF StubInv, ClaimsAreOwn, Issued
  <2> HIDE DEF e
  <2>4. ASSUME place = "abandoned", e.value = request[r].claim
        PROVE  FALSE
    <3>1. s = r
      BY <2>2, <2>3, <2>4 DEF StubInv, ClaimsAreOwn
    <3> QED
      BY <1>2, <2>4, <3>1 DEF Issued
  <2> QED
    BY <2>1, <2>4 DEF e
<1>8. OneRequestPerWindow'
  BY <1>3, <1>6 DEF StubInv, OneRequestPerWindow, Issued
<1> QED
  BY <1>2, <1>3, <1>4, <1>5, <1>7, <1>8

\* beginStubRequest: refused while stopping or within the window, granted
\* otherwise.
LEMMA BeginStep ==
    ASSUME StubInv, NEW r \in Requests, Begin(r)
    PROVE  StubInv'
<1> DEFINE key == KeyOf[r]
<1>0. /\ now \in 0..MaxTime /\ seq \in Nat /\ claims \in Seq(ClaimEntries)
      /\ OnePerKey(claims) /\ now \in Nat /\ slots \in 0..MaxInflight
      /\ Len(claims) <= DedupMaxEntries
      /\ request[r].at = "new" /\ UNCHANGED <<now, slots, stopping, shutdown>>
      /\ "refused" \in Places /\ r \notin Running /\ r \notin Writing
  BY StubTypes DEF Begin, Places, Running, Writing
<1>1. CASE MayBegin /\ ~Fresh(claims, key, DedupTTL, now)
  <2>1. /\ seq' = seq + 1
        /\ claims' = Set(claims, key, seq + 1, now, DedupMaxEntries)
        /\ request' = [request EXCEPT ![r] = [at |-> "queued", claim |-> seq + 1,
                                              since |-> now]]
    BY <1>1 DEF Begin, SetIfAbsent
  <2> QED
    BY <1>0, <1>1, <2>1, GrantStep DEF MayBegin
<1>2. ASSUME ~MayBegin \/ Fresh(claims, key, DedupTTL, now)
      PROVE  StubInv'
  <2>1. /\ request' = [request EXCEPT ![r].at = "refused"]
        /\ \/ UNCHANGED <<claims, seq>>
           \/ /\ seq' = seq + 1 /\ Has(claims, key)
              /\ claims' = Touch(claims, key)
    <3>1. CASE ~MayBegin
      BY <3>1 DEF Begin, Goto
    <3>2. CASE MayBegin
      BY <1>2, <3>2 DEF Begin, SetIfAbsent, Fresh, StoredWithin
    <3> QED
      BY <3>1, <3>2
  <2>2. seq' \in {seq, seq + 1} /\ seq' \in Nat /\ claims \in Seq(ClaimEntries')
    <3>1. seq' \in {seq, seq + 1}
      BY <2>1
    <3>2. ClaimEntries \subseteq ClaimEntries'
      BY <1>0, <3>1 DEF ClaimEntries
    <3> QED
      BY <1>0, <3>1, <3>2, SeqMonotonic
  <2>3. /\ claims' \in Seq(ClaimEntries') /\ OnePerKey(claims')
        /\ Len(claims') <= DedupMaxEntries /\ Held(claims') = Held(claims)
    BY <1>0, <2>1, <2>2, TouchHeld
  <2>4. /\ request' \in [Requests -> [at : Places, claim : 0..seq', since : 0..now]]
        /\ request'[r].at = "refused"
        /\ \A s \in Requests \ {r} : request'[s] = request[s]
        /\ Running' \subseteq Running
        /\ ClaimsAreOwn' /\ WindowIsHeld' /\ OneRequestPerWindow'
    BY <1>0, <2>1, <2>2, <2>3, MoveStep
  <2>5. TypeOK'
    BY <1>0, <2>2, <2>3, <2>4 DEF StubInv, TypeOK, ClaimEntries, OnePerKey
  <2>6. Writing' = Writing
    BY <1>0, <2>4 DEF Writing
  <2> QED
    BY <1>0, <2>4, <2>5, <2>6
    DEF StubInv, SlotsAreHeld, StopIsKept, DrainedIsQuiet
<1> QED
  BY <1>1, <1>2

\* acquireStubSlot and the deferred release: a slot is held by one writer.
LEMMA SlotStep ==
    ASSUME StubInv, NEW r \in Requests, AcquireSlot(r) \/ Write(r)
    PROVE  StubInv'
<1>0. /\ now \in 0..MaxTime /\ seq \in Nat /\ claims \in Seq(ClaimEntries)
      /\ OnePerKey(claims) /\ now \in Nat /\ slots \in 0..MaxInflight
      /\ MaxInflight \in Nat /\ Len(claims) <= DedupMaxEntries
      /\ UNCHANGED <<now, claims, seq, stopping, shutdown>>
      /\ "writing" \in Places /\ "written" \in Places
      /\ IsFiniteSet(Writing) /\ slots = Cardinality(Writing)
  BY StubTypes DEF AcquireSlot, Write, Places, StubInv, SlotsAreHeld
<1>1. CASE AcquireSlot(r)
  <2>1. /\ request[r].at = "queued" /\ slots < MaxInflight /\ slots' = slots + 1
        /\ request' = [request EXCEPT ![r].at = "writing"]
        /\ r \in Issued /\ r \in Running /\ r \notin Writing
    BY <1>1 DEF AcquireSlot, Goto, Issued, Running, Writing
  <2>2. /\ request' \in [Requests -> [at : Places, claim : 0..seq', since : 0..now]]
        /\ request'[r].at = "writing"
        /\ \A s \in Requests \ {r} : request'[s] = request[s]
        /\ Running' \subseteq Running
        /\ ClaimsAreOwn' /\ WindowIsHeld' /\ OneRequestPerWindow'
    BY <1>0, <2>1, MoveStep
  <2>3. Writing' = Writing \cup {r}
    BY <2>2 DEF Writing
  <2>4. IsFiniteSet(Writing') /\ slots' = Cardinality(Writing')
    BY <1>0, <2>1, <2>3, FS_AddElement
  <2>5. slots' \in 0..MaxInflight
    BY <1>0, <2>1
  <2> QED
    BY <1>0, <2>2, <2>4, <2>5
    DEF StubInv, TypeOK, SlotsAreHeld, StopIsKept, DrainedIsQuiet
<1>2. CASE Write(r)
  <2>1. /\ request[r].at = "writing" /\ slots' = slots - 1
        /\ request' = [request EXCEPT ![r].at = "written"]
        /\ r \in Issued /\ r \in Running /\ r \in Writing
    BY <1>2 DEF Write, Goto, Issued, Running, Writing
  <2>2. /\ request' \in [Requests -> [at : Places, claim : 0..seq', since : 0..now]]
        /\ request'[r].at = "written"
        /\ \A s \in Requests \ {r} : request'[s] = request[s]
        /\ Running' \subseteq Running
        /\ ClaimsAreOwn' /\ WindowIsHeld' /\ OneRequestPerWindow'
    BY <1>0, <2>1, MoveStep
  <2>3. Writing' = Writing \ {r}
    BY <2>2 DEF Writing
  <2>4. IsFiniteSet(Writing') /\ slots' = Cardinality(Writing')
    BY <1>0, <2>1, <2>3, FS_RemoveElement
  <2>5. slots' \in 0..MaxInflight
    <3>1. Cardinality(Writing') \in Nat
      BY <2>4, FS_CardinalityType
    <3> QED
      BY <1>0, <2>1, <2>4, <3>1
  <2> QED
    BY <1>0, <2>2, <2>4, <2>5
    DEF StubInv, TypeOK, SlotsAreHeld, StopIsKept, DrainedIsQuiet
<1> QED
  BY <1>1, <1>2

\* A request that gives up takes its own claim, and no newer one.
LEMMA GiveUpStep ==
    ASSUME StubInv, NEW r \in Requests, GiveUp(r)
    PROVE  StubInv'
<1>0. /\ now \in 0..MaxTime /\ seq \in Nat /\ claims \in Seq(ClaimEntries)
      /\ OnePerKey(claims) /\ now \in Nat /\ slots \in 0..MaxInflight
      /\ Len(claims) <= DedupMaxEntries /\ DedupMaxEntries \in Nat
      /\ UNCHANGED <<now, seq, slots, stopping, shutdown>>
      /\ "abandoned" \in Places /\ request[r].at = "queued"
      /\ claims' = DeleteIf(claims, KeyOf[r], request[r].claim)
      /\ request' = [request EXCEPT ![r].at = "abandoned"]
  BY StubTypes DEF GiveUp, dropStubClaim, Goto, Places
<1>1. /\ claims' \in Seq(ClaimEntries) /\ OnePerKey(claims')
      /\ Len(claims') <= Len(claims)
      /\ \A e \in Held(claims) :
            e \in Held(claims') \/ (e.key = KeyOf[r] /\ e.value = request[r].claim)
  BY <1>0, DeleteIfHeld
<1>2. Len(claims') <= DedupMaxEntries
  BY <1>0, <1>1, LenProperties
<1>3. /\ request' \in [Requests -> [at : Places, claim : 0..seq', since : 0..now]]
      /\ request'[r].at = "abandoned"
      /\ \A s \in Requests \ {r} : request'[s] = request[s]
      /\ Running' \subseteq Running
      /\ ClaimsAreOwn' /\ WindowIsHeld' /\ OneRequestPerWindow'
  BY <1>0, <1>1, MoveStep
<1>4. Writing' = Writing
  BY <1>0, <1>3 DEF Writing
<1>5. TypeOK'
  BY <1>0, <1>1, <1>2, <1>3 DEF StubInv, TypeOK, ClaimEntries, OnePerKey
<1> QED
  BY <1>0, <1>3, <1>4, <1>5
  DEF StubInv, SlotsAreHeld, StopIsKept, DrainedIsQuiet

\* Shutdown, and the clock.
LEMMA ShutdownStep ==
    ASSUME StubInv, Stop \/ Drained \/ DrainTimesOut \/ Tick
    PROVE  StubInv'
<1>0. /\ now \in 0..MaxTime /\ seq \in Nat /\ claims \in Seq(ClaimEntries)
      /\ OnePerKey(claims) /\ now \in Nat /\ MaxTime \in Nat
      /\ request \in [Requests -> [at : Places, claim : 0..seq, since : 0..now]]
      /\ DedupTTL \in Nat
  BY StubTypes
<1>1. CASE Stop \/ Drained \/ DrainTimesOut
  <2>1. /\ UNCHANGED <<now, claims, seq, slots, request>>
        /\ shutdown' \in {"waiting", "drained", "timedOut"}
        /\ stopping' /\ stopping' \in BOOLEAN
        /\ shutdown' = "drained" => Running = {}
    BY <1>1 DEF Stop, Drained, DrainTimesOut, StubInv, StopIsKept, TypeOK
  <2> QED
    BY <2>1 DEF StubInv, TypeOK, SlotsAreHeld, Writing, StopIsKept, DrainedIsQuiet,
       Running, ClaimsAreOwn, WindowIsHeld, OneRequestPerWindow, Issued
<1>2. CASE Tick
  <2>1. /\ now' = now + 1 /\ now' \in 0..MaxTime
        /\ UNCHANGED <<claims, seq, slots, stopping, shutdown, request>>
    BY <1>0, <1>2 DEF Tick
  <2>2. claims \in Seq(ClaimEntries')
    <3>1. ClaimEntries \subseteq ClaimEntries'
      BY <1>0, <2>1 DEF ClaimEntries
    <3> QED
      BY <1>0, <3>1, SeqMonotonic
  <2>3. request \in [Requests -> [at : Places, claim : 0..seq, since : 0..now']]
    <3>1. [at : Places, claim : 0..seq, since : 0..now]
            \subseteq [at : Places, claim : 0..seq, since : 0..now']
      BY <1>0, <2>1
    <3> QED
      BY <1>0, <3>1
  <2>4. TypeOK'
    BY <2>1, <2>2, <2>3 DEF StubInv, TypeOK, ClaimEntries
  <2>5. WindowIsHeld'
    <3> SUFFICES ASSUME Cardinality(Keys) <= DedupMaxEntries, NEW s \in Issued,
                        now' - request[s].since <= DedupTTL
                 PROVE  Entry(KeyOf[s], request[s].claim, request[s].since)
                          \in Held(claims)
      BY <2>1 DEF WindowIsHeld, Issued
    <3>1. request[s].since \in Nat
      BY <1>0 DEF Issued
    <3>2. now - request[s].since <= DedupTTL
      BY <1>0, <2>1, <3>1
    <3> QED
      BY <3>2 DEF StubInv, WindowIsHeld
  <2> QED
    BY <2>1, <2>4, <2>5 DEF StubInv, SlotsAreHeld, Writing, StopIsKept,
       DrainedIsQuiet, Running, ClaimsAreOwn, OneRequestPerWindow, Issued
<1> QED
  BY <1>1, <1>2

LEMMA StubStep == StubInv /\ [Next]_vars => StubInv'
<1> SUFFICES ASSUME StubInv, [Next]_vars PROVE StubInv'
  OBVIOUS
<1>1. CASE UNCHANGED vars
  BY <1>1 DEF vars, StubInv, TypeOK, SlotsAreHeld, Writing, StopIsKept,
     DrainedIsQuiet, Running, ClaimsAreOwn, WindowIsHeld, OneRequestPerWindow, Issued
<1> QED
  BY <1>1, BeginStep, SlotStep, GiveUpStep, ShutdownStep DEF Next

\* The admissions leave the stub requests alone or take one of their steps.
LEMMA StubRefines == ANext => [Next]_vars
  BY DEF ANext, Walk, ReadNext, Governs, Refuses, Fails, JoinFlight, Late, Cancelled,
     Fetch, FetchFailed, FetchLate, Annotate, Wait, Stubs, Shutdown, Next, walk, world

LEMMA StubInit == AInit => StubInv
<1> SUFFICES ASSUME AInit PROVE StubInv
  OBVIOUS
<1>0. MaxTime \in Nat /\ DedupMaxEntries \in Nat \ {0} /\ DedupTTL \in Nat \ {0}
      /\ MaxInflight \in Nat /\ KeyOf \in [Requests -> Keys]
  BY StubAssumption
<1>1. /\ now = 0 /\ slots = 0 /\ stopping = FALSE /\ shutdown = "none"
      /\ \A r \in Requests :
            request[r] = [at |-> IF r \in Earlier THEN "queued" ELSE "new",
                          claim |-> IF r \in Earlier THEN 1 ELSE 0, since |-> 0]
      /\ request = [r \in Requests |-> request[r]]
  BY DEF AInit
<1>2. \/ Earlier = {} /\ seq = 0 /\ claims = <<>>
      \/ \E r \in Requests :
            Earlier = {r} /\ seq = 1 /\ claims = <<Entry(KeyOf[r], 1, 0)>>
  BY AdmissionAssumption DEF AInit
<1>3. seq \in {0, 1} /\ (Earlier # {} => seq = 1)
  BY <1>2
<1>4. /\ claims \in Seq(ClaimEntries) /\ OnePerKey(claims)
      /\ Len(claims) <= DedupMaxEntries
      /\ \A r \in Earlier : Entry(KeyOf[r], 1, 0) \in Held(claims)
  <2>1. CASE Earlier = {} /\ seq = 0 /\ claims = <<>>
    BY <1>0, <2>1 DEF OnePerKey
  <2>2. ASSUME NEW r \in Requests, Earlier = {r}, seq = 1,
               claims = <<Entry(KeyOf[r], 1, 0)>>
        PROVE  /\ claims \in Seq(ClaimEntries) /\ OnePerKey(claims)
               /\ Len(claims) <= DedupMaxEntries
               /\ \A q \in Earlier : Entry(KeyOf[q], 1, 0) \in Held(claims)
    <3> DEFINE e == Entry(KeyOf[r], 1, 0)
    <3>1. e \in ClaimEntries
      BY <1>0, <1>1, <2>2 DEF Entry, ClaimEntries
    <3> HIDE DEF e
    <3>2. claims = <<e>>
      BY <2>2 DEF e
    <3>3. claims \in Seq(ClaimEntries) /\ Len(claims) = 1 /\ DOMAIN claims = {1}
          /\ claims[1] = e
      BY <3>1, <3>2
    <3> QED
      BY <1>0, <2>2, <3>3 DEF OnePerKey, Held, e
  <2> QED
    BY <1>2, <2>1, <2>2
<1>5. request \in [Requests -> [at : Places, claim : 0..seq, since : 0..now]]
  <2>1. \A r \in Requests : request[r] \in [at : Places, claim : 0..seq, since : 0..now]
    BY <1>1, <1>3 DEF Places
  <2> QED
    BY <1>1, <2>1
<1>6. TypeOK
  <2>1. now \in 0..MaxTime /\ seq \in Nat /\ slots \in 0..MaxInflight
    BY <1>0, <1>1, <1>3
  <2>2. stopping \in BOOLEAN /\ shutdown \in {"none", "waiting", "drained", "timedOut"}
    BY <1>1
  <2> QED
    BY <1>4, <1>5, <2>1, <2>2 DEF TypeOK, ClaimEntries, OnePerKey
<1>7. SlotsAreHeld
  <2>1. Writing = {}
    BY <1>1 DEF Writing
  <2> QED
    BY <1>1, <2>1, FS_EmptySet DEF SlotsAreHeld
<1>8. StopIsKept /\ DrainedIsQuiet
  BY <1>1 DEF StopIsKept, DrainedIsQuiet
<1>9. \A r, s \in Requests : r \in Earlier /\ s \in Earlier => r = s
  BY <1>2
<1>10. ClaimsAreOwn
  BY <1>1, <1>9 DEF ClaimsAreOwn
<1>11. Issued = Earlier /\ Earlier \subseteq Requests
  BY <1>1, <1>2 DEF Issued
<1>12. WindowIsHeld
  BY <1>1, <1>4, <1>11 DEF WindowIsHeld
<1>13. OneRequestPerWindow
  BY <1>9, <1>11 DEF OneRequestPerWindow
<1> QED
  BY <1>6, <1>7, <1>8, <1>10, <1>12, <1>13 DEF StubInv

-----------------------------------------------------------------------------
\* The stub requests' invariant holds whatever the admissions do.
THEOREM StubInvariant == ASpec => []StubInv
<1>1. StubInv /\ [ANext]_avars => StubInv'
  <2>1. UNCHANGED avars => UNCHANGED vars
    BY DEF avars
  <2> QED
    BY <2>1, StubStep, StubRefines
<1> QED
  BY StubInit, <1>1, PTL DEF ASpec

\* Once Shutdown has returned without error no stub goroutine runs or starts,
\* however many admissions raced it (beginStubRequest, Shutdown).
THEOREM DrainedStaysQuiet == ASpec => []DrainedIsQuiet
  BY StubInvariant, PTL DEF StubInv

\* At most one request per identity and window reaches the API server, for
\* any admissions, identities and slots the dedup has room for (SetIfAbsent,
\* dropStubClaim).
THEOREM OneRequestInEveryWindow == ASpec => []OneRequestPerWindow
  BY StubInvariant, PTL DEF StubInv

-----------------------------------------------------------------------------
(* The walks and the caches they read through *)

Values == [kind : {Unread, Kind}, workload : Annotations \cup {NotRead}]
Answers == [ok : BOOLEAN, value : Values]
Caches == {CacheOf[t] : t \in Things}
CacheEntries == [key : Things, value : Answers, storedAt : 0..now]
FlightRecords ==
    [at : {"none", "sent", "read", "over"}, since : 0..now,
     leader : Requests \cup {"none"}, answer : Answers]
ReaderRecords ==
    [at : {"idle", "missed", "waiting", "back"}, of : Things \cup {"none"},
     answer : Answers]
AdmissionRecords ==
    [at : {"new", "walking", "refused", "failed", "cancelled", "governed"},
     since : 0..now, kind : {Unread, Kind}, workload : Annotations \cup {NotRead}]

WalkType ==
    /\ entries \in [Caches -> Seq(CacheEntries)]
    /\ \A c \in Caches : OnePerKey(entries[c]) /\ Len(entries[c]) <= MaxEntries
    /\ flights \in [Things -> FlightRecords]
    /\ reader \in [Requests -> ReaderRecords]
    /\ adm \in [Requests -> AdmissionRecords]
    /\ says \in [Workloads -> Annotations]
    /\ until \in [Workloads -> [Annotations -> Before..now]]
    /\ fault \in Before..now /\ events \in 0..MaxEvents
    /\ now \in Nat

\* The workload said v at time x or after.
SaidSince(w, v, x) == says[w] = v \/ (until[w][v] # Before /\ x <= until[w][v])

\* An answer is no error, and one about a workload is what it said since x.
TrueSince(t, answer, x) ==
    /\ answer.ok
    /\ t \in Workloads => /\ answer.value.workload \in Annotations
                          /\ SaidSince(t, answer.value.workload, x)

\* A cached answer was true when its fetch began.
CachesAreTrue ==
    \A c \in Caches : \A e \in Held(entries[c]) :
        TrueSince(e.key, e.value, e.storedAt - Deadline)

\* A flight ends by its deadline, with what was true since it began or with an
\* error of its own, then and there.
FlightIsTrue(t, f) ==
    /\ f.at # "none" => now <= f.since + Deadline
    /\ f.at = "read" => f.answer.ok
    /\ f.at \in {"read", "over"} /\ f.answer.ok => TrueSince(t, f.answer, f.since)
    /\ f.at = "over" /\ ~f.answer.ok => fault = now

FlightsAreTrue == \A t \in Things : FlightIsTrue(t, flights[t])

\* A reader reads its admission's reference or workload, and what it got is
\* recent or an error with a cause.
ReaderIsTrue(r, d, a) ==
    /\ d.at # "idle" => a.at = "walking" /\ d.of \in {RefOf[r], WorkloadOf(r)}
    /\ d.at = "back" /\ d.answer.ok => TrueSince(d.of, d.answer, now - (TTL + Deadline))
    /\ d.at = "back" /\ ~d.answer.ok =>
          now >= a.since + GovernanceTimeout \/ fault >= a.since
    /\ a.at = "new" => a.workload = NotRead

ReadersAreTrue == \A r \in Requests : ReaderIsTrue(r, reader[r], adm[r])

WalkInv == WalkType /\ CachesAreTrue /\ FlightsAreTrue /\ ReadersAreTrue

\* What the assumptions say of the constants.
LEMMA WalkConstants ==
    /\ TTL \in Nat \ {0} /\ MaxEntries \in Nat \ {0} /\ Deadline \in Nat \ {0}
    /\ GovernanceTimeout \in Nat \ {0} /\ MaxEvents \in Nat
    /\ Readers = Requests /\ Workloads \subseteq Things
    /\ \A r \in Requests : /\ RefOf[r] \in Things \ Workloads
                           /\ WorkloadOf(r) \in Workloads
    /\ Zero \in Values /\ NoAnswer \in Answers /\ ~NoAnswer.ok
    /\ \A t \in Things : CacheOf[t] \in Caches
<1>1. /\ TTL \in Nat \ {0} /\ MaxEntries \in Nat \ {0} /\ Deadline \in Nat \ {0}
      /\ GovernanceTimeout \in Nat \ {0} /\ MaxEvents \in Nat
      /\ Readers = Requests
  BY ReadThroughAssumption, AdmissionAssumption
<1>2. Workloads \subseteq Things /\ \A r \in Requests : RefOf[r] \in Things
  BY AdmissionAssumption
<1>3. \A r \in Requests : RefOf[r] \notin Workloads /\ WorkloadOf(r) \in Workloads
  BY AdmissionAssumption DEF WorkloadOf
<1>4. Zero = [kind |-> Unread, workload |-> NotRead]
  BY AdmissionAssumption
<1>5. Zero \in Values
  <2> HIDE DEF NotRead, Unread
  <2> QED
    BY <1>4 DEF Values
<1>6. NoAnswer \in Answers /\ ~NoAnswer.ok
  BY <1>5 DEF NoAnswer, Answers
<1> QED
  BY <1>1, <1>2, <1>3, <1>5, <1>6 DEF Caches

LEMMA NoneRecords ==
    ASSUME now \in Nat
    PROVE  /\ NoFlight \in FlightRecords /\ NoFlight.at = "none"
           /\ NoRead \in ReaderRecords /\ NoRead.at = "idle"
           /\ NoRead.answer = NoAnswer
<1>1. NoAnswer \in Answers
  BY WalkConstants
<1> HIDE DEF NoAnswer
<1> QED
  BY <1>1 DEF NoFlight, NoRead, FlightRecords, ReaderRecords

LEMMA NewAdmissionRecord ==
    ASSUME now \in Nat
    PROVE  /\ NewAdmission \in AdmissionRecords /\ NewAdmission.at = "new"
           /\ NewAdmission.workload = NotRead /\ NewAdmission.since = 0
<1> HIDE DEF NotRead, Unread
<1> QED
  BY DEF NewAdmission, AdmissionRecords

LEMMA WalkInit == AInit => WalkInv
<1> SUFFICES ASSUME AInit PROVE WalkInv
  OBVIOUS
<1>0. now = 0 /\ now \in Nat /\ MaxEvents \in Nat
  BY WalkConstants DEF AInit
<1>1. /\ entries = [c \in Caches |-> <<>>]
      /\ flights = [t \in Things |-> NoFlight]
      /\ reader = [r \in Requests |-> NoRead]
      /\ says \in [Workloads -> Annotations]
      /\ until = [w \in Workloads |-> [a \in Annotations |-> Before]]
      /\ fault = Before /\ events = 0
  BY DEF AInit, Caches
<1>2. adm \in [Requests -> AdmissionRecords]
      /\ \A r \in Requests : adm[r].workload = NotRead
  <2>1. adm = [r \in Requests |->
                 [NewAdmission EXCEPT !.at = IF r \in Earlier THEN "governed" ELSE "new"]]
    BY DEF AInit
  <2>2. \A x \in {"governed", "new"} :
           /\ [NewAdmission EXCEPT !.at = x] \in AdmissionRecords
           /\ [NewAdmission EXCEPT !.at = x].workload = NotRead
    BY <1>0, NewAdmissionRecord DEF AdmissionRecords
  <2> QED
    BY <2>1, <2>2
<1>3. \A c \in Caches : /\ entries[c] = <<>> /\ entries[c] \in Seq(CacheEntries)
                        /\ OnePerKey(entries[c]) /\ Held(entries[c]) = {}
                        /\ Len(entries[c]) = 0
  BY <1>1 DEF OnePerKey, Held
<1>4. WalkType
  <2>1. entries \in [Caches -> Seq(CacheEntries)]
    BY <1>1, <1>3
  <2>2. \A c \in Caches : Len(entries[c]) <= MaxEntries
    BY <1>3, WalkConstants
  <2>3. flights \in [Things -> FlightRecords] /\ reader \in [Requests -> ReaderRecords]
    BY <1>0, <1>1, NoneRecords
  <2>4. until \in [Workloads -> [Annotations -> Before..now]]
        /\ fault \in Before..now /\ events \in 0..MaxEvents
    BY <1>0, <1>1 DEF Before
  <2> QED
    BY <1>0, <1>1, <1>2, <1>3, <2>1, <2>2, <2>3, <2>4 DEF WalkType
<1>5. CachesAreTrue
  BY <1>3 DEF CachesAreTrue
<1>6. FlightsAreTrue
  BY <1>0, <1>1, NoneRecords DEF FlightsAreTrue, FlightIsTrue
<1>7. ReadersAreTrue
  BY <1>0, <1>1, <1>2, NoneRecords DEF ReadersAreTrue, ReaderIsTrue
<1> QED
  BY <1>4, <1>5, <1>6, <1>7 DEF WalkInv

\* What was true since x was true since an earlier time.
LEMMA TrueEarlier ==
    ASSUME WalkType, NEW t \in Things, NEW answer, NEW x \in Int, NEW y \in Int, y <= x,
           TrueSince(t, answer, x)
    PROVE  TrueSince(t, answer, y)
<1> SUFFICES ASSUME t \in Workloads
             PROVE  SaidSince(t, answer.value.workload, y)
  BY DEF TrueSince
<1> DEFINE v == answer.value.workload
<1>1. v \in Annotations /\ SaidSince(t, v, x)
  BY DEF TrueSince
<1>2. until[t][v] \in Int
  BY <1>1 DEF WalkType, Before
<1> HIDE DEF v
<1>3. SaidSince(t, v, y)
  BY <1>1, <1>2 DEF SaidSince
<1> QED
  BY <1>3 DEF v

\* A step of one admission that reads what the caches hold, or ends.
LEMMA AdmissionStep ==
    ASSUME WalkInv, NEW r \in Requests,
           NEW a \in AdmissionRecords, NEW d \in ReaderRecords,
           adm' = [adm EXCEPT ![r] = a], reader' = [reader EXCEPT ![r] = d],
           UNCHANGED <<now, flights, says, until, fault>>, events' \in 0..MaxEvents,
           entries' \in [Caches -> Seq(CacheEntries)],
           \A c \in Caches : /\ OnePerKey(entries'[c]) /\ Len(entries'[c]) <= MaxEntries
                             /\ Held(entries'[c]) \subseteq Held(entries[c]),
           ReaderIsTrue(r, d, a)
    PROVE  WalkInv'
<1> USE DEF WalkInv
<1>1. WalkType'
  BY DEF WalkType, CacheEntries, FlightRecords, ReaderRecords, AdmissionRecords
<1>2. \A t, answer, x : TrueSince(t, answer, x)' <=> TrueSince(t, answer, x)
  BY DEF TrueSince, SaidSince
<1>3. CachesAreTrue'
  <2> SUFFICES ASSUME NEW c \in Caches, NEW e \in Held(entries'[c])
               PROVE  TrueSince(e.key, e.value, e.storedAt - Deadline)'
    BY DEF CachesAreTrue, Caches, Held
  <2> QED
    BY <1>2 DEF CachesAreTrue
<1>4. FlightsAreTrue'
  BY <1>2 DEF FlightsAreTrue, FlightIsTrue
<1>5. ReadersAreTrue'
  <2> SUFFICES ASSUME NEW s \in Requests PROVE ReaderIsTrue(s, reader[s], adm[s])'
    BY DEF ReadersAreTrue
  <2>1. CASE s = r
    <3>1. reader'[s] = d /\ adm'[s] = a
      BY <2>1 DEF WalkType
    <3> QED
      BY <1>2, <2>1, <3>1 DEF ReaderIsTrue, WorkloadOf
  <2>2. CASE s # r
    <3>1. reader'[s] = reader[s] /\ adm'[s] = adm[s]
      BY <2>2 DEF WalkType
    <3> QED
      BY <1>2, <3>1 DEF ReadersAreTrue, ReaderIsTrue, WorkloadOf
  <2> QED
    BY <2>1, <2>2
<1> QED
  BY <1>1, <1>3, <1>4, <1>5

\* What an admission that goes on knows.
LEMMA KnownRecord ==
    ASSUME WalkInv, NEW r \in Requests, Goes(r)
    PROVE  /\ Known(r) \in AdmissionRecords
           /\ Arrives(r) => Known(r).at = "walking" /\ Known(r).workload = adm[r].workload
           /\ ~Arrives(r) => Known(r).at = adm[r].at /\ Known(r).since = adm[r].since
           /\ Known(r).at = "new" => Known(r).workload = NotRead
           /\ Known(r).workload # adm[r].workload =>
                 /\ reader[r].at = "back" /\ reader[r].answer.ok
                 /\ reader[r].of = WorkloadOf(r)
                 /\ Known(r).workload = reader[r].answer.value.workload
<1> USE DEF WalkInv
<1>0. now \in Nat /\ now \in 0..now
  BY DEF WalkType
<1>1. /\ adm[r] \in AdmissionRecords /\ reader[r] \in ReaderRecords
      /\ reader[r].answer \in Answers /\ reader[r].answer.value \in Values
      /\ ReaderIsTrue(r, reader[r], adm[r])
  BY DEF WalkType, ReaderRecords, Answers, ReadersAreTrue
<1> HIDE DEF NotRead, Unread
<1>2. CASE Arrives(r)
  <2>1. /\ Known(r) = [NewAdmission EXCEPT !.at = "walking", !.since = now]
        /\ NewAdmission \in AdmissionRecords /\ NewAdmission.workload = NotRead
    BY <1>0, <1>2, NewAdmissionRecord DEF Known
  <2>2. Known(r) \in AdmissionRecords /\ Known(r).at = "walking"
        /\ Known(r).workload = NotRead
    <3> HIDE DEF NewAdmission
    <3> QED
      BY <1>0, <2>1 DEF AdmissionRecords
  <2>3. adm[r].workload = NotRead
    BY <1>1, <1>2 DEF Arrives, ReaderIsTrue
  <2> QED
    BY <1>2, <2>2, <2>3
<1>3. CASE ~Arrives(r)
  <2>1. reader[r].at = "back" /\ reader[r].answer.ok
        /\ reader[r].of \in {RefOf[r], WorkloadOf(r)}
    BY <1>1, <1>3 DEF Goes, ReaderIsTrue
  <2>2. CASE reader[r].of = RefOf[r]
    <3>1. Known(r) = [adm[r] EXCEPT !.kind = reader[r].answer.value.kind]
      BY <1>3, <2>2 DEF Known
    <3>2. reader[r].answer.value.kind \in {Unread, Kind}
      BY <1>1 DEF Values
    <3>3. /\ Known(r) \in AdmissionRecords /\ Known(r).at = adm[r].at
          /\ Known(r).since = adm[r].since /\ Known(r).workload = adm[r].workload
      BY <1>1, <3>1, <3>2 DEF AdmissionRecords
    <3> QED
      BY <1>1, <1>3, <3>3 DEF ReaderIsTrue
  <2>3. CASE reader[r].of # RefOf[r]
    <3>1. Known(r) = [adm[r] EXCEPT !.workload = reader[r].answer.value.workload]
      BY <1>3, <2>3 DEF Known
    <3>2. reader[r].answer.value.workload \in Annotations \cup {NotRead}
      BY <1>1 DEF Values
    <3>3. /\ Known(r) \in AdmissionRecords /\ Known(r).at = adm[r].at
          /\ Known(r).since = adm[r].since
          /\ Known(r).workload = reader[r].answer.value.workload
      BY <1>1, <3>1, <3>2 DEF AdmissionRecords
    <3>4. adm[r].at # "new"
      BY <1>1, <2>1 DEF ReaderIsTrue
    <3> QED
      BY <1>1, <1>3, <2>1, <2>3, <3>3, <3>4 DEF ReaderIsTrue
  <2> QED
    BY <2>2, <2>3
<1> QED
  BY <1>2, <1>3

LEMMA ReadNextStep ==
    ASSUME WalkInv, NEW r \in Requests, ReadNext(r)
    PROVE  WalkInv'
<1> USE DEF WalkInv
<1> DEFINE a == Known(r)
           t == IF Decision(r, Known(r)).need = "owner" THEN RefOf[r] ELSE WorkloadOf(r)
           c == entries[CacheOf[t]]
<1>0. /\ adm' = [adm EXCEPT ![r] = a] /\ Look(r, t, now) /\ Goes(r)
      /\ UNCHANGED <<now, flights, says, until, fault, events>>
  BY DEF ReadNext, Look, vars, world
<1>1. /\ now \in Nat /\ events \in 0..MaxEvents
      /\ entries \in [Caches -> Seq(CacheEntries)]
      /\ \A x \in Caches : OnePerKey(entries[x]) /\ Len(entries[x]) <= MaxEntries
  BY DEF WalkType
<1>2. t \in Things /\ CacheOf[t] \in Caches /\ t \in {RefOf[r], WorkloadOf(r)}
  BY WalkConstants
<1>3. /\ a \in AdmissionRecords /\ a.at = "walking"
  <2>1. ~Arrives(r) => adm[r].at = "walking"
    BY <1>0 DEF Goes, ReadersAreTrue, ReaderIsTrue
  <2> QED
    BY <1>0, <2>1, KnownRecord
<1>4. c \in Seq(CacheEntries) /\ OnePerKey(c) /\ Len(c) <= MaxEntries
  BY <1>1, <1>2
<1> HIDE DEF a, t
<1>5. CASE Fresh(c, t, TTL, now)
  <2> DEFINE e == At(c, t)
             d == [at |-> "back", of |-> t, answer |-> e.value]
  <2>1. /\ reader' = [reader EXCEPT ![r] = d]
        /\ entries' = [entries EXCEPT ![CacheOf[t]] = Touch(c, t)]
    BY <1>0, <1>5 DEF Look, Entries
  <2>2. /\ Has(c, t) /\ e \in Held(c) /\ e.key = t /\ now - e.storedAt <= TTL
    BY <1>4, <1>5, FreshHeld
  <2>3. e \in CacheEntries
    BY <1>4, <2>2, AtHeld
  <2>4. e.value \in Answers /\ e.storedAt \in 0..now
    BY <2>3 DEF CacheEntries
  <2>5. TrueSince(t, e.value, e.storedAt - Deadline)
    BY <1>2, <2>2 DEF CachesAreTrue
  <2> HIDE DEF e
  <2>6. TrueSince(t, e.value, now - (TTL + Deadline))
    <3>1. /\ e.storedAt - Deadline \in Int /\ now - (TTL + Deadline) \in Int
          /\ now - (TTL + Deadline) <= e.storedAt - Deadline
      BY <1>1, <2>2, <2>4, WalkConstants
    <3> QED
      BY <1>2, <2>5, <3>1, TrueEarlier
  <2>7. d \in ReaderRecords /\ ReaderIsTrue(r, d, a)
    <3>1. d \in ReaderRecords
      BY <1>2, <2>4 DEF ReaderRecords
    <3>2. e.value.ok
      BY <2>5 DEF TrueSince
    <3> QED
      BY <1>2, <1>3, <2>6, <3>1, <3>2 DEF ReaderIsTrue
  <2>8. /\ Touch(c, t) \in Seq(CacheEntries) /\ OnePerKey(Touch(c, t))
        /\ Len(Touch(c, t)) = Len(c) /\ Held(Touch(c, t)) = Held(c)
    BY <1>4, <2>2, TouchHeld
  <2> HIDE DEF d
  <2>9. /\ entries' \in [Caches -> Seq(CacheEntries)]
        /\ \A x \in Caches : /\ OnePerKey(entries'[x]) /\ Len(entries'[x]) <= MaxEntries
                             /\ Held(entries'[x]) \subseteq Held(entries[x])
    <3>1. \A x \in Caches : entries'[x] = IF x = CacheOf[t] THEN Touch(c, t) ELSE entries[x]
      BY <1>1, <2>1
    <3> QED
      BY <1>1, <1>2, <1>4, <2>1, <2>8, <3>1
  <2> QED
    BY <1>0, <1>1, <1>3, <2>1, <2>7, <2>9, AdmissionStep
<1>6. CASE ~Fresh(c, t, TTL, now)
  <2> DEFINE d == [NoRead EXCEPT !.at = "missed", !.of = t]
  <2>1. reader' = [reader EXCEPT ![r] = d] /\ entries' = entries
    BY <1>0, <1>6 DEF Look, Entries
  <2>2. d \in ReaderRecords /\ d.at = "missed" /\ d.of = t
    <3>1. NoRead \in ReaderRecords
      BY <1>1, NoneRecords
    <3> HIDE DEF NoRead
    <3> QED
      BY <1>2, <3>1 DEF ReaderRecords
  <2> HIDE DEF d
  <2>3. ReaderIsTrue(r, d, a)
    BY <1>2, <1>3, <2>2 DEF ReaderIsTrue
  <2> QED
    BY <1>0, <1>1, <1>3, <2>1, <2>2, <2>3, AdmissionStep
<1> QED
  BY <1>5, <1>6

\* An admission ends, whatever it decided.
LEMMA EndsStep ==
    ASSUME WalkInv, NEW r \in Requests, NEW a \in AdmissionRecords, a.at # "new",
           adm' = [adm EXCEPT ![r] = a], reader' = [reader EXCEPT ![r] = NoRead],
           UNCHANGED <<now, entries, flights, says, until, fault>>,
           events' \in 0..MaxEvents
    PROVE  WalkInv'
<1> USE DEF WalkInv
<1>1. /\ now \in Nat /\ entries \in [Caches -> Seq(CacheEntries)]
      /\ \A x \in Caches : OnePerKey(entries[x]) /\ Len(entries[x]) <= MaxEntries
  BY DEF WalkType
<1>2. NoRead \in ReaderRecords /\ NoRead.at = "idle"
  BY <1>1, NoneRecords
<1>3. ReaderIsTrue(r, NoRead, a)
  BY <1>2 DEF ReaderIsTrue
<1> QED
  BY <1>1, <1>2, <1>3, AdmissionStep

LEMMA EndStep ==
    ASSUME WalkInv, NEW r \in Requests,
           Governs(r) \/ Refuses(r) \/ Fails(r) \/ Cancelled(r)
    PROVE  WalkInv'
<1>1. adm[r] \in AdmissionRecords /\ adm \in [Requests -> AdmissionRecords]
      /\ events \in 0..MaxEvents
  BY DEF WalkInv, WalkType
<1>2. \A x \in AdmissionRecords :
         \A p \in {"governed", "refused", "failed", "cancelled"} :
            [x EXCEPT !.at = p] \in AdmissionRecords /\ [x EXCEPT !.at = p].at = p
  BY DEF AdmissionRecords
<1>3. ASSUME Governs(r) \/ Refuses(r) PROVE WalkInv'
  <2>1. PICK p \in {"governed", "refused"} : Ends(r, p)
    BY <1>3 DEF Governs, Refuses
  <2>2. Goes(r) /\ now' = now
    BY <1>3 DEF Governs, Refuses, Begin, vars
  <2>3. [Known(r) EXCEPT !.at = p] \in AdmissionRecords /\ [Known(r) EXCEPT !.at = p].at = p
    <3>1. Known(r) \in AdmissionRecords
      BY <2>2, KnownRecord
    <3> QED
      BY <1>2, <2>1, <3>1
  <2> DEFINE a == [Known(r) EXCEPT !.at = p]
  <2>4. /\ adm' = [adm EXCEPT ![r] = a] /\ reader' = [reader EXCEPT ![r] = NoRead]
        /\ UNCHANGED <<now, entries, flights, says, until, fault>>
        /\ events' \in 0..MaxEvents
    BY <1>1, <2>1, <2>2 DEF Ends, world
  <2>5. a \in AdmissionRecords /\ a.at # "new"
    BY <2>1, <2>3
  <2> HIDE DEF a
  <2> QED
    BY <2>4, <2>5, EndsStep
<1>4. ASSUME Fails(r) PROVE WalkInv'
  <2>1. adm' = [adm EXCEPT ![r] = [adm[r] EXCEPT !.at = "failed"]]
    BY <1>4 DEF Fails
  <2> QED
    BY <1>1, <1>2, <1>4, <2>1, EndsStep DEF Fails, vars, world
<1>5. ASSUME Cancelled(r) PROVE WalkInv'
  <2>1. adm' = [adm EXCEPT ![r] = [adm[r] EXCEPT !.at = "cancelled"]]
    BY <1>5 DEF Cancelled
  <2>2. events' \in 0..MaxEvents
    BY <1>1, <1>5, WalkConstants DEF Cancelled, Event
  <2> QED
    BY <1>1, <1>2, <1>5, <2>1, <2>2, EndsStep DEF Cancelled, vars
<1> QED
  BY <1>3, <1>4, <1>5

\* A step of one flight.
LEMMA FlightStep ==
    ASSUME WalkInv, NEW t \in Things, NEW f \in FlightRecords,
           flights' = [flights EXCEPT ![t] = f],
           UNCHANGED <<now, says, until, adm>>, events' \in 0..MaxEvents,
           fault' \in {fault, now},
           entries' \in [Caches -> Seq(CacheEntries)],
           \A c \in Caches : /\ OnePerKey(entries'[c]) /\ Len(entries'[c]) <= MaxEntries
                             /\ \A e \in Held(entries'[c]) :
                                   TrueSince(e.key, e.value, e.storedAt - Deadline),
           reader' \in [Requests -> ReaderRecords],
           \A r \in Requests : ReaderIsTrue(r, reader'[r], adm[r]),
           FlightIsTrue(t, f) \/ (fault' = now /\ f.at = "over" /\ ~f.answer.ok
                                  /\ now <= f.since + Deadline)
    PROVE  WalkInv'
<1> USE DEF WalkInv
<1>0. now \in Nat /\ fault \in Before..now /\ Before \in Int
  BY DEF WalkType, Before
<1>1. fault' \in Before..now /\ fault <= fault'
  BY <1>0 DEF Before
<1>2. WalkType'
  BY <1>1 DEF WalkType, CacheEntries, FlightRecords, ReaderRecords, AdmissionRecords
<1>3. \A u, answer, x : TrueSince(u, answer, x)' <=> TrueSince(u, answer, x)
  BY DEF TrueSince, SaidSince
<1>4. CachesAreTrue'
  <2> SUFFICES ASSUME NEW c \in Caches, NEW e \in Held(entries'[c])
               PROVE  TrueSince(e.key, e.value, e.storedAt - Deadline)'
    BY DEF CachesAreTrue, Caches, Held
  <2> QED
    BY <1>3
<1>5. FlightsAreTrue'
  <2> SUFFICES ASSUME NEW u \in Things PROVE FlightIsTrue(u, flights[u])'
    BY DEF FlightsAreTrue
  <2>1. CASE u = t
    <3>1. flights'[u] = f
      BY <2>1 DEF WalkType
    <3>2. CASE FlightIsTrue(t, f)
      BY <1>3, <2>1, <3>1, <3>2 DEF FlightIsTrue
    <3>3. CASE fault' = now /\ f.at = "over" /\ ~f.answer.ok /\ now <= f.since + Deadline
      BY <1>3, <2>1, <3>1, <3>3 DEF FlightIsTrue
    <3> QED
      BY <3>2, <3>3
  <2>2. CASE u # t
    <3>1. flights'[u] = flights[u] /\ FlightIsTrue(u, flights[u])
      BY <2>2 DEF WalkType, FlightsAreTrue
    <3> QED
      BY <1>3, <3>1 DEF FlightIsTrue
  <2> QED
    BY <2>1, <2>2
<1>6. ReadersAreTrue'
  <2> SUFFICES ASSUME NEW r \in Requests PROVE ReaderIsTrue(r, reader[r], adm[r])'
    BY DEF ReadersAreTrue
  <2>1. adm[r].since \in Int
    BY DEF WalkType, AdmissionRecords
  <2>2. fault >= adm[r].since => fault' >= adm[r].since
    BY <1>0, <1>1, <2>1
  <2> QED
    BY <1>3, <2>2 DEF ReaderIsTrue, WorkloadOf
<1> QED
  BY <1>2, <1>4, <1>5, <1>6

\* Facts about a flight and the readers of its key, used by each of its steps.
LEMMA FlightFacts ==
    ASSUME WalkInv
    PROVE  /\ now \in Nat /\ events \in 0..MaxEvents
           /\ entries \in [Caches -> Seq(CacheEntries)]
           /\ \A c \in Caches : /\ OnePerKey(entries[c]) /\ Len(entries[c]) <= MaxEntries
                                /\ \A e \in Held(entries[c]) :
                                      TrueSince(e.key, e.value, e.storedAt - Deadline)
           /\ reader \in [Requests -> ReaderRecords]
           /\ \A r \in Requests : ReaderIsTrue(r, reader[r], adm[r])
           /\ flights \in [Things -> FlightRecords]
           /\ \A t \in Things : FlightIsTrue(t, flights[t])
  BY DEF WalkInv, WalkType, CachesAreTrue, FlightsAreTrue, ReadersAreTrue

LEMMA LateStep ==
    ASSUME WalkInv, NEW r \in Requests, Late(r)
    PROVE  WalkInv'
<1>0. /\ now \in Nat /\ entries \in [Caches -> Seq(CacheEntries)]
      /\ \A x \in Caches : OnePerKey(entries[x]) /\ Len(entries[x]) <= MaxEntries
      /\ adm \in [Requests -> AdmissionRecords] /\ adm[r] \in AdmissionRecords
      /\ reader[r] \in ReaderRecords /\ ReaderIsTrue(r, reader[r], adm[r])
      /\ events \in 0..MaxEvents
  BY DEF WalkInv, WalkType, ReadersAreTrue
<1> DEFINE d == [reader[r] EXCEPT !.at = "back", !.answer = NoAnswer]
<1>1. reader' = [reader EXCEPT ![r] = d]
  BY DEF Late, Leave
<1>2. d \in ReaderRecords /\ d.at = "back" /\ d.answer = NoAnswer /\ d.of = reader[r].of
  <2>1. NoAnswer \in Answers
    BY WalkConstants
  <2> HIDE DEF NoAnswer
  <2> QED
    BY <1>0, <2>1 DEF ReaderRecords
<1> HIDE DEF d
<1>3. ReaderIsTrue(r, d, adm[r])
  BY <1>0, <1>2, WalkConstants DEF ReaderIsTrue, Late, Leave
<1>4. adm' = [adm EXCEPT ![r] = adm[r]]
  BY <1>0 DEF Late
<1> QED
  BY <1>0, <1>1, <1>2, <1>3, <1>4, AdmissionStep DEF Late, Leave, vars, world

LEMMA JoinStep ==
    ASSUME WalkInv, NEW r \in Requests, JoinFlight(r)
    PROVE  WalkInv'
<1> DEFINE t == reader[r].of
           d == [reader[r] EXCEPT !.at = "waiting"]
<1>0. /\ reader \in [Requests -> ReaderRecords] /\ reader[r] \in ReaderRecords
      /\ ReaderIsTrue(r, reader[r], adm[r]) /\ reader[r].at = "missed"
      /\ reader' = [reader EXCEPT ![r] = d]
  BY FlightFacts DEF JoinFlight, Join
<1>1. t \in Things
  BY <1>0, WalkConstants DEF ReaderIsTrue
<1>2. d \in ReaderRecords /\ d.at = "waiting" /\ d.of = t
  BY <1>0 DEF ReaderRecords
<1> HIDE DEF d
<1>3. /\ reader' \in [Requests -> ReaderRecords]
      /\ \A s \in Requests : ReaderIsTrue(s, reader'[s], adm[s])
  <2>1. ReaderIsTrue(r, d, adm[r])
    BY <1>0, <1>2 DEF ReaderIsTrue
  <2> QED
    BY <1>0, <1>2, <2>1, FlightFacts
<1>4. UNCHANGED <<now, says, until, adm, entries, fault, events>>
  BY DEF JoinFlight, Join, vars, world
<1>5. \E f \in FlightRecords : flights' = [flights EXCEPT ![t] = f] /\ FlightIsTrue(t, f)
  <2>1. CASE flights[t].at # "none"
    <3>1. flights' = flights
      BY <2>1 DEF JoinFlight, Join
    <3>2. flights' = [flights EXCEPT ![t] = flights[t]] /\ flights[t] \in FlightRecords
          /\ FlightIsTrue(t, flights[t])
      BY <1>1, <3>1, FlightFacts
    <3> QED
      BY <3>2
  <2>2. CASE flights[t].at = "none"
    <3> DEFINE f == [NoFlight EXCEPT !.at = "sent", !.since = now, !.leader = r]
    <3>1. flights' = [flights EXCEPT ![t] = f]
      BY <2>2 DEF JoinFlight, Join
    <3>2. now \in 0..now /\ now <= now + Deadline /\ NoFlight \in FlightRecords
      BY FlightFacts, WalkConstants, NoneRecords
    <3>3. f \in FlightRecords /\ f.at = "sent" /\ f.since = now
      <4> HIDE DEF NoFlight
      <4> QED
        BY <3>2 DEF FlightRecords
    <3> HIDE DEF f
    <3>4. FlightIsTrue(t, f)
      BY <3>2, <3>3 DEF FlightIsTrue
    <3> QED
      BY <3>1, <3>3, <3>4
  <2> QED
    BY <2>1, <2>2
<1>6. PICK f \in FlightRecords : flights' = [flights EXCEPT ![t] = f] /\ FlightIsTrue(t, f)
  BY <1>5
<1> HIDE DEF t
<1> QED
  BY <1>1, <1>3, <1>4, <1>6, FlightFacts, FlightStep

\* The API server reads the key: what it answers is so now.
LEMMA ReadStep ==
    ASSUME WalkInv, NEW t \in Things, Fetch(t), Read(t, Truth(t))
    PROVE  WalkInv'
<1> DEFINE v == Truth(t)
           f == [flights[t] EXCEPT !.at = "read", !.answer = [ok |-> TRUE, value |-> v]]
<1>0. /\ flights \in [Things -> FlightRecords] /\ flights[t] \in FlightRecords
      /\ FlightIsTrue(t, flights[t]) /\ flights[t].at = "sent"
  BY FlightFacts DEF Read
<1>1. flights' = [flights EXCEPT ![t] = f]
  BY <1>0 DEF Read
<1>2. /\ v \in Values
      /\ t \in Workloads => v.workload = says[t] /\ says[t] \in Annotations
  <2>1. Zero \in Values /\ (t \in Workloads => says[t] \in Annotations)
    BY WalkConstants DEF WalkInv, WalkType
  <2> HIDE DEF NotRead, Unread
  <2> QED
    BY <2>1 DEF Truth, Values
<1> HIDE DEF v
<1>3. [ok |-> TRUE, value |-> v] \in Answers
  BY <1>2 DEF Answers
<1>4. /\ f \in FlightRecords /\ f.at = "read" /\ f.since = flights[t].since
      /\ f.answer = [ok |-> TRUE, value |-> v]
  BY <1>0, <1>3 DEF FlightRecords
<1> HIDE DEF f
<1>5. FlightIsTrue(t, f)
  <2>1. TrueSince(t, f.answer, f.since)
    BY <1>2, <1>4 DEF TrueSince, SaidSince
  <2>2. f.answer.ok
    BY <1>4
  <2>3. now <= f.since + Deadline
    BY <1>0, <1>4 DEF FlightIsTrue
  <2> QED
    BY <1>4, <2>1, <2>2, <2>3 DEF FlightIsTrue
<1> QED
  BY <1>1, <1>4, <1>5, FlightFacts, FlightStep DEF Fetch, Read, vars, world

\* The answer is cached: it was true within Deadline of now.
LEMMA ArriveStep ==
    ASSUME WalkInv, NEW t \in Things, Fetch(t), Arrive(t, now)
    PROVE  WalkInv'
<1> DEFINE f == [flights[t] EXCEPT !.at = "over"]
           b == flights[t].answer
           c == entries[CacheOf[t]]
           n == Set(c, t, b, now, MaxEntries)
<1>0. /\ flights \in [Things -> FlightRecords] /\ flights[t] \in FlightRecords
      /\ FlightIsTrue(t, flights[t]) /\ flights[t].at = "read" /\ now \in Nat
  BY FlightFacts DEF Arrive
<1>1. /\ flights' = [flights EXCEPT ![t] = f]
      /\ entries' = [entries EXCEPT ![CacheOf[t]] = n]
      /\ UNCHANGED <<now, says, until, adm, reader, fault, events>>
  BY <1>0 DEF Arrive, Fetch, vars, world
<1>2. /\ b \in Answers /\ b.ok /\ flights[t].since \in 0..now
      /\ now <= flights[t].since + Deadline
      /\ TrueSince(t, b, flights[t].since)
  BY <1>0 DEF FlightIsTrue, FlightRecords
<1>3. f \in FlightRecords /\ f.at = "over" /\ f.answer = b /\ f.since = flights[t].since
  BY <1>0 DEF FlightRecords
<1> HIDE DEF b, f
<1>4. FlightIsTrue(t, f)
  BY <1>2, <1>3 DEF FlightIsTrue
<1>5. TrueSince(t, b, now - Deadline)
  <2>1. now - Deadline \in Int /\ flights[t].since \in Int /\ now - Deadline <= flights[t].since
    BY <1>0, <1>2, WalkConstants
  <2> QED
    BY <1>2, <2>1, TrueEarlier DEF WalkInv
<1>6. Entry(t, b, now) \in CacheEntries
  <2>1. now \in 0..now
    BY <1>0
  <2> QED
    BY <1>2, <2>1 DEF Entry, CacheEntries
<1>7. CacheOf[t] \in Caches /\ c \in Seq(CacheEntries) /\ OnePerKey(c)
      /\ MaxEntries \in Nat \ {0}
  BY WalkConstants, FlightFacts
<1>8. /\ n \in Seq(CacheEntries) /\ OnePerKey(n) /\ Len(n) <= MaxEntries
      /\ Held(n) \subseteq {Entry(t, b, now)} \cup {e \in Held(c) : e.key # t}
  BY <1>6, <1>7, SetHeld
<1> HIDE DEF n
<1>9. \A e \in Held(n) : TrueSince(e.key, e.value, e.storedAt - Deadline)
  <2>1. /\ Entry(t, b, now).key = t /\ Entry(t, b, now).value = b
        /\ Entry(t, b, now).storedAt = now
    BY DEF Entry
  <2>2. \A e \in Held(c) : TrueSince(e.key, e.value, e.storedAt - Deadline)
    BY <1>7, FlightFacts
  <2> QED
    BY <1>5, <1>8, <2>1, <2>2
<1>10. /\ entries' \in [Caches -> Seq(CacheEntries)]
       /\ \A x \in Caches : /\ OnePerKey(entries'[x]) /\ Len(entries'[x]) <= MaxEntries
                            /\ \A e \in Held(entries'[x]) :
                                  TrueSince(e.key, e.value, e.storedAt - Deadline)
  <2>1. \A x \in Caches : entries'[x] = IF x = CacheOf[t] THEN n ELSE entries[x]
    BY <1>1, FlightFacts
  <2> QED
    BY <1>1, <1>7, <1>8, <1>9, <2>1, FlightFacts
<1> QED
  BY <1>1, <1>3, <1>4, <1>10, FlightFacts, FlightStep

\* The flight retires: whoever waits gets what it brought.
LEMMA RetireStep ==
    ASSUME WalkInv, NEW t \in Things, Fetch(t), Retire(t)
    PROVE  WalkInv'
<1> DEFINE b == flights[t].answer
<1>0. /\ flights \in [Things -> FlightRecords] /\ flights[t] \in FlightRecords
      /\ FlightIsTrue(t, flights[t]) /\ flights[t].at = "over" /\ now \in Nat
      /\ reader \in [Requests -> ReaderRecords] /\ Readers = Requests
  BY FlightFacts, WalkConstants DEF Retire
<1>1. /\ flights' = [flights EXCEPT ![t] = NoFlight]
      /\ UNCHANGED <<now, says, until, adm, entries, fault, events>>
  BY DEF Retire, Fetch, vars, world
<1>2. b \in Answers /\ flights[t].since \in 0..now /\ now <= flights[t].since + Deadline
      /\ (b.ok => TrueSince(t, b, flights[t].since)) /\ (~b.ok => fault = now)
  BY <1>0 DEF FlightIsTrue, FlightRecords
<1> HIDE DEF b
<1>3. b.ok => TrueSince(t, b, now - (TTL + Deadline))
  <2>1. /\ now - (TTL + Deadline) \in Int /\ flights[t].since \in Int
        /\ now - (TTL + Deadline) <= flights[t].since
    BY <1>0, <1>2, WalkConstants
  <2> QED
    BY <1>2, <2>1, TrueEarlier DEF WalkInv
<1>4. ASSUME NEW r \in Requests
      PROVE  reader'[r] \in ReaderRecords /\ ReaderIsTrue(r, reader'[r], adm[r])
  <2>0. reader[r] \in ReaderRecords /\ ReaderIsTrue(r, reader[r], adm[r])
    BY FlightFacts
  <2>1. CASE r \in Waiting(t)
    <3> DEFINE d == [reader[r] EXCEPT !.at = "back", !.answer = b]
    <3>1. reader'[r] = d
      BY <1>0, <2>1 DEF Retire, b
    <3>2. reader[r].at = "waiting" /\ reader[r].of = t
      BY <2>1 DEF Waiting
    <3>3. d \in ReaderRecords /\ d.at = "back" /\ d.answer = b /\ d.of = t
      BY <1>2, <2>0, <3>2 DEF ReaderRecords
    <3> HIDE DEF d
    <3>4. ~b.ok => fault >= adm[r].since
      <4>1. adm[r].since \in 0..now
        BY DEF WalkInv, WalkType, AdmissionRecords
      <4> QED
        BY <1>0, <1>2, <4>1
    <3>5. adm[r].at = "walking" /\ t \in {RefOf[r], WorkloadOf(r)}
      BY <2>0, <3>2 DEF ReaderIsTrue
    <3>6. ReaderIsTrue(r, d, adm[r])
      BY <1>3, <3>3, <3>4, <3>5 DEF ReaderIsTrue
    <3> QED
      BY <3>1, <3>3, <3>6
  <2>2. CASE r \notin Waiting(t)
    <3>1. reader'[r] = reader[r]
      BY <1>0, <2>2 DEF Retire
    <3> QED
      BY <2>0, <3>1
  <2> QED
    BY <2>1, <2>2
<1>5. reader' \in [Requests -> ReaderRecords]
  <2>1. reader' = [r \in Requests |-> reader'[r]]
    BY <1>0 DEF Retire
  <2> QED
    BY <1>4, <2>1
<1>6. NoFlight \in FlightRecords /\ FlightIsTrue(t, NoFlight)
  BY <1>0, NoneRecords DEF FlightIsTrue
<1> QED
  BY <1>1, <1>4, <1>5, <1>6, FlightFacts, FlightStep

\* A fetch fails or times out: the fault is of this moment.
LEMMA FaultStep ==
    ASSUME WalkInv, NEW t \in Things, FetchFailed(t) \/ FetchLate(t)
    PROVE  WalkInv'
<1> DEFINE f == [flights[t] EXCEPT !.at = "over", !.answer = NoAnswer]
<1>0. /\ flights \in [Things -> FlightRecords] /\ flights[t] \in FlightRecords
      /\ FlightIsTrue(t, flights[t]) /\ Failed(t) /\ now \in Nat
      /\ events \in 0..MaxEvents
  BY FlightFacts DEF FetchFailed, FetchFails, FetchLate, FetchTimesOut
<1>1. /\ flights' = [flights EXCEPT ![t] = f] /\ Fetching(t)
      /\ UNCHANGED <<now, says, until, adm, entries, reader>>
  BY <1>0 DEF Failed, FetchFailed, FetchLate, vars
<1>2. events' \in 0..MaxEvents
  BY <1>0, WalkConstants DEF FetchFailed, FetchLate, Event
<1>3. flights[t].since \in 0..now /\ now <= flights[t].since + Deadline
  BY <1>0, <1>1 DEF Fetching, FlightIsTrue, FlightRecords
<1>4. fault' = now
  <2>1. CASE FetchFailed(t)
    BY <2>1 DEF FetchFailed
  <2>2. CASE FetchLate(t)
    <3>1. now >= flights[t].since + Deadline
      BY <2>2 DEF FetchLate, FetchTimesOut, Expired
    <3>2. now - flights[t].since >= Deadline
      BY <1>0, <1>3, <3>1, WalkConstants
    <3> QED
      BY <2>2, <3>2 DEF FetchLate
  <2> QED
    BY <2>1, <2>2
<1>5. f \in FlightRecords /\ f.at = "over" /\ ~f.answer.ok /\ f.since = flights[t].since
  <2>1. NoAnswer \in Answers /\ ~NoAnswer.ok
    BY WalkConstants
  <2> HIDE DEF NoAnswer
  <2> QED
    BY <1>0, <2>1 DEF FlightRecords
<1> HIDE DEF f
<1> QED
  BY <1>1, <1>2, <1>3, <1>4, <1>5, FlightFacts, FlightStep

\* A workload says something else: what was true until now was true now.
LEMMA AnnotateStep ==
    ASSUME WalkInv, NEW w \in Workloads, Annotate(w)
    PROVE  WalkInv'
<1> USE DEF WalkInv
<1>0. /\ now \in Nat /\ says \in [Workloads -> Annotations]
      /\ until \in [Workloads -> [Annotations -> Before..now]]
      /\ events \in 0..MaxEvents
  BY DEF WalkType
<1>1. PICK a \in Annotations \ {says[w]} : says' = [says EXCEPT ![w] = a]
  BY DEF Annotate
<1>2. /\ until' = [until EXCEPT ![w][says[w]] = now] /\ events' \in 0..MaxEvents
      /\ UNCHANGED <<now, entries, flights, reader, adm, fault>>
  BY <1>0, WalkConstants DEF Annotate, Event, vars, walk, rvars
<1>3. /\ says' \in [Workloads -> Annotations]
      /\ until' \in [Workloads -> [Annotations -> Before..now]]
  <2>1. now \in Before..now
    BY <1>0 DEF Before
  <2> QED
    BY <1>0, <1>1, <1>2, <2>1
<1>4. ASSUME NEW u \in Workloads, NEW v \in Annotations, NEW x \in Int, x <= now,
             SaidSince(u, v, x)
      PROVE  SaidSince(u, v, x)'
  <2>1. CASE u = w /\ v = says[w]
    <3>1. until'[u][v] = now
      BY <1>0, <1>2, <2>1
    <3> QED
      BY <1>0, <1>4, <3>1 DEF SaidSince, Before
  <2>2. CASE u # w
    <3>1. until'[u] = until[u] /\ says'[u] = says[u]
      BY <1>0, <1>1, <1>2, <2>2
    <3> QED
      BY <1>4, <3>1 DEF SaidSince
  <2>3. CASE u = w /\ v # says[w]
    <3>1. until'[u][v] = until[u][v]
      BY <1>0, <1>2, <2>3
    <3> QED
      BY <1>4, <2>3, <3>1 DEF SaidSince
  <2> QED
    BY <2>1, <2>2, <2>3
<1>5. ASSUME NEW t \in Things, NEW answer, NEW x \in Int, x <= now, TrueSince(t, answer, x)
      PROVE  TrueSince(t, answer, x)'
  BY <1>4, <1>5 DEF TrueSince
<1>6. WalkType'
  BY <1>2, <1>3 DEF WalkType, CacheEntries, FlightRecords, ReaderRecords, AdmissionRecords
<1>7. CachesAreTrue'
  <2> SUFFICES ASSUME NEW c \in Caches, NEW e \in Held(entries[c])
               PROVE  TrueSince(e.key, e.value, e.storedAt - Deadline)'
    BY <1>2 DEF CachesAreTrue, Caches, Held
  <2>1. e.key \in Things /\ e.storedAt \in 0..now
    <3>1. entries[c] \in Seq(CacheEntries)
      BY DEF WalkType
    <3>2. e \in CacheEntries
      BY <3>1 DEF Held
    <3> QED
      BY <3>2 DEF CacheEntries
  <2>2. e.storedAt - Deadline \in Int /\ e.storedAt - Deadline <= now
    BY <1>0, <2>1, WalkConstants
  <2> QED
    BY <1>5, <2>1, <2>2 DEF CachesAreTrue
<1>8. FlightsAreTrue'
  <2> SUFFICES ASSUME NEW t \in Things PROVE FlightIsTrue(t, flights[t])'
    BY DEF FlightsAreTrue
  <2>1. FlightIsTrue(t, flights[t]) /\ flights[t].since \in 0..now
    BY DEF FlightsAreTrue, WalkType, FlightRecords
  <2>2. flights[t].since \in Int /\ flights[t].since <= now
    BY <1>0, <2>1
  <2>3. TrueSince(t, flights[t].answer, flights[t].since) =>
           TrueSince(t, flights[t].answer, flights[t].since)'
    BY <1>2, <1>5, <2>2
  <2> QED
    BY <1>2, <2>1, <2>3 DEF FlightIsTrue
<1>9. ReadersAreTrue'
  <2> SUFFICES ASSUME NEW r \in Requests PROVE ReaderIsTrue(r, reader[r], adm[r])'
    BY DEF ReadersAreTrue
  <2> DEFINE x == now - (TTL + Deadline)
             d == reader[r]
  <2>1. ReaderIsTrue(r, d, adm[r])
    BY DEF ReadersAreTrue
  <2>2. x \in Int /\ x <= now
    BY <1>0, WalkConstants
  <2>3. d.at # "idle" => d.of \in Things
    BY <2>1, WalkConstants DEF ReaderIsTrue
  <2>4. d.at # "idle" /\ TrueSince(d.of, d.answer, x) => TrueSince(d.of, d.answer, x)'
    BY <1>2, <1>5, <2>2, <2>3
  <2> QED
    BY <1>2, <2>1, <2>4 DEF ReaderIsTrue, WorkloadOf
<1> QED
  BY <1>6, <1>7, <1>8, <1>9

\* Time goes on when no fetch is due and no reader has its answer.
LEMMA WaitStep ==
    ASSUME WalkInv, Wait
    PROVE  WalkInv'
<1> USE DEF WalkInv
<1>0. /\ now \in Nat /\ now' = now + 1 /\ now' \in Nat
      /\ UNCHANGED <<entries, flights, reader, adm, says, until, fault, events>>
  BY DEF WalkType, Wait, Tick, walk, rvars, world
<1>1. 0..now \subseteq 0..now' /\ Before..now \subseteq Before..now'
  BY <1>0 DEF Before
<1>2. WalkType'
  <2>1. CacheEntries \subseteq CacheEntries'
    BY <1>1 DEF CacheEntries
  <2>2. Seq(CacheEntries) \subseteq Seq(CacheEntries)'
    BY <2>1
  <2>3. entries' \in [Caches -> Seq(CacheEntries)']
    BY <1>0, <2>2 DEF WalkType
  <2>4. flights' \in [Things -> FlightRecords'] /\ adm' \in [Requests -> AdmissionRecords']
    <3>1. FlightRecords \subseteq FlightRecords' /\ AdmissionRecords \subseteq AdmissionRecords'
      BY <1>1 DEF FlightRecords, AdmissionRecords
    <3> QED
      BY <1>0, <3>1 DEF WalkType
  <2>5. until' \in [Workloads -> [Annotations -> Before..now']] /\ fault' \in Before..now'
    BY <1>0, <1>1 DEF WalkType
  <2>6. reader' \in [Requests -> ReaderRecords'] /\ says' \in [Workloads -> Annotations]
        /\ events' \in 0..MaxEvents
        /\ \A c \in Caches : OnePerKey(entries'[c]) /\ Len(entries'[c]) <= MaxEntries
    BY <1>0 DEF WalkType, ReaderRecords
  <2> QED
    BY <1>0, <2>3, <2>4, <2>5, <2>6 DEF WalkType
<1>3. \A t, answer, x : TrueSince(t, answer, x)' <=> TrueSince(t, answer, x)
  BY <1>0 DEF TrueSince, SaidSince
<1>4. CachesAreTrue'
  BY <1>0, <1>3 DEF CachesAreTrue
<1>5. FlightsAreTrue'
  <2> SUFFICES ASSUME NEW t \in Things PROVE FlightIsTrue(t, flights[t])'
    BY DEF FlightsAreTrue
  <2>1. /\ FlightIsTrue(t, flights[t]) /\ flights[t] \in FlightRecords
        /\ flights[t].at # "over" /\ (Fetching(t) => ~Expired(t, now))
    BY DEF FlightsAreTrue, WalkType, Wait, Rests
  <2>2. flights[t].at \in {"none", "sent", "read"} /\ flights[t].since \in 0..now
    BY <2>1 DEF FlightRecords
  <2>3. flights[t].at # "none" => now' <= flights[t].since + Deadline
    BY <1>0, <2>1, <2>2, WalkConstants DEF Fetching, Expired
  <2> QED
    BY <1>0, <1>3, <2>1, <2>2, <2>3 DEF FlightIsTrue
<1>6. ReadersAreTrue'
  <2> SUFFICES ASSUME NEW r \in Requests PROVE ReaderIsTrue(r, reader[r], adm[r])'
    BY DEF ReadersAreTrue
  <2>1. reader[r].at \in {"idle", "waiting"} /\ ReaderIsTrue(r, reader[r], adm[r])
    BY DEF ReadersAreTrue, Wait, Rests
  <2> QED
    BY <1>0, <2>1 DEF ReaderIsTrue, WorkloadOf
<1> QED
  BY <1>2, <1>4, <1>5, <1>6

\* Steps that leave the walks, the caches and the world alone.
LEMMA OtherStep ==
    ASSUME WalkInv, UNCHANGED <<now, walk, says, until, fault>>, events' \in 0..MaxEvents
    PROVE  WalkInv'
<1>1. UNCHANGED <<now, entries, flights, reader, adm, says, until, fault>>
  BY DEF walk, rvars
<1>2. WalkType'
  BY <1>1 DEF WalkInv, WalkType, CacheEntries, FlightRecords, ReaderRecords, AdmissionRecords
<1>3. \A t, answer, x : TrueSince(t, answer, x)' <=> TrueSince(t, answer, x)
  BY <1>1 DEF TrueSince, SaidSince
<1> QED
  BY <1>1, <1>2, <1>3 DEF WalkInv, CachesAreTrue, FlightsAreTrue, FlightIsTrue,
     ReadersAreTrue, ReaderIsTrue, WorkloadOf

LEMMA WalkStep == WalkInv /\ [ANext]_avars => WalkInv'
<1> SUFFICES ASSUME WalkInv, [ANext]_avars PROVE WalkInv'
  OBVIOUS
<1>0. events \in 0..MaxEvents
  BY DEF WalkInv, WalkType
<1>1. CASE \E r \in Requests : Walk(r)
  BY <1>1, ReadNextStep, EndStep, JoinStep, LateStep DEF Walk
<1>2. CASE \E t \in Things : Fetch(t) \/ FetchFailed(t) \/ FetchLate(t)
  <2>1. PICK t \in Things : Fetch(t) \/ FetchFailed(t) \/ FetchLate(t)
    BY <1>2
  <2>2. CASE Fetch(t)
    <3>1. Read(t, Truth(t)) \/ Arrive(t, now) \/ Retire(t)
      BY <2>2 DEF Fetch
    <3> QED
      BY <2>2, <3>1, ReadStep, ArriveStep, RetireStep
  <2> QED
    BY <2>1, <2>2, FaultStep
<1>3. CASE \E w \in Workloads : Annotate(w)
  BY <1>3, AnnotateStep
<1>4. CASE Stubs
  <2>1. UNCHANGED <<now, walk, says, until, fault, events>>
    BY <1>4 DEF Stubs, AcquireSlot, GiveUp, Write, Drained, DrainTimesOut, world
  <2> QED
    BY <1>0, <2>1, OtherStep
<1>5. CASE Shutdown
  <2>1. UNCHANGED <<now, walk, says, until, fault>>
    BY <1>5 DEF Shutdown, Stop
  <2>2. events' \in 0..MaxEvents
    BY <1>0, <1>5, WalkConstants DEF Shutdown, Event
  <2> QED
    BY <2>1, <2>2, OtherStep
<1>6. CASE UNCHANGED avars
  <2>1. UNCHANGED <<now, walk, says, until, fault, events>>
    BY <1>6 DEF avars, vars, world
  <2> QED
    BY <1>0, <2>1, OtherStep
<1> QED
  BY <1>1, <1>2, <1>3, <1>4, <1>5, <1>6, WaitStep DEF ANext

-----------------------------------------------------------------------------
\* The walks' invariant.
THEOREM WalkInvariant == ASpec => []WalkInv
  BY WalkInit, WalkStep, PTL DEF ASpec

\* Every variable keeps its type, the owner caches their size and the faults
\* and flights their time.
THEOREM AdmissionTypes == ASpec => []ATypeOK
<1>1. StubInv /\ WalkInv => ATypeOK
  <2> SUFFICES ASSUME StubInv, WalkInv PROVE ATypeOK
    OBVIOUS
  <2>1. TypeOK
    BY DEF StubInv
  <2>2. ASSUME NEW t \in Things
        PROVE  /\ flights[t].at \in {"none", "sent", "read", "over"}
               /\ flights[t].since \in 0..now
               /\ Len(Entries(t)) <= MaxEntries
    BY WalkConstants DEF WalkInv, WalkType, FlightRecords, Entries
  <2>3. ASSUME NEW r \in Requests
        PROVE  /\ reader[r].at \in {"idle", "missed", "waiting", "back"}
               /\ adm[r].at \in {"new", "walking", "refused", "failed", "cancelled",
                                "governed"}
               /\ adm[r].kind \in {Unread, Kind}
               /\ adm[r].workload \in Annotations \cup {NotRead}
    <3> HIDE DEF NotRead, Unread
    <3> QED
      BY DEF WalkInv, WalkType, ReaderRecords, AdmissionRecords
  <2> QED
    BY <2>1, <2>2, <2>3 DEF ATypeOK, WalkInv, WalkType
<1> QED
  BY <1>1, StubInvariant, WalkInvariant, PTL

\* An admission decides with annotations its workload carried within the TTL
\* and the fetch's deadline, whoever started the fetch and however its answer
\* got into the cache: for any number of admissions, workloads and cache
\* entries (Get, join, lead, ownerCaches).
THEOREM ReadsStayRecent == ASpec => ReadsAreRecent
<1>1. ASSUME WalkInv, [ANext]_avars, NEW r \in Requests,
             adm'[r].workload # adm[r].workload
      PROVE  \/ says[WorkloadOf(r)] = adm'[r].workload
             \/ /\ until[WorkloadOf(r)][adm'[r].workload] # Before
                /\ now - until[WorkloadOf(r)][adm'[r].workload] <= TTL + Deadline
  <2> DEFINE w == WorkloadOf(r)
             v == adm'[r].workload
  <2>0. /\ adm \in [Requests -> AdmissionRecords] /\ now \in Nat
        /\ until \in [Workloads -> [Annotations -> Before..now]]
    BY <1>1 DEF WalkInv, WalkType
  <2>1. Goes(r) /\ Known(r).workload # adm[r].workload /\ v = Known(r).workload
    <3>1. PICK s \in Requests : Walk(s)
      BY <1>1 DEF ANext, Fetch, FetchFailed, FetchLate, Annotate, Wait, Stubs, Shutdown,
         walk, avars
    <3>2. s = r
      BY <1>1, <2>0, <3>1 DEF Walk, ReadNext, Governs, Refuses, Ends, Fails, JoinFlight,
         Late, Cancelled
    <3>3. CASE ReadNext(r) \/ Governs(r) \/ Refuses(r)
      <4>1. Goes(r)
        BY <3>3 DEF ReadNext, Governs, Refuses
      <4>2. Known(r) \in AdmissionRecords
        BY <1>1, <4>1, KnownRecord
      <4>3. adm'[r].workload = Known(r).workload
        BY <2>0, <3>3, <4>2 DEF ReadNext, Governs, Refuses, Ends, AdmissionRecords
      <4> QED
        BY <1>1, <4>1, <4>3
    <3>4. CASE Fails(r) \/ JoinFlight(r) \/ Late(r) \/ Cancelled(r)
      <4>1. adm'[r].workload = adm[r].workload
        BY <2>0, <3>4 DEF Fails, JoinFlight, Late, Cancelled, AdmissionRecords
      <4> QED
        BY <1>1, <4>1
    <3> QED
      BY <3>1, <3>2, <3>3, <3>4 DEF Walk
  <2>2. /\ reader[r].at = "back" /\ reader[r].answer.ok /\ reader[r].of = w
        /\ v = reader[r].answer.value.workload
    BY <1>1, <2>1, KnownRecord
  <2>3. TrueSince(w, reader[r].answer, now - (TTL + Deadline))
    BY <1>1, <2>2 DEF WalkInv, ReadersAreTrue, ReaderIsTrue
  <2>4. w \in Workloads
    BY WalkConstants
  <2>5. v \in Annotations /\ SaidSince(w, v, now - (TTL + Deadline))
    BY <2>2, <2>3, <2>4 DEF TrueSince
  <2>6. until[w][v] \in Int
    BY <2>0, <2>4, <2>5 DEF Before
  <2> HIDE DEF w, v
  <2>7. \/ says[w] = v
        \/ until[w][v] # Before /\ now - until[w][v] <= TTL + Deadline
    BY <2>0, <2>5, <2>6, WalkConstants DEF SaidSince
  <2> QED
    BY <2>7 DEF w, v
<1>2. ASSUME WalkInv, [ANext]_avars
      PROVE  [\A r \in Requests :
                adm'[r].workload # adm[r].workload =>
                   \/ says[WorkloadOf(r)] = adm'[r].workload
                   \/ /\ until[WorkloadOf(r)][adm'[r].workload] # Before
                      /\ now - until[WorkloadOf(r)][adm'[r].workload] <= TTL + Deadline]_avars
  BY <1>1, <1>2
<1> QED
  BY <1>2, WalkInvariant, PTL DEF ASpec, ReadsAreRecent

\* Governance fails an admission only when its own time is up or, since it
\* came, a fetch failed of its own: no other admission's end and no earlier
\* error is ever the cause, for any number of them (Get, join, lead).
THEOREM EveryFailureHasCause == ASpec => FailsForCause
<1>1. ASSUME WalkInv, [ANext]_avars, NEW r \in Requests,
             adm[r].at # "failed", adm'[r].at = "failed"
      PROVE  \/ now >= adm[r].since + GovernanceTimeout
             \/ fault >= adm[r].since
  <2>0. adm \in [Requests -> AdmissionRecords]
    BY <1>1 DEF WalkInv, WalkType
  <2>1. PICK s \in Requests : Walk(s)
    BY <1>1 DEF ANext, Fetch, FetchFailed, FetchLate, Annotate, Wait, Stubs, Shutdown,
       walk, avars
  <2>2. s = r
    BY <1>1, <2>0, <2>1 DEF Walk, ReadNext, Governs, Refuses, Ends, Fails, JoinFlight,
       Late, Cancelled
  <2>3. ~(ReadNext(r) \/ Governs(r) \/ Refuses(r))
    <3> SUFFICES ASSUME ReadNext(r) \/ Governs(r) \/ Refuses(r) PROVE FALSE
      OBVIOUS
    <3>1. Goes(r)
      BY DEF ReadNext, Governs, Refuses
    <3>2. Known(r) \in AdmissionRecords /\ Known(r).at \in {"walking", adm[r].at}
      BY <1>1, <3>1, KnownRecord
    <3>3. adm'[r].at \in {Known(r).at, "governed", "refused"}
      BY <2>0, <3>2 DEF ReadNext, Governs, Refuses, Ends, AdmissionRecords
    <3> QED
      BY <1>1, <3>2, <3>3
  <2>4. ~(JoinFlight(r) \/ Late(r) \/ Cancelled(r))
    BY <1>1, <2>0 DEF JoinFlight, Late, Cancelled, AdmissionRecords
  <2>5. Fails(r)
    BY <2>1, <2>2, <2>3, <2>4 DEF Walk
  <2> QED
    BY <1>1, <2>5 DEF Fails, WalkInv, ReadersAreTrue, ReaderIsTrue
<1>2. ASSUME WalkInv, [ANext]_avars
      PROVE  [\A r \in Requests :
                adm[r].at # "failed" /\ adm'[r].at = "failed" =>
                   \/ now >= adm[r].since + GovernanceTimeout
                   \/ fault >= adm[r].since]_avars
  BY <1>1, <1>2
<1> QED
  BY <1>2, WalkInvariant, PTL DEF ASpec, FailsForCause
=============================================================================
