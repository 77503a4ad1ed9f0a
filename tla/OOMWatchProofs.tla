--------------------------- MODULE OOMWatchProofs ---------------------------
(***************************************************************************)
(* The safety of OOMWatch and of the sizes it leads to, for any pods,      *)
(* containers, configurations, limits and signals.                         *)
(***************************************************************************)
EXTENDS OOMWatch, FiniteSetTheorems, TLAPS

-----------------------------------------------------------------------------
(* The sizes *)

LEMMA Products ==
    ASSUME NEW a \in Nat, NEW b \in Nat
    PROVE  a * b \in Nat
  BY SMT

LEMMA Quotients ==
    ASSUME NEW a \in Nat, NEW b \in Nat \ {0}
    PROVE  a \div b \in Nat /\ CeilDiv(a, b) \in Nat
<1>1. \A c \in Nat : c \div b \in Nat
  BY SMT
<1>2. a + b - 1 \in Nat
  BY SMT
<1> QED
  BY <1>1, <1>2 DEF CeilDiv

LEMMA Extremes ==
    ASSUME NEW a \in Nat, NEW b \in Nat
    PROVE  Larger(a, b) \in Nat /\ Smaller(a, b) \in Nat /\ Larger(a, b) \in {a, b}
           /\ Larger(a, b) >= a /\ Larger(a, b) >= b
  BY DEF Larger, Smaller

LEMMA Values ==
    ASSUME NEW q \in Nat \cup {Nil}
    PROVE  Value(q) \in Nat /\ (q # Nil => q \in Nat)
  BY DEF Value, Nil, Unset

\* What the operator's bounds say of a request.
Between(q, cfgr) ==
    /\ cfgr.max # Nil => q <= cfgr.max
    /\ cfgr.min # Nil /\ (cfgr.max = Nil \/ cfgr.min <= cfgr.max) => q >= cfgr.min

LEMMA ClampBetween ==
    ASSUME NEW c \in Configs, NEW q \in Nat
    PROVE  /\ clamp(q, c.min, c.max) \in Nat
           /\ Between(clamp(q, c.min, c.max), c)
<1>1. c.min \in Nat \cup {Nil} /\ c.max \in Nat \cup {Nil}
  BY DEF Configs
<1> QED
  BY <1>1 DEF clamp, Between, Larger, Smaller, Nil

LEMMA HeadroomType ==
    ASSUME NEW r, NEW v \in Nat, NEW h \in Nat
    PROVE  withHeadroom(r, v, h) \in Nat
<1>1. v * (100 + h) \in Nat
  BY Products
<1>2. Mebibyte \in Nat \ {0} /\ 100 * Precision \in Nat \ {0}
  BY SizingAssumption
<1> DEFINE w == v * (100 + h)
<1> HIDE DEF w
<1>3. w \in Nat
  BY <1>1 DEF w
<1>4. CeilDiv(w, 100 * Precision) \in Nat
  BY <1>2, <1>3, Quotients
<1>5. w \div 100 \in Nat
  BY <1>3, Quotients
<1>6. CeilDiv(w \div 100, Mebibyte) \in Nat
  BY <1>2, <1>5, Quotients
<1>7. Larger(CeilDiv(w, 100 * Precision), 1) \in Nat
  BY <1>4, Extremes
<1>8. Larger(CeilDiv(w \div 100, Mebibyte), 1) * Mebibyte \in Nat
  BY <1>2, <1>6, Extremes, Products
<1> QED
  BY <1>7, <1>8 DEF withHeadroom, w

LEMMA OverheadType ==
    ASSUME NEW q \in Nat, NEW t \in Nat
    PROVE  applyOverhead(q, t) \in Nat
<1>1. t > 0 => Smaller(t, 99) \in Nat \ {0}
  BY DEF Smaller
<1>2. q * 110 \in Nat
  BY SMT
<1>3. t > 0 => CeilDiv(q * 110, Smaller(t, 99)) \in Nat
  BY <1>1, <1>2, Quotients
<1> QED
  BY <1>3 DEF applyOverhead

LEMMA CorrectionType ==
    ASSUME NEW q \in Nat, NEW a \in 0..100, NEW s \in Scalers
    PROVE  applyReplicaCorrection(q, a, s) \in Nat
<1> DEFINE t == TargetReplicas(a, s)
<1>1. s.min \in Nat /\ s.max \in Nat /\ s.current \in Nat
  BY DEF Scalers
<1>2. s.max > s.min => t \in Nat
  <2>1. s.max > s.min => s.max - s.min \in Nat
    BY <1>1
  <2>2. s.max > s.min => a * (s.max - s.min) \in Nat
    BY <2>1, Products
  <2>3. s.max > s.min => (s.min * 100 + a * (s.max - s.min)) * 2 + 100 \in Nat
    BY <1>1, <2>2
  <2> QED
    BY <2>3, Quotients DEF TargetReplicas
<1> HIDE DEF t
<1>3. q * s.current \in Nat
  BY <1>1, Products
<1>4. CeilDiv(q, 2) \in Nat /\ 2 * q \in Nat
  BY Quotients
<1>5. s.max > s.min /\ ~(t <= 0) => CeilDiv(q * s.current, t) \in Nat
  BY <1>2, <1>3, Quotients
<1> QED
  BY <1>1, <1>4, <1>5 DEF applyReplicaCorrection, t

\* Coordination keeps the operator's bounds.
LEMMA CoordinateBetween ==
    ASSUME NEW c \in Configs, NEW s \in Scalers, NEW q \in Nat, Between(q, c)
    PROVE  coordinate(q, c, s) \in Nat /\ Between(coordinate(q, c, s), c)
<1>1. applyOverhead(q, s.target) \in Nat
  BY OverheadType DEF Scalers
<1>2. c.anchor # Nil => c.anchor \in 0..100
  BY DEF Configs
<1>3. c.anchor # Nil => applyReplicaCorrection(applyOverhead(q, s.target), c.anchor, s) \in Nat
  BY <1>1, <1>2, CorrectionType
<1> QED
  BY <1>1, <1>3, ClampBetween DEF coordinate

LEMMA RequestBetween ==
    ASSUME NEW c \in Configs, NEW u \in Nat \cup {Nil}, NEW o \in OOMs, NEW s \in Scalers
    PROVE  Request(c, u, o, s) \in Nat /\ Between(Request(c, u, o, s), c)
<1>1. floor(o) \in Nat
  <2>1. o.limit \in Nat /\ o.peak \in Nat \cup {Nil}
    BY DEF OOMs
  <2>2. o.limit * 6 \in Nat
    BY <2>1
  <2>3. Bumped(o.limit) \in Nat
    BY <2>2, Quotients DEF Bumped
  <2> QED
    BY <2>1, <2>3, Values, Extremes DEF floor
<1>2. requestOf(c, u, o) \in Nat
  BY <1>1, Values, Extremes DEF requestOf
<1>3. withHeadroom(c.resource, requestOf(c, u, o), c.headroom) \in Nat
  BY <1>2, HeadroomType DEF Configs
<1> QED
  BY <1>3, ClampBetween, CoordinateBetween DEF Request

\* A derived limit: the container's own, one that is set, or none.
Derived(l, own) ==
    /\ l \in [set : BOOLEAN, value : Int, removed : BOOLEAN]
    /\ ~l.set /\ ~l.removed => l.value = IF own.lim = 0 THEN Nil ELSE own.lim
    /\ l.set => l.value # Nil

LEMMA ConvertedSet ==
    ASSUME NEW q \in Nat, NEW n \in Nat, NEW d \in Nat \ {0},
           NEW v \in scaleByRatio(q, n, d)
    PROVE  v \in Int /\ v # Nil
<1>1. CeilDiv(q * n, d) \in Nat
  BY Products, Quotients
<1>2. MaxInt \in Nat \ {0}
  BY SizingAssumption
<1> QED
  BY <1>1, <1>2 DEF scaleByRatio, Converted, Nil

LEMMA SettingDerived ==
    ASSUME NEW vs, NEW own, \A v \in vs : v \in Int /\ v # Nil, NEW l \in Setting(vs)
    PROVE  Derived(l, own)
<1>1. PICK v \in vs : l = [set |-> TRUE, value |-> v, removed |-> FALSE]
  BY DEF Setting
<1> QED
  BY <1>1 DEF Derived

LEMMA StrategyDerived ==
    ASSUME NEW c \in Configs, NEW q \in Nat, NEW own \in Requirements,
           NEW l \in Strategy(c, q, own)
    PROVE  Derived(l, own)
<1>1. own.lim \in Nat \cup {Nil} /\ own.req \in Nat \cup {Nil}
  BY DEF Requirements, Quantities, Unset, Nil
<1>2. Nil \in Int
  BY DEF Nil
<1>3. CASE l \in Keeping(own)
  <2>1. l = [set |-> FALSE, value |-> IF own.lim = 0 THEN Nil ELSE own.lim, removed |-> FALSE]
    BY <1>3 DEF Keeping
  <2>2. (IF own.lim = 0 THEN Nil ELSE own.lim) \in Int
    BY <1>1, <1>2
  <2> QED
    BY <2>1, <2>2 DEF Derived
<1>4. CASE l = [set |-> FALSE, value |-> Nil, removed |-> TRUE]
  BY <1>2, <1>4 DEF Derived
<1>5. CASE l \in Setting({q})
  BY <1>5, SettingDerived DEF Nil
<1>6. CASE l \in Setting(scaleByRatio(q, c.ratio.num, c.ratio.den))
  <2>1. c.ratio.num \in Nat /\ c.ratio.den \in Nat \ {0}
    BY DEF Configs
  <2> QED
    BY <1>6, <2>1, SettingDerived, ConvertedSet
<1>7. CASE /\ ~(Value(own.lim) = 0 \/ Value(own.req) = 0)
           /\ l \in Setting(scaleByRatio(q, own.lim, own.req))
  <2>1. own.lim \in Nat /\ own.req \in Nat \ {0}
    BY <1>1, <1>7 DEF Value, Unset, Nil
  <2> QED
    BY <1>7, <2>1, SettingDerived, ConvertedSet
<1>8. \/ l \in Keeping(own) \/ l = [set |-> FALSE, value |-> Nil, removed |-> TRUE]
      \/ l \in Setting({q}) \/ l \in Setting(scaleByRatio(q, c.ratio.num, c.ratio.den))
      \/ /\ ~(Value(own.lim) = 0 \/ Value(own.req) = 0)
         /\ l \in Setting(scaleByRatio(q, own.lim, own.req))
  BY DEF Strategy
<1> QED
  BY <1>3, <1>4, <1>5, <1>6, <1>7, <1>8

\* A recommendation that may be stored under a configuration.
Fit(c, r) == r \in Recommendations /\ InBounds(c, r) /\ LimitCovers(r, Template)

LEMMA NothingFits == \A c : Fit(c, Nothing)
  BY DEF Fit, Nothing, Recommendations, InBounds, LimitCovers, Nil

\* The limit chain never leaves a limit below the request.
LEMMA LimitsCover ==
    ASSUME NEW c \in Configs, NEW q \in Nat, Between(q, c), NEW l \in Limits(c, q, Template)
    PROVE  Fit(c, Recommendation(q, l))
<1>0. Template \in Requirements
  BY OOMAssumption
<1>1. PICK m \in Strategy(c, q, Template) : l = guard(m, q)
  BY DEF Limits
<1>2. Derived(m, Template)
  BY <1>0, StrategyDerived
<1>3. Template.lim \in Nat \cup {Nil}
  BY <1>0 DEF Requirements, Quantities, Unset, Nil
<1> DEFINE r == Recommendation(q, l)
<1>4. r = [req |-> q, lim |-> IF l.set THEN l.value ELSE Nil, remove |-> ~l.set /\ l.removed]
  BY DEF Recommendation
<1>5. CASE m.value # Nil /\ m.value < q
  <2>1. l = [set |-> TRUE, value |-> q, removed |-> FALSE]
    BY <1>1, <1>5 DEF guard
  <2>2. r = [req |-> q, lim |-> q, remove |-> FALSE]
    BY <1>4, <2>1
  <2>3. r \in Recommendations
    BY <2>2 DEF Recommendations
  <2>4. InBounds(c, r)
    BY <2>2 DEF InBounds, Between
  <2>5. LimitCovers(r, Template)
    BY <2>2 DEF LimitCovers, Nil
  <2> QED
    BY <2>3, <2>4, <2>5 DEF Fit
<1>6. CASE ~(m.value # Nil /\ m.value < q)
  <2>1. l = m
    BY <1>1, <1>6 DEF guard
  <2> DEFINE v == IF m.set THEN m.value ELSE Nil
  <2>2. r = [req |-> q, lim |-> v, remove |-> ~m.set /\ m.removed]
    BY <1>4, <2>1
  <2>3. m.value \in Int /\ m.set \in BOOLEAN /\ m.removed \in BOOLEAN
    BY <1>2 DEF Derived
  <2>4. v \in Nat \cup {Nil} /\ (v # Nil => v >= q)
    BY <1>6, <2>3 DEF Nil
  <2>5. v = Nil => \/ ~m.set /\ m.removed
                   \/ Value(Template.lim) = 0 \/ Template.lim >= q
    BY <1>2, <1>3, <1>6, <2>3 DEF Derived, Value, Unset, Nil
  <2> HIDE DEF v, r
  <2>6. r.req = q /\ r.lim = v /\ r.remove = (~m.set /\ m.removed)
    BY <2>2
  <2>7. r \in Recommendations
    BY <2>2, <2>4, <2>3 DEF Recommendations
  <2>8. InBounds(c, r)
    BY <2>6 DEF InBounds, Between
  <2>9. LimitCovers(r, Template)
    BY <2>4, <2>5, <2>6 DEF LimitCovers, Nil
  <2> QED
    BY <2>7, <2>8, <2>9 DEF Fit, r
<1> QED
  BY <1>5, <1>6

\* Whatever size may recommend keeps the bounds and covers its request.
LEMMA SizedFits ==
    ASSUME NEW c \in Configs, NEW u \in Nat \cup {Nil}, NEW o \in OOMs, NEW s \in Scalers,
           NEW r \in Sized(c, u, o, s, Template)
    PROVE  Fit(c, r)
<1>1. CASE r = Nothing
  BY <1>1, NothingFits
<1>2. CASE r # Nothing
  <2> DEFINE q == Request(c, u, o, s)
  <2>1. PICK l \in Limits(c, q, Template) : r = Recommendation(q, l)
    BY <1>2 DEF Sized
  <2>2. q \in Nat /\ Between(q, c)
    BY RequestBetween
  <2> QED
    BY <2>1, <2>2, LimitsCover
<1> QED
  BY <1>1, <1>2

\* Whatever is applied, a container's requirements keep their type.
LEMMA AppliedType ==
    ASSUME NEW c \in Requirements, NEW r \in Recommendations
    PROVE  Applied(c, r) \in Requirements
<1>1. c.req \in Quantities /\ c.lim \in Quantities /\ r.req \in Nat \cup {Nil}
      /\ r.lim \in Nat \cup {Nil}
  BY DEF Requirements, Recommendations
<1>2. NewRequest(c, r) \in Quantities
  BY <1>1 DEF NewRequest, setQuantity, Quantities, Nil, Unset
<1>3. applyLimit(c.lim, r.lim, r.remove) \in Quantities
  BY <1>1 DEF applyLimit, setQuantity, Quantities, Nil, Unset
<1>4. NewLimit(c, r) \in Quantities
  BY <1>2, <1>3 DEF NewLimit, Guarded
<1> QED
  BY <1>2, <1>4 DEF Applied, Requirements

-----------------------------------------------------------------------------
(* The inductive invariant *)

Kills == [rc : Nat, at : Nat]

PodRecords == [up : BOOLEAN, spec : [Keys -> Requirements], applied : [Keys -> Requirements],
               kill : [Keys -> Kills]]

Works == [step : {"idle", "deciding", "recording"}, kills : [Keys -> Kills],
          limits : [Keys -> Nat], fresh : SUBSET Keys, todo : SUBSET Keys, at : Nat]

Readers == [step : {"idle", "fetched", "computed"}, id : Ids \cup {""}, at : Nat,
            usage : Nat \cup {Nil}, seen : OOMs, young : BOOLEAN,
            out : [Keys -> Recommendations], stale : SUBSET Keys]

Types ==
    /\ now \in Nat /\ events \in 0..MaxEvents /\ cfg \in Policies /\ owner \in Owners
    /\ pods \in [Pods -> PodRecords] /\ work \in [Pods -> Works]
    /\ queued \subseteq Pods /\ due \in [Pods -> Nat \cup {Never}]
    /\ entries \in [Keys -> Entries] /\ marks \subseteq [kill : KillIds, at : Nat]
    /\ reader \in Readers /\ rec \in [Keys -> Recommendations]

\* What is stored, and what a pass is about to store.
Sizes == \A k \in Keys : Fit(cfg, rec[k]) /\ Fit(cfg, reader.out[k])

LEMMA Constants ==
    /\ TTL \in Nat \ {0} /\ minOwnerRetry \in Nat \ {0} /\ MaxEntries \in Nat \ {0}
    /\ MaxEvents \in Nat /\ Reads \subseteq Ids /\ Owners \subseteq [Pods -> Ids]
    /\ Template \in Requirements /\ Policies \subseteq Configs /\ Scaler \in Scalers
    /\ Usages \subseteq Nat \cup {Nil} /\ Rules \subseteq OOMs /\ IsFiniteSet(Keys)
    /\ \A k, l \in Keys : k.id = l.id /\ k.container = l.container => k = l
  BY OOMAssumption

LEMMA NoneTyped ==
    /\ NoKill \in Kills /\ Absent \in Entries /\ Nothing \in Recommendations
    /\ Free \in Works /\ Free.todo = {} /\ Free.step = "idle"
    /\ \A k \in Keys : Free.limits[k] = 0
<1>1. NoKill \in Kills /\ Absent \in Entries /\ Nothing \in Recommendations
  BY DEF NoKill, Kills, Absent, Entries, Nothing, Recommendations, Nil
<1> QED
  BY <1>1 DEF Free, Works

LEMMA NoPassTyped ==
    NoPass \in Readers /\ NoPass.out = [k \in Keys |-> Nothing] /\ NoPass.step = "idle"
<1>1. [kills |-> 0, peak |-> Nil, limit |-> 0, live |-> FALSE] \in OOMs
  BY DEF OOMs
<1>2. [k \in Keys |-> Nothing] \in [Keys -> Recommendations]
  BY NoneTyped
<1> QED
  BY <1>1, <1>2 DEF NoPass, Readers

LEMMA TypesInit == Init => Types /\ Sizes
<1> SUFFICES ASSUME Init PROVE Types /\ Sizes
  OBVIOUS
<1> USE DEF Init
<1>1. now \in Nat /\ events \in 0..MaxEvents
  BY Constants DEF Since
<1>2. [up |-> TRUE, spec |-> [k \in Keys |-> Template], applied |-> [k \in Keys |-> Template],
       kill |-> [k \in Keys |-> NoKill]] \in PodRecords
  BY Constants, NoneTyped DEF PodRecords
<1>3. pods \in [Pods -> PodRecords] /\ work \in [Pods -> Works]
  BY <1>2, NoneTyped
<1>4. due \in [Pods -> Nat \cup {Never}] /\ entries \in [Keys -> Entries]
      /\ rec \in [Keys -> Recommendations] /\ reader \in Readers
  BY NoneTyped, NoPassTyped
<1>5. Sizes
  BY NothingFits, NoPassTyped DEF Sizes
<1> QED
  BY <1>1, <1>3, <1>4, <1>5 DEF Types

LEMMA EventBound ==
    ASSUME NEW what, events \in 0..MaxEvents, Event(what)
    PROVE  events' \in 0..MaxEvents
  BY Constants DEF Event

\* A reading's OOM signals.
LEMMA OOMOfType ==
    ASSUME Types, NEW k \in Keys
    PROVE  OOMOf(k) \in OOMs
<1>1. reader.seen \in OOMs /\ entries[k].limit \in Nat
  BY DEF Types, Readers, Entries
<1>2. Larger(reader.seen.limit, entries[k].limit) \in Nat
  BY <1>1, Extremes DEF OOMs
<1>3. [reader.seen EXCEPT !.live = TRUE,
          !.limit = Larger(reader.seen.limit, entries[k].limit)] \in OOMs
  BY <1>1, <1>2 DEF OOMs
<1> QED
  BY <1>1, <1>3 DEF OOMOf

LEMMA RecommendedFits ==
    ASSUME Types, Sizes, NEW young, NEW out \in [Keys -> Recommendations],
           \A k \in Keys : Fit(cfg, out[k])
    PROVE  /\ Recommended(young, out) \in [Keys -> Recommendations]
           /\ \A k \in Keys : Fit(cfg, Recommended(young, out)[k])
  BY DEF Types, Sizes, Recommended

\* The steps of a pass.
LEMMA PassTypes ==
    ASSUME Types, Sizes,
           Compute \/ Publish \/ \E i \in Reads : Assemble(i)
    PROVE  /\ reader' \in Readers /\ rec' \in [Keys -> Recommendations]
           /\ Sizes'
<1> USE NoPassTyped, NothingFits
<1>0. cfg' = cfg /\ cfg \in Configs
  BY Constants DEF Types, Compute, Publish, Assemble, setting
<1>1. CASE Compute
  <2> DEFINE ks == {k \in Keys : k.id = reader.id}
             old == {k \in ks \cap Held : Aged(entries[k].observed, now)}
  <2>1. PICK out : /\ DOMAIN out = Keys /\ out = [k \in Keys |-> out[k]]
                   /\ \A k \in Keys : out[k] \in
                        IF k \in ks THEN Sized(cfg, reader.usage, OOMOf(k), Scaler, Template)
                        ELSE {Nothing}
                   /\ \/ rec' = Recommended(tooYoung(ks), out) /\ reader' = NoPass
                      \/ /\ reader' = [NoPass EXCEPT !.step = "computed", !.id = reader.id,
                                         !.young = tooYoung(ks), !.out = out,
                                         !.at = now, !.stale = old]
                         /\ rec' = rec
    BY <1>1 DEF Compute
  <2>2. \A k \in Keys : Fit(cfg, out[k])
    <3> TAKE k \in Keys
    <3>1. reader.usage \in Nat \cup {Nil} /\ Scaler \in Scalers
      BY Constants DEF Types, Readers
    <3> QED
      BY <1>0, <2>1, <3>1, OOMOfType, SizedFits
  <2>3. out \in [Keys -> Recommendations]
    BY <2>1, <2>2 DEF Fit
  <2>4. CASE rec' = Recommended(tooYoung(ks), out) /\ reader' = NoPass
    BY <1>0, <2>2, <2>3, <2>4, RecommendedFits DEF Sizes
  <2>5. CASE reader' = [NoPass EXCEPT !.step = "computed", !.id = reader.id,
                           !.young = tooYoung(ks), !.out = out, !.at = now, !.stale = old]
             /\ rec' = rec
    <3>1. tooYoung(ks) \in BOOLEAN /\ old \subseteq Keys /\ now \in Nat
          /\ reader.id \in Ids \cup {""}
      BY DEF tooYoung, Types, Readers
    <3> HIDE DEF ks, old
    <3>2. reader' \in Readers /\ reader'.out = out
      BY <2>3, <2>5, <3>1 DEF Readers
    <3> QED
      BY <1>0, <2>2, <2>5, <3>2 DEF Types, Sizes
  <2> QED
    BY <2>1, <2>4, <2>5
<1>2. CASE Publish
  <2>1. reader' = NoPass /\ rec' = Recommended(reader.young, reader.out)
    BY <1>2 DEF Publish
  <2>2. reader.out \in [Keys -> Recommendations]
    BY DEF Types, Readers
  <2> QED
    BY <1>0, <2>1, <2>2, RecommendedFits DEF Sizes
<1>3. ASSUME NEW i \in Reads, Assemble(i)
      PROVE  reader' \in Readers /\ rec' \in [Keys -> Recommendations] /\ Sizes'
  <2>1. PICK usage \in Usages, seen \in Rules :
          reader' = [NoPass EXCEPT !.step = "fetched", !.id = i, !.at = now,
                                   !.usage = usage, !.seen = seen]
    BY <1>3 DEF Assemble
  <2>2. i \in Ids /\ usage \in Nat \cup {Nil} /\ seen \in OOMs /\ now \in Nat
    BY Constants DEF Types
  <2>3. reader' \in Readers /\ reader'.out = NoPass.out
    BY <2>1, <2>2 DEF Readers
  <2>4. rec' = rec
    BY <1>3 DEF Assemble
  <2> QED
    BY <1>0, <2>3, <2>4 DEF Types, Sizes
<1> QED
  BY <1>1, <1>2, <1>3

LEMMA MergedFields ==
    ASSUME NEW new \in Entries, NEW old \in Entries
    PROVE  /\ merged(new, old) \in Entries
           /\ merged(new, old).limit = Larger(new.limit, old.limit)
           /\ merged(new, old).observed = Larger(new.observed, old.observed)
<1> DEFINE base == IF newerThan(new, old) THEN new ELSE old
<1>1. base \in Entries
  OBVIOUS
<1>2. Larger(new.limit, old.limit) \in Nat /\ Larger(new.observed, old.observed) \in Nat
  BY Extremes DEF Entries
<1> HIDE DEF base
<1> QED
  BY <1>1, <1>2 DEF merged, base, Entries

\* The kills that a reconcile carries, and their records.
LEMMA CarriedType ==
    ASSUME Types, NEW p \in Pods, NEW k \in Keys
    PROVE  /\ Carried(p, k) \in KillIds /\ Carried(p, k).pod = p /\ Carried(p, k).key = k
           /\ Carried(p, k).at = work[p].kills[k].at
           /\ NewRecord(p, k) \in Entries /\ NewRecord(p, k).limit = work[p].limits[k]
           /\ NewRecord(p, k).at = work[p].kills[k].at /\ NewRecord(p, k).observed = work[p].at
<1>1. work[p] \in Works
  BY DEF Types
<1>2. work[p].kills[k] \in Kills /\ work[p].limits[k] \in Nat /\ work[p].at \in Nat
  BY <1>1 DEF Works
<1>3. work[p].kills[k].rc \in Nat /\ work[p].kills[k].at \in Nat
  BY <1>2 DEF Kills
<1> QED
  BY <1>2, <1>3 DEF Carried, Kill, KillIds, NewRecord, Entries

\* What the pods do leaves the watcher alone but for its queue.
LEMMA HappeningKeeps ==
    ASSUME NEW p \in Pods, Happening(p)
    PROVE  UNCHANGED <<now, due, work, entries, index, marks, reader, rec, told, settled, shed>>
<1> USE DEF cache, history
<1>1. CASE Ask(p)
  BY <1>1 DEF Ask
<1>2. CASE Touch(p) \/ Delete(p)
  BY <1>2 DEF Touch, Delete, loop
<1>3. ASSUME NEW k \in Keys, Killed(p, k)
      PROVE  UNCHANGED <<now, due, work, entries, index, marks, reader, rec, told, settled, shed>>
  BY <1>3 DEF Killed
<1>4. ASSUME NEW k \in Keys, Enact(p, k)
      PROVE  UNCHANGED <<now, due, work, entries, index, marks, reader, rec, told, settled, shed>>
  BY <1>4 DEF Enact
<1> QED
  BY <1>1, <1>2, <1>3, <1>4 DEF Happening

\* Nor do the clock, the sweep and the passes reach a reconcile.
LEMMA OthersKeep ==
    ASSUME UNCHANGED vars \/ Tick \/ Sweep \/ Compute \/ Publish \/ \E i \in Reads : Assemble(i)
    PROVE  UNCHANGED <<work, told, shed>>
  BY DEF vars, Tick, Sweep, Compute, Publish, Assemble, loop, history

\* What a step makes of a reconcile.
Began(p) ==
    [step |-> "deciding", kills |-> pods[p].kill,
     limits |-> [k \in Keys |-> IF k \in Shown(p) THEN containerMemLimitBytes(pods[p], k) ELSE 0],
     fresh |-> Unresolved(p), todo |-> Shown(p), at |-> 0]

BecameRecording(p) == [work[p] EXCEPT !.step = "recording", !.at = now]

Fewer(p, k) == [work[p] EXCEPT !.todo = @ \ {k}]

LEMMA WorkStep ==
    ASSUME Types, [Next]_vars, NEW p \in Pods
    PROVE  \/ work'[p] = work[p]
           \/ work'[p] = Free
           \/ Begin(p) /\ work'[p] = Began(p)
           \/ Governed(p) /\ work'[p] = BecameRecording(p)
           \/ \E k \in work[p].todo : Recording(p, k) /\ work'[p] = Fewer(p, k)
<1>0. work \in [Pods -> Works]
  BY DEF Types
<1>1. CASE UNCHANGED vars \/ Tick \/ Sweep \/ Compute \/ Publish \/ (\E i \in Reads : Assemble(i))
           \/ \E q \in Pods : Happening(q)
  BY <1>1, HappeningKeeps, OthersKeep
<1>a. CASE \E q \in Pods : BeginNothing(q) \/ Fire(q)
  BY <1>a DEF BeginNothing, Fire
<1>2. CASE Restart
  BY <1>2 DEF Restart
<1>3. CASE \E q \in Pods : Fails(q)
  BY <1>0, <1>3 DEF Fails, OwnerUnresolved, DecideFails, Ungoverned, Done
<1>4. CASE \E q \in Pods : Begin(q)
  BY <1>0, <1>4 DEF Begin, Began
<1>5. CASE \E q \in Pods : Governed(q)
  BY <1>0, <1>5 DEF Governed, BecameRecording
<1>6. CASE \E q \in Pods, k \in Keys : Recording(q, k)
  BY <1>0, <1>6 DEF Recording, Done, Fewer
<1>7. CASE \E q \in Pods : Reconcile(q)
  <2>1. \E q \in Pods : \/ BeginNothing(q) \/ Fire(q) \/ Begin(q) \/ Governed(q)
                         \/ \E k \in Keys : Recording(q, k)
    <3>1. \A q \in Pods, k \in Keys : RecordAgain(q, k) \/ Record(q, k) => Recording(q, k)
      BY DEF RecordAgain, Record
    <3> QED
      BY <1>7, <3>1 DEF Reconcile
  <2> QED
    BY <1>a, <1>4, <1>5, <1>6, <2>1
<1> QED
  BY <1>1, <1>2, <1>3, <1>7 DEF Next

LEMMA BeganType ==
    ASSUME Types, NEW p \in Pods
    PROVE  Began(p) \in Works /\ \A k \in Keys : Began(p).limits[k] \in
                                    {0, Value(pods[p].applied[k].lim)}
<1>1. pods[p] \in PodRecords
  BY DEF Types
<1>2. pods[p].kill \in [Keys -> Kills] /\ pods[p].applied \in [Keys -> Requirements]
  BY <1>1 DEF PodRecords
<1>3. \A k \in Keys : containerMemLimitBytes(pods[p], k) \in Nat
  BY <1>2 DEF containerMemLimitBytes, Value, Requirements, Quantities, Unset
<1>4. Shown(p) \subseteq Keys /\ Unresolved(p) \subseteq Keys
  BY DEF Shown, Unresolved
<1>5. Began(p) \in Works
  BY <1>2, <1>3, <1>4 DEF Began, Works
<1>6. \A k \in Keys : Began(p).limits[k] \in {0, Value(pods[p].applied[k].lim)}
  BY DEF Began, containerMemLimitBytes
<1> QED
  BY <1>5, <1>6

LEMMA WorkType ==
    ASSUME Types, [Next]_vars
    PROVE  work' \in [Pods -> Works]
<1>1. ASSUME NEW p \in Pods PROVE work'[p] \in Works
  <2>1. work[p] \in Works /\ now \in Nat
    BY DEF Types
  <2>2. BecameRecording(p) \in Works /\ \A k : Fewer(p, k) \in Works
    BY <2>1 DEF BecameRecording, Fewer, Works
  <2> QED
    BY <2>1, <2>2, WorkStep, BeganType, NoneTyped
<1>2. work' = [p \in Pods |-> work'[p]]
  <2>1. work = [p \in Pods |-> work[p]]
    BY DEF Types
  <2>2. CASE work' = work
    BY <2>1, <2>2
  <2>3. CASE Restart
    BY <2>3 DEF Restart
  <2>4. CASE \E q \in Pods : Fails(q)
    BY <2>1, <2>4 DEF Fails, OwnerUnresolved, DecideFails, Ungoverned, Done
  <2>5. CASE \E q \in Pods : BeginNothing(q) \/ Begin(q) \/ Governed(q) \/ Fire(q)
    BY <2>1, <2>5 DEF BeginNothing, Begin, Governed, Fire
  <2>6. ASSUME NEW q \in Pods, NEW k \in Keys, RecordAgain(q, k) \/ Record(q, k)
        PROVE  work' = [p \in Pods |-> work'[p]]
    <3>1. Recording(q, k)
      BY <2>6 DEF RecordAgain, Record
    <3> QED
      BY <2>1, <3>1 DEF Recording, Done
  <2> QED
    BY <2>2, <2>3, <2>4, <2>5, <2>6, HappeningKeeps, OthersKeep DEF Next, Reconcile
<1> QED
  BY <1>1, <1>2

LEMMA MarkTypes ==
    ASSUME Types, NEW p \in Pods, MarkResolved(Resolves(p))
    PROVE  marks' \subseteq [kill : KillIds, at : Nat]
<1>1. work[p].todo \subseteq Keys /\ now \in Nat
  BY DEF Types, Works
<1>2. Resolves(p) \subseteq KillIds
  BY <1>1, CarriedType DEF Resolves
<1> HIDE DEF Resolves
<1> QED
  BY <1>1, <1>2 DEF MarkResolved, Kept, Types

LEMMA RecordTypes ==
    ASSUME Types, NEW p \in Pods, NEW k \in Keys, Record(p, k) \/ RecordAgain(p, k)
    PROVE  entries' \in [Keys -> Entries]
<1>1. entries \in [Keys -> Entries] /\ entries[k] \in Entries /\ work[p].limits[k] \in Nat
  BY DEF Types, Works
<1>2. CASE Record(p, k)
  <2>1. PICK evicted : entries' = [x \in Keys |->
              IF x = k THEN IF entries[k] = Absent THEN NewRecord(p, k)
                            ELSE merged(NewRecord(p, k), entries[k])
              ELSE IF x \in evicted THEN Absent ELSE entries[x]]
    BY <1>2 DEF Record
  <2>2. NewRecord(p, k) \in Entries
    BY CarriedType
  <2> QED
    BY <1>1, <2>1, <2>2, MergedFields, NoneTyped
<1>3. CASE RecordAgain(p, k)
  <2> DEFINE higher == Larger(entries[k].limit, work[p].limits[k])
  <2>1. higher \in Nat
    BY <1>1, Extremes DEF Entries
  <2>2. entries' = [entries EXCEPT ![k].limit = higher]
    BY <1>3 DEF RecordAgain
  <2> HIDE DEF higher
  <2> QED
    BY <1>1, <2>1, <2>2 DEF Entries
<1> QED
  BY <1>2, <1>3

LEMMA RetryType ==
    ASSUME now \in Nat, NEW kill \in Kills
    PROVE  ownerRetryAfter(kill) \in Nat
<1>1. kill.at \in Nat
  BY DEF Kills
<1> QED
  BY <1>1, Constants DEF ownerRetryAfter, Expired, Larger, Smaller

LEMMA ReconcileTypes ==
    ASSUME Types, Sizes, NEW p \in Pods, Reconcile(p) \/ Fails(p), work' \in [Pods -> Works]
    PROVE  Types' /\ Sizes'
<1> USE DEF setting, cache, loop, history
<1>1. CASE BeginNothing(p) \/ Begin(p) \/ Fire(p)
  BY <1>1 DEF BeginNothing, Begin, Fire, Types, Sizes
<1>2. CASE Governed(p)
  BY <1>2, MarkTypes DEF Governed, Types, Sizes
<1>3. ASSUME NEW k \in Keys, RecordAgain(p, k) \/ Record(p, k) PROVE Types' /\ Sizes'
  <2>1. entries' \in [Keys -> Entries]
    BY <1>3, RecordTypes
  <2> QED
    BY <1>3, <2>1 DEF RecordAgain, Record, Types, Sizes
<1>4. CASE OwnerUnresolved(p)
  <2>1. PICK k \in work[p].fresh :
           due' = LET retry == ownerRetryAfter(work[p].kills[k])
                  IN  IF retry = 0 \/ due[p] \in 0..(now + retry) THEN due
                      ELSE [due EXCEPT ![p] = now + retry]
    BY <1>4 DEF OwnerUnresolved
  <2>2. work[p].kills[k] \in Kills /\ now \in Nat
    BY DEF Types, Works
  <2>3. ownerRetryAfter(work[p].kills[k]) \in Nat
    BY <2>2, RetryType
  <2>4. now + ownerRetryAfter(work[p].kills[k]) \in Nat
    BY <2>2, <2>3
  <2>5. due' \in [Pods -> Nat \cup {Never}]
    BY <2>1, <2>4 DEF Types
  <2>6. events' \in 0..MaxEvents
    BY <1>4, EventBound DEF OwnerUnresolved, Types
  <2> QED
    BY <1>4, <2>5, <2>6 DEF OwnerUnresolved, Types, Sizes
<1>5. CASE DecideFails(p)
  <2>1. events' \in 0..MaxEvents
    BY <1>5, EventBound DEF DecideFails, Types
  <2> QED
    BY <1>5, <2>1 DEF DecideFails, Types, Sizes
<1>6. CASE Ungoverned(p)
  <2>1. events' \in 0..MaxEvents
    BY <1>6, EventBound DEF Ungoverned, Types
  <2> QED
    BY <1>6, <2>1, MarkTypes DEF Ungoverned, Types, Sizes
<1> QED
  BY <1>1, <1>2, <1>3, <1>4, <1>5, <1>6 DEF Reconcile, Fails

LEMMA PodTypes ==
    ASSUME Types, Sizes, NEW p \in Pods, Happening(p)
    PROVE  Types' /\ Sizes'
<1> USE DEF setting, cache, loop, history
<1>0. pods[p] \in PodRecords /\ now \in Nat /\ \A k \in Keys : rec[k] \in Recommendations
  BY DEF Types
<1>1. Enqueue(p) => queued' \subseteq Pods
  BY DEF Enqueue, Types
<1>2. ASSUME NEW k \in Keys, Killed(p, k) PROVE Types' /\ Sizes'
  <2> DEFINE kill == [rc |-> pods[p].kill[k].rc + 1, at |-> IF <<p, k>> \in Undated THEN 0 ELSE now]
  <2>1. pods' = [pods EXCEPT ![p].kill[k] = kill] /\ events' \in 0..MaxEvents
    BY <1>2, EventBound DEF Killed, Types
  <2>2. kill \in Kills
    BY <1>0 DEF PodRecords, Kills
  <2> HIDE DEF kill
  <2>3. pods' \in [Pods -> PodRecords]
    BY <1>0, <2>1, <2>2 DEF Types, PodRecords
  <2> QED
    BY <1>1, <1>2, <2>1, <2>3 DEF Killed, Types, Sizes
<1>3. CASE Ask(p)
  <2>1. Asked(p) \in [Keys -> Requirements]
    BY <1>0, AppliedType DEF Asked, PodRecords
  <2>2. pods' = [pods EXCEPT ![p].spec = Asked(p)] /\ events' \in 0..MaxEvents
    BY <1>3, EventBound DEF Ask, Types
  <2> HIDE DEF Asked
  <2>3. pods' \in [Pods -> PodRecords]
    BY <1>0, <2>1, <2>2 DEF Types, PodRecords
  <2> QED
    BY <1>1, <1>3, <2>2, <2>3 DEF Ask, Types, Sizes
<1>4. ASSUME NEW k \in Keys, Enact(p, k) PROVE Types' /\ Sizes'
  <2>1. pods' \in [Pods -> PodRecords]
    BY <1>0, <1>4 DEF Enact, Types, PodRecords
  <2> QED
    BY <1>1, <1>4, <2>1 DEF Enact, Types, Sizes
<1>5. CASE Touch(p)
  <2>1. events' \in 0..MaxEvents
    BY <1>5, EventBound DEF Touch, Types
  <2> QED
    BY <1>5, <2>1 DEF Touch, Types, Sizes
<1>6. CASE Delete(p)
  <2>1. events' \in 0..MaxEvents
    BY <1>6, EventBound DEF Delete, Types
  <2>2. pods' \in [Pods -> PodRecords]
    BY <1>0, <1>6 DEF Delete, Types, PodRecords
  <2> QED
    BY <1>6, <2>1, <2>2 DEF Delete, Types, Sizes
<1> QED
  BY <1>2, <1>3, <1>4, <1>5, <1>6 DEF Happening

LEMMA TypesStep == Types /\ Sizes /\ [Next]_vars => Types' /\ Sizes'
<1> SUFFICES ASSUME Types, Sizes, [Next]_vars PROVE Types' /\ Sizes'
  OBVIOUS
<1> USE DEF setting, cache, loop, history
<1>1. CASE UNCHANGED vars
  BY <1>1 DEF vars, Types, Sizes
<1>2. CASE Tick
  BY <1>2 DEF Tick, Types, Sizes
<1>3. CASE Sweep
  BY <1>3, NoneTyped DEF Sweep, Types, Sizes
<1>4. CASE Restart
  <2>1. events' \in 0..MaxEvents
    BY <1>4, EventBound DEF Restart, Types
  <2>2. entries' \in [Keys -> Entries] /\ work' \in [Pods -> Works]
        /\ due' \in [Pods -> Nat \cup {Never}] /\ reader' = NoPass
        /\ queued' \subseteq Pods /\ marks' = {}
    BY <1>4, NoneTyped DEF Restart
  <2> QED
    BY <1>4, <2>1, <2>2, NoPassTyped, NothingFits DEF Restart, Types, Sizes
<1>5. CASE Compute \/ Publish \/ \E i \in Reads : Assemble(i)
  <2>1. entries' \in [Keys -> Entries]
    BY <1>5, NoneTyped DEF Compute, Publish, Assemble, Types
  <2>2. events' \in 0..MaxEvents
    BY <1>5, EventBound DEF Compute, Publish, Assemble, Types
  <2> QED
    BY <1>5, <2>1, <2>2, PassTypes DEF Compute, Publish, Assemble, Types
<1>6. CASE \E p \in Pods : Reconcile(p) \/ Fails(p) \/ Happening(p)
  BY <1>6, ReconcileTypes, PodTypes, WorkType
<1> QED
  BY <1>1, <1>2, <1>3, <1>4, <1>5, <1>6 DEF Next

LEMMA NowGrows ==
    ASSUME Types, [Next]_vars
    PROVE  now \in Nat /\ now' \in Nat /\ now' >= now
<1>1. now \in Nat
  BY DEF Types
<1>2. CASE Tick
  BY <1>1, <1>2 DEF Tick
<1>3. CASE UNCHANGED vars \/ Sweep \/ Restart \/ Compute \/ Publish
           \/ \E i \in Reads : Assemble(i)
  <2>1. now' = now
    BY <1>3 DEF vars, Sweep, Restart, Compute, Publish, Assemble
  <2> QED
    BY <1>1, <2>1
<1>4. CASE \E p \in Pods : Reconcile(p) \/ Happening(p) \/ Fails(p)
  <2>1. PICK p \in Pods : Reconcile(p) \/ Happening(p) \/ Fails(p)
    BY <1>4
  <2>2. now' = now
    BY <2>1 DEF Happening, Fails, OwnerUnresolved, DecideFails, Ungoverned, Killed, Ask, Enact,
           Touch, Delete, Reconcile, BeginNothing, Begin, Governed, RecordAgain, Record, Fire
  <2> QED
    BY <1>1, <2>2
<1> QED
  BY <1>2, <1>3, <1>4 DEF Next

\* The clock started, and records are made as of an instant that has passed.
Clock == /\ now >= Since
         /\ \A p \in Pods : work[p].step = "recording" => work[p].at >= Since /\ work[p].at <= now

LEMMA ClockInit == Init => Clock
  BY NoneTyped DEF Init, Clock, Since

LEMMA ClockStep == Types /\ Clock /\ [Next]_vars => Clock'
<1> SUFFICES ASSUME Types, Clock, [Next]_vars PROVE Clock'
  OBVIOUS
<1>1. now \in Nat /\ now' \in Nat /\ now' >= now
  BY NowGrows
<1>2. ASSUME NEW p \in Pods, work'[p].step = "recording"
      PROVE  work'[p].at >= Since /\ work'[p].at <= now'
  <2>1. work[p] \in Works /\ work[p].at \in Nat
    BY DEF Types, Works
  <2>2. CASE work'[p] = work[p]
    BY <1>1, <1>2, <2>1, <2>2 DEF Clock, Since
  <2>3. CASE work'[p] = Free \/ work'[p] = Began(p)
    BY <1>2, <2>3, NoneTyped DEF Began
  <2>4. CASE work'[p] = BecameRecording(p)
    <3>1. work'[p].at = now
      BY <2>1, <2>4 DEF BecameRecording, Works
    <3> QED
      BY <1>1, <3>1 DEF Clock
  <2>5. CASE \E k \in work[p].todo : Recording(p, k) /\ work'[p] = Fewer(p, k)
    <3>1. work'[p].at = work[p].at /\ work[p].step = "recording"
      BY <2>1, <2>5 DEF Fewer, Works, Recording
    <3> QED
      BY <1>1, <2>1, <3>1 DEF Clock, Since
  <2> QED
    BY <2>2, <2>3, <2>4, <2>5, WorkStep
<1> QED
  BY <1>1, <1>2 DEF Clock, Since

-----------------------------------------------------------------------------
(* The cache *)

IndexOf(held) == [i \in Ids |-> {k.container : k \in {x \in held : x.id = i}}]

CacheOK ==
    /\ IsFiniteSet(Held) /\ Cardinality(Held) <= MaxEntries
    /\ index = IndexOf(Held)
    /\ IsFiniteSet(marks) /\ Cardinality(marks) <= MaxEntries

LEMMA IndexedHeld ==
    ASSUME NEW added \in SUBSET Keys, NEW gone \in SUBSET Keys, added \cap gone = {},
           index = IndexOf(Held)
    PROVE  Indexed(added, gone) = IndexOf((Held \cup added) \ gone)
<1> DEFINE before(i) == {k.container : k \in {x \in Held : x.id = i}}
           with(i) == {k.container : k \in {x \in added : x.id = i}}
           without(i) == {k.container : k \in {x \in gone : x.id = i}}
           after(i) == {k.container : k \in {x \in (Held \cup added) \ gone : x.id = i}}
<1>1. ASSUME NEW i \in Ids
      PROVE  (index[i] \cup with(i)) \ without(i) = after(i)
  <2>1. index[i] = before(i)
    BY DEF IndexOf
  <2>2. Held \subseteq Keys
    BY DEF Held
  <2>3. \A k, l \in Keys : k.id = l.id /\ k.container = l.container => k = l
    BY Constants
  <2>4. (before(i) \cup with(i)) \ without(i) \subseteq after(i)
    OBVIOUS
  <2>5. after(i) \subseteq before(i) \cup with(i)
    OBVIOUS
  <2>6. \A c \in after(i) : c \notin without(i)
    <3> SUFFICES ASSUME NEW c \in after(i), c \in without(i) PROVE FALSE
      OBVIOUS
    <3>1. PICK k \in (Held \cup added) \ gone : k.id = i /\ c = k.container
      OBVIOUS
    <3>2. PICK l \in gone : l.id = i /\ c = l.container
      OBVIOUS
    <3> QED
      BY <2>2, <2>3, <3>1, <3>2
  <2> HIDE DEF before, with, without, after
  <2> QED
    BY <2>1, <2>4, <2>5, <2>6
<1> QED
  BY <1>1 DEF Indexed, IndexOf

LEMMA GrowsByOne ==
    ASSUME NEW S, IsFiniteSet(S), NEW x
    PROVE  IsFiniteSet(S \cup {x}) /\ Cardinality(S \cup {x}) <= Cardinality(S) + 1
<1>1. Cardinality(S) \in Nat
  BY FS_CardinalityType
<1> QED
  BY <1>1, FS_AddElement

LEMMA ShrinksByOne ==
    ASSUME NEW S, IsFiniteSet(S), NEW o \in S, NEW T \in SUBSET (S \ {o})
    PROVE  IsFiniteSet(T) /\ Cardinality(T) <= Cardinality(S) - 1
<1>1. IsFiniteSet(S \ {o}) /\ Cardinality(S \ {o}) = Cardinality(S) - 1
  BY FS_RemoveElement
<1>2. IsFiniteSet(T) /\ Cardinality(T) <= Cardinality(S \ {o})
  BY <1>1, FS_Subset
<1> QED
  BY <1>1, <1>2

\* Deleting entries.
LEMMA DropCache ==
    ASSUME CacheOK, NEW gone \in SUBSET Held,
           entries' = [k \in Keys |-> IF k \in gone THEN Absent ELSE entries[k]],
           index' = Indexed({}, gone)
    PROVE  /\ IsFiniteSet(Held') /\ Cardinality(Held') <= MaxEntries
           /\ index' = IndexOf(Held')
<1>1. Held' = Held \ gone /\ Held \subseteq Keys
  BY DEF Held
<1>2. index' = IndexOf((Held \cup {}) \ gone)
  BY <1>1, IndexedHeld DEF CacheOK
<1>3. (Held \cup {}) \ gone = Held \ gone
  OBVIOUS
<1>4. IsFiniteSet(Held \ gone) /\ Cardinality(Held \ gone) <= Cardinality(Held)
  BY FS_Subset DEF CacheOK
<1>5. Cardinality(Held) \in Nat /\ Cardinality(Held \ gone) \in Nat /\ MaxEntries \in Nat
  BY <1>4, Constants, FS_CardinalityType DEF CacheOK
<1> QED
  BY <1>1, <1>2, <1>3, <1>4, <1>5 DEF CacheOK

\* Marking a reconcile's kills.
LEMMA MarkCache ==
    ASSUME Types, CacheOK, NEW p \in Pods, MarkResolved(Resolves(p))
    PROVE  IsFiniteSet(marks') /\ Cardinality(marks') <= MaxEntries
<1> DEFINE kills == Resolves(p)
           old == {m \in marks : m.kill \notin kills}
           marked == {[kill |-> c, at |-> now] : c \in kills}
           todo == work[p].todo
           f == [k \in todo |-> [kill |-> Carried(p, k), at |-> now]]
<1>1. PICK rest \in Kept(old \cup marked) : marks' = rest
  BY DEF MarkResolved
<1>2. IsFiniteSet(old)
  BY FS_Subset DEF CacheOK
<1>3. IsFiniteSet(todo)
  <2>1. todo \subseteq Keys /\ IsFiniteSet(Keys)
    BY Constants DEF Types, Works
  <2> QED
    BY <2>1, FS_Subset
<1>4. f \in Surjection(todo, marked)
  <2>1. f \in [todo -> marked]
    BY DEF Resolves
  <2>2. \A m \in marked : \E k \in todo : f[k] = m
    BY DEF Resolves
  <2> HIDE DEF f, marked, todo
  <2> QED
    BY <2>1, <2>2 DEF Surjection
<1> HIDE DEF kills, old, marked, todo, f
<1>5. IsFiniteSet(marked)
  BY <1>3, <1>4, FS_Surjection
<1>6. IsFiniteSet(old \cup marked)
  BY <1>2, <1>5, FS_Union
<1>7. Cardinality(old \cup marked) \in Nat /\ MaxEntries \in Nat
  BY <1>6, Constants, FS_CardinalityType
<1>8. rest \subseteq old \cup marked
      /\ Cardinality(rest) = Smaller(Cardinality(old \cup marked), MaxEntries)
  BY DEF Kept
<1>9. IsFiniteSet(rest)
  BY <1>6, <1>8, FS_Subset
<1> QED
  BY <1>1, <1>7, <1>8, <1>9 DEF Smaller

\* Recording a kill.
LEMMA RecordCache ==
    ASSUME Types, Clock, CacheOK, NEW p \in Pods, NEW k \in Keys, Record(p, k)
    PROVE  /\ IsFiniteSet(Held') /\ Cardinality(Held') <= MaxEntries
           /\ index' = IndexOf(Held')
<1> DEFINE new == NewRecord(p, k)
           stored == IF entries[k] = Absent THEN new ELSE merged(new, entries[k])
<1>1. PICK evicted \in Evicts(k) :
          /\ entries' = [x \in Keys |-> IF x = k THEN stored
                                        ELSE IF x \in evicted THEN Absent ELSE entries[x]]
          /\ index' = Indexed({k}, evicted)
  BY DEF Record
<1> DEFINE at == work[p].at
<1>2. new \in Entries /\ entries[k] \in Entries /\ new.observed = at
      /\ at \in Nat /\ Held \subseteq Keys
  BY CarriedType DEF Types, Works, Held
<1>3. stored \in Entries /\ stored.observed >= at
  <2>1. merged(new, entries[k]) \in Entries
        /\ merged(new, entries[k]).observed = Larger(at, entries[k].observed)
    BY <1>2, MergedFields
  <2>2. Larger(at, entries[k].observed) >= at
    BY <1>2, Extremes DEF Entries
  <2> HIDE DEF new
  <2> QED
    BY <1>2, <2>1, <2>2
<1>4. stored # Absent
  <2>1. Absent.observed = 0 /\ at >= 1 /\ stored.observed \in Nat
    BY <1>3 DEF Absent, Clock, Since, Entries, Record, Recording
  <2> QED
    BY <1>2, <1>3, <2>1
<1> HIDE DEF stored, new
<1>5. k \notin evicted /\ evicted \subseteq Held
  BY <1>1 DEF Evicts, Held
<1>6. Held' = (Held \cup {k}) \ evicted
  <2>1. \A x \in Keys : entries'[x] # Absent <=>
          x = k \/ (x \notin evicted /\ entries[x] # Absent)
    BY <1>1, <1>4
  <2> QED
    BY <1>2, <1>5, <2>1 DEF Held
<1>7. index' = IndexOf(Held')
  BY <1>1, <1>2, <1>5, <1>6, IndexedHeld DEF CacheOK
<1>8. IsFiniteSet(Held) /\ Cardinality(Held) \in Nat /\ MaxEntries \in Nat
      /\ Cardinality(Held) <= MaxEntries
  BY Constants, FS_CardinalityType DEF CacheOK
<1>9. IsFiniteSet(Held') /\ Cardinality(Held') <= MaxEntries
  <2>1. CASE entries[k] # Absent
    <3>1. evicted = {} /\ k \in Held
      BY <1>1, <1>2, <2>1 DEF Evicts, Held
    <3>2. Held' = Held
      BY <1>6, <3>1
    <3> QED
      BY <1>8, <3>2
  <2>2. CASE entries[k] = Absent /\ Cardinality(Held) < MaxEntries
    <3>1. Held' = Held \cup {k}
      BY <1>1, <1>6, <2>2 DEF Evicts
    <3>2. IsFiniteSet(Held \cup {k}) /\ Cardinality(Held \cup {k}) <= Cardinality(Held) + 1
      BY <1>8, GrowsByOne
    <3>3. Cardinality(Held \cup {k}) \in Nat
      BY <3>2, FS_CardinalityType
    <3> QED
      BY <1>8, <2>2, <3>1, <3>2, <3>3
  <2>3. CASE entries[k] = Absent /\ ~(Cardinality(Held) < MaxEntries)
    <3>1. PICK o \in Held : evicted = {o}
      BY <1>1, <2>3 DEF Evicts
    <3>2. Held' = (Held \ {o}) \cup {k}
      BY <1>5, <1>6, <3>1
    <3>3. IsFiniteSet(Held \ {o}) /\ Cardinality(Held \ {o}) <= Cardinality(Held) - 1
      BY <1>8, ShrinksByOne
    <3>4. IsFiniteSet((Held \ {o}) \cup {k})
          /\ Cardinality((Held \ {o}) \cup {k}) <= Cardinality(Held \ {o}) + 1
      BY <3>3, GrowsByOne
    <3>5. Cardinality((Held \ {o}) \cup {k}) \in Nat /\ Cardinality(Held \ {o}) \in Nat
      BY <3>3, <3>4, FS_CardinalityType
    <3> QED
      BY <1>8, <3>2, <3>3, <3>4, <3>5
  <2> QED
    BY <2>1, <2>2, <2>3
<1> QED
  BY <1>7, <1>9

\* Raising an entry's limit.
LEMMA RecordAgainCache ==
    ASSUME Types, CacheOK, NEW p \in Pods, NEW k \in Keys, RecordAgain(p, k)
    PROVE  Held' = Held
<1> DEFINE higher == Larger(entries[k].limit, work[p].limits[k])
<1>1. work[p].limits[k] \in Nat /\ entries \in [Keys -> Entries]
  BY DEF Types, Works
<1>2. entries[k] \in Entries /\ entries[k] # Absent /\ entries[k].limit \in Nat
  BY <1>1 DEF RecordAgain, Same, Entries
<1>3. higher \in Nat /\ higher >= entries[k].limit
  BY <1>1, <1>2, Extremes
<1>4. entries' = [entries EXCEPT ![k].limit = higher]
  BY DEF RecordAgain
<1> HIDE DEF higher
<1>5. entries'[k] # Absent
  <2>1. entries'[k] = [entries[k] EXCEPT !.limit = higher]
    BY <1>1, <1>4
  <2>2. entries'[k] = Absent => entries[k] = Absent
    BY <1>2, <1>3, <2>1 DEF Entries, Absent
  <2> QED
    BY <1>2, <2>2
<1>6. \A x \in Keys : entries'[x] # Absent <=> entries[x] # Absent
  BY <1>1, <1>2, <1>4, <1>5
<1> QED
  BY <1>6 DEF Held

LEMMA CacheInit == Init => CacheOK
<1> SUFFICES ASSUME Init PROVE CacheOK
  OBVIOUS
<1>1. Held = {} /\ marks = {}
  BY DEF Init, Held
<1>2. index = IndexOf(Held)
  BY <1>1 DEF Init, IndexOf
<1> QED
  BY <1>1, <1>2, FS_EmptySet, Constants DEF CacheOK

LEMMA CacheStep == Types /\ Clock /\ CacheOK /\ [Next]_vars => CacheOK'
<1> SUFFICES ASSUME Types, Clock, CacheOK, [Next]_vars PROVE CacheOK'
  OBVIOUS
<1> USE DEF setting, loop
<1>1. ASSUME UNCHANGED cache PROVE CacheOK'
  BY <1>1 DEF CacheOK, cache, Held
<1>2. CASE UNCHANGED vars
  BY <1>1, <1>2 DEF vars
<1>3. CASE Tick
  BY <1>1, <1>3 DEF Tick
<1>4. CASE Sweep
  <2> DEFINE gone == Droppable(Keys, now)
  <2>1. gone \subseteq Held
    BY DEF Droppable
  <2>2. marks' \subseteq marks
        /\ entries' = [k \in Keys |-> IF k \in gone THEN Absent ELSE entries[k]]
        /\ index' = Indexed({}, gone)
    BY <1>4 DEF Sweep
  <2> HIDE DEF gone
  <2>3. /\ IsFiniteSet(Held') /\ Cardinality(Held') <= MaxEntries
        /\ index' = IndexOf(Held')
    BY <2>1, <2>2, DropCache
  <2>4. IsFiniteSet(marks') /\ Cardinality(marks') <= Cardinality(marks)
    BY <2>2, FS_Subset DEF CacheOK
  <2>5. Cardinality(marks) \in Nat /\ Cardinality(marks') \in Nat /\ MaxEntries \in Nat
    BY <2>4, Constants, FS_CardinalityType DEF CacheOK
  <2> QED
    BY <2>2, <2>3, <2>4, <2>5 DEF CacheOK
<1>5. CASE Restart
  <2>1. Held' = {} /\ marks' = {}
    BY <1>5 DEF Restart, Held
  <2>2. index' = IndexOf(Held')
    BY <1>5, <2>1 DEF Restart, IndexOf
  <2> QED
    BY <2>1, <2>2, FS_EmptySet, Constants DEF CacheOK
<1>6. CASE Compute
  BY <1>1, <1>6 DEF Compute
<1>7. CASE Publish
  <2> DEFINE gone == Droppable(reader.stale, reader.at)
  <2>1. gone \subseteq Held
    BY DEF Droppable
  <2>2. marks' = marks
        /\ entries' = [k \in Keys |-> IF k \in gone THEN Absent ELSE entries[k]]
        /\ index' = Indexed({}, gone)
    BY <1>7 DEF Publish
  <2> HIDE DEF gone
  <2>3. /\ IsFiniteSet(Held') /\ Cardinality(Held') <= MaxEntries
        /\ index' = IndexOf(Held')
    BY <2>1, <2>2, DropCache
  <2> QED
    BY <2>2, <2>3 DEF CacheOK
<1>8. ASSUME NEW i \in Reads, Assemble(i) PROVE CacheOK'
  BY <1>1, <1>8 DEF Assemble
<1>9. ASSUME NEW p \in Pods, Reconcile(p) PROVE CacheOK'
  <2>1. CASE BeginNothing(p) \/ Begin(p) \/ Fire(p)
    BY <1>1, <2>1 DEF BeginNothing, Begin, Fire
  <2>2. CASE Governed(p)
    <3>1. IsFiniteSet(marks') /\ Cardinality(marks') <= MaxEntries
      BY <2>2, MarkCache DEF Governed
    <3>2. Held' = Held
      BY <2>2 DEF Governed, Held
    <3> QED
      BY <2>2, <3>1, <3>2 DEF Governed, CacheOK
  <2>3. ASSUME NEW k \in Keys, RecordAgain(p, k) PROVE CacheOK'
    <3>1. Held' = Held
      BY <2>3, RecordAgainCache
    <3> QED
      BY <2>3, <3>1 DEF RecordAgain, CacheOK
  <2>4. ASSUME NEW k \in Keys, Record(p, k) PROVE CacheOK'
    BY <2>4, RecordCache DEF Record, CacheOK
  <2> QED
    BY <1>9, <2>1, <2>2, <2>3, <2>4 DEF Reconcile
<1>10. ASSUME NEW p \in Pods, Fails(p) PROVE CacheOK'
  <2>1. CASE OwnerUnresolved(p) \/ DecideFails(p)
    BY <1>1, <2>1 DEF OwnerUnresolved, DecideFails
  <2>2. CASE Ungoverned(p)
    <3>1. IsFiniteSet(marks') /\ Cardinality(marks') <= MaxEntries
      BY <2>2, MarkCache DEF Ungoverned
    <3>2. Held' = Held
      BY <2>2 DEF Ungoverned, Held
    <3> QED
      BY <2>2, <3>1, <3>2 DEF Ungoverned, CacheOK
  <2> QED
    BY <1>10, <2>1, <2>2 DEF Fails
<1>11. ASSUME NEW p \in Pods, Happening(p) PROVE CacheOK'
  BY <1>1, <1>11 DEF Happening, Killed, Ask, Enact, Touch, Delete
<1> QED
  BY <1>2, <1>3, <1>4, <1>5, <1>6, <1>7, <1>8, <1>9, <1>10, <1>11 DEF Next

-----------------------------------------------------------------------------
(* The anchors *)

\* Every limit that is applied, held by a reconcile or kept by an entry is one
\* that its container ran with, or none.
Anchors ==
    /\ ran \in [Keys -> SUBSET Nat]
    /\ \A p \in Pods, k \in Keys : /\ Value(pods[p].applied[k].lim) \in ran[k]
                                   /\ work[p].limits[k] \in ran[k] \cup {0}
    /\ \A k \in Keys : entries[k].limit \in ran[k] \cup {0}

LEMMA LimitValue ==
    ASSUME NEW r \in Requirements
    PROVE  Value(r.lim) \in Nat
  BY DEF Value, Requirements, Quantities, Unset

LEMMA AnchorsInit == Init => Anchors
<1> SUFFICES ASSUME Init PROVE Anchors
  OBVIOUS
<1>1. Value(Template.lim) \in Nat
  BY Constants, LimitValue
<1>2. \A p \in Pods, k \in Keys : pods[p].applied[k] = Template /\ work[p].limits[k] = 0
  BY NoneTyped DEF Init
<1> QED
  BY <1>1, <1>2 DEF Init, Anchors, Absent

LEMMA AnchorsRecord ==
    ASSUME Types, Anchors, NEW p \in Pods, NEW k \in Keys, Record(p, k) \/ RecordAgain(p, k)
    PROVE  \A x \in Keys : entries'[x].limit \in ran[x] \cup {0}
<1> SUFFICES ASSUME NEW x \in Keys PROVE entries'[x].limit \in ran[x] \cup {0}
  OBVIOUS
<1> DEFINE new == NewRecord(p, k)
           limit == work[p].limits[k]
<1>1. new \in Entries /\ limit \in Nat /\ new.limit = limit /\ entries \in [Keys -> Entries]
  BY CarriedType DEF Types, Works
<1>2. limit \in ran[k] \cup {0} /\ entries[k].limit \in ran[k] \cup {0}
      /\ entries[x].limit \in ran[x] \cup {0} /\ entries[k].limit \in Nat
  BY <1>1 DEF Anchors, Entries
<1>3. /\ Larger(limit, entries[k].limit) \in ran[k] \cup {0}
      /\ Larger(entries[k].limit, limit) \in ran[k] \cup {0}
  BY <1>1, <1>2, Extremes
<1>4. CASE Record(p, k)
  <2>1. PICK evicted :
          entries' = [y \in Keys |->
             IF y = k THEN IF entries[k] = Absent THEN new ELSE merged(new, entries[k])
             ELSE IF y \in evicted THEN Absent ELSE entries[y]]
    BY <1>4 DEF Record
  <2>2. merged(new, entries[k]).limit = Larger(limit, entries[k].limit)
    BY <1>1, MergedFields
  <2>3. Absent.limit = 0
    BY DEF Absent
  <2> HIDE DEF new, limit
  <2> QED
    BY <1>1, <1>2, <1>3, <2>1, <2>2, <2>3
<1>5. CASE RecordAgain(p, k)
  <2>1. entries' = [entries EXCEPT ![k].limit = Larger(entries[k].limit, limit)]
    BY <1>5 DEF RecordAgain
  <2>2. entries[k] \in Entries
    BY <1>1
  <2> HIDE DEF new, limit
  <2>3. entries'[k].limit = Larger(entries[k].limit, limit)
    BY <1>1, <2>1, <2>2 DEF Entries
  <2>4. x # k => entries'[x] = entries[x]
    BY <1>1, <2>1
  <2> QED
    BY <1>2, <1>3, <2>3, <2>4
<1> QED
  BY <1>4, <1>5

LEMMA AnchorsStep == Types /\ Anchors /\ [Next]_vars => Anchors'
<1> SUFFICES ASSUME Types, Anchors, [Next]_vars PROVE Anchors'
  OBVIOUS
<1> USE DEF setting, loop, cache, history
<1>0. \A p \in Pods : pods[p] \in PodRecords /\ work[p] \in Works
  BY DEF Types
<1>1. \A p \in Pods, k \in Keys : work'[p].limits[k] \in ran[k] \cup {0}
  <2> TAKE p \in Pods, k \in Keys
  <2>1. work[p].limits[k] \in ran[k] \cup {0} /\ Value(pods[p].applied[k].lim) \in ran[k]
    BY DEF Anchors
  <2>2. Began(p).limits[k] \in {0, Value(pods[p].applied[k].lim)}
    BY BeganType
  <2>3. BecameRecording(p).limits = work[p].limits /\ \A j : Fewer(p, j).limits = work[p].limits
    BY <1>0 DEF BecameRecording, Fewer, Works
  <2> QED
    BY <2>1, <2>2, <2>3, WorkStep, NoneTyped
<1>2. CASE UNCHANGED vars \/ Tick \/ Compute \/ \E i \in Reads : Assemble(i)
  <2>1. UNCHANGED <<ran, pods, entries>>
    BY <1>2 DEF vars, Tick, Compute, Assemble
  <2> QED
    BY <1>1, <2>1 DEF Anchors
<1>3. CASE Sweep \/ Publish
  <2>1. \A k \in Keys : entries'[k] \in {entries[k], Absent}
    BY <1>3 DEF Sweep, Publish
  <2>2. UNCHANGED <<ran, pods>>
    BY <1>3 DEF Sweep, Publish
  <2> QED
    BY <1>1, <2>1, <2>2 DEF Anchors, Absent
<1>4. CASE Restart
  <2>1. (\A k \in Keys : entries'[k].limit = 0) /\ UNCHANGED <<ran, pods>>
    BY <1>4 DEF Restart, Absent
  <2> QED
    BY <1>1, <2>1 DEF Anchors
<1>5. ASSUME NEW p \in Pods, Reconcile(p) \/ Fails(p) PROVE Anchors'
  <2>1. UNCHANGED <<ran, pods>>
    BY <1>5 DEF Reconcile, Fails, BeginNothing, Begin, Governed, RecordAgain, Record, Fire,
                OwnerUnresolved, DecideFails, Ungoverned
  <2>2. \A k \in Keys : entries'[k].limit \in ran[k] \cup {0}
    <3>1. CASE \E k \in Keys : Record(p, k) \/ RecordAgain(p, k)
      BY <3>1, AnchorsRecord
    <3>2. CASE ~(\E k \in Keys : Record(p, k) \/ RecordAgain(p, k))
      <4>1. entries' = entries
        BY <1>5, <3>2 DEF Reconcile, Fails, BeginNothing, Begin, Governed, Fire,
                OwnerUnresolved, DecideFails, Ungoverned
      <4> QED
        BY <4>1 DEF Anchors
    <3> QED
      BY <3>1, <3>2
  <2> QED
    BY <1>1, <2>1, <2>2 DEF Anchors
<1>6. ASSUME NEW p \in Pods, NEW k \in Keys, Enact(p, k) PROVE Anchors'
  <2> DEFINE limit == Value(pods[p].spec[k].lim)
  <2>1. ran' = [ran EXCEPT ![k] = @ \cup {limit}] /\ entries' = entries
        /\ pods' = [pods EXCEPT ![p].applied[k] = pods[p].spec[k]]
    BY <1>6 DEF Enact
  <2>2. limit \in Nat
    BY <1>0, LimitValue DEF PodRecords
  <2>3. \A q \in Pods, x \in Keys : Value(pods'[q].applied[x].lim) =
          IF q = p /\ x = k THEN limit ELSE Value(pods[q].applied[x].lim)
    BY <1>0, <2>1 DEF Types, PodRecords
  <2> HIDE DEF limit
  <2>4. ran' \in [Keys -> SUBSET Nat] /\ limit \in ran'[k]
        /\ \A x \in Keys : ran[x] \subseteq ran'[x]
    BY <2>1, <2>2 DEF Anchors
  <2> QED
    BY <1>1, <2>1, <2>3, <2>4 DEF Anchors
<1>7. ASSUME NEW p \in Pods,
             Ask(p) \/ Touch(p) \/ Delete(p) \/ \E k \in Keys : Killed(p, k)
      PROVE  Anchors'
  <2>1. \A q \in Pods : pods'[q].applied = pods[q].applied
    <3>1. CASE Touch(p)
      BY <3>1 DEF Touch
    <3>2. CASE Ask(p)
      <4>1. pods' = [pods EXCEPT ![p].spec = Asked(p)]
        BY <3>2 DEF Ask
      <4> QED
        BY <1>0, <4>1 DEF Types, PodRecords
    <3>4. CASE Delete(p)
      <4>1. pods' = [pods EXCEPT ![p].up = FALSE]
        BY <3>4 DEF Delete
      <4> QED
        BY <1>0, <4>1 DEF Types, PodRecords
    <3>3. ASSUME NEW k \in Keys, Killed(p, k)
          PROVE  \A q \in Pods : pods'[q].applied = pods[q].applied
      <4>1. PICK kill : pods' = [pods EXCEPT ![p].kill[k] = kill]
        BY <3>3 DEF Killed
      <4> QED
        BY <1>0, <4>1 DEF Types, PodRecords
    <3> QED
      BY <1>7, <3>1, <3>2, <3>3, <3>4
  <2>2. UNCHANGED <<ran, entries>>
    BY <1>7 DEF Killed, Ask, Touch, Delete
  <2> QED
    BY <1>1, <2>1, <2>2 DEF Anchors
<1> QED
  BY <1>2, <1>3, <1>4, <1>5, <1>6, <1>7 DEF Next, Happening

-----------------------------------------------------------------------------
(* The reports *)

ReportRecords == [kill : KillIds, limit : Nat, kept : BOOLEAN, at : Nat, first : Nat, times : Nat]

OnePerKill(T) == \A h, g \in T : h.kill = g.kill => h = g

\* At instant t, with these marks dropped for room: a kill resolved at an
\* instant may be resolved again.
Forgotten(kill, at, t, dropped) == t - at > TTL \/ kill \in dropped

\* It may, or it is marked.
Known(kill, at, t, dropped, ms) ==
    Forgotten(kill, at, t, dropped) \/ \E m \in ms : m.kill = kill /\ m.at >= at

\* What a reconcile has to record: some kill that it found unresolved, and any
\* report of those may be repeated.  While it records, the kills are marked.
Pending(p) ==
    /\ work[p].todo # {} => work[p].fresh # {}
    /\ \A k \in work[p].todo \cap work[p].fresh, h \in told :
          h.kill = Carried(p, k) => Forgotten(h.kill, h.at, now, shed)
    /\ work[p].step = "recording" =>
          /\ \A k \in work[p].todo : Known(Carried(p, k), work[p].at, now, shed, marks)
          /\ \A h \in told : h.kill.pod = p => h.at <= work[p].at

\* A recorded kill is marked until it may be reported again.
Reports ==
    /\ told \subseteq ReportRecords /\ OnePerKill(told)
    /\ \A h \in told : h.at <= now /\ Known(h.kill, h.at, now, shed, marks)
    /\ \A p \in Pods : Pending(p)

\* What becomes of the marks.
LEMMA MarksStep ==
    ASSUME Types, [Next]_vars, ~Restart
    PROVE  /\ shed \subseteq shed'
           /\ \A m \in marks : \/ m \in marks' \/ now - m.at > TTL \/ m.kill \in shed'
                               \/ \E n \in marks' : n.kill = m.kill /\ n.at = now
<1> USE DEF setting, loop, cache, history
<1>1. ASSUME NEW kills, MarkResolved(kills)
      PROVE  /\ shed \subseteq shed'
             /\ \A m \in marks : \/ m \in marks' \/ m.kill \in shed'
                                 \/ \E n \in marks' : n.kill = m.kill /\ n.at = now
  <2> DEFINE old == {m \in marks : m.kill \notin kills}
             all == old \cup {[kill |-> c, at |-> now] : c \in kills}
  <2>1. PICK rest : marks' = rest /\ shed' = shed \cup {m.kill : m \in all \ rest}
    BY <1>1 DEF MarkResolved
  <2>2. \A m \in all : m \in marks' \/ m.kill \in shed'
    BY <2>1
  <2>3. ASSUME NEW m \in marks
        PROVE  \/ m \in marks' \/ m.kill \in shed'
               \/ \E n \in marks' : n.kill = m.kill /\ n.at = now
    <3>1. CASE m.kill \notin kills
      BY <2>2, <3>1
    <3>2. CASE m.kill \in kills
      <4> DEFINE n == [kill |-> m.kill, at |-> now]
      <4>1. n \in all /\ n.kill = m.kill /\ n.at = now
        BY <3>2
      <4> HIDE DEF n, all
      <4> QED
        BY <2>2, <4>1
    <3> QED
      BY <3>1, <3>2
  <2> QED
    BY <2>1, <2>3
<1>2. CASE Sweep
  BY <1>2 DEF Sweep, Aged
<1>3. CASE UNCHANGED vars \/ Tick \/ Compute \/ Publish \/ \E i \in Reads : Assemble(i)
  BY <1>3 DEF vars, Tick, Compute, Publish, Assemble
<1>4. CASE \E p \in Pods : Governed(p) \/ Ungoverned(p)
  BY <1>1, <1>4 DEF Governed, Ungoverned
<1>5. CASE \E p \in Pods : Happening(p)
  <2>1. marks' = marks /\ shed' = shed
    BY <1>5, HappeningKeeps
  <2> QED
    BY <2>1
<1>6. CASE \E p \in Pods : BeginNothing(p) \/ Begin(p) \/ Fire(p) \/ DecideFails(p)
  BY <1>6 DEF BeginNothing, Begin, Fire, DecideFails
<1>7. CASE \E p \in Pods : OwnerUnresolved(p)
  BY <1>7 DEF OwnerUnresolved
<1>8. CASE \E p \in Pods, k \in Keys : RecordAgain(p, k) \/ Record(p, k)
  BY <1>8 DEF RecordAgain, Record
<1> QED
  BY <1>2, <1>3, <1>4, <1>5, <1>6, <1>7, <1>8 DEF Next, Reconcile, Fails

LEMMA ForgottenStays ==
    ASSUME NEW kill, NEW at \in Nat, NEW t \in Nat, NEW u \in Nat, t <= u, NEW s, NEW r,
           s \subseteq r, Forgotten(kill, at, t, s)
    PROVE  Forgotten(kill, at, u, r)
  BY Constants DEF Forgotten

LEMMA KnowledgeStays ==
    ASSUME Types, [Next]_vars, ~Restart, NEW kill, NEW at \in Nat, at <= now
    PROVE  /\ Forgotten(kill, at, now, shed) => Forgotten(kill, at, now', shed')
           /\ Known(kill, at, now, shed, marks) => Known(kill, at, now', shed', marks')
<1>1. now \in Nat /\ now' \in Nat /\ now <= now' /\ TTL \in Nat
  BY NowGrows, Constants
<1>2. shed \subseteq shed'
  BY MarksStep
<1>3. Forgotten(kill, at, now, shed) => Forgotten(kill, at, now', shed')
  BY <1>1, <1>2, ForgottenStays
<1>4. ASSUME NEW m \in marks, m.kill = kill, m.at >= at
      PROVE  Known(kill, at, now', shed', marks')
  <2>1. m.at \in Nat
    BY DEF Types
  <2>2. CASE m \in marks'
    BY <1>4, <2>2 DEF Known
  <2>3. CASE now - m.at > TTL
    <3>1. now - at > TTL
      BY <1>1, <1>4, <2>1, <2>3
    <3> QED
      BY <1>3, <3>1 DEF Known, Forgotten
  <2>4. CASE m.kill \in shed'
    BY <1>4, <2>4 DEF Known, Forgotten
  <2>5. CASE \E n \in marks' : n.kill = m.kill /\ n.at = now
    BY <1>4, <2>5 DEF Known
  <2> QED
    BY <2>2, <2>3, <2>4, <2>5, MarksStep
<1> QED
  BY <1>3, <1>4 DEF Known

\* The reports once the kill is recorded as new.
Retold(U, p, k, evicted) ==
    /\ U \subseteq ReportRecords /\ OnePerKill(U)
    /\ \A g \in U :
          /\ g.kept => g.kill.key \notin evicted
          /\ \/ g.kill = Carried(p, k) /\ g.at = work[p].at /\ g.limit = work[p].limits[k]
             \/ \E h \in told : /\ h.kill # Carried(p, k) /\ g.kill = h.kill /\ g.at = h.at
                                /\ g.limit = h.limit /\ g.times = h.times /\ (g.kept => h.kept)
    /\ \E g \in U : g.kill = Carried(p, k) /\ g.at = work[p].at
    /\ \A h \in told : \E g \in U : g.kill = h.kill /\ g.at >= h.at

KeptAs(h, evicted) == [h EXCEPT !.kept = @ /\ h.kill.key \notin evicted]

LEMMA ToldReports ==
    ASSUME Types, Reports, NEW p \in Pods, NEW k \in Keys, work[p].step = "recording"
    PROVE  \E new \in ReportRecords :
              /\ Told(Carried(p, k), work[p].at, work[p].limits[k])
                    = {h \in told : h.kill # Carried(p, k)} \cup {new}
              /\ new.kill = Carried(p, k) /\ new.at = work[p].at
              /\ new.limit = work[p].limits[k]
<1> DEFINE kill == Carried(p, k)
           at == work[p].at
           limit == work[p].limits[k]
           before == CHOOSE h \in Knew(kill) : TRUE
           first == IF Knew(kill) = {} THEN limit ELSE before.first
           times == IF Knew(kill) = {} THEN 1 ELSE before.times + 1
           new == [kill |-> kill, limit |-> limit, kept |-> TRUE, at |-> at,
                   first |-> first, times |-> times]
<1>1. kill \in KillIds /\ at \in Nat /\ limit \in Nat
  BY CarriedType DEF Types, Works
<1>2. first \in Nat /\ times \in Nat
  <2>1. CASE Knew(kill) = {}
    BY <1>1, <2>1
  <2>2. CASE Knew(kill) # {}
    <3>1. before \in Knew(kill)
      BY <2>2
    <3>2. \A h \in Knew(kill) : h.first \in Nat /\ h.times \in Nat
      BY DEF Knew, Reports, ReportRecords
    <3> HIDE DEF before
    <3> QED
      BY <2>2, <3>1, <3>2
  <2> QED
    BY <2>1, <2>2
<1>3. Told(kill, at, limit) = (told \ Knew(kill)) \cup {new}
  BY DEF Told
<1>4. told \ Knew(kill) = {h \in told : h.kill # kill}
  BY DEF Knew
<1> HIDE DEF first, times, kill, at, limit
<1>5. new \in ReportRecords /\ new.kill = kill /\ new.at = at /\ new.limit = limit
  BY <1>1, <1>2 DEF ReportRecords
<1> HIDE DEF new
<1> QED
  BY <1>3, <1>4, <1>5 DEF kill, at, limit

LEMMA RecordTold ==
    ASSUME Types, Reports, NEW p \in Pods, NEW k \in Keys, work[p].step = "recording",
           NEW evicted, NEW U,
           U = {[h EXCEPT !.kept = @ /\ h.kill.key \notin evicted] :
                  h \in Told(Carried(p, k), work[p].at, work[p].limits[k])}
    PROVE  Retold(U, p, k, evicted)
<1> DEFINE kill == Carried(p, k)
           at == work[p].at
           limit == work[p].limits[k]
           T == Told(kill, at, limit)
<1>1. PICK new \in ReportRecords : /\ T = {h \in told : h.kill # kill} \cup {new}
                                   /\ new.kill = kill /\ new.at = at /\ new.limit = limit
  BY ToldReports
<1>2. /\ told \subseteq ReportRecords /\ OnePerKill(told) /\ kill.pod = p
      /\ \A h \in told : h.kill.pod = p => h.at <= at
  BY CarriedType DEF Reports, Pending
<1>3. \A g \in U : \E h \in T : g = KeptAs(h, evicted)
  BY DEF KeptAs
<1>4. \A h \in T : KeptAs(h, evicted) \in U
  BY DEF KeptAs
<1> HIDE DEF T, kill, at, limit
<1>5. T \subseteq ReportRecords
  BY <1>1, <1>2
<1>6. ASSUME NEW h \in T
      PROVE  LET g == KeptAs(h, evicted)
             IN  /\ g \in ReportRecords /\ g.kill = h.kill /\ g.at = h.at /\ g.limit = h.limit
                 /\ g.times = h.times /\ (g.kept => h.kept /\ h.kill.key \notin evicted)
  <2> DEFINE b == h.kept /\ h.kill.key \notin evicted
  <2>1. b \in BOOLEAN /\ (b => h.kept /\ h.kill.key \notin evicted)
    OBVIOUS
  <2>2. KeptAs(h, evicted) = [h EXCEPT !.kept = b] /\ h \in ReportRecords
    BY <1>5 DEF KeptAs
  <2> HIDE DEF b
  <2> QED
    BY <2>1, <2>2 DEF ReportRecords
<1>7. \A h, g \in T : h.kill = g.kill => h = g
  BY <1>1, <1>2 DEF OnePerKill
<1>8. U \subseteq ReportRecords
  BY <1>3, <1>6
<1>9. OnePerKill(U)
  <2> SUFFICES ASSUME NEW a \in U, NEW b \in U, a.kill = b.kill PROVE a = b
    BY DEF OnePerKill
  <2>1. PICK h \in T : a = KeptAs(h, evicted)
    BY <1>3
  <2>2. PICK g \in T : b = KeptAs(g, evicted)
    BY <1>3
  <2>3. h.kill = g.kill
    BY <1>6, <2>1, <2>2
  <2> QED
    BY <1>7, <2>1, <2>2, <2>3
<1>10. ASSUME NEW g \in U
       PROVE  /\ g.kept => g.kill.key \notin evicted
              /\ \/ g.kill = kill /\ g.at = at /\ g.limit = limit
                 \/ \E h \in told : /\ h.kill # kill /\ g.kill = h.kill /\ g.at = h.at
                                    /\ g.limit = h.limit /\ g.times = h.times /\ (g.kept => h.kept)
  <2>1. PICK h \in T : g = KeptAs(h, evicted)
    BY <1>3
  <2>2. h = new \/ (h \in told /\ h.kill # kill)
    BY <1>1
  <2>3. /\ g.kill = h.kill /\ g.at = h.at /\ g.limit = h.limit
        /\ g.times = h.times /\ (g.kept => h.kept /\ h.kill.key \notin evicted)
    BY <1>6, <2>1
  <2> QED
    BY <1>1, <2>2, <2>3
<1>11. \E g \in U : g.kill = kill /\ g.at = at
  <2>1. new \in T
    BY <1>1
  <2> QED
    BY <1>1, <1>4, <1>6, <2>1
<1>12. ASSUME NEW h \in told PROVE \E g \in U : g.kill = h.kill /\ g.at >= h.at
  <2>1. h.at \in Nat /\ at \in Nat
    BY <1>2 DEF ReportRecords, Types, Works, at
  <2>2. PICK f \in T : f.kill = h.kill /\ f.at >= h.at
    BY <1>1, <1>2, <2>1
  <2> QED
    BY <1>4, <1>6, <2>2
<1> QED
  BY <1>8, <1>9, <1>10, <1>11, <1>12 DEF Retold, kill, at, limit

\* Reports go on, but for the one of a kill that is recorded.
LEMMA ToldStep ==
    ASSUME Types, Reports, [Next]_vars, ~Restart
    PROVE  /\ told' \subseteq ReportRecords /\ OnePerKill(told')
           /\ \A g \in told' :
                 \/ \E h \in told : g.kill = h.kill /\ g.at = h.at /\ g.times = h.times
                 \/ \E p \in Pods, k \in Keys : /\ Recording(p, k) /\ g.kill = Carried(p, k)
                                                /\ g.at = work[p].at
<1> USE DEF setting, loop, cache, history
<1>1. ASSUME NEW p \in Pods, NEW k \in Keys, Record(p, k)
      PROVE  /\ told' \subseteq ReportRecords /\ OnePerKill(told')
             /\ \A g \in told' :
                   \/ \E h \in told : g.kill = h.kill /\ g.at = h.at /\ g.times = h.times
                   \/ Recording(p, k) /\ g.kill = Carried(p, k) /\ g.at = work[p].at
  <2>1. Recording(p, k) /\ work[p].step = "recording"
    BY <1>1 DEF Record, Recording
  <2>2. NewRecord(p, k).observed = work[p].at /\ NewRecord(p, k).limit = work[p].limits[k]
    BY CarriedType
  <2>3. PICK evicted : told' = {[h EXCEPT !.kept = @ /\ h.kill.key \notin evicted] :
                           h \in Told(Carried(p, k), work[p].at, work[p].limits[k])}
    BY <1>1, <2>2 DEF Record
  <2>4. Retold(told', p, k, evicted)
    BY <2>1, <2>3, RecordTold
  <2> QED
    BY <2>1, <2>4 DEF Retold
<1>2. CASE told' = told
  BY <1>2 DEF Reports
<1>3. CASE UNCHANGED vars \/ Tick \/ Sweep \/ Compute \/ Publish \/ \E i \in Reads : Assemble(i)
  <2>1. told' = told
    BY <1>3, OthersKeep
  <2> QED
    BY <1>2, <2>1
<1>4. CASE \E p \in Pods : Happening(p)
  <2>1. told' = told
    BY <1>4, HappeningKeeps
  <2> QED
    BY <1>2, <2>1
<1>5. CASE \E p \in Pods : Fails(p) \/ BeginNothing(p) \/ Begin(p) \/ Fire(p) \/ Governed(p)
                           \/ \E k \in Keys : RecordAgain(p, k)
  <2>1. told' = told
    BY <1>5 DEF Fails, OwnerUnresolved, DecideFails, Ungoverned, BeginNothing, Begin, Fire,
                Governed, RecordAgain
  <2> QED
    BY <1>2, <2>1
<1> QED
  BY <1>1, <1>3, <1>4, <1>5 DEF Next, Reconcile

\* What is recorded is no longer to be.
LEMMA RecordingEnds ==
    ASSUME Types, NEW p \in Pods, NEW k \in Keys, Recording(p, k)
    PROVE  k \in work[p].todo /\ work[p].step = "recording" /\ k \notin work'[p].todo
<1>1. k \in work[p].todo /\ work[p].step = "recording" /\ work \in [Pods -> Works]
  BY DEF Recording, Types
<1>2. CASE work[p].todo = {k}
  <2>1. work'[p] = Free
    BY <1>1, <1>2 DEF Recording, Done
  <2> QED
    BY <1>1, <2>1, NoneTyped
<1>3. CASE work[p].todo # {k}
  <2>1. work' = [work EXCEPT ![p].todo = @ \ {k}]
    BY <1>3 DEF Recording
  <2> QED
    BY <1>1, <2>1 DEF Works
<1> QED
  BY <1>1, <1>2, <1>3

\* A reconcile that goes on with some of its kills.
LEMMA PendingGoesOn ==
    ASSUME Types, Clock, Reports, [Next]_vars, ~Restart, NEW p \in Pods,
           work'[p].todo \subseteq work[p].todo, work'[p].step = work[p].step,
           work'[p].fresh = work[p].fresh, work'[p].kills = work[p].kills,
           work'[p].at = work[p].at
    PROVE  Pending(p)'
<1>1. Pending(p) /\ work[p].at \in Nat /\ work[p].todo \subseteq Keys /\ now \in Nat
      /\ \A h \in told : h.at \in Nat /\ h.at <= now
  BY DEF Reports, ReportRecords, Types, Works
<1>2. \A k : Carried(p, k)' = Carried(p, k)
  BY DEF Carried, Kill
<1>3. work'[p].todo # {} => work'[p].fresh # {}
  BY <1>1 DEF Pending
<1>4. ASSUME NEW k \in work'[p].todo \cap work'[p].fresh, NEW g \in told', g.kill = Carried(p, k)
      PROVE  Forgotten(g.kill, g.at, now', shed')
  <2>1. CASE \E h \in told : g.kill = h.kill /\ g.at = h.at
    <3>1. PICK h \in told : g.kill = h.kill /\ g.at = h.at
      BY <2>1
    <3>2. Forgotten(h.kill, h.at, now, shed) /\ h.at \in Nat /\ h.at <= now
      BY <1>1, <1>4, <3>1 DEF Pending
    <3>3. Forgotten(h.kill, h.at, now', shed')
      BY <3>2, KnowledgeStays
    <3> QED
      BY <3>1, <3>3
  <2>2. ASSUME NEW q \in Pods, NEW j \in Keys, Recording(q, j), g.kill = Carried(q, j)
        PROVE  FALSE
    <3>0. k \in Keys
      BY <1>1
    <3>1. Carried(q, j) = Carried(p, k)
      BY <1>4, <2>2
    <3>2. Carried(p, k).pod = p /\ Carried(p, k).key = k
          /\ Carried(q, j).pod = q /\ Carried(q, j).key = j
      BY <2>2, <3>0 DEF Carried, Kill
    <3>3. q = p /\ j = k
      BY <3>1, <3>2
    <3> QED
      BY <1>4, <2>2, <3>3, RecordingEnds
  <2> QED
    BY <2>1, <2>2, ToldStep
<1>5. ASSUME work'[p].step = "recording", NEW k \in work'[p].todo
      PROVE  Known(Carried(p, k), work[p].at, now', shed', marks')
  <2>1. Known(Carried(p, k), work[p].at, now, shed, marks) /\ work[p].at <= now
    BY <1>1, <1>5 DEF Pending, Clock
  <2> QED
    BY <1>1, <2>1, KnowledgeStays
<1>6. ASSUME work'[p].step = "recording", NEW g \in told', g.kill.pod = p
      PROVE  g.at <= work[p].at
  <2>1. CASE \E h \in told : g.kill = h.kill /\ g.at = h.at
    BY <1>1, <1>6, <2>1 DEF Pending
  <2>2. ASSUME NEW q \in Pods, NEW j \in Keys, g.kill = Carried(q, j), g.at = work[q].at
        PROVE  g.at <= work[p].at
    <3>1. q = p
      BY <1>6, <2>2, CarriedType
    <3> QED
      BY <1>1, <2>2, <3>1
  <2> QED
    BY <2>1, <2>2, ToldStep
<1> QED
  BY <1>2, <1>3, <1>4, <1>5, <1>6 DEF Pending

\* One that begins found its kills without a fresh mark.
LEMMA PendingBegins ==
    ASSUME Types, Reports, NEW p \in Pods, Begin(p), work'[p] = Began(p)
    PROVE  Pending(p)'
<1> DEFINE shown(k) == Kill(p, k, pods[p].kill[k])
<1>1. /\ work'[p].todo = Shown(p) /\ work'[p].fresh = Unresolved(p)
      /\ work'[p].kills = pods[p].kill /\ work'[p].step = "deciding"
  BY DEF Began
<1>2. Unresolved(p) # {} /\ UNCHANGED <<now, told, shed>>
  BY DEF Begin, history
<1>3. \A k : Carried(p, k)' = shown(k)
  BY <1>1 DEF Carried, Kill
<1>4. ASSUME NEW k \in Unresolved(p), NEW h \in told, h.kill = shown(k)
      PROVE  Forgotten(h.kill, h.at, now, shed)
  <2>1. \A m \in marks : m.kill = h.kill => now - m.at > TTL
    BY <1>4 DEF Unresolved, AlreadyResolved, Aged
  <2>2. now \in Nat /\ TTL \in Nat /\ h.at \in Nat /\ \A m \in marks : m.at \in Nat
    BY Constants DEF Types, Reports, ReportRecords
  <2>3. Known(h.kill, h.at, now, shed, marks)
    BY DEF Reports
  <2>4. ASSUME NEW m \in marks, m.kill = h.kill, m.at >= h.at PROVE now - h.at > TTL
    BY <2>1, <2>2, <2>4
  <2> QED
    BY <2>3, <2>4 DEF Known, Forgotten
<1> HIDE DEF shown
<1> QED
  BY <1>1, <1>2, <1>3, <1>4 DEF Pending

\* One that is to record has marked its kills.
LEMMA PendingRecords ==
    ASSUME Types, Clock, Reports, [Next]_vars, ~Restart, NEW p \in Pods, Governed(p),
           work'[p] = BecameRecording(p)
    PROVE  Pending(p)'
<1>1. Pending(p) /\ now \in Nat /\ \A h \in told : h.at \in Nat /\ h.at <= now
  BY DEF Reports, ReportRecords, Types
<1>2. /\ work'[p].todo = work[p].todo /\ work'[p].fresh = work[p].fresh
      /\ work'[p].kills = work[p].kills /\ work'[p].at = now
  BY DEF BecameRecording, Types, Works
<1>3. told' = told
  BY DEF Governed
<1>4. \A k : Carried(p, k)' = Carried(p, k)
  BY <1>2 DEF Carried, Kill
<1>5. ASSUME NEW k \in work[p].todo \cap work[p].fresh, NEW h \in told, h.kill = Carried(p, k)
      PROVE  Forgotten(h.kill, h.at, now', shed')
  <2>1. Forgotten(h.kill, h.at, now, shed)
    BY <1>1, <1>5 DEF Pending
  <2> QED
    BY <1>1, <2>1, KnowledgeStays
<1>6. ASSUME NEW k \in work[p].todo
      PROVE  Known(Carried(p, k), now, now', shed', marks')
  <2> DEFINE c == Carried(p, k)
             mark == [kill |-> c, at |-> now]
             all == {m \in marks : m.kill \notin Resolves(p)}
                       \cup {[kill |-> d, at |-> now] : d \in Resolves(p)}
  <2>1. PICK rest : marks' = rest /\ shed' = shed \cup {m.kill : m \in all \ rest}
    BY DEF Governed, MarkResolved
  <2>2. mark \in all /\ mark.kill = c /\ mark.at = now
    BY DEF Resolves
  <2> HIDE DEF mark, all, c
  <2>3. mark \in marks' \/ c \in shed'
    BY <2>1, <2>2
  <2> QED
    BY <1>1, <2>2, <2>3 DEF Known, Forgotten, c
<1> QED
  BY <1>1, <1>2, <1>3, <1>4, <1>5, <1>6 DEF Pending

LEMMA ReportsInit == Init => Reports
  BY NoneTyped DEF Init, Reports, OnePerKill, Pending

LEMMA ReportsStep == Types /\ Clock /\ Reports /\ [Next]_vars => Reports'
<1> SUFFICES ASSUME Types, Clock, Reports, [Next]_vars PROVE Reports'
  OBVIOUS
<1>1. CASE Restart
  <2>1. told' = {} /\ \A p \in Pods : work'[p] = Free
    BY <1>1 DEF Restart
  <2> QED
    BY <2>1, NoneTyped DEF Reports, OnePerKill, Pending
<1>2. CASE ~Restart
  <2>1. told' \subseteq ReportRecords /\ OnePerKill(told')
    BY <1>2, ToldStep
  <2>2. ASSUME NEW g \in told' PROVE g.at <= now' /\ Known(g.kill, g.at, now', shed', marks')
    <3>1. \E kill \in KillIds, at \in Nat :
             /\ g.kill = kill /\ g.at = at /\ at <= now /\ Known(kill, at, now, shed, marks)
      <4>1. CASE \E h \in told : g.kill = h.kill /\ g.at = h.at
        BY <4>1 DEF Reports, ReportRecords
      <4>2. ASSUME NEW p \in Pods, NEW k \in Keys, Recording(p, k), g.kill = Carried(p, k),
                   g.at = work[p].at
            PROVE  \E kill \in KillIds, at \in Nat :
                      /\ g.kill = kill /\ g.at = at /\ at <= now
                      /\ Known(kill, at, now, shed, marks)
        <5>1. k \in work[p].todo /\ work[p].step = "recording"
          BY <4>2, RecordingEnds
        <5>2. Known(Carried(p, k), work[p].at, now, shed, marks) /\ work[p].at <= now
          BY <5>1 DEF Reports, Pending, Clock
        <5>3. work[p].at \in Nat /\ Carried(p, k) \in KillIds
          BY CarriedType DEF Types, Works
        <5> QED
          BY <4>2, <5>2, <5>3
      <4> QED
        BY <1>2, <4>1, <4>2, ToldStep
    <3>2. now \in Nat /\ now' \in Nat /\ now <= now'
      BY NowGrows
    <3> QED
      BY <1>2, <3>1, <3>2, KnowledgeStays
  <2>3. ASSUME NEW p \in Pods PROVE Pending(p)'
    <3>0. work[p] \in Works
      BY DEF Types
    <3>1. CASE work'[p] = work[p]
      BY <1>2, <3>1, PendingGoesOn
    <3>2. CASE work'[p] = Free
      BY <3>2, NoneTyped DEF Pending
    <3>3. CASE Begin(p) /\ work'[p] = Began(p)
      BY <3>3, PendingBegins
    <3>4. CASE Governed(p) /\ work'[p] = BecameRecording(p)
      BY <1>2, <3>4, PendingRecords
    <3>5. ASSUME NEW k \in work[p].todo, work'[p] = Fewer(p, k) PROVE Pending(p)'
      <4>1. /\ work'[p].todo \subseteq work[p].todo /\ work'[p].step = work[p].step
            /\ work'[p].fresh = work[p].fresh /\ work'[p].kills = work[p].kills
            /\ work'[p].at = work[p].at
        BY <3>0, <3>5 DEF Fewer, Works
      <4> QED
        BY <1>2, <4>1, PendingGoesOn
    <3> QED
      BY <3>1, <3>2, <3>3, <3>4, <3>5, WorkStep
  <2>4. OnePerKill(told)'
    BY <2>1 DEF OnePerKill
  <2> QED
    BY <2>1, <2>2, <2>3, <2>4 DEF Reports, ReportRecords, KillIds
<1> QED
  BY <1>1, <1>2

-----------------------------------------------------------------------------
(* The theorems *)

Inv == Types /\ Sizes /\ Clock /\ CacheOK /\ Anchors /\ Reports

\* The inductive invariant: what every variable holds, what is stored and
\* about to be stored fits, the cache and its index agree and keep to their
\* limit, every anchor was applied, and every recorded kill is marked until it
\* may be reported again (internal/oomwatch, internal/recommender).
THEOREM WatchInvariant == Spec => []Inv
<1>1. Init => Inv
  BY TypesInit, ClockInit, CacheInit, AnchorsInit, ReportsInit DEF Inv
<1>2. Inv /\ [Next]_vars => Inv'
  BY TypesStep, ClockStep, CacheStep, AnchorsStep, ReportsStep DEF Inv
<1> QED
  BY <1>1, <1>2, PTL DEF Spec

\* Every variable has its type; the cache and its marks never exceed
\* MaxEntries, and the index lists exactly the entries, after any recording,
\* eviction, sweep, read or restart (addIndexLocked, deleteEntryLocked).
THEOREM WatchTypes == Spec => []TypeOK
<1>1. Inv => TypeOK
  <2> SUFFICES ASSUME Inv PROVE TypeOK
    OBVIOUS
  <2>1. \A p \in Pods : pods[p].spec \in [Keys -> Requirements]
                        /\ pods[p].applied \in [Keys -> Requirements]
                        /\ work[p].limits \in [Keys -> Nat] /\ work[p].todo \subseteq Keys
    BY DEF Inv, Types, PodRecords, Works
  <2> QED
    BY <2>1 DEF Inv, Types, CacheOK, IndexOf, TypeOK
<1> QED
  BY <1>1, WatchInvariant, PTL

\* Every limit an entry holds is one the kubelet had applied to its
\* container, whatever resizes were pending (Record, containerMemLimitBytes).
THEOREM AnchorsWereApplied == Spec => []AnchorWasApplied
<1>1. Inv => AnchorWasApplied
  BY DEF Inv, Anchors, AnchorWasApplied, Held
<1> QED
  BY <1>1, WatchInvariant, PTL

\* For every configuration, signal, autoscaler and conversion, what is stored
\* keeps the operator's bounds and leaves no limit below its request (size,
\* limitChain, coordinate).
THEOREM AlwaysRecommendable == Spec => []Recommendable
<1>1. Inv => Recommendable
  BY DEF Inv, Sizes, Fit, Recommendable
<1> QED
  BY <1>1, WatchInvariant, PTL

\* No kill is reported as new twice within the window unless its mark was
\* dropped for room or another container's unresolved kill carries it along,
\* for any number of containers and pods (alreadyResolvedAt, markResolved,
\* Record, the loops of Reconcile).
THEOREM KillsReportedOnce == Spec => ReportedOnce
<1> DEFINE Once == \A h \in told, g \in told' :
              h.kill = g.kill /\ g.times > h.times =>
                 \/ now - h.at > TTL \/ h.kill \in shed
                 \/ LET w == work[h.kill.pod]
                    IN  h.kill.key \notin w.fresh /\ w.fresh # {}
<1>1. Inv /\ [Next]_vars => [Once]_vars
  <2> SUFFICES ASSUME Inv, Next, NEW h \in told, NEW g \in told',
                      h.kill = g.kill, g.times > h.times
               PROVE  \/ Forgotten(h.kill, h.at, now, shed)
                      \/ h.kill.key \notin work[h.kill.pod].fresh /\ work[h.kill.pod].fresh # {}
    BY DEF Forgotten
  <2>0. Types /\ Reports
    BY DEF Inv
  <2>1. ~Restart
    BY DEF Restart
  <2>2. ~\E f \in told : g.kill = f.kill /\ g.times = f.times
    <3> SUFFICES ASSUME NEW f \in told, g.kill = f.kill, g.times = f.times PROVE FALSE
      OBVIOUS
    <3>1. f = h /\ h.times \in Nat
      BY <2>0 DEF Reports, OnePerKill, ReportRecords
    <3> QED
      BY <3>1
  <2>3. PICK p \in Pods, k \in Keys : Recording(p, k) /\ g.kill = Carried(p, k)
    BY <2>0, <2>1, <2>2, ToldStep
  <2>4. h.kill.pod = p /\ h.kill.key = k
    BY <2>0, <2>3, CarriedType
  <2>5. Pending(p) /\ k \in work[p].todo
    BY <2>0, <2>3, RecordingEnds DEF Reports
  <2> QED
    BY <2>3, <2>4, <2>5 DEF Pending
<1> QED
  BY <1>1, WatchInvariant, PTL DEF Spec, ReportedOnce

-----------------------------------------------------------------------------
(* A kill escapes its limit *)


LEMMA Division ==
    ASSUME NEW a \in Nat, NEW b \in Nat \ {0}
    PROVE  a \div b \in Nat /\ b * (a \div b) <= a /\ a < b * (a \div b) + b
  BY SMT

LEMMA ProductsOrdered ==
    ASSUME NEW a \in Nat, NEW b \in Nat, NEW c \in Nat, a <= b
    PROVE  a * c \in Nat /\ b * c \in Nat /\ a * c <= b * c
  BY SMT

LEMMA CeilDivCovers ==
    ASSUME NEW a \in Nat, NEW b \in Nat \ {0}
    PROVE  CeilDiv(a, b) \in Nat /\ a <= CeilDiv(a, b) * b
<1> DEFINE d == CeilDiv(a, b)
<1>1. a + b - 1 \in Nat
  OBVIOUS
<1>2. d \in Nat /\ a + b - 1 < b * d + b
  BY <1>1, Division DEF CeilDiv
<1> HIDE DEF d
<1>3. b * d \in Nat /\ d * b = b * d
  BY <1>2, SMT
<1> QED
  BY <1>2, <1>3 DEF d

LEMMA HeadroomCovers ==
    ASSUME NEW v \in Nat, NEW h \in Nat
    PROVE  withHeadroom("memory", v, h) >= v
<1> DEFINE w == v * (100 + h)
           x == w \div 100
           c == CeilDiv(x, Mebibyte)
<1>0. Mebibyte \in Nat \ {0}
  BY SizingAssumption
<1>1. w \in Nat /\ 100 * v <= w
  BY SMT
<1> HIDE DEF w
<1>2. x \in Nat /\ w < 100 * x + 100
  BY <1>1, Division
<1> HIDE DEF x
<1>3. v <= x
  BY <1>1, <1>2
<1>4. c \in Nat /\ x <= c * Mebibyte
  BY <1>0, <1>2, CeilDivCovers
<1> HIDE DEF c
<1>5. Larger(c, 1) \in Nat /\ c <= Larger(c, 1)
  BY <1>4 DEF Larger
<1>6. /\ c * Mebibyte \in Nat /\ Larger(c, 1) * Mebibyte \in Nat
      /\ c * Mebibyte <= Larger(c, 1) * Mebibyte
  BY <1>0, <1>4, <1>5, ProductsOrdered
<1>7. v <= Larger(c, 1) * Mebibyte
  BY <1>2, <1>3, <1>4, <1>6
<1> QED
  BY <1>7 DEF withHeadroom, c, x, w

LEMMA OverheadCovers ==
    ASSUME NEW q \in Nat, NEW t \in Nat
    PROVE  applyOverhead(q, t) >= q
<1>1. CASE t <= 0
  BY <1>1 DEF applyOverhead
<1>2. CASE ~(t <= 0)
  <2> DEFINE s == Smaller(t, 99)
             c == CeilDiv(q * 110, s)
  <2>1. s \in Nat \ {0} /\ s <= 99
    BY <1>2 DEF Smaller
  <2>2. q * 110 \in Nat
    OBVIOUS
  <2> HIDE DEF s
  <2>3. c \in Nat /\ q * 110 <= c * s
    BY <2>1, <2>2, CeilDivCovers
  <2> HIDE DEF c
  <2>4. s * c <= 99 * c /\ s * c \in Nat /\ c * s = s * c
    BY <2>1, <2>3, ProductsOrdered, SMT
  <2>5. c >= q
    BY <2>3, <2>4
  <2> QED
    BY <1>2, <2>5 DEF applyOverhead, c, s
<1> QED
  BY <1>1, <1>2

\* At least b, but for the operator's maximum.
Reaches(q, b, c) == q >= b \/ q = c.max

LEMMA ClampReaches ==
    ASSUME NEW c \in Configs, NEW q \in Nat, NEW b \in Nat,
           q >= b \/ (c.max # Nil /\ q >= c.max)
    PROVE  Reaches(clamp(q, c.min, c.max), b, c)
<1>1. c.min \in Nat \cup {Nil} /\ c.max \in Nat \cup {Nil}
  BY DEF Configs
<1> QED
  BY <1>1 DEF clamp, Reaches, Larger, Smaller, Nil

\* Headroom, bounds and coordination never take a request below a floor,
\* unless to the operator's maximum.
LEMMA RequestReaches ==
    ASSUME NEW c \in Configs, c.resource = "memory", NEW u \in Nat \cup {Nil}, NEW o \in OOMs,
           NEW s \in Scalers, NEW b \in Nat, requestOf(c, u, o) >= b, requestOf(c, u, o) \in Nat
    PROVE  Reaches(Request(c, u, o, s), b, c)
<1> DEFINE v == requestOf(c, u, o)
           h == withHeadroom(c.resource, v, c.headroom)
           q == clamp(h, c.min, c.max)
           a == applyOverhead(q, s.target)
<1>0. c.headroom \in Nat /\ s.target \in Nat /\ c.max \in Nat \cup {Nil}
  BY DEF Configs, Scalers
<1>1. h \in Nat /\ h >= v
  BY <1>0, HeadroomType, HeadroomCovers
<1>2. h >= b
  <2> HIDE DEF h, v
  <2> QED
    BY <1>1 DEF v
<1> HIDE DEF h
<1>3. q \in Nat /\ Reaches(q, b, c)
  BY <1>1, <1>2, ClampBetween, ClampReaches
<1> HIDE DEF q
<1>4. a \in Nat /\ a >= q
  BY <1>0, <1>3, OverheadType, OverheadCovers
<1> HIDE DEF a
<1>5. a >= b \/ (c.max # Nil /\ a >= c.max)
  BY <1>0, <1>3, <1>4 DEF Reaches, Nil
<1>6. Reaches(clamp(a, c.min, c.max), b, c)
  BY <1>4, <1>5, ClampReaches
<1>7. Request(c, u, o, s) \in {q, clamp(a, c.min, c.max)}
  BY DEF Request, coordinate, a, q, h
<1> QED
  BY <1>3, <1>6, <1>7

LEMMA BumpedOrdered ==
    ASSUME NEW a \in Nat, NEW b \in Nat, a <= b
    PROVE  Bumped(a) \in Nat /\ Bumped(b) \in Nat /\ Bumped(a) <= Bumped(b)
  BY DEF Bumped

\* What is recommended for a live kill exceeds the limit of it.
LEMMA SizedReaches ==
    ASSUME NEW c \in Configs, c.resource = "memory", ~c.keepRequest,
           NEW u \in Nat \cup {Nil}, NEW o \in OOMs, NEW s \in Scalers,
           o.live, NEW limit \in Nat \ {0}, limit <= o.limit,
           NEW r \in Sized(c, u, o, s, Template)
    PROVE  r # Nothing /\ Reaches(r.req, Bumped(limit), c)
<1> DEFINE q == Request(c, u, o, s)
<1>1. o.limit \in Nat /\ o.limit > 0 /\ o.peak \in Nat \cup {Nil}
  BY DEF OOMs
<1>2. justified(c, u, o) /\ recent(o)
  BY <1>1 DEF justified, recent, anchored
<1>3. PICK l \in Limits(c, q, Template) : r = Recommendation(q, l)
  BY <1>2 DEF Sized
<1>4. r.req = q
  BY <1>3 DEF Recommendation
<1>5. Bumped(limit) \in Nat /\ Bumped(o.limit) \in Nat /\ Bumped(limit) <= Bumped(o.limit)
  BY <1>1, BumpedOrdered
<1>6. floor(o) \in Nat /\ floor(o) >= Bumped(o.limit)
  BY <1>1, <1>5, Values, Extremes DEF floor
<1>7. requestOf(c, u, o) \in Nat /\ requestOf(c, u, o) >= floor(o)
  <2>1. Value(u) \in Nat
    BY Values
  <2> QED
    BY <1>2, <1>6, <2>1, Extremes DEF requestOf
<1>8. Bumped(limit) <= requestOf(c, u, o)
  BY <1>5, <1>6, <1>7
<1>9. q \in Nat
  BY RequestBetween
<1> HIDE DEF q
<1>10. Reaches(q, Bumped(limit), c)
  BY <1>5, <1>7, <1>8, RequestReaches DEF q
<1>11. r # Nothing
  BY <1>4, <1>9 DEF Nothing, Nil
<1> QED
  BY <1>4, <1>10, <1>11

\* An entry keeps what a report says.
Backs(e, h) == e # Absent /\ e.limit >= h.limit /\ e.observed >= h.at

\* An entry is of a reported kill, and no later than a report.
Witnessed(k) ==
    /\ \E g \in told : g.kill.key = k /\ g.kill.at = entries[k].at
    /\ \E g \in told : g.kill.key = k /\ g.at >= entries[k].observed

\* Until it ages or is dropped for room, a report is backed by its container's
\* entry, and every entry comes from reports.
Evidence ==
    /\ reader.at <= now
    /\ \A h \in told : h.kept /\ ~Aged(h.at, now) => Backs(entries[h.kill.key], h)
    /\ \A k \in Keys : entries[k] # Absent => Witnessed(k)

LEMMA ReportTypes ==
    ASSUME Types, Reports
    PROVE  /\ now \in Nat /\ TTL \in Nat
           /\ \A h \in told : h.at \in Nat /\ h.limit \in Nat /\ h.kill.key \in Keys
           /\ \A k \in Keys : entries[k].observed \in Nat /\ entries[k].limit \in Nat
<1>1. \A h \in told : h.at \in Nat /\ h.limit \in Nat /\ h.kill \in KillIds
  BY DEF Reports, ReportRecords
<1>2. \A k \in Keys : entries[k].observed \in Nat /\ entries[k].limit \in Nat
  BY DEF Types, Entries
<1> QED
  BY <1>1, <1>2, Constants DEF Types, KillIds

\* Nothing is reported, time may pass, and aged entries may be dropped.
LEMMA EvidenceDrop ==
    ASSUME Reports, Types, Evidence, told' = told, now' \in Nat, now <= now',
           reader'.at <= now', NEW gone, NEW t \in Nat, t <= now,
           \A k \in gone : Aged(entries[k].observed, t),
           \A k \in Keys : entries'[k] = IF k \in gone THEN Absent ELSE entries[k]
    PROVE  Evidence'
<1>1. ASSUME NEW h \in told', h.kept, ~Aged(h.at, now')
      PROVE  Backs(entries'[h.kill.key], h)
  <2>1. h.at \in Nat /\ now \in Nat /\ TTL \in Nat /\ h.kill.key \in Keys
        /\ entries[h.kill.key].observed \in Nat
    BY ReportTypes
  <2>2. ~Aged(h.at, now)
    BY <1>1, <2>1 DEF Aged
  <2>3. Backs(entries[h.kill.key], h)
    BY <1>1, <2>2 DEF Evidence
  <2>4. h.kill.key \notin gone
    BY <2>1, <2>2, <2>3 DEF Backs, Aged
  <2> QED
    BY <2>1, <2>3, <2>4
<1>2. \A k \in Keys : entries'[k] # Absent => Witnessed(k) /\ entries'[k] = entries[k]
  BY DEF Evidence
<1>3. \A k \in Keys : entries'[k] # Absent => Witnessed(k)'
  BY <1>2 DEF Witnessed
<1> QED
  BY <1>1, <1>3 DEF Evidence, Aged, Backs, Absent

LEMMA EvidenceAge ==
    ASSUME Reports, Types, Evidence, UNCHANGED <<told, entries>>, now' \in Nat, now <= now',
           reader'.at <= now'
    PROVE  Evidence'
<1> DEFINE gone == {}
<1>1. now \in Nat /\ now <= now
  BY DEF Types
<1>2. /\ \A k \in gone : Aged(entries[k].observed, now)
      /\ \A k \in Keys : entries'[k] = IF k \in gone THEN Absent ELSE entries[k]
  OBVIOUS
<1> HIDE DEF gone
<1> QED
  BY <1>1, <1>2, EvidenceDrop

\* An entry's limit is raised.
LEMMA EvidenceRaise ==
    ASSUME Reports, Types, Evidence, UNCHANGED <<told, now, reader>>,
           \A k \in Keys : /\ entries'[k] # Absent <=> entries[k] # Absent
                           /\ entries'[k].limit \in Nat /\ entries'[k].limit >= entries[k].limit
                           /\ entries'[k].at = entries[k].at
                           /\ entries'[k].observed = entries[k].observed
    PROVE  Evidence'
<1>1. ASSUME NEW h \in told', h.kept, ~Aged(h.at, now)
      PROVE  Backs(entries'[h.kill.key], h)
  <2>1. Backs(entries[h.kill.key], h)
    BY <1>1 DEF Evidence
  <2>2. h.kill.key \in Keys /\ h.limit \in Nat /\ entries[h.kill.key].limit \in Nat
    BY ReportTypes
  <2> QED
    BY <2>1, <2>2 DEF Backs
<1>2. \A k \in Keys : entries'[k] # Absent => Witnessed(k)'
  BY DEF Evidence, Witnessed
<1> QED
  BY <1>1, <1>2 DEF Evidence, Aged, Backs, Absent

LEMMA MergedAt ==
    ASSUME NEW new \in Entries, NEW old \in Entries
    PROVE  merged(new, old).at \in {new.at, old.at}
<1> DEFINE base == IF newerThan(new, old) THEN new ELSE old
<1>1. base \in Entries /\ base.at \in {new.at, old.at}
  OBVIOUS
<1> HIDE DEF base
<1> QED
  BY <1>1 DEF merged, base, Entries

\* A kill is recorded.
LEMMA EvidenceRecord ==
    ASSUME Reports, Types, Clock, Evidence, NEW p \in Pods, NEW k \in Keys, Record(p, k)
    PROVE  Evidence'
<1> DEFINE new == NewRecord(p, k)
           kill == Carried(p, k)
           limit == work[p].limits[k]
           at == work[p].at
           stored == IF entries[k] = Absent THEN new ELSE merged(new, entries[k])
<1>1. /\ new \in Entries /\ entries[k] \in Entries /\ new.observed = at /\ at \in Nat
      /\ new.limit = limit /\ limit \in Nat /\ new.at = kill.at /\ kill.key = k
      /\ entries[k].limit \in Nat /\ entries[k].observed \in Nat
  BY CarriedType DEF Types, Works, Entries
<1>2. PICK evicted \in Evicts(k) :
          /\ entries' = [x \in Keys |-> IF x = k THEN stored
                                        ELSE IF x \in evicted THEN Absent ELSE entries[x]]
          /\ told' = {[h EXCEPT !.kept = @ /\ h.kill.key \notin evicted] :
                        h \in Told(kill, at, limit)}
  BY <1>1 DEF Record
<1>3. UNCHANGED <<now, reader>> /\ work[p].step = "recording" /\ at > 0
  BY <1>1 DEF Record, Recording, Clock, Since
<1>4. k \notin evicted
  BY <1>2 DEF Evicts, Held
<1>5. Retold(told', p, k, evicted)
  BY <1>2, <1>3, RecordTold
<1> HIDE DEF new, kill, limit, at
<1>6. /\ stored \in Entries /\ stored.observed >= at /\ stored.limit >= limit
      /\ stored.limit \in Nat /\ stored.observed \in Nat
      /\ stored.observed = at \/ (entries[k] # Absent /\ stored.observed = entries[k].observed)
      /\ entries[k] # Absent => /\ stored.limit >= entries[k].limit
                                /\ stored.observed >= entries[k].observed
      /\ stored.at = kill.at \/ (entries[k] # Absent /\ stored.at = entries[k].at)
  <2>1. CASE entries[k] = Absent
    <3>1. stored = new
      BY <2>1
    <3> QED
      BY <1>1, <2>1, <3>1
  <2>2. CASE entries[k] # Absent
    <3> DEFINE old == entries[k]
    <3>1. stored = merged(new, old)
      BY <2>2
    <3>2. new \in Entries /\ old \in Entries
      BY <1>1
    <3> HIDE DEF stored, old
    <3>3. stored \in Entries /\ stored.limit = Larger(new.limit, old.limit)
          /\ stored.observed = Larger(new.observed, old.observed)
      BY <3>1, <3>2, MergedFields
    <3>4. stored.at \in {new.at, old.at}
      BY <3>1, <3>2, MergedAt
    <3>5. stored.limit = Larger(limit, entries[k].limit)
          /\ stored.observed = Larger(at, entries[k].observed)
      BY <1>1, <3>3 DEF old
    <3>6. /\ stored.limit \in Nat /\ stored.limit >= limit /\ stored.limit >= entries[k].limit
          /\ stored.observed \in Nat /\ stored.observed >= at
          /\ stored.observed >= entries[k].observed
          /\ stored.observed = at \/ stored.observed = entries[k].observed
      BY <1>1, <3>5 DEF Larger
    <3> QED
      BY <1>1, <2>2, <3>3, <3>4, <3>6 DEF old
  <2> QED
    BY <2>1, <2>2
<1>7. stored # Absent
  <2>1. Absent.observed = 0
    BY DEF Absent
  <2> QED
    BY <1>1, <1>3, <1>6, <2>1
<1> HIDE DEF stored
<1>8. entries'[k] = stored
  BY <1>2
<1>9. ASSUME NEW g \in told', g.kept, ~Aged(g.at, now)
      PROVE  Backs(entries'[g.kill.key], g)
  <2>1. g.kill.key \notin evicted
    BY <1>5, <1>9 DEF Retold
  <2>2. CASE g.kill = kill /\ g.at = at /\ g.limit = limit
    BY <1>1, <1>6, <1>7, <1>8, <2>2 DEF Backs
  <2>3. ASSUME NEW h \in told, g.kill = h.kill, g.at = h.at, g.limit = h.limit, h.kept
        PROVE  Backs(entries'[g.kill.key], g)
    <3>1. /\ Backs(entries[g.kill.key], g) /\ g.kill.key \in Keys
          /\ g.at \in Nat /\ g.limit \in Nat
      BY <1>9, <2>3, ReportTypes DEF Evidence, Backs
    <3>2. CASE g.kill.key = k
      <4>1. /\ entries[k] # Absent /\ entries[k].limit >= g.limit
            /\ entries[k].observed >= g.at
        BY <3>1, <3>2 DEF Backs
      <4>2. stored.limit >= g.limit /\ stored.observed >= g.at
        BY <1>1, <1>6, <3>1, <4>1
      <4> QED
        BY <1>7, <1>8, <3>2, <4>2 DEF Backs
    <3>3. CASE g.kill.key # k
      <4>1. entries'[g.kill.key] = entries[g.kill.key]
        BY <1>2, <2>1, <3>1, <3>3
      <4> QED
        BY <3>1, <4>1
    <3> QED
      BY <3>2, <3>3
  <2> QED
    BY <1>5, <1>9, <2>2, <2>3 DEF Retold, kill, at, limit
<1>10. ASSUME NEW x \in Keys, Witnessed(x), entries[x] # Absent
       PROVE  /\ \E g \in told' : g.kill.key = x /\ g.kill.at = entries[x].at
              /\ \E g \in told' : g.kill.key = x /\ g.at >= entries[x].observed
  <2>1. PICK f \in told : f.kill.key = x /\ f.kill.at = entries[x].at
    BY <1>10 DEF Witnessed
  <2>2. PICK f2 \in told' : f2.kill = f.kill
    BY <1>5 DEF Retold
  <2>3. PICK h \in told : h.kill.key = x /\ h.at >= entries[x].observed
    BY <1>10 DEF Witnessed
  <2>4. PICK h2 \in told' : h2.kill = h.kill /\ h2.at >= h.at
    BY <1>5 DEF Retold
  <2>5. h.at \in Nat /\ h2.at \in Nat /\ entries[x].observed \in Nat
    BY <1>5, ReportTypes DEF Retold, ReportRecords
  <2>6. h2.at >= entries[x].observed
    BY <2>3, <2>4, <2>5
  <2> QED
    BY <2>1, <2>2, <2>3, <2>4, <2>6
<1>11. PICK it \in told' : it.kill = kill /\ it.at = at
  BY <1>5 DEF Retold, kill, at
<1>12. ASSUME NEW x \in Keys, entries'[x] # Absent
       PROVE  /\ \E g \in told' : g.kill.key = x /\ g.kill.at = entries'[x].at
              /\ \E g \in told' : g.kill.key = x /\ g.at >= entries'[x].observed
  <2>1. CASE x = k
    <3>1. entries[k] # Absent => Witnessed(k)
      BY DEF Evidence
    <3>2. \E g \in told' : g.kill.key = x /\ g.kill.at = stored.at
      BY <1>1, <1>6, <1>10, <1>11, <2>1, <3>1
    <3>3. \E g \in told' : g.kill.key = x /\ g.at >= stored.observed
      BY <1>1, <1>6, <1>10, <1>11, <2>1, <3>1
    <3> QED
      BY <1>8, <2>1, <3>2, <3>3
  <2>2. CASE x # k
    <3>1. entries'[x] = entries[x] /\ entries[x] # Absent
      BY <1>2, <1>12, <2>2
    <3>2. Witnessed(x)
      BY <3>1 DEF Evidence
    <3> QED
      BY <1>10, <3>1, <3>2
  <2> QED
    BY <2>1, <2>2
<1>13. reader'.at <= now'
  BY <1>3 DEF Evidence
<1>14. \A g \in told' : g.kept /\ ~Aged(g.at, now') => Backs(entries'[g.kill.key], g)
  BY <1>3, <1>9
<1>15. \A x \in Keys : entries'[x] # Absent => Witnessed(x)'
  BY <1>12 DEF Witnessed
<1> QED
  BY <1>13, <1>14, <1>15 DEF Evidence, Aged, Backs, Absent

LEMMA EvidenceInit == Init => Evidence
<1>1. NoPass.at = 0
  BY DEF NoPass
<1> QED
  BY <1>1 DEF Init, Evidence, Since

LEMMA EvidenceStep ==
    Types /\ Clock /\ CacheOK /\ Reports /\ Evidence /\ [Next]_vars => Evidence'
<1> SUFFICES ASSUME Types, Clock, CacheOK, Reports, Evidence, [Next]_vars PROVE Evidence'
  OBVIOUS
<1> USE DEF setting, loop, cache, history
<1>0. now \in Nat /\ reader.at <= now /\ reader.at \in Nat /\ NoPass.at = 0
  BY DEF Types, Readers, Evidence, NoPass
<1>1. ASSUME UNCHANGED <<told, entries, now, reader>> PROVE Evidence'
  BY <1>0, <1>1, EvidenceAge
<1>2. CASE UNCHANGED vars
  BY <1>1, <1>2 DEF vars
<1>3. CASE Tick
  <2>1. UNCHANGED <<told, entries, reader>> /\ now' = now + 1
    BY <1>3 DEF Tick
  <2>2. now' \in Nat /\ now <= now' /\ reader'.at <= now'
    BY <1>0, <2>1
  <2> QED
    BY <2>1, <2>2, EvidenceAge
<1>4. CASE Sweep
  <2>1. \A k \in Droppable(Keys, now) : Aged(entries[k].observed, now)
    BY DEF Droppable
  <2> QED
    BY <1>0, <1>4, <2>1, EvidenceDrop DEF Sweep
<1>5. CASE Restart
  <2>1. told' = {} /\ now' = now /\ reader' = NoPass /\ \A k \in Keys : entries'[k] = Absent
    BY <1>5 DEF Restart
  <2> QED
    BY <1>0, <2>1 DEF Evidence
<1>6. CASE Compute
  <2>1. reader'.at \in {0, now}
    <3>1. NoPass \in Readers
      BY NoPassTyped
    <3> DEFINE ks == {k \in Keys : k.id = reader.id}
               old == {k \in ks \cap Held : Aged(entries[k].observed, now)}
    <3>2. PICK out :
             \/ reader' = NoPass
             \/ reader' = [NoPass EXCEPT !.step = "computed", !.id = reader.id,
                                         !.young = tooYoung(ks), !.out = out,
                                         !.at = now, !.stale = old]
      BY <1>6 DEF Compute
    <3> HIDE DEF ks, old
    <3> QED
      BY <1>0, <3>1, <3>2 DEF Readers
  <2>2. reader'.at <= now
    BY <1>0, <2>1
  <2> QED
    BY <1>0, <1>6, <2>2, EvidenceAge DEF Compute
<1>7. CASE Publish
  <2>1. \A k \in Droppable(reader.stale, reader.at) : Aged(entries[k].observed, reader.at)
    BY DEF Droppable
  <2>2. reader'.at <= now
    BY <1>0, <1>7 DEF Publish
  <2> QED
    BY <1>0, <1>7, <2>1, <2>2, EvidenceDrop DEF Publish
<1>8. ASSUME NEW i \in Reads, Assemble(i) PROVE Evidence'
  <2>1. reader'.at = now
    <3>1. NoPass \in Readers
      BY NoPassTyped
    <3>2. PICK usage, seen :
            reader' = [NoPass EXCEPT !.step = "fetched", !.id = i, !.at = now,
                                     !.usage = usage, !.seen = seen]
      BY <1>8 DEF Assemble
    <3> QED
      BY <3>1, <3>2 DEF Readers
  <2> QED
    BY <1>0, <1>8, <2>1, EvidenceAge DEF Assemble
<1>9. ASSUME NEW p \in Pods, Reconcile(p) \/ Fails(p) PROVE Evidence'
  <2>1. CASE BeginNothing(p) \/ Begin(p) \/ Fire(p) \/ Governed(p)
    BY <1>1, <2>1 DEF BeginNothing, Begin, Fire, Governed
  <2>2. CASE Fails(p)
    BY <1>1, <2>2 DEF Fails, DecideFails, OwnerUnresolved, Ungoverned
  <2>3. ASSUME NEW k \in Keys, RecordAgain(p, k) PROVE Evidence'
    <3>1. UNCHANGED <<told, now, reader>>
      BY <2>3 DEF RecordAgain
    <3> DEFINE higher == Larger(entries[k].limit, work[p].limits[k])
    <3>2. entries' = [entries EXCEPT ![k].limit = higher] /\ Held' = Held
      BY <2>3, RecordAgainCache DEF RecordAgain
    <3>3. work[p].limits[k] \in Nat /\ entries[k].limit \in Nat
          /\ \A x \in Keys : entries[x] \in Entries /\ entries[x].limit \in Nat
      BY DEF Types, Works, Entries
    <3>4. higher \in Nat /\ higher >= entries[k].limit
      BY <3>3, Extremes
    <3> HIDE DEF higher
    <3>5. \A x \in Keys : /\ entries'[x].limit \in Nat /\ entries'[x].limit >= entries[x].limit
                          /\ entries'[x].at = entries[x].at
                          /\ entries'[x].observed = entries[x].observed
      BY <3>2, <3>3, <3>4 DEF Types, Entries
    <3>6. \A x \in Keys : entries'[x] # Absent <=> entries[x] # Absent
      BY <3>2 DEF Held
    <3> QED
      BY <3>1, <3>5, <3>6, EvidenceRaise
  <2>4. ASSUME NEW k \in Keys, Record(p, k) PROVE Evidence'
    BY <2>4, EvidenceRecord
  <2> QED
    BY <1>9, <2>1, <2>2, <2>3, <2>4 DEF Reconcile
<1>10. ASSUME NEW p \in Pods, Happening(p) PROVE Evidence'
  BY <1>1, <1>10, HappeningKeeps
<1> QED
  BY <1>2, <1>3, <1>4, <1>5, <1>6, <1>7, <1>8, <1>9, <1>10 DEF Next

\* A report that is backed is counted by the pass.
\* A report that is backed is counted by the pass.
LEMMA BackedCounted ==
    ASSUME Inv, Evidence, NEW h \in told, h.kept, ~Aged(h.at, now),
           h.at <= reader.at, h.kill.key.id = reader.id,
           \A g \in told : g.kill.key = h.kill.key =>
                              g.at <= reader.at /\ g.kill.at <= reader.at
    PROVE  Counted(h.kill.key) /\ entries[h.kill.key].limit >= h.limit
<1> DEFINE k == h.kill.key
           e == entries[k]
<1>1. k \in Keys /\ h.at \in Nat /\ now \in Nat /\ TTL \in Nat /\ reader.at \in Nat
  BY ReportTypes DEF Inv, Types, Readers
<1>2. e \in Entries /\ e.observed \in Nat /\ e.at \in Nat
  BY <1>1 DEF Inv, Types, Entries
<1>3. e # Absent /\ e.limit >= h.limit /\ e.observed >= h.at
  BY DEF Evidence, Backs
<1>4. ~Aged(e.observed, now) /\ reader.at - e.observed <= TTL
  <2>1. reader.at <= now
    BY DEF Evidence
  <2> HIDE DEF e, k
  <2> QED
    BY <1>1, <1>2, <1>3, <2>1 DEF Aged
<1>5. e.observed <= reader.at /\ e.at <= reader.at
  <2>1. PICK f \in told : f.kill.key = k /\ f.kill.at = e.at
    BY <1>1, <1>3 DEF Evidence, Witnessed
  <2>2. PICK g \in told : g.kill.key = k /\ g.at >= e.observed
    BY <1>1, <1>3 DEF Evidence, Witnessed
  <2>3. g.at \in Nat
    BY DEF Inv, Reports, ReportRecords
  <2>4. f.kill.at <= reader.at /\ g.at <= reader.at
    BY <2>1, <2>2
  <2> HIDE DEF e, k
  <2> QED
    BY <1>1, <1>2, <2>1, <2>2, <2>3, <2>4
<1>6. k \in Live
  <2>1. k \in Held
    BY <1>1, <1>3 DEF Held
  <2>2. k.id \in Ids /\ index = IndexOf(Held)
    BY <1>1 DEF Ids, Inv, CacheOK
  <2>3. k.container \in index[k.id]
    BY <2>1, <2>2 DEF IndexOf
  <2> QED
    BY <1>4, <2>1, <2>3 DEF Live
<1> HIDE DEF k
<1>7. Counted(k)
  BY <1>4, <1>5, <1>6 DEF Counted
<1> QED
  BY <1>3, <1>7 DEF k

\* A recorded kill that was neither dropped for room nor has aged leads, in
\* every pass as of it or later, to a request above the limit it was killed
\* at, or to the operator's maximum, for any order of kills, sweeps and
\* reads (Record, ByWorkload, WithLiveOOMs, size).
THEOREM KillsAreEscaped == Spec => EscapesTheKill
<1> DEFINE Escape ==
       reader.step = "fetched" /\ reader' # reader /\ events' = events
          /\ cfg.resource = "memory" /\ ~cfg.keepRequest =>
          \A h \in told :
             LET k   == h.kill.key
                 out == IF reader' = NoPass THEN rec'[k] ELSE reader'.out[k]
             IN  /\ h.kept /\ h.limit > 0 /\ k.id = reader.id
                 /\ ~Aged(h.at, now) /\ h.at <= reader.at
                 /\ \A g \in told : g.kill.key = k =>
                       g.at <= reader.at /\ g.kill.at <= reader.at
                 => /\ ~reader'.young
                    /\ out.req >= Bumped(h.limit) \/ out.req = cfg.max
<1>1. Inv /\ Evidence /\ [Next]_vars => [Escape]_vars
  <2> SUFFICES ASSUME Inv, Evidence, Next, reader.step = "fetched", reader' # reader,
                      events' = events, cfg.resource = "memory", ~cfg.keepRequest,
                      NEW h \in told, h.kept, h.limit > 0,
                      h.kill.key.id = reader.id, ~Aged(h.at, now), h.at <= reader.at,
                      \A g \in told : g.kill.key = h.kill.key =>
                                         g.at <= reader.at /\ g.kill.at <= reader.at
               PROVE  /\ ~reader'.young
                      /\ Reaches((IF reader' = NoPass THEN rec'[h.kill.key]
                                  ELSE reader'.out[h.kill.key]).req, Bumped(h.limit), cfg)
    BY DEF Reaches
  <2> DEFINE k == h.kill.key
             ks == {x \in Keys : x.id = reader.id}
             old == {x \in ks \cap Held : Aged(entries[x].observed, now)}
  <2>1. Compute
    <3>1. events \in Nat
      BY Constants DEF Inv, Types
    <3>2. ~Restart
      BY <3>1 DEF Restart, Event
    <3>3. ~Publish /\ ~\E i \in Reads : Assemble(i)
      BY NoPassTyped DEF Publish, Assemble
    <3> QED
      <4>1. ~\E p \in Pods : Happening(p)
        BY HappeningKeeps
      <4>2. ~\E p \in Pods : Fails(p)
        BY DEF Fails, OwnerUnresolved, DecideFails, Ungoverned
      <4>3. ~\E p \in Pods : Reconcile(p)
        BY DEF Reconcile, BeginNothing, Begin, Governed, Record, RecordAgain, Fire
      <4>4. ~Tick /\ ~Sweep
        BY DEF Tick, Sweep
      <4> QED
        BY <3>2, <3>3, <4>1, <4>2, <4>3, <4>4 DEF Next
  <2>2. k \in Keys /\ k \in ks /\ h.limit \in Nat \ {0} /\ entries[k].limit \in Nat
        /\ reader.seen \in OOMs /\ reader.usage \in Nat \cup {Nil} /\ cfg \in Configs
        /\ Scaler \in Scalers
    <3>1. h \in ReportRecords
      BY DEF Inv, Reports
    <3>2. h.limit \in Nat \ {0} /\ h.kill \in KillIds
      BY <3>1 DEF ReportRecords
    <3>4. k \in Keys /\ k \in ks
      BY <3>2 DEF KillIds
    <3>5. entries[k].limit \in Nat
      BY <3>4 DEF Inv, Types, Entries
    <3>6. reader.seen \in OOMs /\ reader.usage \in Nat \cup {Nil} /\ cfg \in Configs
          /\ Scaler \in Scalers
      BY Constants DEF Inv, Types, Readers
    <3> QED
      BY <3>2, <3>4, <3>5, <3>6
  <2>3. Counted(k) /\ entries[k].limit >= h.limit
    BY BackedCounted
  <2>4. OOMOf(k) \in OOMs /\ OOMOf(k).live /\ h.limit <= OOMOf(k).limit
    <3> DEFINE o == [reader.seen EXCEPT !.live = TRUE,
                                        !.limit = Larger(reader.seen.limit, entries[k].limit)]
               l == Larger(reader.seen.limit, entries[k].limit)
    <3> HIDE DEF k
    <3>1. OOMOf(k) = o
      BY <2>3 DEF OOMOf
    <3>2. l \in Nat /\ l >= entries[k].limit
      BY <2>2, Extremes DEF OOMs
    <3>3. h.limit <= l
      BY <2>2, <2>3, <3>2
    <3> HIDE DEF l
    <3>4. o = [reader.seen EXCEPT !.live = TRUE, !.limit = l]
      BY DEF l
    <3>5. o \in OOMs /\ o.live /\ o.limit = l
      BY <2>2, <3>2, <3>4 DEF OOMs
    <3> QED
      BY <3>1, <3>3, <3>5
  <2>5. ~tooYoung(ks)
    BY <2>2, <2>4 DEF tooYoung, recent
  <2>6. PICK out : /\ \A x \in Keys : out[x] \in
                        IF x \in ks THEN Sized(cfg, reader.usage, OOMOf(x), Scaler, Template)
                        ELSE {Nothing}
                   /\ \/ rec' = Recommended(tooYoung(ks), out) /\ reader' = NoPass
                      \/ reader' = [NoPass EXCEPT !.step = "computed", !.id = reader.id,
                                      !.young = tooYoung(ks), !.out = out,
                                      !.at = now, !.stale = old]
    BY <2>1 DEF Compute
  <2> HIDE DEF k, ks
  <2>7. out[k] # Nothing /\ Reaches(out[k].req, Bumped(h.limit), cfg)
    <3>1. out[k] \in Sized(cfg, reader.usage, OOMOf(k), Scaler, Template)
      BY <2>2, <2>6
    <3> QED
      BY <2>2, <2>4, <3>1, SizedReaches
  <2>8. CASE rec' = Recommended(tooYoung(ks), out) /\ reader' = NoPass
    <3>1. rec'[k] = out[k]
      BY <2>2, <2>5, <2>7, <2>8 DEF Recommended, k
    <3>2. ~NoPass.young
      BY DEF NoPass
    <3> QED
      BY <2>7, <2>8, <3>1, <3>2 DEF k
  <2>9. CASE reader' = [NoPass EXCEPT !.step = "computed", !.id = reader.id,
                          !.young = tooYoung(ks), !.out = out, !.at = now, !.stale = old]
    <3> HIDE DEF old
    <3>1. reader'.young = tooYoung(ks) /\ reader'.out = out /\ reader'.step = "computed"
      BY <2>9, NoPassTyped DEF Readers
    <3>2. reader' # NoPass
      BY <3>1, NoPassTyped
    <3> QED
      BY <2>5, <2>7, <3>1, <3>2 DEF k
  <2> QED
    BY <2>6, <2>8, <2>9
<1>2. Init => Evidence
  BY EvidenceInit
<1>3. Inv /\ Evidence /\ [Next]_vars => Evidence'
  BY EvidenceStep DEF Inv
<1> QED
  BY <1>1, <1>2, <1>3, WatchInvariant, PTL DEF Spec, EscapesTheKill
=============================================================================
