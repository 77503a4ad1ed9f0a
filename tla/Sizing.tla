------------------------------- MODULE Sizing -------------------------------
(***************************************************************************)
(* How the recommender sizes one resource of one container                 *)
(* (internal/recommender: recommender.go, compute.go, coordination.go,     *)
(* limit.go and the values of signal_usage.go and signal_oom.go).  Usage   *)
(* and memory quantities are bytes; CPU usage is in units of which a       *)
(* millicore has Precision, and CPU quantities are millicores.  Ratios and *)
(* factors are fractions, so that only the rounding of the code is left.   *)
(***************************************************************************)
EXTENDS Resources

CONSTANTS
    Mebibyte,           \* bytes
    Precision,
    MaxInt              \* largest 64-bit integer

ASSUME SizingAssumption ==
    {Mebibyte, Precision, MaxInt} \subseteq Nat \ {0}

Smaller(a, b) == IF a < b THEN a ELSE b

\* a / b rounded up, of natural numbers.
CeilDiv(a, b) == (a + b - 1) \div b

\* A Policy's configuration of a resource, its defaults explicit
\* (WithDefaults).  min, max and anchor may be nil; the ratio and the anchor,
\* in percent, are fractions.
Strategies == {"keepLimit", "noLimit", "equalsToRequest", "requestsLimitsRatio",
               "keepLimitRequestRatio"}

Configs == [resource : {"cpu", "memory"}, keepRequest : BOOLEAN, headroom : Nat,
            min : Nat \cup {Nil}, max : Nat \cup {Nil}, strategy : Strategies,
            ratio : [num : Nat, den : Nat \ {0}], coordinated : BOOLEAN,
            anchor : 0..100 \cup {Nil}]

\* The autoscaler of a workload; a target of zero is none on the resource.
Scalers == [target : Nat, current : Nat, min : Nat, max : Nat]

NoScaler == [target |-> 0, current |-> 0, min |-> 0, max |-> 0]

\* What is known of a container's OOM kills; peak may be nil.
OOMs == [kills : Nat, peak : Nat \cup {Nil}, limit : Nat, live : BOOLEAN]

-----------------------------------------------------------------------------
recent(o) == o.kills > 0 \/ o.live

\* oomBumpFactor: six fifths.
Bumped(limit) == (limit * 6) \div 5

anchored(o) == o.limit > 0 \/ o.peak # Nil

\* OOM.floor: the higher of the peak and the bumped limit.
floor(o) == Larger(Bumped(o.limit), Value(o.peak))

\* The maximum wins a conflict.
clamp(q, minQ, maxQ) ==
    LET raised == IF minQ # Nil THEN Larger(q, minQ) ELSE q
    IN  IF maxQ # Nil THEN Smaller(raised, maxQ) ELSE raised

withHeadroom(resource, v, headroom) ==
    IF resource = "cpu"
    THEN Larger(CeilDiv(v * (100 + headroom), 100 * Precision), 1)
    ELSE Larger(CeilDiv((v * (100 + headroom)) \div 100, Mebibyte), 1) * Mebibyte

\* overheadTargetMin..overheadTargetMax and overheadSafetyMarginPct.
applyOverhead(q, target) ==
    IF target <= 0 THEN q ELSE CeilDiv(q * 110, Smaller(target, 99))

\* math.Round of min + anchor * (max - min).
TargetReplicas(anchor, s) ==
    ((s.min * 100 + anchor * (s.max - s.min)) * 2 + 100) \div 200

\* The factor current / target replicas, between one half and two.
applyReplicaCorrection(q, anchor, s) ==
    LET t == TargetReplicas(anchor, s)
    IN  IF s.max <= s.min \/ s.current <= 0 \/ t <= 0 THEN q
        ELSE IF 2 * s.current <= t THEN CeilDiv(q, 2)
        ELSE IF s.current >= 2 * t THEN 2 * q
        ELSE CeilDiv(q * s.current, t)

\* coordinate: explicit bounds survive it.
coordinate(q, cfg, s) ==
    IF ~cfg.coordinated \/ s = NoScaler THEN q
    ELSE LET scaled == applyOverhead(q, s.target)
         IN  clamp(IF cfg.resource = "cpu" /\ cfg.anchor # Nil
                   THEN applyReplicaCorrection(scaled, cfg.anchor, s) ELSE scaled,
                   cfg.min, cfg.max)

-----------------------------------------------------------------------------
\* The contributions to the request: the usage, nil when there is none, and
\* for memory the floor of a recent kill.  An unanchored floor is zero.
justified(cfg, usage, o) ==
    \/ usage # Nil
    \/ cfg.resource = "memory" /\ recent(o) /\ anchored(o)

requestOf(cfg, usage, o) ==
    IF cfg.resource = "memory" /\ recent(o) THEN Larger(Value(usage), floor(o))
    ELSE Value(usage)

\* size, the request side.
Request(cfg, usage, o, s) ==
    coordinate(clamp(withHeadroom(cfg.resource, requestOf(cfg, usage, o), cfg.headroom),
                     cfg.min, cfg.max), cfg, s)

\* A float beyond the integers converts to whatever the build's instruction
\* gives: the smallest integer, or the largest.
Converted(x) == IF x <= MaxInt THEN {x} ELSE {-MaxInt - 1, MaxInt}

\* scaleByRatio, for a request of the resource's own units.
scaleByRatio(request, num, den) == Converted(CeilDiv(request * num, den))

\* The limits a strategy may derive: whether the recommendation sets one,
\* which one, the container's own when not, and whether it is removed.
Keeping(own) == {[set |-> FALSE, value |-> IF own.lim = 0 THEN Nil ELSE own.lim,
                  removed |-> FALSE]}

Setting(values) == {[set |-> TRUE, value |-> v, removed |-> FALSE] : v \in values}

Strategy(cfg, request, own) ==
    CASE cfg.strategy = "keepLimit"       -> Keeping(own)
      [] cfg.strategy = "noLimit"         ->
            {[set |-> FALSE, value |-> Nil, removed |-> TRUE]}
      [] cfg.strategy = "equalsToRequest" -> Setting({request})
      [] cfg.strategy = "requestsLimitsRatio" ->
            Setting(scaleByRatio(request, cfg.ratio.num, cfg.ratio.den))
      [] OTHER -> IF Value(own.lim) = 0 \/ Value(own.req) = 0 THEN Keeping(own)
                  ELSE Setting(scaleByRatio(request, own.lim, own.req))

\* Mutant: the limit is what its strategy says.
guardNot(l, request) == l

\* A limit below the request is raised to it.
guard(l, request) ==
    IF l.value # Nil /\ l.value < request
    THEN [set |-> TRUE, value |-> request, removed |-> FALSE] ELSE l

\* limitChain.  No signal adjusts limits.
Limits(cfg, request, own) == {guard(l, request) : l \in Strategy(cfg, request, own)}

\* What a recommendation carries of the request and a limit.
Recommendation(request, l) ==
    [req |-> request, lim |-> IF l.set THEN l.value ELSE Nil,
     remove |-> ~l.set /\ l.removed]

Nothing == [req |-> Nil, lim |-> Nil, remove |-> FALSE]

\* size: what may be recommended.  A kept request keeps its limit too.
Sized(cfg, usage, o, s, own) ==
    IF ~justified(cfg, usage, o) \/ cfg.keepRequest THEN {Nothing}
    ELSE LET request == Request(cfg, usage, o, s)
         IN  {Recommendation(request, l) : l \in Limits(cfg, request, own)}

-----------------------------------------------------------------------------
\* Whatever the strategy and however its limit converts, no container ends up
\* with a limit below the request, its own included, which the API server
\* would reject (docs/adr/0005).
LimitCovers(r, own) ==
    r.req # Nil =>
        IF r.lim # Nil THEN r.lim >= r.req
        ELSE r.remove \/ Value(own.lim) = 0 \/ own.lim >= r.req

\* An operator's bounds hold of the final request, coordinated or not.
InBounds(cfg, r) ==
    r.req # Nil =>
        /\ cfg.max # Nil => r.req <= cfg.max
        /\ cfg.min # Nil /\ (cfg.max = Nil \/ cfg.min <= cfg.max) => r.req >= cfg.min
=============================================================================
