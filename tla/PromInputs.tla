----------------------------- MODULE PromInputs -----------------------------
(***************************************************************************)
(* FetchInputs and FetchHistory (internal/recommender/prom_inputs.go) over *)
(* the Prometheus client of Breaker.  One fetch reads the signals one      *)
(* after the other, each as shards planned for it (internal/prometheus,    *)
(* shard.go); a goroutine reads a shard, twice if it must, and then each   *)
(* of its identities alone.  A query is the set of the identities it       *)
(* selects, and is the client's caller while it runs.                      *)
(*                                                                         *)
(* Identities are numbered in the order of their names.                    *)
(***************************************************************************)
EXTENDS Breaker, Sequences

CONSTANTS
    Identities,
    Group,              \* each identity's namespace and owner kind
    Malformed,          \* identities with an empty namespace, kind or name
    Sizes,              \* what a caller may say of their containers, 0 unknown
    Instants,           \* how many instants a fetch may read
    Required,           \* each signal's failure policy, in order
    Samples,            \* each signal's samples per container
    HasHistory,         \* whether a history read of the signal runs two queries
    MaxSamples, MaxShardMembers,
    ShardConcurrency, FallbackConcurrency,
    Unanswerable,       \* <<signal, query>> that Prometheus always fails
    Happens             \* what happens outside: "outage", "cancel"

Queries == (SUBSET (Identities \ Malformed)) \ {{}}

ASSUME FetchAssumption ==
    /\ IsFiniteSet(Identities) /\ Identities = 1..Cardinality(Identities)
    /\ Malformed \subseteq Identities
    /\ Sizes \subseteq [Identities -> Nat]
    /\ Required \in Seq(BOOLEAN) /\ Len(Required) > 0
    /\ Samples \in [1..Len(Required) -> Nat]
    /\ Callers = Queries
    /\ Instants \subseteq Nat \ {0}
    /\ {MaxSamples, MaxShardMembers, ShardConcurrency, FallbackConcurrency} \subseteq Nat \ {0}

VARIABLES
    signal,             \* the signal being read, 0 between fetches
    size, points,       \* what this fetch asks for
    plan,               \* the signal's shards
    open,               \* queries whose read has not ended
    tried,              \* those that failed once
    halfway,            \* those whose history query is next
    got,                \* the signals set in each identity's inputs
    errs, failed,       \* identities the signal, and a required one, failed for
    answer,             \* each identity's result of the last fetch
    cancelled,          \* the fetch's context has ended
    excused             \* history: the client itself turned a query away

fvars == <<signal, size, points, plan, open, tried, halfway, got, errs, failed,
           answer, cancelled, excused>>
pvars == <<vars, fvars>>

\* The parts of fvars that a query's steps leave alone.
Fetch == <<signal, size, points, plan, failed, answer, cancelled>>

-----------------------------------------------------------------------------
\* A member's cost, with sz for the containers of each identity.
Cost(i, sz, samples) ==
    (IF sz[i] > 0 THEN sz[i] ELSE 1) * (IF samples > 0 THEN samples ELSE 1)

\* Mutant: the cost is compared before the member is added.
FitsLate(names, total, cost) ==
    names = {} \/ (total <= MaxSamples /\ Cardinality(names) < MaxShardMembers)

\* A shard grows in name order until the next member would exceed a bound.
Fits(names, total, cost) ==
    names = {} \/ (total + cost <= MaxSamples /\ Cardinality(names) < MaxShardMembers)

\* The next name joins the shard being filled, or closes it.
Add(acc, i, cost) ==
    IF Fits(acc.names, acc.total, cost)
    THEN [acc EXCEPT !.names = @ \cup {i}, !.total = @ + cost]
    ELSE [done |-> acc.done \cup {acc.names}, names |-> {i}, total |-> cost]

\* What each name, in order, leaves of the loop over the members.
Packing(members, sz, samples) ==
    LET packed[n \in 0..Cardinality(Identities)] ==
          IF n = 0 THEN [done |-> {}, names |-> {}, total |-> 0]
          ELSE IF n \in members THEN Add(packed[n - 1], n, Cost(n, sz, samples))
          ELSE packed[n - 1]
    IN  packed

\* The shards of one namespace and kind.
Pack(members, sz, samples) ==
    LET end == Packing(members, sz, samples)[Cardinality(Identities)]
    IN  (end.done \cup {end.names}) \ {{}}

BuildShards(cands, sz, samples) ==
    UNION {Pack({i \in cands \ Malformed : Group[i] = g}, sz, samples) :
              g \in {Group[i] : i \in cands}}

\* plan: an identity of unknown size gets a shard of its own.
PlanOf(sz, samples) ==
    LET unsized == {i \in Identities : sz[i] = 0}
    IN  BuildShards(Identities \ unsized, sz, samples)
          \cup UNION {BuildShards({i}, sz, samples) : i \in unsized}

-----------------------------------------------------------------------------
\* The shard a query reads, or falls back from.
ShardOf(q) == CHOOSE shard \in plan : q \subseteq shard

Started(q) == q \notin open \/ at[q] # "idle" \/ q \in tried \/ q \in halfway

\* Shards whose goroutine runs, and the fallback reads of one.
Running == {shard \in plan : Started(shard) /\ \E q \in open : q \subseteq shard}
Fallbacks(shard) == {q \in open \ {shard} : q \subseteq shard /\ Started(q)}

\* Mutant: a fallback read takes its place from the goroutine waiting for it.
MayStartSameGroup(q) ==
    \/ Started(q)
    \/ q \in plan /\ Cardinality(Running) < ShardConcurrency
    \/ /\ q \notin plan
       /\ Cardinality({ShardOf(q)} \cup Fallbacks(ShardOf(q))) < FallbackConcurrency

\* The errgroups' limits.
MayStart(q) ==
    \/ Started(q)
    \/ q \in plan /\ Cardinality(Running) < ShardConcurrency
    \/ q \notin plan /\ Cardinality(Fallbacks(ShardOf(q))) < FallbackConcurrency

Asks(q) == signal # 0 /\ q \in open /\ at[q] = "idle" /\ MayStart(q)

\* Mutant: a shard that fails twice fails its identities.
FallbackNone(q) == {}

\* What a failed query is re-queried as.
Fallback(q) ==
    IF Cardinality(q) = 1 \/ cancelled THEN {} ELSE {{i} : i \in q}

\* run and what follows it: the read of q failed, and is tried again once
\* unless the context ended, then falls back, then fails.
ReadFails(q) ==
    /\ halfway' = halfway \ {q}
    /\ IF q \notin tried /\ ~cancelled
       THEN tried' = tried \cup {q} /\ UNCHANGED <<open, errs>>
       ELSE /\ tried' = tried \ {q}
            /\ open' = (open \ {q}) \cup Fallback(q)
            /\ errs' = IF Fallback(q) = {} THEN errs \cup q ELSE errs
    /\ UNCHANGED <<Fetch, got>>

\* apply, under the lock, once every query of the read succeeded.
ReadEnds(q) ==
    /\ IF points > 1 /\ HasHistory[signal] /\ q \notin halfway
       THEN halfway' = halfway \cup {q} /\ UNCHANGED <<open, tried, got>>
       ELSE /\ got' = [i \in Identities |->
                          IF i \in q THEN got[i] \cup {signal} ELSE got[i]]
            /\ open' = open \ {q}
            /\ tried' = tried \ {q} /\ halfway' = halfway \ {q}
    /\ UNCHANGED <<Fetch, errs, excused>>

\* The client lets the query through, or refuses it at once.
Allowed(q) == Asks(q) /\ allow(q) /\ UNCHANGED fvars

Refused(q) ==
    /\ Asks(q) /\ isOpen
    /\ ReadFails(q)
    /\ excused' = TRUE
    /\ UNCHANGED vars

Queued(q) == TakeSlot(q) /\ UNCHANGED fvars

\* Only a full semaphore keeps a query waiting until its queue timeout.
QueueAborted(q) ==
    /\ cancelled \/ Cardinality(Holders) >= MaxInflight
    /\ AbortQueued(q)
    /\ ReadFails(q)
    /\ excused' = TRUE

Rechecked(q) ==
    /\ Recheck(q)
    /\ IF MayQuery(q) THEN UNCHANGED fvars ELSE ReadFails(q) /\ excused' = TRUE

Answered(q) ==
    /\ <<signal, q>> \notin Unanswerable
    /\ Succeeds(q)
    /\ ReadEnds(q)

\* Prometheus is down or too slow, cannot answer this query, or the caller
\* gave up.
QueryFailed(q) ==
    /\ <<signal, q>> \in Unanswerable \/ ~healthy \/ cancelled
    /\ Fails(q)
    /\ ReadFails(q)
    /\ excused' = (excused \/ ~healthy \/ cancelled)

ReadStep(q) ==
    \/ Allowed(q) \/ Refused(q) \/ Queued(q) \/ QueueAborted(q)
    \/ Rechecked(q) \/ Answered(q) \/ QueryFailed(q)

-----------------------------------------------------------------------------
\* A signal's shards start.
Shards(s, sz, pts) ==
    /\ plan' = PlanOf(sz, Samples[s] * pts)
    /\ open' = plan'
    /\ tried' = {} /\ halfway' = {} /\ errs' = {}

\* FetchInputs, or FetchHistory when it reads several instants.
Begin ==
    /\ signal = 0
    /\ signal' = 1
    /\ \E sz \in Sizes, pts \in Instants :
          size' = sz /\ points' = pts /\ Shards(1, sz, pts)
    /\ got' = [i \in Identities |-> {}]
    /\ failed' = {} /\ cancelled' = FALSE /\ excused' = FALSE
    /\ answer' = [i \in Identities |-> "none"]
    /\ UNCHANGED vars

\* Mutant: a failed best-effort signal fails the identity.
FailingAny(s) == errs

\* The identities the signal fails.
Failing(s) == IF Required[s] THEN errs ELSE {}

\* The signal's errors are in, and the next one starts.
NextSignal ==
    /\ signal \in 1..(Len(Required) - 1) /\ open = {}
    /\ failed' = failed \cup Failing(signal)
    /\ signal' = signal + 1
    /\ Shards(signal', size, points)
    /\ UNCHANGED <<vars, size, points, got, answer, cancelled, excused>>

\* The last one's are, and the fetch returns.
End ==
    /\ signal = Len(Required) /\ open = {}
    /\ failed' = failed \cup Failing(signal)
    /\ answer' = [i \in Identities |-> IF i \in failed' THEN "error" ELSE "inputs"]
    /\ signal' = 0 /\ plan' = {}
    /\ UNCHANGED <<vars, size, points, open, tried, halfway, got, errs,
                   cancelled, excused>>

Cancel ==
    /\ "cancel" \in Happens /\ signal # 0 /\ ~cancelled
    /\ cancelled' = TRUE
    /\ UNCHANGED <<vars, signal, size, points, plan, open, tried, halfway, got,
                   errs, failed, answer, excused>>

Prometheus == "outage" \in Happens /\ HealthChanges /\ UNCHANGED fvars

CoolsDown == Tick /\ UNCHANGED fvars

FInit ==
    /\ Init /\ healthy = TRUE
    /\ signal = 0 /\ size \in Sizes /\ points = 1
    /\ plan = {} /\ open = {} /\ tried = {} /\ halfway = {}
    /\ got = [i \in Identities |-> {}]
    /\ errs = {} /\ failed = {}
    /\ answer = [i \in Identities |-> "none"]
    /\ cancelled = FALSE /\ excused = FALSE

FNext ==
    \/ Begin \/ NextSignal \/ End \/ Cancel \/ Prometheus \/ CoolsDown
    \/ \E q \in Queries : ReadStep(q)

FSpec == FInit /\ [][FNext]_pvars

\* Goroutines run, waits for a slot end by a timeout, and so do queries.  The
\* passes fetch again and again, and cooldowns end.
FFairSpec ==
    /\ FSpec
    /\ WF_pvars(Begin \/ NextSignal \/ End) /\ WF_pvars(CoolsDown)
    /\ \A q \in Queries : WF_pvars(ReadStep(q))

-----------------------------------------------------------------------------
\* The signals an identity lost: an earlier one that set no values, and the
\* current one if its query failed.  A malformed identity is not queried and
\* counts as read.
LostOf(i) ==
    IF i \in Malformed THEN {}
    ELSE LET read == 1..(IF signal = 0 THEN Len(Required) ELSE signal - 1)
             failing == IF signal # 0 /\ i \in errs THEN {signal} ELSE {}
         IN  IF signal = 0 /\ answer[i] = "none" THEN {}
             ELSE (read \ got[i]) \cup failing

\* PromInputs keeps FetchInputs' promise.
Promise == INSTANCE Inputs WITH
    Askable <- Identities \ Malformed,
    unread <- UNION open,
    lost <- [i \in Identities |-> LostOf(i)],
    gaveUp <- cancelled

-----------------------------------------------------------------------------
\* Every variable has its type.
FTypeOK ==
    /\ TypeOK
    /\ signal \in 0..Len(Required)
    /\ size \in Sizes /\ points \in Instants \cup {1}
    /\ plan \subseteq Queries
    /\ open \subseteq Queries
    /\ tried \subseteq open /\ halfway \subseteq open
    /\ got \in [Identities -> SUBSET (1..Len(Required))]
    /\ errs \subseteq Identities /\ failed \subseteq Identities
    /\ answer \in [Identities -> {"none", "inputs", "error"}]
    /\ cancelled \in BOOLEAN /\ excused \in BOOLEAN

\* What identities cost together, and under the current fetch.
SumOf(some, sz, samples) ==
    LET sum[n \in 0..Cardinality(Identities)] ==
          IF n = 0 THEN 0
          ELSE sum[n - 1] + IF n \in some THEN Cost(n, sz, samples) ELSE 0
    IN  sum[Cardinality(Identities)]

Total(some) == SumOf(some, size, Samples[signal] * points)

\* i is the first name after the shard's of those it was packed from.
Follows(i, shard, sz) ==
    LET mates == {j \in Identities \ Malformed : sz[j] # 0 /\ Group[j] = Group[i]}
    IN  /\ i \in mates /\ shard \subseteq mates
        /\ \A j \in shard : j < i
        /\ \A k \in mates : k < i => \E j \in shard : k <= j

\* The plan reads every well-formed identity once, never across groups, within
\* the sample budget and the member cap unless one identity alone exceeds it,
\* an identity of unknown size alone, and closes a shard only when the next
\* name would not have fitted (BuildShards, plan).
ShardsFit ==
    signal # 0 =>
       /\ UNION plan = Identities \ Malformed
       /\ \A s, t \in plan : s # t => s \cap t = {}
       /\ \A s \in plan :
             /\ \A i, j \in s : Group[i] = Group[j]
             /\ Cardinality(s) > 1 =>
                  /\ Total(s) <= MaxSamples /\ Cardinality(s) <= MaxShardMembers
                  /\ \A i \in s : size[i] # 0
             /\ \A i \in Identities : Follows(i, s, size) =>
                   Total(s \cup {i}) > MaxSamples \/ Cardinality(s) >= MaxShardMembers

\* Shards, retries, fallbacks and the shared client never show: a fetch
\* answers as if each identity had been read on its own (FetchInputs,
\* fetchSignals, eachShard).
KeepsPromise == Promise!ASpec

\* An identity is denied its inputs only when its own query for a required
\* signal cannot be answered, or when the client turned a query away: the
\* circuit was open, the wait for a slot ran out, Prometheus was down or the
\* caller gave up (eachShard).
DeniedForCause ==
    signal = 0 /\ ~excused =>
       \A i \in Identities : answer[i] = "error" =>
          \E s \in 1..Len(Required) : Required[s] /\ <<s, {i}>> \in Unanswerable

\* Every fetch returns, however its queries fail and whatever the breaker and
\* the semaphore do to them.
EveryFetchEnds == signal # 0 ~> signal = 0

\* The circuit never stays shut to everyone: as long as fetches go on and are
\* not given up, queries reach Prometheus again and again, whatever made the
\* earlier ones fail.  A probe holder that checked isOpen would be refused by
\* the cooldown it started itself, forever (allow, acquire).
ProbesGetThrough ==
    \/ []<>(\E q \in Queries : at[q] = "querying")
    \/ []<>cancelled
=============================================================================
