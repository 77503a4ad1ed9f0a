# TLA+ verification of k8s-sustain

k8s-sustain rightsizes Kubernetes workloads. A controller reconciles `Policy`
objects: each pass reads an inventory of workload identities, computes a
Recommendation for every identity the Policy governs, stores it in the
identity's `WorkloadRecommendation` and applies it to running pods. An
admission webhook reads the stored object and injects it into new pods. A
dashboard shows the result. This directory models the concurrent core of that
system, checks it with TLC and proves its safety with TLAPS.

## Inventory

| Component | State | Operations | Hard behaviour |
|---|---|---|---|
| `internal/wlrcache` | the `WorkloadRecommendation`: spec.policy, policy label, outcome, departed, computedBy, containers, observed snapshot, observedAt, servableUntil | `Request`, `Ensure`, `Record`, `Read`, `Sweep`, `Release`, `Reap` | merge patches without precondition from copies of any age; deletes at the judged revision; windows stamped by one process and read by another |
| `internal/controller` pass | per Policy: snapshot, work-list, claims, decisions | `Reconcile`, `runPass`, `claim`, `recommend`, `record`, `recordConflicted`, sweep, finalizer | up to `PolicyConcurrencyLimit` passes overlap; an identity moves between Policies; calls fail; the process restarts |
| `internal/controller` orphan reaper | none | `reap` on a ticker | races adoption and Policy creation, on lagging caches |
| `internal/webhook` | stub claims, write slots, stop flag, owner caches | `decide`, `requestRecommendation`, `Shutdown` | two writes per stub; expiring claims; shutdown against detached goroutines |
| `internal/inventory` | none | `Take`, `TakeForPolicy`, `settle` | a snapshot mixes caches of different ages |
| `internal/governance` | compiled Policies | `Decide`, `List` | opt-in levels, refusals, an unparsable selector |
| `internal/ledger` | per member: failures, retry due, pod counts; per Policy: claims | `MayRun`, `Settle`, `Forget`, `RequeueAfter` | members claimed by two Policies; exponential backoff |
| `internal/oomwatch` | kill records, resolved marks | `Record`, `MarkResolved`, `Reconcile` | duplicated and replayed pod events of pods with several containers; eviction at the limit; one count per kill |
| `internal/workload` patcher | changes of one apply | `Apply`, `recycle`, `waitForReplacement`, in-place resize | pods crash, move and are replaced, early or late, during a recycle; a pod is resized in two calls |
| `internal/cache` | LRU entries, flights | `Get`, `SetIfAbsent`, `DeleteIf`, `join`, `lead` | cancelled or panicking leaders |
| `internal/prometheus` | breaker, inflight slots | `allow`, `success`, `failure`, `acquire` | half-open probe, late results |
| `internal/recommender` inputs | per fetch: shards, errors, inputs | `FetchInputs`, `FetchHistory`, `BuildShards`, `eachShard` | shards fail, are retried and fall back to single reads under two limits and the breaker |
| `internal/recommender` sizing, `internal/autoscaler` | none, a per-namespace snapshot | `Compute`, `limitChain`, `coordinate`, `Assemble` | quantities at boundaries |
| `internal/controller` publisher | published series per Policy and identity | `publish`, `forget`, `observedOOM` | identities moving between concurrent publishers |
| `internal/dashboard`, `internal/config`, `cmd` | caches of views, flags | HTTP handlers, wiring | none modelled |

Components interact through the API server (controller, webhook and reaper
write the same object), through informer caches (every reader lags on its
own), and in process: the pass asks the inventory, the recommender, the ledger
and the patcher, and reports to the publisher; the OOM watcher triggers passes.

What makes each correct:

- wlrcache and passes: a pod is served only numbers its own Policy computed,
  computed recently, and in the end the current ones; no delete destroys an
  object that was adopted, is still served, or is newer than the snapshot; a
  released or forgotten Policy leaves nothing behind. *(modelled here)*
- ledger: a failing member is retried after its delay and never before; moving
  between Policies loses no backoff; a member nobody claims is forgotten.
  *(modelled here)*
- stub requests: at most one request per key and claim, bounded writers, none
  left running after a completed shutdown. *(modelled here)*
- governance: webhook and controller agree on who governs a pod; a decision
  made early is the one made with everything read; an admission decides with
  recent annotations and fails only for a cause of its own. *(modelled here)*
- oomwatch: a kill is reported once but for known exceptions, escaped by the
  next recommendation, and in the end settled; what it raises rests on a limit
  that was really applied. *(modelled here)*
- recycle: a pass evicts again only once the pods it evicted are gone and the
  replacements it could see have been Ready, evicts for requests only, reports
  true counts, and passes bring every pod up to date. *(modelled here)*
- read-through: no caller hangs, fails for another's sake or gets a value older
  than the TTL and one fetch. *(modelled here)*
- inputs fetch: every identity is answered as if it had been read alone; a
  shard keeps to its budget; every fetch ends. *(modelled here)*
- breaker: open exactly after enough failures, never wedged open, only probes
  meanwhile. *(modelled here)*
- publisher: a series exists only while some Policy includes what it describes.
  *(modelled here)*
- recommender: a limit is never below its request, and the operator's bounds
  survive every later adjustment. *(modelled here)*

## Plan

Order of the modules, most important first:

1. `WLR` (operators) and `Lifecycle` (the state machine). **Done**, with proofs.
2. `Ledger` (operators) and `Passes` (the reconciles around it). **Done**, with
   proofs.
3. `Publisher` (operators) and `Series` (`Passes` with the publisher and the OOM
   watcher). **Done**, with proofs.
4. `LRU` (operators) and `StubRequests`: claims with expiry, slots, shutdown.
   **Done**, with proofs.
5. `Breaker`, with the client's slots. **Done**, with proofs.
6. `Resources` (operators) and `Recycle`: evictions and in-place resizes of one
   member's pods under crashes. **Done**, with proofs.
7. `Sizing` (operators) and `OOMWatch`: pod events, kill records, resolved marks,
   restarts, and the passes that size from them. **Done**, with proofs.
8. `ReadThrough` over the LRU, `Governance` (the opt-in walk) and `Admission`,
   which composes them with `StubRequests`. **Done**, with proofs.
9. `Inputs` (what a fetch promises) and `PromInputs`, which refines it over
   `Breaker`. **Done**, with proofs, the refinement included.
10. An abstract specification of serving (what a pod of a Policy may be given)
   that `Lifecycle` under one worker and current caches refines.

Worth proving next: the refinement of item 10, for which the invariant behind
`ServedByItsPolicy` is the starting point.

## Modules

`WLR` holds the pure part of `internal/wlrcache`: the object and what each
writer and reader makes of it. One operator per function, named after it where
TLA+ allows: `ServableUntil`, `Stamp`, `LastComputed`, `ShouldRequest`,
`StatusEquivalent`, `Read`, `Expired`; `NeedsClaim`/`NeedsEnsure`/
`EnsureStatus` are the branches of `Ensure`, `RecordStatus` the status `Record`
desires, `PatchStatus`, `Sent` and `SentSet` the API server applying a JSON
merge patch of a difference.

`Lifecycle` runs them for one identity. Its variables are the stored object
(`obj`, with `rev` the API server's counter), the Policies (`pol`), the live
members (`members`), what each Policy's recommender would decide (`inputs`),
the controller's and the webhook's informer caches (`ccache`, `wcache`), each
Policy's pass in progress (`pass`, whose `pc` is the next call it makes), the
webhook's stub between its two writes (`stub`), the clock (`now`), the budget
of environment events (`events`) and one history variable, `computedAt`, the
latest instant a Computed decision was recorded or confirmed.

| Action | Code |
|---|---|
| `TakeSnapshot` | `Reconcile` up to `TakeForPolicy`, adding the finalizer; `workList` |
| `RecordConflicted` | `recordConflicted` |
| `EnsureCreate`, `EnsureBlind`, `EnsureAdopt`, `EnsureOwn`, `EnsureSnapshot` | the branches of `wlrcache.Ensure`, one per API call |
| `Recommend`, `BackedOff`, `Record` | `recommend`, a work-list left to retry, `record` and `wlrcache.Record` |
| `Sweep`, `Release`, `RemoveFinalizer`, `Reap` | the delete paths and the finalizer |
| `Admit`, `StubSnapshot` | `decide`'s request and the two writes of `wlrcache.Request` |
| `CallFails`, `ControllerRestarts`, `WebhookRestarts` | errors, lost answers and crashes |
| `MembersChange`, `InputChanges`, `PolicyChanges`, `Tick` | users, metrics and time |
| `SeeRecommendation`, ... | watches delivering to one informer |

`MCLifecycle` instantiates it for TLC. `WLRProofs` and `LifecycleProofs` hold
the proofs, and so do `PassesProofs` (of `Passes` and `Series`),
`AdmissionProofs`, `RecycleProofs`, `OOMWatchProofs`, `PromInputsProofs` (of
`Breaker` too) and `GovernanceProofs` for the modules below. Operators with a comment starting "Mutant" are deliberately wrong
variants of the definition below them, used to confirm that each property can
fail.

`Ledger` holds the operators of `internal/ledger`: `MayRun`, `FailureOf`
(`failLocked`), `Recorded` (`recordLocked`), `Forgotten` (`claimLocked`),
`BlockedOn` and `Measured` (`healthLocked`), `requeueAfter`. Durations have a
width, so that the doubling delay can wrap. `Passes` runs them: the work queue
(`queued`, `wake`), each Policy's reconcile (`pass`, whose `next` is its next
call), the ledger (`members`, `claims`), the Policies and governance as the
informers show them, and `failedBy`, a history variable naming the Policy whose
pass last failed a member.

| Action of `Passes` | Code |
|---|---|
| `FindGone`, `Cleanup`, `CleanupAgain`, `CleanupFails` | `Reconcile` of a missing or deleted Policy |
| `List`, `ListFails` | `TakeForPolicy` |
| `WorkList` | `workList` and its `MayRun` calls |
| `Settle` | `apply`'s results, `Ledger.Settle`, `passCondition` |
| `PublishPass`, `Requeue` | the rest of `Reconcile` |

`Publisher` holds the operators of `controller/publisher.go`; `Series` composes
them with `Passes`: a publisher call belongs to the step of the pass that makes
it, and `Kill`, `CountKill`, `TriggerPass` are the OOM watcher's calls; the
trigger queues the Policy.

`Breaker` is the circuit breaker and the in-flight slots of
`internal/prometheus`, with callers that pass `allow`, queue, are re-checked
and answer. `Inputs` is the promise of a fetch: signal by signal, every identity is read or loses the signal on its own,
and the answer is an error exactly for those that lost a required one.
`PromInputs` is `FetchInputs` and `FetchHistory` over `Breaker`: a query is the
set of identities it selects, and is the client's caller while it runs.
`PlanOf`, `BuildShards`, `Pack`, `Fits` and `Cost` are the planning of shards;
`Packing` is the loop over the names, one `Add` per turn.
`Promise == INSTANCE Inputs WITH ...` maps the queries still open to the
identities still unread and the signals that set no values to the signals lost;
`KeepsPromise` is the refinement.

| Action of `PromInputs` | Code |
|---|---|
| `Begin`, `NextSignal`, `End` | `FetchInputs`, one signal after the other, the failure policy of each |
| `Allowed`, `Refused`, `Queued`, `QueueAborted`, `Rechecked` | the client's `allow` and `acquire` |
| `Answered`, `QueryFailed` | the end of a query; `ReadFails` the retry, the fallback and the error, `ReadEnds` the second query of a history and `apply` |
| `Cancel`, `Prometheus`, `CoolsDown` | the caller's context, an outage, time |

`LRU` holds the operators of `internal/cache/lru.go`. `StubRequests` is the
webhook's detached requests over it: `Begin` is `beginStubRequest`,
`AcquireSlot`/`GiveUp`/`Write` the goroutine, `Stop`/`Drained`/`DrainTimesOut`
`Shutdown`. `ReadThrough` is `internal/cache/readthrough.go`: `Look` is `Get`'s
lookup, `Join` is `join`, and `Read`, `Arrive`, `FetchFails`, `FetchTimesOut`
and `Retire` are the flight, `Leave` a caller whose context ends. `Governance`
is `Decide` as a function of what the walk has read so far: it returns the
decision, or the read it needs next. `Admission` composes the three: an
admission walks (`ReadNext`, `JoinFlight`, `Governs`, `Refuses`, `Fails`,
`Late`, `Cancelled`), reading through the two owner caches, and one that is
governed may begin a stub request.

`Resources` is what a recommendation changes on a container (`inject.go`,
`match.go`): `Applied`, `Change`, `Clamped` (the downsize threshold), `PlanFor`.
`Recycle` is `Apply` over the pods of one member, each with regular containers
and sidecars.

| Action of `Recycle` | Code |
|---|---|
| `ApplyNothing`, `Start`, `End` | `Apply`'s early returns, its list, its count |
| `LeaveAlone` | a pod with nothing to submit; those the loop skips are left out of `Start`'s list |
| `Resized`, `ResizeInvalid`, `ResizeGone`, `ResizeFails` | `submitInPlaceResize` and its answers |
| `SidecarsResized`, `SidecarsNotAccepted` | `applySidecarResize`, the second call |
| `EvictionPinned`, `EvictionHalted`, `Evicted`, `EvictionGone`, `EvictionBlocked` | `submitEviction` and its answers |
| `WaitOver`, `WaitAborted`, `WaitTimesOut`, `Interrupted` | `waitForReplacement` |
| `Create`, `Remove`, `Drain`, `Schedule`, `BecomeReady`, `Crash`, `Recover`, `Enact`, `Refuse`, `Recommend` | the cluster, external to the code |

`Sizing` is the recommender's arithmetic: `Request` (headroom, clamp,
coordination) and `Limits` (the strategies and the guard), with the rounding of
the code and a float beyond the integers converting to either extreme, as Go
leaves that to the platform. `OOMWatch` is the watcher, its cache, the pass
that reads it and the pods whose limits that pass sets in turn.

| Action of `OOMWatch` | Code |
|---|---|
| `BeginNothing`, `Begin` | `Reconcile` up to the reads: the kills, which of them `AlreadyResolved`, their limits |
| `OwnerUnresolved`, `DecideFails` | the reads fail, with `ownerRetryAfter` |
| `Ungoverned`, `Governed` | the decision: `MarkResolved` of all the kills |
| `RecordAgain`, `Record` | one turn of the loop over all the kills: `Cache.Record` of the same kill and of another |
| `Fire`, `Restart`, `Sweep` | a timed requeue, the process, the cache's ticker |
| `Assemble`, `Compute`, `Publish` | a pass: `Assemble`, `withLiveOOMs` over `ByWorkload`, `size`, the stored outcome |
| `Killed`, `Ask`, `Enact`, `Touch`, `Delete`, `Tick` | pods and time, external |

### Abstractions of the other modules

- **Passes**: each ledger and publisher call is one step, as each holds its
  lock; reads of the informers happen with the list. A pass cut short by
  shutdown is left out: the ledger does not outlive the process.
- **Errors** are the set of causes in their tree; pod counts are whether there
  are any; a series is an owner and a metric, without its value.
- **`openUntil`** is the time left until it; failures past the limit are not
  told apart. The in-flight limit is at least one: without a limit nothing
  queues, and `acquire` does not check the breaker again.
- **A stub write** ends one way or another; what it stores is `Lifecycle`'s.
- **PromInputs**: identities are numbered 1 to n in the order of their names, and
  a query is a set of them; values are whether they were set. `excused` is
  history: the client itself turned a query away during this fetch.
- **Admission**: what goroutines do between two reads takes no time, and timers
  fire on time. Policies and Namespaces do not change during the observation;
  the annotations of workloads do. `until` and `fault` are history.
- **Recycle**: one resource per container, as CPU and memory go through the same
  steps apart from each other. Whether a pod is skipped is read off the list, so
  it is part of `Start`, and whether it is evicted is part of the eviction's
  answer: no other step sees the difference. Classic init containers do not
  count. Of the kubelet's verdicts `Error` is `Infeasible`, which the code treats
  alike. A pod may go before, while or after its replacement is created, whatever
  the kind; a StatefulSet's is created only once it is gone. A name a pass has
  not listed may be used again. `fresh`, `late` and `half` are history: the pods
  not Ready yet for the first time, those of them created since the pass last
  waited, and the pods whose sidecars alone stayed behind in the pass.
- **Sizing**: ratios and factors are fractions, so that only the rounding that
  the code does is left; percentiles are Prometheus'.
- **OOMWatch**: a pod has the containers of its workload, each showing at most
  its last kill, dated or not. A reconcile carries all the kills it found and
  decides on the unresolved ones. Steps that hold the cache's lock throughout are
  one step; `ByWorkload`, which takes the read lock and then the write lock, is
  two. The marks of one reconcile are one step, as nothing it waits for lies
  between them and in any order they leave the same newest ones. Its records are
  one step each, in any order, with time between: after each new one the watcher
  waits for room for its trigger. `told`, `settled`, `ran` and `shed` are
  history: what was reported of each kill and when, the kills dealt with, the
  limits each container has run with, and the kills whose marks were dropped for
  room.

### Abstractions of Lifecycle

- **One identity.** Identities share no object, and a pass treats them
  independently.
- **Numbers** are `[by, level]`: the Policy whose settings they were computed
  under and an opaque value. The snapshot is the set of container names.
- **Reads of caches** happen together with the API call that follows. An
  informer may lag arbitrarily, each on its own, so a longer gap between read
  and call is the same behaviour with the cache catching up later. What a
  process keeps across API calls (the object a claim returned, the snapshot's
  standing and instant, the instant `record` samples) is in `pass`.
- **A patch's answer** is the stored object, as the comments of `Ensure` say.
  controller-runtime decodes the answer into the caller's copy; a field the
  answer omits would keep its old value there. Treating the answer as complete
  is an assumption about that library.
- **A patch that changes nothing** leaves the resourceVersion alone.
- **Failures**: an API call that fails, or whose answer is lost after it took
  effect, is `CallFails` before or after the step that would have made it.
- **Policies** are a phase (`new` before the finalizer, `live`, `deleting`,
  `absent`) and whether they cover the identity's namespace and kind. A member
  whose labels a selector refuses is a member that opts into none.
  `RemoveFinalizer` applies to whatever deletion is pending by then.
- Left out: traces, the stub label, log lines, Kubernetes events, status
  conditions, the apply step (it changes pods, not the object).

## Runs

The runs of `MCLifecycle` take ten minutes as the unit of time: the refresh
interval, the sweep grace and the default reconcile interval are 1, the minimum
staleness 3, and retention is 4, one more than the staleness budget so that the
two windows differ. Each run enables the events (`Happens`) and the lagging
informers (`Lagging`) its question needs; `MaxEvents` bounds events and faults,
`MaxTime` the clock. Safety runs identify states that differ only in revision
numbers (`View`): a copy that is not at the stored revision never is again.

| Run | Checks | Instance |
|---|---|---|
| `served` | `InjectedIsRecent`, `ServedOnlyToItsPolicy`, `SweepSparesServed`, `SweepSparesNew` | two Policies, one worker, an unstamped object of an older release, a member change, failing call, recommender change, admission or webhook restart, the webhook's recommendation informer lagging; 6 time units: past the staleness budget and past retention |
| `handover` | `LabelFollowsSpec`, `DeletesOnlyJudged`, `ReleaseComplete`, `ConflictFreezes` | two Policies reconciled concurrently, members moving, Policies created, edited, deleted and forced away, restarts and admissions, lagging recommendation and Policy informers; the clock stands still, so that two events can interleave with every step |
| `converge` | `Converges` | two Policies, lagging recommendation and workload informers, a member change or a backoff |
| `orphans` | `OrphansGo` | Policies deleted and forced away, stubs for Policies already gone, restarts |
| `overlap` | `ServedOnlyToItsPolicy`, violated | two Policies, two workers |
| `retries` | `RetryWaits`, `RetryIsScheduled`, `KeptIsClaimed`, `BlockedIsKept` | `MCPasses`: two Policies, two members of one identity, three failures in a row, a Policy being deleted at the start or not, and a move, Policy event, failed list or failed deletion |
| `series` | `SeriesAreOwned`, `AbsentIsForgotten` | `MCSeries`: two Policies, one of them or both perhaps being deleted at the start, a move, Policy event or failed call, and a kill |
| `fetch` | `FTypeOK`, `ShardsFit`, `DeniedForCause`, `KeepsPromise`, `EveryFetchEnds`, `ProbesGetThrough` | `MCPromInputs`: four identities, one malformed, one whose required signal no query can read and one whose optional signal cannot be read alone, a required and an optional signal, one or two instants, known and unknown sizes, shards of at most two members, one slot, three failures to open, outages and cancellations without bound |
| `admission` | `ATypeOK`, `DrainedIsQuiet`, `OneRequestPerWindow`, `ReadsAreRecent`, `FailsForCause`, `EveryRequestEnds` | `MCAdmission`: three admissions of one Deployment, one of which has just asked, one slot, one entry per cache, an annotation, failing read, cancellation or shutdown, three time units |
| `recycle` | `TypeOK`, `EvictsOnlyForRequests`, `ResizeSettles`, `OneAtATime`, `CountedIsTrue`, `Rightsized` | `MCRecycle`: a workload of two pods with a regular container and a sidecar, a failed pod left over and a pinned name, both modes and rules, three recommendations (within the threshold, both containers raised, too low to run), one event of eleven kinds |
| `oom` | `TypeOK`, `AnchorWasApplied`, `Recommendable`, `EscapesTheKill`, `ReportedOnce`, `KillsAreSettled` | `MCOOMWatch`: two pods of one workload of two containers, or of two workloads, three containers that are killed once, one of them undated, a cache of two entries and two marks, a memory and a CPU configuration, four events of nine kinds, three time units: past the retention |
| `compounds` | `GrowsOnlyWithKills`, violated | `MCOOMWatch`: one pod killed once and resized |

Two Policies are enough for adoption and conflict: a third plays the part of
one of them. Two events let one thing happen in the middle of another's
consequences, which is how every race listed under the hazards arises.
The events of the other modules are bounded the same way (`MaxEvents`), and
what the systems do by themselves is not. `handover` and `orphans` may stop when every Policy is gone and the clock is at
its bound, and `series` when its clock is at its bound and nothing is queued,
so they do not check deadlock; nor do `admission`, which stops when every
admission has ended, and `oom` and `compounds`, which stop when the clock is at
its bound and nothing is queued or due.

`retries` compares times only with the clock (`Timeless`), so its clock has no effective bound. The base delay is 2, the longest 3, the
interval 4 and the floor 1, and a Duration is 4 bits wide: the second doubling
would wrap, as the twenty-ninth of 30s in nanoseconds does, and the cap on the
shift prevents both. `MaxAttempts` is past the failure at which the delay stops
growing. `series` needs only the order of the calls, so its clock stands still
and the Policies' first passes, a trigger and a Policy event are its
reconciles. `admission` gives a claim, the queue, a cached value and a fetch one
unit of time each, the governance walk two, and runs for three: a claim expires
while its owner queues, is taken again, and the first owner gives up after that;
a value is read, cached, served and expires around an annotation. `fetch` needs
three identities that can be asked about, because a shard of two falls back
while another is read, and three failures open the breaker in the middle of
that fallback. `recycle` needs two pods for one to be evicted
while another is down, and five names: the left-over pod's, the two pods' and
those of the replacements of both.
`oom`'s quantities are such that the request a kill calls for is below the
maximum, the one it calls for when re-recorded at the raised limit is not, and
the limit derived for that does not fit the integers; its cache of two entries evicts with the third container, and two
pods of one container merge. The carried-along kill takes three events, the
kills of `Victims` (both containers of one pod, the first of the other), and the
fourth may fall among them; a kill, a pass and a resize leave one for a status
write or a second kill. A third pod only repeats the merge.

**Fairness.** In `Lifecycle` every Policy's pass steps, the reaper, the stub's
second write and every watch are weakly fair. The work queue requeues each
Policy after its interval and hands out Policies in order to workers that
finish; the liveness runs give every Policy a worker, so weak fairness of its
steps is what the queue provides. The reaper has a ticker, watches deliver,
and a detached stub write is made or times out. Nothing is assumed of the
clock, of admissions or of the environment; events are finite, so the
properties say what holds once they stop.

In `Series` a worker takes a queued Policy and finishes, the informer delivers
the deletion, and the watcher, whose trigger waits for room, goes on. In
`PromInputs` a fetch goes on once its queries have ended and passes fetch again,
cooldowns end, and each query takes its steps: a wait for a slot and a query
have timeouts, so no fetch hangs in one; nothing says that Prometheus answers.
In `Admission` a stub write returns, as it has a timeout, and a free slot is
taken; nothing is assumed of the queue's timeout nor of the fetches. In
`Recycle` passes follow each other and the cluster goes on replacing,
scheduling, starting and resizing pods, whichever of its steps comes first. In
`OOMWatch` time passes and the watcher's workers take what is queued or due;
nothing is assumed of the pods or of the passes.

### What the violations show

`overlap`: `Record` attributes numbers to the Policy the object it holds names.
Ensure's status write can be answered with an object another Policy adopted in
between, and then the first Policy's numbers are stored as the second's and
served to its pods until it records its own. ADR 0003 and the comment in
`Record` exclude this. One worker is not quite enough to rule it out:
`ServedByItsPolicy` proves that it takes overlapping passes, a stale
recommendation cache, or an object replaced in the middle of a pass (below).

`compounds`: a kill is told from one already seen by its mark and by its entry,
and both age out after `LiveOOMWindow` (30 minutes), while the pod's status
shows its last kill for the rest of its life. Any status write after that,
such as that of an in-place resize the controller asked for, records the old
kill as new at the limit applied now, the raised one, and the next pass raises
the request again. `signal_oom.go:66-67` says that the anchor "only refreshes
when a new OOM fires, so it converges", `docs/development.md:1000` that it
"cannot compound". A restart re-records every kill shown in the same way.
`AnchorWasApplied` and `ReportedOnce`, with its exceptions, are what does hold.

### Observations

Met while modelling; no run is about them.

- With one worker and current caches, numbers of A can still be served to B's
  pods: A is removed by force while its pass is between the claim and the status
  write, the reaper deletes its object, an admission creates one for B, and the
  status write, which goes by name, is answered with that one
  (`write.go:257` again). It takes two events in one pass, one more than
  `served` allows, and is the case `Alone` excludes in the proof.
- A merge patch sends only what differs from the copy it was computed from
  (`wlrcache/write.go:267`). From a stale copy the stamp is sent while the
  departed mark it was computed for is not, so the object holds a stamp of the
  other kind of identity until a later write, where ADR 0008 (line 20) has the
  two always consistent. `InjectedIsRecent` bounds the damage.
- A pass splits off the members in backoff before its fetch and asks for their
  health when it settles (`policy_controller.go:218`, `docs/development.md:958`).
  A member that moved to B while A was backing it off is forgotten if A settles
  first; B then reports every workload processed although it skipped one, and
  runs it at its next pass. When passes of A and B both run a moved member and
  A's failure comes last, its retry is scheduled on A, which no longer governs
  it; `RetryIsScheduled` therefore speaks of the Policy that failed the member
  and still claims it.
- A shard whose data no query can read fails twice and falls back; with a few
  such shards the breaker opens and refuses their mates too
  (`prom_inputs.go:28-32`). `DeniedForCause` excuses fetches in which the client
  itself refused a query. The circuit heals when a probe is a query that can be
  answered, so `ProbesGetThrough` speaks of queries reaching Prometheus.
- The wait between two evictions asks whether anybody progresses, not whether
  the replacement exists: when the evicted pod is gone before its replacement is
  created (a StatefulSet, a DaemonSet, a create that fails or is late), it returns
  and the next pod is evicted with nobody in the first one's place.
  `docs/concepts/in-place-updates.md:52` and `patcher_test.go:1790-1825` want
  this for a scale-down, which looks the same; the comment of `recycle`
  (`patcher.go:307`) says "waiting for each replacement". `OneAtATime` says what
  is left of that: the evicted pods are gone, and every pod not Ready yet was
  created since the last wait ended. It is about one pass: the next one starts
  without waiting for the replacement of the last (`patcher.go:306-308`,
  `docs/concepts/update-modes.md:117`). The in-place path neither waits nor
  aborts.
- A pod whose regular resize is accepted and whose sidecar's is not is marked as
  changed (`patcher.go:373-374`), so the pass does not count it stale although it
  is; the comment at `patcher.go:43` says that `PodCounts` "reports live pods
  still differing from the recommendation after a pass". The next pass counts
  it. `CountedIsTrue` excuses exactly this. A sidecar that is always rejected
  (its resize needs further feature gates) keeps its pod stale for as long as it
  lives, and it is not evicted for it; `Rightsized` says what holds once
  rejections stop.
- Where the kubelet gives up a staged resize and reports no resources for some
  container, the pod is evicted although only limits may differ
  (`patcher.go:421`), as ADR 0009 (line 20) and `apply_test.go:726` have it;
  `EvictsOnlyForRequests` counts it as a request.
- A reconcile with one unresolved kill records all the kills its pod shows
  (`watcher.go:183`). With containers a and b of p1: a is killed and recorded, a
  kill of a in another pod takes over the entry's identity, b is killed, and
  `Record` reports p1's first kill as new again although it is marked. The
  comment of `Record` (`cache.go:121-123`) calls what it reports so "a real kill
  nothing has seen", and `watcher.go:197-199` it "the single source of truth for
  dedup". The kill is counted again and its Policy triggered again, which does no
  harm to the sizes. `ReportedOnce` excuses a kill that is carried along with
  another's, and nothing else within the window.
- The kills of a reconcile are recorded with one `ObservedAt`, taken before the
  loop (`watcher.go:181`), and each new one waits for room for its trigger
  (`policy_controller.go:87-101`). Behind a full channel the later ones enter the
  cache with an old instant, and age out that much earlier.
- Evictions and resizes go by name, without the uid the pass listed.
- A pod that flaps between Running and crash-looping escapes
  `hasCrashLoopBackOff`, and the wait also ends on the crash-looping pod it
  evicted itself.
- The lookup and the join of a read-through `Get` are two critical sections, so
  a key may be fetched twice in a row; and a value may be older than the TTL by
  the duration of its fetch, which is the bound of `ReadsAreRecent`.

## Proofs

The theorems hold for every value of the constants that the named assumptions
of the modules allow; the assumptions say what the configuration or the data
guarantees (positive durations, distinct names, a shift that does not wrap at
`MaxShift`, a template whose limit is no smaller than its request), and TLC
evaluates them in the runs. In every module the properties are not inductive
as they stand; what is added to make them so is described below, and is where
the argument is.

### `WLRProofs`, `LifecycleProofs`

For every set of Policies, containers and values, all positive durations, every
choice of lagging informers and event kinds and every bound:

| Theorem | Property |
|---|---|
| `TypeCorrect` | `TypeOK` |
| `LabelAlwaysFollowsSpec` | `LabelFollowsSpec` |
| `InjectedAlwaysRecent` | `InjectedIsRecent` |
| `DeletesAreJudged` | `DeletesOnlyJudged` |
| `NewIsSpared` | `SweepSparesNew` |
| `ReleaseIsComplete` | `ReleaseComplete` |
| `ConflictAlwaysFreezes` | `ConflictFreezes` |
| `ServedByItsPolicy` | `ServedOnlyToItsPolicy`, under `Alone` |
| `SweepsSpareServed` | `SweepSparesServed`, under `Alone` and a retention no shorter than the staleness budget |

A claim or a patch is computed from a *copy*, so what the stored object becomes
depends on every copy in flight. The invariant `IInv` therefore speaks of all
of them (`CopiesOK`): the caches', the passes' and the stub's copies each have
a revision and a creation no later than the stored object's, a label that
follows the spec, a stamp in order (`Stamped`), and equal the stored object
when the revisions agree. `RecordsPast` adds that a pass about to record
decided at a past instant, and `ObjectRevised` that a stored object has been
created. A step is one of three kinds (`Moved`): it leaves the object, deletes
it, or puts a revision that keeps these facts; `Preserved` shows once that any
such step, leaving only old copies, the stored object or nothing behind,
preserves `IInv`. The rest is one lemma per action. `WLRProofs` supplies the
lemmas about the operators: each writer keeps an object well formed,
`ServableUntilBound` and `PatchStatusBound` bound the stamp a write leaves.

The last two theorems are about passes that follow each other. `Alone` says
that there is one worker, that the controller's recommendation cache is
current, and that Policies are not forced away while admissions create objects;
`overlap` and the first observation show what happens without the first and
the last of these. `SoleInv` then keeps the object a pass holds `Same` as the
stored one, all but the snapshot that the webhook may add to; so a merge patch
stores exactly what `Record` wants, whose numbers are those of the Policy it
names as computing them (`Sound`), with a stamp no further than the longest
window from their computation. A sweep judges as of an instant that is past,
and deletes only what that window, the retention, is over for. With a retention
shorter than the staleness budget it is false: a departed identity whose record
failed keeps its old stamp and is swept before it ends.

### `PassesProofs`

For every set of Policies, identities and members, list of errors and choice of
the delays, of `Passes` and of its composition `Series`:

| Theorem | Property |
|---|---|
| `TypeCorrect` | `TypeOK` |
| `KeptAlwaysClaimed` | `KeptIsClaimed` |
| `RetryAlwaysScheduled` | `RetryIsScheduled` |
| `BlockedStaysKept` | `BlockedIsKept` |
| `RetryAlwaysWaits` | `RetryWaits` |
| `SeriesAlwaysOwned` | `SeriesAreOwned` |
| `ComposedLedger` | `KeptIsClaimed` and `RetryIsScheduled` of the composition |

The ledger's parts are inductive together with `PassShape`, the types of a
pass's fields: `RetryIsScheduled` at the moment a pass goes back to sleep
follows from what `requeueAfter` returns (the earliest retry of its members, by
`NatLeast`), and at the moment a member fails from the pass that is still
running. `RetryWaits` needs `ShiftAssumption`, the code's own remark that
"30s << 16 is far above MaxRetryDelay, nowhere near overflow". A step of
`Series` is a step of `Passes` with publisher calls, so the ledger's invariant
carries over; `Owned` says that gauges, counters and registry agree and that
every identity shown is included somewhere, and survives each publisher call
(`NamesAssumption`: no name is both a gauge and a counter).

### `AdmissionProofs`

For any admissions, workloads and identities and every choice of the caches'
sizes and times:

| Theorem | Property |
|---|---|
| `AdmissionTypes` | `ATypeOK` |
| `DrainedStaysQuiet` | `DrainedIsQuiet` |
| `OneRequestInEveryWindow` | `OneRequestPerWindow` |
| `ReadsStayRecent` | `ReadsAreRecent` |
| `EveryFailureHasCause` | `FailsForCause` |

The first lemmas are about the LRU: what `SetIfAbsent`, `DeleteIf` and a lookup
leave, and that a cache keeps one entry per key. `StubInv` adds to the
properties that the slots taken are the writers' (`SlotsAreHeld`), that claims
are told apart (`ClaimsAreOwn`: a late owner cannot drop a newer claim) and
that the claim of an issued request stays in the dedup while its window lasts
(`WindowIsHeld`: a full cache would drop it, hence the room `OneRequestPerWindow`
asks for). `WalkInv` carries the age of a value along its way: what a cache
holds was said since `Deadline` before it was stored, what a flight brings since
it began, what a reader was given since `TTL + Deadline` ago; and an error has
its cause since the admission came.

### `RecycleProofs`

For any pods, recommendations, tolerance and number of replicas:

| Theorem | Property |
|---|---|
| `TypesHold` | `TypeOK` |
| `EvictionsHaveReason` | `EvictsOnlyForRequests` |
| `ResizesSettle` | `ResizeSettles` |
| `CountsAreTrue` | `CountedIsTrue` |
| `EvictsOneAtATime` | `OneAtATime` |

`Inv` relates the listed pods to the cluster's (`Lists`, through `Follows`: the
same pod with the same spec unless a call failed, and going once evicted, or a
later pod), says of a pod the pass marked as changed that its regular
containers, and its sidecars unless the pod is in `half`, are no longer stale
(`FixedOK`), and gives the pod about to be evicted its `Reason`. `ResizeSettles`
is arithmetic: a plan applied leaves no change for any tolerance
(`AppliedSettles`). For `OneAtATime`, `Waited` says that while a pass is not
waiting the pods it evicted are gone and every fresh pod is `late`: a wait ends
only with nobody progressing, so nobody is fresh then, and a pod that comes
later is added to `late` as it is created. Nothing is assumed of the order in
which a pod goes and its replacement is created.

### `OOMWatchProofs`

For any pods, containers, configurations, limits and signals:

| Theorem | Property |
|---|---|
| `WatchTypes` | `TypeOK` |
| `AnchorsWereApplied` | `AnchorWasApplied` |
| `AlwaysRecommendable` | `Recommendable` |
| `KillsReportedOnce` | `ReportedOnce` |
| `KillsAreEscaped` | `EscapesTheKill` |

The sizing comes first: a request stays between the bounds through headroom,
kill, autoscaler and coordination (`Between`), and a limit derived by any
strategy, with any outcome of a float conversion, covers it (`Derived`, `Fit`).
`Clock` says that a reconcile records as of an instant that has passed;
`CacheOK` keeps index and entries together and both at their limit; `Anchors`
follows limits from the pod through the reconcile that carries them to the
entry. `Reports` says that a reported kill is marked, or forgotten for age or
for room (`Known`, `Forgotten`), and of each reconcile (`Pending`) that it
carries some kill it found unresolved, that a report of one of those, if there
is any, is forgotten, and, while it records, that what it has left is marked
and no report of its pod is later than its records. The records of one
reconcile are steps of their own, so this has to survive what other reconciles
do between them; a report within the window can then only be of a kill that was
carried along. For `EscapesTheKill`, `Evidence` follows a kill: until it
ages or is dropped for room, its container's entry holds at least its limit
(`Backs`), and every entry comes from a kill that was recorded (`Witnessed`);
`Reaches` then carries the limit through the arithmetic to the request.

### `PromInputsProofs`

`TypeCorrect`, `OpenAlwaysEarned` and `OnlyProbes` prove `TypeOK`, `OpenIsEarned`
and `OnlyProbesWhileOpen` of `Breaker`, for every number of callers and slots,
failure limit and cooldown. `OpenIsEarned` is inductive with `TypeOK`: handing
out a probe moves `openUntil` and leaves both sides alone, and only `Succeeds`
and the failure that reaches the limit change both at once. For any identities,
groups, sizes, signals and limits, of the fetch over it:

| Theorem | Property |
|---|---|
| `FetchTypesHold` | `FTypeOK` |
| `ShardsAlwaysFit` | `ShardsFit` |
| `AlwaysDeniedForCause` | `DeniedForCause` |
| `FetchKeepsPromise` | `KeepsPromise`, the refinement of `Inputs` |

The packing is a loop, so its lemmas need induction and that its recursive
function exists: `UpTo` is induction over the names from `NatLeast`, and
`Recursion` builds the function. `AddPacked` is the loop's invariant: the
shards so far are apart, in order, within the limits and full, and hold the
names passed. `FInv` accounts for every identity of the signal being read:
in an open query, failed or set, and only one of these (`Accounted`,
`ReadsApart`); what earlier signals left (`Settled`); and for what cause
(`Caused`). An outcome of a query is one of four: it goes on, falls back to
single queries, loses its identities or sets their values. Each maps to a step
of `Inputs` or to none.

### `GovernanceProofs`

For every set of Policies, excluded namespaces and kinds, and for every subject:

| Theorem | What it says |
|---|---|
| `GateIsSound` | the gate refuses no subject that some Policy consents to |
| `PodAgreesWithTemplate` | webhook and inventory name the same Policy for a pod and its template |
| `EarlyDecisionIsFinal` | a decision made without a read is the one made with it |
| `DepartureKeepsThePolicy` | a Policy that governs a live member governs the departed identity |

The argument is a case split on the level that decides. The gate asks a
weaker question than consent, so where it refuses no level can name a Policy:
that makes asking it at one level or another come to the same.

### What the proofs corrected

Three statements held in the runs and not beyond their bounds. `ShardsFit`
compared a shard with the first name of any later shard of its group, which is
false when sizes differ; it now speaks of the name that directly follows.
`EscapesTheKill` excuses a pass when a kill recorded after its instant hides the
one in question, but did not when that later kill had been seen again since it
was recorded (three events show it). And one worker with current caches does not
suffice for `ServedOnlyToItsPolicy` (the first observation).

### Only model-checked

`AbsentIsForgotten`, `EveryRequestEnds`, `EveryFetchEnds`, `ProbesGetThrough`,
`Rightsized`, `KillsAreSettled`, `Converges` and `OrphansGo`: liveness under
fairness is beyond the prover. No run lists `TypeOK` of `Lifecycle`, `Passes`
and `Breaker`, `OpenIsEarned` and `OnlyProbesWhileOpen`: the theorems cover them.

## Not modelled

- The listing of the pods of Jobs, CronJobs and bare pods: the same steps over
  other lists.
- The HTTP envelope of the webhook, the JSON patch and certificates.
- Autoscaler detection, a lookup over lists read once per pass; what the
  recommender takes from it is `Scalers` in `Sizing`.
- Traces, the points of a history, query text, decoding: data without control.
- The dashboard (read-only views), flag parsing and process wiring, metric
  definitions, charts and generated code.
