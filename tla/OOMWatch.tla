------------------------------ MODULE OOMWatch ------------------------------
(***************************************************************************)
(* The OOM watcher and its cache (internal/oomwatch), the recommender that *)
(* reads it (WithLiveOOMs, Sizing) and the pods whose limits it sets in    *)
(* turn, so that what a kill raises is the limit the next one is read at.  *)
(*                                                                         *)
(* A pod has the containers of its identity, and each shows at most its    *)
(* last kill.  What a reconcile resolved is marked in one step; its        *)
(* records are one step each, with time between, as every new kill waits   *)
(* for room in the channel of the Policies to reconcile.  told, settled,   *)
(* ran and shed are history: the kills reported as new since the process   *)
(* started, those dealt with, the limits each container has run with, and  *)
(* the kills whose marks were dropped for room.                            *)
(***************************************************************************)
EXTENDS Sizing, FiniteSets

CONSTANTS
    Pods,
    Keys,               \* containers of identities
    Owners,             \* which identity each pod may be of
    TTL,                \* retention of the cache, LiveOOMWindow and Window
    minOwnerRetry,
    MaxEntries,
    MinWorkloadAge,
    Reads,              \* identities that passes are over
    Template,           \* requirements of every container's template
    Policies,           \* configurations
    Usages, Rules,      \* what Prometheus may answer: usage, and 24h kills
    Scaler,
    Needs,              \* memory the containers need
    Happens, MaxEvents, \* what may happen, and how often
    Victims, MaxKills,  \* which containers of which pods are killed, and how often
    Undated,            \* the kills that the status does not date
    MaxTime

Ids == {k.id : k \in Keys}

ASSUME OOMAssumption ==
    /\ {TTL, minOwnerRetry, MaxEntries} \subseteq Nat \ {0}
    /\ {MinWorkloadAge, Needs, MaxEvents, MaxKills, MaxTime} \subseteq Nat
    /\ Reads \subseteq Ids /\ Owners \subseteq [Pods -> Ids]
    /\ IsFiniteSet(Keys) /\ Victims \subseteq Pods \X Keys /\ Undated \subseteq Victims
    /\ Template \in Requirements /\ Policies \subseteq Configs /\ Scaler \in Scalers
    /\ Usages \subseteq Nat \cup {Nil} /\ Rules \subseteq OOMs
    /\ \A k, l \in Keys : k.id = l.id /\ k.container = l.container => k = l

VARIABLES
    now, events,
    cfg, owner,         \* the Policy's configuration; each pod's identity
    pods,               \* its containers' requirements, asked for and applied, and kills
    queued, due,        \* the watcher's workqueue and its timers
    work,               \* the reconcile of each pod
    entries, index, marks,      \* the cache: entries, byWorkload, resolved
    reader,             \* the pass of an identity that is computing
    rec,                \* each container's stored recommendation
    told, settled, ran, shed

setting == <<cfg, owner>>
cache == <<entries, index, marks>>
loop == <<queued, due, work>>
history == <<told, settled, ran, shed>>
vars == <<now, events, setting, pods, loop, cache, reader, rec, history>>

Never == -1
NoKill == [rc |-> 0, at |-> 0]
Absent == [rc |-> 0, at |-> 0, observed |-> 0, limit |-> 0]
Free == [step |-> "idle", kills |-> [k \in Keys |-> NoKill], limits |-> [k \in Keys |-> 0],
         fresh |-> {}, todo |-> {}, at |-> 0]
NoPass == [step |-> "idle", id |-> "", at |-> 0, usage |-> Nil,
           seen |-> [kills |-> 0, peak |-> Nil, limit |-> 0, live |-> FALSE],
           young |-> FALSE, out |-> [k \in Keys |-> Nothing], stale |-> {}]

Event(what) ==
    /\ what \in Happens /\ events < MaxEvents
    /\ events' = events + 1

\* A kill as the cache's marks and the history know it.
Kill(p, k, kill) == [pod |-> p, key |-> k, rc |-> kill.rc, at |-> kill.at]

-----------------------------------------------------------------------------
\* The cache.
Held == {k \in Keys : entries[k] # Absent}

Aged(t, at) == at - t > TTL

newerThan(a, b) == a.at > b.at \/ (a.at = b.at /\ a.rc > b.rc)

\* Record on a stored entry of another kill: the newer identity, the larger
\* limit, the later observation.
merged(new, old) ==
    [(IF newerThan(new, old) THEN new ELSE old)
        EXCEPT !.limit = Larger(new.limit, old.limit),
               !.observed = Larger(new.observed, old.observed)]

Same(new, old) == old # Absent /\ new.rc = old.rc /\ new.at = old.at

\* evictOldestLocked: none but at the limit.
Evicts(k) ==
    IF entries[k] # Absent \/ Cardinality(Held) < MaxEntries THEN {{}}
    ELSE {{o} : o \in {x \in Held : \A y \in Held :
                          entries[x].observed <= entries[y].observed}}

\* Mutant: a deleted entry stays in the index.
IndexedStill(added, gone) ==
    [i \in Ids |-> index[i] \cup {k.container : k \in {x \in added : x.id = i}}]

\* addIndexLocked and removeIndexLocked: a container is indexed under its
\* identity.
Indexed(added, gone) ==
    [i \in Ids |-> (index[i] \cup {k.container : k \in {x \in added : x.id = i}})
                   \ {k.container : k \in {x \in gone : x.id = i}}]

\* Mutant: a kill is told from another by its entry alone.
AlreadyResolvedNever(kill) == FALSE

\* alreadyResolvedAt.
AlreadyResolved(kill) == \E m \in marks : m.kill = kill /\ ~Aged(m.at, now)

\* What evictOldestResolvedLocked may leave of marks: all that there is room
\* for, and none older than one it drops.
Kept(ms) ==
    {rest \in SUBSET ms :
        /\ Cardinality(rest) = Smaller(Cardinality(ms), MaxEntries)
        /\ \A m \in rest, o \in ms \ rest : o.at <= m.at}

\* Mutant: what was stale when it was read is deleted.
DroppableUnchecked(ks, at) == ks

\* deleteIfStaleLocked, which looks again.
Droppable(ks, at) == {k \in ks \cap Held : Aged(entries[k].observed, at)}

\* sweep, whenever the ticker fires.
Sweep ==
    LET gone == Droppable(Keys, now)
        old  == {m \in marks : Aged(m.at, now)}
    IN  /\ gone \cup old # {}
        /\ entries' = [k \in Keys |-> IF k \in gone THEN Absent ELSE entries[k]]
        /\ index' = Indexed({}, gone)
        /\ marks' = marks \ old
        /\ UNCHANGED <<now, events, setting, pods, loop, reader, rec, history>>

-----------------------------------------------------------------------------
\* The pods and the clock (external).
Mine(p) == {k \in Keys : k.id = owner[p]}

\* oomKills, without the limits.
Shown(p) == {k \in Keys : pods[p].up /\ pods[p].kill[k] # NoKill}

\* A pod event reaches the queue when the pod shows a kill
\* (admitPodEventPredicate); an annotated pod without one reconciles to
\* nothing.
Enqueue(p) == queued' = IF Shown(p)' # {} THEN queued \cup {p} ELSE queued

Tick ==
    /\ now < MaxTime \/ \E p \in Pods : due[p] # Never
    /\ \A p \in Pods : due[p] = Never \/ due[p] > now
    /\ now' = now + 1
    /\ UNCHANGED <<events, setting, pods, loop, cache, reader, rec, history>>

\* A container is killed at a limit below its need, and its status may not
\* date it.  Kills do not concern the CPU.
Killed(p, k) ==
    /\ k \in Mine(p) /\ <<p, k>> \in Victims
    /\ pods[p].up /\ cfg.resource = "memory"
    /\ pods[p].applied[k].lim # Unset /\ pods[p].applied[k].lim < Needs
    /\ pods[p].kill[k].rc < MaxKills
    /\ Event("kill")
    /\ pods' = [pods EXCEPT ![p].kill[k] =
          [rc |-> @.rc + 1, at |-> IF <<p, k>> \in Undated THEN 0 ELSE now]]
    /\ Enqueue(p)
    /\ UNCHANGED <<now, setting, due, work, cache, reader, rec, history>>

\* An in-place resize to the stored recommendation is asked for, and applied
\* container by container.
Asked(p) == [k \in Keys |-> IF k \in Mine(p) THEN Applied(pods[p].spec[k], rec[k])
                            ELSE pods[p].spec[k]]

Ask(p) ==
    /\ pods[p].up /\ cfg.resource = "memory" /\ Event("resize")
    /\ pods[p].spec # Asked(p)
    /\ pods' = [pods EXCEPT ![p].spec = Asked(p)]
    /\ Enqueue(p)
    /\ UNCHANGED <<now, setting, due, work, cache, reader, rec, history>>

Enact(p, k) ==
    /\ pods[p].up /\ pods[p].applied[k] # pods[p].spec[k]
    /\ pods' = [pods EXCEPT ![p].applied[k] = pods[p].spec[k]]
    /\ ran' = [ran EXCEPT ![k] = @ \cup {Value(pods[p].spec[k].lim)}]
    /\ Enqueue(p)
    /\ UNCHANGED <<now, events, setting, due, work, cache, reader, rec, told, settled, shed>>

\* Any other write of the pod's status.
Touch(p) ==
    /\ Shown(p) # {} /\ p \notin queued /\ Event("touch")
    /\ queued' = queued \cup {p}
    /\ UNCHANGED <<now, setting, pods, due, work, cache, reader, rec, history>>

\* A pod is deleted while a reconcile of it is queued or due, the only ones
\* that could notice.
Delete(p) ==
    /\ pods[p].up /\ (p \in queued \/ due[p] # Never)
    /\ Event("delete")
    /\ pods' = [pods EXCEPT ![p].up = FALSE]
    /\ UNCHANGED <<now, setting, loop, cache, reader, rec, history>>

-----------------------------------------------------------------------------
\* The watcher's Reconcile.
Deciding(p) == work[p].step = "deciding"

Done(p) == work' = [work EXCEPT ![p] = Free]

\* Mutant: the limit the spec asks for.
containerMemLimitBytesSpec(pod, k) == Value(pod.spec[k].lim)

\* The limit the kubelet applied, zero for none.
containerMemLimitBytes(pod, k) == Value(pod.applied[k].lim)

\* The kills that the walk has something to learn for.
Unresolved(p) == {k \in Shown(p) : ~AlreadyResolved(Kill(p, k, pods[p].kill[k]))}

\* The pod is gone, shows no kill, or only kills that were resolved.
BeginNothing(p) ==
    /\ p \in queued /\ work[p] = Free
    /\ Unresolved(p) = {}
    /\ queued' = queued \ {p}
    /\ UNCHANGED <<now, events, setting, pods, due, work, cache, reader, rec, history>>

\* All the kills are carried along, the resolved ones too.
Begin(p) ==
    /\ p \in queued /\ work[p] = Free
    /\ Unresolved(p) # {}
    /\ queued' = queued \ {p}
    /\ work' = [work EXCEPT ![p] =
          [step |-> "deciding", kills |-> pods[p].kill,
           limits |-> [k \in Keys |-> IF k \in Shown(p) THEN containerMemLimitBytes(pods[p], k)
                                      ELSE 0],
           fresh |-> Unresolved(p), todo |-> Shown(p), at |-> 0]]
    /\ UNCHANGED <<now, events, setting, pods, due, cache, reader, rec, history>>

\* Mutant: the pod's next event is waited for.
ownerRetryAfterNever(kill) == 0

\* A kill as old as the window, or of an unknown age.
Expired(kill) == kill.at = 0 \/ now - kill.at >= TTL

\* Zero for no retry.
ownerRetryAfter(kill) ==
    LET age == now - kill.at
    IN  IF Expired(kill) THEN 0
        ELSE Smaller(Larger(age, minOwnerRetry), TTL - age)

\* A kill that the reconcile carries.
Carried(p, k) == Kill(p, k, work[p].kills[k])

\* The owner chain cannot be read: the newest of the unresolved kills says
\* when it is read again, and they are given up together.
OwnerUnresolved(p) ==
    /\ Deciding(p) /\ Event("unresolved")
    /\ Done(p)
    /\ \E k \in work[p].fresh :
          LET kill  == work[p].kills[k]
              retry == ownerRetryAfter(kill)
          IN  /\ \A j \in work[p].fresh : work[p].kills[j].at <= kill.at
              /\ due' = IF retry = 0 \/ due[p] \in 0..(now + retry) THEN due
                        ELSE [due EXCEPT ![p] = now + retry]
              /\ settled' = IF Expired(kill) THEN settled \cup {Carried(p, j) : j \in work[p].fresh}
                            ELSE settled
    /\ UNCHANGED <<now, setting, pods, queued, cache, reader, rec, told, ran, shed>>

\* Another read fails: the error requeues.
DecideFails(p) ==
    /\ Deciding(p) /\ Event("read-fails")
    /\ Done(p)
    /\ queued' = queued \cup {p}
    /\ UNCHANGED <<now, setting, pods, due, cache, reader, rec, history>>

\* Every read succeeded: all the pod's kills are marked, whether they were
\* resolved before or not and whether the pod is governed or not.
MarkResolved(kills) ==
    LET all == {m \in marks : m.kill \notin kills} \cup {[kill |-> c, at |-> now] : c \in kills}
    IN  \E rest \in Kept(all) :
          /\ marks' = rest
          /\ shed' = shed \cup {m.kill : m \in all \ rest}

Resolves(p) == {Carried(p, k) : k \in work[p].todo}

Ungoverned(p) ==
    /\ Deciding(p) /\ Event("ungoverned") /\ MarkResolved(Resolves(p))
    /\ Done(p)
    /\ settled' = settled \cup Resolves(p)
    /\ UNCHANGED <<now, setting, pods, queued, due, entries, index, reader, rec, told, ran>>

\* A governed pod's kills are all to be recorded, as of now.
Governed(p) ==
    /\ Deciding(p) /\ MarkResolved(Resolves(p))
    /\ work' = [work EXCEPT ![p].step = "recording", ![p].at = now]
    /\ UNCHANGED <<now, events, setting, pods, queued, due, entries, index, reader, rec, told,
                   settled, ran>>

\* One of them is recorded.  Record: the same kill only ever raises the limit;
\* another is new, and its Policy is notified.
NewRecord(p, k) == [rc |-> work[p].kills[k].rc, at |-> work[p].kills[k].at,
                    observed |-> work[p].at, limit |-> work[p].limits[k]]

Recording(p, k) ==
    /\ work[p].step = "recording" /\ k \in work[p].todo
    /\ IF work[p].todo = {k} THEN Done(p) ELSE work' = [work EXCEPT ![p].todo = @ \ {k}]
    /\ settled' = settled \cup {Carried(p, k)}

RecordAgain(p, k) ==
    /\ Recording(p, k) /\ Same(NewRecord(p, k), entries[k])
    /\ entries' = [entries EXCEPT ![k].limit = Larger(@, work[p].limits[k])]
    /\ UNCHANGED <<now, events, setting, pods, queued, due, index, marks, reader, rec,
                   told, ran, shed>>

\* The reports once kill is recorded as new: when it was last observed, the
\* limit it was first recorded with, and how often it was.
Knew(kill) == {h \in told : h.kill = kill}

Told(kill, at, limit) ==
    LET before == CHOOSE h \in Knew(kill) : TRUE
    IN  (told \ Knew(kill)) \cup
            {[kill |-> kill, limit |-> limit, kept |-> TRUE, at |-> at,
              first |-> IF Knew(kill) = {} THEN limit ELSE before.first,
              times |-> IF Knew(kill) = {} THEN 1 ELSE before.times + 1]}

Record(p, k) ==
    LET new == NewRecord(p, k)
    IN  /\ Recording(p, k) /\ ~Same(new, entries[k])
        /\ \E evicted \in Evicts(k) :
              /\ entries' = [x \in Keys |->
                    IF x = k THEN IF entries[k] = Absent THEN new ELSE merged(new, entries[k])
                    ELSE IF x \in evicted THEN Absent ELSE entries[x]]
              /\ index' = Indexed({k}, evicted)
              /\ told' = {[h EXCEPT !.kept = @ /\ h.kill.key \notin evicted] :
                            h \in Told(Carried(p, k), new.observed, new.limit)}
        /\ UNCHANGED <<now, events, setting, pods, queued, due, marks, reader, rec, ran, shed>>

\* A timer fires.
Fire(p) ==
    /\ due[p] # Never /\ due[p] <= now
    /\ queued' = queued \cup {p}
    /\ due' = [due EXCEPT ![p] = Never]
    /\ UNCHANGED <<now, events, setting, pods, work, cache, reader, rec, history>>

\* The process restarts: everything in memory is lost, and the first list
\* replays every pod that shows a kill.
Restart ==
    /\ Event("restart")
    /\ entries' = [k \in Keys |-> Absent]
    /\ index' = [i \in Ids |-> {}]
    /\ marks' = {} /\ told' = {} /\ settled' = {} /\ shed' = {}
    /\ queued' = {p \in Pods : Shown(p) # {}}
    /\ due' = [p \in Pods |-> Never]
    /\ work' = [p \in Pods |-> Free]
    /\ reader' = NoPass
    /\ UNCHANGED <<now, setting, pods, rec, ran>>

-----------------------------------------------------------------------------
\* A pass over an identity.  Assemble fixes its instant and reads the signals.
Assemble(i) ==
    /\ reader = NoPass /\ Event("pass")
    /\ \E usage \in Usages, seen \in Rules :
          reader' = [NoPass EXCEPT !.step = "fetched", !.id = i, !.at = now,
                                   !.usage = usage, !.seen = seen]
    /\ UNCHANGED <<now, setting, pods, loop, cache, rec, history>>

\* ByWorkload: the entries the index lists that are fresh now.
Live == {k \in Held : /\ k.id = reader.id /\ k.container \in index[k.id]
                      /\ ~Aged(entries[k].observed, now)}

\* withLiveOOMs: of those, the kills seen within LiveOOMWindow of the pass's
\* instant that did not happen after it.
Counted(k) ==
    LET e == entries[k]
    IN  /\ k \in Live /\ reader.at - e.observed <= TTL
        /\ (IF e.at = 0 THEN e.observed ELSE e.at) <= reader.at

OOMOf(k) ==
    IF Counted(k) THEN [reader.seen EXCEPT !.live = TRUE,
                                           !.limit = Larger(@, entries[k].limit)]
    ELSE reader.seen

\* The identity has been known since the clock's first instant.
Since == 1

tooYoung(ks) ==
    /\ reader.at - Since < MinWorkloadAge
    /\ \A k \in ks : ~recent(OOMOf(k))

Recommended(young, out) ==
    [k \in Keys |-> IF ~young /\ k.id = reader.id /\ out[k] # Nothing THEN out[k]
                    ELSE rec[k]]

\* FetchInputs' last step, Compute and the stored outcome.  ByWorkload takes
\* the write lock first when it found stale entries.
Compute ==
    LET ks    == {k \in Keys : k.id = reader.id}
        young == tooYoung(ks)
        old   == {k \in ks \cap Held : Aged(entries[k].observed, now)}
    IN  /\ reader.step = "fetched"
        /\ \E out \in [Keys -> UNION {Sized(cfg, reader.usage, OOMOf(k), Scaler, Template) :
                                        k \in ks} \cup {Nothing}] :
              /\ \A k \in Keys : out[k] \in
                    IF k \in ks THEN Sized(cfg, reader.usage, OOMOf(k), Scaler, Template)
                    ELSE {Nothing}
              /\ IF old = {}
                 THEN /\ rec' = Recommended(young, out)
                      /\ reader' = NoPass
                 ELSE /\ reader' = [NoPass EXCEPT !.step = "computed", !.id = reader.id,
                                      !.young = young, !.out = out,
                                      !.at = now, !.stale = old]
                      /\ UNCHANGED rec
        /\ UNCHANGED <<now, events, setting, pods, loop, cache, history>>

Publish ==
    LET gone == Droppable(reader.stale, reader.at)
    IN  /\ reader.step = "computed"
        /\ entries' = [k \in Keys |-> IF k \in gone THEN Absent ELSE entries[k]]
        /\ index' = Indexed({}, gone)
        /\ rec' = Recommended(reader.young, reader.out)
        /\ reader' = NoPass
        /\ UNCHANGED <<now, events, setting, pods, loop, marks, history>>

-----------------------------------------------------------------------------
Init ==
    /\ now = Since /\ events = 0 /\ cfg \in Policies /\ owner \in Owners
    /\ pods = [p \in Pods |-> [up |-> TRUE, spec |-> [k \in Keys |-> Template],
                               applied |-> [k \in Keys |-> Template],
                               kill |-> [k \in Keys |-> NoKill]]]
    /\ queued = {} /\ due = [p \in Pods |-> Never] /\ work = [p \in Pods |-> Free]
    /\ entries = [k \in Keys |-> Absent] /\ index = [i \in Ids |-> {}] /\ marks = {}
    /\ reader = NoPass /\ rec = [k \in Keys |-> Nothing]
    /\ told = {} /\ settled = {} /\ ran = [k \in Keys |-> {Value(Template.lim)}] /\ shed = {}

Reconcile(p) ==
    \/ BeginNothing(p) \/ Begin(p) \/ Governed(p) \/ Fire(p)
    \/ \E k \in Keys : RecordAgain(p, k) \/ Record(p, k)

Fails(p) == OwnerUnresolved(p) \/ DecideFails(p) \/ Ungoverned(p)

Happening(p) ==
    \/ Ask(p) \/ Touch(p) \/ Delete(p)
    \/ \E k \in Keys : Killed(p, k) \/ Enact(p, k)

Next ==
    \/ Tick \/ Sweep \/ Restart \/ Compute \/ Publish
    \/ \E i \in Reads : Assemble(i)
    \/ \E p \in Pods : Reconcile(p) \/ Fails(p) \/ Happening(p)

Spec == Init /\ [][Next]_vars

\* The queue's workers go on while there is work, and so does time.
FairSpec == Spec /\ WF_vars(Tick) /\ WF_vars(\E p \in Pods : Reconcile(p))

-----------------------------------------------------------------------------
Entries == [rc : Nat, at : Nat, observed : Nat, limit : Nat]

KillIds == [pod : Pods, key : Keys, rc : Nat, at : Nat]

\* Every variable has its type, the cache keeps to its limit, and its index
\* lists exactly its entries: the identity of none is forgotten, and none is
\* listed once deleted (deleteEntryLocked).
TypeOK ==
    /\ now \in Nat /\ events \in 0..MaxEvents /\ cfg \in Policies
    /\ \A p \in Pods : /\ pods[p].spec \in [Keys -> Requirements]
                       /\ pods[p].applied \in [Keys -> Requirements]
    /\ queued \subseteq Pods /\ due \in [Pods -> Nat \cup {Never}]
    /\ \A p \in Pods : work[p].limits \in [Keys -> Nat] /\ work[p].todo \subseteq Keys
    /\ entries \in [Keys -> Entries] /\ Cardinality(Held) <= MaxEntries
    /\ index = [i \in Ids |-> {k.container : k \in {x \in Held : x.id = i}}]
    /\ marks \subseteq [kill : KillIds, at : Nat] /\ Cardinality(marks) <= MaxEntries
    /\ rec \in [Keys -> Recommendations]

\* "Every value merged here is a limit the kernel actually applied": no entry
\* rests on a limit that was only asked for, whatever resizes are pending
\* while its kills are observed, merged and replayed (Record).
AnchorWasApplied ==
    \A k \in Held : entries[k].limit \in ran[k] \cup {0}

\* Whatever the inputs, the kills, the autoscaler and the strategy, a stored
\* recommendation keeps the operator's bounds and leaves no container with a
\* limit below its request (limitChain, coordinate).
Recommendable ==
    \A k \in Keys : InBounds(cfg, rec[k]) /\ LimitCovers(rec[k], Template)

\* A kill that was recorded, and since dropped neither for age nor for room,
\* raises the container's request above the limit it was killed at, or to the
\* operator's maximum, in every pass as of the kill or later, a first pass of
\* a young identity included: no other pod's kill, recorded before or after
\* it and out of order, no sweep and no reader takes it away (Record,
\* ByWorkload).  A kill that follows the pass's instant hides it for that
\* pass.
EscapesTheKill ==
    [][reader.step = "fetched" /\ reader' # reader /\ events' = events
          /\ cfg.resource = "memory" /\ ~cfg.keepRequest =>
          \A h \in told :
             LET k   == h.kill.key
                 out == IF reader' = NoPass THEN rec'[k] ELSE reader'.out[k]
             IN  /\ h.kept /\ h.limit > 0 /\ k.id = reader.id
                 /\ ~Aged(h.at, now) /\ h.at <= reader.at
                 /\ \A g \in told : g.kill.key = k =>
                       g.at <= reader.at /\ g.kill.at <= reader.at
                 => /\ ~reader'.young
                    /\ out.req >= Bumped(h.limit) \/ out.req = cfg.max]_vars

\* However often the pod's status is written, a kill is reported as new again
\* only once its mark has aged out, was dropped for room or lost in a restart,
\* but for a kill that is carried along: one that was resolved, whose entry
\* another pod's kill has since taken, is recorded with the unresolved kill of
\* another container (the loop of Reconcile is over all the pod's kills).
ReportedOnce ==
    [][\A h \in told, g \in told' :
          h.kill = g.kill /\ g.times > h.times =>
             \/ now - h.at > TTL \/ h.kill \in shed
             \/ LET w == work[h.kill.pod]
                IN  h.kill.key \notin w.fresh /\ w.fresh # {}]_vars

\* Time and again every kill that the pods show has been recorded, found to
\* be of a pod no Policy governs, or given up at the end of its window,
\* whatever reads fail before and whenever the process restarts: a pod that
\* will get no further event is retried (ownerRetryAfter).
KillsAreSettled ==
    []<>(\A p \in Pods : \A k \in Shown(p) : Kill(p, k, pods[p].kill[k]) \in settled)

\* "The OOM-time-limit anchor only refreshes when a new OOM fires, so it
\* converges": no request is above what the usage and the container's kills,
\* each at the limit it was first recorded with, justify.
GrowsOnlyWithKills ==
    \A k \in Keys : rec[k].req # Nil =>
        \E u \in Usages, o \in Rules,
           l \in {0} \cup {h.first : h \in {g \in told : g.kill.key = k}} :
              rec[k].req <= Request(cfg, u, [o EXCEPT !.live = TRUE, !.limit = l], Scaler)
=============================================================================
