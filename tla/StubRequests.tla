---------------------------- MODULE StubRequests ----------------------------
(***************************************************************************)
(* The webhook's detached stub requests (internal/webhook, stub.go): an    *)
(* admission claims its identity's key, a goroutine waits for one of the   *)
(* write slots and makes the request, and Shutdown stops, cancels and      *)
(* waits for the goroutines.  Each member of Requests is one admission     *)
(* that calls for a request; what the write does is Lifecycle's Admit.     *)
(***************************************************************************)
EXTENDS LRU, FiniteSets

CONSTANTS
    Requests,
    Keys,
    KeyOf,              \* the key of each request's identity
    DedupTTL,           \* stubRequestDedupTTL
    DedupMaxEntries,    \* stubRequestDedupMaxEntries
    MaxInflight,        \* stubRequestMaxInflight
    QueueTimeout,       \* stubRequestQueueTimeout
    MaxTime             \* bound on the clock

ASSUME StubAssumption ==
    /\ KeyOf \in [Requests -> Keys] /\ IsFiniteSet(Keys)
    /\ {DedupTTL, DedupMaxEntries, MaxInflight, QueueTimeout} \subseteq Nat \ {0}
    /\ MaxTime \in Nat

VARIABLES
    now,
    claims,             \* the dedup: key -> claim
    seq,                \* stubClaimSeq
    slots,              \* write slots taken
    stopping,           \* stubStopping, which cancels stubCtx
    shutdown,           \* the latest call of Shutdown
    request             \* each request's goroutine

vars == <<now, claims, seq, slots, stopping, shutdown, request>>

\* A request is new, refused, waiting for a slot, writing, or over: written
\* when its call reached the API server, abandoned when it gave up before.
Places == {"new", "refused", "queued", "writing", "written", "abandoned"}

\* Goroutines registered with stubWG.
Running == {r \in Requests : request[r].at \in {"queued", "writing"}}

Goto(r, place) == request' = [request EXCEPT ![r].at = place]

-----------------------------------------------------------------------------
\* Mutant: the stop flag is not looked at with the claim.
MayBeginUnchecked == TRUE

MayBegin == ~stopping

\* beginStubRequest, one critical section.
Begin(r) ==
    /\ request[r].at = "new"
    /\ LET key == KeyOf[r]
           granted == ~Fresh(claims, key, DedupTTL, now)
       IN  IF ~MayBegin
           THEN Goto(r, "refused") /\ UNCHANGED <<claims, seq>>
           ELSE /\ seq' = seq + 1
                /\ claims' = SetIfAbsent(claims, key, seq + 1, DedupTTL, now,
                                         DedupMaxEntries)
                /\ request' = [request EXCEPT ![r] =
                      IF granted
                      THEN [at |-> "queued", claim |-> seq + 1, since |-> now]
                      ELSE [@ EXCEPT !.at = "refused"]]
    /\ UNCHANGED <<now, slots, stopping, shutdown>>

\* acquireStubSlot gets a slot.
AcquireSlot(r) ==
    /\ request[r].at = "queued"
    /\ slots < MaxInflight
    /\ slots' = slots + 1
    /\ Goto(r, "writing")
    /\ UNCHANGED <<now, claims, seq, stopping, shutdown>>

dropStubClaim(r) == claims' = DeleteIf(claims, KeyOf[r], request[r].claim)

\* acquireStubSlot gives up: cancelled by Shutdown or out of time.
GiveUp(r) ==
    /\ request[r].at = "queued"
    /\ stopping \/ now >= request[r].since + QueueTimeout
    /\ dropStubClaim(r)
    /\ Goto(r, "abandoned")
    /\ UNCHANGED <<now, seq, slots, stopping, shutdown>>

\* Mutant: a write that panics keeps its slot.
WriteLeaking(r) ==
    /\ request[r].at = "writing"
    /\ slots' \in {slots - 1, slots}
    /\ Goto(r, "written")
    /\ UNCHANGED <<now, claims, seq, stopping, shutdown>>

\* wlrcache.Request returns, fails, times out or panics: the deferred calls
\* release the slot and the goroutine is done either way.  The claim stays.
Write(r) ==
    /\ request[r].at = "writing"
    /\ slots' = slots - 1
    /\ Goto(r, "written")
    /\ UNCHANGED <<now, claims, seq, stopping, shutdown>>

\* Shutdown, safe to call again.
Stop ==
    /\ shutdown # "waiting"
    /\ stopping' = TRUE
    /\ shutdown' = "waiting"
    /\ UNCHANGED <<now, claims, seq, slots, request>>

Drained ==
    /\ shutdown = "waiting" /\ Running = {}
    /\ shutdown' = "drained"
    /\ UNCHANGED <<now, claims, seq, slots, stopping, request>>

DrainTimesOut ==
    /\ shutdown = "waiting"
    /\ shutdown' = "timedOut"
    /\ UNCHANGED <<now, claims, seq, slots, stopping, request>>

Tick ==
    /\ now < MaxTime
    /\ now' = now + 1
    /\ UNCHANGED <<claims, seq, slots, stopping, shutdown, request>>

-----------------------------------------------------------------------------
Init ==
    /\ now = 0 /\ claims = <<>> /\ seq = 0 /\ slots = 0
    /\ stopping = FALSE /\ shutdown = "none"
    /\ request = [r \in Requests |-> [at |-> "new", claim |-> 0, since |-> 0]]

Next ==
    \/ \E r \in Requests : Begin(r) \/ AcquireSlot(r) \/ GiveUp(r) \/ Write(r)
    \/ Stop \/ Drained \/ DrainTimesOut \/ Tick

Spec == Init /\ [][Next]_vars

-----------------------------------------------------------------------------
\* Every variable has its type, and the dedup is within its size.
TypeOK ==
    /\ now \in 0..MaxTime /\ seq \in Nat
    /\ claims \in Seq([key : Keys, value : 1..seq, storedAt : 0..now])
    /\ \A j, k \in DOMAIN claims : claims[j].key = claims[k].key => j = k
    /\ Len(claims) <= DedupMaxEntries
    /\ slots \in 0..MaxInflight
    /\ stopping \in BOOLEAN
    /\ shutdown \in {"none", "waiting", "drained", "timedOut"}
    /\ request \in [Requests -> [at : Places, claim : 0..seq, since : 0..now]]

\* Once Shutdown has returned without error no stub goroutine runs or starts:
\* the informer cache they read from may stop (beginStubRequest, Shutdown).
DrainedIsQuiet == shutdown = "drained" => Running = {}

\* Requests that reached the API server, or may.
Issued == {r \in Requests : request[r].at \in {"queued", "writing", "written"}}

\* "One issued stub request suppresses further requests for the same identity"
\* for DedupTTL, unless the dedup overflows.  A request that gives up after
\* its claim expired must not take a newer claim away (dropStubClaim).
OneRequestPerWindow ==
    Cardinality(Keys) <= DedupMaxEntries =>
       \A r, s \in Issued :
          r # s /\ KeyOf[r] = KeyOf[s] /\ request[r].since <= request[s].since =>
             request[s].since - request[r].since > DedupTTL

\* A request that got its claim is made or abandoned: slots are not lost, so
\* those queued behind a full set of writers get one (acquireStubSlot).
EveryRequestEnds == \A r \in Requests : r \in Running ~> r \notin Running
=============================================================================
