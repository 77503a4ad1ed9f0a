----------------------------- MODULE Admission ------------------------------
(***************************************************************************)
(* The webhook's admissions (internal/webhook, handler.go, decide.go and   *)
(* optin.go): each walks its pod's opt-in (Governance), reading the owner  *)
(* and the workload's annotations through the owner caches (ReadThrough)   *)
(* under a timeout, and one that is governed may ask for a recommendation  *)
(* (StubRequests).  Policies and Namespaces come from informer caches and  *)
(* do not change here; what a workload's annotations say does.             *)
(*                                                                         *)
(* Timers fire on time, and what goroutines do between two reads takes no  *)
(* time.                                                                   *)
(***************************************************************************)
EXTENDS StubRequests, ReadThrough, Governance

CONSTANTS
    Workloads, Kind,    \* the workloads, all of one kind
    RefOf,              \* each admission's pod's controller reference
    OwnerOf,            \* the workload a reference resolves to
    Subject,            \* each admission's pod
    Annotations,        \* what a workload's annotations may say
    NamespaceSays,
    GovernanceTimeout,
    Earlier,            \* the admission, if any, that has just asked
    Happens,            \* what may happen: "annotate", "api-fails", "cancel", "stop"
    MaxEvents           \* bound on how often

ASSUME AdmissionAssumption ==
    /\ Readers = Requests
    /\ GovernanceTimeout \in Nat \ {0} /\ MaxEvents \in Nat
    /\ Things = {RefOf[r] : r \in Requests} \cup Workloads
    /\ Zero = [kind |-> Unread, workload |-> NotRead]
    /\ \A r \in Requests : /\ RefOf[r] \notin Workloads
                           /\ OwnerOf[RefOf[r]] \in Workloads
    /\ Earlier \in {{}} \cup {{r} : r \in Requests}

VARIABLES
    adm,                \* each admission
    says,               \* each workload's annotations
    until,              \* history: when they last said something else
    fault,              \* history: the last time a fetch failed of its own
    events

walk == <<rvars, adm>>
world == <<says, until, fault, events>>
avars == <<vars, walk, world>>

Before == -1

NewAdmission == [at |-> "new", since |-> 0, kind |-> Unread, workload |-> NotRead]

Event(what) ==
    /\ what \in Happens /\ events < MaxEvents
    /\ events' = events + 1

WorkloadOf(r) == OwnerOf[RefOf[r]]

\* What is known so far decides, or calls for a read.
Decision(r, known) == PodDecision(Subject[r], known.kind, known.workload, NamespaceSays)

-----------------------------------------------------------------------------
\* The admission arrives.
Arrives(r) == adm[r].at = "new" /\ reader[r].at = "idle"

\* What it knows once its read, if it made one, is back.
Known(r) ==
    LET back == reader[r].answer
    IN  IF Arrives(r) THEN [NewAdmission EXCEPT !.at = "walking", !.since = now]
        ELSE IF reader[r].of = RefOf[r] THEN [adm[r] EXCEPT !.kind = back.value.kind]
        ELSE [adm[r] EXCEPT !.workload = back.value.workload]

\* The walk goes on, up to its next read (PodOwner, WorkloadAnnotations).
Goes(r) == Arrives(r) \/ (reader[r].at = "back" /\ reader[r].answer.ok)

ReadNext(r) ==
    /\ Goes(r) /\ Decision(r, Known(r)).need # Nobody
    /\ adm' = [adm EXCEPT ![r] = Known(r)]
    /\ Look(r, IF Decision(r, Known(r)).need = "owner" THEN RefOf[r] ELSE WorkloadOf(r), now)
    /\ UNCHANGED <<vars, world>>

\* Or it ends.  A governed admission reads the recommendation and asks for one
\* or not, which is Lifecycle's.
Ends(r, place) ==
    /\ adm' = [adm EXCEPT ![r] = [Known(r) EXCEPT !.at = place]]
    /\ reader' = [reader EXCEPT ![r] = NoRead]
    /\ UNCHANGED <<entries, flights, world>>

Governs(r) ==
    /\ Goes(r) /\ Decision(r, Known(r)).policy # Nobody
    /\ Ends(r, "governed")
    /\ Begin(r) \/ UNCHANGED vars

Refuses(r) ==
    /\ Goes(r) /\ Decision(r, Known(r)).refusal # Nobody
    /\ Ends(r, "refused")
    /\ UNCHANGED vars

Fails(r) ==
    /\ reader[r].at = "back" /\ ~reader[r].answer.ok
    /\ adm' = [adm EXCEPT ![r].at = "failed"]
    /\ reader' = [reader EXCEPT ![r] = NoRead]
    /\ UNCHANGED <<vars, entries, flights, world>>

JoinFlight(r) == Join(r, now) /\ UNCHANGED <<vars, adm, world>>

\* governanceTimeout ends a wait.
Late(r) ==
    /\ adm[r].at = "walking" /\ now >= adm[r].since + GovernanceTimeout
    /\ Leave(r)
    /\ UNCHANGED <<vars, adm, world>>

\* The API server hangs up.
Cancelled(r) ==
    /\ adm[r].at = "walking" /\ reader[r].at = "waiting" /\ Event("cancel")
    /\ reader' = [reader EXCEPT ![r] = NoRead]
    /\ adm' = [adm EXCEPT ![r].at = "cancelled"]
    /\ UNCHANGED <<vars, entries, flights, says, until, fault>>

-----------------------------------------------------------------------------
\* Fetches: fetchPodOwner resolves a reference, which never changes, and
\* fetchOwnerAnnotations what the workload says now.
Truth(t) == IF t \in Workloads THEN [Zero EXCEPT !.workload = says[t]]
            ELSE [Zero EXCEPT !.kind = Kind]

Fetch(t) ==
    /\ Read(t, Truth(t)) \/ Arrive(t, now) \/ Retire(t)
    /\ UNCHANGED <<vars, adm, world>>

FetchFailed(t) ==
    /\ Event("api-fails") /\ FetchFails(t)
    /\ fault' = now
    /\ UNCHANGED <<vars, adm, says, until>>

FetchLate(t) ==
    /\ FetchTimesOut(t, now)
    /\ fault' = IF now - flights[t].since >= Deadline THEN now ELSE fault
    /\ UNCHANGED <<vars, adm, says, until, events>>

\* The workload is annotated, or deleted, which reads as saying nothing.
Annotate(w) ==
    /\ Event("annotate")
    /\ \E a \in Annotations \ {says[w]} : says' = [says EXCEPT ![w] = a]
    /\ until' = [until EXCEPT ![w][says[w]] = now]
    /\ UNCHANGED <<vars, walk, fault>>

\* Nobody has a step to take before time goes on.
Rests ==
    /\ \A t \in Things : /\ flights[t].at # "over"
                         /\ Fetching(t) => ~Expired(t, now)
    /\ \A r \in Requests :
          /\ reader[r].at \in {"idle", "waiting"}
          /\ reader[r].at = "waiting" => now < adm[r].since + GovernanceTimeout

Wait == Rests /\ Tick /\ UNCHANGED <<walk, world>>

Stubs ==
    /\ \/ \E r \in Requests : AcquireSlot(r) \/ GiveUp(r) \/ Write(r)
       \/ Drained \/ DrainTimesOut
    /\ UNCHANGED <<walk, world>>

Shutdown ==
    /\ Stop
    /\ IF stopping THEN UNCHANGED events ELSE Event("stop")
    /\ UNCHANGED <<walk, says, until, fault>>

\* The observation starts right after Earlier's beginStubRequest.
AInit ==
    /\ now = 0 /\ slots = 0 /\ stopping = FALSE /\ shutdown = "none"
    /\ \/ Earlier = {} /\ seq = 0 /\ claims = <<>>
       \/ \E r \in Earlier : seq = 1 /\ claims = <<Entry(KeyOf[r], 1, 0)>>
    /\ request = [r \in Requests |->
                     [at |-> IF r \in Earlier THEN "queued" ELSE "new",
                      claim |-> IF r \in Earlier THEN 1 ELSE 0, since |-> 0]]
    /\ entries = [c \in {CacheOf[t] : t \in Things} |-> <<>>]
    /\ flights = [t \in Things |-> NoFlight]
    /\ reader = [r \in Requests |-> NoRead]
    /\ adm = [r \in Requests |->
                 [NewAdmission EXCEPT !.at = IF r \in Earlier THEN "governed" ELSE "new"]]
    /\ says \in [Workloads -> Annotations]
    /\ until = [w \in Workloads |-> [a \in Annotations |-> Before]]
    /\ fault = Before /\ events = 0

Walk(r) ==
    \/ ReadNext(r) \/ Governs(r) \/ Refuses(r) \/ Fails(r)
    \/ JoinFlight(r) \/ Late(r) \/ Cancelled(r)

ANext ==
    \/ \E r \in Requests : Walk(r)
    \/ \E t \in Things : Fetch(t) \/ FetchFailed(t) \/ FetchLate(t)
    \/ \E w \in Workloads : Annotate(w)
    \/ Wait \/ Stubs \/ Shutdown

ASpec == AInit /\ [][ANext]_avars

\* A write ends and a free slot is taken.  Nothing is assumed of the queue's
\* timeout, nor of the fetches.
AFairSpec ==
    /\ ASpec
    /\ \A r \in Requests : WF_vars(AcquireSlot(r) /\ UNCHANGED <<walk, world>>)
                        /\ WF_vars(Write(r) /\ UNCHANGED <<walk, world>>)

-----------------------------------------------------------------------------
\* Every variable has its type.
ATypeOK ==
    /\ TypeOK
    /\ \A t \in Things :
          /\ flights[t].at \in {"none", "sent", "read", "over"}
          /\ flights[t].since \in 0..now
          /\ Len(Entries(t)) <= MaxEntries
    /\ \A r \in Requests :
          /\ reader[r].at \in {"idle", "missed", "waiting", "back"}
          /\ adm[r].at \in {"new", "walking", "refused", "failed", "cancelled",
                           "governed"}
          /\ adm[r].kind \in {Unread, Kind}
          /\ adm[r].workload \in Annotations \cup {NotRead}
    /\ says \in [Workloads -> Annotations]
    /\ fault \in Before..now /\ events \in 0..MaxEvents

\* "A workload gaining or losing the policy annotation may take up to this TTL
\* to be seen": an admission decides with annotations its workload carried
\* within the TTL and the deadline of the fetch that read them, whoever
\* started that fetch and however long it took (ReadThrough, ownerCaches).
ReadsAreRecent ==
    [][\A r \in Requests :
          adm'[r].workload # adm[r].workload =>
             \/ says[WorkloadOf(r)] = adm'[r].workload
             \/ /\ until[WorkloadOf(r)][adm'[r].workload] # Before
                /\ now - until[WorkloadOf(r)][adm'[r].workload] <= TTL + Deadline]_avars

\* Governance fails an admission only when its own time is up or, since it
\* came, a fetch failed or used up its deadline: no admission suffers from
\* another that gave up or was cancelled, or from an earlier error (Get, join,
\* lead).
FailsForCause ==
    [][\A r \in Requests :
          adm[r].at # "failed" /\ adm'[r].at = "failed" =>
             \/ now >= adm[r].since + GovernanceTimeout
             \/ fault >= adm[r].since]_avars
=============================================================================
