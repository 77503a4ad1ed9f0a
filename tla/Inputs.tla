------------------------------- MODULE Inputs -------------------------------
(***************************************************************************)
(* What FetchInputs promises (internal/recommender, inputs.go and the      *)
(* InputsFetcher of prom_inputs.go), with no word on shards, retries or    *)
(* the client: signal by signal, every identity is read or loses that      *)
(* signal, on its own unless the caller gave up, and the answer is an      *)
(* error exactly for the identities that lost a required signal.  One that *)
(* cannot be asked about has no samples, which is no error.                *)
(***************************************************************************)
EXTENDS Naturals, Sequences

CONSTANTS
    Identities,
    Askable,            \* those Prometheus can be asked about
    Required            \* for each signal, in order, whether it is required

VARIABLES
    signal,             \* the signal being read, 0 between fetches
    unread,             \* identities it is still to be read for
    lost,               \* the signals each identity lost
    gaveUp,             \* the caller's context has ended
    answer              \* each identity's result of the last fetch

avars == <<signal, unread, lost, gaveUp, answer>>

AInit ==
    /\ signal = 0 /\ unread = {}
    /\ lost = [i \in Identities |-> {}]
    /\ gaveUp = FALSE
    /\ answer = [i \in Identities |-> "none"]

\* A fetch starts with a context of its own.
Start ==
    /\ signal = 0
    /\ signal' = 1 /\ unread' = Askable
    /\ lost' = [i \in Identities |-> {}]
    /\ gaveUp' = FALSE
    /\ answer' = [i \in Identities |-> "none"]

\* Some identities get the signal's values.
Read ==
    /\ signal # 0
    /\ \E some \in SUBSET unread : some # {} /\ unread' = unread \ some
    /\ UNCHANGED <<signal, lost, gaveUp, answer>>

\* An identity loses the signal.
Lose(some) ==
    /\ signal # 0
    /\ unread' = unread \ some
    /\ lost' = [i \in Identities |->
                   IF i \in some THEN lost[i] \cup {signal} ELSE lost[i]]
    /\ UNCHANGED <<signal, gaveUp, answer>>

LoseOne == \E i \in unread : Lose({i})

\* Once nobody waits for them several may lose it together.
LoseTogether == gaveUp /\ \E some \in SUBSET unread : Lose(some)

GiveUp ==
    /\ signal # 0
    /\ gaveUp' = TRUE
    /\ UNCHANGED <<signal, unread, lost, answer>>

Advance ==
    /\ signal \in 1..(Len(Required) - 1) /\ unread = {}
    /\ signal' = signal + 1 /\ unread' = Askable
    /\ UNCHANGED <<lost, gaveUp, answer>>

Return ==
    /\ signal = Len(Required) /\ unread = {}
    /\ signal' = 0
    /\ answer' = [i \in Identities |->
                     IF \E s \in lost[i] : Required[s] THEN "error" ELSE "inputs"]
    /\ UNCHANGED <<unread, lost, gaveUp>>

ANext == Start \/ Read \/ LoseOne \/ LoseTogether \/ GiveUp \/ Advance \/ Return

ASpec == AInit /\ [][ANext]_avars
=============================================================================
