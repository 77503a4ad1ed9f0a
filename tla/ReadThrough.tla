---------------------------- MODULE ReadThrough -----------------------------
(***************************************************************************)
(* The read-through caches of internal/cache (readthrough.go) over LRU:    *)
(* readers look a key up, and those that miss join the key's flight or     *)
(* start it.  A flight runs apart from its readers, with a deadline of its *)
(* own.  Reading the key, at the API server, and the answer's arrival are  *)
(* two steps.                                                              *)
(***************************************************************************)
EXTENDS LRU, FiniteSets

CONSTANTS
    Readers,
    Things,             \* the keys, of every cache
    CacheOf,            \* the cache of each
    TTL,
    MaxEntries,
    Deadline,           \* of a fetch
    Zero                \* the zero value

ASSUME ReadThroughAssumption == {TTL, MaxEntries, Deadline} \subseteq Nat \ {0}

VARIABLES
    entries,            \* the LRU of each cache
    flights,            \* the flight of each key
    reader              \* where each reader's Get is

rvars == <<entries, flights, reader>>

NoAnswer == [ok |-> FALSE, value |-> Zero]

NoFlight == [at |-> "none", since |-> 0, leader |-> "none", answer |-> NoAnswer]

NoRead == [at |-> "idle", of |-> "none", answer |-> NoAnswer]

Entries(t) == entries[CacheOf[t]]

-----------------------------------------------------------------------------
\* Get, by a reader that does not wait for another: it looks the key up.
Look(r, t, now) ==
    /\ reader[r].at \in {"idle", "back"}
    /\ IF Fresh(Entries(t), t, TTL, now)
       THEN /\ reader' = [reader EXCEPT ![r] = [at |-> "back", of |-> t,
                                             answer |-> At(Entries(t), t).value]]
            /\ entries' = [entries EXCEPT ![CacheOf[t]] = Touch(@, t)]
       ELSE /\ reader' = [reader EXCEPT ![r] = [NoRead EXCEPT !.at = "missed", !.of = t]]
            /\ UNCHANGED entries
    /\ UNCHANGED flights

\* join, under the lock.
Join(r, now) ==
    LET t == reader[r].of
    IN  /\ reader[r].at = "missed"
        /\ reader' = [reader EXCEPT ![r].at = "waiting"]
        /\ flights' = IF flights[t].at # "none" THEN flights
                      ELSE [flights EXCEPT ![t] =
                              [NoFlight EXCEPT !.at = "sent", !.since = now, !.leader = r]]
        /\ UNCHANGED entries

Fetching(t) == flights[t].at \in {"sent", "read"}

\* The fetch of t, external: the API server reads the value, and the answer
\* arrives.
Read(t, value) ==
    /\ flights[t].at = "sent"
    /\ flights' = [flights EXCEPT ![t].at = "read",
                                  ![t].answer = [ok |-> TRUE, value |-> value]]
    /\ UNCHANGED <<entries, reader>>

\* A value is cached before the flight retires, an error never.
Arrive(t, now) ==
    /\ flights[t].at = "read"
    /\ flights' = [flights EXCEPT ![t].at = "over"]
    /\ entries' = [entries EXCEPT ![CacheOf[t]] =
                      Set(@, t, flights[t].answer, now, MaxEntries)]
    /\ UNCHANGED reader

Failed(t) ==
    /\ Fetching(t)
    /\ flights' = [flights EXCEPT ![t].at = "over", ![t].answer = NoAnswer]
    /\ UNCHANGED <<entries, reader>>

\* The call fails, or the fetch panics (fetchRecovered).
FetchFails(t) == Failed(t)

\* Mutant: the fetch runs on the context of the reader that started it.
ExpiredWithLeader(t, now) ==
    \/ now >= flights[t].since + Deadline
    \/ reader[flights[t].leader].at # "waiting" \/ reader[flights[t].leader].of # t

Expired(t, now) == now >= flights[t].since + Deadline

FetchTimesOut(t, now) == Fetching(t) /\ Expired(t, now) /\ Failed(t)

Waiting(t) == {r \in Readers : reader[r].at = "waiting" /\ reader[r].of = t}

\* lead's end: the flight retires, and whoever waits gets its answer.
Retire(t) ==
    /\ flights[t].at = "over"
    /\ flights' = [flights EXCEPT ![t] = NoFlight]
    /\ reader' = [r \in Readers |->
                     IF r \in Waiting(t)
                     THEN [reader[r] EXCEPT !.at = "back", !.answer = flights[t].answer]
                     ELSE reader[r]]
    /\ UNCHANGED entries

\* The reader's own context ends its wait.
Leave(r) ==
    /\ reader[r].at = "waiting"
    /\ reader' = [reader EXCEPT ![r].at = "back", ![r].answer = NoAnswer]
    /\ UNCHANGED <<entries, flights>>
=============================================================================
