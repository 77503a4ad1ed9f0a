-------------------------------- MODULE LRU ---------------------------------
(***************************************************************************)
(* The LRU cache of internal/cache: a sequence of entries, the most        *)
(* recently used first, at most maxEntries long and each fresh for ttl     *)
(* after it was stored.  Every operation holds the cache's lock.  An       *)
(* expired entry is a miss that keeps its place.                           *)
(***************************************************************************)
EXTENDS Integers, Sequences

Entry(key, value, now) == [key |-> key, value |-> value, storedAt |-> now]

Has(cache, key) == \E j \in DOMAIN cache : cache[j].key = key

\* The map's element of a key: there is at most one.
Place(cache, key) == CHOOSE j \in DOMAIN cache : cache[j].key = key

At(cache, key) == cache[Place(cache, key)]

Without(cache, key) ==
    LET j == Place(cache, key)
    IN  IF Has(cache, key)
        THEN SubSeq(cache, 1, j - 1) \o SubSeq(cache, j + 1, Len(cache)) ELSE cache

StoredWithin(cache, key, age, now) ==
    Has(cache, key) /\ now - At(cache, key).storedAt <= age

\* Mutant: an entry never expires.
FreshForever(cache, key, ttl, now) == Has(cache, key)

Fresh(cache, key, ttl, now) == StoredWithin(cache, key, ttl, now)

\* MoveToFront.
Touch(cache, key) == <<At(cache, key)>> \o Without(cache, key)

\* Mutant: an entry of the key stays behind the new one.
SetTwice(cache, key, value, now, maxEntries) ==
    LET new == <<Entry(key, value, now)>> \o cache
    IN  SubSeq(new, 1, IF Len(new) > maxEntries THEN maxEntries ELSE Len(new))

\* setLocked: an entry of the key is overwritten, another may be evicted.
Set(cache, key, value, now, maxEntries) ==
    LET new == <<Entry(key, value, now)>> \o Without(cache, key)
    IN  SubSeq(new, 1, IF Len(new) > maxEntries THEN maxEntries ELSE Len(new))

\* SetIfAbsent, as the cache it leaves; it stores when no entry is fresh.
SetIfAbsent(cache, key, value, ttl, now, maxEntries) ==
    IF Fresh(cache, key, ttl, now) THEN Touch(cache, key)
    ELSE Set(cache, key, value, now, maxEntries)

\* Mutant: deletes whatever is stored at the key.
DeleteAny(cache, key, value) == Without(cache, key)

\* DeleteIf, with a match on the value.
DeleteIf(cache, key, value) ==
    IF Has(cache, key) /\ At(cache, key).value = value
    THEN Without(cache, key) ELSE cache
=============================================================================
