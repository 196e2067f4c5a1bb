------------------------------ MODULE LRUCache ------------------------------
(***************************************************************************)
(* LRUCache (engine/src/lru_cache.cpp).  lru_list_ and the map are one     *)
(* sequence of key and entry, the most recently used first: every method   *)
(* changes both under mutex_, and the map points into the list.            *)
(***************************************************************************)
EXTENDS Integers, Sequences

CachedIn(cache, key) ==
    {cache[i].entry : i \in {j \in DOMAIN cache : cache[j].key = key}}

\* The map has one position for a key that is cached.
CacheWithout(cache, key) ==
    LET at == {i \in DOMAIN cache : cache[i].key = key}
        i  == CHOOSE j \in at : TRUE
    IN  IF at = {} THEN cache
        ELSE SubSeq(cache, 1, i - 1) \o SubSeq(cache, i + 1, Len(cache))

CacheFront(cache, key, entry) ==
    <<[key |-> key, entry |-> entry]>> \o CacheWithout(cache, key)

\* get(): a hit moves to the front.
CacheTouch(cache, key) ==
    IF CachedIn(cache, key) = {} THEN cache
    ELSE CacheFront(cache, key, CHOOSE e \in CachedIn(cache, key) : TRUE)

\* put(): a new key first makes room by dropping the least recently used one.
CachePut(cache, key, entry, capacity) ==
    IF CachedIn(cache, key) = {} /\ Len(cache) >= capacity
    THEN CacheFront(SubSeq(cache, 1, Len(cache) - 1), key, entry)
    ELSE CacheFront(cache, key, entry)

CacheInvalidateNothing(cache, key) == cache     \* mutant: no invalidation
CacheInvalidate(cache, key) == CacheWithout(cache, key)

CacheClear == <<>>
=============================================================================
