------------------------------ MODULE LRUCache ------------------------------
(***************************************************************************)
(* util/cache.cc: the hash table, one shard (LRUCache) and the sharded     *)
(* cache, as operators on the state of a cache.  Every call runs under the *)
(* shard's mutex, so it is one step for its callers.                       *)
(*                                                                         *)
(* A shard is [cap, list, elems, lru, in_use, usage, e, freed]: the        *)
(* buckets of the hash table and their number of elements, the two lists   *)
(* (oldest first), the entries by their address, and the values handed to  *)
(* the deleter by the last call.  An address is reused once it is free.    *)
(* A key is a tuple of numbers; its hash is some function of it            *)
(* (util/hash.cc mixes all of it).                                         *)
(***************************************************************************)
EXTENDS Integers, Sequences, SequencesExt, FiniteSets, FiniteSetsExt

CONSTANTS kNumShards,       \* 16 in the code
          kInitialLength    \* 4: the least number of buckets

Shards == 0..kNumShards - 1
NULL == 0
Hash(key) == key[1] + Len(key)
ShardOf(key) == Hash(key) % kNumShards

-----------------------------------------------------------------------------
(* HandleTable.                                                            *)

length(list) == Len(list)
Bucket(list, key) == (Hash(key) % length(list)) + 1

\* The place of the key in its bucket, or the one behind the last.
FindPointer(c, key) ==
    LET bucket == c.list[Bucket(c.list, key)]
        at == {i \in DOMAIN bucket : c.e[bucket[i]].key = key}
    IN IF at = {} THEN Len(bucket) + 1 ELSE Min(at)

TableLookup(c, key) ==
    LET bucket == c.list[Bucket(c.list, key)]
        i == FindPointer(c, key)
    IN IF i > Len(bucket) THEN NULL ELSE bucket[i]

\* Twice as many buckets until they are at least as many as the elements;
\* every element is put in front of its new bucket.
NewLength(n) ==
    CHOOSE len \in {kInitialLength * 2^i : i \in 0..n} :
        len >= n /\ \A i \in 0..n : kInitialLength * 2^i < len => kInitialLength * 2^i < n
Resize(c) ==
    LET len == NewLength(c.elems)
        empty == [i \in 1..len |-> <<>>]
        all == FlattenSeq(c.list)
    IN [c EXCEPT !.list =
          FoldLeft(LAMBDA l, h : [l EXCEPT ![Bucket(l, c.e[h].key)] = <<h>> \o @], empty, all)]

TableInsert(c, h) ==
    LET key == c.e[h].key
        b == Bucket(c.list, key)
        i == FindPointer(c, key)
        new == i > Len(c.list[b])
        put == [c EXCEPT !.list[b] = IF new THEN Append(@, h) ELSE [@ EXCEPT ![i] = h],
                         !.elems = IF new THEN @ + 1 ELSE @]
    IN IF new /\ put.elems > length(put.list) THEN Resize(put) ELSE put

TableRemove(c, key) ==
    LET b == Bucket(c.list, key)
        i == FindPointer(c, key)
    IN IF i > Len(c.list[b]) THEN c ELSE [c EXCEPT !.list[b] = RemoveAt(@, i), !.elems = @ - 1]

-----------------------------------------------------------------------------
(* LRUCache.                                                               *)

EmptyShard(capacity) ==
    [cap |-> capacity, list |-> [i \in 1..kInitialLength |-> <<>>], elems |-> 0, lru |-> <<>>,
     in_use |-> <<>>, usage |-> 0, e |-> <<>>, freed |-> {}]

\* Off whichever list it is on.
LRU_Remove(c, h) == [c EXCEPT !.lru = SelectSeq(@, LAMBDA x : x # h),
                              !.in_use = SelectSeq(@, LAMBDA x : x # h)]

\* (mutant) A second reader leaves the entry on the list of the unused.
RefInPlace(c, h) == [c EXCEPT !.e[h].refs = @ + 1]
Ref(c, h) ==
    LET d == IF c.e[h].refs = 1 /\ c.e[h].in_cache
             THEN [LRU_Remove(c, h) EXCEPT !.in_use = Append(@, h)] ELSE c
    IN [d EXCEPT !.e[h].refs = @ + 1]

Free(c, h) == [c EXCEPT !.e = [x \in DOMAIN c.e \ {h} |-> c.e[x]],
                        !.freed = @ \cup {c.e[h].value}]
Unref(c, h) ==
    LET d == [c EXCEPT !.e[h].refs = @ - 1]
    IN IF d.e[h].refs = 0 THEN Free(d, h)
       ELSE IF d.e[h].in_cache /\ d.e[h].refs = 1
       THEN [LRU_Remove(d, h) EXCEPT !.lru = Append(@, h)]
       ELSE d

\* The entry has been taken from the hash table (NULL: there was none).
FinishErase(c, h) ==
    IF h = NULL THEN c
    ELSE Unref([LRU_Remove(c, h) EXCEPT !.e[h].in_cache = FALSE,
                                        !.usage = @ - c.e[h].charge], h)

Called(c) == [c EXCEPT !.freed = {}]

Lookup(c, key) ==
    LET h == TableLookup(c, key)
    IN [c |-> IF h = NULL THEN Called(c) ELSE Ref(Called(c), h), h |-> h]

Release(c, h) == Unref(Called(c), h)

\* The new entry takes the place of an old one of the same key.
Replace(c, h, key) ==
    LET old == TableLookup(c, key) IN FinishErase(TableInsert(c, h), old)

\* The unused entries leave, oldest first, while there is too much.
Shrink(c) ==
    FoldLeft(LAMBDA d, h : IF d.usage > d.cap
                           THEN FinishErase(TableRemove(d, d.e[h].key), h) ELSE d, c, c.lru)

\* A new entry: one reference is the caller's, one the cache's.
LRUHandle(key, value, charge, cached) ==
    [key |-> key, value |-> value, charge |-> charge,
     in_cache |-> cached, refs |-> IF cached THEN 2 ELSE 1]

Insert(c, key, value, charge) ==
    LET h == CHOOSE x \in 1..Cardinality(DOMAIN c.e) + 1 : x \notin DOMAIN c.e
        cached == c.cap > 0
        entry == LRUHandle(key, value, charge, cached)
        d == [Called(c) EXCEPT !.e = [x \in DOMAIN c.e \cup {h} |->
                                         IF x = h THEN entry ELSE c.e[x]]]
        put == [d EXCEPT !.in_use = Append(@, h), !.usage = @ + charge]
    IN [c |-> Shrink(IF cached THEN Replace(put, h, key) ELSE d), h |-> h]

Erase(c, key) ==
    LET h == TableLookup(c, key) IN FinishErase(TableRemove(Called(c), key), h)

Prune(c) == FoldLeft(LAMBDA d, h : FinishErase(TableRemove(d, d.e[h].key), h), Called(c), c.lru)

\* ~LRUCache: no entry may be in use.
Destroy(c) ==
    [EmptyShard(c.cap) EXCEPT !.freed =
        FoldLeft(LAMBDA d, h : Unref([d EXCEPT !.e[h].in_cache = FALSE], h),
                 Called(c), c.lru).freed]

-----------------------------------------------------------------------------
(* ShardedLRUCache.                                                        *)

NewLRUCache(capacity) ==
    [s \in Shards |-> EmptyShard((capacity + kNumShards - 1) \div kNumShards)]

\* A call goes to the shard of its key, or of its handle's key.
CacheInsert(cache, key, value, charge) ==
    LET i == Insert(cache[ShardOf(key)], key, value, charge)
    IN [c |-> [cache EXCEPT ![ShardOf(key)] = i.c], h |-> i.h]
CacheLookup(cache, key) ==
    LET l == Lookup(cache[ShardOf(key)], key)
    IN [c |-> [cache EXCEPT ![ShardOf(key)] = l.c], h |-> l.h]
CacheRelease(cache, s, h) == [cache EXCEPT ![s] = Release(@, h)]
CacheErase(cache, key) == [cache EXCEPT ![ShardOf(key)] = Erase(@, key)]
Value(cache, s, h) == cache[s].e[h].value
NewId(id) == id + 1
CachePrune(cache) == [s \in Shards |-> Prune(cache[s])]

-----------------------------------------------------------------------------
(* What holds between calls, given how many handles the callers hold.      *)

Sum(f) == FoldSet(LAMBDA x, n : f[x] + n, 0, DOMAIN f)
ShardSound(c, held(_)) ==
    /\ \A h \in DOMAIN c.e : c.e[h].refs = held(h) + (IF c.e[h].in_cache THEN 1 ELSE 0)
    /\ \A h \in DOMAIN c.e : c.e[h].refs > 0
    /\ ToSet(c.lru) = {h \in DOMAIN c.e : c.e[h].in_cache /\ c.e[h].refs = 1}
    /\ ToSet(c.in_use) = {h \in DOMAIN c.e : c.e[h].in_cache /\ c.e[h].refs > 1}
    /\ IsInjective(c.lru) /\ IsInjective(c.in_use)
    /\ \A h \in DOMAIN c.e : c.e[h].in_cache <=> TableLookup(c, c.e[h].key) = h
    /\ c.usage = Sum([h \in {x \in DOMAIN c.e : c.e[x].in_cache} |-> c.e[h].charge])
=============================================================================
