------------------------------- MODULE IslBlk -------------------------------
(***************************************************************************)
(* The cache of integer blocks of a context, isl_blk.c. A block is the     *)
(* memory it points to and the number of elements isl takes it to have;    *)
(* real holds what was allocated.                                          *)
(***************************************************************************)
EXTENDS Integers, Sequences, FiniteSets, SequencesExt

CONSTANTS
    Blocks,       \* addresses
    Sizes,        \* numbers of elements that are asked for, 0 among them
    CacheSize,    \* ISL_BLK_CACHE_SIZE, 20
    MaxMiss,      \* ISL_BLK_MAX_MISS, 100
    Slack         \* the 100 of the test for a block that is far too large

\* What is assumed of the constants.
BlkAssumption ==
    /\ Sizes \subseteq Nat /\ {CacheSize, MaxMiss, Slack} \subseteq Nat \ {0}
    /\ "NULL" \notin Blocks

VARIABLES
    cache,     \* ctx->cache up to n_cached
    miss,      \* ctx->n_miss
    real,      \* the allocated blocks and their true sizes
    used,      \* the blocks clients hold
    since      \* history: misses since the first element of the cache was put there

vars == <<cache, miss, real, used, since>>

Block(a, n) == [data |-> a, size |-> n]

Empty == Block("NULL", 0)

Init == cache = <<>> /\ miss = 0 /\ real = <<>> /\ used = {} /\ since = 0

Fresh == Blocks \ DOMAIN real

-----------------------------------------------------------------------------

\* Mutant: the first block that is large enough.
BestFirst(n) ==
    LET enough == {i \in 1 .. Len(cache) : cache[i].size >= n}
    IN  IF enough # {} THEN Min(enough) ELSE Len(cache)

\* The better of two blocks of the cache for n elements.
Better(n, best, i) ==
    IF cache[best].size = n THEN best
    ELSE IF cache[best].size < n
    THEN IF cache[i].size > cache[best].size THEN i ELSE best
    ELSE IF cache[i].size >= n /\ cache[i].size < cache[best].size THEN i ELSE best

\* The loop of isl_blk_alloc over the cache.
Best(n) ==
    LET upTo[i \in 1 .. Len(cache)] == IF i = 1 THEN 1 ELSE Better(n, upTo[i - 1], i)
    IN  upTo[Len(cache)]

\* Mutant: the last block is lost instead of the one that is taken out.
WithoutLast(best) == Front(cache)

\* The last element takes the place of the one that is taken out.
Without(best) == Front(IF best = Len(cache) THEN cache ELSE [cache EXCEPT ![best] = Last(cache)])

\* extend(): a block that is too small is reallocated, and freed when that fails. It
\* may move. isl_blk_alloc of an empty block is an allocation.
Extend(block, n, cached) ==
    /\ cache' = cached
    /\ IF block.size >= n
       THEN used' = used \cup ({block} \ {Empty}) /\ UNCHANGED real
       ELSE \/ /\ used' = used
               /\ real' = Restrict(real, DOMAIN real \ {block.data})
            \/ \E a \in Fresh \cup ({block.data} \ {Empty.data}) :
                  /\ used' = used \cup {Block(a, n)}
                  /\ real' = [b \in (DOMAIN real \ {block.data}) \cup {a} |-> IF b = a THEN n ELSE real[b]]

\* isl_blk_alloc: out of an empty cache, or of none for no elements.
AllocOutside(n) ==
    /\ n = 0 \/ cache = <<>>
    /\ Extend(Empty, n, cache)
    /\ UNCHANGED <<miss, since>>

IsTooLarge(block, n) == block.size >= 2 * n + Slack

\* isl_blk_alloc: the best block of the cache.
AllocFromCache(n) ==
    /\ n > 0 /\ cache # <<>>
    /\ \E best \in {Best(n)} :
          /\ ~ IsTooLarge(cache[best], n)
          /\ Extend(cache[best], n, Without(best))
          /\ miss' = IF best = 1 THEN 0 ELSE miss
          /\ since' = IF best = 1 THEN 0 ELSE since

\* isl_blk_alloc: even the best one is far too large; after MaxMiss such misses the
\* first block is freed.
Miss(n) ==
    /\ n > 0 /\ cache # <<>>
    /\ IsTooLarge(cache[Best(n)], n)
    /\ miss < MaxMiss
    /\ miss' = miss + 1 /\ since' = since + 1
    /\ Extend(Empty, n, cache)

Evict(n) ==
    /\ n > 0 /\ cache # <<>>
    /\ IsTooLarge(cache[Best(n)], n)
    /\ miss >= MaxMiss
    /\ miss' = 0 /\ since' = 0
    /\ LET first == cache[1] IN
       /\ cache' = Without(1)
       /\ \/ /\ real' = Restrict(real, DOMAIN real \ {first.data})
             /\ used' = used
          \/ \E a \in Fresh \cup {first.data} :
                /\ real' = [b \in (DOMAIN real \ {first.data}) \cup {a} |-> IF b = a THEN n ELSE real[b]]
                /\ used' = used \cup {Block(a, n)}

Alloc(n) == AllocOutside(n) \/ AllocFromCache(n) \/ Miss(n) \/ Evict(n)

\* isl_blk_extend of a block that is not empty; the client gives the old one up.
ExtendBlock(block, n) ==
    /\ block \in used
    /\ UNCHANGED <<cache, miss, since>>
    /\ IF block.size >= n
       THEN UNCHANGED <<used, real>>
       ELSE \/ /\ used' = used \ {block}
               /\ real' = Restrict(real, DOMAIN real \ {block.data})
            \/ \E a \in Fresh \cup {block.data} :
                  /\ used' = (used \ {block}) \cup {Block(a, n)}
                  /\ real' = [b \in (DOMAIN real \ {block.data}) \cup {a} |-> IF b = a THEN n ELSE real[b]]

\* isl_blk_free: into the cache while there is room.
FreeBlock(block) ==
    /\ block \in used
    /\ used' = used \ {block}
    /\ IF Len(cache) < CacheSize
       THEN cache' = Append(cache, block) /\ UNCHANGED real
       ELSE real' = Restrict(real, DOMAIN real \ {block.data}) /\ UNCHANGED cache
    /\ since' = IF cache = <<>> THEN 0 ELSE since
    /\ UNCHANGED miss

\* isl_blk_clear_cache, of isl_ctx_free, and the next context.
ClearCache ==
    /\ used = {} /\ cache # <<>>
    /\ cache' = <<>>
    /\ real' = Restrict(real, DOMAIN real \ {cache[i].data : i \in DOMAIN cache})
    /\ miss' = 0 /\ since' = 0
    /\ UNCHANGED used

Next ==
    \/ \E n \in Sizes : Alloc(n)
    \/ \E block \in used : FreeBlock(block) \/ \E n \in Sizes : ExtendBlock(block, n)
    \/ ClearCache

Spec == Init /\ [][Next]_vars

-----------------------------------------------------------------------------

TypeOK ==
    /\ Len(cache) <= CacheSize /\ miss \in 0 .. MaxMiss
    /\ \A a \in DOMAIN real : a \in Blocks /\ real[a] \in Nat
    /\ \A block \in used \cup Range(cache) : block.data \in DOMAIN real

Owned == used \cup Range(cache)

\* Every allocated block has one owner, a client or one place of the cache: nobody
\* gets memory that somebody else has, and none is lost.
BlocksHaveOneOwner ==
    /\ \A i, j \in DOMAIN cache : i # j => cache[i].data # cache[j].data
    /\ \A b \in used, c \in Range(cache) : b.data # c.data
    /\ \A b, c \in used : b # c => b.data # c.data
    /\ {b.data : b \in Owned} = DOMAIN real

\* A block has at least the elements its size promises (all of which are initialised),
\* however it came out of the cache.
SizesAreTrue == \A b \in Owned : b.data \in DOMAIN real => b.size <= real[b.data]

\* The choice of isl_blk_alloc: the smallest block that is large enough, or the largest.
BestFits ==
    cache # <<>> => \A n \in Sizes \ {0} :
        LET sizes  == {cache[i].size : i \in DOMAIN cache}
            enough == {s \in sizes : s >= n}
        IN  cache[Best(n)].size = IF enough # {} THEN Min(enough) ELSE Max(sizes)

\* isl_blk.c "The maximal number of cache misses before first element is evicted":
\* since the first element of the cache was put there, no more have been missed.
FirstIsEvictedInTime == since <= MaxMiss

\* A block belongs to one client or to the cache, and is as large as it says.
BlocksAreOwned == BlocksHaveOneOwner /\ SizesAreTrue

\* The cache gives the block away that fits best, and its first block leaves it after
\* enough misses.
CacheServes == BestFits /\ FirstIsEvictedInTime
=============================================================================
