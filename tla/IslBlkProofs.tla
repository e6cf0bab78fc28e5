---------------------------- MODULE IslBlkProofs ----------------------------
(* Theorems about IslBlk for any number of addresses, any sizes and any       *)
(* limits of the cache. A step takes a block out of the cache, hands one      *)
(* back, moves it or frees it; each of these keeps the memory owned.          *)
EXTENDS IslBlk, LeastElements, SequenceTheorems, TLAPS

BlockSet == [data : Blocks, size : Nat]

\* Cache c, clients' blocks u and allocated memory r fit together.
Sound(c, u, r) ==
    /\ c \in Seq(BlockSet) /\ u \subseteq BlockSet
    /\ r = [a \in DOMAIN r |-> r[a]] /\ DOMAIN r \subseteq Blocks
    /\ \A a \in DOMAIN r : r[a] \in Nat
    /\ \A i, j \in 1 .. Len(c) : i # j => c[i].data # c[j].data
    /\ \A b \in u, i \in 1 .. Len(c) : b.data # c[i].data
    /\ \A b, d \in u : b # d => b.data # d.data
    /\ \A i \in 1 .. Len(c) : c[i].data \in DOMAIN r /\ c[i].size <= r[c[i].data]
    /\ \A b \in u : b.data \in DOMAIN r /\ b.size <= r[b.data]
    /\ \A a \in DOMAIN r : (\E b \in u : b.data = a) \/ (\E i \in 1 .. Len(c) : c[i].data = a)

\* The counters: as many misses are counted as the first block has seen, at least.
Counters ==
    /\ miss \in 0 .. MaxMiss /\ since \in 0 .. miss
    /\ Len(cache) <= CacheSize

Inv == Sound(cache, used, real) /\ Counters

-----------------------------------------------------------------------------
(* What the steps do to the blocks.                                          *)

LEMMA BlockTyped ==
    ASSUME NEW a \in Blocks, NEW n \in Nat
    PROVE  Block(a, n) \in BlockSet /\ Block(a, n).data = a /\ Block(a, n).size = n
BY DEF Block, BlockSet

\* The cache without one of its blocks.
LEMMA WithoutIs ==
    ASSUME cache \in Seq(BlockSet), NEW k \in 1 .. Len(cache)
    PROVE  /\ Without(k) \in Seq(BlockSet)
           /\ Len(Without(k)) = Len(cache) - 1
           /\ \A i \in 1 .. Len(cache) - 1 :
                 Without(k)[i] = IF i = k THEN cache[Len(cache)] ELSE cache[i]
<1> DEFINE c == IF k = Len(cache) THEN cache ELSE [cache EXCEPT ![k] = Last(cache)]
<1>1. Len(cache) \in Nat \ {0}
    OBVIOUS
<1>2. c \in Seq(BlockSet) /\ Len(c) = Len(cache)
      /\ \A i \in 1 .. Len(cache) - 1 : c[i] = IF i = k THEN cache[Len(cache)] ELSE cache[i]
  <2>1. CASE k = Len(cache)
      BY <1>1, <2>1
  <2>2. CASE k # Len(cache)
    <3>1. cache[Len(cache)] \in BlockSet
        BY <1>1
    <3>2. c = [cache EXCEPT ![k] = cache[Len(cache)]]
        BY <2>2 DEF Last
    <3>. QED BY <1>1, <3>1, <3>2
  <2>. QED BY <2>1, <2>2
<1> HIDE DEF c
<1>3. Without(k) = SubSeq(c, 1, Len(c) - 1)
    BY DEF Without, Front, c
<1>4. SubSeq(c, 1, Len(c) - 1) \in Seq(BlockSet) /\ Len(SubSeq(c, 1, Len(c) - 1)) = Len(c) - 1
      /\ \A i \in 1 .. Len(c) - 1 : SubSeq(c, 1, Len(c) - 1)[i] = c[i]
    BY <1>1, <1>2
<1>. QED BY <1>2, <1>3, <1>4

\* A block is taken out of the cache.
LEMMA TakeOut ==
    ASSUME NEW u, NEW r, Sound(cache, u, r), NEW k \in 1 .. Len(cache)
    PROVE  Sound(Without(k), u \cup {cache[k]}, r) /\ cache[k] \in BlockSet /\ cache[k] \notin u
<1> DEFINE w == Without(k)
           L == Len(cache)
<1>1. cache \in Seq(BlockSet) /\ L \in Nat \ {0} /\ \A i \in 1 .. L : cache[i] \in BlockSet
    BY DEF Sound
<1>2. /\ w \in Seq(BlockSet) /\ Len(w) = L - 1
      /\ \A i \in 1 .. L - 1 : w[i] = IF i = k THEN cache[L] ELSE cache[i]
    BY <1>1, WithoutIs
<1> HIDE DEF w
<1>3. \A i \in 1 .. L - 1 : \E j \in 1 .. L : j # k /\ w[i] = cache[j] /\ (i = k => j = L) /\ (i # k => j = i)
  <2> SUFFICES ASSUME NEW i \in 1 .. L - 1
               PROVE  \E j \in 1 .. L : j # k /\ w[i] = cache[j] /\ (i = k => j = L) /\ (i # k => j = i)
      OBVIOUS
  <2>1. CASE i = k
    <3>1. L \in 1 .. L /\ L # k /\ w[i] = cache[L]
        BY <1>1, <1>2, <2>1
    <3>. QED BY <2>1, <3>1
  <2>2. CASE i # k
    <3>1. i \in 1 .. L /\ w[i] = cache[i]
        BY <1>1, <1>2, <2>2
    <3>. QED BY <2>2, <3>1
  <2>. QED BY <2>1, <2>2
<1>4. \A i, j \in 1 .. Len(w) : i # j => w[i].data # w[j].data
  <2> SUFFICES ASSUME NEW i \in 1 .. L - 1, NEW j \in 1 .. L - 1, i # j PROVE w[i].data # w[j].data
      BY <1>2
  <2>1. PICK m \in 1 .. L : w[i] = cache[m] /\ (i = k => m = L) /\ (i # k => m = i)
      BY <1>3
  <2>2. PICK n \in 1 .. L : w[j] = cache[n] /\ (j = k => n = L) /\ (j # k => n = j)
      BY <1>3
  <2>3. m # n
      BY <1>1, <2>1, <2>2
  <2>. QED BY <2>1, <2>2, <2>3 DEF Sound
<1>5. \A j \in 1 .. L : j # k => \E i \in 1 .. L - 1 : w[i] = cache[j]
  <2> SUFFICES ASSUME NEW j \in 1 .. L, j # k PROVE \E i \in 1 .. L - 1 : w[i] = cache[j]
      OBVIOUS
  <2>1. CASE j = L
    <3>1. k \in 1 .. L - 1
        BY <1>1, <2>1
    <3>. QED BY <1>2, <2>1, <3>1
  <2>2. CASE j # L
    <3>1. j \in 1 .. L - 1
        BY <1>1, <2>2
    <3>. QED BY <1>2, <3>1
  <2>. QED BY <2>1, <2>2
<1>6. \A b \in u \cup {cache[k]}, i \in 1 .. Len(w) : b.data # w[i].data
    BY <1>2, <1>3 DEF Sound
<1>7. \A i \in 1 .. Len(w) : w[i].data \in DOMAIN r /\ w[i].size <= r[w[i].data]
    BY <1>2, <1>3 DEF Sound
<1>8. \A b, d \in u \cup {cache[k]} : b # d => b.data # d.data
    BY DEF Sound
<1>9. \A b \in u \cup {cache[k]} : b.data \in DOMAIN r /\ b.size <= r[b.data]
    BY DEF Sound
<1>10. \A a \in DOMAIN r : (\E b \in u \cup {cache[k]} : b.data = a) \/ (\E i \in 1 .. Len(w) : w[i].data = a)
  <2> SUFFICES ASSUME NEW a \in DOMAIN r, \A b \in u \cup {cache[k]} : b.data # a
               PROVE  \E i \in 1 .. Len(w) : w[i].data = a
      OBVIOUS
  <2>1. PICK j \in 1 .. L : cache[j].data = a
      BY DEF Sound
  <2>. QED BY <1>2, <1>5, <2>1
<1>11. cache[k] \in BlockSet /\ cache[k] \notin u
    BY <1>1 DEF Sound
<1>12. Sound(w, u \cup {cache[k]}, r)
    BY <1>2, <1>4, <1>6, <1>7, <1>8, <1>9, <1>10, <1>11 DEF Sound
<1>. QED BY <1>11, <1>12 DEF w

\* A block is freed.
LEMMA Drop ==
    ASSUME NEW c, NEW u, NEW r, Sound(c, u, r), NEW b \in u
    PROVE  Sound(c, u \ {b}, Restrict(r, DOMAIN r \ {b.data}))
<1> DEFINE q == Restrict(r, DOMAIN r \ {b.data})
<1>1. DOMAIN q = DOMAIN r \ {b.data} /\ \A a \in DOMAIN q : q[a] = r[a]
    BY DEF Restrict
<1>2. q = [a \in DOMAIN q |-> q[a]]
    BY DEF Restrict
<1> HIDE DEF q
<1>3. \A i \in 1 .. Len(c) : c[i].data # b.data
    BY DEF Sound
<1>4. \A d \in u \ {b} : d.data # b.data
    BY DEF Sound
<1>5. \A a \in DOMAIN q : (\E d \in u \ {b} : d.data = a) \/ (\E i \in 1 .. Len(c) : c[i].data = a)
    BY <1>1 DEF Sound
<1>6. Sound(c, u \ {b}, q)
    BY <1>1, <1>2, <1>3, <1>4, <1>5 DEF Sound
<1>. QED BY <1>6 DEF q

\* A new block is allocated.
LEMMA Allocated ==
    ASSUME NEW c, NEW u, NEW r, Sound(c, u, r), NEW a \in Blocks \ DOMAIN r, NEW n \in Nat
    PROVE  Sound(c, u \cup {Block(a, n)}, [x \in DOMAIN r \cup {a} |-> IF x = a THEN n ELSE r[x]])
<1> DEFINE q == [x \in DOMAIN r \cup {a} |-> IF x = a THEN n ELSE r[x]]
           b == Block(a, n)
<1>1. /\ DOMAIN q = DOMAIN r \cup {a} /\ q[a] = n /\ \A x \in DOMAIN r : q[x] = r[x]
      /\ q = [x \in DOMAIN q |-> q[x]]
    OBVIOUS
<1>2. b \in BlockSet /\ b.data = a /\ b.size = n
    BY BlockTyped
<1> HIDE DEF q, b
<1>3. \A i \in 1 .. Len(c) : c[i].data # a /\ c[i].data \in DOMAIN q /\ c[i].size <= q[c[i].data]
    BY <1>1 DEF Sound
<1>4. \A d \in u : d.data # a /\ d.data \in DOMAIN q /\ d.size <= q[d.data]
    BY <1>1 DEF Sound
<1>5. DOMAIN q \subseteq Blocks /\ \A x \in DOMAIN q : q[x] \in Nat
    BY <1>1 DEF Sound
<1>6. \A x \in DOMAIN q : (\E d \in u \cup {b} : d.data = x) \/ (\E i \in 1 .. Len(c) : c[i].data = x)
    BY <1>1, <1>2 DEF Sound
<1>7. \A d, e \in u \cup {b} : d # e => d.data # e.data
    BY <1>2, <1>4 DEF Sound
<1>8. \A d \in u \cup {b} : d.data \in DOMAIN q /\ d.size <= q[d.data]
  <2>1. b.data \in DOMAIN q /\ b.size <= q[b.data]
      BY <1>1, <1>2
  <2>. QED BY <1>4, <2>1
<1>9. \A d \in u \cup {b}, i \in 1 .. Len(c) : d.data # c[i].data
    BY <1>2, <1>3 DEF Sound
<1>10. Sound(c, u \cup {b}, q)
    BY <1>1, <1>2, <1>3, <1>5, <1>6, <1>7, <1>8, <1>9 DEF Sound
<1>. QED BY <1>10 DEF q, b

\* A block is reallocated: it may move.
LEMMA Moved ==
    ASSUME NEW c, NEW u, NEW r, Sound(c, u, r), NEW b \in u,
           NEW a \in (Blocks \ DOMAIN r) \cup {b.data}, NEW n \in Nat
    PROVE  Sound(c, (u \ {b}) \cup {Block(a, n)},
                 [x \in (DOMAIN r \ {b.data}) \cup {a} |-> IF x = a THEN n ELSE r[x]])
<1> DEFINE q == Restrict(r, DOMAIN r \ {b.data})
<1>1. Sound(c, u \ {b}, q)
    BY Drop
<1>2. DOMAIN q = DOMAIN r \ {b.data} /\ \A x \in DOMAIN q : q[x] = r[x]
    BY DEF Restrict
<1> HIDE DEF q
<1>3. a \in Blocks \ DOMAIN q
    BY <1>2 DEF Sound
<1>4. Sound(c, (u \ {b}) \cup {Block(a, n)}, [x \in DOMAIN q \cup {a} |-> IF x = a THEN n ELSE q[x]])
    BY <1>1, <1>3, Allocated
<1>5. [x \in DOMAIN q \cup {a} |-> IF x = a THEN n ELSE q[x]] =
      [x \in (DOMAIN r \ {b.data}) \cup {a} |-> IF x = a THEN n ELSE r[x]]
    BY <1>2
<1>. QED BY <1>4, <1>5

\* A block goes into the cache.
LEMMA HandedBack ==
    ASSUME NEW c, NEW u, NEW r, Sound(c, u, r), NEW b \in u
    PROVE  Sound(Append(c, b), u \ {b}, r)
<1>1. c \in Seq(BlockSet) /\ b \in BlockSet /\ Len(c) \in Nat
    BY DEF Sound
<1>2. /\ Append(c, b) \in Seq(BlockSet) /\ Len(Append(c, b)) = Len(c) + 1
      /\ Append(c, b)[Len(c) + 1] = b
      /\ \A i \in 1 .. Len(c) : Append(c, b)[i] = c[i]
    BY <1>1
<1> DEFINE d == Append(c, b)
<1> HIDE DEF d
<1>3. \A i \in 1 .. Len(d) : i = Len(c) + 1 \/ i \in 1 .. Len(c)
    BY <1>1, <1>2 DEF d
<1>4. \A i, j \in 1 .. Len(d) : i # j => d[i].data # d[j].data
    BY <1>2, <1>3 DEF Sound, d
<1>5. \A e \in u \ {b}, i \in 1 .. Len(d) : e.data # d[i].data
    BY <1>2, <1>3 DEF Sound, d
<1>6. \A i \in 1 .. Len(d) : d[i].data \in DOMAIN r /\ d[i].size <= r[d[i].data]
    BY <1>2, <1>3 DEF Sound, d
<1>7. \A a \in DOMAIN r : (\E e \in u \ {b} : e.data = a) \/ (\E i \in 1 .. Len(d) : d[i].data = a)
  <2> SUFFICES ASSUME NEW a \in DOMAIN r, \A e \in u \ {b} : e.data # a
               PROVE  \E i \in 1 .. Len(d) : d[i].data = a
      OBVIOUS
  <2>1. b.data = a \/ \E i \in 1 .. Len(c) : c[i].data = a
      BY DEF Sound
  <2>2. Len(c) + 1 \in 1 .. Len(d) /\ 1 .. Len(c) \subseteq 1 .. Len(d)
      BY <1>1, <1>2 DEF d
  <2>. QED BY <1>2, <2>1, <2>2 DEF d
<1>8. Sound(d, u \ {b}, r)
    BY <1>2, <1>4, <1>5, <1>6, <1>7 DEF Sound, d
<1>. QED BY <1>8 DEF d

\* The context is freed.
LEMMA Cleared ==
    ASSUME NEW c, NEW r, Sound(c, {}, r)
    PROVE  Sound(<<>>, {}, Restrict(r, DOMAIN r \ {c[i].data : i \in DOMAIN c}))
<1> DEFINE q == Restrict(r, DOMAIN r \ {c[i].data : i \in DOMAIN c})
<1>1. DOMAIN q = {} /\ q = [a \in DOMAIN q |-> q[a]]
  <2>1. DOMAIN c = 1 .. Len(c)
      BY DEF Sound
  <2>2. DOMAIN r \ {c[i].data : i \in DOMAIN c} = {}
      BY <2>1 DEF Sound
  <2>. QED BY <2>2 DEF Restrict
<1> HIDE DEF q
<1>2. <<>> \in Seq(BlockSet) /\ 1 .. Len(<<>>) = {}
    OBVIOUS
<1>3. Sound(<<>>, {}, q)
    BY <1>1, <1>2 DEF Sound
<1>. QED BY <1>3 DEF q

\* A client's block is freed, or moved and resized.
FreedOrMoved(b, n) ==
    \/ /\ used' = used
       /\ real' = Restrict(real, DOMAIN real \ {b.data})
    \/ \E a \in Fresh \cup {b.data} :
          /\ used' = used \cup {Block(a, n)}
          /\ real' = [x \in (DOMAIN real \ {b.data}) \cup {a} |-> IF x = a THEN n ELSE real[x]]

LEMMA FreedOrMovedSound ==
    ASSUME NEW c, NEW b \in BlockSet, b \notin used, Sound(c, used \cup {b}, real),
           NEW n \in Nat, FreedOrMoved(b, n)
    PROVE  Sound(c, used', real')
<1>1. (used \cup {b}) \ {b} = used
    OBVIOUS
<1>2. CASE used' = used /\ real' = Restrict(real, DOMAIN real \ {b.data})
  <2>1. Sound(c, (used \cup {b}) \ {b}, Restrict(real, DOMAIN real \ {b.data}))
      BY Drop
  <2>. QED BY <1>1, <1>2, <2>1
<1>3. ASSUME NEW a \in (Blocks \ DOMAIN real) \cup {b.data},
             used' = used \cup {Block(a, n)},
             real' = [x \in (DOMAIN real \ {b.data}) \cup {a} |-> IF x = a THEN n ELSE real[x]]
      PROVE  Sound(c, used', real')
  <2>1. Sound(c, ((used \cup {b}) \ {b}) \cup {Block(a, n)},
                 [x \in (DOMAIN real \ {b.data}) \cup {a} |-> IF x = a THEN n ELSE real[x]])
      BY Moved
  <2>. QED BY <1>1, <1>3, <2>1
<1>. QED BY <1>2, <1>3 DEF FreedOrMoved, Fresh

\* What extend() does to a block that is not empty.
LEMMA ExtendSound ==
    ASSUME BlkAssumption, NEW c, NEW b \in BlockSet, b \notin used, Sound(c, used \cup {b}, real),
           NEW n \in Nat, Extend(b, n, c)
    PROVE  Sound(c, used', real')
<1>1. b # Empty /\ b.data # Empty.data
  <2>1. Empty.data = "NULL" /\ b.data \in Blocks
      BY DEF Empty, Block, BlockSet
  <2>. QED BY <2>1 DEF BlkAssumption
<1>2. CASE b.size >= n
  <2>1. used' = used \cup {b} /\ real' = real
      BY <1>1, <1>2 DEF Extend
  <2>. QED BY <2>1
<1>3. CASE ~ (b.size >= n)
  <2>1. {b.data} \ {Empty.data} = {b.data}
      BY <1>1
  <2>2. FreedOrMoved(b, n)
      BY <1>3, <2>1 DEF Extend, FreedOrMoved
  <2>. QED BY <2>2, FreedOrMovedSound
<1>. QED BY <1>2, <1>3

\* What it does to the empty one.
LEMMA ExtendEmptySound ==
    ASSUME BlkAssumption, NEW c, Sound(c, used, real), NEW n \in Nat, Extend(Empty, n, c)
    PROVE  Sound(c, used', real')
<1>1. Empty.data = "NULL" /\ Empty.size = 0 /\ "NULL" \notin Blocks
    BY DEF Empty, Block, BlkAssumption
<1>2. DOMAIN real \ {Empty.data} = DOMAIN real
  <2>1. DOMAIN real \subseteq Blocks
      BY DEF Sound
  <2>2. Empty.data \notin DOMAIN real
      BY <1>1, <2>1
  <2>. QED BY <2>2
<1>3. CASE Empty.size >= n
  <2>1. used' = used /\ real' = real
      BY <1>3 DEF Extend
  <2>. QED BY <2>1
<1>4. CASE ~ (Empty.size >= n) /\ used' = used /\ real' = Restrict(real, DOMAIN real \ {Empty.data})
  <2>1. real' = [a \in DOMAIN real |-> real[a]]
      BY <1>2, <1>4 DEF Restrict
  <2>2. real' = real
      BY <2>1 DEF Sound
  <2>. QED BY <1>4, <2>2
<1>5. CASE \E a \in Fresh \cup ({Empty.data} \ {Empty.data}) :
              /\ used' = used \cup {Block(a, n)}
              /\ real' = [x \in (DOMAIN real \ {Empty.data}) \cup {a} |-> IF x = a THEN n ELSE real[x]]
  <2>1. PICK a \in Blocks \ DOMAIN real :
              /\ used' = used \cup {Block(a, n)}
              /\ real' = [x \in DOMAIN real \cup {a} |-> IF x = a THEN n ELSE real[x]]
      BY <1>2, <1>5 DEF Fresh
  <2>2. Sound(c, used \cup {Block(a, n)}, [x \in DOMAIN real \cup {a} |-> IF x = a THEN n ELSE real[x]])
      BY Allocated
  <2>. QED BY <2>1, <2>2
<1>. QED BY <1>3, <1>4, <1>5 DEF Extend

-----------------------------------------------------------------------------
(* The search for the best block.                                            *)

\* The loop's best place after it has looked at the first i.
IsLoop(f, n, m) ==
    /\ f = [i \in 1 .. m |-> f[i]]
    /\ \A i \in 1 .. m : f[i] = IF i = 1 THEN 1 ELSE Better(n, f[i - 1], i)

\* A loop over so many blocks comes to an end.
LEMMA LoopExists == ASSUME NEW n, NEW m \in Nat PROVE \E f : IsLoop(f, n, m)
<1> DEFINE T == {l \in Nat : ~ \E f : IsLoop(f, n, l)}
<1> SUFFICES ASSUME T # {} PROVE FALSE
    OBVIOUS
<1>1. PICK l \in T : \A k \in T : l <= k
  <2>1. T \subseteq Nat
      OBVIOUS
  <2> HIDE DEF T
  <2>. QED BY <2>1, LeastElement
<1>2. l \in Nat /\ ~ \E f : IsLoop(f, n, l)
    OBVIOUS
<1>3. l # 0
  <2> DEFINE f == [i \in 1 .. 0 |-> i]
  <2>1. f = [i \in 1 .. 0 |-> f[i]] /\ 1 .. 0 = {}
      OBVIOUS
  <2> HIDE DEF f
  <2>2. IsLoop(f, n, 0)
      BY <2>1 DEF IsLoop
  <2>. QED BY <1>2, <2>2
<1>4. l - 1 \in Nat /\ l - 1 \notin T
    BY <1>1, <1>2, <1>3
<1>5. PICK f : IsLoop(f, n, l - 1)
    BY <1>4
<1> DEFINE g == [i \in 1 .. l |-> IF i = l THEN IF l = 1 THEN 1 ELSE Better(n, f[l - 1], l) ELSE f[i]]
<1>6. /\ g = [i \in 1 .. l |-> g[i]]
      /\ g[l] = IF l = 1 THEN 1 ELSE Better(n, f[l - 1], l)
      /\ \A i \in 1 .. l - 1 : g[i] = f[i]
    BY <1>2, <1>3
<1> HIDE DEF g
<1>7. \A i \in 1 .. l : g[i] = IF i = 1 THEN 1 ELSE Better(n, g[i - 1], i)
  <2> SUFFICES ASSUME NEW i \in 1 .. l PROVE g[i] = IF i = 1 THEN 1 ELSE Better(n, g[i - 1], i)
      OBVIOUS
  <2>1. i = 1 \/ g[i - 1] = f[i - 1]
      BY <1>2, <1>6
  <2>2. CASE i = l
      BY <1>6, <2>1, <2>2
  <2>3. CASE i # l
    <3>1. i \in 1 .. l - 1
        BY <1>2, <2>3
    <3>2. g[i] = f[i]
        BY <1>6, <3>1
    <3>3. f[i] = IF i = 1 THEN 1 ELSE Better(n, f[i - 1], i)
        BY <1>5, <3>1 DEF IsLoop
    <3>. QED BY <2>1, <3>2, <3>3
  <2>. QED BY <2>2, <2>3
<1>8. IsLoop(g, n, l)
    BY <1>6, <1>7 DEF IsLoop
<1>. QED BY <1>2, <1>8

\* Best is what the loop finds.
LEMMA BestIsFound ==
    ASSUME NEW n, Len(cache) \in Nat
    PROVE  \E f : IsLoop(f, n, Len(cache)) /\ Best(n) = f[Len(cache)]
<1> DEFINE upTo[i \in 1 .. Len(cache)] == IF i = 1 THEN 1 ELSE Better(n, upTo[i - 1], i)
<1>1. PICK f : IsLoop(f, n, Len(cache))
    BY LoopExists
<1>2. f = [i \in 1 .. Len(cache) |-> IF i = 1 THEN 1 ELSE Better(n, f[i - 1], i)]
    BY <1>1 DEF IsLoop
<1>3. upTo = [i \in 1 .. Len(cache) |-> IF i = 1 THEN 1 ELSE Better(n, upTo[i - 1], i)]
    BY <1>2, Zenon
<1>4. IsLoop(upTo, n, Len(cache))
    BY <1>3, ZenonT(60) DEF IsLoop
<1>. QED BY <1>4 DEF Best

\* The place b fits n best among the first i.
FitsBest(b, n, i) ==
    /\ b \in 1 .. i
    /\ \/ /\ cache[b].size >= n
          /\ \A j \in 1 .. i : cache[j].size >= n => cache[b].size <= cache[j].size
       \/ \A j \in 1 .. i : cache[j].size < n /\ cache[j].size <= cache[b].size

LEMMA BestFitsBest ==
    ASSUME cache \in Seq(BlockSet), cache # <<>>, NEW n \in Nat
    PROVE  FitsBest(Best(n), n, Len(cache))
<1>1. Len(cache) \in Nat \ {0} /\ \A i \in 1 .. Len(cache) : cache[i].size \in Nat
  <2>1. \A i \in 1 .. Len(cache) : cache[i] \in BlockSet
      OBVIOUS
  <2>. QED BY <2>1 DEF BlockSet
<1>2. PICK f : IsLoop(f, n, Len(cache)) /\ Best(n) = f[Len(cache)]
    BY <1>1, BestIsFound
<1>3. \A i \in 1 .. Len(cache) : f[i] = IF i = 1 THEN 1 ELSE Better(n, f[i - 1], i)
    BY <1>2 DEF IsLoop
<1> DEFINE T == {i \in 1 .. Len(cache) : ~ FitsBest(f[i], n, i)}
<1>4. T = {}
  <2> SUFFICES ASSUME T # {} PROVE FALSE
      OBVIOUS
  <2>1. PICK m \in T : \A k \in T : m <= k
    <3>1. T \subseteq Nat
        BY <1>1
    <3> HIDE DEF T
    <3>. QED BY <3>1, LeastElement
  <2>2. m \in 1 .. Len(cache) /\ ~ FitsBest(f[m], n, m)
      OBVIOUS
  <2>3. CASE m = 1
    <3>1. f[1] = 1
        BY <1>3, <2>2, <2>3
    <3>2. FitsBest(1, n, 1)
        BY <1>1 DEF FitsBest
    <3>. QED BY <2>2, <2>3, <3>1, <3>2
  <2>4. CASE m # 1
    <3> DEFINE b == f[m - 1]
    <3>1. m - 1 \in 1 .. Len(cache) /\ m - 1 \notin T
        BY <1>1, <2>1, <2>2, <2>4
    <3>2. FitsBest(b, n, m - 1)
        BY <3>1
    <3>3. f[m] = Better(n, b, m)
        BY <1>3, <2>2, <2>4
    <3> HIDE DEF b, T
    <3>4. /\ b \in 1 .. m - 1 /\ b \in 1 .. Len(cache) /\ m \in 1 .. m
          /\ cache[b].size \in Nat /\ cache[m].size \in Nat
        BY <1>1, <2>2, <3>2 DEF FitsBest
    <3>5. \A j \in 1 .. m : j = m \/ j \in 1 .. m - 1
        BY <2>2
    <3>6. \A j \in 1 .. m : cache[j].size \in Nat
        BY <1>1, <2>2
    <3>7. FitsBest(f[m], n, m)
      <4>1. CASE cache[b].size = n
        <5>1. f[m] = b
            BY <3>3, <4>1 DEF Better
        <5>. QED BY <3>2, <3>4, <3>5, <3>6, <4>1, <5>1 DEF FitsBest
      <4>2. CASE cache[b].size < n
        <5>1. f[m] = IF cache[m].size > cache[b].size THEN m ELSE b
            BY <3>3, <3>4, <4>2 DEF Better
        <5>2. \A j \in 1 .. m - 1 : cache[j].size < n /\ cache[j].size <= cache[b].size
            BY <3>2, <3>4, <4>2 DEF FitsBest
        <5>3. CASE cache[m].size > cache[b].size
          <6>1. f[m] = m
              BY <5>1, <5>3
          <6>2. \A j \in 1 .. m - 1 : cache[j].size < n /\ cache[j].size <= cache[m].size
              BY <3>4, <3>6, <5>2, <5>3
          <6>3. CASE cache[m].size >= n
            <7>1. \A j \in 1 .. m : cache[j].size >= n => j = m
                BY <3>5, <3>6, <6>2
            <7>. QED BY <3>4, <6>1, <6>3, <7>1 DEF FitsBest
          <6>4. CASE cache[m].size < n
              BY <3>4, <3>5, <6>1, <6>2, <6>4 DEF FitsBest
          <6>. QED BY <3>4, <6>3, <6>4
        <5>4. CASE ~ (cache[m].size > cache[b].size)
          <6>1. f[m] = b /\ cache[m].size < n /\ cache[m].size <= cache[b].size
              BY <3>4, <4>2, <5>1, <5>4
          <6>. QED BY <3>4, <3>5, <5>2, <6>1 DEF FitsBest
        <5>. QED BY <5>3, <5>4
      <4>3. CASE cache[b].size > n
        <5>1. f[m] = IF cache[m].size >= n /\ cache[m].size < cache[b].size THEN m ELSE b
            BY <3>3, <3>4, <4>3 DEF Better
        <5>2. \A j \in 1 .. m - 1 : cache[j].size >= n => cache[b].size <= cache[j].size
            BY <3>2, <3>4, <4>3 DEF FitsBest
        <5>3. CASE cache[m].size >= n /\ cache[m].size < cache[b].size
          <6>1. f[m] = m
              BY <5>1, <5>3
          <6>2. \A j \in 1 .. m : cache[j].size >= n => cache[m].size <= cache[j].size
              BY <3>4, <3>5, <3>6, <5>2, <5>3
          <6>. QED BY <3>4, <5>3, <6>1, <6>2, SMTT(30) DEF FitsBest
        <5>4. CASE ~ (cache[m].size >= n /\ cache[m].size < cache[b].size)
          <6>1. f[m] = b
              BY <5>1, <5>4
          <6>2. \A j \in 1 .. m : cache[j].size >= n => cache[b].size <= cache[j].size
              BY <3>4, <3>5, <3>6, <5>2, <5>4
          <6>. QED BY <3>4, <4>3, <6>1, <6>2 DEF FitsBest
        <5>. QED BY <5>3, <5>4
      <4>. QED BY <3>4, <4>1, <4>2, <4>3
    <3>. QED BY <2>2, <3>7
  <2>. QED BY <2>3, <2>4
<1>5. FitsBest(f[Len(cache)], n, Len(cache))
    BY <1>1, <1>4
<1>. QED BY <1>2, <1>5

-----------------------------------------------------------------------------
(* The invariant.                                                            *)

LEMMA InitInv == ASSUME BlkAssumption, Init PROVE Inv
<1>1. <<>> \in Seq(BlockSet) /\ 1 .. Len(<<>>) = {} /\ Len(<<>>) = 0 /\ DOMAIN <<>> = {}
    OBVIOUS
<1>2. <<>> = [a \in DOMAIN <<>> |-> <<>>[a]]
    OBVIOUS
<1>3. cache = <<>> /\ miss = 0 /\ real = <<>> /\ used = {} /\ since = 0
    BY DEF Init
<1>4. Sound(<<>>, {}, <<>>)
    BY <1>1, <1>2 DEF Sound
<1>5. MaxMiss \in Nat \ {0} /\ CacheSize \in Nat \ {0}
    BY DEF BlkAssumption
<1>6. Counters
    BY <1>1, <1>3, <1>5 DEF Counters
<1>. QED BY <1>3, <1>4, <1>6 DEF Inv

\* Where the best block is.
LEMMA BestIsAPlace ==
    ASSUME Sound(cache, used, real), cache # <<>>, NEW n \in Nat
    PROVE  Best(n) \in 1 .. Len(cache)
<1>1. cache \in Seq(BlockSet)
    BY DEF Sound
<1>. QED BY <1>1, BestFitsBest DEF FitsBest

LEMMA AllocInv == ASSUME BlkAssumption, Inv, NEW n \in Sizes, Alloc(n) PROVE Inv'
<1>1. /\ n \in Nat /\ MaxMiss \in Nat \ {0} /\ CacheSize \in Nat \ {0}
      /\ Sound(cache, used, real) /\ cache \in Seq(BlockSet) /\ Len(cache) \in Nat
      /\ miss \in 0 .. MaxMiss /\ since \in 0 .. miss /\ Len(cache) <= CacheSize
    BY DEF BlkAssumption, Inv, Sound, Counters
<1>2. CASE AllocOutside(n)
  <2>1. cache' = cache /\ UNCHANGED <<miss, since>> /\ Extend(Empty, n, cache)
      BY <1>2 DEF AllocOutside, Extend
  <2>2. Sound(cache, used', real')
      BY <1>1, <2>1, ExtendEmptySound
  <2>. QED BY <1>1, <2>1, <2>2 DEF Inv, Counters
<1>3. CASE AllocFromCache(n)
  <2> DEFINE k == Best(n)
             b == cache[k]
  <2>1. /\ cache # <<>> /\ Extend(b, n, Without(k)) /\ cache' = Without(k)
        /\ miss' = (IF k = 1 THEN 0 ELSE miss) /\ since' = (IF k = 1 THEN 0 ELSE since)
      BY <1>3 DEF AllocFromCache, Extend
  <2>2. k \in 1 .. Len(cache)
      BY <1>1, <2>1, BestIsAPlace
  <2> HIDE DEF k
  <2>3. Sound(Without(k), used \cup {b}, real) /\ b \in BlockSet /\ b \notin used
      BY <1>1, <2>2, TakeOut
  <2>4. Len(Without(k)) = Len(cache) - 1
      BY <1>1, <2>2, WithoutIs
  <2> HIDE DEF b
  <2>5. Sound(Without(k), used', real')
      BY <1>1, <2>1, <2>3, ExtendSound
  <2>6. Counters'
      BY <1>1, <2>1, <2>4 DEF Counters
  <2>. QED BY <2>1, <2>5, <2>6 DEF Inv
<1>4. CASE Miss(n)
  <2>1. /\ cache' = cache /\ miss' = miss + 1 /\ since' = since + 1 /\ miss < MaxMiss
        /\ Extend(Empty, n, cache)
      BY <1>4 DEF Miss, Extend
  <2>2. Sound(cache, used', real')
      BY <1>1, <2>1, ExtendEmptySound
  <2>. QED BY <1>1, <2>1, <2>2 DEF Inv, Counters
<1>5. CASE Evict(n)
  <2> DEFINE b == cache[1]
  <2>1. cache # <<>> /\ cache' = Without(1) /\ miss' = 0 /\ since' = 0 /\ FreedOrMoved(b, n)
      BY <1>5 DEF Evict, FreedOrMoved
  <2>2. 1 \in 1 .. Len(cache)
      BY <1>1, <2>1
  <2>3. Sound(Without(1), used \cup {b}, real) /\ b \in BlockSet /\ b \notin used
      BY <1>1, <2>2, TakeOut
  <2>4. Len(Without(1)) = Len(cache) - 1
      BY <1>1, <2>2, WithoutIs
  <2> HIDE DEF b
  <2>5. Sound(Without(1), used', real')
      BY <1>1, <2>1, <2>3, FreedOrMovedSound
  <2>6. Counters'
      BY <1>1, <2>1, <2>4 DEF Counters
  <2>. QED BY <2>1, <2>5, <2>6 DEF Inv
<1>. QED BY <1>2, <1>3, <1>4, <1>5 DEF Alloc

LEMMA ExtendBlockInv ==
    ASSUME BlkAssumption, Inv, NEW b \in used, NEW n \in Sizes, ExtendBlock(b, n)
    PROVE  Inv'
<1>1. n \in Nat /\ Sound(cache, used, real) /\ UNCHANGED <<cache, miss, since>>
    BY DEF BlkAssumption, Inv, ExtendBlock
<1>2. CASE UNCHANGED <<used, real>>
    BY <1>1, <1>2 DEF Inv, Counters
<1>3. CASE used' = used \ {b} /\ real' = Restrict(real, DOMAIN real \ {b.data})
  <2>1. Sound(cache, used \ {b}, Restrict(real, DOMAIN real \ {b.data}))
      BY <1>1, Drop
  <2>. QED BY <1>1, <1>3, <2>1 DEF Inv, Counters
<1>4. CASE \E a \in Fresh \cup {b.data} :
              /\ used' = (used \ {b}) \cup {Block(a, n)}
              /\ real' = [x \in (DOMAIN real \ {b.data}) \cup {a} |-> IF x = a THEN n ELSE real[x]]
  <2>1. PICK a \in (Blocks \ DOMAIN real) \cup {b.data} :
              /\ used' = (used \ {b}) \cup {Block(a, n)}
              /\ real' = [x \in (DOMAIN real \ {b.data}) \cup {a} |-> IF x = a THEN n ELSE real[x]]
      BY <1>4 DEF Fresh
  <2>2. Sound(cache, (used \ {b}) \cup {Block(a, n)},
              [x \in (DOMAIN real \ {b.data}) \cup {a} |-> IF x = a THEN n ELSE real[x]])
      BY <1>1, Moved
  <2>. QED BY <1>1, <2>1, <2>2 DEF Inv, Counters
<1>. QED BY <1>2, <1>3, <1>4 DEF ExtendBlock

LEMMA FreeBlockInv == ASSUME BlkAssumption, Inv, NEW b \in used, FreeBlock(b) PROVE Inv'
<1>1. /\ Sound(cache, used, real) /\ cache \in Seq(BlockSet) /\ b \in BlockSet /\ Len(cache) \in Nat
      /\ miss \in 0 .. MaxMiss /\ since \in 0 .. miss /\ Len(cache) <= CacheSize
      /\ MaxMiss \in Nat /\ CacheSize \in Nat
  <2>1. MaxMiss \in Nat /\ CacheSize \in Nat
      BY DEF BlkAssumption
  <2>2. Sound(cache, used, real) /\ miss \in 0 .. MaxMiss /\ since \in 0 .. miss /\ Len(cache) <= CacheSize
      BY DEF Inv, Counters
  <2>3. cache \in Seq(BlockSet) /\ b \in BlockSet
      BY <2>2 DEF Sound
  <2>4. Len(cache) \in Nat
      BY <2>3
  <2>. QED BY <2>1, <2>2, <2>3, <2>4
<1>2. /\ used' = used \ {b} /\ miss' = miss
      /\ since' = IF cache = <<>> THEN 0 ELSE since
    BY DEF FreeBlock
<1>3. CASE Len(cache) < CacheSize
  <2>1. cache' = Append(cache, b) /\ real' = real
      BY <1>3 DEF FreeBlock
  <2>2. Sound(Append(cache, b), used \ {b}, real)
      BY <1>1, HandedBack
  <2>3. Len(Append(cache, b)) = Len(cache) + 1
      BY <1>1
  <2>4. Counters'
      BY <1>1, <1>2, <1>3, <2>1, <2>3 DEF Counters
  <2>. QED BY <1>2, <2>1, <2>2, <2>4 DEF Inv
<1>4. CASE ~ (Len(cache) < CacheSize)
  <2>1. cache' = cache /\ real' = Restrict(real, DOMAIN real \ {b.data})
      BY <1>4 DEF FreeBlock
  <2>2. Sound(cache, used \ {b}, Restrict(real, DOMAIN real \ {b.data}))
      BY <1>1, Drop
  <2>3. Counters'
      BY <1>1, <1>2, <2>1 DEF Counters
  <2>. QED BY <1>2, <2>1, <2>2, <2>3 DEF Inv
<1>. QED BY <1>3, <1>4

LEMMA ClearCacheInv == ASSUME BlkAssumption, Inv, ClearCache PROVE Inv'
<1>1. /\ used = {} /\ cache' = <<>> /\ miss' = 0 /\ since' = 0 /\ used' = used
      /\ real' = Restrict(real, DOMAIN real \ {cache[i].data : i \in DOMAIN cache})
    BY DEF ClearCache
<1>2. Sound(cache, {}, real)
    BY <1>1 DEF Inv
<1>3. Sound(<<>>, {}, Restrict(real, DOMAIN real \ {cache[i].data : i \in DOMAIN cache}))
    BY <1>2, Cleared
<1>4. MaxMiss \in Nat /\ CacheSize \in Nat /\ Len(<<>>) = 0
    BY DEF BlkAssumption
<1>5. Counters'
    BY <1>1, <1>4 DEF Counters
<1>. QED BY <1>1, <1>3, <1>5 DEF Inv

LEMMA InvIsInvariant == ASSUME BlkAssumption PROVE Spec => []Inv
<1>1. Init => Inv
    BY InitInv
<1>2. Inv /\ [Next]_vars => Inv'
  <2> SUFFICES ASSUME Inv, [Next]_vars PROVE Inv'
      OBVIOUS
  <2>1. ASSUME NEW n \in Sizes, Alloc(n) PROVE Inv'
      BY <2>1, AllocInv
  <2>2. ASSUME NEW b \in used, FreeBlock(b) PROVE Inv'
      BY <2>2, FreeBlockInv
  <2>3. ASSUME NEW b \in used, NEW n \in Sizes, ExtendBlock(b, n) PROVE Inv'
      BY <2>3, ExtendBlockInv
  <2>4. CASE ClearCache
      BY <2>4, ClearCacheInv
  <2>5. CASE UNCHANGED vars
      BY <2>5 DEF vars, Inv, Counters
  <2>. QED BY <2>1, <2>2, <2>3, <2>4, <2>5 DEF Next
<1>. QED BY <1>1, <1>2, PTL DEF Spec

-----------------------------------------------------------------------------

\* The places of the cache and its blocks.
LEMMA CachedBlocks ==
    ASSUME Sound(cache, used, real)
    PROVE  /\ DOMAIN cache = 1 .. Len(cache)
           /\ \A b : b \in Range(cache) <=> \E i \in 1 .. Len(cache) : b = cache[i]
<1>1. cache \in Seq(BlockSet)
    BY DEF Sound
<1>2. DOMAIN cache = 1 .. Len(cache)
    BY <1>1
<1>. QED BY <1>2 DEF Range

\* The type invariant, for every number of addresses and all sizes and limits: the
\* cache never outgrows ISL_BLK_CACHE_SIZE, the misses never ISL_BLK_MAX_MISS.
THEOREM TypeCorrect == ASSUME BlkAssumption PROVE Spec => []TypeOK
<1>1. Inv => TypeOK
  <2> SUFFICES ASSUME Inv PROVE TypeOK
      OBVIOUS
  <2>1. /\ Len(cache) <= CacheSize /\ miss \in 0 .. MaxMiss
        /\ \A a \in DOMAIN real : a \in Blocks /\ real[a] \in Nat
      BY DEF Inv, Counters, Sound
  <2>2. \A block \in used \cup Range(cache) : block.data \in DOMAIN real
      BY CachedBlocks DEF Inv, Sound
  <2>. QED BY <2>1, <2>2 DEF TypeOK
<1>. QED BY <1>1, InvIsInvariant, PTL

\* Whatever isl_blk_alloc, isl_blk_extend and isl_blk_free are called for, and
\* whichever allocation fails: every allocated block has one owner, a client or one
\* place of the cache, and is as large as its owner takes it to be.
THEOREM BlocksAreAlwaysOwned == ASSUME BlkAssumption PROVE Spec => []BlocksAreOwned
<1>1. Inv => BlocksHaveOneOwner
  <2> SUFFICES ASSUME Inv PROVE BlocksHaveOneOwner
      OBVIOUS
  <2>1. Sound(cache, used, real)
      BY DEF Inv
  <2>2. /\ \A i, j \in DOMAIN cache : i # j => cache[i].data # cache[j].data
        /\ \A b \in used, c \in Range(cache) : b.data # c.data
        /\ \A b, c \in used : b # c => b.data # c.data
      BY <2>1, CachedBlocks DEF Sound
  <2>3. \A b \in Owned : b.data \in DOMAIN real
      BY <2>1, CachedBlocks DEF Sound, Owned
  <2>4. \A a \in DOMAIN real : \E b \in Owned : b.data = a
      BY <2>1, CachedBlocks DEF Sound, Owned
  <2>. QED BY <2>2, <2>3, <2>4, ZenonT(60) DEF BlocksHaveOneOwner
<1>2. Inv => SizesAreTrue
    BY CachedBlocks DEF Inv, Sound, SizesAreTrue, Owned
<1>3. Inv => BlocksAreOwned
    BY <1>1, <1>2 DEF BlocksAreOwned
<1>. QED BY <1>3, InvIsInvariant, PTL

\* The block a set of sizes gives.
LEMMA MinIs ==
    ASSUME NEW S, S \subseteq Nat, NEW m \in S, \A s \in S : m <= s
    PROVE  Min(S) = m
<1>1. Min(S) = CHOOSE x \in S : \A y \in S : x <= y
    BY DEF Min
<1>2. \A x \in S : (\A y \in S : x <= y) => x = m
    OBVIOUS
<1>. QED BY <1>1, <1>2

LEMMA MaxIs ==
    ASSUME NEW S, S \subseteq Nat, NEW m \in S, \A s \in S : s <= m
    PROVE  Max(S) = m
<1>1. Max(S) = CHOOSE x \in S : \A y \in S : x >= y
    BY DEF Max
<1>2. \A x \in S : (\A y \in S : x >= y) => x = m
    OBVIOUS
<1>. QED BY <1>1, <1>2

\* For a cache of any length and any sizes: the loop of isl_blk_alloc finds the
\* smallest block that is large enough, or else the largest one, and no more
\* than ISL_BLK_MAX_MISS allocations miss the cache while its first block stays.
THEOREM CacheAlwaysServes == ASSUME BlkAssumption PROVE Spec => []CacheServes
<1>1. Inv => BestFits
  <2> SUFFICES ASSUME Inv, cache # <<>>, NEW n \in Sizes \ {0}
               PROVE  LET sizes  == {cache[i].size : i \in DOMAIN cache}
                          enough == {s \in sizes : s >= n}
                      IN  cache[Best(n)].size = IF enough # {} THEN Min(enough) ELSE Max(sizes)
      BY DEF BestFits
  <2> DEFINE sizes  == {cache[i].size : i \in DOMAIN cache}
             enough == {s \in sizes : s >= n}
             b == Best(n)
  <2>1. n \in Nat /\ cache \in Seq(BlockSet) /\ Len(cache) \in Nat
      BY DEF BlkAssumption, Inv, Sound
  <2>2. DOMAIN cache = 1 .. Len(cache)
      BY <2>1
  <2>3. FitsBest(b, n, Len(cache))
      BY <2>1, BestFitsBest
  <2>4. sizes \subseteq Nat /\ cache[b].size \in sizes
    <3>1. \A i \in 1 .. Len(cache) : cache[i] \in BlockSet
        BY <2>1
    <3>. QED BY <2>2, <2>3, <3>1 DEF BlockSet, FitsBest
  <2>5. CASE /\ cache[b].size >= n
             /\ \A j \in 1 .. Len(cache) : cache[j].size >= n => cache[b].size <= cache[j].size
    <3>1. cache[b].size \in enough /\ \A s \in enough : cache[b].size <= s
        BY <2>2, <2>4, <2>5
    <3>2. enough \subseteq Nat
        BY <2>4
    <3> HIDE DEF enough, b
    <3>3. Min(enough) = cache[b].size
        BY <3>1, <3>2, MinIs
    <3>. QED BY <3>1, <3>3 DEF enough, b
  <2>6. CASE \A j \in 1 .. Len(cache) : cache[j].size < n /\ cache[j].size <= cache[b].size
    <3>1. enough = {}
      <4> SUFFICES ASSUME NEW s \in sizes, s >= n PROVE FALSE
          OBVIOUS
      <4>1. s < n /\ s \in Nat
          BY <2>2, <2>4, <2>6
      <4>. QED BY <2>1, <4>1
    <3>2. \A s \in sizes : s <= cache[b].size
        BY <2>2, <2>6
    <3> HIDE DEF sizes, b
    <3>3. Max(sizes) = cache[b].size
        BY <2>4, <3>2, MaxIs
    <3>. QED BY <3>1, <3>3 DEF sizes, b
  <2>. QED BY <2>3, <2>5, <2>6 DEF FitsBest
<1>2. Inv => FirstIsEvictedInTime
    BY DEF Inv, Counters, FirstIsEvictedInTime, BlkAssumption
<1>3. Inv => CacheServes
    BY <1>1, <1>2 DEF CacheServes
<1>. QED BY <1>3, InvIsInvariant, PTL
=============================================================================
