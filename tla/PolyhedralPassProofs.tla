------------------------ MODULE PolyhedralPassProofs ------------------------
(***************************************************************************)
(* Theorems about PolyhedralPass, for every set of functions, with loop    *)
(* forests of any size, under every option and every answer isl may give.  *)
(* The order in which the roots come is computed by recursion over the     *)
(* forest: that the recursion ends, and what it gives, is shown by the     *)
(* greatest loop it would fail for, loops being numbered outside in.       *)
(***************************************************************************)
EXTENDS PolyhedralPass, LeastElements, SequenceTheorems, TLAPS

-----------------------------------------------------------------------------
(* The forest of a function.                                               *)

LEMMA Forest ==
    ASSUME NEW f \in Programs
    PROVE  /\ Len(f.children) \in Nat /\ Loops(f) = 1 .. Len(f.children)
           /\ \A l \in Loops(f) : /\ Inside(f, l) = f.children[l] /\ l \in Nat \ {0}
                                  /\ f.children[l] \in Seq(Loops(f))
           /\ \A l \in {0} \cup Loops(f) :
                 /\ Inside(f, l) \in Seq(Loops(f))
                 /\ DOMAIN Inside(f, l) = 1 .. Len(Inside(f, l)) /\ Len(Inside(f, l)) \in Nat
                 /\ \A i \in DOMAIN Inside(f, l) : Inside(f, l)[i] \in Loops(f) /\ Inside(f, l)[i] > l
<1>1. IsForest(f)
    BY ProgramsAssumption
<1>2. Len(f.children) \in Nat /\ Loops(f) = 1 .. Len(f.children)
    BY <1>1 DEF IsForest, Loops
<1>3. \A l \in Loops(f) : Inside(f, l) = f.children[l] /\ l \in Nat \ {0}
    BY <1>2 DEF Inside
<1>4. \A l \in {0} \cup Loops(f) : Inside(f, l) \in Seq(Loops(f))
                                   /\ \A i \in DOMAIN Inside(f, l) : Inside(f, l)[i] > l
    BY <1>1 DEF IsForest
<1>5. \A s \in Seq(Loops(f)) : /\ DOMAIN s = 1 .. Len(s) /\ Len(s) \in Nat
                               /\ \A i \in DOMAIN s : s[i] \in Loops(f)
    OBVIOUS
<1>. QED BY <1>2, <1>3, <1>4, <1>5

\* A loop is right inside one other only, and there once.
LEMMA OneParent ==
    ASSUME NEW f \in Programs, NEW k \in {0} \cup Loops(f), NEW l \in {0} \cup Loops(f),
           NEW c \in ToSet(Inside(f, k)), c \in ToSet(Inside(f, l))
    PROVE  k = l
<1>1. \A i, j \in {0} \cup Loops(f) : i # j => ToSet(Inside(f, i)) \cap ToSet(Inside(f, j)) = {}
    BY ProgramsAssumption DEF IsForest
<1>. QED BY <1>1

-----------------------------------------------------------------------------
(* Sequences in which a loop comes after the loops inside it.              *)

PostOrder(f, t) ==
    /\ t \in Seq(Loops(f))
    /\ \A i, j \in 1 .. Len(t) : t[i] = t[j] => i = j
    /\ \A i \in 1 .. Len(t) : \A c \in ToSet(f.children[t[i]]) : \E j \in 1 .. i - 1 : t[j] = c

LEMMA ElementsOf ==
    ASSUME NEW S, NEW t \in Seq(S)
    PROVE  /\ Len(t) \in Nat /\ DOMAIN t = 1 .. Len(t) /\ ToSet(t) \subseteq S
           /\ \A x : x \in ToSet(t) <=> \E i \in 1 .. Len(t) : t[i] = x
BY DEF ToSet

\* The loops inside a loop of the sequence are in it.
LEMMA PostOrderIsClosed ==
    ASSUME NEW f \in Programs, NEW t, PostOrder(f, t), NEW p \in ToSet(t), NEW c \in ToSet(f.children[p])
    PROVE  c \in ToSet(t)
<1>1. t \in Seq(Loops(f))
    BY DEF PostOrder
<1>2. PICK i \in 1 .. Len(t) : t[i] = p
    BY <1>1, ElementsOf
<1>3. PICK j \in 1 .. i - 1 : t[j] = c
    BY <1>2 DEF PostOrder
<1>4. j \in 1 .. Len(t)
    BY <1>1, <1>2, <1>3, ElementsOf
<1>. QED BY <1>1, <1>3, <1>4, ElementsOf

LEMMA ConcatPost ==
    ASSUME NEW f \in Programs, NEW t, NEW u, PostOrder(f, t), PostOrder(f, u),
           ToSet(t) \cap ToSet(u) = {}
    PROVE  PostOrder(f, t \o u) /\ ToSet(t \o u) = ToSet(t) \cup ToSet(u)
<1> DEFINE w == t \o u
<1>1. t \in Seq(Loops(f)) /\ u \in Seq(Loops(f)) /\ Len(t) \in Nat /\ Len(u) \in Nat
    BY DEF PostOrder
<1>2. /\ w \in Seq(Loops(f)) /\ Len(w) = Len(t) + Len(u)
      /\ \A i \in 1 .. Len(t) + Len(u) : w[i] = IF i <= Len(t) THEN t[i] ELSE u[i - Len(t)]
    BY <1>1, ConcatProperties
<1> HIDE DEF w
<1>3. \A i \in 1 .. Len(t) : i \in 1 .. Len(w) /\ w[i] = t[i]
    BY <1>1, <1>2
<1>4. \A i \in 1 .. Len(u) : Len(t) + i \in 1 .. Len(w) /\ w[Len(t) + i] = u[i]
  <2> SUFFICES ASSUME NEW i \in 1 .. Len(u)
               PROVE  Len(t) + i \in 1 .. Len(w) /\ w[Len(t) + i] = u[i]
      OBVIOUS
  <2>1. /\ Len(t) + i \in 1 .. Len(t) + Len(u) /\ ~(Len(t) + i <= Len(t))
        /\ (Len(t) + i) - Len(t) = i
      BY <1>1
  <2>2. w[Len(t) + i] = u[(Len(t) + i) - Len(t)]
      BY <1>2, <2>1
  <2>. QED BY <1>2, <2>1, <2>2
<1>5. \A i \in 1 .. Len(w) : i \in 1 .. Len(t) \/ \E k \in 1 .. Len(u) : i = Len(t) + k
  <2> SUFFICES ASSUME NEW i \in 1 .. Len(w), i \notin 1 .. Len(t) PROVE \E k \in 1 .. Len(u) : i = Len(t) + k
      OBVIOUS
  <2>1. i - Len(t) \in 1 .. Len(u) /\ i = Len(t) + (i - Len(t))
      BY <1>1, <1>2
  <2>. QED BY <2>1
<1>6. /\ \A x : x \in ToSet(t) <=> \E i \in 1 .. Len(t) : t[i] = x
      /\ \A x : x \in ToSet(u) <=> \E i \in 1 .. Len(u) : u[i] = x
      /\ \A x : x \in ToSet(w) <=> \E i \in 1 .. Len(w) : w[i] = x
  <2>1. \A x : x \in ToSet(t) <=> \E i \in 1 .. Len(t) : t[i] = x
      BY <1>1, ElementsOf
  <2>2. \A x : x \in ToSet(u) <=> \E i \in 1 .. Len(u) : u[i] = x
      BY <1>1, ElementsOf
  <2>3. \A x : x \in ToSet(w) <=> \E i \in 1 .. Len(w) : w[i] = x
      BY <1>2, ElementsOf
  <2>. QED BY <2>1, <2>2, <2>3
<1>7. ToSet(w) = ToSet(t) \cup ToSet(u)
  <2>1. ASSUME NEW x \in ToSet(w) PROVE x \in ToSet(t) \cup ToSet(u)
    <3>1. PICK i \in 1 .. Len(w) : w[i] = x
        BY <1>6, <2>1
    <3>2. CASE i \in 1 .. Len(t)
        BY <1>3, <1>6, <3>1, <3>2
    <3>3. CASE \E k \in 1 .. Len(u) : i = Len(t) + k
        BY <1>4, <1>6, <3>1, <3>3
    <3>. QED BY <1>5, <3>2, <3>3
  <2>2. ASSUME NEW x \in ToSet(t) PROVE x \in ToSet(w)
      BY <1>3, <1>6
  <2>3. ASSUME NEW x \in ToSet(u) PROVE x \in ToSet(w)
      BY <1>4, <1>6
  <2>. QED BY <2>1, <2>2, <2>3
<1>8. ASSUME NEW i \in 1 .. Len(w), NEW j \in 1 .. Len(w), w[i] = w[j] PROVE i = j
  <2>1. CASE i \in 1 .. Len(t) /\ j \in 1 .. Len(t)
    <3>1. t[i] = t[j]
        BY <1>3, <1>8, <2>1
    <3>. QED BY <2>1, <3>1 DEF PostOrder
  <2>2. CASE i \in 1 .. Len(t) /\ j \notin 1 .. Len(t)
    <3>1. PICK k \in 1 .. Len(u) : j = Len(t) + k
        BY <1>5, <2>2
    <3>2. t[i] = u[k]
        BY <1>3, <1>4, <1>8, <2>2, <3>1
    <3>3. t[i] \in ToSet(t) /\ u[k] \in ToSet(u)
        BY <1>6, <2>2, <3>1
    <3>. QED BY <3>2, <3>3
  <2>3. CASE i \notin 1 .. Len(t) /\ j \in 1 .. Len(t)
    <3>1. PICK k \in 1 .. Len(u) : i = Len(t) + k
        BY <1>5, <2>3
    <3>2. t[j] = u[k]
        BY <1>3, <1>4, <1>8, <2>3, <3>1
    <3>3. t[j] \in ToSet(t) /\ u[k] \in ToSet(u)
        BY <1>6, <2>3, <3>1
    <3>. QED BY <3>2, <3>3
  <2>4. CASE i \notin 1 .. Len(t) /\ j \notin 1 .. Len(t)
    <3>1. PICK k \in 1 .. Len(u) : i = Len(t) + k
        BY <1>5, <2>4
    <3>2. PICK m \in 1 .. Len(u) : j = Len(t) + m
        BY <1>5, <2>4
    <3>3. u[k] = u[m]
        BY <1>4, <1>8, <3>1, <3>2
    <3>4. k = m
        BY <3>3 DEF PostOrder
    <3>. QED BY <3>1, <3>2, <3>4
  <2>. QED BY <2>1, <2>2, <2>3, <2>4
<1>9. ASSUME NEW i \in 1 .. Len(w), NEW c \in ToSet(f.children[w[i]])
      PROVE  \E j \in 1 .. i - 1 : w[j] = c
  <2>1. CASE i \in 1 .. Len(t)
    <3>1. PICK j \in 1 .. i - 1 : t[j] = c
        BY <1>3, <1>9, <2>1 DEF PostOrder
    <3>2. j \in 1 .. Len(t)
        BY <1>1, <2>1, <3>1
    <3>. QED BY <1>3, <3>1, <3>2
  <2>2. CASE i \notin 1 .. Len(t)
    <3>1. PICK k \in 1 .. Len(u) : i = Len(t) + k
        BY <1>5, <2>2
    <3>2. PICK j \in 1 .. k - 1 : u[j] = c
        BY <1>4, <1>9, <3>1 DEF PostOrder
    <3>3. j \in 1 .. Len(u) /\ Len(t) + j \in 1 .. i - 1
        BY <1>1, <3>1, <3>2
    <3>. QED BY <1>4, <3>2, <3>3
  <2>. QED BY <2>1, <2>2
<1>10. PostOrder(f, w)
    BY <1>2, <1>8, <1>9 DEF PostOrder
<1>. QED BY <1>7, <1>10 DEF w

\* A loop after all that is inside it.
LEMMA AppendPost ==
    ASSUME NEW f \in Programs, NEW t, PostOrder(f, t), NEW l \in Loops(f), l \notin ToSet(t),
           ToSet(f.children[l]) \subseteq ToSet(t)
    PROVE  PostOrder(f, t \o <<l>>) /\ ToSet(t \o <<l>>) = ToSet(t) \cup {l}
<1> DEFINE w == t \o <<l>>
<1>1. t \in Seq(Loops(f)) /\ <<l>> \in Seq(Loops(f)) /\ Len(t) \in Nat /\ Len(<<l>>) = 1 /\ <<l>>[1] = l
    BY DEF PostOrder
<1>2. /\ w \in Seq(Loops(f)) /\ Len(w) = Len(t) + 1
      /\ \A i \in 1 .. Len(t) : w[i] = t[i]
      /\ w[Len(t) + 1] = l
    BY <1>1, ConcatProperties
<1> HIDE DEF w
<1>3. \A i \in 1 .. Len(w) : i \in 1 .. Len(t) \/ i = Len(t) + 1
    BY <1>1, <1>2
<1>4. 1 .. Len(t) \subseteq 1 .. Len(w) /\ Len(t) + 1 \in 1 .. Len(w)
    BY <1>1, <1>2
<1>5. /\ \A x : x \in ToSet(t) <=> \E i \in 1 .. Len(t) : t[i] = x
      /\ \A x : x \in ToSet(w) <=> \E i \in 1 .. Len(w) : w[i] = x
    BY <1>1, <1>2, ElementsOf
<1>6. ToSet(w) = ToSet(t) \cup {l}
    BY <1>2, <1>3, <1>4, <1>5
<1>7. \A i, j \in 1 .. Len(w) : w[i] = w[j] => i = j
    BY <1>2, <1>3, <1>5 DEF PostOrder
<1>8. ASSUME NEW i \in 1 .. Len(w), NEW c \in ToSet(f.children[w[i]])
      PROVE  \E j \in 1 .. i - 1 : w[j] = c
  <2>1. CASE i \in 1 .. Len(t)
    <3>1. PICK j \in 1 .. i - 1 : t[j] = c
        BY <1>2, <1>8, <2>1 DEF PostOrder
    <3>2. j \in 1 .. Len(t)
        BY <1>1, <2>1, <3>1
    <3>. QED BY <1>2, <3>1, <3>2
  <2>2. CASE i = Len(t) + 1
    <3>1. c \in ToSet(t)
        BY <1>2, <1>8, <2>2
    <3>2. PICK j \in 1 .. Len(t) : t[j] = c
        BY <1>5, <3>1
    <3>. QED BY <1>1, <1>2, <2>2, <3>2
  <2>. QED BY <1>3, <2>1, <2>2
<1>9. PostOrder(f, w)
    BY <1>2, <1>7, <1>8 DEF PostOrder
<1>. QED BY <1>6, <1>9 DEF w

\* The concatenation of several of them.
LEMMA FlattenExists ==
    ASSUME NEW s, NEW n \in Nat
    PROVE  \E t : /\ t = [i \in 1 .. n |-> t[i]]
                  /\ \A i \in 1 .. n : t[i] = IF i = 1 THEN s[i] ELSE t[i - 1] \o s[i]
<1> DEFINE Is(t, m) == /\ t = [i \in 1 .. m |-> t[i]]
                       /\ \A i \in 1 .. m : t[i] = IF i = 1 THEN s[i] ELSE t[i - 1] \o s[i]
           T == {m \in Nat : ~ \E t : Is(t, m)}
<1> SUFFICES ASSUME T # {} PROVE FALSE
    OBVIOUS
<1>1. PICK m \in T : \A k \in T : m <= k
  <2>1. T \subseteq Nat
      OBVIOUS
  <2> HIDE DEF T
  <2>. QED BY <2>1, LeastElement
<1>2. m \in Nat /\ ~ \E t : Is(t, m)
    OBVIOUS
<1>3. m # 0
  <2> DEFINE t == [i \in 1 .. 0 |-> i]
  <2>1. t = [i \in 1 .. 0 |-> t[i]] /\ 1 .. 0 = {}
      OBVIOUS
  <2> HIDE DEF t
  <2>2. Is(t, 0)
      BY <2>1
  <2>. QED BY <1>2, <2>2
<1>4. m - 1 \in Nat /\ m - 1 \notin T
    BY <1>1, <1>2, <1>3
<1>5. PICK t : Is(t, m - 1)
    BY <1>4
<1> DEFINE last == IF m = 1 THEN s[m] ELSE t[m - 1] \o s[m]
<1> HIDE DEF last, T
<1> DEFINE g == [i \in 1 .. m |-> IF i = m THEN last ELSE t[i]]
<1>6. g = [i \in 1 .. m |-> g[i]]
    OBVIOUS
<1>7. \A i \in 1 .. m : g[i] = IF i = m THEN last ELSE t[i]
    OBVIOUS
<1> HIDE DEF g
<1>8. ASSUME NEW i \in 1 .. m PROVE g[i] = IF i = 1 THEN s[i] ELSE g[i - 1] \o s[i]
  <2>1. CASE i = m
    <3>1. g[i] = last
        BY <1>7, <2>1
    <3>2. CASE i = 1
        BY <2>1, <3>1, <3>2 DEF last
    <3>3. CASE i # 1
      <4>1. i - 1 \in 1 .. m /\ i - 1 # m
          BY <1>2, <3>3
      <4>2. g[i - 1] = t[i - 1]
          BY <1>7, <4>1
      <4>. QED BY <2>1, <3>1, <3>3, <4>2 DEF last
    <3>. QED BY <3>2, <3>3
  <2>2. CASE i # m
    <3>1. i \in 1 .. m - 1
        BY <1>2, <2>2
    <3>2. g[i] = t[i]
        BY <1>7, <2>2
    <3>3. t[i] = IF i = 1 THEN s[i] ELSE t[i - 1] \o s[i]
        BY <1>5, <3>1
    <3>4. CASE i = 1
        BY <3>2, <3>3, <3>4
    <3>5. CASE i # 1
      <4>1. i - 1 \in 1 .. m /\ i - 1 # m
          BY <1>2, <3>5
      <4>2. g[i - 1] = t[i - 1]
          BY <1>7, <4>1
      <4>. QED BY <3>2, <3>3, <3>5, <4>2
    <3>. QED BY <3>4, <3>5
  <2>. QED BY <2>1, <2>2
<1>9. Is(g, m)
    BY <1>6, <1>8
<1>. QED BY <1>2, <1>9

LEMMA FlattenPost ==
    ASSUME NEW f \in Programs, NEW s, NEW n \in Nat, DOMAIN s = 1 .. n, s = [i \in 1 .. n |-> s[i]],
           \A i \in 1 .. n : PostOrder(f, s[i]),
           \A i, j \in 1 .. n : i # j => ToSet(s[i]) \cap ToSet(s[j]) = {}
    PROVE  /\ PostOrder(f, FlattenSeq(s))
           /\ \A x : x \in ToSet(FlattenSeq(s)) <=> \E i \in 1 .. n : x \in ToSet(s[i])
<1>1. Len(s) = n
    OBVIOUS
<1>2. CASE n = 0
  <2>1. FlattenSeq(s) = s
      BY <1>1, <1>2 DEF FlattenSeq
  <2>2. s = <<>> /\ 1 .. n = {}
      BY <1>2
  <2>3. PostOrder(f, <<>>) /\ ToSet(<<>>) = {}
      BY DEF PostOrder, ToSet
  <2>. QED BY <2>1, <2>2, <2>3
<1>3. CASE n # 0
  <2> DEFINE flatten[i \in 1 .. Len(s)] == IF i = 1 THEN s[i] ELSE flatten[i - 1] \o s[i]
  <2>1. FlattenSeq(s) = flatten[n]
      BY <1>1, <1>3 DEF FlattenSeq
  <2>2. PICK t : /\ t = [i \in 1 .. n |-> t[i]]
                 /\ \A i \in 1 .. n : t[i] = IF i = 1 THEN s[i] ELSE t[i - 1] \o s[i]
      BY FlattenExists
  <2>3. t = [i \in 1 .. Len(s) |-> IF i = 1 THEN s[i] ELSE t[i - 1] \o s[i]]
      BY <1>1, <2>2
  <2>4. flatten = [i \in 1 .. Len(s) |-> IF i = 1 THEN s[i] ELSE flatten[i - 1] \o s[i]]
      BY <2>3, Zenon
  <2>5. \A i \in 1 .. n : flatten[i] = IF i = 1 THEN s[i] ELSE flatten[i - 1] \o s[i]
      BY <1>1, <2>4
  <2> HIDE DEF flatten
  <2> DEFINE Good(m) == /\ PostOrder(f, flatten[m])
                        /\ \A x : x \in ToSet(flatten[m]) <=> \E i \in 1 .. m : x \in ToSet(s[i])
             T == {m \in 1 .. n : ~ Good(m)}
  <2>6. T = {}
    <3> SUFFICES ASSUME T # {} PROVE FALSE
        OBVIOUS
    <3>1. PICK m \in T : \A k \in T : m <= k
      <4>1. T \subseteq Nat
          OBVIOUS
      <4> HIDE DEF T
      <4>. QED BY <4>1, LeastElement
    <3>2. m \in 1 .. n /\ ~ Good(m)
        OBVIOUS
    <3>3. CASE m = 1
      <4>1. flatten[1] = s[1] /\ 1 \in 1 .. n /\ \A i \in 1 .. 1 : i = 1
          BY <2>5, <3>2, <3>3
      <4>2. Good(1)
          BY <4>1
      <4>. QED BY <3>2, <3>3, <4>2
    <3>4. CASE m # 1
      <4>1. m - 1 \in 1 .. n /\ m - 1 \notin T
          BY <3>1, <3>2, <3>4
      <4>2. Good(m - 1)
          BY <4>1
      <4>3. flatten[m] = flatten[m - 1] \o s[m]
          BY <2>5, <3>2, <3>4
      <4>4. PostOrder(f, s[m]) /\ PostOrder(f, flatten[m - 1])
          BY <3>2, <4>2
      <4>5. \A i \in 1 .. m : i \in 1 .. m - 1 \/ i = m
          BY <3>2
      <4>6. \A i \in 1 .. m - 1 : i \in 1 .. n /\ i # m /\ i \in 1 .. m
          BY <3>2
      <4>7. ToSet(flatten[m - 1]) \cap ToSet(s[m]) = {}
          BY <3>2, <4>2, <4>6
      <4>8. PostOrder(f, flatten[m]) /\ ToSet(flatten[m]) = ToSet(flatten[m - 1]) \cup ToSet(s[m])
          BY <4>3, <4>4, <4>7, ConcatPost
      <4>9. m \in 1 .. m
          BY <3>2
      <4>10. \A x : x \in ToSet(flatten[m]) <=> \E i \in 1 .. m : x \in ToSet(s[i])
          BY <4>2, <4>5, <4>6, <4>8, <4>9
      <4>. QED BY <3>2, <4>8, <4>10
    <3>. QED BY <3>3, <3>4
  <2>7. Good(n)
      BY <1>3, <2>6
  <2>. QED BY <2>1, <2>7
<1>. QED BY <1>2, <1>3

-----------------------------------------------------------------------------
(* A loop and everything inside it.                                        *)

Tree(f, l, t) ==
    /\ PostOrder(f, t)
    /\ l \in ToSet(t)
    /\ \A x \in ToSet(t) : x >= l /\ (x = l \/ \E p \in ToSet(t) : x \in ToSet(f.children[p]))

\* Two loops side by side have nothing in common: what they shared first would
\* have two parents.
LEMMA SiblingsAreDisjoint ==
    ASSUME NEW f \in Programs, NEW p \in {0} \cup Loops(f),
           NEW k \in ToSet(Inside(f, p)), NEW m \in ToSet(Inside(f, p)), k # m,
           NEW t, NEW u, Tree(f, k, t), Tree(f, m, u)
    PROVE  ToSet(t) \cap ToSet(u) = {}
<1> DEFINE T == ToSet(t) \cap ToSet(u)
<1> SUFFICES ASSUME T # {} PROVE FALSE
    OBVIOUS
<1>1. ToSet(t) \subseteq Loops(f) /\ ToSet(u) \subseteq Loops(f)
    BY ElementsOf DEF Tree, PostOrder
<1>2. Loops(f) \subseteq Nat /\ 0 \notin Loops(f)
    BY Forest
<1>3. PICK x \in T : \A y \in T : x <= y
  <2>1. T \subseteq Nat
      BY <1>1, <1>2
  <2> HIDE DEF T
  <2>. QED BY <2>1, LeastElement
<1>4. \A q \in Loops(f) : \A c \in ToSet(f.children[q]) : q < c /\ c \in Nat /\ c \in ToSet(Inside(f, q))
    BY Forest DEF ToSet
<1>5. k > p /\ m > p /\ k \in Nat /\ m \in Nat /\ p \in Nat
    BY <1>2, Forest DEF ToSet
<1>6. x # k
  <2> SUFFICES ASSUME x = k PROVE FALSE
      OBVIOUS
  <2>1. PICK q \in ToSet(u) : k \in ToSet(f.children[q])
      BY DEF Tree
  <2>2. q \in Loops(f) /\ k \in ToSet(Inside(f, q))
      BY <1>1, <1>4, <2>1
  <2>3. q = p
      BY <2>2, OneParent
  <2>4. q >= m
      BY DEF Tree
  <2>. QED BY <1>5, <2>3, <2>4
<1>7. x # m
  <2> SUFFICES ASSUME x = m PROVE FALSE
      OBVIOUS
  <2>1. PICK q \in ToSet(t) : m \in ToSet(f.children[q])
      BY DEF Tree
  <2>2. q \in Loops(f) /\ m \in ToSet(Inside(f, q))
      BY <1>1, <1>4, <2>1
  <2>3. q = p
      BY <2>2, OneParent
  <2>4. q >= k
      BY DEF Tree
  <2>. QED BY <1>5, <2>3, <2>4
<1>8. PICK q \in ToSet(t) : x \in ToSet(f.children[q])
    BY <1>6 DEF Tree
<1>9. PICK r \in ToSet(u) : x \in ToSet(f.children[r])
    BY <1>7 DEF Tree
<1>10. q \in Loops(f) /\ r \in Loops(f) /\ x \in ToSet(Inside(f, q)) /\ x \in ToSet(Inside(f, r)) /\ q < x
    BY <1>1, <1>4, <1>8, <1>9
<1>11. q = r
    BY <1>10, OneParent
<1>12. q \in T
    BY <1>8, <1>9, <1>11
<1>13. x <= q
    BY <1>3, <1>12
<1>. QED BY <1>1, <1>2, <1>10, <1>13

\* What is below the loops right inside one loop, or inside the function.
LEMMA SiblingsInOrder ==
    ASSUME NEW f \in Programs, NEW p \in {0} \cup Loops(f), NEW b,
           \A c \in ToSet(Inside(f, p)) : Tree(f, c, b[c])
    PROVE  LET s == FlattenSeq([i \in DOMAIN Inside(f, p) |-> b[Inside(f, p)[i]]])
           IN  /\ PostOrder(f, s)
               /\ \A x : x \in ToSet(s) <=> \E c \in ToSet(Inside(f, p)) : x \in ToSet(b[c])
<1> DEFINE a == Inside(f, p)
           n == Len(a)
           s == [i \in DOMAIN a |-> b[a[i]]]
<1>1. n \in Nat /\ DOMAIN a = 1 .. n
    BY Forest
<1>2. \A i, j \in 1 .. n : a[i] = a[j] => i = j
    BY <1>1, ProgramsAssumption DEF IsForest
<1>3. \A i \in 1 .. n : a[i] \in ToSet(a)
    BY <1>1 DEF ToSet
<1>4. \A c \in ToSet(a) : \E i \in 1 .. n : a[i] = c
    BY <1>1 DEF ToSet
<1>5. \A c \in ToSet(a) : Tree(f, c, b[c])
    OBVIOUS
<1>6. DOMAIN s = 1 .. n /\ s = [i \in 1 .. n |-> s[i]] /\ \A i \in 1 .. n : s[i] = b[a[i]]
    BY <1>1
<1>7. ASSUME NEW i \in 1 .. n, NEW j \in 1 .. n, i # j PROVE ToSet(b[a[i]]) \cap ToSet(b[a[j]]) = {}
  <2>1. a[i] \in ToSet(a) /\ a[j] \in ToSet(a) /\ a[i] # a[j]
      BY <1>2, <1>3, <1>7
  <2>2. Tree(f, a[i], b[a[i]]) /\ Tree(f, a[j], b[a[j]])
      BY <1>5, <2>1
  <2>. QED BY <2>1, <2>2, SiblingsAreDisjoint
<1>8. \A i \in 1 .. n : PostOrder(f, b[a[i]])
    BY <1>3, <1>5 DEF Tree
<1> HIDE DEF s, n, a
<1>9. /\ \A i \in 1 .. n : PostOrder(f, s[i])
      /\ \A i, j \in 1 .. n : i # j => ToSet(s[i]) \cap ToSet(s[j]) = {}
    BY <1>6, <1>7, <1>8
<1>10. /\ PostOrder(f, FlattenSeq(s))
       /\ \A x : x \in ToSet(FlattenSeq(s)) <=> \E i \in 1 .. n : x \in ToSet(s[i])
    BY <1>1, <1>6, <1>9, FlattenPost
<1>11. \A x : x \in ToSet(FlattenSeq(s)) <=> \E c \in ToSet(a) : x \in ToSet(b[c])
    BY <1>3, <1>4, <1>6, <1>10
<1>. QED BY <1>10, <1>11 DEF s, a

\* The recursion of collectLoopsRecursively() is well-founded.
LEMMA BelowExists ==
    ASSUME NEW f \in Programs
    PROVE  \E b : b = [l \in Loops(f) |->
               FlattenSeq([i \in DOMAIN f.children[l] |-> b[f.children[l][i]]]) \o <<l>>]
<1> DEFINE At(b, l) == FlattenSeq([i \in DOMAIN f.children[l] |-> b[f.children[l][i]]]) \o <<l>>
           n == Len(f.children)
           T == {m \in 1 .. n + 1 : ~ \E b : b = [l \in m .. n |-> At(b, l)]}
<1>1. n \in Nat /\ Loops(f) = 1 .. n
    BY Forest
<1>2. \A l \in 1 .. n : \A i \in DOMAIN f.children[l] : f.children[l][i] \in l + 1 .. n
    BY Forest, <1>1
<1> HIDE DEF n
<1>3. T = {}
  <2> SUFFICES ASSUME T # {} PROVE FALSE
      OBVIOUS
  <2>1. PICK m \in T : \A k \in T : k <= m
    <3>1. T \subseteq 0 .. n + 1 /\ n + 1 \in Nat
        BY <1>1
    <3> HIDE DEF T
    <3>. QED BY <3>1, GreatestElement
  <2>2. m \in 1 .. n + 1 /\ ~ \E b : b = [l \in m .. n |-> At(b, l)]
      OBVIOUS
  <2>3. m # n + 1
    <3> SUFFICES ASSUME m = n + 1 PROVE FALSE
        OBVIOUS
    <3>1. m .. n = {}
        BY <1>1, EmptyInterval
    <3> DEFINE e == [l \in {} |-> l]
    <3>2. e = [l \in m .. n |-> At(e, l)]
        BY <3>1
    <3>. QED BY <2>2, <3>2
  <2>4. m + 1 \in 1 .. n + 1 /\ m + 1 \notin T /\ m \in 1 .. n
    <3> HIDE DEF T, At
    <3>1. m + 1 \in 1 .. n + 1 /\ m \in 1 .. n /\ ~ (m + 1 <= m)
        BY <1>1, <2>2, <2>3
    <3>2. m + 1 \notin T
        BY <2>1, <3>1
    <3>. QED BY <3>1, <3>2
  <2>5. PICK b : b = [l \in m + 1 .. n |-> At(b, l)]
      BY <2>4
  <2> DEFINE g == [l \in m .. n |-> IF l = m THEN At(b, m) ELSE b[l]]
  <2>6. \A l \in m .. n : g[l] = IF l = m THEN At(b, m) ELSE b[l]
      BY Zenon
  <2> HIDE DEF T
  <2>7. ASSUME NEW l \in m .. n PROVE At(g, l) = At(b, l)
    <3>1. l \in 1 .. n
        BY <1>1, <2>4
    <3> HIDE DEF g
    <3>2. ASSUME NEW i \in DOMAIN f.children[l] PROVE g[f.children[l][i]] = b[f.children[l][i]]
      <4>1. f.children[l][i] \in l + 1 .. n
          BY <1>2, <3>1
      <4>2. f.children[l][i] \in m .. n /\ f.children[l][i] # m
          BY <1>1, <2>4, <3>1, <4>1
      <4>. QED BY <2>6, <4>2
    <3>3. [i \in DOMAIN f.children[l] |-> g[f.children[l][i]]]
              = [i \in DOMAIN f.children[l] |-> b[f.children[l][i]]]
        BY <3>2, Zenon
    <3>. QED BY <3>3, Zenon
  <2>8. ASSUME NEW l \in m .. n PROVE g[l] = At(g, l)
    <3>1. CASE l = m
        BY <2>6, <2>7, <3>1, Zenon
    <3>2. CASE l # m
      <4>1. l \in m + 1 .. n
          BY <1>1, <2>4, <3>2
      <4>2. b[l] = At(b, l)
          BY <2>5, <4>1, Zenon
      <4>. QED BY <2>6, <2>7, <3>2, <4>2, Zenon
    <3>. QED BY <3>1, <3>2
  <2>9. g = [l \in m .. n |-> At(g, l)]
      BY <2>8, Zenon
  <2>. QED BY <2>2, <2>9, Zenon
<1>4. 1 \in 1 .. n + 1
    BY <1>1
<1>5. \E b : b = [l \in 1 .. n |-> At(b, l)]
    BY <1>3, <1>4
<1>. QED BY <1>1, <1>5

\* collectLoopsRecursively() gives every loop of the function once, after what is
\* inside it.
LEMMA CollectLoopsIsPostOrder ==
    ASSUME NEW f \in Programs
    PROVE  PostOrder(f, CollectLoops(f)) /\ ToSet(CollectLoops(f)) = Loops(f)
<1> DEFINE below[l \in Loops(f)] ==
               FlattenSeq([i \in DOMAIN f.children[l] |-> below[f.children[l][i]]]) \o <<l>>
<1>1. CollectLoops(f) = FlattenSeq([i \in DOMAIN f.top |-> below[f.top[i]]])
    BY Zenon DEF CollectLoops
<1>2. PICK b : b = [l \in Loops(f) |->
               FlattenSeq([i \in DOMAIN f.children[l] |-> b[f.children[l][i]]]) \o <<l>>]
    BY BelowExists
<1>3. below = [l \in Loops(f) |->
               FlattenSeq([i \in DOMAIN f.children[l] |-> below[f.children[l][i]]]) \o <<l>>]
    BY <1>2, Zenon
<1> HIDE DEF below
<1> DEFINE T == {l \in Loops(f) : ~ Tree(f, l, below[l])}
           n == Len(f.children)
<1>4. n \in Nat /\ Loops(f) = 1 .. n
    BY Forest
<1> HIDE DEF n
<1>5. T = {}
  <2> SUFFICES ASSUME T # {} PROVE FALSE
      OBVIOUS
  <2>1. PICK l \in T : \A k \in T : k <= l
    <3>1. T \subseteq 0 .. n
        BY <1>4
    <3> HIDE DEF T
    <3>. QED BY <1>4, <3>1, GreatestElement
  <2>2. l \in Loops(f) /\ l \in Nat /\ ~ Tree(f, l, below[l]) /\ Inside(f, l) = f.children[l]
      BY Forest
  <2>3. \A c \in ToSet(Inside(f, l)) : c \in Loops(f) /\ c \in Nat /\ c > l
      BY <1>4, <2>2, Forest DEF ToSet
  <2>4. \A c \in ToSet(Inside(f, l)) : Tree(f, c, below[c])
      BY <2>1, <2>2, <2>3
  <2> DEFINE s == FlattenSeq([i \in DOMAIN Inside(f, l) |-> below[Inside(f, l)[i]]])
  <2>5. /\ PostOrder(f, s)
        /\ \A x : x \in ToSet(s) <=> \E c \in ToSet(Inside(f, l)) : x \in ToSet(below[c])
      BY <2>2, <2>4, SiblingsInOrder
  <2>6. below[l] = s \o <<l>>
      BY <1>3, <2>2, Zenon
  <2> HIDE DEF s, T
  <2>7. \A x \in ToSet(s) : x > l
    <3> SUFFICES ASSUME NEW x \in ToSet(s) PROVE x > l
        OBVIOUS
    <3>1. PICK c \in ToSet(Inside(f, l)) : x \in ToSet(below[c])
        BY <2>5
    <3>2. x >= c
        BY <2>4, <3>1 DEF Tree
    <3>3. x \in Loops(f)
        BY <2>5, ElementsOf DEF PostOrder
    <3>. QED BY <1>4, <2>2, <2>3, <3>2, <3>3
  <2>8. l \notin ToSet(s) /\ ToSet(f.children[l]) \subseteq ToSet(s)
      BY <2>2, <2>4, <2>5, <2>7 DEF Tree
  <2>9. PostOrder(f, below[l]) /\ ToSet(below[l]) = ToSet(s) \cup {l}
      BY <2>2, <2>5, <2>6, <2>8, AppendPost
  <2>10. ASSUME NEW x \in ToSet(s) PROVE \E p \in ToSet(below[l]) : x \in ToSet(f.children[p])
    <3>1. PICK c \in ToSet(Inside(f, l)) : x \in ToSet(below[c])
        BY <2>5
    <3>2. CASE x = c
        BY <2>2, <2>9, <3>2
    <3>3. CASE x # c
      <4>1. PICK p \in ToSet(below[c]) : x \in ToSet(f.children[p])
          BY <2>4, <3>1, <3>3 DEF Tree
      <4>. QED BY <2>5, <2>9, <4>1
    <3>. QED BY <3>2, <3>3
  <2>11. \A x \in ToSet(below[l]) : x >= l
    <3>1. l >= l
        BY <2>2
    <3>2. \A x \in ToSet(s) : x \in Nat
        BY <1>4, <2>5, ElementsOf DEF PostOrder
    <3>3. \A x \in ToSet(s) : x >= l
        BY <2>2, <2>7, <3>2
    <3>. QED BY <2>9, <3>1, <3>3
  <2>. QED BY <2>2, <2>9, <2>10, <2>11 DEF Tree
<1>6. Inside(f, 0) = f.top
    BY DEF Inside
<1>7. \A c \in ToSet(Inside(f, 0)) : c \in Loops(f) /\ Tree(f, c, below[c])
    BY <1>5, Forest DEF ToSet
<1>8. /\ PostOrder(f, CollectLoops(f))
      /\ \A x : x \in ToSet(CollectLoops(f)) <=> \E c \in ToSet(Inside(f, 0)) : x \in ToSet(below[c])
    BY <1>1, <1>6, <1>7, SiblingsInOrder
<1> DEFINE U == Loops(f) \ ToSet(CollectLoops(f))
<1>9. U = {}
  <2> SUFFICES ASSUME U # {} PROVE FALSE
      OBVIOUS
  <2>1. PICK c \in U : \A k \in U : c <= k
    <3>1. U \subseteq Nat
        BY <1>4
    <3> HIDE DEF U
    <3>. QED BY <3>1, LeastElement
  <2>2. PICK l \in {0} \cup Loops(f) : c \in ToSet(Inside(f, l))
      BY ProgramsAssumption DEF IsForest
  <2>3. l # 0
      BY <1>7, <1>8, <2>2 DEF Tree
  <2>4. l \in Loops(f) /\ l < c /\ l \in Nat /\ c \in Nat /\ c \in ToSet(f.children[l])
      BY <1>4, <2>2, <2>3, Forest DEF ToSet
  <2>5. l \in ToSet(CollectLoops(f))
      BY <2>1, <2>4
  <2>. QED BY <1>8, <2>4, <2>5, PostOrderIsClosed
<1>10. ToSet(CollectLoops(f)) \subseteq Loops(f)
    BY <1>8, ElementsOf DEF PostOrder
<1>. QED BY <1>8, <1>9, <1>10

\* The recursion of linearizePerfectNest() is well-founded.
LEMMA ChainExists ==
    ASSUME NEW f \in Programs
    PROVE  \E b : b = [l \in Loops(f) |->
               IF Len(f.children[l]) = 1 THEN <<l>> \o b[f.children[l][1]] ELSE <<l>>]
<1> DEFINE At(b, l) == IF Len(f.children[l]) = 1 THEN <<l>> \o b[f.children[l][1]] ELSE <<l>>
           n == Len(f.children)
           T == {m \in 1 .. n + 1 : ~ \E b : b = [l \in m .. n |-> At(b, l)]}
<1>1. n \in Nat /\ Loops(f) = 1 .. n
    BY Forest
<1>2. \A l \in 1 .. n : Len(f.children[l]) = 1 => f.children[l][1] \in l + 1 .. n
    BY Forest, <1>1
<1> HIDE DEF n
<1>3. T = {}
  <2> SUFFICES ASSUME T # {} PROVE FALSE
      OBVIOUS
  <2>1. PICK m \in T : \A k \in T : k <= m
    <3>1. T \subseteq 0 .. n + 1 /\ n + 1 \in Nat
        BY <1>1
    <3> HIDE DEF T
    <3>. QED BY <3>1, GreatestElement
  <2>2. m \in 1 .. n + 1 /\ ~ \E b : b = [l \in m .. n |-> At(b, l)]
      OBVIOUS
  <2>3. m # n + 1
    <3> SUFFICES ASSUME m = n + 1 PROVE FALSE
        OBVIOUS
    <3>1. m .. n = {}
        BY <1>1, EmptyInterval
    <3> DEFINE e == [l \in {} |-> l]
    <3>2. e = [l \in m .. n |-> At(e, l)]
        BY <3>1
    <3>. QED BY <2>2, <3>2
  <2>4. m + 1 \in 1 .. n + 1 /\ m + 1 \notin T /\ m \in 1 .. n
    <3> HIDE DEF T, At
    <3>1. m + 1 \in 1 .. n + 1 /\ m \in 1 .. n /\ ~ (m + 1 <= m)
        BY <1>1, <2>2, <2>3
    <3>2. m + 1 \notin T
        BY <2>1, <3>1
    <3>. QED BY <3>1, <3>2
  <2>5. PICK b : b = [l \in m + 1 .. n |-> At(b, l)]
      BY <2>4
  <2> DEFINE g == [l \in m .. n |-> IF l = m THEN At(b, m) ELSE b[l]]
  <2>6. \A l \in m .. n : g[l] = IF l = m THEN At(b, m) ELSE b[l]
      BY Zenon
  <2> HIDE DEF T
  <2>7. ASSUME NEW l \in m .. n PROVE At(g, l) = At(b, l)
    <3>1. l \in 1 .. n
        BY <1>1, <2>4
    <3> HIDE DEF g
    <3>2. ASSUME Len(f.children[l]) = 1 PROVE g[f.children[l][1]] = b[f.children[l][1]]
      <4>1. f.children[l][1] \in l + 1 .. n
          BY <1>2, <3>1, <3>2
      <4>2. f.children[l][1] \in m .. n /\ f.children[l][1] # m
          BY <1>1, <2>4, <3>1, <4>1
      <4>. QED BY <2>6, <4>2
    <3>. QED BY <3>2, Zenon
  <2>8. ASSUME NEW l \in m .. n PROVE g[l] = At(g, l)
    <3>1. CASE l = m
        BY <2>6, <2>7, <3>1, Zenon
    <3>2. CASE l # m
      <4>1. l \in m + 1 .. n
          BY <1>1, <2>4, <3>2
      <4>2. b[l] = At(b, l)
          BY <2>5, <4>1, Zenon
      <4>. QED BY <2>6, <2>7, <3>2, <4>2, Zenon
    <3>. QED BY <3>1, <3>2
  <2>9. g = [l \in m .. n |-> At(g, l)]
      BY <2>8, Zenon
  <2>. QED BY <2>2, <2>9, Zenon
<1>4. 1 \in 1 .. n + 1
    BY <1>1
<1>5. \E b : b = [l \in 1 .. n |-> At(b, l)]
    BY <1>3, <1>4
<1>. QED BY <1>1, <1>5

\* The nest below a root consists of loops of the function.
LEMMA NestsAreLoops ==
    ASSUME NEW f \in Programs, NEW root \in Loops(f)
    PROVE  LinearizePerfectNest(f, root) \in Seq(Loops(f))
<1> DEFINE chain[l \in Loops(f)] ==
               IF Len(f.children[l]) = 1 THEN <<l>> \o chain[f.children[l][1]] ELSE <<l>>
<1>1. LinearizePerfectNest(f, root) = chain[root]
    BY Zenon DEF LinearizePerfectNest
<1>2. PICK b : b = [l \in Loops(f) |->
               IF Len(f.children[l]) = 1 THEN <<l>> \o b[f.children[l][1]] ELSE <<l>>]
    BY ChainExists
<1>3. chain = [l \in Loops(f) |->
               IF Len(f.children[l]) = 1 THEN <<l>> \o chain[f.children[l][1]] ELSE <<l>>]
    BY <1>2, Zenon
<1> HIDE DEF chain
<1> DEFINE T == {l \in Loops(f) : chain[l] \notin Seq(Loops(f))}
           n == Len(f.children)
<1>4. n \in Nat /\ Loops(f) = 1 .. n
    BY Forest
<1> HIDE DEF n
<1>5. T = {}
  <2> SUFFICES ASSUME T # {} PROVE FALSE
      OBVIOUS
  <2>1. PICK l \in T : \A k \in T : k <= l
    <3>1. T \subseteq 0 .. n
        BY <1>4
    <3> HIDE DEF T
    <3>. QED BY <1>4, <3>1, GreatestElement
  <2>2. l \in Loops(f) /\ chain[l] \notin Seq(Loops(f)) /\ <<l>> \in Seq(Loops(f))
      OBVIOUS
  <2> HIDE DEF T
  <2>3. CASE Len(f.children[l]) = 1
    <3> DEFINE c == f.children[l][1]
    <3>1. c \in Loops(f) /\ c > l
        BY <2>2, <2>3, Forest
    <3> HIDE DEF c
    <3>2. chain[c] \in Seq(Loops(f))
        BY <1>4, <2>1, <2>2, <3>1 DEF T
    <3>3. chain[l] = <<l>> \o chain[c]
        BY <1>3, <2>2, <2>3, Zenon DEF c
    <3>. QED BY <2>2, <3>2, <3>3, ConcatProperties
  <2>4. CASE Len(f.children[l]) # 1
      BY <1>3, <2>2, <2>4, Zenon
  <2>. QED BY <2>3, <2>4
<1>. QED BY <1>1, <1>5

-----------------------------------------------------------------------------
(* The inductive invariant.                                                *)

\* A nest under analysis has an isl context, and past getDependencies() also
\* its dependences.
Analysing == {"dependences", "legality", "interchange", "tile", "release", "crashed"}
Rewriting == {"legality", "interchange", "tile", "release", "crashed"}

SequencesOK ==
    /\ function \in Programs
    /\ roots \in Seq(Loops(function))
    /\ visited \in Seq(Loops(function))
    /\ nest \in Seq(Loops(function))

ControlOK ==
    /\ at \in {"start", "next", "dependences", "legality", "interchange", "tile",
               "release", "returned", "crashed"}
    /\ ctx \in BOOLEAN /\ (ctx <=> at \in Analysing)
    /\ deps \in BOOLEAN /\ (deps <=> at \in Rewriting)
    /\ tile \in {0, 1, 2}
    /\ localChange \in BOOLEAN
    /\ changed \in BOOLEAN
    /\ result \in {"none yet", "all", "none"}
    /\ result = "none yet" <=> at # "returned"

\* An exchange is on record exactly when one of the two flags is set, and between
\* two nests it is Changed that is.
ChangesOK ==
    /\ interchanged # {} <=> changed \/ localChange
    /\ at \in {"next", "dependences", "legality", "interchange", "returned"} =>
          ~localChange \/ changed
    /\ at = "start" => interchanged = {}
    /\ at = "returned" => (result = "all" <=> interchanged = {})

\* What has been exchanged was rectangular.
ExchangesOK ==
    /\ at \in Analysing => IsRectangularNest(function, nest)
    /\ \A x \in interchanged :
          /\ x.nest \in Seq(Loops(function))
          /\ x.outer \in 1 .. Len(x.nest)
          /\ IsRectangularNest(function, x.nest)

Inv == SequencesOK /\ ControlOK /\ ChangesOK /\ ExchangesOK

\* The initial states satisfy the invariant.
LEMMA InitInv == Init => Inv
<1>. SUFFICES ASSUME Init PROVE Inv
    OBVIOUS
<1>1. SequencesOK
  <2>1. \A S : <<>> \in Seq(S)
      OBVIOUS
  <2>. QED BY <2>1 DEF Init, SequencesOK
<1>2. ControlOK
    BY DEF Init, ControlOK, Analysing, Rewriting
<1>3. ChangesOK
    BY DEF Init, ChangesOK
<1>4. ExchangesOK
    BY DEF Init, ExchangesOK, Analysing
<1>. QED BY <1>1, <1>2, <1>3, <1>4 DEF Inv

\* Every statement of run() keeps it.
LEMMA NextInv == Inv /\ [Next]_vars => Inv'
<1>. SUFFICES ASSUME Inv, [Next]_vars PROVE Inv'
    OBVIOUS
<1>. USE DEF Inv
<1>1. CASE Start
  <2>1. SequencesOK'
      BY <1>1, CollectLoopsIsPostOrder DEF Start, SequencesOK, PostOrder
  <2>2. ControlOK' /\ ChangesOK'
      BY <1>1 DEF Start, ControlOK, ChangesOK, isl, changes, Analysing, Rewriting
  <2>3. ExchangesOK'
      BY <1>1 DEF Start, ExchangesOK, changes, Analysing, ChangesOK, ControlOK
  <2>. QED BY <2>1, <2>2, <2>3
<1>2. CASE TakeRoot
  <2> DEFINE loops == LinearizePerfectNest(function, Head(roots))
  <2>1. Head(roots) \in Loops(function) /\ Tail(roots) \in Seq(Loops(function))
      BY <1>2 DEF TakeRoot, SequencesOK
  <2>2. loops \in Seq(Loops(function))
      BY <2>1, NestsAreLoops DEF SequencesOK
  <2>3. SequencesOK'
      BY <1>2, <2>1, <2>2 DEF TakeRoot, SequencesOK
  <2>4. ControlOK' /\ ChangesOK'
      BY <1>2 DEF TakeRoot, ControlOK, ChangesOK, Analysing, Rewriting
  <2>5. ExchangesOK'
      BY <1>2 DEF TakeRoot, ExchangesOK, Analysing
  <2>. QED BY <2>3, <2>4, <2>5
<1>3. CASE GetDependencies
  <2>1. SequencesOK'
      BY <1>3 DEF GetDependencies, SequencesOK
  <2>2. ControlOK' /\ ChangesOK'
    <3>1. PICK read \in BOOLEAN : /\ deps' = read
                                  /\ ctx' = read
                                  /\ at' = IF read THEN "legality" ELSE "next"
        BY <1>3 DEF GetDependencies
    <3>2. at' \in {"legality", "next"} /\ UNCHANGED <<tile, localChange, changed, interchanged, result>>
        BY <1>3, <3>1 DEF GetDependencies, changes
    <3>3. ControlOK'
        BY <1>3, <3>1, <3>2 DEF GetDependencies, ControlOK, Analysing, Rewriting
    <3>4. ~localChange \/ changed
        BY <1>3 DEF GetDependencies, ChangesOK
    <3>5. ChangesOK'
        BY <3>2, <3>4 DEF ChangesOK
    <3>. QED BY <3>3, <3>5
  <2>3. ExchangesOK'
      BY <1>3 DEF GetDependencies, ExchangesOK, changes, Analysing
  <2>. QED BY <2>1, <2>2, <2>3
<1>4. CASE IsTilingLegal
  <2>1. SequencesOK'
      BY <1>4 DEF IsTilingLegal, SequencesOK
  <2>2. ControlOK' /\ ChangesOK'
      BY <1>4 DEF IsTilingLegal, ControlOK, ChangesOK, changes, isl, Analysing, Rewriting
  <2>3. ExchangesOK'
      BY <1>4 DEF IsTilingLegal, ExchangesOK, changes, Analysing
  <2>. QED BY <2>1, <2>2, <2>3
<1>5. CASE OptimizeLoopOrder
  <2>1. SequencesOK'
      BY <1>5 DEF OptimizeLoopOrder, SequencesOK
  <2>2. ControlOK' /\ ChangesOK'
    <3>1. /\ at = "interchange" /\ at' = "tile" /\ tile' = 1
          /\ UNCHANGED <<ctx, deps, changed, result>>
        BY <1>5 DEF OptimizeLoopOrder, isl
    <3>2. CASE UNCHANGED <<localChange, interchanged>>
        BY <3>1, <3>2 DEF ControlOK, ChangesOK, Analysing, Rewriting
    <3>3. CASE localChange' = TRUE /\ interchanged' # {}
      <4>1. ControlOK'
          BY <3>1, <3>3 DEF ControlOK, Analysing, Rewriting
      <4>2. ChangesOK'
          BY <3>1, <3>3 DEF ChangesOK
      <4>. QED BY <4>1, <4>2
    <3>. QED BY <1>5, <3>2, <3>3 DEF OptimizeLoopOrder
  <2>3. IsRectangularNest(function, nest)' /\ IsRectangularNest(function, nest)
      BY <1>5 DEF OptimizeLoopOrder, ExchangesOK, Analysing, IsRectangularNest, MentionedIVs
  <2>4. \A i \in 1 .. Len(nest) - 1 : i \in 1 .. Len(nest)
      BY DEF SequencesOK
  <2>5. ExchangesOK'
      BY <1>5, <2>3, <2>4 DEF OptimizeLoopOrder, ExchangesOK, SequencesOK
  <2>. QED BY <2>1, <2>2, <2>5
<1>6. CASE ApplyPolyhedralTiling
  <2>1. SequencesOK'
      BY <1>6 DEF ApplyPolyhedralTiling, SequencesOK
  <2>2. ControlOK' /\ ChangesOK'
    <3>1. /\ at = "tile" /\ at' \in {"tile", "release", "crashed"}
          /\ UNCHANGED <<ctx, deps, localChange, changed, interchanged, result>>
        BY <1>6 DEF ApplyPolyhedralTiling, isl, changes
    <3>2. tile' = tile \/ (tile = 1 /\ tile' = tile + 1)
        BY <1>6 DEF ApplyPolyhedralTiling, HasTerminator, CurrentPreheader
    <3>3. tile \in {0, 1, 2}
        BY Zenon DEF ControlOK
    <3>4. tile' \in {0, 1, 2}
        BY <3>2, <3>3
    <3>5. ControlOK'
        BY <3>1, <3>4 DEF ControlOK, Analysing, Rewriting
    <3>6. ChangesOK'
        BY <3>1 DEF ChangesOK
    <3>. QED BY <3>5, <3>6
  <2>3. ExchangesOK'
      BY <1>6 DEF ApplyPolyhedralTiling, ExchangesOK, changes, Analysing
  <2>. QED BY <2>1, <2>2, <2>3
<1>7. CASE Release
  <2>1. SequencesOK'
      BY <1>7 DEF Release, SequencesOK
  <2>2. ControlOK' /\ ChangesOK'
      BY <1>7 DEF Release, ControlOK, ChangesOK, Analysing, Rewriting
  <2>3. ExchangesOK'
      BY <1>7 DEF Release, ExchangesOK, Analysing
  <2>. QED BY <2>1, <2>2, <2>3
<1>8. CASE Return
  <2>1. SequencesOK'
      BY <1>8 DEF Return, SequencesOK
  <2>2. ControlOK' /\ ChangesOK'
      BY <1>8 DEF Return, ControlOK, ChangesOK, changes, isl, Analysing, Rewriting
  <2>3. ExchangesOK'
      BY <1>8 DEF Return, ExchangesOK, changes, Analysing
  <2>. QED BY <2>1, <2>2, <2>3
<1>9. CASE UNCHANGED vars
  BY <1>9 DEF vars, isl, changes, SequencesOK, ControlOK, ChangesOK, ExchangesOK
<1>. QED
  BY <1>1, <1>2, <1>3, <1>4, <1>5, <1>6, <1>7, <1>8, <1>9 DEF Next, Step, Stopped

\* The invariant holds in every state of every run.
THEOREM InvIsInvariant == Spec => []Inv
  BY InitInv, NextInv, PTL DEF Spec

-----------------------------------------------------------------------------
(* The order of the roots.                                                 *)

\* The roots taken and the roots to come are what CollectLoops() gave.
OrderOK ==
    LET P == CollectLoops(function)
    IN  /\ at = "start" => visited = <<>>
        /\ at # "start" => /\ Len(visited) + Len(roots) = Len(P)
                           /\ \A i \in 1 .. Len(visited) : visited[i] = P[i]
                           /\ \A i \in 1 .. Len(roots) : roots[i] = P[Len(visited) + i]
        /\ at = "returned" => roots = <<>>

LEMMA NoLoopNoRoot ==
    ASSUME NEW f \in Programs, f.top = <<>>
    PROVE  CollectLoops(f) = <<>>
<1> DEFINE below[l \in Loops(f)] ==
               FlattenSeq([i \in DOMAIN f.children[l] |-> below[f.children[l][i]]]) \o <<l>>
<1>1. CollectLoops(f) = FlattenSeq([i \in DOMAIN f.top |-> below[f.top[i]]])
    BY Zenon DEF CollectLoops
<1> HIDE DEF below
<1>2. [i \in DOMAIN f.top |-> below[f.top[i]]] = <<>>
    OBVIOUS
<1>3. FlattenSeq(<<>>) = <<>>
    BY DEF FlattenSeq
<1>. QED BY <1>1, <1>2, <1>3

LEMMA OrderInit == Init => OrderOK
<1>1. Init => at = "start" /\ visited = <<>>
    BY DEF Init
<1>. QED BY <1>1 DEF OrderOK

LEMMA OrderNext == SequencesOK /\ OrderOK /\ [Next]_vars => OrderOK'
<1>. SUFFICES ASSUME SequencesOK, OrderOK, [Next]_vars PROVE OrderOK'
    OBVIOUS
<1> DEFINE P == CollectLoops(function)
<1>1. /\ function \in Programs /\ P \in Seq(Loops(function))
      /\ roots \in Seq(Loops(function)) /\ visited \in Seq(Loops(function))
    BY CollectLoopsIsPostOrder DEF SequencesOK, PostOrder
<1>2. Len(P) \in Nat /\ Len(roots) \in Nat /\ Len(visited) \in Nat
    BY <1>1
<1>3. CASE Start
  <2>1. roots' = P /\ visited' = <<>> /\ function' = function /\ at' \in {"returned", "next"}
        /\ (at' = "returned" => function.top = <<>>)
      BY <1>3 DEF Start, OrderOK
  <2>2. at' = "returned" => roots' = <<>>
      BY <1>1, <2>1, NoLoopNoRoot
  <2> HIDE DEF P
  <2>3. /\ Len(<<>>) = 0 /\ 1 .. 0 = {} /\ 0 + Len(P) = Len(P)
        /\ \A i \in 1 .. Len(P) : 0 + i = i
      BY <1>2
  <2>4. /\ Len(visited') + Len(roots') = Len(P)
        /\ \A i \in 1 .. Len(visited') : visited'[i] = P[i]
        /\ \A i \in 1 .. Len(roots') : roots'[i] = P[Len(visited') + i]
      BY <2>1, <2>3
  <2>. QED BY <2>1, <2>2, <2>4 DEF OrderOK, P
<1>4. CASE TakeRoot
  <2>1. /\ roots # <<>> /\ at = "next" /\ at' \in {"dependences", "next"} /\ function' = function
        /\ roots' = Tail(roots) /\ visited' = Append(visited, Head(roots))
      BY <1>4 DEF TakeRoot
  <2>2. /\ Len(visited) + Len(roots) = Len(P)
        /\ \A i \in 1 .. Len(visited) : visited[i] = P[i]
        /\ \A i \in 1 .. Len(roots) : roots[i] = P[Len(visited) + i]
      BY <2>1 DEF OrderOK
  <2> HIDE DEF P
  <2>3. /\ Len(roots') = Len(roots) - 1 /\ Head(roots) = roots[1] /\ 1 \in 1 .. Len(roots)
        /\ \A i \in 1 .. Len(roots) - 1 : roots'[i] = roots[i + 1]
      BY <1>1, <2>1
  <2>4. /\ Len(visited') = Len(visited) + 1 /\ visited'[Len(visited) + 1] = Head(roots)
        /\ \A i \in 1 .. Len(visited) : visited'[i] = visited[i]
      BY <1>1, <2>1, <2>3
  <2>5. Len(visited') + Len(roots') = Len(P)
    <3>1. (Len(visited) + 1) + (Len(roots) - 1) = Len(visited) + Len(roots)
        BY <1>2
    <3>. QED BY <2>2, <2>3, <2>4, <3>1
  <2>6. ASSUME NEW i \in 1 .. Len(visited') PROVE visited'[i] = P[i]
    <3>1. CASE i \in 1 .. Len(visited)
        BY <2>2, <2>4, <3>1
    <3>2. CASE i = Len(visited) + 1
        BY <2>2, <2>3, <2>4, <3>2
    <3>. QED BY <1>2, <2>4, <3>1, <3>2
  <2>7. ASSUME NEW i \in 1 .. Len(roots') PROVE roots'[i] = P[Len(visited') + i]
    <3>1. i \in 1 .. Len(roots) - 1 /\ i + 1 \in 1 .. Len(roots)
          /\ Len(visited) + (i + 1) = (Len(visited) + 1) + i
        BY <1>2, <2>3
    <3>2. roots'[i] = roots[i + 1] /\ roots[i + 1] = P[Len(visited) + (i + 1)]
        BY <2>2, <2>3, <3>1
    <3>. QED BY <2>4, <3>1, <3>2
  <2>. QED BY <2>1, <2>5, <2>6, <2>7 DEF OrderOK, P
<1>5. CASE /\ UNCHANGED <<function, roots, visited>>
           /\ (at' = "start") <=> (at = "start")
           /\ at' = "returned" => roots = <<>>
    BY <1>5 DEF OrderOK
<1>6. CASE GetDependencies
    BY <1>5, <1>6 DEF GetDependencies
<1>7. CASE IsTilingLegal
    BY <1>5, <1>7 DEF IsTilingLegal
<1>8. CASE OptimizeLoopOrder
    BY <1>5, <1>8 DEF OptimizeLoopOrder
<1>9. CASE ApplyPolyhedralTiling
    BY <1>5, <1>9 DEF ApplyPolyhedralTiling
<1>10. CASE Release
    BY <1>5, <1>10 DEF Release
<1>11. CASE Return
    BY <1>5, <1>11 DEF Return
<1>12. CASE UNCHANGED vars
    BY <1>5, <1>12 DEF vars, OrderOK
<1>. QED
  BY <1>3, <1>4, <1>6, <1>7, <1>8, <1>9, <1>10, <1>11, <1>12 DEF Next, Step, Stopped

-----------------------------------------------------------------------------
(* The theorems.                                                           *)

\* Control, roots, nests and flags stay in their ranges.
THEOREM TypeCorrect == Spec => []TypeOK
<1>1. Inv => TypeOK
  <2>. SUFFICES ASSUME Inv PROVE TypeOK
      OBVIOUS
  <2>1. \A s \in Seq(Loops(function)) : ToSet(s) \subseteq Loops(function)
      BY DEF ToSet
  <2>2. ToSet(roots) \cup ToSet(visited) \cup ToSet(nest) \subseteq Loops(function)
      BY <2>1 DEF Inv, SequencesOK
  <2>3. tile \in {0, 1, 2}
      BY Zenon DEF Inv, ControlOK
  <2> {0, 1, 2} \subseteq 0 .. 2
      OBVIOUS
  <2>4. {ctx, deps, localChange, changed} \subseteq BOOLEAN
      BY DEF Inv, ControlOK
  <2>. QED BY <2>2, <2>3, <2>4 DEF Inv, SequencesOK, ControlOK, TypeOK
<1>. QED BY InvIsInvariant, <1>1, PTL

\* For every function, run() reports "all preserved" exactly when it has rewritten
\* no nest, however many nests come after the rewritten one.
THEOREM ResultIsAlwaysHonest == Spec => []ResultIsHonest
<1>1. Inv => ResultIsHonest
    BY DEF Inv, ChangesOK, ResultIsHonest
<1>. QED BY InvIsInvariant, <1>1, PTL

\* No isl context outlives the turn of its nest.
THEOREM IslIsAlwaysReleased == Spec => []IslIsReleased
<1>1. Inv => IslIsReleased
    BY DEF Inv, ControlOK, IslIsReleased, Analysing, Rewriting
<1>. QED BY InvIsInvariant, <1>1, PTL

\* In nests of any depth no bound is moved across the loop it depends on, as far
\* as the pass could see the dependence.
THEOREM OnlyInvariantBoundsMove == Spec => []ExchangedBoundsAreInvariant
<1>1. Inv => ExchangedBoundsAreInvariant
  <2>. SUFFICES ASSUME Inv, NEW x \in interchanged,
                       NEW i \in x.outer + 1 .. Len(x.nest),
                       function.loop[x.nest[i]].affine
                PROVE  x.nest[x.outer] \notin function.loop[x.nest[i]].mentions
      BY DEF ExchangedBoundsAreInvariant
  <2>1. /\ x.nest \in Seq(Loops(function))
        /\ x.outer \in 1 .. Len(x.nest)
        /\ IsRectangularNest(function, x.nest)
      BY DEF Inv, ExchangesOK
  <2>2. i \in 1 .. Len(x.nest) /\ x.outer \in 1 .. i - 1
      BY <2>1
  <2>. QED BY <2>1, <2>2 DEF IsRectangularNest, MentionedIVs
<1>. QED BY InvIsInvariant, <1>1, PTL

\* In forests of any shape and depth, a loop becomes a root once, after every loop
\* inside it, and run() does not return before every loop has been one.
THEOREM InnerNestsAlwaysComeFirst == Spec => []InnerNestsComeFirst
<1>1. Inv /\ OrderOK => InnerNestsComeFirst
  <2>. SUFFICES ASSUME SequencesOK, OrderOK PROVE InnerNestsComeFirst
      BY DEF Inv
  <2> DEFINE P == CollectLoops(function)
  <2>1. /\ function \in Programs /\ PostOrder(function, P) /\ ToSet(P) = Loops(function)
        /\ roots \in Seq(Loops(function)) /\ visited \in Seq(Loops(function))
      BY CollectLoopsIsPostOrder DEF SequencesOK
  <2>2. P \in Seq(Loops(function))
      BY <2>1 DEF PostOrder
  <2> HIDE DEF P
  <2>3. Len(P) \in Nat /\ Len(roots) \in Nat /\ Len(visited) \in Nat
        /\ DOMAIN visited = 1 .. Len(visited)
      BY <2>1, <2>2
  <2>4. CASE at = "start"
    <3>1. visited = <<>> /\ DOMAIN visited = {}
        BY <2>4 DEF OrderOK
    <3>. QED BY <2>4, <3>1 DEF InnerNestsComeFirst
  <2>5. CASE at # "start"
    <3>1. /\ Len(visited) + Len(roots) = Len(P)
          /\ \A i \in 1 .. Len(visited) : visited[i] = P[i]
          /\ at = "returned" => roots = <<>>
        BY <2>5 DEF OrderOK, P
    <3>2. \A i \in 1 .. Len(visited) : i \in 1 .. Len(P)
        BY <2>3, <3>1
    <3>3. \A i, j \in DOMAIN visited : visited[i] = visited[j] => i = j
        BY <2>1, <2>3, <3>1, <3>2 DEF PostOrder
    <3>4. ASSUME NEW i \in DOMAIN visited, NEW c \in ToSet(function.children[visited[i]])
          PROVE  \E j \in 1 .. i - 1 : visited[j] = c
      <4>1. i \in 1 .. Len(visited) /\ visited[i] = P[i] /\ i \in 1 .. Len(P)
          BY <2>3, <3>1, <3>2
      <4>2. PICK j \in 1 .. i - 1 : P[j] = c
          BY <2>1, <3>4, <4>1 DEF PostOrder
      <4>3. j \in 1 .. Len(visited)
          BY <2>3, <4>1, <4>2
      <4>. QED BY <3>1, <4>2, <4>3
    <3>5. ASSUME at = "returned" PROVE ToSet(visited) = Loops(function)
      <4>1. Len(visited) = Len(P)
          BY <2>3, <3>1, <3>5
      <4>2. visited = P
          BY <2>1, <2>2, <3>1, <4>1
      <4>. QED BY <2>1, <4>2
    <3>. QED BY <3>3, <3>4, <3>5 DEF InnerNestsComeFirst
  <2>. QED BY <2>4, <2>5
<1>2. Inv => SequencesOK
    BY DEF Inv
<1>. QED BY InvIsInvariant, OrderInit, OrderNext, <1>1, <1>2, PTL DEF Spec
=============================================================================
