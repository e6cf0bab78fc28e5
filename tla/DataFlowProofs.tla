--------------------------- MODULE DataFlowProofs ---------------------------
(* What the order of the dependences means for the data: every load of an     *)
(* interchanged nest reads the write it read before, and memory is the same   *)
(* in the end. An event is a pair <<x, m>>: access m of instance x.           *)
EXTENDS InterchangedNestProofs

Events(X) == X \X DOMAIN nest.accesses

AddressOf(w) == Address(nest, nest.accesses[w[2]], w[1])

WritesOf(X) == {w \in Events(X) : Stores(w[2])}

\* Event v is event w or comes before it in the nest as written.
UpTo(v, w) == LexBefore(v[1], w[1]) \/ (v[1] = w[1] /\ v[2] <= w[2])

IsLast(W, w) == w \in W /\ \A v \in W : UpTo(v, w)

-----------------------------------------------------------------------------
(* The order of events.                                                      *)

\* Lexicographic order is a strict total order.
LEMMA LexIsTotal ==
    ASSUME NEW n \in Nests, NEW x \in Box(n), NEW y \in Box(n)
    PROVE  /\ ~(LexBefore(x, y) /\ LexBefore(y, x))
           /\ ~LexBefore(x, x)
           /\ x # y => LexBefore(x, y) \/ LexBefore(y, x)
<1>1. /\ Depth(n) \in Nat
      /\ Dim(n) = 1 .. Depth(n)
      /\ x \in [Dim(n) -> Nat] /\ y \in [Dim(n) -> Nat]
    BY NestsAssumption DEF IsNest, Box
<1>2. ~LexBefore(x, x)
    BY <1>1 DEF LexBefore
<1>3. ASSUME LexBefore(x, y), LexBefore(y, x) PROVE FALSE
  <2>1. PICK k \in Dim(n) : x[k] < y[k] /\ \A j \in 1 .. k - 1 : x[j] = y[j]
      BY <1>1, <1>3 DEF LexBefore
  <2>2. PICK l \in Dim(n) : y[l] < x[l] /\ \A j \in 1 .. l - 1 : y[j] = x[j]
      BY <1>1, <1>3 DEF LexBefore
  <2>3. k \in Nat /\ l \in Nat /\ 1 <= k /\ 1 <= l
      BY <1>1
  <2>4. x[k] \in Nat /\ y[k] \in Nat /\ x[l] \in Nat /\ y[l] \in Nat
      BY <1>1
  <2>5. ~(k < l)
    <3>1. k < l => k \in 1 .. l - 1
        BY <2>3
    <3>. QED BY <2>1, <2>2, <2>4, <3>1
  <2>6. ~(l < k)
    <3>1. l < k => l \in 1 .. k - 1
        BY <2>3
    <3>. QED BY <2>1, <2>2, <2>4, <3>1
  <2>7. k = l
      BY <2>3, <2>5, <2>6
  <2>. QED BY <2>1, <2>2, <2>4, <2>7
<1>4. ASSUME x # y PROVE LexBefore(x, y) \/ LexBefore(y, x)
  <2> DEFINE T == {k \in Dim(n) : x[k] # y[k]}
  <2>1. T # {} /\ T \subseteq Nat
      BY <1>1, <1>4
  <2>2. PICK m \in T : \A k \in T : m <= k
      BY <2>1, LeastElement
  <2>3. m \in Dim(n) /\ (x[m] < y[m] \/ y[m] < x[m])
      BY <1>1, <2>2
  <2>4. \A j \in 1 .. m - 1 : x[j] = y[j]
      BY <1>1, <2>2
  <2>. QED BY <1>1, <2>3, <2>4 DEF LexBefore
<1>. QED BY <1>2, <1>3, <1>4

\* A set of writes has at most one last write.
LEMMA LastIsUnique ==
    ASSUME NEW n \in Nests, NEW W, W \subseteq Box(n) \X DOMAIN n.accesses,
           NEW w, IsLast(W, w)
    PROVE  w = CHOOSE u \in W : \A v \in W : UpTo(v, u)
<1>1. ASSUME NEW u, IsLast(W, u) PROVE u = w
  <2>1. /\ u \in W /\ w \in W
        /\ UpTo(u, w) /\ UpTo(w, u)
      BY <1>1 DEF IsLast
  <2>2. /\ u = <<u[1], u[2]>> /\ w = <<w[1], w[2]>>
        /\ u[1] \in Box(n) /\ w[1] \in Box(n)
        /\ u[2] \in Nat /\ w[2] \in Nat
      BY <2>1, NestsAssumption DEF IsNest
  <2>3. u[1] = w[1]
      BY <2>1, <2>2, LexIsTotal DEF UpTo
  <2>4. u[2] <= w[2] /\ w[2] <= u[2]
      BY <2>1, <2>2, <2>3, LexIsTotal DEF UpTo
  <2>5. u[2] = w[2]
      BY <2>2, <2>4
  <2>. QED BY <2>2, <2>3, <2>5
<1> DEFINE c == CHOOSE u \in W : \A v \in W : UpTo(v, u)
<1>2. \E u \in W : \A v \in W : UpTo(v, u)
    BY DEF IsLast
<1>3. c \in W /\ \A v \in W : UpTo(v, c)
    BY <1>2
<1>. QED BY <1>1, <1>3 DEF IsLast

\* A set of accesses that is not empty has a last one.
LEMMA GreatestAccess ==
    ASSUME NEW n \in Nests, NEW T, T \subseteq DOMAIN n.accesses, T # {}
    PROVE  \E m \in T : \A l \in T : l <= m
<1> DEFINE N == Len(n.accesses)
           S == {N - l : l \in T}
<1>1. N \in Nat /\ DOMAIN n.accesses = 1 .. N
    BY NestsAssumption DEF IsNest
<1> HIDE DEF N
<1>2. S # {} /\ S \subseteq Nat
    BY <1>1
<1>3. PICK s \in S : \A t \in S : s <= t
    BY <1>2, LeastElement
<1>4. PICK m \in T : s = N - m
    BY <1>3
<1>5. ASSUME NEW l \in T PROVE l <= m
  <2>1. N - m <= N - l
      BY <1>3, <1>4
  <2>. QED BY <1>1, <2>1
<1>. QED BY <1>5

-----------------------------------------------------------------------------
(* What memory and the loads hold while the nest runs.                       *)

\* The inductive invariant: executed instances are closed under the dependences,
\* memory holds the last executed write of every address, and every load that
\* has run has read its write.
Flow ==
    /\ Inv
    /\ Ordered
    /\ \A xy \in TrueDependences(nest) : xy[2] \in executed => xy[1] \in executed
    /\ memory = [a \in DOMAIN memory |-> memory[a]]
    /\ DOMAIN memory = {AddressOf(w) : w \in WritesOf(executed)}
    /\ \A a \in DOMAIN memory :
          IsLast({w \in WritesOf(executed) : AddressOf(w) = a}, memory[a])
    /\ DOMAIN source \subseteq Events(executed)
    /\ \A r \in DOMAIN source : source[r] = OriginalSource(r[1], r[2])

\* Everything executed is an instance of the nest.
LEMMA ExecutedAreInstances ==
    ASSUME Inv, IsSupported(nest)
    PROVE  /\ nest \in Nests
           /\ RunAlike(nest)
           /\ Instances(nest) = Box(nest)
           /\ executed \subseteq Box(nest)
    BY InstancesAreBox, SupportedLoopsRunAlike DEF Inv, TypeOK, IsSupported

\* An instance that conflicts with the one about to run has run if and only if
\* it comes before it in the nest as written.
LEMMA ConflictingHaveRun ==
    ASSUME Flow, at = "body", IsSupported(nest),
           NEW y \in Instances(nest),
           NEW m \in DOMAIN nest.accesses, NEW l \in DOMAIN nest.accesses,
           IsConflicting(nest.accesses[m], nest.accesses[l]),
           Address(nest, nest.accesses[m], y) = Address(nest, nest.accesses[l], Current)
    PROVE  y \in executed <=> LexBefore(y, Current)
<1>1. /\ nest \in Nests
      /\ Instances(nest) = Box(nest)
      /\ Current \in Instances(nest) /\ Current \notin executed
    BY ExecutedAreInstances, CurrentIsNew DEF Flow
<1>2. ASSUME LexBefore(y, Current) PROVE y \in executed
  <2>1. <<y, Current>> \in TrueDependences(nest)
      BY <1>1, <1>2 DEF TrueDependences
  <2>. QED BY <2>1, DependencesHaveRun DEF Flow
<1>3. ASSUME y \in executed PROVE LexBefore(y, Current)
  <2>1. ~LexBefore(Current, y)
    <3> SUFFICES ASSUME LexBefore(Current, y) PROVE FALSE
        OBVIOUS
    <3>1. IsConflicting(nest.accesses[l], nest.accesses[m])
        BY DEF IsConflicting
    <3>2. <<Current, y>> \in TrueDependences(nest)
        BY <1>1, <3>1 DEF TrueDependences
    <3>. QED BY <1>1, <1>3, <3>2 DEF Flow
  <2>. QED BY <1>1, <1>3, <2>1, LexIsTotal
<1>. QED BY <1>2, <1>3

\* What a load of the running instance finds is what it read in the nest as
\* written: the last of the writes before it.
LEMMA FoundIsOriginal ==
    ASSUME Flow, at = "body", IsSupported(nest),
           NEW n \in DOMAIN nest.accesses, Loads(n)
    PROVE  Found(Current, n) = OriginalSource(Current, n)
<1> DEFINE x == Current
           a == Address(nest, nest.accesses[n], x)
           W == {wm \in Instances(nest) \X DOMAIN nest.accesses :
                      /\ Stores(wm[2])
                      /\ Address(nest, nest.accesses[wm[2]], wm[1]) = a
                      /\ LexBefore(wm[1], x) \/ (wm[1] = x /\ wm[2] < n)}
           E == {m \in 1 .. n - 1 : /\ nest.accesses[m].kind = "store"
                                    /\ Address(nest, nest.accesses[m], x) = a}
<1>1. /\ nest \in Nests
      /\ Instances(nest) = Box(nest)
      /\ executed \subseteq Box(nest)
      /\ x \in Box(nest) /\ x \notin executed
      /\ Len(nest.accesses) \in Nat
      /\ DOMAIN nest.accesses = 1 .. Len(nest.accesses)
    BY ExecutedAreInstances, CurrentIsNew, NestsAssumption DEF Flow, IsSupported, IsNest
<1>2. OriginalSource(x, n) =
        IF W = {} THEN <<>>
        ELSE CHOOSE wm \in W : \A vl \in W :
               LexBefore(vl[1], wm[1]) \/ (vl[1] = wm[1] /\ vl[2] <= wm[2])
    BY DEF OriginalSource
<1>3. ASSUME NEW w, IsLast(W, w) PROVE OriginalSource(x, n) = w
  <2>1. W \subseteq Box(nest) \X DOMAIN nest.accesses
      BY <1>1
  <2>2. w = CHOOSE u \in W : \A v \in W : UpTo(v, u)
      BY <1>1, <1>3, <2>1, LastIsUnique
  <2>3. W # {}
      BY <1>3 DEF IsLast
  <2>. QED BY <1>2, <2>2, <2>3 DEF UpTo
<1>4. E \subseteq DOMAIN nest.accesses /\ n \in Nat
    BY <1>1
<1>5. ASSUME NEW w \in WritesOf(executed), AddressOf(w) = a
      PROVE  w \in W /\ LexBefore(w[1], x)
  <2>1. w \in executed \X DOMAIN nest.accesses /\ Stores(w[2])
      BY <1>5 DEF WritesOf, Events
  <2>2. w[1] \in Instances(nest) /\ w[2] \in DOMAIN nest.accesses
      BY <1>1, <2>1
  <2>3. IsConflicting(nest.accesses[w[2]], nest.accesses[n])
      BY <2>1 DEF IsConflicting, Stores
  <2>4. LexBefore(w[1], x)
      BY <1>5, <2>1, <2>2, <2>3, ConflictingHaveRun DEF AddressOf
  <2>. QED BY <1>5, <2>1, <2>2, <2>4, <1>1 DEF AddressOf
<1>6. ASSUME NEW v \in W, LexBefore(v[1], x)
      PROVE  v \in WritesOf(executed) /\ AddressOf(v) = a
  <2>1. v[1] \in Instances(nest) /\ v[2] \in DOMAIN nest.accesses /\ Stores(v[2])
      BY <1>6
  <2>2. IsConflicting(nest.accesses[v[2]], nest.accesses[n])
      BY <2>1 DEF IsConflicting, Stores
  <2>3. v[1] \in executed
      BY <1>6, <2>1, <2>2, ConflictingHaveRun
  <2>. QED BY <1>6, <2>1, <2>3 DEF WritesOf, Events, AddressOf
<1>7. CASE E # {}
  <2> DEFINE m == CHOOSE m \in E : \A l \in E : l <= m
  <2>1. \E i \in E : \A l \in E : l <= i
      BY <1>1, <1>4, <1>7, GreatestAccess
  <2>2. m \in E /\ \A l \in E : l <= m
      BY <2>1
  <2>3. Found(x, n) = <<x, m>>
      BY <1>7 DEF Found
  <2> HIDE DEF m
  <2>4. <<x, m>> \in W
      BY <1>1, <1>4, <2>2 DEF Stores
  <2>5. ASSUME NEW v \in W PROVE UpTo(v, <<x, m>>)
    <3>1. CASE LexBefore(v[1], x)
        BY <3>1 DEF UpTo
    <3>2. CASE v[1] = x /\ v[2] < n
      <4>1. v[2] \in E
          BY <1>1, <1>4, <3>2 DEF Stores
      <4>. QED BY <2>2, <3>2, <4>1 DEF UpTo
    <3>. QED BY <3>1, <3>2
  <2>. QED BY <1>3, <2>3, <2>4, <2>5 DEF IsLast
<1>8. CASE E = {}
  <2>1. \A v \in W : LexBefore(v[1], x)
    <3>1. ASSUME NEW v \in W, v[1] = x, v[2] < n PROVE FALSE
      <4>1. v[2] \in E
          BY <1>1, <1>4, <3>1 DEF Stores
      <4>. QED BY <1>8, <4>1
    <3>. QED BY <3>1
  <2>2. CASE a \in DOMAIN memory
    <3>1. Found(x, n) = memory[a]
        BY <1>8, <2>2 DEF Found
    <3>2. IsLast({w \in WritesOf(executed) : AddressOf(w) = a}, memory[a])
        BY <2>2 DEF Flow
    <3>3. memory[a] \in W
        BY <1>5, <3>2 DEF IsLast
    <3>4. \A v \in W : UpTo(v, memory[a])
        BY <1>6, <2>1, <3>2 DEF IsLast
    <3>. QED BY <1>3, <3>1, <3>3, <3>4 DEF IsLast
  <2>3. CASE a \notin DOMAIN memory
    <3>1. Found(x, n) = <<>>
        BY <1>8, <2>3 DEF Found
    <3>2. W = {}
        BY <1>6, <2>1, <2>3 DEF Flow
    <3>. QED BY <1>2, <3>1, <3>2
  <2>. QED BY <2>2, <2>3
<1>. QED BY <1>7, <1>8

\* Running the body keeps memory up to date: its writes are the last ones of
\* their addresses.
LEMMA BodyWritesLast ==
    ASSUME Flow, Body, IsSupported(nest)
    PROVE  /\ memory' = [a \in DOMAIN memory' |-> memory'[a]]
           /\ DOMAIN memory' = {AddressOf(w) : w \in WritesOf(executed')}
           /\ \A a \in DOMAIN memory' :
                 IsLast({w \in WritesOf(executed') : AddressOf(w) = a}, memory'[a])
<1> DEFINE x == Current
           S == {m \in DOMAIN nest.accesses : Stores(m)}
           address(m) == Address(nest, nest.accesses[m], x)
           written == {address(m) : m \in S}
           L(a) == {m \in S : address(m) = a}
           last(a) == CHOOSE m \in DOMAIN nest.accesses :
                         /\ Stores(m) /\ address(m) = a
                         /\ \A l \in DOMAIN nest.accesses : Stores(l) /\ address(l) = a => l <= m
<1>1. /\ at = "body"
      /\ nest \in Nests
      /\ Instances(nest) = Box(nest)
      /\ executed \subseteq Box(nest)
      /\ x \in Box(nest) /\ x \notin executed
    BY ExecutedAreInstances, CurrentIsNew DEF Flow, Body
<1>2. /\ executed' = executed \cup {x}
      /\ memory' = [a \in written \cup DOMAIN memory |->
                      IF a \in written THEN <<x, last(a)>> ELSE memory[a]]
    BY DEF Body
<1>3. WritesOf(executed') = WritesOf(executed) \cup {<<x, m>> : m \in S}
    BY <1>2 DEF WritesOf, Events
<1>4. \A m \in S : AddressOf(<<x, m>>) = address(m)
    BY DEF AddressOf
<1>5. DOMAIN memory' = {AddressOf(w) : w \in WritesOf(executed')}
  <2>1. DOMAIN memory' = written \cup DOMAIN memory
      BY <1>2
  <2>2. DOMAIN memory = {AddressOf(w) : w \in WritesOf(executed)}
      BY DEF Flow
  <2>. QED BY <1>3, <1>4, <2>1, <2>2, ZenonT(60)
<1>6. ASSUME NEW a \in written
      PROVE  /\ last(a) \in L(a)
             /\ \A m \in L(a) : m <= last(a)
  <2>1. L(a) # {} /\ L(a) \subseteq DOMAIN nest.accesses
      BY <1>6
  <2>2. PICK m \in L(a) : \A l \in L(a) : l <= m
      BY <1>1, <2>1, GreatestAccess
  <2>3. \E k \in DOMAIN nest.accesses :
           /\ Stores(k) /\ address(k) = a
           /\ \A l \in DOMAIN nest.accesses : Stores(l) /\ address(l) = a => l <= k
      BY <2>2
  <2>4. /\ last(a) \in DOMAIN nest.accesses
        /\ Stores(last(a)) /\ address(last(a)) = a
        /\ \A l \in DOMAIN nest.accesses : Stores(l) /\ address(l) = a => l <= last(a)
      BY <2>3
  <2>. QED BY <2>4
<1>7. ASSUME NEW a \in written
      PROVE  IsLast({w \in WritesOf(executed') : AddressOf(w) = a}, memory'[a])
  <2>1. memory'[a] = <<x, last(a)>>
      BY <1>2, <1>7
  <2>2. last(a) \in S /\ address(last(a)) = a
      BY <1>6, <1>7
  <2>3. <<x, last(a)>> \in {w \in WritesOf(executed') : AddressOf(w) = a}
      BY <1>3, <1>4, <2>2
  <2>4. ASSUME NEW v \in WritesOf(executed'), AddressOf(v) = a
        PROVE  UpTo(v, <<x, last(a)>>)
    <3>1. CASE v \in WritesOf(executed)
      <4>1. v[1] \in Instances(nest) /\ v[1] \in executed
            /\ v[2] \in DOMAIN nest.accesses /\ Stores(v[2])
          BY <1>1, <3>1 DEF WritesOf, Events
      <4>2. IsConflicting(nest.accesses[v[2]], nest.accesses[last(a)])
          BY <4>1 DEF IsConflicting, Stores
      <4>3. Address(nest, nest.accesses[v[2]], v[1]) = Address(nest, nest.accesses[last(a)], Current)
          BY <2>2, <2>4 DEF AddressOf
      <4>4. last(a) \in DOMAIN nest.accesses
          BY <2>2
      <4>5. LexBefore(v[1], x)
          BY <1>1, <4>1, <4>2, <4>3, <4>4, ConflictingHaveRun
      <4>. QED BY <4>5 DEF UpTo
    <3>2. CASE v \notin WritesOf(executed)
      <4>1. PICK m \in S : v = <<x, m>>
          BY <1>3, <3>2
      <4>2. m \in L(a)
          BY <1>4, <2>4, <4>1
      <4>3. m <= last(a)
          BY <1>6, <1>7, <4>2
      <4>. QED BY <4>1, <4>3 DEF UpTo
    <3>. QED BY <3>1, <3>2
  <2>. QED BY <2>1, <2>3, <2>4 DEF IsLast
<1>8. ASSUME NEW a \in DOMAIN memory', a \notin written
      PROVE  IsLast({w \in WritesOf(executed') : AddressOf(w) = a}, memory'[a])
  <2>1. a \in DOMAIN memory /\ memory'[a] = memory[a]
      BY <1>2, <1>8
  <2>2. {w \in WritesOf(executed') : AddressOf(w) = a} = {w \in WritesOf(executed) : AddressOf(w) = a}
      BY <1>3, <1>4, <1>8
  <2>. QED BY <2>1, <2>2 DEF Flow
<1>9. memory' = [a \in DOMAIN memory' |-> memory'[a]]
    BY <1>2
<1>. QED BY <1>5, <1>7, <1>8, <1>9

\* Initially nothing has run, and every step of the pass and of the nest keeps
\* the invariant.
LEMMA FlowInit == Init => Flow
<1> SUFFICES ASSUME Init PROVE Flow
    OBVIOUS
<1>1. Inv
    BY InitInv
<1>2. Ordered
    BY OrderedInit
<1>3. /\ executed = {} /\ DOMAIN memory = {} /\ DOMAIN source = {}
      /\ memory = [a \in DOMAIN memory |-> memory[a]]
    BY DEF Init, NoWrites
<1>4. WritesOf(executed) = {}
    BY <1>3 DEF WritesOf, Events
<1>. QED BY <1>1, <1>2, <1>3, <1>4 DEF Flow

LEMMA FlowStep ==
    ASSUME Flow, Inv', Ordered', IsSupported(nest), Body \/ UNCHANGED <<nest, data>>
    PROVE  Flow'
<1>1. CASE Body
  <2>1. at = "body" /\ nest' = nest /\ executed' = executed \cup {Current}
      BY <1>1 DEF Body
  <2>2. /\ memory' = [a \in DOMAIN memory' |-> memory'[a]]
        /\ DOMAIN memory' = {AddressOf(w) : w \in WritesOf(executed')}
        /\ \A a \in DOMAIN memory' :
              IsLast({w \in WritesOf(executed') : AddressOf(w) = a}, memory'[a])
      BY <1>1, BodyWritesLast
  <2>3. ASSUME NEW xy \in TrueDependences(nest), xy[2] \in executed' PROVE xy[1] \in executed'
    <3>1. CASE xy[2] \in executed
        BY <2>1, <2>3, <3>1 DEF Flow
    <3>2. CASE xy[2] = Current
      <4>1. xy = <<xy[1], Current>>
          BY <2>3, <3>2 DEF TrueDependences
      <4>2. xy[1] \in executed
          BY <2>1, <2>3, <4>1, DependencesHaveRun DEF Flow
      <4>. QED BY <2>1, <4>2
    <3>. QED BY <2>1, <2>3, <3>1, <3>2
  <2> DEFINE read == {<<Current, n>> : n \in {m \in DOMAIN nest.accesses : Loads(m)}}
  <2>4. source' = [r \in read \cup DOMAIN source |->
                     IF r \in read THEN Found(Current, r[2]) ELSE source[r]]
      BY <1>1 DEF Body
  <2>5. DOMAIN source' \subseteq Events(executed')
      BY <2>1, <2>4 DEF Flow, Events
  <2>6. ASSUME NEW r \in DOMAIN source' PROVE source'[r] = OriginalSource(r[1], r[2])
    <3>1. CASE r \in read
      <4>1. PICK n \in DOMAIN nest.accesses : Loads(n) /\ r = <<Current, n>>
          BY <3>1
      <4>2. source'[r] = Found(Current, n)
          BY <2>4, <2>6, <3>1, <4>1
      <4>. QED BY <2>1, <4>1, <4>2, FoundIsOriginal
    <3>2. CASE r \notin read
        BY <2>4, <2>6, <3>2 DEF Flow
    <3>. QED BY <3>1, <3>2
  <2>7. \A r \in DOMAIN source' : source'[r] = OriginalSource(r[1], r[2])'
      BY <2>1, <2>6 DEF OriginalSource, Stores
  <2>8. WritesOf(executed)' = WritesOf(executed') /\ Events(executed)' = Events(executed')
        /\ \A w : AddressOf(w)' = AddressOf(w)
      BY <2>1 DEF WritesOf, Events, AddressOf, Stores
  <2> HIDE DEF read
  <2>9. \A a \in DOMAIN memory' :
           IsLast({w \in WritesOf(executed) : AddressOf(w) = a}, memory[a])'
      BY <2>2, <2>8 DEF IsLast, UpTo
  <2>10. (DOMAIN memory = {AddressOf(w) : w \in WritesOf(executed)})'
      BY <2>2, <2>8
  <2>11. (\A xy \in TrueDependences(nest) : xy[2] \in executed => xy[1] \in executed)'
      BY <2>1, <2>3
  <2>. QED BY <2>2, <2>5, <2>7, <2>8, <2>9, <2>10, <2>11 DEF Flow
<1>2. CASE UNCHANGED <<nest, data>>
  <2>1. nest' = nest /\ executed' = executed /\ memory' = memory /\ source' = source
      BY <1>2 DEF data
  <2>2. /\ WritesOf(executed)' = WritesOf(executed) /\ Events(executed)' = Events(executed)
        /\ \A w : AddressOf(w)' = AddressOf(w)
      BY <2>1 DEF WritesOf, Events, AddressOf, Stores
  <2>3. \A x, n : OriginalSource(x, n)' = OriginalSource(x, n)
      BY <2>1 DEF OriginalSource, Stores
  <2>4. \A a \in DOMAIN memory' :
           IsLast({w \in WritesOf(executed) : AddressOf(w) = a}, memory[a])'
      BY <2>1, <2>2 DEF Flow, IsLast, UpTo
  <2>5. (DOMAIN memory = {AddressOf(w) : w \in WritesOf(executed)})'
      BY <2>1, <2>2 DEF Flow
  <2>. QED BY <2>1, <2>2, <2>3, <2>4, <2>5 DEF Flow
<1>. QED BY <1>1, <1>2

\* So it holds in every state of every run of a supported nest.
LEMMA FlowIsInvariant == Spec => [](IsSupported(nest) => Flow)
<1>1. IsSupported(nest) /\ Flow /\ SupportedInv' /\ [Next]_vars => Flow'
  <2>1. [Next]_vars => Body \/ UNCHANGED <<nest, data>>
      BY DEF Next, Transform, Header, Latch, Exited, vars
  <2>. QED BY <2>1, FlowStep DEF SupportedInv
<1>2. ~IsSupported(nest) /\ [Next]_vars => ~IsSupported(nest)'
  <2> SUFFICES ASSUME [Next]_vars, IsSupported(nest)' PROVE IsSupported(nest)
      OBVIOUS
  <2>1. nest' = nest
      BY DEF Next, Transform, Header, Body, Latch, Exited, vars
  <2>. QED BY <2>1 DEF IsSupported, LoopsAreSupported, AccessesAreSupported, Dim
<1>. QED BY FlowInit, <1>1, <1>2, SupportedInvIsInvariant, PTL DEF Spec

-----------------------------------------------------------------------------
(* The theorems.                                                             *)

\* What the invariant says of memory when the nest is left.
LEMMA FlowEndsInMemory ==
    ASSUME IsSupported(nest), Flow, at = "exit"
    PROVE  memory = OriginalMemory
<1>1. /\ nest \in Nests
      /\ Instances(nest) = Box(nest)
      /\ executed = Instances(nest)
    BY ExecutedAreInstances DEF Flow, Inv, Reached, IsSupported
<1> DEFINE writes == {wm \in Instances(nest) \X DOMAIN nest.accesses : Stores(wm[2])}
           of(a) == {w \in writes : AddressOf(w) = a}
<1>2. writes = WritesOf(executed)
    BY <1>1 DEF WritesOf, Events
<1> DEFINE addresses == {AddressOf(wm) : wm \in writes}
           final(a) == CHOOSE wm \in writes :
                          /\ AddressOf(wm) = a
                          /\ \A vl \in writes : AddressOf(vl) = a => UpTo(vl, wm)
<1>3. OriginalMemory = [a \in addresses |-> final(a)]
    BY DEF OriginalMemory, AddressOf, UpTo
<1>4. /\ DOMAIN memory = addresses
      /\ memory = [a \in DOMAIN memory |-> memory[a]]
    BY <1>2 DEF Flow
<1>5. ASSUME NEW a \in DOMAIN memory
      PROVE  memory[a] = final(a)
  <2>1. IsLast(of(a), memory[a])
      BY <1>2 DEF Flow
  <2>2. of(a) \subseteq Box(nest) \X DOMAIN nest.accesses
      BY <1>1
  <2>3. \A u : IsLast(of(a), u) => u = memory[a]
      BY <1>1, <2>1, <2>2, LastIsUnique
  <2>4. \A u : IsLast(of(a), u) <=> /\ u \in writes
                                    /\ AddressOf(u) = a
                                    /\ \A vl \in writes : AddressOf(vl) = a => UpTo(vl, u)
      BY DEF IsLast
  <2>. QED BY <2>1, <2>3, <2>4
<1>. HIDE DEF addresses, final
<1>. QED BY <1>3, <1>4, <1>5

\* Whatever loop of a supported nest the pass has interchanged, every load reads
\* the write it read in the nest as written.
THEOREM LoadsKeepTheirSource == Spec => []LoadsReadTheirSource
<1>1. (IsSupported(nest) => Flow) => LoadsReadTheirSource
    BY DEF Flow, LoadsReadTheirSource
<1>. QED BY FlowIsInvariant, <1>1, PTL

\* When an interchanged, supported nest is left, every address holds what the nest
\* as written leaves there.
THEOREM MemoryIsKept == Spec => []MemoryIsPreserved
<1>1. (IsSupported(nest) => Flow) => MemoryIsPreserved
    BY FlowEndsInMemory DEF MemoryIsPreserved
<1>. QED BY FlowIsInvariant, <1>1, PTL
=============================================================================
