----------------------- MODULE InterchangedNestProofs -----------------------
(* Theorems about InterchangedNest for every set of nests.                   *)
EXTENDS InterchangedNest, LeastElements, TLAPS

-----------------------------------------------------------------------------
(* Type correctness.                                                         *)

\* A loop optimizeLoopOrder() chooses is a loop of the nest.
LEMMA BestLoopsAreLoops ==
    ASSUME NEW n \in Nests
    PROVE  BestLoops(n) \subseteq Dim(n)
<1>1. 1 \in Dim(n)
    BY NestsAssumption DEF IsNest
<1>2. ASSUME NEW s, s \in IVs(n) PROVE IndexOf(n, s) \in Dim(n)
    BY <1>2 DEF IVs, IndexOf
<1>. QED BY <1>1, <1>2 DEF BestLoops, BestIndex

IRType(n) ==
    [start : [Dim(n) -> {0}], bound : [Dim(n) -> Nat],
     payload : [Dim(n) -> Dim(n)], control : [Dim(n) -> Dim(n)]]

\* applyLoopInterchange() keeps the shape of the IR.
LEMMA InterchangeTyped ==
    ASSUME NEW n \in Nests, NEW r \in IRType(n), NEW k \in Dim(n), NEW l \in Dim(n)
    PROVE  ApplyLoopInterchange(n, r, k, l) \in IRType(n)
BY DEF ApplyLoopInterchange, IRType, Swapped

\* The type invariant holds initially ...
LEMMA TypeInit == Init => TypeOK
BY NestsAssumption DEF Init, TypeOK, OriginalIR, IsNest

\* ... and every step keeps it.
LEMMA TypeStep ==
    ASSUME TypeOK, [Next]_vars
    PROVE  TypeOK'
<1>0. /\ nest \in Nests
      /\ Depth(nest) \in Nat \ {0}
      /\ Dim(nest) = 1 .. Depth(nest)
    BY NestsAssumption DEF TypeOK, IsNest
<1>1. CASE Transform
  <2>1. ir' \in IRType(nest)
    <3>1. Depth(nest) \in Dim(nest)
        BY <1>0
    <3>2. ir \in IRType(nest)
        BY DEF TypeOK, IRType
    <3>3. ASSUME NEW k \in BestLoops(nest)
          PROVE  ApplyLoopInterchange(nest, ir, k, Depth(nest)) \in IRType(nest)
        BY <1>0, <3>1, <3>2, BestLoopsAreLoops, InterchangeTyped
    <3>. QED BY <1>1, <3>2, <3>3 DEF Transform, Rewrites
  <2>2. iv' \in [Dim(nest) -> Nat]
      BY <1>1, <2>1 DEF Transform, IRType
  <2>. QED BY <1>1, <2>1, <2>2 DEF Transform, TypeOK, IRType, data
<1>2. CASE Header
  <2>1. UNCHANGED <<nest, ir, executed>>
      BY <1>2 DEF Header, data
  <2>2. /\ at' \in {"header", "body", "latch", "exit"}
        /\ level' \in Dim(nest)
        /\ iv' \in [Dim(nest) -> Nat]
    <3>1. CASE Leave
        BY <1>0, <3>1 DEF Leave, TypeOK
    <3>2. CASE Enter
        BY <1>0, <3>2 DEF Enter, TypeOK
    <3>. QED BY <1>2, <3>1, <3>2 DEF Header
  <2>. QED BY <2>1, <2>2 DEF TypeOK
<1>3. CASE Body
  <2>1. Current \in [Dim(nest) -> Nat]
      BY DEF Current, TypeOK
  <2>. QED BY <1>3, <2>1 DEF Body, TypeOK
<1>4. CASE Latch
  <2>1. UNCHANGED <<nest, ir, executed>>
      BY <1>4 DEF Latch, data
  <2>2. /\ at' \in {"header", "body", "latch", "exit"}
        /\ level' \in Dim(nest)
        /\ iv' \in [Dim(nest) -> Nat]
    <3>1. CASE Leave
        BY <1>0, <3>1 DEF Leave, TypeOK
    <3>2. CASE /\ at' = "header"
               /\ iv' = [iv EXCEPT ![level] = iv[ir.control[level]] + 1]
               /\ UNCHANGED level
        BY <1>0, <3>2 DEF TypeOK
    <3>. QED BY <1>4, <3>1, <3>2 DEF Latch
  <2>. QED BY <2>1, <2>2 DEF TypeOK
<1>5. CASE UNCHANGED vars
    BY <1>5 DEF vars, control, data, TypeOK
<1>. QED BY <1>1, <1>2, <1>3, <1>4, <1>5 DEF Next, Exited

\* Control, PHIs and IR stay in their ranges on every run of every set of nests.
THEOREM TypeCorrect == Spec => []TypeOK
<1>1. TypeOK /\ [Next]_vars => TypeOK'
    BY TypeStep
<1>. QED BY TypeInit, <1>1, PTL DEF Spec

-----------------------------------------------------------------------------
(* The instances of a nest.                                                  *)

\* How many iterations a loop makes beyond its bound: one for "<=", and one for a
\* test in the latch, which lets the value of the bound pass once.
Extra(n, k) ==
    (IF n.loops[k].predicate = "sle" THEN 1 ELSE 0) + (IF n.loops[k].test = "latch" THEN 1 ELSE 0)

Extent(n, k) == RuntimeBound(n, k) + Extra(n, k)

\* Loops that may exchange their bounds: supported ones, and those of one test.
RunAlike(n) == \A k, l \in Dim(n) : Extra(n, k) = Extra(n, l)

\* A box of iterations.
Box(n) == {x \in [Dim(n) -> Nat] : \A k \in Dim(n) : x[k] < Extent(n, k)}

LEMMA ExtentsTyped ==
    ASSUME NEW n \in Nests, NEW k \in Dim(n)
    PROVE  /\ RuntimeBound(n, k) \in Nat /\ Extra(n, k) \in 0 .. 2 /\ Extent(n, k) \in Nat
           /\ n.loops[k].predicate \in {"slt", "sle", "ne"}
           /\ n.loops[k].test \in {"header", "latch"}
BY NestsAssumption DEF IsNest, Extra, Extent

LEMMA SupportedLoopsRunAlike ==
    ASSUME NEW n \in Nests, LoopsAreSupported(n)
    PROVE  RunAlike(n) /\ \A k \in Dim(n) : Extent(n, k) = RuntimeBound(n, k)
<1>1. \A k \in Dim(n) : Extra(n, k) = 0
    BY DEF LoopsAreSupported, Extra
<1>. QED BY <1>1, ExtentsTyped DEF RunAlike, Extent

LEMMA AlikeLoopsRunAlike ==
    ASSUME NEW n \in Nests,
           \A k \in Dim(n) : /\ n.loops[k].predicate = n.loops[1].predicate
                             /\ n.loops[k].test = n.loops[1].test
    PROVE  RunAlike(n)
BY DEF RunAlike, Extra

\* A nest has the iterations of a box.
LEMMA InstancesAreBox ==
    ASSUME NEW n \in Nests
    PROVE  Instances(n) = Box(n)
<1>1. ASSUME NEW k \in Dim(n)
      PROVE  IVValues(n, k) = 0 .. Extent(n, k) - 1
  <2> DEFINE b == RuntimeBound(n, k)
             p == n.loops[k].predicate
             t == n.loops[k].test
  <2>1. b \in Nat /\ p \in {"slt", "sle", "ne"} /\ t \in {"header", "latch"}
      BY ExtentsTyped
  <2>2. IVValues(n, k) = {v \in 0 .. b + 1 : \A u \in 0 .. v : GoesOn(p, u, b) \/ (t = "latch" /\ u = v)}
      BY DEF IVValues
  <2>3. Extent(n, k) = b + (IF p = "sle" THEN 1 ELSE 0) + (IF t = "latch" THEN 1 ELSE 0)
      BY <2>1 DEF Extent, Extra
  <2> HIDE DEF b, p, t
  <2>4. \A u \in Nat : /\ GoesOn("slt", u, b) <=> u < b
                       /\ GoesOn("sle", u, b) <=> u <= b
                       /\ GoesOn("ne", u, b) <=> u # b
      BY DEF GoesOn
  <2>5. ASSUME NEW v \in 0 .. b + 1
        PROVE  (\A u \in 0 .. v : GoesOn(p, u, b) \/ (t = "latch" /\ u = v)) <=> v < Extent(n, k)
    <3>1. CASE p = "slt"
        BY <2>1, <2>3, <2>4, <3>1
    <3>2. CASE p = "sle"
        BY <2>1, <2>3, <2>4, <3>2
    <3>3. CASE p = "ne"
      <4>1. \A u \in 0 .. v : GoesOn(p, u, b) <=> u # b
          BY <2>4, <3>3
      <4>2. (\A u \in 0 .. v : u # b \/ (t = "latch" /\ u = v)) <=> v < Extent(n, k)
          BY <2>1, <2>3, <3>3
      <4>. QED BY <4>1, <4>2
    <3>. QED BY <2>1, <3>1, <3>2, <3>3
  <2>6. Extent(n, k) \in Nat /\ Extent(n, k) <= b + 2
      BY <2>1, <2>3
  <2>. QED BY <2>1, <2>2, <2>5, <2>6
<1>3. ASSUME NEW x \in Instances(n) PROVE x \in Box(n)
  <2>1. /\ x = [k \in Dim(n) |-> x[k]]
        /\ \A k \in Dim(n) : x[k] \in IVValues(n, k)
      BY DEF Instances
  <2>2. \A k \in Dim(n) : x[k] \in Nat /\ x[k] < Extent(n, k)
      BY <1>1, <2>1, ExtentsTyped
  <2>. QED BY <2>1, <2>2 DEF Box
<1>4. ASSUME NEW x \in Box(n) PROVE x \in Instances(n)
  <2>1. \A k \in Dim(n) : x[k] \in IVValues(n, k)
      BY <1>1, <1>4, ExtentsTyped DEF Box
  <2>2. x \in [Dim(n) -> UNION {IVValues(n, k) : k \in Dim(n)}]
      BY <2>1, <1>4 DEF Box
  <2>. QED BY <2>1, <2>2 DEF Instances
<1>. QED BY <1>3, <1>4

-----------------------------------------------------------------------------
(* Without "==" nothing is rewritten.                                        *)

\* Whatever the nests: linked with an isl that has no "==" (as the isl of this
\* repository), getDependencies() returns NULL and the IR stays as it is.
THEOREM NothingIsEverRewritten == Spec => []NothingIsRewritten
<1>1. Init => NothingIsRewritten
    BY DEF Init, NothingIsRewritten
<1>2. NothingIsRewritten /\ [Next]_vars => NothingIsRewritten'
  <2>1. Transform /\ NothingIsRewritten => NothingIsRewritten'
    <3>1. "==" \notin nest.comparators => ~IsTilingLegal(nest)
        BY DEF IsTilingLegal, HasDependencies, BeforeIsRead
    <3>. QED BY <3>1 DEF Transform, Rewrites, NothingIsRewritten
  <2>2. (Header \/ Body \/ Latch \/ Exited \/ UNCHANGED vars) /\ NothingIsRewritten
            => NothingIsRewritten'
      BY DEF Header, Body, Latch, Exited, vars, NothingIsRewritten
  <2>. QED BY <2>1, <2>2 DEF Next
<1>. QED BY <1>1, <1>2, PTL DEF Spec

-----------------------------------------------------------------------------
(* The dependence analysis is sound on supported nests.                      *)

\* A bound that isl reads and isRectangularNest accepted is a constant, the one
\* the compare tests.
LEMMA UpperIsBound ==
    ASSUME NEW n \in Nests, IsSupported(n), DomainIsRead(n), NEW k \in Dim(n)
    PROVE  Upper(n, k).const = RuntimeBound(n, k)
<1> DEFINE e == n.loops[k].bound
<1>1. e.op = "affine" /\ DOMAIN e.terms \cap IVs(n) = {}
    BY NestsAssumption DEF IsSupported, LoopsAreSupported, IsNest
<1>2. Upper(n, k) = [const |-> e.const, terms |-> e.terms]
    BY <1>1 DEF Upper, CreateExprFromSCEV
<1>3. DOMAIN e.terms \subseteq IVs(n)
    BY <1>2 DEF DomainIsRead, MentionsOnlyIVs
<1>4. DOMAIN e.terms = {}
    BY <1>1, <1>3
<1>. QED BY <1>1, <1>2, <1>4 DEF RuntimeBound, Value, Linear, SumOfTerms

\* The isl domain holds every instance of a supported nest.
LEMMA InstancesInDomain ==
    ASSUME NEW n \in Nests, IsSupported(n), DomainIsRead(n)
    PROVE  Instances(n) \subseteq Domain(n)
<1>1. Instances(n) = Box(n)
    BY InstancesAreBox
<1>2. \A k \in Dim(n) : Upper(n, k).const = Extent(n, k) /\ Extent(n, k) \in Nat
    BY UpperIsBound, SupportedLoopsRunAlike, ExtentsTyped DEF IsSupported
<1>3. ASSUME NEW x \in Box(n) PROVE x \in Domain(n)
  <2>1. \A k \in Dim(n) : x[k] \in 0 .. Upper(n, k).const - 1 /\ x[k] < Upper(n, k).const
      BY <1>2 DEF Box
  <2>2. x \in [Dim(n) -> UNION {0 .. Upper(n, k).const - 1 : k \in Dim(n)}]
      BY <2>1 DEF Box
  <2>. QED BY <2>1, <2>2 DEF Domain
<1>. QED BY <1>1, <1>3

\* Access a of instance x and access b of instance y have the same indices.
SameIndices(n, a, x, b, y) ==
    /\ a.base = b.base /\ DOMAIN a.subscripts = DOMAIN b.subscripts
    /\ a.subscripts = <<>> <=> b.subscripts = <<>>
    /\ \A d \in DOMAIN a.subscripts :
          /\ a.subscripts[d].op = "affine" /\ b.subscripts[d].op = "affine"
          /\ Value(n, a.subscripts[d], x) = Value(n, b.subscripts[d], y)

\* Two supported accesses that meet at run time have the same indices.
LEMMA SameAddressSameIndices ==
    ASSUME NEW n \in Nests, IsSupported(n), NEW x, NEW y,
           NEW k \in DOMAIN n.accesses, NEW l \in DOMAIN n.accesses,
           Address(n, n.accesses[k], x) = Address(n, n.accesses[l], y)
    PROVE  SameIndices(n, n.accesses[k], x, n.accesses[l], y)
<1> DEFINE a == n.accesses[k]
           b == n.accesses[l]
<1>1. /\ Len(a.subscripts) \in 0 .. Rank /\ DOMAIN a.subscripts = 1 .. Len(a.subscripts)
      /\ Len(b.subscripts) \in 0 .. Rank /\ DOMAIN b.subscripts = 1 .. Len(b.subscripts)
    BY NestsAssumption DEF IsNest
<1>2. /\ \A d \in DOMAIN a.subscripts : a.subscripts[d].op = "affine"
      /\ \A d \in DOMAIN b.subscripts : b.subscripts[d].op = "affine"
      /\ n.object[a.base] = n.object[b.base] => a.base = b.base
      /\ a.base = b.base => Len(a.subscripts) = Len(b.subscripts)
    BY DEF IsSupported, AccessesAreSupported
<1>3. /\ n.object[a.base] = n.object[b.base]
      /\ \A d \in 1 .. Rank :
            (IF d \in DOMAIN a.subscripts THEN Value(n, a.subscripts[d], x) ELSE 0) =
            (IF d \in DOMAIN b.subscripts THEN Value(n, b.subscripts[d], y) ELSE 0)
  <2> DEFINE f == [d \in 1 .. Rank |->
                     IF d \in DOMAIN a.subscripts THEN Value(n, a.subscripts[d], x) ELSE 0]
             g == [d \in 1 .. Rank |->
                     IF d \in DOMAIN b.subscripts THEN Value(n, b.subscripts[d], y) ELSE 0]
  <2>1. <<n.object[a.base], f>> = <<n.object[b.base], g>>
      BY DEF Address
  <2>2. n.object[a.base] = n.object[b.base] /\ f = g
      BY <2>1
  <2>3. \A d \in 1 .. Rank : f[d] = g[d]
      BY <2>2
  <2>. QED BY <2>2, <2>3
<1> HIDE DEF a, b
<1>4. a.base = b.base /\ DOMAIN a.subscripts = DOMAIN b.subscripts
    BY <1>1, <1>2, <1>3
<1>5. \A d \in DOMAIN a.subscripts : Value(n, a.subscripts[d], x) = Value(n, b.subscripts[d], y)
    BY <1>1, <1>3, <1>4 DEF Rank
<1>6. (a.subscripts = <<>>) <=> (b.subscripts = <<>>)
    BY <1>1, <1>4
<1>. QED BY <1>2, <1>4, <1>5, <1>6 DEF SameIndices, a, b

\* So isl may map them to one element.
LEMMA SameAddressSameElement ==
    ASSUME NEW n \in Nests, IsSupported(n), NEW x, NEW y,
           NEW k \in DOMAIN n.accesses, NEW l \in DOMAIN n.accesses,
           Address(n, n.accesses[k], x) = Address(n, n.accesses[l], y)
    PROVE  SameElement(n, n.accesses[k], x, n.accesses[l], y)
<1> DEFINE a == n.accesses[k]
           b == n.accesses[l]
<1>1. /\ a.base = b.base /\ DOMAIN a.subscripts = DOMAIN b.subscripts
      /\ a.subscripts = <<>> <=> b.subscripts = <<>>
      /\ \A d \in DOMAIN a.subscripts :
            /\ a.subscripts[d].op = "affine" /\ b.subscripts[d].op = "affine"
            /\ Value(n, a.subscripts[d], x) = Value(n, b.subscripts[d], y)
  <2>1. SameIndices(n, n.accesses[k], x, n.accesses[l], y)
      BY SameAddressSameIndices
  <2>. QED BY <2>1 DEF SameIndices
<1> HIDE DEF a, b
<1>2. ASSUME NEW e, e.op = "affine", NEW z
      PROVE  Linear(n, CreateExprFromSCEV(e), z) = Value(n, e, z)
    BY <1>2 DEF Linear, Value, CreateExprFromSCEV
<1>3. CASE a.subscripts = <<>>
  <2>1. Subscripts(a) = <<Zero>> /\ Subscripts(b) = <<Zero>>
      BY <1>1, <1>3 DEF Subscripts
  <2>2. Linear(n, Zero, x) = 0 /\ Linear(n, Zero, y) = 0
      BY DEF Linear, SumOfTerms, Zero
  <2>. QED BY <1>1, <2>1, <2>2 DEF SameElement, a, b
<1>4. CASE a.subscripts # <<>>
  <2>1. /\ Subscripts(a) = [d \in DOMAIN a.subscripts |-> CreateExprFromSCEV(a.subscripts[d])]
        /\ Subscripts(b) = [d \in DOMAIN b.subscripts |-> CreateExprFromSCEV(b.subscripts[d])]
      BY <1>1, <1>4 DEF Subscripts
  <2>2. \A d \in DOMAIN a.subscripts :
           Linear(n, Subscripts(a)[d], x) = Linear(n, Subscripts(b)[d], y)
      BY <1>1, <1>2, <2>1
  <2>. QED BY <1>1, <2>1, <2>2 DEF SameElement, a, b
<1>. QED BY <1>3, <1>4

\* No instance and no dependence of a supported nest escapes the analysis.
LEMMA AnalysisSound ==
    ASSUME NEW n \in Nests, IsSupported(n), HasDependencies(n)
    PROVE  /\ Instances(n) \subseteq Domain(n)
           /\ TrueDependences(n) \subseteq GetDependencies(n)
<1>1. Instances(n) \subseteq Domain(n)
    BY InstancesInDomain DEF HasDependencies
<1>2. ASSUME NEW xy \in TrueDependences(n) PROVE xy \in GetDependencies(n)
  <2>1. /\ xy \in Instances(n) \X Instances(n)
        /\ LexBefore(xy[1], xy[2])
      BY DEF TrueDependences
  <2>2. PICK k \in DOMAIN n.accesses, l \in DOMAIN n.accesses :
           /\ IsConflicting(n.accesses[k], n.accesses[l])
           /\ Address(n, n.accesses[k], xy[1]) = Address(n, n.accesses[l], xy[2])
      BY DEF TrueDependences
  <2>3. Conflicts(n, xy[1], xy[2])
      BY <2>2, SameAddressSameElement DEF Conflicts
  <2>4. xy \in Domain(n) \X Domain(n)
      BY <1>1, <2>1
  <2>. QED BY <2>1, <2>3, <2>4 DEF GetDependencies
<1>. QED BY <1>1, <1>2

\* Every nest of every set of nests that is supported and read is analysed
\* soundly (getDependencies).
THEOREM AnalysisIsAlwaysSound == Spec => []AnalysisIsSound
<1>1. TypeOK => AnalysisIsSound
    BY AnalysisSound DEF TypeOK, AnalysisIsSound
<1>. QED BY TypeCorrect, <1>1, PTL

-----------------------------------------------------------------------------
(* The order of the run.                                                     *)

\* The dimension that loop k runs through when the body's uses of dimension d read
\* PHI p[d], and the values of the PHIs at instance x.
DimensionIn(n, p, k) == CHOOSE d \in Dim(n) : p[d] = k

ScheduledIn(n, p, x) == [k \in Dim(n) |-> x[DimensionIn(n, p, k)]]

\* Nothing an exchange touches is lost: each dimension is read from one PHI, whose
\* compare has the bound of that dimension, and loops still drive themselves.
IsPermuted(n, r) ==
    /\ r \in IRType(n)
    /\ \A k, l \in Dim(n) : r.payload[k] = r.payload[l] => k = l
    /\ \A k \in Dim(n) : \E d \in Dim(n) : r.payload[d] = k
    /\ \A k \in Dim(n) : r.bound[r.payload[k]] = RuntimeBound(n, k) /\ r.control[k] = k

\* The IR as written is one permutation of the loops ...
LEMMA OriginalIsPermuted ==
    ASSUME NEW n \in Nests
    PROVE  IsPermuted(n, OriginalIR(n))
BY NestsAssumption DEF IsPermuted, OriginalIR, IRType, IsNest

\* ... and applyLoopInterchange() of any two loops makes another of it.
LEMMA InterchangePermutes ==
    ASSUME NEW n \in Nests, NEW r, IsPermuted(n, r), NEW o \in Dim(n), NEW i \in Dim(n), o # i
    PROVE  IsPermuted(n, ApplyLoopInterchange(n, r, o, i))
<1> DEFINE s == ApplyLoopInterchange(n, r, o, i)
<1>1. r \in IRType(n)
    BY DEF IsPermuted
<1>2. CASE n.loops[o].type # n.loops[i].type
    BY <1>2 DEF ApplyLoopInterchange
<1>3. CASE n.loops[o].type = n.loops[i].type
  <2>1. s \in IRType(n)
      BY <1>1, InterchangeTyped
  <2>2. /\ s.bound = [r.bound EXCEPT ![o] = r.bound[i], ![i] = r.bound[o]]
        /\ s.payload = [k \in Dim(n) |-> CASE r.payload[k] = o -> i
                                           [] r.payload[k] = i -> o
                                           [] OTHER -> r.payload[k]]
        /\ s.control = r.control
      BY <1>1, <1>3 DEF ApplyLoopInterchange, Swapped, IRType
  <2>3. ASSUME NEW k \in Dim(n)
        PROVE  /\ r.payload[k] = o => s.payload[k] = i
               /\ r.payload[k] = i => s.payload[k] = o
               /\ r.payload[k] \notin {o, i} => s.payload[k] = r.payload[k]
      BY <2>2
  <2>4. \A k, l \in Dim(n) : s.payload[k] = s.payload[l] => r.payload[k] = r.payload[l]
      BY <2>3
  <2>5. ASSUME NEW k \in Dim(n)
        PROVE  s.bound[s.payload[k]] = r.bound[r.payload[k]]
    <3>1. r.bound \in [Dim(n) -> Nat] /\ r.payload[k] \in Dim(n)
        BY <1>1 DEF IRType
    <3>. QED BY <2>2, <2>3, <3>1
  <2>6. ASSUME NEW k \in Dim(n)
        PROVE  \E d \in Dim(n) : s.payload[d] = k
    <3>1. \A l \in Dim(n) : \E d \in Dim(n) : r.payload[d] = l
        BY DEF IsPermuted
    <3>2. CASE k = o
        BY <2>3, <3>1, <3>2
    <3>3. CASE k = i
        BY <2>3, <3>1, <3>3
    <3>4. CASE k \notin {o, i}
        BY <2>3, <3>1, <3>4
    <3>. QED BY <3>2, <3>3, <3>4
  <2>7. /\ \A k, l \in Dim(n) : r.payload[k] = r.payload[l] => k = l
        /\ \A k \in Dim(n) : r.bound[r.payload[k]] = RuntimeBound(n, k) /\ r.control[k] = k
      BY DEF IsPermuted
  <2>8. s.control = r.control
      BY <2>2
  <2> HIDE DEF s
  <2>9. /\ \A k, l \in Dim(n) : s.payload[k] = s.payload[l] => k = l
        /\ \A k \in Dim(n) : s.bound[s.payload[k]] = RuntimeBound(n, k) /\ s.control[k] = k
      BY <2>4, <2>5, <2>7, <2>8
  <2>. QED BY <2>1, <2>6, <2>9 DEF IsPermuted, s
<1>. QED BY <1>2, <1>3

\* Loops and dimensions correspond one to one, and every loop has the bound of
\* the dimension it runs through.
LEMMA LoopsAndDimensions ==
    ASSUME NEW n \in Nests, NEW r, IsPermuted(n, r)
    PROVE  /\ \A k \in Dim(n) : /\ DimensionIn(n, r.payload, k) \in Dim(n)
                                /\ r.payload[DimensionIn(n, r.payload, k)] = k
                                /\ r.bound[k] = RuntimeBound(n, DimensionIn(n, r.payload, k))
           /\ \A d \in Dim(n) : /\ r.payload[d] \in Dim(n)
                                /\ DimensionIn(n, r.payload, r.payload[d]) = d
<1>1. ASSUME NEW k \in Dim(n)
      PROVE  DimensionIn(n, r.payload, k) \in Dim(n) /\ r.payload[DimensionIn(n, r.payload, k)] = k
    BY DEF IsPermuted, DimensionIn
<1>2. \A d \in Dim(n) : r.payload[d] \in Dim(n)
    BY DEF IsPermuted, IRType
<1>. QED BY <1>1, <1>2 DEF IsPermuted

\* The first value with which a loop, as it is bounded now, does not run its body.
Stop(k) == ir.bound[k] + Extra(nest, k)

Position ==
    /\ at = "pass" => level = 1
    /\ at = "header" => iv[level] <= Stop(level)
    /\ at = "header" /\ nest.loops[level].test = "latch" => iv[level] < Stop(level)
    /\ at \in {"body", "latch"} => iv[level] < Stop(level)
    /\ at = "body" => level = Depth(nest)
    /\ at # "exit" => \A k \in 1 .. level - 1 : iv[k] < Stop(k)

\* The inductive invariant.
Inv ==
    /\ TypeOK
    /\ IsPermuted(nest, ir)
    /\ Position
    /\ executed = {x \in Box(nest) : Reached(x)}

\* What the invariant gives in every state: the PHIs' values of the instances
\* fill the box of the bounds as they are now, and no two instances share them.
LEMMA ScheduleIsBijective ==
    ASSUME Inv, RunAlike(nest)
    PROVE  /\ \A x \in Box(nest) : /\ Scheduled(x) \in [Dim(nest) -> Nat]
                                   /\ \A k \in Dim(nest) : Scheduled(x)[k] < Stop(k)
           /\ \A x \in Box(nest) : Scheduled(x) = iv <=> x = Current
           /\ (\A k \in Dim(nest) : iv[k] < Stop(k)) => Current \in Box(nest)
<1> DEFINE p == ir.payload
<1>1. /\ nest \in Nests
      /\ iv \in [Dim(nest) -> Nat]
      /\ IsPermuted(nest, ir)
    BY DEF Inv, TypeOK
<1>2. /\ \A k \in Dim(nest) : /\ DimensionOf(k) \in Dim(nest)
                              /\ p[DimensionOf(k)] = k
                              /\ Stop(k) = Extent(nest, DimensionOf(k))
      /\ \A d \in Dim(nest) : p[d] \in Dim(nest) /\ DimensionOf(p[d]) = d
    BY <1>1, LoopsAndDimensions DEF RunAlike, Stop, Extent, DimensionOf, DimensionIn
<1> HIDE DEF p
<1>3. ASSUME NEW x \in Box(nest)
      PROVE  /\ Scheduled(x) \in [Dim(nest) -> Nat]
             /\ \A k \in Dim(nest) : Scheduled(x)[k] < Stop(k)
    BY <1>2 DEF Box, Scheduled
<1>4. Current = [d \in Dim(nest) |-> iv[p[d]]]
    BY DEF Current, p
<1>5. ASSUME NEW x \in Box(nest), Scheduled(x) = iv PROVE x = Current
  <2>1. \A d \in Dim(nest) : x[d] = iv[p[d]]
      BY <1>2, <1>5 DEF Scheduled
  <2>. QED BY <1>4, <2>1 DEF Box
<1>6. ASSUME NEW x \in Box(nest), x = Current PROVE Scheduled(x) = iv
  <2>1. \A k \in Dim(nest) : x[DimensionOf(k)] = iv[k]
      BY <1>2, <1>4, <1>6
  <2>. QED BY <1>1, <2>1 DEF Scheduled
<1>7. ASSUME \A k \in Dim(nest) : iv[k] < Stop(k) PROVE Current \in Box(nest)
    BY <1>1, <1>2, <1>4, <1>7 DEF Box
<1>. QED BY <1>3, <1>5, <1>6, <1>7

\* The inductive invariant holds initially ...
LEMMA InitInv == Init => Inv
<1> SUFFICES ASSUME Init PROVE Inv
    OBVIOUS
<1>1. TypeOK
    BY TypeInit
<1>2. nest \in Nests /\ 1 \in Dim(nest)
    BY NestsAssumption DEF Init, IsNest
<1>3. IsPermuted(nest, ir)
    BY <1>2, OriginalIsPermuted DEF Init
<1>4. Position
    BY DEF Init, Position
<1>5. executed = {x \in Box(nest) : Reached(x)}
    BY DEF Init, Reached
<1>. QED BY <1>1, <1>3, <1>4, <1>5 DEF Inv

\* One more loop outside decides more: the order of the l outermost loops.
LEMMA BehindStep ==
    ASSUME Inv, NEW y, NEW l \in Nat \ {0}
    PROVE  Behind(y, l) <=> Behind(y, l - 1) \/ (y[l] < iv[l] /\ Inside(y, l - 1))
BY DEF Behind

\* What tells a loop whether it goes on, in the terms of the box.
LEMMA ContinuesInBox ==
    ASSUME Inv
    PROVE  LET loop == nest.loops[level]
           IN  /\ Stop(level) \in Nat /\ iv[level] \in Nat
               /\ at = "header" /\ loop.test = "header" => (Continues <=> iv[level] < Stop(level))
               /\ at = "latch" /\ loop.test = "latch" => (Continues <=> iv[level] + 1 < Stop(level))
               /\ loop.test \in {"header", "latch"}
<1> DEFINE p == nest.loops[level].predicate
           t == nest.loops[level].test
           v == iv[level]
           b == ir.bound[level]
<1>1. /\ nest \in Nests /\ level \in Dim(nest)
      /\ v \in Nat /\ b \in Nat /\ ir.control[level] = level
    BY DEF Inv, TypeOK, IsPermuted
<1>2. p \in {"slt", "sle", "ne"} /\ t \in {"header", "latch"}
    BY <1>1, ExtentsTyped
<1>3. Stop(level) = b + (IF p = "sle" THEN 1 ELSE 0) + (IF t = "latch" THEN 1 ELSE 0)
    BY <1>1, <1>2 DEF Stop, Extra
<1>4. Continues <=> GoesOn(p, v, b)
    BY <1>1 DEF Continues
<1>5. /\ GoesOn("slt", v, b) <=> v < b
      /\ GoesOn("sle", v, b) <=> v <= b
      /\ GoesOn("ne", v, b) <=> v # b
    BY DEF GoesOn
<1>6. /\ at = "header" => v <= Stop(level)
      /\ at = "latch" => v < Stop(level)
    BY DEF Inv, Position
<1> HIDE DEF p, t, v, b
<1>7. (at = "header" /\ t = "header" => (Continues <=> v < Stop(level)))
      /\ (at = "latch" /\ t = "latch" => (Continues <=> v + 1 < Stop(level)))
  <2>1. CASE p = "slt"
      BY <1>1, <1>2, <1>3, <1>4, <1>5, <1>6, <2>1
  <2>2. CASE p = "sle"
      BY <1>1, <1>2, <1>3, <1>4, <1>5, <1>6, <2>2
  <2>3. CASE p = "ne"
    <3>1. Continues <=> v # b
        BY <1>4, <1>5, <2>3
    <3>2. Stop(level) = b + (IF t = "latch" THEN 1 ELSE 0)
        BY <1>1, <1>3, <2>3
    <3>. QED BY <1>1, <1>2, <1>6, <3>1, <3>2
  <2>. QED BY <1>2, <2>1, <2>2, <2>3
<1>8. Stop(level) \in Nat
    BY <1>1, <1>2, <1>3
<1>. QED BY <1>1, <1>2, <1>7, <1>8 DEF t, v

\* A loop that is left has no value left: control goes to the loop around it.
LEMMA LeaveInv ==
    ASSUME Inv, RunAlike(nest), Leave, UNCHANGED <<nest, ir, executed>>, TypeOK',
           \/ at = "header" /\ iv[level] >= Stop(level)
           \/ at = "latch" /\ iv[level] + 1 >= Stop(level)
    PROVE  Inv'
<1>1. /\ nest \in Nests
      /\ Depth(nest) \in Nat \ {0}
      /\ Dim(nest) = 1 .. Depth(nest)
      /\ level \in Dim(nest)
      /\ iv \in [Dim(nest) -> Nat]
    BY NestsAssumption DEF Inv, TypeOK, IsNest
<1>2. Stop(level) \in Nat
    BY ContinuesInBox
<1>3. Box(nest)' = Box(nest) /\ \A x : Scheduled(x)' = Scheduled(x)
    BY DEF Box, Dim, Extent, RuntimeBound, Extra, Scheduled, DimensionOf
<1>4. ASSUME NEW x \in Box(nest)
      PROVE  Reached(x) <=> Behind(Scheduled(x), level - 1) \/ Inside(Scheduled(x), level - 1)
  <2> DEFINE y == Scheduled(x)
  <2>1. y[level] \in Nat /\ y[level] < Stop(level)
      BY <1>1, ScheduleIsBijective
  <2> HIDE DEF y
  <2>2. Behind(y, level) <=> Behind(y, level - 1) \/ (y[level] < iv[level] /\ Inside(y, level - 1))
      BY <1>1, BehindStep
  <2>3. Inside(y, level) <=> Inside(y, level - 1) /\ y[level] = iv[level]
      BY <1>1 DEF Inside
  <2>4. CASE at = "header" /\ iv[level] >= Stop(level)
    <3>1. Reached(x) <=> Behind(y, level)
        BY <2>4 DEF Reached, y
    <3>. QED BY <1>1, <1>2, <2>1, <2>2, <2>4, <3>1 DEF y
  <2>5. CASE at = "latch" /\ iv[level] + 1 >= Stop(level)
    <3>1. Reached(x) <=> Behind(y, level) \/ Inside(y, level)
        BY <2>5 DEF Reached, y
    <3>2. y[level] < iv[level] \/ y[level] = iv[level]
        BY <1>1, <1>2, <2>1, <2>5
    <3>. QED BY <2>2, <2>3, <3>1, <3>2 DEF y
  <2>. QED BY <2>4, <2>5
<1>5. CASE level = 1
  <2>1. at' = "exit"
      BY <1>5 DEF Leave
  <2>2. Position'
      BY <2>1 DEF Position
  <2>3. \A x \in Box(nest) : Reached(x)' /\ Reached(x)
    <3>1. \A y : Inside(y, level - 1)
        BY <1>5 DEF Inside
    <3>. QED BY <1>4, <2>1, <3>1 DEF Reached
  <2>. QED BY <1>3, <2>2, <2>3 DEF Inv, IsPermuted, IRType
<1>6. CASE level # 1
  <2>1. at' = "latch" /\ iv' = iv /\ level' = level - 1
      BY <1>6 DEF Leave
  <2>2. Position'
    <3>1. \A k \in 1 .. level - 1 : iv[k] < Stop(k)
        BY DEF Inv, Position
    <3>2. \A k : Stop(k)' = Stop(k)
        BY DEF Stop, Extra
    <3>. QED BY <1>1, <1>6, <2>1, <3>1, <3>2 DEF Position
  <2>3. \A x \in Box(nest) : Reached(x)' <=> Reached(x)
    <3>1. \A x \in Box(nest) : Reached(x)' <=> Behind(Scheduled(x), level - 1) \/ Inside(Scheduled(x), level - 1)
        BY <1>3, <2>1 DEF Reached, Behind, Inside
    <3>. QED BY <1>4, <3>1
  <2>. QED BY <1>3, <2>2, <2>3 DEF Inv, IsPermuted, IRType
<1>. QED BY <1>5, <1>6

\* ... rewriting the loops before they run keeps it, and control then enters them ...
LEMMA RewriteInv ==
    ASSUME Inv, at = "pass", TypeOK', IsPermuted(nest, ir'), UNCHANGED <<nest, level, data>>,
           (at' = "header" /\ iv' = ir'.start) \/ UNCHANGED <<at, iv>>
    PROVE  Inv'
<1>1. /\ nest \in Nests
      /\ Depth(nest) \in Nat \ {0}
      /\ Dim(nest) = 1 .. Depth(nest)
      /\ level = 1 /\ level' = 1 /\ executed' = executed
    BY NestsAssumption DEF Inv, TypeOK, IsNest, Position, data
<1>2. /\ ir'.bound \in [Dim(nest) -> Nat]
      /\ at' = "header" => \A k \in Dim(nest) : iv'[k] = 0
    BY DEF TypeOK
<1>3. Position'
  <2>1. nest.loops[1].test = "latch" => Extra(nest, 1) >= 1
      BY <1>1, ExtentsTyped DEF Extra
  <2>2. Stop(1)' = ir'.bound[1] + Extra(nest, 1) /\ Extra(nest, 1) \in Nat
      BY <1>1, ExtentsTyped DEF Stop, Extra
  <2>. QED BY <1>1, <1>2, <2>1, <2>2 DEF Position
<1>4. executed = {}
    BY DEF Inv, Reached
<1>5. \A x \in Box(nest) : ~Reached(x)'
  <2> SUFFICES ASSUME NEW x \in Box(nest), Reached(x)' PROVE FALSE
      OBVIOUS
  <2> DEFINE d == DimensionIn(nest, ir'.payload, 1)
  <2>1. d \in Dim(nest)
      BY <1>1, LoopsAndDimensions
  <2>2. Scheduled(x)'[1] = x[d]
      BY <1>1 DEF Scheduled, DimensionOf, DimensionIn
  <2> HIDE DEF d
  <2>3. Scheduled(x)'[1] < 0
      BY <1>1, <1>2 DEF Reached, Behind
  <2>4. x[d] \in Nat
      BY <2>1 DEF Box
  <2>. QED BY <2>2, <2>3, <2>4
<1>6. Box(nest)' = Box(nest)
    BY DEF Box, Dim, Extent, RuntimeBound, Extra
<1>7. executed' = {x \in Box(nest)' : Reached(x)'}
    BY <1>1, <1>4, <1>5, <1>6
<1>8. IsPermuted(nest, ir)'
    BY <1>1 DEF IsPermuted, IRType
<1>. QED BY <1>3, <1>7, <1>8 DEF Inv

\* ... and so does every step of a nest of loops that run alike.
LEMMA NestStepInv ==
    ASSUME Inv, Header \/ Body \/ Latch \/ UNCHANGED vars, RunAlike(nest)
    PROVE  Inv'
<1>1. TypeOK'
    BY TypeStep DEF Inv, Next
<1>2. /\ nest \in Nests
      /\ Depth(nest) \in Nat \ {0}
      /\ Dim(nest) = 1 .. Depth(nest)
    BY NestsAssumption DEF Inv, TypeOK, IsNest
<1>3. /\ level \in Dim(nest)
      /\ ir \in IRType(nest)
      /\ iv \in [Dim(nest) -> Nat]
    BY DEF Inv, TypeOK, IRType
<1>5. CASE Header
  <2>1. /\ at = "header" /\ nest' = nest /\ ir' = ir /\ executed' = executed
        /\ IF nest.loops[level].test = "header" /\ ~Continues THEN Leave ELSE Enter
      BY <1>5 DEF Header, data
  <2>2. /\ nest.loops[level].test = "header" => (Continues <=> iv[level] < Stop(level))
        /\ nest.loops[level].test = "latch" => iv[level] < Stop(level)
        /\ nest.loops[level].test \in {"header", "latch"}
        /\ iv[level] \in Nat /\ Stop(level) \in Nat
      BY <2>1, ContinuesInBox DEF Inv, Position
  <2>3. Box(nest)' = Box(nest) /\ (\A x : Scheduled(x)' = Scheduled(x)) /\ \A k : Stop(k)' = Stop(k)
      BY <2>1 DEF Box, Dim, Extent, RuntimeBound, Extra, Scheduled, DimensionOf, Stop
  <2>4. \A x \in Box(nest) : Reached(x) <=> Behind(Scheduled(x), level)
      BY <2>1 DEF Reached
  <2>5. CASE Leave /\ nest.loops[level].test = "header" /\ ~Continues
    <3>1. iv[level] >= Stop(level)
        BY <2>2, <2>5
    <3>. QED BY <1>1, <2>1, <2>5, <3>1, LeaveInv
  <2>6. CASE Enter /\ iv[level] < Stop(level) /\ level < Depth(nest)
    <3>1. /\ at' = "header" /\ level' = level + 1
          /\ iv' = [iv EXCEPT ![level + 1] = 0]
          /\ level + 1 \in Dim(nest)
        BY <1>2, <1>3, <2>6 DEF Enter, IRType
    <3>2. Position'
      <4>1. \A k \in 1 .. level : iv'[k] < Stop(k)
          BY <1>2, <1>3, <2>1, <2>6, <3>1 DEF Inv, Position
      <4>2. /\ Stop(level + 1) >= 0
            /\ nest.loops[level + 1].test = "latch" => Stop(level + 1) > 0
        <5>1. ir.bound[level + 1] \in Nat /\ Extra(nest, level + 1) \in 0 .. 2
            BY <1>2, <1>3, <3>1, ExtentsTyped DEF IRType
        <5>2. nest.loops[level + 1].test = "latch" => Extra(nest, level + 1) > 0
            BY DEF Extra
        <5>. QED BY <5>1, <5>2 DEF Stop
      <4>3. iv'[level + 1] = 0
          BY <1>3, <3>1
      <4>4. \A k \in 1 .. level' - 1 : iv'[k] < Stop(k)'
          BY <1>2, <1>3, <2>3, <3>1, <4>1
      <4>5. /\ iv'[level'] <= Stop(level)'
            /\ nest'.loops[level'].test = "latch" => iv'[level'] < Stop(level)'
        <5>1. Stop(level)' = Stop(level + 1)
            BY <2>1, <3>1 DEF Stop, Extra
        <5>. QED BY <2>1, <3>1, <4>2, <4>3, <5>1
      <4>. QED BY <3>1, <4>4, <4>5 DEF Position
    <3>3. ASSUME NEW x \in Box(nest) PROVE Reached(x)' <=> Reached(x)
      <4> DEFINE y == Scheduled(x)
      <4>1. y \in [Dim(nest) -> Nat]
          BY ScheduleIsBijective
      <4>2. Reached(x)' <=> \E k \in 1 .. level + 1 :
                               y[k] < iv'[k] /\ \A j \in 1 .. k - 1 : y[j] = iv'[j]
          BY <2>3, <3>1 DEF Reached, Behind, Inside
      <4> HIDE DEF y
      <4>3. ~(y[level + 1] < iv'[level + 1])
          BY <1>2, <1>3, <3>1, <4>1
      <4>4. \A k \in 1 .. level : iv'[k] = iv[k]
          BY <1>2, <1>3, <3>1
      <4>5. Reached(x)' <=> Behind(y, level)
          BY <1>2, <1>3, <4>2, <4>3, <4>4 DEF Behind, Inside
      <4>. QED BY <2>4, <4>5 DEF y
    <3>. QED BY <1>1, <2>1, <2>3, <3>2, <3>3 DEF Inv, IsPermuted, IRType
  <2>7. CASE Enter /\ iv[level] < Stop(level) /\ ~(level < Depth(nest))
    <3>1. at' = "body" /\ iv' = iv /\ level' = level /\ level = Depth(nest)
        BY <1>2, <1>3, <2>7 DEF Enter
    <3>2. Position'
        BY <1>2, <2>1, <2>3, <2>7, <3>1 DEF Inv, Position, Depth
    <3>3. \A x \in Box(nest) : Reached(x)' <=> Reached(x)
        BY <2>3, <2>4, <3>1 DEF Reached, Behind, Inside
    <3>. QED BY <1>1, <2>1, <2>3, <3>2, <3>3 DEF Inv, IsPermuted, IRType
  <2>. QED BY <2>1, <2>2, <2>5, <2>6, <2>7
<1>6. CASE Body
  <2>1. /\ at = "body" /\ at' = "latch" /\ level' = level /\ iv' = iv
        /\ nest' = nest /\ ir' = ir /\ executed' = executed \cup {Current}
        /\ level = Depth(nest)
      BY <1>6 DEF Body, Inv, Position
  <2>2. Box(nest)' = Box(nest) /\ (\A x : Scheduled(x)' = Scheduled(x)) /\ \A k : Stop(k)' = Stop(k)
      BY <2>1 DEF Box, Dim, Extent, RuntimeBound, Extra, Scheduled, DimensionOf, Stop
  <2>3. Position'
      BY <2>1, <2>2 DEF Inv, Position
  <2>4. Current \in Box(nest)
    <3>1. \A k \in Dim(nest) : iv[k] < Stop(k)
        BY <1>2, <2>1 DEF Inv, Position
    <3>. QED BY <3>1, ScheduleIsBijective
  <2>5. ASSUME NEW x \in Box(nest) PROVE Reached(x)' <=> Reached(x) \/ x = Current
    <3>1. Reached(x)' <=> Behind(Scheduled(x), level) \/ Inside(Scheduled(x), level)
        BY <2>1, <2>2 DEF Reached, Behind, Inside
    <3>2. Reached(x) <=> Behind(Scheduled(x), level)
        BY <2>1 DEF Reached
    <3>3. Inside(Scheduled(x), level) <=> Scheduled(x) = iv
        BY <1>2, <1>3, <2>1, ScheduleIsBijective DEF Inside
    <3>. QED BY <3>1, <3>2, <3>3, ScheduleIsBijective
  <2>6. executed' = {x \in Box(nest)' : Reached(x)'}
      BY <2>1, <2>2, <2>4, <2>5 DEF Inv
  <2>. QED BY <1>1, <2>1, <2>3, <2>6 DEF Inv, IsPermuted, IRType
<1>7. CASE Latch
  <2>1. /\ at = "latch" /\ nest' = nest /\ ir' = ir /\ executed' = executed
        /\ IF nest.loops[level].test = "latch" /\ ~Continues THEN Leave
           ELSE at' = "header" /\ level' = level /\ iv' = [iv EXCEPT ![level] = iv[level] + 1]
      BY <1>3, <1>7 DEF Latch, data, Inv, IsPermuted
  <2>2. /\ nest.loops[level].test = "latch" => (Continues <=> iv[level] + 1 < Stop(level))
        /\ iv[level] \in Nat /\ Stop(level) \in Nat /\ iv[level] < Stop(level)
      BY <2>1, ContinuesInBox DEF Inv, Position
  <2>3. CASE Leave /\ nest.loops[level].test = "latch" /\ ~Continues
    <3>1. iv[level] + 1 >= Stop(level)
        BY <2>2, <2>3
    <3>. QED BY <1>1, <2>1, <2>3, <3>1, LeaveInv
  <2>4. CASE /\ at' = "header" /\ level' = level /\ iv' = [iv EXCEPT ![level] = iv[level] + 1]
             /\ nest.loops[level].test = "latch" => iv[level] + 1 < Stop(level)
    <3>1. Box(nest)' = Box(nest) /\ (\A x : Scheduled(x)' = Scheduled(x)) /\ \A k : Stop(k)' = Stop(k)
        BY <2>1 DEF Box, Dim, Extent, RuntimeBound, Extra, Scheduled, DimensionOf, Stop
    <3>2. Position'
        BY <1>2, <1>3, <2>1, <2>2, <2>4, <3>1 DEF Inv, Position
    <3>3. ASSUME NEW x \in Box(nest) PROVE Reached(x)' <=> Reached(x)
      <4> DEFINE y == Scheduled(x)
      <4>1. y \in [Dim(nest) -> Nat]
          BY ScheduleIsBijective
      <4>2. Reached(x)' <=> \E k \in 1 .. level :
                               y[k] < iv'[k] /\ \A j \in 1 .. k - 1 : y[j] = iv'[j]
          BY <2>4, <3>1 DEF Reached, Behind, Inside
      <4>3. Reached(x) <=> Behind(y, level) \/ Inside(y, level)
          BY <2>1 DEF Reached
      <4> HIDE DEF y
      <4>4. \A k \in 1 .. level - 1 : iv'[k] = iv[k]
          BY <1>2, <1>3, <2>4
      <4>5. y[level] < iv'[level] <=> y[level] < iv[level] \/ y[level] = iv[level]
          BY <1>2, <1>3, <2>4, <4>1
      <4>6. Reached(x)' <=> Behind(y, level - 1) \/ (y[level] < iv'[level] /\ Inside(y, level - 1))
          BY <1>2, <1>3, <4>2, <4>4 DEF Behind, Inside
      <4>7. Inside(y, level) <=> Inside(y, level - 1) /\ y[level] = iv[level]
          BY <1>2, <1>3 DEF Inside
      <4>8. Behind(y, level) <=> Behind(y, level - 1) \/ (y[level] < iv[level] /\ Inside(y, level - 1))
          BY <1>2, <1>3, BehindStep
      <4>. QED BY <4>3, <4>5, <4>6, <4>7, <4>8
    <3>. QED BY <1>1, <2>1, <3>1, <3>2, <3>3 DEF Inv, IsPermuted, IRType
  <2>. QED BY <2>1, <2>2, <2>3, <2>4
<1>8. CASE UNCHANGED vars
    BY <1>8 DEF vars, control, data, Inv, TypeOK, IsPermuted, IRType, Position, Reached, Behind,
        Inside, Scheduled, DimensionOf, Box, Extent, Extra, Stop
<1>. QED BY <1>5, <1>6, <1>7, <1>8

\* What the pass leaves behind is a permutation of the loops.
LEMMA RewritesPermute ==
    ASSUME Inv, Transform
    PROVE  IsPermuted(nest, ir')
<1>1. nest \in Nests /\ Depth(nest) \in Dim(nest) /\ IsPermuted(nest, ir)
    BY NestsAssumption DEF Inv, TypeOK, IsNest
<1>2. ASSUME NEW k \in BestLoops(nest), k # Depth(nest)
      PROVE  IsPermuted(nest, ApplyLoopInterchange(nest, ir, k, Depth(nest)))
    BY <1>1, <1>2, BestLoopsAreLoops, InterchangePermutes
<1>. QED BY <1>1, <1>2 DEF Transform, Rewrites

LEMMA NextInv ==
    ASSUME Inv, [Next]_vars, RunAlike(nest)
    PROVE  Inv'
<1>1. CASE Transform
  <2>1. TypeOK' /\ IsPermuted(nest, ir')
      BY <1>1, TypeStep, RewritesPermute DEF Inv
  <2>2. /\ at = "pass" /\ UNCHANGED <<nest, level, data>>
        /\ at' = "header" /\ iv' = ir'.start
      BY <1>1 DEF Transform
  <2>. QED BY <2>1, <2>2, RewriteInv
<1>2. CASE Header \/ Body \/ Latch \/ UNCHANGED vars
    BY <1>2, NestStepInv
<1>. QED BY <1>1, <1>2 DEF Next, Exited

\* So it holds in every state of every run of such a nest.
LEMMA InvIsInvariant == Spec => [](RunAlike(nest) => Inv)
<1>1. (RunAlike(nest) => Inv) /\ TypeOK /\ [Next]_vars => (RunAlike(nest) => Inv)'
  <2> SUFFICES ASSUME RunAlike(nest) => Inv, [Next]_vars, RunAlike(nest)' PROVE Inv'
      OBVIOUS
  <2>1. nest' = nest
      BY DEF Next, Transform, Header, Body, Latch, Exited, vars
  <2>2. RunAlike(nest)
      BY <2>1 DEF RunAlike, Extra, Dim
  <2>. QED BY <2>2, NextInv
<1>. QED BY InitInv, TypeCorrect, <1>1, PTL DEF Spec

\* In nests of supported loops, rewritten or not, what has run is at every point
\* what the loops have gone past.
THEOREM RunsInOrder == Spec => []ExecutedIsPrefix
<1>1. TypeOK /\ (RunAlike(nest) => Inv) => ExecutedIsPrefix
    BY SupportedLoopsRunAlike, InstancesAreBox DEF Inv, TypeOK, ExecutedIsPrefix
<1>. QED BY InvIsInvariant, TypeCorrect, <1>1, PTL

\* What the invariant says of a nest that is left.
LEMMA AllHaveRun ==
    ASSUME TypeOK, RunAlike(nest) => Inv
    PROVE  IterationSpaceIsPreserved
<1> SUFFICES ASSUME LoopsAreAlike, at = "exit"
             PROVE  executed = Instances(nest)
    BY DEF IterationSpaceIsPreserved
<1>1. nest \in Nests
    BY DEF TypeOK
<1>2. Inv
    BY <1>1, AlikeLoopsRunAlike DEF LoopsAreAlike
<1>3. executed = Box(nest)
    BY <1>2 DEF Inv, Reached
<1>. QED BY <1>1, <1>3, InstancesAreBox

\* applyLoopInterchange() moves the bounds and leaves the predicates: every nest
\* whose loops have one test, "<", "<=" or "!=" in the header or in the latch, runs
\* exactly the instances it had as written.
THEOREM IterationSpaceIsKept == Spec => []IterationSpaceIsPreserved
<1>1. TypeOK /\ (RunAlike(nest) => Inv) => IterationSpaceIsPreserved
    BY AllHaveRun
<1>. QED BY InvIsInvariant, TypeCorrect, <1>1, PTL

-----------------------------------------------------------------------------
(* Interchange implements the order of the dependences.                      *)

\* The instance the body computes is one that has not run.
LEMMA CurrentIsNew ==
    ASSUME Inv, at = "body", RunAlike(nest)
    PROVE  Current \in Instances(nest) \ executed
<1>1. /\ nest \in Nests
      /\ Instances(nest) = Box(nest)
      /\ Depth(nest) \in Nat
      /\ Dim(nest) = 1 .. Depth(nest)
      /\ level = Depth(nest)
      /\ iv \in [Dim(nest) -> Nat]
    BY InstancesAreBox, NestsAssumption DEF Inv, TypeOK, IsNest, Position
<1>2. \A k \in Dim(nest) : iv[k] < Stop(k)
    BY <1>1 DEF Inv, Position
<1>3. Current \in Box(nest) /\ Scheduled(Current) = iv
    BY <1>2, ScheduleIsBijective
<1>4. ~Behind(iv, level)
  <2>1. \A k \in 1 .. level : iv[k] \in Nat
      BY <1>1
  <2>2. \A k \in 1 .. level : ~(iv[k] < iv[k])
      BY <2>1
  <2>. QED BY <2>2 DEF Behind
<1>5. ~Reached(Current)
    BY <1>3, <1>4 DEF Reached
<1>. QED BY <1>1, <1>3, <1>5 DEF Inv

\* Whether the loops, permuted as r has them, run dependent instances in the order
\* of the nest as written.
KeepsOrder(n, r) ==
    \A xy \in TrueDependences(n) :
        LexBefore(ScheduledIn(n, r.payload, xy[1]), ScheduledIn(n, r.payload, xy[2]))

Ordered == KeepsOrder(nest, ir)

\* The nest as written does ...
LEMMA OriginalKeepsOrder ==
    ASSUME NEW n \in Nests
    PROVE  KeepsOrder(n, OriginalIR(n))
<1> DEFINE p == OriginalIR(n).payload
<1>1. \A k \in Dim(n) : DimensionIn(n, p, k) = k
    BY DEF OriginalIR, DimensionIn
<1> HIDE DEF p
<1>2. \A x \in Box(n) : ScheduledIn(n, p, x) = x
    BY <1>1 DEF ScheduledIn, Box
<1>3. ASSUME NEW xy \in TrueDependences(n)
      PROVE  LexBefore(ScheduledIn(n, p, xy[1]), ScheduledIn(n, p, xy[2]))
    BY <1>2, InstancesAreBox DEF TrueDependences
<1>. QED BY <1>3 DEF KeepsOrder, p

\* An iteration that is ahead in no dimension, and behind in one, comes before.
LEMMA NowhereAhead ==
    ASSUME NEW d \in Nat, NEW y, NEW z, DOMAIN y = 1 .. d,
           \A k \in 1 .. d : y[k] \in Nat /\ z[k] \in Nat /\ y[k] <= z[k],
           NEW l \in 1 .. d, y[l] < z[l]
    PROVE  LexBefore(y, z)
<1> DEFINE T == {k \in 1 .. d : y[k] # z[k]}
<1>1. l \in T /\ T \subseteq Nat
    OBVIOUS
<1>2. PICK m \in T : \A k \in T : m <= k
    BY <1>1, LeastElement
<1>3. m \in 1 .. d /\ y[m] < z[m]
    BY <1>2
<1>4. \A j \in 1 .. m - 1 : y[j] = z[j]
    BY <1>2, <1>3
<1>. QED BY <1>3, <1>4 DEF LexBefore

\* ... and no permutation of the loops of a legal nest turns a dependence round: no
\* distance is negative in any dimension.
LEMMA LegalKeepsOrder ==
    ASSUME NEW n \in Nests, IsSupported(n), IsTilingLegal(n), NEW r, IsPermuted(n, r)
    PROVE  KeepsOrder(n, r)
<1> DEFINE D(k) == DimensionIn(n, r.payload, k)
<1>1. /\ Depth(n) \in Nat /\ Dim(n) = 1 .. Depth(n)
      /\ Instances(n) = Box(n)
    BY InstancesAreBox, NestsAssumption DEF IsNest
<1>2. /\ \A k \in Dim(n) : D(k) \in Dim(n)
      /\ \A d \in Dim(n) : r.payload[d] \in Dim(n) /\ D(r.payload[d]) = d
    BY LoopsAndDimensions
<1> HIDE DEF D
<1>3. ASSUME NEW xy \in TrueDependences(n)
      PROVE  LexBefore(ScheduledIn(n, r.payload, xy[1]), ScheduledIn(n, r.payload, xy[2]))
  <2> DEFINE w == xy[1]
             x == xy[2]
             y == [k \in Dim(n) |-> w[D(k)]]
             z == [k \in Dim(n) |-> x[D(k)]]
  <2>1. w \in Box(n) /\ x \in Box(n) /\ LexBefore(w, x)
      BY <1>1, <1>3 DEF TrueDependences
  <2>2. \A d \in Dim(n) : w[d] \in Nat /\ x[d] \in Nat /\ w[d] <= x[d]
    <3>1. xy \in GetDependencies(n)
        BY <1>3, AnalysisSound DEF IsTilingLegal
    <3>2. \A d \in Dim(n) : ~(x[d] < w[d])
        BY <3>1 DEF IsTilingLegal
    <3>. QED BY <2>1, <3>2 DEF Box
  <2>3. PICK d \in Dim(n) : w[d] < x[d]
      BY <1>1, <2>1 DEF LexBefore, Box
  <2>4. /\ ScheduledIn(n, r.payload, w) = y
        /\ ScheduledIn(n, r.payload, x) = z
      BY DEF ScheduledIn, D
  <2> HIDE DEF w, x
  <2>5. r.payload[d] \in Dim(n) /\ y[r.payload[d]] < z[r.payload[d]]
      BY <1>2, <2>3
  <2>6. /\ DOMAIN y = 1 .. Depth(n)
        /\ \A k \in 1 .. Depth(n) : y[k] \in Nat /\ z[k] \in Nat /\ y[k] <= z[k]
      BY <1>1, <1>2, <2>2
  <2> HIDE DEF y, z
  <2>7. LexBefore(y, z)
      BY <1>1, <2>5, <2>6, NowhereAhead
  <2>. QED BY <2>4, <2>7 DEF w, x
<1>. QED BY <1>3 DEF KeepsOrder

\* Whatever the running instance depends on has run.
LEMMA DependencesHaveRun ==
    ASSUME Inv, Ordered, at = "body", IsSupported(nest),
           NEW w, <<w, Current>> \in TrueDependences(nest)
    PROVE  w \in executed
<1>1. /\ nest \in Nests
      /\ Depth(nest) \in Nat \ {0}
      /\ Dim(nest) = 1 .. Depth(nest)
      /\ level = Depth(nest)
      /\ iv \in [Dim(nest) -> Nat]
    BY NestsAssumption DEF Inv, TypeOK, IsNest, Position
<1>2. Instances(nest) = Box(nest) /\ RunAlike(nest)
    BY <1>1, InstancesAreBox, SupportedLoopsRunAlike DEF IsSupported
<1>3. w \in Box(nest) /\ Current \in Box(nest)
    BY <1>2 DEF TrueDependences
<1>4. \A x : Scheduled(x) = ScheduledIn(nest, ir.payload, x)
    BY DEF Scheduled, ScheduledIn, DimensionOf, DimensionIn
<1>5. LexBefore(ScheduledIn(nest, ir.payload, w), ScheduledIn(nest, ir.payload, Current))
    BY DEF Ordered, KeepsOrder
<1>6. Scheduled(Current) = iv
    BY <1>2, <1>3, ScheduleIsBijective
<1>7. LexBefore(Scheduled(w), iv)
    BY <1>4, <1>5, <1>6
<1>8. DOMAIN Scheduled(w) = Dim(nest)
    BY DEF Scheduled
<1>9. Behind(Scheduled(w), Depth(nest))
    BY <1>1, <1>7, <1>8 DEF LexBefore, Behind, Inside
<1>. QED BY <1>1, <1>3, <1>9 DEF Inv, Reached

\* What runs while the loops, in an order that respects the dependences, are rewritten
\* or run, is an execution of the abstract specification.
LEMMA OrderStep ==
    ASSUME Inv, Inv', Ordered, IsSupported(nest),
           \/ UNCHANGED <<nest, data>> /\ at = "pass" /\ at' # "exit"
           \/ Header \/ Body \/ Latch
           \/ UNCHANGED vars
    PROVE  [Order!Next]_(Order!vars)
<1>0. /\ nest \in Nests
      /\ Instances(nest) = Box(nest)
      /\ RunAlike(nest)
    BY InstancesAreBox, SupportedLoopsRunAlike DEF Inv, TypeOK, IsSupported
<1>1. CASE at' = "exit" /\ at # "exit"
  <2>1. nest' = nest /\ executed' = executed
      BY <1>1 DEF Header, Body, Latch, vars, control, data
  <2>2. executed = Instances(nest)
    <3>1. executed' = Box(nest)'
        BY <1>1 DEF Inv, Reached
    <3>2. Box(nest)' = Box(nest)
        BY <2>1 DEF Box, Dim, Extent, RuntimeBound, Extra
    <3>. QED BY <1>0, <2>1, <3>1, <3>2
  <2>3. Order!Finish
      BY <1>1, <2>1, <2>2 DEF Order!Finish
  <2>. QED BY <2>3 DEF Order!Next
<1>2. CASE Body
  <2>1. at = "body" /\ at' = "latch" /\ nest' = nest /\ executed' = executed \cup {Current}
      BY <1>2 DEF Body
  <2>2. Current \in Instances(nest) \ executed
      BY <1>0, <2>1, CurrentIsNew
  <2>3. \A w \in Instances(nest) : <<w, Current>> \in TrueDependences(nest) => w \in executed
      BY <2>1, DependencesHaveRun
  <2>4. Order!Execute
      BY <2>1, <2>2, <2>3 DEF Order!Execute
  <2>. QED BY <2>4 DEF Order!Next
<1>3. CASE ~Body /\ (at' = "exit" <=> at = "exit")
  <2>1. nest' = nest /\ executed' = executed
      BY <1>3 DEF Header, Latch, vars, data
  <2>. QED BY <1>3, <2>1 DEF Order!vars
<1>4. CASE at = "exit"
    BY <1>3, <1>4 DEF Header, Body, Latch, vars, control, data
<1>. QED BY <1>1, <1>2, <1>3, <1>4

\* Supported nests stay what they are; their invariant holds, and their loops keep
\* the order of the dependences.
SupportedInv ==
    /\ IsSupported(nest)
    /\ Inv
    /\ at = "pass" => ir = OriginalIR(nest)
    /\ Ordered

LEMMA OrderedInit == Init => Ordered
BY OriginalKeepsOrder DEF Init, Ordered

LEMMA OrderedStep ==
    ASSUME SupportedInv, [Next]_vars
    PROVE  Ordered' /\ (at = "pass" => ir = OriginalIR(nest))'
<1>1. CASE Transform
  <2>1. nest \in Nests /\ nest' = nest /\ at' = "header"
      BY <1>1 DEF Transform, SupportedInv, Inv, TypeOK
  <2>2. CASE IsTilingLegal(nest)
    <3>1. IsPermuted(nest, ir')
        BY <1>1, RewritesPermute DEF SupportedInv
    <3>2. KeepsOrder(nest, ir')
        BY <2>1, <2>2, <3>1, LegalKeepsOrder DEF SupportedInv
    <3>. QED BY <2>1, <3>2 DEF Ordered
  <2>3. CASE ~IsTilingLegal(nest)
    <3>1. ir' = ir
        BY <1>1, <2>3 DEF Transform, Rewrites
    <3>. QED BY <2>1, <3>1 DEF SupportedInv, Ordered
  <2>. QED BY <2>2, <2>3
<1>2. CASE Header \/ Body \/ Latch \/ UNCHANGED vars
  <2>1. nest' = nest /\ ir' = ir /\ (at' = "pass" => at = "pass")
      BY <1>2 DEF Header, Enter, Leave, Body, Latch, vars, control
  <2>. QED BY <2>1 DEF SupportedInv, Ordered
<1>. QED BY <1>1, <1>2 DEF Next, Exited

LEMMA SupportedInvIsInvariant == Spec /\ IsSupported(nest) => []SupportedInv
<1>1. Init /\ IsSupported(nest) => SupportedInv
    BY InitInv, OrderedInit DEF Init, SupportedInv
<1>2. SupportedInv /\ [Next]_vars => SupportedInv'
  <2> SUFFICES ASSUME SupportedInv, [Next]_vars PROVE SupportedInv'
      OBVIOUS
  <2>1. RunAlike(nest)
      BY SupportedLoopsRunAlike DEF SupportedInv, Inv, TypeOK, IsSupported
  <2>2. Inv'
      BY <2>1, NextInv DEF SupportedInv
  <2>3. nest' = nest
      BY DEF Next, Transform, Header, Body, Latch, Exited, vars
  <2>4. IsSupported(nest)'
      BY <2>3 DEF SupportedInv, IsSupported, LoopsAreSupported, AccessesAreSupported, Dim
  <2>. QED BY <2>2, <2>4, OrderedStep DEF SupportedInv
<1>. QED BY <1>1, <1>2, PTL DEF Spec

\* For every supported nest: the pass's legality test and rewrite (isTilingLegal,
\* applyLoopInterchange) never reorder a dependence, skip or repeat an instance,
\* or leave the nest early.
THEOREM InterchangeIsLegal == Spec /\ IsSupported(nest) => RespectsDependences
<1>1. Init => Order!Init
    BY DEF Init, Order!Init, TrueDependences
<1>2. SupportedInv /\ SupportedInv' /\ [Next]_vars => [Order!Next]_(Order!vars)
  <2> SUFFICES ASSUME SupportedInv, SupportedInv', [Next]_vars
               PROVE  [Order!Next]_(Order!vars)
      OBVIOUS
  <2>1. \/ UNCHANGED <<nest, data>> /\ at = "pass" /\ at' # "exit"
        \/ Header \/ Body \/ Latch
        \/ UNCHANGED vars
      BY DEF Next, Transform, Exited
  <2>. QED BY <2>1, OrderStep DEF SupportedInv
<1>. QED BY <1>1, <1>2, SupportedInvIsInvariant, PTL DEF Spec, RespectsDependences, Order!Spec

-----------------------------------------------------------------------------
(* Valid nests are interchanged.                                             *)

\* With nothing unknown in the nest isl reads it, and its domain has no iteration
\* that does not run.
LEMMA ValidNestsAreRead ==
    ASSUME NEW n \in Nests, IsSupported(n), BeforeIsRead(n), DomainIsRead(n),
           \A m \in DOMAIN n.accesses : \A d \in DOMAIN n.accesses[m].subscripts :
              MentionsOnlyIVs(n, n.accesses[m].subscripts[d])
    PROVE  /\ HasDependencies(n)
           /\ Domain(n) = Instances(n)
<1>1. AccessesAreRead(n)
  <2> SUFFICES ASSUME NEW m \in DOMAIN n.accesses,
                      NEW d \in DOMAIN Subscripts(n.accesses[m])
               PROVE  MentionsOnlyIVs(n, Subscripts(n.accesses[m])[d])
      BY DEF AccessesAreRead
  <2> DEFINE a == n.accesses[m]
  <2>1. CASE a.subscripts = <<>>
    <3>1. Subscripts(a)[d] = Zero /\ DOMAIN Zero.terms = {}
        BY <2>1 DEF Subscripts, Zero
    <3>. QED BY <3>1 DEF MentionsOnlyIVs
  <2>2. CASE a.subscripts # <<>>
    <3>1. d \in DOMAIN a.subscripts /\ Subscripts(a)[d] = CreateExprFromSCEV(a.subscripts[d])
        BY <2>2 DEF Subscripts
    <3>2. a.subscripts[d].op = "affine"
        BY <3>1 DEF IsSupported, AccessesAreSupported
    <3>3. Subscripts(a)[d].terms = a.subscripts[d].terms
        BY <3>1, <3>2 DEF CreateExprFromSCEV
    <3>. QED BY <3>1, <3>3 DEF MentionsOnlyIVs
  <2>. QED BY <2>1, <2>2
<1>2. ASSUME NEW x \in Domain(n) PROVE x \in Instances(n)
  <2>1. \A k \in Dim(n) : /\ Upper(n, k).const = Extent(n, k)
                          /\ Extent(n, k) \in Nat
      BY UpperIsBound, SupportedLoopsRunAlike, ExtentsTyped DEF IsSupported
  <2>2. /\ x \in [Dim(n) -> UNION {0 .. Upper(n, k).const - 1 : k \in Dim(n)}]
        /\ \A k \in Dim(n) : x[k] < Upper(n, k).const
      BY DEF Domain
  <2>3. UNION {0 .. Upper(n, k).const - 1 : k \in Dim(n)} \subseteq Nat
      BY <2>1
  <2>4. x \in [Dim(n) -> Nat]
      BY <2>2, <2>3
  <2>. QED BY <2>1, <2>2, <2>4, InstancesAreBox DEF Box
<1>. QED BY <1>1, <1>2, InstancesInDomain DEF HasDependencies

\* What isl maps to one element of a valid nest meets at run time.
LEMMA SameElementSameAddress ==
    ASSUME NEW n \in Nests, IsSupported(n), NEW x, NEW y,
           \A m \in DOMAIN n.accesses : \A d \in DOMAIN n.accesses[m].subscripts :
              MentionsOnlyIVs(n, n.accesses[m].subscripts[d]),
           NEW k \in DOMAIN n.accesses, NEW l \in DOMAIN n.accesses,
           SameElement(n, n.accesses[k], x, n.accesses[l], y)
    PROVE  Address(n, n.accesses[k], x) = Address(n, n.accesses[l], y)
<1> DEFINE a == n.accesses[k]
           b == n.accesses[l]
<1>1. /\ Len(a.subscripts) \in 0 .. Rank /\ DOMAIN a.subscripts = 1 .. Len(a.subscripts)
      /\ Len(b.subscripts) \in 0 .. Rank /\ DOMAIN b.subscripts = 1 .. Len(b.subscripts)
    BY NestsAssumption DEF IsNest
<1>2. a.base = b.base
    BY DEF SameElement
<1>3. DOMAIN a.subscripts = DOMAIN b.subscripts
    BY <1>1, <1>2 DEF IsSupported, AccessesAreSupported
<1>4. ASSUME NEW d \in DOMAIN a.subscripts
      PROVE  Value(n, a.subscripts[d], x) = Value(n, b.subscripts[d], y)
  <2>1. a.subscripts # <<>> /\ b.subscripts # <<>>
      BY <1>1, <1>3, <1>4
  <2>2. a.subscripts[d].op = "affine" /\ b.subscripts[d].op = "affine"
      BY <1>3, <1>4 DEF IsSupported, AccessesAreSupported
  <2> DEFINE s == CreateExprFromSCEV(a.subscripts[d])
             t == CreateExprFromSCEV(b.subscripts[d])
  <2>3. /\ d \in DOMAIN Subscripts(a)
        /\ Subscripts(a)[d] = s /\ Subscripts(b)[d] = t
      BY <1>3, <1>4, <2>1 DEF Subscripts
  <2>4. s.terms = a.subscripts[d].terms /\ t.terms = b.subscripts[d].terms
      BY <2>2 DEF CreateExprFromSCEV
  <2>5. MentionsOnlyIVs(n, a.subscripts[d]) /\ MentionsOnlyIVs(n, b.subscripts[d])
      BY <1>3, <1>4
  <2> HIDE DEF s, t, a, b
  <2>6. ~IsAnyValue(n, s) /\ ~IsAnyValue(n, t)
      BY <2>4, <2>5 DEF IsAnyValue, MentionsOnlyIVs
  <2>7. Linear(n, s, x) = Linear(n, t, y)
      BY <2>3, <2>6 DEF SameElement, a, b
  <2>8. Linear(n, s, x) = Value(n, a.subscripts[d], x) /\ Linear(n, t, y) = Value(n, b.subscripts[d], y)
      BY <2>2 DEF Value, Linear, CreateExprFromSCEV, s, t
  <2>. QED BY <2>7, <2>8
<1> HIDE DEF a, b
<1>. QED BY <1>2, <1>3, <1>4 DEF Address, a, b

\* A valid nest of two loops or more passes the legality test.
LEMMA ValidNestsAreLegal ==
    ASSUME TypeOK, IsValid, BeforeIsRead(nest), Depth(nest) >= 2
    PROVE  IsTilingLegal(nest)
<1>1. nest \in Nests /\ IsSupported(nest) /\ DomainIsRead(nest)
    BY DEF TypeOK, IsValid, DomainIsRead
<1>2. HasDependencies(nest) /\ Domain(nest) = Instances(nest)
    BY <1>1, ValidNestsAreRead DEF IsValid
<1>3. ASSUME NEW xy \in GetDependencies(nest), NEW k \in Dim(nest)
      PROVE  ~(xy[2][k] < xy[1][k])
  <2>1. /\ xy \in Instances(nest) \X Instances(nest)
        /\ LexBefore(xy[1], xy[2])
        /\ Conflicts(nest, xy[1], xy[2])
      BY <1>2 DEF GetDependencies
  <2>2. PICK m \in DOMAIN nest.accesses, l \in DOMAIN nest.accesses :
           /\ IsConflicting(nest.accesses[m], nest.accesses[l])
           /\ SameElement(nest, nest.accesses[m], xy[1], nest.accesses[l], xy[2])
      BY <2>1 DEF Conflicts
  <2>3. Address(nest, nest.accesses[m], xy[1]) = Address(nest, nest.accesses[l], xy[2])
    <3>1. \A i \in DOMAIN nest.accesses : \A d \in DOMAIN nest.accesses[i].subscripts :
             MentionsOnlyIVs(nest, nest.accesses[i].subscripts[d])
        BY DEF IsValid
    <3> DEFINE x == xy[1]
               y == xy[2]
    <3>2. SameElement(nest, nest.accesses[m], x, nest.accesses[l], y)
        BY <2>2
    <3> HIDE DEF x, y
    <3>3. Address(nest, nest.accesses[m], x) = Address(nest, nest.accesses[l], y)
        BY <1>1, <3>1, <3>2, SameElementSameAddress
    <3>. QED BY <3>3 DEF x, y
  <2>4. xy \in TrueDependences(nest)
      BY <2>1, <2>2, <2>3 DEF TrueDependences
  <2>5. xy[1][k] <= xy[2][k]
      BY <2>4 DEF IsValid
  <2>6. xy[1] \in Box(nest) /\ xy[2] \in Box(nest)
      BY <1>1, <2>1, InstancesAreBox
  <2>7. xy[1][k] \in Nat /\ xy[2][k] \in Nat
      BY <2>6 DEF Box
  <2>. QED BY <2>5, <2>7
<1>. QED BY <1>2, <1>3 DEF IsTilingLegal

\* The exchange with the innermost loop gives the body its PHI.
LEMMA InterchangePutsInnermost ==
    ASSUME NEW n \in Nests, NEW k \in Dim(n), n.loops[k].type = n.loops[Depth(n)].type
    PROVE  ApplyLoopInterchange(n, OriginalIR(n), k, Depth(n)).payload[k] = Depth(n)
BY DEF ApplyLoopInterchange, OriginalIR

\* README "rewrite the loop nest in IR when the transformation is valid": with
\* interchange enabled and an isl that reads the order, every valid nest of any
\* depth runs with one of its best loops innermost; the analysis refuses none.
THEOREM ValidNestsAreAlwaysInterchanged ==
    ASSUME PolyEnableInterchange
    PROVE  Spec => [](BeforeIsRead(nest) => ValidNestsAreInterchanged)
<1> DEFINE Chosen == /\ at = "pass" => ir = OriginalIR(nest)
                     /\ BeforeIsRead(nest) => ValidNestsAreInterchanged
<1>1. Init => Chosen
    BY DEF Init, ValidNestsAreInterchanged
<1>2. TypeOK /\ Chosen /\ [Next]_vars => Chosen'
  <2> SUFFICES ASSUME TypeOK, Chosen, [Next]_vars PROVE Chosen'
      OBVIOUS
  <2>1. CASE Transform
    <3>1. at = "pass" /\ at' = "header" /\ nest' = nest /\ ir' \in Rewrites
          /\ ir = OriginalIR(nest)
        BY <2>1 DEF Transform
    <3> SUFFICES ASSUME BeforeIsRead(nest), IsValid, BestLoops(nest) # {}
                 PROVE  \E k \in BestLoops(nest) : ir'.payload[k] = Depth(nest)
        BY <3>1 DEF ValidNestsAreInterchanged, IsValid, BeforeIsRead, IsSupported,
            LoopsAreSupported, AccessesAreSupported, Dim
    <3>2. /\ nest \in Nests
          /\ Depth(nest) \in Nat \ {0} /\ Dim(nest) = 1 .. Depth(nest)
          /\ BestLoops(nest) \subseteq Dim(nest)
        BY NestsAssumption, BestLoopsAreLoops DEF TypeOK, IsNest
    <3>3. \A k \in Dim(nest) : OriginalIR(nest).payload[k] = k
        BY DEF OriginalIR
    <3>4. CASE Depth(nest) = 1
      <4>1. ir' = ir
          BY <3>1, <3>4 DEF Rewrites, IsTilingLegal
      <4>. QED BY <3>1, <3>2, <3>3, <3>4, <4>1
    <3>5. CASE Depth(nest) >= 2
      <4>1. PICK k \in BestLoops(nest) :
               ir' = IF k = Depth(nest) THEN ir
                     ELSE ApplyLoopInterchange(nest, ir, k, Depth(nest))
          BY <3>1, <3>5, ValidNestsAreLegal DEF Rewrites
      <4>2. nest.loops[k].type = nest.loops[Depth(nest)].type
          BY <3>2 DEF IsValid
      <4>. QED BY <3>1, <3>2, <3>3, <4>1, <4>2, InterchangePutsInnermost
    <3>. QED BY <3>2, <3>4, <3>5
  <2>2. CASE ~Transform
    <3>1. nest' = nest /\ ir' = ir /\ (at = "pass" <=> at' = "pass")
        BY <2>2 DEF Next, Header, Enter, Leave, Body, Latch, Exited, vars, control
    <3>. QED BY <3>1 DEF ValidNestsAreInterchanged, IsValid, BeforeIsRead, IsSupported,
            LoopsAreSupported, AccessesAreSupported, Dim
  <2>. QED BY <2>1, <2>2
<1>. QED BY TypeCorrect, <1>1, <1>2, PTL DEF Spec
=============================================================================
