--------------------- MODULE RepeatedInterchangeProofs ---------------------
(* Exchanges compose. Whatever the roots of a nest exchange one after the     *)
(* other, on whatever subscripts, the loops that are left are a permutation   *)
(* of those that were written and run what those would. Where subscripts are  *)
(* read afresh, they keep the order of the dependences as well, and a valid   *)
(* nest ends with a best loop innermost.                                      *)
EXTENDS RepeatedInterchange, DataFlowProofs

-----------------------------------------------------------------------------
(* The roots of a nest.                                                      *)

\* A loop optimizeLoopOrder() chooses below the root is a loop below the root.
LEMMA BestLoopsBelowRoot ==
    ASSUME NEW v, NEW d \in Nat \ {0}, Dim(v) = 1 .. d
    PROVE  BestLoops(v) \subseteq 1 .. d
<1>1. ASSUME NEW s, s \in IVs(v) PROVE IndexOf(v, s) \in Dim(v)
    BY <1>1 DEF IVs, IndexOf
<1>. QED BY <1>1 DEF BestLoops, BestIndex

\* The inductive invariant: every loop still runs through some dimension.
RootsInv == RootsTypeOK /\ IsPermuted(nest, ir)

LEMMA DimOfNest ==
    ASSUME NEW n \in Nests
    PROVE  /\ Depth(n) \in Nat /\ Depth(n) >= 2 /\ Dim(n) = 1 .. Depth(n)
           /\ {"loops", "accesses"} \subseteq DOMAIN n
BY NestsAssumption, RootsAssumption DEF IsNest, IsAnalysed

\* The nest under analysis: the loops from the root to the innermost one.
LEMMA ViewBelowRoot ==
    ASSUME nest \in Nests, root \in 1 .. Depth(nest) - 1
    PROVE  Depth(View) = Depth(nest) - root + 1 /\ Dim(View) = 1 .. Depth(View)
<1> DEFINE d  == Depth(nest) - root + 1
           ls == [k \in 1 .. d |->
                    [nest.loops[root + k - 1] EXCEPT !.bound = BoundOf(root + k - 1)]]
<1>1. Depth(nest) \in Nat /\ "loops" \in DOMAIN nest
    BY DimOfNest
<1>2. d \in Nat
    BY <1>1
<1>3. View.loops = ls
    BY <1>1 DEF View
<1>4. DOMAIN ls = 1 .. d
    OBVIOUS
<1> HIDE DEF ls
<1>5. Len(ls) = d
    BY <1>2, <1>4
<1>. QED BY <1>3, <1>4, <1>5 DEF Depth, Dim

\* The cache holds the subscripts as they were written.
LEMMA CacheIsOriginal ==
    ASSUME RootsTypeOK, TransformRoot
    PROVE  cached' = [k \in Dim(nest) |-> k] /\ cached' # NotCached
<1>1. nest \in Nests /\ 1 \in Dim(nest)
    BY DimOfNest DEF RootsTypeOK, TypeOK
<1>2. cached' = [k \in Dim(nest) |-> k]
    BY DEF RootsTypeOK, TransformRoot, OriginalIR
<1>3. [k \in Dim(nest) |-> k] # <<>>
  <2>1. 1 \in DOMAIN [k \in Dim(nest) |-> k]
      BY <1>1
  <2>2. 1 \notin DOMAIN <<>>
      OBVIOUS
  <2>. QED BY <2>1, <2>2
<1>. QED BY <1>2, <1>3 DEF NotCached

\* One turn of the loop over the roots.
LEMMA TransformRootPermutes ==
    ASSUME RootsInv, TransformRoot
    PROVE  RootsInv'
<1>1. /\ nest \in Nests /\ nest' = nest
      /\ Depth(nest) \in Nat /\ Depth(nest) >= 2 /\ Dim(nest) = 1 .. Depth(nest)
      /\ root \in 1 .. Depth(nest) - 1
      /\ IsPermuted(nest, ir)
    BY DimOfNest DEF RootsInv, RootsTypeOK, TypeOK, TransformRoot
<1> DEFINE d == Depth(nest) - root + 1
<1>2. d \in Nat \ {0} /\ \A k \in 1 .. d : root + k - 1 \in Dim(nest)
    BY <1>1
<1>3. Depth(View) = d /\ Dim(View) = 1 .. d
    BY <1>1, ViewBelowRoot
<1>4. IsPermuted(nest, ir')
  <2>1. ir' \in RootRewrites(View)
      BY DEF TransformRoot
  <2>2. BestLoops(View) \subseteq 1 .. d
      BY <1>2, <1>3, BestLoopsBelowRoot
  <2>3. ASSUME NEW k \in BestLoops(View), k # d
        PROVE  IsPermuted(nest, ApplyLoopInterchange(nest, ir, root + k - 1, Depth(nest)))
    <3>1. root + k - 1 \in Dim(nest) /\ root + k - 1 # Depth(nest) /\ Depth(nest) \in Dim(nest)
        BY <1>1, <1>2, <2>2, <2>3
    <3>. QED BY <1>1, <3>1, InterchangePermutes
  <2>. QED BY <1>1, <1>3, <2>1, <2>2, <2>3 DEF RootRewrites
<1>5. cached' = [k \in Dim(nest) |-> k] /\ cached' # NotCached
    BY CacheIsOriginal DEF RootsInv
<1>6. root' \in 1 .. Depth(nest) - 1
    BY <1>1 DEF TransformRoot
<1>7. TypeOK'
  <2>0. TypeOK
      BY DEF RootsInv, RootsTypeOK
  <2>1. ir' \in IRType(nest)
      BY <1>4 DEF IsPermuted
  <2>2. iv' \in [Dim(nest) -> Nat]
      BY <2>0, <2>1 DEF TransformRoot, TypeOK, IRType
  <2>3. at' \in {"pass", "header"} /\ UNCHANGED <<level, executed>>
      BY DEF TransformRoot, data
  <2>. QED BY <1>1, <2>0, <2>1, <2>2, <2>3 DEF TypeOK, IRType
<1>8. IsPermuted(nest, ir)'
    BY <1>1, <1>4 DEF IsPermuted, IRType
<1>9. /\ (\A k, l \in Dim(nest) : ir.payload[k] = ir.payload[l] => k = l)'
      /\ (\A k \in Dim(nest) : /\ ir.bound[ir.payload[k]] = RuntimeBound(nest, k)
                               /\ ir.control[k] = k)'
    BY <1>1, <1>4 DEF IsPermuted
<1>10. root' \in 1 .. Depth(nest') - 1 /\ cached' \in {NotCached, [k \in Dim(nest') |-> k]}
    BY <1>1, <1>5, <1>6
<1>. QED BY <1>5, <1>7, <1>8, <1>9, <1>10 DEF RootsInv, RootsTypeOK

\* A step of the rewritten nest changes neither the IR nor what the roots keep.
LEMMA NestStepKeepsRoots ==
    ASSUME RootsInv, Header \/ Body \/ Latch \/ UNCHANGED vars, UNCHANGED roots
    PROVE  RootsInv'
<1>1. TypeOK'
    BY TypeStep DEF RootsInv, RootsTypeOK, Next
<1>2. UNCHANGED <<nest, ir, root, cached>>
    BY DEF Header, Body, Latch, vars, roots
<1>. QED BY <1>1, <1>2 DEF RootsInv, RootsTypeOK, IsPermuted, IRType

\* The invariant holds initially ...
LEMMA RootsInitTyped == RootsInit => RootsInv
<1> SUFFICES ASSUME RootsInit PROVE RootsInv
    OBVIOUS
<1>1. nest \in Nests /\ TypeOK /\ ir = OriginalIR(nest) /\ cached = NotCached
    BY TypeInit DEF RootsInit, Init
<1>2. root \in 1 .. Depth(nest) - 1
    BY <1>1, DimOfNest DEF RootsInit
<1>. QED BY <1>1, <1>2, OriginalIsPermuted DEF RootsInv, RootsTypeOK, IsPermuted

LEMMA RootsInvIsInvariant == RootsSpec => []RootsInv
<1>1. RootsInv /\ [RootsNext]_<<vars, roots>> => RootsInv'
  <2> SUFFICES ASSUME RootsInv, [RootsNext]_<<vars, roots>> PROVE RootsInv'
      OBVIOUS
  <2>1. CASE TransformRoot
      BY <2>1, TransformRootPermutes
  <2>2. CASE (Header \/ Body \/ Latch \/ UNCHANGED vars) /\ UNCHANGED roots
      BY <2>2, NestStepKeepsRoots
  <2>. QED BY <2>1, <2>2 DEF RootsNext, RootsStep, Exited
<1>. QED BY RootsInitTyped, <1>1, PTL DEF RootsSpec

\* The exchanges of all roots together permute the loops of a nest, of any depth,
\* and its bounds with them: no induction variable, bound or use of the body is
\* lost or doubled by applyLoopInterchange() called again and again.
THEOREM ExchangesCompose == RootsSpec => []RootsTypeOK
BY RootsInvIsInvariant, PTL DEF RootsInv

-----------------------------------------------------------------------------
(* The run of the nest after all exchanges, on whatever subscripts.          *)

\* A turn of the loop over the roots, and the step into the nest after the last.
LEMMA TransformRootInv ==
    ASSUME RootsInv, Inv, TransformRoot
    PROVE  Inv'
<1>1. TypeOK' /\ IsPermuted(nest, ir)'
    BY TransformRootPermutes DEF RootsInv, RootsTypeOK
<1>2. at = "pass" /\ UNCHANGED <<nest, level, data>>
    BY DEF TransformRoot
<1>3. (at' = "header" /\ iv' = ir'.start) \/ UNCHANGED <<at, iv>>
    BY DEF TransformRoot
<1>4. IsPermuted(nest, ir')
    BY <1>1, <1>2 DEF IsPermuted, IRType
<1>. QED BY <1>1, <1>2, <1>3, <1>4, RewriteInv

LEMMA RootsRunInv == RootsSpec => [](RunAlike(nest) => Inv)
<1>1. RootsInit => Inv
    BY InitInv DEF RootsInit
<1>2. (RunAlike(nest) => Inv) /\ RootsInv /\ [RootsNext]_<<vars, roots>> => (RunAlike(nest) => Inv)'
  <2> SUFFICES ASSUME RunAlike(nest) => Inv, RootsInv, [RootsNext]_<<vars, roots>>, RunAlike(nest)'
               PROVE  Inv'
      OBVIOUS
  <2>1. nest' = nest
      BY DEF RootsNext, RootsStep, TransformRoot, Header, Body, Latch, Exited, vars
  <2>2. Inv /\ RunAlike(nest)
      BY <2>1 DEF RunAlike, Extra, Dim
  <2>3. CASE TransformRoot
      BY <2>2, <2>3, TransformRootInv
  <2>4. CASE Header \/ Body \/ Latch \/ UNCHANGED vars
      BY <2>2, <2>4, NestStepInv
  <2>. QED BY <2>3, <2>4 DEF RootsNext, RootsStep, Exited
<1>. QED BY <1>1, <1>2, RootsInvIsInvariant, PTL DEF RootsSpec

\* However many exchanges the roots have made, the instances that have run are those
\* the loops have gone past: none is skipped, repeated or early.
THEOREM RootsRunInOrder == RootsSpec => []ExecutedIsPrefix
<1>1. RootsInv /\ (RunAlike(nest) => Inv) => ExecutedIsPrefix
    BY SupportedLoopsRunAlike, InstancesAreBox DEF Inv, RootsInv, RootsTypeOK, TypeOK, ExecutedIsPrefix
<1>. QED BY RootsRunInv, RootsInvIsInvariant, <1>1, PTL

\* ... and with loops of one predicate and test, supported or not, all have run when
\* the nest is left.
THEOREM RootsKeepTheIterationSpace == RootsSpec => []IterationSpaceIsPreserved
<1>1. RootsInv /\ (RunAlike(nest) => Inv) => IterationSpaceIsPreserved
    BY AllHaveRun DEF RootsInv, RootsTypeOK
<1>. QED BY RootsRunInv, RootsInvIsInvariant, <1>1, PTL

-----------------------------------------------------------------------------
(* What a root sees of a nest with fresh subscripts.                         *)

\* A sum of one term.
LEMMA SumOfOne ==
    ASSUME NEW t, NEW f, DOMAIN f = {t}, f[t] \in Int
    PROVE  SumFunction(f) = f[t]
<1> DEFINE pick(s) == CHOOSE x \in s : TRUE
           iter == CHOOSE g : g = [s \in SUBSET {t} |->
                     IF s = {} THEN 0 ELSE LET x == pick(s) IN f[x] + g[s \ {x}]]
           h == [s \in SUBSET {t} |-> IF s = {} THEN 0 ELSE f[t]]
<1>1. \A s \in SUBSET {t} : s # {} => s = {t} /\ pick(s) = t /\ s \ {t} = {}
    OBVIOUS
<1>2. h = [s \in SUBSET {t} |-> IF s = {} THEN 0 ELSE LET x == pick(s) IN f[x] + h[s \ {x}]]
  <2> HIDE DEF pick
  <2>1. ASSUME NEW s \in SUBSET {t}
        PROVE  h[s] = IF s = {} THEN 0 ELSE LET x == pick(s) IN f[x] + h[s \ {x}]
    <3>1. CASE s = {}
        BY <3>1
    <3>2. CASE s # {}
      <4>1. s = {t} /\ pick(s) = t /\ s \ {t} = {}
          BY <1>1, <3>2
      <4>2. h[s] = f[t] /\ h[{}] = 0
          BY <4>1
      <4> HIDE DEF h
      <4>3. h[s \ {t}] = 0
          BY <4>1, <4>2, Zenon
      <4>4. f[t] + 0 = f[t]
          OBVIOUS
      <4>. QED BY <3>2, <4>1, <4>2, <4>3, <4>4, Zenon
    <3>. QED BY <3>1, <3>2
  <2>2. h = [s \in SUBSET {t} |-> h[s]]
      OBVIOUS
  <2> HIDE DEF h
  <2>. QED BY <2>1, <2>2, Zenon
<1> HIDE DEF h
<1>3. iter = [s \in SUBSET {t} |-> IF s = {} THEN 0 ELSE LET x == pick(s) IN f[x] + iter[s \ {x}]]
    BY <1>2, Zenon
<1>4. SumFunction(f) = iter[{t}]
    BY Zenon DEF SumFunction, SumFunctionOnSet, FoldFunctionOnSet, MapThenFoldSet
<1> HIDE DEF iter, pick
<1>5. iter[{t}] = f[t] + iter[{t} \ {t}]
    BY <1>1, <1>3, {t} \in SUBSET {t}, {t} # {}
<1>6. iter[{}] = 0
    BY <1>3, {} \in SUBSET {t}
<1>. QED BY <1>4, <1>5, <1>6

\* The value of an induction variable by itself.
LEMMA ValueOfPhi ==
    ASSUME NEW n, NEW e, NEW t \in IVs(n), NEW x,
           e.const = 0, DOMAIN e.terms = {t}, e.terms[t] = 1, x[IndexOf(n, t)] \in Int
    PROVE  Linear(n, e, x) = x[IndexOf(n, t)]
<1> DEFINE f == [s \in DOMAIN e.terms |-> e.terms[s] * SymbolValue(n, x, s)]
<1>1. SymbolValue(n, x, t) = x[IndexOf(n, t)]
    BY DEF SymbolValue
<1>2. DOMAIN f = {t} /\ f[t] = 1 * x[IndexOf(n, t)]
    BY <1>1
<1>3. f[t] = x[IndexOf(n, t)]
    BY <1>2
<1>4. Linear(n, e, x) = 0 + SumFunction(f)
    BY DEF Linear, SumOfTerms
<1> HIDE DEF f
<1>5. SumFunction(f) = f[t]
    BY <1>2, <1>3, SumOfOne
<1>. QED BY <1>3, <1>4, <1>5

\* The subscript e, as written, is read as f: a PHI by itself as the one the body's
\* uses of its dimension have now, an expression without PHIs as it is.
ReadsPhi(n, p, e, f) ==
    \E k \in Dim(n) :
        /\ e.op = "affine" /\ e.const = 0
        /\ DOMAIN e.terms = {n.loops[k].iv} /\ e.terms[n.loops[k].iv] = 1
        /\ f.op = "affine" /\ f.const = 0
        /\ DOMAIN f.terms = {n.loops[p[k]].iv} /\ f.terms[n.loops[p[k]].iv] = 1

ReadsNoPhi(n, e, f) ==
    /\ f.op = e.op /\ f.const = e.const
    /\ DOMAIN e.terms \cap IVs(n) = {}
    /\ DOMAIN f.terms = DOMAIN e.terms
    /\ \A s \in DOMAIN e.terms : f.terms[s] = e.terms[s]

\* What analyzeLoopNest() makes of the loops from r on of nest n, when the body's
\* uses read the PHIs in the order p.
IsView(n, p, r, V) ==
    /\ Depth(V) = Depth(n) - r + 1
    /\ Dim(V) = 1 .. Depth(V)
    /\ V.comparators = n.comparators
    /\ \A k \in Dim(V) : /\ V.loops[k].iv = n.loops[r + k - 1].iv
                          /\ V.loops[k].bound = n.loops[DimensionIn(n, p, r + k - 1)].bound
    /\ DOMAIN V.accesses = DOMAIN n.accesses
    /\ \A m \in DOMAIN n.accesses :
          /\ V.accesses[m].kind = n.accesses[m].kind
          /\ V.accesses[m].base = n.accesses[m].base
          /\ DOMAIN V.accesses[m].subscripts = DOMAIN n.accesses[m].subscripts
          /\ V.accesses[m].subscripts = <<>> <=> n.accesses[m].subscripts = <<>>
          /\ \A d \in DOMAIN n.accesses[m].subscripts :
                LET e == n.accesses[m].subscripts[d]
                    f == V.accesses[m].subscripts[d]
                IN  ReadsPhi(n, p, e, f) \/ ReadsNoPhi(n, e, f)

LEMMA AnalysedNest ==
    ASSUME NEW n \in Nests
    PROVE  /\ IsAnalysed(n)
           /\ \A k \in Dim(n) : n.loops[k].iv \in IVs(n) /\ IndexOf(n, n.loops[k].iv) = k
<1>1. IsAnalysed(n)
    BY RootsAssumption
<1>. QED BY <1>1 DEF IsAnalysed, IVs, IndexOf

\* A fresh subscript is read as it is now, whenever ScalarEvolution first saw it.
LEMMA FreshSubscript ==
    ASSUME nest \in Nests, SubscriptsAreFresh,
           NEW m \in DOMAIN nest.accesses, NEW d \in DOMAIN nest.accesses[m].subscripts
    PROVE  LET e == nest.accesses[m].subscripts[d]
           IN  ReadsPhi(nest, ir.payload, e, Subscript(e)) \/ ReadsNoPhi(nest, e, Subscript(e))
<1> DEFINE e == nest.accesses[m].subscripts[d]
<1>1. {"op", "const", "terms"} \subseteq DOMAIN e
    BY AnalysedNest DEF IsAnalysed
<1>2. IsBare(e) \/ DOMAIN e.terms \cap IVs(nest) = {}
    BY DEF SubscriptsAreFresh
<1> HIDE DEF e
<1>3. ASSUME NEW p
      PROVE  /\ Under(p, e).op = e.op /\ Under(p, e).const = e.const
             /\ Under(p, e).terms =
                  [t \in {SymbolUnder(p, s) : s \in DOMAIN e.terms} |->
                      e.terms[CHOOSE s \in DOMAIN e.terms : SymbolUnder(p, s) = t]]
    BY <1>1 DEF Under
<1>4. CASE IsBare(e)
  <2>1. PICK s \in DOMAIN e.terms :
           /\ e.op = "affine" /\ e.const = 0
           /\ DOMAIN e.terms = {s} /\ e.terms[s] = 1 /\ s \in IVs(nest)
      BY <1>4 DEF IsBare
  <2>2. PICK k \in Dim(nest) : s = nest.loops[k].iv
      BY <2>1 DEF IVs
  <2>3. SymbolUnder(ir.payload, s) = nest.loops[ir.payload[k]].iv
      BY <2>1, <2>2, AnalysedNest DEF SymbolUnder, Phi
  <2>4. Subscript(e) = Under(ir.payload, e)
      BY <1>4 DEF Subscript
  <2> DEFINE f == Under(ir.payload, e)
             t == nest.loops[ir.payload[k]].iv
  <2>5. {SymbolUnder(ir.payload, u) : u \in DOMAIN e.terms} = {t}
      BY <2>1, <2>3
  <2>6. f.terms = [v \in {t} |-> e.terms[CHOOSE u \in DOMAIN e.terms : SymbolUnder(ir.payload, u) = v]]
    <3>1. f.terms = [v \in {SymbolUnder(ir.payload, u) : u \in DOMAIN e.terms} |->
                        e.terms[CHOOSE u \in DOMAIN e.terms : SymbolUnder(ir.payload, u) = v]]
        BY <1>3
    <3> HIDE DEF f, t
    <3>. QED BY <2>5, <3>1
  <2>7. (CHOOSE u \in DOMAIN e.terms : SymbolUnder(ir.payload, u) = t) = s
      BY <2>1, <2>3
  <2>8. f.op = "affine" /\ f.const = 0 /\ DOMAIN f.terms = {t} /\ f.terms[t] = 1
      BY <1>3, <2>1, <2>6, <2>7
  <2> HIDE DEF f
  <2>. QED BY <2>1, <2>2, <2>4, <2>8 DEF ReadsPhi, e, f
<1>5. CASE DOMAIN e.terms \cap IVs(nest) = {}
  <2>1. ASSUME NEW p PROVE ReadsNoPhi(nest, e, Under(p, e))
    <3>1. \A s \in DOMAIN e.terms : SymbolUnder(p, s) = s
        BY <1>5 DEF SymbolUnder
    <3>2. {SymbolUnder(p, s) : s \in DOMAIN e.terms} = DOMAIN e.terms
        BY <3>1
    <3>3. \A t \in DOMAIN e.terms : (CHOOSE s \in DOMAIN e.terms : SymbolUnder(p, s) = t) = t
        BY <3>1
    <3> DEFINE g == Under(p, e)
    <3>4. g.terms = [t \in DOMAIN e.terms |->
                       e.terms[CHOOSE s \in DOMAIN e.terms : SymbolUnder(p, s) = t]]
        BY <1>3, <3>2
    <3>5. g.op = e.op /\ g.const = e.const
        BY <1>3
    <3> HIDE DEF g
    <3>6. DOMAIN g.terms = DOMAIN e.terms /\ \A t \in DOMAIN e.terms : g.terms[t] = e.terms[t]
        BY <3>3, <3>4
    <3>. QED BY <1>5, <3>5, <3>6 DEF ReadsNoPhi, g
  <2>. QED BY <2>1 DEF Subscript, e
<1>. QED BY <1>2, <1>4, <1>5

\* The nest a root sees, as a relation to the nest as written.
LEMMA ViewOfFreshNest ==
    ASSUME nest \in Nests, root \in 1 .. Depth(nest) - 1, SubscriptsAreFresh
    PROVE  IsView(nest, ir.payload, root, View)
<1> DEFINE d  == Depth(nest) - root + 1
           ls == [k \in 1 .. d |->
                    [nest.loops[root + k - 1] EXCEPT !.bound = BoundOf(root + k - 1)]]
           sub(m) == [i \in DOMAIN nest.accesses[m].subscripts |->
                        Subscript(nest.accesses[m].subscripts[i])]
           as == [m \in DOMAIN nest.accesses |-> [nest.accesses[m] EXCEPT !.subscripts = sub(m)]]
<1>1. /\ IsAnalysed(nest)
      /\ Depth(nest) \in Nat /\ Dim(nest) = 1 .. Depth(nest)
      /\ DOMAIN nest.accesses = 1 .. Len(nest.accesses)
    BY AnalysedNest, NestsAssumption DEF IsNest
<1>2. Depth(View) = d /\ Dim(View) = 1 .. d
    BY ViewBelowRoot
<1>3. View.loops = ls /\ View.accesses = as /\ View.comparators = nest.comparators
    BY <1>1 DEF View, IsAnalysed
<1>4. \A k \in 1 .. d : root + k - 1 \in Dim(nest)
    BY <1>1
<1>5. ASSUME NEW k \in 1 .. d
      PROVE  /\ View.loops[k].iv = nest.loops[root + k - 1].iv
             /\ View.loops[k].bound = nest.loops[DimensionIn(nest, ir.payload, root + k - 1)].bound
  <2>1. View.loops[k] = [nest.loops[root + k - 1] EXCEPT !.bound = BoundOf(root + k - 1)]
      BY <1>3
  <2>2. {"iv", "type", "bound"} \subseteq DOMAIN nest.loops[root + k - 1]
      BY <1>1, <1>4 DEF IsAnalysed
  <2>. QED BY <2>1, <2>2 DEF BoundOf, DimensionOf, DimensionIn
<1>6. DOMAIN View.accesses = DOMAIN nest.accesses
    BY <1>3
<1>7. ASSUME NEW m \in DOMAIN nest.accesses
      PROVE  /\ View.accesses[m].kind = nest.accesses[m].kind
             /\ View.accesses[m].base = nest.accesses[m].base
             /\ DOMAIN View.accesses[m].subscripts = DOMAIN nest.accesses[m].subscripts
             /\ View.accesses[m].subscripts = <<>> <=> nest.accesses[m].subscripts = <<>>
             /\ \A i \in DOMAIN nest.accesses[m].subscripts :
                   View.accesses[m].subscripts[i] = Subscript(nest.accesses[m].subscripts[i])
  <2> DEFINE a == nest.accesses[m]
  <2>1. {"kind", "base", "subscripts"} \subseteq DOMAIN a
      BY <1>1 DEF IsAnalysed
  <2>2. View.accesses[m] = [a EXCEPT !.subscripts = sub(m)]
      BY <1>3
  <2>3. View.accesses[m].subscripts = sub(m) /\ View.accesses[m].kind = a.kind /\ View.accesses[m].base = a.base
      BY <2>1, <2>2
  <2>4. /\ DOMAIN sub(m) = DOMAIN a.subscripts
        /\ \A i \in DOMAIN a.subscripts : sub(m)[i] = Subscript(a.subscripts[i])
      OBVIOUS
  <2>5. DOMAIN a.subscripts = 1 .. Len(a.subscripts) /\ Len(a.subscripts) \in Nat
      BY NestsAssumption DEF IsNest, Rank
  <2> HIDE DEF a, sub
  <2>6. sub(m) = <<>> => a.subscripts = <<>>
    <3>1. sub(m) = <<>> => DOMAIN a.subscripts = {}
        BY <2>4
    <3>2. Len(a.subscripts) # 0 => 1 \in DOMAIN a.subscripts
        BY <2>5
    <3>3. sub(m) = <<>> => Len(a.subscripts) = 0
        BY <3>1, <3>2
    <3>. QED BY <2>5, <3>3
  <2>7. a.subscripts = <<>> => sub(m) = <<>>
    <3>1. a.subscripts = <<>> => DOMAIN a.subscripts = {}
        OBVIOUS
    <3>. QED BY <2>4, <3>1 DEF a, sub
  <2>. QED BY <2>3, <2>4, <2>6, <2>7 DEF a
<1>8. ASSUME NEW m \in DOMAIN nest.accesses, NEW i \in DOMAIN nest.accesses[m].subscripts
      PROVE  \/ ReadsPhi(nest, ir.payload, nest.accesses[m].subscripts[i], View.accesses[m].subscripts[i])
             \/ ReadsNoPhi(nest, nest.accesses[m].subscripts[i], View.accesses[m].subscripts[i])
    BY <1>7, FreshSubscript
<1>. QED BY <1>2, <1>3, <1>5, <1>6, <1>7, <1>8 DEF IsView

-----------------------------------------------------------------------------
(* What a root finds legal.                                                  *)

\* The loops a root sees are loops of the nest, ...
LEMMA LoopsOfView ==
    ASSUME NEW n \in Nests, NEW p, NEW r \in 1 .. Depth(n) - 1, NEW V, IsView(n, p, r, V)
    PROVE  /\ Depth(n) \in Nat /\ Dim(n) = 1 .. Depth(n)
           /\ Dim(V) = 1 .. Depth(n) - r + 1
           /\ IVs(V) \subseteq IVs(n)
<1>1. Depth(n) \in Nat /\ Dim(n) = 1 .. Depth(n)
    BY DimOfNest
<1>2. /\ Dim(V) = 1 .. Depth(n) - r + 1
      /\ \A k \in Dim(V) : V.loops[k].iv = n.loops[r + k - 1].iv
    BY DEF IsView
<1>3. \A k \in Dim(V) : r + k - 1 \in Dim(n)
    BY <1>1, <1>2
<1>4. IVs(V) \subseteq IVs(n)
    BY <1>2, <1>3 DEF IVs
<1>. QED BY <1>1, <1>2, <1>4

\* ... those from the root on, in their order.
LEMMA PhisOfView ==
    ASSUME NEW n \in Nests, NEW p, NEW r \in 1 .. Depth(n) - 1, NEW V, IsView(n, p, r, V),
           NEW k \in Dim(n)
    PROVE  /\ n.loops[k].iv \in IVs(V) => k >= r
           /\ k >= r => /\ n.loops[k].iv \in IVs(V)
                       /\ IndexOf(V, n.loops[k].iv) = k - r + 1
<1>1. /\ Depth(n) \in Nat /\ Dim(n) = 1 .. Depth(n)
      /\ \A j, l \in Dim(n) : n.loops[j].iv = n.loops[l].iv => j = l
    BY DimOfNest, AnalysedNest DEF IsAnalysed
<1>2. /\ Dim(V) = 1 .. Depth(n) - r + 1
      /\ \A j \in Dim(V) : V.loops[j].iv = n.loops[r + j - 1].iv
    BY DEF IsView
<1>3. \A j \in Dim(V) : r + j - 1 \in Dim(n)
    BY <1>1, <1>2
<1>4. \A j \in Dim(V) : V.loops[j].iv = n.loops[k].iv => r + j - 1 = k
    BY <1>1, <1>2, <1>3
<1>5. \A j \in Dim(V) : r + j - 1 = k => k >= r /\ j = k - r + 1
    BY <1>1, <1>2
<1>6. n.loops[k].iv \in IVs(V) => k >= r
    BY <1>4, <1>5 DEF IVs
<1>7. ASSUME k >= r
      PROVE  n.loops[k].iv \in IVs(V) /\ IndexOf(V, n.loops[k].iv) = k - r + 1
  <2>1. k - r + 1 \in Dim(V) /\ r + (k - r + 1) - 1 = k
      BY <1>1, <1>2, <1>7
  <2>2. V.loops[k - r + 1].iv = n.loops[k].iv
      BY <1>2, <2>1
  <2>3. \A j \in Dim(V) : V.loops[j].iv = n.loops[k].iv => j = k - r + 1
      BY <1>4, <1>5
  <2>. QED BY <2>1, <2>2, <2>3 DEF IVs, IndexOf
<1>. QED BY <1>6, <1>7

\* The part of instance x that the loops from r on run through.
Below(n, p, r, x) == [k \in 1 .. Depth(n) - r + 1 |-> x[DimensionIn(n, p, r + k - 1)]]

\* It is in the domain the root gives to isl.
LEMMA BelowInDomain ==
    ASSUME NEW n \in Nests, IsSupported(n), NEW q, IsPermuted(n, q),
           NEW r \in 1 .. Depth(n) - 1, NEW V, IsView(n, q.payload, r, V), DomainIsRead(V),
           NEW x \in Box(n)
    PROVE  Below(n, q.payload, r, x) \in Domain(V)
<1>1. /\ Depth(n) \in Nat /\ Dim(n) = 1 .. Depth(n)
      /\ Dim(V) = 1 .. Depth(n) - r + 1
      /\ IVs(V) \subseteq IVs(n)
    BY LoopsOfView
<1> DEFINE D(k) == DimensionIn(n, q.payload, k)
           b == Below(n, q.payload, r, x)
<1>2. ASSUME NEW k \in Dim(V)
      PROVE  b[k] \in 0 .. Upper(V, k).const - 1 /\ b[k] < Upper(V, k).const
  <2>1. r + k - 1 \in Dim(n)
      BY <1>1
  <2>2. D(r + k - 1) \in Dim(n)
      BY <2>1, LoopsAndDimensions
  <2> DEFINE d == D(r + k - 1)
             e == n.loops[d].bound
  <2>3. V.loops[k].bound = e
      BY DEF IsView
  <2>4. b[k] = x[d]
      BY <1>1 DEF Below
  <2> HIDE DEF d, b
  <2>5. e.op = "affine" /\ DOMAIN e.terms \cap IVs(n) = {}
      BY <2>2, NestsAssumption DEF IsSupported, LoopsAreSupported, IsNest, d
  <2>6. Upper(V, k) = [const |-> e.const, terms |-> e.terms]
      BY <2>3, <2>5 DEF Upper, CreateExprFromSCEV
  <2>7. DOMAIN e.terms = {}
      BY <1>1, <2>5, <2>6 DEF DomainIsRead, MentionsOnlyIVs
  <2>8. RuntimeBound(n, d) = e.const
      BY <2>5, <2>7 DEF RuntimeBound, Value, Linear, SumOfTerms
  <2>9. d \in Dim(n)
      BY <2>2 DEF d
  <2>10. x[d] \in Nat /\ x[d] < RuntimeBound(n, d) /\ RuntimeBound(n, d) \in Nat
      BY <2>9, SupportedLoopsRunAlike, ExtentsTyped DEF Box, IsSupported
  <2>. QED BY <2>4, <2>6, <2>8, <2>10
<1>3. DOMAIN b = Dim(V) /\ b = [k \in DOMAIN b |-> b[k]]
    BY <1>1 DEF Below
<1> HIDE DEF b
<1>4. b \in [Dim(V) -> UNION {0 .. Upper(V, k).const - 1 : k \in Dim(V)}]
    BY <1>2, <1>3
<1>. QED BY <1>2, <1>4 DEF Domain, b

\* A subscript that isl reads has, below the root, the value it has in the nest,
\* unless the IV it reads is one of the loops around the root: then it is any value.
LEMMA SubscriptAsRead ==
    ASSUME NEW n \in Nests, NEW q, IsPermuted(n, q), NEW r \in 1 .. Depth(n) - 1,
           NEW V, IsView(n, q.payload, r, V), NEW e, NEW f, e.op = "affine",
           ReadsPhi(n, q.payload, e, f) \/ ReadsNoPhi(n, e, f),
           LET s == CreateExprFromSCEV(f) IN MentionsOnlyIVs(V, s) \/ IsAnyValue(V, s),
           ~IsAnyValue(V, CreateExprFromSCEV(f)), NEW x \in Box(n)
    PROVE  Linear(V, CreateExprFromSCEV(f), Below(n, q.payload, r, x)) = Value(n, e, x)
<1> DEFINE s == CreateExprFromSCEV(f)
           b == Below(n, q.payload, r, x)
<1>1. /\ Depth(n) \in Nat /\ Dim(n) = 1 .. Depth(n)
      /\ IVs(V) \subseteq IVs(n)
    BY LoopsOfView
<1>2. f.op = "affine"
    BY DEF ReadsPhi, ReadsNoPhi
<1>3. s.const = f.const /\ s.terms = f.terms
    BY <1>2 DEF CreateExprFromSCEV
<1>4. MentionsOnlyIVs(V, s) /\ ~IsAnyValue(V, s)
    OBVIOUS
<1>5. Value(n, e, x) = Linear(n, e, x)
    BY DEF Value
<1> HIDE DEF s
<1>6. CASE ReadsPhi(n, q.payload, e, f)
  <2>1. PICK k \in Dim(n) :
           /\ e.op = "affine" /\ e.const = 0
           /\ DOMAIN e.terms = {n.loops[k].iv} /\ e.terms[n.loops[k].iv] = 1
           /\ f.op = "affine" /\ f.const = 0
           /\ DOMAIN f.terms = {n.loops[q.payload[k]].iv} /\ f.terms[n.loops[q.payload[k]].iv] = 1
      BY <1>6 DEF ReadsPhi
  <2> DEFINE l == q.payload[k]
             t == n.loops[l].iv
  <2>2. l \in Dim(n) /\ DimensionIn(n, q.payload, l) = k
      BY LoopsAndDimensions
  <2>3. t \in IVs(V)
      BY <1>3, <1>4, <2>1 DEF MentionsOnlyIVs
  <2>4. l >= r /\ IndexOf(V, t) = l - r + 1
      BY <2>2, <2>3, PhisOfView
  <2> HIDE DEF l
  <2>5. l - r + 1 \in 1 .. Depth(n) - r + 1 /\ r + (l - r + 1) - 1 = l
      BY <1>1, <2>2, <2>4
  <2>6. b[l - r + 1] = x[k]
      BY <2>2, <2>5 DEF Below
  <2>7. x[k] \in Int
      BY DEF Box
  <2>8. n.loops[k].iv \in IVs(n) /\ IndexOf(n, n.loops[k].iv) = k
      BY AnalysedNest
  <2>9. Linear(n, e, x) = x[k]
    <3> DEFINE u == n.loops[k].iv
    <3>1. /\ u \in IVs(n) /\ IndexOf(n, u) = k
          /\ e.const = 0 /\ DOMAIN e.terms = {u} /\ e.terms[u] = 1
        BY <2>1, <2>8
    <3> HIDE DEF u
    <3>2. x[IndexOf(n, u)] \in Int
        BY <2>7, <3>1
    <3>3. Linear(n, e, x) = x[IndexOf(n, u)]
        BY <3>1, <3>2, ValueOfPhi
    <3>. QED BY <3>1, <3>3
  <2> HIDE DEF b
  <2>10. s.const = 0 /\ DOMAIN s.terms = {t} /\ s.terms[t] = 1
      BY <1>3, <2>1 DEF l
  <2> HIDE DEF t
  <2>11. Linear(V, s, b) = b[IndexOf(V, t)]
      BY <2>3, <2>4, <2>6, <2>7, <2>10, ValueOfPhi
  <2>. QED BY <1>5, <2>4, <2>6, <2>9, <2>11 DEF s, b
<1>7. CASE ReadsNoPhi(n, e, f)
  <2>1. /\ f.const = e.const /\ DOMAIN f.terms = DOMAIN e.terms
        /\ DOMAIN e.terms \cap IVs(n) = {}
      BY <1>7 DEF ReadsNoPhi
  <2>2. DOMAIN s.terms = {} /\ DOMAIN e.terms = {}
      BY <1>1, <1>3, <1>4, <2>1 DEF MentionsOnlyIVs
  <2>3. Linear(V, s, b) = f.const /\ Linear(n, e, x) = e.const
      BY <1>3, <2>2 DEF Linear, SumOfTerms
  <2>. QED BY <1>5, <2>1, <2>3 DEF s
<1>. QED BY <1>6, <1>7

\* Dependent instances are in conflict below every root.
LEMMA DependenceIsSeen ==
    ASSUME NEW n \in Nests, IsSupported(n), NEW q, IsPermuted(n, q),
           NEW r \in 1 .. Depth(n) - 1, NEW V, IsView(n, q.payload, r, V), AccessesAreRead(V),
           NEW w \in Box(n), NEW x \in Box(n), <<w, x>> \in TrueDependences(n)
    PROVE  Conflicts(V, Below(n, q.payload, r, w), Below(n, q.payload, r, x))
<1>1. PICK k \in DOMAIN n.accesses, l \in DOMAIN n.accesses :
         /\ IsConflicting(n.accesses[k], n.accesses[l])
         /\ Address(n, n.accesses[k], w) = Address(n, n.accesses[l], x)
    BY DEF TrueDependences
<1> DEFINE a == n.accesses[k]
           b == n.accesses[l]
           A == V.accesses[k]
           B == V.accesses[l]
           y == Below(n, q.payload, r, w)
           z == Below(n, q.payload, r, x)
<1>2. SameIndices(n, n.accesses[k], w, n.accesses[l], x)
    BY <1>1, SameAddressSameIndices
<1>3. /\ k \in DOMAIN V.accesses /\ l \in DOMAIN V.accesses
      /\ A.kind = a.kind /\ A.base = a.base /\ DOMAIN A.subscripts = DOMAIN a.subscripts
      /\ A.subscripts = <<>> <=> a.subscripts = <<>>
      /\ B.kind = b.kind /\ B.base = b.base /\ DOMAIN B.subscripts = DOMAIN b.subscripts
      /\ B.subscripts = <<>> <=> b.subscripts = <<>>
    BY DEF IsView
<1>4. \A d \in DOMAIN a.subscripts :
         LET e == a.subscripts[d]
             f == A.subscripts[d]
         IN  ReadsPhi(n, q.payload, e, f) \/ ReadsNoPhi(n, e, f)
    BY DEF IsView
<1>5. \A d \in DOMAIN b.subscripts :
         LET e == b.subscripts[d]
             f == B.subscripts[d]
         IN  ReadsPhi(n, q.payload, e, f) \/ ReadsNoPhi(n, e, f)
    BY DEF IsView
<1>6. \A m \in DOMAIN V.accesses : \A d \in DOMAIN Subscripts(V.accesses[m]) :
         \/ MentionsOnlyIVs(V, Subscripts(V.accesses[m])[d])
         \/ IsAnyValue(V, Subscripts(V.accesses[m])[d])
    BY DEF AccessesAreRead
<1>7. /\ \A d \in DOMAIN Subscripts(A) :
            MentionsOnlyIVs(V, Subscripts(A)[d]) \/ IsAnyValue(V, Subscripts(A)[d])
      /\ \A d \in DOMAIN Subscripts(B) :
            MentionsOnlyIVs(V, Subscripts(B)[d]) \/ IsAnyValue(V, Subscripts(B)[d])
    BY <1>3, <1>6
<1>8. IsConflicting(A, B)
    BY <1>1, <1>3 DEF IsConflicting
<1>9. SameIndices(n, a, w, b, x)
    BY <1>2
<1>10. SameElement(V, A, y, B, z)
  <2> HIDE DEF a, b, A, B, y, z
  <2>0. /\ a.base = b.base /\ DOMAIN a.subscripts = DOMAIN b.subscripts
        /\ (a.subscripts = <<>>) <=> (b.subscripts = <<>>)
        /\ \A d \in DOMAIN a.subscripts :
              /\ a.subscripts[d].op = "affine" /\ b.subscripts[d].op = "affine"
              /\ Value(n, a.subscripts[d], w) = Value(n, b.subscripts[d], x)
      BY <1>9 DEF SameIndices
  <2>1. CASE a.subscripts = <<>>
    <3>1. Subscripts(A) = <<Zero>> /\ Subscripts(B) = <<Zero>>
        BY <1>3, <2>0, <2>1 DEF Subscripts
    <3>2. Linear(V, Zero, y) = 0 /\ Linear(V, Zero, z) = 0
        BY DEF Linear, SumOfTerms, Zero
    <3>. QED BY <1>3, <2>0, <3>1, <3>2 DEF SameElement
  <2>2. CASE a.subscripts # <<>>
    <3>1. /\ Subscripts(A) = [d \in DOMAIN A.subscripts |-> CreateExprFromSCEV(A.subscripts[d])]
          /\ Subscripts(B) = [d \in DOMAIN B.subscripts |-> CreateExprFromSCEV(B.subscripts[d])]
        BY <1>3, <2>0, <2>2 DEF Subscripts
    <3>2. ASSUME NEW d \in DOMAIN Subscripts(A),
                 ~IsAnyValue(V, Subscripts(A)[d]), ~IsAnyValue(V, Subscripts(B)[d])
          PROVE  Linear(V, Subscripts(A)[d], y) = Linear(V, Subscripts(B)[d], z)
      <4>1. /\ d \in DOMAIN a.subscripts /\ d \in DOMAIN b.subscripts /\ d \in DOMAIN Subscripts(B)
            /\ Subscripts(A)[d] = CreateExprFromSCEV(A.subscripts[d])
            /\ Subscripts(B)[d] = CreateExprFromSCEV(B.subscripts[d])
          BY <1>3, <2>0, <3>1, <3>2
      <4>2. a.subscripts[d].op = "affine" /\ b.subscripts[d].op = "affine"
          BY <2>0, <4>1
      <4>3. Linear(V, Subscripts(A)[d], y) = Value(n, a.subscripts[d], w)
          BY <1>4, <1>7, <3>2, <4>1, <4>2, SubscriptAsRead DEF y
      <4>4. Linear(V, Subscripts(B)[d], z) = Value(n, b.subscripts[d], x)
          BY <1>5, <1>7, <3>2, <4>1, <4>2, SubscriptAsRead DEF z
      <4>. QED BY <2>0, <4>1, <4>3, <4>4
    <3>3. DOMAIN Subscripts(A) = DOMAIN Subscripts(B)
        BY <1>3, <2>0, <3>1
    <3>. QED BY <1>3, <2>0, <3>2, <3>3 DEF SameElement
  <2>. QED BY <2>1, <2>2
<1>. QED BY <1>3, <1>8, <1>10 DEF Conflicts

\* Two loops in one another's place.
Exchanged(k, i, j) == IF k = i THEN j ELSE IF k = j THEN i ELSE k

\* After an exchange, a loop runs through the dimension of the other.
LEMMA ExchangedDimension ==
    ASSUME NEW n \in Nests, NEW q, IsPermuted(n, q), NEW i \in Dim(n), NEW j \in Dim(n), i # j,
           n.loops[i].type = n.loops[j].type, NEW k \in Dim(n)
    PROVE  DimensionIn(n, ApplyLoopInterchange(n, q, i, j).payload, k)
               = DimensionIn(n, q.payload, Exchanged(k, i, j))
<1> DEFINE s == ApplyLoopInterchange(n, q, i, j)
           l == Exchanged(k, i, j)
<1>1. l \in Dim(n)
    BY DEF Exchanged
<1> DEFINE d == DimensionIn(n, q.payload, l)
<1>2. d \in Dim(n) /\ q.payload[d] = l
    BY <1>1, LoopsAndDimensions
<1>3. s.payload = [m \in Dim(n) |-> CASE q.payload[m] = i -> j
                                      [] q.payload[m] = j -> i
                                      [] OTHER -> q.payload[m]]
    BY DEF ApplyLoopInterchange, Swapped, IsPermuted, IRType
<1>4. IsPermuted(n, s)
    BY InterchangePermutes
<1> HIDE DEF s, d
<1>5. s.payload[d] = k
    BY <1>2, <1>3 DEF Exchanged
<1>6. DimensionIn(n, s.payload, s.payload[d]) = d
    BY <1>2, <1>4, LoopsAndDimensions
<1>. QED BY <1>5, <1>6 DEF s, d

\* What the loops around the root leave undecided, the loops below it order: when isl
\* finds no negative distance there, every exchange there keeps the order of the whole nest.
LEMMA RootKeepsOrder ==
    ASSUME NEW n \in Nests, IsSupported(n), NEW q, IsPermuted(n, q), KeepsOrder(n, q),
           NEW r \in 1 .. Depth(n) - 1, NEW V, IsView(n, q.payload, r, V), IsTilingLegal(V),
           NEW i \in Dim(n), r <= i, i # Depth(n)
    PROVE  KeepsOrder(n, ApplyLoopInterchange(n, q, i, Depth(n)))
<1> DEFINE N == Depth(n)
           s == ApplyLoopInterchange(n, q, i, N)
           D(k) == DimensionIn(n, q.payload, k)
           E(k) == DimensionIn(n, s.payload, k)
<1>1. /\ N \in Nat /\ N >= 2 /\ Dim(n) = 1 .. N /\ N \in Dim(n)
      /\ Instances(n) = Box(n)
    BY DimOfNest, InstancesAreBox
<1>2. CASE n.loops[i].type # n.loops[N].type
    BY <1>2 DEF ApplyLoopInterchange
<1>3. CASE n.loops[i].type = n.loops[N].type
  <2>1. \A k \in Dim(n) : E(k) = D(Exchanged(k, i, N))
      BY <1>1, <1>3, ExchangedDimension
  <2>2. \A k \in Dim(n) : D(k) \in Dim(n)
      BY LoopsAndDimensions
  <2> HIDE DEF D, E
  <2> SUFFICES ASSUME NEW xy \in TrueDependences(n)
               PROVE  LexBefore(ScheduledIn(n, s.payload, xy[1]), ScheduledIn(n, s.payload, xy[2]))
      BY DEF KeepsOrder
  <2> DEFINE w == xy[1]
             x == xy[2]
             y == [k \in Dim(n) |-> w[D(k)]]
             z == [k \in Dim(n) |-> x[D(k)]]
             Y == [k \in Dim(n) |-> w[E(k)]]
             Z == [k \in Dim(n) |-> x[E(k)]]
  <2>3. /\ ScheduledIn(n, q.payload, w) = y /\ ScheduledIn(n, q.payload, x) = z
        /\ ScheduledIn(n, s.payload, w) = Y /\ ScheduledIn(n, s.payload, x) = Z
      BY DEF ScheduledIn, D, E
  <2>4. w \in Box(n) /\ x \in Box(n) /\ <<w, x>> \in TrueDependences(n)
      BY <1>1 DEF TrueDependences
  <2>5. LexBefore(y, z)
      BY <2>3 DEF KeepsOrder
  <2>6. \A d \in Dim(n) : w[d] \in Nat /\ x[d] \in Nat
      BY <2>4 DEF Box
  <2> HIDE DEF s, w, x
  <2>7. \A k \in Dim(n) : /\ y[k] \in Nat /\ z[k] \in Nat
                           /\ Y[k] = y[Exchanged(k, i, N)] /\ Z[k] = z[Exchanged(k, i, N)]
      BY <1>1, <2>1, <2>2, <2>6 DEF Exchanged
  <2>8. DOMAIN y = Dim(n) /\ DOMAIN Y = Dim(n)
      OBVIOUS
  <2>9. \A k \in 1 .. N - r + 1 : /\ r + k - 1 \in Dim(n)
                                   /\ Below(n, q.payload, r, w)[k] = y[r + k - 1]
                                   /\ Below(n, q.payload, r, x)[k] = z[r + k - 1]
      BY <1>1 DEF Below, D
  <2> HIDE DEF y, z, Y, Z, N
  <2>10. PICK m \in Dim(n) : y[m] < z[m] /\ \A j \in 1 .. m - 1 : y[j] = z[j]
      BY <2>5, <2>8 DEF LexBefore
  <2>11. CASE m < r
    <3>1. \A j \in 1 .. m : j \in Dim(n) /\ Exchanged(j, i, N) = j
        BY <1>1, <2>11 DEF Exchanged
    <3>2. Y[m] < Z[m] /\ \A j \in 1 .. m - 1 : Y[j] = Z[j]
        BY <1>1, <2>7, <2>10, <3>1
    <3>3. LexBefore(Y, Z)
        BY <2>8, <3>2 DEF LexBefore
    <3>. QED BY <2>3, <3>3 DEF w, x
  <2>12. CASE r <= m
    <3> DEFINE b == Below(n, q.payload, r, w)
               c == Below(n, q.payload, r, x)
    <3>1. Dim(V) = 1 .. N - r + 1 /\ HasDependencies(V)
      <4>1. Dim(V) = 1 .. N - r + 1
          BY LoopsOfView DEF N
      <4>. QED BY <4>1 DEF IsTilingLegal
    <3>2. b \in Domain(V) /\ c \in Domain(V) /\ Conflicts(V, b, c)
      <4>1. b \in Domain(V) /\ c \in Domain(V)
          BY <2>4, <3>1, BelowInDomain DEF HasDependencies
      <4>2. Conflicts(V, b, c)
          BY <2>4, <3>1, DependenceIsSeen DEF HasDependencies
      <4>. QED BY <4>1, <4>2
    <3>3. LexBefore(b, c)
      <4>1. DOMAIN b = 1 .. N - r + 1
          BY DEF Below, N
      <4>2. m - r + 1 \in 1 .. N - r + 1 /\ r + (m - r + 1) - 1 = m
          BY <1>1, <2>12
      <4>3. b[m - r + 1] < c[m - r + 1]
          BY <2>9, <2>10, <4>2
      <4>4. \A j \in 1 .. m - r + 1 - 1 : j \in 1 .. N - r + 1 /\ r + j - 1 \in 1 .. m - 1
          BY <1>1, <2>12, <4>2
      <4>5. \A j \in 1 .. m - r + 1 - 1 : b[j] = c[j]
          BY <2>9, <2>10, <4>4
      <4> HIDE DEF b, c
      <4>. QED BY <4>1, <4>2, <4>3, <4>5 DEF LexBefore
    <3>4. \A k \in Dim(V) : ~(c[k] < b[k])
      <4>1. <<b, c>> \in GetDependencies(V)
          BY <3>2, <3>3 DEF GetDependencies
      <4>. QED BY <4>1 DEF IsTilingLegal
    <3>5. \A k \in 1 .. N : y[k] <= z[k]
      <4> SUFFICES ASSUME NEW k \in 1 .. N PROVE y[k] <= z[k]
          OBVIOUS
      <4>1. CASE k < r
        <5>1. k \in 1 .. m - 1
            BY <1>1, <2>12, <4>1
        <5>. QED BY <1>1, <2>7, <2>10, <5>1
      <4>2. CASE r <= k
        <5>1. k - r + 1 \in 1 .. N - r + 1 /\ r + (k - r + 1) - 1 = k
            BY <1>1, <4>2
        <5>2. ~(z[k] < y[k])
            BY <2>9, <3>1, <3>4, <5>1
        <5>. QED BY <1>1, <2>7, <5>2
      <4>. QED BY <1>1, <4>1, <4>2
    <3> DEFINE e(k) == Exchanged(k, i, N)
    <3>6. \A k \in 1 .. N : e(k) \in 1 .. N /\ e(e(k)) = k
        BY <1>1 DEF Exchanged
    <3> HIDE DEF e
    <3>7. \A k \in 1 .. N : Y[k] = y[e(k)] /\ Z[k] = z[e(k)]
        BY <1>1, <2>7 DEF e
    <3>8. \A k \in 1 .. N : Y[k] \in Nat /\ Z[k] \in Nat /\ Y[k] <= Z[k]
        BY <1>1, <2>7, <3>5, <3>6, <3>7
    <3>9. e(m) \in 1 .. N /\ Y[e(m)] < Z[e(m)]
        BY <1>1, <2>10, <3>6, <3>7
    <3>10. LexBefore(Y, Z)
        BY <1>1, <2>8, <3>8, <3>9, NowhereAhead
    <3>. QED BY <2>3, <3>10 DEF w, x
  <2>. QED BY <1>1, <2>11, <2>12
<1>. QED BY <1>2, <1>3

-----------------------------------------------------------------------------
(* Every order of the loops that the roots leave is legal.                   *)

\* Nests whose subscripts every root reads as they are then.
IsFresh == IsSupported(nest) /\ SubscriptsAreFresh

LEMMA RootsKeepNest ==
    ASSUME [RootsNext]_<<vars, roots>>
    PROVE  nest' = nest /\ (IsFresh' <=> IsFresh)
<1>1. nest' = nest
    BY DEF RootsNext, RootsStep, TransformRoot, Header, Body, Latch, Exited, vars
<1>. QED BY <1>1 DEF IsFresh, IsSupported, LoopsAreSupported, AccessesAreSupported,
        SubscriptsAreFresh, IsBare, IVs, IndexOf, Dim

\* A turn of the loop over the roots keeps dependent instances in order.
LEMMA TransformRootOrdered ==
    ASSUME RootsInv, IsFresh, Ordered, TransformRoot
    PROVE  Ordered'
<1>1. /\ nest \in Nests /\ nest' = nest
      /\ Depth(nest) \in Nat /\ Dim(nest) = 1 .. Depth(nest)
      /\ root \in 1 .. Depth(nest) - 1
      /\ IsPermuted(nest, ir) /\ KeepsOrder(nest, ir) /\ IsSupported(nest)
    BY DimOfNest DEF RootsInv, RootsTypeOK, TypeOK, TransformRoot, Ordered, IsFresh
<1> DEFINE d == Depth(nest) - root + 1
<1>2. Depth(View) = d /\ Dim(View) = 1 .. d
    BY <1>1, ViewBelowRoot
<1>3. IsView(nest, ir.payload, root, View)
    BY <1>1, ViewOfFreshNest DEF IsFresh
<1>4. ir' \in RootRewrites(View)
    BY DEF TransformRoot
<1>5. KeepsOrder(nest, ir')
  <2>1. CASE ir' = ir
      BY <1>1, <2>1
  <2>2. CASE ir' # ir
    <3>1. IsTilingLegal(View)
        BY <1>4, <2>2 DEF RootRewrites
    <3>2. PICK k \in BestLoops(View) :
             k # d /\ ir' = ApplyLoopInterchange(nest, ir, root + k - 1, Depth(nest))
        BY <1>2, <1>4, <2>2 DEF RootRewrites
    <3>3. k \in 1 .. d
        BY <1>1, <1>2, BestLoopsBelowRoot
    <3> DEFINE i == root + k - 1
    <3>4. i \in Dim(nest) /\ root <= i /\ i # Depth(nest)
        BY <1>1, <3>2, <3>3
    <3> HIDE DEF i
    <3>5. KeepsOrder(nest, ApplyLoopInterchange(nest, ir, i, Depth(nest)))
        BY <1>1, <1>3, <3>1, <3>4, RootKeepsOrder
    <3>. QED BY <3>2, <3>5 DEF i
  <2>. QED BY <2>1, <2>2
<1>. QED BY <1>1, <1>5 DEF Ordered, KeepsOrder

\* What a fresh nest keeps from its first root to its exit.
LEMMA FreshFlowStep ==
    ASSUME RootsInv, IsFresh, Flow, [RootsNext]_<<vars, roots>>
    PROVE  Flow'
<1>1. Inv /\ Ordered /\ IsSupported(nest) /\ nest \in Nests
    BY DEF Flow, IsFresh, RootsInv, RootsTypeOK, TypeOK
<1>2. RunAlike(nest)
    BY <1>1, SupportedLoopsRunAlike DEF IsSupported
<1>3. CASE TransformRoot
  <2>1. Inv'
      BY <1>1, <1>3, TransformRootInv
  <2>2. Ordered'
      BY <1>1, <1>3, TransformRootOrdered
  <2>3. UNCHANGED <<nest, data>>
      BY <1>3 DEF TransformRoot
  <2>. QED BY <1>1, <2>1, <2>2, <2>3, FlowStep
<1>4. CASE Header \/ Body \/ Latch \/ UNCHANGED vars
  <2>1. Inv'
      BY <1>1, <1>2, <1>4, NestStepInv
  <2>2. UNCHANGED <<nest, ir>>
      BY <1>4 DEF Header, Body, Latch, vars
  <2>3. Ordered'
      BY <1>1, <2>2 DEF Ordered, KeepsOrder
  <2>4. Body \/ UNCHANGED <<nest, data>>
      BY <1>4 DEF Header, Latch, vars
  <2>. QED BY <1>1, <2>1, <2>3, <2>4, FlowStep
<1>. QED BY <1>3, <1>4 DEF RootsNext, RootsStep, Exited

LEMMA FreshFlowIsInvariant == RootsSpec => [](IsFresh => Flow)
<1>1. RootsInit => (IsFresh => Flow)
    BY FlowInit DEF RootsInit
<1>2. RootsInv /\ (IsFresh => Flow) /\ [RootsNext]_<<vars, roots>> => (IsFresh => Flow)'
    BY RootsKeepNest, FreshFlowStep
<1>. QED BY <1>1, <1>2, RootsInvIsInvariant, PTL DEF RootsSpec

\* However often the loops of a supported nest with fresh subscripts are exchanged, the
\* run is an order of its instances that respects their true dependences. (A root that
\* reads cached subscripts may turn one round.)
THEOREM RootsInterchangeIsLegal ==
    RootsSpec /\ IsSupported(nest) /\ SubscriptsAreFresh => RespectsDependences
<1>1. RootsInit => Order!Init
    BY DEF RootsInit, Init, Order!Init, TrueDependences
<1>2. RootsInit /\ IsSupported(nest) /\ SubscriptsAreFresh => IsFresh
    BY DEF IsFresh
<1>3. IsFresh /\ [RootsNext]_<<vars, roots>> => IsFresh'
    BY RootsKeepNest
<1>4. RootsInv /\ IsFresh /\ (IsFresh => Flow) /\ (IsFresh => Flow)' /\ IsFresh'
         /\ [RootsNext]_<<vars, roots>> => [Order!Next]_(Order!vars)
  <2> SUFFICES ASSUME IsFresh, Flow, Flow', [RootsNext]_<<vars, roots>>
               PROVE  [Order!Next]_(Order!vars)
      OBVIOUS
  <2>1. Inv /\ Inv' /\ Ordered /\ IsSupported(nest)
      BY DEF Flow, IsFresh
  <2>2. \/ UNCHANGED <<nest, data>> /\ at = "pass" /\ at' # "exit"
        \/ Header \/ Body \/ Latch
        \/ UNCHANGED vars
      BY DEF RootsNext, RootsStep, TransformRoot, Exited
  <2>. QED BY <2>1, <2>2, OrderStep
<1>. QED BY <1>1, <1>2, <1>3, <1>4, FreshFlowIsInvariant, RootsInvIsInvariant, PTL
        DEF RootsSpec, RespectsDependences, Order!Spec

\* ... every load reads the write it read in the nest as written, ...
THEOREM RootsLoadsKeepTheirSource == RootsSpec => [](SubscriptsAreFresh => LoadsReadTheirSource)
<1>1. (IsFresh => Flow) => (SubscriptsAreFresh => LoadsReadTheirSource)
    BY DEF IsFresh, Flow, LoadsReadTheirSource
<1>. QED BY FreshFlowIsInvariant, <1>1, PTL

\* ... and memory is left as the nest as written leaves it.
THEOREM RootsMemoryIsKept == RootsSpec => [](SubscriptsAreFresh => MemoryIsPreserved)
<1>1. (IsFresh => Flow) => (SubscriptsAreFresh => MemoryIsPreserved)
    BY FlowEndsInMemory DEF IsFresh, MemoryIsPreserved
<1>. QED BY FreshFlowIsInvariant, <1>1, PTL

-----------------------------------------------------------------------------
(* The outermost root sees the whole nest, and refuses no valid one.         *)

OnlyIVs(n) ==
    \A m \in DOMAIN n.accesses : \A d \in DOMAIN n.accesses[m].subscripts :
       MentionsOnlyIVs(n, n.accesses[m].subscripts[d])

\* Its loops are those of the nest.
LEMMA WholeView ==
    ASSUME NEW n \in Nests, NEW p, NEW V, IsView(n, p, 1, V)
    PROVE  /\ 1 \in 1 .. Depth(n) - 1
           /\ Depth(n) \in Nat /\ Depth(n) >= 2 /\ Dim(n) = 1 .. Depth(n)
           /\ Dim(V) = Dim(n) /\ Depth(V) = Depth(n) /\ IVs(V) = IVs(n)
           /\ \A k \in Dim(n) : n.loops[k].iv \in IVs(V) /\ IndexOf(V, n.loops[k].iv) = k
<1>1. Depth(n) \in Nat /\ Depth(n) >= 2 /\ Dim(n) = 1 .. Depth(n) /\ 1 \in 1 .. Depth(n) - 1
    BY DimOfNest
<1>2. Dim(V) = 1 .. Depth(n) /\ Depth(V) = Depth(n)
    BY <1>1 DEF IsView
<1>3. IVs(V) \subseteq IVs(n)
    BY <1>1, LoopsOfView
<1>4. ASSUME NEW k \in Dim(n)
      PROVE  n.loops[k].iv \in IVs(V) /\ IndexOf(V, n.loops[k].iv) = k
  <2>1. k >= 1 /\ k - 1 + 1 = k
      BY <1>1
  <2>. QED BY <1>1, <2>1, PhisOfView
<1>5. IVs(n) \subseteq IVs(V)
    BY <1>4 DEF IVs
<1>. QED BY <1>1, <1>2, <1>3, <1>4, <1>5

\* Its subscripts mention the PHIs that the body's uses of their dimensions read.
LEMMA SubscriptOfWhole ==
    ASSUME NEW n \in Nests, NEW q, IsPermuted(n, q), NEW V, IsView(n, q.payload, 1, V),
           NEW e, NEW f, e.op = "affine", MentionsOnlyIVs(n, e),
           ReadsPhi(n, q.payload, e, f) \/ ReadsNoPhi(n, e, f)
    PROVE  /\ MentionsOnlyIVs(V, CreateExprFromSCEV(f)) /\ ~IsAnyValue(V, CreateExprFromSCEV(f))
           /\ DOMAIN CreateExprFromSCEV(f).terms \subseteq IVs(n)
           /\ DOMAIN CreateExprFromSCEV(e).terms \subseteq IVs(n)
           /\ \A k \in Dim(n) : n.loops[q.payload[k]].iv \in DOMAIN CreateExprFromSCEV(f).terms
                                  <=> n.loops[k].iv \in DOMAIN CreateExprFromSCEV(e).terms
<1> DEFINE s == CreateExprFromSCEV(f)
           t == CreateExprFromSCEV(e)
<1>1. IVs(V) = IVs(n)
    BY WholeView
<1>2. s.terms = f.terms /\ t.terms = e.terms
    BY DEF CreateExprFromSCEV, ReadsPhi, ReadsNoPhi
<1>3. /\ \A k \in Dim(n) : q.payload[k] \in Dim(n)
      /\ \A k, l \in Dim(n) : q.payload[k] = q.payload[l] => k = l
      /\ \A k, l \in Dim(n) : n.loops[k].iv = n.loops[l].iv => k = l
      /\ \A k \in Dim(n) : n.loops[k].iv \in IVs(n)
    BY AnalysedNest DEF IsPermuted, IRType, IsAnalysed
<1>4. CASE ReadsPhi(n, q.payload, e, f)
  <2>1. PICK k \in Dim(n) : /\ DOMAIN e.terms = {n.loops[k].iv}
                            /\ DOMAIN f.terms = {n.loops[q.payload[k]].iv}
      BY <1>4 DEF ReadsPhi
  <2>2. DOMAIN s.terms = {n.loops[q.payload[k]].iv} /\ DOMAIN t.terms = {n.loops[k].iv}
      BY <1>2, <2>1
  <2> HIDE DEF s, t
  <2>3. DOMAIN s.terms \subseteq IVs(V) /\ DOMAIN s.terms # {}
      BY <1>1, <1>3, <2>2
  <2>4. MentionsOnlyIVs(V, s) /\ ~IsAnyValue(V, s)
      BY <2>3 DEF MentionsOnlyIVs, IsAnyValue
  <2>5. \A l \in Dim(n) : n.loops[q.payload[l]].iv \in DOMAIN s.terms <=> n.loops[l].iv \in DOMAIN t.terms
      BY <1>3, <2>2
  <2>. QED BY <1>1, <1>3, <2>2, <2>3, <2>4, <2>5 DEF s, t
<1>5. CASE ReadsNoPhi(n, e, f)
  <2>1. DOMAIN s.terms = {} /\ DOMAIN t.terms = {}
      BY <1>2, <1>5 DEF ReadsNoPhi, MentionsOnlyIVs
  <2> HIDE DEF s, t
  <2>2. MentionsOnlyIVs(V, s) /\ ~IsAnyValue(V, s)
      BY <2>1 DEF MentionsOnlyIVs, IsAnyValue
  <2>. QED BY <2>1, <2>2 DEF s, t
<1>. QED BY <1>4, <1>5

\* isl reads it.
LEMMA WholeIsRead ==
    ASSUME NEW n \in Nests, IsSupported(n), OnlyIVs(n), DomainIsRead(n), BeforeIsRead(n),
           NEW q, IsPermuted(n, q), NEW V, IsView(n, q.payload, 1, V)
    PROVE  HasDependencies(V)
<1>1. Dim(V) = Dim(n) /\ IVs(V) = IVs(n)
    BY WholeView
<1>2. DomainIsRead(V)
  <2> SUFFICES ASSUME NEW k \in Dim(V) PROVE MentionsOnlyIVs(V, Upper(V, k))
      BY DEF DomainIsRead
  <2>1. DimensionIn(n, q.payload, k) \in Dim(n)
      BY <1>1, LoopsAndDimensions
  <2>2. V.loops[k].bound = n.loops[DimensionIn(n, q.payload, k)].bound
    <3>1. 1 + k - 1 = k
        BY <1>1, WholeView
    <3>. QED BY <3>1 DEF IsView
  <2>. QED BY <1>1, <2>1, <2>2 DEF DomainIsRead, MentionsOnlyIVs, Upper
<1>3. AccessesAreRead(V)
  <2> SUFFICES ASSUME NEW m \in DOMAIN V.accesses, NEW d \in DOMAIN Subscripts(V.accesses[m])
               PROVE  MentionsOnlyIVs(V, Subscripts(V.accesses[m])[d])
      BY DEF AccessesAreRead
  <2> DEFINE A == V.accesses[m]
             a == n.accesses[m]
  <2>1. CASE A.subscripts = <<>>
    <3>1. Subscripts(A)[d] = Zero /\ DOMAIN Zero.terms = {}
        BY <2>1 DEF Subscripts, Zero
    <3>. QED BY <3>1 DEF MentionsOnlyIVs
  <2>2. CASE A.subscripts # <<>>
    <3>1. d \in DOMAIN A.subscripts /\ Subscripts(A)[d] = CreateExprFromSCEV(A.subscripts[d])
        BY <2>2 DEF Subscripts
    <3>2. /\ m \in DOMAIN n.accesses /\ d \in DOMAIN a.subscripts
          /\ ReadsPhi(n, q.payload, a.subscripts[d], A.subscripts[d])
                \/ ReadsNoPhi(n, a.subscripts[d], A.subscripts[d])
        BY <3>1 DEF IsView
    <3>3. a.subscripts[d].op = "affine" /\ MentionsOnlyIVs(n, a.subscripts[d])
        BY <3>2 DEF IsSupported, AccessesAreSupported, OnlyIVs
    <3> DEFINE e == a.subscripts[d]
               f == A.subscripts[d]
    <3>4. /\ e.op = "affine" /\ MentionsOnlyIVs(n, e)
          /\ ReadsPhi(n, q.payload, e, f) \/ ReadsNoPhi(n, e, f)
        BY <3>2, <3>3
    <3> HIDE DEF e, f
    <3>5. MentionsOnlyIVs(V, CreateExprFromSCEV(f))
        BY <3>4, SubscriptOfWhole
    <3>. QED BY <3>1, <3>5 DEF f
  <2>. QED BY <2>1, <2>2
<1>4. BeforeIsRead(V)
    BY DEF BeforeIsRead, IsView
<1>. QED BY <1>2, <1>3, <1>4 DEF HasDependencies

\* Every iteration of its domain is one of the nest.
LEMMA DomainOfWhole ==
    ASSUME NEW n \in Nests, IsSupported(n), DomainIsRead(n),
           NEW q, IsPermuted(n, q), NEW V, IsView(n, q.payload, 1, V), NEW y \in Domain(V)
    PROVE  \E x \in Box(n) : y = Below(n, q.payload, 1, x)
<1> DEFINE D(k) == DimensionIn(n, q.payload, k)
           x == [d \in Dim(n) |-> y[q.payload[d]]]
<1>1. /\ Depth(n) \in Nat /\ Dim(n) = 1 .. Depth(n) /\ Dim(V) = Dim(n)
    BY WholeView
<1>2. /\ \A k \in Dim(n) : D(k) \in Dim(n) /\ q.payload[D(k)] = k
      /\ \A d \in Dim(n) : q.payload[d] \in Dim(n) /\ D(q.payload[d]) = d
    BY LoopsAndDimensions
<1>3. ASSUME NEW k \in Dim(n)
      PROVE  Upper(V, k).const = Extent(n, D(k)) /\ Extent(n, D(k)) \in Nat
  <2>1. 1 + k - 1 = k
      BY <1>1
  <2>2. V.loops[k].bound = n.loops[D(k)].bound
      BY <1>1, <2>1 DEF IsView
  <2>3. Upper(V, k) = Upper(n, D(k))
      BY <2>2 DEF Upper
  <2>. QED BY <1>2, <2>3, UpperIsBound, SupportedLoopsRunAlike, ExtentsTyped DEF IsSupported
<1>4. /\ y \in [Dim(n) -> UNION {0 .. Upper(V, k).const - 1 : k \in Dim(n)}]
      /\ \A k \in Dim(n) : y[k] < Upper(V, k).const
    BY <1>1 DEF Domain
<1>5. UNION {0 .. Upper(V, k).const - 1 : k \in Dim(n)} \subseteq Nat
    BY <1>3
<1>6. y \in [Dim(n) -> Nat]
  <2> DEFINE Indices == UNION {0 .. Upper(V, k).const - 1 : k \in Dim(n)}
  <2>1. y \in [Dim(n) -> Indices] /\ Indices \subseteq Nat
      BY <1>4, <1>5
  <2> HIDE DEF Indices
  <2>. QED BY <2>1
<1>7. \A d \in Dim(n) : y[q.payload[d]] \in Nat /\ y[q.payload[d]] < Extent(n, d)
    BY <1>2, <1>3, <1>4, <1>6
<1>8. x \in Box(n)
    BY <1>7 DEF Box
<1>9. Below(n, q.payload, 1, x) = [k \in Dim(n) |-> x[D(k)]]
  <2>1. Depth(n) - 1 + 1 = Depth(n) /\ \A k \in Dim(n) : 1 + k - 1 = k
      BY <1>1
  <2>. QED BY <1>1, <2>1 DEF Below
<1>10. \A k \in Dim(n) : x[D(k)] = y[k]
    BY <1>2
<1> HIDE DEF x
<1>11. y = [k \in Dim(n) |-> x[D(k)]]
    BY <1>6, <1>10
<1>. QED BY <1>8, <1>9, <1>11

\* What conflicts there meets at run time.
LEMMA ConflictOfWhole ==
    ASSUME NEW n \in Nests, IsSupported(n), OnlyIVs(n), NEW q, IsPermuted(n, q),
           NEW V, IsView(n, q.payload, 1, V), NEW w \in Box(n), NEW x \in Box(n),
           NEW k \in DOMAIN n.accesses, NEW l \in DOMAIN n.accesses,
           SameElement(V, V.accesses[k], Below(n, q.payload, 1, w),
                          V.accesses[l], Below(n, q.payload, 1, x))
    PROVE  Address(n, n.accesses[k], w) = Address(n, n.accesses[l], x)
<1> DEFINE a == n.accesses[k]
           b == n.accesses[l]
           A == V.accesses[k]
           B == V.accesses[l]
           y == Below(n, q.payload, 1, w)
           z == Below(n, q.payload, 1, x)
<1>1. /\ Len(a.subscripts) \in 0 .. Rank /\ DOMAIN a.subscripts = 1 .. Len(a.subscripts)
      /\ Len(b.subscripts) \in 0 .. Rank /\ DOMAIN b.subscripts = 1 .. Len(b.subscripts)
    BY NestsAssumption DEF IsNest
<1>2. /\ A.base = a.base /\ DOMAIN A.subscripts = DOMAIN a.subscripts
      /\ (A.subscripts = <<>>) <=> (a.subscripts = <<>>)
      /\ \A d \in DOMAIN a.subscripts :
            \/ ReadsPhi(n, q.payload, a.subscripts[d], A.subscripts[d])
            \/ ReadsNoPhi(n, a.subscripts[d], A.subscripts[d])
    BY DEF IsView
<1>3. /\ B.base = b.base /\ DOMAIN B.subscripts = DOMAIN b.subscripts
      /\ (B.subscripts = <<>>) <=> (b.subscripts = <<>>)
      /\ \A d \in DOMAIN b.subscripts :
            \/ ReadsPhi(n, q.payload, b.subscripts[d], B.subscripts[d])
            \/ ReadsNoPhi(n, b.subscripts[d], B.subscripts[d])
    BY DEF IsView
<1>4. a.base = b.base
    BY <1>2, <1>3 DEF SameElement
<1>5. DOMAIN a.subscripts = DOMAIN b.subscripts
    BY <1>1, <1>4 DEF IsSupported, AccessesAreSupported
<1>6. /\ \A d \in DOMAIN a.subscripts : a.subscripts[d].op = "affine" /\ MentionsOnlyIVs(n, a.subscripts[d])
      /\ \A d \in DOMAIN b.subscripts : b.subscripts[d].op = "affine" /\ MentionsOnlyIVs(n, b.subscripts[d])
    BY DEF IsSupported, AccessesAreSupported, OnlyIVs
<1>7. SameElement(V, A, y, B, z) /\ 1 \in 1 .. Depth(n) - 1
    BY WholeView
<1> HIDE DEF a, b, A, B, y, z
<1>8. ASSUME NEW d \in DOMAIN a.subscripts
      PROVE  Value(n, a.subscripts[d], w) = Value(n, b.subscripts[d], x)
  <2> DEFINE s == CreateExprFromSCEV(A.subscripts[d])
             t == CreateExprFromSCEV(B.subscripts[d])
  <2>1. A.subscripts # <<>> /\ B.subscripts # <<>>
      BY <1>1, <1>2, <1>3, <1>5, <1>8
  <2>2. /\ d \in DOMAIN Subscripts(A)
        /\ Subscripts(A)[d] = s /\ Subscripts(B)[d] = t
      BY <1>2, <1>3, <1>5, <1>8, <2>1 DEF Subscripts
  <2>3. MentionsOnlyIVs(V, s) /\ ~IsAnyValue(V, s)
    <3> DEFINE e == a.subscripts[d]
               f == A.subscripts[d]
    <3>1. /\ e.op = "affine" /\ MentionsOnlyIVs(n, e)
          /\ ReadsPhi(n, q.payload, e, f) \/ ReadsNoPhi(n, e, f)
        BY <1>2, <1>6, <1>8
    <3> HIDE DEF e, f
    <3>2. MentionsOnlyIVs(V, CreateExprFromSCEV(f)) /\ ~IsAnyValue(V, CreateExprFromSCEV(f))
        BY <3>1, SubscriptOfWhole
    <3>. QED BY <3>2 DEF f
  <2>4. MentionsOnlyIVs(V, t) /\ ~IsAnyValue(V, t)
    <3> DEFINE e == b.subscripts[d]
               f == B.subscripts[d]
    <3>1. /\ e.op = "affine" /\ MentionsOnlyIVs(n, e)
          /\ ReadsPhi(n, q.payload, e, f) \/ ReadsNoPhi(n, e, f)
        BY <1>3, <1>5, <1>6, <1>8
    <3> HIDE DEF e, f
    <3>2. MentionsOnlyIVs(V, CreateExprFromSCEV(f)) /\ ~IsAnyValue(V, CreateExprFromSCEV(f))
        BY <3>1, SubscriptOfWhole
    <3>. QED BY <3>2 DEF f
  <2>5. Linear(V, s, y) = Value(n, a.subscripts[d], w)
      BY <1>2, <1>6, <1>7, <1>8, <2>3, SubscriptAsRead DEF y
  <2>6. Linear(V, t, z) = Value(n, b.subscripts[d], x)
      BY <1>3, <1>5, <1>6, <1>7, <1>8, <2>4, SubscriptAsRead DEF z
  <2> HIDE DEF s, t
  <2>7. Linear(V, s, y) = Linear(V, t, z)
      BY <1>7, <2>2, <2>3, <2>4 DEF SameElement
  <2>. QED BY <2>5, <2>6, <2>7
<1>. QED BY <1>4, <1>5, <1>8 DEF Address, a, b

\* So it is legal when no dependence of the nest has a negative distance: between
\* instances that the exchanges before have turned round there is no dependence.
LEMMA WholeIsLegal ==
    ASSUME NEW n \in Nests, IsSupported(n), OnlyIVs(n), DomainIsRead(n), BeforeIsRead(n),
           \A xy \in TrueDependences(n) : \A k \in Dim(n) : xy[1][k] <= xy[2][k],
           NEW q, IsPermuted(n, q), NEW V, IsView(n, q.payload, 1, V)
    PROVE  IsTilingLegal(V)
<1> DEFINE D(k) == DimensionIn(n, q.payload, k)
           S(x) == Below(n, q.payload, 1, x)
<1>1. /\ Depth(n) \in Nat /\ Dim(n) = 1 .. Depth(n)
      /\ Dim(V) = Dim(n) /\ Depth(V) >= 2
      /\ Instances(n) = Box(n)
    BY WholeView, InstancesAreBox
<1>2. \A k \in Dim(n) : D(k) \in Dim(n)
    BY LoopsAndDimensions
<1>3. \A x : /\ DOMAIN S(x) = Dim(n)
              /\ \A k \in Dim(n) : S(x)[k] = x[D(k)]
  <2>1. Depth(n) - 1 + 1 = Depth(n) /\ \A k \in Dim(n) : 1 + k - 1 = k
      BY <1>1
  <2>. QED BY <1>1, <2>1 DEF Below
<1> HIDE DEF D, S
<1>4. ASSUME NEW yz \in GetDependencies(V), NEW k \in Dim(V)
      PROVE  ~(yz[2][k] < yz[1][k])
  <2>1. yz[1] \in Domain(V) /\ yz[2] \in Domain(V)
      BY DEF GetDependencies
  <2>2. PICK w \in Box(n) : yz[1] = S(w)
      BY <2>1, DomainOfWhole DEF S
  <2>3. PICK x \in Box(n) : yz[2] = S(x)
      BY <2>1, DomainOfWhole DEF S
  <2>4. LexBefore(S(w), S(x)) /\ Conflicts(V, S(w), S(x))
      BY <2>2, <2>3 DEF GetDependencies
  <2>5. PICK a \in DOMAIN V.accesses, b \in DOMAIN V.accesses :
           /\ IsConflicting(V.accesses[a], V.accesses[b])
           /\ SameElement(V, V.accesses[a], S(w), V.accesses[b], S(x))
      BY <2>4 DEF Conflicts
  <2>6. /\ a \in DOMAIN n.accesses /\ b \in DOMAIN n.accesses
        /\ IsConflicting(n.accesses[a], n.accesses[b])
        /\ IsConflicting(n.accesses[b], n.accesses[a])
      BY <2>5 DEF IsView, IsConflicting
  <2>7. Address(n, n.accesses[a], w) = Address(n, n.accesses[b], x)
      BY <2>5, <2>6, ConflictOfWhole DEF S
  <2>8. /\ LexBefore(w, x) => <<w, x>> \in TrueDependences(n)
        /\ LexBefore(x, w) => <<x, w>> \in TrueDependences(n)
      BY <1>1, <2>6, <2>7 DEF TrueDependences
  <2>9. PICK m \in Dim(n) : S(w)[m] < S(x)[m]
      BY <1>3, <2>4 DEF LexBefore
  <2>10. \A d \in Dim(n) : w[d] \in Nat /\ x[d] \in Nat
      BY DEF Box
  <2>11. w[D(m)] < x[D(m)]
      BY <1>3, <2>9
  <2>12. w # x
      BY <1>2, <2>10, <2>11
  <2>13. LexBefore(w, x) \/ LexBefore(x, w)
      BY <2>12, LexIsTotal
  <2>14. ~LexBefore(x, w)
    <3>1. SUFFICES ASSUME <<x, w>> \in TrueDependences(n) PROVE FALSE
        BY <2>8
    <3>2. x[D(m)] <= w[D(m)]
        BY <1>2, <3>1
    <3>. QED BY <1>2, <2>10, <2>11, <3>2
  <2>15. w[D(k)] <= x[D(k)]
      BY <1>1, <1>2, <2>8, <2>13, <2>14
  <2>16. ~(x[D(k)] < w[D(k)])
      BY <1>1, <1>2, <2>10, <2>15
  <2>. QED BY <1>1, <1>3, <2>2, <2>3, <2>16
<1>5. HasDependencies(V)
    BY WholeIsRead
<1>. QED BY <1>1, <1>4, <1>5 DEF IsTilingLegal

\* What an access contributes to the scores follows the payload.
LEMMA LastSymbolsOfWhole ==
    ASSUME NEW n \in Nests, IsSupported(n), OnlyIVs(n), NEW q, IsPermuted(n, q),
           NEW V, IsView(n, q.payload, 1, V), NEW m \in DOMAIN n.accesses
    PROVE  /\ LastSubscriptSymbols(n.accesses[m]) \subseteq IVs(n)
           /\ LastSubscriptSymbols(V.accesses[m]) \subseteq IVs(n)
           /\ \A k \in Dim(n) :
                 n.loops[q.payload[k]].iv \in LastSubscriptSymbols(V.accesses[m])
                     <=> n.loops[k].iv \in LastSubscriptSymbols(n.accesses[m])
<1> DEFINE a == n.accesses[m]
           A == V.accesses[m]
           N == Len(a.subscripts)
<1>1. N \in Nat /\ DOMAIN a.subscripts = 1 .. N
    BY NestsAssumption DEF IsNest, Rank
<1>2. /\ DOMAIN A.subscripts = DOMAIN a.subscripts
      /\ (A.subscripts = <<>>) <=> (a.subscripts = <<>>)
      /\ \A d \in DOMAIN a.subscripts :
            \/ ReadsPhi(n, q.payload, a.subscripts[d], A.subscripts[d])
            \/ ReadsNoPhi(n, a.subscripts[d], A.subscripts[d])
    BY DEF IsView
<1>3. \A d \in DOMAIN a.subscripts : a.subscripts[d].op = "affine" /\ MentionsOnlyIVs(n, a.subscripts[d])
    BY DEF IsSupported, AccessesAreSupported, OnlyIVs
<1> HIDE DEF a, A
<1>4. CASE a.subscripts = <<>>
  <2>1. LastSubscriptSymbols(a) = {} /\ LastSubscriptSymbols(A) = {}
      BY <1>2, <1>4 DEF LastSubscriptSymbols
  <2>. QED BY <2>1 DEF a, A
<1>5. CASE a.subscripts # <<>>
  <2>1. N \in DOMAIN a.subscripts
      BY <1>1, <1>5
  <2>2. Len(A.subscripts) = N
    <3> HIDE DEF N
    <3>. QED BY <1>1, <1>2
  <2> DEFINE e == a.subscripts[N]
             f == A.subscripts[N]
  <2>3. /\ LastSubscriptSymbols(a) = DOMAIN CreateExprFromSCEV(e).terms
        /\ LastSubscriptSymbols(A) = DOMAIN CreateExprFromSCEV(f).terms
      BY <1>2, <1>5, <2>2 DEF LastSubscriptSymbols
  <2>4. /\ e.op = "affine" /\ MentionsOnlyIVs(n, e)
        /\ ReadsPhi(n, q.payload, e, f) \/ ReadsNoPhi(n, e, f)
      BY <1>2, <1>3, <2>1
  <2> HIDE DEF e, f
  <2>5. /\ DOMAIN CreateExprFromSCEV(f).terms \subseteq IVs(n)
        /\ DOMAIN CreateExprFromSCEV(e).terms \subseteq IVs(n)
        /\ \A k \in Dim(n) : n.loops[q.payload[k]].iv \in DOMAIN CreateExprFromSCEV(f).terms
                               <=> n.loops[k].iv \in DOMAIN CreateExprFromSCEV(e).terms
      BY <2>4, SubscriptOfWhole
  <2>. QED BY <2>3, <2>5 DEF a, A
<1>. QED BY <1>4, <1>5

\* So the best loops of the outermost root are those through which the best dimensions
\* of the nest run now.
LEMMA BestLoopsOfWhole ==
    ASSUME NEW n \in Nests, IsSupported(n), OnlyIVs(n), BestLoops(n) # {},
           NEW q, IsPermuted(n, q), NEW V, IsView(n, q.payload, 1, V)
    PROVE  /\ BestLoops(V) # {}
           /\ \A j \in BestLoops(V) : \E k \in BestLoops(n) : j = q.payload[k]
<1> DEFINE p == q.payload
           phi(k) == n.loops[k].iv
           L(m) == LastSubscriptSymbols(n.accesses[m])
           M(m) == LastSubscriptSymbols(V.accesses[m])
           X == UNION {L(m) : m \in DOMAIN n.accesses}
           Y == UNION {M(m) : m \in DOMAIN V.accesses}
<1>1. DOMAIN V.accesses = DOMAIN n.accesses
    BY DEF IsView
<1>2. /\ \A k \in Dim(n) : p[k] \in Dim(n)
      /\ \A k \in Dim(n) : \E d \in Dim(n) : p[d] = k
    BY DEF IsPermuted, IRType
<1>3. \A k \in Dim(n) : /\ phi(k) \in IVs(n) /\ IndexOf(n, phi(k)) = k
                         /\ phi(k) \in IVs(V) /\ IndexOf(V, phi(k)) = k
    BY AnalysedNest, WholeView
<1>4. \A m \in DOMAIN n.accesses : /\ L(m) \subseteq IVs(n) /\ M(m) \subseteq IVs(n)
                                   /\ \A k \in Dim(n) : phi(p[k]) \in M(m) <=> phi(k) \in L(m)
    BY LastSymbolsOfWhole
<1>5. \A t \in IVs(n) : \E k \in Dim(n) : t = phi(p[k])
    BY <1>2 DEF IVs
<1>6. \A t \in IVs(n) : \E k \in Dim(n) : t = phi(k)
    BY DEF IVs
<1>7. /\ BestSymbols(n) = {s \in X : \A t \in X : Score(n, t) <= Score(n, s)}
      /\ BestSymbols(V) = {s \in Y : \A t \in Y : Score(V, t) <= Score(V, s)}
    BY DEF BestSymbols
<1>8. \A k \in Dim(n) : Score(V, phi(p[k])) = Score(n, phi(k))
  <2> SUFFICES ASSUME NEW k \in Dim(n) PROVE Score(V, phi(p[k])) = Score(n, phi(k))
      OBVIOUS
  <2>1. {m \in DOMAIN V.accesses : phi(p[k]) \in M(m)} = {m \in DOMAIN n.accesses : phi(k) \in L(m)}
      BY <1>1, <1>4
  <2>. QED BY <2>1 DEF Score
<1> HIDE DEF phi, L, M
<1>9. X \subseteq IVs(n) /\ Y \subseteq IVs(n)
    BY <1>1, <1>4
<1>10. \A k \in Dim(n) : phi(p[k]) \in Y <=> phi(k) \in X
    BY <1>1, <1>4
<1> HIDE DEF X, Y, p
<1>11. ASSUME NEW k \in Dim(n)
       PROVE  phi(p[k]) \in BestSymbols(V) <=> phi(k) \in BestSymbols(n)
  <2>1. ASSUME phi(p[k]) \in BestSymbols(V), NEW t \in X PROVE Score(n, t) <= Score(n, phi(k))
    <3>1. PICK l \in Dim(n) : t = phi(l)
        BY <1>6, <1>9
    <3>2. phi(p[l]) \in Y
        BY <1>10, <2>1, <3>1
    <3>3. Score(V, phi(p[l])) <= Score(V, phi(p[k]))
        BY <1>7, <2>1, <3>2
    <3>. QED BY <1>8, <3>1, <3>3
  <2>2. ASSUME phi(k) \in BestSymbols(n), NEW t \in Y PROVE Score(V, t) <= Score(V, phi(p[k]))
    <3>1. PICK l \in Dim(n) : t = phi(p[l])
        BY <1>5, <1>9
    <3>2. phi(l) \in X
        BY <1>10, <2>2, <3>1
    <3>3. Score(n, phi(l)) <= Score(n, phi(k))
        BY <1>7, <2>2, <3>2
    <3>. QED BY <1>8, <3>1, <3>3
  <2>. QED BY <1>7, <1>10, <2>1, <2>2
<1>12. ASSUME NEW k \in Dim(n)
       PROVE  /\ phi(k) \in BestSymbols(n) <=> k \in BestLoops(n)
              /\ phi(k) \in BestSymbols(V) <=> k \in BestLoops(V)
  <2>1. \A s \in BestSymbols(n) : s \in IVs(n) /\ \E l \in Dim(n) : s = phi(l)
      BY <1>6, <1>7, <1>9
  <2>2. \A s \in BestSymbols(V) : s \in IVs(n) /\ \E l \in Dim(n) : s = phi(l)
      BY <1>6, <1>7, <1>9
  <2>3. /\ \A l \in Dim(n) : BestIndex(n, phi(l)) = l
        /\ \A l \in Dim(n) : BestIndex(V, phi(l)) = l
      BY <1>3 DEF BestIndex
  <2>4. BestLoops(n) = {BestIndex(n, s) : s \in BestSymbols(n)}
      BY DEF BestLoops
  <2>5. BestLoops(V) = {BestIndex(V, s) : s \in BestSymbols(V)}
      BY DEF BestLoops
  <2>6. phi(k) \in BestSymbols(n) <=> k \in BestLoops(n)
      BY <2>1, <2>3, <2>4
  <2>7. phi(k) \in BestSymbols(V) <=> k \in BestLoops(V)
      BY <2>2, <2>3, <2>5
  <2>. QED BY <2>6, <2>7
<1>13. BestLoops(n) \subseteq Dim(n) /\ BestLoops(V) \subseteq Dim(n)
    BY WholeView, BestLoopsAreLoops, BestLoopsBelowRoot
<1>14. ASSUME NEW j \in BestLoops(V) PROVE \E k \in BestLoops(n) : j = p[k]
  <2>1. PICK k \in Dim(n) : p[k] = j
      BY <1>2, <1>13
  <2>2. phi(p[k]) \in BestSymbols(V)
      BY <1>12, <1>13, <2>1
  <2>. QED BY <1>11, <1>12, <2>1, <2>2
<1>15. BestLoops(V) # {}
  <2>1. PICK k \in Dim(n) : k \in BestLoops(n)
      BY <1>13
  <2>2. phi(p[k]) \in BestSymbols(V) /\ p[k] \in Dim(n)
      BY <1>2, <1>11, <1>12, <2>1
  <2>. QED BY <1>12, <2>2
<1>. QED BY <1>14, <1>15 DEF p

\* An exchange with the innermost loop makes the dimension of a loop innermost.
LEMMA ExchangePutsInnermost ==
    ASSUME NEW n \in Nests, NEW q, IsPermuted(n, q), NEW j \in Dim(n),
           n.loops[j].type = n.loops[Depth(n)].type, NEW k \in Dim(n), q.payload[k] = j
    PROVE  ApplyLoopInterchange(n, q, j, Depth(n)).payload[k] = Depth(n)
BY DEF ApplyLoopInterchange, IsPermuted, IRType

\* With interchange enabled and an isl that reads the order, every valid nest with fresh
\* subscripts, of any depth, runs with a best loop of the whole nest innermost: the
\* outermost root is never held up by what the roots inside have exchanged before.
THEOREM RootsInterchangeFreshNests ==
    ASSUME PolyEnableInterchange
    PROVE  RootsSpec => [](BeforeIsRead(nest) => FreshNestsAreInterchanged)
<1> DEFINE Chosen == BeforeIsRead(nest) => FreshNestsAreInterchanged
<1>1. RootsInit => Chosen
    BY DEF RootsInit, Init, FreshNestsAreInterchanged, ValidNestsAreInterchanged
<1>2. RootsInv /\ Chosen /\ [RootsNext]_<<vars, roots>> => Chosen'
  <2> SUFFICES ASSUME RootsInv, Chosen, [RootsNext]_<<vars, roots>> PROVE Chosen'
      OBVIOUS
  <2>1. nest' = nest
      BY DEF RootsNext, RootsStep, TransformRoot, Header, Body, Latch, Exited, vars
  <2>2. /\ BeforeIsRead(nest)' <=> BeforeIsRead(nest)
        /\ SubscriptsAreFresh' <=> SubscriptsAreFresh
        /\ IsValid' <=> IsValid
        /\ BestLoops(nest)' = BestLoops(nest)
      BY <2>1 DEF BeforeIsRead, SubscriptsAreFresh, IsBare, IVs, IndexOf, Dim, IsValid, IsSupported,
          LoopsAreSupported, AccessesAreSupported
  <2>3. CASE TransformRoot /\ root = 1
    <3> SUFFICES ASSUME BeforeIsRead(nest), SubscriptsAreFresh, IsValid, BestLoops(nest) # {}
                 PROVE  \E k \in BestLoops(nest) : ir'.payload[k] = Depth(nest)
        BY <2>1, <2>2 DEF FreshNestsAreInterchanged, ValidNestsAreInterchanged
    <3>1. /\ nest \in Nests /\ IsPermuted(nest, ir) /\ root \in 1 .. Depth(nest) - 1
          /\ IsSupported(nest) /\ OnlyIVs(nest) /\ DomainIsRead(nest)
        BY DEF RootsInv, RootsTypeOK, TypeOK, IsValid, OnlyIVs, DomainIsRead
    <3>2. IsView(nest, ir.payload, 1, View)
        BY <2>3, <3>1, ViewOfFreshNest
    <3>3. /\ Depth(nest) \in Nat /\ Depth(nest) >= 2 /\ Dim(nest) = 1 .. Depth(nest)
          /\ Dim(View) = Dim(nest) /\ Depth(View) = Depth(nest)
        BY <3>1, <3>2, WholeView
    <3>4. IsTilingLegal(View)
        BY <3>1, <3>2, WholeIsLegal DEF IsValid
    <3>5. /\ BestLoops(View) # {}
          /\ \A j \in BestLoops(View) : \E k \in BestLoops(nest) : j = ir.payload[k]
        BY <3>1, <3>2, BestLoopsOfWhole
    <3>6. ir' \in RootRewrites(View)
        BY <2>3 DEF TransformRoot
    <3>7. PICK j \in BestLoops(View) :
             ir' = IF j = Depth(View) THEN ir
                   ELSE ApplyLoopInterchange(nest, ir, root + j - 1, Depth(nest))
        BY <3>4, <3>5, <3>6 DEF RootRewrites
    <3>8. PICK k \in BestLoops(nest) : j = ir.payload[k]
        BY <3>5
    <3>9. j \in Dim(nest) /\ k \in Dim(nest) /\ root + j - 1 = j
      <4>1. j \in 1 .. Depth(nest)
          BY <3>3, BestLoopsBelowRoot
      <4>2. k \in Dim(nest)
          BY <3>1, BestLoopsAreLoops
      <4>. QED BY <2>3, <3>3, <4>1, <4>2
    <3>10. CASE j = Depth(nest)
        BY <3>3, <3>7, <3>8, <3>10
    <3>11. CASE j # Depth(nest)
      <4>1. nest.loops[j].type = nest.loops[Depth(nest)].type
          BY <3>3, <3>9 DEF IsValid
      <4>2. ir' = ApplyLoopInterchange(nest, ir, j, Depth(nest))
          BY <3>3, <3>7, <3>9, <3>11
      <4>3. ApplyLoopInterchange(nest, ir, j, Depth(nest)).payload[k] = Depth(nest)
          BY <3>1, <3>8, <3>9, <4>1, ExchangePutsInnermost
      <4>. QED BY <4>2, <4>3
    <3>. QED BY <3>10, <3>11
  <2>4. CASE TransformRoot /\ root # 1
    <3>1. at' = "pass"
        BY <2>4, DimOfNest DEF TransformRoot, RootsInv, RootsTypeOK, TypeOK
    <3>. QED BY <3>1 DEF FreshNestsAreInterchanged, ValidNestsAreInterchanged
  <2>5. CASE ~TransformRoot
    <3>1. ir' = ir /\ (at = "pass" <=> at' = "pass")
        BY <2>5 DEF RootsNext, RootsStep, Header, Enter, Leave, Body, Latch, Exited, vars, control
    <3>. QED BY <2>1, <2>2, <3>1 DEF FreshNestsAreInterchanged, ValidNestsAreInterchanged
  <2>. QED BY <2>3, <2>4, <2>5
<1>. QED BY RootsInvIsInvariant, <1>1, <1>2, PTL DEF RootsSpec
=============================================================================
