------------------------ MODULE RepeatedInterchange ------------------------
(***************************************************************************)
(* All roots of one nest, with interchange as the only rewrite: run() takes*)
(* every loop of a perfect nest as a root, the inner ones first, so a nest *)
(* of n loops is analysed and rewritten n - 1 times, each time with the IR *)
(* the earlier roots have left and with what ScalarEvolution has cached of *)
(* the IR before. Then the nest runs, as in InterchangedNest.              *)
(***************************************************************************)
EXTENDS InterchangedNest

\* Two loops or more, each with a PHI of its own, in records with their fields.
IsAnalysed(n) ==
    /\ {"loops", "accesses", "comparators"} \subseteq DOMAIN n
    /\ Depth(n) >= 2
    /\ \A k \in Dim(n) : {"iv", "type", "bound"} \subseteq DOMAIN n.loops[k]
    /\ \A k, l \in Dim(n) : n.loops[k].iv = n.loops[l].iv => k = l
    /\ \A m \in DOMAIN n.accesses :
          /\ {"kind", "base", "subscripts"} \subseteq DOMAIN n.accesses[m]
          /\ \A d \in DOMAIN n.accesses[m].subscripts :
                {"op", "const", "terms"} \subseteq DOMAIN n.accesses[m].subscripts[d]

ASSUME RootsAssumption == \A n \in Nests : IsAnalysed(n)

VARIABLES
    root,       \* the outermost loop of the nest under analysis
    cached      \* the payload when ScalarEvolution translated the subscripts

roots == <<root, cached>>

NotCached == <<>>

\* collectLoopsRecursively: the innermost loop alone is no nest.
RootsInit ==
    /\ Init
    /\ root = Depth(nest) - 1
    /\ cached = NotCached

-----------------------------------------------------------------------------
(* What analyzeLoopNest() makes of the IR as it is now.                    *)

Phi(k) == nest.loops[k].iv

\* The symbol of dimension k, when the instruction was looked at under payload p.
SymbolUnder(p, s) == IF s \in IVs(nest) THEN Phi(p[IndexOf(nest, s)]) ELSE s

Under(p, e) ==
    [e EXCEPT !.terms =
        [t \in {SymbolUnder(p, s) : s \in DOMAIN e.terms} |->
            e.terms[CHOOSE s \in DOMAIN e.terms : SymbolUnder(p, s) = t]]]

\* The index is the PHI itself: a 64-bit IV that needs no sext and no arithmetic.
IsBare(e) ==
    /\ e.op = "affine" /\ e.const = 0
    /\ \E s \in DOMAIN e.terms :
          /\ DOMAIN e.terms = {s} /\ e.terms[s] = 1
          /\ s \in IVs(nest) /\ nest.loops[IndexOf(nest, s)].type = "i64"

\* Mutant: the expression of an index is cached with the access, also for a PHI.
SubscriptOfFirstRoot(e) == Under(IF cached' = NotCached THEN ir.payload ELSE cached', e)

\* getSCEV() of an instruction is computed once; setting its operand to another
\* PHI does not invalidate it.
Subscript(e) == Under(IF cached' = NotCached \/ IsBare(e) THEN ir.payload ELSE cached', e)

\* The bound that the compare of loop k has now: it follows the payload.
BoundOf(k) == nest.loops[DimensionOf(k)].bound

\* Mutant: the bounds are those of the nest as written.
ViewWithOldBounds ==
    [nest EXCEPT
        !.loops    = [k \in 1 .. Depth(nest) - root + 1 |-> nest.loops[root + k - 1]],
        !.accesses = [m \in DOMAIN nest.accesses |->
            [nest.accesses[m] EXCEPT
                !.subscripts = [d \in DOMAIN nest.accesses[m].subscripts |->
                                   Subscript(nest.accesses[m].subscripts[d])]]]]

\* The nest below the root: its PHIs, the bounds their compares have now, the
\* accesses of the innermost body. The IVs of the loops around it are symbols.
View ==
    [nest EXCEPT
        !.loops    = [k \in 1 .. Depth(nest) - root + 1 |->
            [nest.loops[root + k - 1] EXCEPT !.bound = BoundOf(root + k - 1)]],
        !.accesses = [m \in DOMAIN nest.accesses |->
            [nest.accesses[m] EXCEPT
                !.subscripts = [d \in DOMAIN nest.accesses[m].subscripts |->
                                   Subscript(nest.accesses[m].subscripts[d])]]]]

\* Mutant: the legality of the nest is not asked for a second time.
RootRewritesOnTrust(view) ==
    IF PolyEnableInterchange /\ (ir # OriginalIR(nest) \/ IsTilingLegal(view)) /\ BestLoops(view) # {}
    THEN {IF k = Depth(view) THEN ir
          ELSE ApplyLoopInterchange(nest, ir, root + k - 1, Depth(nest)) : k \in BestLoops(view)}
    ELSE {ir}

\* The rewrites this root may leave behind.
RootRewrites(view) ==
    IF PolyEnableInterchange /\ IsTilingLegal(view) /\ BestLoops(view) # {}
    THEN {IF k = Depth(view) THEN ir
          ELSE ApplyLoopInterchange(nest, ir, root + k - 1, Depth(nest)) : k \in BestLoops(view)}
    ELSE {ir}

\* One turn of the loop over the roots. Analysing the first root fills the cache.
TransformRoot ==
    /\ at = "pass"
    /\ cached' = IF cached = NotCached THEN ir.payload ELSE cached
    /\ \E view \in {View} : ir' \in RootRewrites(view)
    /\ IF root > 1 THEN root' = root - 1 /\ UNCHANGED <<at, iv>>
                   ELSE at' = "header" /\ iv' = ir'.start /\ UNCHANGED root
    /\ UNCHANGED <<nest, level, data>>

RootsStep == TransformRoot \/ ((Header \/ Body \/ Latch) /\ UNCHANGED roots)

RootsNext == RootsStep \/ (Exited /\ UNCHANGED roots)

RootsSpec == RootsInit /\ [][RootsNext]_<<vars, roots>>

-----------------------------------------------------------------------------
(* Properties, with those of InterchangedNest.                             *)

\* Type invariant: however many exchanges are composed, the payload reads every
\* PHI once, increments and compares keep theirs, the bounds follow the payload, and
\* nothing is rewritten before the first analysis has filled the cache.
RootsTypeOK ==
    /\ TypeOK
    /\ root \in 1 .. Depth(nest) - 1
    /\ cached \in {NotCached, [k \in Dim(nest) |-> k]}
    /\ cached = NotCached => ir = OriginalIR(nest)
    /\ \A k, l \in Dim(nest) : ir.payload[k] = ir.payload[l] => k = l
    /\ \A k \in Dim(nest) : /\ ir.bound[ir.payload[k]] = RuntimeBound(nest, k)
                             /\ ir.control[k] = k

\* README "improve cache locality by applying a fixed set of legal loop
\* transformations": the last word is the outermost root's, so a valid nest whose
\* subscripts are read afresh runs with a best loop of the whole nest innermost,
\* whatever the roots inside have exchanged before.
SubscriptsAreFresh ==
    \A m \in DOMAIN nest.accesses :
        \A d \in DOMAIN nest.accesses[m].subscripts :
            LET e == nest.accesses[m].subscripts[d]
            IN  IsBare(e) \/ DOMAIN e.terms \cap IVs(nest) = {}

FreshNestsAreInterchanged == SubscriptsAreFresh => ValidNestsAreInterchanged
=============================================================================
