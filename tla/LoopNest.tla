------------------------------ MODULE LoopNest ------------------------------
(***************************************************************************)
(* What polyhedralpass.cpp computes about one loop nest before it rewrites *)
(* it, next to what the nest does when it runs.                            *)
(*                                                                         *)
(* A nest is a record                                                      *)
(*   loops     sequence, outermost first, of                               *)
(*             [iv, type, bound, predicate, test]: the induction PHI, its  *)
(*             IR type, the compare's operand 1, the condition under which *)
(*             the loop goes on, and the block ("header" or "latch") whose *)
(*             branch leaves the loop;                                     *)
(*   accesses  sequence of [kind, base, subscripts] in program order;      *)
(*   env       run-time value of every symbol that is not an IV;           *)
(*   object    memory object every base pointer points to at run time;     *)
(*   comparators  the comparison operators that the isl the pass is linked *)
(*             with reads in a constraint.                                 *)
(* A source expression is [op, const, terms]: const plus the sum of        *)
(* terms[s] * s, as it is for op = "affine", halved for op = "half" (a     *)
(* udiv, standing for every SCEV that createExprFromSCEV has no case for). *)
(* Every induction variable is canonical: it starts at 0 and its step is 1,*)
(* the only form for which getCanonicalInductionVariable() is not null.    *)
(* An iteration is a function from the dimensions 1 .. depth to Nat.       *)
(***************************************************************************)
EXTENDS Integers, Sequences, FiniteSets, Functions

Dim(nest) == DOMAIN nest.loops

Depth(nest) == Len(nest.loops)

IVs(nest) == {nest.loops[k].iv : k \in Dim(nest)}

IndexOf(nest, iv) == CHOOSE k \in Dim(nest) : nest.loops[k].iv = iv

-----------------------------------------------------------------------------
(* Run time: what LLVM IR of the nest computes.                            *)

SymbolValue(nest, x, s) == IF s \in IVs(nest) THEN x[IndexOf(nest, s)] ELSE nest.env[s]

SumOfTerms(nest, const, terms, x) ==
    IF DOMAIN terms = {} THEN const
    ELSE const + SumFunction([s \in DOMAIN terms |-> terms[s] * SymbolValue(nest, x, s)])

\* The value of const + the sum of the terms at iteration x.
Linear(nest, e, x) == SumOfTerms(nest, e.const, e.terms, x)

Value(nest, e, x) ==
    IF e.op = "affine" THEN Linear(nest, e, x) ELSE Linear(nest, e, x) \div 2

RuntimeBound(nest, k) == Value(nest, nest.loops[k].bound, <<>>)

\* Whether a loop with this predicate goes on when its IV is v.
GoesOn(predicate, v, bound) ==
    CASE predicate = "slt" -> v < bound
      [] predicate = "sle" -> v <= bound
      [] predicate = "ne"  -> v # bound

\* The values the IV of dimension k takes in the body: every earlier value, and
\* with the test in the header also the value itself, has passed the test.
IVValues(nest, k) ==
    LET loop == nest.loops[k]
        b    == RuntimeBound(nest, k)
    IN  {v \in 0 .. b + 1 :
            \A u \in 0 .. v : \/ GoesOn(loop.predicate, u, b)
                              \/ loop.test = "latch" /\ u = v}

\* The dynamic instances of the innermost body.
Instances(nest) ==
    {x \in [Dim(nest) -> UNION {IVValues(nest, k) : k \in Dim(nest)}] :
        \A k \in Dim(nest) : x[k] \in IVValues(nest, k)}

\* The address an access touches: a GEP with fewer indices names the first
\* element, as if the missing indices were zero.
Rank == 3

Address(nest, a, x) ==
    <<nest.object[a.base],
      [d \in 1 .. Rank |->
         IF d \in DOMAIN a.subscripts THEN Value(nest, a.subscripts[d], x) ELSE 0]>>

LexBefore(x, y) ==
    \E k \in DOMAIN x : /\ x[k] < y[k]
                        /\ \A j \in 1 .. k - 1 : x[j] = y[j]

\* Mutant: output dependences are forgotten.
IsConflictingReadWrite(a, b) == a.kind # b.kind

IsConflicting(a, b) == a.kind = "store" \/ b.kind = "store"

\* The true dependences: both instances run, touch one address, one stores.
TrueDependences(nest) ==
    {xy \in Instances(nest) \X Instances(nest) :
        /\ LexBefore(xy[1], xy[2])
        /\ \E m, n \in DOMAIN nest.accesses :
              LET a == nest.accesses[m]
                  b == nest.accesses[n]
              IN  /\ IsConflicting(a, b)
                  /\ Address(nest, a, xy[1]) = Address(nest, b, xy[2])}

-----------------------------------------------------------------------------
(* Analysis: the AffineExprs, the isl sets and relations.                  *)

Zero == [const |-> 0, terms |-> <<>>]

\* A SCEV without a case falls through to the empty expression, the constant 0.
CreateExprFromSCEV(e) ==
    IF e.op = "affine" THEN [const |-> e.const, terms |-> e.terms] ELSE Zero

Upper(nest, k) == CreateExprFromSCEV(nest.loops[k].bound)

\* An access without GEP is written as the one-dimensional element [0].
Subscripts(a) ==
    IF a.subscripts = <<>> THEN <<Zero>>
    ELSE [d \in DOMAIN a.subscripts |-> CreateExprFromSCEV(a.subscripts[d])]

\* The strings carry no parameter list: to isl a symbol that is not a tuple
\* dimension is an unknown identifier.
MentionsOnlyIVs(nest, e) == DOMAIN e.terms \subseteq IVs(nest)

\* A tuple element that is just an unknown identifier is a fresh dimension: it
\* may have any value. In any larger expression it is a syntax error.
IsAnyValue(nest, e) ==
    /\ e.const = 0
    /\ \E s \in DOMAIN e.terms :
          s \notin IVs(nest) /\ DOMAIN e.terms = {s} /\ e.terms[s] = 1

DomainIsRead(nest) == \A k \in Dim(nest) : MentionsOnlyIVs(nest, Upper(nest, k))

AccessesAreRead(nest) ==
    \A m \in DOMAIN nest.accesses :
        LET subs == Subscripts(nest.accesses[m])
        IN  \A d \in DOMAIN subs :
                MentionsOnlyIVs(nest, subs[d]) \/ IsAnyValue(nest, subs[d])

\* Mutant: the order is written with "=".
BeforeIsReadWithEquals(nest) == {"<", "="} \subseteq nest.comparators

\* The comparison operators of src/isl: "==" is a token, but not one of them.
VendoredComparators == {"<", ">", "<=", ">=", "!=", "=", "<<", ">>", "<<=", ">>="}

\* The order of the original nest is written with "<" and "==".
BeforeIsRead(nest) == {"<", "=="} \subseteq nest.comparators

\* getDependencies() does not return NULL.
HasDependencies(nest) == DomainIsRead(nest) /\ AccessesAreRead(nest) /\ BeforeIsRead(nest)

\* Mutant: the lower bound is left out of the domain.
DomainFromOne(nest) ==
    LET upper(k) == Upper(nest, k).const
    IN  {x \in [Dim(nest) -> UNION {1 .. upper(k) - 1 : k \in Dim(nest)}] :
            \A k \in Dim(nest) : x[k] < upper(k)}

\* The iteration domain 0 <= iv < Upper of every loop, whatever its predicate.
Domain(nest) ==
    LET upper(k) == Upper(nest, k).const
    IN  {x \in [Dim(nest) -> UNION {0 .. upper(k) - 1 : k \in Dim(nest)}] :
            \A k \in Dim(nest) : x[k] < upper(k)}

\* Both accesses, at x and at y, may be mapped to one tuple.
SameElement(nest, a, x, b, y) ==
    LET s == Subscripts(a)
        t == Subscripts(b)
    IN  /\ a.base = b.base
        /\ DOMAIN s = DOMAIN t
        /\ \A d \in DOMAIN s :
              \/ IsAnyValue(nest, s[d])
              \/ IsAnyValue(nest, t[d])
              \/ Linear(nest, s[d], x) = Linear(nest, t[d], y)

\* The union of Writes.Writes^-1, Writes.Reads^-1 and Reads.Writes^-1.
Conflicts(nest, x, y) ==
    \E m, n \in DOMAIN nest.accesses :
        LET a == nest.accesses[m]
            b == nest.accesses[n]
        IN  IsConflicting(a, b) /\ SameElement(nest, a, x, b, y)

GetDependencies(nest) ==
    {xy \in Domain(nest) \X Domain(nest) :
        LexBefore(xy[1], xy[2]) /\ Conflicts(nest, xy[1], xy[2])}

\* Mutants: only the outermost dimension is tested; a distance of 0 is refused.
IsTilingLegalOutermost(nest) ==
    /\ Depth(nest) >= 2
    /\ HasDependencies(nest)
    /\ \A xy \in GetDependencies(nest) : ~ (xy[2][1] < xy[1][1])

IsTilingLegalStrict(nest) ==
    /\ Depth(nest) >= 2
    /\ HasDependencies(nest)
    /\ \A xy \in GetDependencies(nest) :
          \A k \in Dim(nest) : ~ (xy[2][k] <= xy[1][k])

\* No dependence has a negative distance in any dimension.
IsTilingLegal(nest) ==
    /\ Depth(nest) >= 2
    /\ HasDependencies(nest)
    /\ \A xy \in GetDependencies(nest) :
          \A k \in Dim(nest) : ~ (xy[2][k] < xy[1][k])

-----------------------------------------------------------------------------
(* Loop order and interchange.                                             *)

LastSubscriptSymbols(a) ==
    IF a.subscripts = <<>> THEN {}
    ELSE DOMAIN CreateExprFromSCEV(a.subscripts[Len(a.subscripts)]).terms

Score(nest, s) ==
    Cardinality({m \in DOMAIN nest.accesses : s \in LastSubscriptSymbols(nest.accesses[m])})

\* The scores are kept in a map ordered by address, so of several symbols with
\* the highest score any one may come first.
BestSymbols(nest) ==
    LET symbols == UNION {LastSubscriptSymbols(nest.accesses[m]) : m \in DOMAIN nest.accesses}
    IN  {s \in symbols : \A t \in symbols : Score(nest, t) <= Score(nest, s)}

\* A best symbol that is not an IV of the nest leaves BestIdx at the outermost loop.
BestIndex(nest, s) == IF s \in IVs(nest) THEN IndexOf(nest, s) ELSE 1

\* The loops optimizeLoopOrder() may choose to have innermost.
BestLoops(nest) == {BestIndex(nest, s) : s \in BestSymbols(nest)}

Swapped(f, i, j) == [f EXCEPT ![i] = f[j], ![j] = f[i]]

\* The rewritable part of the IR: each PHI's start value, each compare's bound,
\* and the PHI each use reads: payload[k] for the body's uses of dimension k,
\* control[k] for the increment and the compare of loop k.
OriginalIR(nest) ==
    [start   |-> [k \in Dim(nest) |-> 0],
     bound   |-> [k \in Dim(nest) |-> RuntimeBound(nest, k)],
     payload |-> [k \in Dim(nest) |-> k],
     control |-> [k \in Dim(nest) |-> k]]

\* Mutants: the bounds stay; the uses are replaced one PHI after the other; the
\* increments and compares are rewritten with the payload.
InterchangeKeepingBounds(nest, ir, outer, inner) ==
    IF nest.loops[outer].type # nest.loops[inner].type THEN ir
    ELSE [ir EXCEPT !.payload = Swapped(ir.payload, outer, inner)]

InterchangeInSequence(nest, ir, outer, inner) ==
    IF nest.loops[outer].type # nest.loops[inner].type THEN ir
    ELSE [ir EXCEPT !.bound   = Swapped(ir.bound, outer, inner),
                    !.payload = [k \in Dim(nest) |->
                                   IF ir.payload[k] \in {outer, inner} THEN outer
                                   ELSE ir.payload[k]]]

InterchangeWithControl(nest, ir, outer, inner) ==
    IF nest.loops[outer].type # nest.loops[inner].type THEN ir
    ELSE [ir EXCEPT !.bound   = Swapped(ir.bound, outer, inner),
                    !.payload = Swapped(ir.payload, outer, inner),
                    !.control = Swapped(ir.control, outer, inner)]

\* The uses isControlInst() accepts keep their PHI; the predicates stay.
ApplyLoopInterchange(nest, ir, outer, inner) ==
    IF nest.loops[outer].type # nest.loops[inner].type THEN ir
    ELSE [ir EXCEPT !.start   = Swapped(ir.start, outer, inner),
                    !.bound   = Swapped(ir.bound, outer, inner),
                    !.payload = [k \in Dim(nest) |->
                                   CASE ir.payload[k] = outer -> inner
                                     [] ir.payload[k] = inner -> outer
                                     [] OTHER -> ir.payload[k]]]

-----------------------------------------------------------------------------
(* The nests that are nests, and those README.md promises to handle.       *)

\* At least one loop; bounds that isRectangularNest() accepts and that are not
\* negative at run time; accesses with subscripts within the modelled rank.
IsNest(nest) ==
    /\ Depth(nest) \in Nat \ {0}
    /\ Dim(nest) = 1 .. Depth(nest)
    /\ \A k \in Dim(nest) : /\ nest.loops[k].predicate \in {"slt", "sle", "ne"}
                             /\ nest.loops[k].test \in {"header", "latch"}
                             /\ DOMAIN nest.loops[k].bound.terms \cap IVs(nest) = {}
                             /\ RuntimeBound(nest, k) \in Nat
    /\ Len(nest.accesses) \in Nat
    /\ DOMAIN nest.accesses = 1 .. Len(nest.accesses)
    /\ \A m \in DOMAIN nest.accesses :
          LET subs == nest.accesses[m].subscripts
          IN  Len(subs) \in 0 .. Rank /\ DOMAIN subs = 1 .. Len(subs)

\* README.md, "Supported nests" and "Unsupported cases".
LoopsAreSupported(nest) ==
    \A k \in Dim(nest) : /\ nest.loops[k].predicate \in {"slt", "ne"}
                         /\ nest.loops[k].test = "header"
                         /\ nest.loops[k].bound.op = "affine"

AccessesAreSupported(nest) ==
    \A m, n \in DOMAIN nest.accesses :
        LET a == nest.accesses[m]
            b == nest.accesses[n]
        IN  /\ \A d \in DOMAIN a.subscripts : a.subscripts[d].op = "affine"
            /\ nest.object[a.base] = nest.object[b.base] => a.base = b.base
            /\ a.base = b.base => Len(a.subscripts) = Len(b.subscripts)

IsSupported(nest) == LoopsAreSupported(nest) /\ AccessesAreSupported(nest)
=============================================================================
