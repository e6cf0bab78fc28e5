------------------------- MODULE AffineExpressions -------------------------
(***************************************************************************)
(* createExprFromSCEV() on SCEVs built from one another, and toISLString() *)
(* on what it returns. A step makes one more SCEV of the ones there are,   *)
(* and translates it from the translations of its operands, which is what  *)
(* the recursion over operands comes to.                                   *)
(*                                                                         *)
(* A SCEV is a record: width, the value it has at every point (an iteration*)
(* of loop "i" and values of the unknowns), its AffineExpr, and for the    *)
(* properties: constant; invariant (does not change with i); affine (made  *)
(* of the cases the translation has); nowrap (no addition or multiplication*)
(* wraps at any point); kept (no cast changes a value at any point);       *)
(* modular (affine and without extensions); plain (without any cast).      *)
(* An AffineExpr is [const, terms], its terms a sequence of [symbol, coef].*)
(***************************************************************************)
EXTENDS Integers, Sequences, SequencesExt

CONSTANTS
    Wide, Narrow,    \* bits of an int64_t, and of a narrower integer type
    Points,          \* functions from the symbols to their values
    NarrowSymbols,   \* the unknowns of the narrower type
    Constants,       \* the integer literals of the program
    MaxNodes         \* bound: how many SCEVs are built

\* What is assumed of the constants.
WidthAssumption ==
    /\ Wide \in Nat /\ Narrow \in 1 .. Wide - 1
    /\ \A p \in Points : "i" \in DOMAIN p /\ \A s \in DOMAIN p : p[s] \in Int

Symbols == UNION {DOMAIN p : p \in Points}

Wrap(w, v) == ((v + 2 ^ (w - 1)) % (2 ^ w)) - 2 ^ (w - 1)

Fits(w, v) == Wrap(w, v) = v

-----------------------------------------------------------------------------
(* AffineExpr.                                                             *)

Empty == [const |-> 0, terms |-> <<>>]

\* Mutant: a symbol that is there already is added once more.
AddTermAgain(terms, t) ==
    IF t.coef = 0 THEN terms ELSE Append(terms, t)

\* addTerm: coefficients of one symbol are added up, also when they cancel.
AddTerm(terms, t) ==
    IF t.coef = 0 THEN terms
    ELSE IF \E k \in DOMAIN terms : terms[k].symbol = t.symbol
    THEN [k \in DOMAIN terms |->
            IF terms[k].symbol = t.symbol
            THEN [terms[k] EXCEPT !.coef = Wrap(Wide, @ + t.coef)] ELSE terms[k]]
    ELSE Append(terms, t)

AddExpr(l, r) ==
    [const |-> Wrap(Wide, l.const + r.const), terms |-> FoldLeft(AddTerm, l.terms, r.terms)]

MulExpr(e, factor) ==
    [const |-> Wrap(Wide, e.const * factor),
     terms |-> FoldLeft(AddTerm, <<>>, [k \in DOMAIN e.terms |->
                   [e.terms[k] EXCEPT !.coef = Wrap(Wide, @ * factor)]])]

MakeUnknownExpr(s) == [const |-> 0, terms |-> <<[symbol |-> s, coef |-> 1]>>]

\* What the expression stands for where isl computes: in the integers.
Eval(e, p) == FoldLeft(LAMBDA sum, t : sum + t.coef * p[t.symbol], e.const, e.terms)

-----------------------------------------------------------------------------
(* createExprFromSCEV, case by case.                                       *)

VARIABLE nodes    \* the SCEVs built so far

Leaf(w, value, expr) ==
    [width |-> w, value |-> value, expr |-> expr, constant |-> FALSE, invariant |-> TRUE,
     affine |-> TRUE, nowrap |-> TRUE, kept |-> TRUE, modular |-> TRUE, plain |-> TRUE]

\* SCEVConstant: getSExtValue().
ConstantNode(w, c) ==
    [Leaf(w, [p \in Points |-> c], [const |-> c, terms |-> <<>>]) EXCEPT !.constant = TRUE]

\* SCEVUnknown, an argument or a load outside the loop.
UnknownNode(s) ==
    Leaf(IF s \in NarrowSymbols THEN Narrow ELSE Wide, [p \in Points |-> p[s]], MakeUnknownExpr(s))

Init ==
    nodes = SetToSeq({ConstantNode(w, c) : w \in {Wide, Narrow}, c \in Constants}
                     \cup {UnknownNode(s) : s \in Symbols \ {"i"}})

Build(node) == Len(nodes) < MaxNodes /\ nodes' = Append(nodes, node)

\* The arithmetic of a w-bit operation with this exact result; facts of the result
\* are those of both operands.
Combined(a, b, value(_), expr) ==
    [a EXCEPT !.value     = [p \in Points |-> Wrap(a.width, value(p))],
              !.expr      = expr,
              !.constant  = FALSE,
              !.invariant = a.invariant /\ b.invariant,
              !.affine    = a.affine /\ b.affine,
              !.nowrap    = /\ a.nowrap /\ b.nowrap
                            /\ \A p \in Points : Fits(a.width, value(p)),
              !.kept      = a.kept /\ b.kept,
              !.plain     = a.plain /\ b.plain,
              !.modular   = a.modular /\ b.modular]

\* A SCEV no case is for: the empty expression.
NoCase(node) == [node EXCEPT !.expr = Empty, !.affine = FALSE, !.modular = FALSE]

\* ScalarEvolution itself folds operands that cancel, unless a cast hides it.
IsFolded(a, b) ==
    (a.plain /\ b.plain) =>
        LET sum == AddExpr(a.expr, b.expr) IN \A k \in DOMAIN sum.terms : sum.terms[k].coef # 0

Add ==
    \E k \in DOMAIN nodes : \E l \in k .. Len(nodes) :
        LET a == nodes[k]
            b == nodes[l]
        IN  /\ a.width = b.width
            /\ ~(a.constant /\ b.constant) /\ IsFolded(a, b)
            /\ Build(Combined(a, b, LAMBDA p : a.value[p] + b.value[p],
                              AddExpr(AddExpr(Empty, a.expr), b.expr)))

\* Two operands, one of them constant; any other product has no case.
Mul ==
    \E k, l \in DOMAIN nodes :
        LET a == nodes[k]
            b == nodes[l]
            product == Combined(a, b, LAMBDA p : a.value[p] * b.value[p],
                                MulExpr(b.expr, a.expr.const))
        IN  /\ a.width = b.width
            /\ ~b.constant
            /\ Build(IF a.constant THEN product ELSE NoCase(product))

\* Mutant: the start is forgotten.
AddRecExprFromZero(start, step) == MulExpr(MakeUnknownExpr("i"), step.const)

\* Start + Step * IV.
AddRecExpr(start, step) == AddExpr(start, MulExpr(MakeUnknownExpr("i"), step.const))

\* {start,+,step} of loop i, which has a canonical IV or has not. There is a case
\* only for a step whose expression has no terms.
AddRec ==
    \E k, l \in DOMAIN nodes : \E canonical \in BOOLEAN :
        LET start == nodes[k]
            step  == nodes[l]
            node  == [Combined(start, step, LAMBDA p : start.value[p] + step.value[p] * p["i"],
                               AddRecExpr(start.expr, step.expr)) EXCEPT !.invariant = FALSE]
        IN  /\ start.width = step.width
            /\ start.invariant /\ step.invariant
            /\ Build(IF canonical /\ step.expr.terms = <<>> THEN node ELSE NoCase(node))

\* The value a cast from one width to another gives.
CastValue(cast, v) ==
    CASE cast = "sext"  -> v
      [] cast = "zext"  -> v % (2 ^ Narrow)
      [] cast = "trunc" -> Wrap(Narrow, v)

\* SCEVCastExpr: the operand, whatever the cast.
CastExpr(cast, a) == a.expr

Cast ==
    \E k \in DOMAIN nodes : \E cast \in {"sext", "zext", "trunc"} :
        LET a == nodes[k]
        IN  /\ ~a.constant
            /\ a.width = IF cast = "trunc" THEN Wide ELSE Narrow
            /\ Build([a EXCEPT
                        !.width   = IF cast = "trunc" THEN Narrow ELSE Wide,
                        !.value   = [p \in Points |-> CastValue(cast, a.value[p])],
                        !.expr    = CastExpr(cast, a),
                        !.kept    = /\ a.kept
                                    /\ \A p \in Points : CastValue(cast, a.value[p]) = a.value[p],
                        !.plain   = FALSE,
                        !.modular = a.modular /\ cast = "trunc"])

\* Division, minimum, maximum: no case.
Division ==
    \E k \in DOMAIN nodes :
        /\ ~nodes[k].constant
        /\ Build(NoCase([nodes[k] EXCEPT !.value = [p \in Points |-> nodes[k].value[p] \div 2]]))

Finished == Len(nodes) = MaxNodes /\ UNCHANGED nodes

Next == Add \/ Mul \/ AddRec \/ Cast \/ Division \/ Finished

Spec == Init /\ [][Next]_nodes

-----------------------------------------------------------------------------
(* toISLString, and what isl's reader makes of the text.                   *)

AbsCoeff(c) == Wrap(Wide, IF c < 0 THEN -c ELSE c)

ConstantIsPrinted(e) == e.const # 0 \/ e.terms = <<>>

\* Mutant: every term but the first is joined with a plus.
SignWithoutMinus(e, k) ==
    LET printed == k > 1 \/ ConstantIsPrinted(e)
    IN  CASE printed /\ e.terms[k].coef # 0  -> "+"
          [] ~printed /\ e.terms[k].coef < 0 -> "-"
          [] OTHER                           -> "none"

\* The sign in front of term k.
Sign(e, k) ==
    LET printed == k > 1 \/ ConstantIsPrinted(e)
    IN  CASE printed /\ e.terms[k].coef > 0 -> "+"
          [] e.terms[k].coef < 0            -> "-"
          [] OTHER                          -> "none"

\* A term without sign sticks to what is printed in front of it: after the
\* constant its 0 is one more digit, after a name it makes another name, which
\* isl does not know.
IsGlued(e, k) == Sign(e, k) = "none" /\ (k > 1 \/ ConstantIsPrinted(e))

IsReadable(e) == \A k \in 2 .. Len(e.terms) : ~IsGlued(e, k)

\* The coefficient isl reads for term k, and the constant. A glued first term has
\* the constant's digits and a 0 as its coefficient.
ReadCoef(e, k) ==
    IF IsGlued(e, k) THEN 10 * e.const
    ELSE IF Sign(e, k) = "-" THEN - AbsCoeff(e.terms[k].coef) ELSE AbsCoeff(e.terms[k].coef)

ReadBack(e) ==
    [const |-> IF e.terms # <<>> /\ IsGlued(e, 1) THEN 0 ELSE e.const,
     terms |-> [k \in DOMAIN e.terms |-> [e.terms[k] EXCEPT !.coef = ReadCoef(e, k)]]]

-----------------------------------------------------------------------------
(* Properties.                                                             *)

\* Type invariant: the expressions are in range, and no symbol has two terms.
TypeOK ==
    \A n \in DOMAIN nodes :
        LET e == nodes[n].expr
        IN  /\ Fits(Wide, e.const)
            /\ \A k \in DOMAIN e.terms : e.terms[k].symbol \in Symbols /\ Fits(Wide, e.terms[k].coef)
            /\ \A k, l \in DOMAIN e.terms : e.terms[k].symbol = e.terms[l].symbol => k = l

\* Where nothing wraps and no cast changes a value, the expression has the value
\* of the SCEV at every point (createExprFromSCEV).
ExactExpressions ==
    \A n \in DOMAIN nodes :
        (nodes[n].affine /\ nodes[n].nowrap /\ nodes[n].kept) =>
            \A p \in Points : Eval(nodes[n].expr, p) = nodes[n].value[p]

\* Where the arithmetic of the program or of the pass wraps, but no value is
\* extended, the expression is still right modulo the width of the SCEV.
ModularExpressions ==
    \A n \in DOMAIN nodes :
        nodes[n].modular =>
            \A p \in Points : Wrap(nodes[n].width, Eval(nodes[n].expr, p)) = nodes[n].value[p]

\* isl reads back the expression that was printed, unless a coefficient is 0 or
\* the least int64 (toISLString).
Has(e, coef) == \E k \in DOMAIN e.terms : e.terms[k].coef = coef

Least == - 2 ^ (Wide - 1)

PlainTextIsReadBack ==
    \A n \in DOMAIN nodes :
        LET e == nodes[n].expr
        IN  (~Has(e, 0) /\ ~Has(e, Least)) => IsReadable(e) /\ ReadBack(e) = e
=============================================================================
