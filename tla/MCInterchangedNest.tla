------------------------- MODULE MCInterchangedNest -------------------------
(* Small nests for InterchangedNest: subscripts, bounds and tests in the     *)
(* shapes of src/tests, with trip counts small enough to run every instance. *)
EXTENDS InterchangedNest, TLC

Affine(c, t) == [op |-> "affine", const |-> c, terms |-> t]
Const(c)     == Affine(c, <<>>)
I(c)         == Affine(c, "i" :> 1)
J(c)         == Affine(c, "j" :> 1)
K(c)         == Affine(c, "k" :> 1)
Sym(s)       == Affine(0, s :> 1)

LoadOf(b, s)  == [kind |-> "load",  base |-> b, subscripts |-> s]
StoreTo(b, s) == [kind |-> "store", base |-> b, subscripts |-> s]

For(v, b)   == [iv |-> v, type |-> "i32", bound |-> b, predicate |-> "slt", test |-> "header"]
Slt(v, n)   == For(v, Const(n))

Env    == ("n" :> 2) @@ ("p" :> 1)
Apart  == [b \in {"A", "B", "C"} |-> b]

\* An isl that takes "==" for "=".
LenientComparators == VendoredComparators \cup {"=="}

Nest(loops, accesses) ==
    [loops |-> loops, accesses |-> accesses, env |-> Env, object |-> Apart,
     comparators |-> LenientComparators]

-----------------------------------------------------------------------------
(* Two loops, one array: every pair of a load and a store with offsets -1..1, *)
(* row-major and transposed (src/tests/polyhedral-pass test2, 3, 4, 7, 9).    *)

Bounds2 == {<<2, 3>>, <<3, 2>>}
Bounds0 == {<<2, 0>>, <<0, 2>>}

Stencils ==
    {Nest(<<Slt("i", b[1]), Slt("j", b[2])>>,
          <<LoadOf("A", IF t THEN <<J(d), I(c)>> ELSE <<I(c), J(d)>>),
            StoreTo("A", IF u THEN <<J(0), I(0)>> ELSE <<I(0), J(0)>>)>>) :
        b \in Bounds2, c \in -1 .. 1, d \in -1 .. 1, t \in BOOLEAN, u \in BOOLEAN}

\* Stores before loads, two stores, accumulators, scalars and rows.
Kernels ==
    {Nest(<<Slt("i", b[1]), Slt("j", b[2])>>, accesses) :
        b \in Bounds2 \cup Bounds0,
        accesses \in
          { <<StoreTo("A", <<J(0), I(0)>>), LoadOf("A", <<J(-1), I(1)>>)>>,
            <<StoreTo("A", <<J(0), I(1)>>), StoreTo("A", <<J(1), I(0)>>)>>,
            <<LoadOf("B", <<J(0), I(0)>>), LoadOf("A", <<>>), StoreTo("A", <<>>)>>,
            <<LoadOf("B", <<J(0), I(0)>>), LoadOf("A", <<I(0)>>), StoreTo("A", <<I(0)>>)>>,
            <<LoadOf("B", <<J(0), I(0)>>), LoadOf("A", <<J(0)>>), StoreTo("A", <<J(0)>>)>>,
            <<LoadOf("A", <<Affine(0, ("i" :> 1) @@ ("j" :> -1))>>), StoreTo("B", <<J(0), I(0)>>),
              StoreTo("A", <<Affine(1, ("i" :> 2) @@ ("j" :> 1))>>)>> }}

\* Symbols that are not induction variables: as a subscript, as a bound, and in
\* a sum; "p" and "n" as last subscripts are best symbols that are no IV.
Symbolic ==
    {Nest(<<For("i", b), Slt("j", 2)>>, <<LoadOf("A", <<s, I(0)>>), StoreTo("A", <<t, I(d)>>)>>) :
        b \in {Const(2), Sym("n")}, d \in {0, 1},
        s \in {Sym("p"), J(0), Affine(1, "p" :> 1)}, t \in {Sym("n"), J(0)}}
    \cup
    {Nest(<<Slt("i", 2), Slt("j", 3)>>, <<LoadOf("A", <<J(0), Sym("p")>>), StoreTo("B", <<I(0), J(0)>>)>>)}

\* Predicates that an interchange leaves where they are; different IV types.
Mixed ==
    {[Nest(<<Slt("i", 2), Slt("j", 3)>>, <<LoadOf("A", <<J(0), I(0)>>), StoreTo("A", <<J(d), I(0)>>)>>)
        EXCEPT !.loops[1].predicate = p, !.loops[2].type = t] :
        p \in {"slt", "ne"}, t \in {"i32", "i64"}, d \in {0, 1}}

\* Three loops (test1: matrix multiplication; test10: a stencil over time steps).
Deep ==
    {Nest(<<Slt("i", b[1]), Slt("j", b[2]), Slt("k", 2)>>, accesses) :
        b \in {<<2, 3>>, <<1, 2>>},
        accesses \in
          { <<LoadOf("A", <<I(0), K(0)>>), LoadOf("B", <<K(0), J(0)>>),
              LoadOf("C", <<I(0), J(0)>>), StoreTo("C", <<I(0), J(0)>>)>>,
            <<LoadOf("A", <<J(-1), I(0)>>), StoreTo("A", <<J(0), I(0)>>)>> }}

SupportedNests == Stencils \cup Kernels \cup Symbolic \cup Mixed \cup Deep

-----------------------------------------------------------------------------
(* Nests outside README's "Supported nests" that the pass does not tell apart. *)

Transposed == <<LoadOf("B", <<J(0), I(0)>>), StoreTo("A", <<J(0), I(0)>>)>>

Odd(loop, p, t, o) ==
    [loop EXCEPT !.predicate = p, !.test = t, !.bound.op = o]

UnsupportedNests ==
    {[Nest(<<IF 1 \in odd THEN Odd(Slt("i", 2), p, t, o) ELSE Slt("i", 2),
             IF 2 \in odd THEN Odd(Slt("j", 3), p, t, o) ELSE Slt("j", 3)>>, Transposed)
        EXCEPT !.object = m] :
        odd \in SUBSET {1, 2}, p \in {"slt", "sle", "ne"}, t \in {"header", "latch"},
        o \in {"affine", "half"}, m \in {Apart, [Apart EXCEPT !["B"] = "A"]}}
    \cup
    {Nest(<<Slt("i", 2), Slt("j", 3)>>,
          <<LoadOf("A", s), StoreTo("A", <<Affine(0, "j" :> 2), I(0)>>)>>) :
        s \in {<<J(0)>>, <<[J(0) EXCEPT !.op = "half"], I(0)>>}}


\* The same nests under a pass that is linked with the isl of the repository.
LinkedWithVendoredIsl(nests) == {[n EXCEPT !.comparators = VendoredComparators] : n \in nests}

VendoredNests     == LinkedWithVendoredIsl(SupportedNests)
AllVendoredNests  == LinkedWithVendoredIsl(SupportedNests \cup UnsupportedNests)
OddOrVendoredNests == UnsupportedNests \cup AllVendoredNests
=============================================================================
