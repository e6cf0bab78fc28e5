----------------------- MODULE MCRepeatedInterchange -----------------------
(* Nests of two and three loops for RepeatedInterchange. An i64 IV indexes   *)
(* directly; the int of a C kernel is an i32 and goes through a sext.        *)
EXTENDS RepeatedInterchange, TLC

Affine(c, t) == [op |-> "affine", const |-> c, terms |-> t]
Const(c)     == Affine(c, <<>>)
I(c)         == Affine(c, "i" :> 1)
J(c)         == Affine(c, "j" :> 1)
K(c)         == Affine(c, "k" :> 1)

LoadOf(b, s)  == [kind |-> "load",  base |-> b, subscripts |-> s]
StoreTo(b, s) == [kind |-> "store", base |-> b, subscripts |-> s]

For(v, t, n) == [iv |-> v, type |-> t, bound |-> Const(n), predicate |-> "slt",
                 test |-> "header"]

Names == <<"i", "j", "k">>
Apart == [b \in {"A", "B", "C", "D"} |-> b]

Nest(t, trips, accesses) ==
    [loops    |-> [k \in DOMAIN trips |-> For(Names[k], t, trips[k])],
     accesses |-> accesses, env |-> <<>>, object |-> Apart,
     comparators |-> VendoredComparators \cup {"=="}]     \* an isl that takes "==" for "="

-----------------------------------------------------------------------------
(* src/tests/polyhedral-pass/test1.c and relatives, bare subscripts.         *)

MatMul  == <<LoadOf("A", <<I(0), K(0)>>), LoadOf("B", <<K(0), J(0)>>),
             LoadOf("C", <<I(0), J(0)>>), StoreTo("C", <<I(0), J(0)>>)>>

Bare3 ==
    { MatMul,
      <<LoadOf("A", <<K(0), J(0), I(0)>>), StoreTo("B", <<I(0), K(0), J(0)>>)>>,
      <<LoadOf("A", <<K(0), I(0)>>), LoadOf("A", <<J(0), I(0)>>), StoreTo("A", <<J(0), I(0)>>)>>,
      <<LoadOf("A", <<J(0), K(0)>>), StoreTo("A", <<K(0), J(0)>>), LoadOf("B", <<I(0)>>)>>,
      <<StoreTo("A", <<J(0)>>), LoadOf("B", <<K(0), I(0)>>), LoadOf("C", <<K(0), I(0)>>)>>,
      <<StoreTo("A", <<J(0), K(0)>>), StoreTo("A", <<K(0), J(0)>>), LoadOf("B", <<K(0), I(0)>>)>>,
      <<StoreTo("A", <<>>), LoadOf("B", <<K(0), J(0)>>), LoadOf("C", <<K(0), I(0)>>)>> }

Bare2 ==
    { <<LoadOf("A", <<J(0), I(0)>>), StoreTo("B", <<J(0), I(0)>>)>>,
      <<LoadOf("A", <<I(0), J(0)>>), StoreTo("A", <<J(0), I(0)>>)>>,
      <<StoreTo("A", <<J(0), I(0)>>), StoreTo("A", <<I(0), J(0)>>)>> }

FreshNests ==
    {Nest("i64", t, a) : t \in {<<2, 2, 2>>, <<2, 1, 3>>, <<1, 3, 2>>, <<2, 2, 0>>}, a \in Bare3}
    \cup {Nest("i64", t, a) : t \in {<<2, 3>>, <<3, 2>>}, a \in Bare2}

\* Subscripts that stay cached, all trip counts alike: A[j + c][i + d] against
\* A[j][i] in the three loops, and the kernels of test1.c and test10.c.
Square3 ==
    { MatMul,
      <<LoadOf("A", <<I(0), J(0), K(-1)>>), LoadOf("B", <<K(0), J(0)>>), StoreTo("A", <<I(0), J(0), K(0)>>)>> }
    \cup {<<LoadOf("A", <<J(c), K(d)>>), StoreTo("A", <<J(0), K(0)>>), LoadOf("B", <<I(0)>>), LoadOf("C", <<I(0)>>),
            LoadOf("D", <<I(0)>>)>> : c \in -1 .. 1, d \in -1 .. 1}
    \cup {<<LoadOf("A", <<I(c), J(d), K(0)>>), StoreTo("A", <<I(0), J(0), K(0)>>), LoadOf("B", <<K(0), J(0)>>),
            LoadOf("C", <<K(0), I(1)>>)>> : c \in -1 .. 1, d \in -1 .. 1}

SquareNests == {Nest("i32", <<2, 2, 2>>, a) : a \in Square3}

SafeNests == FreshNests \cup SquareNests

-----------------------------------------------------------------------------
(* Nests for the run that expects a violation.                               *)

\* The inner root exchanges j and k, whose trip counts differ; the outer root
\* then looks at the new bounds with the old subscripts.
StaleNests ==
    {Nest("i32", t, <<LoadOf("A", <<J(1), K(0)>>), StoreTo("A", <<J(0), K(0)>>),
                      LoadOf("B", <<I(0)>>), LoadOf("C", <<I(0)>>), LoadOf("D", <<I(0)>>)>>) :
        t \in {<<2, 2, 1>>, <<2, 1, 2>>, <<2, 3, 2>>}}
=============================================================================
