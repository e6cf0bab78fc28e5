-------------------------- MODULE MCPolyhedralPass --------------------------
(* Functions with up to four loops: none, one, a nest of two or three, loops  *)
(* side by side in a nest at either depth, two nests.                         *)
EXTENDS PolyhedralPass, TLC

Shapes ==
    { [top |-> <<>>,        children |-> <<>>],
      [top |-> <<1>>,       children |-> <<<<>>>>],
      [top |-> <<1>>,       children |-> <<<<2>>, <<>>>>],
      [top |-> <<1>>,       children |-> <<<<2>>, <<3>>, <<>>>>],
      [top |-> <<1>>,       children |-> <<<<2, 3>>, <<>>, <<>>>>],
      [top |-> <<1>>,       children |-> <<<<2>>, <<3, 4>>, <<>>, <<>>>>],
      [top |-> <<1, 3>>,    children |-> <<<<2>>, <<>>, <<>>>>],
      [top |-> <<1, 3>>,    children |-> <<<<2>>, <<>>, <<4>>, <<>>>>] }

\* The loops around l, by number: loops are numbered from the outside in.
Around(s, l) == {k \in DOMAIN s.children : k < l /\ l \in ToSet(s.children[k])}
                \cup {k \in DOMAIN s.children : k < l /\ \E m \in ToSet(s.children[k]) :
                                                   l \in ToSet(s.children[m])}

Plain == [described |-> TRUE, affine |-> TRUE, pure |-> TRUE, mentions |-> {}]

\* At most one loop is out of the ordinary, in any one way.
Oddities(s, l) ==
    {Plain, [Plain EXCEPT !.described = FALSE], [Plain EXCEPT !.pure = FALSE]}
    \cup {[Plain EXCEPT !.affine = a, !.mentions = m] : a \in BOOLEAN, m \in SUBSET Around(s, l)}

FunctionOf(s, facts) == [top |-> s.top, children |-> s.children, loop |-> facts]

SomePrograms ==
    UNION {UNION {{FunctionOf(s, [k \in DOMAIN s.children |-> IF k = l THEN o ELSE Plain]) :
                      o \in Oddities(s, l)} : l \in DOMAIN s.children} : s \in Shapes}
    \cup {FunctionOf(s, [k \in DOMAIN s.children |-> Plain]) : s \in Shapes}

\* A nest of two loops with statements beside the inner loop, whose bound is not affine.
UnsupportedPrograms ==
    {FunctionOf([top |-> <<1>>, children |-> <<<<2>>, <<>>>>],
                <<[Plain EXCEPT !.pure = FALSE], [Plain EXCEPT !.affine = FALSE]>>)}
=============================================================================
