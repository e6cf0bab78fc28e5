---------------------------- MODULE MCComputations ----------------------------
(***************************************************************************)
(* The computations that share no state and come to an end: an expression  *)
(* is built and printed, the PHIs of a nest are named and renamed, the isl *)
(* objects of a nest are made and freed, its dependences are computed map  *)
(* by map, a list is given away by strongly connected components. One of   *)
(* them is chosen at the start, so that TLC checks them side by side. The  *)
(* objects are IslSession's, with three loops: a violation or a failure may*)
(* come at the first one, the middle one and the last. The components are  *)
(* IslForeachScc's.                                                        *)
(***************************************************************************)
EXTENDS IslSession, IslForeachScc, TLC

CONSTANTS
    Wide, Narrow, Points, NarrowSymbols, Constants, MaxNodes,    \* AffineExpressions
    Letters, Digits, Others, FirstNames, Suffix,                 \* IslNames
    Square, Domains, Accesses, MaxAccesses, MaxFuel, NoMap       \* IslUnionMap

VARIABLES
    part,                                                     \* the computation
    nodes,                                                    \* AffineExpressions
    names, interchanges,                                      \* IslNames
    maps, pc, verdict, short, inputs                          \* IslUnionMap

ofExpressions == nodes
ofNames       == <<names, interchanges>>
ofSession     == vars                                         \* IslSession
ofMaps        == <<maps, pc, verdict, short, inputs>>
ofForeach     == sccVars                                      \* IslForeachScc
allVars == <<part, ofExpressions, ofNames, ofSession, ofMaps, ofForeach>>

-----------------------------------------------------------------------------
(* Three iterations of a loop; an unknown of each width, of either sign.   *)

SomePoints ==
    {("i" :> i) @@ ("m" :> mn[1]) @@ ("n" :> mn[2]) : i \in 0 .. 2, mn \in {<<-1, 2>>, <<1, -1>>}}

Expressions == INSTANCE AffineExpressions

\* mem2reg names a PHI after the variable, a dot and a number.
Mem2RegNames ==
    {<<"i", ".", "0">>, <<"i", ".", "0", "0">>, <<"i", "0", ".", "0">>, <<"p", ".", "0">>,
     <<"_", ".", "0">>, <<"_", "p", ".", "0">>}

Interchanged == <<".", "i">>

PhiNames == INSTANCE IslNames WITH Depth <- 2, Names <- FirstNames

UnitSquare == (0 .. 1) \X (0 .. 1)

Boxes == {UnitSquare, {<<0, 0>>, <<0, 1>>}}

Access(array, Index(_)) == [array |-> array, index |-> [p \in UnitSquare |-> Index(p)]]

SomeAccesses ==
    {Access("A", LAMBDA p : p[1]), Access("A", LAMBDA p : p[2]), Access("A", LAMBDA p : p[1] + p[2]),
     Access("A", LAMBDA p : p[1] - p[2]), Access("B", LAMBDA p : 0)}

Maps == INSTANCE IslUnionMap WITH
    Points <- Square, Null <- NoMap, env <- maps, legal <- verdict

\* All graphs of four nodes, searched from everywhere; those with no edge from 3
\* to 0, from one node; and small ones in which one question fails.
PossibleEdges == {e \in (0 .. 3) \X (0 .. 3) : e[1] # e[2]}

Answers(yes, error) ==
    [e \in (0 .. 3) \X (0 .. 3) |-> CASE e \in error -> "error" [] e \in yes -> "yes" [] OTHER -> "no"]

SomeQuestions ==
    {<<4, Answers(yes, {})>> : yes \in SUBSET PossibleEdges}
    \cup {<<1, Answers(yes, {})>> : yes \in SUBSET (PossibleEdges \ {<<3, 0>>, <<2, 0>>})}
    \cup {<<4, Answers(yes, {e})>> : yes \in SUBSET {<<3, 2>>, <<2, 1>>, <<1, 3>>, <<3, 0>>, <<0, 2>>},
                                     e \in {<<3, 2>>, <<2, 1>>, <<1, 3>>, <<0, 3>>}}

ASSUME ConstantsAssumption ==
    /\ Expressions!WidthAssumption /\ PhiNames!CharacterAssumption /\ DepthAssumption
    /\ Maps!UnionMapAssumption

-----------------------------------------------------------------------------

NoExpressions == nodes = <<>>
NoNames   == names = <<>> /\ interchanges = 0
NoSession == /\ todo = <<>> /\ phase = "none" /\ env = <<>> /\ refs = <<>> /\ loop = 0
             /\ legal = FALSE /\ failed = {}
NoMaps    == maps = <<>> /\ pc = 0 /\ verdict = FALSE /\ short = FALSE /\ inputs = <<>>
NoForeach == /\ start = 0 /\ answers = Answers({}, {}) /\ index = <<>> /\ minIndex = <<>> /\ onStack = <<>>
             /\ stack = <<>> /\ order = <<>> /\ count = 0 /\ frames = <<>> /\ result = "none"
             /\ followsFailed = FALSE /\ at = 0 /\ left = 0 /\ given = <<>> /\ fnFailed = FALSE
             /\ returned = "none"

MCInit ==
    \/ part = "expressions" /\ Expressions!Init /\ NoNames /\ NoSession /\ NoMaps /\ NoForeach
    \/ part = "names"   /\ NoExpressions /\ PhiNames!Init /\ NoSession /\ NoMaps /\ NoForeach
    \/ part = "session" /\ NoExpressions /\ NoNames /\ Init /\ NoMaps /\ NoForeach
    \/ part = "maps"    /\ NoExpressions /\ NoNames /\ NoSession /\ Maps!Init /\ NoForeach
    \/ part = "foreach" /\ NoExpressions /\ NoNames /\ NoSession /\ NoMaps /\ SccInit

ExpressionStep == part = "expressions" /\ Expressions!Next /\ UNCHANGED <<part, ofNames, ofSession, ofMaps, ofForeach>>
NameStep    == part = "names" /\ PhiNames!Next /\ UNCHANGED <<part, ofExpressions, ofSession, ofMaps, ofForeach>>
SessionStep == part = "session" /\ Next /\ UNCHANGED <<part, ofExpressions, ofNames, ofMaps, ofForeach>>
MapStep     == part = "maps" /\ Maps!Next /\ UNCHANGED <<part, ofExpressions, ofNames, ofSession, ofForeach>>
ForeachStep == part = "foreach" /\ SccNext /\ UNCHANGED <<part, ofExpressions, ofNames, ofSession, ofMaps>>

MCNext == ExpressionStep \/ NameStep \/ SessionStep \/ MapStep \/ ForeachStep

\* One thread, which takes its next step.
MCFairSpec == MCInit /\ [][MCNext]_allVars /\ WF_allVars(SessionStep) /\ WF_allVars(ForeachStep)

-----------------------------------------------------------------------------
(* The properties of the five modules, where they are stated and explained.  *)

\* The type invariants of the five.
MCTypeOK ==
    /\ part = "expressions" => Expressions!TypeOK
    /\ part = "session" => TypeOK
    /\ part = "maps"    => Maps!TypeOK
    /\ part = "foreach" => GraphTypeOK /\ SccTypeOK

\* createExprFromSCEV is exact where nothing wraps and no cast changes a value, and
\* right modulo the width where arithmetic wraps.
ExpressionsAreRight ==
    part = "expressions" => Expressions!ExactExpressions /\ Expressions!ModularExpressions

\* isl reads back what toISLString has printed.
PlainTextIsReadBack == part = "expressions" => Expressions!PlainTextIsReadBack

\* The dimensions of the isl text are different names, and identifiers also after a
\* renaming that reads freed memory (sanitizeISLName).
DimensionsAreNames ==
    part = "names" => PhiNames!FirstDimensionsAreDistinct /\ PhiNames!DimensionsAreIdentifiers

\* The dependences are complete or NULL, they are NULL only after a failure, and
\* without one isTilingLegal decides rightly (isl_union_map.c).
DependencesAreRight ==
    part = "maps" => Maps!DependencesAreComplete /\ Maps!NullMeansFailure /\ Maps!VerdictIsRight

\* The analysis of a nest, and foreach_scc, end whatever fails.
ComputationsEnd ==
    /\ part = "session" => SessionEnds
    /\ part = "foreach" => ForeachEnds
=============================================================================
