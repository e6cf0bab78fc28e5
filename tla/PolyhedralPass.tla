--------------------------- MODULE PolyhedralPass ---------------------------
(***************************************************************************)
(* PolyhedralPass::run() on one function: the loops of the function become *)
(* roots one after the other, inner loops first; the nest below a root is  *)
(* described, checked, given to isl and, when legal, rewritten.            *)
(*                                                                         *)
(* A function is a record                                                  *)
(*   top       its top-level loops, in order;                              *)
(*   children  for every loop its subloops, in order;                      *)
(*   loop      for every loop [described, affine, pure, mentions]:         *)
(*     described  buildLoopDescriptor() returns a descriptor;              *)
(*     affine     createExprFromSCEV() has a case for the bound's SCEV;    *)
(*     pure       the body holds nothing besides a single subloop, or no   *)
(*                loop at all;                                             *)
(*     mentions   the enclosing loops whose IV the bound depends on.       *)
(* What isl answers and which order scores best depends on the accesses    *)
(* (see LoopNest); here both are any answer isl and the scores may give.   *)
(***************************************************************************)
EXTENDS Naturals, Sequences, SequencesExt

CONSTANT
    Programs        \* the functions under consideration

VARIABLES
    function,      \* the function under transformation
    options,       \* [interchange, blocking]: the command line
    at,            \* the statement of run() that is next
    roots,         \* the roots still to come
    visited,       \* the roots taken, in order
    nest,          \* the loops of the current nest, outermost first
    ctx, deps,     \* whether the isl context and the dependences are allocated
    tile,          \* the loop applyPolyhedralTiling() works on
    localChange,   \* LocalChange
    changed,       \* Changed
    interchanged,  \* the exchanges made: [nest, outer]
    result         \* the PreservedAnalyses returned: "all", "none"

isl     == <<ctx, deps>>
changes == <<localChange, changed, interchanged>>
vars    == <<function, options, at, roots, visited, nest, isl, tile, changes, result>>

Loops(f) == DOMAIN f.children

\* Mutant: a loop before its subloops.
CollectLoopsOutermostFirst(f) ==
    LET below[l \in Loops(f)] ==
            <<l>> \o FlattenSeq([i \in DOMAIN f.children[l] |-> below[f.children[l][i]]])
    IN  FlattenSeq([i \in DOMAIN f.top |-> below[f.top[i]]])

\* collectLoopsRecursively: the subloops of a loop, then the loop.
CollectLoops(f) ==
    LET below[l \in Loops(f)] ==
            FlattenSeq([i \in DOMAIN f.children[l] |-> below[f.children[l][i]]]) \o <<l>>
    IN  FlattenSeq([i \in DOMAIN f.top |-> below[f.top[i]]])

\* linearizePerfectNest: down as long as there is exactly one subloop.
LinearizePerfectNest(f, root) ==
    LET chain[l \in Loops(f)] ==
            IF Len(f.children[l]) = 1 THEN <<l>> \o chain[f.children[l][1]] ELSE <<l>>
    IN  chain[root]

\* analyzeLoopNest returns a descriptor.
IsAnalyzed(f, loops) ==
    Len(loops) >= 2 /\ \A i \in DOMAIN loops : f.loop[loops[i]].described

\* The IVs the analysed bound mentions: none when its SCEV became the constant 0.
MentionedIVs(f, l) == IF f.loop[l].affine THEN f.loop[l].mentions ELSE {}

\* Mutant: only the loop right outside is looked at.
IsRectangularToNext(f, loops) ==
    \A i \in DOMAIN loops : i > 1 => loops[i - 1] \notin MentionedIVs(f, loops[i])

\* isRectangularNest: no bound mentions the IV of a loop outside it in the nest.
IsRectangularNest(f, loops) ==
    \A i \in 1 .. Len(loops) : \A j \in 1 .. i - 1 : loops[j] \notin MentionedIVs(f, loops[i])

\* The loops right inside l, 0 standing for the function.
Inside(f, l) == IF l = 0 THEN f.top ELSE f.children[l]

\* LoopInfo's forest, the loops numbered from the outside in: every loop is right
\* inside one other loop or the function, once.
IsForest(f) ==
    /\ f.children \in Seq(Seq(Nat))
    /\ \A l \in {0} \cup Loops(f) :
          /\ Inside(f, l) \in Seq(Loops(f))
          /\ \A i \in DOMAIN Inside(f, l) : Inside(f, l)[i] > l
          /\ \A i, j \in DOMAIN Inside(f, l) : Inside(f, l)[i] = Inside(f, l)[j] => i = j
    /\ \A c \in Loops(f) : \E l \in {0} \cup Loops(f) : c \in ToSet(Inside(f, l))
    /\ \A k, l \in {0} \cup Loops(f) : k # l => ToSet(Inside(f, k)) \cap ToSet(Inside(f, l)) = {}

ASSUME ProgramsAssumption == \A f \in Programs : IsForest(f)

Init ==
    /\ function \in Programs
    /\ options \in [interchange : BOOLEAN, blocking : BOOLEAN]
    /\ at = "start"
    /\ roots = <<>> /\ visited = <<>> /\ nest = <<>>
    /\ ctx = FALSE /\ deps = FALSE
    /\ tile = 0
    /\ localChange = FALSE /\ changed = FALSE /\ interchanged = {}
    /\ result = "none yet"

\* LI.empty() returns at once, otherwise the roots are collected.
Start ==
    /\ at = "start"
    /\ roots' = CollectLoops(function)
    /\ IF function.top = <<>> THEN at' = "returned" /\ result' = "all"
                              ELSE at' = "next" /\ UNCHANGED result
    /\ UNCHANGED <<function, options, visited, nest, isl, tile, changes>>

\* The next root: a nest that cannot be described or is not rectangular is
\* skipped, any other gets an isl context.
TakeRoot ==
    /\ at = "next" /\ roots # <<>>
    /\ LET loops == LinearizePerfectNest(function, Head(roots))
           go    == IsAnalyzed(function, loops) /\ IsRectangularNest(function, loops)
       IN  /\ nest' = loops
           /\ ctx' = go
           /\ at' = IF go THEN "dependences" ELSE "next"
    /\ roots' = Tail(roots)
    /\ visited' = Append(visited, Head(roots))
    /\ localChange' = FALSE
    /\ UNCHANGED <<function, options, deps, tile, changed, interchanged, result>>

\* Mutant: the context of a nest isl cannot read is kept.
GetDependenciesLeaking ==
    /\ at = "dependences"
    /\ \E read \in BOOLEAN :
          /\ deps' = read
          /\ ctx' = TRUE
          /\ at' = IF read THEN "legality" ELSE "next"
    /\ UNCHANGED <<function, options, roots, visited, nest, tile, changes, result>>

\* getDependencies: isl reads the strings, or the context is freed at once. (That
\* the isl of src/isl never reads them is in LoopNest.)
GetDependencies ==
    /\ at = "dependences"
    /\ \E read \in BOOLEAN :
          /\ deps' = read
          /\ ctx' = read
          /\ at' = IF read THEN "legality" ELSE "next"
    /\ UNCHANGED <<function, options, roots, visited, nest, tile, changes, result>>

IsTilingLegal ==
    /\ at = "legality"
    /\ at' \in {"interchange", "release"}
    /\ UNCHANGED <<function, options, roots, visited, nest, isl, tile, changes, result>>

\* optimizeLoopOrder: a loop of the nest other than the innermost becomes the
\* innermost one, or the order is kept (already best, no score, other IV type).
OptimizeLoopOrder ==
    /\ at = "interchange"
    /\ \/ /\ options.interchange
          /\ \E i \in 1 .. Len(nest) - 1 :
                interchanged' = interchanged \cup {[nest |-> nest, outer |-> i]}
          /\ localChange' = TRUE
       \/ UNCHANGED <<localChange, interchanged>>
    /\ at' = "tile" /\ tile' = 1
    /\ UNCHANGED <<function, options, roots, visited, nest, isl, changed, result>>

\* Mutant: a block without terminator has one.
EveryBlockHasTerminator(preheader) == preheader \in {"preheader", "tile header"}

\* The first tile loop hangs off the preheader; its header gets a PHI and no
\* terminator.
HasTerminator(preheader) == preheader = "preheader"

CurrentPreheader == IF tile = 1 THEN "preheader" ELSE "tile header"

\* applyPolyhedralTiling: getTerminator() of the current preheader is
\* dereferenced once per loop. (The outermost loop has a preheader and an exit block:
\* buildLoopDescriptor has asked for the one and for a single exiting block.)
ApplyPolyhedralTiling ==
    /\ at = "tile"
    /\ \/ /\ ~options.blocking
          /\ at' = "release" /\ UNCHANGED tile
       \/ /\ options.blocking
          /\ IF ~HasTerminator(CurrentPreheader) THEN at' = "crashed" /\ UNCHANGED tile
             ELSE tile' = tile + 1 /\ UNCHANGED at
    /\ UNCHANGED <<function, options, roots, visited, nest, isl, changes, result>>

\* Mutant: Changed is assigned, not accumulated.
ReleaseOverwriting ==
    /\ at = "release"
    /\ deps' = FALSE /\ ctx' = FALSE
    /\ changed' = localChange
    /\ at' = "next"
    /\ UNCHANGED <<function, options, roots, visited, nest, tile, localChange,
                   interchanged, result>>

\* Mutant: a rewritten nest is taken again, until an order is kept.
ReleaseToFixpoint ==
    /\ at = "release"
    /\ deps' = FALSE /\ ctx' = localChange
    /\ changed' = (changed \/ localChange)
    /\ at' = IF localChange THEN "dependences" ELSE "next"
    /\ UNCHANGED <<function, options, roots, visited, nest, tile, localChange,
                   interchanged, result>>

\* The isl objects are freed, the change of this nest is added to the others.
Release ==
    /\ at = "release"
    /\ deps' = FALSE /\ ctx' = FALSE
    /\ changed' = (changed \/ localChange)
    /\ at' = "next"
    /\ UNCHANGED <<function, options, roots, visited, nest, tile, localChange,
                   interchanged, result>>

Return ==
    /\ at = "next" /\ roots = <<>>
    /\ at' = "returned"
    /\ result' = IF changed THEN "none" ELSE "all"
    /\ UNCHANGED <<function, options, roots, visited, nest, isl, tile, changes>>

Stopped == at \in {"returned", "crashed"} /\ UNCHANGED vars

Step ==
    \/ Start \/ TakeRoot \/ GetDependencies \/ IsTilingLegal \/ OptimizeLoopOrder
    \/ ApplyPolyhedralTiling \/ Release \/ Return

Next == Step \/ Stopped

Spec == Init /\ [][Next]_vars

\* One thread: the next statement is eventually executed.
FairSpec == Spec /\ WF_vars(Step)

-----------------------------------------------------------------------------
(* Properties.                                                             *)

TypeOK ==
    /\ function \in Programs
    /\ at \in {"start", "next", "dependences", "legality", "interchange", "tile",
               "release", "returned", "crashed"}
    /\ ToSet(roots) \cup ToSet(visited) \cup ToSet(nest) \subseteq Loops(function)
    /\ {ctx, deps, localChange, changed} \subseteq BOOLEAN
    /\ tile \in 0 .. 2
    /\ result \in {"none yet", "all", "none"}

\* PreservedAnalyses: run() says that everything is preserved exactly when no
\* nest of the function was rewritten, however many nests came after.
ResultIsHonest ==
    at = "returned" => (result = "all" <=> interchanged = {})

\* isl objects live inside one nest's turn: dependences within their context, and
\* no context when run() goes on to the next root or returns.
IslIsReleased ==
    /\ deps => ctx
    /\ at \in {"next", "returned"} => ~ctx

\* Every loop is a root once, and only after every loop below it, so that a nest
\* is analysed in the form its inner nests were left in.
InnerNestsComeFirst ==
    /\ \A i, j \in DOMAIN visited : visited[i] = visited[j] => i = j
    /\ \A i \in DOMAIN visited :
          \A c \in ToSet(function.children[visited[i]]) :
             \E j \in 1 .. i - 1 : visited[j] = c
    /\ at = "returned" => ToSet(visited) = Loops(function)

\* An exchange never moves a loop across a bound that depends on it, as far as
\* the bounds are affine: the bounds may be swapped as they are.
ExchangedBoundsAreInvariant ==
    \A x \in interchanged :
        \A i \in x.outer + 1 .. Len(x.nest) :
            function.loop[x.nest[i]].affine =>
                x.nest[x.outer] \notin function.loop[x.nest[i]].mentions

\* run() comes to an end (in applyPolyhedralTiling if not in its return).
Terminates == <>(at \in {"returned", "crashed"})

\* README "keep only perfectly nested affine loops": no nest that reaches isl has
\* statements outside its innermost loop (linearizePerfectNest) or a bound that is
\* not affine (isRectangularNest).
CandidatesAreSupported ==
    at = "dependences" =>
        /\ \A i \in 1 .. Len(nest) - 1 : function.loop[nest[i]].pure
        /\ \A i \in DOMAIN nest : function.loop[nest[i]].affine

\* README "working loop interchange and loop tiling transformations": a legal
\* nest is tiled, the process does not end (applyPolyhedralTiling).
TilingDoesNotCrash == at # "crashed"
=============================================================================
