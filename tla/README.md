# TLA+ models of the polyhedral pass

The repository is an LLVM function pass (`src/polyhedralpass.cpp`, built as a plugin for `opt`)
that looks for rectangular loop nests, describes their iteration domain and accesses to isl as
text, asks isl for the dependences, and when no dependence has a negative distance interchanges
two loops of the nest and tiles it. `src/isl` is a vendored copy of isl. Everything else is
build rules, test kernels and measurement scripts.

The program is sequential. What makes it hard is not concurrency but distance: facts collected
from the IR are turned into text, the text into relations, a yes or no into a rewrite of PHIs,
compares and branches, and only the run of the rewritten nest shows whether all of it fits
together. The project therefore models the pass *and* the execution of what it leaves behind.

## Inventory

| Component (lines of `polyhedralpass.cpp`) | State | Operations | Correct when |
|---|---|---|---|
| Affine expressions, SCEV translation (67-234) | none | `AffineExpr` arithmetic, `createExprFromSCEV` | the expression has the value of the SCEV; anything else is refused |
| Loop and access descriptors (241-374) | `LoopNestDescriptor` | `flattenGEP`, `buildLoopDescriptor`, `linearizePerfectNest`, `collectMemoryAccesses`, `analyzeLoopNest`, `isRectangularNest` | the nest is perfect and affine, every access is recorded |
| isl text, dependence analysis (380-511) | isl objects in one context | `sanitizeISLName`, `toISLString`, `getDependencies` | the domain holds every instance, no true dependence is missing |
| Legality test (513-542) | none | `isTilingLegal` | a legal nest may run in any order of its loops |
| Loop order and interchange (548-650) | PHIs, compares and uses in the IR | `optimizeLoopOrder`, `applyLoopInterchange` | every instance runs once, in an order the dependences allow |
| Tiling (652-742) | CFG, PHIs, compares | `applyPolyhedralTiling` | same, and the IR is well formed in between |
| Driver (753-817) | `Loops`, `Changed`, isl context | `collectLoopsRecursively`, `run` | inner nests first, isl objects freed, result honest, ends |
| Names of PHIs (380-389, 600-604) | names in the IR's symbol table | `sanitizeISLName`, the renaming of an interchange | dimensions of the isl text are different identifiers |
| isl objects of a nest (470-542, 792-811) | references, one context | every isl call of `getDependencies` and `isTilingLegal` | no use after free, no leak, an error is never a proof |
| isl: union maps (`isl_union_map.c`) | a hash table of maps, one for each space | reverse, intersect, apply range, unite, subset tests | all pairs or NULL |
| isl: ids (`isl_id.c`, `isl_hash.c`) | `ctx->id_table` | alloc, copy, free; find, grow, remove | one object for each name |
| isl: lists (`isl_list_templ.c`) | shared reference-counted arrays | add, insert, drop, set, swap, reverse, map, concat | each variable has a value of its own |
| isl: components (`isl_tarjan.c`, `foreach_scc`) | one search | search, walk over the result | the components, dependences first |
| isl: blocks (`isl_blk.c`) | `ctx->cache`, `n_miss` | alloc, extend, free, clear | one owner for each block, true sizes |
| isl: the rest of `src/isl` | library | reader, maps, integer programming, schedules, AST generation, C++ bindings | external |
| Options, logging, registration (48-61, 821-832) | command line | - | - |

How they interact: `run()` walks the loops of a function, inner loops first. For every root it
calls `analyzeLoopNest` (which calls ScalarEvolution), `isRectangularNest`, `getDependencies` and
`isTilingLegal`; the last two talk to isl. `optimizeLoopOrder` and `applyPolyhedralTiling` change
the IR that the analyses of *later* roots are computed from, while LoopInfo and ScalarEvolution
keep what they computed before. There are no threads, no files and no retries. Hard are: the order
of edits inside one rewrite, overlapping nests, a text isl cannot read, cached analyses, failing
calls in the middle of an operation on shared objects, and conditions the description drops
(predicates, blocks between loops).

## What is modelled, and where

### `LoopNest` - one nest: analysis, rewrite, meaning

Pure operators on a nest record. The first part says what the IR of the nest *computes* (values
of expressions, the IV values of a loop with a given predicate and test position, instances,
addresses, true dependences). The second is the pass's view: `CreateExprFromSCEV`, the isl
`Domain`, which strings isl can read (`DomainIsRead`, `AccessesAreRead`, `BeforeIsRead`),
`GetDependencies`, `IsTilingLegal`. The third is `Score`, `BestLoops` and `ApplyLoopInterchange`.

*What isl reads.* The pass writes sets without a parameter list. To isl's reader a symbol that is
no tuple dimension is then unknown: alone as a tuple element it is a fresh dimension with any
value (`IsAnyValue`), in a larger expression or in a bound it is an error and the call returns
NULL. The order of the original nest is written with `<` and `==` (lines 490-501). isl's lexer has
a token for `==`, but `is_comparator` (`src/isl/isl_input.c:700-718`) does not list it.
The `comparators` of a nest are those of the isl that is linked: `VendoredComparators` is the set of
`src/isl`; the `Makefile` only puts `src/isl/include` on the include path and leaves the symbols
to the loading process. Nests with `LenientComparators` give isl a `==` as well. They are there
because all of the legality test and of the rewrite lies behind line 503, and with the isl of the
repository none of it is ever reached.

*The rewrite.* An IR is four functions on the dimensions: the start value of each PHI, the bound of
each compare, the PHI read by the payload's uses of each IV, and the PHI read by each loop's own
increment and compare. `ApplyLoopInterchange` swaps the first two and redirects the third, as
lines 559-591 do; the uses `isControlInst` accepts and the compare predicates stay.

### `InterchangedNest` - the nest goes through the pass and runs

| Action | Code |
|---|---|
| `Transform` | the part of `run()` from line 792 on, for this nest |
| `Header`, `Body`, `Latch` | the blocks of the nest after the rewrite |
| `Exited` | the code after the nest |

`memory` holds for every address the write last made to it, and `source` for every load the write
it read; a write is named by its original instance and access, so the values stored need not be
modelled. Blocking is off here (`-poly-enable-blocking=false`): interchange is the only rewrite.

### `DependenceOrder` - what a loop transformation promises

The abstract specification, from README "Legality Checking": instances run one at a time, each
once, each after those it depends on, and the nest is left when all have run.
`InterchangedNest!RespectsDependences` is this specification under the mapping
instances = the instances of the nest as written, precedes = its true dependences.

### `PolyhedralPass` - the driver

`run()` on a function with any forest of loops: one action for the entry, for taking a root up to
`isl_ctx_alloc`, for `getDependencies`, `isTilingLegal`, `optimizeLoopOrder`, each round of
`applyPolyhedralTiling`, the release of the isl objects, and the return. Answers that depend on
accesses (isl reads the text, the nest is legal, a loop is exchanged) are any answer; that the isl of
the repository never reads the text is shown in `LoopNest`, from the comparators its reader knows, and
not assumed here. The tile loops are built as far as the code gets: the
first round's header is a block without a terminator, and the second round dereferences
`getTerminator()` of it (line 681). Every nest has at least two loops, so the lines after that
loop are not reachable with an isl that works, and not modelled.

### `RepeatedInterchange` - all roots of one nest

Extends `InterchangedNest`. A perfect nest of n loops is n - 1 roots: `TransformRoot` is one turn of
the loop of `run()`, on the nest below the root, with the bounds the IR now has (`View`) and with
the subscripts as ScalarEvolution knows them (`Subscript`). ScalarEvolution translates an
instruction once; `setOperand` and `Use::set` on its operands do not invalidate the result. So a
subscript that is the PHI itself is read afresh, one behind a `sext` or an addition names the PHI of
the IR before the first rewrite (`cached`).

### `AffineExpressions`, `IslNames` - expressions and their text

`AffineExpressions` builds SCEVs out of one another (`Add`, `Mul`, `AddRec`, `Cast`, `Division`),
each with its value at every point, in two's complement of `Wide` bits (an int64) and `Narrow`
bits, and translates each as the cases of `createExprFromSCEV` do. `ReadBack` is what isl's reader
makes of `toISLString`. `IslNames` follows the names of the PHIs through one interchange, which
reads the outer name after `setName` has freed it (lines 601-604: `NamesReadAfterFree`), and
sanitises them.

### `IslSession` - the isl objects of a nest

`todo` is what is left of the straight-line code of `getDependencies` and `isTilingLegal`: reads,
copies, calls that take their arguments, frees. Each call may fail and return NULL; a call with NULL
fails and still takes the others. `TestInputs`, `TestDependences` and `AskWhetherEmpty` are the
branches. The variables keep their pointers after a reference is handed over, as in C.

### `IslUnionMap` - the dependences, map by map

The thirteen statements of `getDependencies` and `isTilingLegal` that compute, with isl's operations as
walks over tables of maps: `Fail` makes the result NULL for good, `AddMap` unites maps of one
space. `fuel` is the number of operations on maps that succeed, so that failure happens at every
place. Operations on single maps are taken as exact.

### `IslTarjan`, `IslForeachScc` - components

`IslTarjan` has one frame for each call of `isl_tarjan_components`; `FailInside` is a callback that
fails, `ReturnTo` the return to the caller, which at line 90 does not look at the result of the
call. `IslForeachScc` extends it with the walk of `isl_*_list_foreach_scc` over the result, whose
own callback may fail too. The edges of the graph are what `follows` answers; `Reaches` defines a
path without a recursion, by the sets that no edge leaves, and `GraphIsDecomposed` says with it both
what the search is for (`IsDecomposition`) and what holds on the way (`StackIsConnected`).

### `IslIdTable` implements `InternedIds`

`isl_hash.c` is open addressing with linear probing: `Find`, `Grow` and `RemoveEntry` (which closes
the gap it leaves) are its functions, `Home` is `isl_hash_bits`. The actions are those of
`isl_id.c`, with failing allocations. `InternedIds` is what clients rely on: while somebody holds
an id, everybody who asks for its name gets the same object, and nobody else does.

### `IslList` implements `ValueLists`

The functions of `isl_list_templ.c` as operators on a heap of lists and elements, both with
reference counts; `memory` allocations succeed and the next one fails. `ValueLists` has no heap:
each variable holds a sequence, an operation changes the variables it is given and no other, or
makes them NULL.

### `IslBlk` - the block cache

All functions of `isl_blk.c`. `real` is what was allocated, `used` and `cache` who has it, `since`
a history variable: the misses since the first block of the cache got its place.

### The modules for TLC

`MCInterchangedNest`, `MCRepeatedInterchange`, `MCPolyhedralPass` hold the nests and functions.
`MCComputations` and `MCIslObjects` put together the parts that share no state with each other (one
or two by `EXTENDS`, the others by `INSTANCE`): a step of one cannot be told from outside the others, so it
is enough to choose one at the start (`part`) and let it move. `MCComputations` has those that come
to an end, `MCIslObjects` those that live as long as the context. Their properties are the modules'
own or conjunctions of them, explained there; their `ConstantsAssumption` asserts what each module
assumes of its constants.

Definitions preceded by "Mutant:" are plausible wrong versions of the definition after them. No
specification uses them: they are substituted, one at a time, to make sure that each property
notices.

## Runs

| Run | Question |
|---|---|
| `interchanged_nest` | Supported nests, an isl that reads the order: is the analysis sound, are valid nests rewritten, do loads, memory and order survive, does the nest end? |
| `unsupported_nests` | Nests the pass accepts without supporting them (`<=`, bottom tests, non-affine bounds, aliasing): does the exchange keep the iteration space of nests with equal tests, and do all end? All nests with the isl of the repository: is nothing rewritten? |
| `repeated_interchange` | Two and three loops, all roots, stale subscripts: where subscripts are read afresh, or an exchange does not change what they say of the dependences, do exchanges compose, do order and loads survive, has the outermost root the last word? |
| `pass_driver` | `run()` under all options and isl answers: order of roots, isl objects, `PreservedAnalyses`, bounds that move, end |
| `computations` | Expressions, their text, names, ownership, union maps, components: is each right, whatever fails, and does it end? |
| `isl_objects` | Ids, lists, blocks, over every sequence of calls and failures within the bounds: do they keep their promises? |
| `valid_nests` | isl of the repository: is a valid nest interchanged? (violated) |
| `iteration_domain` | Does the isl domain hold all dynamic instances? (violated) |
| `stale_subscripts` | Does an interchange after an earlier one keep what loads read? (violated) |
| `unsupported_loops` | Are only perfectly nested affine loops given to isl? (violated) |
| `unproved_legality` | Is a nest found legal only by a test that was carried out? (violated) |
| `tiling` | With an isl that reads the order, is a legal nest tiled? (violated) |

### What the violated runs show

1. `valid_nests`: the pass never transforms anything when linked with the isl of the repository,
   because of the `==` at line 495. README.md:28 and :285 promise rewriting.
2. `iteration_domain`: every bound is taken as exclusive (line 435), the last iteration of a `<=`
   loop is not in the domain. README.md:56 says all dynamic instances are.
3. `stale_subscripts`: after an inner root was interchanged, the outer root is judged by the
   subscripts of the IR before (line 783), and is interchanged against a dependence; only reachable
   with another isl. README.md:165 says such transformations are rejected.
4. `unsupported_loops`: README.md:189 says that only perfectly nested affine loops are kept; neither
   statements between loops nor a bound that is not affine are an obstacle. `linearizePerfectNest` counts subloops only, so statements between loops
   (as in `tests/polyhedral-pass/test1.c`) are not looked at, and a SCEV without a case in
   `createExprFromSCEV` is the constant 0.
5. `unproved_legality`: when isl fails inside `isTilingLegal`, `isl_union_map_is_empty` is given NULL and
   returns -1; line 528 asks for `!` of it, finds no violation and goes on, and the nest is legal.
   README.md:180 says that a nest whose legality cannot be proved is left unchanged. Only reachable with another isl:
   that of the repository fails before, in `getDependencies`.
6. `tiling`: line 681, as described above; only reachable with another isl.

### Where the passing properties stop

Some properties hold only up to a condition because the code does something else beyond it. These
are the places, for whoever changes the code:

- `FreshNestsAreInterchanged` asks for fresh subscripts: with `int` counters a matrix product is
  exchanged by the inner root and, on stale subscripts, exchanged back by the outer one (line 783).
- `ExactExpressions` asks that casts keep the value: `createExprFromSCEV` takes `zext` and `trunc`
  for `sext` (line 225). `ModularExpressions` leaves extensions out.
- `PlainTextIsReadBack` leaves out coefficients 0 and the least int64: `addTerm` keeps a term whose
  coefficients cancel, and `toISLString` prints it without a sign, so `c` and `0*x` become the
  number `c0` times `x` (line 404).
- `FirstDimensionsAreDistinct` is about names of `mem2reg` and before the first interchange: `i.0` and
  `i_0` are one dimension (line 384), and the name read after `setName` may be any (line 604).
- `LegalityHasAllDependences` covers failures in `getDependencies`; what an error in the legality test
  itself leads to is the run `unproved_legality`.
- `GraphIsDecomposed` is about graphs whose callback did not fail: the result of the nested call at
  `isl_tarjan.c:90` is not looked at.
- `OkMeansAllWereGiven` does not say that ok means no error: `foreach_scc` counts down before it calls
  `fn`, so an error of `fn` on the last of several components is returned as ok
  (`isl_list_templ.c:596`).
- The nests have no code between or after the loops. There, a PHI of the outer IV in the exit block
  gets the other loop's trip count (line 575), and a bound or use may end up above its definition
  (line 567).

### Bounds, and why they are enough

- Two loops with 2 and 3 iterations (or 0) and offsets -1..1: every sign combination of a
  distance vector occurs, each both crossing and not crossing the exchanged dimension, and the two
  trip counts differ, so that a bound in the wrong place shows. Three loops for nests in which the
  exchanged loop is two levels out and a loop between them stays.
- About 130 supported nests: offsets and transpositions of a stencil, two stores, accumulators,
  scalars, 1-D arrays in 2-D nests, symbols as bounds and as subscripts, predicates `<` and `!=`,
  mixed IV types. About 50 of them are really interchanged and about 40 refused by the legality
  test; the others have the best loop innermost already, or isl cannot read them.
- `Rank = 3`: the number of subscripts an address is compared in; no kernel of `tests` has more.
- Functions of at most four loops (`pass_driver`): nests of depth two and three, siblings at each
  depth, two nests one after the other, with at most one loop out of the ordinary in one way.
- Expressions: `MaxNodes = 7` SCEVs, four of which are leaves, so every case over every other; 4 and 3
  bits with the constant 3, so that sums and products both fit and wrap.
- Names: two PHIs of six names, with digits, dots, underscores and the suffix `_p` of the tuple's
  other half in them.
- `IslSession` with three loops: a violation or failure at the first, a middle and the last.
- Union maps: up to two reads and two writes of two arrays over 2 x 2 and 1 x 2 points; `MaxFuel = 12`
  is more than any single statement needs (`short` records when it was not given all).
- All 4096 graphs of four nodes searched from everywhere, those without edges to node 0 from
  nodes 2 and 3 searched from one node, and small ones with one failing question. Four nodes are
  the fewest with two components of two.
- Five ids in a table of four entries that grows to eight: the hashes make clusters around the end
  of the table with every order of three more keys. At most two references of one object.
- Two list variables, lists of up to two elements, at most three successful allocations in one
  operation, which is what the largest operation takes. States are compared up to addresses (`VIEW`).
- Five blocks, a cache of three, evictions after two misses; blocks are symmetric.

### Fairness

Weak fairness of the single thread's next step: all steps but the stuttering one at the end
(`interchanged_nest`, `unsupported_nests`, `pass_driver`), or all steps of the part that was chosen
(`computations`: `SessionStep` and `ForeachStep`; the other parts need none). Nothing outside the thread can
keep it from stepping, and callbacks return. `Terminates` is then a statement about the loops the
rewrite leaves behind and the `for` over the roots, `ComputationsEnd` about the loop over the
dimensions and the recursion of the search.

### Scope of "supported"

`IsSupported` is README's list, in the terms of the model: header test with `<` or `!=` (for a
canonical IV that starts at 0 and counts up by 1, the only form `getCanonicalInductionVariable()`
returns, both leave the loop at the bound), affine bound and subscripts, different base pointers
point to different objects, and accesses to one base have equally many subscripts. `IsNest` adds
what the analysis has checked (bounds do not mention IVs of the nest) and that bounds are not
negative. Where the code accepts more than that, the unsupported runs say what remains true.

## What is proved

Seven modules hold the theorems, for **every** value of the constants within the named assumptions;
`LeastElements` holds what they all use of the naturals: a set of naturals that is not empty has a
least element, and a bounded one a greatest. The provers cannot instantiate the library's induction
rules, so every induction here is an argument about the least (or greatest) counterexample.

`InterchangedNestProofs`, for every set of nests of any depth, bounds and accesses
(`NestsAssumption`, `OptionAssumption`), with any comparators:

| Theorem | Says |
|---|---|
| `TypeCorrect` | `Spec => []TypeOK` |
| `NothingIsEverRewritten` | without `==` among the comparators no nest is ever rewritten |
| `AnalysisIsAlwaysSound` | domain and dependences of a supported nest isl reads cover all instances and true dependences |
| `RunsInOrder` | in a nest of supported loops, what has run is at every point exactly what the rewritten loops have gone past |
| `IterationSpaceIsKept` | a nest whose loops have one test, whatever it is, runs exactly the instances it had as written |
| `InterchangeIsLegal` | `Spec /\ IsSupported(nest) => RespectsDependences`: the pass and the rewritten nest implement `DependenceOrder` |
| `ValidNestsAreAlwaysInterchanged` | with interchange enabled and an isl that reads the order, a valid nest is run with one of its best loops innermost: the legality test turns down none |

The argument of the middle ones. `ExecutedIsPrefix` is not inductive: it says nothing of the IR.
`Inv` adds (a) `IsPermuted`: each dimension is read from one PHI and each PHI by one dimension, the
compare of a loop has the bound of the dimension it runs through, increments and compares stay;
(b) `Position`: outer IVs have not reached the value they stop at, the IV of the loop at control is
at most that. `Stop(k)` is the bound and one more for `<=`; a loop tested at its latch also runs once
when that is 0, so `RunAlike` (all loops have one test) is what makes (b) survive an exchange, and it
is all that `IterationSpaceIsKept` needs: neither affine accesses nor legality. From (a) every
original instance has exactly one position in the rewritten loops (`ScheduleIsBijective`), so that
leaving the innermost header, the latch, or the outermost loop moves `Reached` by exactly one instance
or none (`NestStepInv`, one step per action). `InterchangeIsLegal` needs one fact more, `Ordered`:
the loops, permuted as they are, run dependent instances in the order of the nest as written
(`KeepsOrder`). The nest as written does. When the test finds it legal, every permutation of the
loops does (`LegalKeepsOrder`): `AnalysisSound` puts the true dependences among isl's, so no distance
is negative, and the least loop in which two dependent instances differ has the first of them behind
(`NowhereAhead`). Whatever the current instance depends on is then behind it in the rewritten loops
and has run (`DependencesHaveRun`). All three theorems are about the nest that was picked: nothing is
asked of the others.

`DataFlowProofs`, from there: `LoadsKeepTheirSource` and `MemoryIsKept`, for supported nests. The
invariant `Flow` adds to `Inv` and `Ordered` that what has run is closed under true dependences, that memory
holds for every address the last write, in the original order, *of those that have run*, and that every
load has read its original source. When a body runs, each of its loads and stores depends on the writes
to the same address that come before it and precedes those that come after it in the original
order; the first have all run and the others have not, so the last write that has run is the
original source.

`PolyhedralPassProofs`, for every set of functions with loop forests of any size
(`ProgramsAssumption`: what LoopInfo promises of its forest), all options and all answers of isl:
`TypeCorrect`, `ResultIsAlwaysHonest`, `IslIsAlwaysReleased`, `OnlyInvariantBoundsMove`, from
one invariant `Inv` (an exchange is on record exactly when `Changed` or `LocalChange` is set; context and dependences exist exactly in the states between their allocation and
release; what was exchanged was rectangular).
`InnerNestsAlwaysComeFirst` needs the other half, what the recursion computes:
`CollectLoopsIsPostOrder`, that every loop occurs in the list once and after all loops inside it. The
loops inside one are numbered above it, so the greatest loop for which the recursion would return
something else has only children for which it is right, and a list put together from right lists of
disjoint trees is right. The invariant `OrderOK` (the roots visited followed by those to come are that
list) then carries it to every state, and `NestsAreLoops` to the chains of loops the roots begin.

`RepeatedInterchangeProofs`, for every set of nests of two or more loops with a PHI each
(`RootsAssumption`, what `analyzeLoopNest` and `buildLoopDescriptor` ask of a nest), all roots taken:

| Theorem | Says |
|---|---|
| `ExchangesCompose` | on whatever the cache makes of subscripts, the body reads every PHI once and each bound stays with the dimension it was written for |
| `RootsRunInOrder` | in a nest of supported loops, what has run is at every point what the loops as exchanged have gone past |
| `RootsKeepTheIterationSpace` | a nest whose loops have one test runs exactly the instances it had as written |
| `RootsInterchangeIsLegal` | a supported nest whose subscripts are fresh implements `DependenceOrder` |
| `RootsLoadsKeepTheirSource`, `RootsMemoryIsKept` | with fresh subscripts, every load reads its original source and memory is left as by the nest as written |
| `RootsInterchangeFreshNests` | a valid nest with fresh subscripts ends with a best loop of the whole nest innermost |

The first three hold whatever the subscripts: `InterchangePermutes` shows that exchanging any two
loops of a permuted nest permutes it, `BestLoopsBelowRoot` that the loop a root chooses is one of its
own, and from `Inv` on, the run of the nest is that of `InterchangedNest`, however the permutation came
about. The others need `SubscriptsAreFresh`, and `stale_subscripts` shows why. `IsView` relates what
a root sees to the nest as written (`ViewOfFreshNest`): the loops from the root on, with the bounds
that the exchanges so far have given them, and every subscript with the PHI that its dimension is
read from now. For such a view, two dependent instances that agree in the loops around the root lie
in its domain (`BelowInDomain`) and are in conflict (`DependenceIsSeen`): an index that reads one of
the loops around the root is any value to isl, every other one has below the root the value it has in the
nest (`SubscriptAsRead`). So `RootKeepsOrder`: if the loops around the root tell two dependent
instances apart, an exchange below it does not touch their order; if they do not, no distance below
it is negative, and any permutation below keeps the order. By this `Ordered` survives each root, and the lemmas
of the run carry it to the end (`OrderStep`, `FlowStep`). For `RootsInterchangeFreshNests` the view of the
outermost root is the whole nest under a permutation of its loops: isl reads it (`WholeIsRead`), an iteration
of its domain is an instance of the nest (`DomainOfWhole`), a conflict in it is one at run time
(`ConflictOfWhole`), so it is legal when the nest as written is (`WholeIsLegal`), and scores and
best loops follow the permutation (`BestLoopsOfWhole`).

`IslSessionProofs`, for nests of any depth (`DepthAssumption`) and every choice of calls that fail:
`TypeCorrect`, `ObjectsAreAlwaysOwned`, `LegalityIsComplete`. The program of calls is a sequence built
from the depth, so the proof types the calls the way a linear type system would. A `Knowledge` says
which variables hold an object, which of them carry a failure to the result, and whether no
dependences exist yet; each call (`Turns`: it makes, copies, frees or checks) turns one knowledge into
the next; `Runs` says that a sequence of calls turns one into another, and is closed under
concatenation and under repetition for the loop over the dimensions. With a knowledge for every point
of the program, the invariant is that control is at such a point and the objects alive are those it
lists, each with the references its holders need; a failed call leaves NULL, which the following
calls hand on.

`IslBlkProofs`, for every number of addresses, sizes, misses and cache entries (`BlkAssumption`):
`TypeCorrect`, `BlocksAreAlwaysOwned`, `CacheAlwaysServes`. `Sound(c, u, r)` says that cache, blocks in
clients' hands and allocated memory fit together: no address twice, no block larger than its memory,
no memory without an owner. It is proved once for each thing a step can do (take a block out of the
cache, the last taking its place; hand one back; grow it in place or elsewhere; free it), and each
action is a sequence of these. That the loop of `isl_blk_alloc` finds a best fit is its loop
invariant, `best` is at least as good as every entry looked at so far, by the least
entry for which it would not hold.

`IslSccProofs`, for every graph and every choice of answers and errors of the callbacks
(`QuestionsAssumption`, `ListAssumption`: a list of two elements or more):

| Theorem | Says |
|---|---|
| `SearchIsRight` | `GraphSpec => [](GraphTypeOK /\ GraphIsDecomposed)`: the arrays are large enough, and what is left in `order` are the strongly connected components, each after those it follows |
| `ForeachTypeCorrect`, `ForeachFindsComponents` | the same of the search inside `foreach_scc`, and the walk stays within the order |
| `ForeachGivesComponents` | `fn` gets every element once, none before those it follows, and ok means all were given, also after an error of `follows` |
| `ForeachStopsAtAnError` | after an error of `fn` it is not called again |

The invariant `GraphInv` of the search has two halves. The first holds whatever happens: nodes are
numbered as they are visited, the stack is sorted by number (`StackIsSorted`), the open calls are on
it, one inside of the other (`FramesNest`), a node that has left it is in the order once
(`OrderListed`), a `min_index` is the number of a node on the stack that can be reached (`LowLinks`)
and an open call has the least one of the calls that were made in it (`LowOfOpen`), and paths lead
from an open call to all that was visited since (`PathsFromOpen`). The second half needs that `follows` has
not failed, because after an error `isl_tarjan.c:90` goes on with a call that did not finish: paths
lead from the stack back into an open call (`PathsBack`), edges that a loop is done with lead to
visited nodes, and when these are on the stack `min_index` knows of it (`EdgesSettled`), no edge
leads from a component to a later one (`OrderIsClosed`), and paths connect each (`OrderIsConnected`).
The step that matters is the end of a call whose `min_index` is its own number (`ComponentLeaves`, `ComponentKeepsInv`).
By `LowOfOpen` and `EdgesSettled` no edge leads from what is above it on the stack to what is below,
so what leaves the stack is closed but for what is in the order already. The path that each of its
nodes has back into an open call therefore ends at this one, the only open call among them, and from it
paths lead to them all: they are one component. When its `min_index` is less, `LowLinks` has the path
on to a node further down the stack, and `PathsBack` survives the return. `SccInv` adds the walk: `at` comes
after a `-1` (`WalkIsBetween`), what was given is what the order lists before it, and `left` is the
number of the rest (`GivenIsListed`), so that 0 means all (`WalkEnds`). TLC found all parts of
both invariants to hold, for three nodes with any failing questions and for four, before they were
proved.

Only model-checked: everything about liveness (`Terminates`, `ComputationsEnd`), which is out of the
prover's reach; the order and the loads of repeated exchanges where subscripts are cached but say the
same of the dependences as fresh ones (the square nests of `repeated_interchange`); and the remaining
parts of `computations` and `isl_objects` (expressions and their text, names, union maps, ids,
lists), whose modules compute by folds over sequences, in which every statement about a result is an
induction over data.

## What is not modelled, and why

- Tiling after line 681: no nest gets past the dereference, so there is no behaviour to be faithful
  to.
- Statements between and after loops: `unsupported_loops` shows that they are accepted; their execution
  after an exchange has no promised meaning (see "Where the passing properties stop").
- The rest of isl. `src/isl` is some 300,000 lines, a third of them generated C++ bindings, then
  maps and their simplification, integer programming, quasi-polynomials, schedules and AST
  generation. The pass calls a dozen functions of it on text it has written itself. Modelled are the
  parts with state and sharing that stand behind those calls (ids, lists, blocks, union maps) and
  the component search; the algebra of basic maps is taken as exact, because its correctness
  is a matter of integer arithmetic on data and not of states. The share of the repository's lines
  that the models stand for is small for this reason.
- Of `isl_list_templ.c`, sorting, printing and reading; of `isl_id.c`, callbacks that free user
  pointers; of `isl_union_map.c`, operations the pass does not call.
- LLVM's analyses (modelled by what they answer), plugin registration, logging, scripts, the
  Makefile: no state that the properties speak of.

`PROJECT.json` lists every component with its status, the line every definition stands for, the
hazards of the code, and which property is meant for which hazard.
