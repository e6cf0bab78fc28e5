-------------------------- MODULE InterchangedNest --------------------------
(***************************************************************************)
(* A rectangular loop nest goes through the pass with                      *)
(* -poly-enable-blocking=false, so that interchange is the only rewrite,   *)
(* and then runs. Transform is what run() does to the nest; the other      *)
(* actions are the blocks of the (possibly rewritten) nest: header, body   *)
(* and latch. The run is compared with the nest as it was written.         *)
(***************************************************************************)
EXTENDS LoopNest

CONSTANTS
    Nests,                   \* the nests under consideration
    PolyEnableInterchange    \* -poly-enable-interchange

ASSUME NestsAssumption == \A n \in Nests : IsNest(n)
ASSUME OptionAssumption == PolyEnableInterchange \in BOOLEAN

VARIABLES
    nest,       \* the nest, as written
    ir,         \* its rewritable instructions, as they are now
    at,         \* control: "pass", "header", "body", "latch" or "exit"
    level,      \* the loop whose header or latch is at control
    iv,         \* the induction PHIs
    executed,   \* instances of the body that have run
    memory,     \* the write last made to every address, <<instance, access>>
    source      \* the write every executed load has read, by <<instance, access>>

control == <<at, level, iv>>
data    == <<executed, memory, source>>
vars    == <<nest, ir, control, data>>

NoWrites == <<>>    \* the empty function: nothing written, nothing read

Init ==
    /\ nest \in Nests
    /\ ir = OriginalIR(nest)
    /\ at = "pass"
    /\ level = 1
    /\ iv = ir.start
    /\ executed = {}
    /\ memory = NoWrites
    /\ source = NoWrites

\* The rewrites run() may leave behind: a legal nest gets a best loop innermost,
\* any other nest is left alone.
Rewrites ==
    IF PolyEnableInterchange /\ IsTilingLegal(nest) /\ BestLoops(nest) # {}
    THEN {IF k = Depth(nest) THEN ir ELSE ApplyLoopInterchange(nest, ir, k, Depth(nest)) :
             k \in BestLoops(nest)}
    ELSE {ir}

Transform ==
    /\ at = "pass"
    /\ ir' \in Rewrites
    /\ at' = "header"
    /\ iv' = ir'.start
    /\ UNCHANGED <<nest, level, data>>

-----------------------------------------------------------------------------
(* Execution.                                                              *)

Continues == GoesOn(nest.loops[level].predicate, iv[ir.control[level]], ir.bound[level])

\* Mutant: the innermost loop is not told from the others.
EnterTooDeep ==
    IF level <= Depth(nest)
    THEN /\ level' = level + 1
         /\ iv' = [iv EXCEPT ![level + 1] = 0]
         /\ at' = "header"
    ELSE /\ at' = "body"
         /\ UNCHANGED <<level, iv>>

\* From the header into the next loop, or into the innermost body.
Enter ==
    IF level < Depth(nest)
    THEN /\ level' = level + 1
         /\ iv' = [iv EXCEPT ![level + 1] = ir.start[level + 1]]
         /\ at' = "header"
    ELSE /\ at' = "body"
         /\ UNCHANGED <<level, iv>>

\* Out of the loop, to the latch of the one around it.
Leave ==
    IF level = 1
    THEN at' = "exit" /\ UNCHANGED <<level, iv>>
    ELSE at' = "latch" /\ level' = level - 1 /\ UNCHANGED iv

Header ==
    /\ at = "header"
    /\ IF nest.loops[level].test = "header" /\ ~Continues THEN Leave ELSE Enter
    /\ UNCHANGED <<nest, ir, data>>

\* The instance of the original nest that the body computes now.
Current == [k \in Dim(nest) |-> iv[ir.payload[k]]]

\* What access n of instance x finds at its address: the last store before it in
\* the same instance, or what memory holds.
Found(x, n) ==
    LET address  == Address(nest, nest.accesses[n], x)
        earlier  == {m \in 1 .. n - 1 : /\ nest.accesses[m].kind = "store"
                                        /\ Address(nest, nest.accesses[m], x) = address}
    IN  IF earlier # {} THEN <<x, CHOOSE m \in earlier : \A l \in earlier : l <= m>>
        ELSE IF address \in DOMAIN memory THEN memory[address]
        ELSE <<>>

Loads(n)  == nest.accesses[n].kind = "load"
Stores(n) == nest.accesses[n].kind = "store"

\* The accesses of the body, in program order.
Body ==
    /\ at = "body"
    /\ LET x       == Current
           written == {Address(nest, nest.accesses[n], x) : n \in {m \in DOMAIN nest.accesses : Stores(m)}}
           last(w) == CHOOSE n \in DOMAIN nest.accesses :
                         /\ Stores(n) /\ Address(nest, nest.accesses[n], x) = w
                         /\ \A m \in DOMAIN nest.accesses :
                              Stores(m) /\ Address(nest, nest.accesses[m], x) = w => m <= n
           read    == {<<x, n>> : n \in {m \in DOMAIN nest.accesses : Loads(m)}}
       IN  /\ executed' = executed \cup {x}
           /\ memory' = [w \in written \cup DOMAIN memory |->
                           IF w \in written THEN <<x, last(w)>> ELSE memory[w]]
           /\ source' = [r \in read \cup DOMAIN source |->
                           IF r \in read THEN Found(x, r[2]) ELSE source[r]]
    /\ at' = "latch"
    /\ UNCHANGED <<nest, ir, level, iv>>

Latch ==
    /\ at = "latch"
    /\ IF nest.loops[level].test = "latch" /\ ~Continues
       THEN Leave
       ELSE /\ at' = "header"
            /\ iv' = [iv EXCEPT ![level] = iv[ir.control[level]] + 1]
            /\ UNCHANGED level
    /\ UNCHANGED <<nest, ir, data>>

\* The program goes on after the nest.
Exited == at = "exit" /\ UNCHANGED vars

Next == Transform \/ Header \/ Body \/ Latch \/ Exited

Spec == Init /\ [][Next]_vars

\* A sequential program takes its next step.
FairSpec == Spec /\ WF_vars(Transform \/ Header \/ Body \/ Latch)

-----------------------------------------------------------------------------
(* Properties.                                                             *)

\* Type invariant: control, IVs and IR stay in their ranges. An IV goes at most
\* one step beyond the bound of the loop it drives (two for a "sle" latch test).
TypeOK ==
    /\ nest \in Nests
    /\ at \in {"pass", "header", "body", "latch", "exit"}
    /\ level \in Dim(nest)
    /\ ir \in [start : [Dim(nest) -> {0}], bound : [Dim(nest) -> Nat],
               payload : [Dim(nest) -> Dim(nest)], control : [Dim(nest) -> Dim(nest)]]
    /\ iv \in [Dim(nest) -> Nat]
    /\ executed \subseteq [Dim(nest) -> Nat]

\* Soundness of the dependence analysis (getDependencies): whatever the isl text
\* makes of subscripts and bounds, the iteration domain holds every instance of
\* a supported nest and no dependence of its execution is missing.
AnalysisIsSound ==
    (IsSupported(nest) /\ HasDependencies(nest)) =>
        /\ Instances(nest) \subseteq Domain(nest)
        /\ TrueDependences(nest) \subseteq GetDependencies(nest)

\* The write that access n of instance x sees in the original order.
OriginalSource(x, n) ==
    LET address == Address(nest, nest.accesses[n], x)
        writes  == {wm \in Instances(nest) \X DOMAIN nest.accesses :
                      /\ Stores(wm[2])
                      /\ Address(nest, nest.accesses[wm[2]], wm[1]) = address
                      /\ LexBefore(wm[1], x) \/ (wm[1] = x /\ wm[2] < n)}
    IN  IF writes = {} THEN <<>>
        ELSE CHOOSE wm \in writes :
               \A vl \in writes :
                  LexBefore(vl[1], wm[1]) \/ (vl[1] = wm[1] /\ vl[2] <= wm[2])

\* README "preserve the original statement body semantics": in a supported nest
\* every load reads the write it read in the nest as written.
LoadsReadTheirSource ==
    IsSupported(nest) =>
        \A r \in DOMAIN source : source[r] = OriginalSource(r[1], r[2])

\* The write that every address holds after the original nest.
OriginalMemory ==
    LET writes == {wm \in Instances(nest) \X DOMAIN nest.accesses : Stores(wm[2])}
        address(wm) == Address(nest, nest.accesses[wm[2]], wm[1])
    IN  [w \in {address(wm) : wm \in writes} |->
            CHOOSE wm \in writes :
                /\ address(wm) = w
                /\ \A vl \in writes :
                     address(vl) = w =>
                        LexBefore(vl[1], wm[1]) \/ (vl[1] = wm[1] /\ vl[2] <= wm[2])]

\* ... and when the nest is left, memory is what the nest as written leaves.
MemoryIsPreserved ==
    (IsSupported(nest) /\ at = "exit") => memory = OriginalMemory

\* README "rewrite the loop nest in IR when the transformation is valid": a
\* supported nest of loops of one type with nothing unknown in it, whose true
\* dependences allow the interchange, runs with a best loop innermost.
IsValid ==
    /\ IsSupported(nest)
    /\ \A k \in Dim(nest) : /\ MentionsOnlyIVs(nest, Upper(nest, k))
                             /\ nest.loops[k].type = nest.loops[1].type
    /\ \A m \in DOMAIN nest.accesses :
          \A d \in DOMAIN nest.accesses[m].subscripts :
             MentionsOnlyIVs(nest, nest.accesses[m].subscripts[d])
    /\ \A xy \in TrueDependences(nest) : \A k \in Dim(nest) : xy[1][k] <= xy[2][k]

ValidNestsAreInterchanged ==
    (at # "pass" /\ IsValid /\ BestLoops(nest) # {}) =>
        \E k \in BestLoops(nest) : ir.payload[k] = Depth(nest)

\* README "If the pass cannot prove legality, it must leave the loop nest
\* unchanged", for an isl that reads no order: no nest is ever rewritten.
NothingIsRewritten == "==" \notin nest.comparators => ir = OriginalIR(nest)

\* README "The iteration domain represents all dynamic instances of the
\* statements in the loop nest" (getDependencies, DomainStr).
DomainHoldsAllInstances ==
    (DomainIsRead(nest) /\ \A k \in Dim(nest) : /\ nest.loops[k].bound.op = "affine"
                                              /\ nest.loops[k].test = "header")
        => Instances(nest) \subseteq Domain(nest)

\* The interchange moves bounds but not predicates (applyLoopInterchange): where
\* all loops have the same test, whether or not the pass supports it, the nest
\* still runs exactly its instances.
LoopsAreAlike ==
    \A k \in Dim(nest) : /\ nest.loops[k].predicate = nest.loops[1].predicate
                         /\ nest.loops[k].test = nest.loops[1].test

IterationSpaceIsPreserved ==
    (LoopsAreAlike /\ at = "exit") => executed = Instances(nest)

\* The dimension that loop k runs through now: its uses read PHI k.
DimensionOf(k) == CHOOSE d \in Dim(nest) : ir.payload[d] = k

\* Where control is in the loops as they run now: instance x belongs to the
\* values Scheduled(x) of the PHIs, and its turn has come when these are behind
\* the current ones in the order of the outermost loops, or at a latch equal.
Scheduled(x) == [k \in Dim(nest) |-> x[DimensionOf(k)]]

Inside(y, l) == \A j \in 1 .. l : y[j] = iv[j]

Behind(y, l) == \E k \in 1 .. l : y[k] < iv[k] /\ Inside(y, k - 1)

Reached(x) ==
    \/ at \in {"header", "body"} /\ Behind(Scheduled(x), level)
    \/ at = "latch" /\ (Behind(Scheduled(x), level) \/ Inside(Scheduled(x), level))
    \/ at = "exit"

\* At every point of the run of a nest with supported loops, the instances that
\* have run are exactly those whose turn has come in the order of the loops as
\* rewritten: none is skipped, none is repeated, none is early.
ExecutedIsPrefix ==
    LoopsAreSupported(nest) => executed = {x \in Instances(nest) : Reached(x)}

\* Refinement: the run is an order of the original instances that respects their
\* true dependences, each runs once, and control leaves when all have run.
Order == INSTANCE DependenceOrder WITH
            instances <- Instances(nest),
            precedes  <- TrueDependences(nest),
            executed  <- executed,
            finished  <- (at = "exit")

RespectsDependences == Order!Spec

\* Swapping the bounds under unswapped predicates and increments leaves every
\* loop finite: the run reaches the end of the nest.
Terminates == <>(at = "exit")
=============================================================================
