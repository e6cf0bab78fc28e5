----------------------------- MODULE IslUnionMap -----------------------------
(***************************************************************************)
(* The union maps getDependencies() and isTilingLegal() compute with, as   *)
(* isl_union_map.c computes them: a union map is a table with one map for  *)
(* each space, an operation walks over the tables map by map, and every    *)
(* operation on maps may fail. The order of the walk is that of the hash   *)
(* table; any order will do.                                               *)
(***************************************************************************)
EXTENDS Integers, FiniteSets, Sequences, SequencesExt

CONSTANTS
    Points,        \* instances of the statement: pairs of numbers
    Domains,       \* sets of points that are iteration domains
    Accesses,      \* functions from points to elements: records of array and index
    MaxAccesses,   \* bound: reads, and writes, of a nest
    MaxFuel,       \* bound: operations on maps within one operation, when none fails
    Null

\* What is assumed of the constants.
UnionMapAssumption ==
    /\ \A D \in Domains : D \subseteq Points
    /\ {MaxAccesses, MaxFuel} \subseteq Nat

VARIABLES
    env,       \* the variables of the two functions: union maps, or Null
    pc,        \* the next statement
    legal,     \* what isTilingLegal has found so far
    short,     \* some statement had less fuel than MaxFuel, which is plenty
    inputs     \* what the text said: the domain, the reads and the writes

vars == <<env, pc, legal, short, inputs>>

Statement == "S"

\* A map: its space and its pairs. (A set is here the identity on its elements.)
MapIn(in, out, pairs) == [space |-> <<in, out>>, pairs |-> pairs]

-----------------------------------------------------------------------------
(* Operations on maps, which isl_map.c makes exact.                        *)

ReverseMap(m) == MapIn(m.space[2], m.space[1], {<<e[2], e[1]>> : e \in m.pairs})

IntersectMap(m, n) == MapIn(m.space[1], m.space[2], m.pairs \cap n.pairs)

IntersectDomainMap(m, d) == MapIn(m.space[1], m.space[2], {e \in m.pairs : <<e[1], e[1]>> \in d.pairs})

ApplyRangeMap(m, n) ==
    MapIn(m.space[1], n.space[2],
          {<<p[1], p[2]>> : p \in {q \in {e[1] : e \in m.pairs} \X {e[2] : e \in n.pairs} :
                                      \E e \in m.pairs, f \in n.pairs : e[1] = q[1] /\ f[2] = q[2] /\ e[2] = f[1]}})

-----------------------------------------------------------------------------
(* isl_union_map.c. A result is what is built so far and the fuel that is  *)
(* left: an operation on maps without fuel fails, and a failed result      *)
(* stays NULL whatever is added to it.                                     *)

Built(umap, fuel) == [umap |-> umap, fuel |-> fuel]

Fail(r) == Built(Null, r.fuel)

\* isl_union_map_add_map. (A map that is obviously empty is not added; here no map
\* is obviously empty.)
AddMap(r, m) ==
    IF r.umap = Null THEN r
    ELSE LET same == {n \in r.umap : n.space = m.space}
         IN  IF same # {} /\ r.fuel = 0 THEN Fail(r)
             ELSE Built((r.umap \ same) \cup {[m EXCEPT !.pairs = @ \cup UNION {n.pairs : n \in same}]},
                        IF same = {} THEN r.fuel ELSE r.fuel - 1)

\* Mutant: a pair of maps whose combination fails is left out.
AddNonEmptyOrNothing(r, m) ==
    CASE r.umap = Null -> r
      [] r.fuel < 2    -> r
      [] OTHER         -> IF m.pairs = {} THEN Built(r.umap, r.fuel - 2) ELSE AddMap(Built(r.umap, r.fuel - 2), m)

\* What the binary operations do with a combination of two maps: computing it and
\* asking whether it is empty may fail; an empty one is dropped.
AddNonEmpty(r, m) ==
    CASE r.umap = Null -> r
      [] r.fuel < 2    -> Fail(r)
      [] OTHER         -> IF m.pairs = {} THEN Built(r.umap, r.fuel - 2) ELSE AddMap(Built(r.umap, r.fuel - 2), m)

\* isl_hash_table_foreach: it stops at an error.
Walk(Step(_, _), r, umap) ==
    FoldLeft(LAMBDA s, m : IF s.umap = Null THEN s ELSE Step(s, m), r, SetToSeq(umap))

\* isl_union_map_reverse: un_op.
Reversed(u, fuel) ==
    Walk(LAMBDA r, m : IF r.fuel = 0 THEN Fail(r) ELSE AddMap(Built(r.umap, r.fuel - 1), ReverseMap(m)),
         Built({}, fuel), u)

\* isl_union_map_intersect: match_bin_op.
Intersection(u, v, fuel) ==
    Walk(LAMBDA r, m : FoldLeft(LAMBDA s, n : AddNonEmpty(s, IntersectMap(m, n)), r,
                                SetToSeq({n \in v : n.space = m.space})),
         Built({}, fuel), u)

\* isl_union_map_intersect_domain: gen_bin_op, matching the domain of a map's space.
DomainIntersection(u, d, fuel) ==
    Walk(LAMBDA r, m : FoldLeft(LAMBDA s, n : AddNonEmpty(s, IntersectDomainMap(m, n)), r,
                                SetToSeq({n \in d : n.space[1] = m.space[1]})),
         Built({}, fuel), u)

\* isl_union_map_apply_range: bin_op, every map with every one its range matches.
RangeApplied(u, v, fuel) ==
    Walk(LAMBDA r, m : FoldLeft(LAMBDA s, n : AddNonEmpty(s, ApplyRangeMap(m, n)), r,
                                SetToSeq({n \in v : n.space[1] = m.space[2]})),
         Built({}, fuel), u)

\* isl_union_map_union.
Unite(u, v, fuel) == Walk(AddMap, Built(u, fuel), v)

\* An operation that takes a NULL gives NULL.
Apply(op, u, v, fuel) ==
    IF u = Null \/ v = Null THEN Built(Null, fuel)
    ELSE CASE op = "reverse"          -> Reversed(u, fuel)
           [] op = "intersect"        -> Intersection(u, v, fuel)
           [] op = "intersect_domain" -> DomainIntersection(u, v, fuel)
           [] op = "apply_range"      -> RangeApplied(u, v, fuel)
           [] op = "union"            -> Unite(u, v, fuel)

-----------------------------------------------------------------------------
(* The statements of getDependencies() after the parsing, and of           *)
(* isTilingLegal() for k = 1 and 2.                                        *)

Line(to, op, u, v) == [to |-> to, op |-> op, u |-> u, v |-> v]

Program == <<
    Line("Reads", "intersect_domain", "Reads", "Domain"),
    Line("Writes", "intersect_domain", "Writes", "Domain"),
    Line("Reverse", "reverse", "Writes", "Writes"),
    Line("WW", "apply_range", "Writes", "Reverse"),
    Line("Reverse", "reverse", "Reads", "Reads"),
    Line("WR", "apply_range", "Writes", "Reverse"),
    Line("Reverse", "reverse", "Writes", "Writes"),
    Line("RW", "apply_range", "Reads", "Reverse"),
    Line("Conflicts", "union", "WW", "WR"),
    Line("Conflicts", "union", "Conflicts", "RW"),
    Line("Deps", "intersect", "Conflicts", "Before"),
    Line("Violations", "intersect", "Deps", "Negative1"),
    Line("Violations", "intersect", "Deps", "Negative2")>>

Names == {"Domain", "Before", "Negative1", "Negative2"} \cup {Program[k].to : k \in DOMAIN Program}

Computed == 11   \* so far getDependencies

Precedes(p, q) == p[1] < q[1] \/ (p[1] = q[1] /\ p[2] < q[2])

Relation(P(_, _)) == {MapIn(Statement, Statement, {e \in Points \X Points : P(e[1], e[2])})}

\* isl_union_map_read_from_str: the accesses of one array are one map.
ReadMaps(accesses) ==
    {MapIn(Statement, a, UNION {{<<p, f.index[p]>> : p \in Points} : f \in {f \in accesses : f.array = a}}) :
        a \in {f.array : f \in accesses}}

Init ==
    /\ inputs \in [domain : Domains,
                   reads : {R \in SUBSET Accesses : Cardinality(R) <= MaxAccesses},
                   writes : {W \in SUBSET Accesses : Cardinality(W) <= MaxAccesses}]
    /\ env = [v \in Names |->
                CASE v = "Domain"    -> {MapIn(Statement, Statement, {<<p, p>> : p \in inputs.domain})}
                  [] v = "Reads"     -> ReadMaps(inputs.reads)
                  [] v = "Writes"    -> ReadMaps(inputs.writes)
                  [] v = "Before"    -> Relation(Precedes)
                  [] v = "Negative1" -> Relation(LAMBDA p, q : q[1] < p[1])
                  [] v = "Negative2" -> Relation(LAMBDA p, q : q[2] < p[2])
                  [] OTHER           -> Null]
    /\ pc = 1 /\ legal = TRUE /\ short = FALSE

\* isl_union_map_is_empty: union_map_forall, -1 for an error.
Emptiness(u, fuel) ==
    IF u = Null THEN -1
    ELSE FoldLeft(LAMBDA r, m : IF r.answer # 1 THEN r
                                ELSE IF r.fuel = 0 THEN [r EXCEPT !.answer = -1]
                                ELSE [answer |-> IF m.pairs = {} THEN 1 ELSE 0, fuel |-> r.fuel - 1],
                  [answer |-> 1, fuel |-> fuel], SetToSeq(u)).answer

\* isTilingLegal() does not start without Deps and stops at a violation.
GoesOn == pc \in DOMAIN Program /\ (pc > Computed => env["Deps"] # Null /\ legal)

Compute ==
    /\ GoesOn
    /\ \E fuel \in 0 .. MaxFuel :
          LET line   == Program[pc]
              result == Apply(line.op, env[line.u], env[line.v], fuel)
              answer == Emptiness(result.umap, result.fuel)
          IN  /\ env' = [env EXCEPT ![line.to] = result.umap]
              /\ short' = (short \/ fuel < MaxFuel)
              /\ legal' = IF pc > Computed THEN answer # 0 ELSE legal
    /\ pc' = pc + 1
    /\ UNCHANGED inputs

Finished == ~ GoesOn /\ UNCHANGED vars

Next == Compute \/ Finished

Spec == Init /\ [][Next]_vars

-----------------------------------------------------------------------------

\* A union map has one map for each space.
TypeOK ==
    /\ \A v \in Names : env[v] # Null =>
          \A m, n \in env[v] : m.space = n.space => m = n
    /\ pc \in 1 .. Len(Program) + 1 /\ legal \in BOOLEAN /\ short \in BOOLEAN

Touches(accesses, p) == {<<f.array, f.index[p]>> : f \in accesses}

Conflict(p, q) ==
    \/ Touches(inputs.writes, p) \cap Touches(inputs.reads \cup inputs.writes, q) # {}
    \/ Touches(inputs.reads, p) \cap Touches(inputs.writes, q) # {}

Dependences == {e \in inputs.domain \X inputs.domain : Precedes(e[1], e[2]) /\ Conflict(e[1], e[2])}

PairsOf(u) == UNION {m.pairs : m \in u}

\* getDependencies returns NULL or all dependences, never a part of them: a failure
\* in the middle of a walk over a table cannot shorten the result.
DependencesAreComplete == pc > Computed /\ env["Deps"] # Null => PairsOf(env["Deps"]) = Dependences

\* NULL is returned for failures only: arrays that are never written, read or
\* shared, and empty intersections, are no error.
NullMeansFailure == pc > Computed /\ env["Deps"] = Null => short

\* The verdict of isTilingLegal: no dependence goes back along some loop. (With a
\* failure the verdict may be wrong: see IslSession.)
VerdictIsRight ==
    pc > Computed /\ ~ short /\ ~ GoesOn =>
        legal = (\A e \in Dependences : e[1][1] <= e[2][1] /\ e[1][2] <= e[2][2])
=============================================================================
