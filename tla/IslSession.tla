----------------------------- MODULE IslSession -----------------------------
(***************************************************************************)
(* The isl objects of one nest: what run(), getDependencies() and          *)
(* isTilingLegal() allocate, copy, hand over and free. Every call of isl   *)
(* may fail, and then returns NULL. An object is named after the variable  *)
(* it was made for; a variable whose reference was handed over keeps its   *)
(* pointer, as in C.                                                       *)
(***************************************************************************)
EXTENDS Integers, Sequences, FiniteSets

CONSTANT Depth   \* loops of the nest

\* What is assumed of the constants.
DepthAssumption == Depth \in Nat \ {0}

Null == "NULL"

Inputs == {"Domain", "Reads", "Writes"}

Names == Inputs \cup
         {"W", "R", "reverse", "WW", "WR", "RW", "Conflicts", "Before", "Deps",
          "NegativeDist", "Violations"}

VARIABLES
    todo,     \* the calls the function has still to make
    phase,    \* where run() is
    env,      \* the variables: the object each points to, or Null
    refs,     \* the references of each object
    loop,     \* k of isTilingLegal
    legal,    \* IsLegal
    failed    \* the functions in which a call of isl failed

vars == <<todo, phase, env, refs, loop, legal, failed>>

-----------------------------------------------------------------------------
(* The calls, in the order of the code. A call takes one reference of each *)
(* of its arguments and gives one of its result.                           *)

Read(to)        == [op |-> "read", to |-> to, from |-> <<>>]
Copy(to, from)  == [op |-> "copy", to |-> to, from |-> <<from>>]
Call(to, from)  == [op |-> "call", to |-> to, from |-> from]
Free(from)      == [op |-> "free", to |-> from, from |-> <<from>>]
CheckInputs     == [op |-> "check", to |-> "Deps", from |-> <<"Domain", "Reads", "Writes">>]

\* Mutant: the domain is handed over without a copy.
IntersectedWithDomain(m) == <<Call(m, <<m, "Domain">>)>>

\* Intersected(M): M = isl_union_map_intersect_domain(M, isl_union_set_copy(Domain)).
Intersected(m) == <<Copy("R", "Domain"), Call(m, <<m, "R">>)>>

\* Pairs(to, first, second): to =
\* isl_union_map_apply_range(copy(first), isl_union_map_reverse(copy(second))).
Pairs(to, first, second) ==
    <<Copy("W", first), Copy("R", second), Call("reverse", <<"R">>), Call(to, <<"W", "reverse">>)>>

GetDependencies ==
    <<Read("Domain"), Read("Reads"), Read("Writes"), CheckInputs>>
    \o Intersected("Reads") \o Intersected("Writes")
    \o Pairs("WW", "Writes", "Writes") \o Pairs("WR", "Writes", "Reads") \o Pairs("RW", "Reads", "Writes")
    \o <<Call("Conflicts", <<"WW", "WR">>), Call("Conflicts", <<"Conflicts", "RW">>),
         Read("Before"), Call("Deps", <<"Conflicts", "Before">>),
         Free("Domain"), Free("Reads"), Free("Writes")>>

\* The early return: the inputs that were read are freed.
GiveUp == <<Free("Domain"), Free("Reads"), Free("Writes")>>

\* One iteration of isTilingLegal, up to the question and after it.
NegativeDistances == <<Read("NegativeDist"), Copy("W", "Deps"), Call("Violations", <<"W", "NegativeDist">>)>>

Answered == <<Free("Violations")>>

-----------------------------------------------------------------------------
(* What isl does in a call.                                                *)

\* The references after one of each argument is taken. NULL has none.
Taken(from) ==
    [o \in Names |-> refs[o] - Cardinality({k \in DOMAIN from : env[from[k]] = o})]

\* Mutant: a call that works with the arguments it has.
SomeNullIsFine(from) == FALSE

SomeNull(from) == \E k \in DOMAIN from : env[from[k]] = Null

\* The result: nothing is made when an argument is NULL.
Results(call) == IF SomeNull(call.from) THEN {Null} ELSE {Null, call.to}

IsFailure(call, result) == result = Null /\ ~ SomeNull(call.from)

-----------------------------------------------------------------------------

Init ==
    /\ todo = GetDependencies
    /\ phase = "getDependencies"
    /\ env = [v \in Names |-> Null]
    /\ refs = [o \in Names |-> 0]
    /\ loop = 1
    /\ legal = FALSE
    /\ failed = {}

First(op) == todo # <<>> /\ Head(todo).op = op

\* A call that makes an object: isl_union_*_read_from_str, reverse, intersect, union...
MakeObject ==
    /\ First("read") \/ First("call")
    /\ LET call == Head(todo) IN
       \E result \in Results(call) :
          /\ env' = [env EXCEPT ![call.to] = result]
          /\ refs' = [o \in Names |-> Taken(call.from)[o] + IF o = result THEN 1 ELSE 0]
          /\ failed' = IF IsFailure(call, result) THEN failed \cup {phase} ELSE failed
    /\ todo' = Tail(todo)
    /\ UNCHANGED <<phase, loop, legal>>

\* isl_union_*_copy: the same object, with one reference more.
CopyObject ==
    /\ First("copy")
    /\ LET call == Head(todo)
           object == env[call.from[1]]
       IN  /\ env' = [env EXCEPT ![call.to] = object]
           /\ refs' = [o \in Names |-> refs[o] + IF o = object THEN 1 ELSE 0]
    /\ todo' = Tail(todo)
    /\ UNCHANGED <<phase, loop, legal, failed>>

\* isl_union_*_free: of NULL, it does nothing.
FreeObject ==
    /\ First("free")
    /\ refs' = Taken(Head(todo).from)
    /\ todo' = Tail(todo)
    /\ UNCHANGED <<phase, env, loop, legal, failed>>

\* if (!Domain || !Reads || !Writes) ... return nullptr.
TestInputs ==
    /\ First("check")
    /\ todo' = IF SomeNull(Head(todo).from) THEN GiveUp ELSE Tail(todo)
    /\ UNCHANGED <<phase, env, refs, loop, legal, failed>>

-----------------------------------------------------------------------------

\* run(), when getDependencies has returned: without Deps it gives the nest up;
\* with them isTilingLegal starts.
TestDependences ==
    /\ todo = <<>> /\ phase = "getDependencies"
    /\ IF env["Deps"] = Null
       THEN phase' = "release" /\ UNCHANGED <<todo, legal>>
       ELSE IF Depth < 2
       THEN phase' = "decided" /\ legal' = FALSE /\ UNCHANGED todo
       ELSE phase' = "isTilingLegal" /\ legal' = TRUE /\ todo' = NegativeDistances
    /\ UNCHANGED <<env, refs, loop, failed>>

\* isl_union_map_is_empty(Violations): an error is -1, which C takes for true.
\* The question is asked once all of NegativeDistances is done.
AskWhetherEmpty ==
    /\ todo = <<>> /\ phase = "isTilingLegal"
    /\ \E answer \in IF env["Violations"] = Null THEN {-1} ELSE {-1, 0, 1} :
          /\ legal' = (legal /\ answer # 0)
          /\ failed' = IF answer = -1 THEN failed \cup {phase} ELSE failed
    /\ todo' = Answered
    /\ phase' = "asked"
    /\ UNCHANGED <<env, refs, loop>>

\* Mutant: a for loop without ++k.
NextLoopWithoutStep ==
    /\ todo = <<>> /\ phase = "asked"
    /\ IF legal /\ loop < Depth
       THEN phase' = "isTilingLegal" /\ todo' = NegativeDistances
       ELSE phase' = "decided" /\ UNCHANGED todo
    /\ UNCHANGED <<env, refs, loop, legal, failed>>

\* break, or the next k.
NextLoop ==
    /\ todo = <<>> /\ phase = "asked"
    /\ IF legal /\ loop < Depth
       THEN loop' = loop + 1 /\ phase' = "isTilingLegal" /\ todo' = NegativeDistances
       ELSE phase' = "decided" /\ UNCHANGED <<loop, todo>>
    /\ UNCHANGED <<env, refs, legal, failed>>

\* The nest is rewritten or not, and isl_union_map_free(Deps) follows.
Rewrite ==
    /\ todo = <<>> /\ phase = "decided"
    /\ todo' = <<Free("Deps")>>
    /\ phase' = "release"
    /\ UNCHANGED <<env, refs, loop, legal, failed>>

\* isl_ctx_free(ctx), which complains when an object still refers to the context.
FreeContext ==
    /\ todo = <<>> /\ phase = "release"
    /\ phase' = "done"
    /\ UNCHANGED <<todo, env, refs, loop, legal, failed>>

Done == todo = <<>> /\ phase = "done" /\ UNCHANGED vars

Next == MakeObject \/ CopyObject \/ FreeObject \/ TestInputs \/ TestDependences
        \/ AskWhetherEmpty \/ NextLoop \/ Rewrite \/ FreeContext \/ Done

Spec == Init /\ [][Next]_vars

FairSpec == Spec /\ WF_vars(Next)

-----------------------------------------------------------------------------

TypeOK ==
    /\ phase \in {"getDependencies", "isTilingLegal", "asked", "decided", "release", "done"}
    /\ env \in [Names -> Names \cup {Null}]
    /\ refs \in [Names -> 0 .. 4]
    /\ loop \in 1 .. Depth /\ legal \in BOOLEAN
    /\ failed \subseteq {"getDependencies", "isTilingLegal"}

\* No call gets an object that has been freed, whichever calls have failed before
\* (the copies of lines 475-480 and 526, and the frees that follow them).
ArgumentsAreAlive ==
    todo # <<>> /\ Head(todo).op \in {"copy", "call", "free"} =>
        \A v \in {Head(todo).from[k] : k \in DOMAIN Head(todo).from} :
            env[v] # Null => refs[env[v]] > 0

\* When the context is freed nothing refers to it, on the early returns, after a
\* break and after a failed call alike ("isl_ctx not freed as some objects still
\* reference it", isl_ctx.c, is never printed).
ContextIsFreedClean ==
    todo = <<>> /\ phase = "release" => \A o \in Names : refs[o] = 0

\* No object is used after it was freed, and none is left over.
ObjectsAreOwned == ArgumentsAreAlive /\ ContextIsFreedClean

\* A failed call of getDependencies always reaches run() as a missing Deps: the
\* nest is never found legal on the strength of a part of its dependences.
LegalityHasAllDependences == legal => "getDependencies" \notin failed

\* README "If the pass cannot prove legality, it must leave the loop nest unchanged":
\* a nest is found legal only when isl has answered the question of every loop
\* (isTilingLegal), not when a read, an intersection or the answer itself has failed.
LegalityIsProved == phase = "decided" /\ legal => "isTilingLegal" \notin failed

\* Every nest is decided: the context is freed in the end.
SessionEnds == <>(phase = "done")
=============================================================================
