---------------------------- MODULE IslForeachScc ----------------------------
(***************************************************************************)
(* isl_*_list_foreach_scc of isl_list_templ.c on a list of at least two    *)
(* elements (others are handed over whole): the components the search of   *)
(* IslTarjan has found are given to the callback fn one after the other,   *)
(* and fn may fail. A search that starts at one node is that of another    *)
(* caller, isl_tarjan_graph_component(), and nothing follows it.           *)
(***************************************************************************)
EXTENDS IslTarjan

\* What is assumed of the constants.
ASSUME ListAssumption == N >= 2

VARIABLES
    at, left,       \* i and n of the loop
    given,          \* the calls of fn: the positions of each sublist
    fnFailed,       \* fn has returned an error
    returned        \* "none" so far, "ok" or "error"

sccVars == <<graphVars, at, left, given, fnFailed, returned>>

SccInit ==
    /\ GraphInit
    /\ at = 1 /\ left = N /\ given = <<>> /\ fnFailed = FALSE /\ returned = "none"

\* isl_tarjan_graph_init, with follows of the list's elements.
Search == GraphNext /\ result = "none" /\ UNCHANGED <<at, left, given, fnFailed, returned>>

SearchFailed ==
    /\ result = "NULL" /\ returned = "none" /\ start = All
    /\ returned' = "error"
    /\ UNCHANGED <<graphVars, at, left, given, fnFailed>>

\* Where the next component starts: after the -1.
StartAfter(end) == end + 1

\* Mutant: one element is taken for none.
GoesOnForSeveral(n) == n > 1

\* The condition of the loop.
GoesOnFor(n) == n > 0

\* Mutant: the loop goes on after an error.
NeverBreaks(failing) == FALSE

\* if (fn(scc, user) < 0) break.
Breaks(failing) == failing

\* One round of the loop; a list that is one component is given as it is. After a
\* break the result depends on whether elements are left.
GiveNext ==
    /\ result = "graph" /\ returned = "none" /\ start = All
    /\ LET end  == EndOf(at)
           rest == left - (end - at)
       IN  \E failing \in BOOLEAN :
              /\ given' = Append(given, SubSeq(order, at, end - 1))
              /\ at' = StartAfter(end) /\ left' = rest
              /\ fnFailed' = (failing \/ fnFailed)
              /\ returned' = IF GoesOnFor(rest) /\ ~ Breaks(failing) THEN "none"
                             ELSE IF GoesOnFor(rest) \/ (failing /\ at = 1) THEN "error" ELSE "ok"
    /\ UNCHANGED graphVars

HasReturned == IF start = All THEN returned # "none" ELSE result # "none"

Returned == HasReturned /\ UNCHANGED sccVars

SccNext == Search \/ SearchFailed \/ GiveNext \/ Returned

SccSpec == SccInit /\ [][SccNext]_sccVars

FairSccSpec == SccSpec /\ WF_sccVars(SccNext)

-----------------------------------------------------------------------------

SccTypeOK ==
    /\ at \in 1 .. 2 * N + 1 /\ left \in 0 .. N
    /\ given \in Seq(Seq(Nodes)) /\ \A k \in DOMAIN given : given[k] # <<>>
    /\ fnFailed \in BOOLEAN /\ returned \in {"none", "ok", "error"}

GivenUpTo(k) == UNION {Range(given[m]) : m \in 1 .. k}

\* isl_list_templ.c "fn will be called on SCC a after being called on SCC b": fn gets
\* each element once, and never before one that it follows.
ComponentsComeInOrder ==
    ~ followsFailed =>
        /\ \A k, m \in DOMAIN given : k # m => Range(given[k]) \cap Range(given[m]) = {}
        /\ \A k \in DOMAIN given : \A i \in Range(given[k]), j \in Nodes :
              answers[<<i, j>>] = "yes" => j \in GivenUpTo(k)

\* "ok" is returned only after fn was called with every element.
OkMeansAllWereGiven == returned = "ok" => GivenUpTo(Len(given)) = Nodes

\* fn gets every element once, after those it follows, and ok means it has got them all.
ComponentsAreGiven == ComponentsComeInOrder /\ OkMeansAllWereGiven

\* fn is not called again once it has failed.
NoCallAfterAnError == [][fnFailed => given' = given]_sccVars

\* foreach_scc, or the search alone, returns, whatever the callbacks do.
ForeachEnds == <>HasReturned
=============================================================================
