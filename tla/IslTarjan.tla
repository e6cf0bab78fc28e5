----------------------------- MODULE IslTarjan -----------------------------
(***************************************************************************)
(* isl_tarjan.c: the strongly connected components of a graph whose edges  *)
(* are the answers of a callback, which may fail. One call of              *)
(* isl_tarjan_components is a frame with its i and j.                      *)
(***************************************************************************)
EXTENDS Integers, Sequences, SequencesExt

CONSTANTS
    N,           \* len: the nodes are 0 .. N - 1
    Questions    \* the pairs <<start, answers>> that occur: where the search starts
                 \* (at one node, or everywhere), and what follows(i, j) answers

Nodes == 0 .. N - 1

All == N

\* What is assumed of the constants.
ASSUME QuestionsAssumption ==
    N \in Nat /\ Questions \subseteq (0 .. N) \X [Nodes \X Nodes -> {"yes", "no", "error"}]

VARIABLES
    start, answers,              \* the arguments
    index, minIndex, onStack,    \* node[]; index is -1 before the visit
    stack, order, count,         \* the arrays up to sp and op, and g->index
    frames,                      \* the calls, the innermost one last
    result,                      \* "none" so far, "graph" or "NULL"
    followsFailed                \* some follows(i, j) was an error

node == <<index, minIndex, onStack>>
graphVars == <<start, answers, node, stack, order, count, frames, result, followsFailed>>

\* isl_tarjan_graph_alloc.
GraphInit ==
    /\ \E q \in Questions : start = q[1] /\ answers = q[2]
    /\ index = [i \in Nodes |-> -1]
    /\ minIndex = [i \in Nodes |-> 0]
    /\ onStack = [i \in Nodes |-> FALSE]
    /\ stack = <<>> /\ order = <<>> /\ count = 0
    /\ frames = <<>> /\ result = "none" /\ followsFailed = FALSE

-----------------------------------------------------------------------------

Top == frames[Len(frames)]

\* What a call for node i does before its loop; below are the calls it is made in.
Enter(i, below) ==
    /\ index' = [index EXCEPT ![i] = count]
    /\ minIndex' = [minIndex EXCEPT ![i] = count]
    /\ onStack' = [onStack EXCEPT ![i] = TRUE]
    /\ count' = count + 1
    /\ stack' = Append(stack, i)
    /\ frames' = Append(below, [i |-> i, j |-> N - 1])
    /\ UNCHANGED <<start, answers, order, result, followsFailed>>

\* The outermost calls: for the given node, or for the last one not visited yet.
StartCall ==
    /\ frames = <<>> /\ result = "none"
    /\ LET unvisited == {i \in IF start = All THEN Nodes ELSE {start} : index[i] < 0}
       IN  IF unvisited = {}
           THEN result' = "graph" /\ UNCHANGED <<start, answers, node, stack, order, count, frames, followsFailed>>
           ELSE Enter(CHOOSE i \in unvisited : \A k \in unvisited : k <= i, <<>>)

\* The frames with the loop of the last call a step on.
NextJ(calls) == [calls EXCEPT ![Len(calls)].j = @ - 1]

Lowered(i, value) == IF value < minIndex[i] THEN [minIndex EXCEPT ![i] = value] ELSE minIndex

\* Nodes the loop does not ask about.
IsSettled(i, j) ==
    j = i \/ (index[j] >= 0 /\ (~ onStack[j] \/ index[j] > minIndex[i]))

InLoop == frames # <<>> /\ Top.j >= 0

SkipNode ==
    /\ InLoop /\ IsSettled(Top.i, Top.j)
    /\ frames' = NextJ(frames)
    /\ UNCHANGED <<start, answers, node, stack, order, count, result, followsFailed>>

IsAsked(answer) == InLoop /\ ~ IsSettled(Top.i, Top.j) /\ answers[<<Top.i, Top.j>>] = answer

SkipEdge ==
    /\ IsAsked("no")
    /\ frames' = NextJ(frames)
    /\ UNCHANGED <<start, answers, node, stack, order, count, result, followsFailed>>

\* An edge to a node that is not visited yet: the loop goes on when the call returns.
CallNested ==
    /\ IsAsked("yes") /\ index[Top.j] < 0
    /\ Enter(Top.j, frames)

\* An edge back into the stack.
CloseCycle ==
    /\ IsAsked("yes") /\ index[Top.j] >= 0
    /\ minIndex' = Lowered(Top.i, index[Top.j])
    /\ frames' = NextJ(frames)
    /\ UNCHANGED <<start, answers, index, onStack, stack, order, count, result, followsFailed>>

\* Mutant: the caller does not look at what the nested call has found.
ReturnToForgetting(below, ok) ==
    /\ frames' = IF below = <<>> THEN below ELSE NextJ(below)
    /\ minIndex' = minIndex
    /\ result' = IF below = <<>> /\ ~ ok THEN "NULL" ELSE result

\* The end of the innermost call. A nested call's caller takes over its min_index
\* and goes on, whatever the call returned; only an outermost error frees the graph.
ReturnTo(below, ok) ==
    IF below = <<>>
    THEN /\ frames' = below
         /\ result' = IF ok THEN result ELSE "NULL"
         /\ UNCHANGED minIndex
    ELSE /\ frames' = NextJ(below)
         /\ minIndex' = Lowered(below[Len(below)].i, minIndex[Top.i])
         /\ UNCHANGED result

FailInside ==
    /\ IsAsked("error")
    /\ followsFailed' = TRUE
    /\ ReturnTo(Front(frames), FALSE)
    /\ UNCHANGED <<start, answers, index, onStack, stack, order, count>>

RootOfStack(i) == CHOOSE k \in 1 .. Len(stack) : stack[k] = i

\* After the loop: a node that reaches nothing below it on the stack ends a component,
\* which leaves the stack for the order and is followed by -1.
FinishCall ==
    /\ frames # <<>> /\ Top.j < 0
    /\ IF index[Top.i] # minIndex[Top.i]
       THEN UNCHANGED <<stack, onStack, order>>
       ELSE LET root      == RootOfStack(Top.i)
                component == SubSeq(stack, root, Len(stack))
            IN  /\ stack' = SubSeq(stack, 1, root - 1)
                /\ onStack' = [i \in Nodes |-> onStack[i] /\ ~ Contains(component, i)]
                /\ order' = order \o Reverse(component) \o <<-1>>
    /\ ReturnTo(Front(frames), TRUE)
    /\ UNCHANGED <<start, answers, index, count, followsFailed>>

Finished == result # "none" /\ UNCHANGED graphVars

GraphNext == StartCall \/ SkipNode \/ SkipEdge \/ CallNested \/ CloseCycle \/ FailInside \/ FinishCall \/ Finished

GraphSpec == GraphInit /\ [][GraphNext]_graphVars

-----------------------------------------------------------------------------

\* node, stack and order are arrays of N, N and 2 * N elements.
GraphTypeOK ==
    /\ index \in [Nodes -> -1 .. N - 1] /\ minIndex \in [Nodes -> 0 .. N - 1] /\ onStack \in [Nodes -> BOOLEAN]
    /\ count \in 0 .. N
    /\ stack \in Seq(Nodes) /\ Len(stack) <= N /\ IsInjective(stack)
    /\ order \in Seq(Nodes \cup {-1}) /\ Len(order) <= 2 * N
    /\ \A k \in DOMAIN frames : frames[k].i \in Nodes /\ frames[k].j \in -1 .. N - 1
    /\ result \in {"none", "graph", "NULL"} /\ followsFailed \in BOOLEAN

Edges == {e \in Nodes \X Nodes : answers[e] = "yes"}

\* A path along the edges leads from i to j: it does not leave a set no edge leaves.
Reaches(edges, i, j) ==
    \A S \in SUBSET Nodes : i \in S /\ (\A e \in edges : e[1] \in S => e[2] \in S) => j \in S

Listed == {i \in Nodes : Contains(order, i)}

\* The place of the -1 that ends the component at place k of the order.
EndOf(k) == CHOOSE m \in k .. Len(order) : order[m] = -1 /\ \A n \in k .. m - 1 : order[n] # -1

\* The component a node is listed in, named by its end.
Component(i) == EndOf(CHOOSE k \in DOMAIN order : order[k] = i)

IsDecomposition(edges) ==
    /\ Listed = {i \in Nodes : start = All \/ Reaches(edges, start, i)}
    /\ start # All => \A i \in Listed : Component(i) <= Component(start)
    /\ \A i, j \in Listed :
          /\ (Component(i) = Component(j)) <=> (Reaches(edges, i, j) /\ Reaches(edges, j, i))
          /\ Reaches(edges, i, j) => Component(j) <= Component(i)

\* What makes the algorithm right: between the nodes of the stack there are paths,
\* from each open call to all that was pushed after it, and back into an open call.
StackIsConnected(edges) ==
    \A k \in DOMAIN stack :
        /\ \A f \in DOMAIN frames :
              index[frames[f].i] <= index[stack[k]] => Reaches(edges, frames[f].i, stack[k])
        /\ \E f \in DOMAIN frames :
              index[frames[f].i] <= index[stack[k]] /\ Reaches(edges, stack[k], frames[f].i)

\* Comment of isl_tarjan_graph_init: the strongly connected components, each one
\* after those it follows (and that of isl_tarjan_graph_component: the node's last),
\* for every graph whose callback does not fail.
GraphIsDecomposed ==
    ~ followsFailed => \E edges \in {Edges} :
        /\ StackIsConnected(edges)
        /\ result = "graph" => IsDecomposition(edges)
=============================================================================
