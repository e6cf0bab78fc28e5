---------------------------- MODULE IslSccProofs ----------------------------
(* Theorems about IslTarjan and IslForeachScc for graphs of any size and any  *)
(* answers of the callbacks. The proof is about sets of nodes and their index *)
(* wherever it can be; places of the stack and of the order are looked at     *)
(* only where a component moves from the one to the other.                    *)
EXTENDS IslForeachScc, LeastElements, FiniteSetTheorems, SequenceTheorems, TLAPS

-----------------------------------------------------------------------------
(* The invariant of the search. The first half holds whatever follows() has    *)
(* answered, the second half as long as it has not failed.                     *)

Frame == [i : Nodes, j : -1 .. N - 1]

Visited == {i \in Nodes : index[i] >= 0}

Typed ==
    /\ start \in 0 .. N /\ answers \in [Nodes \X Nodes -> {"yes", "no", "error"}]
    /\ index \in [Nodes -> -1 .. N - 1] /\ minIndex \in [Nodes -> 0 .. N - 1]
    /\ onStack \in [Nodes -> BOOLEAN]
    /\ stack \in Seq(Nodes) /\ order \in Seq(Nodes \cup {-1}) /\ frames \in Seq(Frame)
    /\ result \in {"none", "graph", "NULL"} /\ followsFailed \in BOOLEAN

\* Nodes are numbered as they are visited.
Numbered ==
    /\ count = Cardinality(Visited)
    /\ \A i \in Nodes : index[i] < count
    /\ \A i, k \in Nodes : index[i] = index[k] /\ index[i] >= 0 => i = k

\* The stack has the nodes that are marked so, in the order of their visits.
StackIsSorted ==
    /\ \A i \in Nodes : onStack[i] => index[i] >= 0 /\ \E k \in DOMAIN stack : stack[k] = i
    /\ \A k \in DOMAIN stack : onStack[stack[k]]
    /\ \A k, m \in DOMAIN stack : k < m => index[stack[k]] < index[stack[m]]

\* Each call is at the edge whose other end the next one was made for.
FramesNest ==
    /\ \A f \in DOMAIN frames : onStack[frames[f].i]
    /\ \A f, g \in DOMAIN frames : f < g => index[frames[f].i] < index[frames[g].i]
    /\ \A f \in DOMAIN frames : f # Len(frames) =>
          frames[f].j = frames[f + 1].i /\ <<frames[f].i, frames[f].j>> \in Edges
    /\ frames # <<>> =>
          result = "none" /\ \A i \in Nodes : onStack[i] => index[frames[1].i] <= index[i]
    /\ frames = <<>> /\ result # "NULL" => stack = <<>>

\* min_index is the number of a node on the stack that can be reached.
LowLinks ==
    \A i \in Nodes : onStack[i] =>
        /\ minIndex[i] <= index[i]
        /\ \E k \in Nodes : onStack[k] /\ index[k] = minIndex[i] /\ Reaches(Edges, i, k)

\* An open call knows the least min_index found in the calls made in it.
LowOfOpen ==
    \A f \in DOMAIN frames, i \in Nodes :
        /\ onStack[i] /\ index[frames[f].i] <= index[i]
        /\ \A g \in DOMAIN frames : f < g => index[i] < index[frames[g].i]
        => minIndex[frames[f].i] <= minIndex[i]

\* The order lists the nodes that have left the stack, once each, and has a -1 after
\* every component.
OrderListed ==
    /\ \A i \in Nodes : (index[i] >= 0 /\ ~ onStack[i]) <=> \E k \in DOMAIN order : order[k] = i
    /\ \A k, m \in DOMAIN order : order[k] = order[m] /\ order[k] # -1 => k = m
    /\ \A k \in DOMAIN order : order[k] = -1 => k > 1 /\ order[k - 1] # -1
    /\ order # <<>> => order[Len(order)] = -1
    /\ Len(order) <= 2 * (count - Len(stack))

\* From an open call paths lead to all that was visited since and is on the stack.
PathsFromOpen ==
    \A f \in DOMAIN frames, i \in Nodes :
        onStack[i] /\ index[frames[f].i] <= index[i] => Reaches(Edges, frames[f].i, i)

\* All that was visited is reached from the start, and a search that ends has
\* visited what it is asked for.
StartReaches ==
    /\ start # All => \A i \in Nodes : index[i] >= 0 => Reaches(Edges, start, i)
    /\ result = "graph" => \A i \in Nodes : start = All \/ i = start => index[i] >= 0

\* From the stack paths lead back into an open call.
PathsBack ==
    ~ followsFailed => \A i \in Nodes : onStack[i] =>
        \E f \in DOMAIN frames : index[frames[f].i] <= index[i] /\ Reaches(Edges, i, frames[f].i)

\* An edge the loop is done with leads to a node that was visited, and min_index
\* knows of it.
EdgesSettled ==
    ~ followsFailed => \A i, k \in Nodes :
        /\ onStack[i] /\ <<i, k>> \in Edges
        /\ \A f \in DOMAIN frames : frames[f].i = i => frames[f].j < k
        => index[k] >= 0 /\ (onStack[k] => minIndex[i] <= index[k])

\* No edge leads from a component to a later one.
OrderIsClosed ==
    ~ followsFailed => \A k, e \in DOMAIN order, i \in Nodes :
        order[e] = -1 /\ k < e /\ <<order[k], i>> \in Edges => \E m \in 1 .. e - 1 : order[m] = i

\* Within a component paths lead from each node to each other one.
OrderIsConnected ==
    ~ followsFailed => \A k, m \in DOMAIN order :
        k <= m /\ (\A n \in k .. m : order[n] # -1) =>
            Reaches(Edges, order[k], order[m]) /\ Reaches(Edges, order[m], order[k])

GraphInv ==
    /\ Typed /\ Numbered /\ StackIsSorted /\ FramesNest /\ LowLinks /\ LowOfOpen /\ OrderListed
    /\ PathsFromOpen /\ StartReaches
    /\ PathsBack /\ EdgesSettled /\ OrderIsClosed /\ OrderIsConnected

-----------------------------------------------------------------------------
(* The invariant of the walk over the result.                                  *)

\* The walk is between two components.
WalkIsBetween ==
    /\ at \in Nat /\ left \in Nat
    /\ at = 1 \/ (at - 1 \in DOMAIN order /\ order[at - 1] = -1)
    /\ given \in Seq(Seq(Nodes)) /\ \A k \in DOMAIN given : given[k] # <<>>
    /\ fnFailed \in BOOLEAN /\ returned \in {"none", "ok", "error"}

\* fn was given what is listed before, and the rest is counted.
GivenIsListed ==
    /\ GivenUpTo(Len(given)) = {i \in Nodes : \E k \in DOMAIN order : k < at /\ order[k] = i}
    /\ left = Cardinality(Nodes \ GivenUpTo(Len(given)))

\* The calls of fn were right.
GivenIsRight ==
    /\ \A k, m \in DOMAIN given : k # m => Range(given[k]) \cap Range(given[m]) = {}
    /\ ~ followsFailed => \A k \in DOMAIN given : \A i \in GivenUpTo(k), j \in Nodes :
          <<i, j>> \in Edges => j \in GivenUpTo(k)

\* How the walk ends.
WalkEnds ==
    /\ result # "graph" => at = 1 /\ given = <<>> /\ ~ fnFailed /\ returned # "ok"
    /\ returned = "none" => ~ fnFailed /\ left > 0
    /\ returned = "ok" => left = 0

SccInv == GraphInv /\ WalkIsBetween /\ GivenIsListed /\ GivenIsRight /\ WalkEnds

-----------------------------------------------------------------------------
(* Paths and calls.                                                            *)

\* Nodes reach themselves and the ends of their edges, and paths compose.
LEMMA PathsCompose ==
    ASSUME NEW edges
    PROVE  /\ \A i : Reaches(edges, i, i)
           /\ \A i, k : <<i, k>> \in edges => Reaches(edges, i, k)
           /\ \A i, k, m : Reaches(edges, i, k) /\ Reaches(edges, k, m) => Reaches(edges, i, m)
<1>1. ASSUME NEW i, NEW k, <<i, k>> \in edges PROVE Reaches(edges, i, k)
  <2> SUFFICES ASSUME NEW S \in SUBSET Nodes, i \in S, \A e \in edges : e[1] \in S => e[2] \in S
               PROVE  k \in S
      BY DEF Reaches
  <2>. QED BY <1>1
<1>2. \A i : Reaches(edges, i, i)
    BY DEF Reaches
<1>3. \A i, k, m : Reaches(edges, i, k) /\ Reaches(edges, k, m) => Reaches(edges, i, m)
    BY DEF Reaches
<1>. QED BY <1>1, <1>2, <1>3

LEMMA EdgesAreYes ==
    ASSUME NEW i \in Nodes, NEW k \in Nodes
    PROVE  <<i, k>> \in Edges <=> answers[<<i, k>>] = "yes"
BY DEF Edges

LEMMA NodesAreFinite == N \in Nat /\ IsFiniteSet(Nodes) /\ Cardinality(Nodes) = N
<1>1. N \in Nat
    BY QuestionsAssumption
<1>2. IsFiniteSet(0 .. N - 1) /\ Cardinality(0 .. N - 1) = IF 0 > N - 1 THEN 0 ELSE N - 1 - 0 + 1
    BY <1>1, FS_Interval
<1>. QED BY <1>1, <1>2 DEF Nodes

LEMMA SameEdges == UNCHANGED answers => Edges' = Edges
BY DEF Edges

\* What is known of the innermost call.
LEMMA OpenCall ==
    ASSUME Typed, FramesNest, StackIsSorted, frames # <<>>
    PROVE  /\ Len(frames) \in Nat \ {0} /\ DOMAIN frames = 1 .. Len(frames)
           /\ Top.i \in Nodes /\ Top.j \in -1 .. N - 1 /\ onStack[Top.i] /\ index[Top.i] >= 0
           /\ Top = frames[Len(frames)]
           /\ \A f \in DOMAIN frames :
                 /\ frames[f].i \in Nodes /\ frames[f].j \in -1 .. N - 1
                 /\ index[frames[f].i] \in Nat /\ index[frames[f].i] <= index[Top.i]
                 /\ frames[f].i = Top.i => f = Len(frames)
           /\ result = "none"
<1>1. frames \in Seq(Frame) /\ Len(frames) \in Nat \ {0} /\ DOMAIN frames = 1 .. Len(frames)
    BY DEF Typed
<1>2. ASSUME NEW f \in DOMAIN frames PROVE frames[f].i \in Nodes /\ frames[f].j \in -1 .. N - 1
  <2>1. frames[f] \in Frame
      BY <1>1
  <2>. QED BY <2>1 DEF Frame
<1>3. Top = frames[Len(frames)] /\ Len(frames) \in DOMAIN frames
    BY <1>1 DEF Top
<1>4. \A f \in DOMAIN frames : index[frames[f].i] \in Nat
    BY <1>2 DEF FramesNest, StackIsSorted, Typed
<1>5. \A f \in DOMAIN frames : f # Len(frames) => index[frames[f].i] < index[Top.i]
    BY <1>1, <1>3 DEF FramesNest
<1>. QED BY <1>1, <1>2, <1>3, <1>4, <1>5 DEF FramesNest

\* One step on in the loop of the innermost of some calls.
LEMMA NextJFrames ==
    ASSUME NEW calls \in Seq(Frame), calls # <<>>, calls[Len(calls)].j >= 0
    PROVE  /\ NextJ(calls) \in Seq(Frame) /\ Len(NextJ(calls)) = Len(calls)
           /\ DOMAIN NextJ(calls) = DOMAIN calls
           /\ \A f \in DOMAIN calls :
                 /\ NextJ(calls)[f].i = calls[f].i
                 /\ NextJ(calls)[f].j = IF f = Len(calls) THEN calls[f].j - 1 ELSE calls[f].j
<1> DEFINE n == Len(calls)
           e == [calls[n] EXCEPT !.j = @ - 1]
<1>1. n \in 1 .. Len(calls) /\ DOMAIN calls = 1 .. Len(calls) /\ calls[n] \in Frame
    OBVIOUS
<1>2. N \in Nat
    BY QuestionsAssumption
<1>3. e \in Frame /\ e.i = calls[n].i /\ e.j = calls[n].j - 1
    BY <1>1, <1>2 DEF Frame
<1>4. NextJ(calls) = [calls EXCEPT ![n] = e]
    BY <1>1 DEF NextJ
<1> HIDE DEF n, e
<1>5. /\ [calls EXCEPT ![n] = e] \in Seq(Frame)
      /\ Len([calls EXCEPT ![n] = e]) = Len(calls)
      /\ \A f \in 1 .. Len(calls) : [calls EXCEPT ![n] = e][f] = IF f = n THEN e ELSE calls[f]
    BY <1>1, <1>3, ExceptSeq
<1>6. DOMAIN NextJ(calls) = DOMAIN calls
    BY <1>4
<1>7. \A f \in 1 .. Len(calls) : NextJ(calls)[f] = IF f = n THEN e ELSE calls[f]
    BY <1>4, <1>5
<1>8. n = Len(calls)
    BY DEF n
<1>. QED BY <1>1, <1>3, <1>4, <1>5, <1>6, <1>7, <1>8

\* The first elements of a sequence.
LEMMA Prefix ==
    ASSUME NEW S, NEW s \in Seq(S), NEW n \in 0 .. Len(s)
    PROVE  /\ SubSeq(s, 1, n) \in Seq(S) /\ Len(SubSeq(s, 1, n)) = n
           /\ \A k \in 1 .. n : SubSeq(s, 1, n)[k] = s[k]
<1>1. Len(s) \in Nat /\ n \in Nat /\ \A k \in 1 .. Len(s) : s[k] \in S
    OBVIOUS
<1>2. \A k \in 1 .. n : s[k] \in S
    BY <1>1
<1>3. n \in Int /\ 1 \in Int
    BY <1>1
<1>4. /\ SubSeq(s, 1, n) \in Seq(S)
      /\ Len(SubSeq(s, 1, n)) = IF 1 <= n THEN n - 1 + 1 ELSE 0
      /\ \A k \in 1 .. n - 1 + 1 : SubSeq(s, 1, n)[k] = s[1 + k - 1]
    BY <1>2, <1>3, SubSeqProperties
<1>5. (IF 1 <= n THEN n - 1 + 1 ELSE 0) = n
    BY <1>1
<1>6. Len(SubSeq(s, 1, n)) = n
    BY <1>4, <1>5
<1>7. ASSUME NEW k \in 1 .. n PROVE SubSeq(s, 1, n)[k] = s[k]
  <2>1. k \in 1 .. n - 1 + 1 /\ 1 + k - 1 = k
      BY <1>1
  <2>2. SubSeq(s, 1, n)[k] = s[1 + k - 1]
      BY <1>4, <2>1
  <2>. QED BY <2>1, <2>2
<1>. QED BY <1>4, <1>6, <1>7

LEMMA FrontFrames ==
    ASSUME NEW calls \in Seq(Frame), calls # <<>>
    PROVE  /\ Front(calls) \in Seq(Frame) /\ Len(Front(calls)) = Len(calls) - 1
           /\ \A f \in 1 .. Len(calls) - 1 : Front(calls)[f] = calls[f]
<1> DEFINE n == Len(calls) - 1
<1>1. n \in 0 .. Len(calls)
    OBVIOUS
<1>2. Front(calls) = SubSeq(calls, 1, n)
    BY DEF Front
<1> HIDE DEF n
<1>3. /\ SubSeq(calls, 1, n) \in Seq(Frame) /\ Len(SubSeq(calls, 1, n)) = n
      /\ \A k \in 1 .. n : SubSeq(calls, 1, n)[k] = calls[k]
    BY <1>1, Prefix
<1>. QED BY <1>2, <1>3 DEF n

-----------------------------------------------------------------------------
(* A round of the loop that makes no call.                                     *)

\* What such a round does: minIndex[Top.i] may take the number of Top.j.
LoopGoesOn ==
    /\ InLoop /\ frames' = NextJ(frames)
    /\ UNCHANGED <<start, answers, index, onStack, stack, order, count, result, followsFailed>>
    /\ minIndex' \in [Nodes -> 0 .. N - 1]
    /\ \A i \in Nodes : i # Top.i => minIndex'[i] = minIndex[i]
    /\ minIndex'[Top.i] <= minIndex[Top.i]
    /\ \/ minIndex'[Top.i] = minIndex[Top.i]
       \/ onStack[Top.j] /\ <<Top.i, Top.j>> \in Edges /\ minIndex'[Top.i] = index[Top.j]
    /\ <<Top.i, Top.j>> \in Edges => index[Top.j] >= 0 /\ (onStack[Top.j] => minIndex'[Top.i] <= index[Top.j])

LEMMA LoopKeepsInv ==
    ASSUME GraphInv, LoopGoesOn
    PROVE  GraphInv'
<1> USE DEF GraphInv
<1>1. /\ Len(frames) \in Nat \ {0} /\ DOMAIN frames = 1 .. Len(frames)
      /\ Top.i \in Nodes /\ Top.j \in -1 .. N - 1 /\ onStack[Top.i] /\ index[Top.i] >= 0
      /\ Top = frames[Len(frames)]
      /\ \A f \in DOMAIN frames :
            /\ frames[f].i \in Nodes /\ frames[f].j \in -1 .. N - 1
            /\ index[frames[f].i] \in Nat /\ index[frames[f].i] <= index[Top.i]
            /\ frames[f].i = Top.i => f = Len(frames)
      /\ result = "none"
    BY OpenCall DEF LoopGoesOn, InLoop
<1>2. Top.j >= 0 /\ Top.j \in Nodes
    BY <1>1 DEF LoopGoesOn, InLoop, Nodes
<1>3. /\ frames' \in Seq(Frame) /\ Len(frames') = Len(frames) /\ DOMAIN frames' = DOMAIN frames
      /\ \A f \in DOMAIN frames :
            /\ frames'[f].i = frames[f].i
            /\ frames'[f].j = IF f = Len(frames) THEN frames[f].j - 1 ELSE frames[f].j
  <2>1. frames \in Seq(Frame) /\ frames # <<>> /\ frames[Len(frames)].j >= 0 /\ frames' = NextJ(frames)
      BY <1>1, <1>2 DEF Typed, LoopGoesOn, InLoop
  <2>2. /\ NextJ(frames) \in Seq(Frame) /\ Len(NextJ(frames)) = Len(frames)
        /\ DOMAIN NextJ(frames) = DOMAIN frames
        /\ \A f \in DOMAIN frames :
              /\ NextJ(frames)[f].i = frames[f].i
              /\ NextJ(frames)[f].j = IF f = Len(frames) THEN frames[f].j - 1 ELSE frames[f].j
      BY <2>1, NextJFrames
  <2>. QED BY <2>1, <2>2
<1>4. /\ start' = start /\ answers' = answers /\ index' = index /\ onStack' = onStack /\ stack' = stack
      /\ order' = order /\ count' = count /\ result' = result /\ followsFailed' = followsFailed
      /\ Edges' = Edges
    BY SameEdges DEF LoopGoesOn
<1>5. /\ minIndex' \in [Nodes -> 0 .. N - 1] /\ minIndex \in [Nodes -> 0 .. N - 1]
      /\ \A i \in Nodes : i # Top.i => minIndex'[i] = minIndex[i]
      /\ \A i \in Nodes : minIndex'[i] <= minIndex[i]
  <2>1. /\ minIndex' \in [Nodes -> 0 .. N - 1] /\ minIndex \in [Nodes -> 0 .. N - 1]
        /\ \A i \in Nodes : i # Top.i => minIndex'[i] = minIndex[i]
        /\ minIndex'[Top.i] <= minIndex[Top.i]
      BY DEF LoopGoesOn, Typed
  <2>2. N \in Int
      BY QuestionsAssumption
  <2>. QED BY <2>1, <2>2
<1>6. Typed'
    BY <1>3, <1>4, <1>5 DEF Typed
<1>7. Numbered' /\ StackIsSorted' /\ OrderListed' /\ StartReaches'
    BY <1>4 DEF Numbered, Visited, StackIsSorted, OrderListed, StartReaches
<1>8. FramesNest'
  <2>1. \A f \in DOMAIN frames' : onStack'[frames'[f].i]
      BY <1>3, <1>4 DEF FramesNest
  <2>2. \A f, g \in DOMAIN frames' : f < g => index'[frames'[f].i] < index'[frames'[g].i]
      BY <1>3, <1>4 DEF FramesNest
  <2>3. ASSUME NEW f \in DOMAIN frames, f # Len(frames)
        PROVE  frames'[f].j = frames'[f + 1].i /\ <<frames'[f].i, frames'[f].j>> \in Edges
    <3>1. f + 1 \in DOMAIN frames
        BY <1>1, <2>3
    <3>. QED BY <1>3, <2>3, <3>1 DEF FramesNest
  <2>4. frames' # <<>> /\ 1 \in DOMAIN frames
      BY <1>1, <1>3
  <2>5. result = "none" /\ \A i \in Nodes : onStack[i] => index[frames'[1].i] <= index[i]
      BY <1>1, <1>3, <2>4 DEF FramesNest
  <2>. QED BY <1>3, <1>4, <2>1, <2>2, <2>3, <2>4, <2>5 DEF FramesNest
<1>9. LowLinks'
  <2> SUFFICES ASSUME NEW i \in Nodes, onStack[i]
               PROVE  /\ minIndex'[i] <= index[i]
                      /\ \E k \in Nodes : onStack[k] /\ index[k] = minIndex'[i] /\ Reaches(Edges, i, k)
      BY <1>4 DEF LowLinks
  <2>1. /\ minIndex[i] <= index[i]
        /\ \E k \in Nodes : onStack[k] /\ index[k] = minIndex[i] /\ Reaches(Edges, i, k)
      BY DEF LowLinks
  <2>2. minIndex'[i] <= index[i]
    <3>1. minIndex'[i] \in Int /\ minIndex[i] \in Int /\ index[i] \in Int
        BY <1>5, QuestionsAssumption DEF Typed
    <3>. QED BY <1>5, <2>1, <3>1
  <2>3. CASE minIndex'[i] = minIndex[i]
      BY <2>1, <2>2, <2>3
  <2>4. CASE minIndex'[i] # minIndex[i]
    <3>1. i = Top.i /\ onStack[Top.j] /\ <<i, Top.j>> \in Edges /\ minIndex'[i] = index[Top.j]
        BY <1>5, <2>4 DEF LoopGoesOn
    <3>2. Reaches(Edges, i, Top.j)
        BY <3>1, PathsCompose
    <3>. QED BY <1>2, <2>2, <3>1, <3>2
  <2>. QED BY <2>3, <2>4
<1>10. LowOfOpen'
  <2> SUFFICES ASSUME NEW f \in DOMAIN frames, NEW i \in Nodes,
                      onStack[i], index[frames[f].i] <= index[i],
                      \A g \in DOMAIN frames : f < g => index[i] < index[frames[g].i]
               PROVE  minIndex'[frames[f].i] <= minIndex'[i]
      BY <1>3, <1>4 DEF LowOfOpen
  <2>1. minIndex[frames[f].i] <= minIndex[i]
      BY DEF LowOfOpen
  <2>2. /\ minIndex'[frames[f].i] <= minIndex[frames[f].i]
        /\ minIndex'[frames[f].i] \in Int /\ minIndex[frames[f].i] \in Int /\ minIndex[i] \in Int
      BY <1>1, <1>5
  <2>3. CASE i # Top.i
      BY <1>5, <2>1, <2>2, <2>3
  <2>4. CASE i = Top.i
    <3>1. index[i] \in Int
        BY DEF Typed
    <3>2. ~ (f < Len(frames))
        BY <1>1, <2>4, <3>1
    <3>3. f = Len(frames)
        BY <1>1, <3>2
    <3>. QED BY <1>1, <1>5, <2>4, <3>3
  <2>. QED BY <2>3, <2>4
<1>11. PathsFromOpen' /\ PathsBack'
    BY <1>3, <1>4 DEF PathsFromOpen, PathsBack
<1>12. OrderIsClosed' /\ OrderIsConnected'
    BY <1>4 DEF OrderIsClosed, OrderIsConnected
<1>13. EdgesSettled'
  <2> SUFFICES ASSUME ~ followsFailed, NEW i \in Nodes, NEW k \in Nodes, onStack[i], <<i, k>> \in Edges,
                      \A f \in DOMAIN frames : frames'[f].i = i => frames'[f].j < k
               PROVE  index[k] >= 0 /\ (onStack[k] => minIndex'[i] <= index[k])
      BY <1>3, <1>4 DEF EdgesSettled
  <2>1. CASE i = Top.i /\ k = Top.j
      BY <2>1 DEF LoopGoesOn
  <2>2. CASE ~ (i = Top.i /\ k = Top.j)
    <3>1. ASSUME NEW f \in DOMAIN frames, frames[f].i = i PROVE frames[f].j < k
      <4>1. frames'[f].i = i /\ frames'[f].j < k
          BY <1>3, <3>1
      <4>2. CASE f # Len(frames)
          BY <1>3, <4>1, <4>2
      <4>3. CASE f = Len(frames)
        <5>1. Top.j - 1 < k /\ k # Top.j
            BY <1>1, <1>3, <2>2, <3>1, <4>1, <4>3
        <5>2. k \in Int
            BY DEF Nodes
        <5>. QED BY <1>1, <4>3, <5>1, <5>2
      <4>. QED BY <4>2, <4>3
    <3>2. index[k] >= 0 /\ (onStack[k] => minIndex[i] <= index[k])
        BY <3>1 DEF EdgesSettled
    <3>3. minIndex'[i] <= minIndex[i] /\ minIndex'[i] \in Int /\ minIndex[i] \in Int /\ index[k] \in Int
        BY <1>5 DEF Typed
    <3>. QED BY <3>2, <3>3
  <2>. QED BY <2>1, <2>2
<1>. QED BY <1>6, <1>7, <1>8, <1>9, <1>10, <1>11, <1>12, <1>13

-----------------------------------------------------------------------------
(* A call begins.                                                              *)

\* Mentions of the new node k in the primed state.
LEMMA Entered ==
    ASSUME GraphInv, result = "none",
           NEW k \in Nodes, index[k] < 0, Enter(k, frames)
    PROVE  /\ count \in 0 .. N - 1 /\ index[k] = -1 /\ ~ onStack[k]
           /\ Typed' /\ Numbered'
           /\ \A i \in Nodes :
                 /\ index'[i] = IF i = k THEN count ELSE index[i]
                 /\ minIndex'[i] = IF i = k THEN count ELSE minIndex[i]
                 /\ onStack'[i] = IF i = k THEN TRUE ELSE onStack[i]
           /\ count' = count + 1
           /\ Len(stack') = Len(stack) + 1 /\ DOMAIN stack' = DOMAIN stack \cup {Len(stack) + 1}
           /\ \A m \in DOMAIN stack : stack'[m] = stack[m]
           /\ stack'[Len(stack) + 1] = k
           /\ Len(frames') = Len(frames) + 1 /\ DOMAIN frames' = DOMAIN frames \cup {Len(frames) + 1}
           /\ \A f \in DOMAIN frames : frames'[f] = frames[f]
           /\ frames'[Len(frames) + 1] = [i |-> k, j |-> N - 1]
           /\ start' = start /\ Edges' = Edges /\ order' = order /\ result' = result
           /\ followsFailed' = followsFailed
<1> USE DEF GraphInv
<1>1. N \in Nat /\ IsFiniteSet(Nodes) /\ Cardinality(Nodes) = N
    BY NodesAreFinite
<1>2. Visited \in SUBSET Nodes /\ k \notin Visited
    BY DEF Visited, Typed
<1>3. IsFiniteSet(Visited) /\ Cardinality(Visited) \in Nat
    BY <1>1, <1>2, FS_Subset, FS_CardinalityType
<1>4. /\ Visited \cup {k} \in SUBSET Nodes
      /\ Cardinality(Visited \cup {k}) = Cardinality(Visited) + 1
    BY <1>2, <1>3, FS_AddElement
<1>5. Cardinality(Visited \cup {k}) <= N
    BY <1>1, <1>4, FS_Subset
<1>6. count \in 0 .. N - 1
    BY <1>1, <1>3, <1>4, <1>5 DEF Numbered
<1>7. index[k] = -1 /\ ~ onStack[k]
    BY DEF Typed, StackIsSorted
<1>8. \A i \in Nodes :
          /\ index'[i] = IF i = k THEN count ELSE index[i]
          /\ minIndex'[i] = IF i = k THEN count ELSE minIndex[i]
          /\ onStack'[i] = IF i = k THEN TRUE ELSE onStack[i]
    BY DEF Enter, Typed
<1>9. [i |-> k, j |-> N - 1] \in Frame
    BY <1>1 DEF Frame
<1>10. /\ stack' \in Seq(Nodes) /\ Len(stack') = Len(stack) + 1
       /\ DOMAIN stack' = DOMAIN stack \cup {Len(stack) + 1}
       /\ \A m \in DOMAIN stack : stack'[m] = stack[m]
       /\ stack'[Len(stack) + 1] = k
  <2>1. stack' = Append(stack, k) /\ stack \in Seq(Nodes)
      BY DEF Enter, Typed
  <2>. QED BY <2>1
<1>11. /\ frames' \in Seq(Frame) /\ Len(frames') = Len(frames) + 1
       /\ DOMAIN frames' = DOMAIN frames \cup {Len(frames) + 1}
       /\ \A f \in DOMAIN frames : frames'[f] = frames[f]
       /\ frames'[Len(frames) + 1] = [i |-> k, j |-> N - 1]
  <2> DEFINE new == [i |-> k, j |-> N - 1]
  <2>1. frames' = Append(frames, new) /\ frames \in Seq(Frame) /\ new \in Frame
      BY <1>9 DEF Enter, Typed
  <2> HIDE DEF new
  <2>2. /\ frames' \in Seq(Frame) /\ Len(frames') = Len(frames) + 1
        /\ DOMAIN frames' = DOMAIN frames \cup {Len(frames) + 1}
        /\ \A f \in DOMAIN frames : frames'[f] = frames[f]
        /\ frames'[Len(frames) + 1] = new
      BY <2>1
  <2>. QED BY <2>2 DEF new
<1>12. /\ index' \in [Nodes -> -1 .. N - 1] /\ minIndex' \in [Nodes -> 0 .. N - 1]
       /\ onStack' \in [Nodes -> BOOLEAN]
    BY <1>6 DEF Enter, Typed
<1>13. /\ start' = start /\ answers' = answers /\ Edges' = Edges /\ order' = order /\ result' = result
       /\ followsFailed' = followsFailed /\ count' = count + 1
    BY SameEdges DEF Enter
<1>14. Typed'
    BY <1>10, <1>11, <1>12, <1>13 DEF Typed
<1>15. Numbered'
  <2>1. /\ index'[k] = count /\ count \in Nat /\ \A i \in Nodes : i # k => index'[i] = index[i]
        /\ \A i \in Nodes : index[i] \in Int /\ index[i] < count
        /\ \A i, m \in Nodes : index[i] = index[m] /\ index[i] >= 0 => i = m
    <3>1. count \in Nat
        BY <1>6
    <3>4. index'[k] = count
        BY <1>8
    <3>2. \A i \in Nodes : i # k => index'[i] = index[i]
        BY <1>8
    <3>3. \A i \in Nodes : index[i] \in Int
        BY <1>1 DEF Typed
    <3>. QED BY <3>1, <3>2, <3>3, <3>4 DEF Numbered
  <2>2. \A i \in Nodes : index'[i] >= 0 <=> (i = k \/ index[i] >= 0)
      BY <2>1
  <2>3. Visited' = Visited \cup {k}
      BY <2>2 DEF Visited
  <2>4. count' = Cardinality(Visited')
      BY <1>4, <1>13, <2>3 DEF Numbered
  <2>5. \A i \in Nodes : index'[i] < count'
      BY <1>13, <2>1
  <2>6. \A i, m \in Nodes : index'[i] = index'[m] /\ index'[i] >= 0 => i = m
      BY <2>1
  <2>. QED BY <2>4, <2>5, <2>6 DEF Numbered
<1>. QED BY <1>6, <1>7, <1>8, <1>10, <1>11, <1>13, <1>14, <1>15

LEMMA EnterKeepsInv ==
    ASSUME GraphInv, result = "none",
           NEW k \in Nodes, index[k] < 0, Enter(k, frames),
           frames # <<>> => k = Top.j /\ <<Top.i, k>> \in Edges,
           frames = <<>> => start = All \/ start = k
    PROVE  GraphInv'
<1> USE DEF GraphInv
<1> DEFINE n == Len(frames) + 1
           s == Len(stack) + 1
<1>1. /\ count \in 0 .. N - 1 /\ index[k] = -1 /\ ~ onStack[k]
      /\ Typed' /\ Numbered'
      /\ \A i \in Nodes :
            /\ index'[i] = IF i = k THEN count ELSE index[i]
            /\ minIndex'[i] = IF i = k THEN count ELSE minIndex[i]
            /\ onStack'[i] = IF i = k THEN TRUE ELSE onStack[i]
      /\ count' = count + 1
      /\ Len(stack') = s /\ DOMAIN stack' = DOMAIN stack \cup {s}
      /\ \A m \in DOMAIN stack : stack'[m] = stack[m]
      /\ stack'[s] = k
      /\ Len(frames') = n /\ DOMAIN frames' = DOMAIN frames \cup {n}
      /\ \A f \in DOMAIN frames : frames'[f] = frames[f]
      /\ frames'[n] = [i |-> k, j |-> N - 1]
      /\ start' = start /\ Edges' = Edges /\ order' = order /\ result' = result
      /\ followsFailed' = followsFailed
    BY Entered
<1>2. count \in Nat /\ N \in Nat
    BY <1>1, QuestionsAssumption
<1>3. index'[k] = count /\ minIndex'[k] = count /\ onStack'[k]
    BY <1>1
<1>4. ASSUME NEW i \in Nodes, i # k
      PROVE  index'[i] = index[i] /\ minIndex'[i] = minIndex[i] /\ onStack'[i] = onStack[i]
    BY <1>1, <1>4
<1>5. \A i \in Nodes : index[i] \in Int /\ minIndex[i] \in Int /\ index[i] < count
    BY <1>2 DEF Typed, Numbered
<1>6. /\ DOMAIN frames = 1 .. Len(frames) /\ Len(frames) \in Nat
      /\ DOMAIN stack = 1 .. Len(stack) /\ Len(stack) \in Nat
      /\ \A m \in DOMAIN stack : stack[m] \in Nodes
    BY DEF Typed
<1>7. \A f \in DOMAIN frames :
         /\ f # n /\ f < n
         /\ frames[f].i \in Nodes /\ frames[f].i # k
         /\ frames'[f].i = frames[f].i /\ frames'[f].j = frames[f].j
  <2> SUFFICES ASSUME NEW f \in DOMAIN frames
               PROVE  /\ f # n /\ f < n
                      /\ frames[f].i \in Nodes /\ frames[f].i # k
                      /\ frames'[f].i = frames[f].i /\ frames'[f].j = frames[f].j
      OBVIOUS
  <2>1. frames[f] \in Frame
      BY <1>6 DEF Typed
  <2>2. onStack[frames[f].i]
      BY DEF FramesNest
  <2>. QED BY <1>1, <1>6, <2>1, <2>2 DEF Frame
<1>8. frames'[n].i = k /\ frames'[n].j = N - 1
    BY <1>1
<1>9. \A m \in DOMAIN stack : m # s /\ m < s /\ stack[m] # k
    BY <1>1, <1>6 DEF StackIsSorted
<1>10. frames # <<>> =>
         /\ Len(frames) \in DOMAIN frames /\ Top = frames[Len(frames)] /\ Top.i \in Nodes /\ Top.i # k
         /\ onStack[Top.i] /\ \A f \in DOMAIN frames : index[frames[f].i] <= index[Top.i]
    BY <1>7, OpenCall DEF Top
<1> HIDE DEF n, s
<1>11. StackIsSorted'
  <2>1. ASSUME NEW i \in Nodes, onStack'[i] PROVE index'[i] >= 0 /\ \E m \in DOMAIN stack' : stack'[m] = i
    <3>1. CASE i = k
        BY <1>1, <1>2, <1>3, <3>1
    <3>2. CASE i # k
      <4>1. index[i] >= 0 /\ \E m \in DOMAIN stack : stack[m] = i
          BY <1>4, <2>1, <3>2 DEF StackIsSorted
      <4>. QED BY <1>1, <1>4, <3>2, <4>1
    <3>. QED BY <3>1, <3>2
  <2>2. ASSUME NEW m \in DOMAIN stack' PROVE onStack'[stack'[m]]
    <3>1. CASE m = s
        BY <1>1, <1>3, <3>1
    <3>2. CASE m \in DOMAIN stack
      <4>1. onStack[stack[m]] /\ stack[m] \in Nodes /\ stack[m] # k
          BY <1>6, <1>9, <3>2 DEF StackIsSorted
      <4>. QED BY <1>1, <1>4, <3>2, <4>1
    <3>. QED BY <1>1, <3>1, <3>2
  <2>3. ASSUME NEW a \in DOMAIN stack', NEW b \in DOMAIN stack', a < b
        PROVE  index'[stack'[a]] < index'[stack'[b]]
    <3>1. a \in DOMAIN stack
        BY <1>1, <1>6, <1>9, <2>3
    <3>2. stack'[a] = stack[a] /\ stack[a] \in Nodes /\ index'[stack[a]] = index[stack[a]]
        BY <1>1, <1>4, <1>6, <1>9, <3>1
    <3>3. CASE b = s
        BY <1>1, <1>3, <1>5, <3>2, <3>3
    <3>4. CASE b \in DOMAIN stack
      <4>1. stack'[b] = stack[b] /\ stack[b] \in Nodes /\ index'[stack[b]] = index[stack[b]]
          BY <1>1, <1>4, <1>6, <1>9, <3>4
      <4>2. index[stack[a]] < index[stack[b]]
          BY <2>3, <3>1, <3>4 DEF StackIsSorted
      <4>. QED BY <3>2, <4>1, <4>2
    <3>. QED BY <1>1, <3>3, <3>4
  <2>. QED BY <2>1, <2>2, <2>3 DEF StackIsSorted
<1>12. FramesNest'
  <2>1. ASSUME NEW f \in DOMAIN frames' PROVE onStack'[frames'[f].i]
    <3>1. CASE f = n
        BY <1>3, <1>8, <3>1
    <3>2. CASE f \in DOMAIN frames
      <4>1. onStack[frames[f].i]
          BY <3>2 DEF FramesNest
      <4>. QED BY <1>4, <1>7, <3>2, <4>1
    <3>. QED BY <1>1, <3>1, <3>2
  <2>2. ASSUME NEW f \in DOMAIN frames', NEW g \in DOMAIN frames', f < g
        PROVE  index'[frames'[f].i] < index'[frames'[g].i]
    <3>1. f \in DOMAIN frames
        BY <1>1, <1>6, <1>7, <2>2
    <3>2. frames'[f].i = frames[f].i /\ frames[f].i \in Nodes /\ index'[frames[f].i] = index[frames[f].i]
        BY <1>4, <1>7, <3>1
    <3>3. CASE g = n
        BY <1>3, <1>5, <1>8, <3>2, <3>3
    <3>4. CASE g \in DOMAIN frames
      <4>1. frames'[g].i = frames[g].i /\ index'[frames[g].i] = index[frames[g].i]
          BY <1>4, <1>7, <3>4
      <4>2. index[frames[f].i] < index[frames[g].i]
          BY <2>2, <3>1, <3>4 DEF FramesNest
      <4>. QED BY <3>2, <4>1, <4>2
    <3>. QED BY <1>1, <3>3, <3>4
  <2>3. ASSUME NEW f \in DOMAIN frames', f # Len(frames')
        PROVE  frames'[f].j = frames'[f + 1].i /\ <<frames'[f].i, frames'[f].j>> \in Edges
    <3>1. f \in DOMAIN frames
        BY <1>1, <2>3
    <3>2. CASE f = Len(frames)
      <4>1. frames # <<>> /\ f + 1 = n
          BY <1>6, <3>1, <3>2 DEF n
      <4>. QED BY <1>7, <1>8, <1>10, <3>1, <3>2, <4>1
    <3>3. CASE f # Len(frames)
      <4>1. f + 1 \in DOMAIN frames
          BY <1>6, <3>1, <3>3
      <4>2. frames[f].j = frames[f + 1].i /\ <<frames[f].i, frames[f].j>> \in Edges
          BY <3>1, <3>3 DEF FramesNest
      <4>. QED BY <1>7, <3>1, <4>1, <4>2
    <3>. QED BY <3>2, <3>3
  <2>4. frames' # <<>> /\ result' = "none"
    <3>1. n \in DOMAIN frames' /\ result' = "none"
        BY <1>1
    <3>. QED BY <3>1
  <2>5. ASSUME NEW i \in Nodes, onStack'[i] PROVE index'[frames'[1].i] <= index'[i]
    <3>1. CASE frames = <<>>
      <4>1. n = 1
          BY <3>1 DEF n
      <4>2. stack = <<>>
          BY <3>1 DEF FramesNest
      <4>3. ~ onStack[i]
          BY <4>2 DEF StackIsSorted
      <4>4. i = k
          BY <1>4, <2>5, <4>3
      <4>. QED BY <1>2, <1>3, <1>8, <4>1, <4>4
    <3>2. CASE frames # <<>>
      <4>1. 1 \in DOMAIN frames
          BY <1>6, <3>2
      <4>2. frames'[1].i = frames[1].i /\ frames[1].i \in Nodes /\ index'[frames[1].i] = index[frames[1].i]
          BY <1>4, <1>7, <4>1
      <4>3. CASE i = k
          BY <1>2, <1>3, <1>5, <4>2, <4>3
      <4>4. CASE i # k
          BY <1>4, <2>5, <3>2, <4>2, <4>4 DEF FramesNest
      <4>. QED BY <4>3, <4>4
    <3>. QED BY <3>1, <3>2
  <2>. QED BY <1>1, <2>1, <2>2, <2>3, <2>4, <2>5 DEF FramesNest
<1>13. LowLinks'
  <2> SUFFICES ASSUME NEW i \in Nodes, onStack'[i]
               PROVE  /\ minIndex'[i] <= index'[i]
                      /\ \E m \in Nodes : onStack'[m] /\ index'[m] = minIndex'[i] /\ Reaches(Edges, i, m)
      BY <1>1 DEF LowLinks
  <2>1. CASE i = k
      BY <1>2, <1>3, <2>1, PathsCompose
  <2>2. CASE i # k
    <3>1. /\ minIndex[i] <= index[i]
          /\ \E m \in Nodes : onStack[m] /\ index[m] = minIndex[i] /\ Reaches(Edges, i, m)
        BY <1>4, <2>2 DEF LowLinks
    <3>2. PICK m \in Nodes : onStack[m] /\ index[m] = minIndex[i] /\ Reaches(Edges, i, m)
        BY <3>1
    <3>3. m # k
        BY <1>1, <3>2
    <3>. QED BY <1>4, <2>2, <3>1, <3>2, <3>3
  <2>. QED BY <2>1, <2>2
<1>14. LowOfOpen'
  <2> SUFFICES ASSUME NEW f \in DOMAIN frames', NEW i \in Nodes,
                      onStack'[i], index'[frames'[f].i] <= index'[i],
                      \A g \in DOMAIN frames' : f < g => index'[i] < index'[frames'[g].i]
               PROVE  minIndex'[frames'[f].i] <= minIndex'[i]
      BY DEF LowOfOpen
  <2>1. CASE f = n
    <3>1. i = k
        BY <1>2, <1>3, <1>4, <1>5, <1>8, <2>1
    <3>. QED BY <1>2, <1>3, <1>8, <2>1, <3>1
  <2>2. CASE f \in DOMAIN frames
    <3>1. index'[i] < index'[k]
        BY <1>1, <1>7, <1>8, <2>2
    <3>2. i # k
        BY <1>2, <1>3, <3>1
    <3>3. index'[i] = index[i] /\ minIndex'[i] = minIndex[i] /\ onStack[i]
        BY <1>4, <3>2
    <3>4. \A g \in DOMAIN frames : frames'[g].i = frames[g].i /\ index'[frames[g].i] = index[frames[g].i]
        BY <1>4, <1>7
    <3>5. minIndex'[frames[f].i] = minIndex[frames[f].i]
        BY <1>4, <1>7, <2>2
    <3>6. \A g \in DOMAIN frames : f < g => index[i] < index[frames[g].i]
        BY <1>1, <3>3, <3>4
    <3>7. minIndex[frames[f].i] <= minIndex[i]
        BY <2>2, <3>3, <3>4, <3>6 DEF LowOfOpen
    <3>. QED BY <2>2, <3>3, <3>4, <3>5, <3>7
  <2>. QED BY <1>1, <2>1, <2>2
<1>15. OrderListed'
  <2>1. \A i \in Nodes : (index'[i] >= 0 /\ ~ onStack'[i]) <=> (index[i] >= 0 /\ ~ onStack[i])
      BY <1>1, <1>3, <1>4
  <2>2. \A i \in Nodes : (index[i] >= 0 /\ ~ onStack[i]) <=> \E m \in DOMAIN order : order[m] = i
      BY DEF OrderListed
  <2>3. Len(order') <= 2 * (count' - Len(stack'))
    <3>1. count' - Len(stack') = count - Len(stack)
        BY <1>1, <1>2, <1>6 DEF s
    <3>2. Len(order') <= 2 * (count - Len(stack))
        BY <1>1 DEF OrderListed
    <3>. QED BY <3>1, <3>2
  <2>4. /\ \A i \in Nodes : (index'[i] >= 0 /\ ~ onStack'[i]) <=> \E m \in DOMAIN order : order[m] = i
        /\ \A a, b \in DOMAIN order : order[a] = order[b] /\ order[a] # -1 => a = b
        /\ \A a \in DOMAIN order : order[a] = -1 => a > 1 /\ order[a - 1] # -1
        /\ order # <<>> => order[Len(order)] = -1
    <3>1. \A i \in Nodes : (index'[i] >= 0 /\ ~ onStack'[i]) <=> \E m \in DOMAIN order : order[m] = i
        BY <2>1, <2>2
    <3>. QED BY <3>1 DEF OrderListed
  <2>. QED BY <1>1, <2>3, <2>4 DEF OrderListed
<1>16. PathsFromOpen'
  <2> SUFFICES ASSUME NEW f \in DOMAIN frames', NEW i \in Nodes,
                      onStack'[i], index'[frames'[f].i] <= index'[i]
               PROVE  Reaches(Edges, frames'[f].i, i)
      BY <1>1 DEF PathsFromOpen
  <2>1. CASE f = n
    <3>1. i = k
        BY <1>2, <1>3, <1>4, <1>5, <1>8, <2>1
    <3>. QED BY <1>8, <2>1, <3>1, PathsCompose
  <2>2. CASE f \in DOMAIN frames /\ i = k
    <3>1. frames # <<>>
        BY <1>6, <2>2
    <3>2. Reaches(Edges, frames[f].i, Top.i)
        BY <1>10, <2>2, <3>1 DEF PathsFromOpen
    <3>3. Reaches(Edges, Top.i, k)
        BY <1>10, <3>1, PathsCompose
    <3>4. Reaches(Edges, frames[f].i, k)
        BY <3>2, <3>3, PathsCompose
    <3>. QED BY <1>7, <2>2, <3>4
  <2>3. CASE f \in DOMAIN frames /\ i # k
    <3>1. onStack[i] /\ index[frames[f].i] <= index[i]
        BY <1>4, <1>7, <2>3
    <3>. QED BY <1>7, <2>3, <3>1 DEF PathsFromOpen
  <2>. QED BY <1>1, <2>1, <2>2, <2>3
<1>17. StartReaches'
  <2>1. ASSUME start # All, NEW i \in Nodes, index'[i] >= 0 PROVE Reaches(Edges, start, i)
    <3>1. CASE i # k
        BY <1>4, <2>1, <3>1 DEF StartReaches
    <3>2. CASE i = k /\ frames = <<>>
        BY <2>1, <3>2, PathsCompose
    <3>3. CASE i = k /\ frames # <<>>
      <4>1. index[Top.i] >= 0
          BY <1>10, <3>3 DEF StackIsSorted
      <4>2. Reaches(Edges, start, Top.i)
          BY <1>10, <2>1, <3>3, <4>1 DEF StartReaches
      <4>3. Reaches(Edges, Top.i, k)
          BY <3>3, PathsCompose
      <4>. QED BY <3>3, <4>2, <4>3, PathsCompose
    <3>. QED BY <3>1, <3>2, <3>3
  <2>. QED BY <1>1, <2>1 DEF StartReaches
<1>18. PathsBack'
  <2> SUFFICES ASSUME ~ followsFailed, NEW i \in Nodes, onStack'[i]
               PROVE  \E f \in DOMAIN frames' :
                         index'[frames'[f].i] <= index'[i] /\ Reaches(Edges, i, frames'[f].i)
      BY <1>1 DEF PathsBack
  <2>1. CASE i = k
    <3>1. Reaches(Edges, k, k)
        BY PathsCompose
    <3>. QED BY <1>1, <1>2, <1>3, <1>8, <2>1, <3>1
  <2>2. CASE i # k
    <3>1. PICK f \in DOMAIN frames : index[frames[f].i] <= index[i] /\ Reaches(Edges, i, frames[f].i)
        BY <1>4, <2>2 DEF PathsBack
    <3>. QED BY <1>1, <1>4, <1>7, <2>2, <3>1
  <2>. QED BY <2>1, <2>2
<1>19. EdgesSettled'
  <2> SUFFICES ASSUME ~ followsFailed, NEW i \in Nodes, NEW m \in Nodes, onStack'[i], <<i, m>> \in Edges,
                      \A f \in DOMAIN frames' : frames'[f].i = i => frames'[f].j < m
               PROVE  index'[m] >= 0 /\ (onStack'[m] => minIndex'[i] <= index'[m])
      BY <1>1 DEF EdgesSettled
  <2>1. i # k
    <3>1. ~ (N - 1 < m)
        BY <1>2 DEF Nodes
    <3>. QED BY <1>1, <1>8, <3>1
  <2>2. \A f \in DOMAIN frames : frames[f].i = i => frames[f].j < m
      BY <1>1, <1>7
  <2>3. index[m] >= 0 /\ (onStack[m] => minIndex[i] <= index[m])
      BY <1>4, <2>1, <2>2 DEF EdgesSettled
  <2>4. m # k
      BY <2>3, <1>1
  <2>. QED BY <1>4, <2>1, <2>3, <2>4
<1>20. OrderIsClosed' /\ OrderIsConnected'
    BY <1>1 DEF OrderIsClosed, OrderIsConnected
<1>. QED BY <1>1, <1>11, <1>12, <1>13, <1>14, <1>15, <1>16, <1>17, <1>18, <1>19, <1>20

-----------------------------------------------------------------------------
(* A call returns.                                                             *)

\* The caller goes on with the next node, and may take over min_index.
LEMMA CallReturns ==
    ASSUME GraphInv, frames # <<>>, NEW ok \in BOOLEAN, ReturnTo(Front(frames), ok)
    PROVE  /\ frames' \in Seq(Frame) /\ Len(frames') = Len(frames) - 1
           /\ DOMAIN frames' = 1 .. Len(frames) - 1
           /\ \A f \in 1 .. Len(frames) - 1 :
                 /\ frames'[f].i = frames[f].i
                 /\ frames'[f].j = IF f = Len(frames) - 1 THEN frames[f].j - 1 ELSE frames[f].j
           /\ minIndex' \in [Nodes -> 0 .. N - 1]
           /\ \A i \in Nodes : minIndex'[i] <= minIndex[i]
           /\ \A i \in Nodes : minIndex'[i] # minIndex[i] =>
                 Len(frames) > 1 /\ i = frames[Len(frames) - 1].i /\ minIndex'[i] = minIndex[Top.i]
           /\ Len(frames) > 1 => minIndex'[frames[Len(frames) - 1].i] <= minIndex[Top.i]
           /\ result' = IF Len(frames) = 1 /\ ~ ok THEN "NULL" ELSE result
<1> USE DEF GraphInv
<1> DEFINE below == Front(frames)
           c == frames[Len(frames) - 1].i
<1>1. /\ below \in Seq(Frame) /\ Len(below) = Len(frames) - 1
      /\ \A f \in 1 .. Len(frames) - 1 : below[f] = frames[f]
    BY FrontFrames DEF Typed
<1>2. /\ Len(frames) \in Nat \ {0} /\ DOMAIN frames = 1 .. Len(frames)
      /\ Top.i \in Nodes
      /\ \A f \in DOMAIN frames : frames[f].i \in Nodes
    BY OpenCall
<1>3. minIndex \in [Nodes -> 0 .. N - 1] /\ \A i \in Nodes : minIndex[i] \in Int
    BY QuestionsAssumption DEF Typed
<1> HIDE DEF below
<1>4. CASE below = <<>>
  <2>1. Len(frames) = 1
      BY <1>1, <1>2, <1>4
  <2>2. frames' = <<>> /\ result' = (IF ok THEN result ELSE "NULL") /\ minIndex' = minIndex
      BY <1>4 DEF ReturnTo, below
  <2>3. frames' \in Seq(Frame) /\ Len(frames') = 0 /\ DOMAIN frames' = {} /\ 1 .. Len(frames) - 1 = {}
      BY <2>1, <2>2
  <2>. QED BY <1>3, <2>1, <2>2, <2>3
<1>5. CASE below # <<>>
  <2>1. Len(frames) > 1 /\ Len(frames) - 1 \in DOMAIN frames /\ Len(frames) - 1 = Len(below) /\ c \in Nodes
      BY <1>1, <1>2, <1>5
  <2>2. frames' = NextJ(below) /\ result' = result /\ minIndex' = Lowered(below[Len(below)].i, minIndex[Top.i])
      BY <1>5 DEF ReturnTo, below
  <2>3. below[Len(below)] = frames[Len(frames) - 1]
      BY <1>1, <2>1
  <2>4. below[Len(below)].j >= 0
    <3>1. Len(frames) - 1 + 1 \in DOMAIN frames
        BY <1>2
    <3>2. frames[Len(frames) - 1].j = frames[Len(frames) - 1 + 1].i
      <4>1. Len(frames) - 1 \in DOMAIN frames /\ Len(frames) - 1 # Len(frames)
        <5>1. \A m \in Nat : m - 1 # m
            OBVIOUS
        <5>2. Len(frames) \in Nat /\ Len(frames) - 1 \in DOMAIN frames
            BY <1>2, <2>1
        <5>. QED BY <5>1, <5>2
      <4>2. \A f \in DOMAIN frames : f # Len(frames) => frames[f].j = frames[f + 1].i
          BY DEF FramesNest
      <4>. QED BY <4>1, <4>2
    <3>3. frames[Len(frames) - 1].j \in Nodes
        BY <1>2, <3>1, <3>2
    <3>. QED BY <2>3, <3>3 DEF Nodes
  <2>5. /\ NextJ(below) \in Seq(Frame) /\ Len(NextJ(below)) = Len(below)
        /\ DOMAIN NextJ(below) = DOMAIN below
        /\ \A f \in DOMAIN below :
              /\ NextJ(below)[f].i = below[f].i
              /\ NextJ(below)[f].j = IF f = Len(below) THEN below[f].j - 1 ELSE below[f].j
      BY <1>1, <1>5, <2>4, NextJFrames
  <2>6. DOMAIN below = 1 .. Len(frames) - 1
      BY <1>1
  <2>7. /\ frames' \in Seq(Frame) /\ Len(frames') = Len(frames) - 1
        /\ DOMAIN frames' = 1 .. Len(frames) - 1
        /\ \A f \in 1 .. Len(frames) - 1 :
              /\ frames'[f].i = frames[f].i
              /\ frames'[f].j = IF f = Len(frames) - 1 THEN frames[f].j - 1 ELSE frames[f].j
      BY <1>1, <2>2, <2>5, <2>6
  <2>8. minIndex' = IF minIndex[Top.i] < minIndex[c] THEN [minIndex EXCEPT ![c] = minIndex[Top.i]] ELSE minIndex
      BY <2>2, <2>3 DEF Lowered
  <2> HIDE DEF c
  <2>9. /\ minIndex' \in [Nodes -> 0 .. N - 1]
        /\ \A i \in Nodes : minIndex'[i] <= minIndex[i]
        /\ \A i \in Nodes : minIndex'[i] # minIndex[i] => i = c /\ minIndex'[i] = minIndex[Top.i]
        /\ minIndex'[c] <= minIndex[Top.i]
    <3>1. CASE minIndex[Top.i] < minIndex[c]
      <4>1. minIndex' = [minIndex EXCEPT ![c] = minIndex[Top.i]]
          BY <2>8, <3>1
      <4>. QED BY <1>2, <1>3, <2>1, <3>1, <4>1
    <3>2. CASE ~ (minIndex[Top.i] < minIndex[c])
      <4>1. minIndex' = minIndex
          BY <2>8, <3>2
      <4>. QED BY <1>2, <1>3, <2>1, <3>2, <4>1
    <3>. QED BY <3>1, <3>2
  <2>10. result' = IF Len(frames) = 1 /\ ~ ok THEN "NULL" ELSE result
      BY <2>1, <2>2
  <2>. QED BY <2>1, <2>7, <2>9, <2>10 DEF c
<1>. QED BY <1>4, <1>5

\* The first call of a search keeps its own number: it ends its component.
LEMMA BottomLow ==
    ASSUME GraphInv, frames # <<>>, Len(frames) = 1
    PROVE  minIndex[Top.i] = index[Top.i]
<1> USE DEF GraphInv
<1>1. Top.i \in Nodes /\ onStack[Top.i] /\ Top = frames[Len(frames)]
    BY OpenCall
<1>2. PICK k \in Nodes : onStack[k] /\ index[k] = minIndex[Top.i]
    BY <1>1 DEF LowLinks
<1>3. index[Top.i] <= index[k]
    BY <1>1, <1>2 DEF FramesNest
<1>4. minIndex[Top.i] <= index[Top.i]
    BY <1>1 DEF LowLinks
<1>5. index[Top.i] \in Int /\ index[k] \in Int
    BY <1>1 DEF Typed
<1>. QED BY <1>2, <1>3, <1>4, <1>5

\* A call that ends without a component, or fails.
LEMMA ReturnKeepsInv ==
    ASSUME GraphInv, frames # <<>>, NEW ok \in BOOLEAN, ReturnTo(Front(frames), ok),
           UNCHANGED <<start, answers, index, onStack, stack, order, count>>,
           ok => Top.j < 0 /\ index[Top.i] # minIndex[Top.i] /\ followsFailed' = followsFailed,
           ~ ok => followsFailed' = TRUE
    PROVE  GraphInv'
<1> USE DEF GraphInv
<1> DEFINE n == Len(frames)
           c == frames[n - 1].i
           t == Top.i
<1>1. /\ n \in Nat \ {0} /\ DOMAIN frames = 1 .. n /\ Top = frames[n]
      /\ t \in Nodes /\ onStack[t] /\ index[t] >= 0 /\ Top.j \in -1 .. N - 1 /\ result = "none"
      /\ \A f \in 1 .. n : /\ frames[f].i \in Nodes /\ index[frames[f].i] \in Nat
                           /\ index[frames[f].i] <= index[t]
                           /\ frames[f].i = t => f = n
    BY OpenCall
<1>2. /\ frames' \in Seq(Frame) /\ Len(frames') = n - 1
      /\ DOMAIN frames' = 1 .. n - 1
      /\ \A f \in 1 .. n - 1 :
            /\ frames'[f].i = frames[f].i
            /\ frames'[f].j = IF f = n - 1 THEN frames[f].j - 1 ELSE frames[f].j
      /\ minIndex' \in [Nodes -> 0 .. N - 1]
      /\ \A i \in Nodes : minIndex'[i] <= minIndex[i]
      /\ \A i \in Nodes : minIndex'[i] # minIndex[i] => n > 1 /\ i = c /\ minIndex'[i] = minIndex[t]
      /\ n > 1 => minIndex'[c] <= minIndex[t]
      /\ result' = IF n = 1 /\ ~ ok THEN "NULL" ELSE result
    BY CallReturns
<1>3. /\ start' = start /\ answers' = answers /\ index' = index /\ onStack' = onStack /\ stack' = stack
      /\ order' = order /\ count' = count /\ Edges' = Edges
      /\ followsFailed' \in BOOLEAN /\ ~ followsFailed' => ok /\ ~ followsFailed
    BY SameEdges DEF Typed
<1>4. \A i \in Nodes : index[i] \in Int /\ minIndex[i] \in Int /\ minIndex'[i] \in Int
    BY <1>2, QuestionsAssumption DEF Typed
<1>5. \A f, g \in 1 .. n : f < g => index[frames[f].i] < index[frames[g].i]
    BY <1>1 DEF FramesNest
<1>6. n > 1 => /\ n - 1 \in 1 .. n - 1 /\ n - 1 \in DOMAIN frames /\ c \in Nodes /\ onStack[c]
               /\ index[c] < index[t] /\ <<c, t>> \in Edges /\ frames[n - 1].j = t
  <2> SUFFICES ASSUME n > 1
               PROVE  /\ n - 1 \in 1 .. n - 1 /\ n - 1 \in DOMAIN frames /\ c \in Nodes /\ onStack[c]
                      /\ index[c] < index[t] /\ <<c, t>> \in Edges /\ frames[n - 1].j = t
      OBVIOUS
  <2>1. n - 1 \in 1 .. n - 1 /\ n - 1 \in 1 .. n /\ n \in 1 .. n /\ n - 1 < n /\ n - 1 # n /\ n - 1 + 1 = n
    <3>1. \A m \in Nat : m > 1 => /\ m - 1 \in 1 .. m - 1 /\ m - 1 \in 1 .. m /\ m \in 1 .. m
                                  /\ m - 1 < m /\ m - 1 # m /\ m - 1 + 1 = m
        OBVIOUS
    <3>2. n \in Nat
        BY <1>1
    <3> HIDE DEF n
    <3>. QED BY <3>1, <3>2
  <2>2. frames[n - 1].j = frames[n - 1 + 1].i /\ <<frames[n - 1].i, frames[n - 1].j>> \in Edges
      BY <1>1, <2>1 DEF FramesNest
  <2>3. onStack[c]
      BY <1>1, <2>1 DEF FramesNest
  <2>. QED BY <1>1, <1>5, <2>1, <2>2, <2>3
<1>7. ok => n > 1
  <2>1. n = 1 => minIndex[Top.i] = index[Top.i]
      BY BottomLow
  <2>2. ok => n # 1
      BY <2>1
  <2>3. n \in Nat \ {0}
      BY <1>1
  <2> HIDE DEF n
  <2>. QED BY <2>2, <2>3
<1> HIDE DEF n, c, t
<1>8. Typed' /\ Numbered' /\ StackIsSorted' /\ OrderListed'
  <2>1. Typed'
      BY <1>1, <1>2, <1>3 DEF Typed
  <2>. QED BY <1>3, <2>1 DEF Numbered, Visited, StackIsSorted, OrderListed
<1>9. FramesNest'
  <2>1. \A f \in 1 .. n - 1 : f \in 1 .. n /\ f \in DOMAIN frames
      BY <1>1
  <2>2. \A f \in DOMAIN frames' : onStack'[frames'[f].i]
      BY <1>2, <1>3, <2>1 DEF FramesNest
  <2>3. \A f, g \in DOMAIN frames' : f < g => index'[frames'[f].i] < index'[frames'[g].i]
      BY <1>2, <1>3, <1>5, <2>1
  <2>4. ASSUME NEW f \in 1 .. n - 1, f # n - 1
        PROVE  frames'[f].j = frames'[f + 1].i /\ <<frames'[f].i, frames'[f].j>> \in Edges
    <3>1. f + 1 \in 1 .. n - 1 /\ f # n
        BY <1>1, <2>4
    <3>2. frames[f].j = frames[f + 1].i /\ <<frames[f].i, frames[f].j>> \in Edges
        BY <2>1, <3>1 DEF FramesNest, n
    <3>. QED BY <1>2, <2>4, <3>1, <3>2
  <2>5. ASSUME frames' # <<>>
        PROVE  result' = "none" /\ \A i \in Nodes : onStack[i] => index[frames'[1].i] <= index[i]
    <3>1. n # 1 /\ 1 \in 1 .. n - 1
        BY <1>1, <1>2, <2>5
    <3>. QED BY <1>1, <1>2, <2>1, <3>1 DEF FramesNest
  <2>6. frames' = <<>> => result' = "NULL"
    <3>1. ASSUME frames' = <<>> PROVE n = 1
        BY <1>1, <1>2, <3>1
    <3>. QED BY <1>2, <1>7, <3>1
  <2>. QED BY <1>2, <1>3, <2>2, <2>3, <2>4, <2>5, <2>6 DEF FramesNest
<1>10. LowLinks'
  <2> SUFFICES ASSUME NEW i \in Nodes, onStack[i]
               PROVE  /\ minIndex'[i] <= index[i]
                      /\ \E k \in Nodes : onStack[k] /\ index[k] = minIndex'[i] /\ Reaches(Edges, i, k)
      BY <1>3 DEF LowLinks
  <2>1. /\ minIndex[i] <= index[i]
        /\ \E k \in Nodes : onStack[k] /\ index[k] = minIndex[i] /\ Reaches(Edges, i, k)
      BY DEF LowLinks
  <2>2. minIndex'[i] <= index[i]
      BY <1>2, <1>4, <2>1
  <2>3. CASE minIndex'[i] = minIndex[i]
      BY <2>1, <2>2, <2>3
  <2>4. CASE minIndex'[i] # minIndex[i]
    <3>1. n > 1 /\ i = c /\ minIndex'[i] = minIndex[t]
        BY <1>2, <2>4
    <3>2. PICK k \in Nodes : onStack[k] /\ index[k] = minIndex[t] /\ Reaches(Edges, t, k)
        BY <1>1 DEF LowLinks
    <3>3. Reaches(Edges, i, t)
        BY <1>6, <3>1, PathsCompose
    <3>4. Reaches(Edges, i, k)
        BY <3>2, <3>3, PathsCompose
    <3>. QED BY <2>2, <3>1, <3>2, <3>4
  <2>. QED BY <2>3, <2>4
<1>11. LowOfOpen'
  <2> SUFFICES ASSUME NEW f \in 1 .. n - 1, NEW i \in Nodes,
                      onStack[i], index[frames[f].i] <= index[i],
                      \A g \in 1 .. n - 1 : f < g => index[i] < index[frames[g].i]
               PROVE  minIndex'[frames[f].i] <= minIndex'[i]
      BY <1>2, <1>3 DEF LowOfOpen
  <2>1. f \in 1 .. n /\ f \in DOMAIN frames /\ frames[f].i \in Nodes /\ n > 1
      BY <1>1
  <2>2. CASE f # n - 1
    <3>1. f < n - 1
        BY <1>1, <2>2
    <3>2. index[i] < index[c]
        BY <1>6, <2>1, <3>1 DEF c
    <3>3. i # c
        BY <1>4, <3>2
    <3>4. \A g \in 1 .. n : f < g => index[i] < index[frames[g].i]
      <4> SUFFICES ASSUME NEW g \in 1 .. n, f < g PROVE index[i] < index[frames[g].i]
          OBVIOUS
      <4>1. CASE g = n
        <5>1. index[i] < index[t] /\ t = frames[n].i
            BY <1>1, <1>4, <1>6, <2>1, <3>2 DEF t
        <5>. QED BY <4>1, <5>1
      <4>2. CASE g # n
        <5>1. g \in 1 .. n - 1
            BY <1>1, <4>2
        <5>. QED BY <5>1
      <4>. QED BY <4>1, <4>2
    <3>5. minIndex[frames[f].i] <= minIndex[i]
        BY <1>1, <2>1, <3>4 DEF LowOfOpen
    <3>6. minIndex'[i] = minIndex[i] /\ minIndex'[frames[f].i] <= minIndex[frames[f].i]
        BY <1>2, <2>1, <3>3
    <3>. QED BY <1>4, <2>1, <3>5, <3>6
  <2>3. CASE f = n - 1 /\ i = c
      BY <1>4, <2>3 DEF c
  <2>4. CASE f = n - 1 /\ i # c /\ index[i] < index[t]
    <3>1. \A g \in 1 .. n : f < g => g = n
        BY <1>1, <2>4
    <3>2. \A g \in DOMAIN frames : f < g => index[i] < index[frames[g].i]
        BY <1>1, <2>4, <3>1 DEF t
    <3>3. minIndex[frames[f].i] <= minIndex[i]
        BY <2>1, <3>2 DEF LowOfOpen
    <3>4. minIndex'[i] = minIndex[i] /\ minIndex'[frames[f].i] <= minIndex[frames[f].i]
        BY <1>2, <2>1, <2>4
    <3>. QED BY <1>4, <2>1, <3>3, <3>4
  <2>5. CASE f = n - 1 /\ i # c /\ ~ (index[i] < index[t])
    <3>1. \A g \in 1 .. n : ~ (n < g)
        BY <1>1
    <3>2. n \in DOMAIN frames /\ frames[n].i = t /\ index[t] <= index[i]
        BY <1>1, <1>4, <2>5 DEF t
    <3>3. minIndex[t] <= minIndex[i]
        BY <1>1, <3>1, <3>2 DEF LowOfOpen
    <3>4. minIndex'[i] = minIndex[i] /\ minIndex'[c] <= minIndex[t] /\ frames[f].i = c
        BY <1>2, <2>1, <2>5 DEF c
    <3>. QED BY <1>1, <1>4, <1>6, <2>1, <3>3, <3>4
  <2>. QED BY <2>2, <2>3, <2>4, <2>5
<1>12. PathsFromOpen' /\ StartReaches'
  <2>1. \A f \in 1 .. n - 1 : f \in DOMAIN frames
      BY <1>1
  <2>2. result' # "graph"
      BY <1>1, <1>2
  <2>3. PathsFromOpen'
      BY <1>2, <1>3, <2>1 DEF PathsFromOpen
  <2>. QED BY <1>3, <2>2, <2>3 DEF StartReaches
<1>13. PathsBack'
  <2> SUFFICES ASSUME ok, ~ followsFailed, NEW i \in Nodes, onStack[i]
               PROVE  \E f \in 1 .. n - 1 : index[frames[f].i] <= index[i] /\ Reaches(Edges, i, frames[f].i)
      BY <1>2, <1>3 DEF PathsBack
  <2>1. PICK f \in 1 .. n : index[frames[f].i] <= index[i] /\ Reaches(Edges, i, frames[f].i)
      BY <1>1 DEF PathsBack
  <2>2. CASE f # n
    <3>1. f \in 1 .. n - 1
        BY <1>1, <2>2
    <3>. QED BY <2>1, <3>1
  <2>3. CASE f = n
    <3>1. PICK k \in Nodes : onStack[k] /\ index[k] = minIndex[t] /\ Reaches(Edges, t, k)
        BY <1>1 DEF LowLinks
    <3>2. minIndex[t] <= index[t] /\ index[t] # minIndex[t]
        BY <1>1 DEF LowLinks, t
    <3>3. PICK g \in 1 .. n : index[frames[g].i] <= index[k] /\ Reaches(Edges, k, frames[g].i)
        BY <1>1, <3>1 DEF PathsBack
    <3>4. index[frames[g].i] < index[t] /\ index[t] <= index[i] /\ frames[n].i = t
        BY <1>1, <1>4, <2>1, <2>3, <3>1, <3>2, <3>3 DEF t
    <3>5. g # n
        BY <1>1, <1>4, <3>4
    <3>6. g \in 1 .. n - 1
        BY <1>1, <3>5
    <3>7. Reaches(Edges, i, k)
        BY <2>1, <2>3, <3>1, <3>4, PathsCompose
    <3>8. Reaches(Edges, i, frames[g].i)
        BY <3>3, <3>7, PathsCompose
    <3>9. index[frames[g].i] <= index[i]
        BY <1>1, <1>4, <3>4
    <3>. QED BY <3>6, <3>8, <3>9
  <2>. QED BY <2>2, <2>3
<1>14. EdgesSettled'
  <2> SUFFICES ASSUME ok, ~ followsFailed, NEW i \in Nodes, NEW k \in Nodes, onStack[i], <<i, k>> \in Edges,
                      \A f \in 1 .. n - 1 : frames'[f].i = i => frames'[f].j < k
               PROVE  index[k] >= 0 /\ (onStack[k] => minIndex'[i] <= index[k])
      BY <1>2, <1>3 DEF EdgesSettled
  <2>1. CASE i = c /\ k = t
    <3>1. minIndex'[c] <= minIndex[t] /\ minIndex[t] <= index[t] /\ index[t] >= 0 /\ c \in Nodes
        BY <1>1, <1>2, <1>6, <1>7 DEF LowLinks
    <3>. QED BY <1>1, <1>4, <2>1, <3>1
  <2>2. CASE ~ (i = c /\ k = t)
    <3>1. ASSUME NEW f \in 1 .. n, frames[f].i = i PROVE frames[f].j < k
      <4>1. k >= 0 /\ k \in Int
          BY DEF Nodes
      <4>2. CASE f = n
          BY <1>1, <4>1, <4>2
      <4>3. CASE f # n
        <5>1. f \in 1 .. n - 1
            BY <1>1, <4>3
        <5>2. frames'[f].i = i /\ frames'[f].j < k
            BY <1>2, <3>1, <5>1
        <5>3. CASE f # n - 1
            BY <1>2, <5>1, <5>2, <5>3
        <5>4. CASE f = n - 1
          <6>1. i = c /\ frames[f].j = t /\ k # t /\ frames[f].j - 1 < k
              BY <1>2, <1>6, <1>7, <2>2, <3>1, <5>1, <5>2, <5>4 DEF c
          <6>2. t \in Int
              BY <1>1 DEF Nodes
          <6>. QED BY <4>1, <6>1, <6>2
        <5>. QED BY <5>3, <5>4
      <4>. QED BY <4>2, <4>3
    <3>2. index[k] >= 0 /\ (onStack[k] => minIndex[i] <= index[k])
        BY <1>1, <3>1 DEF EdgesSettled
    <3>3. minIndex'[i] <= minIndex[i]
        BY <1>2
    <3>. QED BY <1>4, <3>2, <3>3
  <2>. QED BY <2>1, <2>2
<1>15. OrderIsClosed' /\ OrderIsConnected'
    BY <1>3 DEF OrderIsClosed, OrderIsConnected
<1>. QED BY <1>8, <1>9, <1>10, <1>11, <1>12, <1>13, <1>14, <1>15

-----------------------------------------------------------------------------
(* A component leaves the stack.                                               *)

\* The end of a sequence, turned round.
LEMMA SuffixReversed ==
    ASSUME NEW S, NEW s \in Seq(S), NEW r \in 1 .. Len(s)
    PROVE  /\ Reverse(SubSeq(s, r, Len(s))) \in Seq(S)
           /\ Len(Reverse(SubSeq(s, r, Len(s)))) = Len(s) - r + 1
           /\ \A k \in 1 .. Len(s) - r + 1 : Reverse(SubSeq(s, r, Len(s)))[k] = s[Len(s) - k + 1]
<1> DEFINE n == Len(s)
           w == n - r + 1
           c == SubSeq(s, r, n)
<1>1. n \in Nat /\ r \in 1 .. n /\ r \in Int /\ n \in Int /\ \A k \in 1 .. n : s[k] \in S
    OBVIOUS
<1> HIDE DEF n
<1>2. w \in Nat /\ (IF r <= n THEN n - r + 1 ELSE 0) = w
    BY <1>1
<1>3. \A k \in r .. n : s[k] \in S
    BY <1>1
<1>4. /\ c \in Seq(S)
      /\ Len(c) = (IF r <= n THEN n - r + 1 ELSE 0)
      /\ \A k \in 1 .. n - r + 1 : c[k] = s[r + k - 1]
    BY <1>1, <1>3, SubSeqProperties
<1>5. c \in Seq(S) /\ Len(c) = w /\ \A k \in 1 .. w : c[k] = s[r + k - 1]
    BY <1>2, <1>4
<1> HIDE DEF c
<1>6. Reverse(c) = [k \in 1 .. w |-> c[w - k + 1]]
    BY <1>5 DEF Reverse
<1>7. ASSUME NEW k \in 1 .. w PROVE c[w - k + 1] = s[n - k + 1] /\ c[w - k + 1] \in S
  <2>1. w - k + 1 \in 1 .. w /\ r + (w - k + 1) - 1 = n - k + 1 /\ n - k + 1 \in 1 .. n
      BY <1>1, <1>2
  <2>. QED BY <1>1, <1>5, <2>1
<1> HIDE DEF w
<1>8. Reverse(c) \in [1 .. w -> S]
    BY <1>6, <1>7
<1>9. Reverse(c) \in Seq(S) /\ Len(Reverse(c)) = w
    BY <1>2, <1>8
<1>10. \A k \in 1 .. w : Reverse(c)[k] = s[n - k + 1]
    BY <1>6, <1>7
<1>. QED BY <1>9, <1>10 DEF n, w, c

\* What it has.
LEMMA SuffixHas ==
    ASSUME NEW S, NEW s \in Seq(S), NEW r \in 1 .. Len(s), NEW i
    PROVE  Contains(SubSeq(s, r, Len(s)), i) <=> \E k \in r .. Len(s) : s[k] = i
<1> DEFINE n == Len(s)
           w == n - r + 1
           c == SubSeq(s, r, n)
<1>1. n \in Nat /\ r \in 1 .. n /\ r \in Int /\ n \in Int /\ \A k \in 1 .. n : s[k] \in S
    OBVIOUS
<1> HIDE DEF n
<1>2. w \in Nat /\ (IF r <= n THEN n - r + 1 ELSE 0) = w
    BY <1>1
<1>3. \A k \in r .. n : s[k] \in S
    BY <1>1
<1>4. /\ c \in Seq(S)
      /\ Len(c) = (IF r <= n THEN n - r + 1 ELSE 0)
      /\ \A k \in 1 .. n - r + 1 : c[k] = s[r + k - 1]
    BY <1>1, <1>3, SubSeqProperties
<1>5. Len(c) = w /\ \A k \in 1 .. w : c[k] = s[r + k - 1]
    BY <1>2, <1>4
<1> HIDE DEF c, w
<1>6. ASSUME NEW k \in 1 .. w, c[k] = i PROVE \E m \in r .. n : s[m] = i
  <2>1. r + k - 1 \in r .. n
      BY <1>1 DEF w
  <2>. QED BY <1>5, <1>6, <2>1
<1>7. ASSUME NEW k \in r .. n, s[k] = i PROVE \E m \in 1 .. w : c[m] = i
  <2>1. k - r + 1 \in 1 .. w /\ r + (k - r + 1) - 1 = k
      BY <1>1 DEF w
  <2>. QED BY <1>5, <1>7, <2>1
<1>8. Contains(c, i) <=> \E k \in r .. n : s[k] = i
    BY <1>5, <1>6, <1>7 DEF Contains
<1>. QED BY <1>8 DEF n, c

\* Three sequences in a row, the last one of one element.
LEMMA RowOfThree ==
    ASSUME NEW S, NEW a \in Seq(S), NEW b \in Seq(S), NEW e \in S
    PROVE  /\ a \o b \o <<e>> \in Seq(S) /\ Len(a \o b \o <<e>>) = Len(a) + Len(b) + 1
           /\ \A k \in 1 .. Len(a) : (a \o b \o <<e>>)[k] = a[k]
           /\ \A k \in Len(a) + 1 .. Len(a) + Len(b) : (a \o b \o <<e>>)[k] = b[k - Len(a)]
           /\ (a \o b \o <<e>>)[Len(a) + Len(b) + 1] = e
<1> DEFINE l == a \o b
           la == Len(a)
           lb == Len(b)
<1>1. /\ l \in Seq(S) /\ Len(l) = la + lb
      /\ \A k \in 1 .. la + lb : l[k] = IF k <= la THEN a[k] ELSE b[k - la]
    BY ConcatProperties
<1>2. la \in Nat /\ lb \in Nat
    OBVIOUS
<1> HIDE DEF l
<1>3. l \o <<e>> = Append(l, e)
    BY <1>1, AppendIsConcat
<1> HIDE DEF la, lb
<1>4. /\ Append(l, e) \in Seq(S) /\ Len(Append(l, e)) = Len(l) + 1
      /\ \A k \in 1 .. Len(l) : Append(l, e)[k] = l[k]
      /\ Append(l, e)[Len(l) + 1] = e
  <2>1. l \in Seq(S)
      BY <1>1
  <2>. QED BY <2>1, AppendProperties
<1>5. /\ l \o <<e>> \in Seq(S) /\ Len(l \o <<e>>) = la + lb + 1
      /\ \A k \in 1 .. la + lb : (l \o <<e>>)[k] = l[k]
      /\ (l \o <<e>>)[la + lb + 1] = e
    BY <1>1, <1>3, <1>4
<1>6. ASSUME NEW k \in 1 .. la PROVE (l \o <<e>>)[k] = a[k]
  <2>1. k \in 1 .. la + lb /\ k <= la
      BY <1>2
  <2>. QED BY <1>1, <1>5, <2>1
<1>7. ASSUME NEW k \in la + 1 .. la + lb PROVE (l \o <<e>>)[k] = b[k - la]
  <2>1. k \in 1 .. la + lb /\ ~ (k <= la)
      BY <1>2
  <2>. QED BY <1>1, <1>5, <2>1
<1>. QED BY <1>5, <1>6, <1>7 DEF l, la, lb

\* The nodes of the stack that were not visited before i.
StackFrom(i) == {k \in Nodes : onStack[k] /\ index[i] <= index[k]}

\* What the end of the component of node t does to the stack and the order.
ComponentLeft(t) ==
    /\ stack' \in Seq(Nodes) /\ onStack' \in [Nodes -> BOOLEAN] /\ order' \in Seq(Nodes \cup {-1})
    /\ Len(stack') \in Nat /\ Len(stack') < Len(stack)
    /\ \A k \in 1 .. Len(stack') : stack'[k] = stack[k] /\ k \in DOMAIN stack
    /\ \A k \in 1 .. Len(stack') : onStack'[stack'[k]]
    /\ \A i \in Nodes : onStack'[i] <=> onStack[i] /\ index[i] < index[t]
    /\ \A i \in Nodes : onStack'[i] => \E k \in 1 .. Len(stack') : stack'[k] = i
    /\ Len(order') = Len(order) + (Len(stack) - Len(stack')) + 1
    /\ \A k \in 1 .. Len(order) : order'[k] = order[k]
    /\ \A k \in Len(order) + 1 .. Len(order') - 1 : order'[k] \in StackFrom(t)
    /\ order'[Len(order')] = -1
    /\ \A i \in StackFrom(t) : \E k \in Len(order) + 1 .. Len(order') - 1 : order'[k] = i
    /\ \A k, m \in Len(order) + 1 .. Len(order') - 1 : order'[k] = order'[m] => k = m

\* The code of the pop does that.
LEMMA ComponentLeaves ==
    ASSUME Typed, StackIsSorted, NEW t \in Nodes, onStack[t],
           stack' = SubSeq(stack, 1, RootOfStack(t) - 1),
           onStack' = [i \in Nodes |-> onStack[i] /\ ~ Contains(SubSeq(stack, RootOfStack(t), Len(stack)), i)],
           order' = order \o Reverse(SubSeq(stack, RootOfStack(t), Len(stack))) \o <<-1>>
    PROVE  ComponentLeft(t)
<1> DEFINE r == RootOfStack(t)
           s == Len(stack)
           l == Len(order)
           c == Reverse(SubSeq(stack, r, s))
<1>1. /\ s \in Nat /\ DOMAIN stack = 1 .. s /\ l \in Nat /\ stack \in Seq(Nodes)
      /\ \A k \in 1 .. s : stack[k] \in Nodes
      /\ \A k, m \in 1 .. s : k < m => index[stack[k]] < index[stack[m]]
      /\ \A k \in 1 .. s : onStack[stack[k]]
      /\ \A i \in Nodes : onStack[i] => \E k \in 1 .. s : stack[k] = i
      /\ \A i \in Nodes : index[i] \in Int
  <2>1. s \in Nat /\ DOMAIN stack = 1 .. s /\ l \in Nat /\ stack \in Seq(Nodes)
      BY DEF Typed
  <2>2. \A k \in 1 .. s : stack[k] \in Nodes
      BY <2>1
  <2>3. \A i \in Nodes : index[i] \in Int
      BY QuestionsAssumption DEF Typed
  <2> HIDE DEF s, l
  <2>. QED BY <2>1, <2>2, <2>3 DEF StackIsSorted
<1>2. r \in 1 .. s /\ stack[r] = t
  <2>1. \E k \in 1 .. Len(stack) : stack[k] = t
      BY <1>1
  <2>. QED BY <2>1 DEF RootOfStack
<1>3. /\ c \in Seq(Nodes) /\ Len(c) = s - r + 1
      /\ \A k \in 1 .. s - r + 1 : c[k] = stack[s - k + 1]
      /\ \A i : Contains(SubSeq(stack, r, s), i) <=> \E k \in r .. s : stack[k] = i
  <2> HIDE DEF r
  <2>1. r \in 1 .. Len(stack)
      BY <1>2
  <2>2. /\ Reverse(SubSeq(stack, r, Len(stack))) \in Seq(Nodes)
        /\ Len(Reverse(SubSeq(stack, r, Len(stack)))) = Len(stack) - r + 1
        /\ \A k \in 1 .. Len(stack) - r + 1 :
              Reverse(SubSeq(stack, r, Len(stack)))[k] = stack[Len(stack) - k + 1]
    <3> HIDE DEF s
    <3>. QED BY <1>1, <2>1, SuffixReversed
  <2>3. \A i : Contains(SubSeq(stack, r, Len(stack)), i) <=> \E k \in r .. Len(stack) : stack[k] = i
    <3> HIDE DEF s
    <3>. QED BY <1>1, <2>1, SuffixHas
  <2>. QED BY <2>2, <2>3
<1>4. /\ stack' = SubSeq(stack, 1, r - 1)
      /\ onStack' = [i \in Nodes |-> onStack[i] /\ ~ Contains(SubSeq(stack, r, s), i)]
      /\ order' = order \o c \o <<-1>>
    OBVIOUS
<1> HIDE DEF r, s, c
<1>5. stack' \in Seq(Nodes) /\ Len(stack') = r - 1 /\ \A k \in 1 .. r - 1 : stack'[k] = stack[k]
  <2>1. r - 1 \in 0 .. s
      BY <1>1, <1>2
  <2>2. r - 1 \in 0 .. Len(stack) /\ stack \in Seq(Nodes)
      BY <1>1, <2>1 DEF s
  <2> DEFINE q == r - 1
  <2> HIDE DEF q
  <2>3. /\ SubSeq(stack, 1, q) \in Seq(Nodes) /\ Len(SubSeq(stack, 1, q)) = q
        /\ \A k \in 1 .. q : SubSeq(stack, 1, q)[k] = stack[k]
      BY <2>2, Prefix DEF q
  <2>. QED BY <1>4, <2>3 DEF q
<1>6. \A k \in 1 .. r - 1 : k \in 1 .. s
    BY <1>1, <1>2
<1>7. ASSUME NEW k \in 1 .. s PROVE /\ k < r => index[stack[k]] < index[t]
                                    /\ k >= r => index[t] <= index[stack[k]]
  <2>1. index[stack[k]] \in Int /\ index[t] \in Int
      BY <1>1
  <2>2. k = r => stack[k] = t
      BY <1>2
  <2>3. k < r => index[stack[k]] < index[t]
      BY <1>1, <1>2
  <2>4. r < k => index[t] < index[stack[k]]
      BY <1>1, <1>2
  <2>5. k \in Int /\ r \in Int
      BY <1>1, <1>2
  <2>. QED BY <2>1, <2>2, <2>3, <2>4, <2>5
<1>8. ASSUME NEW i \in Nodes, onStack[i]
      PROVE  (\E k \in r .. s : stack[k] = i) <=> index[t] <= index[i]
  <2>1. ASSUME NEW k \in r .. s, stack[k] = i PROVE index[t] <= index[i]
    <3>1. k \in 1 .. s /\ k >= r
        BY <1>1, <1>2
    <3>. QED BY <1>7, <2>1, <3>1
  <2>2. ASSUME index[t] <= index[i] PROVE \E k \in r .. s : stack[k] = i
    <3>1. PICK k \in 1 .. s : stack[k] = i
        BY <1>1, <1>8
    <3>2. ~ (index[i] < index[t])
        BY <1>1, <2>2
    <3>3. ~ (k < r)
        BY <1>7, <3>1, <3>2
    <3>4. k \in r .. s
        BY <1>1, <1>2, <3>3
    <3>. QED BY <3>1, <3>4
  <2>. QED BY <2>1, <2>2
<1>9. \A i \in Nodes : onStack'[i] <=> onStack[i] /\ index[i] < index[t]
  <2> SUFFICES ASSUME NEW i \in Nodes PROVE onStack'[i] <=> onStack[i] /\ index[i] < index[t]
      OBVIOUS
  <2>1. onStack'[i] <=> onStack[i] /\ ~ \E k \in r .. s : stack[k] = i
      BY <1>3, <1>4
  <2>2. index[i] < index[t] <=> ~ (index[t] <= index[i])
      BY <1>1
  <2>. QED BY <1>8, <2>1, <2>2
<1>10. onStack' \in [Nodes -> BOOLEAN]
  <2>1. \A i \in Nodes : (onStack[i] /\ ~ Contains(SubSeq(stack, r, s), i)) \in BOOLEAN
      OBVIOUS
  <2>. QED BY <1>4, <2>1
<1>11. ASSUME NEW i \in Nodes, onStack'[i] PROVE \E k \in 1 .. r - 1 : stack'[k] = i
  <2>1. onStack[i] /\ index[i] < index[t]
      BY <1>9, <1>11
  <2>2. PICK k \in 1 .. s : stack[k] = i
      BY <1>1, <2>1
  <2>3. ~ (index[t] <= index[i])
      BY <1>1, <2>1
  <2>4. ~ (k >= r)
      BY <1>7, <2>2, <2>3
  <2>5. k \in 1 .. r - 1
      BY <1>1, <1>2, <2>4
  <2>. QED BY <1>5, <2>2, <2>5
<1> DEFINE w == s - r + 1
<1>12. w \in Nat /\ w > 0 /\ w = s - (r - 1)
    BY <1>1, <1>2
<1>13. /\ order' \in Seq(Nodes \cup {-1}) /\ Len(order') = l + w + 1
       /\ \A k \in 1 .. l : order'[k] = order[k]
       /\ \A k \in l + 1 .. l + w : order'[k] = c[k - l]
       /\ order'[l + w + 1] = -1
  <2>1. /\ order \in Seq(Nodes \cup {-1}) /\ c \in Seq(Nodes \cup {-1}) /\ -1 \in Nodes \cup {-1}
        /\ Len(c) = w
    <3>1. Nodes \subseteq Nodes \cup {-1}
        OBVIOUS
    <3>2. c \in Seq(Nodes \cup {-1})
        BY <1>3, <3>1
    <3>. QED BY <1>3, <3>2 DEF Typed
  <2>2. /\ order \o c \o <<-1>> \in Seq(Nodes \cup {-1}) /\ Len(order \o c \o <<-1>>) = Len(order) + Len(c) + 1
        /\ \A k \in 1 .. Len(order) : (order \o c \o <<-1>>)[k] = order[k]
        /\ \A k \in Len(order) + 1 .. Len(order) + Len(c) : (order \o c \o <<-1>>)[k] = c[k - Len(order)]
        /\ (order \o c \o <<-1>>)[Len(order) + Len(c) + 1] = -1
    <3> DEFINE S == Nodes \cup {-1}
               e == -1
    <3>1. order \in Seq(S) /\ c \in Seq(S) /\ e \in S
        BY <2>1
    <3> HIDE DEF w, l, S, e
    <3>2. /\ order \o c \o <<e>> \in Seq(S) /\ Len(order \o c \o <<e>>) = Len(order) + Len(c) + 1
          /\ \A k \in 1 .. Len(order) : (order \o c \o <<e>>)[k] = order[k]
          /\ \A k \in Len(order) + 1 .. Len(order) + Len(c) : (order \o c \o <<e>>)[k] = c[k - Len(order)]
          /\ (order \o c \o <<e>>)[Len(order) + Len(c) + 1] = e
        BY <3>1, RowOfThree
    <3>. QED BY <3>2 DEF S, e
  <2>. QED BY <1>4, <2>1, <2>2
<1> HIDE DEF w, l
<1>14. \A k \in l + 1 .. l + w : /\ order'[k] = stack[s - (k - l) + 1]
                                 /\ s - (k - l) + 1 \in r .. s /\ s - (k - l) + 1 \in 1 .. s
  <2> SUFFICES ASSUME NEW k \in l + 1 .. l + w
               PROVE  /\ order'[k] = stack[s - (k - l) + 1]
                      /\ s - (k - l) + 1 \in r .. s /\ s - (k - l) + 1 \in 1 .. s
      OBVIOUS
  <2>1. k - l \in 1 .. s - r + 1 /\ s - (k - l) + 1 \in r .. s /\ s - (k - l) + 1 \in 1 .. s
      BY <1>1, <1>2, <1>12 DEF w
  <2>. QED BY <1>3, <1>13, <2>1
<1>15. (l + w + 1) - 1 = l + w
    BY <1>1, <1>12
<1>16. ASSUME NEW k \in l + 1 .. l + w PROVE order'[k] \in StackFrom(t)
  <2> DEFINE a == s - (k - l) + 1
  <2>1. order'[k] = stack[a] /\ a \in r .. s /\ a \in 1 .. s
      BY <1>14
  <2> HIDE DEF a
  <2>2. stack[a] \in Nodes /\ onStack[stack[a]]
      BY <1>1, <2>1
  <2>3. index[t] <= index[stack[a]]
      BY <1>8, <2>1, <2>2
  <2>. QED BY <2>1, <2>2, <2>3 DEF StackFrom
<1>17. ASSUME NEW i \in StackFrom(t) PROVE \E k \in l + 1 .. l + w : order'[k] = i
  <2>1. PICK a \in r .. s : stack[a] = i
      BY <1>8 DEF StackFrom
  <2> DEFINE k == l + (s - a + 1)
  <2>2. k \in l + 1 .. l + w /\ s - (k - l) + 1 = a
      BY <1>1, <1>2, <1>12 DEF w
  <2>. QED BY <1>14, <2>1, <2>2
<1>18. ASSUME NEW k \in l + 1 .. l + w, NEW m \in l + 1 .. l + w, order'[k] = order'[m] PROVE k = m
  <2> DEFINE a == s - (k - l) + 1
             b == s - (m - l) + 1
  <2>1. order'[k] = stack[a] /\ order'[m] = stack[b] /\ a \in 1 .. s /\ b \in 1 .. s
      BY <1>14
  <2>2. ~ (a < b) /\ ~ (b < a)
    <3> HIDE DEF a, b
    <3>1. stack[a] = stack[b] /\ index[stack[a]] \in Int
        BY <1>1, <1>18, <2>1
    <3>2. ~ (index[stack[a]] < index[stack[b]]) /\ ~ (index[stack[b]] < index[stack[a]])
        BY <3>1
    <3>. QED BY <1>1, <2>1, <3>2
  <2>3. k \in Int /\ m \in Int /\ s \in Int /\ l \in Int
      BY <1>1, <1>12
  <2>. QED BY <2>2, <2>3
<1>19. l + w + 1 = l + (s - (r - 1)) + 1 /\ r - 1 \in Nat /\ r - 1 < s
    BY <1>1, <1>2, <1>12
<1>20. Len(order') - 1 = l + w /\ Len(order') = l + w + 1
  <2>1. Len(order') = l + w + 1
      BY <1>13
  <2>. QED BY <1>15, <2>1
<1>21. \A k \in 1 .. Len(stack') : stack'[k] = stack[k] /\ k \in DOMAIN stack
    BY <1>1, <1>5, <1>6
<1>22. Len(order') = Len(order) + (Len(stack) - Len(stack')) + 1
    BY <1>5, <1>13, <1>19 DEF l, s
<1>23. /\ \A k \in l + 1 .. Len(order') - 1 : order'[k] \in StackFrom(t)
       /\ order'[Len(order')] = -1
       /\ \A i \in StackFrom(t) : \E k \in l + 1 .. Len(order') - 1 : order'[k] = i
       /\ \A k, m \in l + 1 .. Len(order') - 1 : order'[k] = order'[m] => k = m
    BY <1>13, <1>16, <1>17, <1>18, <1>20
<1>24. Len(stack') \in Nat /\ Len(stack') < Len(stack)
    BY <1>5, <1>19 DEF s
<1>25. \A i \in Nodes : onStack'[i] => \E k \in 1 .. Len(stack') : stack'[k] = i
    BY <1>5, <1>11
<1>26. ASSUME NEW k \in 1 .. r - 1 PROVE onStack'[stack'[k]]
  <2>1. k \in 1 .. s /\ k < r
      BY <1>1, <1>2
  <2>2. stack[k] \in Nodes /\ onStack[stack[k]]
      BY <1>1, <2>1
  <2>3. index[stack[k]] < index[t]
      BY <1>7, <2>1
  <2>. QED BY <1>5, <1>9, <2>2, <2>3
<1>27. \A k \in 1 .. Len(stack') : onStack'[stack'[k]]
    BY <1>5, <1>26
<1>. QED BY <1>5, <1>9, <1>10, <1>13, <1>21, <1>22, <1>23, <1>24, <1>25, <1>27 DEF l, ComponentLeft

\* A call that ends a component, which leaves the stack.
LEMMA ComponentKeepsInv ==
    ASSUME GraphInv, frames # <<>>, Top.j < 0, index[Top.i] = minIndex[Top.i],
           ReturnTo(Front(frames), TRUE),
           UNCHANGED <<start, answers, index, count, followsFailed>>,
           ComponentLeft(Top.i)
    PROVE  GraphInv'
<1> USE DEF GraphInv
<1> DEFINE n == Len(frames)
           c == frames[n - 1].i
           t == Top.i
           l == Len(order)
           e == Len(order')
<1>1. /\ n \in Nat \ {0} /\ DOMAIN frames = 1 .. n /\ Top = frames[n]
      /\ t \in Nodes /\ onStack[t] /\ index[t] >= 0 /\ Top.j \in -1 .. N - 1 /\ result = "none"
      /\ \A f \in 1 .. n : /\ frames[f].i \in Nodes /\ index[frames[f].i] \in Nat
                           /\ index[frames[f].i] <= index[t]
                           /\ frames[f].i = t => f = n
    BY OpenCall
<1>2. /\ frames' \in Seq(Frame) /\ Len(frames') = n - 1
      /\ DOMAIN frames' = 1 .. n - 1
      /\ \A f \in 1 .. n - 1 :
            /\ frames'[f].i = frames[f].i
            /\ frames'[f].j = IF f = n - 1 THEN frames[f].j - 1 ELSE frames[f].j
      /\ minIndex' \in [Nodes -> 0 .. N - 1]
      /\ \A i \in Nodes : minIndex'[i] <= minIndex[i]
      /\ \A i \in Nodes : minIndex'[i] # minIndex[i] => n > 1 /\ i = c /\ minIndex'[i] = minIndex[t]
      /\ n > 1 => minIndex'[c] <= minIndex[t]
      /\ result' = IF n = 1 /\ ~ TRUE THEN "NULL" ELSE result
    BY CallReturns
<1>3. /\ start' = start /\ answers' = answers /\ index' = index /\ count' = count /\ Edges' = Edges
      /\ followsFailed' = followsFailed /\ result' = "none"
    BY <1>1, <1>2, SameEdges
<1>4. \A i \in Nodes : index[i] \in Int /\ minIndex[i] \in Int /\ minIndex'[i] \in Int
    BY <1>2, QuestionsAssumption DEF Typed
<1>5. /\ stack' \in Seq(Nodes) /\ onStack' \in [Nodes -> BOOLEAN] /\ order' \in Seq(Nodes \cup {-1})
      /\ Len(stack') \in Nat /\ Len(stack') < Len(stack)
      /\ \A k \in 1 .. Len(stack') : stack'[k] = stack[k] /\ k \in DOMAIN stack
      /\ \A k \in 1 .. Len(stack') : onStack'[stack'[k]]
      /\ \A i \in Nodes : onStack'[i] <=> onStack[i] /\ index[i] < index[t]
      /\ \A i \in Nodes : onStack'[i] => \E k \in 1 .. Len(stack') : stack'[k] = i
      /\ e = l + (Len(stack) - Len(stack')) + 1
      /\ \A k \in 1 .. l : order'[k] = order[k]
      /\ \A k \in l + 1 .. e - 1 : order'[k] \in StackFrom(t)
      /\ order'[e] = -1
      /\ \A i \in StackFrom(t) : \E k \in l + 1 .. e - 1 : order'[k] = i
      /\ \A k, m \in l + 1 .. e - 1 : order'[k] = order'[m] => k = m
    BY DEF ComponentLeft
<1>6. index[t] = minIndex[t]
    OBVIOUS
<1>7. n > 1 => n - 1 \in 1 .. n /\ n \in 1 .. n /\ n - 1 < n /\ n - 1 # n /\ n - 1 + 1 = n /\ n - 1 \in 1 .. n - 1
  <2>1. \A m \in Nat : m > 1 => /\ m - 1 \in 1 .. m /\ m \in 1 .. m /\ m - 1 < m /\ m - 1 # m
                                /\ m - 1 + 1 = m /\ m - 1 \in 1 .. m - 1
      OBVIOUS
  <2>2. n \in Nat
      BY <1>1
  <2> HIDE DEF n
  <2>. QED BY <2>1, <2>2
<1>8. l \in Nat /\ DOMAIN order = 1 .. l /\ e \in Nat /\ DOMAIN order' = 1 .. e /\ e > l + 1
      /\ DOMAIN stack' = 1 .. Len(stack') /\ DOMAIN stack = 1 .. Len(stack) /\ Len(stack) \in Nat
  <2>1. /\ l \in Nat /\ DOMAIN order = 1 .. l /\ DOMAIN stack = 1 .. Len(stack) /\ Len(stack) \in Nat
      BY DEF Typed
  <2>2. e \in Nat /\ DOMAIN order' = 1 .. e /\ DOMAIN stack' = 1 .. Len(stack')
      BY <1>5
  <2>3. e > l + 1
    <3> DEFINE u == Len(stack)
               v == Len(stack')
    <3>1. u \in Nat /\ v \in Nat /\ v < u /\ e = l + (u - v) + 1 /\ l \in Nat
        BY <1>5, <2>1
    <3> HIDE DEF u, v, e, l
    <3>. QED BY <3>1
  <2>. QED BY <2>1, <2>2, <2>3
<1> HIDE DEF n, c, t, l, e
<1>9. \A f, g \in 1 .. n : f < g => index[frames[f].i] < index[frames[g].i]
    BY <1>1 DEF FramesNest
<1>10. frames[n].i = t /\ n \in 1 .. n
    BY <1>1 DEF t
<1>11. \A f \in 1 .. n - 1 : f \in 1 .. n /\ f # n /\ f < n /\ index[frames[f].i] < index[t]
  <2>1. \A f \in 1 .. n - 1 : f \in 1 .. n /\ f # n /\ f < n
      BY <1>1
  <2>. QED BY <1>9, <1>10, <2>1
<1>12. ASSUME NEW i \in Nodes PROVE minIndex'[i] = minIndex[i]
  <2> SUFFICES ASSUME minIndex'[i] # minIndex[i] PROVE FALSE
      OBVIOUS
  <2>1. n > 1 /\ i = c /\ minIndex'[c] = minIndex[t]
      BY <1>2
  <2>2. n - 1 \in 1 .. n - 1 /\ n - 1 \in 1 .. n
      BY <1>7, <2>1
  <2>3. index[c] < index[t] /\ onStack[c] /\ c \in Nodes
      BY <1>1, <1>11, <2>2 DEF c, FramesNest
  <2>4. minIndex[c] <= index[c] /\ minIndex'[c] <= minIndex[c]
      BY <1>2, <2>3 DEF LowLinks
  <2>. QED BY <1>1, <1>4, <1>6, <2>1, <2>3, <2>4
<1>30. /\ DOMAIN frames' = 1 .. n - 1
       /\ \A f \in 1 .. n - 1 : frames'[f].i = frames[f].i /\ frames[f].i \in Nodes /\ f \in DOMAIN frames
    BY <1>1, <1>2, <1>11
<1>31. Edges' = Edges /\ index' = index /\ start' = start /\ followsFailed' = followsFailed
    BY <1>3
<1>32. \A i \in Nodes : onStack'[i] => onStack[i] /\ index[i] < index[t]
    BY <1>5
<1>13. Typed' /\ Numbered'
  <2>1. Typed'
      BY <1>2, <1>3, <1>5 DEF Typed
  <2>. QED BY <1>3, <2>1 DEF Numbered, Visited
<1>14. StackIsSorted'
  <2>1. ASSUME NEW i \in Nodes, onStack'[i] PROVE index'[i] >= 0 /\ \E k \in DOMAIN stack' : stack'[k] = i
    <3>1. onStack[i] /\ \E k \in 1 .. Len(stack') : stack'[k] = i
        BY <1>5, <2>1
    <3>. QED BY <1>3, <1>8, <3>1 DEF StackIsSorted
  <2>2. ASSUME NEW k \in DOMAIN stack', NEW m \in DOMAIN stack', k < m
        PROVE  index'[stack'[k]] < index'[stack'[m]]
      BY <1>3, <1>5, <1>8, <2>2 DEF StackIsSorted
  <2>3. \A k \in DOMAIN stack' : onStack'[stack'[k]]
      BY <1>5, <1>8
  <2>. QED BY <2>1, <2>2, <2>3 DEF StackIsSorted
<1>15. FramesNest'
  <2>1. ASSUME NEW f \in 1 .. n - 1
        PROVE  /\ frames'[f].i = frames[f].i /\ f \in DOMAIN frames /\ frames[f].i \in Nodes
               /\ onStack'[frames[f].i]
    <3>1. f \in 1 .. n /\ f # n /\ index[frames[f].i] < index[t]
        BY <1>11
    <3>2. onStack[frames[f].i] /\ frames[f].i \in Nodes /\ f \in DOMAIN frames
        BY <1>1, <3>1 DEF FramesNest
    <3>. QED BY <1>2, <1>5, <3>1, <3>2
  <2>2. \A f \in DOMAIN frames' : onStack'[frames'[f].i]
      BY <1>2, <2>1
  <2>3. \A f, g \in DOMAIN frames' : f < g => index'[frames'[f].i] < index'[frames'[g].i]
      BY <1>1, <1>2, <1>3, <1>9, <2>1
  <2>4. ASSUME NEW f \in 1 .. n - 1, f # n - 1
        PROVE  frames'[f].j = frames'[f + 1].i /\ <<frames'[f].i, frames'[f].j>> \in Edges
    <3>1. f + 1 \in 1 .. n - 1 /\ f # n
        BY <1>1, <2>4
    <3>2. frames[f].j = frames[f + 1].i /\ <<frames[f].i, frames[f].j>> \in Edges
        BY <2>1, <3>1 DEF FramesNest, n
    <3>. QED BY <1>2, <2>4, <3>1, <3>2
  <2>5. ASSUME frames' # <<>>, NEW i \in Nodes, onStack'[i]
        PROVE  index[frames'[1].i] <= index[i]
    <3>1. n # 1 /\ 1 \in 1 .. n - 1
        BY <1>1, <1>2, <2>5
    <3>2. onStack[i]
        BY <1>5, <2>5
    <3>. QED BY <2>1, <3>1, <3>2 DEF FramesNest
  <2>6. ASSUME frames' = <<>> PROVE stack' = <<>>
    <3>1. n = 1
        BY <1>1, <1>2, <2>6
    <3>2. \A i \in Nodes : onStack[i] => index[t] <= index[i]
        BY <1>10, <3>1 DEF FramesNest
    <3>3. \A i \in Nodes : ~ onStack'[i]
      <4> SUFFICES ASSUME NEW i \in Nodes, onStack'[i] PROVE FALSE
          OBVIOUS
      <4>1. index[i] < index[t] /\ index[t] <= index[i]
          BY <1>5, <3>2
      <4>. QED BY <1>1, <1>4, <4>1
    <3>4. \A k \in 1 .. Len(stack') : FALSE
      <4> SUFFICES ASSUME NEW k \in 1 .. Len(stack') PROVE FALSE
          OBVIOUS
      <4>1. stack'[k] \in Nodes
          BY <1>5
      <4>. QED BY <1>5, <3>3, <4>1
    <3>5. Len(stack') = 0
      <4>1. Len(stack') # 0 => 1 \in 1 .. Len(stack')
          BY <1>5
      <4>. QED BY <3>4, <4>1
    <3>. QED BY <1>5, <3>5
  <2>. QED BY <1>2, <1>3, <2>2, <2>3, <2>4, <2>5, <2>6 DEF FramesNest
<1>16. LowLinks'
  <2> SUFFICES ASSUME NEW i \in Nodes, onStack'[i]
               PROVE  /\ minIndex[i] <= index[i]
                      /\ \E k \in Nodes : onStack'[k] /\ index[k] = minIndex[i] /\ Reaches(Edges, i, k)
      BY <1>3, <1>12 DEF LowLinks
  <2>1. onStack[i] /\ index[i] < index[t]
      BY <1>5
  <2>2. /\ minIndex[i] <= index[i]
        /\ \E k \in Nodes : onStack[k] /\ index[k] = minIndex[i] /\ Reaches(Edges, i, k)
      BY <2>1 DEF LowLinks
  <2>3. PICK k \in Nodes : onStack[k] /\ index[k] = minIndex[i] /\ Reaches(Edges, i, k)
      BY <2>2
  <2>4. index[k] < index[t]
      BY <1>1, <1>4, <2>1, <2>2, <2>3
  <2>. QED BY <1>5, <2>2, <2>3, <2>4
<1>17. LowOfOpen'
  <2> SUFFICES ASSUME NEW f \in 1 .. n - 1, NEW i \in Nodes,
                      onStack'[i], index[frames[f].i] <= index[i],
                      \A g \in 1 .. n - 1 : f < g => index[i] < index[frames[g].i]
               PROVE  minIndex[frames[f].i] <= minIndex[i]
      BY <1>12, <1>30, <1>31 DEF LowOfOpen
  <2>1. onStack[i] /\ index[i] < index[t]
      BY <1>5
  <2>2. ASSUME NEW g \in 1 .. n, f < g PROVE index[i] < index[frames[g].i]
    <3>1. CASE g = n
        BY <1>10, <2>1, <3>1
    <3>2. CASE g # n
      <4>1. g \in 1 .. n - 1
          BY <1>1, <3>2
      <4>. QED BY <2>2, <4>1
    <3>. QED BY <3>1, <3>2
  <2>3. f \in DOMAIN frames
      BY <1>1, <1>11
  <2>. QED BY <1>1, <2>1, <2>2, <2>3 DEF LowOfOpen
<1>18. PathsFromOpen' /\ StartReaches'
  <2>1. PathsFromOpen'
      BY <1>30, <1>31, <1>32 DEF PathsFromOpen
  <2>. QED BY <1>3, <2>1 DEF StartReaches
<1>19. PathsBack'
  <2> SUFFICES ASSUME ~ followsFailed, NEW i \in Nodes, onStack'[i]
               PROVE  \E f \in 1 .. n - 1 : index[frames[f].i] <= index[i] /\ Reaches(Edges, i, frames[f].i)
      BY <1>30, <1>31 DEF PathsBack
  <2>1. onStack[i] /\ index[i] < index[t]
      BY <1>5
  <2>2. PICK f \in 1 .. n : index[frames[f].i] <= index[i] /\ Reaches(Edges, i, frames[f].i)
      BY <1>1, <2>1 DEF PathsBack
  <2>3. f # n
      BY <1>1, <1>4, <1>10, <2>1, <2>2
  <2>4. f \in 1 .. n - 1
      BY <1>1, <2>3
  <2>. QED BY <2>2, <2>4
<1>20. EdgesSettled'
  <2> SUFFICES ASSUME ~ followsFailed, NEW i \in Nodes, NEW k \in Nodes, onStack'[i], <<i, k>> \in Edges,
                      \A f \in 1 .. n - 1 : frames'[f].i = i => frames'[f].j < k
               PROVE  index[k] >= 0 /\ (onStack'[k] => minIndex[i] <= index[k])
    <3>1. \A i \in Nodes : minIndex'[i] = minIndex[i]
        BY <1>12
    <3>2. DOMAIN frames' = 1 .. n - 1
        BY <1>30
    <3> HIDE DEF GraphInv
    <3>. QED BY <1>31, <3>1, <3>2 DEF EdgesSettled
  <2>1. onStack[i] /\ index[i] < index[t]
      BY <1>5
  <2>2. CASE i = c /\ k = t
    <3>1. ~ onStack'[t]
      <4>1. ~ (index[t] < index[t])
          BY <1>1, <1>4
      <4>. QED BY <1>1, <1>5, <4>1
    <3>. QED BY <1>1, <2>2, <3>1
  <2>3. CASE ~ (i = c /\ k = t)
    <3>1. ASSUME NEW f \in 1 .. n, frames[f].i = i PROVE frames[f].j < k
      <4>1. k >= 0 /\ k \in Int
          BY DEF Nodes
      <4>2. f # n
          BY <1>1, <1>4, <1>10, <2>1, <3>1
      <4>3. f \in 1 .. n - 1
          BY <1>1, <4>2
      <4>4. frames'[f].i = i /\ frames'[f].j < k
          BY <1>2, <3>1, <4>3
      <4>5. CASE f # n - 1
          BY <1>2, <4>3, <4>4, <4>5
      <4>6. CASE f = n - 1
        <5>1. i = c /\ k # t /\ frames[f].j - 1 < k
            BY <1>2, <2>3, <3>1, <4>3, <4>4, <4>6 DEF c
        <5>2. n > 1 /\ f # n /\ f + 1 = n
            BY <1>1, <4>3, <4>6
        <5>3. frames[f].j = frames[f + 1].i
            BY <1>1, <5>2 DEF FramesNest, n
        <5>4. frames[f].j = t
            BY <1>10, <5>2, <5>3
        <5>5. t \in Int
            BY <1>1 DEF Nodes
        <5>. QED BY <4>1, <5>1, <5>4, <5>5
      <4>. QED BY <4>5, <4>6
    <3>2. index[k] >= 0 /\ (onStack[k] => minIndex[i] <= index[k])
        BY <1>1, <2>1, <3>1 DEF EdgesSettled
    <3>. QED BY <1>5, <3>2
  <2>. QED BY <2>2, <2>3
<1>21. /\ \A k \in 1 .. l : order'[k] = order[k] /\ k \in 1 .. e
       /\ \A k \in 1 .. e : k \in 1 .. l \/ k \in l + 1 .. e - 1 \/ k = e
       /\ \A k \in l + 1 .. e - 1 : /\ order'[k] \in Nodes /\ onStack[order'[k]]
                                    /\ index[t] <= index[order'[k]] /\ k \in 1 .. e
       /\ order'[e] = -1 /\ e \in 1 .. e /\ -1 \notin Nodes
  <2>1. \A k \in 1 .. l : k \in 1 .. e
      BY <1>8
  <2>2. \A k \in 1 .. e : k \in 1 .. l \/ k \in l + 1 .. e - 1 \/ k = e
      BY <1>8
  <2>3. \A k \in l + 1 .. e - 1 : k \in 1 .. e
      BY <1>8
  <2>4. \A k \in l + 1 .. e - 1 : order'[k] \in Nodes /\ onStack[order'[k]] /\ index[t] <= index[order'[k]]
      BY <1>5 DEF StackFrom
  <2>5. -1 \notin Nodes /\ e \in 1 .. e
      BY <1>8 DEF Nodes
  <2>. QED BY <1>5, <2>1, <2>2, <2>3, <2>4, <2>5
<1>22. \A i \in Nodes : onStack[i] /\ index[t] <= index[i] => \E k \in l + 1 .. e - 1 : order'[k] = i
    BY <1>5 DEF StackFrom
<1>23. \A i \in Nodes : onStack[i] => (~ onStack'[i] <=> index[t] <= index[i])
  <2> SUFFICES ASSUME NEW i \in Nodes, onStack[i] PROVE ~ onStack'[i] <=> index[t] <= index[i]
      OBVIOUS
  <2>1. index[t] <= index[i] <=> ~ (index[i] < index[t])
      BY <1>1, <1>4
  <2>. QED BY <1>5, <2>1
<1>24. \A i \in Nodes : (index[i] >= 0 /\ ~ onStack[i]) <=> \E k \in 1 .. l : order[k] = i
    BY <1>8 DEF OrderListed
<1>25. OrderListed'
  <2>1. ASSUME NEW i \in Nodes PROVE (index[i] >= 0 /\ ~ onStack'[i]) <=> \E k \in 1 .. e : order'[k] = i
    <3>1. CASE onStack[i]
      <4>1. index[i] >= 0 /\ ~ \E k \in 1 .. l : order[k] = i
          BY <1>24, <3>1 DEF StackIsSorted
      <4>2. (\E k \in 1 .. e : order'[k] = i) <=> \E k \in l + 1 .. e - 1 : order'[k] = i
          BY <1>21, <4>1
      <4>3. (\E k \in l + 1 .. e - 1 : order'[k] = i) <=> index[t] <= index[i]
          BY <1>21, <1>22, <3>1
      <4>. QED BY <1>23, <3>1, <4>1, <4>2, <4>3
    <3>2. CASE ~ onStack[i]
      <4>1. ~ onStack'[i]
          BY <1>5, <3>2
      <4>2. (\E k \in 1 .. e : order'[k] = i) <=> \E k \in 1 .. l : order[k] = i
          BY <1>21, <3>2
      <4>. QED BY <1>24, <3>2, <4>1, <4>2
    <3>. QED BY <3>1, <3>2
  <2>2. ASSUME NEW k \in 1 .. e, NEW m \in 1 .. e, order'[k] = order'[m], order'[k] # -1 PROVE k = m
    <3>1. k # e /\ m # e
        BY <1>21, <2>2
    <3>2. CASE k \in 1 .. l /\ m \in 1 .. l
      <4>1. order'[k] = order[k] /\ order'[m] = order[m] /\ k \in DOMAIN order /\ m \in DOMAIN order
          BY <1>8, <1>21, <3>2
      <4>2. order[k] = order[m] /\ order[k] # -1
          BY <2>2, <4>1
      <4>. QED BY <4>1, <4>2 DEF OrderListed
    <3>3. CASE k \in l + 1 .. e - 1 /\ m \in l + 1 .. e - 1
      <4>1. \A x, y \in l + 1 .. e - 1 : order'[x] = order'[y] => x = y
          BY <1>5
      <4>. QED BY <2>2, <3>3, <4>1
    <3>4. ASSUME NEW x \in 1 .. l, NEW y \in l + 1 .. e - 1 PROVE order'[x] # order'[y]
      <4>1. order'[y] \in Nodes /\ onStack[order'[y]]
          BY <1>21
      <4>2. order'[x] = order[x]
          BY <1>21
      <4>3. order'[y] # order[x]
          BY <1>24, <4>1
      <4>. QED BY <4>2, <4>3
    <3>. QED BY <1>21, <2>2, <3>1, <3>2, <3>3, <3>4
  <2>3. ASSUME NEW k \in 1 .. e, order'[k] = -1 PROVE k > 1 /\ order'[k - 1] # -1
    <3>1. CASE k \in 1 .. l
      <4>1. k > 1 /\ order[k - 1] # -1
          BY <1>8, <1>21, <2>3, <3>1 DEF OrderListed
      <4>2. k - 1 \in 1 .. l
          BY <1>8, <3>1, <4>1
      <4>. QED BY <1>21, <4>1, <4>2
    <3>2. CASE k \in l + 1 .. e - 1
        BY <1>21, <2>3, <3>2
    <3>3. CASE k = e
      <4>1. e > 1 /\ e - 1 \in l + 1 .. e - 1
          BY <1>8
      <4>. QED BY <1>21, <3>3, <4>1
    <3>. QED BY <1>21, <3>1, <3>2, <3>3
  <2>4. e <= 2 * (count' - Len(stack'))
    <3> DEFINE u == Len(stack)
               v == Len(stack')
    <3>1. u \in Nat /\ v \in Nat /\ v < u /\ e = l + (u - v) + 1 /\ l \in Nat
        BY <1>5, <1>8
    <3>2. l <= 2 * (count - u) /\ count' = count
        BY <1>3 DEF OrderListed, l
    <3>3. count \in Int
      <4>1. IsFiniteSet(Nodes)
          BY NodesAreFinite
      <4>2. IsFiniteSet(Visited)
          BY <4>1, FS_Subset DEF Visited
      <4>3. Cardinality(Visited) \in Nat
          BY <4>2, FS_CardinalityType
      <4>. QED BY <4>3 DEF Numbered
    <3> HIDE DEF u, v
    <3>4. e <= 2 * (count - v)
        BY <3>1, <3>2, <3>3
    <3>. QED BY <3>2, <3>4 DEF v
  <2>5. order'[e] = -1
      BY <1>21
  <2>6. DOMAIN order' = 1 .. e /\ e = Len(order')
      BY <1>8 DEF e
  <2> HIDE DEF GraphInv
  <2>. QED BY <1>31, <2>1, <2>2, <2>3, <2>4, <2>5, <2>6 DEF OrderListed
<1>26. OrderIsClosed'
  <2> SUFFICES ASSUME ~ followsFailed, NEW k \in 1 .. e, NEW m \in 1 .. e, NEW i \in Nodes,
                      order'[m] = -1, k < m, <<order'[k], i>> \in Edges
               PROVE  \E a \in 1 .. m - 1 : order'[a] = i
    <3>1. DOMAIN order' = 1 .. e
        BY <1>8
    <3> HIDE DEF GraphInv
    <3>. QED BY <1>31, <3>1 DEF OrderIsClosed
  <2>1. order'[k] \in Nodes /\ order'[k] # -1
      BY <1>21 DEF Edges
  <2>2. ASSUME NEW a \in 1 .. l, k \in 1 .. l, order[a] = -1, k < a PROVE \E b \in 1 .. a - 1 : order'[b] = i
    <3>1. <<order[k], i>> \in Edges
        BY <1>21, <2>2
    <3>2. \E b \in 1 .. a - 1 : order[b] = i
        BY <1>8, <2>2, <3>1 DEF OrderIsClosed
    <3>3. \A b \in 1 .. a - 1 : b \in 1 .. l
        BY <1>8
    <3>. QED BY <1>21, <3>2, <3>3
  <2>3. CASE m \in 1 .. l
    <3>1. k \in 1 .. l
        BY <1>8, <2>3
    <3>. QED BY <1>21, <2>2, <2>3, <3>1
  <2>4. CASE m = e /\ k \in 1 .. l
    <3>1. l \in 1 .. l /\ l <= e - 1
        BY <1>8, <2>4
    <3>2. order # <<>>
        BY <1>8, <3>1 DEF l
    <3>3. order[l] = -1
        BY <3>2 DEF OrderListed, l
    <3>4. k < l
      <4>1. k # l
          BY <1>21, <2>1, <2>4, <3>3
      <4>. QED BY <1>8, <2>4, <4>1
    <3>5. \E b \in 1 .. l - 1 : order'[b] = i
        BY <2>2, <2>4, <3>1, <3>3, <3>4
    <3>6. \A b \in 1 .. l - 1 : b \in 1 .. m - 1
        BY <1>8, <2>4
    <3>. QED BY <3>5, <3>6
  <2>5. CASE m = e /\ k \in l + 1 .. e - 1
    <3> DEFINE v == order'[k]
    <3>1. v \in Nodes /\ onStack[v] /\ index[t] <= index[v] /\ <<v, i>> \in Edges
        BY <1>21, <2>5
    <3> HIDE DEF v
    <3>2. ASSUME NEW f \in DOMAIN frames, frames[f].i = v PROVE frames[f].j < i
      <4>1. f = n
        <5>1. CASE f \in 1 .. n - 1
          <6>1. index[frames[f].i] < index[t]
              BY <1>11, <5>1
          <6>. QED BY <1>1, <1>4, <3>1, <3>2, <6>1
        <5>. QED BY <1>1, <5>1
      <4>2. frames[f].j < 0 /\ frames[f].j \in Int
          BY <1>1, <4>1
      <4>. QED BY <4>2 DEF Nodes
    <3>3. index[i] >= 0 /\ (onStack[i] => minIndex[v] <= index[i])
        BY <3>1, <3>2 DEF EdgesSettled
    <3>4. minIndex[t] <= minIndex[v]
      <4>1. n \in DOMAIN frames /\ \A g \in DOMAIN frames : ~ (n < g)
          BY <1>1
      <4>. QED BY <1>10, <3>1, <4>1 DEF LowOfOpen
    <3>5. CASE ~ onStack[i]
      <4>1. PICK a \in 1 .. l : order[a] = i
          BY <1>24, <3>3, <3>5
      <4>2. a \in 1 .. m - 1
          BY <1>8, <2>5
      <4>. QED BY <1>21, <4>1, <4>2
    <3>6. CASE onStack[i]
      <4>1. index[t] <= index[i]
          BY <1>1, <1>4, <1>6, <3>1, <3>3, <3>4, <3>6
      <4>2. PICK a \in l + 1 .. e - 1 : order'[a] = i
          BY <1>22, <3>6, <4>1
      <4>3. a \in 1 .. m - 1
          BY <1>8, <2>5
      <4>. QED BY <4>2, <4>3
    <3>. QED BY <3>5, <3>6
  <2>6. m \notin l + 1 .. e - 1 /\ k # e
      BY <1>8, <1>21
  <2>. QED BY <1>21, <2>3, <2>4, <2>5, <2>6
<1>27. ASSUME ~ followsFailed, NEW a \in Nodes, onStack[a], index[t] <= index[a]
       PROVE  Reaches(Edges, t, a) /\ Reaches(Edges, a, t)
  <2>1. Reaches(Edges, t, a)
      BY <1>1, <1>10, <1>27 DEF PathsFromOpen
  <2>2. PICK f \in 1 .. n : Reaches(Edges, a, frames[f].i)
      BY <1>1, <1>27 DEF PathsBack
  <2>3. Reaches(Edges, frames[f].i, t)
      BY <1>1, <2>2 DEF PathsFromOpen
  <2>. QED BY <2>1, <2>2, <2>3, PathsCompose
<1>28. OrderIsConnected'
  <2> SUFFICES ASSUME ~ followsFailed, NEW k \in 1 .. e, NEW m \in 1 .. e,
                      k <= m, \A a \in k .. m : order'[a] # -1
               PROVE  Reaches(Edges, order'[k], order'[m]) /\ Reaches(Edges, order'[m], order'[k])
    <3>1. DOMAIN order' = 1 .. e
        BY <1>8
    <3> HIDE DEF GraphInv
    <3>. QED BY <1>31, <3>1 DEF OrderIsConnected
  <2>1. k \in k .. m /\ m \in k .. m
      BY <1>8
  <2>2. k # e /\ m # e
      BY <1>21, <2>1
  <2>3. CASE m \in 1 .. l
    <3>1. k \in 1 .. l /\ \A a \in k .. m : a \in 1 .. l
        BY <1>8, <2>3
    <3>2. \A a \in k .. m : order[a] # -1
        BY <1>21, <3>1
    <3>3. Reaches(Edges, order[k], order[m]) /\ Reaches(Edges, order[m], order[k])
        BY <1>8, <2>3, <3>1, <3>2 DEF OrderIsConnected
    <3>. QED BY <1>21, <2>3, <3>1, <3>3
  <2>4. CASE m \in l + 1 .. e - 1
    <3>1. k \in l + 1 .. e - 1
      <4>1. ASSUME k \in 1 .. l PROVE FALSE
        <5>1. l \in 1 .. l /\ l \in k .. m
            BY <1>8, <2>4, <4>1
        <5>2. order # <<>>
            BY <1>8, <5>1 DEF l
        <5>3. order[l] = -1
            BY <5>2 DEF OrderListed, l
        <5>. QED BY <1>21, <5>1, <5>3
      <4>. QED BY <1>21, <2>2, <4>1
    <3>2. /\ Reaches(Edges, t, order'[k]) /\ Reaches(Edges, order'[k], t)
          /\ Reaches(Edges, t, order'[m]) /\ Reaches(Edges, order'[m], t)
        BY <1>21, <1>27, <2>4, <3>1
    <3>. QED BY <3>2, PathsCompose
  <2>. QED BY <1>21, <2>2, <2>3, <2>4
<1>. QED BY <1>13, <1>14, <1>15, <1>16, <1>17, <1>18, <1>19, <1>20, <1>25, <1>26, <1>28

-----------------------------------------------------------------------------
(* The search as a whole.                                                      *)

LEMMA GraphInitHasInv == GraphInit => GraphInv
<1> SUFFICES ASSUME GraphInit PROVE GraphInv
    OBVIOUS
<1>1. N \in Nat /\ Questions \subseteq (0 .. N) \X [Nodes \X Nodes -> {"yes", "no", "error"}]
    BY QuestionsAssumption
<1>2. /\ index = [i \in Nodes |-> -1] /\ minIndex = [i \in Nodes |-> 0] /\ onStack = [i \in Nodes |-> FALSE]
      /\ stack = <<>> /\ order = <<>> /\ count = 0 /\ frames = <<>> /\ result = "none" /\ followsFailed = FALSE
    BY DEF GraphInit
<1>3. start \in 0 .. N /\ answers \in [Nodes \X Nodes -> {"yes", "no", "error"}]
  <2>1. PICK q \in Questions : start = q[1] /\ answers = q[2]
      BY DEF GraphInit
  <2>. QED BY <1>1, <2>1
<1>4. ASSUME NEW i \in Nodes PROVE index[i] = -1 /\ ~ onStack[i] /\ ~ (index[i] >= 0) /\ 0 \in 0 .. N - 1
    BY <1>1, <1>2 DEF Nodes
<1>5. Typed
  <2>1. index \in [Nodes -> -1 .. N - 1] /\ minIndex \in [Nodes -> 0 .. N - 1] /\ onStack \in [Nodes -> BOOLEAN]
    <3>1. \A i \in Nodes : -1 \in -1 .. N - 1 /\ 0 \in 0 .. N - 1
        BY <1>1, <1>4
    <3>. QED BY <1>2, <3>1
  <2>2. \A S : <<>> \in Seq(S)
      OBVIOUS
  <2>3. stack \in Seq(Nodes) /\ order \in Seq(Nodes \cup {-1}) /\ frames \in Seq(Frame)
      BY <1>2, <2>2
  <2>. QED BY <1>2, <1>3, <2>1, <2>3 DEF Typed
<1>6. Numbered
  <2>1. Visited = {}
      BY <1>4 DEF Visited
  <2>2. Cardinality(Visited) = 0
      BY <2>1, FS_EmptySet
  <2>. QED BY <1>2, <1>4, <2>2 DEF Numbered
<1>7. DOMAIN stack = {} /\ DOMAIN order = {} /\ DOMAIN frames = {} /\ Len(stack) = 0 /\ Len(order) = 0
    BY <1>2
<1>8. StackIsSorted /\ LowLinks /\ PathsBack /\ EdgesSettled
    BY <1>4, <1>7 DEF StackIsSorted, LowLinks, PathsBack, EdgesSettled
<1>9. FramesNest /\ LowOfOpen /\ PathsFromOpen /\ OrderIsClosed /\ OrderIsConnected
    BY <1>2, <1>7 DEF FramesNest, LowOfOpen, PathsFromOpen, OrderIsClosed, OrderIsConnected
<1>10. OrderListed
    BY <1>2, <1>4, <1>7 DEF OrderListed
<1>11. StartReaches
    BY <1>2, <1>4 DEF StartReaches
<1>. QED BY <1>5, <1>6, <1>8, <1>9, <1>10, <1>11 DEF GraphInv

LEMMA StartCallKeepsInv == GraphInv /\ StartCall => GraphInv'
<1> SUFFICES ASSUME GraphInv, StartCall PROVE GraphInv'
    OBVIOUS
<1> USE DEF GraphInv
<1> DEFINE unvisited == {i \in IF start = All THEN Nodes ELSE {start} : index[i] < 0}
<1>1. /\ frames = <<>> /\ result = "none" /\ start \in 0 .. N /\ N \in Nat
      /\ \A i \in Nodes : index[i] \in Int
    BY QuestionsAssumption DEF StartCall, Typed
<1>2. unvisited \subseteq Nodes /\ \A i \in Nodes : start = All \/ i = start => (i \in unvisited <=> index[i] < 0)
    BY <1>1 DEF All, Nodes
<1>3. CASE unvisited = {}
  <2>1. /\ result' = "graph"
        /\ UNCHANGED <<start, answers, index, minIndex, onStack, stack, order, count, frames, followsFailed>>
      BY <1>3 DEF StartCall, node
  <2>2. Edges' = Edges
      BY <2>1, SameEdges
  <2>3. Typed'
      BY <2>1 DEF Typed
  <2>4. Numbered' /\ StackIsSorted' /\ LowLinks' /\ LowOfOpen' /\ OrderListed'
      BY <2>1, <2>2 DEF Numbered, Visited, StackIsSorted, LowLinks, LowOfOpen, OrderListed
  <2>5. PathsFromOpen' /\ PathsBack' /\ EdgesSettled' /\ OrderIsClosed' /\ OrderIsConnected'
      BY <2>1, <2>2 DEF PathsFromOpen, PathsBack, EdgesSettled, OrderIsClosed, OrderIsConnected
  <2>6. FramesNest'
      BY <1>1, <2>1, <2>2 DEF FramesNest
  <2>7. StartReaches'
    <3>1. ASSUME NEW i \in Nodes, start = All \/ i = start PROVE index[i] >= 0
        BY <1>1, <1>2, <1>3, <3>1
    <3>. QED BY <2>1, <2>2, <3>1 DEF StartReaches
  <2>. QED BY <2>3, <2>4, <2>5, <2>6, <2>7
<1>4. CASE unvisited # {}
  <2> DEFINE k == CHOOSE i \in unvisited : \A m \in unvisited : m <= i
  <2>1. \E i \in unvisited : \A m \in unvisited : m <= i
    <3>1. unvisited \subseteq 0 .. N
        BY <1>1, <1>2 DEF Nodes
    <3> HIDE DEF unvisited
    <3>. QED BY <1>1, <1>4, <3>1, GreatestElement
  <2>2. k \in unvisited
      BY <2>1
  <2>3. Enter(k, <<>>)
      BY <1>4 DEF StartCall
  <2>4. k \in Nodes /\ index[k] < 0 /\ (start = All \/ start = k)
      BY <1>2, <2>2
  <2>5. Enter(k, frames)
      BY <1>1, <2>3
  <2> HIDE DEF k, GraphInv
  <2>. QED BY <1>1, <2>4, <2>5, EnterKeepsInv
<1>. QED BY <1>3, <1>4

LEMMA LoopStepKeepsInv == GraphInv /\ (SkipNode \/ SkipEdge \/ CloseCycle) => GraphInv'
<1> SUFFICES ASSUME GraphInv, SkipNode \/ SkipEdge \/ CloseCycle PROVE GraphInv'
    OBVIOUS
<1> USE DEF GraphInv
<1> DEFINE i == Top.i
           j == Top.j
<1>1. /\ InLoop /\ frames # <<>> /\ i \in Nodes /\ onStack[i] /\ index[i] >= 0 /\ j \in Nodes
  <2>1. InLoop /\ frames # <<>> /\ j >= 0
      BY DEF SkipNode, SkipEdge, CloseCycle, IsAsked, InLoop
  <2>2. i \in Nodes /\ onStack[i] /\ index[i] >= 0 /\ j \in -1 .. N - 1
      BY <2>1, OpenCall
  <2>. QED BY <2>1, <2>2 DEF Nodes
<1>2. /\ minIndex \in [Nodes -> 0 .. N - 1] /\ \A k \in Nodes : minIndex[k] \in Int /\ index[k] \in Int
      /\ index \in [Nodes -> -1 .. N - 1] /\ N \in Nat
    BY QuestionsAssumption DEF Typed
<1>3. <<i, j>> \in Edges <=> answers[<<i, j>>] = "yes"
    BY <1>1, EdgesAreYes
<1>4. /\ frames' = NextJ(frames)
      /\ UNCHANGED <<start, answers, index, onStack, stack, order, count, result, followsFailed>>
    BY DEF SkipNode, SkipEdge, CloseCycle, node
<1> HIDE DEF i, j
<1>5. LoopGoesOn
  <2>1. CASE SkipNode
    <3>1. IsSettled(i, j) /\ minIndex' = minIndex
        BY <2>1 DEF SkipNode, node, i, j
    <3>2. index[j] >= 0 /\ (onStack[j] => minIndex[i] <= index[j])
      <4>1. minIndex[i] <= index[i]
          BY <1>1 DEF LowLinks
      <4>. QED BY <1>1, <1>2, <3>1, <4>1 DEF IsSettled
    <3>3. minIndex[i] <= minIndex[i]
        BY <1>1, <1>2
    <3>. QED BY <1>1, <1>2, <1>4, <3>1, <3>2, <3>3 DEF LoopGoesOn, i, j
  <2>2. CASE SkipEdge
    <3>1. answers[<<i, j>>] = "no" /\ minIndex' = minIndex
        BY <2>2 DEF SkipEdge, IsAsked, node, i, j
    <3>2. <<i, j>> \notin Edges
        BY <1>3, <3>1
    <3>3. minIndex[i] <= minIndex[i]
        BY <1>1, <1>2
    <3>. QED BY <1>1, <1>2, <1>4, <3>1, <3>2, <3>3 DEF LoopGoesOn, i, j
  <2>3. CASE CloseCycle
    <3>1. /\ ~ IsSettled(i, j) /\ <<i, j>> \in Edges /\ index[j] >= 0
          /\ minIndex' = IF index[j] < minIndex[i] THEN [minIndex EXCEPT ![i] = index[j]] ELSE minIndex
        BY <1>3, <2>3 DEF CloseCycle, IsAsked, Lowered, i, j
    <3>2. onStack[j] /\ index[j] <= minIndex[i] /\ index[j] \in 0 .. N - 1
      <4>1. onStack[j] /\ ~ (index[j] > minIndex[i])
          BY <3>1 DEF IsSettled
      <4>. QED BY <1>1, <1>2, <3>1, <4>1
    <3>3. /\ minIndex' \in [Nodes -> 0 .. N - 1] /\ minIndex'[i] = index[j]
          /\ \A k \in Nodes : k # i => minIndex'[k] = minIndex[k]
      <4>1. CASE index[j] < minIndex[i]
        <5>1. minIndex' = [minIndex EXCEPT ![i] = index[j]]
            BY <3>1, <4>1
        <5>. QED BY <1>1, <1>2, <3>2, <5>1
      <4>2. CASE ~ (index[j] < minIndex[i])
        <5>1. minIndex' = minIndex
            BY <3>1, <4>2
        <5>2. minIndex[i] = index[j]
            BY <1>1, <1>2, <3>2, <4>2
        <5>. QED BY <1>2, <5>1, <5>2
      <4>. QED BY <4>1, <4>2
    <3>4. minIndex'[i] <= minIndex[i] /\ minIndex'[i] <= index[j]
        BY <1>1, <1>2, <3>2, <3>3
    <3>. QED BY <1>1, <1>4, <3>1, <3>2, <3>3, <3>4 DEF LoopGoesOn, i, j
  <2>. QED BY <2>1, <2>2, <2>3
<1> HIDE DEF GraphInv
<1>. QED BY <1>5, LoopKeepsInv

LEMMA CallNestedKeepsInv == GraphInv /\ CallNested => GraphInv'
<1> SUFFICES ASSUME GraphInv, CallNested PROVE GraphInv'
    OBVIOUS
<1> USE DEF GraphInv
<1>1. /\ frames # <<>> /\ Top.j >= 0 /\ answers[<<Top.i, Top.j>>] = "yes"
      /\ index[Top.j] < 0 /\ Enter(Top.j, frames)
    BY DEF CallNested, IsAsked, InLoop
<1>2. Top.i \in Nodes /\ Top.j \in -1 .. N - 1 /\ result = "none"
    BY <1>1, OpenCall
<1>3. Top.j \in Nodes
    BY <1>1, <1>2 DEF Nodes
<1>4. <<Top.i, Top.j>> \in Edges
    BY <1>1, <1>2, <1>3, EdgesAreYes
<1> HIDE DEF GraphInv
<1>5. \E k \in Nodes : k = Top.j
    BY <1>3
<1>. QED BY <1>1, <1>2, <1>3, <1>4, EnterKeepsInv

LEMMA ReturnStepKeepsInv == GraphInv /\ (FailInside \/ FinishCall) => GraphInv'
<1> SUFFICES ASSUME GraphInv, FailInside \/ FinishCall PROVE GraphInv'
    OBVIOUS
<1>1. CASE FailInside
  <2>1. /\ frames # <<>> /\ followsFailed' = TRUE /\ ReturnTo(Front(frames), FALSE)
        /\ UNCHANGED <<start, answers, index, onStack, stack, order, count>>
      BY <1>1 DEF FailInside, IsAsked, InLoop
  <2>2. FALSE \in BOOLEAN
      OBVIOUS
  <2>. QED BY <2>1, <2>2, ReturnKeepsInv
<1>2. CASE FinishCall
  <2>1. /\ frames # <<>> /\ Top.j < 0 /\ ReturnTo(Front(frames), TRUE)
        /\ UNCHANGED <<start, answers, index, count, followsFailed>>
      BY <1>2 DEF FinishCall
  <2>2. CASE index[Top.i] # minIndex[Top.i]
    <3>1. UNCHANGED <<stack, onStack, order>>
        BY <1>2, <2>2 DEF FinishCall
    <3>. QED BY <2>1, <2>2, <3>1, ReturnKeepsInv
  <2>3. CASE index[Top.i] = minIndex[Top.i]
    <3>1. /\ stack' = SubSeq(stack, 1, RootOfStack(Top.i) - 1)
          /\ onStack' = [i \in Nodes |-> onStack[i] /\ ~ Contains(SubSeq(stack, RootOfStack(Top.i), Len(stack)), i)]
          /\ order' = order \o Reverse(SubSeq(stack, RootOfStack(Top.i), Len(stack))) \o <<-1>>
        BY <1>2, <2>3 DEF FinishCall
    <3>2. Typed /\ FramesNest /\ StackIsSorted
        BY DEF GraphInv
    <3>3. Top.i \in Nodes /\ onStack[Top.i]
        BY <2>1, <3>2, OpenCall
    <3>4. ComponentLeft(Top.i)
        BY <3>1, <3>2, <3>3, ComponentLeaves
    <3>. QED BY <2>1, <2>3, <3>4, ComponentKeepsInv
  <2>. QED BY <2>2, <2>3
<1>. QED BY <1>1, <1>2

\* The invariant depends on the variables of the search alone.
LEMMA GraphStutter == GraphInv /\ UNCHANGED graphVars => GraphInv'
<1> SUFFICES ASSUME GraphInv, UNCHANGED graphVars PROVE GraphInv'
    OBVIOUS
<1> USE DEF GraphInv
<1>1. /\ UNCHANGED <<start, answers, index, minIndex, onStack, stack, order, count, frames, result, followsFailed>>
      /\ Edges' = Edges
    BY SameEdges DEF graphVars, node
<1>2. Typed'
    BY <1>1 DEF Typed
<1>3. Numbered' /\ StackIsSorted' /\ FramesNest' /\ LowLinks' /\ LowOfOpen' /\ OrderListed'
    BY <1>1 DEF Numbered, Visited, StackIsSorted, FramesNest, LowLinks, LowOfOpen, OrderListed
<1>4. PathsFromOpen' /\ StartReaches' /\ PathsBack' /\ EdgesSettled' /\ OrderIsClosed' /\ OrderIsConnected'
    BY <1>1 DEF PathsFromOpen, StartReaches, PathsBack, EdgesSettled, OrderIsClosed, OrderIsConnected
<1>. QED BY <1>2, <1>3, <1>4

LEMMA GraphNextKeepsInv == GraphInv /\ [GraphNext]_graphVars => GraphInv'
<1> SUFFICES ASSUME GraphInv, [GraphNext]_graphVars PROVE GraphInv'
    OBVIOUS
<1>1. CASE StartCall
    BY <1>1, StartCallKeepsInv
<1>2. CASE SkipNode \/ SkipEdge \/ CloseCycle
    BY <1>2, LoopStepKeepsInv
<1>3. CASE CallNested
    BY <1>3, CallNestedKeepsInv
<1>4. CASE FailInside \/ FinishCall
    BY <1>4, ReturnStepKeepsInv
<1>5. CASE Finished \/ UNCHANGED graphVars
    BY <1>5, GraphStutter DEF Finished
<1>. QED BY <1>1, <1>2, <1>3, <1>4, <1>5 DEF GraphNext

-----------------------------------------------------------------------------
(* What the invariant says about a search that has ended.                      *)

\* Where components end in the order.
LEMMA Ends ==
    ASSUME Typed, OrderListed, NEW k \in DOMAIN order
    PROVE  /\ EndOf(k) \in DOMAIN order /\ EndOf(k) \in k .. Len(order) /\ order[EndOf(k)] = -1
           /\ \A n \in k .. EndOf(k) - 1 : order[n] # -1
           /\ \A m \in DOMAIN order : k <= m /\ order[m] = -1 => EndOf(k) <= m
<1> DEFINE l == Len(order)
           T == {m \in k .. l : order[m] = -1}
<1>1. l \in Nat /\ DOMAIN order = 1 .. l
    BY DEF Typed
<1> HIDE DEF l
<1>2. T \subseteq Nat /\ T # {}
  <2>1. k .. l \subseteq Nat /\ l \in k .. l
      BY <1>1
  <2>2. order # <<>>
      BY <1>1 DEF l
  <2>3. order[l] = -1
      BY <2>2 DEF OrderListed, l
  <2>. QED BY <2>1, <2>3
<1>3. PICK e \in T : \A m \in T : e <= m
  <2> HIDE DEF T
  <2>. QED BY <1>2, LeastElement
<1>4. ASSUME NEW n \in k .. e - 1 PROVE order[n] # -1
  <2>1. n \in k .. l /\ ~ (e <= n)
      BY <1>1, <1>3
  <2>. QED BY <1>3, <2>1
<1>5. EndOf(k) \in k .. l /\ order[EndOf(k)] = -1 /\ \A n \in k .. EndOf(k) - 1 : order[n] # -1
  <2>1. \E m \in k .. l : order[m] = -1 /\ \A n \in k .. m - 1 : order[n] # -1
      BY <1>3, <1>4
  <2>. QED BY <2>1 DEF EndOf, l
<1>6. ASSUME NEW m \in DOMAIN order, k <= m, order[m] = -1 PROVE EndOf(k) <= m
  <2>1. m \in k .. EndOf(k) - 1 \/ EndOf(k) <= m
      BY <1>1, <1>5, <1>6
  <2>. QED BY <1>5, <1>6, <2>1
<1>7. EndOf(k) \in DOMAIN order
    BY <1>1, <1>5
<1>. QED BY <1>5, <1>6, <1>7 DEF l

\* The place of a listed node, and the end of its component.
LEMMA Placed ==
    ASSUME Typed, OrderListed, NEW i \in Listed
    PROVE  \E k \in DOMAIN order : order[k] = i /\ Component(i) = EndOf(k)
<1>1. \E k \in DOMAIN order : order[k] = i
    BY DEF Listed, Contains, Typed
<1>. QED BY <1>1 DEF Component

\* What a listed node reaches is listed, no later than its component ends.
LEMMA ReachedBefore ==
    ASSUME Typed, OrderListed, OrderIsClosed, ~ followsFailed,
           NEW e \in DOMAIN order, order[e] = -1,
           NEW k \in 1 .. e, order[k] \in Nodes, NEW j, Reaches(Edges, order[k], j)
    PROVE  \E m \in 1 .. e - 1 : order[m] = j
<1> DEFINE S == {v \in Nodes : \E m \in 1 .. e - 1 : order[m] = v}
<1>1. Len(order) \in Nat /\ DOMAIN order = 1 .. Len(order) /\ -1 \notin Nodes
    BY DEF Typed, Nodes
<1>2. k # e
    BY <1>1
<1>3. k \in 1 .. e - 1
    BY <1>1, <1>2
<1>4. order[k] \in S
    BY <1>3
<1>5. ASSUME NEW edge \in Edges, edge[1] \in S PROVE edge[2] \in S
  <2>1. edge[2] \in Nodes /\ edge = <<edge[1], edge[2]>>
      BY DEF Edges
  <2>2. PICK m \in 1 .. e - 1 : order[m] = edge[1]
      BY <1>5
  <2>3. m \in DOMAIN order /\ m < e
      BY <1>1
  <2>4. <<order[m], edge[2]>> \in Edges
      BY <2>1, <2>2
  <2>5. \E n \in 1 .. e - 1 : order[n] = edge[2]
      BY <2>1, <2>3, <2>4 DEF OrderIsClosed
  <2>. QED BY <2>1, <2>5
<1>6. S \in SUBSET Nodes
    OBVIOUS
<1>7. j \in S
  <2> HIDE DEF S
  <2>. QED BY <1>4, <1>5, <1>6 DEF Reaches
<1>. QED BY <1>7

\* All that was visited is listed once the search has ended.
LEMMA EndedSearch ==
    ASSUME GraphInv, result = "graph"
    PROVE  /\ \A i \in Nodes : ~ onStack[i] /\ (i \in Listed <=> index[i] >= 0)
           /\ frames = <<>> /\ stack = <<>>
<1> USE DEF GraphInv
<1>1. frames = <<>> /\ stack = <<>>
    BY DEF FramesNest
<1>2. \A i \in Nodes : ~ onStack[i]
    BY <1>1 DEF StackIsSorted
<1>3. DOMAIN order = 1 .. Len(order)
    BY DEF Typed
<1>. QED BY <1>1, <1>2, <1>3 DEF Listed, Contains, OrderListed

LEMMA EndedSearchIsDecomposition ==
    ASSUME GraphInv, result = "graph", ~ followsFailed
    PROVE  IsDecomposition(Edges)
<1> USE DEF GraphInv
<1>1. \A i \in Nodes : i \in Listed <=> index[i] >= 0
    BY EndedSearch
<1>2. /\ Len(order) \in Nat /\ DOMAIN order = 1 .. Len(order) /\ N \in Nat
      /\ start \in 0 .. N /\ Listed \subseteq Nodes /\ -1 \notin Nodes
    BY QuestionsAssumption DEF Typed, Listed, Nodes
<1>3. ASSUME NEW i \in Listed, NEW j \in Nodes, Reaches(Edges, i, j)
      PROVE  j \in Listed /\ Component(j) <= Component(i)
  <2>1. PICK k \in DOMAIN order : order[k] = i /\ Component(i) = EndOf(k)
      BY Placed
  <2> DEFINE e == EndOf(k)
  <2>2. e \in DOMAIN order /\ e \in k .. Len(order) /\ order[e] = -1
      BY Ends
  <2> HIDE DEF e
  <2>3. k \in 1 .. e
      BY <1>2, <2>2
  <2>4. order[k] \in Nodes /\ Reaches(Edges, order[k], j)
      BY <1>2, <1>3, <2>1
  <2>5. PICK m \in 1 .. e - 1 : order[m] = j
      BY <2>2, <2>3, <2>4, <1>3, ReachedBefore
  <2>6. m \in DOMAIN order /\ m <= e /\ m \in 1 .. Len(order)
      BY <1>2, <2>2
  <2>7. j \in Listed
      BY <2>5, <2>6 DEF Listed, Contains
  <2>8. EndOf(m) <= e
      BY <2>2, <2>6, Ends
  <2>9. PICK p \in DOMAIN order : order[p] = j /\ Component(j) = EndOf(p)
      BY <2>7, Placed
  <2>10. p = m
      BY <1>2, <2>5, <2>6, <2>9 DEF OrderListed
  <2>. QED BY <2>1, <2>7, <2>8, <2>9, <2>10 DEF e
<1>4. Listed = {i \in Nodes : start = All \/ Reaches(Edges, start, i)}
  <2>1. ASSUME NEW i \in Nodes PROVE i \in Listed <=> start = All \/ Reaches(Edges, start, i)
    <3>1. CASE start = All
        BY <1>1, <3>1 DEF StartReaches
    <3>2. CASE start # All
      <4>1. start \in Nodes
          BY <1>2, <3>2 DEF All, Nodes
      <4>2. start \in Listed
          BY <1>1, <4>1 DEF StartReaches
      <4>3. i \in Listed => Reaches(Edges, start, i)
          BY <1>1, <3>2 DEF StartReaches
      <4>. QED BY <1>3, <3>2, <4>2, <4>3
    <3>. QED BY <3>1, <3>2
  <2>. QED BY <1>2, <2>1
<1>5. ASSUME NEW i \in Listed, NEW j \in Listed, Component(i) = Component(j)
      PROVE  Reaches(Edges, i, j) /\ Reaches(Edges, j, i)
  <2>1. PICK k \in DOMAIN order : order[k] = i /\ Component(i) = EndOf(k)
      BY Placed
  <2>2. PICK m \in DOMAIN order : order[m] = j /\ Component(j) = EndOf(m)
      BY Placed
  <2> DEFINE e == EndOf(k)
  <2>3. /\ e \in k .. Len(order) /\ order[e] = -1 /\ \A n \in k .. e - 1 : order[n] # -1
      BY Ends
  <2>4. /\ e \in m .. Len(order) /\ \A n \in m .. e - 1 : order[n] # -1
    <3>1. EndOf(m) \in m .. Len(order) /\ \A n \in m .. EndOf(m) - 1 : order[n] # -1
        BY Ends
    <3>2. e = EndOf(m)
        BY <1>5, <2>1, <2>2
    <3> HIDE DEF e
    <3>. QED BY <3>1, <3>2
  <2> HIDE DEF e
  <2>5. k # e /\ m # e
      BY <1>2, <2>1, <2>2, <2>3
  <2>6. k <= m => \A n \in k .. m : n \in k .. e - 1
      BY <1>2, <2>3, <2>4, <2>5
  <2>7. m <= k => \A n \in m .. k : n \in m .. e - 1
      BY <1>2, <2>3, <2>4, <2>5
  <2>8. k <= m \/ m <= k
      BY <1>2
  <2>9. CASE k <= m
    <3>1. \A n \in k .. m : order[n] # -1
        BY <2>3, <2>6, <2>9
    <3>. QED BY <2>1, <2>2, <2>9, <3>1 DEF OrderIsConnected
  <2>10. CASE m <= k
    <3>1. \A n \in m .. k : order[n] # -1
        BY <2>4, <2>7, <2>10
    <3>. QED BY <2>1, <2>2, <2>10, <3>1 DEF OrderIsConnected
  <2>. QED BY <2>8, <2>9, <2>10
<1>6. \A i \in Listed : Component(i) \in Int
  <2> SUFFICES ASSUME NEW i \in Listed PROVE Component(i) \in Int
      OBVIOUS
  <2>1. PICK k \in DOMAIN order : Component(i) = EndOf(k)
      BY Placed
  <2>2. EndOf(k) \in DOMAIN order
      BY Ends
  <2>. QED BY <1>2, <2>1, <2>2
<1>7. start # All => \A i \in Listed : Component(i) <= Component(start)
  <2> SUFFICES ASSUME start # All, NEW i \in Listed PROVE Component(i) <= Component(start)
      OBVIOUS
  <2>1. start \in Nodes
      BY <1>2 DEF All, Nodes
  <2>2. start \in Listed
      BY <1>1, <2>1 DEF StartReaches
  <2>3. Reaches(Edges, start, i) /\ i \in Nodes
      BY <1>2, <1>4
  <2>. QED BY <1>3, <2>2, <2>3
<1>8. ASSUME NEW i \in Listed, NEW j \in Listed
      PROVE  /\ (Component(i) = Component(j)) <=> (Reaches(Edges, i, j) /\ Reaches(Edges, j, i))
             /\ Reaches(Edges, i, j) => Component(j) <= Component(i)
  <2>1. i \in Nodes /\ j \in Nodes
      BY <1>2
  <2>2. Reaches(Edges, i, j) => Component(j) <= Component(i)
      BY <1>3, <2>1
  <2>3. Reaches(Edges, j, i) => Component(i) <= Component(j)
      BY <1>3, <2>1
  <2>4. Component(i) \in Int /\ Component(j) \in Int
      BY <1>6
  <2>. QED BY <1>5, <2>2, <2>3, <2>4
<1> HIDE DEF GraphInv
<1>. QED BY <1>4, <1>7, <1>8 DEF IsDecomposition

LEMMA InvMeansDecomposed == GraphInv => GraphIsDecomposed
<1> SUFFICES ASSUME GraphInv, ~ followsFailed
             PROVE  StackIsConnected(Edges) /\ (result = "graph" => IsDecomposition(Edges))
    BY DEF GraphIsDecomposed
<1> USE DEF GraphInv
<1>1. \A k \in DOMAIN stack : stack[k] \in Nodes /\ onStack[stack[k]]
  <2>1. \A k \in DOMAIN stack : stack[k] \in Nodes
      BY DEF Typed
  <2>. QED BY <2>1 DEF StackIsSorted
<1>2. StackIsConnected(Edges)
  <2>1. \A k \in DOMAIN stack, f \in DOMAIN frames :
           index[frames[f].i] <= index[stack[k]] => Reaches(Edges, frames[f].i, stack[k])
      BY <1>1 DEF PathsFromOpen
  <2>2. \A k \in DOMAIN stack : \E f \in DOMAIN frames :
           index[frames[f].i] <= index[stack[k]] /\ Reaches(Edges, stack[k], frames[f].i)
      BY <1>1 DEF PathsBack
  <2>. QED BY <2>1, <2>2 DEF StackIsConnected
<1>. QED BY <1>2, EndedSearchIsDecomposition

LEMMA InvMeansGraphTypeOK == GraphInv => GraphTypeOK
<1> SUFFICES ASSUME GraphInv PROVE GraphTypeOK
    OBVIOUS
<1> USE DEF GraphInv
<1> DEFINE l == Len(order)
           s == Len(stack)
<1>1. count \in 0 .. N /\ N \in Nat
  <2>1. N \in Nat /\ IsFiniteSet(Nodes) /\ Cardinality(Nodes) = N
      BY NodesAreFinite
  <2>2. Visited \in SUBSET Nodes
      BY DEF Visited
  <2>3. IsFiniteSet(Visited) /\ Cardinality(Visited) <= Cardinality(Nodes)
      BY <2>1, <2>2, FS_Subset
  <2>4. Cardinality(Visited) \in Nat
      BY <2>3, FS_CardinalityType
  <2>. QED BY <2>1, <2>3, <2>4 DEF Numbered
<1>2. l \in Nat /\ s \in Nat /\ DOMAIN stack = 1 .. s /\ l <= 2 * (count - s)
    BY DEF Typed, OrderListed
<1>3. s <= N /\ l <= 2 * N
  <2> HIDE DEF l, s
  <2>. QED BY <1>1, <1>2
<1>4. IsInjective(stack)
  <2>1. \A k \in DOMAIN stack : stack[k] \in Nodes /\ index[stack[k]] \in Int
      BY <1>1 DEF Typed
  <2>2. ASSUME NEW k \in DOMAIN stack, NEW m \in DOMAIN stack, stack[k] = stack[m] PROVE k = m
    <3> HIDE DEF s
    <3>1. ~ (k < m) /\ ~ (m < k)
        BY <2>1, <2>2 DEF StackIsSorted
    <3>. QED BY <1>2, <3>1
  <2>. QED BY <2>2 DEF IsInjective
<1>5. ASSUME NEW k \in DOMAIN frames PROVE frames[k].i \in Nodes /\ frames[k].j \in -1 .. N - 1
  <2>1. frames[k] \in Frame
      BY DEF Typed
  <2>. QED BY <2>1 DEF Frame
<1>. QED BY <1>1, <1>3, <1>4, <1>5 DEF Typed, GraphTypeOK

-----------------------------------------------------------------------------
(* The walk over the result.                                                   *)

\* What the next round of the loop gives: c are the elements up to the -1 at place e.
IsNextPart(e, c) ==
    /\ at \in DOMAIN order /\ e \in DOMAIN order /\ order[e] = -1 /\ at < e
    /\ c \in Seq(Nodes) /\ c # <<>>
    /\ Range(c) = {i \in Nodes : \E k \in at .. e - 1 : order[k] = i}
    /\ IsFiniteSet(Range(c)) /\ Cardinality(Range(c)) = e - at
    /\ Range(c) \cap GivenUpTo(Len(given)) = {}
    /\ GivenUpTo(Len(given)) \cup Range(c) =
          {i \in Nodes : \E k \in DOMAIN order : k < e + 1 /\ order[k] = i}

LEMMA NextPart ==
    ASSUME SccInv, result = "graph", returned = "none", start = All, NEW e, e = EndOf(at),
           NEW c, c = SubSeq(order, at, e - 1)
    PROVE  IsNextPart(e, c)
<1> DEFINE G == GivenUpTo(Len(given))
           w == e - at
           C == {i \in Nodes : \E k \in at .. e - 1 : order[k] = i}
<1> USE DEF SccInv, GraphInv
<1>1. /\ Len(order) \in Nat /\ DOMAIN order = 1 .. Len(order) /\ -1 \notin Nodes
      /\ \A k \in DOMAIN order : order[k] \in Nodes \cup {-1}
    BY DEF Typed, Nodes
<1>2. at \in Nat /\ at >= 1
  <2>1. at \in Nat
      BY DEF WalkIsBetween
  <2>2. at - 1 \in DOMAIN order => at >= 1
      BY <1>1, <2>1
  <2>. QED BY <2>1, <2>2 DEF WalkIsBetween
<1>3. at \in DOMAIN order
  <2>1. Nodes \ G # {}
    <3>1. left > 0 /\ left = Cardinality(Nodes \ G)
        BY DEF WalkEnds, GivenIsListed
    <3>2. Cardinality({}) = 0
        BY FS_EmptySet
    <3> HIDE DEF G, SccInv, GraphInv
    <3>3. Cardinality(Nodes \ G) # Cardinality({})
        BY <3>1, <3>2
    <3>. QED BY <3>3
  <2>2. PICK i \in Nodes : i \notin G
      BY <2>1
  <2>3. index[i] >= 0
      BY DEF StartReaches
  <2>4. i \in Listed
      BY <2>3, EndedSearch
  <2>5. PICK k \in DOMAIN order : order[k] = i
      BY <2>4, Placed
  <2>6. ~ (k < at)
      BY <2>2, <2>5 DEF GivenIsListed
  <2>. QED BY <1>1, <1>2, <2>5, <2>6
<1>4. /\ e \in DOMAIN order /\ e \in at .. Len(order) /\ order[e] = -1
      /\ \A n \in at .. e - 1 : order[n] # -1
    BY <1>3, Ends
<1>5. order[at] # -1
  <2>1. order[at] = -1 => at > 1 /\ order[at - 1] # -1
      BY <1>3 DEF OrderListed
  <2>2. at = 1 \/ order[at - 1] = -1
      BY DEF WalkIsBetween
  <2>. QED BY <2>1, <2>2
<1>6. at < e /\ e \in Nat /\ w \in Nat /\ w > 0
  <2>1. at # e
      BY <1>4, <1>5
  <2>. QED BY <1>1, <1>2, <1>4, <2>1
<1>7. \A k \in at .. e - 1 : k \in DOMAIN order /\ order[k] \in Nodes
  <2>1. \A k \in at .. e - 1 : k \in DOMAIN order
      BY <1>1, <1>2, <1>4
  <2>. QED BY <1>1, <1>4, <2>1
<1>8. c \in Seq(Nodes) /\ Len(c) = w /\ \A k \in 1 .. w : c[k] = order[at + k - 1]
  <2>1. at \in Int /\ e - 1 \in Int
      BY <1>2, <1>6
  <2>2. \A k \in at .. e - 1 : order[k] \in Nodes
      BY <1>7
  <2> DEFINE b == e - 1
  <2>3. b - at + 1 = w /\ at <= b
      BY <1>2, <1>6
  <2> HIDE DEF b, SccInv, GraphInv, w
  <2>4. \A k \in at .. b : order[k] \in Nodes
      BY <2>2 DEF b
  <2>5. b \in Int
      BY <2>1 DEF b
  <2>6. /\ SubSeq(order, at, b) \in Seq(Nodes)
        /\ Len(SubSeq(order, at, b)) = IF at <= b THEN b - at + 1 ELSE 0
        /\ \A k \in 1 .. b - at + 1 : SubSeq(order, at, b)[k] = order[at + k - 1]
      BY <2>1, <2>4, <2>5, SubSeqProperties
  <2>7. c = SubSeq(order, at, b)
      BY DEF b
  <2>. QED BY <2>3, <2>6, <2>7
<1>9. c # <<>>
  <2>1. Len(c) # 0
      BY <1>6, <1>8
  <2>. QED BY <2>1
<1>10. Range(c) = C
  <2>1. DOMAIN c = 1 .. w
      BY <1>8
  <2>2. ASSUME NEW k \in 1 .. w PROVE at + k - 1 \in at .. e - 1
      BY <1>2, <1>6
  <2>3. ASSUME NEW k \in at .. e - 1 PROVE k - at + 1 \in 1 .. w /\ at + (k - at + 1) - 1 = k
      BY <1>2, <1>6
  <2> HIDE DEF w
  <2>4. ASSUME NEW i \in Range(c) PROVE i \in C
    <3>1. PICK k \in 1 .. w : c[k] = i
        BY <2>1 DEF Range
    <3>. QED BY <1>7, <1>8, <2>2, <3>1
  <2>5. ASSUME NEW i \in C PROVE i \in Range(c)
    <3>1. PICK k \in at .. e - 1 : order[k] = i
        OBVIOUS
    <3>2. c[k - at + 1] = i
        BY <1>8, <2>3, <3>1
    <3>. QED BY <2>1, <2>3, <3>2 DEF Range
  <2>. QED BY <2>4, <2>5
<1>11. IsFiniteSet(C) /\ Cardinality(C) = w
  <2> DEFINE f == [k \in at .. e - 1 |-> order[k]]
             A == at .. e - 1
  <2>1. IsFiniteSet(A) /\ Cardinality(A) = w
    <3>1. at \in Int /\ e - 1 \in Int /\ ~ (at > e - 1) /\ (e - 1) - at + 1 = w
        BY <1>2, <1>6
    <3> DEFINE b == e - 1
    <3>2. b \in Int /\ ~ (at > b) /\ b - at + 1 = w
        BY <3>1
    <3> HIDE DEF b, w, SccInv, GraphInv
    <3>3. IsFiniteSet(at .. b) /\ Cardinality(at .. b) = IF at > b THEN 0 ELSE b - at + 1
        BY <3>1, <3>2, FS_Interval
    <3>. QED BY <3>2, <3>3 DEF b
  <2>2. f \in [A -> C]
      BY <1>7
  <2>3. \A i \in C : \E k \in A : f[k] = i
      OBVIOUS
  <2>4. \A k, m \in A : f[k] = f[m] => k = m
      BY <1>1, <1>7 DEF OrderListed
  <2>5. f \in Bijection(A, C)
    <3> HIDE DEF f, A, C
    <3>. QED BY <2>2, <2>3, <2>4 DEF Bijection, Injection, Surjection, IsInjective
  <2> HIDE DEF A, C, f, w
  <2>6. ExistsBijection(A, C)
      BY <2>5 DEF ExistsBijection
  <2>. QED BY <2>1, <2>6, FS_Bijection
<1>12. G = {i \in Nodes : \E k \in DOMAIN order : k < at /\ order[k] = i}
    BY DEF GivenIsListed
<1> HIDE DEF G
<1>13. C \cap G = {}
  <2> SUFFICES ASSUME NEW i \in C, i \in G PROVE FALSE
      OBVIOUS
  <2>1. PICK k \in at .. e - 1 : order[k] = i
      OBVIOUS
  <2>2. PICK m \in DOMAIN order : m < at /\ order[m] = i
      BY <1>12
  <2>3. k \in DOMAIN order /\ order[k] # -1
      BY <1>1, <1>7, <2>1
  <2>4. k = m
      BY <2>1, <2>2, <2>3 DEF OrderListed
  <2>. QED BY <1>1, <1>2, <2>2, <2>4
<1>14. G \cup C = {i \in Nodes : \E k \in DOMAIN order : k < e + 1 /\ order[k] = i}
  <2>1. ASSUME NEW i \in Nodes, NEW k \in DOMAIN order, k < e + 1, order[k] = i
        PROVE  i \in G \/ i \in C
    <3>1. k # e
        BY <1>1, <1>4, <2>1
    <3>2. k < at \/ k \in at .. e - 1
        BY <1>1, <1>2, <1>6, <2>1, <3>1
    <3>. QED BY <1>12, <2>1, <3>2
  <2>2. ASSUME NEW i \in C PROVE \E k \in DOMAIN order : k < e + 1 /\ order[k] = i
    <3>1. PICK k \in at .. e - 1 : order[k] = i
        OBVIOUS
    <3>2. k \in DOMAIN order /\ k < e + 1
        BY <1>2, <1>6, <1>7
    <3>. QED BY <3>1, <3>2
  <2>3. ASSUME NEW i \in G PROVE \E k \in DOMAIN order : k < e + 1 /\ order[k] = i
    <3>1. PICK k \in DOMAIN order : k < at /\ order[k] = i
        BY <1>12
    <3>2. k < e + 1
        BY <1>1, <1>2, <1>6, <3>1
    <3>. QED BY <3>1, <3>2
  <2>4. G \subseteq Nodes /\ C \subseteq Nodes
      BY <1>12
  <2>. QED BY <2>1, <2>2, <2>3, <2>4
<1> HIDE DEF C
<1>. QED BY <1>3, <1>4, <1>6, <1>8, <1>9, <1>10, <1>11, <1>13, <1>14 DEF G, C, IsNextPart

LEMMA GiveNextKeepsInv == SccInv /\ GiveNext => SccInv'
<1> SUFFICES ASSUME SccInv, GiveNext PROVE SccInv'
    OBVIOUS
<1> DEFINE e == EndOf(at)
           c == SubSeq(order, at, e - 1)
           G == GivenUpTo(Len(given))
           n == Len(given)
<1>1. result = "graph" /\ returned = "none" /\ start = All /\ UNCHANGED graphVars
    BY DEF GiveNext
<1>2. /\ at \in DOMAIN order /\ e \in DOMAIN order /\ order[e] = -1 /\ at < e
      /\ c \in Seq(Nodes) /\ c # <<>>
      /\ Range(c) = {i \in Nodes : \E k \in at .. e - 1 : order[k] = i}
      /\ IsFiniteSet(Range(c)) /\ Cardinality(Range(c)) = e - at
      /\ Range(c) \cap G = {}
      /\ G \cup Range(c) = {i \in Nodes : \E k \in DOMAIN order : k < e + 1 /\ order[k] = i}
  <2> HIDE DEF e, c
  <2>1. e = EndOf(at) /\ c = SubSeq(order, at, e - 1)
      BY DEF e, c
  <2>2. IsNextPart(e, c)
      BY <1>1, <2>1, NextPart
  <2>. QED BY <2>2 DEF IsNextPart
<1>3. PICK failing \in BOOLEAN :
        /\ given' = Append(given, c)
        /\ at' = e + 1 /\ left' = left - (e - at)
        /\ fnFailed' = (failing \/ fnFailed)
        /\ returned' = IF left - (e - at) > 0 /\ ~ failing THEN "none"
                       ELSE IF left - (e - at) > 0 \/ (failing /\ at = 1) THEN "error" ELSE "ok"
    BY DEF GiveNext, StartAfter, GoesOnFor, Breaks
<1>4. /\ order' = order /\ start' = start /\ result' = result /\ followsFailed' = followsFailed
      /\ Edges' = Edges
    BY <1>1, SameEdges DEF graphVars
<1>5. /\ Len(order) \in Nat /\ DOMAIN order = 1 .. Len(order) /\ -1 \notin Nodes
      /\ given \in Seq(Seq(Nodes)) /\ left \in Nat /\ fnFailed \in BOOLEAN /\ fnFailed = FALSE
      /\ \A k \in DOMAIN given : given[k] # <<>>
  <2>1. Len(order) \in Nat /\ DOMAIN order = 1 .. Len(order) /\ -1 \notin Nodes
      BY DEF SccInv, GraphInv, Typed, Nodes
  <2>2. /\ given \in Seq(Seq(Nodes)) /\ left \in Nat /\ fnFailed \in BOOLEAN
        /\ \A k \in DOMAIN given : given[k] # <<>>
      BY DEF SccInv, WalkIsBetween
  <2>. QED BY <1>1, <2>1, <2>2 DEF SccInv, WalkEnds
<1>6. /\ n \in Nat /\ DOMAIN given = 1 .. n /\ Len(given') = n + 1 /\ DOMAIN given' = 1 .. n + 1
      /\ given' \in Seq(Seq(Nodes))
      /\ \A k \in 1 .. n : given'[k] = given[k]
      /\ given'[n + 1] = c
  <2> HIDE DEF c
  <2>1. /\ given' \in Seq(Seq(Nodes)) /\ Len(given') = Len(given) + 1
        /\ \A k \in 1 .. Len(given) : given'[k] = given[k]
        /\ given'[Len(given) + 1] = c
      BY <1>2, <1>3, <1>5, AppendProperties
  <2>. QED BY <1>5, <2>1
<1> HIDE DEF c, e
<1>7. \A k \in 1 .. n : GivenUpTo(k)' = GivenUpTo(k)
  <2> SUFFICES ASSUME NEW k \in 1 .. n PROVE GivenUpTo(k)' = GivenUpTo(k)
      OBVIOUS
  <2>1. \A m \in 1 .. k : given'[m] = given[m]
    <3> HIDE DEF n
    <3>. QED BY <1>6
  <2>. QED BY <2>1 DEF GivenUpTo
<1>8. GivenUpTo(Len(given))' = G \cup Range(c)
  <2>1. \A m : m \in 1 .. n + 1 <=> m \in 1 .. n \/ m = n + 1
    <3>1. n \in Nat
        BY <1>6
    <3> HIDE DEF n
    <3>. QED BY <3>1
  <2>2. \A i : i \in GivenUpTo(Len(given))' <=> \E m \in 1 .. n + 1 : i \in Range(given'[m])
      BY <1>6 DEF GivenUpTo
  <2>3. \A i : i \in G <=> \E m \in 1 .. n : i \in Range(given[m])
      BY DEF GivenUpTo
  <2> HIDE DEF n, G
  <2>4. \A i : i \in GivenUpTo(Len(given))' <=> i \in G \/ i \in Range(c)
      BY <1>6, <2>1, <2>2, <2>3
  <2>5. \A i : i \in GivenUpTo(Len(given))' <=> i \in G \cup Range(c)
      BY <2>4
  <2>. QED BY <2>5
<1>9. ASSUME NEW k \in 1 .. n + 1
      PROVE  (k \in 1 .. n /\ given'[k] = given[k]) \/ (k = n + 1 /\ given'[k] = c)
  <2>1. k \in 1 .. n \/ k = n + 1
    <3>1. n \in Nat
        BY <1>6
    <3> HIDE DEF n
    <3>. QED BY <3>1
  <2>. QED BY <1>6, <2>1
<1>10. \A k \in 1 .. n : Range(given[k]) \subseteq G
    BY DEF GivenUpTo
<1>11. /\ n = Len(given) /\ G = GivenUpTo(Len(given)) /\ IsFiniteSet(Nodes)
       /\ left = Cardinality(Nodes \ G)
  <2>1. left = Cardinality(Nodes \ G)
      BY DEF SccInv, GivenIsListed
  <2>. QED BY <2>1, NodesAreFinite
<1>12. /\ \A k, m \in DOMAIN given : k # m => Range(given[k]) \cap Range(given[m]) = {}
       /\ ~ followsFailed => \A k \in DOMAIN given : \A i \in GivenUpTo(k), j \in Nodes :
             <<i, j>> \in Edges => j \in GivenUpTo(k)
    BY DEF SccInv, GivenIsRight
<1>13. /\ GraphInv /\ Typed
       /\ ~ followsFailed => \A k \in DOMAIN order, i \in Nodes :
             k < e /\ <<order[k], i>> \in Edges => \E m \in 1 .. e - 1 : order[m] = i
    BY <1>2 DEF SccInv, GraphInv, OrderIsClosed
<1> HIDE DEF G, n
<1>14. left' = Cardinality(Nodes \ (G \cup Range(c))) /\ left' \in Nat
  <2>1. IsFiniteSet(Nodes \ G)
      BY <1>11, FS_Difference
  <2>2. /\ IsFiniteSet((Nodes \ G) \ Range(c))
        /\ Cardinality((Nodes \ G) \ Range(c)) = Cardinality(Nodes \ G) - Cardinality((Nodes \ G) \cap Range(c))
      BY <2>1, FS_Difference
  <2>3. Range(c) \subseteq Nodes
      BY <1>2
  <2>4. (Nodes \ G) \cap Range(c) = Range(c) /\ (Nodes \ G) \ Range(c) = Nodes \ (G \cup Range(c))
      BY <1>2, <2>3
  <2>5. Cardinality(Nodes \ (G \cup Range(c))) \in Nat
      BY <2>2, <2>4, FS_CardinalityType
  <2>6. Cardinality((Nodes \ G) \cap Range(c)) = e - at
      BY <1>2, <2>4
  <2>7. Cardinality(Nodes \ (G \cup Range(c))) = Cardinality((Nodes \ G) \ Range(c))
      BY <2>4
  <2>8. Cardinality(Nodes \ (G \cup Range(c))) = left - (e - at)
      BY <1>11, <2>2, <2>6, <2>7
  <2>. QED BY <1>3, <2>5, <2>8
<1>15. WalkIsBetween'
  <2>1. at' \in Nat /\ at' - 1 \in DOMAIN order' /\ order'[at' - 1] = -1
    <3>1. at' = e + 1 /\ order' = order /\ order[e] = -1 /\ e \in DOMAIN order
        BY <1>2, <1>3, <1>4
    <3>2. e \in Nat
        BY <1>5, <3>1
    <3>3. at' \in Nat /\ at' - 1 = e
        BY <3>1, <3>2
    <3>. QED BY <3>1, <3>3
  <2>2. ASSUME NEW k \in DOMAIN given' PROVE given'[k] # <<>>
      BY <1>2, <1>5, <1>6, <1>9
  <2>3. fnFailed' \in BOOLEAN /\ returned' \in {"none", "ok", "error"}
      BY <1>3, <1>5
  <2>. QED BY <1>6, <1>14, <2>1, <2>2, <2>3 DEF WalkIsBetween
<1>16. GivenIsListed'
  <2>1. GivenUpTo(Len(given))' = {i \in Nodes : \E k \in DOMAIN order' : k < at' /\ order'[k] = i}
      BY <1>2, <1>3, <1>4, <1>8
  <2>2. left' = Cardinality(Nodes \ GivenUpTo(Len(given))')
      BY <1>8, <1>14
  <2>. QED BY <2>1, <2>2 DEF GivenIsListed
<1>17. GivenIsRight'
  <2>1. ASSUME NEW k \in 1 .. n + 1, NEW m \in 1 .. n + 1, k # m
        PROVE  Range(given'[k]) \cap Range(given'[m]) = {}
    <3>1. CASE k \in 1 .. n /\ m \in 1 .. n
        BY <1>6, <1>12, <2>1, <3>1
    <3>2. CASE k \in 1 .. n /\ m = n + 1
        BY <1>2, <1>6, <1>10, <3>2
    <3>3. CASE k = n + 1 /\ m \in 1 .. n
        BY <1>2, <1>6, <1>10, <3>3
    <3>. QED BY <1>9, <2>1, <3>1, <3>2, <3>3
  <2>2. ASSUME ~ followsFailed, NEW k \in 1 .. n, NEW i \in GivenUpTo(k)', NEW j \in Nodes, <<i, j>> \in Edges
        PROVE  j \in GivenUpTo(k)'
      BY <1>6, <1>7, <1>12, <2>2
  <2>3. ASSUME ~ followsFailed, NEW i \in GivenUpTo(Len(given))', NEW j \in Nodes, <<i, j>> \in Edges
        PROVE  j \in GivenUpTo(Len(given))'
    <3>1. PICK k \in DOMAIN order : k < e + 1 /\ order[k] = i /\ i \in Nodes
        BY <1>2, <1>8, <2>3
    <3>2. k < e
      <4>1. k # e
          BY <1>2, <1>5, <3>1
      <4>. QED BY <1>2, <1>5, <3>1, <4>1
    <3>3. PICK m \in 1 .. e - 1 : order[m] = j
        BY <1>13, <2>3, <3>1, <3>2
    <3>4. m \in DOMAIN order /\ m < e + 1
        BY <1>2, <1>5
    <3>. QED BY <1>2, <1>8, <3>3, <3>4
  <2>4. DOMAIN given' = 1 .. n + 1 /\ Len(given') = n + 1
      BY <1>6
  <2>5. ASSUME ~ followsFailed, NEW k \in 1 .. n + 1, NEW i \in GivenUpTo(k)', NEW j \in Nodes, <<i, j>> \in Edges
        PROVE  j \in GivenUpTo(k)'
    <3>1. CASE k \in 1 .. n
        BY <2>2, <2>5, <3>1
    <3>2. CASE k = Len(given')
      <4>1. GivenUpTo(k)' = GivenUpTo(Len(given))'
          BY <3>2 DEF GivenUpTo
      <4>. QED BY <2>3, <2>5, <4>1
    <3>. QED BY <1>9, <2>4, <3>1, <3>2
  <2>. QED BY <1>4, <2>1, <2>4, <2>5 DEF GivenIsRight
<1>18. WalkEnds'
  <2>1. result' = "graph"
      BY <1>1, <1>4
  <2>2. ASSUME returned' = "none" PROVE ~ fnFailed' /\ left' > 0
      BY <1>3, <1>5, <2>2
  <2>3. ASSUME returned' = "ok" PROVE left' = 0
    <3>1. ~ (left' > 0)
        BY <1>3, <2>3
    <3>. QED BY <1>14, <3>1
  <2>. QED BY <2>1, <2>2, <2>3 DEF WalkEnds
<1>19. GraphInv'
    BY <1>1, <1>13, GraphStutter
<1>. QED BY <1>15, <1>16, <1>17, <1>18, <1>19 DEF SccInv

LEMMA SccInitHasInv == SccInit => SccInv
<1> SUFFICES ASSUME SccInit PROVE SccInv
    OBVIOUS
<1>1. /\ at = 1 /\ left = N /\ given = <<>> /\ fnFailed = FALSE /\ returned = "none" /\ result = "none"
      /\ GraphInv
    BY GraphInitHasInv DEF SccInit, GraphInit
<1>2. N \in Nat /\ N > 0 /\ Cardinality(Nodes) = N
    BY NodesAreFinite, ListAssumption
<1>3. Len(given) = 0 /\ DOMAIN given = {} /\ given \in Seq(Seq(Nodes))
    BY <1>1
<1>4. GivenUpTo(Len(given)) = {}
    BY <1>3 DEF GivenUpTo
<1>5. WalkIsBetween
    BY <1>1, <1>2, <1>3 DEF WalkIsBetween
<1>6. GivenIsListed
  <2>1. \A k \in DOMAIN order : ~ (k < 1)
      BY <1>1 DEF GraphInv, Typed
  <2>2. Nodes \ {} = Nodes
      OBVIOUS
  <2>. QED BY <1>1, <1>2, <1>4, <2>1, <2>2 DEF GivenIsListed
<1>7. GivenIsRight /\ WalkEnds
    BY <1>1, <1>2, <1>3 DEF GivenIsRight, WalkEnds
<1>. QED BY <1>1, <1>5, <1>6, <1>7 DEF SccInv

LEMMA SearchKeepsInv == SccInv /\ Search => SccInv'
<1> SUFFICES ASSUME SccInv, Search PROVE SccInv'
    OBVIOUS
<1>1. result = "none" /\ GraphNext /\ UNCHANGED <<at, left, given, fnFailed, returned>>
    BY DEF Search
<1>2. GraphInv'
    BY <1>1, GraphNextKeepsInv DEF SccInv
<1>3. at = 1 /\ given = <<>> /\ ~ fnFailed /\ returned # "ok"
    BY <1>1 DEF SccInv, WalkEnds
<1>4. Len(given) = 0 /\ DOMAIN given = {}
    BY <1>3
<1>5. GivenUpTo(Len(given)) = {}
    BY <1>4 DEF GivenUpTo
<1>6. GivenUpTo(Len(given))' = {}
    BY <1>1, <1>5 DEF GivenUpTo
<1>7. WalkIsBetween'
    BY <1>1, <1>3 DEF SccInv, WalkIsBetween
<1>8. GivenIsListed'
  <2>1. \A k \in DOMAIN order' : ~ (k < 1)
      BY <1>2 DEF GraphInv, Typed
  <2>2. left = Cardinality(Nodes \ {})
      BY <1>5 DEF SccInv, GivenIsListed
  <2>. QED BY <1>1, <1>3, <1>6, <2>1, <2>2 DEF GivenIsListed
<1>9. GivenIsRight'
    BY <1>1, <1>4 DEF GivenIsRight
<1>10. WalkEnds'
    BY <1>1, <1>3 DEF SccInv, WalkEnds
<1>. QED BY <1>2, <1>7, <1>8, <1>9, <1>10 DEF SccInv

\* What fn was given stays right while neither the walk nor what it reads moves.
LEMMA WalkStutter ==
    ASSUME WalkIsBetween, GivenIsListed, GivenIsRight,
           order' = order, result' = result, followsFailed' = followsFailed, Edges' = Edges,
           UNCHANGED <<at, left, given, fnFailed>>, returned' \in {"none", "ok", "error"}
    PROVE  WalkIsBetween' /\ GivenIsListed' /\ GivenIsRight'
<1>1. at' = at /\ left' = left /\ given' = given /\ fnFailed' = fnFailed
    OBVIOUS
<1>2. \A k : GivenUpTo(k)' = GivenUpTo(k)
    BY <1>1 DEF GivenUpTo
<1>3. GivenUpTo(Len(given))' = GivenUpTo(Len(given))
    BY <1>1 DEF GivenUpTo
<1>4. WalkIsBetween'
    BY <1>1 DEF WalkIsBetween
<1>5. GivenIsListed'
    BY <1>1, <1>3 DEF GivenIsListed
<1>6. GivenIsRight'
    BY <1>1, <1>2 DEF GivenIsRight
<1>. QED BY <1>4, <1>5, <1>6

\* What the search has found does not change when it says so itself.
LEMMA SearchFailedKeepsInv == SccInv /\ SearchFailed => SccInv'
<1> SUFFICES ASSUME SccInv, SearchFailed PROVE SccInv'
    OBVIOUS
<1>1. result = "NULL" /\ returned' = "error" /\ UNCHANGED graphVars /\ UNCHANGED <<at, left, given, fnFailed>>
    BY DEF SearchFailed
<1>2. GraphInv'
    BY <1>1, GraphStutter DEF SccInv
<1>3. order' = order /\ result' = result /\ followsFailed' = followsFailed /\ Edges' = Edges
    BY <1>1, SameEdges DEF graphVars
<1>4. returned' \in {"none", "ok", "error"}
    BY <1>1
<1>5. WalkIsBetween' /\ GivenIsListed' /\ GivenIsRight'
    BY <1>1, <1>3, <1>4, WalkStutter DEF SccInv
<1>6. WalkEnds'
    BY <1>1, <1>3 DEF SccInv, WalkEnds
<1>. QED BY <1>2, <1>5, <1>6 DEF SccInv

LEMMA SccStutter == SccInv /\ UNCHANGED sccVars => SccInv'
<1> SUFFICES ASSUME SccInv, UNCHANGED sccVars PROVE SccInv'
    OBVIOUS
<1>1. UNCHANGED graphVars /\ UNCHANGED <<at, left, given, fnFailed, returned>>
    BY DEF sccVars
<1>2. GraphInv'
    BY <1>1, GraphStutter DEF SccInv
<1>3. order' = order /\ result' = result /\ followsFailed' = followsFailed /\ Edges' = Edges
    BY <1>1, SameEdges DEF graphVars
<1>4. returned' \in {"none", "ok", "error"}
    BY <1>1 DEF SccInv, WalkIsBetween
<1>5. WalkIsBetween' /\ GivenIsListed' /\ GivenIsRight'
    BY <1>1, <1>3, <1>4, WalkStutter DEF SccInv
<1>6. WalkEnds'
    BY <1>1, <1>3 DEF SccInv, WalkEnds
<1>. QED BY <1>2, <1>5, <1>6 DEF SccInv

LEMMA SccNextKeepsInv == SccInv /\ [SccNext]_sccVars => SccInv'
<1>1. SccInv /\ Returned => SccInv'
    BY SccStutter DEF Returned
<1>. QED BY <1>1, SearchKeepsInv, SearchFailedKeepsInv, GiveNextKeepsInv, SccStutter DEF SccNext

LEMMA InvMeansSccTypeOK == SccInv => SccTypeOK
<1> SUFFICES ASSUME SccInv PROVE SccTypeOK
    OBVIOUS
<1>1. N \in Nat /\ IsFiniteSet(Nodes) /\ Cardinality(Nodes) = N
    BY NodesAreFinite
<1>2. Len(order) \in Nat /\ Len(order) <= 2 * N /\ DOMAIN order = 1 .. Len(order)
    BY InvMeansGraphTypeOK DEF SccInv, GraphInv, Typed, GraphTypeOK
<1>3. at \in 1 .. 2 * N + 1
  <2>1. at \in Nat /\ (at = 1 \/ at - 1 \in 1 .. Len(order))
      BY <1>2 DEF SccInv, WalkIsBetween
  <2> DEFINE l == Len(order)
  <2>2. l \in Nat /\ l <= 2 * N /\ (at = 1 \/ at - 1 \in 1 .. l)
      BY <1>2, <2>1
  <2> HIDE DEF l
  <2>. QED BY <1>1, <2>1, <2>2
<1>4. left \in 0 .. N
  <2> DEFINE R == Nodes \ GivenUpTo(Len(given))
  <2>1. left = Cardinality(R) /\ R \in SUBSET Nodes /\ left \in Nat
      BY DEF SccInv, GivenIsListed, WalkIsBetween
  <2> HIDE DEF R
  <2>2. Cardinality(R) <= Cardinality(Nodes)
      BY <1>1, <2>1, FS_Subset
  <2>. QED BY <1>1, <2>1, <2>2
<1>. QED BY <1>3, <1>4 DEF SccInv, WalkIsBetween, SccTypeOK

LEMMA InvMeansComponentsAreGiven == SccInv => ComponentsAreGiven
<1> SUFFICES ASSUME SccInv PROVE ComponentsAreGiven
    OBVIOUS
<1>1. /\ given \in Seq(Seq(Nodes)) /\ DOMAIN given = 1 .. Len(given) /\ Len(given) \in Nat
    BY DEF SccInv, WalkIsBetween
<1>2. \A k \in DOMAIN given : Range(given[k]) \subseteq Nodes
  <2> SUFFICES ASSUME NEW k \in DOMAIN given PROVE Range(given[k]) \subseteq Nodes
      OBVIOUS
  <2>1. given[k] \in Seq(Nodes)
      BY <1>1
  <2>. QED BY <2>1 DEF Range
<1>3. \A k \in DOMAIN given : Range(given[k]) \subseteq GivenUpTo(k)
  <2>1. \A k \in DOMAIN given : k \in 1 .. k
      BY <1>1
  <2>. QED BY <2>1 DEF GivenUpTo
<1>4. ComponentsComeInOrder
  <2> SUFFICES ASSUME ~ followsFailed
               PROVE  /\ \A k, m \in DOMAIN given : k # m => Range(given[k]) \cap Range(given[m]) = {}
                      /\ \A k \in DOMAIN given : \A i \in Range(given[k]), j \in Nodes :
                            answers[<<i, j>>] = "yes" => j \in GivenUpTo(k)
      BY DEF ComponentsComeInOrder
  <2>1. \A k, m \in DOMAIN given : k # m => Range(given[k]) \cap Range(given[m]) = {}
      BY DEF SccInv, GivenIsRight
  <2>2. ASSUME NEW k \in DOMAIN given, NEW i \in Range(given[k]), NEW j \in Nodes, answers[<<i, j>>] = "yes"
        PROVE  j \in GivenUpTo(k)
    <3>1. i \in Nodes /\ i \in GivenUpTo(k)
        BY <1>2, <1>3
    <3>2. <<i, j>> \in Edges
        BY <2>2, <3>1, EdgesAreYes
    <3>. QED BY <3>1, <3>2 DEF SccInv, GivenIsRight
  <2>. QED BY <2>1, <2>2
<1>5. OkMeansAllWereGiven
  <2> SUFFICES ASSUME returned = "ok" PROVE GivenUpTo(Len(given)) = Nodes
      BY DEF OkMeansAllWereGiven
  <2> DEFINE G == GivenUpTo(Len(given))
  <2>1. Cardinality(Nodes \ G) = 0 /\ G \subseteq Nodes
      BY DEF SccInv, WalkEnds, GivenIsListed
  <2> HIDE DEF G
  <2>2. IsFiniteSet(Nodes \ G)
      BY NodesAreFinite, FS_Difference
  <2>3. Nodes \ G = {}
      BY <2>1, <2>2, FS_EmptySet
  <2>4. G = Nodes
      BY <2>1, <2>3
  <2>. QED BY <2>4 DEF G
<1>. QED BY <1>4, <1>5 DEF ComponentsAreGiven

-----------------------------------------------------------------------------
(* The theorems.                                                               *)

\* isl_tarjan_graph_init and isl_tarjan_graph_component: whatever the graph, the arrays
\* are large enough, paths connect the stack while the search runs, and the order it
\* leaves lists the strongly connected components, each after those it follows.
THEOREM SearchIsRight == GraphSpec => [](GraphTypeOK /\ GraphIsDecomposed)
<1>1. GraphInit => GraphInv
    BY GraphInitHasInv
<1>2. GraphInv /\ [GraphNext]_graphVars => GraphInv'
    BY GraphNextKeepsInv
<1>3. GraphInv => GraphTypeOK /\ GraphIsDecomposed
    BY InvMeansGraphTypeOK, InvMeansDecomposed
<1>. QED BY <1>1, <1>2, <1>3, PTL DEF GraphSpec

\* The inductive invariant of a search and the walk over what it found.
THEOREM ForeachKeepsInv == SccSpec => []SccInv
<1>1. SccInit => SccInv
    BY SccInitHasInv
<1>2. SccInv /\ [SccNext]_sccVars => SccInv'
    BY SccNextKeepsInv
<1>. QED BY <1>1, <1>2, PTL DEF SccSpec

\* The walk stays within the order, and counts what is left.
THEOREM ForeachTypeCorrect == SccSpec => [](GraphTypeOK /\ SccTypeOK)
<1>1. SccInv => GraphTypeOK /\ SccTypeOK
    BY InvMeansGraphTypeOK, InvMeansSccTypeOK DEF SccInv
<1>. QED BY <1>1, ForeachKeepsInv, PTL

\* The search inside of foreach_scc is right: for lists of any length and any answers
\* of follows, up to the first error.
THEOREM ForeachFindsComponents == SccSpec => []GraphIsDecomposed
<1>1. SccInv => GraphIsDecomposed
    BY InvMeansDecomposed DEF SccInv
<1>. QED BY <1>1, ForeachKeepsInv, PTL

\* isl_*_list_foreach_scc: fn gets every element at most once, never before one that
\* it follows, and the result is ok only when it got them all.
THEOREM ForeachGivesComponents == SccSpec => []ComponentsAreGiven
<1>1. SccInv => ComponentsAreGiven
    BY InvMeansComponentsAreGiven
<1>. QED BY <1>1, ForeachKeepsInv, PTL

\* Once fn has failed it is not called again.
THEOREM ForeachStopsAtAnError == SccSpec => NoCallAfterAnError
<1>1. SccInv /\ [SccNext]_sccVars => [fnFailed => given' = given]_sccVars
  <2> SUFFICES ASSUME SccInv, SccNext, fnFailed PROVE given' = given
      OBVIOUS
  <2>1. returned # "none"
      BY DEF SccInv, WalkEnds
  <2>2. ~ GiveNext
      BY <2>1 DEF GiveNext
  <2>. QED BY <2>2 DEF SccNext, Search, SearchFailed, Returned, sccVars
<1>. QED BY <1>1, ForeachKeepsInv, PTL DEF SccSpec, NoCallAfterAnError
=============================================================================
