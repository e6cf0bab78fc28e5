------------------------------- MODULE IslList -------------------------------
(***************************************************************************)
(* The lists of isl_list_templ.c: shared objects with a reference count    *)
(* that are copied when one of several holders changes them, of elements   *)
(* that are shared in the same way. Every allocation may fail. The         *)
(* functions of the template are operators on the heap that return the     *)
(* new heap and the list, NULL when they have failed.                      *)
(***************************************************************************)
EXTENDS Integers, Sequences, FiniteSets, SequencesExt

CONSTANTS
    Handles,        \* variables that hold a list
    Values,         \* of elements: 0 .. some number
    Objects,        \* addresses of lists, and of elements: numbers
    MaxLen,         \* bound: elements of a list
    MaxMemory,      \* bound: allocations of one operation that succeed
    Null

\* What is assumed of the constants.
ListAssumption == Objects \subseteq Nat /\ {MaxLen, MaxMemory} \subseteq Nat /\ Null \notin Objects

VARIABLES
    heap,     \* lists and els that are allocated
    list      \* the object each variable points to

vars == <<heap, list>>

\* A heap in use by an operation: memory is the number of allocations left.
InUse(memory) == [lists |-> heap.lists, els |-> heap.els, memory |-> memory]

Result(h, l) == [heap |-> h, list |-> l]

ElResult(h, e) == [heap |-> h, el |-> e]

FreshFor(f) == CHOOSE a \in Objects \ DOMAIN f : \A b \in Objects \ DOMAIN f : a <= b

With(f, a, v) == [b \in DOMAIN f \cup {a} |-> IF b = a THEN v ELSE f[b]]

Forget(f, a) == Restrict(f, DOMAIN f \ {a})

-----------------------------------------------------------------------------
(* Elements: isl_*_copy, isl_*_free, and a function fn that changes one,   *)
(* in place when nobody else holds it.                                     *)

NewEl(h, v) ==
    IF h.memory = 0 THEN ElResult(h, Null)
    ELSE LET e == FreshFor(h.els)
         IN  ElResult([h EXCEPT !.els = With(@, e, [ref |-> 1, val |-> v]), !.memory = @ - 1], e)

ElCopy(h, e) == IF e = Null THEN h ELSE [h EXCEPT !.els[e].ref = @ + 1]

ElFree(h, e) ==
    IF e = Null THEN h
    ELSE IF h.els[e].ref > 1 THEN [h EXCEPT !.els[e].ref = @ - 1]
    ELSE [h EXCEPT !.els = Forget(@, e)]

Bumped(v) == (v + 1) % (Max(Values) + 1)

ElBump(h, e) ==
    IF h.els[e].ref = 1 THEN ElResult([h EXCEPT !.els[e].val = Bumped(@)], e)
    ELSE NewEl(ElFree(h, e), Bumped(h.els[e].val))

-----------------------------------------------------------------------------
(* isl_list_templ.c                                                        *)

Alloc(h, size) ==
    IF h.memory = 0 THEN Result(h, Null)
    ELSE LET l == FreshFor(h.lists)
         IN  Result([h EXCEPT !.lists = With(@, l, [ref |-> 1, size |-> size, p |-> <<>>]),
                              !.memory = @ - 1], l)

ListFree(h, l) ==
    IF l = Null THEN h
    ELSE IF h.lists[l].ref > 1 THEN [h EXCEPT !.lists[l].ref = @ - 1]
    ELSE FoldLeft(ElFree, [h EXCEPT !.lists = Forget(@, l)], h.lists[l].p)

Failed(h, l, e) == Result(ListFree(ElFree(h, e), l), Null)

\* res gets copies of the elements, by add() into a list that has the room.
AddCopies(r, elements) ==
    IF r.list = Null THEN r
    ELSE LET shared == FoldLeft(ElCopy, r.heap, elements)
         IN  Result([shared EXCEPT !.lists[r.list].p = @ \o elements], r.list)

\* Mutant: a list of two holders is changed in place.
CowShared(h, l) == Result(h, l)

Cow(h, l) ==
    IF l = Null \/ h.lists[l].ref = 1 THEN Result(h, l)
    ELSE LET old == h.lists[l]
         IN  AddCopies(Alloc([h EXCEPT !.lists[l].ref = @ - 1], Len(old.p)), old.p)

Grow(h, l, n) ==
    LET old     == h.lists[l]
        newSize == ((Len(old.p) + n + 1) * 3) \div 2
        room    == Len(old.p) + n <= old.size
    IN  CASE l = Null -> Result(h, Null)
          [] old.ref = 1 /\ room -> Result(h, l)
          [] old.ref = 1 /\ ~ room ->
                IF h.memory = 0 THEN Result(ListFree(h, l), Null)
                ELSE Result([h EXCEPT !.lists[l].size = newSize, !.memory = @ - 1], l)
          [] OTHER ->
                LET new == AddCopies(Alloc(h, IF room /\ old.size < newSize THEN old.size ELSE newSize), old.p)
                IN  Result(ListFree(new.heap, l), new.list)

Add(h, l, e) ==
    LET g == Grow(h, l, 1)
    IN  IF g.list = Null \/ e = Null THEN Failed(g.heap, g.list, e)
        ELSE Result([g.heap EXCEPT !.lists[g.list].p = Append(@, e)], g.list)

\* Remove n elements from place first on.
Drop(h, l, first, n) ==
    IF n = 0 THEN Result(h, l)
    ELSE LET c == Cow(h, l) IN
         IF c.list = Null THEN c
         ELSE LET p == c.heap.lists[c.list].p
              IN  Result([FoldLeft(ElFree, c.heap, SubSeq(p, first, first + n - 1)) EXCEPT
                            !.lists[c.list].p = SubSeq(p, 1, first - 1) \o SubSeq(p, first + n, Len(p))],
                         c.list)

\* Mutant: the elements of a shared list are moved without copies.
InsertWithoutCopies(h, l, pos, e) ==
    IF l = Null \/ e = Null THEN Failed(h, l, e)
    ELSE IF h.lists[l].ref = 1 /\ h.lists[l].size > Len(h.lists[l].p)
    THEN Result([h EXCEPT !.lists[l].p = InsertAt(@, pos, e)], l)
    ELSE LET new == Alloc(h, Len(h.lists[l].p) + 1)
         IN  IF new.list = Null THEN Failed(new.heap, l, e)
             ELSE Result(ListFree([new.heap EXCEPT !.lists[new.list].p = InsertAt(h.lists[l].p, pos, e)], l),
                         new.list)

\* When nothing is left for res the adds free the copies and el again.
Insert(h, l, pos, e) ==
    IF l = Null \/ e = Null THEN Failed(h, l, e)
    ELSE IF h.lists[l].ref = 1 /\ h.lists[l].size > Len(h.lists[l].p)
    THEN Result([h EXCEPT !.lists[l].p = InsertAt(@, pos, e)], l)
    ELSE LET p   == h.lists[l].p
             new == AddCopies(Alloc(h, Len(p) + 1), p)
         IN  IF new.list = Null THEN Failed(new.heap, l, e)
             ELSE Result(ListFree([new.heap EXCEPT !.lists[new.list].p = InsertAt(@, pos, e)], l), new.list)

SetAt(h, l, k, e) ==
    CASE l = Null \/ e = Null -> Failed(h, l, e)
      [] l # Null /\ e # Null /\ h.lists[l].p[k] = e -> Result(ElFree(h, e), l)
      [] OTHER ->
            LET c == Cow(h, l)
            IN  IF c.list = Null THEN Failed(c.heap, Null, e)
                ELSE Result([ElFree(c.heap, c.heap.lists[c.list].p[k]) EXCEPT !.lists[c.list].p[k] = e], c.list)

\* The element itself, which leaves a hole, or a copy when the list is shared.
Take(h, l, k) ==
    IF l = Null THEN ElResult(h, Null)
    ELSE LET e == h.lists[l].p[k]
         IN  IF h.lists[l].ref # 1 THEN ElResult(ElCopy(h, e), e)
             ELSE ElResult([h EXCEPT !.lists[l].p[k] = Null], e)

Swap(h, l, k, m) ==
    LET first  == Take(h, l, k)
        second == Take(first.heap, l, m)
        once   == SetAt(second.heap, l, k, second.el)
    IN  SetAt(once.heap, once.list, m, first.el)

ReverseList(h, l) ==
    LET n == Len(h.lists[l].p)
    IN  FoldLeft(LAMBDA r, k : Swap(r.heap, r.list, k, n + 1 - k), Result(h, l),
                 [k \in 1 .. n \div 2 |-> k])

\* Each element in turn is taken out, changed by fn and put back.
MapList(h, l) ==
    LET Step(r, k) ==
            LET t == Take(r.heap, r.list, k)
            IN  IF t.el = Null THEN Result(ListFree(t.heap, r.list), Null)
                ELSE LET b == ElBump(t.heap, t.el) IN SetAt(b.heap, r.list, k, b.el)
    IN  FoldLeft(Step, Result(h, l), [k \in 1 .. Len(h.lists[l].p) |-> k])

\* In place when the first list is not shared and has the room.
Concat(h, l, m) ==
    LET p == h.lists[l].p
        q == h.lists[m].p
    IN  IF h.lists[l].ref = 1 /\ Len(p) + Len(q) <= h.lists[l].size
        THEN LET r == AddCopies(Result(h, l), q) IN Result(ListFree(r.heap, m), l)
        ELSE LET r == AddCopies(Alloc(h, Len(p) + Len(q)), p \o q)
             IN  Result(ListFree(ListFree(r.heap, l), m), r.list)

-----------------------------------------------------------------------------
(* What a client does with its variables.                                  *)

Init ==
    /\ heap = [lists |-> <<>>, els |-> <<>>]
    /\ list = [h \in Handles |-> Null]

Assign(h, r) ==
    /\ heap' = [lists |-> r.heap.lists, els |-> r.heap.els]
    /\ list' = [list EXCEPT ![h] = r.list]

Memories == {InUse(m) : m \in 0 .. MaxMemory}

Length(h) == Len(heap.lists[list[h]].p)

NewList(h) == list[h] = Null /\ \E use \in Memories, size \in 0 .. 1 : Assign(h, Alloc(use, size))

CopyList(h, g) ==
    /\ list[h] # Null /\ list[g] = Null
    /\ heap' = [heap EXCEPT !.lists[list[h]].ref = @ + 1]
    /\ list' = [list EXCEPT ![g] = list[h]]

FreeList(h) == list[h] # Null /\ Assign(h, Result(ListFree(InUse(0), list[h]), Null))

\* An element for an operation: a new one, or a copy of an element of some list.
Element(use) ==
    {NewEl(use, v) : v \in Values}
    \cup {ElResult(ElCopy(use, e), e) : e \in UNION {Range(heap.lists[list[g]].p) : g \in {g \in Handles : list[g] # Null}}}

AddElement(h) ==
    /\ list[h] # Null /\ Length(h) < MaxLen
    /\ \E use \in Memories : \E x \in Element(use) : Assign(h, Add(x.heap, list[h], x.el))

InsertElement(h) ==
    /\ list[h] # Null /\ Length(h) < MaxLen
    /\ \E use \in Memories, pos \in 1 .. Length(h) + 1 : \E x \in Element(use) :
          Assign(h, Insert(x.heap, list[h], pos, x.el))

SetElement(h) ==
    /\ list[h] # Null
    /\ \E use \in Memories, k \in 1 .. Length(h) : \E x \in Element(use) :
          Assign(h, SetAt(x.heap, list[h], k, x.el))

DropElements(h) ==
    /\ list[h] # Null
    /\ \E use \in Memories, first \in 1 .. Length(h), n \in 0 .. Length(h) :
          first + n - 1 <= Length(h) /\ Assign(h, Drop(use, list[h], first, n))

Reversed(h) == list[h] # Null /\ \E use \in Memories : Assign(h, ReverseList(use, list[h]))

Mapped(h) == list[h] # Null /\ \E use \in Memories : Assign(h, MapList(use, list[h]))

Concatenated(h, g) ==
    /\ h # g /\ list[h] # Null /\ list[g] # Null
    /\ Length(h) + Length(g) <= MaxLen
    /\ \E use \in Memories : \E r \in {Concat(use, list[h], list[g])} :
          /\ heap' = [lists |-> r.heap.lists, els |-> r.heap.els]
          /\ list' = [list EXCEPT ![h] = r.list, ![g] = Null]

Next ==
    \E h \in Handles :
        \/ NewList(h) \/ FreeList(h) \/ AddElement(h) \/ InsertElement(h) \/ SetElement(h)
        \/ DropElements(h) \/ Reversed(h) \/ Mapped(h)
        \/ \E g \in Handles : CopyList(h, g) \/ Concatenated(h, g)

Spec == Init /\ [][Next]_vars

-----------------------------------------------------------------------------

TypeOK ==
    /\ heap.lists \in [DOMAIN heap.lists -> [ref : Nat, size : Nat, p : Seq(DOMAIN heap.els)]]
    /\ heap.els \in [DOMAIN heap.els -> [ref : Nat, val : Values]]
    /\ DOMAIN heap.lists \cup DOMAIN heap.els \subseteq Objects
    /\ \A l \in DOMAIN heap.lists : Len(heap.lists[l].p) <= heap.lists[l].size
    /\ list \in [Handles -> DOMAIN heap.lists \cup {Null}]

\* Whatever succeeded or failed before, a list has as many references as variables
\* that hold it, an element as many as places of lists it stands in, and what nobody
\* holds is freed.
ReferencesAreExact ==
    /\ \A l \in DOMAIN heap.lists :
          heap.lists[l].ref = Cardinality({h \in Handles : list[h] = l}) /\ heap.lists[l].ref > 0
    /\ \A e \in DOMAIN heap.els :
          /\ heap.els[e].ref > 0
          /\ heap.els[e].ref =
                Cardinality({s \in (DOMAIN heap.lists) \X (1 .. MaxLen) :
                                s[2] <= Len(heap.lists[s[1]].p) /\ heap.lists[s[1]].p[s[2]] = e})

\* Sharing is not seen: each variable has a list of its own (user.pod "An error does
\* not corrupt internal state" included).
Abstract == INSTANCE ValueLists WITH
    value <- [h \in Handles |->
        IF list[h] = Null THEN Null
        ELSE [k \in 1 .. Length(h) |-> heap.els[heap.lists[list[h]].p[k]].val]]

ListsAreValues == Abstract!Spec
=============================================================================
