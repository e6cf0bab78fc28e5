----------------------------- MODULE ValueLists -----------------------------
(***************************************************************************)
(* What isl promises of its lists (and of all its objects): a variable     *)
(* holds a value of its own. An operation replaces the value of the        *)
(* variables it takes, by NULL when it fails, and touches no other one.    *)
(***************************************************************************)
EXTENDS Naturals, Sequences, SequencesExt

CONSTANTS Handles, Values, Null

VARIABLE value   \* of each variable: a sequence of elements, or Null

Init == value = [h \in Handles |-> Null]

Set(h, v) == value' = [value EXCEPT ![h] = v]

Bumped(v) == (v + 1) % (Max(Values) + 1)

New(h) == value[h] = Null /\ Set(h, <<>>)

CopyTo(h, g) == value[g] = Null /\ Set(g, value[h])

Free(h) == Set(h, Null)

Add(h) == \E v \in Values : Set(h, Append(value[h], v))

Drop(h) ==
    \E first \in 1 .. Len(value[h]), n \in 0 .. Len(value[h]) :
        first + n - 1 <= Len(value[h])
        /\ Set(h, SubSeq(value[h], 1, first - 1) \o SubSeq(value[h], first + n, Len(value[h])))

Insert(h) == \E v \in Values, k \in 1 .. Len(value[h]) + 1 : Set(h, InsertAt(value[h], k, v))

SetAt(h) == \E v \in Values, k \in DOMAIN value[h] : Set(h, [value[h] EXCEPT ![k] = v])

ReverseAll(h) == Set(h, Reverse(value[h]))

Map(h) == Set(h, [k \in DOMAIN value[h] |-> Bumped(value[h][k])])

Concat(h, g) ==
    /\ h # g /\ value[g] # Null
    /\ value' = [value EXCEPT ![h] = value[h] \o value[g], ![g] = Null]

ConcatFails(h, g) == value' = [value EXCEPT ![h] = Null, ![g] = Null]

Next ==
    \E h \in Handles :
        \/ New(h)
        \/ /\ value[h] # Null
           /\ \/ Free(h) \/ Add(h) \/ Drop(h) \/ Insert(h) \/ SetAt(h) \/ ReverseAll(h) \/ Map(h)
              \/ \E g \in Handles : CopyTo(h, g) \/ Concat(h, g) \/ ConcatFails(h, g)

Spec == Init /\ [][Next]_value
=============================================================================
