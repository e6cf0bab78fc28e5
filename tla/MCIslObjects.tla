----------------------------- MODULE MCIslObjects -----------------------------
(***************************************************************************)
(* What lives in an isl context for long: the table of its identifiers,    *)
(* lists, and the cache of blocks. None of the three looks at another one, *)
(* so that it is enough to let one of them move: which one is chosen at    *)
(* the start, the other two stay as they were created.                     *)
(***************************************************************************)
EXTENDS IslBlk, TLC

CONSTANTS
    Keys, HashOf, Ids, NoId, AddressFor, MaxHandles,     \* IslIdTable
    Handles, Values, Objects, MaxLen, MaxMemory, Null    \* IslList

VARIABLES
    part,                             \* the component that moves
    hash, table, ids, got,            \* IslIdTable
    heap, list                        \* IslList

ofTable == <<hash, table, ids, got>>
ofLists == <<heap, list>>
ofCache == vars                       \* IslBlk

IdTable == INSTANCE IslIdTable
Lists   == INSTANCE IslList

ASSUME ConstantsAssumption == IdTable!IdAssumption /\ Lists!ListAssumption /\ BlkAssumption

-----------------------------------------------------------------------------
(* The instances.                                                          *)

KeyNames == {"S", "T", "i", "j", "A"}

Addresses == ("S" :> 1) @@ ("T" :> 2) @@ ("i" :> 3) @@ ("j" :> 4) @@ ("A" :> 5)

\* Hashes that meet in the last entry of the small table and of the larger ones,
\* next to one whose home is the first entry: a cluster around the end of the
\* table in all combinations of three keys, and two hashes whose upper bits decide.
Hashes ==
    {("S" :> 3) @@ ("T" :> 7) @@ ("i" :> i) @@ ("j" :> j) @@ ("A" :> A) :
        i \in {3, 7, 0}, j \in {6, 7, 8}, A \in {3, 13}}

\* Blocks have no order and no names.
Symmetry == Permutations(Blocks)

\* Two lists are alike when they differ in addresses only: what matters of a list
\* is who shares it, and of an element the places where it stands.
ViewOfList(h) ==
    LET l == heap.lists[list[h]]
        Places(e) == {s \in Handles \X (1 .. MaxLen) :
                         list[s[1]] # Null /\ s[2] <= Lists!Length(s[1]) /\ heap.lists[list[s[1]]].p[s[2]] = e}
    IN  [shared |-> {g \in Handles : list[g] = list[h]}, ref |-> l.ref, size |-> l.size,
         p |-> [k \in DOMAIN l.p |-> IF l.p[k] \in DOMAIN heap.els THEN <<Places(l.p[k]), heap.els[l.p[k]]>> ELSE <<>>]]

StateView ==
    <<part, ofTable, ofCache,
      [h \in Handles |-> IF list[h] \in DOMAIN heap.lists THEN ViewOfList(h) ELSE list[h]],
      Cardinality(DOMAIN heap.lists), Cardinality(DOMAIN heap.els)>>

-----------------------------------------------------------------------------

MCInit ==
    /\ part \in {"ids", "lists", "blocks"}
    /\ IdTable!Init /\ Lists!Init /\ Init
    /\ part # "ids" => hash = CHOOSE h \in HashOf : TRUE

IdStep    == part = "ids" /\ IdTable!Next /\ UNCHANGED <<part, ofLists, ofCache>>
ListStep  == part = "lists" /\ Lists!Next /\ UNCHANGED <<part, ofTable, ofCache>>
BlockStep == part = "blocks" /\ Next /\ UNCHANGED <<part, ofTable, ofLists>>

MCNext == IdStep \/ ListStep \/ BlockStep

MCSpec == MCInit /\ [][MCNext]_<<part, ofTable, ofLists, ofCache>>

-----------------------------------------------------------------------------
(* The properties of the three modules, where they are stated and explained. *)

\* The type invariants of the three.
MCTypeOK == IdTable!TypeOK /\ Lists!TypeOK /\ TypeOK

\* Every search in the hash table comes to an empty entry, and no id is lost when
\* another one is removed (isl_hash.c).
IdsAreFound == IdTable!SearchesEnd /\ IdTable!EveryIdIsFound

\* Equal ids have equal addresses, and live as long as they are held.
IdsAreInterned == IdTable!IdsAreInterned

\* The references of a list and its elements are counted right, whatever fails.
ReferencesAreExact == Lists!ReferencesAreExact

\* Shared lists behave as values.
ListsAreValues == Lists!ListsAreValues
=============================================================================
