----------------------------- MODULE InternedIds -----------------------------
(***************************************************************************)
(* What isl promises of isl_id objects: while somebody holds an id of a    *)
(* key (a name and a user pointer), everybody who asks for that key gets   *)
(* the same object, and no other key has it. isl compares ids, and the     *)
(* spaces made of them, by pointer.                                        *)
(***************************************************************************)
EXTENDS Naturals

CONSTANTS Keys, Ids, NoId

VARIABLES
    idOf,      \* the object of each key, NoId when nobody holds one
    holders    \* how many references of it are held

Init ==
    /\ idOf = [k \in Keys |-> NoId]
    /\ holders = [k \in Keys |-> 0]

\* isl_id_alloc and isl_id_copy, when they succeed.
Acquire(k) ==
    /\ holders' = [holders EXCEPT ![k] = @ + 1]
    /\ IF holders[k] > 0
       THEN UNCHANGED idOf
       ELSE \E p \in Ids \ {idOf[j] : j \in Keys} : idOf' = [idOf EXCEPT ![k] = p]

\* isl_id_free.
Release(k) ==
    /\ holders[k] > 0
    /\ holders' = [holders EXCEPT ![k] = @ - 1]
    /\ idOf' = IF holders[k] = 1 THEN [idOf EXCEPT ![k] = NoId] ELSE idOf

Next == \E k \in Keys : Acquire(k) \/ Release(k)

Spec == Init /\ [][Next]_<<idOf, holders>>
=============================================================================
