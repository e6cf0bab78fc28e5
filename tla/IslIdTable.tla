----------------------------- MODULE IslIdTable -----------------------------
(***************************************************************************)
(* The interning of isl_id objects: isl_id.c over the open-addressing hash *)
(* table of isl_hash.c. A key stands for the name and the user pointer an  *)
(* id is made for; HashOf is its 32-bit hash.                              *)
(***************************************************************************)
EXTENDS Integers, FiniteSets, Sequences, SequencesExt, Bitwise

CONSTANTS
    Keys,
    HashOf,       \* a set of hash functions [Keys -> Nat]: which one is the program's
    Ids,          \* addresses malloc may return for an id: numbers
    NoId,         \* the NULL data of an empty entry
    AddressFor,   \* the address a key's object gets when it is free
    MaxHandles    \* bound: references of one id

\* What is assumed of the constants.
IdAssumption ==
    Ids \subseteq Nat /\ NoId \notin Ids /\ AddressFor \in [Keys -> Ids] /\ MaxHandles \in Nat \ {0}

VARIABLES
    hash,     \* the hash function
    table,    \* ctx->id_table: bits, n and the data of the entries
    ids,      \* the objects that are allocated: key and ref
    got       \* by the key they asked for, the references clients hold

vars == <<hash, table, ids, got>>

-----------------------------------------------------------------------------
(* isl_hash.c                                                              *)

Size(t) == 2 ^ t.bits

\* isl_hash_bits: the first entry where a hash is looked for. (bits < 16.)
Home(h, bits) == ((h \div 2 ^ bits) ^^ h) % 2 ^ bits

HomeOf(t, p) == Home(hash[ids[p].key], t.bits)

\* The entry d steps after the home of hash h.
Probed(t, h, d) == (Home(h, t.bits) + d) % Size(t)

\* The search of isl_hash_table_find: it stops at an empty entry or at one of the
\* same hash whose data Matches.
Find(t, h, Matches(_)) ==
    Probed(t, h, Min({d \in 0 .. Size(t) - 1 :
        LET p == t.entries[Probed(t, h, d)]
        IN  p = NoId \/ (hash[ids[p].key] = h /\ Matches(p))}))

Nothing(p) == FALSE

\* What "reserve" adds: the empty entry is the caller's.
Occupy(t, slot, p) == [t EXCEPT !.entries[slot] = p, !.n = @ + 1]

\* grow_table, when the allocation succeeds.
Grow(t) ==
    LET larger == [bits |-> t.bits + 1, n |-> 0, entries |-> [slot \in 0 .. 2 * Size(t) - 1 |-> NoId]]
        Insert(u, p) == IF p = NoId THEN u ELSE Occupy(u, Find(u, hash[ids[p].key], Nothing), p)
    IN  FoldLeft(Insert, larger, [k \in 1 .. Size(t) |-> t.entries[k - 1]])

IsCrowded(t) == 4 * t.n >= 3 * Size(t)

\* Mutant: positions are compared without wrapping around.
StaysWithoutWrapping(t, p, hole, h2) == HomeOf(t, p) > hole

\* The object in entry h2 is not moved into the hole: its home lies after the hole.
\* (Both count on past the end of the table.)
Stays(t, p, hole, h2) == (Size(t) + HomeOf(t, p) - (hole + 1)) % Size(t) <= h2 - (hole + 1)

\* Mutant: the entry is emptied and no other one moves.
RemoveEntryLeavingHole(t, slot) == [t EXCEPT !.entries[slot] = NoId, !.n = @ - 1]

\* isl_hash_table_remove: the entries up to the next empty one are looked at in
\* turn and close the gap.
RemoveEntry(t, slot) ==
    LET Step(s, d) ==
            LET h2 == slot + d
                p  == s.entries[h2 % Size(t)]
            IN  CASE s.done \/ p = NoId -> [s EXCEPT !.done = TRUE]
                  [] ~ s.done /\ p # NoId /\ Stays(t, p, s.hole, h2) -> s
                  [] OTHER ->
                        [s EXCEPT !.entries[s.hole % Size(t)] = p, !.hole = h2]
        end == FoldLeft(Step, [entries |-> t.entries, hole |-> slot, done |-> FALSE],
                        [k \in 1 .. Size(t) |-> k])
    IN  [t EXCEPT !.entries = [end.entries EXCEPT ![end.hole % Size(t)] = NoId], !.n = @ - 1]

-----------------------------------------------------------------------------
(* isl_id.c                                                                *)

\* isl_ctx_alloc: isl_hash_table_init(ctx, &ctx->id_table, 0) makes four entries.
Init ==
    /\ hash \in HashOf
    /\ table = [bits |-> 2, n |-> 0, entries |-> [slot \in 0 .. 3 |-> NoId]]
    /\ ids = <<>>
    /\ got = [k \in Keys |-> <<>>]

\* The address of a new object: only that it is free matters. A key gets the same
\* address again when it can, which makes more states the same.
FreshId(k) == IF AddressFor[k] \in DOMAIN ids THEN Min(Ids \ DOMAIN ids) ELSE AddressFor[k]

Hand(k, p) == got' = [got EXCEPT ![k] = Append(@, p)]

TakeBack(k, p) == got' = [got EXCEPT ![k] = RemoveFirst(@, p)]

NewId(t, slot, k) ==
    LET p == FreshId(k)
    IN  /\ ids' = [q \in DOMAIN ids \cup {p} |-> IF q = p THEN [key |-> k, ref |-> 1] ELSE ids[q]]
        /\ table' = Occupy(t, slot, p)
        /\ Hand(k, p)

Search(t, k) == Find(t, hash[k], LAMBDA p : ids[p].key = k)

\* isl_id_alloc, the key being interned already.
AllocKnown(k) ==
    LET p == table.entries[Search(table, k)]
    IN  /\ p # NoId /\ ids[p].ref < MaxHandles
        /\ ids' = [ids EXCEPT ![p].ref = @ + 1]
        /\ Hand(k, p)
        /\ UNCHANGED <<hash, table>>

\* isl_id_alloc of a new key; a crowded table has grown before.
AllocNew(k) ==
    /\ table.entries[Search(table, k)] = NoId
    /\ DOMAIN ids # Ids
    /\ LET t == IF IsCrowded(table) THEN Grow(table) ELSE table
       IN  NewId(t, Search(t, k), k)
    /\ UNCHANGED hash

\* The same when memory runs out in id_alloc: the entry stays empty and is not
\* counted, but the table may have grown. (A failure in grow_table changes nothing.)
AllocFails(k) ==
    /\ table.entries[Search(table, k)] = NoId
    /\ table' = IF IsCrowded(table) THEN Grow(table) ELSE table
    /\ UNCHANGED <<hash, ids, got>>

\* isl_id_copy.
CopyId(k, p) ==
    /\ p \in Range(got[k]) /\ ids[p].ref < MaxHandles
    /\ ids' = [ids EXCEPT ![p].ref = @ + 1]
    /\ Hand(k, p)
    /\ UNCHANGED <<hash, table>>

\* Mutant: an id that loses one of several references leaves the table.
FreeIdAtOnce(k, p) ==
    /\ p \in Range(got[k])
    /\ TakeBack(k, p)
    /\ LET slot == Find(table, hash[ids[p].key], LAMBDA q : q = p)
       IN  table' = IF table.entries[slot] = NoId THEN table ELSE RemoveEntry(table, slot)
    /\ ids' = IF ids[p].ref > 1
              THEN [ids EXCEPT ![p].ref = @ - 1]
              ELSE [q \in DOMAIN ids \ {p} |-> ids[q]]
    /\ UNCHANGED hash

\* isl_id_free. An id the table does not find ("unable to find id") is freed all the same.
FreeId(k, p) ==
    /\ p \in Range(got[k])
    /\ TakeBack(k, p)
    /\ IF ids[p].ref > 1
       THEN ids' = [ids EXCEPT ![p].ref = @ - 1] /\ UNCHANGED table
       ELSE /\ ids' = [q \in DOMAIN ids \ {p} |-> ids[q]]
            /\ LET slot == Find(table, hash[ids[p].key], LAMBDA q : q = p)
               IN  table' = IF table.entries[slot] = NoId THEN table ELSE RemoveEntry(table, slot)
    /\ UNCHANGED hash

Next ==
    \E k \in Keys :
        \/ AllocKnown(k) \/ AllocNew(k) \/ AllocFails(k)
        \/ \E p \in DOMAIN ids : CopyId(k, p) \/ FreeId(k, p)

Spec == Init /\ [][Next]_vars

-----------------------------------------------------------------------------

Entries == {slot \in DOMAIN table.entries : table.entries[slot] # NoId}

TypeOK ==
    /\ hash \in [Keys -> Nat]
    /\ DOMAIN table.entries = 0 .. Size(table) - 1
    /\ \A slot \in Entries : table.entries[slot] \in DOMAIN ids
    /\ DOMAIN ids \subseteq Ids
    /\ \A p \in DOMAIN ids : ids[p].key \in Keys /\ ids[p].ref \in 1 .. MaxHandles
    /\ \A k \in Keys : Range(got[k]) \subseteq Ids

\* The loop of isl_hash_table_find has no other end: some entry is always empty,
\* and after a removal or a failed allocation n still counts the others.
SearchesEnd == table.n = Cardinality(Entries) /\ 4 * table.n <= 3 * Size(table)

\* Every object can be found again: no empty entry lies between its home and its
\* place, whatever was removed, moved back and rehashed in between (so that
\* isl_id_free never says "unable to find id").
EveryIdIsFound ==
    \A p \in DOMAIN ids : table.entries[Find(table, hash[ids[p].key], LAMBDA q : q = p)] = p

\* Ids of one key are one object, and an id is freed with its last reference.
Abstract == INSTANCE InternedIds WITH
    holders <- [k \in Keys |-> Len(got[k])],
    idOf <- [k \in Keys |-> IF Cardinality(Range(got[k])) = 1 THEN Head(got[k]) ELSE NoId]

IdsAreInterned == Abstract!Spec
=============================================================================
