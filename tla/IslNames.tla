------------------------------ MODULE IslNames ------------------------------
(***************************************************************************)
(* The names of the induction PHIs of a nest, from the symbol table of the *)
(* function through applyLoopInterchange's renaming to the dimensions of   *)
(* the isl text. A name is a sequence of characters; Other characters are  *)
(* those std::isalnum() does not accept.                                   *)
(***************************************************************************)
EXTENDS Naturals, Sequences, FiniteSets, SequencesExt

CONSTANTS
    Letters, Digits, Others,   \* the characters that occur
    Names,                     \* the names PHIs have when the pass starts
    Suffix,                    \* what an interchange appends: ".interchanged"
    Depth                      \* loops of the nest

Underscore == "_"

\* What is assumed of the constants.
CharacterAssumption ==
    /\ Letters \cap Digits = {} /\ Underscore \notin Letters \cup Digits
    /\ Others \cap (Letters \cup Digits) = {}
    /\ Depth \in Nat \ {0}
    /\ \A n \in Names \cup {Suffix} : \A k \in DOMAIN n : n[k] \in Letters \cup Digits \cup Others

Characters == Letters \cup Digits \cup Others

VARIABLES names, interchanges

vars == <<names, interchanges>>

\* Mutant: other characters are dropped.
SanitizeDropping(name) ==
    LET clean == SelectSeq(name, LAMBDA c : c \in Letters \cup Digits)
    IN  CASE clean = <<>>         -> <<"u">>
          [] Head(clean) \in Digits -> <<"V", Underscore>> \o clean
          [] OTHER                -> clean

\* sanitizeISLName ("unknown" is one character here).
SanitizeISLName(name) ==
    LET clean == [k \in DOMAIN name |-> IF name[k] \in Letters \cup Digits THEN name[k] ELSE Underscore]
    IN  CASE clean = <<>>         -> <<"u">>
          [] Head(clean) \in Digits -> <<"V", Underscore>> \o clean
          [] OTHER                -> clean

\* The symbol table gives a name that is taken the first free number.
Unique(name, taken) ==
    IF name \notin taken THEN name
    ELSE name \o <<CHOOSE d \in Digits : name \o <<d>> \notin taken>>

\* Different PHIs of one function have different names.
Init ==
    /\ names \in {f \in [1 .. Depth -> Names] : IsInjective(f)}
    /\ interchanges = 0

\* The StringRef of a name whose value has got another one: as many characters
\* as the name had, whatever the freed memory holds.
NamesReadAfterFree(name) == [1 .. Len(name) -> Characters]

\* applyLoopInterchange, from the swap of the names in the descriptors on: the
\* outer PHI is renamed, and then the inner one with the outer one's old name.
Interchange ==
    /\ interchanges = 0
    /\ \E outer, inner \in 1 .. Depth :
          /\ outer < inner
          /\ \E old \in NamesReadAfterFree(names[outer]) :
                LET first  == [names EXCEPT ![outer] = Unique(names[inner] \o Suffix, Range(names))]
                    second == Unique(old \o Suffix, Range(first) \ {first[inner]})
                IN  names' = [first EXCEPT ![inner] = second]
    /\ interchanges' = 1

Finished == interchanges = 1 /\ UNCHANGED vars

Next == Interchange \/ Finished

Spec == Init /\ [][Next]_vars

-----------------------------------------------------------------------------
(* The text: buildISLTuple() with and without the suffix "_p".             *)

Dimension(k) == SanitizeISLName(names[k])

PrimedDimension(k) == Dimension(k) \o <<Underscore, "p">>

TupleNames == {Dimension(k) : k \in 1 .. Depth} \cup {PrimedDimension(k) : k \in 1 .. Depth}

\* isl's reader starts an identifier with a letter or "_" and goes on with letters,
\* digits and "_": every dimension of the text is one, whatever the IR's names.
DimensionsAreIdentifiers ==
    \A d \in TupleNames :
        /\ d # <<>> /\ Head(d) \notin Digits
        /\ \A k \in DOMAIN d : d[k] \in Letters \cup Digits \cup {Underscore, "V", "u", "p"}

\* README "The iteration domain represents all dynamic instances": the dimensions
\* of the two tuples of Before are 2 * Depth different ones. (A name that occurs
\* twice stands for one dimension, and isl makes the other equal to it.)
DimensionsAreDistinct == Cardinality(TupleNames) = 2 * Depth

\* The same before the first interchange.
FirstDimensionsAreDistinct == interchanges = 0 => DimensionsAreDistinct
=============================================================================
