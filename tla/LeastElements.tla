---------------------------- MODULE LeastElements ----------------------------
(* Induction on the naturals for the proofs about searches, loops and forests:*)
(* what fails for some number fails for a least one.                          *)
EXTENDS Naturals, WellFoundedInduction, TLAPS

\* The order of the naturals is well-founded.
LEMMA NatOrder ==
    \E R : IsWellFoundedOn(R, Nat) /\ \A k, m \in Nat : k < m => <<k, m>> \in R
<1>1. \A k, m \in Nat : k < m => <<k, m>> \in OpToRel(<, Nat)
    BY Zenon DEF OpToRel
<1>. QED BY <1>1, NatLessThanWellFounded, Zenon

\* A set of naturals that is not empty has a least element.
LEMMA LeastElement ==
    ASSUME NEW T, T \subseteq Nat, T # {}
    PROVE  \E m \in T : \A k \in T : m <= k
<1>1. PICK R : IsWellFoundedOn(R, Nat) /\ \A k, m \in Nat : k < m => <<k, m>> \in R
    BY NatOrder, Zenon
<1>2. IsWellFoundedOn(R, Nat)
    BY <1>1
<1>3. \E m \in T : \A k \in T : ~ (<<k, m>> \in R)
    BY <1>2, WFMin, Zenon
<1>4. PICK m \in T : \A k \in T : ~ (<<k, m>> \in R)
    BY <1>3
<1>5. ASSUME NEW k \in T PROVE m <= k
  <2>1. ~(k < m)
      BY <1>1, <1>4
  <2>. QED BY <2>1
<1>. QED BY <1>5

\* A set of naturals with an upper bound has a greatest element.
LEMMA GreatestElement ==
    ASSUME NEW n \in Nat, NEW T, T \subseteq 0 .. n, T # {}
    PROVE  \E m \in T : \A k \in T : k <= m
<1> DEFINE U == {n - k : k \in T}
<1>1. U \subseteq Nat
    OBVIOUS
<1>2. U # {}
  <2>1. PICK k \in T : TRUE
      OBVIOUS
  <2>2. n - k \in U
      BY <2>1
  <2>. QED BY <2>2
<1>3. PICK u \in U : \A k \in U : u <= k
  <2> HIDE DEF U
  <2>. QED BY <1>1, <1>2, LeastElement
<1>4. PICK m \in T : u = n - m
    OBVIOUS
<1>5. ASSUME NEW k \in T PROVE k <= m
  <2>1. u <= n - k
      BY <1>3
  <2>. QED BY <1>4, <2>1
<1>. QED BY <1>5

\* An interval that ends before it begins.
LEMMA EmptyInterval == ASSUME NEW n \in Nat PROVE (n + 1) .. n = {}
OBVIOUS
=============================================================================
