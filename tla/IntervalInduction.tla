------------------------- MODULE IntervalInduction -------------------------
(***************************************************************************)
(* Induction over an interval of naturals, stated for a set rather than a *)
(* predicate so that the provers can instantiate it: the loops of the      *)
(* models (the update command's statements, the array filter's positions) *)
(* are recursive functions over 0..N, and what they compute is shown by    *)
(* this induction.  It rests on the well-foundedness of < on Nat.          *)
(***************************************************************************)
EXTENDS Naturals, WellFoundedInduction, TLAPS

\* Every non-empty set of naturals has a least element.
LEMMA LeastNat ==
    ASSUME NEW T \in SUBSET Nat, T # {}
    PROVE  \E x \in T : \A y \in T : x <= y
<1>1. PICK x \in T : \A y \in T : ~(<<y, x>> \in OpToRel(<, Nat))
    BY NatLessThanWellFounded, WFMin
<1>2. ASSUME NEW y \in T PROVE x <= y
    <2>1. ~(<<y, x>> \in OpToRel(<, Nat))
        BY <1>1
    <2>2. <<y, x>> \in Nat \X Nat
        OBVIOUS
    <2>3. ~(y < x)
        BY <2>1, <2>2, Zenon DEF OpToRel
    <2>. QED
        BY <2>3
<1>. QED
    BY <1>2

\* A set P that contains a and, with k - 1, every k of (a+1)..N contains
\* the whole interval a..N.
LEMMA IntervalInduct ==
    ASSUME NEW a \in Nat, NEW N \in Nat, NEW P,
           a \in P,
           \A k \in (a + 1)..N : k - 1 \in P => k \in P
    PROVE  a..N \subseteq P
<1> SUFFICES ASSUME (a..N) \ P # {} PROVE FALSE
    OBVIOUS
<1>0. (a..N) \ P \in SUBSET Nat
    OBVIOUS
<1>1. PICK x \in (a..N) \ P : \A y \in (a..N) \ P : x <= y
    BY <1>0, LeastNat
<1>2. x # a
    BY <1>1
<1>3. x \in (a + 1)..N /\ x - 1 \in a..N
    BY <1>1, <1>2
<1>4. x - 1 \in P
    BY <1>1, <1>3
<1>. QED
    BY <1>1, <1>3, <1>4

=============================================================================
