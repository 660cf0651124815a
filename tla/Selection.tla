------------------------------ MODULE Selection ------------------------------
(***************************************************************************)
(* A selection of the elements of a sequence, told by their places: what a *)
(* list comprehension with a condition, or an index that is sorted back    *)
(* into its source's order, yields.                                        *)
(***************************************************************************)
EXTENDS Naturals, Sequences, FiniteSets

\* The elements of s at the places I, in the order of s.
Selected(s, I) ==
    [k \in 1..Cardinality(I) |->
        s[CHOOSE i \in I : Cardinality({j \in I : j <= i}) = k]]

\* The first of them.
Foremost(s, I) == s[CHOOSE i \in I : \A j \in I : i <= j]

\* The elements of s that pass a test.
Filtered(s, Test(_)) == Selected(s, {n \in DOMAIN s : Test(s[n])})
=============================================================================
