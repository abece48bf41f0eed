------------------------------- MODULE Sorting -------------------------------
(***************************************************************************)
(* Python's sorted() over a set of numbers.                                *)
(***************************************************************************)
EXTENDS Naturals, FiniteSets

\* The k-th of them has k - 1 below it.
Sorted(numbers) ==
  [k \in 1 .. Cardinality(numbers) |->
     CHOOSE n \in numbers : Cardinality({m \in numbers : m < n}) = k - 1]
=============================================================================
