----------------------------- MODULE Ascending -----------------------------
(***************************************************************************)
(* The numbers of a finite set in ascending order: positions in a sequence  *)
(* (incidents/evidence.py), the agents a manager lists.                     *)
(***************************************************************************)
EXTENDS Integers, FiniteSets

Nth(numbers, i) == CHOOSE n \in numbers : Cardinality({ m \in numbers : m < n }) = i - 1

InOrder(numbers) == [i \in 1 .. Cardinality(numbers) |-> Nth(numbers, i)]
=============================================================================
