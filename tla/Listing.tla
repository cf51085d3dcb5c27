------------------------------ MODULE Listing ------------------------------
(***************************************************************************)
(* Lists made by sorting and filtering (Array.prototype.sort with a        *)
(* comparator that tells any two elements apart, Array.prototype.filter).  *)
(***************************************************************************)
EXTENDS Naturals, FiniteSets

(* The elements of S in the order R: each comes after those that R puts before it. *)
ListedBy(S, R) ==
  LET rank == [x \in S |-> Cardinality({y \in S : <<y, x>> \in R})]
  IN  [i \in 1 .. Cardinality(S) |-> CHOOSE x \in S : rank[x] = i - 1]

(* What a list has at the indices I. *)
Sublist(list, I) ==
  LET kept == ListedBy(I, {x \in I \X I : x[1] < x[2]})
  IN  [k \in 1 .. Cardinality(I) |-> list[kept[k]]]

=============================================================================
