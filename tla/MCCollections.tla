--------------------------- MODULE MCCollections ---------------------------
(* Collections on small instances for TLC. *)
EXTENDS Collections

(* Requests differ in nothing but what they ask for. *)
Symmetry == Permutations(Task)
=============================================================================
