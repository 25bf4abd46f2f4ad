-------------------------- MODULE MCIndexedEngine --------------------------
(* IndexedEngine on small instances for TLC.  Ids are scanned in order and *)
(* cannot be exchanged; dimensions are only told apart.                    *)
EXTENDS IndexedEngine, TLC

Symmetry == Permutations(Dims)

(* bound: a crash or an I/O error, at any step, but not both.              *)
OneAccident == crashes + faults <= 1
=============================================================================
