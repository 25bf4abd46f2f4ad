------------------------------ MODULE MCEngine ------------------------------
(* Engine, and the store it implements, on small instances for TLC.        *)
EXTENDS EngineKV, TLC

(* No action tells one record id from another. *)
Symmetry == Permutations(RecordId)
=============================================================================
