----------------------------- MODULE MCPowerLoss -----------------------------
(* PowerLoss on a small instance for TLC.                                  *)
EXTENDS PowerLoss, TLC

(* No action tells one record id from another. *)
Symmetry == Permutations(RecordId)
=============================================================================
