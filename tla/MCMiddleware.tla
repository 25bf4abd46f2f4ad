---------------------------- MODULE MCMiddleware ----------------------------
(* The middleware on a small instance: no keys, or alice's only. *)
EXTENDS Middleware, TLC

CONSTANTS alice, bob

MCKeySets == {{}, {alice}}

Symmetry == Permutations(Task)
=============================================================================
