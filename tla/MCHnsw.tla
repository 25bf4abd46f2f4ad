------------------------------- MODULE MCHnsw -------------------------------
(***************************************************************************)
(* Hnsw on small instances for TLC.  From none of these vectors are two    *)
(* others equally far, by any metric; by the dot product two of them are   *)
(* not even the closest to themselves.  The last one, asked for only, is   *)
(* shorter than the rest.                                                  *)
(***************************************************************************)
EXTENDS Hnsw

Plane == <<<<1, 0>>, <<-2, 0>>, <<2, 1>>, <<3, -2>>, <<-3, -2>>, <<1>>>>
=============================================================================
