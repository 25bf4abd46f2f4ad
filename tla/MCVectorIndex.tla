--------------------------- MODULE MCVectorIndex ---------------------------
(***************************************************************************)
(* VectorIndex on small instances for TLC.  The vectors are those of       *)
(* MCHnsw, as few as there are nodes, and its short one.  The values       *)
(* stored print alike but for their types and the sign of zero; filters    *)
(* ask for two more.                                                       *)
(***************************************************************************)
EXTENDS VectorIndex, TLC

Plane == <<<<1, 0>>, <<-2, 0>>, <<2, 1>>, <<3, -2>>, <<1>>>>

Nulls == {Text(0), Number(0), MinusZero}

Asked == Nulls \cup {Number(1), Truth(FALSE)}

Symmetry == Permutations(RecordId) \cup Permutations(Dims)
=============================================================================
