------------------------------ MODULE Distance ------------------------------
(***************************************************************************)
(* The distances of src/hnsw.rs between vectors of integers.  In a release *)
(* build vectors of different lengths are compared too: zip() ends with    *)
(* the shorter one, norms do not.                                          *)
(*                                                                         *)
(* Distances are only ever compared with distances from the same vector,   *)
(* and only their order matters.  For the cosine, whose value no integer   *)
(* holds, its square with its sign takes its place.                        *)
(***************************************************************************)
EXTENDS Integers, Sequences

CONSTANT Scale  \* what all squared cosines are whole multiples of 1 / Scale

DistanceMetric == {"L2", "Cosine", "DotProduct"}

(* iter().sum().                                                           *)
SumOf(terms) ==
    LET upTo[i \in 0..Len(terms)] == IF i = 0 THEN 0 ELSE upTo[i - 1] + terms[i]
    IN  upTo[Len(terms)]

(* a.iter().zip(b): as far as both go.                                     *)
Zipped(a, b) == 1..(IF Len(a) < Len(b) THEN Len(a) ELSE Len(b))

Dot(a, b) == SumOf([i \in Zipped(a, b) |-> a[i] * b[i]])

SquaredL2(a, b) == SumOf([i \in Zipped(a, b) |-> (a[i] - b[i]) * (a[i] - b[i])])

NegativeDotProduct(a, b) == -Dot(a, b)

(* A vector of zeros has no direction: it is at 1.0 from every other, as   *)
(* if orthogonal.                                                          *)
SignedSquare(n) == IF n < 0 THEN -(n * n) ELSE n * n

CosineDistance(a, b) ==
    LET norms == Dot(a, a) * Dot(b, b)
    IN  IF norms = 0 THEN 0 ELSE -((Scale * SignedSquare(Dot(a, b))) \div norms)

DistanceBy(by, a, b) ==
    CASE by = "L2"         -> SquaredL2(a, b)
      [] by = "Cosine"     -> CosineDistance(a, b)
      [] by = "DotProduct" -> NegativeDotProduct(a, b)
=============================================================================
