------------------------------- MODULE Clients -------------------------------
(***************************************************************************)
(* What the rate limiter and the anomaly detector of src/bin/server.rs     *)
(* share: the clients they tell apart and the clock they both read.        *)
(*                                                                         *)
(* Time is counted in ticks of the 0.001 s to which the detector clamps an *)
(* interval.  The clock is monotonic and moves between any two steps.      *)
(***************************************************************************)
EXTENDS Integers, Sequences

CONSTANTS
    Identity,   \* the API keys, or the one identity all share without keys
    Gap         \* how much time passes at once, in ticks

ASSUME ClientsAssumption == Gap \subseteq Nat

VARIABLE clock  \* Instant::now()

Passes(gap) == clock' = clock + gap

MinOf(a, b) == IF a < b THEN a ELSE b

MaxOf(a, b) == IF a > b THEN a ELSE b
=============================================================================
