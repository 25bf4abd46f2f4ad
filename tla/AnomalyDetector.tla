-------------------------- MODULE AnomalyDetector --------------------------
(***************************************************************************)
(* The anomaly detector of src/bin/server.rs: for each client a fast and a *)
(* slow moving average of its request rate, and a report when the fast one *)
(* is far above the slow one.                                              *)
(*                                                                         *)
(* The middleware reads the clock BEFORE record_and_check takes the mutex: *)
(* the evaluation of Instant::now() and the update are two steps, and the  *)
(* readings of two requests of one client can be applied in either order.  *)
(*                                                                         *)
(* A rate is a whole number of some small unit; the code has floating-     *)
(* point ones.                                                             *)
(***************************************************************************)
EXTENDS Clients

CONSTANTS
    Task,          \* tasks of the server, each carrying one request at a time
    Nobody,        \* the task carries no request
    FullRate,      \* the rate of a request every tick
    MinRate,       \* the 0.01/s below which no baseline counts
    MinRequests,   \* min_requests
    Threshold      \* threshold_multiplier

ASSUME DetectorAssumption ==
    /\ Nobody \notin Identity
    /\ FullRate \in Nat /\ MinRate \in Nat \ {0} /\ MinRequests \in Nat \ {0}
    /\ Threshold \in Nat \ {0, 1}

VARIABLES
    who, now,      \* a request past the rate limiter: its client, its reading
    baselines,     \* AnomalyDetector::baselines
    flagged,       \* the client's last record_and_check returned a report
    measured,      \* observability only: lowest and highest rate measured
    arrivals,      \* observability only: the readings, in the order taken
    overtaken      \* observability only: was a reading applied before an earlier one?

detectorVars ==
    <<clock, who, now, baselines, flagged, measured, arrivals, overtaken>>

Baseline ==
    [fast_rate : Nat, slow_rate : Nat, last_seen : Nat, request_count : Nat]

DetectorTypeOK ==
    /\ clock \in Nat
    /\ who \in [Task -> Identity \cup {Nobody}]
    /\ now \in [Task -> Nat]
    /\ baselines \in [Identity -> Baseline]
    /\ flagged \in [Identity -> BOOLEAN]
    /\ measured \in [Identity -> [low : Nat, high : Nat]]
    /\ arrivals \in [Identity -> Seq(Nat)]
    /\ overtaken \in [Identity -> BOOLEAN]

(* or_insert; last_seen is set by the first request, before it is read.    *)
NoBaseline ==
    [fast_rate |-> 0, slow_rate |-> 0, last_seen |-> 0, request_count |-> 0]

DetectorInit ==
    /\ clock = 0
    /\ who = [t \in Task |-> Nobody]
    /\ now = [t \in Task |-> 0]
    /\ baselines = [id \in Identity |-> NoBaseline]
    /\ flagged = [id \in Identity |-> FALSE]
    /\ measured = [id \in Identity |-> [low |-> FullRate, high |-> 0]]
    /\ arrivals = [id \in Identity |-> <<>>]
    /\ overtaken = [id \in Identity |-> FALSE]

-----------------------------------------------------------------------------
(* security_middleware evaluates Instant::now() for the call.              *)
Arrive(t, id) ==
    /\ who[t] = Nobody
    /\ who' = [who EXCEPT ![t] = id]
    /\ now' = [now EXCEPT ![t] = clock]
    /\ arrivals' = [arrivals EXCEPT ![id] = Append(@, clock)]
    /\ UNCHANGED <<clock, baselines, flagged, measured, overtaken>>

(* The rate a request measures; a reading older than last_seen counts as   *)
(* no time at all (saturating_duration_since).                             *)
Instantaneous(t) ==
    FullRate \div MaxOf(now[t] - baselines[who[t]].last_seen, 1)

(* Mutant: the averages are blended from zero, never seeded.               *)
BlendedFromZero(t) ==
    LET b == baselines[who[t]]  rate == Instantaneous(t) IN
    IF b.request_count = 0 THEN NoBaseline ELSE
    [b EXCEPT !.fast_rate = (rate + @) \div 2,
              !.slow_rate = (rate + 49 * @) \div 50]

(* Mutant: alpha_fast and alpha_slow change places.                        *)
AlphasSwapped(t) ==
    LET b == baselines[who[t]]  rate == Instantaneous(t) IN
    CASE b.request_count = 0 -> b
      [] b.request_count = 1 -> [b EXCEPT !.fast_rate = rate, !.slow_rate = rate]
      [] OTHER -> [b EXCEPT !.slow_rate = (rate + @) \div 2,
                            !.fast_rate = (rate + 49 * @) \div 50]

(* The first request measures nothing, the second seeds both averages, and *)
(* the later ones are blended in with alpha_fast = 0.5, alpha_slow = 0.02. *)
Averaged(t) ==
    LET b == baselines[who[t]]  rate == Instantaneous(t) IN
    CASE b.request_count = 0 -> b
      [] b.request_count = 1 -> [b EXCEPT !.fast_rate = rate, !.slow_rate = rate]
      [] OTHER -> [b EXCEPT !.fast_rate = (rate + @) \div 2,
                            !.slow_rate = (rate + 49 * @) \div 50]

(* What record_and_check leaves of the baseline.                           *)
Updated(t) ==
    [Averaged(t) EXCEPT !.last_seen = now[t], !.request_count = @ + 1]

Anomalous(b) ==
    /\ b.request_count > MinRequests
    /\ b.slow_rate >= MinRate
    /\ b.fast_rate >= Threshold * b.slow_rate

(* A request of the same client read the clock earlier and still waits.    *)
Overtakes(t) == \E u \in Task : who[u] = who[t] /\ now[u] < now[t]

Overtaking(t) == overtaken' = [overtaken EXCEPT ![who[t]] = @ \/ Overtakes(t)]

(* The first request ever: no interval, and no report.                     *)
FirstSeen(t) ==
    /\ who[t] # Nobody
    /\ baselines[who[t]].request_count = 0
    /\ baselines' = [baselines EXCEPT ![who[t]] = Updated(t)]
    /\ flagged' = [flagged EXCEPT ![who[t]] = FALSE]
    /\ who' = [who EXCEPT ![t] = Nobody]
    /\ Overtaking(t)
    /\ UNCHANGED <<clock, now, measured, arrivals>>

RecordAndCheck(t) ==
    /\ who[t] # Nobody
    /\ baselines[who[t]].request_count > 0
    /\ baselines' = [baselines EXCEPT ![who[t]] = Updated(t)]
    /\ flagged' = [flagged EXCEPT ![who[t]] = Anomalous(Updated(t))]
    /\ measured' = [measured EXCEPT ![who[t]] =
          [low |-> MinOf(@.low, Instantaneous(t)),
           high |-> MaxOf(@.high, Instantaneous(t))]]
    /\ who' = [who EXCEPT ![t] = Nobody]
    /\ Overtaking(t)
    /\ UNCHANGED <<clock, now, arrivals>>

DetectorTick ==
    /\ \E gap \in Gap : Passes(gap)
    /\ UNCHANGED <<who, now, baselines, flagged, measured, arrivals, overtaken>>

DetectorNext ==
    \/ \E t \in Task :
          \/ \E id \in Identity : Arrive(t, id)
          \/ FirstSeen(t)
          \/ RecordAndCheck(t)
    \/ DetectorTick

DetectorSpec == DetectorInit /\ [][DetectorNext]_detectorVars

-----------------------------------------------------------------------------
(* Safety. *)

(* No report without a change of pace: the warm-up of the averages and     *)
(* their long memory never amount to one.  Of a client that is flagged,    *)
(* some interval was Threshold times as fast as some other.                *)
FlaggedMeansSpike ==
    \A id \in Identity : flagged[id] =>
        measured[id].high >= Threshold * measured[id].low

(* The reverse, and the promise of src/bin/server.rs:293-299: a request of *)
(* an established client that comes 3 * Threshold times as fast as the     *)
(* baseline it finds is reported, however the client behaved before.       *)
BurstIsFlagged ==
    [][\A t \in Task :
          LET b == baselines[who[t]] IN
          /\ RecordAndCheck(t)
          /\ b.request_count >= MinRequests
          /\ b.slow_rate >= MinRate
          /\ Instantaneous(t) >= 3 * Threshold * b.slow_rate
          => flagged'[who[t]]]_detectorVars

(* The test steady_rate_requests_never_flagged, at src/bin/server.rs:2358: *)
(* a client whose requests come at a steady pace is not reported.  Where a *)
(* reading is applied before an earlier one, the interval measured spans   *)
(* both and the next one none, and the test's promise does not extend to   *)
(* its client.                                                             *)
Steady(readings) ==
    \A i, j \in 1..Len(readings) - 1 :
        readings[i + 1] - readings[i] = readings[j + 1] - readings[j]

SteadyNeverFlagged ==
    \A id \in Identity :
        ~overtaken[id] /\ Steady(arrivals[id]) => ~flagged[id]

(* Between the lowest and the highest rate measured lie both averages.     *)
AveragesBetween ==
    \A id \in Identity : baselines[id].request_count >= 2 =>
        /\ measured[id].low <= baselines[id].slow_rate
        /\ baselines[id].fast_rate <= measured[id].high

DetectorInv == DetectorTypeOK /\ AveragesBetween /\ FlaggedMeansSpike

(* The strengthening of SteadyNeverFlagged the proof needs.  Unless one    *)
(* overtook another, the readings were applied in the order they were      *)
(* taken, and the requests on their way carry the ones that follow; of a   *)
(* steady client, every interval measured the same rate.                   *)
Waiting(id) == {t \in Task : who[t] = id}

InTurn(waiting, taken, readings, n) ==
    \E place \in [waiting -> (n + 1)..Len(readings)] :
        /\ \A i \in (n + 1)..Len(readings) : \E t \in waiting : place[t] = i
        /\ \A t, u \in waiting : place[t] = place[u] => t = u
        /\ \A t \in waiting : taken[t] = readings[place[t]]

SteadyInv ==
    \A id \in Identity :
        LET b == baselines[id]  readings == arrivals[id]  n == b.request_count IN
        /\ \A i \in DOMAIN readings : readings[i] <= clock
        /\ \A i, j \in DOMAIN readings : i <= j => readings[i] <= readings[j]
        /\ ~overtaken[id] =>
              /\ n <= Len(readings)
              /\ n > 0 => b.last_seen = readings[n]
              /\ InTurn(Waiting(id), now, readings, n)
        /\ ~overtaken[id] /\ Steady(readings) =>
              /\ n >= 2 => /\ b.fast_rate = FullRate \div MaxOf(readings[2] - readings[1], 1)
                          /\ b.slow_rate = b.fast_rate
              /\ ~flagged[id]
=============================================================================
