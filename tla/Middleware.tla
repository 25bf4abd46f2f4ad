----------------------------- MODULE Middleware -----------------------------
(***************************************************************************)
(* security_middleware of src/bin/server.rs: every request under /v1 is    *)
(* given an identity, checked against that identity's token bucket, and,   *)
(* if it is let through, measured by the anomaly detector before it        *)
(* reaches its handler.                                                    *)
(*                                                                         *)
(* Identity and bucket are settled in one step, under the limiter's mutex. *)
(* The clock reading for the detector comes later, and the detector's own  *)
(* step later still: requests of one client overtake one another there.    *)
(***************************************************************************)
EXTENDS RateLimiter, AnomalyDetector, FiniteSets

CONSTANTS
    Credential,     \* what requests show as a bearer token, NoToken included
    NoToken,        \* no Authorization header, or not one of this form
    Anonymous,      \* "__anonymous_shared_bucket__"
    KeySets,        \* the values of NEURASTORE_API_KEYS to check
    MaxRequests,    \* bound: requests of a client the detector sees
    MaxSteps        \* bound: how often time passes

ASSUME MiddlewareAssumption ==
    /\ IsFiniteSet(Task)
    /\ NoToken \in Credential
    /\ Identity = (Credential \ {NoToken}) \cup {Anonymous}
    /\ \A keys \in KeySets :
          IsFiniteSet(keys) /\ keys \subseteq Credential \ {NoToken, Anonymous}
    /\ MaxRequests \in Nat /\ MaxSteps \in Nat

VARIABLES
    config,     \* SecurityConfig
    passed,     \* a request the limiter let through, not yet at the detector
    steps       \* bound only: how often time has passed

detectorOwn == <<who, now, baselines, flagged, measured, arrivals, overtaken>>

middlewareVars ==
    <<clock, buckets, admitted, detectorOwn, config, passed, steps>>

(* main: without a key in NEURASTORE_API_KEYS there is no authentication;  *)
(* the limiter and the detector are opt-in, too.                           *)
SecurityConfig == [api_keys : KeySets, rate_limiter : BOOLEAN, anomaly_detector : BOOLEAN]

MiddlewareInit ==
    /\ LimiterInit
    /\ DetectorInit
    /\ config \in SecurityConfig
    /\ passed = [t \in Task |-> Nobody]
    /\ steps = 0

-----------------------------------------------------------------------------
(* Mutant: the bucket is that of whatever key the request shows.           *)
IdentifyByHeader(credential) ==
    IF credential = NoToken THEN Nobody ELSE credential

Identify(credential) ==
    CASE config.api_keys = {} -> Anonymous
      [] credential \in config.api_keys -> credential
      [] OTHER -> Nobody

(* 401: nothing of the request is remembered.                              *)
Unauthorized(credential) ==
    /\ Identify(credential) = Nobody
    /\ UNCHANGED middlewareVars

(* On to the detector, or to the handler if there is none.                 *)
Onward(t, id) ==
    /\ Len(arrivals[id]) < MaxRequests
    /\ passed[t] = Nobody /\ who[t] = Nobody
    /\ passed' = [passed EXCEPT ![t] = IF config.anomaly_detector THEN id ELSE Nobody]
    /\ UNCHANGED <<detectorOwn, config, steps>>

(* Mutant: 429 does not end the request.                                   *)
OnwardRefused(id) ==
    /\ config.rate_limiter
    /\ TooManyRequests(id)
    /\ \E t \in Task : Onward(t, id)

(* 429: the bucket remembers the refill, the detector never hears of it.   *)
Refuse(id) ==
    /\ config.rate_limiter
    /\ TooManyRequests(id)
    /\ UNCHANGED <<detectorOwn, config, passed, steps>>

Admit(t, id) ==
    /\ config.rate_limiter
    /\ Allow(id)
    /\ Onward(t, id)

AdmitUnlimited(t, id) ==
    /\ ~config.rate_limiter
    /\ Onward(t, id)
    /\ UNCHANGED <<clock, buckets, admitted>>

ReadClock(t) ==
    /\ passed[t] # Nobody
    /\ Arrive(t, passed[t])
    /\ passed' = [passed EXCEPT ![t] = Nobody]
    /\ UNCHANGED <<buckets, admitted, config, steps>>

Measure(t) ==
    /\ FirstSeen(t) \/ RecordAndCheck(t)
    /\ UNCHANGED <<buckets, admitted, config, passed, steps>>

Tick ==
    /\ steps < MaxSteps
    /\ steps' = steps + 1
    /\ \E gap \in Gap : Passes(gap)
    /\ UNCHANGED <<buckets, admitted, detectorOwn, config, passed>>

MiddlewareNext ==
    \/ \E credential \in Credential : Unauthorized(credential)
    \/ \E credential \in Credential :
          LET id == Identify(credential) IN
          /\ id # Nobody
          /\ \/ Refuse(id)
             \/ \E t \in Task : Admit(t, id) \/ AdmitUnlimited(t, id)
    \/ \E t \in Task : ReadClock(t) \/ Measure(t)
    \/ Tick

MiddlewareSpec == MiddlewareInit /\ [][MiddlewareNext]_middlewareVars

-----------------------------------------------------------------------------
(* Safety. *)

(* What is let through reaches the detector exactly once, and what is      *)
(* turned away never does, however the requests of a client interleave:    *)
(* every admission is a measured request or one still on its way.          *)
InFlight(id) == {t \in Task : passed[t] = id \/ who[t] = id}

MeasuredOnce ==
    config.rate_limiter /\ config.anomaly_detector =>
        \A id \in Identity :
            Len(admitted[id]) =
                baselines[id].request_count + Cardinality(InFlight(id))

(* server.rs:541-549: one cannot get around the limit by showing another   *)
(* key on every request.  Of all requests together, between any two that   *)
(* were let through, there are no more than so many valid keys allow.      *)
Admissions(from, to) ==
    {p \in UNION {{id} \X DOMAIN admitted[id] : id \in Identity} :
        admitted[p[1]][p[2]] \in from..to}

Valid == IF config.api_keys = {} THEN {Anonymous} ELSE config.api_keys

Moments == UNION {{admitted[id][i] : i \in DOMAIN admitted[id]} : id \in Identity}

NoExtraBuckets ==
    \A from, to \in Moments : from <= to =>
        Cardinality(Admissions(from, to)) * Token
            <= Cardinality(Valid) * (Burst + Rate * (to - from))
=============================================================================
