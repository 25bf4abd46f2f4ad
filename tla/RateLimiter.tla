---------------------------- MODULE RateLimiter ----------------------------
(***************************************************************************)
(* The token buckets of src/bin/server.rs, one for each client.  check()   *)
(* runs under a mutex and reads the clock there, so the requests of a      *)
(* client pass it one at a time and in time order.                         *)
(*                                                                         *)
(* Tokens are counted in parts of a token: the code has them as floating-  *)
(* point numbers, whose rounding is left out.                              *)
(***************************************************************************)
EXTENDS Clients

CONSTANTS
    Token,      \* parts of a token
    Rate,       \* rate_per_sec: parts of a token refilled in a tick
    Burst       \* burst, in parts of a token

ASSUME RateLimiterAssumption ==
    Token \in Nat \ {0} /\ Rate \in Nat \ {0} /\ Burst \in Nat

VARIABLES
    buckets,    \* RateLimiter::buckets: tokens and last_refill
    admitted    \* observability only: when each client was let through

limiterVars == <<clock, buckets, admitted>>

(* or_insert: a client the limiter never saw has a full bucket as of now.  *)
FullBucket == [tokens |-> Burst, last_refill |-> -1]

Bucket == [tokens : 0..Burst, last_refill : {-1} \cup Nat]

LimiterTypeOK ==
    /\ clock \in Nat
    /\ buckets \in [Identity -> Bucket]
    /\ admitted \in [Identity -> Seq(Nat)]

LimiterInit ==
    /\ clock = 0
    /\ buckets = [id \in Identity |-> FullBucket]
    /\ admitted = [id \in Identity |-> <<>>]

-----------------------------------------------------------------------------
Elapsed(id) ==
    IF buckets[id].last_refill = -1 THEN 0 ELSE clock - buckets[id].last_refill

(* Mutant: the burst does not cap the refill. *)
RefilledUncapped(id) == buckets[id].tokens + Elapsed(id) * Rate

Refilled(id) == MinOf(buckets[id].tokens + Elapsed(id) * Rate, Burst)

(* check(): refill, then take a token if there is one.  The last refill is *)
(* now, taken or not.                                                      *)
Allow(id) ==
    /\ Refilled(id) >= Token
    /\ buckets' = [buckets EXCEPT ![id] =
          [tokens |-> Refilled(id) - Token, last_refill |-> clock]]
    /\ admitted' = [admitted EXCEPT ![id] = Append(@, clock)]
    /\ UNCHANGED clock

(* Mutant: a request that is turned away resets the clock of the refill,   *)
(* but does not put the refill into the bucket.                            *)
RefillLost(id) ==
    /\ Refilled(id) < Token
    /\ buckets' = [buckets EXCEPT ![id].last_refill = clock]
    /\ UNCHANGED <<clock, admitted>>

TooManyRequests(id) ==
    /\ Refilled(id) < Token
    /\ buckets' = [buckets EXCEPT ![id] =
          [tokens |-> Refilled(id), last_refill |-> clock]]
    /\ UNCHANGED <<clock, admitted>>

LimiterTick == (\E gap \in Gap : Passes(gap)) /\ UNCHANGED <<buckets, admitted>>

LimiterNext ==
    \/ \E id \in Identity : Allow(id) \/ TooManyRequests(id)
    \/ LimiterTick

LimiterSpec == LimiterInit /\ [][LimiterNext]_limiterVars

-----------------------------------------------------------------------------
(* Safety. *)

(* However a client times its requests, rejected ones included: of any     *)
(* stretch of its requests that were let through there are no more than    *)
(* the burst and what the rate refills in the meantime.                    *)
RateHolds ==
    \A id \in Identity :
        \A i, j \in DOMAIN admitted[id] : i <= j =>
            (j - i + 1) * Token <= Burst + Rate * (admitted[id][j] - admitted[id][i])

(* server.rs:255-258: and no less.  A client is only turned away if one    *)
(* more request would exceed, over some stretch of those let through, the  *)
(* burst and the refill: the requests turned away before, however many,    *)
(* cost it nothing.                                                        *)
AtLimit(id) ==
    LET all == Append(admitted[id], clock)
    IN  \E i \in DOMAIN all :
           (Len(all) - i + 1) * Token > Burst + Rate * (clock - all[i])

RefusesOnlyAtLimit == \A id \in Identity : Refilled(id) < Token => AtLimit(id)

(* The strengthening of RateHolds the proof needs: what a bucket holds     *)
(* counts against the client as if it had been spent.                      *)
Spendable ==
    \A id \in Identity :
        /\ buckets[id].last_refill <= clock
        /\ \A i \in DOMAIN admitted[id] :
              /\ 0 <= admitted[id][i]
              /\ admitted[id][i] <= buckets[id].last_refill
              /\ (Len(admitted[id]) - i + 1) * Token + buckets[id].tokens
                    <= Burst + Rate * (buckets[id].last_refill - admitted[id][i])

RateInv == LimiterTypeOK /\ RateHolds /\ Spendable

(* The strengthening of RefusesOnlyAtLimit the proof needs: what a bucket  *)
(* lacks was spent on requests let through.                                *)
Undiminished ==
    \A id \in Identity :
        \/ buckets[id].tokens = Burst
        \/ \E i \in DOMAIN admitted[id] :
              Burst + Rate * (buckets[id].last_refill - admitted[id][i])
                  <= (Len(admitted[id]) - i + 1) * Token + buckets[id].tokens
=============================================================================
