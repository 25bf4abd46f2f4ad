-------------------------- MODULE MiddlewareProofs --------------------------
(***************************************************************************)
(* The token buckets hold their rate and a report means a change of pace,  *)
(* for every rate, burst, threshold, number of clients and requests, and   *)
(* every timing and order in which clock readings are applied; and the     *)
(* middleware drives the two as their own specifications allow, so what is *)
(* proved of each alone holds of the two behind one another.               *)
(***************************************************************************)
EXTENDS Middleware, TLAPS, FiniteSetTheorems

-----------------------------------------------------------------------------
(* The rate limiter. *)

(* What time passing is worth: a stretch of time refills what its parts do. *)
LEMMA RefillAdds ==
    ASSUME NEW r \in Nat, NEW a \in Int, NEW b \in Int, NEW c \in Int
    PROVE  /\ r * (c - a) = r * (b - a) + r * (c - b)
           /\ (c - b) * r = r * (c - b)
           /\ (a + 1) * r = a * r + r
           /\ r * (c - a) \in Int /\ r * (b - a) \in Int /\ a * r \in Int
  OBVIOUS

(* The refill of a bucket stays within the burst, and within what the      *)
(* bucket held and the time since was worth.                               *)
LEMMA RefillBounds ==
    ASSUME LimiterTypeOK, Spendable, NEW id \in Identity
    PROVE  /\ Refilled(id) \in 0..Burst
           /\ Elapsed(id) \in Nat
           /\ Refilled(id) <= buckets[id].tokens + Elapsed(id) * Rate
           /\ buckets[id].last_refill # -1 =>
                 Elapsed(id) = clock - buckets[id].last_refill
<1>1. /\ buckets[id].tokens \in 0..Burst
      /\ buckets[id].last_refill \in {-1} \cup Nat
      /\ buckets[id].last_refill <= clock
      /\ clock \in Nat
  BY DEF LimiterTypeOK, Spendable, Bucket
<1>2. Elapsed(id) \in Nat
  BY <1>1 DEF Elapsed
<1>3. Elapsed(id) * Rate \in Nat
  BY <1>2, RateLimiterAssumption
<1>4. Refilled(id) \in 0..Burst
  BY <1>1, <1>3, RateLimiterAssumption DEF Refilled, MinOf
<1>5. Refilled(id) <= buckets[id].tokens + Elapsed(id) * Rate
  BY <1>1, <1>3, RateLimiterAssumption DEF Refilled, MinOf
<1> QED BY <1>1, <1>2, <1>4, <1>5 DEF Elapsed

(* What a client was let through and what its bucket holds never exceed    *)
(* the burst and the refill, if they did not before the refill.            *)
LEMMA RefillSpends ==
    ASSUME LimiterTypeOK, Spendable, NEW id \in Identity, NEW i \in DOMAIN admitted[id]
    PROVE  /\ admitted[id][i] \in Nat
           /\ admitted[id][i] <= clock
           /\ (Len(admitted[id]) - i + 1) * Token + Refilled(id)
                 <= Burst + Rate * (clock - admitted[id][i])
<1> DEFINE last == buckets[id].last_refill
           at   == admitted[id][i]
           n    == Len(admitted[id]) - i + 1
<1>1. /\ at \in Nat /\ at <= last /\ last \in Nat /\ last <= clock /\ clock \in Nat
      /\ n * Token + buckets[id].tokens <= Burst + Rate * (last - at)
  <2>1. admitted[id] \in Seq(Nat) /\ i \in 1..Len(admitted[id])
    BY DEF LimiterTypeOK
  <2>2. at \in Nat
    BY <2>1
  <2>3. last \in {-1} \cup Nat /\ clock \in Nat
    BY DEF LimiterTypeOK, Bucket
  <2>4. /\ last <= clock /\ at <= last
        /\ n * Token + buckets[id].tokens <= Burst + Rate * (last - at)
    BY DEF Spendable
  <2> HIDE DEF at, last, n
  <2> QED BY <2>2, <2>3, <2>4
<1>2. n \in Int /\ buckets[id].tokens \in Nat
  BY DEF LimiterTypeOK, Bucket
<1>3. Refilled(id) <= buckets[id].tokens + (clock - last) * Rate
  <2>1. last # -1
    BY <1>1
  <2>2. Elapsed(id) = clock - last
    BY <2>1, RefillBounds
  <2>3. Refilled(id) <= buckets[id].tokens + Elapsed(id) * Rate
    BY RefillBounds
  <2> QED BY <2>2, <2>3
<1>4. /\ Rate * (clock - at) = Rate * (last - at) + Rate * (clock - last)
      /\ (clock - last) * Rate = Rate * (clock - last)
      /\ Rate * (clock - last) \in Int /\ Rate * (last - at) \in Int
  <2>1. Rate \in Nat /\ at \in Int /\ last \in Int /\ clock \in Int
    BY <1>1, RateLimiterAssumption
  <2> HIDE DEF at, last
  <2> QED BY <2>1, RefillAdds
<1>5. n * Token \in Int
  BY <1>2, RateLimiterAssumption
<1>6. Refilled(id) \in Nat
  BY RefillBounds, RateLimiterAssumption
<1> HIDE DEF n, last, at
<1>7. n * Token + Refilled(id) <= Burst + Rate * (clock - at)
  BY <1>1, <1>2, <1>3, <1>4, <1>5, <1>6, RateLimiterAssumption
<1> QED BY <1>1, <1>7 DEF n, last, at

(* At the start nobody was let through anything.                           *)
LEMMA InitRate == LimiterInit => RateInv
  BY RateLimiterAssumption
  DEF LimiterInit, RateInv, LimiterTypeOK, RateHolds, Spendable, Bucket, FullBucket

(* A request that is let through spends a token of what it could spend.    *)
LEMMA AllowKeepsRate ==
    ASSUME RateInv, NEW id \in Identity, Allow(id)
    PROVE  RateInv'
<1> USE RateLimiterAssumption
<1> DEFINE n == Len(admitted[id])
<1>0. /\ LimiterTypeOK /\ Spendable /\ RateHolds
      /\ clock' = clock /\ clock \in Nat
      /\ Refilled(id) \in Token..Burst
      /\ admitted[id] \in Seq(Nat) /\ n \in Nat
  BY RefillBounds DEF RateInv, LimiterTypeOK, Allow
<1>1. /\ buckets'[id] = [tokens |-> Refilled(id) - Token, last_refill |-> clock]
      /\ admitted'[id] = Append(admitted[id], clock)
      /\ \A o \in Identity \ {id} :
            buckets'[o] = buckets[o] /\ admitted'[o] = admitted[o]
  BY DEF Allow, RateInv, LimiterTypeOK
<1>2. LimiterTypeOK'
  BY <1>0 DEF Allow, LimiterTypeOK, Bucket
<1>3. /\ Len(admitted'[id]) = n + 1
      /\ DOMAIN admitted'[id] = 1..n + 1
      /\ DOMAIN admitted[id] = 1..n
      /\ admitted'[id][n + 1] = clock
      /\ \A i \in 1..n : admitted'[id][i] = admitted[id][i]
  BY <1>0, <1>1
<1>4. ASSUME NEW i \in DOMAIN admitted'[id]
      PROVE  /\ 0 <= admitted'[id][i]
             /\ admitted'[id][i] <= clock
             /\ (Len(admitted'[id]) - i + 1) * Token + buckets'[id].tokens
                   <= Burst + Rate * (clock - admitted'[id][i])
  <2>1. CASE i = n + 1
    <3>1. (Len(admitted'[id]) - i + 1) * Token = Token
      BY <1>0, <1>3, <2>1
    <3>2. Rate * (clock - admitted'[id][i]) = 0
      BY <1>0, <1>3, <2>1
    <3> QED BY <1>0, <1>1, <1>3, <2>1, <3>1, <3>2
  <2>2. CASE i \in 1..n
    <3> DEFINE k == n - i + 1
    <3>1. /\ admitted[id][i] \in Nat /\ admitted[id][i] <= clock
          /\ k * Token + Refilled(id) <= Burst + Rate * (clock - admitted[id][i])
      BY <1>0, <1>3, <2>2, RefillSpends
    <3>2. k \in Int /\ Len(admitted'[id]) - i + 1 = k + 1
      BY <1>0, <1>3, <2>2
    <3>3. (k + 1) * Token = k * Token + Token /\ k * Token \in Int
      BY <3>2, RefillAdds
    <3>4. Rate * (clock - admitted[id][i]) \in Int
      BY <1>0, <3>1
    <3>5. buckets'[id].tokens = Refilled(id) - Token /\ Refilled(id) \in Int
      BY <1>0, <1>1
    <3>6. admitted'[id][i] = admitted[id][i]
      BY <1>3, <2>2
    <3> HIDE DEF k
    <3>7. (k + 1) * Token + (Refilled(id) - Token)
             <= Burst + Rate * (clock - admitted[id][i])
      BY <3>1, <3>3, <3>4, <3>5
    <3>8. /\ 0 <= admitted'[id][i]
          /\ admitted'[id][i] <= clock
      BY <3>1, <3>6
    <3>9. (Len(admitted'[id]) - i + 1) * Token + buckets'[id].tokens
             = (k + 1) * Token + (Refilled(id) - Token)
      BY <3>2, <3>5, Zenon
    <3>10. Rate * (clock - admitted'[id][i]) = Rate * (clock - admitted[id][i])
      BY <3>6, Zenon
    <3> QED BY <3>7, <3>8, <3>9, <3>10, Zenon
  <2> QED BY <1>3, <2>1, <2>2
<1>5. Spendable'
  <2> SUFFICES ASSUME NEW o \in Identity
               PROVE  /\ buckets'[o].last_refill <= clock'
                      /\ \A i \in DOMAIN admitted'[o] :
                            /\ 0 <= admitted'[o][i]
                            /\ admitted'[o][i] <= buckets'[o].last_refill
                            /\ (Len(admitted'[o]) - i + 1) * Token + buckets'[o].tokens
                                  <= Burst + Rate * (buckets'[o].last_refill - admitted'[o][i])
    BY DEF Spendable
  <2>1. CASE o = id
    <3>1. buckets'[o].last_refill = clock
      BY <1>1, <2>1
    <3> QED BY <1>0, <1>4, <2>1, <3>1
  <2>2. CASE o # id
    <3>1. buckets'[o] = buckets[o] /\ admitted'[o] = admitted[o]
      BY <1>1, <2>2
    <3> QED BY <1>0, <3>1 DEF Spendable
  <2> QED BY <2>1, <2>2
<1>6. RateHolds'
  <2> SUFFICES ASSUME NEW o \in Identity,
                      NEW i \in DOMAIN admitted'[o], NEW j \in DOMAIN admitted'[o],
                      i <= j
               PROVE  (j - i + 1) * Token
                         <= Burst + Rate * (admitted'[o][j] - admitted'[o][i])
    BY DEF RateHolds
  <2>1. CASE o # id
    <3>1. admitted'[o] = admitted[o]
      BY <1>1, <2>1
    <3> QED BY <1>0, <3>1 DEF RateHolds
  <2>2. CASE o = id /\ j \in 1..n
    <3>1. i \in 1..n
      <4>1. i \in 1..n + 1 /\ n \in Nat
        BY <1>0, <1>3, <2>2
      <4> HIDE DEF n
      <4> QED BY <4>1, <2>2
    <3>2. admitted'[o][i] = admitted[o][i] /\ admitted'[o][j] = admitted[o][j]
      BY <1>3, <2>2, <3>1
    <3> QED BY <1>0, <1>3, <2>2, <3>1, <3>2 DEF RateHolds
  <2>3. CASE o = id /\ j = n + 1
    <3>1. /\ (Len(admitted'[id]) - i + 1) * Token + buckets'[id].tokens
                <= Burst + Rate * (clock - admitted'[id][i])
          /\ 0 <= admitted'[id][i] /\ admitted'[id][i] <= clock
      BY <1>4, <2>3
    <3>2. buckets'[id].tokens \in Nat
      BY <1>0, <1>1
    <3>3. i \in 1..n + 1
      BY <1>3, <2>3
    <3>4. admitted'[id][i] \in Nat
      BY <1>2, <2>3 DEF LimiterTypeOK
    <3>5. n \in Int /\ clock \in Int /\ Rate \in Int /\ Token \in Int /\ Burst \in Int
      BY <1>0
    <3> DEFINE at == admitted'[id][i]
               tokens == buckets'[id].tokens
               len == Len(admitted'[id])
    <3>6. /\ (len - i + 1) * Token + tokens <= Burst + Rate * (clock - at)
          /\ tokens \in Nat /\ at \in Int
      BY <3>1, <3>2, <3>4
    <3>7. /\ admitted'[o][j] = clock /\ admitted'[o][i] = at
          /\ j = len /\ len \in Int /\ i \in Int
      BY <1>3, <2>3, <3>3, <3>5
    <3> HIDE DEF n, at, tokens, len
    <3>8. (len - i + 1) * Token \in Int /\ Rate * (clock - at) \in Int
      BY <3>5, <3>6, <3>7
    <3>9. (len - i + 1) * Token <= Burst + Rate * (clock - at)
      BY <3>5, <3>6, <3>8
    <3> QED BY <3>7, <3>9
  <2>4. o = id => j \in 1..n + 1
    BY <1>3
  <2>5. n \in Nat
    BY <1>0
  <2> HIDE DEF n
  <2>6. o = id => j \in 1..n \/ j = n + 1
    BY <2>4, <2>5
  <2> QED BY <2>1, <2>2, <2>3, <2>6
<1> QED BY <1>2, <1>5, <1>6 DEF RateInv

(* A request that is turned away leaves its refill in the bucket.          *)
LEMMA TooManyRequestsKeepsRate ==
    ASSUME RateInv, NEW id \in Identity, TooManyRequests(id)
    PROVE  RateInv'
<1> USE RateLimiterAssumption
<1>0. /\ LimiterTypeOK /\ Spendable /\ RateHolds
      /\ clock' = clock /\ clock \in Nat /\ admitted' = admitted
      /\ Refilled(id) \in 0..Burst
  BY RefillBounds DEF RateInv, LimiterTypeOK, TooManyRequests
<1>1. /\ buckets'[id] = [tokens |-> Refilled(id), last_refill |-> clock]
      /\ \A o \in Identity \ {id} : buckets'[o] = buckets[o]
  BY DEF TooManyRequests, RateInv, LimiterTypeOK
<1>2. LimiterTypeOK'
  BY <1>0 DEF TooManyRequests, LimiterTypeOK, Bucket
<1>3. RateHolds'
  BY <1>0 DEF RateHolds
<1>4. Spendable'
  <2> SUFFICES ASSUME NEW o \in Identity
               PROVE  /\ buckets'[o].last_refill <= clock
                      /\ \A i \in DOMAIN admitted[o] :
                            /\ 0 <= admitted[o][i]
                            /\ admitted[o][i] <= buckets'[o].last_refill
                            /\ (Len(admitted[o]) - i + 1) * Token + buckets'[o].tokens
                                  <= Burst + Rate * (buckets'[o].last_refill - admitted[o][i])
    BY <1>0 DEF Spendable
  <2>1. CASE o = id
    <3>1. buckets'[o].tokens = Refilled(o) /\ buckets'[o].last_refill = clock
      BY <1>1, <2>1
    <3>2. \A i \in DOMAIN admitted[o] :
             /\ admitted[o][i] \in Nat /\ admitted[o][i] <= clock
             /\ (Len(admitted[o]) - i + 1) * Token + Refilled(o)
                   <= Burst + Rate * (clock - admitted[o][i])
      BY <1>0, <2>1, RefillSpends
    <3> QED BY <1>0, <3>1, <3>2
  <2>2. CASE o # id
    BY <1>0, <1>1, <2>2 DEF Spendable
  <2> QED BY <2>1, <2>2
<1> QED BY <1>2, <1>3, <1>4 DEF RateInv

(* No step leaves RateInv.                                                 *)
LEMMA NextKeepsRate == RateInv /\ [LimiterNext]_limiterVars => RateInv'
<1> SUFFICES ASSUME RateInv, [LimiterNext]_limiterVars
             PROVE  RateInv'
  OBVIOUS
<1>1. CASE \E id \in Identity : Allow(id)
  BY <1>1, AllowKeepsRate
<1>2. CASE \E id \in Identity : TooManyRequests(id)
  BY <1>2, TooManyRequestsKeepsRate
<1>3. CASE LimiterTick
  <2>0. PICK gap \in Gap : Passes(gap)
    BY <1>3 DEF LimiterTick
  <2>1. /\ clock \in Nat /\ gap \in Nat /\ clock' = clock + gap
        /\ buckets' = buckets /\ admitted' = admitted
    BY <1>3, <2>0, ClientsAssumption DEF LimiterTick, Passes, RateInv, LimiterTypeOK
  <2>2. \A id \in Identity : buckets[id].last_refill \in Int
    BY DEF RateInv, LimiterTypeOK, Bucket
  <2> QED BY <2>1, <2>2 DEF RateInv, LimiterTypeOK, RateHolds, Spendable, Bucket
<1>4. CASE UNCHANGED limiterVars
  BY <1>4 DEF limiterVars, RateInv, LimiterTypeOK, RateHolds, Spendable, Bucket
<1> QED BY <1>1, <1>2, <1>3, <1>4 DEF LimiterNext

(* The bucket counts what its client can still spend, whatever requests    *)
(* check() has seen (src/bin/server.rs:277-290).                           *)
THEOREM RateInvariant == LimiterSpec => []RateInv
<1>1. LimiterInit => RateInv
  BY InitRate
<1>2. RateInv /\ [LimiterNext]_limiterVars => RateInv'
  BY NextKeepsRate
<1> QED BY <1>1, <1>2, PTL DEF LimiterSpec

(* Of any stretch of its requests, however timed, a client gets through no *)
(* more than the burst and the refill of the meantime.                     *)
THEOREM RateIsEnforced == LimiterSpec => []RateHolds
<1>1. RateInv => RateHolds
  BY DEF RateInv
<1> QED BY <1>1, RateInvariant, PTL

(* What a bucket lacks after the refill was spent, if it was before.       *)
LEMMA RefillOwes ==
    ASSUME LimiterTypeOK, Spendable, Undiminished, NEW id \in Identity
    PROVE  \/ Refilled(id) = Burst
           \/ \E i \in DOMAIN admitted[id] :
                 Burst + Rate * (clock - admitted[id][i])
                     <= (Len(admitted[id]) - i + 1) * Token + Refilled(id)
<1> SUFFICES ASSUME Refilled(id) # Burst
             PROVE  \E i \in DOMAIN admitted[id] :
                       Burst + Rate * (clock - admitted[id][i])
                           <= (Len(admitted[id]) - i + 1) * Token + Refilled(id)
  OBVIOUS
<1>1. /\ buckets[id].tokens \in 0..Burst /\ Elapsed(id) \in Nat
      /\ buckets[id].last_refill \in {-1} \cup Nat /\ clock \in Nat
      /\ admitted[id] \in Seq(Nat)
  BY RefillBounds DEF LimiterTypeOK, Bucket
<1>2. Elapsed(id) * Rate \in Nat
  BY <1>1, RateLimiterAssumption
<1>3. /\ Refilled(id) = buckets[id].tokens + Elapsed(id) * Rate
      /\ buckets[id].tokens # Burst
  BY <1>1, <1>2, RateLimiterAssumption DEF Refilled, MinOf
<1>4. PICK i \in DOMAIN admitted[id] :
             Burst + Rate * (buckets[id].last_refill - admitted[id][i])
                 <= (Len(admitted[id]) - i + 1) * Token + buckets[id].tokens
  BY <1>3 DEF Undiminished
<1> DEFINE last == buckets[id].last_refill
           at   == admitted[id][i]
           n    == Len(admitted[id]) - i + 1
<1>5. at \in Nat /\ at <= last /\ i \in 1..Len(admitted[id]) /\ n \in Int
  <2>1. i \in 1..Len(admitted[id]) /\ at \in Nat
    BY <1>1, <1>4
  <2>2. n \in Int
    BY <1>1, <2>1
  <2>3. at <= last
    BY <1>4 DEF Spendable
  <2> QED BY <2>1, <2>2, <2>3
<1>6. last \in Nat /\ Elapsed(id) = clock - last
  BY <1>1, <1>5, RefillBounds
<1>7. /\ Rate * (clock - at) = Rate * (last - at) + Rate * (clock - last)
      /\ (clock - last) * Rate = Rate * (clock - last)
      /\ Rate * (clock - last) \in Int /\ Rate * (last - at) \in Int
  <2>1. Rate \in Nat /\ at \in Int /\ last \in Int /\ clock \in Int
    BY <1>1, <1>5, <1>6, RateLimiterAssumption
  <2> HIDE DEF at, last
  <2> QED BY <2>1, RefillAdds
<1>8. n * Token \in Int
  BY <1>5, RateLimiterAssumption
<1>9. Burst + Rate * (last - at) <= n * Token + buckets[id].tokens
  BY <1>4
<1>10. Burst + Rate * (clock - at) <= n * Token + Refilled(id)
  <2>1. Refilled(id) = buckets[id].tokens + Rate * (clock - last)
    BY <1>3, <1>6, <1>7
  <2>2. buckets[id].tokens \in Int /\ Burst \in Int
    BY <1>1, RateLimiterAssumption
  <2> HIDE DEF n, at, last
  <2> QED BY <1>7, <1>8, <1>9, <2>1, <2>2
<1> QED BY <1>10

LEMMA AllowKeepsUndiminished ==
    ASSUME RateInv, Undiminished, NEW id \in Identity, Allow(id)
    PROVE  Undiminished'
<1> USE RateLimiterAssumption
<1> DEFINE n == Len(admitted[id])
<1>1. /\ LimiterTypeOK /\ Spendable /\ clock \in Nat
      /\ Refilled(id) \in Token..Burst
      /\ admitted[id] \in Seq(Nat) /\ n \in Nat
  BY RefillBounds DEF RateInv, LimiterTypeOK, Allow
<1>2. /\ buckets'[id].tokens = Refilled(id) - Token /\ buckets'[id].last_refill = clock
      /\ admitted'[id] = Append(admitted[id], clock)
      /\ \A o \in Identity \ {id} :
            buckets'[o] = buckets[o] /\ admitted'[o] = admitted[o]
  BY DEF Allow, RateInv, LimiterTypeOK
<1>3. /\ Len(admitted'[id]) = n + 1 /\ DOMAIN admitted'[id] = 1..n + 1
      /\ DOMAIN admitted[id] = 1..n /\ admitted'[id][n + 1] = clock
      /\ \A i \in 1..n : admitted'[id][i] = admitted[id][i]
  BY <1>1, <1>2
<1>4. \E i \in DOMAIN admitted'[id] :
         Burst + Rate * (clock - admitted'[id][i])
             <= (Len(admitted'[id]) - i + 1) * Token + (Refilled(id) - Token)
  <2>1. CASE Refilled(id) = Burst
    <3>1. n + 1 \in DOMAIN admitted'[id] /\ admitted'[id][n + 1] = clock
      BY <1>1, <1>3
    <3>2. Rate * (clock - clock) = 0 /\ (Len(admitted'[id]) - (n + 1) + 1) * Token = Token
      BY <1>1, <1>3
    <3>3. Burst + Rate * (clock - admitted'[id][n + 1])
             <= (Len(admitted'[id]) - (n + 1) + 1) * Token + (Refilled(id) - Token)
      <4>1. Rate * (clock - admitted'[id][n + 1]) = 0
        BY <3>1, <3>2
      <4>2. Burst + 0 <= Token + (Refilled(id) - Token)
        BY <2>1
      <4> QED BY <3>2, <4>1, <4>2
    <3> QED BY <3>1, <3>3
  <2>2. CASE Refilled(id) # Burst
    <3>1. PICK i \in DOMAIN admitted[id] :
             Burst + Rate * (clock - admitted[id][i])
                 <= (Len(admitted[id]) - i + 1) * Token + Refilled(id)
      BY <1>1, <2>2, RefillOwes
    <3> DEFINE at == admitted[id][i]
               k  == n - i + 1
    <3>2. /\ i \in 1..n /\ i \in DOMAIN admitted'[id] /\ admitted'[id][i] = at
          /\ at \in Int /\ k \in Int /\ Len(admitted'[id]) - i + 1 = k + 1
      <4>1. i \in 1..n /\ at \in Nat
        BY <1>1, <1>3
      <4>2. i \in Nat /\ i \in 1..n + 1
        BY <1>1, <4>1
      <4> QED BY <1>1, <1>3, <4>1, <4>2
    <3>3. Burst + Rate * (clock - at) <= k * Token + Refilled(id)
      BY <3>1
    <3>4. (k + 1) * Token = k * Token + Token /\ k * Token \in Int
      <4> HIDE DEF k
      <4> QED BY <3>2, RefillAdds
    <3>5. Rate * (clock - at) \in Int
      <4>1. Rate \in Int /\ clock \in Int /\ at \in Int
        BY <1>1, <3>2, RateLimiterAssumption
      <4> HIDE DEF at
      <4> QED BY <4>1
    <3>6. Burst + Rate * (clock - at) <= (k + 1) * Token + (Refilled(id) - Token)
      <4>1. Refilled(id) \in Int
        BY <1>1
      <4> HIDE DEF k, at
      <4> QED BY <3>3, <3>4, <3>5, <4>1
    <3>7. Rate * (clock - admitted'[id][i]) = Rate * (clock - at)
      BY <3>2
    <3>8. (Len(admitted'[id]) - i + 1) * Token = (k + 1) * Token
      BY <3>2
    <3>9. Burst + Rate * (clock - admitted'[id][i])
             <= (Len(admitted'[id]) - i + 1) * Token + (Refilled(id) - Token)
      <4> HIDE DEF at, k
      <4> QED BY <3>6, <3>7, <3>8
    <3> QED BY <3>2, <3>9
  <2> QED BY <2>1, <2>2
<1> QED BY <1>2, <1>4 DEF Undiminished

LEMMA NextKeepsUndiminished ==
  RateInv /\ Undiminished /\ [LimiterNext]_limiterVars => Undiminished'
<1> SUFFICES ASSUME RateInv, Undiminished, [LimiterNext]_limiterVars
             PROVE  Undiminished'
  OBVIOUS
<1>1. CASE \E id \in Identity : Allow(id)
  BY <1>1, AllowKeepsUndiminished
<1>2. ASSUME NEW id \in Identity, TooManyRequests(id) PROVE Undiminished'
  <2>1. /\ buckets'[id].tokens = Refilled(id) /\ buckets'[id].last_refill = clock
        /\ admitted' = admitted
        /\ \A o \in Identity \ {id} : buckets'[o] = buckets[o]
    BY <1>2 DEF TooManyRequests, RateInv, LimiterTypeOK
  <2>2. \/ Refilled(id) = Burst
        \/ \E i \in DOMAIN admitted[id] :
              Burst + Rate * (clock - admitted[id][i])
                  <= (Len(admitted[id]) - i + 1) * Token + Refilled(id)
    BY RefillOwes DEF RateInv
  <2> QED BY <2>1, <2>2 DEF Undiminished
<1>3. CASE LimiterTick \/ UNCHANGED limiterVars
  BY <1>3 DEF LimiterTick, limiterVars, Undiminished
<1> QED BY <1>1, <1>2, <1>3 DEF LimiterNext

(* A client is turned away only when one more request would break the      *)
(* limit it is held to (server.rs:255-258): for every rate and burst, and  *)
(* however many requests were turned away before (server.rs:277-290).      *)
THEOREM RefusalsAreDue == LimiterSpec => []RefusesOnlyAtLimit
<1>1. LimiterInit => Undiminished
  <2> SUFFICES ASSUME LimiterInit, NEW id \in Identity PROVE buckets[id].tokens = Burst
    BY DEF Undiminished
  <2>1. buckets[id] = FullBucket
    BY DEF LimiterInit
  <2> QED BY <2>1 DEF FullBucket
<1>2. RateInv /\ Undiminished => RefusesOnlyAtLimit
  <2> SUFFICES ASSUME RateInv, Undiminished, NEW id \in Identity, Refilled(id) < Token
               PROVE  AtLimit(id)
    BY DEF RefusesOnlyAtLimit
  <2> DEFINE n   == Len(admitted[id])
             all == Append(admitted[id], clock)
  <2>1. /\ admitted[id] \in Seq(Nat) /\ n \in Nat /\ clock \in Nat /\ Refilled(id) \in 0..Burst
        /\ Token \in Nat /\ Burst \in Nat /\ Rate \in Nat
    BY RefillBounds, RateLimiterAssumption DEF RateInv, LimiterTypeOK
  <2>2. /\ Len(all) = n + 1 /\ DOMAIN all = 1..n + 1 /\ all[n + 1] = clock
        /\ DOMAIN admitted[id] = 1..n /\ \A i \in 1..n : all[i] = admitted[id][i]
    BY <2>1
  <2>3. CASE Refilled(id) = Burst
    <3>1. n + 1 \in DOMAIN all
      BY <2>1, <2>2
    <3>2. Rate * (clock - all[n + 1]) = 0 /\ (Len(all) - (n + 1) + 1) * Token = Token
      BY <2>1, <2>2
    <3>3. (Len(all) - (n + 1) + 1) * Token > Burst + Rate * (clock - all[n + 1])
      BY <2>1, <2>3, <3>2
    <3> QED BY <3>1, <3>3 DEF AtLimit
  <2>4. CASE Refilled(id) # Burst
    <3>1. PICK i \in DOMAIN admitted[id] :
             Burst + Rate * (clock - admitted[id][i])
                 <= (Len(admitted[id]) - i + 1) * Token + Refilled(id)
      BY <2>4, RefillOwes DEF RateInv
    <3> DEFINE at == admitted[id][i]
               k  == n - i + 1
    <3>2. /\ i \in DOMAIN all /\ all[i] = at /\ at \in Int /\ k \in Int
          /\ Len(all) - i + 1 = k + 1
      <4>1. i \in 1..n /\ at \in Nat
        BY <2>1, <2>2
      <4>2. i \in Nat /\ i \in 1..n + 1
        BY <2>1, <4>1
      <4> QED BY <2>1, <2>2, <4>1, <4>2
    <3>3. Burst + Rate * (clock - at) <= k * Token + Refilled(id)
      BY <3>1
    <3>4. (k + 1) * Token = k * Token + Token /\ k * Token \in Int
      <4> HIDE DEF k
      <4> QED BY <2>1, <3>2, RefillAdds
    <3>5. Rate * (clock - at) \in Int
      <4>1. Rate \in Int /\ clock \in Int /\ at \in Int
        BY <2>1, <3>2, RateLimiterAssumption
      <4> HIDE DEF at
      <4> QED BY <4>1
    <3>6. (k + 1) * Token > Burst + Rate * (clock - at)
      <4>1. Refilled(id) \in Int /\ Refilled(id) < Token
        BY <2>1
      <4> HIDE DEF k, at
      <4> QED BY <2>1, <3>3, <3>4, <3>5, <4>1
    <3>7. (Len(all) - i + 1) * Token > Burst + Rate * (clock - all[i])
      <4>1. /\ (Len(all) - i + 1) * Token = (k + 1) * Token
            /\ Rate * (clock - all[i]) = Rate * (clock - at)
        BY <3>2
      <4> HIDE DEF k, at, all
      <4> QED BY <3>6, <4>1
    <3> QED BY <3>2, <3>7 DEF AtLimit
  <2> QED BY <2>3, <2>4
<1> QED BY <1>1, <1>2, InitRate, NextKeepsRate, NextKeepsUndiminished, PTL DEF LimiterSpec

-----------------------------------------------------------------------------
(* The anomaly detector. *)

(* A weighted average of two rates lies between them.                      *)
LEMMA AverageBetween ==
    ASSUME NEW r \in Nat, NEW a \in Nat
    PROVE  /\ (r + a) \div 2 \in Nat
           /\ (r + 49 * a) \div 50 \in Nat
           /\ \A h \in Nat : r <= h /\ a <= h => (r + a) \div 2 <= h
           /\ \A l \in Nat : l <= r /\ l <= a => l <= (r + 49 * a) \div 50
  OBVIOUS

(* A whole quotient of naturals is one.                                    *)
LEMMA DivIsNat ==
    ASSUME NEW a \in Nat, NEW b \in Nat \ {0}
    PROVE  a \div b \in Nat
  OBVIOUS

(* Multiples keep the order.                                               *)
LEMMA TimesMonotone ==
    ASSUME NEW t \in Nat, NEW a \in Nat, NEW b \in Nat, a <= b
    PROVE  t * a <= t * b /\ t * a \in Nat /\ t * b \in Nat
  OBVIOUS

LEMMA TimesTwo ==
    ASSUME NEW t \in Nat, NEW r \in Nat, t >= 2
    PROVE  2 * r <= t * r
<1>1. (t - 2) * r \in Nat
  BY TimesMonotone
<1> QED BY <1>1

(* A quotient is the most a divisor goes into a number.                    *)
LEMMA DivBounds ==
    ASSUME NEW n \in Nat, NEW d \in Nat \ {0}
    PROVE  /\ (n \div d) * d <= n
           /\ \A k \in Nat : k * d <= n => k <= n \div d
<1>1. n = d * (n \div d) + (n % d) /\ n % d \in 0..d - 1 /\ n \div d \in Nat
  BY DivIsNat
<1>2. (n \div d) * d <= n
  BY <1>1
<1>3. ASSUME NEW k \in Nat, k * d <= n
      PROVE  k <= n \div d
  <2> DEFINE q == n \div d
  <2>1. SUFFICES ASSUME k > q PROVE FALSE
    BY <1>1
  <2>2. q \in Nat /\ n < d * q + d
    BY <1>1
  <2>3. (k - q - 1) * d \in Nat
    BY <2>1, <2>2
  <2>4. k * d = (k - q - 1) * d + d * q + d
    BY <2>2
  <2> QED BY <1>3, <2>2, <2>3, <2>4
<1> QED BY <1>2, <1>3

(* What a whole number of shares comes to.                                 *)
LEMMA Shares ==
    ASSUME NEW n \in Nat, NEW v \in Nat, NEW s \in Nat, NEW d \in Nat, NEW m \in Nat,
           n <= v * s, s * d <= m
    PROVE  n * d <= v * m
<1>1. v * s \in Nat /\ s * d \in Nat
  OBVIOUS
<1>2. d * n <= d * (v * s)
  BY <1>1, TimesMonotone
<1>3. v * (s * d) <= v * m
  BY <1>1, TimesMonotone
<1>4. d * (v * s) = v * (s * d) /\ d * n = n * d
  OBVIOUS
<1> QED BY <1>2, <1>3, <1>4

(* Every nonempty set of naturals has a least element.                     *)
LEMMA Least ==
  ASSUME NEW T \in SUBSET Nat, T # {}
  PROVE  \E x \in T : \A y \in T : x <= y
<1>1. PICK x \in T : \A y \in T : ~ (<<y, x>> \in OpToRel(<, Nat))
  BY NatLessThanWellFounded, WFMin
<1>2. \A y \in T : y < x => <<y, x>> \in OpToRel(<, Nat)
  BY DEF OpToRel
<1>3. \A y \in T : ~(y < x)
  BY <1>1, <1>2, Zenon
<1>4. x \in Nat /\ \A y \in T : y \in Nat
  OBVIOUS
<1> QED BY <1>3, <1>4

(* What MinOf and MaxOf return.                                            *)
LEMMA MinMax ==
    ASSUME NEW a \in Nat, NEW b \in Nat
    PROVE  /\ MinOf(a, b) \in Nat /\ MinOf(a, b) <= a /\ MinOf(a, b) <= b
           /\ MaxOf(a, b) \in Nat /\ MaxOf(a, b) >= a /\ MaxOf(a, b) >= b
  BY DEF MinOf, MaxOf

(* A measured rate is one, even of a reading older than the last.          *)
LEMMA RateIsNat ==
    ASSUME DetectorTypeOK, NEW t \in Task, who[t] # Nobody
    PROVE  Instantaneous(t) \in Nat
<1>1. now[t] \in Nat /\ baselines[who[t]].last_seen \in Nat
  BY DEF DetectorTypeOK, Baseline
<1>2. MaxOf(now[t] - baselines[who[t]].last_seen, 1) \in Nat \ {0}
  BY <1>1 DEF MaxOf
<1> QED BY <1>2, DivIsNat, DetectorAssumption DEF Instantaneous

(* Whatever it makes of the averages, a request is counted.                *)
LEMMA CountsOneMore ==
    ASSUME NEW t \in Task, now[t] \in Nat, Averaged(t) \in Baseline
    PROVE  /\ Updated(t) \in Baseline
           /\ Updated(t).request_count = Averaged(t).request_count + 1
           /\ Updated(t).last_seen = now[t]
           /\ Updated(t).fast_rate = Averaged(t).fast_rate
           /\ Updated(t).slow_rate = Averaged(t).slow_rate
<1>1. Updated(t) =
        [Averaged(t) EXCEPT !.last_seen = now[t],
                            !.request_count = Averaged(t).request_count + 1]
  BY DEF Updated
<1>2. Averaged(t).request_count + 1 \in Nat
  BY DEF Baseline
<1> DEFINE a == Averaged(t)
           c == a.request_count + 1
<1>3. a \in Baseline /\ c \in Nat /\ Updated(t) = [a EXCEPT !.last_seen = now[t], !.request_count = c]
  BY <1>1, <1>2
<1>4. c = Averaged(t).request_count + 1
  OBVIOUS
<1> HIDE DEF a, c
<1>5. /\ Updated(t) \in Baseline
      /\ Updated(t).request_count = c
      /\ Updated(t).last_seen = now[t]
      /\ Updated(t).fast_rate = a.fast_rate
      /\ Updated(t).slow_rate = a.slow_rate
  BY <1>3 DEF Baseline
<1> QED BY <1>4, <1>5 DEF a

(* Nothing is measured and nobody flagged at the start.                    *)
LEMMA InitDetector == DetectorInit => DetectorInv
  BY DetectorAssumption
  DEF DetectorInit, DetectorInv, DetectorTypeOK, Baseline, NoBaseline, AveragesBetween, FlaggedMeansSpike

(* A request that only reads the clock changes no baseline.                *)
LEMMA ArriveKeepsDetector ==
    ASSUME DetectorInv, NEW t \in Task, NEW id \in Identity, Arrive(t, id)
    PROVE  DetectorInv'
<1>2. /\ clock \in Nat
      /\ arrivals[id] \in Seq(Nat)
  BY DEF DetectorInv, DetectorTypeOK
<1>3. Append(arrivals[id], clock) \in Seq(Nat)
  BY <1>2
<1>4. DetectorTypeOK'
  BY <1>2, <1>3 DEF DetectorInv, DetectorTypeOK, Arrive
<1>5. AveragesBetween' /\ FlaggedMeansSpike'
  BY DEF DetectorInv, AveragesBetween, FlaggedMeansSpike, Arrive
<1> QED BY <1>4, <1>5 DEF DetectorInv

(* A client's first request starts its baseline and measures nothing.      *)
LEMMA FirstSeenKeepsDetector ==
    ASSUME DetectorInv, NEW t \in Task, FirstSeen(t)
    PROVE  DetectorInv'
<1> DEFINE id == who[t]
<1>1. /\ DetectorTypeOK /\ AveragesBetween /\ FlaggedMeansSpike
      /\ id \in Identity /\ now[t] \in Nat
      /\ baselines[id] \in Baseline /\ baselines[id].request_count = 0
  BY DEF DetectorInv, DetectorTypeOK, FirstSeen
<1>2. Averaged(t) = baselines[id]
  BY <1>1 DEF Averaged
<1>3. Updated(t) \in Baseline /\ Updated(t).request_count = 1
  BY <1>1, <1>2, CountsOneMore
<1>4. DetectorTypeOK'
  BY <1>1, <1>3 DEF DetectorTypeOK, FirstSeen, Overtaking
<1>5. AveragesBetween'
  <2>1. baselines'[id].request_count = 1 /\ measured' = measured
    BY <1>1, <1>3 DEF DetectorTypeOK, FirstSeen, Overtaking
  <2>2. \A o \in Identity \ {id} : baselines'[o] = baselines[o]
    BY <1>1 DEF DetectorTypeOK, FirstSeen, Overtaking
  <2> QED BY <1>1, <2>1, <2>2 DEF AveragesBetween
<1>6. FlaggedMeansSpike'
  BY <1>1 DEF DetectorTypeOK, FirstSeen, FlaggedMeansSpike
<1> QED BY <1>4, <1>5, <1>6 DEF DetectorInv

(* The second request seeds both averages, a later one is blended in.      *)
LEMMA UpdatedIs ==
    ASSUME DetectorTypeOK, NEW t \in Task, RecordAndCheck(t)
    PROVE  LET old == baselines[who[t]]  b == Updated(t)  rate == Instantaneous(t) IN
           /\ b \in Baseline /\ rate \in Nat
           /\ b.request_count = old.request_count + 1
           /\ b.last_seen = now[t]
           /\ old.request_count = 1 => b.fast_rate = rate /\ b.slow_rate = rate
           /\ old.request_count # 1 =>
                 /\ b.fast_rate = (rate + old.fast_rate) \div 2
                 /\ b.slow_rate = (rate + 49 * old.slow_rate) \div 50
<1> DEFINE rate == Instantaneous(t)
           b    == baselines[who[t]]
<1>1. /\ who[t] \in Identity /\ now[t] \in Nat
      /\ b \in Baseline /\ b.request_count > 0
  BY DEF DetectorTypeOK, RecordAndCheck
<1>2. rate \in Nat
  BY <1>1, RateIsNat DEF RecordAndCheck
<1>3. /\ b.fast_rate \in Nat /\ b.slow_rate \in Nat /\ b.request_count \in Nat
  BY <1>1 DEF Baseline
<1>4. CASE b.request_count = 1
  <2>1. Averaged(t) = [b EXCEPT !.fast_rate = rate, !.slow_rate = rate]
    BY <1>4 DEF Averaged
  <2>2. /\ Averaged(t) \in Baseline
        /\ Averaged(t).request_count = 1
        /\ Averaged(t).fast_rate = rate /\ Averaged(t).slow_rate = rate
    <3> HIDE DEF b, rate
    <3> QED BY <1>1, <1>2, <1>4, <2>1 DEF Baseline
  <2> QED BY <1>1, <1>2, <1>4, <2>2, CountsOneMore
<1>5. CASE b.request_count # 1
  <2>1. Averaged(t) = [b EXCEPT !.fast_rate = (rate + @) \div 2,
                                !.slow_rate = (rate + 49 * @) \div 50]
    BY <1>1, <1>3, <1>5 DEF Averaged
  <2>2. /\ (rate + b.fast_rate) \div 2 \in Nat
        /\ (rate + 49 * b.slow_rate) \div 50 \in Nat
    BY <1>2, <1>3, AverageBetween
  <2>3. /\ Averaged(t) \in Baseline
        /\ Averaged(t).request_count = b.request_count
        /\ Averaged(t).fast_rate = (rate + b.fast_rate) \div 2
        /\ Averaged(t).slow_rate = (rate + 49 * b.slow_rate) \div 50
    <3> HIDE DEF b, rate
    <3> QED BY <1>1, <2>1, <2>2 DEF Baseline
  <2> QED BY <1>1, <1>2, <1>5, <2>3, CountsOneMore
<1> QED BY <1>4, <1>5

(* What a later request leaves of the averages lies between the lowest and *)
(* the highest rate, its own included.                                     *)
LEMMA UpdatedBetween ==
    ASSUME DetectorInv, NEW t \in Task, RecordAndCheck(t)
    PROVE  LET b == Updated(t)  m == measured'[who[t]] IN
           /\ b \in Baseline /\ b.request_count >= 2
           /\ m \in [low : Nat, high : Nat]
           /\ m.low <= b.slow_rate
           /\ b.fast_rate <= m.high
<1> DEFINE id   == who[t]
           rate == Instantaneous(t)
           b    == baselines[id]
           m    == measured[id]
<1>1. /\ DetectorTypeOK /\ AveragesBetween
      /\ id \in Identity /\ now[t] \in Nat
      /\ b \in Baseline /\ b.request_count > 0
      /\ m \in [low : Nat, high : Nat]
  BY DEF DetectorInv, DetectorTypeOK, RecordAndCheck
<1>2. rate \in Nat
  BY <1>1, RateIsNat DEF RecordAndCheck
<1>3. measured'[id] = [low |-> MinOf(m.low, rate), high |-> MaxOf(m.high, rate)]
  BY <1>1 DEF RecordAndCheck, DetectorTypeOK
<1>4. m.low \in Nat /\ m.high \in Nat
  BY <1>1
<1>5. /\ measured'[id].low \in Nat /\ measured'[id].high \in Nat
      /\ measured'[id].low <= rate /\ rate <= measured'[id].high
      /\ measured'[id].low <= m.low /\ m.high <= measured'[id].high
      /\ measured'[id] \in [low : Nat, high : Nat]
  <2>1. /\ measured'[id].low = MinOf(m.low, rate)
        /\ measured'[id].high = MaxOf(m.high, rate)
    BY <1>3
  <2>2. /\ MinOf(m.low, rate) \in Nat
        /\ MinOf(m.low, rate) <= m.low /\ MinOf(m.low, rate) <= rate
    BY <1>2, <1>4, MinMax
  <2>3. /\ MaxOf(m.high, rate) \in Nat
        /\ MaxOf(m.high, rate) >= m.high /\ MaxOf(m.high, rate) >= rate
    BY <1>2, <1>4, MinMax
  <2> HIDE DEF m, rate, id
  <2>4. measured'[id] \in [low : Nat, high : Nat]
    BY <1>3, <2>2, <2>3
  <2> QED BY <1>2, <1>4, <2>1, <2>2, <2>3, <2>4
<1>6. CASE b.request_count = 1
  <2>1. /\ Updated(t) \in Baseline
        /\ Updated(t).request_count = 2
        /\ Updated(t).fast_rate = rate /\ Updated(t).slow_rate = rate
    BY <1>1, <1>6, UpdatedIs
  <2> QED BY <1>5, <2>1
<1>7. CASE b.request_count >= 2
  <2>2. b.fast_rate \in Nat /\ b.slow_rate \in Nat /\ b.request_count \in Nat
    BY <1>1 DEF Baseline
  <2>4. /\ Updated(t) \in Baseline
        /\ Updated(t).request_count = b.request_count + 1
        /\ Updated(t).fast_rate = (rate + b.fast_rate) \div 2
        /\ Updated(t).slow_rate = (rate + 49 * b.slow_rate) \div 50
    BY <1>1, <1>7, <2>2, UpdatedIs
  <2>5. m.low <= b.slow_rate /\ b.fast_rate <= m.high
    BY <1>1, <1>7 DEF AveragesBetween
  <2>6. measured'[id].low <= b.slow_rate /\ b.fast_rate <= measured'[id].high
    BY <1>4, <1>5, <2>2, <2>5
  <2>7. (rate + b.fast_rate) \div 2 <= measured'[id].high
    BY <1>2, <1>5, <2>2, <2>6, AverageBetween
  <2>8. measured'[id].low <= (rate + 49 * b.slow_rate) \div 50
    BY <1>2, <1>5, <2>2, <2>6, AverageBetween
  <2> QED BY <1>5, <1>7, <2>2, <2>4, <2>7, <2>8
<1>8. b.request_count = 1 \/ b.request_count >= 2
  BY <1>1 DEF Baseline
<1> QED BY <1>6, <1>7, <1>8

(* A later request updates, compares and flags one client.                 *)
LEMMA RecordAndCheckKeepsDetector ==
    ASSUME DetectorInv, NEW t \in Task, RecordAndCheck(t)
    PROVE  DetectorInv'
<1> DEFINE id == who[t]
           b  == Updated(t)
           m  == measured'[id]
<1>1. /\ DetectorTypeOK /\ AveragesBetween /\ FlaggedMeansSpike /\ id \in Identity
  BY DEF DetectorInv, DetectorTypeOK, RecordAndCheck
<1>2. /\ b \in Baseline /\ b.request_count >= 2
      /\ m \in [low : Nat, high : Nat]
      /\ m.low <= b.slow_rate /\ b.fast_rate <= m.high
  BY UpdatedBetween
<1>3. /\ baselines'[id] = b
      /\ flagged'[id] = Anomalous(b)
      /\ \A o \in Identity \ {id} :
            /\ baselines'[o] = baselines[o] /\ measured'[o] = measured[o]
            /\ flagged'[o] = flagged[o]
  BY <1>1 DEF RecordAndCheck, DetectorTypeOK
<1>4. DetectorTypeOK'
  <2>1. baselines' \in [Identity -> Baseline]
    BY <1>1, <1>2 DEF RecordAndCheck, DetectorTypeOK
  <2>2. measured' \in [Identity -> [low : Nat, high : Nat]]
    <3>1. measured' = [measured EXCEPT ![id] = m]
      BY <1>1 DEF RecordAndCheck, DetectorTypeOK
    <3> QED BY <1>1, <1>2, <3>1 DEF DetectorTypeOK
  <2>3. flagged' \in [Identity -> BOOLEAN]
    BY <1>1 DEF RecordAndCheck, DetectorTypeOK, Anomalous
  <2> QED BY <1>1, <2>1, <2>2, <2>3 DEF RecordAndCheck, DetectorTypeOK, Overtaking, Overtakes
<1>5. AveragesBetween'
  BY <1>1, <1>2, <1>3 DEF AveragesBetween
<1>6. FlaggedMeansSpike'
  <2> SUFFICES ASSUME NEW o \in Identity, flagged'[o]
               PROVE  measured'[o].high >= Threshold * measured'[o].low
    BY DEF FlaggedMeansSpike
  <2>1. CASE o = id
    <3>1. b.fast_rate >= Threshold * b.slow_rate
      BY <1>3, <2>1 DEF Anomalous
    <3>2. /\ m.low \in Nat /\ m.high \in Nat
          /\ b.slow_rate \in Nat /\ b.fast_rate \in Nat
      BY <1>2 DEF Baseline
    <3>3. /\ Threshold * m.low <= Threshold * b.slow_rate
          /\ Threshold * m.low \in Nat /\ Threshold * b.slow_rate \in Nat
      BY <1>2, <3>2, TimesMonotone, DetectorAssumption
    <3>4. m.high >= Threshold * m.low
      BY <1>2, <3>1, <3>2, <3>3
    <3> QED BY <2>1, <3>4
  <2>2. CASE o # id
    BY <1>1, <1>3, <2>2 DEF FlaggedMeansSpike
  <2> QED BY <2>1, <2>2
<1> QED BY <1>4, <1>5, <1>6 DEF DetectorInv

(* No step leaves DetectorInv.                                             *)
LEMMA NextKeepsDetector == DetectorInv /\ [DetectorNext]_detectorVars => DetectorInv'
<1> SUFFICES ASSUME DetectorInv, [DetectorNext]_detectorVars
             PROVE  DetectorInv'
  OBVIOUS
<1>1. CASE \E t \in Task, id \in Identity : Arrive(t, id)
  BY <1>1, ArriveKeepsDetector
<1>2. CASE \E t \in Task : FirstSeen(t)
  BY <1>2, FirstSeenKeepsDetector
<1>3. CASE \E t \in Task : RecordAndCheck(t)
  BY <1>3, RecordAndCheckKeepsDetector
<1>5. CASE DetectorTick
  <2>1. PICK gap \in Gap : Passes(gap)
    BY <1>5 DEF DetectorTick
  <2>2. gap \in Nat /\ clock' = clock + gap
    BY <2>1, ClientsAssumption DEF Passes
  <2> QED BY <1>5, <2>2 DEF DetectorTick, DetectorInv, DetectorTypeOK, AveragesBetween, FlaggedMeansSpike
<1>4. CASE UNCHANGED detectorVars
  BY <1>4 DEF detectorVars, DetectorInv, DetectorTypeOK, AveragesBetween, FlaggedMeansSpike
<1> QED BY <1>1, <1>2, <1>3, <1>4, <1>5 DEF DetectorNext

(* The averages never leave the range of the rates measured, the seeding   *)
(* by the second request included (src/bin/server.rs:389-406).             *)
THEOREM DetectorInvariant == DetectorSpec => []DetectorInv
<1>1. DetectorInit => DetectorInv
  BY InitDetector
<1>2. DetectorInv /\ [DetectorNext]_detectorVars => DetectorInv'
  BY NextKeepsDetector
<1> QED BY <1>1, <1>2, PTL DEF DetectorSpec

(* A client is flagged only if some interval between two of its requests   *)
(* was measured to be Threshold times as short as some other.              *)
THEOREM FlagsAreSpikes == DetectorSpec => []FlaggedMeansSpike
<1>1. DetectorInv => FlaggedMeansSpike
  BY DEF DetectorInv
<1> QED BY <1>1, DetectorInvariant, PTL

(* Before the second request the averages are empty (or_insert).           *)
Unseeded == \A id \in Identity : baselines[id].request_count < 2 => baselines[id].slow_rate = 0

LEMMA SeededBySecond ==
    ASSUME DetectorInv, Unseeded, [DetectorNext]_detectorVars
    PROVE  Unseeded'
<1>1. DetectorTypeOK
  BY DEF DetectorInv
<1>2. CASE \E t \in Task : FirstSeen(t)
  <2>1. PICK t \in Task : FirstSeen(t)
    BY <1>2
  <2> DEFINE id == who[t]
             b == baselines[id]
  <2>2. /\ id \in Identity /\ b \in Baseline /\ b.request_count = 0
        /\ baselines' = [baselines EXCEPT ![id] = Updated(t)]
    BY <1>1, <2>1 DEF FirstSeen, DetectorTypeOK
  <2>3. Updated(t).slow_rate = b.slow_rate
    BY <2>2 DEF Updated, Averaged, Baseline
  <2>4. b.slow_rate = 0
    BY <2>2 DEF Unseeded
  <2> QED BY <1>1, <2>2, <2>3, <2>4 DEF Unseeded, DetectorTypeOK
<1>3. CASE \E t \in Task : RecordAndCheck(t)
  <2>1. PICK t \in Task : RecordAndCheck(t)
    BY <1>3
  <2> DEFINE id == who[t]
             b == baselines[id]
  <2>2. /\ id \in Identity /\ b \in Baseline /\ b.request_count > 0 /\ b.request_count \in Nat
        /\ baselines' = [baselines EXCEPT ![id] = Updated(t)]
    BY <1>1, <2>1 DEF RecordAndCheck, DetectorTypeOK, Baseline
  <2>3. Updated(t).request_count = b.request_count + 1
    BY <1>1, <2>1, UpdatedIs
  <2>4. ~(Updated(t).request_count < 2)
    BY <2>2, <2>3
  <2> QED BY <1>1, <2>2, <2>4 DEF Unseeded, DetectorTypeOK
<1>4. CASE UNCHANGED baselines
  BY <1>4 DEF Unseeded
<1> QED BY <1>2, <1>3, <1>4 DEF DetectorNext, DetectorTick, Arrive, detectorVars

LEMMA AlwaysUnseeded == DetectorSpec => []Unseeded
<1>1. DetectorInit => Unseeded
  BY DEF DetectorInit, Unseeded, NoBaseline
<1>2. DetectorInv /\ Unseeded /\ [DetectorNext]_detectorVars => Unseeded'
  BY SeededBySecond
<1> QED BY <1>1, <1>2, DetectorInvariant, PTL DEF DetectorSpec

(* Half of the burst is in the fast average at once, a fiftieth in the     *)
(* slow one; up to eight times apart that is enough.                       *)
LEMMA BurstShows ==
    ASSUME NEW rate \in Nat, NEW f \in Nat, NEW s \in Nat, NEW h \in 2..8, rate >= 3 * h * s
    PROVE  /\ (rate + f) \div 2 >= h * ((rate + 49 * s) \div 50)
           /\ (rate + 49 * s) \div 50 >= s
<1>1. PICK n \in Nat : n = (rate + 49 * s) \div 50
  OBVIOUS
<1>2. 50 * n <= rate + 49 * s /\ rate + 49 * s < 50 * n + 50
  BY <1>1
<1>3. h = 2 \/ h = 3 \/ h = 4 \/ h = 5 \/ h = 6 \/ h = 7 \/ h = 8
  OBVIOUS
<1>4. rate >= s
  BY <1>3
<1>5. n >= s
  BY <1>2, <1>4
<1>6. 2 * (h * n) <= rate
  BY <1>2, <1>3
<1>7. h * n \in Nat
  BY <1>3
<1>8. \A x \in Nat : 2 * x <= rate => (rate + f) \div 2 >= x
  OBVIOUS
<1> QED BY <1>1, <1>5, <1>6, <1>7, <1>8

(* A request three times the threshold above the baseline of its client is *)
(* reported, whatever came before (src/bin/server.rs:293-299), for         *)
(* thresholds up to 8; the code's is 5.                                    *)
THEOREM BurstsAreFlagged ==
    ASSUME Threshold <= 8
    PROVE  DetectorSpec => BurstIsFlagged
<1> DEFINE Reported ==
        \A t \in Task :
            LET b == baselines[who[t]] IN
            /\ RecordAndCheck(t)
            /\ b.request_count >= MinRequests
            /\ b.slow_rate >= MinRate
            /\ Instantaneous(t) >= 3 * Threshold * b.slow_rate
            => flagged'[who[t]]
<1>1. DetectorInv /\ Unseeded /\ [DetectorNext]_detectorVars => [Reported]_detectorVars
  <2> SUFFICES ASSUME DetectorInv, Unseeded, NEW t \in Task, RecordAndCheck(t),
                      baselines[who[t]].request_count >= MinRequests,
                      baselines[who[t]].slow_rate >= MinRate,
                      Instantaneous(t) >= 3 * Threshold * baselines[who[t]].slow_rate
               PROVE  flagged'[who[t]]
    OBVIOUS
  <2> DEFINE id == who[t]
             b == baselines[id]
             rate == Instantaneous(t)
             u == Updated(t)
  <2>1. DetectorTypeOK
    BY DEF DetectorInv
  <2>2. /\ id \in Identity /\ b \in Baseline /\ flagged' = [flagged EXCEPT ![id] = Anomalous(u)]
        /\ flagged \in [Identity -> BOOLEAN]
    BY <2>1 DEF RecordAndCheck, DetectorTypeOK
  <2>3. /\ MinRate \in Nat \ {0} /\ MinRequests \in Nat \ {0} /\ Threshold \in 2..8
        /\ b.request_count \in Nat /\ b.slow_rate \in Nat /\ b.fast_rate \in Nat
    BY <2>2, DetectorAssumption DEF Baseline
  <2>4. b.request_count >= 2
    BY <2>2, <2>3 DEF Unseeded
  <2>5. /\ rate \in Nat /\ u.slow_rate \in Nat
        /\ b.request_count # 1 =>
              /\ u.fast_rate = (rate + b.fast_rate) \div 2
              /\ u.slow_rate = (rate + 49 * b.slow_rate) \div 50
        /\ u.request_count = b.request_count + 1
    BY <2>1, UpdatedIs DEF Baseline
  <2>6. /\ u.fast_rate = (rate + b.fast_rate) \div 2
        /\ u.slow_rate = (rate + 49 * b.slow_rate) \div 50
        /\ u.request_count = b.request_count + 1
        /\ rate >= 3 * Threshold * b.slow_rate
    BY <2>4, <2>5
  <2> HIDE DEF rate
  <2>7. /\ u.fast_rate >= Threshold * u.slow_rate /\ u.slow_rate >= b.slow_rate
        /\ u.slow_rate \in Nat
    BY <2>3, <2>5, <2>6, BurstShows
  <2>8. u.request_count > MinRequests /\ u.slow_rate >= MinRate
    BY <2>3, <2>6, <2>7
  <2>9. Anomalous(u)
    BY <2>7, <2>8 DEF Anomalous
  <2> QED BY <2>2, <2>9
<1> QED BY <1>1, DetectorInvariant, AlwaysUnseeded, PTL DEF DetectorSpec, BurstIsFlagged

-----------------------------------------------------------------------------
(* Clients that keep their pace. *)

LEMMA InitSteady == DetectorInit => SteadyInv
<1> SUFFICES ASSUME DetectorInit PROVE SteadyInv
  OBVIOUS
<1>1. ASSUME NEW id \in Identity
      PROVE  /\ Waiting(id) = {} /\ arrivals[id] = <<>> /\ ~flagged[id]
             /\ baselines[id].request_count = 0
  BY DetectorAssumption DEF DetectorInit, Waiting, NoBaseline
<1>2. InTurn({}, now, <<>>, 0)
  <2>1. (0 + 1)..Len(<<>>) = {}
    OBVIOUS
  <2>2. [t \in {} |-> 0] \in [{} -> {}]
    OBVIOUS
  <2> QED BY <2>1, <2>2 DEF InTurn
<1> SUFFICES ASSUME NEW id \in Identity
             PROVE  LET b == baselines[id]  readings == arrivals[id]  n == b.request_count IN
                    /\ \A i \in DOMAIN readings : readings[i] <= clock
                    /\ \A i, j \in DOMAIN readings : i <= j => readings[i] <= readings[j]
                    /\ n <= Len(readings) /\ ~(n > 0) /\ ~(n >= 2)
                    /\ InTurn(Waiting(id), now, readings, n)
                    /\ ~flagged[id]
  BY DEF SteadyInv
<1> DEFINE readings == arrivals[id]
           n == baselines[id].request_count
<1>3. readings = <<>> /\ n = 0 /\ Waiting(id) = {} /\ ~flagged[id]
  BY <1>1
<1> HIDE DEF readings, n
<1>4. DOMAIN readings = {} /\ n <= Len(readings) /\ ~(n > 0) /\ ~(n >= 2)
  BY <1>3
<1>5. InTurn(Waiting(id), now, readings, n)
  BY <1>2, <1>3
<1> QED BY <1>3, <1>4, <1>5 DEF readings, n

(* The pace of a client whose requests go on steadily was steady before.   *)
LEMMA SteadyBefore ==
  ASSUME NEW readings \in Seq(Nat), NEW c \in Nat, Steady(Append(readings, c))
  PROVE  Steady(readings)
<1> SUFFICES ASSUME NEW i \in 1..Len(readings) - 1, NEW j \in 1..Len(readings) - 1
             PROVE  readings[i + 1] - readings[i] = readings[j + 1] - readings[j]
  BY DEF Steady
<1> DEFINE more == Append(readings, c)
<1>1. /\ i \in 1..Len(more) - 1 /\ j \in 1..Len(more) - 1
      /\ more[i + 1] = readings[i + 1] /\ more[i] = readings[i]
      /\ more[j + 1] = readings[j + 1] /\ more[j] = readings[j]
  OBVIOUS
<1> QED BY <1>1 DEF Steady

(* A clock reading is the latest, and its request the last in turn.        *)
LEMMA ArriveKeepsSteady ==
  ASSUME DetectorTypeOK, SteadyInv, NEW t \in Task, NEW id \in Identity, Arrive(t, id)
  PROVE  SteadyInv'
<1>1. /\ clock' = clock /\ clock \in Nat /\ baselines' = baselines /\ flagged' = flagged
      /\ overtaken' = overtaken
      /\ who' = [who EXCEPT ![t] = id] /\ now' = [now EXCEPT ![t] = clock]
      /\ arrivals' = [arrivals EXCEPT ![id] = Append(arrivals[id], clock)]
      /\ who[t] = Nobody
  BY DEF Arrive, DetectorTypeOK
<1>2. Waiting(id)' = Waiting(id) \cup {t} /\ t \notin Waiting(id)
  BY <1>1, DetectorAssumption DEF Waiting, DetectorTypeOK
<1>3. ASSUME NEW o \in Identity, o # id
      PROVE  /\ Waiting(o)' = Waiting(o) /\ arrivals'[o] = arrivals[o]
             /\ \A u \in Waiting(o) : now'[u] = now[u]
  BY <1>1, <1>3, DetectorAssumption DEF Waiting, DetectorTypeOK
<1>4. ASSUME NEW o \in Identity, o # id, NEW k,
             InTurn(Waiting(o), now, arrivals[o], k)
      PROVE  InTurn(Waiting(o)', now', arrivals'[o], k)
  BY <1>3, <1>4 DEF InTurn
<1> DEFINE old == arrivals[id]
           new == arrivals'[id]
           b == baselines[id]
           n == b.request_count
<1>5. /\ old \in Seq(Nat) /\ new = Append(old, clock) /\ Len(old) \in Nat
      /\ Len(new) = Len(old) + 1 /\ new[Len(old) + 1] = clock
      /\ \A i \in 1..Len(old) : new[i] = old[i] /\ old[i] \in Nat
      /\ DOMAIN old = 1..Len(old) /\ DOMAIN new = 1..(Len(old) + 1)
  BY <1>1 DEF DetectorTypeOK
<1>6. n \in Nat
  BY DEF DetectorTypeOK, Baseline
<1> HIDE DEF old, new, n
<1>7. ASSUME ~overtaken[id] PROVE InTurn(Waiting(id)', now', new, n)
  <2>1. PICK place \in [Waiting(id) -> (n + 1)..Len(old)] :
          /\ \A i \in (n + 1)..Len(old) : \E u \in Waiting(id) : place[u] = i
          /\ \A v, u \in Waiting(id) : place[v] = place[u] => v = u
          /\ \A u \in Waiting(id) : now[u] = old[place[u]]
    BY <1>7 DEF SteadyInv, InTurn, n, old
  <2>2. n <= Len(old)
    BY <1>7 DEF SteadyInv, n, old
  <2> DEFINE f == [u \in Waiting(id) \cup {t} |->
                      IF u = t THEN Len(old) + 1 ELSE place[u]]
  <2>3. /\ f[t] = Len(old) + 1
        /\ \A u \in Waiting(id) : f[u] = place[u] /\ place[u] \in (n + 1)..Len(old)
    BY <1>2, <2>1
  <2>4. f \in [Waiting(id)' -> (n + 1)..Len(new)]
    BY <1>2, <1>5, <1>6, <2>2, <2>3
  <2> HIDE DEF f
  <2>5. \A i \in (n + 1)..Len(new) : \E u \in Waiting(id)' : f[u] = i
    <3>1. TAKE i \in (n + 1)..Len(new)
    <3>2. CASE i = Len(old) + 1
      BY <1>2, <2>3, <3>2
    <3>3. CASE i # Len(old) + 1
      <4>1. i \in (n + 1)..Len(old)
        BY <1>5, <1>6, <3>3
      <4> QED BY <1>2, <2>1, <2>3, <4>1
    <3> QED BY <3>2, <3>3
  <2>6. \A v, u \in Waiting(id)' : f[v] = f[u] => v = u
    BY <1>2, <1>5, <1>6, <2>1, <2>3
  <2>7. \A u \in Waiting(id)' : now'[u] = new[f[u]]
    <3>1. now'[t] = clock
      BY <1>1 DEF DetectorTypeOK
    <3>2. \A u \in Waiting(id) : now'[u] = now[u]
      BY <1>1, <1>2 DEF DetectorTypeOK, Waiting
    <3>3. \A u \in Waiting(id) : now[u] = new[f[u]]
      <4>1. TAKE u \in Waiting(id)
      <4>2. place[u] \in 1..Len(old)
        BY <1>6, <2>3
      <4> QED BY <1>5, <2>1, <2>3, <4>2
    <3> QED BY <1>2, <1>5, <2>3, <3>1, <3>2, <3>3
  <2> QED BY <2>4, <2>5, <2>6, <2>7 DEF InTurn
<1>8. ASSUME Steady(new) PROVE Steady(old)
  BY <1>1, <1>5, <1>8, SteadyBefore
<1> SUFFICES ASSUME NEW o \in Identity
             PROVE  LET c == baselines[o]  readings == arrivals'[o]  k == c.request_count IN
                    /\ \A i \in DOMAIN readings : readings[i] <= clock
                    /\ \A i, j \in DOMAIN readings : i <= j => readings[i] <= readings[j]
                    /\ ~overtaken[o] =>
                          /\ k <= Len(readings)
                          /\ k > 0 => c.last_seen = readings[k]
                          /\ InTurn(Waiting(o)', now', readings, k)
                    /\ ~overtaken[o] /\ Steady(readings) =>
                          /\ k >= 2 =>
                                /\ c.fast_rate = FullRate \div MaxOf(readings[2] - readings[1], 1)
                                /\ c.slow_rate = c.fast_rate
                          /\ ~flagged[o]
  BY <1>1 DEF SteadyInv
<1>9. CASE o # id
  BY <1>3, <1>4, <1>9 DEF SteadyInv
<1>10. CASE o = id
  <2>1. /\ \A i \in DOMAIN old : old[i] <= clock
        /\ \A i, j \in DOMAIN old : i <= j => old[i] <= old[j]
        /\ ~overtaken[id] => n <= Len(old) /\ (n > 0 => b.last_seen = old[n])
        /\ ~overtaken[id] /\ Steady(old) =>
              /\ n >= 2 => /\ b.fast_rate = FullRate \div MaxOf(old[2] - old[1], 1)
                           /\ b.slow_rate = b.fast_rate
              /\ ~flagged[id]
    BY DEF SteadyInv, n, old
  <2> HIDE DEF b
  <2>2. \A i \in DOMAIN new : new[i] <= clock
    BY <1>1, <1>5, <2>1
  <2>3. \A i, j \in DOMAIN new : i <= j => new[i] <= new[j]
    BY <1>1, <1>5, <2>1
  <2>4. ASSUME ~overtaken[id]
        PROVE  n <= Len(new) /\ (n > 0 => b.last_seen = new[n])
              /\ InTurn(Waiting(id)', now', new, n)
    BY <1>5, <1>6, <1>7, <2>1, <2>4
  <2>5. ASSUME ~overtaken[id], Steady(new)
        PROVE  /\ n >= 2 => /\ b.fast_rate = FullRate \div MaxOf(new[2] - new[1], 1)
                            /\ b.slow_rate = b.fast_rate
               /\ ~flagged[id]
    <3>1. n >= 2 => new[1] = old[1] /\ new[2] = old[2]
      BY <1>5, <1>6, <2>1, <2>5
    <3> QED BY <1>8, <2>1, <2>5, <3>1
  <2> QED BY <1>10, <2>2, <2>3, <2>4, <2>5 DEF b, n, new
<1> QED BY <1>9, <1>10

(* A request that overtakes no other is the next in turn, and the others   *)
(* keep theirs.                                                            *)
LEMMA NextInTurn ==
  ASSUME NEW waiting, NEW t \in waiting, NEW taken, NEW readings \in Seq(Nat),
         NEW n \in Nat, InTurn(waiting, taken, readings, n),
         \A i, j \in DOMAIN readings : i <= j => readings[i] <= readings[j],
         \A u \in waiting : ~(taken[u] < taken[t])
  PROVE  /\ n + 1 <= Len(readings) /\ taken[t] = readings[n + 1]
         /\ InTurn(waiting \ {t}, taken, readings, n + 1)
<1> DEFINE N == Len(readings)
<1>1. PICK place \in [waiting -> (n + 1)..N] :
        /\ \A i \in (n + 1)..N : \E u \in waiting : place[u] = i
        /\ \A v, u \in waiting : place[v] = place[u] => v = u
        /\ \A u \in waiting : taken[u] = readings[place[u]]
  BY DEF InTurn
<1>2. N \in Nat /\ DOMAIN readings = 1..N /\ \A i \in 1..N : readings[i] \in Nat
  OBVIOUS
<1> HIDE DEF N
<1>3. \A u \in waiting : place[u] \in (n + 1)..N /\ place[u] \in 1..N
  BY <1>1, <1>2
<1>4. n + 1 \in (n + 1)..N /\ n + 1 \in 1..N
  BY <1>2, <1>3
<1>5. PICK first \in waiting : place[first] = n + 1
  BY <1>1, <1>4
<1>6. taken[first] = readings[n + 1] /\ taken[t] = readings[place[t]]
  BY <1>1, <1>5
<1>7. taken[t] = readings[n + 1]
  <2>1. n + 1 <= place[t]
    BY <1>3
  <2>2. readings[n + 1] <= readings[place[t]]
    BY <1>2, <1>3, <1>4, <2>1
  <2>3. ~(readings[n + 1] < readings[place[t]])
    BY <1>6
  <2>4. readings[n + 1] \in Nat /\ readings[place[t]] \in Nat
    BY <1>2, <1>3, <1>4
  <2> QED BY <1>6, <2>2, <2>3, <2>4
<1> DEFINE f == [u \in waiting \ {t} |-> IF u = first THEN place[t] ELSE place[u]]
<1>8. \A u \in waiting \ {t} :
         /\ u # first => f[u] = place[u]
         /\ u = first => f[u] = place[t]
         /\ f[u] \in (n + 2)..N
  <2> SUFFICES ASSUME NEW u \in waiting \ {t}
               PROVE  /\ u # first => f[u] = place[u]
                      /\ u = first => f[u] = place[t]
                      /\ f[u] \in (n + 2)..N
    OBVIOUS
  <2>1. f[u] = IF u = first THEN place[t] ELSE place[u]
    OBVIOUS
  <2>2. CASE u = first
    <3>1. place[t] # n + 1
      BY <1>1, <1>5, <2>2
    <3> QED BY <1>2, <1>3, <2>1, <2>2, <3>1
  <2>3. CASE u # first
    <3>1. place[u] # n + 1
      BY <1>1, <1>5, <2>3
    <3> QED BY <1>2, <1>3, <2>1, <2>3, <3>1
  <2> QED BY <2>2, <2>3
<1> DEFINE m == n + 1
<1>9. (m + 1)..N = (n + 2)..N
  OBVIOUS
<1>10. f \in [waiting \ {t} -> (m + 1)..N]
  BY <1>8, <1>9
<1> HIDE DEF f
<1>11. \A i \in (m + 1)..N : \E u \in waiting \ {t} : f[u] = i
  <2>1. TAKE i \in (m + 1)..N
  <2>2. i \in (n + 1)..N /\ i # n + 1
    BY <1>2, <1>9
  <2>3. PICK u \in waiting : place[u] = i
    BY <1>1, <2>2
  <2>4. CASE u = t
    <3>1. first # t
      BY <1>5, <2>2, <2>3, <2>4
    <3> QED BY <1>8, <2>3, <2>4, <3>1
  <2>5. CASE u # t
    <3>1. u # first
      BY <1>5, <2>2, <2>3
    <3> QED BY <1>8, <2>3, <2>5, <3>1
  <2> QED BY <2>4, <2>5
<1>12. \A v, u \in waiting \ {t} : f[v] = f[u] => v = u
  <2>1. \A v \in waiting \ {t} : place[v] # place[t]
    BY <1>1
  <2> QED BY <1>1, <1>8, <2>1
<1>13. \A u \in waiting \ {t} : taken[u] = readings[f[u]]
  <2>1. TAKE u \in waiting \ {t}
  <2>2. CASE u = first
    BY <1>6, <1>7, <1>8, <2>2
  <2>3. CASE u # first
    BY <1>1, <1>8, <2>3
  <2> QED BY <2>2, <2>3
<1>14. InTurn(waiting \ {t}, taken, readings, m)
  BY <1>10, <1>11, <1>12, <1>13 DEF InTurn, N
<1> QED BY <1>4, <1>7, <1>14 DEF N

(* What a measured request leaves of the turns.                            *)
LEMMA MeasuredInTurn ==
  ASSUME DetectorTypeOK, SteadyInv, NEW t \in Task, NEW id \in Identity, who[t] = id,
         who' = [who EXCEPT ![t] = Nobody], Overtaking(t)
  PROVE  LET n == baselines[id].request_count  readings == arrivals[id] IN
         /\ \A o \in Identity \ {id} :
               Waiting(o)' = Waiting(o) /\ overtaken'[o] = overtaken[o]
         /\ ~overtaken'[id] =>
               /\ ~overtaken[id] /\ n + 1 <= Len(readings) /\ now[t] = readings[n + 1]
               /\ InTurn(Waiting(id)', now, readings, n + 1)
<1> DEFINE n == baselines[id].request_count
           readings == arrivals[id]
<1>1. /\ Waiting(id)' = Waiting(id) \ {t} /\ t \in Waiting(id)
      /\ \A o \in Identity \ {id} : Waiting(o)' = Waiting(o)
  BY DetectorAssumption DEF Waiting, DetectorTypeOK
<1>2. /\ \A o \in Identity \ {id} : overtaken'[o] = overtaken[o]
      /\ overtaken'[id] <=> overtaken[id] \/ Overtakes(t)
  BY DEF Overtaking, DetectorTypeOK
<1>3. ASSUME ~overtaken'[id]
      PROVE  /\ ~overtaken[id] /\ n + 1 <= Len(readings) /\ now[t] = readings[n + 1]
             /\ InTurn(Waiting(id)', now, readings, n + 1)
  <2>1. ~overtaken[id] /\ \A u \in Waiting(id) : ~(now[u] < now[t])
    BY <1>2, <1>3 DEF Overtakes, Waiting
  <2>2. /\ readings \in Seq(Nat) /\ n \in Nat
        /\ \A i, j \in DOMAIN readings : i <= j => readings[i] <= readings[j]
        /\ InTurn(Waiting(id), now, readings, n)
    BY <2>1 DEF SteadyInv, DetectorTypeOK, Baseline
  <2> HIDE DEF n, readings
  <2> QED BY <1>1, <2>1, <2>2, NextInTurn
<1> QED BY <1>1, <1>2, <1>3

(* What is left of SteadyInv to show of a step that measures.              *)
LEMMA MeasuredKeepsSteady ==
  ASSUME DetectorTypeOK, SteadyInv, NEW t \in Task, NEW id \in Identity, who[t] = id,
         who' = [who EXCEPT ![t] = Nobody], Overtaking(t),
         UNCHANGED <<clock, now, arrivals>>,
         NEW b, baselines' = [baselines EXCEPT ![id] = b],
         NEW flag, flagged' = [flagged EXCEPT ![id] = flag],
         b.request_count = baselines[id].request_count + 1, b.last_seen = now[t],
         LET readings == arrivals[id] IN
         ~overtaken'[id] /\ Steady(readings) =>
            /\ b.request_count >= 2 =>
                  /\ b.fast_rate = FullRate \div MaxOf(readings[2] - readings[1], 1)
                  /\ b.slow_rate = b.fast_rate
            /\ ~flag
  PROVE  SteadyInv'
<1> DEFINE readings == arrivals[id]
           n == baselines[id].request_count
<1>1. /\ \A o \in Identity \ {id} :
            Waiting(o)' = Waiting(o) /\ overtaken'[o] = overtaken[o]
      /\ ~overtaken'[id] =>
            /\ ~overtaken[id] /\ n + 1 <= Len(readings) /\ now[t] = readings[n + 1]
            /\ InTurn(Waiting(id)', now, readings, n + 1)
  BY MeasuredInTurn
<1>2. /\ clock' = clock /\ now' = now /\ arrivals' = arrivals
      /\ baselines'[id] = b /\ (flagged'[id] <=> flag)
      /\ \A o \in Identity \ {id} : baselines'[o] = baselines[o] /\ flagged'[o] = flagged[o]
  BY DEF DetectorTypeOK
<1>3. n \in Nat
  BY DEF DetectorTypeOK, Baseline
<1> SUFFICES ASSUME NEW o \in Identity
             PROVE  LET c == baselines'[o]  past == arrivals[o]  k == c.request_count IN
                    /\ \A i \in DOMAIN past : past[i] <= clock
                    /\ \A i, j \in DOMAIN past : i <= j => past[i] <= past[j]
                    /\ ~overtaken'[o] =>
                          /\ k <= Len(past)
                          /\ k > 0 => c.last_seen = past[k]
                          /\ InTurn(Waiting(o)', now, past, k)
                    /\ ~overtaken'[o] /\ Steady(past) =>
                          /\ k >= 2 =>
                                /\ c.fast_rate = FullRate \div MaxOf(past[2] - past[1], 1)
                                /\ c.slow_rate = c.fast_rate
                          /\ ~flagged'[o]
  BY <1>2 DEF SteadyInv
<1>4. CASE o # id
  BY <1>1, <1>2, <1>4 DEF SteadyInv
<1>5. CASE o = id
  <2>1. /\ \A i \in DOMAIN readings : readings[i] <= clock
        /\ \A i, j \in DOMAIN readings : i <= j => readings[i] <= readings[j]
    BY DEF SteadyInv
  <2>2. b.request_count = n + 1
    OBVIOUS
  <2>3. ~overtaken'[id] => /\ n + 1 <= Len(readings) /\ b.last_seen = readings[n + 1]
                           /\ InTurn(Waiting(id)', now, readings, n + 1)
    BY <1>1
  <2> HIDE DEF n
  <2> QED BY <1>2, <1>3, <1>5, <2>1, <2>2, <2>3
<1> QED BY <1>4, <1>5

(* Two averages of one rate are that rate, and not far apart.              *)
LEMMA SameRates ==
  ASSUME NEW r \in Nat
  PROVE  (r + r) \div 2 = r /\ (r + 49 * r) \div 50 = r
OBVIOUS

LEMMA SameNotAnomalous ==
  ASSUME NEW b \in Baseline, b.slow_rate = b.fast_rate
  PROVE  ~Anomalous(b)
<1> DEFINE r == b.fast_rate
<1>1. r \in Nat
  BY DEF Baseline
<1>2. MinRate <= r /\ Threshold * r <= r => FALSE
  <2>1. Threshold \in Nat /\ Threshold >= 2 /\ MinRate \in Nat /\ MinRate >= 1
    BY DetectorAssumption
  <2> HIDE DEF r
  <2>2. 2 * r <= Threshold * r
    BY <1>1, <2>1, TimesTwo
  <2>3. Threshold * r \in Int
    BY <1>1, <2>1
  <2> QED BY <1>1, <2>1, <2>2, <2>3
<1>3. Threshold * r \in Int /\ MinRate \in Int
  BY <1>1, DetectorAssumption
<1> QED BY <1>1, <1>2, <1>3 DEF Anomalous

(* The interval a request in turn measures is the client's pace.           *)
LEMMA PaceMeasured ==
  ASSUME DetectorTypeOK, SteadyInv, NEW t \in Task, RecordAndCheck(t),
         ~overtaken'[who[t]], Steady(arrivals[who[t]])
  PROVE  LET readings == arrivals[who[t]] IN
         Instantaneous(t) = FullRate \div MaxOf(readings[2] - readings[1], 1)
<1> DEFINE id == who[t]
           readings == arrivals[id]
           n == baselines[id].request_count
<1>1. id \in Identity /\ who' = [who EXCEPT ![t] = Nobody] /\ Overtaking(t) /\ n > 0 /\ n \in Nat
  BY DEF RecordAndCheck, DetectorTypeOK, Baseline
<1>2. ~overtaken[id] /\ n + 1 <= Len(readings) /\ now[t] = readings[n + 1]
  BY <1>1, MeasuredInTurn
<1>3. baselines[id].last_seen = readings[n]
  BY <1>1, <1>2 DEF SteadyInv
<1>4. Len(readings) \in Nat
  BY <1>1 DEF DetectorTypeOK
<1>5. n \in 1..Len(readings) - 1 /\ 1 \in 1..Len(readings) - 1
  BY <1>1, <1>2, <1>4
<1>6. readings[n + 1] - readings[n] = readings[1 + 1] - readings[1]
  BY <1>5 DEF Steady
<1>7. 1 + 1 = 2
  OBVIOUS
<1> HIDE DEF readings, n
<1> QED BY <1>2, <1>3, <1>6, <1>7 DEF Instantaneous, readings

LEMMA FirstSeenKeepsSteady ==
  ASSUME DetectorTypeOK, SteadyInv, NEW t \in Task, FirstSeen(t)
  PROVE  SteadyInv'
<1> DEFINE id == who[t]
           b == Updated(t)
<1>1. /\ id \in Identity /\ now[t] \in Nat
      /\ baselines[id] \in Baseline /\ baselines[id].request_count = 0
  BY DEF FirstSeen, DetectorTypeOK
<1>2. Averaged(t) = baselines[id]
  BY <1>1 DEF Averaged
<1>3. b.request_count = 1 /\ b.last_seen = now[t]
  BY <1>1, <1>2, CountsOneMore
<1>4. /\ who' = [who EXCEPT ![t] = Nobody] /\ Overtaking(t)
      /\ UNCHANGED <<clock, now, arrivals>>
      /\ baselines' = [baselines EXCEPT ![id] = b] /\ flagged' = [flagged EXCEPT ![id] = FALSE]
  BY DEF FirstSeen
<1> HIDE DEF b
<1>5. b.request_count = baselines[id].request_count + 1 /\ ~(b.request_count >= 2)
  BY <1>1, <1>3
<1>6. ~overtaken'[id] /\ Steady(arrivals[id]) =>
         /\ b.request_count >= 2 =>
               /\ b.fast_rate = FullRate \div MaxOf(arrivals[id][2] - arrivals[id][1], 1)
               /\ b.slow_rate = b.fast_rate
         /\ ~FALSE
  BY <1>5
<1> QED BY <1>1, <1>3, <1>4, <1>5, <1>6, MeasuredKeepsSteady

LEMMA RecordAndCheckKeepsSteady ==
  ASSUME DetectorTypeOK, SteadyInv, NEW t \in Task, RecordAndCheck(t)
  PROVE  SteadyInv'
<1> DEFINE id == who[t]
           old == baselines[id]
           b == Updated(t)
           readings == arrivals[id]
           pace == FullRate \div MaxOf(readings[2] - readings[1], 1)
<1>1. /\ id \in Identity /\ old.request_count > 0 /\ old.request_count \in Nat
      /\ old.fast_rate \in Nat /\ old.slow_rate \in Nat
  BY DEF RecordAndCheck, DetectorTypeOK, Baseline
<1>2. /\ b \in Baseline /\ Instantaneous(t) \in Nat
      /\ b.request_count = old.request_count + 1 /\ b.last_seen = now[t]
      /\ old.request_count = 1 =>
            b.fast_rate = Instantaneous(t) /\ b.slow_rate = Instantaneous(t)
      /\ old.request_count # 1 =>
            /\ b.fast_rate = (Instantaneous(t) + old.fast_rate) \div 2
            /\ b.slow_rate = (Instantaneous(t) + 49 * old.slow_rate) \div 50
  BY UpdatedIs
<1>3. /\ who' = [who EXCEPT ![t] = Nobody] /\ Overtaking(t)
      /\ UNCHANGED <<clock, now, arrivals>>
      /\ baselines' = [baselines EXCEPT ![id] = b]
      /\ flagged' = [flagged EXCEPT ![id] = Anomalous(b)]
  BY DEF RecordAndCheck
<1>4. ASSUME ~overtaken'[id], Steady(readings)
      PROVE  b.fast_rate = pace /\ b.slow_rate = b.fast_rate /\ ~Anomalous(b)
  <2>1. Instantaneous(t) = pace
    BY <1>4, PaceMeasured
  <2>2. ~overtaken[id]
    BY <1>1, <1>3, <1>4, MeasuredInTurn
  <2>3. old.request_count # 1 => old.fast_rate = pace /\ old.slow_rate = pace
    BY <1>1, <1>4, <2>2 DEF SteadyInv
  <2> HIDE DEF b, old, pace
  <2>4. b.fast_rate = pace /\ b.slow_rate = pace
    <3>1. CASE old.request_count = 1
      BY <1>2, <2>1, <3>1
    <3>2. CASE old.request_count # 1
      BY <1>2, <2>1, <2>3, <3>2, SameRates
    <3> QED BY <3>1, <3>2
  <2> QED BY <1>2, <2>4, SameNotAnomalous
<1> HIDE DEF b, readings
<1>5. b.request_count = baselines[id].request_count + 1
  BY <1>2
<1>6. ~overtaken'[id] /\ Steady(arrivals[id]) =>
         /\ b.request_count >= 2 =>
               /\ b.fast_rate = FullRate \div MaxOf(arrivals[id][2] - arrivals[id][1], 1)
               /\ b.slow_rate = b.fast_rate
         /\ ~Anomalous(b)
  BY <1>4 DEF readings
<1> QED BY <1>1, <1>2, <1>3, <1>5, <1>6, MeasuredKeepsSteady

LEMMA TickKeepsSteady ==
  ASSUME DetectorTypeOK, SteadyInv, DetectorTick
  PROVE  SteadyInv'
<1>1. PICK gap \in Gap : Passes(gap)
  BY DEF DetectorTick
<1>2. gap \in Nat /\ clock' = clock + gap /\ clock \in Nat
  BY <1>1, ClientsAssumption DEF Passes, DetectorTypeOK
<1>3. /\ who' = who /\ now' = now /\ baselines' = baselines /\ flagged' = flagged
      /\ arrivals' = arrivals /\ overtaken' = overtaken
      /\ \A id \in Identity : Waiting(id)' = Waiting(id)
  BY DEF DetectorTick, Waiting
<1>4. \A id \in Identity : \A i \in DOMAIN arrivals[id] : arrivals[id][i] <= clock'
  <2> SUFFICES ASSUME NEW id \in Identity, NEW i \in DOMAIN arrivals[id]
               PROVE  arrivals[id][i] <= clock'
    OBVIOUS
  <2>1. arrivals[id][i] \in Nat
    BY DEF DetectorTypeOK
  <2>2. arrivals[id][i] <= clock
    BY DEF SteadyInv
  <2> QED BY <1>2, <2>1, <2>2
<1> QED BY <1>3, <1>4 DEF SteadyInv

LEMMA NextKeepsSteady ==
  ASSUME DetectorTypeOK, SteadyInv, [DetectorNext]_detectorVars
  PROVE  SteadyInv'
<1>1. CASE UNCHANGED detectorVars
  BY <1>1 DEF detectorVars, SteadyInv, Waiting
<1> QED BY <1>1, ArriveKeepsSteady, FirstSeenKeepsSteady, RecordAndCheckKeepsSteady,
           TickKeepsSteady DEF DetectorNext

(* A client whose requests come at a steady pace is never reported         *)
(* (src/bin/server.rs:2358), however many tasks carry them, unless one of  *)
(* them is applied before an earlier one.                                  *)
THEOREM SteadyClientsUnflagged == DetectorSpec => []SteadyNeverFlagged
<1> DEFINE Inv == DetectorInv /\ SteadyInv
<1>1. DetectorInit => Inv
  BY InitDetector, InitSteady
<1>2. Inv /\ [DetectorNext]_detectorVars => Inv'
  BY NextKeepsDetector, NextKeepsSteady DEF DetectorInv
<1>3. Inv => SteadyNeverFlagged
  BY DEF SteadyInv, SteadyNeverFlagged
<1> QED BY <1>1, <1>2, <1>3, PTL DEF DetectorSpec

-----------------------------------------------------------------------------
(* The two behind the authentication. *)

(* The requests on their way carry identities the two parts know.          *)
Known ==
    /\ config \in SecurityConfig
    /\ passed \in [Task -> Identity \cup {Nobody}]

(* Whoever gets past the authentication has an identity.                   *)
LEMMA IdentityOfKey ==
    ASSUME Known, NEW c \in Credential, Identify(c) # Nobody
    PROVE  Identify(c) \in Identity
<1>1. /\ config.api_keys \subseteq Credential \ {NoToken}
      /\ Identity = (Credential \ {NoToken}) \cup {Anonymous}
  BY MiddlewareAssumption DEF Known, SecurityConfig
<1> QED BY <1>1 DEF Identify

(* What a request does on its way, seen from the request.                  *)
LEMMA OnwardKeepsKnown ==
    ASSUME Known, NEW t \in Task, NEW id \in Identity, Onward(t, id)
    PROVE  Known'
  BY DEF Known, Onward

(* A step of the middleware is one of the limiter's, or none.              *)
LEMMA StepsOfLimiter ==
    ASSUME Known, [MiddlewareNext]_middlewareVars
    PROVE  [LimiterNext]_limiterVars
<1>1. ASSUME NEW c \in Credential, Unauthorized(c)
      PROVE  UNCHANGED limiterVars
  BY <1>1 DEF Unauthorized, middlewareVars, limiterVars
<1>2. ASSUME NEW c \in Credential, Identify(c) # Nobody, Refuse(Identify(c))
      PROVE  LimiterNext
  BY <1>2, IdentityOfKey DEF Refuse, LimiterNext
<1>3. ASSUME NEW c \in Credential, Identify(c) # Nobody,
             NEW t \in Task, Admit(t, Identify(c))
      PROVE  LimiterNext
  BY <1>3, IdentityOfKey DEF Admit, LimiterNext
<1>4. ASSUME NEW c \in Credential, NEW t \in Task, AdmitUnlimited(t, Identify(c))
      PROVE  UNCHANGED limiterVars
  BY <1>4 DEF AdmitUnlimited, limiterVars
<1>5. ASSUME NEW t \in Task, ReadClock(t)
      PROVE  UNCHANGED limiterVars
  BY <1>5 DEF ReadClock, Arrive, limiterVars
<1>6. ASSUME NEW t \in Task, Measure(t)
      PROVE  UNCHANGED limiterVars
  BY <1>6 DEF Measure, FirstSeen, RecordAndCheck, limiterVars
<1>7. CASE Tick
  BY <1>7 DEF Tick, LimiterNext, LimiterTick
<1>8. CASE UNCHANGED middlewareVars
  BY <1>8 DEF middlewareVars, limiterVars
<1> QED BY <1>1, <1>2, <1>3, <1>4, <1>5, <1>6, <1>7, <1>8 DEF MiddlewareNext

(* And one of the detector's, or none.                                     *)
LEMMA StepsOfDetector ==
    ASSUME Known, [MiddlewareNext]_middlewareVars
    PROVE  [DetectorNext]_detectorVars
<1> USE DEF detectorOwn
<1>1. ASSUME NEW c \in Credential, Unauthorized(c)
      PROVE  UNCHANGED detectorVars
  BY <1>1 DEF Unauthorized, middlewareVars, detectorVars
<1>2. ASSUME NEW c \in Credential, Refuse(Identify(c))
      PROVE  UNCHANGED detectorVars
  BY <1>2 DEF Refuse, TooManyRequests, detectorVars
<1>3. ASSUME NEW c \in Credential, NEW t \in Task, Admit(t, Identify(c))
      PROVE  UNCHANGED detectorVars
  BY <1>3 DEF Admit, Allow, Onward, detectorVars
<1>4. ASSUME NEW c \in Credential, NEW t \in Task, AdmitUnlimited(t, Identify(c))
      PROVE  UNCHANGED detectorVars
  BY <1>4 DEF AdmitUnlimited, Onward, detectorVars
<1>5. ASSUME NEW t \in Task, ReadClock(t)
      PROVE  DetectorNext
  <2>1. passed[t] \in Identity
    BY <1>5 DEF ReadClock, Known
  <2> QED BY <1>5, <2>1 DEF ReadClock, DetectorNext
<1>6. ASSUME NEW t \in Task, Measure(t)
      PROVE  DetectorNext
  BY <1>6 DEF Measure, DetectorNext
<1>7. CASE Tick
  BY <1>7 DEF Tick, DetectorNext, DetectorTick
<1>8. CASE UNCHANGED middlewareVars
  BY <1>8 DEF middlewareVars, detectorVars
<1> QED BY <1>1, <1>2, <1>3, <1>4, <1>5, <1>6, <1>7, <1>8 DEF MiddlewareNext

(* No step leaves Known.                                                   *)
LEMMA NextKeepsKnown ==
    ASSUME Known, [MiddlewareNext]_middlewareVars
    PROVE  Known'
<1>1. ASSUME NEW c \in Credential, Unauthorized(c)
      PROVE  Known'
  BY <1>1 DEF Unauthorized, middlewareVars, Known
<1>2. ASSUME NEW c \in Credential, Refuse(Identify(c))
      PROVE  Known'
  BY <1>2 DEF Refuse, Known
<1>3. ASSUME NEW c \in Credential, Identify(c) # Nobody, NEW t \in Task,
             Admit(t, Identify(c)) \/ AdmitUnlimited(t, Identify(c))
      PROVE  Known'
  BY <1>3, IdentityOfKey, OnwardKeepsKnown DEF Admit, AdmitUnlimited
<1>4. ASSUME NEW t \in Task, ReadClock(t)
      PROVE  Known'
  BY <1>4 DEF ReadClock, Known
<1>5. ASSUME NEW t \in Task, Measure(t)
      PROVE  Known'
  BY <1>5 DEF Measure, Known
<1>6. CASE Tick
  BY <1>6 DEF Tick, Known
<1>7. CASE UNCHANGED middlewareVars
  BY <1>7 DEF middlewareVars, Known
<1> QED BY <1>1, <1>2, <1>3, <1>4, <1>5, <1>6, <1>7 DEF MiddlewareNext

LEMMA AlwaysKnown == MiddlewareSpec => []Known
<1>1. MiddlewareInit => Known
  BY DEF MiddlewareInit, Known
<1>2. Known /\ [MiddlewareNext]_middlewareVars => Known'
  BY NextKeepsKnown
<1> QED BY <1>1, <1>2, PTL DEF MiddlewareSpec

(* The middleware implements the limiter alone: authentication in front of *)
(* it and the detector behind it change nothing of what it does            *)
(* (src/bin/server.rs:550-580).                                            *)
THEOREM ImplementsLimiter == MiddlewareSpec => LimiterSpec
<1>1. MiddlewareInit => LimiterInit
  BY DEF MiddlewareInit
<1>2. Known /\ [MiddlewareNext]_middlewareVars => [LimiterNext]_limiterVars
  BY StepsOfLimiter
<1> QED BY <1>1, <1>2, AlwaysKnown, PTL DEF MiddlewareSpec, LimiterSpec

(* So no client gets through more than its rate in the server either.      *)
THEOREM ServerHoldsRate == MiddlewareSpec => []RateHolds
  BY ImplementsLimiter, RateIsEnforced, PTL

(* Nor is a client turned away there before it has used up its rate.       *)
THEOREM ServerRefusesWhenDue == MiddlewareSpec => []RefusesOnlyAtLimit
  BY ImplementsLimiter, RefusalsAreDue, PTL

(* It implements the detector alone: its clock readings and updates come   *)
(* in orders the detector allows for (src/bin/server.rs:582-595).          *)
THEOREM ImplementsDetector == MiddlewareSpec => DetectorSpec
<1>1. MiddlewareInit => DetectorInit
  BY DEF MiddlewareInit
<1>2. Known /\ [MiddlewareNext]_middlewareVars => [DetectorNext]_detectorVars
  BY StepsOfDetector
<1> QED BY <1>1, <1>2, AlwaysKnown, PTL DEF MiddlewareSpec, DetectorSpec

(* So every report of the server is about a change of pace it measured.    *)
THEOREM ServerFlagsSpikes == MiddlewareSpec => []FlaggedMeansSpike
  BY ImplementsDetector, FlagsAreSpikes, PTL

(* And the server reports bursts.                                          *)
THEOREM ServerFlagsBursts ==
    ASSUME Threshold <= 8
    PROVE  MiddlewareSpec => BurstIsFlagged
  BY ImplementsDetector, BurstsAreFlagged, PTL

(* The server spares steady clients, too.                                  *)
THEOREM ServerSparesSteady == MiddlewareSpec => []SteadyNeverFlagged
  BY ImplementsDetector, SteadyClientsUnflagged, PTL

-----------------------------------------------------------------------------
(* Every request is measured once.                                         *)

(* A task is before the detector's clock reading or after it, never both.  *)
OneStage == \A t \in Task : passed[t] = Nobody \/ who[t] = Nobody

OnceInv == Known /\ RateInv /\ DetectorInv /\ OneStage /\ MeasuredOnce

(* Who is on the way: of a request that sets out or arrives there is one   *)
(* more or less, and the others do not notice.                             *)
LEMMA InFlightFinite ==
    ASSUME NEW id \in Identity
    PROVE  /\ IsFiniteSet(InFlight(id))
           /\ Cardinality(InFlight(id)) \in Nat
<1>1. InFlight(id) \subseteq Task /\ IsFiniteSet(Task)
  BY MiddlewareAssumption DEF InFlight
<1>2. IsFiniteSet(InFlight(id))
  BY <1>1, FS_Subset
<1> QED BY <1>2, FS_CardinalityType

(* A request that is let through sets out for the detector.                *)
LEMMA AdmitKeepsOnce ==
    ASSUME OnceInv, NEW t \in Task, NEW id \in Identity, Admit(t, id)
    PROVE  OneStage' /\ MeasuredOnce'
<1>1. /\ LimiterTypeOK /\ DetectorTypeOK /\ Known
      /\ passed[t] = Nobody /\ who[t] = Nobody
      /\ UNCHANGED <<who, baselines, config>>
      /\ admitted' = [admitted EXCEPT ![id] = Append(@, clock)]
      /\ passed' = [passed EXCEPT ![t] = IF config.anomaly_detector THEN id ELSE Nobody]
  BY DEF OnceInv, RateInv, DetectorInv, Admit, Allow, Onward, detectorOwn
<1>2. OneStage'
  BY <1>1 DEF OnceInv, OneStage, Known
<1>3. MeasuredOnce'
  <2> SUFFICES ASSUME config.rate_limiter, config.anomaly_detector, NEW o \in Identity
               PROVE  Len(admitted'[o]) =
                         baselines[o].request_count + Cardinality(InFlight(o)')
    BY <1>1 DEF MeasuredOnce
  <2>1. Len(admitted[o]) = baselines[o].request_count + Cardinality(InFlight(o))
    BY DEF OnceInv, MeasuredOnce
  <2>2. passed' = [passed EXCEPT ![t] = id]
    BY <1>1
  <2>3. Nobody # o
    BY DetectorAssumption
  <2>4. CASE o = id
    <3>1. InFlight(o)' = InFlight(o) \cup {t} /\ t \notin InFlight(o)
      BY <1>1, <2>2, <2>3, <2>4 DEF InFlight, Known
    <3>2. Cardinality(InFlight(o)') = Cardinality(InFlight(o)) + 1
      BY <3>1, InFlightFinite, FS_AddElement
    <3>3. admitted[o] \in Seq(Nat) /\ clock \in Nat
      BY <1>1 DEF LimiterTypeOK
    <3>4. admitted'[o] = Append(admitted[o], clock)
      BY <1>1, <2>4 DEF LimiterTypeOK
    <3>5. Len(admitted'[o]) = Len(admitted[o]) + 1
      BY <3>3, <3>4
    <3>6. baselines[o].request_count \in Nat /\ Cardinality(InFlight(o)) \in Nat
      BY <1>1, InFlightFinite DEF DetectorTypeOK, Baseline
    <3> QED BY <2>1, <3>2, <3>5, <3>6
  <2>5. CASE o # id
    <3>1. InFlight(o)' = InFlight(o)
      BY <1>1, <2>2, <2>3, <2>5 DEF InFlight, Known
    <3>2. admitted'[o] = admitted[o]
      BY <1>1, <2>5 DEF LimiterTypeOK
    <3> QED BY <2>1, <3>1, <3>2
  <2> QED BY <2>4, <2>5
<1> QED BY <1>2, <1>3

(* Reading the clock, a request stays on its way.                          *)
LEMMA ReadClockKeepsOnce ==
    ASSUME OnceInv, NEW t \in Task, ReadClock(t)
    PROVE  OneStage' /\ MeasuredOnce'
<1>1. /\ DetectorTypeOK /\ Known
      /\ who[t] = Nobody /\ passed[t] # Nobody
      /\ UNCHANGED <<admitted, baselines, config>>
      /\ who' = [who EXCEPT ![t] = passed[t]]
      /\ passed' = [passed EXCEPT ![t] = Nobody]
  BY DEF OnceInv, DetectorInv, ReadClock, Arrive
<1>2. OneStage'
  BY <1>1 DEF OnceInv, OneStage, Known, DetectorTypeOK
<1>3. \A id \in Identity : InFlight(id)' = InFlight(id)
  BY <1>1, DetectorAssumption DEF InFlight, Known, DetectorTypeOK
<1>4. MeasuredOnce'
  BY <1>1, <1>3 DEF OnceInv, MeasuredOnce
<1> QED BY <1>2, <1>4

(* Whatever a request does to the averages, the count is not theirs.       *)
LEMMA AveragesKeepCount ==
    ASSUME DetectorTypeOK, NEW t \in Task, who[t] # Nobody
    PROVE  /\ Averaged(t) \in Baseline
           /\ Averaged(t).request_count = baselines[who[t]].request_count
<1> DEFINE b    == baselines[who[t]]
           rate == Instantaneous(t)
<1>1. b \in Baseline /\ rate \in Nat
  BY RateIsNat DEF DetectorTypeOK
<1>2. b.fast_rate \in Nat /\ b.slow_rate \in Nat /\ b.request_count \in Nat
  BY <1>1 DEF Baseline
<1>3. CASE b.request_count = 0
  BY <1>1, <1>3 DEF Averaged
<1>4. CASE b.request_count = 1
  <2>1. Averaged(t) = [b EXCEPT !.fast_rate = rate, !.slow_rate = rate]
    BY <1>4 DEF Averaged
  <2> HIDE DEF b, rate
  <2>2. /\ Averaged(t) \in Baseline
        /\ Averaged(t).request_count = b.request_count
    BY <1>1, <2>1 DEF Baseline
  <2> QED BY <2>2 DEF b
<1>5. CASE b.request_count >= 2
  <2> DEFINE fast == (rate + b.fast_rate) \div 2
             slow == (rate + 49 * b.slow_rate) \div 50
  <2>1. Averaged(t) = [b EXCEPT !.fast_rate = fast, !.slow_rate = slow]
    BY <1>2, <1>5 DEF Averaged
  <2>2. fast \in Nat /\ slow \in Nat
    BY <1>1, <1>2, AverageBetween
  <2> HIDE DEF b, fast, slow
  <2>3. /\ Averaged(t) \in Baseline
        /\ Averaged(t).request_count = b.request_count
    BY <1>1, <2>1, <2>2 DEF Baseline
  <2> QED BY <2>3 DEF b
<1> QED BY <1>2, <1>3, <1>4, <1>5

(* A request the detector has counted has arrived.                         *)
LEMMA MeasureKeepsOnce ==
    ASSUME OnceInv, NEW t \in Task, Measure(t)
    PROVE  OneStage' /\ MeasuredOnce'
<1> DEFINE id == who[t]
<1>1. /\ DetectorTypeOK /\ Known
      /\ who[t] # Nobody /\ passed[t] = Nobody
      /\ UNCHANGED <<admitted, passed, config>>
      /\ who' = [who EXCEPT ![t] = Nobody]
      /\ baselines' = [baselines EXCEPT ![id] = Updated(t)]
  BY DEF OnceInv, OneStage, DetectorInv, Measure, FirstSeen, RecordAndCheck
<1>2. id \in Identity /\ now[t] \in Nat /\ baselines[id] \in Baseline
  BY <1>1 DEF DetectorTypeOK
<1>3. OneStage'
  BY <1>1 DEF OnceInv, OneStage, DetectorTypeOK
<1>4. Updated(t).request_count = baselines[id].request_count + 1
  BY <1>1, <1>2, AveragesKeepCount, CountsOneMore
<1>5. MeasuredOnce'
  <2> SUFFICES ASSUME config.rate_limiter, config.anomaly_detector, NEW o \in Identity
               PROVE  Len(admitted[o]) =
                         baselines'[o].request_count + Cardinality(InFlight(o)')
    BY <1>1 DEF MeasuredOnce
  <2>1. Len(admitted[o]) = baselines[o].request_count + Cardinality(InFlight(o))
    BY DEF OnceInv, MeasuredOnce
  <2>2. Nobody # o
    BY DetectorAssumption
  <2>3. CASE o = id
    <3>1. InFlight(o)' = InFlight(o) \ {t} /\ t \in InFlight(o)
      BY <1>1, <2>2, <2>3 DEF InFlight, DetectorTypeOK
    <3>2. Cardinality(InFlight(o)') = Cardinality(InFlight(o)) - 1
      BY <3>1, InFlightFinite, FS_RemoveElement
    <3>3. baselines'[o].request_count = baselines[o].request_count + 1
      BY <1>1, <1>2, <1>4, <2>3 DEF DetectorTypeOK
    <3>4. baselines[o].request_count \in Nat /\ Cardinality(InFlight(o)) \in Nat
      BY <1>2, <2>3, InFlightFinite DEF Baseline
    <3> QED BY <2>1, <3>2, <3>3, <3>4
  <2>4. CASE o # id
    <3>1. InFlight(o)' = InFlight(o)
      BY <1>1, <2>2, <2>4 DEF InFlight, DetectorTypeOK
    <3>2. baselines'[o] = baselines[o]
      BY <1>1, <2>4 DEF DetectorTypeOK
    <3> QED BY <2>1, <3>1, <3>2
  <2> QED BY <2>3, <2>4
<1> QED BY <1>3, <1>5

(* Whatever else happens leaves who is on the way and who was counted.     *)
LEMMA OthersKeepOnce ==
    ASSUME OnceInv, UNCHANGED <<who, baselines, config, passed, admitted>>
    PROVE  OneStage' /\ MeasuredOnce'
<1>1. \A id \in Identity : InFlight(id)' = InFlight(id)
  BY DEF InFlight
<1> QED BY <1>1 DEF OnceInv, OneStage, MeasuredOnce

(* Without a limiter nothing is promised but that a task does one thing.   *)
LEMMA UnlimitedKeepsOnce ==
    ASSUME OnceInv, NEW t \in Task, NEW id \in Identity, AdmitUnlimited(t, id)
    PROVE  OneStage' /\ MeasuredOnce'
  BY DEF OnceInv, OneStage, MeasuredOnce, AdmitUnlimited, Onward, Known, detectorOwn

LEMMA NextKeepsOnce ==
    ASSUME OnceInv, [MiddlewareNext]_middlewareVars
    PROVE  OnceInv'
<1>1. Known' /\ [LimiterNext]_limiterVars /\ [DetectorNext]_detectorVars
  BY NextKeepsKnown, StepsOfLimiter, StepsOfDetector DEF OnceInv
<1>2. RateInv' /\ DetectorInv'
  BY <1>1, NextKeepsRate, NextKeepsDetector DEF OnceInv
<1>3. OneStage' /\ MeasuredOnce'
  <2>1. ASSUME NEW c \in Credential, Unauthorized(c)
        PROVE  OneStage' /\ MeasuredOnce'
    BY <2>1, OthersKeepOnce DEF Unauthorized, middlewareVars, detectorOwn
  <2>2. ASSUME NEW c \in Credential, Refuse(Identify(c))
        PROVE  OneStage' /\ MeasuredOnce'
    BY <2>2, OthersKeepOnce DEF Refuse, TooManyRequests, detectorOwn
  <2>3. ASSUME NEW c \in Credential, Identify(c) # Nobody,
               NEW t \in Task, Admit(t, Identify(c))
        PROVE  OneStage' /\ MeasuredOnce'
    BY <1>1, <1>2, <2>3, IdentityOfKey, AdmitKeepsOnce DEF OnceInv
  <2>4. ASSUME NEW c \in Credential, Identify(c) # Nobody,
               NEW t \in Task, AdmitUnlimited(t, Identify(c))
        PROVE  OneStage' /\ MeasuredOnce'
    BY <2>4, IdentityOfKey, UnlimitedKeepsOnce DEF OnceInv
  <2>5. ASSUME NEW t \in Task, ReadClock(t)
        PROVE  OneStage' /\ MeasuredOnce'
    BY <2>5, ReadClockKeepsOnce
  <2>6. ASSUME NEW t \in Task, Measure(t)
        PROVE  OneStage' /\ MeasuredOnce'
    BY <1>2, <2>6, MeasureKeepsOnce
  <2>7. CASE Tick
    BY <2>7, OthersKeepOnce DEF Tick, detectorOwn
  <2>8. CASE UNCHANGED middlewareVars
    BY <2>8, OthersKeepOnce DEF middlewareVars, detectorOwn
  <2> QED BY <2>1, <2>2, <2>3, <2>4, <2>5, <2>6, <2>7, <2>8 DEF MiddlewareNext
<1> QED BY <1>1, <1>2, <1>3 DEF OnceInv

(* However the requests of a client overtake one another: each that is let *)
(* through is counted by the detector exactly once, and none that is       *)
(* turned away (src/bin/server.rs:576-595).                                *)
THEOREM EveryAdmissionMeasured == MiddlewareSpec => []MeasuredOnce
<1>1. MiddlewareInit => OnceInv
  <2> SUFFICES ASSUME MiddlewareInit
               PROVE  OnceInv
    OBVIOUS
  <2>1. Known /\ RateInv /\ DetectorInv
    BY InitRate, InitDetector DEF MiddlewareInit, Known
  <2>2. OneStage
    BY DEF MiddlewareInit, OneStage
  <2>3. ASSUME NEW id \in Identity
        PROVE  /\ Len(admitted[id]) = 0
               /\ baselines[id].request_count = 0
               /\ Cardinality(InFlight(id)) = 0
    <3>1. InFlight(id) = {}
      BY DetectorAssumption DEF InFlight, MiddlewareInit, DetectorInit
    <3> QED BY <3>1, FS_EmptySet DEF MiddlewareInit, DetectorInit, LimiterInit, NoBaseline
  <2>4. \A id \in Identity : Len(admitted[id]) =
            baselines[id].request_count + Cardinality(InFlight(id))
    <3> TAKE id \in Identity
    <3>1. /\ Len(admitted[id]) = 0
          /\ baselines[id].request_count = 0
          /\ Cardinality(InFlight(id)) = 0
      BY <2>3
    <3> QED BY <3>1
  <2>5. MeasuredOnce
    BY <2>4, Zenon DEF MeasuredOnce
  <2> QED BY <2>1, <2>2, <2>5 DEF OnceInv
<1>2. OnceInv /\ [MiddlewareNext]_middlewareVars => OnceInv'
  BY NextKeepsOnce
<1>3. OnceInv => MeasuredOnce
  BY DEF OnceInv
<1> QED BY <1>1, <1>2, <1>3, PTL DEF MiddlewareSpec

-----------------------------------------------------------------------------
(* Showing other keys does not help. *)

(* Only a client with a valid key, or the shared one, was ever let through. *)
OnlyValid == \A id \in Identity : admitted[id] # <<>> => id \in Valid

KeysInv == Known /\ RateInv /\ OnlyValid

(* The identity a request is given is a valid key, or the shared one.      *)
LEMMA IdentityIsValid ==
    ASSUME Known, NEW c \in Credential, Identify(c) # Nobody
    PROVE  Identify(c) \in Valid
  BY DEF Identify, Valid

(* The valid identities are finitely many.                                 *)
LEMMA ValidFinite ==
    ASSUME Known
    PROVE  /\ Valid \subseteq Identity
           /\ IsFiniteSet(Valid) /\ Cardinality(Valid) \in Nat
<1>1. config.api_keys \in KeySets
  BY DEF Known, SecurityConfig
<1>2. /\ IsFiniteSet(config.api_keys) /\ config.api_keys \subseteq Credential \ {NoToken}
      /\ Identity = (Credential \ {NoToken}) \cup {Anonymous}
  BY <1>1, MiddlewareAssumption
<1>3. IsFiniteSet({Anonymous})
  BY FS_Singleton
<1>4. IsFiniteSet(Valid) /\ Valid \subseteq Identity
  BY <1>2, <1>3 DEF Valid
<1> QED BY <1>4, FS_CardinalityType

(* No step lets through a client without a valid key.                      *)
LEMMA NextKeepsKeys ==
    ASSUME KeysInv, [MiddlewareNext]_middlewareVars
    PROVE  KeysInv'
<1>1. Known /\ RateInv /\ OnlyValid /\ LimiterTypeOK
  BY DEF KeysInv, RateInv
<1>2. Known' /\ RateInv'
  BY <1>1, NextKeepsKnown, StepsOfLimiter, NextKeepsRate
<1>3. ASSUME UNCHANGED <<admitted, config>>
      PROVE  OnlyValid'
  BY <1>1, <1>3 DEF OnlyValid, Valid
<1>4. ASSUME NEW c \in Credential, Identify(c) # Nobody, NEW t \in Task, Admit(t, Identify(c))
      PROVE  OnlyValid'
  <2> DEFINE id == Identify(c)
  <2>1. id \in Valid
    BY <1>1, <1>4, IdentityIsValid
  <2>2. config' = config /\ admitted' = [admitted EXCEPT ![id] = Append(@, clock)]
    BY <1>4 DEF Admit, Allow, Onward
  <2> HIDE DEF id
  <2>3. \A o \in Identity \ {id} : admitted'[o] = admitted[o]
    BY <1>1, <2>2 DEF LimiterTypeOK
  <2> QED BY <1>1, <2>1, <2>2, <2>3 DEF OnlyValid, Valid
<1>5. ASSUME NEW c \in Credential, Unauthorized(c)
      PROVE  UNCHANGED <<admitted, config>>
  BY <1>5 DEF Unauthorized, middlewareVars
<1>6. ASSUME NEW c \in Credential, Refuse(Identify(c))
      PROVE  UNCHANGED <<admitted, config>>
  BY <1>6 DEF Refuse, TooManyRequests
<1>7. ASSUME NEW c \in Credential, NEW t \in Task, AdmitUnlimited(t, Identify(c))
      PROVE  UNCHANGED <<admitted, config>>
  BY <1>7 DEF AdmitUnlimited, Onward
<1>8. ASSUME NEW t \in Task, ReadClock(t) \/ Measure(t)
      PROVE  UNCHANGED <<admitted, config>>
  BY <1>8 DEF ReadClock, Measure
<1>9. ASSUME Tick \/ UNCHANGED middlewareVars
      PROVE  UNCHANGED <<admitted, config>>
  BY <1>9 DEF Tick, middlewareVars
<1>10. OnlyValid'
  BY <1>3, <1>4, <1>5, <1>6, <1>7, <1>8, <1>9 DEF MiddlewareNext
<1> QED BY <1>2, <1>10 DEF KeysInv

(* The admissions of one client in a stretch of time can be numbered from  *)
(* its first one on, and their number is held by the rate.                 *)
LEMMA OneClientsShare ==
    ASSUME RateInv, NEW id \in Identity, NEW from \in Nat, NEW to \in Nat, from <= to,
           NEW first \in DOMAIN admitted[id], NEW i \in DOMAIN admitted[id],
           first <= i, admitted[id][first] \in from..to, admitted[id][i] \in from..to
    PROVE  i - first + 1 \in 1..(Burst + Rate * (to - from)) \div Token
<1> DEFINE a == admitted[id][first]
           b == admitted[id][i]
           k == i - first + 1
           most == Burst + Rate * (to - from)
<1>1. /\ a \in Nat /\ b \in Nat /\ from <= a /\ b <= to
      /\ first \in Int /\ i \in Int
  BY DEF RateInv, LimiterTypeOK
<1>2. k * Token <= Burst + Rate * (b - a)
  BY DEF RateInv, RateHolds
<1>3. k \in Nat /\ k >= 1
  BY <1>1
<1>4. Rate \in Nat /\ Burst \in Nat /\ Token \in Nat \ {0}
  BY RateLimiterAssumption
<1>5. Rate * (b - a) <= Rate * (to - from) /\ Rate * (b - a) \in Int /\ Rate * (to - from) \in Nat
  <2> HIDE DEF a, b
  <2>1. (to - from) - (b - a) \in Nat /\ to - from \in Nat /\ b - a \in Int
    BY <1>1
  <2>2. Rate * ((to - from) - (b - a)) \in Nat /\ Rate * (to - from) \in Nat
    BY <1>4, <2>1
  <2> QED BY <1>4, <2>1, <2>2
<1>6. k * Token \in Nat
  BY <1>3, <1>4
<1> DEFINE gain == Rate * (b - a)
           refill == Rate * (to - from)
           taken == k * Token
<1>7. taken <= most /\ most \in Nat
  <2>1. /\ gain <= refill /\ gain \in Int /\ refill \in Nat /\ taken \in Nat
        /\ taken <= Burst + gain /\ most = Burst + refill
    BY <1>2, <1>5, <1>6
  <2> HIDE DEF gain, refill, taken, most
  <2> QED BY <1>4, <2>1
<1>8. k <= most \div Token
  <2> HIDE DEF k, most
  <2> QED BY <1>3, <1>4, <1>7, DivBounds
<1> QED BY <1>3, <1>8

LEMMA CountTo ==
    ASSUME NEW n \in Nat
    PROVE  IsFiniteSet(1..n) /\ Cardinality(1..n) = n
<1>1. 1 \in Int /\ n \in Int
  OBVIOUS
<1>2. IsFiniteSet(1..n) /\ Cardinality(1..n) = IF 1 > n THEN 0 ELSE n - 1 + 1
  BY <1>1, FS_Interval
<1> QED BY <1>2

(* Together they are no more than one client's most for each valid key.    *)
LEMMA KeysShare ==
    ASSUME KeysInv, NEW from \in Nat, NEW to \in Nat, from <= to
    PROVE  Cardinality(Admissions(from, to)) * Token
              <= Cardinality(Valid) * (Burst + Rate * (to - from))
<1> DEFINE most == Burst + Rate * (to - from)
           share == most \div Token
           A == Admissions(from, to)
           Of(id) == {i \in DOMAIN admitted[id] : admitted[id][i] \in from..to}
           First(id) == CHOOSE i \in Of(id) : \A j \in Of(id) : i <= j
           number == [p \in A |-> <<p[1], p[2] - First(p[1]) + 1>>]
<1>1. /\ RateInv /\ Known /\ OnlyValid
      /\ Token \in Nat \ {0} /\ most \in Nat /\ share \in Nat
      /\ share * Token <= most
  <2>1. /\ Rate \in Nat /\ Burst \in Nat /\ Token \in Nat \ {0} /\ to - from \in Nat
    BY RateLimiterAssumption
  <2>2. Rate * (to - from) \in Nat
    BY <2>1
  <2>3. most \in Nat
    BY <2>1, <2>2
  <2> HIDE DEF most
  <2> QED BY <2>1, <2>3, DivBounds, DivIsNat DEF KeysInv
<1>2. \A id \in Identity : Of(id) # {} =>
         First(id) \in Of(id) /\ \A j \in Of(id) : First(id) <= j
  <2> SUFFICES ASSUME NEW id \in Identity, Of(id) # {}
               PROVE  First(id) \in Of(id) /\ \A j \in Of(id) : First(id) <= j
    OBVIOUS
  <2>1. Of(id) \subseteq Nat
    <3>1. admitted[id] \in Seq(Nat)
      BY <1>1 DEF RateInv, LimiterTypeOK
    <3>2. DOMAIN admitted[id] \subseteq Nat
      BY <3>1
    <3> QED BY <3>2
  <2> HIDE DEF Of
  <2>2. \E i \in Of(id) : \A j \in Of(id) : i <= j
    BY <2>1, Least
  <2> QED BY <2>2
<1>3. ASSUME NEW p \in A
      PROVE  /\ p[1] \in Identity /\ p[2] \in Of(p[1]) /\ p = <<p[1], p[2]>>
             /\ p[1] \in Valid /\ p[2] \in Int
  <2>1. /\ p[1] \in Identity /\ p[2] \in DOMAIN admitted[p[1]] /\ p = <<p[1], p[2]>>
        /\ admitted[p[1]][p[2]] \in from..to
    BY DEF Admissions
  <2>2. admitted[p[1]] \in Seq(Nat)
    BY <1>1, <2>1 DEF RateInv, LimiterTypeOK
  <2>3. admitted[p[1]] # <<>> /\ p[2] \in Int
    BY <2>1, <2>2
  <2> QED BY <1>1, <2>1, <2>3 DEF OnlyValid
<1>4. ASSUME NEW p \in A
      PROVE  /\ First(p[1]) \in Of(p[1]) /\ First(p[1]) \in Int
             /\ p[2] - First(p[1]) + 1 \in 1..share
  <2>1. /\ p[1] \in Identity /\ p[2] \in Of(p[1])
        /\ First(p[1]) \in Of(p[1]) /\ First(p[1]) <= p[2]
    BY <1>2, <1>3
  <2>2. Of(p[1]) \subseteq Int
    BY <1>1, <2>1 DEF RateInv, LimiterTypeOK
  <2> HIDE DEF First
  <2>3. p[2] - First(p[1]) + 1 \in 1..(Burst + Rate * (to - from)) \div Token
    BY <1>1, <2>1, OneClientsShare
  <2> QED BY <2>1, <2>2, <2>3
<1> HIDE DEF A, Of, First
<1>5. number \in Injection(A, Valid \X (1..share))
  <2>1. number \in [A -> Valid \X (1..share)]
    BY <1>3, <1>4
  <2>2. ASSUME NEW p \in A, NEW q \in A, number[p] = number[q]
        PROVE  p = q
    <3>1. p[1] = q[1] /\ p[2] - First(p[1]) + 1 = q[2] - First(q[1]) + 1
      BY <2>2
    <3>2. p[2] = q[2]
      BY <1>3, <1>4, <3>1
    <3> QED BY <1>3, <3>1, <3>2
  <2> HIDE DEF number
  <2> QED BY <2>1, <2>2 DEF Injection, IsInjective
<1>6. /\ IsFiniteSet(Valid) /\ Cardinality(Valid) \in Nat
  BY <1>1, ValidFinite
<1>7. /\ IsFiniteSet(1..share) /\ Cardinality(1..share) = share
  BY <1>1, CountTo
<1>8. /\ IsFiniteSet(Valid \X (1..share))
      /\ Cardinality(Valid \X (1..share)) = Cardinality(Valid) * share
  BY <1>6, <1>7, FS_Product
<1>9. /\ Cardinality(A) <= Cardinality(Valid) * share /\ Cardinality(A) \in Nat
  <2>1. IsFiniteSet(A) /\ Cardinality(A) <= Cardinality(Valid \X (1..share))
    BY <1>5, <1>8, FS_Injection
  <2> QED BY <1>8, <2>1, FS_CardinalityType
<1>10. Cardinality(A) * Token <= Cardinality(Valid) * most
  <2> HIDE DEF most, share
  <2> QED BY <1>1, <1>6, <1>9, Shares
<1> QED BY <1>10 DEF A

(* Showing another key on every request gets no more through in any time   *)
(* than as many clients may as there are valid keys                        *)
(* (src/bin/server.rs:541-549).                                            *)
THEOREM KeysBuyNothing == MiddlewareSpec => []NoExtraBuckets
<1>1. MiddlewareInit => KeysInv
  <2> SUFFICES ASSUME MiddlewareInit PROVE KeysInv
    OBVIOUS
  <2>1. Known /\ RateInv
    BY InitRate DEF MiddlewareInit, Known
  <2>2. OnlyValid
    BY DEF MiddlewareInit, LimiterInit, OnlyValid
  <2> QED BY <2>1, <2>2 DEF KeysInv
<1>2. KeysInv /\ [MiddlewareNext]_middlewareVars => KeysInv'
  BY NextKeepsKeys
<1>3. KeysInv => NoExtraBuckets
  <2> SUFFICES ASSUME KeysInv, NEW from \in Moments, NEW to \in Moments, from <= to
               PROVE  Cardinality(Admissions(from, to)) * Token
                         <= Cardinality(Valid) * (Burst + Rate * (to - from))
    BY DEF NoExtraBuckets
  <2>1. from \in Nat /\ to \in Nat
    BY DEF KeysInv, RateInv, LimiterTypeOK, Moments
  <2> QED BY <2>1, KeysShare
<1> QED BY <1>1, <1>2, <1>3, PTL DEF MiddlewareSpec
=============================================================================
