-------------------------- MODULE RateLimiterProofs --------------------------
(***************************************************************************)
(* Proofs about RateLimiter for all hosts, rates, bursts and slowdowns: the *)
(* balances stay under their capacities; as long as the slowdown of a host  *)
(* does not fall, a later caller is never told an earlier time than one     *)
(* that asked before; and the rate of what is asked for a host is bounded.  *)
(***************************************************************************)
EXTENDS RateLimiter, FiniteSetTheorems, TLAPS

(* A product with one positive factor is not below the other one. *)
LEMMA ProductGrows ==
  ASSUME NEW a \in Nat, NEW b \in Nat, b >= 1
  PROVE  a * b \in Nat /\ a * b >= a
OBVIOUS

(* What the assumptions on the constants say of a host's bucket. *)
LEMMA CapacityIs == HostCapacity \in Nat /\ HostCapacity >= Token /\ Token \in Nat
                    /\ Token > 0 /\ Uptime \in Nat /\ Uptime > 0
                    /\ Ratio \in Nat /\ Ratio > 0 /\ Burst \in Nat /\ Burst > 0
                    /\ FullGain \in Nat /\ FullGain >= 10 /\ SubTicks \in Nat
<1>1. PerHostRps \in Nat /\ Ratio \in Nat /\ Ratio >= 1 /\ FullGain \in Nat
      /\ FullGain >= 10
  BY RatesAssumption, GainsAssumption
<1>2. Token \in Nat /\ Token >= Ratio
  BY <1>1, ProductGrows DEF Token
<1>3. PerHostRps + 2 \in Nat /\ PerHostRps + 2 >= 1
  BY <1>1
<1>4. Token * (PerHostRps + 2) \in Nat /\ Token * (PerHostRps + 2) >= Token
  BY <1>2, <1>3, ProductGrows, Zenon
<1>5. Token * (PerHostRps + 2) = (PerHostRps + 2) * Token
  BY <1>2, <1>3
<1>6. HostCapacity \in Nat /\ HostCapacity >= Token
  BY <1>4, <1>5, Zenon DEF HostCapacity
<1> QED BY <1>1, <1>2, <1>6, RatesAssumption, UptimeAssumption, GainsAssumption

(* What a division of the instants of a tick gives. *)
LEMMA DivisionIs ==
  ASSUME NEW n \in Nat, NEW g \in Nat \ {0}
  PROVE  /\ n \div g \in Nat /\ g * (n \div g) <= n
         /\ n < g * (n \div g) + g
OBVIOUS

(* A host with less gain takes no less time for a unit. *)
LEMMA LessGainLongerUnit ==
  ASSUME NEW g \in Nat \ {0}, NEW k \in Nat \ {0}, k <= g
  PROVE  PerUnit(g) \in Nat /\ PerUnit(k) \in Nat /\ PerUnit(g) <= PerUnit(k)
         /\ g * PerUnit(g) <= SubTicks
<1>1. SubTicks \in Nat
  BY GainsAssumption
<1> DEFINE p == PerUnit(g)
           q == PerUnit(k)
<1>2. p \in Nat /\ q \in Nat /\ g * p <= SubTicks /\ SubTicks < k * q + k
  BY <1>1, DivisionIs DEF PerUnit
<1>3. p <= q
  <2> HIDE DEF p, q
  <2> SUFFICES ASSUME q + 1 <= p PROVE FALSE
    BY <1>2
  <2>1. k * (q + 1) = k * q + k
    BY <1>2
  <2>2. k * (q + 1) <= g * (q + 1)
    BY <1>2
  <2>3. g * (q + 1) <= g * p
    BY <1>2
  <2>4. k * (q + 1) \in Nat /\ g * (q + 1) \in Nat /\ g * p \in Nat
    BY <1>2
  <2> QED BY <1>1, <1>2, <2>1, <2>2, <2>3, <2>4
<1> QED BY <1>2, <1>3

(* The wait at time t for n of a bucket of capacity c that held b at time   *)
(* l and gains g per tick, at p instants per unit.                          *)
Missing(b, t, l, g, c, n) == Larger(0, n - Smaller(b + (t - l) * g, c))
WaitFor(b, t, l, g, c, n, p) == Missing(b, t, l, g, c, n) * p

(* What is missing is a natural number. *)
LEMMA MissingNat ==
  ASSUME NEW b \in Int, NEW t \in Int, NEW l \in Int, NEW g \in Nat, NEW c \in Int,
         NEW n \in Int
  PROVE  Missing(b, t, l, g, c, n) \in Nat
<1>1. (t - l) * g \in Int
  OBVIOUS
<1> QED BY <1>1 DEF Missing, Smaller, Larger

(* So is the wait. *)
LEMMA WaitNat ==
  ASSUME NEW b \in Int, NEW t \in Int, NEW l \in Int, NEW g \in Nat, NEW c \in Int,
         NEW n \in Int, NEW p \in Nat
  PROVE  WaitFor(b, t, l, g, c, n, p) \in Nat
<1> DEFINE m == Missing(b, t, l, g, c, n)
<1>1. m \in Nat
  BY MissingNat, Zenon
<1> HIDE DEF m
<1>2. m * p \in Nat
  BY <1>1
<1> QED BY <1>2, Zenon DEF WaitFor, m

(* Products keep the order of their factors. *)
LEMMA ProductsOrdered ==
  ASSUME NEW x \in Nat, NEW y \in Nat, NEW p \in Nat, NEW q \in Nat, x <= y, p <= q
  PROVE  x * p <= y * q
<1>1. x * p <= y * p
  OBVIOUS
<1>2. y * p <= y * q
  OBVIOUS
<1>3. x * p \in Int /\ y * p \in Int /\ y * q \in Int
  OBVIOUS
<1> QED BY <1>1, <1>2, <1>3

(* A tick shortens a wait by a tick at most. *)
LEMMA TickedWait ==
  ASSUME NEW b \in Int, NEW t \in Int, NEW l \in Int, NEW g \in Nat, NEW c \in Int,
         NEW n \in Int, NEW p \in Nat, NEW s \in Nat, g * p <= s,
         NEW u, u = t + 1
  PROVE  WaitFor(b, t, l, g, c, n, p) <= s + WaitFor(b, u, l, g, c, n, p)
<1> DEFINE m == Missing(b, t, l, g, c, n)
           k == Missing(b, u, l, g, c, n)
<1>1. u \in Int
  OBVIOUS
<1>2. m \in Nat /\ k \in Nat
  BY <1>1, MissingNat, Zenon
<1>3. m <= k + g
  <2>1. (u - l) * g = (t - l) * g + g
    OBVIOUS
  <2>2. (t - l) * g \in Int
    OBVIOUS
  <2> QED BY <2>1, <2>2 DEF Missing, Smaller, Larger
<1> HIDE DEF m, k
<1>4. m * p <= (k + g) * p
  BY <1>2, <1>3
<1>5. (k + g) * p = k * p + g * p
  BY <1>2
<1>6. m * p <= s + k * p
  <2>1. m * p \in Int /\ k * p \in Int /\ g * p \in Int /\ (k + g) * p \in Int
    BY <1>2
  <2> QED BY <2>1, <1>4, <1>5
<1> QED BY <1>6, Zenon DEF WaitFor, m, k

(* Taking some of a bucket shortens the wait of nobody who comes next. *)
LEMMA TakenWaitsLonger ==
  ASSUME NEW b \in Int, NEW t \in Int, NEW l \in Int, NEW g \in Nat, NEW c \in Int,
         NEW n \in Int, NEW p \in Nat, NEW k \in Nat,
         NEW r, r = Smaller(b + (t - l) * g, c) - k
  PROVE  WaitFor(b, t, l, g, c, n, p) <= WaitFor(r, t, t, g, c, n, p)
<1> DEFINE m == Missing(b, t, l, g, c, n)
           j == Missing(r, t, t, g, c, n)
<1>1. r \in Int
  <2>1. (t - l) * g \in Int
    OBVIOUS
  <2> QED BY <2>1 DEF Smaller
<1>2. m \in Nat /\ j \in Nat
  BY <1>1, MissingNat, Zenon
<1>3. m <= j
  <2>1. (t - l) * g \in Int /\ (t - t) * g = 0
    OBVIOUS
  <2> QED BY <1>1, <2>1 DEF Missing, Smaller, Larger
<1> HIDE DEF m, j
<1>4. m * p <= j * p
  BY <1>2, <1>3, ProductsOrdered
<1> QED BY <1>4, Zenon DEF WaitFor, m, j

(* Less gain makes nobody wait less. *)
LEMMA SlowerWaitsLonger ==
  ASSUME NEW b \in Int, NEW t \in Int, NEW l \in Int, l <= t, NEW g \in Nat,
         NEW f \in Nat, f <= g, NEW c \in Int, NEW n \in Int,
         NEW p \in Nat, NEW q \in Nat, p <= q
  PROVE  WaitFor(b, t, l, g, c, n, p) <= WaitFor(b, t, l, f, c, n, q)
<1> DEFINE m == Missing(b, t, l, g, c, n)
           j == Missing(b, t, l, f, c, n)
<1>1. m \in Nat /\ j \in Nat
  BY MissingNat, Zenon
<1>2. m <= j
  <2>1. (t - l) * g \in Int /\ (t - l) * f \in Int /\ (t - l) * f <= (t - l) * g
    OBVIOUS
  <2> QED BY <2>1 DEF Missing, Smaller, Larger
<1> HIDE DEF m, j
<1>3. m * p <= j * q
  BY <1>1, <1>2, ProductsOrdered
<1> QED BY <1>3, Zenon DEF WaitFor, m, j

(* The slowest a host can be still gains. *)
LEMMA LeastGain == FullGain \div 10 \in Nat /\ FullGain \div 10 >= 1
<1>1. FullGain \in Nat /\ FullGain >= 10
  BY GainsAssumption
<1> DEFINE q == FullGain \div 10
<1>2. q \in Nat /\ FullGain < 10 * q + 10
  <2>1. 10 \in Nat \ {0}
    OBVIOUS
  <2> QED BY <1>1, <2>1, DivisionIs, Zenon
<1> HIDE DEF q
<1>3. q >= 1
  BY <1>1, <1>2
<1> QED BY <1>2, <1>3, Zenon DEF q

(* _calculate_slowdown keeps the factor between 1 and 10. *)
LEMMA AdjustedGain ==
  ASSUME NEW g \in Nat, FullGain \div 10 <= g, g <= FullGain, NEW k \in Adjusted(g)
  PROVE  k \in Nat /\ FullGain \div 10 <= k /\ k <= FullGain
<1> DEFINE least == FullGain \div 10
<1>1. least \in Nat /\ least >= 1 /\ least <= g /\ FullGain \in Nat /\ FullGain >= 10
  BY LeastGain, GainsAssumption
<1>2. 10 * least <= FullGain
  <2>1. 10 \in Nat \ {0} /\ FullGain \in Nat
    BY <1>1
  <2> QED BY <2>1, DivisionIs, Zenon
<1> HIDE DEF least
<1>3. CASE k = Slower(g)
  <2> DEFINE x == (2 * g) \div 3
  <2>1. x \in Nat /\ 3 * x <= 2 * g
    <3>1. 2 * g \in Nat /\ 3 \in Nat \ {0}
      OBVIOUS
    <3> QED BY <3>1, DivisionIs, Zenon
  <2>2. k = Larger(least, x)
    BY <1>3 DEF Slower, least
  <2> HIDE DEF x
  <2>3. k \in Nat /\ least <= k /\ k <= FullGain
    BY <1>1, <1>2, <2>1, <2>2 DEF Larger
  <2> QED BY <2>3 DEF least
<1>4. CASE k = Faster(g)
  <2> DEFINE x == (6 * g) \div 5
  <2>1. x \in Nat /\ 6 * g < 5 * x + 5
    <3>1. 6 * g \in Nat /\ 5 \in Nat \ {0}
      OBVIOUS
    <3> QED BY <3>1, DivisionIs, Zenon
  <2>2. k = Smaller(FullGain, x)
    BY <1>4 DEF Faster
  <2> HIDE DEF x
  <2>3. k \in Nat /\ least <= k /\ k <= FullGain
    BY <1>1, <1>2, <2>1, <2>2 DEF Smaller
  <2> QED BY <2>3 DEF least
<1>5. CASE k \in Between2And10(g)
  <2>1. PICK a \in Averages : k = Smaller(FullGain, Larger(g, (3 * FullGain) \div a))
    BY <1>5 DEF Between2And10
  <2> DEFINE x == (3 * FullGain) \div a
  <2>2. x \in Nat
    <3>1. 3 * FullGain \in Nat /\ a \in Nat \ {0}
      BY <1>1, GainsAssumption
    <3> QED BY <3>1, DivisionIs, Zenon
  <2>3. k = Smaller(FullGain, Larger(g, x))
    BY <2>1
  <2> HIDE DEF x
  <2>4. k \in Nat /\ least <= k /\ k <= FullGain
    BY <1>1, <1>2, <2>2, <2>3 DEF Smaller, Larger
  <2> QED BY <2>4 DEF least
<1> QED BY <1>3, <1>4, <1>5 DEF Adjusted

(* The caps, and that the clock is not behind what it stamped. *)
TimeInv ==
  /\ now \in Nat /\ now > 0
  /\ global_tokens \in Int /\ global_tokens <= Burst
  /\ global_last_refill \in Nat /\ global_last_refill <= now
  /\ tokens \in [Hosts -> Int]
  /\ \A h \in Hosts : tokens[h] <= HostCapacity
  /\ last_refill \in [Hosts -> Nat]
  /\ \A h \in Hosts : last_refill[h] <= now
  /\ last_request_time \in [Hosts -> Nat]
  /\ \A h \in Hosts : last_request_time[h] <= now

(* The slowdown factors are between 1 and 10. *)
GainInv ==
  /\ gain \in [Hosts -> Nat]
  /\ \A h \in Hosts : FullGain \div 10 <= gain[h] /\ gain[h] <= FullGain
  /\ known \in [Hosts -> 0..3]
  /\ eased \in [Hosts -> Nat] /\ resets \in [Hosts -> Nat]

LimiterInv == TimeInv /\ GainInv

(* What the invariant says of the state of one host. *)
LEMMA HostTypes ==
  ASSUME LimiterInv, NEW h \in Hosts
  PROVE  /\ now \in Nat /\ now \in Int /\ now > 0
         /\ tokens[h] \in Int /\ tokens[h] <= HostCapacity
         /\ last_refill[h] \in Int /\ last_refill[h] \in Nat /\ last_refill[h] <= now
         /\ last_request_time[h] \in Nat /\ last_request_time[h] <= now
         /\ gain[h] \in Nat /\ gain[h] >= 1 /\ gain[h] <= FullGain
         /\ gain[h] \in Nat \ {0}
         /\ PerUnit(gain[h]) \in Nat /\ gain[h] * PerUnit(gain[h]) <= SubTicks
<1>1. /\ now \in Nat /\ now > 0 /\ tokens[h] \in Int /\ tokens[h] <= HostCapacity
      /\ last_refill[h] \in Nat /\ last_refill[h] <= now
      /\ last_request_time[h] \in Nat /\ last_request_time[h] <= now
  BY DEF LimiterInv, TimeInv
<1>2. gain[h] \in Nat /\ gain[h] >= 1 /\ gain[h] <= FullGain
  <2>1. gain[h] \in Nat /\ FullGain \div 10 <= gain[h] /\ gain[h] <= FullGain
    BY DEF LimiterInv, GainInv
  <2> DEFINE q == FullGain \div 10
  <2>2. q \in Nat /\ q >= 1 /\ q <= gain[h]
    BY <2>1, LeastGain
  <2> HIDE DEF q
  <2> QED BY <2>1, <2>2
<1>3. gain[h] \in Nat \ {0}
  BY <1>2
<1>4. gain[h] <= gain[h]
  BY <1>2
<1>5. PerUnit(gain[h]) \in Nat /\ gain[h] * PerUnit(gain[h]) <= SubTicks
  BY <1>3, <1>4, LessGainLongerUnit, Zenon
<1> QED BY <1>1, <1>2, <1>3, <1>5

(* The waits in terms of what is missing. *)
LEMMA GlobalWaits ==
  /\ GlobalWait = WaitFor(global_tokens, now, global_last_refill, 1, Burst, 1, SubTicks)
  /\ GlobalWait' = WaitFor(global_tokens', now', global_last_refill', 1, Burst, 1, SubTicks)
BY DEF WaitFor, Missing, GlobalWait, GlobalBalance, Refilled

(* The same of a host. *)
LEMMA HostWaits ==
  ASSUME NEW h \in Hosts
  PROVE  /\ HostWait(h) = WaitFor(tokens[h], now, last_refill[h], gain[h],
                                  HostCapacity, Token, PerUnit(gain[h]))
         /\ HostWait(h)' = WaitFor(tokens'[h], now', last_refill'[h], gain'[h],
                                   HostCapacity, Token, PerUnit(gain'[h]))
BY Zenon DEF WaitFor, Missing, HostWait, HostBalance, Refilled, PerUnit, HostCapacity, Token,
             Larger, Smaller

(* The balances a caller finds are capped, and its wait is a natural number. *)
LEMMA WaitTypes ==
  ASSUME LimiterInv, NEW h \in Hosts
  PROVE  /\ GlobalBalance \in Int /\ GlobalBalance <= Burst
         /\ HostBalance(h) \in Int /\ HostBalance(h) <= HostCapacity
         /\ GlobalWait \in Nat /\ HostWait(h) \in Nat /\ SpacingWait(h) \in Nat
         /\ Wait(h) \in Nat /\ Promise(h) \in Nat
<1>0. /\ global_tokens \in Int /\ global_tokens <= Burst /\ global_last_refill \in Int
      /\ Burst \in Int /\ SubTicks \in Nat /\ HostCapacity \in Int /\ Token \in Int
      /\ 1 \in Int /\ 1 \in Nat /\ Ratio \in Nat
  BY CapacityIs DEF LimiterInv, TimeInv
<1>h. /\ now \in Int /\ now \in Nat /\ tokens[h] \in Int /\ last_refill[h] \in Int
      /\ gain[h] \in Nat /\ PerUnit(gain[h]) \in Nat /\ last_request_time[h] \in Nat
  BY HostTypes
<1>1. GlobalBalance \in Int /\ GlobalBalance <= Burst
  BY <1>0, <1>h DEF GlobalBalance, Refilled, Smaller
<1>2. HostBalance(h) \in Int /\ HostBalance(h) <= HostCapacity
  <2>1. (now - last_refill[h]) * gain[h] \in Int
    BY <1>h
  <2> QED BY <1>0, <1>h, <2>1 DEF HostBalance, Refilled, Smaller
<1>3. GlobalWait \in Nat
  BY <1>0, <1>h, WaitNat, GlobalWaits, Zenon
<1>4. HostWait(h) \in Nat
  <2>1. WaitFor(tokens[h], now, last_refill[h], gain[h], HostCapacity, Token,
                PerUnit(gain[h])) \in Nat
    BY <1>0, <1>h, WaitNat, Zenon
  <2>2. HostWait(h) = WaitFor(tokens[h], now, last_refill[h], gain[h],
                              HostCapacity, Token, PerUnit(gain[h]))
    BY HostWaits
  <2> QED BY <2>1, <2>2, Zenon
<1>5. SpacingWait(h) \in Nat
  <2>1. Larger(0, Ratio - (now - last_request_time[h])) \in Nat
    BY <1>0, <1>h DEF Larger
  <2>2. Larger(0, Ratio - (now - last_request_time[h])) * SubTicks \in Nat
    BY <1>0, <2>1
  <2> QED BY <2>2 DEF SpacingWait
<1>6. Wait(h) \in Nat
  BY <1>3, <1>4, <1>5 DEF Wait, Larger
<1>7. Promise(h) \in Nat
  <2>1. now * SubTicks \in Nat
    BY <1>0, <1>h
  <2> QED BY <1>6, <2>1 DEF Promise
<1> QED BY <1>1, <1>2, <1>3, <1>4, <1>5, <1>6, <1>7

(* The limiter starts with no caller ahead of the clock. *)
LEMMA LimiterInvInit == Init => LimiterInv
<1> SUFFICES ASSUME Init PROVE LimiterInv
  OBVIOUS
<1>1. TimeInv
  BY CapacityIs DEF Init, TimeInv
<1>2. GainInv
  <2>1. FullGain \in Nat /\ FullGain \div 10 <= FullGain
    <3> DEFINE q == FullGain \div 10
    <3>1. FullGain \in Nat /\ 10 \in Nat \ {0}
      BY GainsAssumption
    <3>2. q \in Nat /\ 10 * q <= FullGain
      BY <3>1, DivisionIs, Zenon
    <3> HIDE DEF q
    <3>3. q <= FullGain
      BY <3>1, <3>2
    <3> QED BY <3>1, <3>3 DEF q
  <2> QED BY <2>1 DEF Init, GainInv
<1> QED BY <1>1, <1>2 DEF LimiterInv

(* Every step stamps the clock it reads, caps what it adds and keeps the    *)
(* slowdown factors in their range.                                         *)
LEMMA LimiterInvStep == LimiterInv /\ [Next]_vars => LimiterInv'
<1> SUFFICES ASSUME LimiterInv, [Next]_vars PROVE LimiterInv'
  OBVIOUS
<1>c. HostCapacity' = HostCapacity /\ HostCapacity \in Nat
  BY CapacityIs DEF HostCapacity, Token
<1>1. ASSUME NEW h \in Hosts, Acquire(h) PROVE LimiterInv'
  <2>1. /\ GlobalBalance - 1 \in Int /\ GlobalBalance - 1 <= Burst
        /\ HostBalance(h) - Token \in Int /\ HostBalance(h) - Token <= HostCapacity
    BY WaitTypes, CapacityIs
  <2>2. /\ now' = now /\ global_tokens' = GlobalBalance - 1 /\ global_last_refill' = now
        /\ tokens' = [tokens EXCEPT ![h] = HostBalance(h) - Token]
        /\ last_refill' = [last_refill EXCEPT ![h] = now]
        /\ last_request_time' = [last_request_time EXCEPT ![h] = now]
    BY <1>1 DEF Acquire
  <2>3. tokens' \in [Hosts -> Int] /\ \A g \in Hosts : tokens'[g] <= HostCapacity
    BY <2>1, <2>2 DEF LimiterInv, TimeInv
  <2>4. /\ last_refill' \in [Hosts -> Nat] /\ \A g \in Hosts : last_refill'[g] <= now
        /\ last_request_time' \in [Hosts -> Nat]
        /\ \A g \in Hosts : last_request_time'[g] <= now
    BY <2>2 DEF LimiterInv, TimeInv
  <2>5. TimeInv'
    BY <1>c, <2>1, <2>2, <2>3, <2>4 DEF LimiterInv, TimeInv
  <2>6. GainInv'
    BY <1>1 DEF Acquire, slowdown_vars, LimiterInv, GainInv
  <2> QED BY <2>5, <2>6 DEF LimiterInv
<1>2. ASSUME NEW h \in Hosts, RecordLatency(h) PROVE LimiterInv'
  <2>1. TimeInv'
    BY <1>2, <1>c DEF RecordLatency, clock_vars, LimiterInv, TimeInv
  <2>2. PICK g \in IF known'[h] = 3 THEN Adjusted(gain[h]) ELSE {gain[h]} :
          /\ gain' = [gain EXCEPT ![h] = g]
          /\ eased' = [eased EXCEPT ![h] = IF g > gain[h] THEN @ + 1 ELSE @]
    BY <1>2 DEF RecordLatency
  <2>3. /\ gain[h] \in Nat /\ FullGain \div 10 <= gain[h] /\ gain[h] <= FullGain
        /\ known[h] \in 0..3 /\ eased[h] \in Nat
    BY DEF LimiterInv, GainInv
  <2>4. g \in Nat /\ FullGain \div 10 <= g /\ g <= FullGain
    <3>1. CASE g \in Adjusted(gain[h])
      BY <2>3, <3>1, AdjustedGain, Zenon
    <3>2. CASE g = gain[h]
      BY <2>3, <3>2
    <3> QED BY <2>2, <3>1, <3>2
  <2>5. /\ gain' \in [Hosts -> Nat]
        /\ \A f \in Hosts : FullGain \div 10 <= gain'[f] /\ gain'[f] <= FullGain
    BY <2>2, <2>4, Zenon DEF LimiterInv, GainInv
  <2>6. known' \in [Hosts -> 0..3]
    <3>1. known' = [known EXCEPT ![h] = Smaller(3, known[h] + 1)]
      BY <1>2 DEF RecordLatency
    <3>2. Smaller(3, known[h] + 1) \in 0..3
      BY <2>3 DEF Smaller
    <3> QED BY <3>1, <3>2 DEF LimiterInv, GainInv
  <2>7. eased' \in [Hosts -> Nat]
    <3> DEFINE e == IF g > gain[h] THEN eased[h] + 1 ELSE eased[h]
    <3>1. eased' = [eased EXCEPT ![h] = e] /\ e \in Nat
      BY <2>2, <2>3
    <3> HIDE DEF e
    <3> QED BY <3>1 DEF LimiterInv, GainInv
  <2>8. resets' \in [Hosts -> Nat]
    BY <1>2 DEF RecordLatency, LimiterInv, GainInv
  <2> QED BY <2>1, <2>5, <2>6, <2>7, <2>8, Zenon DEF LimiterInv, GainInv
<1>3. ASSUME NEW h \in Hosts, ResetHost(h) PROVE LimiterInv'
  <2>1. TimeInv'
    BY <1>3, <1>c DEF ResetHost, LimiterInv, TimeInv
  <2>2. FullGain \div 10 <= FullGain /\ FullGain <= FullGain /\ FullGain \in Nat
    <3>1. gain[h] \in Nat /\ FullGain \div 10 <= gain[h] /\ gain[h] <= FullGain
      BY DEF LimiterInv, GainInv
    <3> DEFINE q == FullGain \div 10
    <3>2. q \in Nat /\ q <= gain[h] /\ FullGain \in Nat
      BY <3>1, LeastGain, GainsAssumption
    <3> HIDE DEF q
    <3>3. q <= FullGain
      BY <3>1, <3>2
    <3> QED BY <3>2, <3>3 DEF q
  <2>3. /\ gain' = [gain EXCEPT ![h] = FullGain] /\ known' = [known EXCEPT ![h] = 0]
        /\ eased' = [eased EXCEPT ![h] = eased[h] + 1]
    BY <1>3 DEF ResetHost
  <2>4. /\ gain' \in [Hosts -> Nat]
        /\ \A f \in Hosts : FullGain \div 10 <= gain'[f] /\ gain'[f] <= FullGain
    BY <2>2, <2>3, Zenon DEF LimiterInv, GainInv
  <2>5. known' \in [Hosts -> 0..3] /\ eased' \in [Hosts -> Nat]
    BY <2>3 DEF LimiterInv, GainInv
  <2>6. resets' \in [Hosts -> Nat]
    BY <1>3 DEF ResetHost, LimiterInv, GainInv
  <2> QED BY <2>1, <2>4, <2>5, <2>6, Zenon DEF LimiterInv, GainInv
<1>4. CASE Tick
  <2>1. TimeInv'
    BY <1>4, <1>c DEF Tick, clock_vars, LimiterInv, TimeInv
  <2>2. GainInv'
    BY <1>4 DEF Tick, slowdown_vars, LimiterInv, GainInv
  <2> QED BY <2>1, <2>2 DEF LimiterInv
<1>5. CASE UNCHANGED vars
  <2>1. TimeInv'
    BY <1>5, <1>c DEF vars, clock_vars, LimiterInv, TimeInv
  <2>2. GainInv'
    BY <1>5 DEF vars, slowdown_vars, LimiterInv, GainInv
  <2> QED BY <2>1, <2>2 DEF LimiterInv
<1> QED BY <1>1, <1>2, <1>3, <1>4, <1>5 DEF Next

(* Balances stay under their capacities, slowdown factors between 1 and 10, *)
(* and waits are natural numbers.                                           *)
THEOREM TypeCorrect == Spec => []TypeOK
<1> DEFINE DueInv == \A d \in due : d.host \in Hosts /\ d.at \in Nat
<1>1. Init => LimiterInv /\ DueInv
  BY LimiterInvInit DEF Init
<1>2. LimiterInv /\ DueInv /\ [Next]_vars => LimiterInv' /\ DueInv'
  <2> SUFFICES ASSUME LimiterInv, DueInv, [Next]_vars PROVE DueInv'
    BY LimiterInvStep
  <2>1. ASSUME NEW h \in Hosts, Acquire(h) PROVE DueInv'
    <3>1. Promise(h) \in Nat
      BY WaitTypes
    <3> QED BY <2>1, <3>1 DEF Acquire, Told
  <2>2. CASE UNCHANGED due
    BY <2>2
  <2> QED BY <2>1, <2>2 DEF Next, Tick, RecordLatency, ResetHost, vars
<1>3. LimiterInv /\ DueInv => TypeOK
  BY DEF LimiterInv, TimeInv, GainInv, TypeOK
<1> QED BY <1>1, <1>2, <1>3, PTL DEF Spec

-----------------------------------------------------------------------------
(* The time that the clock and the three waits promise. *)
Latest(t, x, y, z) == t + Larger(x, Larger(y, z))

(* It is Promise, in this state and in the next. *)
LEMMA PromiseIs ==
  ASSUME NEW h \in Hosts
  PROVE  /\ Promise(h) = Latest(now * SubTicks, GlobalWait, HostWait(h), SpacingWait(h))
         /\ Promise(h)' = Latest(now' * SubTicks, GlobalWait', HostWait(h)', SpacingWait(h)')
BY Zenon DEF Promise, Wait, Latest, Larger

(* What each wait does to the longest one, in s instants and in none. *)
LEMMA LatestGrows ==
  ASSUME NEW t \in Nat, NEW x \in Nat, NEW y \in Nat, NEW z \in Nat,
         NEW u \in Nat, NEW xx \in Nat, NEW yy \in Nat, NEW zz \in Nat, NEW s \in Nat
  PROVE  /\ u = t /\ x <= xx /\ y <= yy /\ z <= zz
            => Latest(t, x, y, z) <= Latest(u, xx, yy, zz)
         /\ u = t + s /\ x <= s + xx /\ y <= s + yy /\ z <= s + zz
            => Latest(t, x, y, z) <= Latest(u, xx, yy, zz)
BY DEF Latest, Larger

(* The spacing after last, at time t. *)
Spacing(t, last) == IF last > 0 THEN Larger(0, Ratio - (t - last)) * SubTicks ELSE 0

(* It is SpacingWait, in this state and in the next. *)
LEMMA SpacingIs ==
  ASSUME NEW h \in Hosts
  PROVE  /\ SpacingWait(h) = Spacing(now, last_request_time[h])
         /\ SpacingWait(h)' = Spacing(now', last_request_time'[h])
BY Zenon DEF SpacingWait, Spacing, Larger

(* A tick shortens the spacing by a tick at most, a call does not. *)
LEMMA SpacingGrows ==
  ASSUME NEW t \in Nat, t > 0, NEW l \in Nat, l <= t, NEW u, u = t + 1
  PROVE  /\ Spacing(t, l) \in Nat /\ Spacing(u, l) \in Nat /\ Spacing(t, t) \in Nat
         /\ Spacing(t, l) <= SubTicks + Spacing(u, l)
         /\ Spacing(t, l) <= Spacing(t, t)
<1>1. SubTicks \in Nat /\ Ratio \in Nat
  BY CapacityIs
<1> DEFINE a == Larger(0, Ratio - (t - l))
           b == Larger(0, Ratio - (u - l))
           c == Larger(0, Ratio - (t - t))
<1>2. a \in Nat /\ b \in Nat /\ c \in Nat /\ a <= b + 1 /\ a <= c
  BY <1>1 DEF Larger
<1>3. /\ Spacing(t, l) = IF l > 0 THEN a * SubTicks ELSE 0
      /\ Spacing(u, l) = IF l > 0 THEN b * SubTicks ELSE 0
      /\ Spacing(t, t) = c * SubTicks
  BY DEF Spacing
<1> HIDE DEF a, b, c
<1>4. a * SubTicks \in Nat /\ b * SubTicks \in Nat /\ c * SubTicks \in Nat
  BY <1>1, <1>2
<1>5. a * SubTicks <= c * SubTicks
  BY <1>1, <1>2, ProductsOrdered
<1>6. a * SubTicks <= SubTicks + b * SubTicks
  <2>1. a * SubTicks <= (b + 1) * SubTicks
    BY <1>1, <1>2
  <2>2. (b + 1) * SubTicks = SubTicks + b * SubTicks
    BY <1>1, <1>2
  <2> QED BY <2>1, <2>2
<1> QED BY <1>1, <1>3, <1>4, <1>5, <1>6

(* One more tick of the clock, in instants. *)
LEMMA NextTick ==
  ASSUME NEW t \in Nat, NEW s \in Nat
  PROVE  t * s \in Nat /\ (t + 1) * s = t * s + s
OBVIOUS

(* Unless the slowdown of the host falls, no step makes the time a caller   *)
(* of it would be told earlier.                                             *)
LEMMA PromiseGrows ==
  ASSUME LimiterInv, [Next]_vars, NEW h \in Hosts, eased'[h] = eased[h]
  PROVE  Promise(h) <= Promise(h)'
<1>i. LimiterInv'
  BY LimiterInvStep
<1>0. /\ global_tokens \in Int /\ global_last_refill \in Int /\ Burst \in Int
      /\ SubTicks \in Nat /\ HostCapacity \in Int /\ Token \in Int /\ Token \in Nat
      /\ 1 \in Int /\ 1 \in Nat /\ 0 \in Nat
  BY CapacityIs DEF LimiterInv, TimeInv
<1>h. /\ now \in Nat /\ now \in Int /\ now > 0 /\ tokens[h] \in Int
      /\ last_refill[h] \in Int /\ last_refill[h] <= now
      /\ last_request_time[h] \in Nat /\ last_request_time[h] <= now
      /\ gain[h] \in Nat /\ gain[h] \in Nat \ {0}
      /\ PerUnit(gain[h]) \in Nat /\ gain[h] * PerUnit(gain[h]) <= SubTicks
  BY HostTypes
<1>n. now' \in Nat /\ gain'[h] \in Nat /\ gain'[h] \in Nat \ {0} /\ PerUnit(gain'[h]) \in Nat
  <2>1. now' \in Nat /\ gain'[h] \in Nat
    BY <1>i DEF LimiterInv, TimeInv, GainInv
  <2>2. gain'[h] >= 1
    <3>1. FullGain \div 10 <= gain'[h]
      BY <1>i DEF LimiterInv, GainInv
    <3> DEFINE q == FullGain \div 10
    <3>2. q \in Nat /\ q >= 1 /\ q <= gain'[h]
      BY <3>1, LeastGain
    <3> HIDE DEF q
    <3> QED BY <2>1, <3>2
  <2>3. gain'[h] \in Nat \ {0}
    BY <2>1, <2>2
  <2>4. gain'[h] <= gain'[h]
    BY <2>1
  <2>5. PerUnit(gain'[h]) \in Nat
    BY <2>3, <2>4, LessGainLongerUnit, Zenon
  <2> QED BY <2>1, <2>3, <2>5
<1>1. GlobalWait \in Nat /\ HostWait(h) \in Nat /\ SpacingWait(h) \in Nat
  BY WaitTypes
<1>2. GlobalWait' \in Nat /\ HostWait(h)' \in Nat /\ SpacingWait(h)' \in Nat
  <2>1. /\ now' \in Int /\ tokens'[h] \in Int /\ last_refill'[h] \in Int
        /\ last_request_time'[h] \in Nat /\ last_request_time'[h] <= now'
        /\ global_tokens' \in Int /\ global_last_refill' \in Int /\ now' > 0
    BY <1>i DEF LimiterInv, TimeInv
  <2>2. GlobalWait' \in Nat
    <3>1. WaitFor(global_tokens', now', global_last_refill', 1, Burst, 1, SubTicks) \in Nat
      BY <1>0, <2>1, WaitNat, Zenon
    <3> QED BY <3>1, GlobalWaits, Zenon
  <2>3. HostWait(h)' \in Nat
    <3>1. WaitFor(tokens'[h], now', last_refill'[h], gain'[h], HostCapacity, Token,
                  PerUnit(gain'[h])) \in Nat
      BY <1>0, <1>n, <2>1, WaitNat, Zenon
    <3>2. HostWait(h)' = WaitFor(tokens'[h], now', last_refill'[h], gain'[h],
                                 HostCapacity, Token, PerUnit(gain'[h]))
      BY HostWaits, Zenon
    <3> QED BY <3>1, <3>2, Zenon
  <2>4. SpacingWait(h)' \in Nat
    BY <1>n, <2>1, SpacingGrows, SpacingIs, Zenon
  <2> QED BY <2>2, <2>3, <2>4
<1>t. now * SubTicks \in Nat /\ (now + 1) * SubTicks = now * SubTicks + SubTicks
  BY <1>0, <1>h, NextTick, Zenon
(* It is enough that the waits shrink by no more than the clock advances.   *)
<1>3. ASSUME now' = now, GlobalWait <= GlobalWait', HostWait(h) <= HostWait(h)',
             SpacingWait(h) <= SpacingWait(h)'
      PROVE  Promise(h) <= Promise(h)'
  <2>1. now' * SubTicks = now * SubTicks /\ now' * SubTicks \in Nat
    BY <1>3, <1>t, Zenon
  <2>2. Latest(now * SubTicks, GlobalWait, HostWait(h), SpacingWait(h))
          <= Latest(now' * SubTicks, GlobalWait', HostWait(h)', SpacingWait(h)')
    BY <1>0, <1>1, <1>2, <1>3, <1>t, <2>1, LatestGrows, Zenon
  <2> QED BY <2>2, PromiseIs, Zenon
<1>4. ASSUME now' = now + 1, GlobalWait <= SubTicks + GlobalWait',
             HostWait(h) <= SubTicks + HostWait(h)',
             SpacingWait(h) <= SubTicks + SpacingWait(h)'
      PROVE  Promise(h) <= Promise(h)'
  <2>1. now' * SubTicks = now * SubTicks + SubTicks
    BY <1>4, <1>t, Zenon
  <2>2. now' * SubTicks \in Nat
    BY <1>0, <1>n, NextTick, Zenon
  <2>3. Latest(now * SubTicks, GlobalWait, HostWait(h), SpacingWait(h))
          <= Latest(now' * SubTicks, GlobalWait', HostWait(h)', SpacingWait(h)')
    BY <1>0, <1>1, <1>2, <1>4, <1>t, <2>1, <2>2, LatestGrows, Zenon
  <2> QED BY <2>3, PromiseIs, Zenon
<1>5. CASE Tick
  <2>1. /\ now' = now + 1 /\ global_tokens' = global_tokens
        /\ global_last_refill' = global_last_refill
        /\ tokens'[h] = tokens[h] /\ last_refill'[h] = last_refill[h]
        /\ last_request_time'[h] = last_request_time[h] /\ gain'[h] = gain[h]
    BY <1>5 DEF Tick, clock_vars, slowdown_vars
  <2>2. GlobalWait <= SubTicks + GlobalWait'
    <3>1. 1 * SubTicks <= SubTicks
      BY <1>0
    <3>2. WaitFor(global_tokens, now, global_last_refill, 1, Burst, 1, SubTicks)
            <= SubTicks + WaitFor(global_tokens, now', global_last_refill, 1, Burst, 1, SubTicks)
      BY <1>0, <1>h, <2>1, <3>1, TickedWait, Zenon
    <3> QED BY <2>1, <3>2, GlobalWaits, Zenon
  <2>3. HostWait(h) <= SubTicks + HostWait(h)'
    <3>1. WaitFor(tokens[h], now, last_refill[h], gain[h], HostCapacity, Token, PerUnit(gain[h]))
            <= SubTicks + WaitFor(tokens[h], now', last_refill[h], gain[h], HostCapacity,
                                  Token, PerUnit(gain[h]))
      BY <1>0, <1>h, <2>1, TickedWait, Zenon
    <3>2. /\ HostWait(h) = WaitFor(tokens[h], now, last_refill[h], gain[h],
                                   HostCapacity, Token, PerUnit(gain[h]))
          /\ HostWait(h)' = WaitFor(tokens'[h], now', last_refill'[h], gain'[h],
                                    HostCapacity, Token, PerUnit(gain'[h]))
      BY HostWaits, Zenon
    <3> QED BY <2>1, <3>1, <3>2, Zenon
  <2>4. SpacingWait(h) <= SubTicks + SpacingWait(h)'
    <3>1. Spacing(now, last_request_time[h])
            <= SubTicks + Spacing(now', last_request_time[h])
      BY <1>h, <2>1, SpacingGrows, Zenon
    <3>2. /\ SpacingWait(h) = Spacing(now, last_request_time[h])
          /\ SpacingWait(h)' = Spacing(now', last_request_time[h])
      BY <2>1, SpacingIs, Zenon
    <3> QED BY <3>1, <3>2, Zenon
  <2> QED BY <1>4, <2>1, <2>2, <2>3, <2>4, Zenon
<1>6. ASSUME NEW g \in Hosts, Acquire(g) PROVE Promise(h) <= Promise(h)'
  <2>1. /\ now' = now /\ global_tokens' = GlobalBalance - 1 /\ global_last_refill' = now
        /\ gain' = gain
    BY <1>6 DEF Acquire, slowdown_vars
  <2>2. GlobalWait <= GlobalWait'
    <3>1. global_tokens' = Smaller(global_tokens + (now - global_last_refill) * 1, Burst) - 1
      BY <2>1 DEF GlobalBalance, Refilled
    <3>2. WaitFor(global_tokens, now, global_last_refill, 1, Burst, 1, SubTicks)
            <= WaitFor(global_tokens', now, now, 1, Burst, 1, SubTicks)
      BY <1>0, <1>h, <3>1, TakenWaitsLonger, Zenon
    <3> QED BY <2>1, <3>2, GlobalWaits, Zenon
  <2>3. CASE g # h
    <3>1. /\ tokens'[h] = tokens[h] /\ last_refill'[h] = last_refill[h]
          /\ last_request_time'[h] = last_request_time[h]
      BY <1>6, <2>3 DEF Acquire, LimiterInv, TimeInv
    <3>2. HostWait(h)' = HostWait(h) /\ SpacingWait(h)' = SpacingWait(h)
      BY <2>1, <3>1, HostWaits, SpacingIs, Zenon
    <3>3. HostWait(h) <= HostWait(h)' /\ SpacingWait(h) <= SpacingWait(h)'
      BY <1>1, <3>2
    <3> QED BY <1>3, <2>1, <2>2, <3>3
  <2>4. CASE g = h
    <3>1. /\ tokens'[h] = HostBalance(h) - Token /\ last_refill'[h] = now
          /\ last_request_time'[h] = now
      BY <1>6, <2>4 DEF Acquire, LimiterInv, TimeInv
    <3>2. HostWait(h) <= HostWait(h)'
      <4>1. tokens'[h]
              = Smaller(tokens[h] + (now - last_refill[h]) * gain[h], HostCapacity) - Token
        BY <3>1 DEF HostBalance, Refilled
      <4>2. WaitFor(tokens[h], now, last_refill[h], gain[h], HostCapacity, Token,
                    PerUnit(gain[h]))
              <= WaitFor(tokens'[h], now, now, gain[h], HostCapacity, Token, PerUnit(gain[h]))
        BY <1>0, <1>h, <4>1, TakenWaitsLonger, Zenon
      <4>3. /\ HostWait(h) = WaitFor(tokens[h], now, last_refill[h], gain[h],
                                     HostCapacity, Token, PerUnit(gain[h]))
            /\ HostWait(h)' = WaitFor(tokens'[h], now', last_refill'[h], gain'[h],
                                      HostCapacity, Token, PerUnit(gain'[h]))
        BY HostWaits, Zenon
      <4> QED BY <2>1, <3>1, <4>2, <4>3, Zenon
    <3>3. SpacingWait(h) <= SpacingWait(h)'
      BY <1>h, <2>1, <3>1, SpacingGrows, SpacingIs, Zenon
    <3> QED BY <1>3, <2>1, <2>2, <3>2, <3>3
  <2> QED BY <2>3, <2>4
<1>7. ASSUME NEW g \in Hosts, RecordLatency(g) PROVE Promise(h) <= Promise(h)'
  <2>1. /\ now' = now /\ global_tokens' = global_tokens
        /\ global_last_refill' = global_last_refill /\ tokens'[h] = tokens[h]
        /\ last_refill'[h] = last_refill[h] /\ last_request_time'[h] = last_request_time[h]
    BY <1>7 DEF RecordLatency, clock_vars
  <2>2. gain'[h] <= gain[h]
    <3>1. PICK k \in IF known'[g] = 3 THEN Adjusted(gain[g]) ELSE {gain[g]} :
            /\ gain' = [gain EXCEPT ![g] = k]
            /\ eased' = [eased EXCEPT ![g] = IF k > gain[g] THEN eased[g] + 1 ELSE eased[g]]
      BY <1>7 DEF RecordLatency
    <3>2. CASE g # h
      BY <1>h, <3>1, <3>2 DEF LimiterInv, GainInv
    <3>3. CASE g = h
      <4>1. gain'[h] = k /\ eased'[h] = IF k > gain[h] THEN eased[h] + 1 ELSE eased[h]
        BY <3>1, <3>3 DEF LimiterInv, GainInv
      <4>2. eased[h] \in Nat
        BY DEF LimiterInv, GainInv
      <4> QED BY <1>h, <1>n, <4>1, <4>2
    <3> QED BY <3>2, <3>3
  <2>3. GlobalWait' = GlobalWait /\ SpacingWait(h)' = SpacingWait(h)
    BY <2>1, GlobalWaits, SpacingIs, Zenon
  <2>4. HostWait(h) <= HostWait(h)'
    <3>1. PerUnit(gain[h]) <= PerUnit(gain'[h])
      BY <1>h, <1>n, <2>2, LessGainLongerUnit, Zenon
    <3>2. WaitFor(tokens[h], now, last_refill[h], gain[h], HostCapacity, Token,
                  PerUnit(gain[h]))
            <= WaitFor(tokens[h], now, last_refill[h], gain'[h], HostCapacity, Token,
                       PerUnit(gain'[h]))
      BY <1>0, <1>h, <1>n, <2>2, <3>1, SlowerWaitsLonger, Zenon
    <3>3. /\ HostWait(h) = WaitFor(tokens[h], now, last_refill[h], gain[h],
                                   HostCapacity, Token, PerUnit(gain[h]))
          /\ HostWait(h)' = WaitFor(tokens'[h], now', last_refill'[h], gain'[h],
                                    HostCapacity, Token, PerUnit(gain'[h]))
      BY HostWaits, Zenon
    <3> QED BY <2>1, <3>2, <3>3, Zenon
  <2>5. GlobalWait <= GlobalWait' /\ SpacingWait(h) <= SpacingWait(h)'
    BY <1>1, <2>3
  <2> QED BY <1>3, <2>1, <2>4, <2>5
<1>8. ASSUME NEW g \in Hosts, ResetHost(g) PROVE Promise(h) <= Promise(h)'
  <2>1. g # h
    <3>1. eased' = [eased EXCEPT ![g] = eased[g] + 1] /\ eased \in [Hosts -> Nat]
      BY <1>8 DEF ResetHost, LimiterInv, GainInv
    <3>2. eased'[g] = eased[g] + 1 /\ eased[g] \in Nat
      BY <3>1
    <3> QED BY <3>2
  <2>2. /\ now' = now /\ global_tokens' = global_tokens
        /\ global_last_refill' = global_last_refill /\ tokens'[h] = tokens[h]
        /\ last_refill'[h] = last_refill[h] /\ last_request_time'[h] = last_request_time[h]
        /\ gain'[h] = gain[h]
    BY <1>8, <2>1 DEF ResetHost, LimiterInv, TimeInv, GainInv
  <2>3. GlobalWait' = GlobalWait /\ SpacingWait(h)' = SpacingWait(h)
        /\ HostWait(h)' = HostWait(h)
    BY <2>2, GlobalWaits, SpacingIs, HostWaits, Zenon
  <2>4. GlobalWait <= GlobalWait' /\ SpacingWait(h) <= SpacingWait(h)'
        /\ HostWait(h) <= HostWait(h)'
    BY <1>1, <2>3
  <2> QED BY <1>3, <2>2, <2>4
<1>9. CASE UNCHANGED vars
  <2>1. /\ now' = now /\ global_tokens' = global_tokens
        /\ global_last_refill' = global_last_refill /\ tokens' = tokens
        /\ last_refill' = last_refill /\ last_request_time' = last_request_time
        /\ gain' = gain
    BY <1>9 DEF vars, clock_vars, slowdown_vars
  <2>2. GlobalWait' = GlobalWait /\ SpacingWait(h)' = SpacingWait(h)
        /\ HostWait(h)' = HostWait(h)
    BY <2>1, GlobalWaits, SpacingIs, HostWaits, Zenon
  <2>3. GlobalWait <= GlobalWait' /\ SpacingWait(h) <= SpacingWait(h)'
        /\ HostWait(h) <= HostWait(h)'
    BY <1>1, <2>2
  <2> QED BY <1>3, <2>1, <2>3
<1> QED BY <1>5, <1>6, <1>7, <1>8, <1>9 DEF Next

PromiseNat == \A h \in Hosts : Promise(h) \in Nat

(* What the next caller will be told, in the next state. *)
LEMMA PromiseNext == LimiterInv' => PromiseNat'
<1>1. LimiterInv => PromiseNat
  BY WaitTypes DEF PromiseNat
<1> QED BY <1>1, PTL

(* The callers so far are numbered below their count, and those that asked  *)
(* since the slowdown of their host last fell were told no later a time     *)
(* than the next caller of the host will be.                                *)
QueueInv ==
  /\ IsFiniteSet(due)
  /\ \A d \in due :
       /\ d.host \in Hosts /\ d.at \in Nat /\ d.id \in Nat /\ d.id < Cardinality(due)
       /\ d.epoch \in Nat /\ d.epoch <= eased[d.host]
       /\ d.epoch = eased[d.host] => d.at <= Promise(d.host)

(* The count of the falls and resets of a host only grows. *)
LEMMA EasedGrows ==
  ASSUME LimiterInv, [Next]_vars, NEW h \in Hosts
  PROVE  eased[h] \in Nat /\ eased'[h] \in Nat /\ eased[h] <= eased'[h]
<1>1. eased[h] \in Nat /\ eased'[h] \in Nat
  BY LimiterInvStep DEF LimiterInv, GainInv
<1>2. ASSUME NEW g \in Hosts, RecordLatency(g) PROVE eased[h] <= eased'[h]
  <2>1. PICK k \in IF known'[g] = 3 THEN Adjusted(gain[g]) ELSE {gain[g]} :
          eased' = [eased EXCEPT ![g] = IF k > gain[g] THEN eased[g] + 1 ELSE eased[g]]
    BY <1>2 DEF RecordLatency
  <2> QED BY <1>1, <2>1 DEF LimiterInv, GainInv
<1>3. ASSUME NEW g \in Hosts, ResetHost(g) PROVE eased[h] <= eased'[h]
  BY <1>1, <1>3 DEF ResetHost, LimiterInv, GainInv
<1>4. CASE UNCHANGED eased
  BY <1>1, <1>4
<1> QED BY <1>1, <1>2, <1>3, <1>4 DEF Next, Acquire, Tick, vars, slowdown_vars

(* Callers of one host are served in the order in which they asked, unless  *)
(* the host's slowdown fell or was reset between them.                      *)
THEOREM InOrder == Spec => []FirstComeFirstServed
<1> DEFINE Inv == LimiterInv /\ QueueInv /\ FirstComeFirstServed
<1>1. Init => Inv
  <2> SUFFICES ASSUME Init PROVE Inv
    OBVIOUS
  <2>1. due = {} /\ IsFiniteSet(due)
    BY FS_EmptySet DEF Init
  <2> QED BY <2>1, LimiterInvInit DEF QueueInv, FirstComeFirstServed
<1>2. Inv /\ [Next]_vars => Inv'
  <2> SUFFICES ASSUME Inv, [Next]_vars PROVE Inv'
    OBVIOUS
  <2>1. LimiterInv'
    BY LimiterInvStep
  <2>2. \A h \in Hosts : /\ Promise(h) \in Nat /\ Promise(h)' \in Nat
                         /\ eased'[h] = eased[h] => Promise(h) <= Promise(h)'
    <3> SUFFICES ASSUME NEW h \in Hosts
                 PROVE  /\ Promise(h) \in Nat /\ Promise(h)' \in Nat
                        /\ eased'[h] = eased[h] => Promise(h) <= Promise(h)'
      OBVIOUS
    <3>1. Promise(h) \in Nat
      BY WaitTypes
    <3>2. Promise(h)' \in Nat
      BY <2>1, PromiseNext, Zenon DEF PromiseNat
    <3>3. eased'[h] = eased[h] => Promise(h) <= Promise(h)'
      BY PromiseGrows
    <3> QED BY <3>1, <3>2, <3>3
  <2>3. \A h \in Hosts : eased[h] \in Nat /\ eased'[h] \in Nat /\ eased[h] <= eased'[h]
    BY EasedGrows
  <2>4. CASE UNCHANGED due
    <3>1. \A d \in due : d.epoch <= eased'[d.host]
      BY <2>3 DEF QueueInv
    <3>2. \A d \in due : d.epoch = eased'[d.host] => d.at <= Promise(d.host)'
      <4> SUFFICES ASSUME NEW d \in due, d.epoch = eased'[d.host]
                   PROVE  d.at <= Promise(d.host)'
        OBVIOUS
      <4>1. d.host \in Hosts /\ d.at \in Nat /\ d.epoch <= eased[d.host]
        BY DEF QueueInv
      <4>2. eased'[d.host] = eased[d.host]
        BY <2>3, <4>1
      <4>3. d.at <= Promise(d.host) /\ Promise(d.host) <= Promise(d.host)'
        BY <2>2, <4>1, <4>2 DEF QueueInv
      <4>4. Promise(d.host) \in Nat /\ Promise(d.host)' \in Nat
        BY <2>2, <4>1
      <4> QED BY <4>1, <4>3, <4>4
    <3>3. QueueInv'
      BY <2>4, <3>1, <3>2, Zenon DEF QueueInv
    <3>4. FirstComeFirstServed'
      BY <2>4 DEF FirstComeFirstServed
    <3> QED BY <2>1, <3>3, <3>4
  <2>5. ASSUME NEW h \in Hosts, Acquire(h) PROVE Inv'
    <3> DEFINE n == [id |-> Cardinality(due), host |-> h, life |-> resets[h],
                     epoch |-> eased[h], asked |-> now, at |-> Promise(h)]
    <3>1. due' = due \cup {n} /\ eased' = eased
      BY <2>5 DEF Acquire, Told, slowdown_vars
    <3>2. Cardinality(due) \in Nat /\ n \notin due
      BY FS_CardinalityType DEF QueueInv
    <3>3. IsFiniteSet(due') /\ Cardinality(due') = Cardinality(due) + 1
      BY <3>1, <3>2, FS_AddElement DEF QueueInv
    <3>4. \A d \in due' : /\ d.host \in Hosts /\ d.at \in Nat /\ d.id \in Nat
                          /\ d.id <= Cardinality(due)
                          /\ d.epoch \in Nat /\ d.epoch <= eased[d.host]
                          /\ (d.epoch = eased[d.host] => d.at <= Promise(d.host))
                          /\ (d.id = Cardinality(due) => d = n)
      BY <2>2, <2>3, <3>1, <3>2 DEF QueueInv
    <3>5. \A d \in due' : d.epoch = eased'[d.host] => d.at <= Promise(d.host)'
      <4> SUFFICES ASSUME NEW d \in due', d.epoch = eased'[d.host]
                   PROVE  d.at <= Promise(d.host)'
        OBVIOUS
      <4>1. d.host \in Hosts /\ d.at \in Nat /\ d.at <= Promise(d.host)
        BY <3>1, <3>4
      <4>2. Promise(d.host) <= Promise(d.host)' /\ Promise(d.host) \in Nat
            /\ Promise(d.host)' \in Nat
        BY <2>2, <3>1, <4>1
      <4> QED BY <4>1, <4>2
    <3>6. QueueInv'
      <4>1. \A d \in due' : d.id < Cardinality(due')
        BY <3>2, <3>3, <3>4
      <4>2. \A d \in due' : d.epoch <= eased'[d.host]
        BY <3>1, <3>4
      <4> QED BY <3>3, <3>4, <3>5, <4>1, <4>2, Zenon DEF QueueInv
    <3>7. FirstComeFirstServed'
      <4> SUFFICES ASSUME NEW c \in due', NEW d \in due', c.host = d.host,
                          c.epoch = d.epoch, c.id < d.id
                   PROVE  c.at <= d.at
        BY DEF FirstComeFirstServed
      <4>1. CASE d = n
        <5>1. c.epoch = eased[c.host] /\ c.at <= Promise(c.host) /\ c.host = h
          BY <3>4, <4>1
        <5> QED BY <4>1, <5>1
      <4>2. CASE d # n
        <5>1. d \in due /\ d.id < Cardinality(due)
          BY <3>1, <4>2 DEF QueueInv
        <5>2. c # n
          BY <3>2, <3>4, <5>1
        <5> QED BY <3>1, <5>1, <5>2 DEF FirstComeFirstServed
      <4> QED BY <4>1, <4>2
    <3> QED BY <2>1, <3>6, <3>7
  <2> QED BY <2>4, <2>5 DEF Next, Tick, RecordLatency, ResetHost, vars
<1> QED BY <1>1, <1>2, PTL DEF Spec

-----------------------------------------------------------------------------
(* Those of D that asked for h at lo or later, and were told hi or earlier. *)
AskedIn(D, h, life, lo) == {d \in D : d.host = h /\ d.life = life /\ lo <= d.asked}
ServedIn(D, h, life, lo, hi) == {d \in AskedIn(D, h, life, lo) : d.at <= hi}

(* They are Served, in this state and in the next. *)
LEMMA ServedIs ==
  ASSUME NEW h, NEW life, NEW lo, NEW hi
  PROVE  /\ Served(h, life, lo, hi) = ServedIn(due, h, life, lo, hi)
         /\ Served(h, life, lo, hi)' = ServedIn(due', h, life, lo, hi)
BY DEF Served, ServedIn, AskedIn

(* Callers are finitely many, asked in the past and in a life of the host.  *)
RecordInv ==
  /\ IsFiniteSet(due)
  /\ \A d \in due :
       /\ d.host \in Hosts /\ d.at \in Nat /\ d.id < Cardinality(due) /\ d.id \in Nat
       /\ d.life \in Nat /\ d.life <= resets[d.host]
       /\ d.asked \in Nat /\ d.asked <= now

(* What callers took from a bucket since lo was in it then, or came in      *)
(* since: so much is missing.                                               *)
Paid(D, h) ==
  \A lo \in Nat :
    AskedIn(D, h, resets[h], lo) # {} =>
      tokens[h] + Cardinality(AskedIn(D, h, resets[h], lo)) * Token
        <= HostCapacity + (last_refill[h] - lo) * FullGain

BalanceInv == \A h \in Hosts : Paid(due, h)

Bounded(D) ==
  \A h \in Hosts : \A life, lo, hi \in Nat :
    (Cardinality(ServedIn(D, h, life, lo, hi)) * Token - HostCapacity) * PerUnit(FullGain)
      <= Larger(0, hi - lo * SubTicks)

RateInv == LimiterInv /\ RecordInv /\ BalanceInv /\ Bounded(due)

(* The number of callers, and of some of them. *)
LEMMA CountsAre ==
  ASSUME NEW D, IsFiniteSet(D), NEW h, NEW life, NEW lo, NEW hi
  PROVE  /\ IsFiniteSet(AskedIn(D, h, life, lo))
         /\ Cardinality(AskedIn(D, h, life, lo)) \in Nat
         /\ Cardinality(ServedIn(D, h, life, lo, hi)) \in Nat
         /\ Cardinality(ServedIn(D, h, life, lo, hi)) <= Cardinality(AskedIn(D, h, life, lo))
<1>1. AskedIn(D, h, life, lo) \in SUBSET D
  BY DEF AskedIn
<1>2. ServedIn(D, h, life, lo, hi) \in SUBSET AskedIn(D, h, life, lo)
  BY DEF ServedIn
<1>3. IsFiniteSet(AskedIn(D, h, life, lo))
  BY <1>1, FS_Subset
<1>4. IsFiniteSet(ServedIn(D, h, life, lo, hi))
  BY <1>2, <1>3, FS_Subset
<1> QED BY <1>2, <1>3, <1>4, FS_Subset, FS_CardinalityType

(* A caller who finds k tokens taken since lo, its own included, is told a  *)
(* time that is late enough for them.                                       *)
LEMMA LateEnough ==
  ASSUME NEW taken \in Int, NEW c \in Int, NEW token \in Int, NEW balance \in Int,
         NEW f \in Nat, NEW p \in Nat, NEW q \in Nat, NEW s \in Nat,
         NEW t \in Nat, NEW lo \in Nat, NEW w \in Nat, NEW hi \in Nat,
         lo <= t, p <= q, f * p <= s,
         taken - c - (t - lo) * f <= token - balance,
         Larger(0, token - balance) * q <= w,
         t * s + w <= hi
  PROVE  (taken - c) * p <= Larger(0, hi - lo * s)
<1> DEFINE m == Larger(0, token - balance)
           e == t - lo
           x == taken - c - e * f
<1>1. m \in Nat /\ e \in Nat
  BY DEF Larger
<1>2. e * f \in Nat /\ e * p \in Nat /\ e * s \in Nat /\ f * p \in Nat
  BY <1>1
<1>3. x \in Int /\ x <= m
  BY <1>2 DEF Larger
<1>4. m * p <= w
  <2>1. m * p \in Nat /\ m * q \in Nat
    BY <1>1
  <2>2. m * p <= m * q
    BY <1>1, ProductsOrdered
  <2>3. m * q <= w
    OBVIOUS
  <2> HIDE DEF m
  <2> QED BY <2>1, <2>2, <2>3
<1>5. x * p <= m * p
  <2> HIDE DEF x, m
  <2> QED BY <1>1, <1>3
<1>6. (e * f) * p <= e * s
  <2>1. (e * f) * p = e * (f * p)
    BY <1>1
  <2>2. e * (f * p) <= e * s
    BY <1>1, <1>2, ProductsOrdered
  <2> HIDE DEF e
  <2> QED BY <2>1, <2>2
<1>7. (taken - c) * p = x * p + (e * f) * p
  <2> DEFINE y == e * f
  <2>1. y \in Nat /\ taken - c = x + y
    BY <1>2
  <2> HIDE DEF x, y
  <2>2. (x + y) * p = x * p + y * p
    BY <1>3, <2>1
  <2> QED BY <2>1, <2>2 DEF y
<1>8. e * s = t * s - lo * s /\ t * s \in Nat /\ lo * s \in Nat
  OBVIOUS
<1> DEFINE a == x * p
           b == (e * f) * p
           d == e * s
           g == t * s
           k == lo * s
           mp == m * p
           r == (taken - c) * p
<1>9. a \in Int /\ b \in Int /\ d \in Int /\ g \in Int /\ k \in Int /\ mp \in Int /\ r \in Int
  BY <1>1, <1>2, <1>3
<1>10. r = a + b /\ a <= mp /\ mp <= w /\ b <= d /\ d = g - k /\ g + w <= hi
  BY <1>4, <1>5, <1>6, <1>7, <1>8
<1> HIDE DEF a, b, d, g, k, mp, r
<1>11. r <= hi - k
  BY <1>9, <1>10
<1>12. r <= Larger(0, hi - k)
  BY <1>9, <1>11 DEF Larger
<1> QED BY <1>12 DEF r, k

(* What a caller finds in the bucket, with what was taken since lo.         *)
LEMMA FoundBalance ==
  ASSUME LimiterInv, RecordInv, BalanceInv, NEW h \in Hosts, NEW lo \in Nat, lo <= now
  PROVE  HostBalance(h) + Cardinality(AskedIn(due, h, resets[h], lo)) * Token
           <= HostCapacity + (now - lo) * FullGain
<1> DEFINE S == AskedIn(due, h, resets[h], lo)
           n == Cardinality(S)
<1>0. /\ now \in Nat /\ tokens[h] \in Int /\ last_refill[h] \in Nat /\ last_refill[h] <= now
      /\ gain[h] \in Nat /\ gain[h] <= FullGain /\ FullGain \in Nat
      /\ HostCapacity \in Nat /\ Token \in Nat
  BY HostTypes, CapacityIs
<1>1. n \in Nat /\ (S = {} => n = 0)
  BY CountsAre, FS_EmptySet DEF RecordInv
<1> DEFINE past == (last_refill[h] - lo) * FullGain
           since == (now - last_refill[h]) * FullGain
           came == (now - last_refill[h]) * gain[h]
           all == (now - lo) * FullGain
           took == n * Token
<1>2. past \in Int /\ since \in Int /\ came \in Int /\ all \in Nat /\ took \in Int
  BY <1>0, <1>1
<1>3. past + since = all
  BY <1>0
<1>4. came <= since
  <2> DEFINE t == now - last_refill[h]
  <2>1. t \in Nat
    BY <1>0
  <2> HIDE DEF t
  <2>2. t * gain[h] <= t * FullGain
    BY <1>0, <2>1, ProductsOrdered
  <2> QED BY <2>2 DEF t
<1>5. /\ HostBalance(h) \in Int /\ HostBalance(h) <= HostCapacity
      /\ HostBalance(h) <= tokens[h] + came
  <2>1. HostBalance(h) = Smaller(tokens[h] + came, HostCapacity)
    BY DEF HostBalance, Refilled
  <2> HIDE DEF came
  <2> QED BY <1>0, <1>2, <2>1 DEF Smaller
<1>6. CASE S = {}
  <2>1. took = 0
    BY <1>0, <1>1, <1>6
  <2> HIDE DEF took, all
  <2>2. HostBalance(h) + took <= HostCapacity + all
    BY <1>0, <1>2, <1>5, <2>1
  <2> QED BY <2>2 DEF took, all
<1>7. CASE S # {}
  <2>1. tokens[h] + took <= HostCapacity + past
    BY <1>7 DEF BalanceInv, Paid
  <2> HIDE DEF took, all, past, since, came
  <2>2. HostBalance(h) + took <= HostCapacity + all
    BY <1>0, <1>2, <1>3, <1>4, <1>5, <2>1
  <2> QED BY <2>2 DEF took, all
<1> QED BY <1>6, <1>7

(* A new caller n of h is told a time late enough, and pays.                *)
LEMMA AcquireBounded ==
  ASSUME RateInv, NEW h \in Hosts, Acquire(h)
  PROVE  RecordInv' /\ BalanceInv' /\ Bounded(due')
<1> DEFINE n == [id |-> Cardinality(due), host |-> h, life |-> resets[h],
                 epoch |-> eased[h], asked |-> now, at |-> Promise(h)]
<1>0. /\ now \in Nat /\ HostBalance(h) \in Int /\ Promise(h) \in Nat /\ Wait(h) \in Nat
      /\ HostWait(h) \in Nat /\ GlobalWait \in Nat /\ SpacingWait(h) \in Nat
      /\ gain[h] \in Nat \ {0} /\ gain[h] <= FullGain /\ PerUnit(gain[h]) \in Nat
      /\ resets[h] \in Nat /\ resets \in [Hosts -> Nat]
      /\ tokens \in [Hosts -> Int] /\ last_refill \in [Hosts -> Nat]
  BY HostTypes, WaitTypes DEF RateInv, LimiterInv, GainInv, TimeInv
<1>c. /\ HostCapacity \in Nat /\ Token \in Nat /\ FullGain \in Nat /\ FullGain \in Nat \ {0}
      /\ SubTicks \in Nat
  BY CapacityIs
<1>1. /\ due' = due \cup {n} /\ resets' = resets /\ now' = now
      /\ tokens' = [tokens EXCEPT ![h] = HostBalance(h) - Token]
      /\ last_refill' = [last_refill EXCEPT ![h] = now]
  BY DEF Acquire, Told, slowdown_vars
<1>2. Cardinality(due) \in Nat /\ n \notin due /\ IsFiniteSet(due)
  BY FS_CardinalityType DEF RateInv, RecordInv
<1>3. IsFiniteSet(due') /\ Cardinality(due') = Cardinality(due) + 1
  BY <1>1, <1>2, FS_AddElement
<1>4. RecordInv'
  <2>1. \A d \in due' : /\ d.host \in Hosts /\ d.at \in Nat /\ d.id < Cardinality(due')
                        /\ d.id \in Nat /\ d.life \in Nat /\ d.life <= resets[d.host]
                        /\ d.asked \in Nat /\ d.asked <= now
    <3> SUFFICES ASSUME NEW d \in due'
                 PROVE  /\ d.host \in Hosts /\ d.at \in Nat /\ d.id < Cardinality(due')
                        /\ d.id \in Nat /\ d.life \in Nat /\ d.life <= resets[d.host]
                        /\ d.asked \in Nat /\ d.asked <= now
      OBVIOUS
    <3>1. CASE d = n
      BY <1>0, <1>2, <1>3, <3>1
    <3>2. CASE d \in due
      BY <1>2, <1>3, <3>2 DEF RateInv, RecordInv
    <3> QED BY <1>1, <3>1, <3>2
  <2> QED BY <1>1, <1>3, <2>1 DEF RecordInv
(* Who asked for another host, or before lo, changes nothing.               *)
<1>5. ASSUME NEW g, NEW life, NEW lo \in Nat
      PROVE  AskedIn(due', g, life, lo) =
               IF g = h /\ life = resets[h] /\ lo <= now
               THEN AskedIn(due, g, life, lo) \cup {n} ELSE AskedIn(due, g, life, lo)
  BY <1>1 DEF AskedIn
<1>6. ASSUME NEW lo \in Nat, lo <= now
      PROVE  Cardinality(AskedIn(due', h, resets[h], lo))
               = Cardinality(AskedIn(due, h, resets[h], lo)) + 1
  <2>1. n \notin AskedIn(due, h, resets[h], lo)
    BY <1>2 DEF AskedIn
  <2>2. IsFiniteSet(AskedIn(due, h, resets[h], lo))
    BY <1>2, CountsAre
  <2> QED BY <1>5, <1>6, <2>1, <2>2, FS_AddElement
<1>7. ASSUME NEW lo \in Nat, now < lo
      PROVE  AskedIn(due', h, resets[h], lo) = {}
  <2>1. \A d \in due : ~(lo <= d.asked)
    BY <1>0, <1>7 DEF RateInv, RecordInv
  <2>2. AskedIn(due, h, resets[h], lo) = {}
    BY <2>1 DEF AskedIn
  <2>3. ~(lo <= now)
    BY <1>0, <1>7
  <2> QED BY <1>5, <2>2, <2>3
<1>8. ASSUME NEW lo \in Nat, lo <= now
      PROVE  /\ Cardinality(AskedIn(due', h, resets[h], lo)) \in Nat
             /\ HostBalance(h) - Token + Cardinality(AskedIn(due', h, resets[h], lo)) * Token
                  <= HostCapacity + (now - lo) * FullGain
  <2> DEFINE k == Cardinality(AskedIn(due, h, resets[h], lo))
  <2>1. k \in Nat
    BY <1>2, CountsAre
  <2>2. HostBalance(h) + k * Token <= HostCapacity + (now - lo) * FullGain
    BY <1>8, FoundBalance DEF RateInv
  <2>3. Cardinality(AskedIn(due', h, resets[h], lo)) = k + 1
    BY <1>6, <1>8
  <2> HIDE DEF k
  <2>4. (k + 1) * Token = k * Token + Token /\ k * Token \in Int
        /\ (now - lo) * FullGain \in Int
    BY <1>0, <1>c, <2>1
  <2> QED BY <1>0, <1>c, <2>1, <2>2, <2>3, <2>4
<1>9. BalanceInv'
  <2> SUFFICES ASSUME NEW g \in Hosts, NEW lo \in Nat, AskedIn(due', g, resets[g], lo) # {}
               PROVE  tokens'[g] + Cardinality(AskedIn(due', g, resets[g], lo)) * Token
                        <= HostCapacity + (last_refill'[g] - lo) * FullGain
    BY <1>1, Zenon DEF BalanceInv, Paid, HostCapacity, Token
  <2>1. CASE g # h
    <3>1. /\ tokens'[g] = tokens[g] /\ last_refill'[g] = last_refill[g]
          /\ AskedIn(due', g, resets[g], lo) = AskedIn(due, g, resets[g], lo)
      BY <1>0, <1>1, <1>5, <2>1
    <3> QED BY <3>1 DEF RateInv, BalanceInv, Paid
  <2>2. CASE g = h
    <3>1. tokens'[g] = HostBalance(h) - Token /\ last_refill'[g] = now
      BY <1>0, <1>1, <2>2
    <3>2. lo <= now
      BY <1>0, <1>7, <2>2
    <3> QED BY <1>8, <2>2, <3>1, <3>2
  <2> QED BY <2>1, <2>2
<1>10. Bounded(due')
  <2> SUFFICES ASSUME NEW g \in Hosts, NEW life \in Nat, NEW lo \in Nat, NEW hi \in Nat
               PROVE  (Cardinality(ServedIn(due', g, life, lo, hi)) * Token - HostCapacity)
                        * PerUnit(FullGain) <= Larger(0, hi - lo * SubTicks)
    BY DEF Bounded
  <2>1. CASE n \notin ServedIn(due', g, life, lo, hi)
    <3>1. ServedIn(due', g, life, lo, hi) = ServedIn(due, g, life, lo, hi)
      BY <1>1, <2>1 DEF ServedIn, AskedIn
    <3> QED BY <3>1 DEF RateInv, Bounded
  <2>2. CASE n \in ServedIn(due', g, life, lo, hi)
    <3>1. g = h /\ life = resets[h] /\ lo <= now /\ Promise(h) <= hi
      BY <2>2 DEF ServedIn, AskedIn
    <3> DEFINE k == Cardinality(AskedIn(due', h, resets[h], lo))
               j == Cardinality(ServedIn(due', h, resets[h], lo, hi))
               p == PerUnit(FullGain)
    <3>2. j \in Nat /\ k \in Nat /\ j <= k
      BY <1>3, CountsAre
    <3>3. HostBalance(h) - Token + k * Token <= HostCapacity + (now - lo) * FullGain
      BY <1>8, <3>1
    <3>4. p \in Nat /\ p <= PerUnit(gain[h]) /\ FullGain * p <= SubTicks
      BY <1>0, <1>c, LessGainLongerUnit, Zenon
    <3>5. Larger(0, Token - HostBalance(h)) * PerUnit(gain[h]) <= HostWait(h)
      BY <1>0 DEF HostWait
    <3>6. now * SubTicks + HostWait(h) <= hi
      <4>1. HostWait(h) <= Wait(h)
        BY <1>0 DEF Wait, Larger
      <4>2. now * SubTicks \in Nat /\ now * SubTicks + Wait(h) <= hi
        BY <1>0, <1>c, <3>1 DEF Promise
      <4> QED BY <1>0, <4>1, <4>2
    <3> HIDE DEF k, j, p
    <3>7. k * Token \in Int /\ j * Token \in Int /\ j * Token <= k * Token
          /\ (now - lo) * FullGain \in Int
      BY <1>0, <1>c, <3>2, ProductsOrdered
    <3>8. j * Token - HostCapacity - (now - lo) * FullGain <= Token - HostBalance(h)
      BY <1>0, <1>c, <3>3, <3>7
    <3>9. (j * Token - HostCapacity) * p <= Larger(0, hi - lo * SubTicks)
      <4>1. /\ HostCapacity \in Int /\ Token \in Int /\ p \in Nat /\ lo \in Nat /\ hi \in Nat
            /\ PerUnit(gain[h]) \in Nat /\ lo <= now
        BY <1>0, <1>c, <3>1, <3>4
      <4> QED BY <1>0, <1>c, <3>4, <3>5, <3>6, <3>7, <3>8, <4>1, LateEnough, Zenon
    <3> QED BY <3>1, <3>9 DEF j, p
  <2> QED BY <2>1, <2>2
<1> QED BY <1>4, <1>9, <1>10

(* However calls and latencies fall, the requests asked for of a host from  *)
(* some moment on come due no faster than its bucket allows.                *)
THEOREM RateBounded == Spec => []HostRateBounded
<1>1. Init => RateInv
  <2> SUFFICES ASSUME Init PROVE RateInv
    OBVIOUS
  <2>1. due = {} /\ IsFiniteSet(due)
    BY FS_EmptySet DEF Init
  <2>2. BalanceInv
    BY <2>1 DEF BalanceInv, Paid, AskedIn
  <2>3. Bounded(due)
    <3> SUFFICES ASSUME NEW h \in Hosts, NEW life \in Nat, NEW lo \in Nat, NEW hi \in Nat
                 PROVE  (Cardinality(ServedIn(due, h, life, lo, hi)) * Token - HostCapacity)
                          * PerUnit(FullGain) <= Larger(0, hi - lo * SubTicks)
      BY DEF Bounded
    <3>1. ServedIn(due, h, life, lo, hi) = {}
      BY <2>1 DEF ServedIn, AskedIn
    <3>2. Cardinality(ServedIn(due, h, life, lo, hi)) = 0
      BY <3>1, FS_EmptySet
    <3>3. PerUnit(FullGain) \in Nat /\ HostCapacity \in Nat /\ Token \in Nat /\ SubTicks \in Nat
      <4>1. FullGain \in Nat \ {0} /\ FullGain <= FullGain
        BY CapacityIs
      <4> QED BY <4>1, CapacityIs, LessGainLongerUnit, Zenon
    <3>4. (0 * Token - HostCapacity) * PerUnit(FullGain) <= 0
      <4>1. 0 * Token - HostCapacity = 0 - HostCapacity
        BY <3>3
      <4>2. HostCapacity * PerUnit(FullGain) \in Nat
        BY <3>3
      <4>3. (0 - HostCapacity) * PerUnit(FullGain) = 0 - HostCapacity * PerUnit(FullGain)
        BY <3>3
      <4> QED BY <4>1, <4>2, <4>3
    <3>5. lo * SubTicks \in Nat
      BY <3>3
    <3>6. (0 * Token - HostCapacity) * PerUnit(FullGain) \in Int
      BY <3>3
    <3> QED BY <3>2, <3>4, <3>5, <3>6 DEF Larger
  <2> QED BY <2>1, <2>2, <2>3, LimiterInvInit DEF RateInv, RecordInv
<1>2. RateInv /\ [Next]_vars => RateInv'
  <2> SUFFICES ASSUME RateInv, [Next]_vars PROVE RateInv'
    OBVIOUS
  <2>1. LimiterInv'
    BY LimiterInvStep DEF RateInv
  <2>2. ASSUME UNCHANGED due PROVE Bounded(due)'
    BY <2>2 DEF RateInv, Bounded, ServedIn, AskedIn, HostCapacity, Token, PerUnit, Larger
  <2>3. ASSUME UNCHANGED <<due, tokens, last_refill, resets>>, now <= now' PROVE RateInv'
    <3>1. RecordInv'
      <4>1. now \in Nat /\ now' \in Nat
        BY <2>1 DEF RateInv, LimiterInv, TimeInv
      <4> QED BY <2>3, <4>1 DEF RateInv, RecordInv
    <3>2. BalanceInv'
      BY <2>3 DEF RateInv, BalanceInv, Paid, AskedIn, HostCapacity, Token
    <3> QED BY <2>1, <2>2, <2>3, <3>1, <3>2 DEF RateInv
  <2>4. ASSUME NEW h \in Hosts, Acquire(h) PROVE RateInv'
    BY <2>1, <2>4, AcquireBounded DEF RateInv, Bounded, ServedIn, AskedIn, HostCapacity, Token,
       PerUnit, Larger
  <2>5. ASSUME NEW h \in Hosts, RecordLatency(h) PROVE RateInv'
    <3>1. now <= now
      BY DEF RateInv, LimiterInv, TimeInv
    <3> QED BY <2>3, <2>5, <3>1 DEF RecordLatency, clock_vars
  <2>6. ASSUME NEW h \in Hosts, ResetHost(h) PROVE RateInv'
    <3>0. /\ resets \in [Hosts -> Nat] /\ tokens \in [Hosts -> Int]
          /\ last_refill \in [Hosts -> Nat] /\ now \in Nat
      BY DEF RateInv, LimiterInv, TimeInv, GainInv
    <3>1. /\ resets' = [resets EXCEPT ![h] = resets[h] + 1] /\ due' = due /\ now' = now
          /\ tokens' = [tokens EXCEPT ![h] = 0]
          /\ last_refill' = [last_refill EXCEPT ![h] = 0]
      BY <2>6 DEF ResetHost
    <3>2. \A g \in Hosts : resets[g] \in Nat /\ resets'[g] \in Nat /\ resets[g] <= resets'[g]
      BY <3>0, <3>1
    <3>3. RecordInv'
      <4>1. \A d \in due : d.life <= resets'[d.host]
        BY <3>2 DEF RateInv, RecordInv
      <4> QED BY <3>1, <4>1 DEF RateInv, RecordInv
    <3>4. BalanceInv'
      <4> SUFFICES ASSUME NEW g \in Hosts, NEW lo \in Nat, AskedIn(due, g, resets'[g], lo) # {}
                   PROVE  tokens'[g] + Cardinality(AskedIn(due, g, resets'[g], lo)) * Token
                            <= HostCapacity + (last_refill'[g] - lo) * FullGain
        BY <3>1, Zenon DEF BalanceInv, Paid, HostCapacity, Token, AskedIn
      <4>1. g # h
        <5>1. resets'[h] = resets[h] + 1 /\ resets[h] \in Nat
          BY <3>0, <3>1
        <5>2. \A d \in due : d.host = h => d.life \in Nat /\ d.life <= resets[h]
          BY DEF RateInv, RecordInv
        <5>3. AskedIn(due, h, resets'[h], lo) = {}
          BY <5>1, <5>2 DEF AskedIn
        <5> QED BY <5>3
      <4>2. resets'[g] = resets[g] /\ tokens'[g] = tokens[g] /\ last_refill'[g] = last_refill[g]
        BY <3>0, <3>1, <4>1
      <4> QED BY <4>2 DEF RateInv, BalanceInv, Paid
    <3> QED BY <2>1, <2>2, <3>1, <3>3, <3>4 DEF RateInv
  <2>7. CASE Tick
    <3>1. now <= now'
      BY <2>7 DEF Tick, RateInv, LimiterInv, TimeInv
    <3> QED BY <2>3, <2>7, <3>1 DEF Tick, clock_vars, slowdown_vars
  <2>8. CASE UNCHANGED vars
    <3>1. now <= now'
      BY <2>8 DEF vars, RateInv, LimiterInv, TimeInv
    <3> QED BY <2>3, <2>8, <3>1 DEF vars, clock_vars, slowdown_vars
  <2> QED BY <2>4, <2>5, <2>6, <2>7, <2>8 DEF Next
<1>3. RateInv => HostRateBounded
  <2> SUFFICES ASSUME RateInv, NEW a \in due, NEW b \in due
               PROVE  (Cardinality(Served(a.host, a.life, a.asked, b.at)) * Token - HostCapacity)
                        * PerUnit(FullGain) <= Larger(0, b.at - a.asked * SubTicks)
    BY DEF HostRateBounded
  <2>1. a.host \in Hosts /\ a.life \in Nat /\ a.asked \in Nat /\ b.at \in Nat
    BY DEF RateInv, RecordInv
  <2>2. Served(a.host, a.life, a.asked, b.at) = ServedIn(due, a.host, a.life, a.asked, b.at)
    BY ServedIs, Zenon
  <2> QED BY <2>1, <2>2 DEF RateInv, Bounded
<1> QED BY <1>1, <1>2, <1>3, PTL DEF Spec
=============================================================================
