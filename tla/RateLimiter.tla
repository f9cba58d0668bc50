----------------------------- MODULE RateLimiter -----------------------------
(***************************************************************************)
(* RateLimiter (src/reconforgex/utils/rate_limiter.py): a global and a      *)
(* per-host token bucket.  acquire() runs without a suspension point and    *)
(* returns how long its caller is to sleep; the tokens it takes may be      *)
(* tokens of the future, so a balance may be negative.                      *)
(*                                                                         *)
(* The clock counts ticks of 1/global_rps seconds; waits and the times of   *)
(* `due' are counted in instants, SubTicks to a tick.  A host with          *)
(* slowdown factor f gains per_host_rps / f tokens a second: its `gain' is  *)
(* the part FullGain / f of FullGain, and its balance counts units of       *)
(* which it gains that many per tick, Ratio * FullGain to a token.          *)
(***************************************************************************)
EXTENDS Integers, FiniteSets

CONSTANTS Hosts,
          PerHostRps,      \* per_host_rps
          Ratio,           \* global_rps / per_host_rps
          Burst,           \* burst
          EnableAdaptive,  \* enable_adaptive
          FullGain,        \* the gain of a host at slowdown factor 1
          SubTicks,        \* instants per tick of the clock
          Averages,        \* average latencies between 2 and 10 seconds
          Uptime,          \* the monotonic clock when the limiter is made
          MaxAcquires,     \* bound: calls of acquire
          MaxTicks,        \* bound: ticks after Uptime
          MaxLatencies,    \* bound: latencies recorded
          MaxResets        \* bound: calls of reset_host for each host

ASSUME HostsAssumption == IsFiniteSet(Hosts)
ASSUME RatesAssumption ==
  PerHostRps \in Nat \ {0} /\ Ratio \in Nat \ {0} /\ Burst \in Nat \ {0}
ASSUME GainsAssumption ==
  /\ FullGain \in Nat /\ FullGain >= 10 /\ SubTicks \in Nat
  /\ EnableAdaptive \in BOOLEAN /\ Averages \subseteq 2..10
(* The first refill of a host fills its bucket, even at factor 10: the      *)
(* clock has run so long.                                                   *)
ASSUME UptimeAssumption ==
  Uptime \in Nat \ {0} /\ Uptime >= 20 * (PerHostRps + 2) * Ratio
ASSUME BoundsAssumption ==
  {MaxAcquires, MaxTicks, MaxLatencies, MaxResets} \subseteq Nat

VARIABLES now,
          global_tokens, global_last_refill,
          tokens, last_refill, last_request_time,  \* HostState, per host
          gain,       \* HostState.slowdown_factor f, as FullGain / f
          known,      \* recent_latencies: how many, up to the 3 that are asked for
          recorded,   \* latencies so far, for the bound
          resets,     \* history: how often the host was reset
          eased,      \* history: how often its factor fell or was reset
          due         \* history: of each acquire, its host, when it asked and when
                      \* it may be sent

clock_vars == <<global_tokens, global_last_refill, tokens, last_refill,
                last_request_time>>
slowdown_vars == <<gain, known, recorded, resets, eased>>
vars == <<now, clock_vars, slowdown_vars, due>>

Smaller(a, b) == IF a < b THEN a ELSE b
Larger(a, b) == IF a > b THEN a ELSE b

Token == Ratio * FullGain

HostCapacity == (PerHostRps + 2) * Token

(* Mutant: the refill is not capped. *)
MutRefilledNoCap(balance, last, rate, capacity) == balance + (now - last) * rate

(* _refill_global, _refill_host: what passed since the last refill, capped. *)
Refilled(balance, last, rate, capacity) ==
  Smaller(balance + (now - last) * rate, capacity)

GlobalBalance == Refilled(global_tokens, global_last_refill, 1, Burst)

HostBalance(h) == Refilled(tokens[h], last_refill[h], gain[h], HostCapacity)

(* How many instants a host of gain g takes to gain one unit.               *)
PerUnit(g) == SubTicks \div g

GlobalWait == Larger(0, 1 - GlobalBalance) * SubTicks

HostWait(h) == Larger(0, Token - HostBalance(h)) * PerUnit(gain[h])

(* The spacing knows no slowdown.                                           *)
SpacingWait(h) ==
  IF last_request_time[h] > 0
  THEN Larger(0, Ratio - (now - last_request_time[h])) * SubTicks
  ELSE 0

(* Mutant: the waits of the two buckets and the spacing compete. *)
MutWaitFirstOnly(h) ==
  IF GlobalWait > 0 THEN GlobalWait
  ELSE IF HostWait(h) > 0 THEN HostWait(h) ELSE SpacingWait(h)

Wait(h) == Larger(GlobalWait, Larger(HostWait(h), SpacingWait(h)))

(* When a caller of h that asks now may send.                               *)
Promise(h) == now * SubTicks + Wait(h)

Init ==
  /\ now = Uptime
  /\ global_tokens = Burst
  /\ global_last_refill = Uptime
  /\ tokens = [h \in Hosts |-> 0]
  /\ last_refill = [h \in Hosts |-> 0]
  /\ last_request_time = [h \in Hosts |-> 0]
  /\ gain = [h \in Hosts |-> FullGain]
  /\ known = [h \in Hosts |-> 0]
  /\ eased = [h \in Hosts |-> 0]
  /\ resets = [h \in Hosts |-> 0]
  /\ recorded = 0
  /\ due = {}

Told(h) == [id |-> Cardinality(due), host |-> h, life |-> resets[h],
            epoch |-> eased[h], asked |-> now, at |-> Promise(h)]

(* Mutant: a caller that has to wait takes no token. *)
MutAcquireFreeWait(h) ==
  /\ Cardinality(due) < MaxAcquires
  /\ due' = due \cup {Told(h)}
  /\ global_tokens' = Larger(0, GlobalBalance - 1)
  /\ global_last_refill' = now
  /\ tokens' = [tokens EXCEPT ![h] = Larger(0, HostBalance(h) - Token)]
  /\ last_refill' = [last_refill EXCEPT ![h] = now]
  /\ last_request_time' = [last_request_time EXCEPT ![h] = now]
  /\ UNCHANGED <<now, slowdown_vars>>

Acquire(h) ==
  /\ Cardinality(due) < MaxAcquires
  /\ due' = due \cup {Told(h)}
  /\ global_tokens' = GlobalBalance - 1
  /\ global_last_refill' = now
  /\ tokens' = [tokens EXCEPT ![h] = HostBalance(h) - Token]
  /\ last_refill' = [last_refill EXCEPT ![h] = now]
  /\ last_request_time' = [last_request_time EXCEPT ![h] = now]
  /\ UNCHANGED <<now, slowdown_vars>>

(* _calculate_slowdown: the gains that an average above 10 s, one below 2 s *)
(* and one between them lead to.                                            *)
Slower(g) == Larger(FullGain \div 10, (2 * g) \div 3)
Faster(g) == Smaller(FullGain, (6 * g) \div 5)
Between2And10(g) ==
  {Smaller(FullGain, Larger(g, (3 * FullGain) \div a)) : a \in Averages}

Adjusted(g) == {Slower(g), Faster(g)} \cup Between2And10(g)

(* record_latency: the average of up to ten latencies may be any, but       *)
(* nothing is done before there are three of them.  The client calls it for *)
(* a response, so a request was sent.                                       *)
RecordLatency(h) ==
  /\ EnableAdaptive
  /\ \E d \in due : d.host = h /\ d.at <= now * SubTicks
  /\ recorded < MaxLatencies
  /\ recorded' = recorded + 1
  /\ known' = [known EXCEPT ![h] = Smaller(3, @ + 1)]
  /\ \E g \in IF known'[h] = 3 THEN Adjusted(gain[h]) ELSE {gain[h]} :
       /\ gain' = [gain EXCEPT ![h] = g]
       /\ eased' = [eased EXCEPT ![h] = IF g > gain[h] THEN @ + 1 ELSE @]
  /\ UNCHANGED <<now, clock_vars, resets, due>>

(* reset_host: the state of h is a new one when it is next needed.          *)
ResetHost(h) ==
  /\ resets[h] < MaxResets
  /\ resets' = [resets EXCEPT ![h] = @ + 1]
  /\ tokens' = [tokens EXCEPT ![h] = 0]
  /\ last_refill' = [last_refill EXCEPT ![h] = 0]
  /\ last_request_time' = [last_request_time EXCEPT ![h] = 0]
  /\ gain' = [gain EXCEPT ![h] = FullGain]
  /\ known' = [known EXCEPT ![h] = 0]
  /\ eased' = [eased EXCEPT ![h] = @ + 1]
  /\ UNCHANGED <<now, global_tokens, global_last_refill, recorded, due>>

(* The clock. *)
Tick ==
  /\ now < Uptime + MaxTicks
  /\ now' = now + 1
  /\ UNCHANGED <<clock_vars, slowdown_vars, due>>

Next ==
  Tick \/ \E h \in Hosts : Acquire(h) \/ RecordLatency(h) \/ ResetHost(h)

Spec == Init /\ [][Next]_vars

-----------------------------------------------------------------------------
(* Balances never exceed their capacity, no wait is negative, and the       *)
(* slowdown factor stays between 1 and 10.                                  *)
TypeOK ==
  /\ now \in Nat
  /\ global_tokens \in Int /\ global_tokens <= Burst
  /\ global_last_refill \in Nat
  /\ tokens \in [Hosts -> Int]
  /\ \A h \in Hosts : tokens[h] <= HostCapacity
  /\ last_refill \in [Hosts -> Nat]
  /\ last_request_time \in [Hosts -> Nat]
  /\ gain \in [Hosts -> Nat]
  /\ \A h \in Hosts : FullGain \div 10 <= gain[h] /\ gain[h] <= FullGain
  /\ known \in [Hosts -> 0..3]
  /\ eased \in [Hosts -> Nat] /\ resets \in [Hosts -> Nat]
  /\ \A d \in due : d.host \in Hosts /\ d.at \in Nat

(* The callers of h, between two of its resets, that asked at lo or later   *)
(* and were told hi or earlier.                                             *)
Served(h, life, lo, hi) ==
  {d \in due : /\ d.host = h /\ d.life = life
               /\ lo <= d.asked /\ d.at <= hi}

(* Of the requests to one host that are asked for from some moment on, no   *)
(* more come due within any time from that moment than a full bucket and    *)
(* what the bucket gains in that time, however calls and latencies fall and *)
(* the factor rises or falls meanwhile: the tokens of the future that are   *)
(* taken are paid for.  (The moments at which requests come due are another *)
(* matter: those that the global bucket holds up come due closer together.) *)
HostRateBounded ==
  \A a, b \in due :
    (Cardinality(Served(a.host, a.life, a.asked, b.at)) * Token - HostCapacity)
      * PerUnit(FullGain) <= Larger(0, b.at - a.asked * SubTicks)

(* Callers of one host are served in the order in which they asked, unless  *)
(* the host's slowdown fell or was reset between them.                      *)
FirstComeFirstServed ==
  \A c, d \in due :
    c.host = d.host /\ c.epoch = d.epoch /\ c.id < d.id => c.at <= d.at

=============================================================================
