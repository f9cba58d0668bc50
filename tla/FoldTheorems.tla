----------------------------- MODULE FoldTheorems -----------------------------
(***************************************************************************)
(* Facts about FoldLeft over sequences of any length, and about the sums    *)
(* that it makes (Total).  They need induction, which is done here by the   *)
(* least counterexample: the library says without an operator as parameter  *)
(* that < is well founded on Nat, and that a well-founded relation has      *)
(* minimal elements.                                                        *)
(***************************************************************************)
EXTENDS Sums, FiniteSetTheorems, SequenceTheorems, WellFoundedInduction, TLAPS

Less == {p \in Nat \X Nat : p[1] < p[2]}

(* A set of natural numbers that is not empty has a least element.          *)
LEMMA Least ==
  ASSUME NEW T \in SUBSET Nat, T # {}
  PROVE  \E n \in T : \A m \in T : n <= m
<1>1. IsWellFoundedOn(Less, Nat)
  <2>1. OpToRel(<, Nat) = Less
    BY DEF OpToRel, Less
  <2> QED
    BY <2>1, NatLessThanWellFounded
<1>2. PICK n \in T : \A m \in T : ~(<<m, n>> \in Less)
  BY <1>1, WFMin
<1>3. \A m, k \in Nat : <<m, k>> \in Less <=> m < k
  BY DEF Less
<1>4. ASSUME NEW m \in T PROVE n <= m
  <2>1. n \in Nat /\ m \in Nat /\ ~(<<m, n>> \in Less)
    BY <1>2
  <2>2. ~(m < n)
    BY <1>3, <2>1, Zenon
  <2> QED
    BY <2>1, <2>2
<1> QED
  BY <1>4

(* Induction up to a bound: what holds at 0 and of each next number.        *)
LEMMA UpTo ==
  ASSUME NEW n \in Nat, NEW T, 0 \in T, \A k \in 0 .. n - 1 : k \in T => k + 1 \in T
  PROVE  0 .. n \subseteq T
<1> SUFFICES ASSUME (0 .. n) \ T # {} PROVE FALSE
  OBVIOUS
<1> DEFINE Missing == (0 .. n) \ T
<1>1. Missing \in SUBSET Nat /\ Missing # {}
  OBVIOUS
<1> HIDE DEF Missing
<1>2. PICK k \in Missing : \A m \in Missing : k <= m
  BY <1>1, Least
<1>3. k \in (0 .. n) \ T /\ \A m \in (0 .. n) \ T : k <= m
  BY <1>2 DEF Missing
<1>4. k # 0 /\ k - 1 \in 0 .. n - 1
  BY <1>3
<1>5. k - 1 \in T
  BY <1>3, <1>4
<1>6. k \in T
  BY <1>3, <1>4, <1>5
<1> QED
  BY <1>3, <1>6

-----------------------------------------------------------------------------
(* The largest of the first k positions, and of any of them with the next.  *)
LEMMA MaxOfPositions ==
  ASSUME NEW k \in Nat, NEW t \in SUBSET (1 .. k)
  PROVE  Max(t \cup {k + 1}) = k + 1 /\ (t \cup {k + 1}) \ {k + 1} = t
<1>1. \A y \in t \cup {k + 1} : k + 1 >= y
  OBVIOUS
<1>2. \A x \in t \cup {k + 1} : (\A y \in t \cup {k + 1} : x >= y) => x = k + 1
  OBVIOUS
<1>3. k + 1 \in t \cup {k + 1}
  OBVIOUS
<1>4. Max(t \cup {k + 1}) = k + 1
  BY <1>1, <1>2, <1>3 DEF Max
<1> QED
  BY <1>4

(* The positions up to the next one.                                        *)
LEMMA FirstPositions ==
  ASSUME NEW k \in Nat, k # 0
  PROVE  1 .. k # {} /\ Max(1 .. k) = k /\ (1 .. k) \ {k} = 1 .. k - 1
<1> DEFINE t == 1 .. k - 1
<1>1. k - 1 \in Nat /\ t \in SUBSET (1 .. k - 1) /\ k - 1 + 1 = k /\ 1 .. k = t \cup {k}
  OBVIOUS
<1>2. Max(t \cup {k - 1 + 1}) = k - 1 + 1 /\ (t \cup {k - 1 + 1}) \ {k - 1 + 1} = t
  BY <1>1, MaxOfPositions
<1> QED
  BY <1>1, <1>2

(* The largest number of a set of positions, which has one.                 *)
LEMMA MaxInside ==
  ASSUME NEW n \in Nat, NEW t \in SUBSET (1 .. n), t # {}
  PROVE  Max(t) \in t /\ \A i \in t : i <= Max(t)
<1> DEFINE T == {m \in Nat : n - m \in t}
<1>1. PICK i \in t : TRUE
  OBVIOUS
<1>2. i \in Int /\ i <= n /\ n - (n - i) = i
  OBVIOUS
<1>3. n - i \in T
  BY <1>1, <1>2
<1>4. T \in SUBSET Nat /\ T # {}
  BY <1>3
<1> HIDE DEF T
<1>5. PICK m \in T : \A k \in T : m <= k
  BY <1>4, Least
<1>6. m \in Nat /\ n - m \in t
  BY <1>5 DEF T
<1>7. ASSUME NEW j \in t PROVE n - m >= j
  <2>1. j \in Int /\ j <= n /\ n - (n - j) = j
    OBVIOUS
  <2>2. n - j \in T
    BY <2>1 DEF T
  <2>3. m <= n - j
    BY <1>5, <2>2
  <2> QED
    BY <1>6, <2>1, <2>3
<1>8. Max(t) \in t /\ \A y \in t : Max(t) >= y
  BY <1>6, <1>7 DEF Max
<1>9. \A y \in t : y \in Int
  OBVIOUS
<1> QED
  BY <1>8, <1>9

-----------------------------------------------------------------------------
(* FoldLeft in general.  Its operator is here a function g of the value so  *)
(* far and the next element, on a set X of values that g does not leave:    *)
(* then the fold exists, and its values at the first k positions are those  *)
(* of a loop that has run k times.                                          *)
Iterates(iter, g, base, s, S) ==
  \A t \in SUBSET S :
    iter[t] = IF t = {} THEN base ELSE g[<<iter[t \ {Max(t)}], s[Max(t)]>>]

LEMMA IterationExists ==
  ASSUME NEW X, NEW base \in X, NEW g, NEW s, NEW n \in Nat,
         \A x \in X : \A k \in 1 .. n : g[<<x, s[k]>>] \in X
  PROVE  \E iter \in [SUBSET (1 .. n) -> X] : Iterates(iter, g, base, s, 1 .. n)
<1> DEFINE T == {k \in 0 .. n : \E iter \in [SUBSET (1 .. k) -> X] :
                                  Iterates(iter, g, base, s, 1 .. k)}
<1>1. 0 \in T
  <2>1. SUBSET (1 .. 0) = {{}}
    OBVIOUS
  <2> DEFINE none == [t \in SUBSET (1 .. 0) |-> base]
  <2>2. none \in [SUBSET (1 .. 0) -> X] /\ \A t \in SUBSET (1 .. 0) : none[t] = base
    OBVIOUS
  <2> HIDE DEF none
  <2>3. Iterates(none, g, base, s, 1 .. 0)
    BY <2>1, <2>2 DEF Iterates
  <2> QED
    BY <2>2, <2>3
<1>2. ASSUME NEW k \in 0 .. n - 1, k \in T PROVE k + 1 \in T
  <2>1. PICK iter \in [SUBSET (1 .. k) -> X] : Iterates(iter, g, base, s, 1 .. k)
    BY <1>2
  <2> DEFINE next == [t \in SUBSET (1 .. k + 1) |->
                        IF k + 1 \in t THEN g[<<iter[t \ {k + 1}], s[k + 1]>>] ELSE iter[t]]
  <2>2. next \in [SUBSET (1 .. k + 1) -> X]
    <3>1. ASSUME NEW t \in SUBSET (1 .. k + 1)
          PROVE  (IF k + 1 \in t THEN g[<<iter[t \ {k + 1}], s[k + 1]>>] ELSE iter[t]) \in X
      <4>1. t \ {k + 1} \in SUBSET (1 .. k) /\ k + 1 \in 1 .. n
        OBVIOUS
      <4>2. iter[t \ {k + 1}] \in X
        BY <4>1
      <4>3. CASE k + 1 \in t
        BY <4>1, <4>2, <4>3
      <4>4. CASE k + 1 \notin t
        <5>1. t \ {k + 1} = t
          BY <4>4
        <5> QED
          BY <4>2, <4>4, <5>1
      <4> QED
        BY <4>3, <4>4
    <3> QED
      BY <3>1
  <2>3. ASSUME NEW t \in SUBSET (1 .. k + 1)
        PROVE  next[t] = IF t = {} THEN base ELSE g[<<next[t \ {Max(t)}], s[Max(t)]>>]
    <3>1. CASE k + 1 \in t
      <4> DEFINE u == t \ {k + 1}
      <4>0. k \in Nat /\ \A m \in 1 .. k + 1 : m # k + 1 => m \in 1 .. k
        OBVIOUS
      <4>1. u \in SUBSET (1 .. k) /\ t = u \cup {k + 1} /\ k \in Nat
        BY <3>1, <4>0, Zenon
      <4>2. Max(t) = k + 1 /\ t \ {Max(t)} = u
        BY <4>1, MaxOfPositions
      <4>3. u \in SUBSET (1 .. k + 1) /\ k + 1 \notin u
        BY <4>1
      <4>4. next[u] = iter[u]
        BY <4>3
      <4>5. next[t] = g[<<iter[u], s[k + 1]>>]
        BY <3>1
      <4> HIDE DEF u, next
      <4> QED
        BY <3>1, <4>2, <4>4, <4>5
    <3>2. CASE k + 1 \notin t
      <4>1. t \in SUBSET (1 .. k)
        BY <3>2
      <4>2. iter[t] = IF t = {} THEN base ELSE g[<<iter[t \ {Max(t)}], s[Max(t)]>>]
        BY <2>1, <4>1 DEF Iterates
      <4>3. next[t] = iter[t] /\ next[t \ {Max(t)}] = iter[t \ {Max(t)}]
        BY <3>2
      <4> HIDE DEF next
      <4> QED
        BY <4>2, <4>3
    <3> QED
      BY <3>1, <3>2
  <2> HIDE DEF next
  <2>4. Iterates(next, g, base, s, 1 .. k + 1)
    BY <2>3 DEF Iterates
  <2>5. k + 1 \in 0 .. n
    OBVIOUS
  <2> QED
    BY <2>2, <2>4, <2>5
<1> HIDE DEF T
<1>3. 0 .. n \subseteq T
  BY <1>1, <1>2, UpTo
<1>4. n \in T
  BY <1>3
<1> QED
  BY <1>4 DEF T

-----------------------------------------------------------------------------
(* f has the sums of the prefixes of s, of which there are n.               *)
PrefixSums(f, s, n) == f[0] = 0 /\ \A k \in 1 .. n : f[k] = f[k - 1] + s[k]

(* The fold: iter is defined on the subsets of the positions.               *)
Folds(iter, s, S) ==
  iter = [t \in SUBSET S |-> IF t = {} THEN 0 ELSE iter[t \ {Max(t)}] + s[Max(t)]]

LEMMA TotalIsFold ==
  ASSUME NEW s
  PROVE  Total(s) = (CHOOSE iter : Folds(iter, s, DOMAIN s))[DOMAIN s]
  BY Zenon DEF Total, FoldLeft, MapThenFoldSet, Folds

(* The fold of numbers exists, being an iteration of addition.              *)
LEMMA FoldExists ==
  ASSUME NEW s, NEW n \in Nat, \A k \in 1 .. n : s[k] \in Int
  PROVE  \E iter : Folds(iter, s, 1 .. n)
<1> DEFINE plus == [p \in Int \X Int |-> p[1] + p[2]]
<1>1. \A x, y \in Int : plus[<<x, y>>] = x + y /\ x + y \in Int
  OBVIOUS
<1> HIDE DEF plus
<1>2. \A x \in Int : \A k \in 1 .. n : plus[<<x, s[k]>>] \in Int
  BY <1>1
<1>3. PICK iter \in [SUBSET (1 .. n) -> Int] : Iterates(iter, plus, 0, s, 1 .. n)
  <2>1. 0 \in Int
    OBVIOUS
  <2> QED
    BY <1>2, <2>1, IterationExists, Zenon
<1>4. ASSUME NEW t \in SUBSET (1 .. n)
      PROVE  iter[t] = IF t = {} THEN 0 ELSE iter[t \ {Max(t)}] + s[Max(t)]
  <2>1. CASE t # {}
    <3>1. Max(t) \in 1 .. n /\ t \ {Max(t)} \in SUBSET (1 .. n)
      BY <2>1, MaxInside
    <3>2. iter[t \ {Max(t)}] \in Int /\ s[Max(t)] \in Int
      BY <3>1
    <3>3. iter[t] = plus[<<iter[t \ {Max(t)}], s[Max(t)]>>]
      BY <1>3, <2>1 DEF Iterates
    <3> QED
      BY <1>1, <2>1, <3>2, <3>3
  <2>2. CASE t = {}
    BY <1>3, <2>2 DEF Iterates
  <2> QED
    BY <2>1, <2>2
<1>5. iter = [t \in SUBSET (1 .. n) |->
                IF t = {} THEN 0 ELSE iter[t \ {Max(t)}] + s[Max(t)]]
  BY <1>4
<1> QED
  BY <1>5 DEF Folds

(* So the prefixes of a sequence have sums, and Total is the last of them.  *)
LEMMA TotalHasPrefixes ==
  ASSUME NEW s \in Seq(Int)
  PROVE  \E f : PrefixSums(f, s, Len(s)) /\ Total(s) = f[Len(s)]
<1> DEFINE iter == CHOOSE i : Folds(i, s, DOMAIN s)
           f == [k \in 0 .. Len(s) |-> iter[1 .. k]]
<1>1. Len(s) \in Nat /\ DOMAIN s = 1 .. Len(s)
  OBVIOUS
<1>2. Folds(iter, s, DOMAIN s)
  <2>1. \A k \in 1 .. Len(s) : s[k] \in Int
    OBVIOUS
  <2> QED
    BY <1>1, <2>1, FoldExists
<1>3. Total(s) = iter[DOMAIN s]
  BY TotalIsFold
<1> HIDE DEF iter
<1>4. f[0] = 0
  <2>1. 1 .. 0 = {} /\ {} \in SUBSET (DOMAIN s)
    OBVIOUS
  <2>2. iter[{}] = 0
    BY <1>2, <2>1 DEF Folds
  <2> QED
    BY <1>1, <2>1, <2>2
<1>5. ASSUME NEW k \in 1 .. Len(s) PROVE f[k] = f[k - 1] + s[k]
  <2>1. k \in Nat /\ k # 0 /\ k \in 0 .. Len(s) /\ k - 1 \in 0 .. Len(s)
    BY <1>1
  <2>2. Max(1 .. k) = k /\ (1 .. k) \ {k} = 1 .. k - 1 /\ 1 .. k # {}
    BY <2>1, FirstPositions
  <2>3. (1 .. k) \in SUBSET (1 .. Len(s))
    BY <1>1
  <2>4. (1 .. k) \in SUBSET (DOMAIN s)
    BY <1>1, <2>3, Zenon
  <2>5. iter[1 .. k] = iter[(1 .. k) \ {Max(1 .. k)}] + s[Max(1 .. k)]
    BY <1>2, <2>2, <2>4 DEF Folds
  <2>6. iter[1 .. k] = iter[1 .. k - 1] + s[k]
    BY <2>2, <2>5
  <2> QED
    BY <2>1, <2>6
<1>6. f[Len(s)] = Total(s)
  BY <1>1, <1>3
<1> HIDE DEF f
<1> QED
  BY <1>4, <1>5, <1>6 DEF PrefixSums

(* They are the same for sequences that agree so far.                       *)
LEMMA PrefixesAgree ==
  ASSUME NEW n \in Nat, NEW f, NEW s, PrefixSums(f, s, n), NEW g, NEW t, PrefixSums(g, t, n),
         \A k \in 1 .. n : s[k] = t[k]
  PROVE  \A k \in 0 .. n : f[k] = g[k]
<1> DEFINE T == {k \in 0 .. n : f[k] = g[k]}
<1>1. 0 \in T
  BY DEF PrefixSums
<1>2. ASSUME NEW k \in 0 .. n - 1, k \in T PROVE k + 1 \in T
  <2>1. k + 1 \in 1 .. n /\ k + 1 - 1 = k
    OBVIOUS
  <2>2. f[k + 1] = f[k] + s[k + 1] /\ g[k + 1] = g[k] + t[k + 1]
    BY <2>1 DEF PrefixSums
  <2> QED
    BY <1>2, <2>1, <2>2
<1>3. 0 .. n \subseteq T
  <2> HIDE DEF T
  <2> QED
    BY <1>1, <1>2, UpTo
<1> QED
  BY <1>3

(* A set closed under adding the numbers of s has all sums of its prefixes. *)
LEMMA PrefixesIn ==
  ASSUME NEW n \in Nat, NEW f, NEW s, PrefixSums(f, s, n),
         NEW V, 0 \in V, \A v \in V : \A k \in 1 .. n : v + s[k] \in V
  PROVE  \A k \in 0 .. n : f[k] \in V
<1> DEFINE T == {k \in 0 .. n : f[k] \in V}
<1>1. 0 \in T
  BY DEF PrefixSums
<1>2. ASSUME NEW k \in 0 .. n - 1, k \in T PROVE k + 1 \in T
  <2>1. k + 1 \in 1 .. n /\ k + 1 - 1 = k
    OBVIOUS
  <2>2. f[k + 1] = f[k] + s[k + 1]
    BY <2>1 DEF PrefixSums
  <2> QED
    BY <1>2, <2>1, <2>2
<1>3. 0 .. n \subseteq T
  <2> HIDE DEF T
  <2> QED
    BY <1>1, <1>2, UpTo
<1> QED
  BY <1>3

-----------------------------------------------------------------------------
(* A sequence of integers adds up to what any function with the sums of its *)
(* prefixes has for the last.                                               *)
LEMMA TotalIs ==
  ASSUME NEW s \in Seq(Int), NEW f, PrefixSums(f, s, Len(s))
  PROVE  Total(s) = f[Len(s)] /\ Total(s) \in Int
<1>1. PICK g : PrefixSums(g, s, Len(s)) /\ Total(s) = g[Len(s)]
  BY TotalHasPrefixes
<1>2. Len(s) \in Nat /\ \A k \in 1 .. Len(s) : s[k] \in Int
  OBVIOUS
<1>3. \A k \in 0 .. Len(s) : f[k] = g[k]
  BY <1>1, <1>2, PrefixesAgree
<1>4. \A v \in Int : \A k \in 1 .. Len(s) : v + s[k] \in Int
  BY <1>2
<1>5. 0 \in Int
  OBVIOUS
<1>6. \A k \in 0 .. Len(s) : g[k] \in Int
  BY <1>1, <1>2, <1>4, <1>5, PrefixesIn, Zenon
<1> QED
  BY <1>1, <1>2, <1>3, <1>6

(* Total is in every set that has 0 and is closed under adding a summand.   *)
LEMMA TotalIn ==
  ASSUME NEW s \in Seq(Int), NEW V, 0 \in V,
         \A v \in V : \A k \in 1 .. Len(s) : v + s[k] \in V
  PROVE  Total(s) \in V
<1>1. PICK f : PrefixSums(f, s, Len(s)) /\ Total(s) = f[Len(s)]
  BY TotalHasPrefixes
<1>2. Len(s) \in Nat
  OBVIOUS
<1>3. \A k \in 0 .. Len(s) : f[k] \in V
  BY <1>1, <1>2, PrefixesIn
<1> QED
  BY <1>1, <1>2, <1>3

LEMMA TotalInt ==
  ASSUME NEW s \in Seq(Int)
  PROVE  Total(s) \in Int
<1>1. PICK f : PrefixSums(f, s, Len(s)) /\ Total(s) = f[Len(s)]
  BY TotalHasPrefixes
<1> QED
  BY <1>1, TotalIs

LEMMA TotalNat ==
  ASSUME NEW s \in Seq(Nat)
  PROVE  Total(s) \in Nat
<1>1. s \in Seq(Int) /\ \A k \in 1 .. Len(s) : s[k] \in Nat
  OBVIOUS
<1>2. \A v \in Nat : \A k \in 1 .. Len(s) : v + s[k] \in Nat
  BY <1>1
<1> QED
  BY <1>1, <1>2, TotalIn

LEMMA TotalEmpty == Total(<<>>) = 0
<1>1. <<>> \in Seq(Int) /\ Len(<<>>) = 0
  OBVIOUS
<1>2. PICK f : PrefixSums(f, <<>>, Len(<<>>)) /\ Total(<<>>) = f[Len(<<>>)]
  BY <1>1, TotalHasPrefixes
<1> QED
  BY <1>1, <1>2 DEF PrefixSums

(* The sum of two sequences one after the other.                            *)
LEMMA TotalConcat ==
  ASSUME NEW s \in Seq(Int), NEW t \in Seq(Int)
  PROVE  Total(s \o t) = Total(s) + Total(t)
<1> DEFINE m == Len(s)
           n == Len(t)
           u == s \o t
<1>1. m \in Nat /\ n \in Nat /\ u \in Seq(Int) /\ Len(u) = m + n
  OBVIOUS
<1>2. /\ \A k \in 1 .. m : u[k] = s[k]
      /\ \A k \in 1 .. n : u[m + k] = t[k]
  OBVIOUS
<1>3. PICK f : PrefixSums(f, s, m) /\ Total(s) = f[m]
  BY TotalHasPrefixes
<1>4. PICK g : PrefixSums(g, t, n) /\ Total(t) = g[n]
  BY TotalHasPrefixes
<1>5. Total(s) \in Int
  BY TotalInt
<1> HIDE DEF m, n, u
<1> DEFINE h == [k \in 0 .. m + n |-> IF k <= m THEN f[k] ELSE f[m] + g[k - m]]
<1>6. h[0] = 0
  BY <1>1, <1>3 DEF PrefixSums
<1>7. ASSUME NEW k \in 1 .. m + n PROVE h[k] = h[k - 1] + u[k]
  <2>1. k \in 0 .. m + n /\ k - 1 \in 0 .. m + n
    BY <1>1
  <2>2. CASE k <= m
    <3>1. k \in 1 .. m /\ k - 1 <= m
      BY <1>1, <2>2
    <3>2. f[k] = f[k - 1] + s[k] /\ u[k] = s[k]
      BY <1>2, <1>3, <3>1 DEF PrefixSums
    <3> QED
      BY <2>1, <2>2, <3>1, <3>2
  <2>3. CASE k > m
    <3>1. k - m \in 1 .. n /\ m + (k - m) = k
      BY <1>1, <2>3
    <3>2. g[k - m] = g[k - m - 1] + t[k - m] /\ u[k] = t[k - m]
      BY <1>2, <1>4, <3>1 DEF PrefixSums
    <3>3. h[k] = f[m] + g[k - m]
      BY <1>1, <2>1, <2>3
    <3>4. h[k - 1] = f[m] + g[k - m - 1]
      <4>1. CASE k - 1 = m
        <5>1. h[k - 1] = f[m] /\ k - m - 1 = 0
          BY <1>1, <2>1, <4>1
        <5>2. g[k - m - 1] = 0
          BY <1>4, <5>1 DEF PrefixSums
        <5> QED
          BY <1>3, <1>5, <5>1, <5>2
      <4>2. CASE k - 1 > m
        BY <1>1, <2>1, <4>2
      <4> QED
        BY <1>1, <2>3, <4>1, <4>2
    <3>5. g[k - m - 1] \in Int /\ t[k - m] \in Int
      <4>1. \A i \in 1 .. n : t[i] \in Int
        BY DEF n
      <4>2. \A v \in Int : \A i \in 1 .. n : v + t[i] \in Int
        BY <4>1
      <4>3. 0 \in Int
        OBVIOUS
      <4>4. \A i \in 0 .. n : g[i] \in Int
        BY <1>1, <1>4, <4>2, <4>3, PrefixesIn, Zenon
      <4>5. k - m - 1 \in 0 .. n
        BY <1>1, <3>1
      <4> QED
        BY <3>1, <4>1, <4>4, <4>5
    <3> HIDE DEF h
    <3> QED
      BY <1>3, <1>5, <3>2, <3>3, <3>4, <3>5
  <2> QED
    BY <1>1, <2>2, <2>3
<1>8. h[m + n] = Total(s) + Total(t)
  <2>1. CASE n = 0
    <3>1. h[m + n] = f[m] /\ g[n] = 0
      BY <1>1, <1>4, <2>1 DEF PrefixSums
    <3> QED
      BY <1>3, <1>4, <1>5, <3>1
  <2>2. CASE n # 0
    BY <1>1, <1>3, <1>4, <2>2
  <2> QED
    BY <2>1, <2>2
<1>9. PrefixSums(h, u, Len(u))
  <2> HIDE DEF h
  <2> QED
    BY <1>1, <1>6, <1>7 DEF PrefixSums
<1>10. Total(u) = h[Len(u)]
  <2> HIDE DEF h
  <2> QED
    BY <1>1, <1>9, TotalIs
<1> QED
  <2> HIDE DEF h
  <2>1. Total(u) = Total(s) + Total(t)
    BY <1>1, <1>8, <1>10
  <2> QED
    BY <2>1 DEF u

LEMMA TotalAppend ==
  ASSUME NEW s \in Seq(Int), NEW x \in Int
  PROVE  Total(Append(s, x)) = Total(s) + x
<1>1. Append(s, x) = s \o <<x>> /\ <<x>> \in Seq(Int) /\ Len(<<x>>) = 1
  OBVIOUS
<1>2. PICK f : PrefixSums(f, <<x>>, Len(<<x>>)) /\ Total(<<x>>) = f[Len(<<x>>)]
  BY <1>1, TotalHasPrefixes
<1>3. f[0] = 0 /\ f[1] = f[0] + x
  BY <1>1, <1>2 DEF PrefixSums
<1>4. Total(<<x>>) = x
  BY <1>1, <1>2, <1>3
<1> QED
  BY <1>1, <1>4, TotalConcat

(* The sum of the first k numbers, from that of one fewer.                  *)
LEMMA TotalOfFirst ==
  ASSUME NEW s \in Seq(Int)
  PROVE  /\ Total(SubSeq(s, 1, 0)) = 0
         /\ Total(SubSeq(s, 1, Len(s))) = Total(s)
         /\ \A k \in 1 .. Len(s) :
              Total(SubSeq(s, 1, k)) = Total(SubSeq(s, 1, k - 1)) + s[k]
<1>1. SubSeq(s, 1, 0) = <<>> /\ SubSeq(s, 1, Len(s)) = s
  OBVIOUS
<1>2. ASSUME NEW k \in 1 .. Len(s)
      PROVE  Total(SubSeq(s, 1, k)) = Total(SubSeq(s, 1, k - 1)) + s[k]
  <2>1. SubSeq(s, 1, k - 1) \in Seq(Int) /\ s[k] \in Int
    OBVIOUS
  <2>2. SubSeq(s, 1, k) = Append(SubSeq(s, 1, k - 1), s[k])
    OBVIOUS
  <2> QED
    BY <2>1, <2>2, TotalAppend
<1> QED
  BY <1>1, <1>2, TotalEmpty

-----------------------------------------------------------------------------
(* A loop that keeps to X from one turn to the next keeps to it.            *)
LEMMA LoopKeeps ==
  ASSUME NEW n \in Nat, NEW X, NEW f, f[0] \in X,
         \A k \in 1 .. n : f[k - 1] \in X => f[k] \in X
  PROVE  \A k \in 0 .. n : f[k] \in X
<1> DEFINE T == {k \in 0 .. n : f[k] \in X}
<1>1. 0 \in T
  OBVIOUS
<1>2. ASSUME NEW k \in 0 .. n - 1, k \in T PROVE k + 1 \in T
  <2>1. k + 1 \in 1 .. n /\ k + 1 - 1 = k
    OBVIOUS
  <2> QED
    BY <1>2, <2>1
<1>3. 0 .. n \subseteq T
  <2> HIDE DEF T
  <2> QED
    BY <1>1, <1>2, UpTo
<1> QED
  BY <1>3
=============================================================================
