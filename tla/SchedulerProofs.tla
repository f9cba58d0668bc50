--------------------------- MODULE SchedulerProofs ---------------------------
(***************************************************************************)
(* Proofs about Scheduler for every set of names and every bound on the    *)
(* dependency lists.  The inductive invariant says what the counters mean: *)
(* in_degree[n] is the number of entries of n's list that are not visited, *)
(* so the wave with the rest of its queue is the set of ready stages and   *)
(* next_queue is the set of stages the current wave makes ready.           *)
(***************************************************************************)
EXTENDS Scheduler, FoldTheorems, FiniteSetTheorems, SequenceTheorems, TLAPS

NoDup(s) == \A i, j \in DOMAIN s : s[i] = s[j] => i = j

DepsOf(n) == Elems(depends_on[n]) \cap Registered

ReadyNow == {n \in Registered \ Placed : DepsOf(n) \subseteq Placed}

ReadyNext ==
  {n \in Registered \ Placed : /\ DepsOf(n) \subseteq Visited
                               /\ ~ (DepsOf(n) \subseteq Placed)}

PendingEntries(n) ==
  {k \in RegisteredEntries(n) : depends_on[n][k] \notin Visited}

DictInv == Elems(stage_names) = Registered /\ NoDup(stage_names)

StartInv ==
  pc = "register" => /\ queue = <<>> /\ wave = <<>> /\ next_queue = <<>>
                     /\ waves = <<>> /\ unscheduled = {}

CountInv ==
  pc = "visit" =>
    \A n \in Registered : in_degree[n] = Cardinality(PendingEntries(n))

ReadyInv ==
  pc = "visit" => /\ Elems(wave) \cup Elems(queue) = ReadyNow
                  /\ Elems(next_queue) = ReadyNext

ListInv ==
  /\ NoDup(wave) /\ NoDup(queue) /\ NoDup(next_queue)
  /\ Elems(wave) \cap Elems(queue) = {}

DoneInv ==
  pc = "done" => /\ queue = <<>> /\ wave = <<>> /\ next_queue = <<>>
                 /\ unscheduled = Registered \ Placed
                 /\ ReadyNow = {}

NoRepeatInv ==
  \A i, j \in DOMAIN waves :
    \A k \in DOMAIN waves[i], l \in DOMAIN waves[j] :
      waves[i][k] = waves[j][l] => i = j /\ k = l

LastWaveInv ==
  pc = "visit" /\ waves # <<>> =>
    \A n \in ReadyNow :
      Elems(depends_on[n]) \cap Elems(waves[Len(waves)]) # {}

IInv ==
  /\ TypeOK
  /\ DictInv
  /\ StartInv
  /\ CountInv
  /\ ReadyInv
  /\ ListInv
  /\ DoneInv
  /\ NoRepeatInv
  /\ LastWaveInv
  /\ DependenciesInEarlierWaves
  /\ NoWaveTooLate

-----------------------------------------------------------------------------
(* The elements of sequences the loop builds.                               *)

LEMMA ElemsAppend ==
  ASSUME NEW T, NEW s \in Seq(T), NEW x \in T
  PROVE  /\ Elems(Append(s, x)) = Elems(s) \cup {x}
         /\ NoDup(s) /\ x \notin Elems(s) => NoDup(Append(s, x))
<1>1. PICK n \in Nat : n = Len(s) /\ DOMAIN s = 1 .. n
  BY LenProperties
<1>2. PICK a : a = Append(s, x)
  OBVIOUS
<1>3. /\ DOMAIN a = 1 .. n + 1
      /\ \A i \in 1 .. n : a[i] = s[i]
      /\ a[n + 1] = x
  BY <1>1, <1>2, AppendProperties, LenProperties
<1>4. \A i \in DOMAIN a : i \in DOMAIN s \/ i = n + 1
  BY <1>1, <1>3
<1>5. n + 1 \in DOMAIN a /\ \A i \in DOMAIN s : i \in DOMAIN a /\ i # n + 1
  BY <1>1, <1>3
<1>6. Elems(a) = Elems(s) \cup {x}
  <2>1. Elems(a) \subseteq Elems(s) \cup {x}
    BY <1>1, <1>3, <1>4 DEF Elems
  <2>2. Elems(s) \cup {x} \subseteq Elems(a)
    BY <1>1, <1>3, <1>5 DEF Elems
  <2>. QED  BY <2>1, <2>2
<1>7. ASSUME NoDup(s), x \notin Elems(s)
      PROVE  NoDup(a)
  <2> SUFFICES ASSUME NEW i \in DOMAIN a, NEW j \in DOMAIN a, a[i] = a[j]
               PROVE  i = j
    BY DEF NoDup
  <2>1. \A k \in DOMAIN s : a[k] = s[k] /\ a[k] # x
    BY <1>1, <1>3, <1>7 DEF Elems
  <2>. QED  BY <1>3, <1>4, <1>7, <2>1 DEF NoDup
<1>. QED  BY <1>2, <1>6, <1>7

LEMMA ElemsConcat ==
  ASSUME NEW T, NEW s \in Seq(T), NEW t \in Seq(T)
  PROVE  /\ Elems(s \o t) = Elems(s) \cup Elems(t)
         /\ NoDup(s) /\ NoDup(t) /\ Elems(s) \cap Elems(t) = {}
              => NoDup(s \o t)
<1>1. PICK m \in Nat, n \in Nat : /\ m = Len(s) /\ DOMAIN s = 1 .. m
                                  /\ n = Len(t) /\ DOMAIN t = 1 .. n
  BY LenProperties
<1>2. PICK c : c = s \o t
  OBVIOUS
<1>3. /\ DOMAIN c = 1 .. m + n
      /\ \A i \in 1 .. m + n : c[i] = IF i <= m THEN s[i] ELSE t[i - m]
  BY <1>1, <1>2, ConcatProperties, LenProperties
<1>4. \A i \in DOMAIN s : i \in DOMAIN c /\ c[i] = s[i]
  BY <1>1, <1>3
<1>5. \A i \in DOMAIN t : m + i \in DOMAIN c /\ c[m + i] = t[i]
  <2>1. \A i \in 1 .. n : /\ m + i \in 1 .. m + n
                          /\ ~ (m + i <= m)
                          /\ (m + i) - m = i
    OBVIOUS
  <2>. QED  BY <1>1, <1>3, <2>1
<1>6. \A i \in DOMAIN c : \/ i \in DOMAIN s /\ c[i] = s[i]
                          \/ i - m \in DOMAIN t /\ c[i] = t[i - m]
  BY <1>1, <1>3
<1>7. Elems(c) = Elems(s) \cup Elems(t)
  <2>1. Elems(c) \subseteq Elems(s) \cup Elems(t)
    BY <1>6 DEF Elems
  <2>2. Elems(s) \cup Elems(t) \subseteq Elems(c)
    BY <1>4, <1>5 DEF Elems
  <2>. QED  BY <2>1, <2>2
<1>8. ASSUME NoDup(s), NoDup(t), Elems(s) \cap Elems(t) = {}
      PROVE  NoDup(c)
  <2> SUFFICES ASSUME NEW i \in DOMAIN c, NEW j \in DOMAIN c, c[i] = c[j]
               PROVE  i = j
    BY DEF NoDup
  <2>1. \A k \in DOMAIN s, l \in DOMAIN t : s[k] # t[l]
    BY <1>8 DEF Elems
  <2>2. i \in Nat /\ j \in Nat /\ (i - m = j - m => i = j)
    BY <1>3
  <2>. QED  BY <1>6, <1>8, <2>1, <2>2 DEF NoDup
<1>. QED  BY <1>2, <1>7, <1>8

LEMMA ElemsHeadTail ==
  ASSUME NEW T, NEW s \in Seq(T), s # <<>>
  PROVE  /\ Elems(s) = {Head(s)} \cup Elems(Tail(s))
         /\ NoDup(s) => NoDup(Tail(s)) /\ Head(s) \notin Elems(Tail(s))
<1>1. PICK n \in Nat : n # 0 /\ DOMAIN s = 1 .. n
  BY LenProperties, EmptySeq
<1>2. PICK t : t = Tail(s)
  OBVIOUS
<1>3. /\ DOMAIN t = 1 .. n - 1
      /\ \A i \in 1 .. n - 1 : t[i] = s[i + 1]
      /\ Head(s) = s[1]
  BY <1>1, <1>2, HeadTailProperties, LenProperties
<1>4. /\ 1 \in DOMAIN s
      /\ \A i \in DOMAIN t : /\ i \in Nat /\ i + 1 \in DOMAIN s
                             /\ i + 1 # 1 /\ t[i] = s[i + 1]
  BY <1>1, <1>3
<1>5. \A i \in DOMAIN s : i # 1 => i - 1 \in DOMAIN t /\ s[i] = t[i - 1]
  BY <1>1, <1>3
<1>6. Elems(s) = {Head(s)} \cup Elems(t)
  <2>1. Elems(s) \subseteq {Head(s)} \cup Elems(t)
    BY <1>3, <1>5 DEF Elems
  <2>2. {Head(s)} \cup Elems(t) \subseteq Elems(s)
    BY <1>3, <1>4 DEF Elems
  <2>. QED  BY <2>1, <2>2
<1>7. ASSUME NoDup(s)
      PROVE  NoDup(t) /\ Head(s) \notin Elems(t)
  <2>1. ASSUME NEW i \in DOMAIN t, NEW j \in DOMAIN t, t[i] = t[j]
        PROVE  i = j
    <3>1. i + 1 = j + 1
      BY <1>4, <1>7, <2>1 DEF NoDup
    <3>. QED  BY <1>4, <3>1
  <2>2. \A i \in DOMAIN t : t[i] # s[1]
    BY <1>4, <1>7 DEF NoDup
  <2>. QED  BY <1>3, <2>1, <2>2 DEF NoDup, Elems
<1>. QED  BY <1>2, <1>6, <1>7

LEMMA NoElems ==
  ASSUME NEW T, NEW s \in Seq(T), Elems(s) = {}
  PROVE  s = <<>>
BY ElemsHeadTail, Zenon

LEMMA ElemsEmpty == Elems(<<>>) = {} /\ NoDup(<<>>)
BY DEF Elems, NoDup

(* A listing of S in dict order is a list of S without repetition. *)
LEMMA InDictOrderFacts ==
  ASSUME TypeOK, DictInv, NEW S \in SUBSET Registered,
         NEW s \in InDictOrder(S)
  PROVE  s \in Seq(Registered) /\ Elems(s) = S /\ NoDup(s)
<1>1. IsFiniteSet(S)
  <2>1. Registered \in SUBSET Names
    BY DEF TypeOK
  <2>2. S \in SUBSET Names
    BY <2>1
  <2>. QED  BY <2>2, NamesAssumption, FS_Subset
<1>2. Cardinality(S) \in Nat
  BY <1>1, FS_CardinalityType
<1>3. s \in [1 .. Cardinality(S) -> S] /\ Elems(s) = S
  BY DEF InDictOrder
<1>4. s \in Seq(Registered)
  BY <1>2, <1>3
<1>5. \A i, j \in DOMAIN s : i < j => s[i] # s[j]
  <2>1. \A m : ~ Before(m, m)
    BY DEF Before, DictInv, NoDup, TypeOK
  <2>. QED  BY <2>1 DEF InDictOrder
<1>6. \A i, j \in DOMAIN s : i \in Nat /\ j \in Nat
  BY <1>2, <1>3
<1>. QED  BY <1>3, <1>4, <1>5, <1>6 DEF NoDup

-----------------------------------------------------------------------------
(* Counting entries.                                                        *)

LEMMA EntriesFinite ==
  ASSUME TypeOK, NEW n \in Registered
  PROVE  /\ IsFiniteSet(RegisteredEntries(n))
         /\ IsFiniteSet(PendingEntries(n))
         /\ Degree(n) \in Nat
<1>1. PICK len \in Nat : DOMAIN depends_on[n] = 1 .. len
  BY LenProperties DEF TypeOK
<1>2. IsFiniteSet(DOMAIN depends_on[n])
  BY <1>1, FS_Interval
<1>3. /\ RegisteredEntries(n) \in SUBSET DOMAIN depends_on[n]
      /\ PendingEntries(n) \in SUBSET DOMAIN depends_on[n]
  BY DEF RegisteredEntries, PendingEntries
<1>4. IsFiniteSet(RegisteredEntries(n)) /\ IsFiniteSet(PendingEntries(n))
  BY <1>2, <1>3, FS_Subset
<1>. QED  BY <1>4, FS_CardinalityType DEF Degree

(* No entry is left to visit iff every dependency has been visited. *)
LEMMA NothingPending ==
  ASSUME NEW n \in Registered
  PROVE  /\ PendingEntries(n) = {} <=> DepsOf(n) \subseteq Visited
         /\ RegisteredEntries(n) = {} <=> DepsOf(n) = {}
BY DEF PendingEntries, RegisteredEntries, DepsOf, Elems

(* The dependencies of a placed stage are placed. *)
LEMMA PlacedClosed ==
  ASSUME DependenciesInEarlierWaves, TypeOK, NEW n \in Placed
  PROVE  DepsOf(n) \subseteq Placed
<1>1. PICK i \in DOMAIN waves : n \in Elems(waves[i])
  BY DEF Placed
<1>2. \A j \in 1 .. i - 1 : j \in DOMAIN waves
  BY <1>1, LenProperties DEF TypeOK
<1>. QED  BY <1>1, <1>2 DEF DependenciesInEarlierWaves, Placed, DepsOf

-----------------------------------------------------------------------------
(* The invariant is inductive: one lemma per action.                        *)

LEMMA InitIInv == Init => IInv
<1> SUFFICES ASSUME Init PROVE IInv
  OBVIOUS
<1>1. TypeOK
  BY DEF Init, TypeOK, Registered
<1>2. DictInv /\ ListInv
  BY ElemsEmpty DEF Init, DictInv, ListInv, Registered
<1>3. DependenciesInEarlierWaves /\ NoWaveTooLate /\ NoRepeatInv
  BY DEF Init, DependenciesInEarlierWaves, NoWaveTooLate, NoRepeatInv
<1>. QED  BY <1>1, <1>2, <1>3 DEF Init, IInv, StartInv, CountInv, ReadyInv,
             DoneInv, LastWaveInv

LEMMA RegisterStep ==
  ASSUME IInv, NEW n \in Names, NEW deps \in DepLists, Register(n, deps)
  PROVE  IInv'
<1>1. /\ pc = "register" /\ pc' = "register"
      /\ queue' = <<>> /\ wave' = <<>> /\ next_queue' = <<>>
      /\ waves' = <<>> /\ unscheduled' = {}
  BY DEF Register, IInv, StartInv
<1>2. Registered' = Registered \cup {n}
  BY DEF Register, Registered
<1>3. /\ TypeOK'
      /\ DictInv'
  <2>1. deps \in Seq(Names)
    BY DEF DepLists
  <2>2. \A m \in Registered' : depends_on'[m] \in Seq(Names)
    BY <1>2, <2>1 DEF Register, IInv, TypeOK, Registered
  <2>3. stage_names \in Seq(Registered')
    BY <1>2, SeqMonotonic DEF IInv, TypeOK
  <2>4. CASE n \in Registered
    BY <1>1, <1>2, <2>2, <2>3, <2>4 DEF Register, IInv, TypeOK, DictInv
  <2>5. CASE n \notin Registered
    <3>1. /\ stage_names' = Append(stage_names, n)
          /\ n \notin Elems(stage_names)
          /\ n \in Registered'
      BY <1>2, <2>5 DEF Register, IInv, DictInv
    <3>2. stage_names' \in Seq(Registered')
      BY <2>3, <3>1
    <3>3. Elems(stage_names)' = Registered' /\ NoDup(stage_names)'
      <4>1. Elems(stage_names') = Elems(stage_names) \cup {n} /\ NoDup(stage_names')
        BY <2>3, <3>1, ElemsAppend DEF IInv, DictInv
      <4>. QED  BY <1>2, <4>1 DEF IInv, DictInv, Elems, NoDup
    <3>. QED  BY <1>1, <1>2, <2>2, <3>2, <3>3 DEF IInv, TypeOK, DictInv
  <2>. QED  BY <2>4, <2>5
<1>4. ListInv'
  BY <1>1, ElemsEmpty DEF ListInv, Elems, NoDup
<1>5. (DependenciesInEarlierWaves /\ NoWaveTooLate /\ NoRepeatInv)'
  BY <1>1 DEF DependenciesInEarlierWaves, NoWaveTooLate, NoRepeatInv
<1>. QED  BY <1>1, <1>3, <1>4, <1>5 DEF IInv, StartInv, CountInv, ReadyInv,
             DoneInv, LastWaveInv

LEMMA BuildGraphStep ==
  ASSUME IInv, BuildGraph
  PROVE  IInv'
<1>1. /\ pc = "register" /\ pc' = "visit"
      /\ wave = <<>> /\ next_queue = <<>> /\ waves = <<>> /\ unscheduled = {}
      /\ UNCHANGED <<stage_names, depends_on, wave, next_queue, waves,
                     unscheduled>>
  BY DEF BuildGraph, IInv, StartInv
<1>2. TypeOK /\ DictInv
  BY DEF IInv
<1>3. /\ Registered' = Registered
      /\ Placed = {} /\ Placed' = {} /\ Visited = {} /\ Visited' = {}
      /\ \A n \in Registered : /\ DepsOf(n)' = DepsOf(n)
                               /\ PendingEntries(n)' = RegisteredEntries(n)
  BY <1>1, ElemsEmpty DEF Registered, Placed, Visited, DepsOf, PendingEntries,
     RegisteredEntries, Elems
<1>4. PICK s \in InDictOrder({n \in Registered : Degree(n) = 0}) : queue' = s
  BY DEF BuildGraph
<1>5. /\ queue' \in Seq(Registered)
      /\ Elems(queue') = {n \in Registered : Degree(n) = 0}
      /\ NoDup(queue')
  BY <1>2, <1>4, InDictOrderFacts
<1>6. \A n \in Registered : Degree(n) = 0 <=> DepsOf(n) = {}
  BY <1>2, EntriesFinite, NothingPending, FS_EmptySet DEF Degree
<1>7. TypeOK'
  BY <1>1, <1>2, <1>3, <1>5, EntriesFinite DEF TypeOK, BuildGraph
<1>8. CountInv'
  BY <1>3 DEF CountInv, BuildGraph, Degree
<1>9. ReadyInv'
  <2>1. Elems(wave)' = {} /\ Elems(next_queue)' = {} /\ Elems(queue)' = Elems(queue')
    BY <1>1, ElemsEmpty DEF Elems
  <2>2. ReadyNow' = {n \in Registered : DepsOf(n) = {}}
    BY <1>3 DEF ReadyNow
  <2>3. ReadyNext' = {}
    BY <1>3 DEF ReadyNext
  <2>. QED  BY <1>5, <1>6, <2>1, <2>2, <2>3 DEF ReadyInv
<1>10. ListInv'
  BY <1>1, <1>5, ElemsEmpty DEF ListInv, NoDup, Elems
<1>11. DictInv'
  BY <1>1, <1>2, <1>3 DEF DictInv, Elems, NoDup
<1>12. (DependenciesInEarlierWaves /\ NoWaveTooLate /\ NoRepeatInv)'
  BY <1>1 DEF DependenciesInEarlierWaves, NoWaveTooLate, NoRepeatInv
<1>. QED  BY <1>1, <1>7, <1>8, <1>9, <1>10, <1>11, <1>12
             DEF IInv, StartInv, DoneInv, LastWaveInv

(* Visiting v removes exactly v's entries from what is pending. *)
LEMMA VisitCounts ==
  ASSUME TypeOK, CountInv, pc = "visit",
         NEW v \in Registered \ Visited, NEW n \in Registered,
         NEW P, P = PendingEntries(n) \ Entries(n, v)
  PROVE  /\ Remaining(n, v) = Cardinality(P)
         /\ Remaining(n, v) \in Nat
         /\ P = {} <=> DepsOf(n) \subseteq Visited \cup {v}
<1>1. IsFiniteSet(PendingEntries(n))
  BY EntriesFinite
<1>2. PendingEntries(n) \cap Entries(n, v) = Entries(n, v)
  BY DEF PendingEntries, Entries, RegisteredEntries
<1>3. /\ IsFiniteSet(P)
      /\ Cardinality(P) = Cardinality(PendingEntries(n))
                            - Cardinality(Entries(n, v))
  BY <1>1, <1>2, FS_Difference
<1>4. Cardinality(P) \in Nat
  BY <1>3, FS_CardinalityType
<1>5. Remaining(n, v) = Cardinality(P)
  BY <1>3 DEF Remaining, CountInv
<1>6. P = {k \in RegisteredEntries(n) : depends_on[n][k] \notin Visited \cup {v}}
  BY DEF PendingEntries, Entries, RegisteredEntries
<1>7. P = {} <=> DepsOf(n) \subseteq Visited \cup {v}
  BY <1>6 DEF RegisteredEntries, DepsOf, Elems
<1>. QED  BY <1>4, <1>5, <1>7

LEMMA VisitStep ==
  ASSUME IInv, Visit
  PROVE  IInv'
<1> DEFINE v == Head(queue)
<1>1. /\ pc = "visit" /\ pc' = "visit" /\ queue # <<>>
      /\ wave' = Append(wave, v) /\ queue' = Tail(queue)
      /\ UNCHANGED <<pc, stage_names, depends_on, waves, unscheduled>>
  BY DEF Visit
<1>2. TypeOK /\ DictInv /\ CountInv /\ ReadyInv /\ ListInv
  BY DEF IInv
<1>3. /\ v \in Registered
      /\ Elems(queue) = {v} \cup Elems(queue')
      /\ NoDup(queue') /\ v \notin Elems(queue')
      /\ queue' \in Seq(Registered)
  BY <1>1, <1>2, ElemsHeadTail DEF TypeOK, ListInv
<1>4. /\ wave' \in Seq(Registered)
      /\ Elems(wave') = Elems(wave) \cup {v}
      /\ NoDup(wave')
  <2>1. v \notin Elems(wave)
    BY <1>2, <1>3 DEF ListInv
  <2>. QED  BY <1>1, <1>2, <1>3, <2>1, ElemsAppend DEF TypeOK, ListInv
<1> HIDE DEF v
<1>5. /\ Registered' = Registered /\ Placed' = Placed
      /\ Visited' = Visited \cup {v}
      /\ \A n \in Registered : DepsOf(n)' = DepsOf(n)
  BY <1>1, <1>4 DEF Registered, Placed, Visited, DepsOf, Elems
<1>6. v \notin Visited
  BY <1>1, <1>2, <1>3 DEF Visited, ReadyInv, ReadyNow, ListInv
<1>7. \A n \in Registered :
        /\ Remaining(n, v) \in Nat
        /\ in_degree'[n] = Cardinality(PendingEntries(n)')
        /\ in_degree'[n] = Remaining(n, v)
        /\ Remaining(n, v) = 0 <=> DepsOf(n) \subseteq Visited \cup {v}
  <2> SUFFICES ASSUME NEW n \in Registered
               PROVE  /\ Remaining(n, v) \in Nat
                      /\ in_degree'[n] = Cardinality(PendingEntries(n)')
                      /\ in_degree'[n] = Remaining(n, v)
                      /\ Remaining(n, v) = 0
                           <=> DepsOf(n) \subseteq Visited \cup {v}
    OBVIOUS
  <2>1. PICK P : P = PendingEntries(n) \ Entries(n, v)
    OBVIOUS
  <2>2. /\ Remaining(n, v) = Cardinality(P) /\ Remaining(n, v) \in Nat
        /\ P = {} <=> DepsOf(n) \subseteq Visited \cup {v}
    BY <1>1, <1>2, <1>3, <1>6, <2>1, VisitCounts
  <2>3. PendingEntries(n)' = P
    BY <1>1, <1>5, <2>1 DEF PendingEntries, Entries, RegisteredEntries
  <2>4. in_degree'[n] = Remaining(n, v)
    BY DEF Visit, v
  <2>5. IsFiniteSet(P)
    BY <1>2, <2>1, EntriesFinite, FS_Subset
  <2>. QED  BY <2>2, <2>3, <2>4, <2>5, FS_EmptySet
<1>8. PICK freed \in InDictOrder(Freed(v)) : next_queue' = next_queue \o freed
  BY DEF Visit, v
<1>9. /\ freed \in Seq(Registered) /\ Elems(freed) = Freed(v) /\ NoDup(freed)
  BY <1>2, <1>8, InDictOrderFacts DEF Freed
<1>10. /\ Freed(v) = {n \in Registered : /\ v \in DepsOf(n)
                                         /\ DepsOf(n) \subseteq Visited \cup {v}}
       /\ Freed(v) \cap Elems(next_queue) = {}
  <2>1. \A n \in Registered : Entries(n, v) # {} <=> v \in DepsOf(n)
    BY <1>3 DEF Entries, DepsOf, Elems
  <2>2. Freed(v) = {n \in Registered : /\ v \in DepsOf(n)
                                       /\ DepsOf(n) \subseteq Visited \cup {v}}
    BY <1>7, <2>1 DEF Freed
  <2>. QED  BY <1>1, <1>2, <1>6, <2>2 DEF ReadyInv, ReadyNext
<1>11. /\ next_queue' \in Seq(Registered)
       /\ Elems(next_queue') = Elems(next_queue) \cup Freed(v)
       /\ NoDup(next_queue')
  BY <1>2, <1>8, <1>9, <1>10, ElemsConcat, ConcatProperties DEF TypeOK, ListInv
<1>12. TypeOK'
  BY <1>1, <1>2, <1>3, <1>4, <1>5, <1>7, <1>11 DEF TypeOK, Visit
<1>13. ReadyInv'
  <2>1. ReadyNow' = ReadyNow
    BY <1>5 DEF ReadyNow
  <2>2. Elems(wave') \cup Elems(queue') = ReadyNow
    BY <1>1, <1>2, <1>3, <1>4 DEF ReadyInv
  <2>3. ReadyNext' = {n \in Registered \ Placed :
                        /\ DepsOf(n) \subseteq Visited \cup {v}
                        /\ ~ (DepsOf(n) \subseteq Placed)}
    BY <1>5 DEF ReadyNext
  <2>4. Freed(v) \subseteq ReadyNext'
    <3>1. v \notin Placed
      BY <1>6 DEF Visited
    <3>2. \A n \in Placed : DepsOf(n) \subseteq Placed
      BY PlacedClosed DEF IInv
    <3>. QED  BY <1>10, <2>3, <3>1, <3>2
  <2>5. Elems(next_queue') = ReadyNext'
    BY <1>1, <1>2, <1>10, <1>11, <2>3, <2>4 DEF ReadyInv, ReadyNext
  <2>. QED  BY <2>1, <2>2, <2>5 DEF ReadyInv, Elems
<1>14. ListInv'
  <2>1. NoDup(wave') /\ NoDup(queue') /\ NoDup(next_queue')
    BY <1>3, <1>4, <1>11
  <2>2. Elems(wave') \cap Elems(queue') = {}
    BY <1>2, <1>3, <1>4 DEF ListInv
  <2>. QED  BY <2>1, <2>2 DEF ListInv, NoDup, Elems
<1>15. DictInv'
  BY <1>1, <1>2, <1>5 DEF DictInv, Elems, NoDup
<1>16. CountInv'
  BY <1>5, <1>7 DEF CountInv
<1>17. UNCHANGED <<waves, depends_on>> /\ Registered' = Registered
  BY <1>1, <1>5
<1>18. DependenciesInEarlierWaves'
  BY <1>17 DEF IInv, DependenciesInEarlierWaves, Elems
<1>19. NoWaveTooLate'
  BY <1>17 DEF IInv, NoWaveTooLate, Elems
<1>20. NoRepeatInv'
  BY <1>17 DEF IInv, NoRepeatInv
<1>21. LastWaveInv'
  <2>1. ReadyNow' = ReadyNow
    BY <1>5 DEF ReadyNow
  <2>2. LastWaveInv /\ pc = "visit"
    BY <1>1 DEF IInv
  <2>. QED  BY <1>17, <2>1, <2>2 DEF LastWaveInv, Elems
<1>. QED  BY <1>1, <1>12, <1>13, <1>14, <1>15, <1>16, <1>18, <1>19,
             <1>20, <1>21 DEF IInv, StartInv, DoneInv

LEMMA EndWaveStep ==
  ASSUME IInv, EndWave
  PROVE  /\ IInv' /\ ReadyNow # {} /\ Elems(wave) = ReadyNow
         /\ Registered' = Registered /\ Visited' = Visited
<1> DEFINE w == Len(waves) + 1
<1>1. /\ pc = "visit" /\ pc' = "visit" /\ queue = <<>> /\ wave # <<>>
      /\ waves' = Append(waves, wave) /\ queue' = next_queue
      /\ wave' = <<>> /\ next_queue' = <<>>
      /\ UNCHANGED <<stage_names, depends_on, in_degree, unscheduled>>
  BY DEF EndWave
<1>2. TypeOK /\ DictInv /\ CountInv /\ ReadyInv /\ ListInv
  BY DEF IInv
<1>3. Elems(wave) = ReadyNow /\ Visited = Placed \cup ReadyNow
  BY <1>1, <1>2, ElemsEmpty DEF ReadyInv, Visited
<1>4. ReadyNow # {}
  <2>1. wave \in Seq(Registered)
    BY <1>2 DEF TypeOK
  <2>. QED  BY <1>1, <1>3, <2>1, NoElems
<1>5. /\ waves' \in Seq(Seq(Registered)) /\ Len(waves') = w
      /\ w \in Nat /\ w > 0 /\ DOMAIN waves = 1 .. w - 1 /\ DOMAIN waves' = 1 .. w
      /\ \A i \in 1 .. w - 1 : waves'[i] = waves[i]
      /\ waves'[w] = wave
  BY <1>1, <1>2, AppendProperties, LenProperties DEF TypeOK
<1> HIDE DEF w
<1>6. \A i \in DOMAIN waves' : i \in DOMAIN waves \/ i = w
  BY <1>5
<1>7. /\ Registered' = Registered /\ Placed' = Placed \cup ReadyNow
      /\ Visited' = Visited
      /\ \A n \in Registered : DepsOf(n)' = DepsOf(n)
  <2>1. Registered' = Registered /\ \A n \in Registered : DepsOf(n)' = DepsOf(n)
    BY <1>1 DEF Registered, DepsOf, Elems
  <2>2. Placed' \subseteq Placed \cup Elems(wave)
    BY <1>5, <1>6 DEF Placed, Elems
  <2>3. Placed \cup Elems(wave) \subseteq Placed'
    <3>1. w \in DOMAIN waves' /\ \A i \in DOMAIN waves : i \in DOMAIN waves'
      BY <1>5
    <3>. QED  BY <1>5, <3>1 DEF Placed, Elems
  <2>4. Visited' = Placed'
    BY <1>1, ElemsEmpty DEF Visited, Elems
  <2>. QED  BY <1>3, <2>1, <2>2, <2>3, <2>4
<1>8. ReadyNow' = ReadyNext
  <2>1. ReadyNow' = {n \in Registered \ (Placed \cup ReadyNow) :
                       DepsOf(n) \subseteq Placed \cup ReadyNow}
    BY <1>7 DEF ReadyNow
  <2>. QED  BY <1>3, <2>1 DEF ReadyNext, ReadyNow
<1>9. TypeOK'
  BY <1>1, <1>2, <1>5, <1>7 DEF TypeOK
<1>10. ReadyInv'
  <2>1. Elems(wave)' = {} /\ Elems(next_queue)' = {}
        /\ Elems(queue)' = Elems(next_queue)
    BY <1>1, ElemsEmpty DEF Elems
  <2>2. ReadyNext' = {}
    BY <1>3, <1>7 DEF ReadyNext
  <2>. QED  BY <1>1, <1>2, <1>8, <2>1, <2>2 DEF ReadyInv
<1>11. ListInv'
  BY <1>1, <1>2, ElemsEmpty DEF ListInv, NoDup, Elems
<1>12. DictInv'
  BY <1>1, <1>2, <1>7 DEF DictInv, Elems, NoDup
<1>13. CountInv'
  BY <1>1, <1>2, <1>7 DEF CountInv, PendingEntries, RegisteredEntries
<1>14. DependenciesInEarlierWaves'
  <2> SUFFICES ASSUME NEW i \in DOMAIN waves', NEW n \in Elems(waves'[i]),
                      NEW d \in Elems(depends_on[n]) \cap Registered
               PROVE  \E j \in 1 .. i - 1 : d \in Elems(waves'[j])
    <3>1. UNCHANGED depends_on /\ Registered' = Registered
      BY <1>1, <1>7
    <3>. QED  BY <3>1 DEF DependenciesInEarlierWaves, Elems
  <2>1. CASE i \in DOMAIN waves
    <3>1. PICK j \in 1 .. i - 1 : d \in Elems(waves[j])
      BY <1>5, <2>1 DEF IInv, DependenciesInEarlierWaves
    <3>2. j \in 1 .. w - 1
      BY <1>5, <2>1
    <3>. QED  BY <1>5, <3>1, <3>2
  <2>2. CASE i = w
    <3>1. n \in Registered /\ d \in Placed
      BY <1>3, <1>5, <2>2 DEF ReadyNow, DepsOf
    <3>2. PICK j \in DOMAIN waves : d \in Elems(waves[j])
      BY <3>1 DEF Placed
    <3>. QED  BY <1>5, <2>2, <3>2
  <2>. QED  BY <1>6, <2>1, <2>2
<1>15. NoWaveTooLate'
  <2> SUFFICES ASSUME NEW i \in DOMAIN waves', i > 1, NEW n \in Elems(waves'[i])
               PROVE  Elems(depends_on[n]) \cap Elems(waves'[i - 1]) # {}
    <3>1. UNCHANGED depends_on
      BY <1>1
    <3>. QED  BY <3>1 DEF NoWaveTooLate, Elems
  <2>1. CASE i \in DOMAIN waves
    <3>1. i - 1 \in 1 .. w - 1 /\ i \in 1 .. w - 1
      BY <1>5, <2>1
    <3>. QED  BY <1>5, <2>1, <3>1 DEF IInv, NoWaveTooLate
  <2>2. CASE i = w
    <3>1. n \in ReadyNow /\ Len(waves) = w - 1 /\ w - 1 \in 1 .. w - 1
      BY <1>2, <1>3, <1>5, <2>2, LenProperties DEF TypeOK
    <3>2. waves # <<>>
      BY <1>5, <3>1
    <3>. QED  BY <1>1, <1>5, <2>2, <3>1, <3>2 DEF IInv, LastWaveInv
  <2>. QED  BY <1>6, <2>1, <2>2
<1>16. NoRepeatInv'
  <2>1. \A i \in DOMAIN waves : \A k \in DOMAIN waves[i], l \in DOMAIN wave :
          waves[i][k] # wave[l]
    BY <1>3 DEF ReadyNow, Placed, Elems
  <2>2. \A k, l \in DOMAIN wave : wave[k] = wave[l] => k = l
    BY <1>2 DEF ListInv, NoDup
  <2>3. NoRepeatInv
    BY DEF IInv
  <2>4. \A i \in DOMAIN waves : waves'[i] = waves[i]
    BY <1>5
  <2> SUFFICES ASSUME NEW i \in DOMAIN waves', NEW j \in DOMAIN waves',
                      NEW k \in DOMAIN waves'[i], NEW l \in DOMAIN waves'[j],
                      waves'[i][k] = waves'[j][l]
               PROVE  i = j /\ k = l
    BY DEF NoRepeatInv
  <2>5. CASE i \in DOMAIN waves /\ j \in DOMAIN waves
    BY <2>3, <2>4, <2>5 DEF NoRepeatInv
  <2>6. CASE i = w /\ j = w
    BY <1>5, <2>2, <2>6
  <2>7. CASE i \in DOMAIN waves /\ j = w
    BY <1>5, <2>1, <2>4, <2>7
  <2>8. CASE i = w /\ j \in DOMAIN waves
    BY <1>5, <2>1, <2>4, <2>8
  <2>. QED  BY <1>6, <2>5, <2>6, <2>7, <2>8
<1>17. LastWaveInv'
  <2> SUFFICES ASSUME NEW n \in ReadyNext
               PROVE  Elems(depends_on[n]) \cap Elems(waves'[w]) # {}
    <3>1. UNCHANGED depends_on /\ Len(waves') = w /\ ReadyNow' = ReadyNext
      BY <1>1, <1>5, <1>8
    <3>. QED  BY <3>1 DEF LastWaveInv, Elems
  <2>. QED  BY <1>3, <1>5 DEF ReadyNext, DepsOf
<1>18. IInv'
  BY <1>1, <1>9, <1>10, <1>11, <1>12, <1>13, <1>14, <1>15, <1>16, <1>17
     DEF IInv, StartInv, DoneInv
<1>. QED  BY <1>3, <1>4, <1>7, <1>18

LEMMA CheckCycleStep ==
  ASSUME IInv, CheckCycle
  PROVE  IInv' /\ ReadyNow = {}
<1>1. /\ pc = "visit" /\ pc' = "done" /\ queue = <<>> /\ wave = <<>>
      /\ unscheduled' = Registered \ Placed
      /\ UNCHANGED <<stage_names, depends_on, in_degree, queue, wave,
                     next_queue, waves>>
  BY DEF CheckCycle
<1>2. TypeOK /\ DictInv /\ ReadyInv /\ ListInv
  BY DEF IInv
<1>3. ReadyNow = {} /\ ReadyNext = {}
  BY <1>1, <1>2, ElemsEmpty DEF ReadyInv, ReadyNext, Visited
<1>4. next_queue = <<>>
  <2>1. next_queue \in Seq(Registered) /\ Elems(next_queue) = {}
    BY <1>1, <1>2, <1>3 DEF ReadyInv, TypeOK
  <2>. QED  BY <2>1, NoElems
<1>5. Registered' = Registered /\ Placed' = Placed /\ ReadyNow' = ReadyNow
  BY <1>1 DEF Registered, Placed, ReadyNow, DepsOf, Elems
<1>6. TypeOK' /\ DictInv' /\ ListInv'
  BY <1>1, <1>2, <1>5 DEF TypeOK, DictInv, ListInv, NoDup, Elems
<1>7. (DependenciesInEarlierWaves /\ NoWaveTooLate /\ NoRepeatInv)'
  <2>1. NoRepeatInv'
    BY <1>1 DEF IInv, NoRepeatInv
  <2>2. DependenciesInEarlierWaves'
    BY <1>1, <1>5 DEF IInv, DependenciesInEarlierWaves, Elems
  <2>3. NoWaveTooLate'
    BY <1>1 DEF IInv, NoWaveTooLate
  <2>. QED  BY <2>1, <2>2, <2>3
<1>. QED  BY <1>1, <1>3, <1>4, <1>5, <1>6, <1>7
             DEF IInv, StartInv, CountInv, ReadyInv, DoneInv, LastWaveInv

LEMMA StutterStep ==
  ASSUME IInv, UNCHANGED vars
  PROVE  IInv'
<1>1. /\ UNCHANGED <<pc, stage_names, depends_on, in_degree, queue, wave>>
      /\ UNCHANGED <<next_queue, waves, unscheduled>>
  BY DEF vars
<1>2. /\ Registered' = Registered /\ Placed' = Placed /\ Visited' = Visited
      /\ \A n : DepsOf(n)' = DepsOf(n)
  BY <1>1 DEF Registered, Placed, Visited, DepsOf, Elems
<1>3. ReadyNow' = ReadyNow /\ ReadyNext' = ReadyNext
  BY <1>2 DEF ReadyNow, ReadyNext
<1>4. TypeOK'
  BY <1>1, <1>2 DEF IInv, TypeOK
<1>5. DictInv' /\ ListInv'
  BY <1>1, <1>2 DEF IInv, DictInv, ListInv, Elems, NoDup
<1>6. StartInv'
  BY <1>1 DEF IInv, StartInv
<1>7. CountInv'
  BY <1>1, <1>2 DEF IInv, CountInv, PendingEntries, RegisteredEntries
<1>8. ReadyInv'
  BY <1>1, <1>3 DEF IInv, ReadyInv, Elems
<1>9. DoneInv'
  BY <1>1, <1>2, <1>3 DEF IInv, DoneInv
<1>10. NoRepeatInv'
  BY <1>1 DEF IInv, NoRepeatInv
<1>11. LastWaveInv'
  BY <1>1, <1>3 DEF IInv, LastWaveInv, Elems
<1>12. DependenciesInEarlierWaves'
  BY <1>1, <1>2 DEF IInv, DependenciesInEarlierWaves, Elems
<1>13. NoWaveTooLate'
  BY <1>1 DEF IInv, NoWaveTooLate, Elems
<1>. QED  BY <1>4, <1>5, <1>6, <1>7, <1>8, <1>9, <1>10, <1>11, <1>12, <1>13
             DEF IInv

(* The inductive invariant holds throughout. *)
THEOREM Invariance == Spec => []IInv
<1>1. IInv /\ [Next]_vars => IInv'
  BY RegisterStep, BuildGraphStep, VisitStep, EndWaveStep, CheckCycleStep,
     StutterStep DEF Next
<1>. QED  BY InitIInv, <1>1, PTL DEF Spec

(* The lists, counters and dictionaries of the scheduler keep their types;  *)
(* in particular no in_degree goes below zero.                              *)
THEOREM TypeCorrect == Spec => []TypeOK
<1>1. IInv => TypeOK
  BY DEF IInv
<1>. QED  BY Invariance, <1>1, PTL

(* For every set of stages and every dependency lists, a stage that is in a *)
(* wave has its registered dependencies in strictly earlier waves.          *)
THEOREM DependenciesRespected == Spec => []DependenciesInEarlierWaves
<1>1. IInv => DependenciesInEarlierWaves
  BY DEF IInv
<1>. QED  BY Invariance, <1>1, PTL

(* Every stage after the first wave has a dependency in the wave before.    *)
THEOREM NoNeedlessDelay == Spec => []NoWaveTooLate
<1>1. IInv => NoWaveTooLate
  BY DEF IInv
<1>. QED  BY Invariance, <1>1, PTL

LEMMA QueuesApart ==
  ASSUME IInv, pc = "visit"
  PROVE  /\ Elems(queue) \cap Visited = {}
         /\ Elems(next_queue) \cap (Visited \cup Elems(queue)) = {}
BY DEF IInv, ReadyInv, ListInv, Visited, ReadyNow, ReadyNext

(* No stage is ever handed out twice, whatever its dependents.              *)
THEOREM EachStageOnce == Spec => []NoStageTwice
<1>1. IInv => NoStageTwice
  <2> SUFFICES ASSUME IInv PROVE NoStageTwice
    OBVIOUS
  <2>1. /\ Elems(queue) \cap Visited = {}
        /\ Elems(next_queue) \cap (Visited \cup Elems(queue)) = {}
    <3>1. CASE pc = "visit"
      BY <3>1, QueuesApart
    <3>2. CASE pc # "visit"
      <4>1. queue = <<>> /\ next_queue = <<>>
        BY <3>2 DEF IInv, TypeOK, StartInv, DoneInv
      <4>. QED  BY <4>1, ElemsEmpty
    <3>. QED  BY <3>1, <3>2
  <2>2. \A s \in {queue, wave, next_queue} :
          \A i, j \in DOMAIN s : s[i] = s[j] => i = j
    BY DEF IInv, ListInv, NoDup
  <2>. QED  BY <2>1, <2>2 DEF IInv, NoRepeatInv, NoStageTwice
<1>. QED  BY Invariance, <1>1, PTL

-----------------------------------------------------------------------------
(* The cycle check.                                                         *)

(* No member of a knot is ever placed. *)
KnotInv == \A S \in SUBSET Registered : Knot(S) => S \cap Placed = {}

LEMMA PlacedGrows ==
  ASSUME IInv, EndWave
  PROVE  Placed' \subseteq Placed \cup Elems(wave)
<1>1. waves' = Append(waves, wave) /\ waves \in Seq(Seq(Registered))
      /\ wave \in Seq(Registered)
  BY DEF EndWave, IInv, TypeOK
<1>2. /\ DOMAIN waves = 1 .. Len(waves) /\ DOMAIN waves' = 1 .. Len(waves) + 1
      /\ Len(waves) \in Nat
      /\ \A i \in 1 .. Len(waves) : waves'[i] = waves[i]
      /\ waves'[Len(waves) + 1] = wave
  BY <1>1, AppendProperties, LenProperties
<1>3. \A i \in DOMAIN waves' :
        waves'[i] = wave \/ (i \in DOMAIN waves /\ waves'[i] = waves[i])
  BY <1>2
<1>. QED  BY <1>3 DEF Placed, Elems

LEMMA KnotStep ==
  ASSUME IInv, KnotInv, [Next]_vars
  PROVE  KnotInv'
<1>1. ASSUME UNCHANGED <<depends_on, waves>>
      PROVE  KnotInv'
  <2>1. Placed' = Placed /\ Registered' = Registered
    BY <1>1 DEF Placed, Registered, Elems
  <2>2. \A S : Knot(S)' = Knot(S)
    BY <1>1, <2>1 DEF Knot, Elems
  <2>. QED  BY <2>1, <2>2 DEF KnotInv
<1>2. ASSUME NEW n \in Names, NEW deps \in DepLists, Register(n, deps)
      PROVE  KnotInv'
  <2>1. Placed' = {}
    BY <1>2 DEF Register, IInv, StartInv, Placed
  <2>. QED  BY <2>1 DEF KnotInv
<1>3. ASSUME EndWave
      PROVE  KnotInv'
  <2>1. Placed' \subseteq Placed \cup ReadyNow /\ UNCHANGED depends_on
    BY <1>3, EndWaveStep, PlacedGrows DEF EndWave
  <2>2. Registered' = Registered /\ \A S : Knot(S)' = Knot(S)
    BY <2>1 DEF Registered, Knot, Elems
  <2>3. ASSUME NEW S \in SUBSET Registered, Knot(S), NEW n \in S \cap ReadyNow
        PROVE  FALSE
    <3>1. PICK d \in S : d \in Elems(depends_on[n])
      BY <2>3 DEF Knot
    <3>2. d \in Placed
      BY <2>3, <3>1 DEF ReadyNow, DepsOf
    <3>. QED  BY <2>3, <3>2 DEF KnotInv
  <2>. QED  BY <2>1, <2>2, <2>3 DEF KnotInv
<1>. QED  BY <1>1, <1>2, <1>3 DEF Next, vars, BuildGraph, Visit, CheckCycle

(* For every set of stages, the check at the end reports stages exactly     *)
(* when some of them wait for each other, and places all it does not report.*)
THEOREM CyclesReported == Spec => []CycleReportedExactly
<1>1. Init => KnotInv
  BY DEF Init, KnotInv, Placed
<1>2. IInv /\ KnotInv => CycleReportedExactly
  <2> SUFFICES ASSUME IInv, KnotInv, pc = "done"
               PROVE  /\ unscheduled # {} <=> \E S \in SUBSET Registered : Knot(S)
                      /\ Placed = Registered \ unscheduled
    BY DEF CycleReportedExactly
  <2>1. unscheduled = Registered \ Placed /\ ReadyNow = {}
    BY DEF IInv, DoneInv
  <2>2. Placed \subseteq Registered
    BY DEF IInv, TypeOK, Placed, Elems
  <2>3. ASSUME unscheduled # {}
        PROVE  Knot(unscheduled)
    BY <2>1, <2>3 DEF Knot, ReadyNow, DepsOf
  <2>4. ASSUME NEW S \in SUBSET Registered, Knot(S)
        PROVE  unscheduled # {}
    BY <2>1, <2>4 DEF Knot, KnotInv
  <2>. QED  BY <2>1, <2>2, <2>3, <2>4
<1>3. Spec => []KnotInv
  <2>1. IInv /\ KnotInv /\ [Next]_vars => KnotInv'
    BY KnotStep
  <2>. QED  BY <1>1, <2>1, Invariance, PTL DEF Spec
<1>. QED  BY <1>2, <1>3, Invariance, PTL

-----------------------------------------------------------------------------
(* The counting loop implements the abstract planner.                       *)

LEMMA LayersReady ==
  ASSUME IInv
  PROVE  /\ Plan!Declared = Registered
         /\ Plan!Planned = Placed
         /\ Plan!Ready = ReadyNow
<1>1. Plan!Declared = Registered
  BY DEF Plan!Declared
<1>2. Plan!Planned = Placed
  BY DEF Plan!Planned, Placed
<1>3. \A n \in Registered :
        [m \in Registered |-> Elems(depends_on[m])][n] = Elems(depends_on[n])
  OBVIOUS
<1>. QED  BY <1>1, <1>2, <1>3 DEF Plan!Ready, ReadyNow, DepsOf

LEMMA LayersAppended ==
  ASSUME IInv, EndWave
  PROVE  [i \in DOMAIN waves |-> Elems(waves[i])]'
           = Append([i \in DOMAIN waves |-> Elems(waves[i])], ReadyNow)
<1>1. Elems(wave) = ReadyNow
  BY EndWaveStep
<1>2. waves' = Append(waves, wave) /\ waves \in Seq(Seq(Registered))
      /\ wave \in Seq(Registered)
  BY DEF EndWave, IInv, TypeOK
<1>3. PICK n \in Nat :
        /\ DOMAIN waves = 1 .. n /\ DOMAIN waves' = 1 .. n + 1
        /\ \A i \in 1 .. n : waves'[i] = waves[i]
        /\ waves'[n + 1] = wave
  BY <1>2, AppendProperties, LenProperties
<1> DEFINE old == [i \in 1 .. n |-> Elems(waves[i])]
           new == [i \in 1 .. n + 1 |-> Elems(waves'[i])]
<1>4. old \in Seq(SUBSET Registered) /\ ReadyNow \in SUBSET Registered
      /\ Len(old) = n
  <2>1. \A i \in 1 .. n : waves[i] \in Seq(Registered)
    BY <1>2, <1>3
  <2>2. \A i \in 1 .. n : Elems(waves[i]) \in SUBSET Registered
    BY <2>1 DEF Elems
  <2>3. old \in [1 .. n -> SUBSET Registered]
    BY <2>2
  <2>4. old \in Seq(SUBSET Registered) /\ Len(old) = n
    BY <2>3
  <2>. QED  BY <2>4 DEF ReadyNow
<1>5. /\ Append(old, ReadyNow) \in Seq(SUBSET Registered)
      /\ Len(Append(old, ReadyNow)) = n + 1
      /\ \A i \in 1 .. n : Append(old, ReadyNow)[i] = old[i]
      /\ Append(old, ReadyNow)[n + 1] = ReadyNow
  BY <1>4, AppendProperties
<1>6. \A i \in 1 .. n + 1 : new[i] = Append(old, ReadyNow)[i]
  BY <1>1, <1>3, <1>5
<1>7. new = Append(old, ReadyNow)
  BY <1>5, <1>6
<1>. QED  BY <1>3, <1>7 DEF Elems

LEMMA PlanStep ==
  ASSUME IInv, [Next]_vars
  PROVE  [Plan!Next]_(Plan!vars)
<1>1. ASSUME NEW n \in Names, NEW deps \in DepLists, Register(n, deps)
      PROVE  Plan!Declare
  <2>1. /\ pc = "register" /\ pc' = "register" /\ UNCHANGED waves
        /\ depends_on' = [m \in Registered \cup {n} |->
                            IF m = n THEN deps ELSE depends_on[m]]
    BY <1>1 DEF Register
  <2>2. Elems(deps) \in SUBSET Names
    BY DEF DepLists, Elems
  <2>3. Registered' = Registered \cup {n}
    BY <2>1 DEF Registered
  <2>4. [m \in Registered |-> Elems(depends_on[m])]'
          = [m \in Registered \cup {n} |->
               IF m = n THEN Elems(deps)
               ELSE [k \in Registered |-> Elems(depends_on[k])][m]]
    BY <2>1, <2>3 DEF Elems
  <2>5. UNCHANGED [i \in DOMAIN waves |-> Elems(waves[i])]
    BY <2>1 DEF Elems
  <2>6. Plan!Declared = Registered
    BY DEF Plan!Declared
  <2>. QED  BY <2>1, <2>2, <2>4, <2>5, <2>6 DEF Plan!Declare
<1>2. ASSUME BuildGraph
      PROVE  Plan!Close
  BY <1>2 DEF BuildGraph, Plan!Close, Registered, Elems
<1>3. ASSUME Visit
      PROVE  UNCHANGED Plan!vars
  BY <1>3 DEF Visit, Plan!vars, Registered, Elems
<1>4. ASSUME EndWave
      PROVE  Plan!AddLayer
  <2>1. pc = "visit" /\ pc' = "visit" /\ UNCHANGED depends_on
    BY <1>4 DEF EndWave
  <2>2. UNCHANGED [n \in Registered |-> Elems(depends_on[n])]
    BY <2>1 DEF Registered, Elems
  <2>3. Plan!Ready = ReadyNow /\ ReadyNow # {}
    BY <1>4, EndWaveStep, LayersReady
  <2>4. [i \in DOMAIN waves |-> Elems(waves[i])]'
          = Append([i \in DOMAIN waves |-> Elems(waves[i])], Plan!Ready)
    BY <1>4, <2>3, LayersAppended
  <2>. QED  BY <2>1, <2>2, <2>3, <2>4 DEF Plan!AddLayer
<1>5. ASSUME CheckCycle
      PROVE  Plan!Finish
  BY <1>5, CheckCycleStep, LayersReady
     DEF CheckCycle, Plan!Finish, Registered, Elems
<1>6. ASSUME UNCHANGED vars
      PROVE  UNCHANGED Plan!vars
  BY <1>6 DEF vars, Plan!vars, Registered, Elems
<1>. QED  BY <1>1, <1>2, <1>3, <1>4, <1>5, <1>6 DEF Next, Plan!Next

(* Every behaviour of the scheduler, seen through its waves, is a behaviour *)
(* of the planner that takes all ready stages at once.                      *)
THEOREM Implementation == Spec => ImplementsPlan
<1>1. Init => Plan!Init
  BY DEF Init, Plan!Init, Registered
<1>2. IInv /\ [Next]_vars => [Plan!Next]_(Plan!vars)
  BY PlanStep
<1>. QED  BY <1>1, <1>2, Invariance, PTL DEF Spec, Plan!Spec, ImplementsPlan

-----------------------------------------------------------------------------
(* The loop ends: what it has left to do goes down with every step, and it  *)
(* is never stuck for want of an order to put the freed stages in.          *)

(* The dict gives an order to every set of its keys.                        *)
LEMMA InDictOrderExists ==
  ASSUME TypeOK, DictInv, NEW S \in SUBSET Registered
  PROVE  InDictOrder(S) # {}
<1> DEFINE len == Len(stage_names)
           First(k) == {n \in S : \E i \in 1 .. k : stage_names[i] = n}
           Listing(s, k) ==
             /\ s \in Seq(S) /\ Elems(s) = First(k)
             /\ IsFiniteSet(First(k)) /\ Len(s) = Cardinality(First(k))
             /\ \A i, j \in DOMAIN s : i < j => Before(s[i], s[j])
           T == {k \in 0 .. len : \E s : Listing(s, k)}
<1>1. len \in Nat /\ DOMAIN stage_names = 1 .. len
  BY LenProperties DEF TypeOK
<1>2. 0 \in T
  <2>1. First(0) = {} /\ 0 \in 0 .. len
    BY <1>1
  <2>2. <<>> \in Seq(S) /\ DOMAIN <<>> = {} /\ Len(<<>>) = 0
    OBVIOUS
  <2>3. IsFiniteSet({}) /\ Cardinality({}) = 0
    BY FS_EmptySet
  <2>4. Listing(<<>>, 0)
    BY <2>1, <2>2, <2>3, ElemsEmpty
  <2>. QED  BY <2>1, <2>4
<1>3. ASSUME NEW k \in 0 .. len - 1, k \in T
      PROVE  k + 1 \in T
  <2> DEFINE n == stage_names[k + 1]
  <2>1. PICK s : Listing(s, k)
    BY <1>3
  <2>2. /\ k \in Nat /\ k + 1 \in 0 .. len /\ k + 1 \in DOMAIN stage_names
        /\ \A i \in 1 .. k + 1 : i \in 1 .. k \/ i = k + 1
        /\ \A i \in 1 .. k : i \in 1 .. k + 1 /\ i < k + 1 /\ i \in DOMAIN stage_names
        /\ k + 1 \in 1 .. k + 1
    BY <1>1, <1>3
  <2>3. CASE n \notin S
    <3>1. First(k + 1) = First(k)
      BY <2>2, <2>3
    <3>2. Listing(s, k + 1)
      BY <2>1, <3>1
    <3>. QED  BY <2>2, <3>2
  <2>4. CASE n \in S
    <3>1. First(k + 1) = First(k) \cup {n}
      BY <2>2, <2>4
    <3>2. n \notin First(k)
      BY <2>2 DEF DictInv, NoDup
    <3>3. /\ IsFiniteSet(First(k + 1))
          /\ Cardinality(First(k + 1)) = Cardinality(First(k)) + 1
      <4> HIDE DEF First, n
      <4>. QED  BY <2>1, <3>1, <3>2, FS_AddElement
    <3> DEFINE t == Append(s, n)
    <3>4. /\ t \in Seq(S) /\ Len(t) = Len(s) + 1 /\ Len(s) \in Nat
          /\ DOMAIN s = 1 .. Len(s) /\ DOMAIN t = 1 .. Len(s) + 1
          /\ t[Len(s) + 1] = n /\ \A i \in 1 .. Len(s) : t[i] = s[i]
      <4>1. s \in Seq(S) /\ n \in S
        BY <2>1, <2>4
      <4> HIDE DEF n, First, len
      <4>. QED  BY <4>1, AppendProperties, LenProperties
    <3>5. Elems(t) = First(k + 1)
      BY <2>1, <2>4, <3>1, ElemsAppend
    <3>6. ASSUME NEW i \in DOMAIN t, NEW j \in DOMAIN t, i < j
          PROVE  Before(t[i], t[j])
      <4>1. i \in DOMAIN s /\ t[i] = s[i] /\ (j \in DOMAIN s \/ j = Len(s) + 1)
        BY <3>4, <3>6
      <4>2. CASE j \in DOMAIN s
        BY <2>1, <3>4, <3>6, <4>1, <4>2
      <4>3. CASE j = Len(s) + 1
        <5>1. t[j] = n
          BY <3>4, <4>3
        <5>2. s[i] \in First(k)
          BY <2>1, <4>1 DEF Elems
        <5>. QED  BY <2>2, <4>1, <5>1, <5>2 DEF Before
      <4>. QED  BY <4>1, <4>2, <4>3
    <3>7. Listing(t, k + 1)
      <4> HIDE DEF t, First
      <4>. QED  BY <2>1, <3>3, <3>4, <3>5, <3>6
    <3>. QED  BY <2>2, <3>7
  <2>. QED  BY <2>3, <2>4
<1> HIDE DEF T
<1>4. len \in T
  <2>1. 0 .. len \subseteq T
    BY <1>1, <1>2, <1>3, UpTo
  <2>. QED  BY <1>1, <2>1
<1>5. PICK s : Listing(s, len)
  BY <1>4 DEF T
<1>6. First(len) = S
  BY <1>1 DEF DictInv, Elems
<1> HIDE DEF First
<1>7. /\ s \in [1 .. Cardinality(S) -> S] /\ Elems(s) = S
      /\ \A i, j \in DOMAIN s : i < j => Before(s[i], s[j])
  BY <1>5, <1>6, LenProperties
<1>. QED  BY <1>7 DEF InDictOrder

(* Two steps for every stage not visited yet, one to close the wave, and    *)
(* the check at the end.                                                    *)
StepsLeft ==
  IF pc # "visit" THEN 0
  ELSE 2 * Cardinality(Registered \ Visited) + (IF wave = <<>> THEN 1 ELSE 2)

LEMMA UnvisitedFinite ==
  ASSUME TypeOK
  PROVE  /\ IsFiniteSet(Registered \ Visited)
         /\ Cardinality(Registered \ Visited) \in Nat
<1>1. Registered \ Visited \in SUBSET Names
  BY DEF TypeOK
<1>. QED  BY <1>1, NamesAssumption, FS_Subset, FS_CardinalityType

(* get_execution_order makes at most two steps per stage and two more, also *)
(* when the dependencies contain a cycle, and none of them can lack a       *)
(* successor: Visit, which alone depends on data, always has an order of    *)
(* dict keys to append.                                                     *)
THEOREM PlanMakesProgress ==
  Spec => /\ [](StepsLeft \in Nat /\ (StepsLeft = 0 <=> pc # "visit"))
          /\ [](pc = "visit" /\ queue # <<>> => InDictOrder(Freed(Head(queue))) # {})
          /\ [][pc = "visit" => StepsLeft' < StepsLeft]_vars
<1>1. IInv => StepsLeft \in Nat /\ (StepsLeft = 0 <=> pc # "visit")
  BY UnvisitedFinite DEF IInv, StepsLeft
<1>2. IInv => (pc = "visit" /\ queue # <<>> => InDictOrder(Freed(Head(queue))) # {})
  <2>1. ASSUME NEW n PROVE Freed(n) \in SUBSET Registered
    BY DEF Freed
  <2>. QED  BY <2>1, InDictOrderExists DEF IInv
<1>3. ASSUME IInv, [Next]_vars
      PROVE  (pc = "visit" => StepsLeft' < StepsLeft) \/ UNCHANGED vars
  <2>1. CASE Visit
    <3> DEFINE v == Head(queue)
               U == Registered \ Visited
    <3>1. /\ pc = "visit" /\ pc' = "visit" /\ queue # <<>>
          /\ wave' = Append(wave, v) /\ UNCHANGED <<depends_on, waves>>
      BY <2>1 DEF Visit
    <3>2. v \in Registered /\ v \in Elems(queue)
      BY <1>3, <3>1, ElemsHeadTail DEF IInv, TypeOK
    <3>3. v \in U
      BY <1>3, <3>1, <3>2, QueuesApart
    <3>4. wave' # <<>> /\ Elems(wave') = Elems(wave) \cup {v}
      BY <1>3, <3>1, <3>2, ElemsAppend, AppendProperties DEF IInv, TypeOK
    <3>5. U' = U \ {v}
      BY <3>1, <3>4 DEF Registered, Placed, Visited, Elems
    <3> HIDE DEF U, v
    <3>6. IsFiniteSet(U) /\ Cardinality(U) \in Nat
      BY <1>3, UnvisitedFinite DEF IInv, U
    <3>7. Cardinality(U \ {v}) = Cardinality(U) - 1
      BY <3>3, <3>6, FS_RemoveElement
    <3>8. Cardinality(U') = Cardinality(U) - 1
      BY <3>5, <3>7
    <3>9. /\ StepsLeft' = 2 * Cardinality(U') + 2
          /\ StepsLeft = 2 * Cardinality(U) + (IF wave = <<>> THEN 1 ELSE 2)
      BY <3>1, <3>4 DEF StepsLeft, U
    <3>. QED  BY <3>6, <3>8, <3>9
  <2>2. CASE EndWave
    <3>1. /\ pc = "visit" /\ pc' = "visit" /\ wave # <<>> /\ wave' = <<>>
      BY <2>2 DEF EndWave
    <3>2. (Registered \ Visited)' = Registered \ Visited
      BY <1>3, <2>2, EndWaveStep
    <3>3. Cardinality(Registered \ Visited) \in Nat
      BY <1>3, UnvisitedFinite DEF IInv
    <3>4. Cardinality((Registered \ Visited)') = Cardinality(Registered \ Visited)
      BY <3>2
    <3>5. StepsLeft' = 2 * Cardinality((Registered \ Visited)') + 1
          /\ StepsLeft = 2 * Cardinality(Registered \ Visited) + 2
      BY <3>1 DEF StepsLeft
    <3>. QED  BY <3>3, <3>4, <3>5
  <2>3. CASE CheckCycle
    <3>1. pc = "visit" /\ pc' = "done"
      BY <2>3 DEF CheckCycle
    <3>2. Cardinality(Registered \ Visited) \in Nat
      BY <1>3, UnvisitedFinite DEF IInv
    <3>. QED  BY <3>1, <3>2 DEF StepsLeft
  <2>. QED  BY <1>3, <2>1, <2>2, <2>3 DEF Next, BuildGraph, Register
<1>. QED  BY Invariance, <1>1, <1>2, <1>3, PTL DEF Spec

=============================================================================
