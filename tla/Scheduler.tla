------------------------------ MODULE Scheduler ------------------------------
(***************************************************************************)
(* PipelineScheduler (src/reconforgex/pipeline/scheduler.py): stages are   *)
(* registered by name, then get_execution_order groups them into waves     *)
(* with Kahn's algorithm.  A dependency list is a sequence of names: it    *)
(* may name a stage twice, name the stage itself, or name a stage that is  *)
(* never registered.  One Visit step is one iteration of the loop over     *)
(* `queue`, with its whole inner loop over the dependents.                 *)
(***************************************************************************)
EXTENDS Naturals, Sequences, FiniteSets

CONSTANTS Names,    \* names a stage may have or depend on
          MaxDeps   \* bound: longest depends_on list

ASSUME NamesAssumption == IsFiniteSet(Names)
ASSUME MaxDepsAssumption == MaxDeps \in Nat

VARIABLES pc,          \* "register", "visit" or "done"
          stage_names, \* keys of _stages, in dict order
          depends_on,  \* depends_on[n]: the list of registered stage n
          in_degree,
          queue,       \* what is left of the queue being iterated
          wave,
          next_queue,
          waves,       \* the result: a sequence of sequences of names
          unscheduled  \* the set the error message of the cycle check names

vars == <<pc, stage_names, depends_on, in_degree, queue, wave, next_queue,
          waves, unscheduled>>

Registered == DOMAIN depends_on

Elems(s) == {s[i] : i \in DOMAIN s}

Placed == UNION {Elems(waves[i]) : i \in DOMAIN waves}

Visited == Placed \cup Elems(wave)

(* The entries of depends_on[n] that name d: n occurs that many times in    *)
(* dependents[d] when d is registered.                                      *)
Entries(n, d) == {k \in DOMAIN depends_on[n] : depends_on[n][k] = d}

RegisteredEntries(n) ==
  {k \in DOMAIN depends_on[n] : depends_on[n][k] \in Registered}

(* Mutants: a name listed twice counts once; unknown names count too. *)
MutDegreeByName(n) == Cardinality({depends_on[n][k] : k \in RegisteredEntries(n)})
MutDegreeUnknownToo(n) == Len(depends_on[n])

(* The initial in_degree: a name that is not registered adds nothing, a     *)
(* name listed twice adds two.                                              *)
Degree(n) == Cardinality(RegisteredEntries(n))

Remaining(n, name) == in_degree[n] - Cardinality(Entries(n, name))

(* Mutant: a dependent is queued again by each of its dependencies. *)
MutFreedByAnyEdge(name) == {n \in Registered : Entries(n, name) # {}}

(* The dependents of a visited stage whose last edge its visit removes. *)
Freed(name) ==
  {n \in Registered : Entries(n, name) # {} /\ Remaining(n, name) = 0}

(* The members of S in the order in which the dict of stages holds them, as *)
(* a comprehension over it or over a list filled from it lists them.        *)
Before(m, n) ==
  \E i, j \in DOMAIN stage_names :
    i < j /\ stage_names[i] = m /\ stage_names[j] = n

InDictOrder(S) ==
  {s \in [1 .. Cardinality(S) -> S] :
     /\ Elems(s) = S
     /\ \A i, j \in DOMAIN s : i < j => Before(s[i], s[j])}

DepLists == UNION {[1 .. len -> Names] : len \in 0 .. MaxDeps}

Init ==
  /\ pc = "register"
  /\ stage_names = <<>>
  /\ depends_on = [n \in {} |-> <<>>]
  /\ in_degree = [n \in {} |-> 0]
  /\ queue = <<>>
  /\ wave = <<>>
  /\ next_queue = <<>>
  /\ waves = <<>>
  /\ unscheduled = {}

(* register: a known name is overwritten and keeps its place in the dict. *)
Register(n, deps) ==
  /\ pc = "register"
  /\ depends_on' = [m \in Registered \cup {n} |->
                      IF m = n THEN deps ELSE depends_on[m]]
  /\ stage_names' = IF n \in Registered THEN stage_names
                                        ELSE Append(stage_names, n)
  /\ UNCHANGED <<pc, in_degree, queue, wave, next_queue, waves, unscheduled>>

(* get_execution_order up to its loop. *)
BuildGraph ==
  /\ pc = "register"
  /\ pc' = "visit"
  /\ in_degree' = [n \in Registered |-> Degree(n)]
  /\ queue' \in InDictOrder({n \in Registered : Degree(n) = 0})
  /\ UNCHANGED <<stage_names, depends_on, wave, next_queue, waves,
                 unscheduled>>

(* Mutant: a freed stage joins the queue that is being iterated. *)
MutVisitSameQueue ==
  /\ pc = "visit"
  /\ queue # <<>>
  /\ wave' = Append(wave, Head(queue))
  /\ in_degree' = [n \in Registered |-> Remaining(n, Head(queue))]
  /\ \E freed \in InDictOrder(Freed(Head(queue))) :
       queue' = Tail(queue) \o freed
  /\ UNCHANGED <<pc, stage_names, depends_on, next_queue, waves, unscheduled>>

(* One name of the queue: it joins the wave, every edge to a dependent is  *)
(* removed, and the dependents that reach zero join next_queue.            *)
Visit ==
  /\ pc = "visit"
  /\ queue # <<>>
  /\ wave' = Append(wave, Head(queue))
  /\ in_degree' = [n \in Registered |-> Remaining(n, Head(queue))]
  /\ \E freed \in InDictOrder(Freed(Head(queue))) :
       next_queue' = next_queue \o freed
  /\ queue' = Tail(queue)
  /\ UNCHANGED <<pc, stage_names, depends_on, waves, unscheduled>>

(* Mutant: a wave may be closed before the whole queue is visited. *)
MutEndWaveEarly ==
  /\ pc = "visit"
  /\ wave # <<>>
  /\ waves' = Append(waves, wave)
  /\ queue' = queue \o next_queue
  /\ wave' = <<>>
  /\ next_queue' = <<>>
  /\ UNCHANGED <<pc, stage_names, depends_on, in_degree, unscheduled>>

EndWave ==
  /\ pc = "visit"
  /\ queue = <<>>
  /\ wave # <<>>
  /\ waves' = Append(waves, wave)
  /\ queue' = next_queue
  /\ wave' = <<>>
  /\ next_queue' = <<>>
  /\ UNCHANGED <<pc, stage_names, depends_on, in_degree, unscheduled>>

(* Mutant: the loop runs until every stage is scheduled. *)
MutCheckCycleWaits ==
  /\ pc = "visit"
  /\ queue = <<>>
  /\ wave = <<>>
  /\ Registered = Placed
  /\ unscheduled' = {}
  /\ pc' = "done"
  /\ UNCHANGED <<stage_names, depends_on, in_degree, queue, wave, next_queue,
                 waves>>

(* The loop is over: the stages that were never reached are only logged,   *)
(* and the partial waves are returned.                                     *)
CheckCycle ==
  /\ pc = "visit"
  /\ queue = <<>>
  /\ wave = <<>>
  /\ unscheduled' = Registered \ Placed
  /\ pc' = "done"
  /\ UNCHANGED <<stage_names, depends_on, in_degree, queue, wave, next_queue,
                 waves>>

Next ==
  \/ \E n \in Names, deps \in DepLists : Register(n, deps)
  \/ BuildGraph
  \/ Visit
  \/ EndWave
  \/ CheckCycle

(* A call of get_execution_order runs to its end. *)
Fairness == WF_vars(Visit) /\ WF_vars(EndWave) /\ WF_vars(CheckCycle)

Spec == Init /\ [][Next]_vars /\ Fairness

-----------------------------------------------------------------------------
(* The counters and lists have the values the code gives them. *)
TypeOK ==
  /\ pc \in {"register", "visit", "done"}
  /\ Registered \subseteq Names
  /\ \A n \in Registered : depends_on[n] \in Seq(Names)
  /\ stage_names \in Seq(Registered)
  /\ pc # "register" => in_degree \in [Registered -> Nat]
  /\ queue \in Seq(Registered)
  /\ wave \in Seq(Registered)
  /\ next_queue \in Seq(Registered)
  /\ waves \in Seq(Seq(Registered))
  /\ unscheduled \subseteq Registered

(* A stage in a wave has every registered stage it depends on in a strictly *)
(* earlier wave, however often and in whatever order its list names them,   *)
(* so gathering a wave never starts a stage beside its own dependency.      *)
DependenciesInEarlierWaves ==
  \A i \in DOMAIN waves : \A n \in Elems(waves[i]) :
    \A d \in Elems(depends_on[n]) \cap Registered :
      \E j \in 1 .. i - 1 : d \in Elems(waves[j])

(* No stage is handed out twice: not in two waves, nor twice in one, nor    *)
(* while it is already queued, although a stage is pushed from inside the   *)
(* loop over another stage's dependents.                                    *)
NoStageTwice ==
  /\ \A i, j \in DOMAIN waves :
       \A k \in DOMAIN waves[i], l \in DOMAIN waves[j] :
         waves[i][k] = waves[j][l] => i = j /\ k = l
  /\ Elems(queue) \cap Visited = {}
  /\ Elems(next_queue) \cap (Visited \cup Elems(queue)) = {}
  /\ \A s \in {queue, wave, next_queue} :
       \A i, j \in DOMAIN s : s[i] = s[j] => i = j

(* Every stage after the first wave depends on a stage of the wave just     *)
(* before its own: nothing is delayed longer than its dependencies require. *)
NoWaveTooLate ==
  \A i \in DOMAIN waves : i > 1 =>
    \A n \in Elems(waves[i]) :
      Elems(depends_on[n]) \cap Elems(waves[i - 1]) # {}

(* A set of stages each of which waits for another member of the set. *)
Knot(S) ==
  /\ S \subseteq Registered
  /\ S # {}
  /\ \A n \in S : Elems(depends_on[n]) \cap S # {}

(* The cycle check reports stages exactly when the dependencies contain a   *)
(* cycle, and everything it does not report has been given a wave.          *)
CycleReportedExactly ==
  pc = "done" =>
    /\ unscheduled # {} <=> \E S \in SUBSET Registered : Knot(S)
    /\ Placed = Registered \ unscheduled

(* Once get_execution_order is called it returns. *)
PlanTerminates == pc = "visit" ~> pc = "done"

(* The waves are the layers the abstract planner builds. *)
Plan == INSTANCE WaveOrder
  WITH requires <- [n \in Registered |-> Elems(depends_on[n])],
       layers <- [i \in DOMAIN waves |-> Elems(waves[i])],
       phase <- IF pc = "register" THEN "open"
                ELSE IF pc = "visit" THEN "planning" ELSE "planned"

(* The counting loop implements the abstract planner: each finished wave is *)
(* the set of all ready stages, and the loop ends only when none is ready.  *)
ImplementsPlan == Plan!Spec

=============================================================================
