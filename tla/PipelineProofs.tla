---------------------------- MODULE PipelineProofs ----------------------------
(***************************************************************************)
(* Proofs about Pipeline for every set of registered stages and every       *)
(* number of runs.  The inductive invariant says what the wave loop keeps:  *)
(* only the stages of the current wave are unfinished, and a stage that     *)
(* left "waiting" has only ended dependencies.  A manager may be used again *)
(* or made anew for every run.                                              *)
(***************************************************************************)
EXTENDS Pipeline, TLAPS

-----------------------------------------------------------------------------
(* The planner's ready set, unfolded. *)
LEMMA ReadyIs ==
  Plan!Ready = {s \in Stages : /\ stage[s] = "waiting"
                               /\ \A t \in DependsOn(s) \cap Stages :
                                    stage[t] # "waiting"}
<1> DEFINE P == {s \in Stages : stage[s] # "waiting"}
<1>1. Plan!Declared = Stages
  BY DEF Plan!Declared
<1>2. Plan!Planned = P
  BY DEF Plan!Planned
<1>3. \A n \in Stages : [s \in Stages |-> DependsOn(s)][n] = DependsOn(n)
  OBVIOUS
<1>4. Plan!Ready = {n \in Stages \ P : DependsOn(n) \cap Stages \subseteq P}
  <2>1. Plan!Ready = {n \in Stages \ P :
          [s \in Stages |-> DependsOn(s)][n] \cap Stages \subseteq P}
    BY <1>1, <1>2 DEF Plan!Ready
  <2> QED BY <1>3, <2>1
<1> QED BY <1>4

(* Dependencies have a level below their dependent's: there is no cycle. *)
Level(s) == IF s = "report_builder" THEN 3
            ELSE IF s = "risk_scoring" THEN 2
            ELSE IF s \in JSAnalyzers THEN 1 ELSE 0

LEMMA LevelsDescend ==
  \A s \in AllStages : \A t \in DependsOn(s) :
    t \in AllStages /\ t # s /\ Level(t) < Level(s)
BY DEF AllStages, DependsOn, Level, JSAnalyzers

(* A stage reads only what its dependencies write. *)
LEMMA ReadsAreDependencies == \A s : Reads(s) \subseteq DependsOn(s)
BY DEF Reads, DependsOn

(* The loop over the waves ends only when no stage waits. *)
LEMMA NoReadyNoWaiting ==
  ASSUME Plan!Ready = {}
  PROVE  \A s \in Stages : stage[s] # "waiting"
<1> USE StagesAssumption
<1>1. \A s \in Stages : stage[s] = "waiting" =>
        \E t \in DependsOn(s) \cap Stages : stage[t] = "waiting"
  BY ReadyIs
<1>2. \A s \in Stages : stage[s] = "waiting" =>
        \E t \in Stages : stage[t] = "waiting" /\ Level(t) < Level(s)
  BY <1>1, LevelsDescend
<1>3. \A s : Level(s) \in 0 .. 3
  BY DEF Level
<1>4. \A s \in Stages : Level(s) < 1 => stage[s] # "waiting"
  BY <1>2, <1>3
<1>5. \A s \in Stages : Level(s) < 2 => stage[s] # "waiting"
  BY <1>2, <1>3, <1>4
<1>6. \A s \in Stages : Level(s) < 3 => stage[s] # "waiting"
  BY <1>2, <1>3, <1>5
<1> QED BY <1>2, <1>3, <1>6

-----------------------------------------------------------------------------
(* The manager's attributes keep their types. *)
THEOREM TypeCorrect == Spec => []TypeOK
<1>n. 0 \in Runs /\ \A r \in Runs : r < MaxRuns => r + 1 \in Runs
  BY MaxRunsAssumption DEF Runs
<1>0. Nothing \in [Stages -> Entries] /\ Absent \in Entries
  BY <1>n DEF Nothing, Absent, Entries
<1>1. Init => TypeOK
  <2> SUFFICES ASSUME Init PROVE TypeOK
    OBVIOUS
  <2>1. inputs \in [Stages -> [Stages -> Entries]] /\ store \in [Stages -> Entries]
    BY <1>0 DEF Init
  <2>2. stage \in [Stages -> {"waiting", "created", "running", "completed",
                                  "failed", "cancelled"}]
    BY DEF Init
  <2>3. module \in [Stages -> Runs]
    BY <1>n DEF Init
  <2>4. /\ stage_results \in [Stages -> [Runs -> Nat]]
        /\ listed \in [Stages -> [Runs -> Nat]]
    BY DEF Init, NoEntries
  <2>5. files \in [1 .. 3 -> Runs]
    BY <1>n DEF Init
  <2>6. /\ run \in Runs /\ shared_client \in Runs
        /\ step \in 0 .. 3
    BY <1>n DEF Init
  <2>7. /\ pc \in {"new", "running", "ended", "cancelled", "dead"}
        /\ wave \subseteq Stages /\ open \subseteq Runs
    BY DEF Init
  <2> QED BY <2>1, <2>2, <2>3, <2>4, <2>5, <2>6, <2>7 DEF TypeOK
<1>2. TypeOK /\ [Next]_vars => TypeOK'
  <2> SUFFICES ASSUME TypeOK, [Next]_vars PROVE TypeOK'
    OBVIOUS
  <2>1. CASE StartRun
    <3>1. run + 1 \in Runs
      BY <2>1, <1>n DEF StartRun, TypeOK
    <3>2. inputs' \in [Stages -> [Stages -> Entries]]
      BY <2>1, <1>0 DEF StartRun
    <3>3. shared_client' \in Runs
      BY <2>1, <3>1 DEF StartRun, TypeOK
    <3>4. stage' \in [Stages -> {"waiting", "created", "running", "completed",
                                 "failed", "cancelled"}]
      BY <2>1 DEF StartRun
    <3>5. run' \in Runs /\ step' \in 0 .. 3
      BY <2>1, <3>1 DEF StartRun
    <3>6. listed' \in [Stages -> [Runs -> Nat]] /\ pc' = "running"
      BY <2>1 DEF StartRun, NoEntries
    <3>7. UNCHANGED <<wave, stage_results, module, open, store, files>>
      BY <2>1 DEF StartRun
    <3> QED BY <3>2, <3>3, <3>4, <3>5, <3>6, <3>7 DEF TypeOK
  <2>2. CASE StartWave
    <3>1. Plan!Ready \subseteq Stages
      BY ReadyIs
    <3> QED BY <2>2, <3>1 DEF StartWave, TypeOK, reportVars
  <2>3. CASE EndWave
    <3>1. stage_results' \in [Stages -> [Runs -> Nat]]
      BY <2>3, <1>n DEF EndWave, Extended, TypeOK
    <3>2. wave' \subseteq Stages
      BY <2>3 DEF EndWave
    <3>3. UNCHANGED <<pc, run, stage, module, shared_client, open, store, inputs,
                      step, listed, files>>
      BY <2>3 DEF EndWave, reportVars
    <3> QED BY <3>1, <3>2, <3>3 DEF TypeOK
  <2>4. CASE EndRun
    <3>1. /\ pc' = "ended" /\ open' \subseteq open
          /\ shared_client' = 0
      BY <2>4 DEF EndRun
    <3>2. UNCHANGED <<run, wave, stage, stage_results, module, store, inputs,
                      step, listed, files>>
      BY <2>4 DEF EndRun, reportVars
    <3> QED BY <3>1, <3>2, <1>n DEF TypeOK
  <2>5. CASE Cancel
    BY <2>5 DEF Cancel, TypeOK, reportVars, Abandoned
  <2>17. CASE CancelClose
    <3>1. pc' = "cancelled" /\ open' \subseteq open
      BY <2>17 DEF CancelClose
    <3>2. UNCHANGED <<run, wave, stage, stage_results, module, shared_client,
                      store, inputs, step, listed, files>>
      BY <2>17 DEF CancelClose, reportVars
    <3> QED BY <3>1, <3>2 DEF TypeOK
  <2>6. CASE Kill
    <3>1. files' \in [1 .. 3 -> Runs]
      BY <2>6, <1>n DEF Kill, Interrupted, TypeOK
    <3>2. stage' \in [Stages -> {"waiting", "created", "running", "completed",
                                 "failed", "cancelled"}]
      BY <2>6 DEF Kill, Abandoned, TypeOK
    <3>3. pc' = "dead" /\ wave' = {}
      BY <2>6 DEF Kill
    <3>4. UNCHANGED <<run, stage_results, module, shared_client, open, store,
                      inputs, step, listed>>
      BY <2>6 DEF Kill
    <3> QED BY <3>1, <3>2, <3>3, <3>4 DEF TypeOK
  <2>7. CASE NewProcess
    <3>1. inputs' \in [Stages -> [Stages -> Entries]] /\ store' \in [Stages -> Entries]
      BY <2>7, <1>0 DEF NewProcess
    <3>2. stage' \in [Stages -> {"waiting", "created", "running", "completed",
                                    "failed", "cancelled"}]
      BY <2>7 DEF NewProcess
    <3>3. module' \in [Stages -> Runs]
      BY <2>7, <1>n DEF NewProcess
    <3>4. /\ stage_results' \in [Stages -> [Runs -> Nat]]
          /\ listed' \in [Stages -> [Runs -> Nat]]
      BY <2>7 DEF NewProcess, NoEntries
    <3>5. files' \in [1 .. 3 -> Runs] /\ run' \in Runs
      BY <2>7 DEF NewProcess, TypeOK
    <3>6. shared_client' \in Runs /\ step' \in 0 .. 3
      BY <2>7, <1>n DEF NewProcess
    <3>7. /\ pc' \in {"new", "running", "ended", "cancelled", "dead"}
          /\ wave' \subseteq Stages /\ open' \subseteq Runs
      BY <2>7 DEF NewProcess
    <3> QED BY <3>1, <3>2, <3>3, <3>4, <3>5, <3>6, <3>7 DEF TypeOK
  <2>8. CASE BeginReport
    <3>1. [run |-> run, filled |-> TRUE] \in Entries
      BY DEF TypeOK, Entries
    <3> QED BY <2>8, <3>1, <1>0 DEF BeginReport, TypeOK
  <2>9. CASE WriteReport
    <3>1. step + 1 \in 1 .. 3
      BY <2>9 DEF WriteReport, TypeOK
    <3> QED BY <2>9, <3>1 DEF WriteReport, TypeOK
  <2>10. CASE FailReport
    <3>1. files' \in [1 .. 3 -> Runs]
      BY <2>10, <1>n DEF FailReport, Interrupted, TypeOK
    <3> QED BY <2>10, <3>1 DEF FailReport, TypeOK
  <2>11. CASE CompleteReport
    BY <2>11 DEF CompleteReport, TypeOK, reportVars
  <2>12. ASSUME NEW s \in Stages, Begin(s) PROVE TypeOK'
    <3>1. [t \in Stages |-> IF t \in Reads(s) THEN store[t] ELSE Absent]
            \in [Stages -> Entries]
      BY <1>0 DEF TypeOK
    <3> QED BY <2>12, <3>1 DEF Begin, TypeOK, reportVars
  <2>13. ASSUME NEW s \in Stages, FailToLoad(s) PROVE TypeOK'
    BY <2>13 DEF FailToLoad, TypeOK, reportVars
  <2>14. ASSUME NEW s \in Stages, Fetch(s) PROVE TypeOK'
    <3>1. open' = open \cup {module[s]} /\ module[s] \in Runs /\ open \subseteq Runs
      BY <2>14 DEF Fetch, TypeOK
    <3>2. open' \subseteq Runs
      BY <3>1
    <3>3. UNCHANGED <<pc, run, wave, stage, stage_results, module, shared_client,
                      store, inputs, step, listed, files>>
      BY <2>14 DEF Fetch, reportVars
    <3> QED BY <3>2, <3>3 DEF TypeOK
  <2>15. ASSUME NEW s \in Stages, Return(s) PROVE TypeOK'
    <3>1. Filled(s) \subseteq BOOLEAN
      BY DEF Filled
    <3>2. \A b \in Filled(s) : [run |-> run, filled |-> b] \in Entries
      BY <3>1 DEF TypeOK, Entries
    <3>3. store' \in [Stages -> Entries]
      BY <2>15, <3>2 DEF Return, TypeOK
    <3> QED BY <2>15, <3>3 DEF Return, TypeOK, reportVars
  <2>16. CASE UNCHANGED vars
    BY <2>16 DEF vars, TypeOK
  <2> QED BY <2>1, <2>2, <2>3, <2>4, <2>5, <2>6, <2>7, <2>8, <2>9, <2>10, <2>11,
             <2>12, <2>13, <2>14, <2>15, <2>16, <2>17
          DEF Next, ReportStep, StageStep
<1> QED BY <1>1, <1>2, PTL DEF Spec

-----------------------------------------------------------------------------
(* Between waves every stage waits or has ended; within one, only its       *)
(* stages are on their way.                                                 *)
WaveBarrier ==
  /\ wave # {} => pc = "running"
  /\ \A s \in wave : stage[s] # "waiting"
  /\ pc = "running" => \A s \in Stages \ wave : stage[s] = "waiting" \/ Ended(s)

DependenciesEnded ==
  \A s \in Stages : stage[s] # "waiting" =>
    \A t \in DependsOn(s) \cap Stages : Ended(t)

IInv == TypeOK /\ WaveBarrier /\ DependenciesEnded /\ InputsFinal

(* The steps of the run that reset every stage keep the invariant. *)
LEMMA ResetKeepsIInv ==
  ASSUME TypeOK', wave' = {}, stage' = [s \in Stages |-> "waiting"]
  PROVE  IInv'
<1>1. WaveBarrier' /\ DependenciesEnded'
  BY DEF WaveBarrier, DependenciesEnded
<1>2. InputsFinal'
  BY DEF InputsFinal, Begun
<1> QED BY <1>1, <1>2 DEF IInv

(* A step of one stage of the wave keeps it: the stage moves on, at most    *)
(* its own entry of the store and its own inputs change, and when it begins *)
(* it copies from the store what it reads.                                  *)
LEMMA StageStepKeepsIInv ==
  ASSUME IInv, TypeOK', NEW s \in wave,
         ~Ended(s), stage[s] # "waiting",
         NEW st \in {"running", "completed", "failed"},
         stage' = [stage EXCEPT ![s] = st],
         UNCHANGED <<pc, wave>>,
         \A u \in Stages \ {s} : store'[u] = store[u] /\ inputs'[u] = inputs[u],
         s \in Begun' => \A t \in Reads(s) \cap Stages : inputs'[s][t] = store[t]
  PROVE  IInv'
<1> USE StagesAssumption
<1>1. s \in Stages
  BY DEF IInv, TypeOK
<1>2. \A u \in Stages : stage'[u] = IF u = s THEN st ELSE stage[u]
  BY DEF IInv, TypeOK
<1>3. \A u \in Stages : Ended(u) => u # s /\ Ended(u)'
  BY <1>2 DEF Ended
<1>4. WaveBarrier'
  BY <1>1, <1>2 DEF IInv, WaveBarrier, Ended
<1>5. DependenciesEnded'
  <2> SUFFICES ASSUME NEW u \in Stages, stage'[u] # "waiting",
                      NEW t \in DependsOn(u) \cap Stages
               PROVE  Ended(t)'
    BY DEF DependenciesEnded
  <2>1. stage[u] # "waiting"
    BY <1>2
  <2> QED BY <2>1, <1>3 DEF IInv, DependenciesEnded
<1>6. InputsFinal'
  <2> SUFFICES ASSUME NEW u \in Stages, u \in Begun',
                      NEW t \in Reads(u) \cap Stages
               PROVE  Ended(t)' /\ inputs'[u][t] = store'[t]
    BY DEF InputsFinal, Begun
  <2>1. stage[u] # "waiting"
    BY <1>2 DEF Begun
  <2>2. Ended(t)
    BY <2>1, ReadsAreDependencies DEF IInv, DependenciesEnded
  <2>3. t # s /\ Ended(t)' /\ store'[t] = store[t]
    BY <2>2, <1>3
  <2>4. CASE u = s
    BY <2>3, <2>4
  <2>5. CASE u # s
    <3>1. u \in Begun
      BY <2>5, <1>2 DEF Begun
    <3>2. inputs[u][t] = store[t]
      BY <3>1 DEF IInv, InputsFinal
    <3> QED BY <2>3, <2>5, <3>2
  <2> QED BY <2>4, <2>5
<1> QED BY <1>4, <1>5, <1>6 DEF IInv

(* Abandoning a run keeps it. *)
LEMMA AbandonKeepsIInv ==
  ASSUME IInv, TypeOK', pc' # "running", wave' = {}, stage' = Abandoned,
         UNCHANGED <<store, inputs>>
  PROVE  IInv'
<1>1. \A u \in Stages : /\ Ended(u) => Ended(u)'
                        /\ stage'[u] # "waiting" => stage[u] # "waiting"
                        /\ u \in Begun' => u \in Begun
  BY DEF Abandoned, Ended, Begun
<1>2. WaveBarrier'
  BY DEF WaveBarrier
<1>3. DependenciesEnded'
  BY <1>1 DEF IInv, DependenciesEnded
<1>4. InputsFinal'
  BY <1>1 DEF IInv, InputsFinal, Begun
<1> QED BY <1>2, <1>3, <1>4 DEF IInv

LEMMA IInvInductive == IInv /\ TypeOK' /\ [Next]_vars => IInv'
<1> SUFFICES ASSUME IInv, TypeOK', [Next]_vars PROVE IInv'
  OBVIOUS
<1> USE StagesAssumption
<1>1. CASE StartRun
  <2>1. wave' = {}
    BY <1>1 DEF StartRun, IInv, WaveBarrier
  <2>2. stage' = [s \in Stages |-> "waiting"]
    BY <1>1 DEF StartRun
  <2> QED BY <2>1, <2>2, ResetKeepsIInv
<1>2. CASE NewProcess
  <2>1. wave' = {} /\ stage' = [s \in Stages |-> "waiting"]
    BY <1>2 DEF NewProcess
  <2> QED BY <2>1, ResetKeepsIInv
<1>3. CASE StartWave
  <2>1. /\ pc = "running" /\ wave = {} /\ wave' = Plan!Ready
        /\ UNCHANGED <<pc, store, inputs>>
    BY <1>3 DEF StartWave
  <2>2. \A u \in Stages : stage'[u] = IF u \in Plan!Ready THEN "created" ELSE stage[u]
    BY <1>3 DEF StartWave
  <2>3. \A u \in Stages : stage[u] = "waiting" \/ Ended(u)
    BY <2>1 DEF IInv, WaveBarrier
  <2>4. \A u \in Plan!Ready :
          u \in Stages /\ \A t \in DependsOn(u) \cap Stages : Ended(t)
    BY <2>3, ReadyIs
  <2>5. \A u \in Stages : Ended(u) => Ended(u)' /\ stage'[u] = stage[u]
    BY <2>2, ReadyIs DEF Ended
  <2>6. WaveBarrier'
    <3>1. \A u \in wave' : stage'[u] # "waiting"
      BY <2>1, <2>2, <2>4
    <3>2. \A u \in Stages \ wave' : stage'[u] = "waiting" \/ Ended(u)'
      BY <2>1, <2>2, <2>3, <2>5
    <3> QED BY <2>1, <3>1, <3>2 DEF WaveBarrier
  <2>7. DependenciesEnded'
    BY <2>2, <2>4, <2>5 DEF IInv, DependenciesEnded
  <2>8. \A u \in Stages : u \in Begun' => u \in Begun
    BY <2>2 DEF Begun
  <2>9. InputsFinal'
    BY <2>1, <2>5, <2>8 DEF IInv, InputsFinal, Begun
  <2> QED BY <2>6, <2>7, <2>9 DEF IInv
<1>4. CASE EndWave
  <2>1. /\ \A u \in wave : Ended(u)
        /\ wave' = {}
        /\ UNCHANGED <<pc, stage, store, inputs>>
    BY <1>4 DEF EndWave
  <2>2. WaveBarrier'
    BY <2>1 DEF IInv, WaveBarrier, Ended
  <2>3. DependenciesEnded' /\ InputsFinal'
    BY <2>1 DEF IInv, DependenciesEnded, InputsFinal, Begun, Ended
  <2> QED BY <2>2, <2>3 DEF IInv
<1>5. CASE EndRun \/ CancelClose
  <2>1. /\ pc' # "running" /\ wave = {}
        /\ UNCHANGED <<wave, stage, store, inputs>>
    BY <1>5 DEF EndRun, CancelClose
  <2>2. WaveBarrier'
    BY <2>1 DEF WaveBarrier
  <2>3. DependenciesEnded' /\ InputsFinal'
    BY <2>1 DEF IInv, DependenciesEnded, InputsFinal, Begun, Ended
  <2> QED BY <2>2, <2>3 DEF IInv
<1>6. CASE Cancel
  BY <1>6, AbandonKeepsIInv DEF Cancel
<1>7. CASE Kill
  BY <1>7, AbandonKeepsIInv DEF Kill
<1>8. CASE BeginReport
  <2> DEFINE r == "report_builder"
  <2>1. r \in wave /\ stage[r] = "created" /\ r \in Stages
    BY <1>8 DEF BeginReport, IInv, TypeOK
  <2>2. stage' = [stage EXCEPT ![r] = "running"] /\ UNCHANGED <<pc, wave>>
    BY <1>8 DEF BeginReport
  <2>3. \A u \in Stages \ {r} : store'[u] = store[u] /\ inputs'[u] = inputs[u]
    BY <1>8 DEF BeginReport, IInv, TypeOK
  <2>4. \A t \in Reads(r) \cap Stages : inputs'[r][t] = store[t]
    <3>1. inputs'[r] = [store EXCEPT ![r] = Absent]
      BY <1>8, <2>1 DEF BeginReport, IInv, TypeOK
    <3>2. r \notin Reads(r)
      BY DEF Reads, JSAnalyzers
    <3> QED BY <3>1, <3>2 DEF IInv, TypeOK
  <2> QED BY <2>1, <2>2, <2>3, <2>4, StageStepKeepsIInv DEF Ended
<1>9. CASE WriteReport
  <2>1. UNCHANGED <<pc, wave, stage, store, inputs>>
    BY <1>9 DEF WriteReport
  <2> QED BY <2>1 DEF IInv, WaveBarrier, DependenciesEnded, InputsFinal, Begun, Ended
<1>10. CASE FailReport
  <2>1. /\ "report_builder" \in wave /\ stage["report_builder"] = "running"
        /\ "report_builder" \in Stages
    BY <1>10 DEF FailReport, Reporting, IInv, TypeOK
  <2>2. /\ stage' = [stage EXCEPT !["report_builder"] = "failed"]
        /\ UNCHANGED <<pc, wave, store, inputs>>
    BY <1>10 DEF FailReport
  <2>3. "report_builder" \notin Begun'
    BY <2>1, <2>2 DEF Begun, IInv, TypeOK
  <2> QED BY <2>1, <2>2, <2>3, StageStepKeepsIInv DEF Ended
<1>11. CASE CompleteReport
  <2>1. /\ "report_builder" \in wave /\ stage["report_builder"] = "running"
        /\ "report_builder" \in Stages
    BY <1>11 DEF CompleteReport, Reporting, IInv, TypeOK
  <2>2. /\ stage' = [stage EXCEPT !["report_builder"] = "completed"]
        /\ UNCHANGED <<pc, wave, store, inputs>>
    BY <1>11 DEF CompleteReport
  <2>3. \A t \in Reads("report_builder") \cap Stages :
          inputs'["report_builder"][t] = store[t]
    BY <2>1, <2>2 DEF IInv, InputsFinal, Begun
  <2> QED BY <2>1, <2>2, <2>3, StageStepKeepsIInv DEF Ended
<1>12. ASSUME NEW s \in Stages, Begin(s) PROVE IInv'
  <2>1. s \in wave /\ stage[s] = "created"
    BY <1>12 DEF Begin
  <2>2. stage' = [stage EXCEPT ![s] = "running"] /\ UNCHANGED <<pc, wave, store>>
    BY <1>12 DEF Begin
  <2>3. inputs' = [inputs EXCEPT ![s] =
                     [t \in Stages |-> IF t \in Reads(s) THEN store[t] ELSE Absent]]
    BY <1>12 DEF Begin
  <2>4. \A u \in Stages \ {s} : inputs'[u] = inputs[u]
    BY <2>3 DEF IInv, TypeOK
  <2>5. \A t \in Reads(s) \cap Stages : inputs'[s][t] = store[t]
    BY <2>3 DEF IInv, TypeOK
  <2> QED BY <2>1, <2>2, <2>4, <2>5, StageStepKeepsIInv DEF Ended
<1>13. ASSUME NEW s \in Stages, FailToLoad(s) PROVE IInv'
  <2>1. s \in wave /\ stage[s] = "created"
    BY <1>13 DEF FailToLoad
  <2>2. stage' = [stage EXCEPT ![s] = "failed"] /\ UNCHANGED <<pc, wave, store, inputs>>
    BY <1>13 DEF FailToLoad
  <2>3. s \notin Begun'
    BY <2>1, <2>2 DEF Begun, IInv, TypeOK
  <2> QED BY <2>1, <2>2, <2>3, StageStepKeepsIInv DEF Ended
<1>14. ASSUME NEW s \in Stages, Fetch(s) PROVE IInv'
  <2>1. UNCHANGED <<pc, wave, stage, store, inputs>>
    BY <1>14 DEF Fetch
  <2> QED BY <2>1 DEF IInv, WaveBarrier, DependenciesEnded, InputsFinal, Begun, Ended
<1>15. ASSUME NEW s \in Stages, Return(s) PROVE IInv'
  <2>1. s \in wave /\ stage[s] = "running"
    BY <1>15 DEF Return
  <2>2. stage' = [stage EXCEPT ![s] = "completed"] /\ UNCHANGED <<pc, wave, inputs>>
    BY <1>15 DEF Return
  <2>3. \A u \in Stages \ {s} : store'[u] = store[u]
    BY <1>15 DEF Return, IInv, TypeOK
  <2>4. \A t \in Reads(s) \cap Stages : inputs'[s][t] = store[t]
    BY <2>1, <2>2 DEF IInv, InputsFinal, Begun
  <2> QED BY <2>1, <2>2, <2>3, <2>4, StageStepKeepsIInv DEF Ended
<1>16. CASE UNCHANGED vars
  <2>1. UNCHANGED <<pc, wave, stage, store, inputs>>
    BY <1>16 DEF vars
  <2> QED BY <2>1 DEF IInv, WaveBarrier, DependenciesEnded, InputsFinal, Begun, Ended
<1> QED BY <1>1, <1>2, <1>3, <1>4, <1>5, <1>6, <1>7, <1>8, <1>9, <1>10, <1>11,
           <1>12, <1>13, <1>14, <1>15, <1>16
        DEF Next, ReportStep, StageStep

LEMMA IInvHolds == Spec => []IInv
<1>1. Init /\ TypeOK => IInv
  <2> SUFFICES ASSUME Init, TypeOK PROVE IInv
    OBVIOUS
  <2>1. WaveBarrier /\ DependenciesEnded
    BY DEF Init, WaveBarrier, DependenciesEnded
  <2>2. InputsFinal
    BY DEF Init, InputsFinal, Begun
  <2> QED BY <2>1, <2>2 DEF IInv
<1> QED BY <1>1, IInvInductive, TypeCorrect, PTL DEF Spec

(* What a stage read from _data_store was complete and stays true: for any  *)
(* registered stages, whatever fails and however the stages of a wave       *)
(* interleave.                                                              *)
THEOREM StageInputsFinal == Spec => []InputsFinal
<1>1. IInv => InputsFinal
  BY DEF IInv
<1> QED BY <1>1, IInvHolds, PTL

-----------------------------------------------------------------------------
(* A stage of the current wave that completes or fails ends in the graph. *)
LEMMA EndingStageEnds ==
  ASSUME IInv, NEW s \in wave, ~Ended(s), stage[s] # "waiting",
         NEW st \in {"completed", "failed"},
         stage' = [stage EXCEPT ![s] = st], UNCHANGED pc
  PROVE  Graph!End(s)
<1>1. s \in Stages /\ pc = "running" /\ pc' = "running"
  BY DEF IInv, TypeOK, WaveBarrier
<1>2. \A u \in Stages : stage'[u] = IF u = s THEN st ELSE stage[u]
  BY DEF IInv, TypeOK
<1>3. Phase = "active" /\ Phase' = Phase
  BY <1>1 DEF Phase
<1>4. Status[s] = "started"
  BY <1>1 DEF Status
<1>5. Status' = [Status EXCEPT ![s] = "ended"]
  BY <1>1, <1>2 DEF Status, Ended
<1> QED BY <1>3, <1>4, <1>5 DEF Graph!End

(* The other steps of the wave loop are invisible in the graph. *)
LEMMA InvisibleStep ==
  ASSUME \A s \in Stages : /\ stage'[s] = "waiting" <=> stage[s] = "waiting"
                           /\ Ended(s)' <=> Ended(s)
  PROVE  Status' = Status
BY DEF Status

LEMMA ActiveStep == ASSUME UNCHANGED pc PROVE Phase' = Phase
BY DEF Phase

LEMMA StepsOfTheGraph == IInv /\ [Next]_vars => [Graph!Next]_Graph!vars
<1> SUFFICES ASSUME IInv, [Next]_vars PROVE Graph!Next \/ UNCHANGED Graph!vars
  OBVIOUS
<1> USE StagesAssumption
<1>s. ASSUME Status' = Status, Phase' = Phase PROVE UNCHANGED Graph!vars
  BY <1>s DEF Graph!vars
<1>w. \A s \in wave : s \in Stages
  BY DEF IInv, TypeOK
<1>t. \A s \in Stages : \A st :
        /\ [stage EXCEPT ![s] = st][s] = st
        /\ \A u \in Stages \ {s} : [stage EXCEPT ![s] = st][u] = stage[u]
  BY DEF IInv, TypeOK
<1>1. CASE StartRun
  <2>1. pc # "running" /\ pc' = "running" /\ stage' = [s \in Stages |-> "waiting"]
    BY <1>1 DEF StartRun
  <2>2. Phase # "active" /\ Phase' = "active"
    BY <2>1 DEF Phase
  <2>3. Status' = [s \in Stages |-> "waiting"]
    BY <2>1 DEF Status
  <2> QED BY <2>2, <2>3 DEF Graph!Next, Graph!Launch
<1>2. CASE NewProcess
  <2>1. /\ pc \in {"ended", "cancelled", "dead"} /\ pc' = "new"
        /\ stage' = [s \in Stages |-> "waiting"]
    BY <1>2 DEF NewProcess
  <2>2. Phase # "active" /\ Phase' = "idle"
    BY <2>1 DEF Phase
  <2>3. Status' = [s \in Stages |-> "waiting"]
    BY <2>1 DEF Status
  <2> QED BY <2>2, <2>3 DEF Graph!Next, Graph!Forget
<1>3. CASE StartWave
  <2>1. pc = "running" /\ wave = {} /\ UNCHANGED pc
    BY <1>3 DEF StartWave
  <2>2. \A s \in Stages : stage'[s] = IF s \in Plan!Ready THEN "created" ELSE stage[s]
    BY <1>3 DEF StartWave
  <2>3. \A s \in Stages : stage[s] = "waiting" \/ Ended(s)
    BY <2>1 DEF IInv, WaveBarrier
  <2>4. Plan!Ready \subseteq Graph!CanStart
    <3> SUFFICES ASSUME NEW s \in Plan!Ready PROVE s \in Graph!CanStart
      OBVIOUS
    <3>1. s \in Stages /\ stage[s] = "waiting"
      BY ReadyIs
    <3>2. \A t \in DependsOn(s) \cap Stages : stage[t] # "waiting"
      BY ReadyIs
    <3>3. Status[s] = "waiting"
      BY <3>1 DEF Status
    <3>4. \A t \in Needs[s] : Status[t] = "ended"
      BY <2>3, <3>1, <3>2 DEF Needs, Status
    <3> QED BY <3>1, <3>3, <3>4 DEF Graph!CanStart
  <2>5. Status' = [s \in Stages |-> IF s \in Plan!Ready THEN "started" ELSE Status[s]]
    <3>1. \A s \in Plan!Ready : s \in Stages /\ stage'[s] = "created"
      BY <2>2, ReadyIs
    <3>2. \A s \in Stages \ Plan!Ready : stage'[s] = stage[s]
      BY <2>2
    <3> QED BY <3>1, <3>2 DEF Status, Ended
  <2>6. Phase = "active" /\ Phase' = Phase
    BY <2>1 DEF Phase
  <2> QED BY <2>4, <2>5, <2>6 DEF Graph!Next, Graph!StartSome
<1>4. CASE EndWave
  <2>1. UNCHANGED <<pc, stage>>
    BY <1>4 DEF EndWave
  <2> QED BY <2>1, <1>s, InvisibleStep, ActiveStep DEF Ended
<1>5. CASE EndRun
  <2>1. pc = "running" /\ pc' = "ended" /\ wave = {} /\ Plan!Ready = {}
        /\ UNCHANGED stage
    BY <1>5 DEF EndRun
  <2>2. \A s \in Stages : Ended(s)
    BY <2>1, NoReadyNoWaiting DEF IInv, WaveBarrier
  <2>3. \A s \in Stages : Status[s] = "ended"
    BY <2>2 DEF Status, Ended
  <2>4. Status' = Status
    BY <2>1, InvisibleStep DEF Ended
  <2>5. Phase = "active" /\ Phase' = "concluded"
    BY <2>1 DEF Phase
  <2> QED BY <2>3, <2>4, <2>5 DEF Graph!Next, Graph!Conclude
<1>6. ASSUME pc = "running", pc' \in {"cancelled", "dead"},
             stage' = Abandoned \/ UNCHANGED stage
      PROVE  Graph!Next
  <2>1. Status' = Status
    BY <1>6, InvisibleStep DEF Abandoned, Ended
  <2>2. Phase = "active" /\ Phase' = "idle"
    BY <1>6 DEF Phase
  <2> QED BY <2>1, <2>2 DEF Graph!Next, Graph!Abandon
<1>7. CASE Cancel \/ CancelClose
  BY <1>6, <1>7 DEF Cancel, CancelClose
<1>8. CASE Kill
  BY <1>6, <1>8 DEF Kill
<1>9. ASSUME NEW s \in wave, stage[s] = "created",
             stage' = [stage EXCEPT ![s] = "running"], UNCHANGED pc
      PROVE  UNCHANGED Graph!vars
  <2>1. \A u \in Stages : /\ stage'[u] = "waiting" <=> stage[u] = "waiting"
                          /\ Ended(u)' <=> Ended(u)
    BY <1>9, <1>t, <1>w DEF Ended
  <2> QED BY <1>9, <1>s, <2>1, InvisibleStep, ActiveStep
<1>10. ASSUME NEW s \in wave, stage[s] \in {"created", "running"},
              NEW st \in {"completed", "failed"},
              stage' = [stage EXCEPT ![s] = st], UNCHANGED pc
       PROVE  Graph!Next
  <2>1. Graph!End(s)
    BY <1>10, EndingStageEnds DEF Ended
  <2> QED BY <2>1, <1>w DEF Graph!Next
<1>11. CASE ReportStep
  <2>1. CASE BeginReport
    BY <2>1, <1>9 DEF BeginReport
  <2>2. CASE WriteReport
    <3>1. UNCHANGED <<pc, stage>>
      BY <2>2 DEF WriteReport
    <3> QED BY <3>1, <1>s, InvisibleStep, ActiveStep DEF Ended
  <2>3. CASE FailReport
    BY <2>3, <1>10 DEF FailReport, Reporting
  <2>4. CASE CompleteReport
    BY <2>4, <1>10 DEF CompleteReport, Reporting
  <2> QED BY <1>11, <2>1, <2>2, <2>3, <2>4 DEF ReportStep
<1>12. ASSUME NEW s \in Stages, StageStep(s) PROVE Graph!Next \/ UNCHANGED Graph!vars
  <2>1. CASE Begin(s)
    BY <2>1, <1>9 DEF Begin
  <2>2. CASE FailToLoad(s)
    BY <2>2, <1>10 DEF FailToLoad
  <2>3. CASE Fetch(s)
    <3>1. UNCHANGED <<pc, stage>>
      BY <2>3 DEF Fetch
    <3> QED BY <3>1, <1>s, InvisibleStep, ActiveStep DEF Ended
  <2>4. CASE Return(s)
    BY <2>4, <1>10 DEF Return
  <2> QED BY <1>12, <2>1, <2>2, <2>3, <2>4 DEF StageStep
<1>13. CASE UNCHANGED vars
  <2>1. UNCHANGED <<pc, stage>>
    BY <1>13 DEF vars
  <2> QED BY <2>1, <1>s, InvisibleStep, ActiveStep DEF Ended
<1> QED BY <1>1, <1>2, <1>3, <1>4, <1>5, <1>7, <1>8, <1>11, <1>12, <1>13 DEF Next

(* The wave loop of run() implements the stage graph: a stage starts after  *)
(* all it requires has ended, once per run, and run() returns only when     *)
(* every stage has ended.                                                   *)
THEOREM WavesImplementGraph == Spec => ImplementsGraph
<1>1. Init => Graph!Init
  <2> SUFFICES ASSUME Init PROVE Graph!Init
    OBVIOUS
  <2>1. Phase = "idle"
    BY DEF Init, Phase
  <2>2. Status = [s \in Stages |-> "waiting"]
    BY DEF Init, Status
  <2> QED BY <2>1, <2>2 DEF Graph!Init
<1> QED BY <1>1, StepsOfTheGraph, IInvHolds, PTL DEF Spec, ImplementsGraph, Graph!Spec

-----------------------------------------------------------------------------
(* The files of the current run are the first `step` ones, and no older     *)
(* file is before a newer; a stage that has not begun wrote none, one that  *)
(* failed not all, one that completed all three.                            *)
FirstAreOfRun(k) == \A i \in 1 .. 3 : files[i] = run <=> i <= k

NewestFirst ==
  \A i, j \in 1 .. 3 : i < j => files[i] = 0 \/ files[i] >= files[j]

FilesOfRun ==
  /\ \A i \in 1 .. 3 : files[i] <= run
  /\ NewestFirst
  /\ pc # "new" => run > 0 /\ FirstAreOfRun(step)
  /\ \E k \in 0 .. 3 : FirstAreOfRun(k)

StepOfStage ==
  pc = "running" /\ "report_builder" \in Stages =>
    /\ stage["report_builder"] \in {"waiting", "created"} => step = 0
    /\ stage["report_builder"] = "completed" => step = 3
    /\ stage["report_builder"] = "failed" => step < 3
    /\ stage["report_builder"] # "cancelled"

FInv == IInv /\ FilesOfRun /\ StepOfStage

(* A step that touches no file and leaves the report stage alone keeps it. *)
LEMMA OtherStepKeepsFInv ==
  ASSUME FInv, IInv', UNCHANGED <<files, run, step>>,
         \/ pc' = pc
         \/ pc # "new" /\ pc' \in {"ended", "cancelled", "dead"},
         pc' = pc /\ "report_builder" \in Stages =>
           \/ stage'["report_builder"] = stage["report_builder"]
           \/ /\ stage["report_builder"] = "waiting"
              /\ stage'["report_builder"] = "created"
           \/ /\ stage["report_builder"] = "created"
              /\ stage'["report_builder"] \in {"running", "failed"}
           \/ stage'["report_builder"] = "running"
           \/ step = 3 /\ stage'["report_builder"] = "completed"
  PROVE  FInv'
<1>1. FilesOfRun'
  BY DEF FInv, FilesOfRun, FirstAreOfRun, NewestFirst
<1>2. StepOfStage'
  BY DEF FInv, StepOfStage
<1> QED BY <1>1, <1>2 DEF FInv

LEMMA FInvInductive == FInv /\ IInv' /\ [Next]_vars => FInv'
<1> SUFFICES ASSUME FInv, IInv', [Next]_vars PROVE FInv'
  OBVIOUS
<1> DEFINE r == "report_builder"
<1>r. run \in Nat /\ step \in 0 .. 3 /\ files \in [1 .. 3 -> Nat]
  BY MaxRunsAssumption DEF FInv, IInv, TypeOK, Runs
<1>t. \A s \in Stages : \A st :
        /\ [stage EXCEPT ![s] = st][s] = st
        /\ \A u \in Stages \ {s} : [stage EXCEPT ![s] = st][u] = stage[u]
  BY DEF FInv, IInv, TypeOK
<1>c. \A i \in 1 .. 3 : files' \in Interrupted(i) =>
        /\ \A j \in (1 .. 3) \ {i} : files'[j] = files[j]
        /\ files'[i] \in {0, files[i]}
  BY <1>r DEF Interrupted
<1>i. ASSUME pc = "running", step < 3, files' \in Interrupted(step + 1),
             UNCHANGED <<run, step>>
      PROVE  FilesOfRun'
  <2>1. run > 0 /\ FirstAreOfRun(step)
    BY <1>i DEF FInv, FilesOfRun
  <2>2. FirstAreOfRun(step)' /\ \A i \in 1 .. 3 : files'[i] <= run
    BY <1>i, <1>c, <1>r, <2>1 DEF FirstAreOfRun, FInv, FilesOfRun
  <2>3. NewestFirst'
    <3> SUFFICES ASSUME NEW j \in 1 .. 3, NEW k \in 1 .. 3, j < k
                 PROVE  files'[j] = 0 \/ files'[j] >= files'[k]
      BY DEF NewestFirst
    <3>1. files[j] = 0 \/ files[j] >= files[k]
      BY DEF FInv, FilesOfRun, NewestFirst
    <3>2. files'[j] \in {0, files[j]} /\ files'[k] \in {0, files[k]}
      BY <1>i, <1>c, <1>r
    <3> QED BY <3>1, <3>2, <1>r
  <2> QED BY <1>i, <1>r, <2>1, <2>2, <2>3 DEF FilesOfRun, FirstAreOfRun
<1>1. CASE StartRun
  <2>1. /\ run' = run + 1 /\ step' = 0 /\ files' = files /\ pc' = "running"
        /\ stage' = [s \in Stages |-> "waiting"]
    BY <1>1 DEF StartRun
  <2>2. \A i \in 1 .. 3 : files'[i] < run'
    BY <2>1, <1>r DEF FInv, FilesOfRun
  <2>3. FirstAreOfRun(step)' /\ run' > 0 /\ 0 \in 0 .. 3
    BY <2>1, <2>2, <1>r DEF FirstAreOfRun
  <2>4. FilesOfRun'
    BY <2>1, <2>2, <2>3, <1>r DEF FInv, FilesOfRun, FirstAreOfRun, NewestFirst
  <2>5. StepOfStage'
    BY <2>1 DEF StepOfStage
  <2> QED BY <2>4, <2>5 DEF FInv
<1>2. CASE NewProcess
  <2>1. pc' = "new" /\ UNCHANGED <<run, files>>
    BY <1>2 DEF NewProcess
  <2>2. FilesOfRun' /\ StepOfStage'
    BY <2>1 DEF FInv, FilesOfRun, FirstAreOfRun, NewestFirst, StepOfStage
  <2> QED BY <2>2 DEF FInv
<1>3. CASE StartWave
  <2>1. UNCHANGED <<files, run, step, pc>>
    BY <1>3 DEF StartWave, reportVars
  <2>2. \A s \in Stages : \/ stage'[s] = stage[s]
                          \/ stage[s] = "waiting" /\ stage'[s] = "created"
    BY <1>3, ReadyIs DEF StartWave
  <2> QED BY <2>1, <2>2, OtherStepKeepsFInv
<1>4. CASE EndWave
  BY <1>4, OtherStepKeepsFInv DEF EndWave, reportVars
<1>5. CASE EndRun
  BY <1>5, OtherStepKeepsFInv DEF EndRun, reportVars
<1>6. CASE Cancel \/ CancelClose
  BY <1>6, OtherStepKeepsFInv DEF Cancel, CancelClose, reportVars
<1>7. CASE Kill
  <2>1. pc = "running" /\ pc' = "dead" /\ UNCHANGED <<run, step>>
    BY <1>7 DEF Kill
  <2>2. FilesOfRun'
    <3>1. CASE Reporting /\ step < 3
      BY <1>7, <1>i, <2>1, <3>1 DEF Kill
    <3>2. CASE ~(Reporting /\ step < 3)
      <4>1. files' = files
        BY <1>7, <3>2 DEF Kill
      <4> QED BY <2>1, <4>1 DEF FInv, FilesOfRun, FirstAreOfRun, NewestFirst
    <3> QED BY <3>1, <3>2
  <2>3. StepOfStage'
    BY <2>1 DEF StepOfStage
  <2> QED BY <2>2, <2>3 DEF FInv
<1>8. CASE BeginReport
  <2>1. r \in Stages /\ stage'[r] = "running" /\ UNCHANGED <<files, run, step, pc>>
    BY <1>8, <1>t DEF BeginReport, FInv, IInv, TypeOK
  <2> QED BY <2>1, OtherStepKeepsFInv
<1>9. CASE WriteReport
  <2>1. /\ step < 3 /\ step' = step + 1 /\ files' = [files EXCEPT ![step + 1] = run]
        /\ stage[r] = "running"
        /\ UNCHANGED <<run, pc, stage>>
    BY <1>9 DEF WriteReport, Reporting
  <2>2. pc = "running"
    BY <1>9 DEF WriteReport, Reporting, FInv, IInv, WaveBarrier
  <2>3. /\ step + 1 \in 1 .. 3 /\ files'[step + 1] = run
        /\ \A i \in (1 .. 3) \ {step + 1} : files'[i] = files[i]
    BY <2>1, <1>r
  <2>4. run > 0 /\ FirstAreOfRun(step)
    BY <2>2 DEF FInv, FilesOfRun
  <2>5. FirstAreOfRun(step)' /\ \A i \in 1 .. 3 : files'[i] <= run
    BY <2>1, <2>3, <2>4, <1>r DEF FirstAreOfRun, FInv, FilesOfRun
  <2>8. NewestFirst'
    <3> SUFFICES ASSUME NEW j \in 1 .. 3, NEW k \in 1 .. 3, j < k
                 PROVE  files'[j] = 0 \/ files'[j] >= files'[k]
      BY DEF NewestFirst
    <3>1. CASE j <= step + 1
      BY <2>1, <2>3, <2>4, <2>5, <3>1, <1>r DEF FirstAreOfRun
    <3>2. CASE j > step + 1
      BY <2>1, <2>3, <3>2, <1>r DEF FInv, FilesOfRun, NewestFirst
    <3> QED BY <3>1, <3>2, <1>r
  <2>6. FilesOfRun'
    BY <2>1, <2>3, <2>4, <2>5, <2>8, <1>r DEF FilesOfRun, FirstAreOfRun
  <2>7. StepOfStage'
    BY <2>1 DEF StepOfStage
  <2> QED BY <2>6, <2>7 DEF FInv
<1>10. CASE FailReport
  <2>1. /\ step < 3 /\ files' \in Interrupted(step + 1)
        /\ r \in Stages /\ stage'[r] = "failed"
        /\ UNCHANGED <<run, pc, step>>
    BY <1>10, <1>t DEF FailReport, Reporting, FInv, IInv, TypeOK
  <2>2. pc = "running"
    BY <1>10 DEF FailReport, Reporting, FInv, IInv, WaveBarrier
  <2>3. FilesOfRun'
    BY <2>1, <2>2, <1>i
  <2>4. StepOfStage'
    BY <2>1 DEF StepOfStage
  <2> QED BY <2>3, <2>4 DEF FInv
<1>11. CASE CompleteReport
  <2>1. /\ r \in Stages /\ stage'[r] = "completed" /\ step = 3
        /\ UNCHANGED <<files, run, step, pc>>
    BY <1>11, <1>t DEF CompleteReport, Reporting, FInv, IInv, TypeOK, reportVars
  <2> QED BY <2>1, OtherStepKeepsFInv
<1>12. ASSUME NEW s \in Stages, StageStep(s) PROVE FInv'
  <2>1. CASE Begin(s)
    <3>1. /\ r \in Stages => stage'[r] = stage[r]
          /\ UNCHANGED <<files, run, step, pc>>
      BY <2>1, <1>t DEF Begin, reportVars
    <3> QED BY <3>1, OtherStepKeepsFInv
  <2>2. CASE FailToLoad(s)
    <3>1. /\ r \in Stages => \/ stage'[r] = stage[r]
                             \/ stage[r] = "created" /\ stage'[r] = "failed"
          /\ UNCHANGED <<files, run, step, pc>>
      BY <2>2, <1>t DEF FailToLoad, reportVars
    <3> QED BY <3>1, OtherStepKeepsFInv
  <2>3. CASE Fetch(s)
    BY <2>3, OtherStepKeepsFInv DEF Fetch, reportVars
  <2>4. CASE Return(s)
    <3>1. /\ r \in Stages => stage'[r] = stage[r]
          /\ UNCHANGED <<files, run, step, pc>>
      BY <2>4, <1>t DEF Return, reportVars
    <3> QED BY <3>1, OtherStepKeepsFInv
  <2> QED BY <1>12, <2>1, <2>2, <2>3, <2>4 DEF StageStep
<1>13. CASE UNCHANGED vars
  BY <1>13, OtherStepKeepsFInv DEF vars
<1> QED BY <1>1, <1>2, <1>3, <1>4, <1>5, <1>6, <1>7, <1>8, <1>9, <1>10, <1>11,
           <1>12, <1>13 DEF Next, ReportStep

(* The report files are written in order and completely, and never one of   *)
(* an older run before one of a newer, for any stages and any number of     *)
(* runs, with write failures and kills between any two steps.               *)
THEOREM ReportFilesInOrder == Spec => []ReportsWrittenInOrder
<1>1. Init /\ IInv => FInv
  <2> SUFFICES ASSUME Init, IInv PROVE FInv
    OBVIOUS
  <2>1. FilesOfRun
    BY DEF Init, FilesOfRun, FirstAreOfRun, NewestFirst
  <2>2. StepOfStage
    BY DEF Init, StepOfStage
  <2> QED BY <2>1, <2>2 DEF FInv
<1>2. FInv => ReportsWrittenInOrder
  <2> SUFFICES ASSUME FInv PROVE ReportsWrittenInOrder
    OBVIOUS
  <2>1. run \in Nat /\ step \in 0 .. 3 /\ files \in [1 .. 3 -> Nat]
    BY MaxRunsAssumption DEF FInv, IInv, TypeOK, Runs
  <2>2. \A i, j \in 1 .. 3 : i < j /\ files[j] = run => files[i] = run
    <3>1. PICK k \in 0 .. 3 : FirstAreOfRun(k)
      BY DEF FInv, FilesOfRun
    <3> QED BY <3>1 DEF FirstAreOfRun
  <2>3. pc = "running" => (files[3] = run <=> step = 3)
    BY <2>1 DEF FInv, FilesOfRun, FirstAreOfRun
  <2>4. "report_builder" \in Stages =>
          stage["report_builder"] \in {"waiting", "created", "running",
                                      "completed", "failed", "cancelled"}
    BY DEF FInv, IInv, TypeOK
  <2>5. \A i, j \in 1 .. 3 : i < j => files[i] = 0 \/ files[i] >= files[j]
    BY DEF FInv, FilesOfRun, NewestFirst
  <2> QED BY <2>1, <2>2, <2>3, <2>4, <2>5
          DEF FInv, StepOfStage, ReportsWrittenInOrder
<1> QED BY <1>1, <1>2, FInvInductive, IInvHolds, PTL DEF Spec


-----------------------------------------------------------------------------
(* What a stage stored is told by its module: an entry of the store was     *)
(* written through the module, which is made once and kept, so that a stage *)
(* that fails to load has never stored anything.                            *)
Modules == Stages \ {"report_builder"}

CacheInv ==
  /\ pc = "running" => shared_client # 0
  /\ \A s \in Modules :
       /\ module[s] = 0 => store[s].run = 0
       /\ stage[s] \in {"running", "completed"} => module[s] # 0
       /\ stage[s] = "failed" => module[s] = 0
       /\ pc = "running" /\ stage[s] = "completed" => store[s].run = run

LEMMA CacheInvInductive == IInv /\ CacheInv /\ [Next]_vars => CacheInv'
<1> SUFFICES ASSUME IInv, CacheInv, [Next]_vars PROVE CacheInv'
  OBVIOUS
<1>0. TypeOK /\ (wave # {} => pc = "running")
  BY DEF IInv, WaveBarrier
<1>1. CASE StartRun
  <2>1. shared_client' # 0
    BY <1>0, <1>1, MaxRunsAssumption DEF StartRun, TypeOK, Runs
  <2>2. /\ stage' = [s \in Stages |-> "waiting"]
        /\ UNCHANGED <<module, store>>
    BY <1>1 DEF StartRun
  <2> QED BY <2>1, <2>2 DEF CacheInv, Modules
<1>2. CASE NewProcess
  <2>1. /\ pc' = "new" /\ stage' = [s \in Stages |-> "waiting"]
        /\ store' = Nothing
    BY <1>2 DEF NewProcess
  <2> QED BY <2>1 DEF CacheInv, Modules, Nothing, Absent
<1>3. CASE StartWave
  <2>1. \A s \in Stages : stage'[s] = stage[s] \/ stage'[s] = "created"
    BY <1>3 DEF StartWave
  <2>2. UNCHANGED <<pc, run, module, shared_client, store>>
    BY <1>3 DEF StartWave
  <2> QED BY <2>1, <2>2 DEF CacheInv, Modules
<1>4. CASE Cancel \/ Kill
  <2>1. /\ pc' # "running" /\ stage' = Abandoned
        /\ UNCHANGED <<module, store>>
    BY <1>4 DEF Cancel, Kill
  <2>2. \A s \in Stages : stage'[s] = stage[s] \/ stage'[s] = "cancelled"
    BY <2>1 DEF Abandoned
  <2> QED BY <2>1, <2>2 DEF CacheInv, Modules
<1>5. CASE EndRun \/ CancelClose
  <2>1. pc' # "running" /\ UNCHANGED <<module, stage, store>>
    BY <1>5 DEF EndRun, CancelClose
  <2> QED BY <2>1 DEF CacheInv
<1>6. CASE EndWave \/ WriteReport \/ UNCHANGED vars
  <2>1. UNCHANGED <<pc, run, stage, module, shared_client, store>>
    BY <1>6 DEF EndWave, WriteReport, vars
  <2> QED BY <2>1 DEF CacheInv
<1>7. CASE BeginReport \/ FailReport \/ CompleteReport
  <2>1. /\ \A s \in Modules : stage'[s] = stage[s] /\ store'[s] = store[s]
        /\ UNCHANGED <<pc, run, module, shared_client>>
    BY <1>0, <1>7 DEF BeginReport, FailReport, CompleteReport, TypeOK, Modules
  <2> QED BY <2>1 DEF CacheInv
<1>8. ASSUME NEW s \in Stages, Begin(s) PROVE CacheInv'
  <2>1. s \in Modules /\ pc = "running" /\ shared_client # 0
    BY <1>0, <1>8 DEF Begin, CacheInv, Modules
  <2>2. module' = [module EXCEPT ![s] = IF @ = 0 THEN shared_client ELSE @]
    BY <1>8 DEF Begin
  <2>3. module'[s] # 0 /\ \A u \in Modules \ {s} : module'[u] = module[u]
    BY <1>0, <2>1, <2>2 DEF TypeOK, Modules
  <2>4. stage'[s] = "running" /\ \A u \in Modules \ {s} : stage'[u] = stage[u]
    BY <1>0, <1>8 DEF Begin, TypeOK, Modules
  <2>5. UNCHANGED <<pc, run, shared_client, store>>
    BY <1>8 DEF Begin
  <2> QED BY <2>1, <2>3, <2>4, <2>5 DEF CacheInv
<1>9. ASSUME NEW s \in Stages, FailToLoad(s) PROVE CacheInv'
  <2>1. module[s] = 0 /\ UNCHANGED <<pc, run, module, shared_client, store>>
    BY <1>9 DEF FailToLoad
  <2>2. stage'[s] = "failed" /\ \A u \in Modules \ {s} : stage'[u] = stage[u]
    BY <1>0, <1>9 DEF FailToLoad, TypeOK, Modules
  <2> QED BY <2>1, <2>2 DEF CacheInv
<1>10. ASSUME NEW s \in Stages, Fetch(s) PROVE CacheInv'
  <2>1. UNCHANGED <<pc, run, stage, module, shared_client, store>>
    BY <1>10 DEF Fetch
  <2> QED BY <2>1 DEF CacheInv
<1>11. ASSUME NEW s \in Stages, Return(s) PROVE CacheInv'
  <2>1. s \in Modules /\ stage[s] = "running" /\ module[s] # 0
    BY <1>0, <1>11 DEF Return, CacheInv, Modules
  <2>2. PICK b \in Filled(s) : store' = [store EXCEPT ![s] = [run |-> run, filled |-> b]]
    BY <1>11 DEF Return
  <2>3. store'[s].run = run /\ \A u \in Modules \ {s} : store'[u] = store[u]
    BY <1>0, <2>1, <2>2 DEF TypeOK, Modules
  <2>4. stage'[s] = "completed" /\ \A u \in Modules \ {s} : stage'[u] = stage[u]
    BY <1>0, <1>11 DEF Return, TypeOK, Modules
  <2>5. UNCHANGED <<pc, run, module, shared_client>>
    BY <1>11 DEF Return
  <2> QED BY <2>1, <2>3, <2>4, <2>5 DEF CacheInv
<1> QED BY <1>1, <1>2, <1>3, <1>4, <1>5, <1>6, <1>7, <1>8, <1>9, <1>10, <1>11
        DEF Next, ReportStep, StageStep

(* However often run() is called on one manager, a stage reads what its     *)
(* dependencies stored in this run, or nothing if they failed.              *)
THEOREM StageInputsOfThisRun == Spec => []InputsOfThisRun
<1>1. Init => CacheInv
  BY DEF Init, CacheInv, Modules, Nothing, Absent
<1>2. IInv /\ CacheInv => InputsOfThisRun
  <2> SUFFICES ASSUME IInv, CacheInv, pc = "running", NEW s \in Begun,
                      NEW t \in Reads(s) \cap Stages
               PROVE  inputs[s][t].run = IF stage[t] = "completed" THEN run ELSE 0
    BY DEF InputsOfThisRun
  <2>1. t \in Modules
    BY DEF Modules, Reads, JSAnalyzers
  <2>2. Ended(t) /\ inputs[s][t] = store[t]
    BY DEF IInv, InputsFinal
  <2> QED BY <2>1, <2>2 DEF CacheInv, Ended
<1> QED BY <1>1, <1>2, CacheInvInductive, IInvHolds, PTL DEF Spec

-----------------------------------------------------------------------------
(* An open client is that of some module, none is newer than the run, and   *)
(* while a module holds the client made in this run, it is the shared one.  *)
ClientInv ==
  /\ open \subseteq {module[s] : s \in Stages} \ {0}
  /\ shared_client <= run
  /\ \A s \in Stages :
       /\ module[s] <= run
       /\ pc = "running" /\ module[s] = run => shared_client = run
  /\ pc = "ended" => run \notin open

LEMMA ClientInvInductive == IInv /\ CacheInv /\ ClientInv /\ [Next]_vars => ClientInv'
<1> SUFFICES ASSUME IInv, CacheInv, ClientInv, [Next]_vars PROVE ClientInv'
  OBVIOUS
<1>0. TypeOK /\ (wave # {} => pc = "running")
  BY DEF IInv, WaveBarrier
<1>n. /\ run \in Nat /\ shared_client \in Nat
      /\ \A s \in Stages : module[s] \in Nat
  BY <1>0, MaxRunsAssumption DEF TypeOK, Runs
<1>1. CASE StartRun
  <2>1. pc' = "running" /\ run' = run + 1 /\ UNCHANGED <<module, open>>
    BY <1>1 DEF StartRun
  <2>2. shared_client' \in {run + 1, shared_client}
    BY <1>1 DEF StartRun
  <2>3. \A s \in Stages : module'[s] <= run' /\ module'[s] # run'
    BY <1>n, <2>1 DEF ClientInv
  <2>4. shared_client' <= run'
    BY <1>n, <2>1, <2>2 DEF ClientInv
  <2> QED BY <2>1, <2>3, <2>4 DEF ClientInv
<1>2. CASE NewProcess
  <2>1. /\ pc' = "new" /\ open' = {} /\ shared_client' = 0 /\ run' = run
        /\ module' = [s \in Stages |-> 0]
    BY <1>2 DEF NewProcess
  <2> QED BY <1>n, <2>1 DEF ClientInv
<1>3. CASE Cancel \/ Kill
  <2>1. /\ pc' \in {"cancelled", "dead"}
        /\ UNCHANGED <<run, module, shared_client, open>>
    BY <1>3 DEF Cancel, Kill
  <2> QED BY <2>1 DEF ClientInv
<1>4. CASE EndRun \/ CancelClose
  <2>1. /\ pc = "running" /\ pc' \in {"ended", "cancelled"}
        /\ open' = open \ {shared_client} /\ UNCHANGED <<run, module>>
        /\ shared_client' \in {0, shared_client}
    BY <1>4 DEF EndRun, CancelClose
  <2>2. run \notin open'
    BY <2>1 DEF ClientInv
  <2> QED BY <1>n, <2>1, <2>2 DEF ClientInv
<1>5. CASE StartWave \/ EndWave \/ ReportStep \/ UNCHANGED vars
  <2>1. UNCHANGED <<pc, run, module, shared_client, open>>
    BY <1>5 DEF StartWave, EndWave, ReportStep, BeginReport, WriteReport, FailReport,
                CompleteReport, reportVars, vars
  <2> QED BY <2>1 DEF ClientInv
<1>6. ASSUME NEW s \in Stages, Begin(s) PROVE ClientInv'
  <2>1. pc = "running" /\ UNCHANGED <<pc, run, shared_client, open>>
    BY <1>0, <1>6 DEF Begin
  <2>2. module' = [module EXCEPT ![s] = IF @ = 0 THEN shared_client ELSE @]
    BY <1>6 DEF Begin
  <2>3. \A u \in Stages : \/ module'[u] = module[u]
                          \/ module[u] = 0 /\ module'[u] = shared_client
    BY <1>0, <2>2 DEF TypeOK
  <2>4. open' \subseteq {module'[u] : u \in Stages} \ {0}
    BY <2>1, <2>3 DEF ClientInv
  <2> QED BY <2>1, <2>3, <2>4 DEF ClientInv
<1>7. ASSUME NEW s \in Stages, FailToLoad(s) \/ Return(s) PROVE ClientInv'
  <2>1. UNCHANGED <<pc, run, module, shared_client, open>>
    BY <1>7 DEF FailToLoad, Return
  <2> QED BY <2>1 DEF ClientInv
<1>8. ASSUME NEW s \in Stages, Fetch(s) PROVE ClientInv'
  <2>1. /\ pc = "running" /\ s \in Modules /\ stage[s] = "running"
        /\ open' = open \cup {module[s]}
        /\ UNCHANGED <<pc, run, module, shared_client>>
    BY <1>0, <1>8 DEF Fetch, Modules, UsesHttp, NeverSuspends
  <2>2. module[s] # 0
    BY <2>1 DEF CacheInv
  <2>3. open' \subseteq {module'[u] : u \in Stages} \ {0}
    BY <2>1, <2>2 DEF ClientInv
  <2> QED BY <2>1, <2>3 DEF ClientInv
<1> QED BY <1>1, <1>2, <1>3, <1>4, <1>5, <1>6, <1>7, <1>8 DEF Next, StageStep

(* A run that returns has closed the client it made, however often the      *)
(* manager was used before; one used once leaves no client open.            *)
THEOREM AllClientsClosed == Spec => []ClientsClosed
<1>1. Init => CacheInv /\ ClientInv
  BY DEF Init, CacheInv, ClientInv, Modules, Nothing, Absent
<1>2. ClientInv => ClientsClosed
  BY DEF ClientInv, ClientsClosed
<1> QED BY <1>1, <1>2, CacheInvInductive, ClientInvInductive, IInvHolds, PTL DEF Spec

-----------------------------------------------------------------------------
(* Each wave that ended has left one entry per stage, no wave holds a stage *)
(* and its dependency, and report_builder's comes after all others.         *)
EntriesInv ==
  /\ \A s \in Stages : \A k \in Runs : k > run => stage_results[s][k] = 0
  /\ pc = "running" =>
       \A s \in Stages :
         stage_results[s][run] = IF s \in wave \/ stage[s] = "waiting" THEN 0 ELSE 1
  /\ \A s \in wave : DependsOn(s) \cap wave = {}
  /\ ReportListsEveryStage

LEMMA ReportDependsOnAll ==
  \A s \in AllStages \ {"report_builder"} : s \in DependsOn("report_builder")
BY DEF DependsOn

LEMMA EntriesInvInductive == IInv /\ EntriesInv /\ [Next]_vars => EntriesInv'
<1> SUFFICES ASSUME IInv, EntriesInv, [Next]_vars PROVE EntriesInv'
  OBVIOUS
<1> DEFINE r == "report_builder"
<1>0. TypeOK /\ WaveBarrier
  BY DEF IInv
<1>n. run \in Runs /\ Runs \subseteq Nat
  BY <1>0, MaxRunsAssumption DEF TypeOK, Runs
<1>e. ASSUME UNCHANGED <<run, stage_results>>
      PROVE  \A s \in Stages : \A k \in Runs : k > run' => stage_results'[s][k] = 0
  BY <1>e DEF EntriesInv
<1>1. CASE StartRun
  <2>1. /\ pc # "running" /\ pc' = "running" /\ run' = run + 1 /\ run' \in Runs
        /\ UNCHANGED <<wave, stage_results>>
    BY <1>1, <1>n, MaxRunsAssumption DEF StartRun, Runs
  <2>2. stage' = [s \in Stages |-> "waiting"] /\ wave = {}
    BY <1>0, <1>1, <2>1 DEF StartRun, WaveBarrier
  <2>3. \A s \in Stages : \A k \in Runs : k > run' => stage_results'[s][k] = 0
    BY <1>n, <2>1 DEF EntriesInv
  <2>4. \A s \in Stages : stage_results'[s][run'] = 0
    BY <1>n, <2>1 DEF EntriesInv
  <2> QED BY <2>1, <2>2, <2>3, <2>4 DEF EntriesInv, ReportListsEveryStage, Begun
<1>2. CASE NewProcess
  <2>1. /\ pc' = "new" /\ wave' = {} /\ stage' = [s \in Stages |-> "waiting"]
        /\ stage_results' = [s \in Stages |-> [k \in Runs |-> 0]]
    BY <1>2 DEF NewProcess, NoEntries
  <2> QED BY <1>e, <2>1 DEF EntriesInv, ReportListsEveryStage, Begun
<1>3. CASE Cancel \/ Kill
  <2>1. /\ pc' \in {"cancelled", "dead"} /\ wave' = {} /\ stage' = Abandoned
        /\ UNCHANGED <<run, stage_results, listed>>
    BY <1>3 DEF Cancel, Kill, reportVars
  <2>2. \A s \in Stages : s \in Begun' => s \in Begun
    BY <2>1 DEF Begun, Abandoned
  <2> QED BY <1>e, <2>1, <2>2 DEF EntriesInv, ReportListsEveryStage, Begun
<1>4. CASE EndRun \/ CancelClose
  <2>1. /\ pc' \in {"ended", "cancelled"}
        /\ UNCHANGED <<run, wave, stage, stage_results, listed>>
    BY <1>4 DEF EndRun, CancelClose, reportVars
  <2> QED BY <1>e, <2>1 DEF EntriesInv, ReportListsEveryStage, Begun
<1>5. CASE StartWave
  <2>1. /\ pc = "running" /\ wave = {} /\ wave' = Plan!Ready
        /\ UNCHANGED <<pc, run, stage_results, listed>>
    BY <1>5 DEF StartWave, reportVars
  <2>2. \A s \in Stages : stage'[s] = IF s \in Plan!Ready THEN "created" ELSE stage[s]
    BY <1>5 DEF StartWave
  <2>3. \A s \in Stages : stage_results'[s][run'] =
          IF s \in wave' \/ stage'[s] = "waiting" THEN 0 ELSE 1
    BY <2>1, <2>2, ReadyIs DEF EntriesInv
  <2>4. \A s \in wave' : DependsOn(s) \cap wave' = {}
    BY <2>1, ReadyIs
  <2>5. ReportListsEveryStage'
    BY <2>1, <2>2 DEF EntriesInv, ReportListsEveryStage, Begun
  <2> QED BY <1>e, <2>1, <2>3, <2>4, <2>5 DEF EntriesInv
<1>6. CASE EndWave
  <2>1. /\ wave # {} /\ wave' = {} /\ UNCHANGED <<pc, run, stage, listed>>
        /\ \A s \in wave : Ended(s)
    BY <1>6 DEF EndWave, reportVars
  <2>2. \A s \in Stages : \A k \in Runs : stage_results'[s][k] =
          IF s \in wave /\ k = run THEN stage_results[s][k] + 1 ELSE stage_results[s][k]
    BY <1>0, <1>6, <1>n DEF EndWave, Extended, TypeOK
  <2>3. pc = "running"
    BY <1>0, <2>1 DEF WaveBarrier
  <2>4. \A s \in Stages : stage_results'[s][run'] =
          IF s \in wave' \/ stage'[s] = "waiting" THEN 0 ELSE 1
    BY <1>n, <2>1, <2>2, <2>3 DEF EntriesInv, Ended
  <2>5. ReportListsEveryStage'
    BY <1>e, <2>1 DEF EntriesInv, ReportListsEveryStage, Begun
  <2>6. \A s \in Stages : \A k \in Runs : k > run' => stage_results'[s][k] = 0
    BY <1>n, <2>1, <2>2 DEF EntriesInv
  <2> QED BY <2>1, <2>3, <2>4, <2>5, <2>6 DEF EntriesInv
<1>7. CASE BeginReport
  <2>1. /\ r \in wave /\ r \in Stages /\ listed' = stage_results
        /\ UNCHANGED <<pc, run, wave, stage_results>>
    BY <1>0, <1>7 DEF BeginReport, TypeOK
  <2>2. stage' = [stage EXCEPT ![r] = "running"] /\ stage[r] = "created"
    BY <1>7 DEF BeginReport
  <2>3. \A s \in Stages : stage'[s] = "waiting" <=> stage[s] = "waiting"
    BY <1>0, <2>2 DEF TypeOK
  <2>4. pc = "running"
    BY <1>0, <2>1 DEF WaveBarrier
  <2>5. \A s \in Stages \ {r} : s \notin wave /\ stage[s] # "waiting"
    <3> SUFFICES ASSUME NEW s \in Stages \ {r} PROVE s \notin wave /\ Ended(s)
      BY DEF Ended
    <3>1. s \in DependsOn(r) \cap Stages
      BY ReportDependsOnAll, StagesAssumption
    <3> QED BY <2>1, <2>2, <3>1 DEF EntriesInv, IInv, DependenciesEnded
  <2>6. \A s \in Stages : listed'[s][run] = IF s = r THEN 0 ELSE 1
    BY <2>1, <2>4, <2>5 DEF EntriesInv
  <2>7. ReportListsEveryStage'
    BY <2>1, <2>6 DEF ReportListsEveryStage
  <2> QED BY <1>e, <2>1, <2>3, <2>4, <2>7 DEF EntriesInv
<1>8. ASSUME NEW s \in wave, stage[s] # "waiting", NEW st,
             st # "waiting", stage' = [stage EXCEPT ![s] = st],
             UNCHANGED <<pc, run, wave, stage_results, listed>>,
             s = r => r \in Begun \/ r \notin Begun'
      PROVE  EntriesInv'
  <2>1. \A u \in Stages : stage'[u] = "waiting" <=> stage[u] = "waiting"
    BY <1>0, <1>8 DEF TypeOK
  <2>2. r \in Begun' => r \in Begun
    BY <1>0, <1>8 DEF TypeOK, Begun
  <2>3. ReportListsEveryStage'
    BY <1>8, <2>2 DEF EntriesInv, ReportListsEveryStage
  <2> QED BY <1>8, <1>e, <2>1, <2>3 DEF EntriesInv
<1>9. CASE WriteReport \/ UNCHANGED vars
  <2>1. UNCHANGED <<pc, run, wave, stage, stage_results, listed>>
    BY <1>9 DEF WriteReport, vars
  <2> QED BY <1>e, <2>1 DEF EntriesInv, ReportListsEveryStage, Begun
<1>10. CASE FailReport
  <2>1. r \in wave /\ stage[r] = "running" /\ r \in Stages
    BY <1>0, <1>10 DEF FailReport, Reporting, TypeOK
  <2>2. r \in Begun
    BY <2>1 DEF Begun
  <2> QED BY <1>8, <1>10, <2>1, <2>2 DEF FailReport
<1>11. CASE CompleteReport
  <2>1. r \in wave /\ stage[r] = "running" /\ r \in Stages
    BY <1>0, <1>11 DEF CompleteReport, Reporting, TypeOK
  <2>2. r \in Begun
    BY <2>1 DEF Begun
  <2> QED BY <1>8, <1>11, <2>1, <2>2 DEF CompleteReport, reportVars
<1>12. ASSUME NEW s \in Stages, Begin(s) PROVE EntriesInv'
  BY <1>8, <1>12 DEF Begin, reportVars
<1>13. ASSUME NEW s \in Stages, FailToLoad(s) PROVE EntriesInv'
  <2>1. s \in wave /\ stage[s] = "created" /\ stage' = [stage EXCEPT ![s] = "failed"]
    BY <1>13 DEF FailToLoad
  <2>2. s \notin Begun'
    BY <1>0, <2>1 DEF TypeOK, Begun
  <2> QED BY <1>8, <1>13, <2>1, <2>2 DEF FailToLoad, reportVars
<1>14. ASSUME NEW s \in Stages, Fetch(s) PROVE EntriesInv'
  <2>1. UNCHANGED <<pc, run, wave, stage, stage_results, listed>>
    BY <1>14 DEF Fetch, reportVars
  <2> QED BY <1>e, <2>1 DEF EntriesInv, ReportListsEveryStage, Begun
<1>15. ASSUME NEW s \in Stages, Return(s) PROVE EntriesInv'
  BY <1>8, <1>15 DEF Return, reportVars
<1> QED BY <1>1, <1>2, <1>3, <1>4, <1>5, <1>6, <1>7, <1>9, <1>10, <1>11, <1>12,
           <1>13, <1>14, <1>15
        DEF Next, ReportStep, StageStep

(* The reports list every stage of the run once, whatever failed, and       *)
(* however often the manager was used before.                               *)
THEOREM ReportsComplete == Spec => []ReportListsEveryStage
<1>1. Init => EntriesInv
  BY DEF Init, NoEntries, EntriesInv, ReportListsEveryStage, Begun
<1>2. EntriesInv => ReportListsEveryStage
  BY DEF EntriesInv
<1> QED BY <1>1, <1>2, EntriesInvInductive, IInvHolds, PTL DEF Spec

-----------------------------------------------------------------------------
(* Of the stages that never suspend at most one is under way: it has the    *)
(* event loop to itself.                                                    *)
LoopInv ==
  /\ \A s \in wave : stage[s] \in {"created", "running", "completed", "failed"}
  /\ \A s, t \in NeverSuspends \cap wave :
       stage[s] = "running" /\ stage[t] = "running" => s = t

(* A stage of the wave moves on, and gets the loop only when nobody has it. *)
LEMMA StageMoveKeepsLoopInv ==
  ASSUME TypeOK, LoopInv, NEW s \in wave, NEW st \in {"running", "completed", "failed"},
         stage' = [stage EXCEPT ![s] = st], UNCHANGED wave,
         st = "running" => OnLoop(s)
  PROVE  LoopInv'
<1>1. s \in Stages /\ \A t \in Stages : stage'[t] = IF t = s THEN st ELSE stage[t]
  BY DEF TypeOK
<1>2. wave \subseteq Stages
  BY DEF TypeOK
<1>3. \A t \in wave : stage'[t] \in {"created", "running", "completed", "failed"}
  BY <1>1, <1>2 DEF LoopInv
<1>4. ASSUME NEW t \in NeverSuspends \cap wave, NEW u \in NeverSuspends \cap wave,
             stage'[t] = "running", stage'[u] = "running"
      PROVE  t = u
  BY <1>1, <1>2, <1>4 DEF LoopInv, OnLoop
<1> QED BY <1>3, <1>4 DEF LoopInv

LEMMA LoopInvKept == IInv /\ LoopInv /\ [Next]_vars => LoopInv'
<1> SUFFICES ASSUME IInv, TypeOK, LoopInv, [Next]_vars PROVE LoopInv'
  BY DEF IInv
<1>1. ASSUME wave' = {} PROVE LoopInv'
  BY <1>1 DEF LoopInv
<1>2. ASSUME UNCHANGED <<wave, stage>> PROVE LoopInv'
  BY <1>2 DEF LoopInv
<1>3. CASE StartRun
  <2>1. wave = {}
    BY <1>3 DEF StartRun, IInv, WaveBarrier
  <2> QED BY <1>1, <1>3, <2>1 DEF StartRun
<1>4. CASE StartWave
  <2>1. \A s \in wave' : stage'[s] = "created"
    BY <1>4, ReadyIs DEF StartWave
  <2> QED BY <2>1 DEF LoopInv
<1>5. CASE EndWave \/ Cancel \/ Kill \/ NewProcess
  BY <1>1, <1>5 DEF EndWave, Cancel, Kill, NewProcess
<1>6. CASE EndRun \/ CancelClose \/ WriteReport \/ UNCHANGED vars
  BY <1>2, <1>6 DEF EndRun, CancelClose, WriteReport, vars
<1>7. CASE BeginReport
  BY <1>7, StageMoveKeepsLoopInv DEF BeginReport
<1>8. CASE FailReport \/ CompleteReport
  BY <1>8, StageMoveKeepsLoopInv DEF FailReport, CompleteReport, Reporting
<1>9. ASSUME NEW s \in Stages, StageStep(s) PROVE LoopInv'
  BY <1>2, <1>9, StageMoveKeepsLoopInv DEF StageStep, Begin, FailToLoad, Fetch, Return
<1> QED BY <1>3, <1>4, <1>5, <1>6, <1>7, <1>8, <1>9 DEF Next, ReportStep

(* While run() is at work it never hangs: between waves it gathers the next *)
(* or returns, a wave whose stages have ended is over, and in any other one *)
(* some stage is free to take its next step, since at most one coroutine    *)
(* keeps the event loop and that one has it.                                *)
THEOREM RunNeverStuck ==
  Spec => [](pc = "running" =>
               \/ wave = {}
               \/ \A s \in wave : Ended(s)
               \/ \E s \in wave : stage[s] \in {"created", "running"} /\ OnLoop(s))
<1>1. Init => LoopInv
  BY DEF Init, LoopInv
<1>2. LoopInv => \/ wave = {}
                 \/ \A s \in wave : Ended(s)
                 \/ \E s \in wave : stage[s] \in {"created", "running"} /\ OnLoop(s)
  <2> SUFFICES ASSUME LoopInv, NEW w \in wave, ~Ended(w)
               PROVE  \E s \in wave : stage[s] \in {"created", "running"} /\ OnLoop(s)
    OBVIOUS
  <2>1. stage[w] \in {"created", "running"}
    BY DEF LoopInv, Ended
  <2>2. CASE \E t \in NeverSuspends \cap wave : stage[t] = "running"
    <3>1. PICK t \in NeverSuspends \cap wave : stage[t] = "running"
      BY <2>2
    <3>2. OnLoop(t)
      BY <3>1 DEF LoopInv, OnLoop
    <3> QED BY <3>1, <3>2
  <2>3. CASE \A t \in NeverSuspends \cap wave : stage[t] # "running"
    BY <2>1, <2>3 DEF OnLoop
  <2> QED BY <2>2, <2>3
<1> QED BY <1>1, <1>2, LoopInvKept, IInvHolds, PTL DEF Spec
=============================================================================
