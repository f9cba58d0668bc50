--------------------------- MODULE WorkerPoolProofs ---------------------------
(***************************************************************************)
(* Proofs about WorkerPool for any calls of map of any sizes, any numbers   *)
(* of workers, retries and replacements of the semaphore.                   *)
(***************************************************************************)
EXTENDS WorkerPool, FiniteSetTheorems, SequenceTheorems, TLAPS

-----------------------------------------------------------------------------
(* A task belongs to a call. *)
LEMMA TaskOfCall == \A t \in Tasks : t[1] \in Maps
BY DEF Tasks

(* Who waits for or holds a slot has a semaphore; a call that has not begun *)
(* has begun no task.                                                       *)
Seated ==
  /\ Len(capacity) >= 1
  /\ \A t \in Tasks : task[t] \in {"waiting", "running"} => sem[t] \in 1 .. Len(capacity)

IdleInv == \A m \in Maps : map[m] = "idle" => \A t \in TasksOf(m) : task[t] = "idle"

PInv == TypeOK /\ Seated /\ IdleInv

States == {"idle", "ready", "waiting", "running", "backoff"} \cup Ended

(* What the adaptive control asks for is within its bounds. *)
LEMMA AdjustedInBounds ==
  ASSUME current_concurrency \in MinWorkers .. Workers
  PROVE  Adjusted \subseteq MinWorkers .. Workers
<1> DEFINE c == current_concurrency
<1>1. c \in Nat /\ MinWorkers \in Nat /\ Workers \in Nat
  BY WorkersAssumption
<1>2. (c * 4) \div 5 \in Nat /\ (c * 4) \div 5 <= c
  BY <1>1
<1>3. (c * 6) \div 5 \in Nat /\ c <= (c * 6) \div 5
  BY <1>1
<1>4. Greater(MinWorkers, (c * 4) \div 5) \in MinWorkers .. Workers
  BY <1>1, <1>2, WorkersAssumption DEF Greater
<1>5. Lesser(Workers, (c * 6) \div 5) \in MinWorkers .. Workers
  BY <1>1, <1>3, WorkersAssumption DEF Lesser
<1> QED BY <1>4, <1>5 DEF Adjusted

(* One element of the sequence of free slots changes. *)
LEMMA SlotsChange ==
  ASSUME TypeOK, NEW s \in 1 .. Len(capacity), NEW n \in Nat
  PROVE  /\ [value EXCEPT ![s] = n] \in Seq(Nat)
         /\ Len([value EXCEPT ![s] = n]) = Len(capacity)
         /\ [value EXCEPT ![s] = n][s] = n
         /\ \A u \in 1 .. Len(capacity) : u # s => [value EXCEPT ![s] = n][u] = value[u]
<1>1. value \in Seq(Nat) /\ Len(value) = Len(capacity)
  BY DEF TypeOK
<1> QED BY <1>1, ExceptSeq

(* What a step of a task leaves of the sequences: the slots of before, with *)
(* those of `slots', and perhaps one new semaphore with all its slots.      *)
Extended(slots) ==
  \/ value' = slots /\ UNCHANGED <<capacity, current_concurrency>>
  \/ /\ current_concurrency' \in MinWorkers .. Workers
     /\ capacity' = Append(capacity, current_concurrency')
     /\ value' = Append(slots, current_concurrency')

LEMMA AdjustExtends ==
  ASSUME TypeOK, NEW slots, NEW d, Adjust(slots, d)
  PROVE  Extended(slots)
<1>1. Adjusted \subseteq MinWorkers .. Workers
  BY AdjustedInBounds DEF TypeOK
<1> QED BY <1>1 DEF Adjust, Extended

LEMMA ExtendedTypes ==
  ASSUME TypeOK, NEW slots \in Seq(Nat), Len(slots) = Len(capacity), Extended(slots)
  PROVE  /\ capacity' \in Seq(MinWorkers .. Workers)
         /\ value' \in Seq(Nat) /\ Len(value') = Len(capacity')
         /\ Len(capacity) \in Nat /\ Len(capacity') \in Nat
         /\ Len(capacity') >= Len(capacity)
         /\ current_concurrency' \in MinWorkers .. Workers
         /\ \A s \in 1 .. Len(capacity) : capacity'[s] = capacity[s] /\ value'[s] = slots[s]
         /\ \A s \in 1 .. Len(capacity') : s \notin 1 .. Len(capacity) =>
              value'[s] = capacity'[s]
<1>1. capacity \in Seq(MinWorkers .. Workers) /\ Len(capacity) \in Nat
  BY DEF TypeOK
<1>2. current_concurrency \in MinWorkers .. Workers
  BY DEF TypeOK
<1>3. CASE value' = slots /\ UNCHANGED <<capacity, current_concurrency>>
  BY <1>1, <1>2, <1>3
<1>4. CASE /\ current_concurrency' \in MinWorkers .. Workers
           /\ capacity' = Append(capacity, current_concurrency')
           /\ value' = Append(slots, current_concurrency')
  <2> DEFINE c == current_concurrency'
  <2>1. c \in MinWorkers .. Workers /\ c \in Nat
    BY <1>4, WorkersAssumption
  <2>2. /\ capacity' \in Seq(MinWorkers .. Workers) /\ Len(capacity') = Len(capacity) + 1
        /\ \A s \in 1 .. Len(capacity) : capacity'[s] = capacity[s]
        /\ capacity'[Len(capacity) + 1] = c
    BY <1>1, <1>4, <2>1, AppendProperties
  <2>3. /\ value' \in Seq(Nat) /\ Len(value') = Len(capacity) + 1
        /\ \A s \in 1 .. Len(capacity) : value'[s] = slots[s]
        /\ value'[Len(capacity) + 1] = c
    BY <1>1, <1>4, <2>1, AppendProperties
  <2> HIDE DEF c
  <2> QED BY <1>1, <1>4, <2>1, <2>2, <2>3
<1> QED BY <1>3, <1>4 DEF Extended

-----------------------------------------------------------------------------
(* How the tasks and their semaphores change in a step: a task takes a      *)
(* slot, leaves one, or no task does either.                                *)
Takes(t, s) ==
  /\ task[t] # "running" /\ task[t] # "idle" /\ s \in 1 .. Len(capacity)
  /\ sem' = [sem EXCEPT ![t] = s]
  /\ Enter(t, s)
  /\ UNCHANGED <<capacity, current_concurrency>>

Leaves(t, st) ==
  /\ task[t] = "running" /\ st \in Ended \cup {"backoff"}
  /\ task' = [task EXCEPT ![t] = st]
  /\ sem' = Left(t)
  /\ Extended(Released(t))

Moves(t, st, s) ==
  /\ task[t] \notin {"running", "idle"} /\ st \notin {"running", "idle"} /\ st \in States
  /\ s \in 0 .. Len(capacity) /\ (st = "waiting" => s # 0)
  /\ task' = [task EXCEPT ![t] = st]
  /\ sem' = [sem EXCEPT ![t] = s]
  /\ UNCHANGED <<capacity, value, current_concurrency>>

Begins(m) ==
  /\ map[m] = "idle"
  /\ task' = [t \in Tasks |-> IF t[1] = m THEN "ready" ELSE task[t]]
  /\ UNCHANGED <<sem, capacity, value, current_concurrency>>

Keeps == UNCHANGED <<task, sem, capacity, value, current_concurrency>>

SlotStep ==
  \/ \E t \in Tasks : \/ \E s \in 1 .. Len(capacity) : Takes(t, s)
                      \/ \E st \in States : Leaves(t, st)
                      \/ \E st \in States, s \in 0 .. Len(capacity) : Moves(t, st, s)
  \/ \E m \in Maps : Begins(m)
  \/ Keeps

(* The steps of one task. *)
LEMMA TaskSlotStep ==
  ASSUME PInv, NEW t \in Tasks, TaskStep(t)
  PROVE  SlotStep
<1> USE DEF States, Ended
<1>0. /\ sem \in [Tasks -> 0 .. Len(capacity)] /\ Len(capacity) \in Nat
      /\ task \in [Tasks -> States]
  BY DEF PInv, TypeOK
<1>1. sem = [sem EXCEPT ![t] = sem[t]]
  BY <1>0
<1>2. CASE Attempt(t)
  <2>1. task[t] \in {"ready", "backoff"}
        /\ UNCHANGED <<capacity, current_concurrency>>
    BY <1>2 DEF Attempt, adaptive
  <2>2. CASE Refuse(t)
    <3>1. Moves(t, "refused", sem[t])
      BY <1>0, <1>1, <2>1, <2>2 DEF Refuse, Moves
    <3> QED BY <1>0, <3>1 DEF SlotStep
  <2>3. CASE Acquire(t)
    <3>0. Len(capacity) \in 1 .. Len(capacity) \/ Len(capacity) = 0
      BY <1>0
    <3> DEFINE s == Len(capacity)
    <3>1. CASE s # 0 /\ Enter(t, s)
      <4>1. Takes(t, s)
        BY <1>0, <2>1, <2>3, <3>1 DEF Acquire, Takes
      <4> QED BY <1>0, <3>1, <4>1 DEF SlotStep
    <3>2. CASE s # 0 /\ task' = [task EXCEPT ![t] = "waiting"] /\ UNCHANGED value
      <4>1. Moves(t, "waiting", s)
        BY <1>0, <2>1, <2>3, <3>2 DEF Acquire, Moves
      <4> QED BY <1>0, <4>1 DEF SlotStep
    <3>3. s # 0
      BY <1>0 DEF PInv, Seated
    <3> QED BY <2>3, <3>1, <3>2, <3>3 DEF Acquire
  <2> QED BY <1>2, <2>2, <2>3 DEF Attempt
<1>3. CASE Run(t)
  <2>1. task[t] = "waiting" /\ sem[t] \in 1 .. Len(capacity)
    BY <1>3 DEF Run, PInv, Seated
  <2>2. Takes(t, sem[t])
    BY <1>1, <1>3, <2>1 DEF Run, Takes, adaptive
  <2> QED BY <2>1, <2>2 DEF SlotStep
<1>4. CASE Succeed(t)
  <2>1. Extended(Released(t))
    BY <1>4, AdjustExtends DEF Succeed, PInv
  <2>2. Leaves(t, "succeeded")
    BY <1>4, <2>1 DEF Succeed, Leaves
  <2> QED BY <2>2 DEF SlotStep
<1>5. ASSUME task[t] = "running", Unsuccessful(t) PROVE SlotStep
  <2>1. CASE task' = [task EXCEPT ![t] = "backoff"] /\ value' = Released(t)
             /\ UNCHANGED adaptive
    <3>1. Leaves(t, "backoff")
      BY <1>5, <2>1 DEF Unsuccessful, Leaves, Extended, adaptive
    <3> QED BY <3>1 DEF SlotStep
  <2>2. CASE task' = [task EXCEPT ![t] = "failed"]
             /\ Adjust(Released(t), recent_durations)
    <3>1. Extended(Released(t))
      BY <2>2, AdjustExtends DEF PInv
    <3>2. Leaves(t, "failed")
      BY <1>5, <2>2, <3>1 DEF Unsuccessful, Leaves
    <3> QED BY <3>2 DEF SlotStep
  <2> QED BY <1>5, <2>1, <2>2 DEF Unsuccessful
<1>6. CASE Fail(t) \/ Swallow(t)
  BY <1>5, <1>6 DEF Fail, Swallow
<1>7. CASE Stop(t)
  <2>1. task[t] \notin Ended \cup {"idle"} /\ UNCHANGED <<capacity, current_concurrency>>
    BY <1>7 DEF Stop, Unfinished, adaptive
  <2>2. CASE task[t] = "running"
    <3>1. Leaves(t, "stopped")
      BY <1>7, <2>1, <2>2 DEF Stop, Leaves, Extended
    <3> QED BY <3>1 DEF SlotStep
  <2>3. CASE task[t] # "running"
    <3>1. Moves(t, "stopped", 0)
      BY <1>0, <1>7, <2>1, <2>3 DEF Stop, Moves, Left
    <3> QED BY <1>0, <3>1 DEF SlotStep
  <2> QED BY <2>2, <2>3
<1> QED BY <1>2, <1>3, <1>4, <1>6, <1>7 DEF TaskStep

(* Every step is one of these. *)
LEMMA EveryStepIsSlotStep == PInv /\ [Next]_vars => SlotStep
<1> SUFFICES ASSUME PInv, [Next]_vars PROVE SlotStep
  OBVIOUS
<1>1. ASSUME NEW m \in Maps, Map(m) PROVE SlotStep
  <2>1. Begins(m)
    BY <1>1 DEF Map, Begins, adaptive
  <2> QED BY <2>1 DEF SlotStep
<1>2. ASSUME NEW m \in Maps, Abort(m) \/ Return(m) PROVE SlotStep
  BY <1>2 DEF Abort, Return, adaptive, SlotStep, Keeps
<1>5. ASSUME NEW t \in Tasks, Notice(t) PROVE SlotStep
  <2>1. /\ sem \in [Tasks -> 0 .. Len(capacity)] /\ task[t] = "refused"
        /\ task' = [task EXCEPT ![t] = "noted"]
        /\ UNCHANGED <<sem, capacity, value, current_concurrency>>
    BY <1>5 DEF Notice, adaptive, PInv, TypeOK
  <2>2. Moves(t, "noted", sem[t])
    BY <2>1 DEF Moves, States, Ended
  <2> QED BY <2>1, <2>2 DEF SlotStep, States, Ended
<1>3. CASE Cancel \/ BeginDrain \/ DrainTimeout \/ EndDrain
  BY <1>3 DEF Cancel, BeginDrain, DrainTimeout, EndDrain, adaptive, SlotStep, Keeps
<1>4. CASE UNCHANGED vars
  BY <1>4 DEF vars, adaptive, SlotStep, Keeps
<1> QED BY <1>1, <1>2, <1>3, <1>4, <1>5, TaskSlotStep DEF Next

-----------------------------------------------------------------------------
SlotTypes ==
  /\ task \in [Tasks -> States]
  /\ capacity \in Seq(MinWorkers .. Workers)
  /\ value \in Seq(Nat) /\ Len(value) = Len(capacity)
  /\ sem \in [Tasks -> 0 .. Len(capacity)]
  /\ current_concurrency \in MinWorkers .. Workers

LEMMA SlotStepTypes ==
  ASSUME PInv, SlotStep
  PROVE  SlotTypes' /\ Seated'
<1>0. SlotTypes /\ TypeOK /\ Seated /\ Len(capacity) \in Nat
  BY DEF PInv, TypeOK, SlotTypes, States
<1>1. ASSUME NEW t \in Tasks, NEW s \in 1 .. Len(capacity), Takes(t, s)
      PROVE  SlotTypes' /\ Seated'
  <2>1. value' = [value EXCEPT ![s] = value[s] - 1] /\ value[s] > 0
    BY <1>1 DEF Takes, Enter
  <2>2. value[s] \in Nat
    BY <1>0, ElementOfSeq DEF SlotTypes
  <2>3. value[s] - 1 \in Nat
    BY <2>1, <2>2
  <2>4. value' \in Seq(Nat) /\ Len(value') = Len(capacity)
    BY <1>0, <2>1, <2>3, SlotsChange
  <2>5. UNCHANGED <<capacity, current_concurrency>>
    BY <1>1 DEF Takes
  <2>6. task' = [task EXCEPT ![t] = "running"] /\ sem' = [sem EXCEPT ![t] = s]
    BY <1>1 DEF Takes, Enter
  <2>7. SlotTypes'
    BY <1>0, <2>4, <2>5, <2>6 DEF SlotTypes, States
  <2>8. Seated'
    BY <1>0, <2>5, <2>6 DEF SlotTypes, Seated
  <2> QED BY <2>7, <2>8
<1>2. ASSUME NEW t \in Tasks, NEW st \in States, Leaves(t, st)
      PROVE  SlotTypes' /\ Seated'
  <2>1. sem[t] \in 1 .. Len(capacity) /\ value[sem[t]] \in Nat
    BY <1>0, <1>2, ElementOfSeq DEF Leaves, Seated, SlotTypes
  <2>2. Released(t) = [value EXCEPT ![sem[t]] = value[sem[t]] + 1]
    BY DEF Released
  <2>3. Released(t) \in Seq(Nat) /\ Len(Released(t)) = Len(capacity)
    BY <1>0, <2>1, <2>2, SlotsChange
  <2>4. Extended(Released(t))
    BY <1>2 DEF Leaves
  <2>5. /\ capacity' \in Seq(MinWorkers .. Workers)
        /\ value' \in Seq(Nat) /\ Len(value') = Len(capacity')
        /\ Len(capacity') \in Nat /\ Len(capacity') >= Len(capacity)
        /\ current_concurrency' \in MinWorkers .. Workers
    BY <1>0, <2>3, <2>4, ExtendedTypes
  <2>6. task' = [task EXCEPT ![t] = st] /\ sem' = [sem EXCEPT ![t] = 0]
        /\ st \notin {"waiting", "running"}
    BY <1>2 DEF Leaves, Left, Ended
  <2>7. SlotTypes'
    BY <1>0, <2>5, <2>6 DEF SlotTypes
  <2>8. Seated'
    BY <1>0, <2>5, <2>6 DEF SlotTypes, Seated
  <2> QED BY <2>7, <2>8
<1>3. ASSUME NEW t \in Tasks, NEW st \in States, NEW s \in 0 .. Len(capacity), Moves(t, st, s)
      PROVE  SlotTypes' /\ Seated'
  <2>1. SlotTypes'
    BY <1>0, <1>3 DEF Moves, SlotTypes
  <2>2. Seated'
    BY <1>0, <1>3 DEF Moves, SlotTypes, Seated
  <2> QED BY <2>1, <2>2
<1>4. ASSUME NEW m \in Maps, Begins(m) PROVE SlotTypes' /\ Seated'
  <2>1. SlotTypes'
    BY <1>0, <1>4 DEF Begins, SlotTypes, States
  <2>2. Seated'
    BY <1>0, <1>4 DEF Begins, SlotTypes, Seated
  <2> QED BY <2>1, <2>2
<1>5. CASE Keeps
  BY <1>0, <1>5 DEF Keeps, SlotTypes, Seated
<1> QED BY <1>1, <1>2, <1>3, <1>4, <1>5 DEF SlotStep

(* The variables that no slot depends on. *)
OtherTypes ==
  /\ map \in [Maps -> {"idle", "running", "aborting", "returned", "raised"}]
  /\ attempt \in [Tasks -> 0 .. MaxRetries]
  /\ awaited \in SUBSET Tasks /\ stopping \in SUBSET Tasks
  /\ cancelled \in BOOLEAN /\ recent_durations \in BOOLEAN
  /\ total_submitted \in Nat /\ total_completed \in Nat
  /\ total_failed \in Nat /\ total_retried \in Nat
  /\ drain \in {"open", "draining", "overdue", "closed"}
  /\ draining \in SUBSET Tasks

LEMMA TypeOKIs == TypeOK <=> SlotTypes /\ OtherTypes
BY DEF TypeOK, SlotTypes, OtherTypes, States

LEMMA SubsetsOfTasks == Unfinished \subseteq Tasks /\ \A m : TasksOf(m) \subseteq Tasks
BY DEF Unfinished, TasksOf

LEMMA UnsuccessfulOtherTypes ==
  ASSUME OtherTypes, NEW t \in Tasks, Unsuccessful(t), stopping' \in SUBSET Tasks
  PROVE  OtherTypes'
<1>1. UNCHANGED <<map, awaited, cancelled, total_submitted, total_completed, drain, draining>>
  BY DEF Unsuccessful, exit
<1>2. CASE /\ attempt[t] < MaxRetries
           /\ attempt' = [attempt EXCEPT ![t] = @ + 1]
           /\ total_retried' = total_retried + 1
           /\ UNCHANGED <<total_failed, recent_durations>>
  <2>1. attempt[t] + 1 \in 0 .. MaxRetries
    BY <1>2, BoundsAssumption DEF OtherTypes
  <2> QED BY <1>1, <1>2, <2>1 DEF OtherTypes
<1>3. CASE /\ total_failed' = total_failed + 1
           /\ recent_durations' \in BOOLEAN
           /\ UNCHANGED <<attempt, total_retried>>
  BY <1>1, <1>3 DEF OtherTypes
<1> QED BY <1>2, <1>3 DEF Unsuccessful, adaptive, Adjust, OtherTypes

LEMMA OtherTypesKept == OtherTypes /\ [Next]_vars => OtherTypes'
<1> SUFFICES ASSUME OtherTypes, [Next]_vars PROVE OtherTypes'
  OBVIOUS
<1> USE SubsetsOfTasks
<1>1. ASSUME NEW m \in Maps, Map(m) PROVE OtherTypes'
  <2>1. MapSize[m] \in Nat
    BY MapsAssumption
  <2>2. total_submitted' \in Nat
    BY <1>1, <2>1 DEF Map, OtherTypes
  <2>3. /\ map' = [map EXCEPT ![m] = "running"] /\ cancelled' = FALSE
        /\ UNCHANGED <<attempt, awaited, stopping, recent_durations, total_completed,
                      total_failed, total_retried, drain, draining>>
    BY <1>1 DEF Map, adaptive
  <2>4. map' \in [Maps -> {"idle", "running", "aborting", "returned", "raised"}]
    BY <2>3 DEF OtherTypes
  <2> QED BY <2>2, <2>3, <2>4 DEF OtherTypes
<1>2. ASSUME NEW m \in Maps, Abort(m) \/ Return(m) PROVE OtherTypes'
  BY <1>2 DEF Abort, GroupAborts, Return, OtherTypes, adaptive, telemetry, exit
<1>9. ASSUME NEW t \in Tasks, Notice(t) PROVE OtherTypes'
  BY <1>9 DEF Notice, GroupAborts, OtherTypes, adaptive, telemetry, exit
<1>3. CASE Cancel \/ BeginDrain \/ DrainTimeout \/ EndDrain
  BY <1>3 DEF Cancel, BeginDrain, DrainTimeout, EndDrain, OtherTypes, adaptive, telemetry, exit
<1>4. CASE UNCHANGED vars
  BY <1>4 DEF vars, OtherTypes, adaptive, telemetry, exit
<1>5. ASSUME NEW t \in Tasks, Attempt(t) PROVE OtherTypes'
  <2>1. /\ awaited' \in SUBSET Tasks /\ stopping' \in SUBSET Tasks
        /\ UNCHANGED <<map, attempt, cancelled, adaptive, telemetry, exit>>
    BY <1>5 DEF Attempt, Refuse, Acquire, Enter, OtherTypes
  <2> QED BY <2>1 DEF OtherTypes, adaptive, telemetry, exit
<1>6. ASSUME NEW t \in Tasks, Run(t) \/ Stop(t) PROVE OtherTypes'
  BY <1>6 DEF Run, Enter, Stop, OtherTypes, adaptive, telemetry, exit
<1>7. ASSUME NEW t \in Tasks, Succeed(t) PROVE OtherTypes'
  <2>1. recent_durations' \in BOOLEAN
    BY <1>7 DEF Succeed, Adjust
  <2> QED BY <1>7, <2>1 DEF Succeed, OtherTypes, exit
<1>8. ASSUME NEW t \in Tasks, Fail(t) \/ Swallow(t) PROVE OtherTypes'
  <2>1. Unsuccessful(t) /\ stopping' \in SUBSET Tasks
    BY <1>8 DEF Fail, Swallow, OtherTypes
  <2> QED BY <2>1, UnsuccessfulOtherTypes
<1> QED BY <1>1, <1>2, <1>3, <1>4, <1>5, <1>6, <1>7, <1>8, <1>9 DEF Next, TaskStep

(* A call's tasks begin with it: any step of a task is one of a task that   *)
(* has begun, and calls do not become idle.                                 *)
LEMMA IdleInvKept == PInv /\ [Next]_vars => IdleInv'
<1> SUFFICES ASSUME PInv, [Next]_vars PROVE IdleInv'
  OBVIOUS
<1>0. /\ map \in [Maps -> {"idle", "running", "aborting", "returned", "raised"}]
      /\ task \in [Tasks -> States] /\ IdleInv
  BY TypeOKIs DEF PInv, SlotTypes, OtherTypes
<1>1. ASSUME NEW m \in Maps, Map(m) PROVE IdleInv'
  <2>1. map' = [map EXCEPT ![m] = "running"]
        /\ task' = [t \in Tasks |-> IF t[1] = m THEN "ready" ELSE task[t]]
    BY <1>1 DEF Map
  <2> QED BY <1>0, <2>1 DEF IdleInv, TasksOf
<1>2. ASSUME NEW m \in Maps, Abort(m) \/ Return(m) PROVE IdleInv'
  BY <1>0, <1>2 DEF Abort, Return, IdleInv, TasksOf
<1>3. CASE Cancel \/ BeginDrain \/ DrainTimeout \/ EndDrain \/ UNCHANGED vars
  <2>1. UNCHANGED <<map, task>>
    BY <1>3 DEF Cancel, BeginDrain, DrainTimeout, EndDrain, vars
  <2> QED BY <1>0, <2>1 DEF IdleInv
<1>4. ASSUME NEW t \in Tasks, TaskStep(t) PROVE IdleInv'
  <2>1. task[t] # "idle" /\ UNCHANGED map
    BY <1>4 DEF TaskStep, Attempt, Run, Succeed, Fail, Swallow, Stop, Unsuccessful, Unfinished
  <2>2. \A u \in Tasks \ {t} : task'[u] = task[u]
    BY <1>0, <1>4 DEF TaskStep, Attempt, Refuse, Acquire, Enter, Run, Succeed, Fail, Swallow,
                      Stop, Unsuccessful
  <2> QED BY <1>0, <2>1, <2>2 DEF IdleInv, TasksOf
<1>5. ASSUME NEW t \in Tasks, Notice(t) PROVE IdleInv'
  BY <1>0, <1>5 DEF Notice, IdleInv, TasksOf
<1> QED BY <1>1, <1>2, <1>3, <1>4, <1>5 DEF Next

LEMMA PInvHolds == Spec => []PInv
<1>1. Init => PInv
  <2> SUFFICES ASSUME Init PROVE PInv
    OBVIOUS
  <2>1. capacity \in Seq(MinWorkers .. Workers) /\ Len(capacity) = 1
        /\ value \in Seq(Nat) /\ Len(value) = 1
    BY WorkersAssumption DEF Init
  <2>2. /\ task = [t \in Tasks |-> "idle"] /\ sem = [t \in Tasks |-> 0]
        /\ current_concurrency \in MinWorkers .. Workers
    BY WorkersAssumption DEF Init
  <2>3. SlotTypes
    BY <2>1, <2>2 DEF SlotTypes, States
  <2>4. OtherTypes
    <3>1. attempt \in [Tasks -> 0 .. MaxRetries]
      BY BoundsAssumption DEF Init
    <3>2. map \in [Maps -> {"idle", "running", "aborting", "returned", "raised"}]
      BY DEF Init
    <3>3. /\ awaited = {} /\ stopping = {} /\ draining = {} /\ drain = "open"
          /\ cancelled = FALSE /\ recent_durations = FALSE
          /\ total_submitted = 0 /\ total_completed = 0
          /\ total_failed = 0 /\ total_retried = 0
      BY DEF Init
    <3> QED BY <3>1, <3>2, <3>3 DEF OtherTypes
  <2>5. Seated /\ IdleInv
    BY <2>1, <2>2 DEF Seated, IdleInv, TasksOf
  <2> QED BY <2>3, <2>4, <2>5, TypeOKIs DEF PInv
<1>2. PInv /\ [Next]_vars => PInv'
  <2> SUFFICES ASSUME PInv, [Next]_vars PROVE PInv'
    OBVIOUS
  <2>1. SlotTypes' /\ Seated'
    BY EveryStepIsSlotStep, SlotStepTypes
  <2>2. OtherTypes'
    BY OtherTypesKept, TypeOKIs DEF PInv
  <2>3. IdleInv'
    BY IdleInvKept
  <2>4. TypeOK'
    BY <2>1, <2>2 DEF TypeOK, SlotTypes, OtherTypes, States
  <2> QED BY <2>1, <2>3, <2>4 DEF PInv
<1> QED BY <1>1, <1>2, PTL DEF Spec

(* The attributes of the pool keep their types: however the adaptive        *)
(* control goes, the concurrency stays between its bounds, and no semaphore *)
(* has less than no slot.                                                   *)
THEOREM TypeCorrect == Spec => []TypeOK
<1>1. PInv => TypeOK
  BY DEF PInv
<1> QED BY <1>1, PInvHolds, PTL

-----------------------------------------------------------------------------
(* The tasks of all calls are finitely many, those of one as many as its    *)
(* coroutines.                                                              *)
LEMMA TasksOfIs == \A m \in Maps : TasksOf(m) = {m} \X (1 .. MapSize[m])
<1> SUFFICES ASSUME NEW m \in Maps PROVE TasksOf(m) = {m} \X (1 .. MapSize[m])
  OBVIOUS
<1>1. TasksOf(m) \subseteq {m} \X (1 .. MapSize[m])
  <2> SUFFICES ASSUME NEW t \in Tasks, t[1] = m PROVE t \in {m} \X (1 .. MapSize[m])
    BY DEF TasksOf
  <2>1. PICK k \in Maps : t \in {k} \X (1 .. MapSize[k])
    BY DEF Tasks
  <2>2. t[1] = k
    BY <2>1
  <2> QED BY <2>1, <2>2
<1>2. {m} \X (1 .. MapSize[m]) \subseteq TasksOf(m)
  BY DEF Tasks, TasksOf
<1> QED BY <1>1, <1>2

LEMMA TasksOfFinite ==
  \A m \in Maps : IsFiniteSet(TasksOf(m)) /\ Cardinality(TasksOf(m)) = MapSize[m]
<1> SUFFICES ASSUME NEW m \in Maps
             PROVE  IsFiniteSet(TasksOf(m)) /\ Cardinality(TasksOf(m)) = MapSize[m]
  OBVIOUS
<1> DEFINE n == MapSize[m]
<1>1. n \in Nat /\ n > 0
  BY MapsAssumption
<1> HIDE DEF n
<1>2. IsFiniteSet(1 .. n) /\ Cardinality(1 .. n) = n
  BY <1>1, FS_Interval
<1>3. IsFiniteSet({m}) /\ Cardinality({m}) = 1
  BY FS_Singleton
<1>4. IsFiniteSet({m} \X (1 .. n)) /\ Cardinality({m} \X (1 .. n)) = 1 * n
  BY <1>2, <1>3, FS_Product
<1>5. 1 * n = n
  BY <1>1
<1>6. TasksOf(m) = {m} \X (1 .. n)
  BY TasksOfIs DEF n
<1>7. IsFiniteSet(TasksOf(m)) /\ Cardinality(TasksOf(m)) = n
  BY <1>4, <1>5, <1>6
<1> QED BY <1>7 DEF n

LEMMA TasksFinite == IsFiniteSet(Tasks)
<1> DEFINE f == [m \in Maps |-> {m} \X (1 .. MapSize[m])]
           T == {f[m] : m \in Maps}
<1>1. f \in Surjection(Maps, T)
  BY DEF Surjection
<1>2. IsFiniteSet(T)
  BY <1>1, MapsAssumption, FS_Surjection
<1>3. \A S \in T : IsFiniteSet(S)
  BY TasksOfIs, TasksOfFinite
<1>4. IsFiniteSet(UNION T)
  BY <1>2, <1>3, FS_UNION
<1>5. Tasks = UNION T
  BY DEF Tasks
<1> QED BY <1>4, <1>5

(* The tasks in a semaphore. *)
Inside(s) == {t \in Running : sem[t] = s}

LEMMA InsideFinite == \A s : IsFiniteSet(Inside(s)) /\ Cardinality(Inside(s)) \in Nat
<1>1. \A s : Inside(s) \in SUBSET Tasks
  BY DEF Inside, Running
<1>2. \A s : IsFiniteSet(Inside(s))
  BY <1>1, TasksFinite, FS_Subset
<1> QED BY <1>2, FS_CardinalityType

LEMMA SlotsConservedIs ==
  ASSUME capacity \in Seq(MinWorkers .. Workers)
  PROVE  SlotsConserved <=>
           \A s \in 1 .. Len(capacity) : value[s] + Cardinality(Inside(s)) = capacity[s]
BY DEF SlotsConserved, Inside

LEMMA SlotStepConserves ==
  ASSUME PInv, SlotsConserved, SlotStep
  PROVE  SlotsConserved'
<1>0. SlotTypes /\ TypeOK /\ Seated /\ Len(capacity) \in Nat
  BY DEF PInv, TypeOK, SlotTypes, States
<1>1. \A s \in 1 .. Len(capacity) : value[s] + Cardinality(Inside(s)) = capacity[s]
  BY <1>0, SlotsConservedIs DEF SlotTypes
<1>2. SlotTypes'
  BY SlotStepTypes
<1>3. SUFFICES \A s \in 1 .. Len(capacity') :
                 value'[s] + Cardinality(Inside(s)') = capacity'[s]
  BY <1>2 DEF SlotsConserved, Inside, SlotTypes
<1>4. \A s \in 1 .. Len(capacity) : value[s] \in Nat /\ capacity[s] \in Nat
  BY <1>0, ElementOfSeq, WorkersAssumption DEF SlotTypes
<1>5. ASSUME NEW t \in Tasks, NEW s \in 1 .. Len(capacity), Takes(t, s)
      PROVE  \A u \in 1 .. Len(capacity') :
               value'[u] + Cardinality(Inside(u)') = capacity'[u]
  <2>1. /\ task[t] # "running" /\ value[s] > 0 /\ capacity' = capacity
        /\ value' = [value EXCEPT ![s] = value[s] - 1]
        /\ task' = [task EXCEPT ![t] = "running"] /\ sem' = [sem EXCEPT ![t] = s]
    BY <1>5 DEF Takes, Enter
  <2>2. t \notin Inside(s) /\ Inside(s)' = Inside(s) \cup {t}
    BY <1>0, <2>1 DEF Inside, Running, SlotTypes
  <2>3. \A u \in 1 .. Len(capacity) : u # s => Inside(u)' = Inside(u)
    BY <1>0, <2>1 DEF Inside, Running, SlotTypes
  <2>4. value[s] - 1 \in Nat
    BY <1>4, <2>1
  <2>5. /\ value'[s] = value[s] - 1
        /\ \A u \in 1 .. Len(capacity) : u # s => value'[u] = value[u]
    BY <1>0, <2>1, <2>4, SlotsChange
  <2>6. Cardinality(Inside(s)') = Cardinality(Inside(s)) + 1
    BY <2>2, InsideFinite, FS_AddElement
  <2>7. value'[s] + Cardinality(Inside(s)') = capacity[s]
    BY <1>1, <1>4, <2>5, <2>6, InsideFinite
  <2> QED BY <1>1, <2>1, <2>3, <2>5, <2>7
<1>6. ASSUME NEW t \in Tasks, NEW st \in States, Leaves(t, st)
      PROVE  \A u \in 1 .. Len(capacity') :
               value'[u] + Cardinality(Inside(u)') = capacity'[u]
  <2>1. /\ task[t] = "running" /\ st # "running" /\ Extended(Released(t))
        /\ task' = [task EXCEPT ![t] = st] /\ sem' = [sem EXCEPT ![t] = 0]
    BY <1>6 DEF Leaves, Left, Ended
  <2>2. PICK s \in 1 .. Len(capacity) : s = sem[t]
    BY <1>0, <2>1 DEF Seated
  <2>3. value[s] + 1 \in Nat /\ Released(t) = [value EXCEPT ![s] = value[s] + 1]
    BY <1>4, <2>2 DEF Released
  <2>4. /\ Released(t) \in Seq(Nat) /\ Len(Released(t)) = Len(capacity)
        /\ Released(t)[s] = value[s] + 1
        /\ \A u \in 1 .. Len(capacity) : u # s => Released(t)[u] = value[u]
    BY <1>0, <2>2, <2>3, SlotsChange
  <2>5. /\ \A u \in 1 .. Len(capacity) : capacity'[u] = capacity[u] /\ value'[u] = Released(t)[u]
        /\ \A u \in 1 .. Len(capacity') : u \notin 1 .. Len(capacity) =>
             value'[u] = capacity'[u]
    BY <1>0, <2>1, <2>4, ExtendedTypes
  <2>6. t \in Inside(s) /\ Inside(s)' = Inside(s) \ {t}
    BY <1>0, <2>1, <2>2 DEF Inside, Running, SlotTypes
  <2>7. \A u \in 1 .. Len(capacity') : u # s => Inside(u)' = Inside(u)
    BY <1>0, <2>1, <2>2 DEF Inside, Running, SlotTypes
  <2>8. \A u \in 1 .. Len(capacity') : u \notin 1 .. Len(capacity) => Inside(u)' = {}
    BY <1>0, <2>1, <2>2, <2>7 DEF Inside, Running, Seated
  <2>9. Cardinality(Inside(s)') = Cardinality(Inside(s)) - 1
    BY <2>6, InsideFinite, FS_RemoveElement
  <2>10. value'[s] + Cardinality(Inside(s)') = capacity'[s]
    <3>1. value'[s] = value[s] + 1 /\ capacity'[s] = capacity[s]
      BY <2>4, <2>5
    <3>2. value[s] \in Nat /\ Cardinality(Inside(s)) \in Nat
      BY <1>4, InsideFinite
    <3>3. value[s] + Cardinality(Inside(s)) = capacity[s]
      BY <1>1
    <3> QED BY <2>9, <3>1, <3>2, <3>3
  <2>11. \A u \in 1 .. Len(capacity) :
           u # s => value'[u] + Cardinality(Inside(u)') = capacity'[u]
    <3>1. \A u \in 1 .. Len(capacity) : u \in 1 .. Len(capacity')
      BY <1>0, <2>1, <2>4, ExtendedTypes
    <3> QED BY <1>1, <2>4, <2>5, <2>7, <3>1
  <2>12. \A u \in 1 .. Len(capacity') : u \notin 1 .. Len(capacity) =>
           value'[u] + Cardinality(Inside(u)') = capacity'[u]
    <3>1. \A u \in 1 .. Len(capacity') : capacity'[u] \in MinWorkers .. Workers
      BY <1>2, ElementOfSeq DEF SlotTypes
    <3>2. \A u \in 1 .. Len(capacity') : capacity'[u] \in Nat
      BY <3>1, WorkersAssumption
    <3>3. \A u \in 1 .. Len(capacity') : u \notin 1 .. Len(capacity) =>
            Cardinality(Inside(u)') = 0
      BY <2>8, FS_EmptySet
    <3>4. \A u \in 1 .. Len(capacity') : capacity'[u] + 0 = capacity'[u]
      BY <3>2
    <3> QED BY <2>5, <3>3, <3>4
  <2> QED BY <2>10, <2>11, <2>12
<1>7. ASSUME Running' = Running, \A t \in Running : sem'[t] = sem[t],
             UNCHANGED <<capacity, value>>
      PROVE  \A u \in 1 .. Len(capacity') :
               value'[u] + Cardinality(Inside(u)') = capacity'[u]
  <2>1. \A u : Inside(u)' = Inside(u)
    BY <1>7 DEF Inside
  <2> QED BY <1>1, <1>7, <2>1
<1>8. ASSUME NEW t \in Tasks, NEW st \in States, NEW s \in 0 .. Len(capacity), Moves(t, st, s)
      PROVE  \A u \in 1 .. Len(capacity') :
               value'[u] + Cardinality(Inside(u)') = capacity'[u]
  <2>1. Running' = Running /\ \A u \in Running : sem'[u] = sem[u]
    BY <1>0, <1>8 DEF Moves, Running, SlotTypes
  <2> QED BY <1>7, <1>8, <2>1 DEF Moves
<1>9. ASSUME NEW m \in Maps, Begins(m)
      PROVE  \A u \in 1 .. Len(capacity') :
               value'[u] + Cardinality(Inside(u)') = capacity'[u]
  <2>1. \A t \in Tasks : t[1] = m => task[t] = "idle"
    BY <1>9 DEF Begins, PInv, IdleInv, TasksOf
  <2>2. Running' = Running /\ \A u \in Running : sem'[u] = sem[u]
    BY <1>9, <2>1 DEF Begins, Running
  <2> QED BY <1>7, <1>9, <2>2 DEF Begins
<1>10. CASE Keeps
  <2>1. Running' = Running
    BY <1>10 DEF Keeps, Running
  <2> QED BY <1>7, <1>10, <2>1 DEF Keeps
<1> QED BY <1>5, <1>6, <1>8, <1>9, <1>10 DEF SlotStep

(* No slot is lost or made, however often the semaphore is replaced while   *)
(* tasks hold or await the old one, and wherever a task is cancelled.       *)
THEOREM NoSlotLost == Spec => []SlotsConserved
<1>1. Init => SlotsConserved
  <2> SUFFICES ASSUME Init PROVE SlotsConserved
    OBVIOUS
  <2>1. capacity = <<Workers>> /\ value = <<Workers>> /\ Running = {}
    BY DEF Init, Running
  <2>2. \A s : Cardinality({t \in Running : sem[t] = s}) = 0
    BY <2>1, FS_EmptySet
  <2> QED BY <2>1, <2>2, WorkersAssumption DEF SlotsConserved
<1> QED BY <1>1, PInvHolds, EveryStepIsSlotStep, SlotStepConserves, PTL DEF Spec

-----------------------------------------------------------------------------
(* After cancel() nobody queues for a slot without a cancellation to come.  *)
QueueStopped == cancelled => \A t \in Tasks : task[t] = "waiting" => t \in stopping

LEMMA QueueStoppedKept == PInv /\ QueueStopped /\ [Next]_vars => QueueStopped'
<1> SUFFICES ASSUME PInv, QueueStopped, [Next]_vars PROVE QueueStopped'
  OBVIOUS
<1>0. task \in [Tasks -> States]
  BY TypeOKIs DEF PInv, SlotTypes
<1>1. ASSUME NEW m \in Maps, Map(m) PROVE QueueStopped'
  BY <1>1 DEF Map, QueueStopped
<1>2. ASSUME NEW m \in Maps, Abort(m) \/ Return(m) PROVE QueueStopped'
  BY <1>2 DEF Abort, GroupAborts, Return, QueueStopped
<1>3. CASE Cancel
  BY <1>3 DEF Cancel, QueueStopped, Unfinished, Ended
<1>4. CASE BeginDrain \/ DrainTimeout \/ EndDrain \/ UNCHANGED vars
  BY <1>4 DEF BeginDrain, DrainTimeout, EndDrain, vars, QueueStopped
<1>5. ASSUME NEW t \in Tasks, Attempt(t) PROVE QueueStopped'
  <2>1. UNCHANGED cancelled
    BY <1>5 DEF Attempt
  <2>2. cancelled => Refuse(t)
    BY <1>5 DEF Attempt
  <2> QED BY <1>0, <2>1, <2>2 DEF QueueStopped, Refuse
<1>6. ASSUME NEW t \in Tasks, Run(t) PROVE QueueStopped'
  BY <1>0, <1>6 DEF Run, Enter, QueueStopped
<1>7. ASSUME NEW t \in Tasks, Succeed(t) \/ Fail(t) \/ Swallow(t) \/ Stop(t)
      PROVE  QueueStopped'
  <2>1. UNCHANGED cancelled /\ stopping \ {t} \subseteq stopping'
    BY <1>7 DEF Succeed, Fail, Swallow, Stop, Unsuccessful
  <2>2. task'[t] # "waiting" /\ \A u \in Tasks \ {t} : task'[u] = task[u]
    BY <1>0, <1>7 DEF Succeed, Fail, Swallow, Stop, Unsuccessful
  <2> QED BY <2>1, <2>2 DEF QueueStopped
<1>8. ASSUME NEW t \in Tasks, Notice(t) PROVE QueueStopped'
  BY <1>0, <1>8 DEF Notice, GroupAborts, QueueStopped
<1> QED BY <1>1, <1>2, <1>3, <1>4, <1>5, <1>6, <1>7, <1>8 DEF Next, TaskStep

LEMMA NobodyEnters ==
  PInv /\ QueueStopped /\ [Next]_vars =>
    (cancelled /\ cancelled' => Running' \subseteq Running)
<1> SUFFICES ASSUME PInv, QueueStopped, [Next]_vars, cancelled, cancelled'
             PROVE  Running' \subseteq Running
  OBVIOUS
<1>0. task \in [Tasks -> States]
  BY TypeOKIs DEF PInv, SlotTypes
<1>1. ASSUME NEW m \in Maps, Map(m) PROVE FALSE
  BY <1>1 DEF Map
<1>2. ASSUME NEW t \in Tasks, Attempt(t) PROVE Running' \subseteq Running
  BY <1>0, <1>2 DEF Attempt, Refuse, Running
<1>3. ASSUME NEW t \in Tasks, Run(t) PROVE FALSE
  BY <1>3 DEF Run, QueueStopped
<1>4. ASSUME NEW t \in Tasks, Succeed(t) \/ Fail(t) \/ Swallow(t) \/ Stop(t)
      PROVE  Running' \subseteq Running
  <2>1. task'[t] # "running" /\ \A u \in Tasks \ {t} : task'[u] = task[u]
    BY <1>0, <1>4 DEF Succeed, Fail, Swallow, Stop, Unsuccessful
  <2> QED BY <2>1 DEF Running
<1>5. ASSUME UNCHANGED task PROVE Running' \subseteq Running
  BY <1>5 DEF Running
<1>6. ASSUME NEW m \in Maps, Abort(m) \/ Return(m) PROVE UNCHANGED task
  BY <1>6 DEF Abort, Return
<1>7. CASE Cancel \/ BeginDrain \/ DrainTimeout \/ EndDrain \/ UNCHANGED vars
  <2>1. UNCHANGED task
    BY <1>7 DEF Cancel, BeginDrain, DrainTimeout, EndDrain, vars
  <2> QED BY <1>5, <2>1
<1>8. ASSUME NEW t \in Tasks, Notice(t) PROVE Running' \subseteq Running
  BY <1>0, <1>8 DEF Notice, Running
<1> QED BY <1>1, <1>2, <1>3, <1>4, <1>5, <1>6, <1>7, <1>8 DEF Next, TaskStep

(* cancel() is final until the next map(): no task gets its turn, whatever  *)
(* coroutines do with their cancellation.                                   *)
THEOREM CancelIsFinal == Spec => NothingRunsAfterCancel
<1>1. Init => QueueStopped
  BY DEF Init, QueueStopped
<1>2. Spec => []QueueStopped
  BY <1>1, PInvHolds, QueueStoppedKept, PTL DEF Spec
<1> QED BY <1>2, PInvHolds, NobodyEnters, PTL DEF Spec, NothingRunsAfterCancel

-----------------------------------------------------------------------------
(* Those who ended without a result. *)
WithoutResult == {t \in Tasks : task[t] \in {"stopped", "refused", "noted"}}

Spent == total_completed + total_failed

LEMMA PartsFinite ==
  /\ IsFiniteSet(Unfinished) /\ Cardinality(Unfinished) \in Nat
  /\ IsFiniteSet(WithoutResult) /\ Cardinality(WithoutResult) \in Nat
<1>1. Unfinished \in SUBSET Tasks /\ WithoutResult \in SUBSET Tasks
  BY DEF Unfinished, WithoutResult
<1>2. IsFiniteSet(Unfinished) /\ IsFiniteSet(WithoutResult)
  BY <1>1, TasksFinite, FS_Subset
<1> QED BY <1>2, FS_CardinalityType

LEMMA Bookkeeping ==
  ASSUME TypeOK, EveryTaskAccounted
  PROVE  /\ Spent \in Nat /\ total_submitted \in Nat
         /\ total_submitted = Spent + Cardinality(Unfinished) + Cardinality(WithoutResult)
BY DEF TypeOK, EveryTaskAccounted, Spent, WithoutResult

(* A task ends with a result, counted, or without one. *)
LEMMA EndingIsBooked ==
  ASSUME TypeOK, EveryTaskAccounted, UNCHANGED total_submitted,
         NEW t \in Unfinished, Unfinished' = Unfinished \ {t},
         \/ WithoutResult' = WithoutResult /\ Spent' = Spent + 1
         \/ /\ t \notin WithoutResult /\ WithoutResult' = WithoutResult \cup {t}
            /\ Spent' = Spent
  PROVE  total_submitted' = Spent' + Cardinality(Unfinished') + Cardinality(WithoutResult')
<1>1. /\ Spent \in Nat /\ total_submitted \in Nat
      /\ total_submitted = Spent + Cardinality(Unfinished) + Cardinality(WithoutResult)
  BY Bookkeeping
<1>2. Cardinality(Unfinished') = Cardinality(Unfinished) - 1
  BY PartsFinite, FS_RemoveElement
<1>3. CASE WithoutResult' = WithoutResult /\ Spent' = Spent + 1
  BY <1>1, <1>2, <1>3, PartsFinite
<1>4. CASE /\ t \notin WithoutResult /\ WithoutResult' = WithoutResult \cup {t}
           /\ Spent' = Spent
  <2>1. Cardinality(WithoutResult') = Cardinality(WithoutResult) + 1
    BY <1>4, PartsFinite, FS_AddElement
  <2> QED BY <1>1, <1>2, <1>4, <2>1, PartsFinite
<1> QED BY <1>3, <1>4

LEMMA AccountedKept == PInv /\ EveryTaskAccounted /\ [Next]_vars => EveryTaskAccounted'
<1> SUFFICES ASSUME PInv, EveryTaskAccounted, [Next]_vars
             PROVE  total_submitted' =
                      Spent' + Cardinality(Unfinished') + Cardinality(WithoutResult')
  BY DEF EveryTaskAccounted, Spent, WithoutResult
<1>0. TypeOK /\ task \in [Tasks -> States] /\ total_completed \in Nat /\ total_failed \in Nat
  BY TypeOKIs DEF PInv, SlotTypes, OtherTypes
<1>1. /\ Spent \in Nat /\ total_submitted \in Nat
      /\ total_submitted = Spent + Cardinality(Unfinished) + Cardinality(WithoutResult)
  BY <1>0, Bookkeeping
<1>2. ASSUME UNCHANGED <<total_submitted, total_completed, total_failed>>,
             Unfinished' = Unfinished, WithoutResult' = WithoutResult
      PROVE  total_submitted' =
               Spent' + Cardinality(Unfinished') + Cardinality(WithoutResult')
  BY <1>1, <1>2 DEF Spent
<1>3. ASSUME NEW m \in Maps, Map(m)
      PROVE  total_submitted' =
               Spent' + Cardinality(Unfinished') + Cardinality(WithoutResult')
  <2>1. /\ map[m] = "idle" /\ total_submitted' = total_submitted + MapSize[m]
        /\ task' = [t \in Tasks |-> IF t[1] = m THEN "ready" ELSE task[t]]
        /\ UNCHANGED <<total_completed, total_failed>>
    BY <1>3 DEF Map
  <2>2. \A t \in TasksOf(m) : task[t] = "idle"
    BY <2>1 DEF PInv, IdleInv
  <2>3. Unfinished' = Unfinished \cup TasksOf(m) /\ Unfinished \cap TasksOf(m) = {}
    BY <2>1, <2>2 DEF Unfinished, TasksOf, Ended
  <2>4. WithoutResult' = WithoutResult
    BY <2>1, <2>2 DEF WithoutResult, TasksOf
  <2>5. IsFiniteSet(TasksOf(m)) /\ Cardinality(TasksOf(m)) = MapSize[m] /\ MapSize[m] \in Nat
    BY TasksOfFinite, MapsAssumption
  <2>6. Cardinality({}) = 0
    BY FS_EmptySet
  <2>7. Cardinality(Unfinished') = Cardinality(Unfinished) + MapSize[m] - Cardinality({})
    BY <2>3, <2>5, PartsFinite, FS_Union
  <2>8. Spent' = Spent
    BY <2>1 DEF Spent
  <2> QED BY <1>1, <2>1, <2>4, <2>5, <2>6, <2>7, <2>8, PartsFinite
<1>4. ASSUME UNCHANGED <<task, total_submitted, total_completed, total_failed>>
      PROVE  total_submitted' =
               Spent' + Cardinality(Unfinished') + Cardinality(WithoutResult')
  <2>1. Unfinished' = Unfinished /\ WithoutResult' = WithoutResult
    BY <1>4 DEF Unfinished, WithoutResult
  <2> QED BY <1>2, <1>4, <2>1
<1>5. ASSUME NEW m \in Maps, Abort(m) \/ Return(m)
      PROVE  UNCHANGED <<task, total_submitted, total_completed, total_failed>>
  BY <1>5 DEF Abort, Return, telemetry
<1>6. CASE Cancel \/ BeginDrain \/ DrainTimeout \/ EndDrain \/ UNCHANGED vars
  <2>1. UNCHANGED <<task, total_submitted, total_completed, total_failed>>
    BY <1>6 DEF Cancel, BeginDrain, DrainTimeout, EndDrain, vars, telemetry
  <2> QED BY <1>4, <2>1
<1>7. ASSUME NEW t \in Tasks, task[t] \notin Ended \cup {"idle"},
             NEW st \in {"waiting", "running", "backoff"},
             task' = [task EXCEPT ![t] = st],
             UNCHANGED <<total_submitted, total_completed, total_failed>>
      PROVE  total_submitted' =
               Spent' + Cardinality(Unfinished') + Cardinality(WithoutResult')
  <2>1. Unfinished' = Unfinished /\ WithoutResult' = WithoutResult
    BY <1>0, <1>7 DEF Unfinished, WithoutResult, Ended
  <2> QED BY <1>2, <1>7, <2>1
<1>8. ASSUME NEW t \in Tasks, task[t] \notin Ended \cup {"idle"},
             NEW st \in {"stopped", "refused"},
             task' = [task EXCEPT ![t] = st],
             UNCHANGED <<total_submitted, total_completed, total_failed>>
      PROVE  total_submitted' =
               Spent' + Cardinality(Unfinished') + Cardinality(WithoutResult')
  <2>1. t \in Unfinished /\ Unfinished' = Unfinished \ {t}
    BY <1>0, <1>8 DEF Unfinished, Ended
  <2>2. t \notin WithoutResult /\ WithoutResult' = WithoutResult \cup {t}
    BY <1>0, <1>8 DEF WithoutResult, Ended
  <2>3. Spent' = Spent
    BY <1>8 DEF Spent
  <2> QED BY <1>0, <1>8, <2>1, <2>2, <2>3, EndingIsBooked
<1>9. ASSUME NEW t \in Tasks, task[t] \notin Ended \cup {"idle"},
             NEW st \in {"succeeded", "failed"},
             task' = [task EXCEPT ![t] = st],
             Spent' = Spent + 1, UNCHANGED total_submitted
      PROVE  total_submitted' =
               Spent' + Cardinality(Unfinished') + Cardinality(WithoutResult')
  <2>1. t \in Unfinished /\ Unfinished' = Unfinished \ {t}
    BY <1>0, <1>9 DEF Unfinished, Ended
  <2>2. WithoutResult' = WithoutResult
    BY <1>0, <1>9 DEF WithoutResult, Ended
  <2> QED BY <1>0, <1>9, <2>1, <2>2, EndingIsBooked
<1>10. ASSUME NEW t \in Tasks, Attempt(t)
       PROVE  total_submitted' =
                Spent' + Cardinality(Unfinished') + Cardinality(WithoutResult')
  <2>1. task[t] \notin Ended \cup {"idle"}
        /\ UNCHANGED <<total_submitted, total_completed, total_failed>>
    BY <1>10 DEF Attempt, Ended, telemetry
  <2>2. \E st \in {"refused", "waiting", "running"} : task' = [task EXCEPT ![t] = st]
    BY <1>10 DEF Attempt, Refuse, Acquire, Enter
  <2> QED BY <1>7, <1>8, <2>1, <2>2
<1>11. ASSUME NEW t \in Tasks, Run(t) \/ Stop(t)
       PROVE  total_submitted' =
                Spent' + Cardinality(Unfinished') + Cardinality(WithoutResult')
  <2>1. task[t] \notin Ended \cup {"idle"}
        /\ UNCHANGED <<total_submitted, total_completed, total_failed>>
    BY <1>11 DEF Run, Stop, Unfinished, Ended, telemetry
  <2>2. \E st \in {"stopped", "running"} : task' = [task EXCEPT ![t] = st]
    BY <1>11 DEF Run, Stop, Enter
  <2> QED BY <1>7, <1>8, <2>1, <2>2
<1>12. ASSUME NEW t \in Tasks, Succeed(t)
       PROVE  total_submitted' =
                Spent' + Cardinality(Unfinished') + Cardinality(WithoutResult')
  <2>1. /\ task[t] = "running" /\ task' = [task EXCEPT ![t] = "succeeded"]
        /\ total_completed' = total_completed + 1
        /\ UNCHANGED <<total_submitted, total_failed>>
    BY <1>12 DEF Succeed
  <2>2. Spent' = Spent + 1
    BY <1>0, <2>1 DEF Spent
  <2> QED BY <1>9, <2>1, <2>2 DEF Ended
<1>13. ASSUME NEW t \in Tasks, Fail(t) \/ Swallow(t)
       PROVE  total_submitted' =
                Spent' + Cardinality(Unfinished') + Cardinality(WithoutResult')
  <2>1. /\ task[t] = "running" /\ UNCHANGED <<total_submitted, total_completed>>
        /\ \/ task' = [task EXCEPT ![t] = "backoff"] /\ UNCHANGED total_failed
           \/ task' = [task EXCEPT ![t] = "failed"] /\ total_failed' = total_failed + 1
    BY <1>13 DEF Fail, Swallow, Unsuccessful
  <2>2. CASE task' = [task EXCEPT ![t] = "backoff"] /\ UNCHANGED total_failed
    BY <1>7, <2>1, <2>2 DEF Ended
  <2>3. CASE task' = [task EXCEPT ![t] = "failed"] /\ total_failed' = total_failed + 1
    <3>1. Spent' = Spent + 1
      BY <1>0, <2>1, <2>3 DEF Spent
    <3> QED BY <1>9, <2>1, <2>3, <3>1 DEF Ended
  <2> QED BY <2>1, <2>2, <2>3
<1>14. ASSUME NEW t \in Tasks, Notice(t)
       PROVE  total_submitted' =
                Spent' + Cardinality(Unfinished') + Cardinality(WithoutResult')
  <2>1. /\ task[t] = "refused" /\ task' = [task EXCEPT ![t] = "noted"]
        /\ UNCHANGED <<total_submitted, total_completed, total_failed>>
    BY <1>14 DEF Notice, telemetry
  <2>2. Unfinished' = Unfinished /\ WithoutResult' = WithoutResult
    BY <1>0, <2>1 DEF Unfinished, WithoutResult, Ended
  <2>3. Spent' = Spent
    BY <2>1 DEF Spent
  <2> QED BY <1>2, <2>1, <2>2, <2>3
<1> QED BY <1>3, <1>4, <1>5, <1>6, <1>10, <1>11, <1>12, <1>13, <1>14 DEF Next, TaskStep

(* The telemetry accounts for every coroutine handed to map(), however it   *)
(* ends, for any calls of any sizes.                                        *)
THEOREM TelemetryAddsUp == Spec => []EveryTaskAccounted
<1>1. Init => EveryTaskAccounted
  <2> SUFFICES ASSUME Init PROVE EveryTaskAccounted
    OBVIOUS
  <2>1. Unfinished = {} /\ WithoutResult = {}
    BY DEF Init, Unfinished, WithoutResult
  <2>2. Cardinality(Unfinished) = 0 /\ Cardinality(WithoutResult) = 0
    BY <2>1, FS_EmptySet
  <2> QED BY <2>2 DEF Init, EveryTaskAccounted, WithoutResult
<1> QED BY <1>1, PInvHolds, AccountedKept, PTL DEF Spec

-----------------------------------------------------------------------------
(* How far a task has come: in each attempt it reaches the semaphore once   *)
(* and the coroutine once, and the next attempt is a later one.             *)
Position(t) ==
  IF task[t] = "idle" THEN 0
  ELSE IF task[t] \in {"ready", "backoff"} THEN 3 * attempt[t] + 1
  ELSE IF task[t] = "waiting" THEN 3 * attempt[t] + 2
  ELSE IF task[t] = "running" THEN 3 * attempt[t] + 3
  ELSE 3 * MaxRetries + 4

(* What a step of a task does with it. *)
Advances(t) ==
  /\ task[t] \in States \ (Ended \cup {"idle"})
  /\ \E st \in States, a \in 0 .. MaxRetries :
       /\ task' = [task EXCEPT ![t] = st]
       /\ attempt' = [attempt EXCEPT ![t] = a]
       /\ \/ st \in Ended
          \/ st = "backoff" /\ a = attempt[t] + 1
          \/ st = "running" /\ a = attempt[t] /\ task[t] # "running"
          \/ st = "waiting" /\ a = attempt[t] /\ task[t] \in {"ready", "backoff"}

LEMMA PositionBounded ==
  ASSUME PInv, NEW t \in Tasks
  PROVE  Position(t) \in 0 .. 3 * MaxRetries + 4
<1>1. attempt[t] \in 0 .. MaxRetries
  BY DEF PInv, TypeOK
<1> QED BY <1>1, BoundsAssumption DEF Position

LEMMA TaskAdvances ==
  ASSUME PInv, NEW t \in Tasks, TaskStep(t)
  PROVE  Advances(t)
<1> USE BoundsAssumption DEF States, Ended
<1>0. /\ attempt \in [Tasks -> 0 .. MaxRetries] /\ attempt[t] \in 0 .. MaxRetries
      /\ task[t] \in States
  BY TypeOKIs DEF PInv, OtherTypes, SlotTypes
<1>1. ASSUME task[t] \in States \ (Ended \cup {"idle"}), UNCHANGED attempt,
             NEW st \in States, task' = [task EXCEPT ![t] = st],
             \/ st \in Ended
             \/ st = "running" /\ task[t] # "running"
             \/ st = "waiting" /\ task[t] \in {"ready", "backoff"}
      PROVE  Advances(t)
  <2>1. attempt' = [attempt EXCEPT ![t] = attempt[t]]
    BY <1>0, <1>1
  <2> QED BY <1>0, <1>1, <2>1 DEF Advances
<1>2. ASSUME task[t] = "running", Unsuccessful(t) PROVE Advances(t)
  <2>1. CASE attempt[t] < MaxRetries /\ attempt' = [attempt EXCEPT ![t] = @ + 1]
             /\ task' = [task EXCEPT ![t] = "backoff"]
    <3>1. attempt[t] + 1 \in 0 .. MaxRetries
      BY <1>0, <2>1
    <3> QED BY <1>2, <2>1, <3>1 DEF Advances
  <2>2. CASE task' = [task EXCEPT ![t] = "failed"] /\ UNCHANGED attempt
    BY <1>1, <1>2, <2>2
  <2> QED BY <1>2, <2>1, <2>2 DEF Unsuccessful
<1>3. CASE Attempt(t)
  BY <1>1, <1>3 DEF Attempt, Refuse, Acquire, Enter
<1>4. CASE Run(t)
  BY <1>1, <1>4 DEF Run, Enter
<1>5. CASE Succeed(t)
  BY <1>1, <1>5 DEF Succeed
<1>6. CASE Fail(t) \/ Swallow(t)
  BY <1>2, <1>6 DEF Fail, Swallow
<1>7. CASE Stop(t)
  BY <1>0, <1>1, <1>7 DEF Stop, Unfinished
<1> QED BY <1>3, <1>4, <1>5, <1>6, <1>7 DEF TaskStep

LEMMA PositionGrows ==
  ASSUME PInv, NEW t \in Tasks, Advances(t)
  PROVE  /\ Position(t)' > Position(t)
         /\ \A u \in Tasks \ {t} : Position(u)' = Position(u)
<1> USE BoundsAssumption DEF States, Ended
<1>0. /\ task \in [Tasks -> States] /\ attempt \in [Tasks -> 0 .. MaxRetries]
      /\ attempt[t] \in 0 .. MaxRetries
  BY TypeOKIs DEF PInv, OtherTypes, SlotTypes
<1>1. \A u \in Tasks \ {t} : task'[u] = task[u] /\ attempt'[u] = attempt[u]
  BY <1>0 DEF Advances
<1>2. /\ attempt'[t] \in 0 .. MaxRetries
      /\ \/ task'[t] \in Ended
         \/ task'[t] = "backoff" /\ attempt'[t] = attempt[t] + 1
         \/ task'[t] = "running" /\ attempt'[t] = attempt[t] /\ task[t] # "running"
         \/ task'[t] = "waiting" /\ attempt'[t] = attempt[t] /\ task[t] \in {"ready", "backoff"}
  BY <1>0 DEF Advances
<1>3. task[t] \in {"ready", "waiting", "running", "backoff"}
  BY DEF Advances
<1>4. Position(t)' > Position(t)
  BY <1>0, <1>2, <1>3 DEF Position
<1>5. \A u \in Tasks \ {t} : Position(u)' = Position(u)
  BY <1>1 DEF Position
<1> QED BY <1>4, <1>5

LEMMA OthersKeepPosition ==
  ASSUME PInv, [Next]_vars, \A t \in Tasks : ~TaskStep(t)
  PROVE  \A u \in Tasks : Position(u)' >= Position(u)
<1> USE BoundsAssumption
<1> SUFFICES ASSUME NEW u \in Tasks PROVE Position(u)' >= Position(u)
  OBVIOUS
<1>0. attempt[u] \in 0 .. MaxRetries
  BY DEF PInv, TypeOK
<1>1. CASE UNCHANGED <<task, attempt>>
  BY <1>0, <1>1 DEF Position
<1>2. ASSUME NEW m \in Maps, Map(m) PROVE Position(u)' >= Position(u)
  <2>1. UNCHANGED attempt /\ task'[u] = IF u[1] = m THEN "ready" ELSE task[u]
    BY <1>2 DEF Map
  <2>2. u[1] = m => task[u] = "idle"
    BY <1>2 DEF Map, PInv, IdleInv, TasksOf
  <2> QED BY <1>0, <2>1, <2>2 DEF Position
<1>3. ASSUME NEW t \in Tasks, Notice(t) PROVE Position(u)' >= Position(u)
  <2>1. /\ UNCHANGED attempt /\ task[t] = "refused"
        /\ task'[u] = IF u = t THEN "noted" ELSE task[u]
    BY <1>3 DEF Notice, PInv, TypeOK
  <2> QED BY <1>0, <2>1 DEF Position
<1> QED BY <1>1, <1>2, <1>3 DEF Next, Abort, Return, Cancel, BeginDrain, DrainTimeout, EndDrain, vars

LEMMA PositionsMove ==
  ASSUME PInv, PInv', [Next]_vars
  PROVE  \A t \in Tasks : /\ Position(t)' >= Position(t)
                          /\ TaskStep(t) => Position(t)' > Position(t)
<1>1. \A t \in Tasks : Position(t) \in Int /\ Position(t)' \in Int
  <2> SUFFICES ASSUME NEW t \in Tasks PROVE Position(t) \in Int /\ Position(t)' \in Int
    OBVIOUS
  <2>1. Position(t) \in 0 .. 3 * MaxRetries + 4
    BY PositionBounded
  <2>2. attempt'[t] \in 0 .. MaxRetries
    BY DEF PInv, TypeOK
  <2>3. Position(t)' \in Int
    BY <2>2, BoundsAssumption DEF Position
  <2> QED BY <2>1, <2>3, BoundsAssumption
<1>2. ASSUME NEW t \in Tasks, TaskStep(t)
      PROVE  Position(t)' > Position(t) /\ \A u \in Tasks \ {t} : Position(u)' = Position(u)
  BY <1>2, TaskAdvances, PositionGrows
<1>3. CASE \E t \in Tasks : TaskStep(t)
  <2>1. PICK t \in Tasks : TaskStep(t)
    BY <1>3
  <2>2. \A u \in Tasks : u = t \/ Position(u)' = Position(u)
    BY <1>2, <2>1
  <2>3. Position(t)' > Position(t)
    BY <1>2, <2>1
  <2>4. \A u \in Tasks : Position(u)' >= Position(u)
    BY <1>1, <2>2, <2>3
  <2> QED BY <1>2, <2>4
<1>4. CASE \A t \in Tasks : ~TaskStep(t)
  BY <1>4, OthersKeepPosition
<1> QED BY <1>3, <1>4

(* A task takes at most 3 * MaxRetries + 4 steps: each brings it further,   *)
(* also the one that swallows a cancellation and goes on to a retry, and no *)
(* other task, cancel, replacement of the semaphore or drain takes that     *)
(* away.                                                                    *)
THEOREM TasksAdvance ==
  Spec => /\ [](\A t \in Tasks : Position(t) \in 0 .. 3 * MaxRetries + 4)
          /\ [][\A t \in Tasks : /\ Position(t)' >= Position(t)
                                 /\ TaskStep(t) => Position(t)' > Position(t)]_vars
<1>1. PInv => \A t \in Tasks : Position(t) \in 0 .. 3 * MaxRetries + 4
  BY PositionBounded
<1>2. PInv /\ PInv' /\ [Next]_vars =>
        \A t \in Tasks : /\ Position(t)' >= Position(t)
                         /\ TaskStep(t) => Position(t)' > Position(t)
  BY PositionsMove
<1> QED BY <1>1, <1>2, PInvHolds, PTL DEF Spec

-----------------------------------------------------------------------------
(* What a step of t needs, when it is not done. *)
MayStep(t) ==
  /\ t \in Unfinished
  /\ \/ t \in stopping
     \/ task[t] \in {"ready", "running", "backoff"}
     \/ task[t] = "waiting" /\ value[sem[t]] > 0

LEMMA StepsNeedMayStep ==
  ASSUME PInv, NEW t \in Tasks, TaskStep(t)
  PROVE  MayStep(t)
<1>1. t \in Unfinished
  BY DEF TaskStep, Attempt, Run, Succeed, Fail, Swallow, Stop, Unfinished, Ended
<1> QED BY <1>1 DEF TaskStep, Attempt, Run, Enter, Succeed, Fail, Swallow, Stop, MayStep

(* A full semaphore, replaced or not, has somebody in it. *)
LEMMA FullSemaphoreIsHeld ==
  ASSUME PInv, SlotsConserved, NEW s \in 1 .. Len(capacity), ~(value[s] > 0)
  PROVE  \E u \in Running : sem[u] = s
<1>1. /\ capacity[s] \in MinWorkers .. Workers /\ value[s] \in Nat
      /\ s \in DOMAIN capacity
  BY LenProperties DEF PInv, TypeOK
<1>2. value[s] + Cardinality({t \in Running : sem[t] = s}) = capacity[s]
  BY <1>1 DEF SlotsConserved
<1>3. Cardinality({t \in Running : sem[t] = s}) # 0
  BY <1>1, <1>2, WorkersAssumption
<1>4. {t \in Running : sem[t] = s} # {}
  BY <1>3, FS_EmptySet
<1> QED BY <1>4

(* Nobody waits for nothing: a task that cannot take its next step waits    *)
(* for a slot, and one that can step is in the very semaphore it waits for. *)
(* A task that queues for a semaphore that has been replaced is no          *)
(* exception, so no pool deadlocks.                                         *)
THEOREM NobodyWaitsInVain ==
  Spec => [](\A t \in Unfinished :
               MayStep(t) \/ \E u \in Running : sem[u] = sem[t] /\ MayStep(u))
<1>1. PInv /\ SlotsConserved =>
        \A t \in Unfinished :
          MayStep(t) \/ \E u \in Running : sem[u] = sem[t] /\ MayStep(u)
  <2> SUFFICES ASSUME PInv, SlotsConserved, NEW t \in Unfinished, ~MayStep(t)
               PROVE  \E u \in Running : sem[u] = sem[t] /\ MayStep(u)
    OBVIOUS
  <2>1. t \in Tasks /\ task[t] = "waiting"
    <3>1. t \in Tasks /\ task[t] \in States /\ task[t] \notin Ended \cup {"idle"}
      BY TypeOKIs DEF PInv, SlotTypes, Unfinished
    <3> QED BY <3>1 DEF MayStep, States
  <2>2. ~(value[sem[t]] > 0) /\ sem[t] \in 1 .. Len(capacity)
    BY <2>1 DEF MayStep, PInv, Seated
  <2>3. PICK u \in Running : sem[u] = sem[t]
    BY <2>2, FullSemaphoreIsHeld
  <2>4. MayStep(u)
    BY DEF Running, MayStep, Unfinished, Ended
  <2> QED BY <2>3, <2>4
<1> QED BY <1>1, PInvHolds, NoSlotLost, PTL
=============================================================================
