------------------------------ MODULE WorkerPool ------------------------------
(***************************************************************************)
(* WorkerPool (src/reconforgex/pipeline/worker_pool.py): calls of map() run *)
(* their coroutines in task groups, under a semaphore that the adaptive     *)
(* control replaces while tasks hold and await the old one.                 *)
(* A step is what a task does between two suspension points.                *)
(*                                                                         *)
(* Semaphores are numbered as they are made.  Time is abstract: whether the *)
(* adjust interval has passed and what the average latency is are           *)
(* nondeterministic, and so is who of the waiters gets a free slot.         *)
(***************************************************************************)
EXTENDS Integers, Sequences, FiniteSets

CONSTANTS Maps,       \* the calls of map
          MapSize,    \* of each call: how many coroutines it gets
          Workers,    \* config.worker_count after __post_init__
          MinWorkers, \* the 10 below which the adaptive control does not go
          MaxRetries, \* config.max_retries
          Adaptive,   \* config.adaptive_concurrency
          MaxAdjusts  \* bound: replacements of the semaphore

ASSUME MapsAssumption == IsFiniteSet(Maps) /\ MapSize \in [Maps -> Nat \ {0}]
ASSUME WorkersAssumption ==
  /\ Workers \in Nat /\ MinWorkers \in Nat \ {0} /\ MinWorkers <= Workers
  /\ Adaptive \in BOOLEAN
ASSUME BoundsAssumption == MaxRetries \in Nat /\ MaxAdjusts \in Nat

Tasks == UNION {{m} \X (1 .. MapSize[m]) : m \in Maps}

VARIABLES
  map,        \* of each call: idle, running, aborting, returned, raised
  task,       \* of each task: idle, ready, waiting, running, backoff and how it ended
  attempt,    \* of each task: the loop variable of _execute_with_retry
  awaited,    \* tasks whose coroutine object has been awaited
  sem,        \* of each task: the semaphore it waits for or holds
  stopping,   \* tasks with a cancellation to be delivered
  cancelled,  \* _cancelled
  capacity, value, \* of each semaphore: its initial and its present value
  current_concurrency,
  recent_durations, \* whether there are any
  total_submitted, total_completed, total_failed, total_retried,
  drain, draining \* __aexit__: open, draining, closed; the tasks it awaits

telemetry == <<total_submitted, total_completed, total_failed, total_retried>>
adaptive == <<capacity, current_concurrency, recent_durations>>
exit == <<drain, draining>>
vars == <<map, task, attempt, awaited, sem, stopping, cancelled, value,
          adaptive, telemetry, exit>>

TasksOf(m) == {t \in Tasks : t[1] = m}

(* succeeded and failed tasks have a TaskResult; stopped ones ended with    *)
(* CancelledError, refused ones with PoolCancelledError, which their group  *)
(* has seen once they are noted.                                            *)
Ended == {"succeeded", "failed", "stopped", "refused", "noted"}
Unfinished == {t \in Tasks : task[t] \notin Ended \cup {"idle"}}
Running == {t \in Tasks : task[t] = "running"}

Lesser(a, b) == IF a < b THEN a ELSE b
Greater(a, b) == IF a > b THEN a ELSE b

Init ==
  /\ map = [m \in Maps |-> "idle"]
  /\ task = [t \in Tasks |-> "idle"]
  /\ attempt = [t \in Tasks |-> 0]
  /\ awaited = {}
  /\ sem = [t \in Tasks |-> 0]
  /\ stopping = {}
  /\ cancelled = FALSE
  /\ capacity = <<Workers>> /\ value = <<Workers>>
  /\ current_concurrency = Workers
  /\ recent_durations = FALSE
  /\ total_submitted = 0 /\ total_completed = 0
  /\ total_failed = 0 /\ total_retried = 0
  /\ drain = "open" /\ draining = {}

(* map(): un-cancels the pool and creates the tasks. *)
Map(m) ==
  /\ map[m] = "idle"
  /\ map' = [map EXCEPT ![m] = "running"]
  /\ cancelled' = FALSE
  /\ total_submitted' = total_submitted + MapSize[m]
  /\ task' = [t \in Tasks |-> IF t[1] = m THEN "ready" ELSE task[t]]
  /\ UNCHANGED <<attempt, awaited, sem, stopping, value, adaptive,
                 total_completed, total_failed, total_retried, drain,
                 draining>>

(* Who queues for a semaphore; a waiter whose cancellation is under way no   *)
(* longer counts. *)
Waiters(s) == {t \in Tasks \ stopping : task[t] = "waiting" /\ sem[t] = s}

(* A slot is taken, and the factory awaits the coroutine. *)
Enter(t, s) ==
  /\ value[s] > 0
  /\ value' = [value EXCEPT ![s] = @ - 1]
  /\ task' = [task EXCEPT ![t] = "running"]
  /\ awaited' = awaited \cup {t}

(* A cancelled pool raises. *)
Refuse(t) ==
  /\ task' = [task EXCEPT ![t] = "refused"]
  /\ UNCHANGED <<sem, value, awaited, stopping>>

(* asyncio.Semaphore.acquire on the semaphore of this moment: a free slot   *)
(* is taken at once, unless others queue for it. *)
Acquire(t) ==
  LET s == Len(capacity) IN
  /\ sem' = [sem EXCEPT ![t] = s]
  /\ \/ Waiters(s) = {} /\ Enter(t, s)
     \/ /\ Waiters(s) # {} \/ value[s] = 0
        /\ task' = [task EXCEPT ![t] = "waiting"]
        /\ UNCHANGED <<value, awaited>>
  /\ UNCHANGED stopping

(* Mutant: only a task that has not started looks at the flag. *)
MutAttemptUnchecked(t) ==
  /\ task[t] \in {"ready", "backoff"} /\ t \notin stopping
  /\ IF cancelled /\ task[t] = "ready" THEN Refuse(t) ELSE Acquire(t)
  /\ UNCHANGED <<map, attempt, cancelled, adaptive, telemetry, exit>>

(* The head of the retry loop. *)
Attempt(t) ==
  /\ task[t] \in {"ready", "backoff"} /\ t \notin stopping
  /\ IF cancelled THEN Refuse(t) ELSE Acquire(t)
  /\ UNCHANGED <<map, attempt, cancelled, adaptive, telemetry, exit>>

(* Mutant: those who queue for a replaced semaphore are forgotten. *)
MutRunCurrentOnly(t) ==
  /\ task[t] = "waiting" /\ t \notin stopping
  /\ sem[t] = Len(capacity)
  /\ Enter(t, sem[t])
  /\ UNCHANGED <<map, attempt, sem, stopping, cancelled, adaptive, telemetry,
                 exit>>

(* A released slot wakes a waiter. *)
Run(t) ==
  /\ task[t] = "waiting" /\ t \notin stopping
  /\ Enter(t, sem[t])
  /\ UNCHANGED <<map, attempt, sem, stopping, cancelled, adaptive, telemetry,
                 exit>>

(* The task has left its semaphore. *)
Left(t) == [sem EXCEPT ![t] = 0]

(* Mutant: the slot is given back to the semaphore of the moment. *)
MutReleasedToCurrent(t) == [value EXCEPT ![Len(capacity)] = @ + 1]

(* Leaving the async with gives the slot back to the semaphore it is of. *)
Released(t) == [value EXCEPT ![sem[t]] = @ + 1]

(* Mutant: the speed-up is not held to the target. *)
MutAdjustedUnbounded ==
  {Greater(MinWorkers, (current_concurrency * 4) \div 5),
   current_concurrency + 1,
   current_concurrency}

(* What _adjust_concurrency may make of the concurrency: too slow, fast     *)
(* enough, or in between.                                                   *)
Adjusted ==
  {Greater(MinWorkers, (current_concurrency * 4) \div 5),
   Lesser(Workers, (current_concurrency * 6) \div 5),
   current_concurrency}

(* _adjust_concurrency after a task with a result, the slots being given    *)
(* back by then and durations recorded or not.                              *)
Adjust(slots, durations) ==
  \/ /\ value' = slots
     /\ recent_durations' = durations
     /\ UNCHANGED <<capacity, current_concurrency>>
  \/ /\ Adaptive /\ durations
     /\ Len(capacity) <= MaxAdjusts
     /\ current_concurrency' \in Adjusted
     /\ recent_durations' = FALSE
     /\ capacity' = Append(capacity, current_concurrency')
     /\ value' = Append(slots, current_concurrency')

(* The coroutine returned within the timeout, also one that consumed its    *)
(* cancellation on the way. *)
Succeed(t) ==
  /\ task[t] = "running"
  /\ attempt[t] = 0 \* a coroutine that was awaited before raises instead
  /\ task' = [task EXCEPT ![t] = "succeeded"]
  /\ total_completed' = total_completed + 1
  /\ Adjust(Released(t), TRUE)
  /\ sem' = Left(t)
  /\ stopping' = stopping \ {t}
  /\ UNCHANGED <<map, attempt, awaited, cancelled,
                 total_submitted, total_failed, total_retried, exit>>

(* Mutant: a task that gives up is not counted. *)
MutUnsuccessfulUncounted(t) ==
  /\ sem' = Left(t)
  /\ UNCHANGED <<map, awaited, cancelled, total_submitted, total_completed,
                 exit>>
  /\ \/ /\ attempt[t] < MaxRetries
        /\ attempt' = [attempt EXCEPT ![t] = @ + 1]
        /\ total_retried' = total_retried + 1
        /\ task' = [task EXCEPT ![t] = "backoff"]
        /\ value' = Released(t)
        /\ UNCHANGED <<total_failed, adaptive>>
     \/ /\ attempt[t] = MaxRetries
        /\ task' = [task EXCEPT ![t] = "failed"]
        /\ Adjust(Released(t), recent_durations)
        /\ UNCHANGED <<attempt, total_failed, total_retried>>

(* The timeout or an exception: back off outside the semaphore, or give up. *)
Unsuccessful(t) ==
  /\ sem' = Left(t)
  /\ UNCHANGED <<map, awaited, cancelled, total_submitted, total_completed,
                 exit>>
  /\ \/ /\ attempt[t] < MaxRetries
        /\ attempt' = [attempt EXCEPT ![t] = @ + 1]
        /\ total_retried' = total_retried + 1
        /\ task' = [task EXCEPT ![t] = "backoff"]
        /\ value' = Released(t)
        /\ UNCHANGED <<total_failed, adaptive>>
     \/ /\ attempt[t] = MaxRetries
        /\ task' = [task EXCEPT ![t] = "failed"]
        /\ total_failed' = total_failed + 1
        /\ Adjust(Released(t), recent_durations)
        /\ UNCHANGED <<attempt, total_retried>>

Fail(t) ==
  /\ task[t] = "running" /\ t \notin stopping
  /\ Unsuccessful(t)
  /\ UNCHANGED stopping

(* A coroutine may answer its cancellation with an exception of its own,    *)
(* and so consume it.                                                       *)
Swallow(t) ==
  /\ task[t] = "running" /\ t \in stopping
  /\ Unsuccessful(t)
  /\ stopping' = stopping \ {t}

(* CancelledError leaves the task, and the async with if it is in it. *)
Stop(t) ==
  /\ t \in stopping /\ t \in Unfinished
  /\ task' = [task EXCEPT ![t] = "stopped"]
  /\ stopping' = stopping \ {t}
  /\ IF task[t] = "running" THEN value' = Released(t) ELSE UNCHANGED value
  /\ sem' = Left(t)
  /\ UNCHANGED <<map, attempt, awaited, cancelled, adaptive, telemetry,
                 exit>>

(* cancel() *)
Cancel ==
  /\ cancelled' = TRUE
  /\ stopping' = stopping \cup Unfinished
  /\ UNCHANGED <<map, task, attempt, awaited, sem, value, adaptive, telemetry,
                 exit>>

(* The tasks of the group whose PoolCancelledError it has seen. *)
Refused(m) == {t \in TasksOf(m) : task[t] = "noted"}

(* A group cancels its unfinished tasks once, the first time it is given a  *)
(* reason to.                                                               *)
GroupAborts(m) ==
  stopping' = IF map[m] = "aborting" \/ Refused(m) # {} THEN stopping
              ELSE stopping \cup (Unfinished \cap TasksOf(m))

(* A turn after a refused task ended the group is told. *)
Notice(t) ==
  /\ task[t] = "refused"
  /\ task' = [task EXCEPT ![t] = "noted"]
  /\ GroupAborts(t[1])
  /\ UNCHANGED <<map, attempt, awaited, sem, cancelled, value, adaptive,
                 telemetry, exit>>

(* The task that awaits map() is cancelled, and its group with it. *)
Abort(m) ==
  /\ map[m] = "running"
  /\ map' = [map EXCEPT ![m] = "aborting"]
  /\ GroupAborts(m)
  /\ UNCHANGED <<task, attempt, awaited, sem, cancelled, value, adaptive,
                 telemetry, exit>>

(* The group is empty.  map() swallows an ExceptionGroup, even if its own   *)
(* cancellation came with it. *)
Return(m) ==
  /\ map[m] \in {"running", "aborting"}
  /\ \A t \in TasksOf(m) : task[t] \in Ended \ {"refused"}
  /\ IF map[m] = "aborting" /\ Refused(m) = {}
     THEN map' = [map EXCEPT ![m] = "raised"]
     ELSE map' = [map EXCEPT ![m] = "returned"]
  /\ UNCHANGED <<task, attempt, awaited, sem, stopping, cancelled, value,
                 adaptive, telemetry, exit>>

(* __aexit__: _drain awaits the unfinished tasks of all calls, and cancels  *)
(* them after ten seconds.                                                  *)
BeginDrain ==
  /\ drain = "open"
  /\ drain' = "draining"
  /\ draining' = Unfinished
  /\ UNCHANGED <<map, task, attempt, awaited, sem, stopping, cancelled, value,
                 adaptive, telemetry>>

DrainTimeout ==
  /\ drain = "draining"
  /\ drain' = "overdue"
  /\ stopping' = stopping \cup (draining \cap Unfinished)
  /\ UNCHANGED <<map, task, attempt, awaited, sem, cancelled, value, adaptive,
                 telemetry, draining>>

EndDrain ==
  /\ drain \in {"draining", "overdue"}
  /\ draining \cap Unfinished = {}
  /\ drain' = "closed"
  /\ draining' = {}
  /\ UNCHANGED <<map, task, attempt, awaited, sem, stopping, cancelled, value,
                 adaptive, telemetry>>

TaskStep(t) ==
  Attempt(t) \/ Run(t) \/ Succeed(t) \/ Fail(t) \/ Swallow(t) \/ Stop(t)

Next ==
  \/ \E m \in Maps : Map(m) \/ Abort(m) \/ Return(m)
  \/ \E t \in Tasks : TaskStep(t) \/ Notice(t)
  \/ Cancel \/ BeginDrain \/ DrainTimeout \/ EndDrain

(* wait_for ends every coroutine at its timeout, sleeps end, and a free     *)
(* slot wakes a waiter.                                                     *)
Fairness ==
  /\ \A t \in Tasks : WF_vars(TaskStep(t)) /\ WF_vars(Notice(t))
  /\ \A m \in Maps : WF_vars(Return(m))
  /\ WF_vars(EndDrain)

Spec == Init /\ [][Next]_vars /\ Fairness

-----------------------------------------------------------------------------
(* Every variable has its type; retries, and the concurrency the adaptive   *)
(* control sets, stay within their bounds.                                  *)
TypeOK ==
  /\ map \in [Maps -> {"idle", "running", "aborting", "returned", "raised"}]
  /\ task \in [Tasks -> {"idle", "ready", "waiting", "running", "backoff"} \cup Ended]
  /\ attempt \in [Tasks -> 0 .. MaxRetries]
  /\ awaited \in SUBSET Tasks /\ stopping \in SUBSET Tasks
  /\ cancelled \in BOOLEAN /\ recent_durations \in BOOLEAN
  /\ capacity \in Seq(MinWorkers .. Workers)
  /\ value \in Seq(Nat) /\ Len(value) = Len(capacity)
  /\ sem \in [Tasks -> 0 .. Len(capacity)]
  /\ current_concurrency \in MinWorkers .. Workers
  /\ total_submitted \in Nat /\ total_completed \in Nat
  /\ total_failed \in Nat /\ total_retried \in Nat
  /\ drain \in {"open", "draining", "overdue", "closed"}
  /\ draining \in SUBSET Tasks

(* No slot is lost or made: of every semaphore, also of those that have     *)
(* been replaced, the free slots and the tasks in it are its capacity.      *)
SlotsConserved ==
  \A s \in DOMAIN capacity :
    value[s] + Cardinality({t \in Running : sem[t] = s}) = capacity[s]

(* Every task handed in is in the telemetry, or was cancelled, or is still  *)
(* to end.                                                                  *)
EveryTaskAccounted ==
  total_submitted =
    total_completed + total_failed + Cardinality(Unfinished)
      + Cardinality({t \in Tasks : task[t] \in {"stopped", "refused", "noted"}})

(* A cancelled pool gives no task its turn, not even one whose coroutine    *)
(* swallowed the cancellation, until map() is called again.                 *)
NothingRunsAfterCancel ==
  [][cancelled /\ cancelled' => Running' \subseteq Running]_vars

(* Every map and the drain end, however tasks fail, time out, are cancelled *)
(* or wait for a semaphore that has been replaced.                          *)
PoolComesToRest ==
  /\ \A m \in Maps :
       map[m] = "running" ~> map[m] \in {"returned", "raised"}
  /\ drain = "draining" ~> drain = "closed"

(* worker_pool.py:332 promises that a retry executes the coroutine again.   *)
RetriesExecute ==
  [][\A t \in Tasks : t \in Running' \ Running => t \notin awaited]_vars
=============================================================================
