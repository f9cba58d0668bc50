------------------------------ MODULE StageGraph ------------------------------
(***************************************************************************)
(* What a pipeline run promises, without waves: stages with requirements   *)
(* are started and end.  A stage starts only when everything it requires   *)
(* has ended, well or badly; it starts once; a run that is not abandoned   *)
(* concludes only when every stage has ended.                              *)
(***************************************************************************)
CONSTANTS Stages,
          Requires \* Requires[s]: the stages whose end s waits for

VARIABLES phase,   \* "idle", "active" or "concluded"
          status   \* status[s]: "waiting", "started" or "ended"

vars == <<phase, status>>

CanStart ==
  {s \in Stages : /\ status[s] = "waiting"
                  /\ \A t \in Requires[s] : status[t] = "ended"}

Init ==
  /\ phase = "idle"
  /\ status = [s \in Stages |-> "waiting"]

Launch ==
  /\ phase # "active"
  /\ phase' = "active"
  /\ status' = [s \in Stages |-> "waiting"]

StartSome ==
  /\ phase = "active"
  /\ \E S \in SUBSET CanStart :
       status' = [s \in Stages |-> IF s \in S THEN "started" ELSE status[s]]
  /\ UNCHANGED phase

End(s) ==
  /\ phase = "active"
  /\ status[s] = "started"
  /\ status' = [status EXCEPT ![s] = "ended"]
  /\ UNCHANGED phase

Conclude ==
  /\ phase = "active"
  /\ \A s \in Stages : status[s] = "ended"
  /\ phase' = "concluded"
  /\ UNCHANGED status

Abandon ==
  /\ phase = "active"
  /\ phase' = "idle"
  /\ UNCHANGED status

(* A new process knows nothing of the runs of the one before. *)
Forget ==
  /\ phase # "active"
  /\ phase' = "idle"
  /\ status' = [s \in Stages |-> "waiting"]

Next ==
  \/ Launch \/ StartSome \/ Conclude \/ Abandon \/ Forget
  \/ \E s \in Stages : End(s)

Spec == Init /\ [][Next]_vars

=============================================================================
