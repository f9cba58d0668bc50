------------------------------ MODULE WaveOrder ------------------------------
(***************************************************************************)
(* What PipelineScheduler promises its caller, without saying how.  Stages *)
(* are declared with the names they require; the plan is then built layer  *)
(* by layer, each layer being ALL the stages that are not planned yet and  *)
(* whose declared requirements are planned.  A required name that nobody   *)
(* declared constrains nothing.  Planning ends when no stage is ready,     *)
(* whether or not every stage was planned.                                 *)
(***************************************************************************)
EXTENDS Naturals, Sequences

CONSTANT Names

VARIABLES requires,  \* requires[n]: the names that declared stage n requires
          layers,    \* the plan: a sequence of sets of stages
          phase      \* "open", "planning" or "planned"

vars == <<requires, layers, phase>>

Declared == DOMAIN requires

Planned == UNION {layers[i] : i \in DOMAIN layers}

Ready ==
  {n \in Declared \ Planned : requires[n] \cap Declared \subseteq Planned}

Init ==
  /\ requires = [n \in {} |-> {}]
  /\ layers = <<>>
  /\ phase = "open"

(* A stage is declared, or declared again with other requirements. *)
Declare ==
  /\ phase = "open"
  /\ \E n \in Names, R \in SUBSET Names :
       requires' = [m \in Declared \cup {n} |->
                      IF m = n THEN R ELSE requires[m]]
  /\ UNCHANGED <<layers, phase>>

Close ==
  /\ phase = "open"
  /\ phase' = "planning"
  /\ UNCHANGED <<requires, layers>>

AddLayer ==
  /\ phase = "planning"
  /\ Ready # {}
  /\ layers' = Append(layers, Ready)
  /\ UNCHANGED <<requires, phase>>

Finish ==
  /\ phase = "planning"
  /\ Ready = {}
  /\ phase' = "planned"
  /\ UNCHANGED <<requires, layers>>

Next == Declare \/ Close \/ AddLayer \/ Finish

Spec == Init /\ [][Next]_vars

=============================================================================
