------------------------------- MODULE Pipeline -------------------------------
(***************************************************************************)
(* PipelineManager (src/reconforgex/pipeline/manager.py).  run() asks the   *)
(* scheduler for waves, gathers the stages of a wave on the event loop,     *)
(* extends stats.stage_results with their results, and goes on to the next  *)
(* wave; stages pass data through _data_store; report_builder writes three  *)
(* files; at the end the shared HTTP client is closed.                      *)
(*                                                                         *)
(* A stage writes its keys of _data_store together, without a suspension    *)
(* between them, so the model keys the store by the stage that writes.  An  *)
(* entry tells the run of its last write and whether the list is non-empty  *)
(* (it varies only for the lists that risk_scoring reads).  A client is *)
(* named by the run that created it.                                        *)
(***************************************************************************)
EXTENDS Naturals, FiniteSets

CONSTANTS Stages,   \* the registered stages
          MaxRuns   \* bound: calls of run() in a history

AllStages ==
  {"http_fingerprinting", "header_analyzer", "security_header_scanner",
   "tls_inspector", "csp_analyzer", "robots_parser", "sitemap_parser",
   "js_collector", "interesting_files", "http_response_analyzer",
   "js_endpoint_extractor", "js_secret_detector", "risk_scoring",
   "report_builder"}

ASSUME StagesAssumption == Stages \subseteq AllStages
ASSUME MaxRunsAssumption == MaxRuns \in Nat \ {0}

Runs == 0 .. MaxRuns   \* 0: no run

JSAnalyzers == {"js_endpoint_extractor", "js_secret_detector"}

(* Mutant: risk_scoring is registered without js_secret_detector. *)
MutDependsOnNoSecrets(s) ==
  {t \in AllStages :
     \/ s \in JSAnalyzers /\ t = "js_collector"
     \/ /\ s = "risk_scoring"
        /\ t \in {"header_analyzer", "security_header_scanner",
                  "tls_inspector", "csp_analyzer"}
     \/ s = "report_builder" /\ t # "report_builder"}

(* The depends_on lists of _register_default_stages. *)
DependsOn(s) ==
  {t \in AllStages :
     \/ s \in JSAnalyzers /\ t = "js_collector"
     \/ /\ s = "risk_scoring"
        /\ t \in {"header_analyzer", "security_header_scanner",
                  "tls_inspector", "csp_analyzer", "js_secret_detector"}
     \/ s = "report_builder" /\ t # "report_builder"}

(* The writers of the keys a stage reads: js_contents, the four keyword     *)
(* arguments of the scoring module, and the whole store for the reports.    *)
Reads(s) ==
  {t \in AllStages :
     \/ s \in JSAnalyzers /\ t = "js_collector"
     \/ s = "risk_scoring" /\ t \in {"header_analyzer", "tls_inspector",
                                     "csp_analyzer", "js_secret_detector"}
     \/ s = "report_builder" /\ t # "report_builder"}

(* Lists of dicts whose elements the scoring module reads attributes of.    *)
AttributeRead == {"tls_inspector", "csp_analyzer", "js_secret_detector"}

(* Those of them that may be empty; the TLS list holds one entry per port.  *)
MayBeEmpty == {"csp_analyzer", "js_secret_detector"}

(* The coroutines of these stages contain no suspension point once begun.   *)
NeverSuspends ==
  {"tls_inspector", "risk_scoring", "report_builder"} \cup JSAnalyzers

UsesHttp == AllStages \ NeverSuspends

ReportFiles == <<"json", "md", "html">>   \* in the order they are written

VARIABLES
  pc,            \* "new", "running", "ended", "cancelled" or "dead"
  run,           \* runs started so far; the current run when pc = "running"
  wave,          \* the stages being gathered; {} between waves
  stage,         \* "waiting", "created" (a task), "running", "completed",
                 \*   "failed" or "cancelled"
  stage_results, \* entries of stats.stage_results per stage and run
  module,        \* _modules: the client its module was given; 0: not made
  shared_client, \* _shared_client; 0: None
  open,          \* the clients that hold an open httpx client
  store,         \* _data_store
  inputs,        \* what each stage read from the store when it began
  step,          \* reports written by report_builder in this run
  listed,        \* stage_results as report_builder put them in the store
  files          \* the run whose report a file holds whole; 0: none

vars == <<pc, run, wave, stage, stage_results, module, shared_client, open,
          store, inputs, step, listed, files>>

(* What survives the process, and what a report is made of. *)
reportVars == <<step, listed, files>>

Entries == [run : Runs, filled : BOOLEAN]

Absent == [run |-> 0, filled |-> FALSE]

NoEntries == [r \in Runs |-> 0]

Nothing == [t \in Stages |-> Absent]

Ended(s) == stage[s] \in {"completed", "failed"}

(* The waves are those of the scheduler: every stage not yet in a wave      *)
(* whose registered dependencies are in one.                                *)
Plan == INSTANCE WaveOrder
  WITH Names <- AllStages,
       requires <- [s \in Stages |-> DependsOn(s)],
       layers <- <<{s \in Stages : stage[s] # "waiting"}>>,
       phase <- "planning"

(* No coroutine that never suspends is on the event loop, s aside. *)
OnLoop(s) == \A t \in NeverSuspends \cap wave : t = s \/ stage[t] # "running"

Init ==
  /\ pc = "new"
  /\ run = 0
  /\ wave = {}
  /\ stage = [s \in Stages |-> "waiting"]
  /\ stage_results = [s \in Stages |-> NoEntries]
  /\ module = [s \in Stages |-> 0]
  /\ shared_client = 0
  /\ open = {}
  /\ store = Nothing
  /\ inputs = [s \in Stages |-> Nothing]
  /\ step = 0
  /\ listed = [s \in Stages |-> NoEntries]
  /\ files = [i \in 1 .. 3 |-> 0]

-----------------------------------------------------------------------------
(* run() up to its loop over the waves.  Its mkdir may raise instead, which *)
(* leaves all of this as it was. *)
StartRun ==
  /\ pc \in {"new", "ended", "cancelled"}
  /\ run < MaxRuns
  /\ pc' = "running"
  /\ run' = run + 1
  /\ shared_client' = IF shared_client = 0 THEN run + 1 ELSE shared_client
  /\ stage' = [s \in Stages |-> "waiting"]
  /\ inputs' = [s \in Stages |-> Nothing]
  /\ step' = 0
  /\ listed' = [s \in Stages |-> NoEntries]
  /\ UNCHANGED <<wave, stage_results, module, open, store, files>>

(* Mutant: the next wave is gathered without waiting for the one before. *)
MutStartWaveNoBarrier ==
  /\ pc = "running"
  /\ \A s \in wave : stage[s] # "created"
  /\ Plan!Ready # {}
  /\ wave' = Plan!Ready \cup {s \in wave : ~Ended(s)}
  /\ stage' = [s \in Stages |-> IF s \in Plan!Ready THEN "created" ELSE stage[s]]
  /\ UNCHANGED <<pc, run, stage_results, module, shared_client, open, store,
                 inputs, reportVars>>

(* The tasks of a wave are made and gathered. *)
StartWave ==
  /\ pc = "running"
  /\ wave = {}
  /\ Plan!Ready # {}
  /\ wave' = Plan!Ready
  /\ stage' = [s \in Stages |-> IF s \in Plan!Ready THEN "created" ELSE stage[s]]
  /\ UNCHANGED <<pc, run, stage_results, module, shared_client, open, store,
                 inputs, reportVars>>

(* _get_module, then the stage's inputs, up to the await of module.run. *)
Begin(s) ==
  /\ s \in wave \ {"report_builder"}
  /\ stage[s] = "created"
  /\ OnLoop(s)
  /\ stage' = [stage EXCEPT ![s] = "running"]
  /\ module' = [module EXCEPT ![s] = IF @ = 0 THEN shared_client ELSE @]
  /\ inputs' = [inputs EXCEPT ![s] =
                  [t \in Stages |-> IF t \in Reads(s) THEN store[t] ELSE Absent]]
  /\ UNCHANGED <<pc, run, wave, stage_results, shared_client, open, store,
                 reportVars>>

(* An import fails before the module is made (or, in report_builder, before *)
(* anything is stored): the exception becomes a FAILED result.              *)
FailToLoad(s) ==
  /\ s \in wave
  /\ stage[s] = "created"
  /\ module[s] = 0
  /\ OnLoop(s)
  /\ stage' = [stage EXCEPT ![s] = "failed"]
  /\ UNCHANGED <<pc, run, wave, stage_results, module, shared_client, open,
                 store, inputs, reportVars>>

(* A module's request makes its client open an httpx client if it has none. *)
Fetch(s) ==
  /\ s \in wave \cap UsesHttp
  /\ stage[s] = "running"
  /\ OnLoop(s)
  /\ module[s] \notin open
  /\ open' = open \cup {module[s]}
  /\ UNCHANGED <<pc, run, wave, stage, stage_results, module, shared_client,
                 store, inputs, reportVars>>

(* Whether the list module.run returns is non-empty.  A module turns its    *)
(* exceptions into a shorter list; the scoring module raises one at the     *)
(* first element of a list it reads attributes of, the elements being dicts.*)
Filled(s) ==
  IF s = "risk_scoring"
  THEN {\A t \in AttributeRead \cap Stages : ~inputs[s][t].filled}
  ELSE IF s \in MayBeEmpty THEN BOOLEAN ELSE {TRUE}

(* Mutant: a stage stores its results only when there are any. *)
MutReturnStoresIfFilled(s) ==
  /\ s \in wave \ {"report_builder"}
  /\ stage[s] = "running"
  /\ OnLoop(s)
  /\ stage' = [stage EXCEPT ![s] = "completed"]
  /\ \E b \in Filled(s) :
       store' = IF b THEN [store EXCEPT ![s] = [run |-> run, filled |-> b]]
                     ELSE store
  /\ UNCHANGED <<pc, run, wave, stage_results, module, shared_client, open,
                 inputs, reportVars>>

(* module.run returns: the results are stored, the stage is COMPLETED. *)
Return(s) ==
  /\ s \in wave \ {"report_builder"}
  /\ stage[s] = "running"
  /\ OnLoop(s)
  /\ stage' = [stage EXCEPT ![s] = "completed"]
  /\ \E b \in Filled(s) :
       store' = [store EXCEPT ![s] = [run |-> run, filled |-> b]]
  /\ UNCHANGED <<pc, run, wave, stage_results, module, shared_client, open,
                 inputs, reportVars>>

-----------------------------------------------------------------------------
Reporting == "report_builder" \in wave /\ stage["report_builder"] = "running"

(* report_builder up to its first file: it stores a copy of stage_results   *)
(* and its own keys.                                                        *)
BeginReport ==
  /\ "report_builder" \in wave
  /\ stage["report_builder"] = "created"
  /\ OnLoop("report_builder")
  /\ stage' = [stage EXCEPT !["report_builder"] = "running"]
  /\ inputs' = [inputs EXCEPT !["report_builder"] =
                  [store EXCEPT !["report_builder"] = Absent]]
  /\ store' = [store EXCEPT !["report_builder"] = [run |-> run, filled |-> TRUE]]
  /\ listed' = stage_results
  /\ UNCHANGED <<pc, run, wave, stage_results, module, shared_client, open,
                 step, files>>

(* Mutant: the reports are written in another order. *)
MutWriteReportHtmlFirst ==
  /\ Reporting
  /\ step < 3
  /\ step' = step + 1
  /\ files' = [files EXCEPT ![3 - step] = run]
  /\ UNCHANGED <<pc, run, wave, stage, stage_results, module, shared_client,
                 open, store, inputs, listed>>

(* Mutant: the list of files is left one file too late. *)
MutWriteReportOneMore ==
  /\ Reporting
  /\ step <= 3
  /\ step' = step + 1
  /\ files' = [files EXCEPT ![step + 1] = run]
  /\ UNCHANGED <<pc, run, wave, stage, stage_results, module, shared_client,
                 open, store, inputs, listed>>

(* build_json_report, build_markdown_report, build_html_report in turn. *)
WriteReport ==
  /\ Reporting
  /\ step < 3
  /\ step' = step + 1
  /\ files' = [files EXCEPT ![step + 1] = run]
  /\ UNCHANGED <<pc, run, wave, stage, stage_results, module, shared_client,
                 open, store, inputs, listed>>

(* Writing stops before the file is opened, or after it was cut to nothing. *)
Interrupted(i) == {files, [files EXCEPT ![i] = 0]}

FailReport ==
  /\ Reporting
  /\ step < 3
  /\ files' \in Interrupted(step + 1)
  /\ stage' = [stage EXCEPT !["report_builder"] = "failed"]
  /\ UNCHANGED <<pc, run, wave, stage_results, module, shared_client, open,
                 store, inputs, step, listed>>

CompleteReport ==
  /\ Reporting
  /\ step = 3
  /\ stage' = [stage EXCEPT !["report_builder"] = "completed"]
  /\ UNCHANGED <<pc, run, wave, stage_results, module, shared_client, open,
                 store, inputs, reportVars>>

-----------------------------------------------------------------------------
(* stage_results with an entry of this run for each of the stages in S. *)
Extended(S) ==
  [s \in Stages |-> IF s \in S THEN [stage_results[s] EXCEPT ![run] = @ + 1]
                               ELSE stage_results[s]]

(* Mutant: only the results of completed stages are kept. *)
MutEndWaveDropsFailed ==
  /\ wave # {}
  /\ \A s \in wave : Ended(s)
  /\ stage_results' = Extended({s \in wave : stage[s] = "completed"})
  /\ wave' = {}
  /\ UNCHANGED <<pc, run, stage, module, shared_client, open, store, inputs,
                 reportVars>>

(* Mutant: a wave is over only when all its stages succeeded. *)
MutEndWaveNeedsSuccess ==
  /\ wave # {}
  /\ \A s \in wave : stage[s] = "completed"
  /\ stage_results' = Extended(wave)
  /\ wave' = {}
  /\ UNCHANGED <<pc, run, stage, module, shared_client, open, store, inputs,
                 reportVars>>

(* gather returns, and stage_results is extended with the wave's results. *)
EndWave ==
  /\ wave # {}
  /\ \A s \in wave : Ended(s)
  /\ stage_results' = Extended(wave)
  /\ wave' = {}
  /\ UNCHANGED <<pc, run, stage, module, shared_client, open, store, inputs,
                 reportVars>>

(* Mutant: the client is dropped without being closed. *)
MutEndRunNoClose ==
  /\ pc = "running"
  /\ wave = {}
  /\ Plan!Ready = {}
  /\ pc' = "ended"
  /\ shared_client' = 0
  /\ UNCHANGED <<run, wave, stage, stage_results, module, open, store, inputs,
                 reportVars>>

(* run() after its loop: the client is closed. *)
EndRun ==
  /\ pc = "running"
  /\ wave = {}
  /\ Plan!Ready = {}
  /\ pc' = "ended"
  /\ open' = open \ {shared_client}
  /\ shared_client' = 0
  /\ UNCHANGED <<run, wave, stage, stage_results, module, store, inputs,
                 reportVars>>

Abandoned ==
  [s \in Stages |-> IF stage[s] \in {"created", "running"} THEN "cancelled"
                                                           ELSE stage[s]]

(* Ctrl-C or a cancelled task: CancelledError reaches the gather and its    *)
(* stages at their awaits, no except clause holds it, run() skips the rest. *)
Cancel ==
  /\ pc = "running"
  /\ wave # {}
  /\ \A t \in NeverSuspends \cap wave : stage[t] # "running"
  /\ pc' = "cancelled"
  /\ stage' = Abandoned
  /\ wave' = {}
  /\ UNCHANGED <<run, stage_results, module, shared_client, open, store,
                 inputs, reportVars>>

(* The same while the client is being closed: it no longer counts as open   *)
(* when that suspends, but the manager keeps it. *)
CancelClose ==
  /\ pc = "running"
  /\ wave = {} /\ Plan!Ready = {}
  /\ shared_client \in open
  /\ pc' = "cancelled"
  /\ open' = open \ {shared_client}
  /\ UNCHANGED <<run, wave, stage, stage_results, module, shared_client, store,
                 inputs, reportVars>>

(* The process dies, possibly with a report half written. *)
Kill ==
  /\ pc = "running"
  /\ pc' = "dead"
  /\ stage' = Abandoned
  /\ wave' = {}
  /\ files' \in IF Reporting /\ step < 3 THEN Interrupted(step + 1) ELSE {files}
  /\ UNCHANGED <<run, stage_results, module, shared_client, open, store,
                 inputs, step, listed>>

(* The program is started again on the same output directory. *)
NewProcess ==
  /\ pc \in {"ended", "cancelled", "dead"}
  /\ run < MaxRuns
  /\ pc' = "new"
  /\ wave' = {}
  /\ stage' = [s \in Stages |-> "waiting"]
  /\ stage_results' = [s \in Stages |-> NoEntries]
  /\ module' = [s \in Stages |-> 0]
  /\ shared_client' = 0
  /\ open' = {}
  /\ store' = Nothing
  /\ inputs' = [s \in Stages |-> Nothing]
  /\ step' = 0
  /\ listed' = [s \in Stages |-> NoEntries]
  /\ UNCHANGED <<run, files>>

StageStep(s) == Begin(s) \/ FailToLoad(s) \/ Fetch(s) \/ Return(s)

ReportStep == BeginReport \/ WriteReport \/ FailReport \/ CompleteReport

Next ==
  \/ StartRun \/ StartWave \/ EndWave \/ EndRun
  \/ Cancel \/ CancelClose \/ Kill \/ NewProcess
  \/ ReportStep
  \/ \E s \in Stages : StageStep(s)

(* The event loop runs every ready task, and every await of a stage comes   *)
(* back: requests and TLS handshakes have timeouts and bounded retries.     *)
Fairness ==
  /\ WF_vars(StartWave) /\ WF_vars(EndWave) /\ WF_vars(EndRun)
  /\ WF_vars(ReportStep)
  /\ \A s \in Stages : WF_vars(Begin(s) \/ FailToLoad(s)) /\ WF_vars(Return(s))

Spec == Init /\ [][Next]_vars /\ Fairness

-----------------------------------------------------------------------------
(* The manager's attributes have the shapes the code gives them. *)
TypeOK ==
  /\ pc \in {"new", "running", "ended", "cancelled", "dead"}
  /\ run \in Runs
  /\ wave \subseteq Stages
  /\ stage \in [Stages -> {"waiting", "created", "running", "completed",
                           "failed", "cancelled"}]
  /\ stage_results \in [Stages -> [Runs -> Nat]]
  /\ module \in [Stages -> Runs]
  /\ shared_client \in Runs
  /\ open \subseteq Runs
  /\ store \in [Stages -> Entries]
  /\ inputs \in [Stages -> [Stages -> Entries]]
  /\ step \in 0 .. 3
  /\ listed \in [Stages -> [Runs -> Nat]]
  /\ files \in [1 .. 3 -> Runs]

Begun == {s \in Stages : stage[s] \in {"running", "completed"}}

(* What a stage read from _data_store stays what the store holds: every     *)
(* registered writer of a key had ended before the reader began, and no     *)
(* stage writes it afterwards, in whatever order the event loop interleaves *)
(* the stages of a wave and whichever of them fail.                         *)
InputsFinal ==
  \A s \in Begun : \A t \in Reads(s) \cap Stages :
    Ended(t) /\ inputs[s][t] = store[t]

(* A stage never works on what an earlier run() left in _data_store: it     *)
(* reads an entry of this run if the writer completed, and none if it       *)
(* failed, although the store is not cleared between runs.                  *)
InputsOfThisRun ==
  pc = "running" =>
    \A s \in Begun : \A t \in Reads(s) \cap Stages :
      inputs[s][t].run = IF stage[t] = "completed" THEN run ELSE 0

(* The list of stages that report_builder puts in the reports has, of this  *)
(* run, exactly one entry for every other registered stage, failed ones     *)
(* included, and none for itself.                                           *)
ReportListsEveryStage ==
  "report_builder" \in Begun =>
    \A s \in Stages : listed[s][run] = IF s = "report_builder" THEN 0 ELSE 1

(* Reports of different runs may stand side by side after a failure or a    *)
(* kill, but never an older one before a newer: of two whole files the one  *)
(* written first is at least as new.  A report of this run is on disk only  *)
(* if the ones before it are; all three are when the stage COMPLETED; when  *)
(* it FAILED, or before it begins, the HTML of this run is not.             *)
ReportsWrittenInOrder ==
  /\ \A i, j \in 1 .. 3 : i < j =>
       /\ files[i] = 0 \/ files[i] >= files[j]
       /\ files[j] = run => files[i] = run
  /\ pc = "running" /\ "report_builder" \in Stages =>
       /\ stage["report_builder"] = "completed" => files[3] = run
       /\ stage["report_builder"] \notin {"running", "completed"} =>
            files[3] # run

(* When run() returns, the HTTP client it made is closed: what is left open *)
(* was made by an earlier run() of the manager and is kept by a module.     *)
ClientsClosed ==
  pc = "ended" => open \subseteq {module[s] : s \in Stages} \ {run}

(* A run ends: it returns, or it was cancelled or killed. *)
RunEnds == pc = "running" ~> pc \in {"ended", "cancelled", "dead"}

(* The stage graph, as the waves run it. *)
Needs == [s \in Stages |-> DependsOn(s) \cap Stages]

Phase == IF pc = "running" THEN "active"
         ELSE IF pc = "ended" THEN "concluded" ELSE "idle"

Status == [s \in Stages |-> IF stage[s] = "waiting" THEN "waiting"
                            ELSE IF Ended(s) THEN "ended" ELSE "started"]

Graph == INSTANCE StageGraph
  WITH Requires <- Needs, phase <- Phase, status <- Status

(* Run by waves, each stage still starts once, after all it requires ended, *)
(* and run() returns only when every stage has ended.                       *)
ImplementsGraph == Graph!Spec

(* README.md:184 and the registration say risk_scoring calculates a score   *)
(* from the findings of the stages it depends on.                           *)
CompletedRiskIsScored ==
  "risk_scoring" \in Stages /\ stage["risk_scoring"] = "completed" =>
    store["risk_scoring"].filled
=============================================================================
