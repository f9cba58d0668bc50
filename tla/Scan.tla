--------------------------------- MODULE Scan ---------------------------------
(***************************************************************************)
(* One run of the command line (src/reconforgex/cli.py) from its arguments  *)
(* to its exit code: the settings that config.py merges, the validation of  *)
(* the domain, and what the scan then does under which settings: the        *)
(* directories made, the stages run, the requests answered (Pipeline has    *)
(* the order of the stages, HttpClient the requests), the reports written   *)
(* and the statistics in them.                                              *)
(*                                                                         *)
(* A setting has a value that tells where it comes from; modules have sets  *)
(* of modules.  A domain has a name, and tells whether it is bare, that is  *)
(* without blanks around it and without capitals; the name "" is that of    *)
(* none, and of one that is all blanks.                                     *)
(***************************************************************************)
EXTENDS Integers, Sums

CONSTANTS Arguments,   \* parsed command lines
          Files,       \* what load_config can find
          Valid,       \* names of well-formed domains
          AllModules,  \* ALL_MODULES
          Timings,     \* response times are 1 .. Timings
          MaxRequests  \* bound: answered requests

(* The reports in the order they are built, each by the setting for it.     *)
Reports == <<"json_report", "markdown_report", "html_report">>

(* The options that build_parser offers.                                    *)
ASSUME ArgumentsAssumption ==
  \A a \in Arguments :
    /\ DOMAIN a.given \subseteq {"domain", "output_directory", "worker_count", "modules", "verbose"}
    /\ a.skip \subseteq {Reports[i] : i \in 1 .. 3}
ASSUME DomainsAssumption == "" \notin Valid
ASSUME NumbersAssumption == Timings \in Nat \ {0} /\ MaxRequests \in Nat

VARIABLES phase,
          args,        \* argparse.Namespace: options given, reports to skip, flags
          file,        \* the configuration file
          config,      \* ReconForgeXConfig
          log_level,   \* of the logger
          directories, \* output directories made
          ran,         \* stages run: for what target, with what client
          timings,     \* _timings of the shared client: how many of each time
          stats,       \* PipelineStatistics; median is doubled
          written,     \* how many of Reports are written
          heading,     \* domain and worker count shown in them
          report,      \* the statistics in them; NoStats before
          exit         \* exit code; -1: none yet

settings == <<args, file, config, log_level, directories>>
reports == <<written, heading, report>>
scan_vars == <<phase, settings, ran, timings, stats, reports, exit>>

NoDomain == [name |-> "", bare |-> TRUE]

Default == [domain |-> NoDomain, output_directory |-> "default", worker_count |-> "default",
            timeout |-> "default", rate_limit |-> "default", retry_count |-> "default",
            logging_level |-> "INFO", modules |-> AllModules, verbose |-> FALSE,
            html_report |-> TRUE, json_report |-> TRUE, markdown_report |-> TRUE]

Settings == DOMAIN Default

NoStats == [total_requests |-> 0, median |-> 0, p95 |-> 0, p99 |-> 0]
NoHeading == [domain |-> NoDomain, worker_count |-> "none"]

ScanInit ==
  /\ phase = "parsed"
  /\ args \in Arguments
  /\ file \in Files
  /\ config = Default
  /\ log_level = "INFO"
  /\ directories = {} /\ ran = {}
  /\ timings = [t \in 1 .. Timings |-> 0]
  /\ stats = NoStats
  /\ written = 0 /\ heading = NoHeading /\ report = NoStats
  /\ exit = -1

Exit(code) == phase' = "exited" /\ exit' = code

Exits(code) == Exit(code) /\ UNCHANGED <<settings, ran, timings, stats, reports>>

-----------------------------------------------------------------------------
(* The settings.                                                            *)

(* Mutant: a setting that no option sets is not copied. *)
MutFromDictForgets(data) ==
  [s \in Settings |-> IF s \in DOMAIN data \ {"timeout"} THEN data[s] ELSE Default[s]]

FromDict(data) == [s \in Settings |-> IF s \in DOMAIN data THEN data[s] ELSE Default[s]]

(* The options that count: an empty domain is as good as none.              *)
Overrides == {s \in DOMAIN args.given : s = "domain" => args.given[s] # NoDomain}

(* Options replace settings, --verbose brings its logging level, and the    *)
(* result goes through from_dict once more.                                 *)
MergedWithCli(c) ==
  FromDict([s \in Settings |->
    IF s \in Overrides THEN args.given[s]
    ELSE IF s = "logging_level" /\ "verbose" \in Overrides THEN "DEBUG"
    ELSE c[s]])

ListModules == phase = "parsed" /\ args.list_modules /\ Exits(0)

(* The file named is not there, or the file there is cannot be read; one    *)
(* that holds no mapping raises in from_dict, and main exits.               *)
RefuseFile ==
  /\ phase = "parsed" /\ ~args.list_modules
  /\ \/ args.config /\ file.kind = "missing"
     \/ file.kind \in {"broken", "not_a_mapping"}
  /\ Exits(1)

(* Without a file, neither named nor at the default place, defaults hold.   *)
LoadSettings ==
  /\ phase = "parsed" /\ ~args.list_modules
  /\ \/ file.kind = "mapping"
     \/ file.kind = "missing" /\ ~args.config
  /\ LET merged == MergedWithCli(FromDict(file.data)) IN
     config' = [s \in Settings |-> IF s \in args.skip THEN FALSE ELSE merged[s]]
  /\ phase' = "loaded"
  /\ UNCHANGED <<args, file, log_level, directories, ran, timings, stats, reports, exit>>

(* None, one that is all blanks, or one that is not well-formed.            *)
RefuseDomain == phase = "loaded" /\ config.domain.name \notin Valid /\ Exits(1)

(* validate_domain strips and lowers the domain.                            *)
Normalised(domain) == [name |-> domain.name, bare |-> TRUE]

(* The domain is replaced by the normalised one, the logger gets its level, *)
(* the directories are made, and the manager's run() begins; mkdir raises   *)
(* before the first directory or after it, as does run()'s own.             *)
StartScan ==
  /\ phase = "loaded" /\ config.domain.name \in Valid
  /\ config' = [config EXCEPT !.domain = Normalised(@)]
  /\ log_level' = IF config.verbose THEN "DEBUG" ELSE log_level
  /\ LET made == directories \cup {config.output_directory} IN
     \/ phase' = "running" /\ directories' = made /\ UNCHANGED exit
     \/ Exit(1) /\ directories' \in {directories, made}
  /\ UNCHANGED <<args, file, ran, timings, stats, reports>>

-----------------------------------------------------------------------------
(* The scan and its statistics.                                             *)

(* How many of the requests took at most v.                                 *)
Within(v) == Total(SubSeq(timings, 1, v))

RequestCount == Within(Timings)

Stages == {s.module : s \in ran}

(* The manager registers a stage for each module and runs it for the domain *)
(* with the shared client.                                                  *)
RunStage ==
  /\ phase = "running"
  /\ \E m \in AllModules \ Stages :
       ran' = ran \cup {[module |-> m, target |-> config.domain,
                         timeout |-> config.timeout, max_retries |-> config.retry_count]}
  /\ UNCHANGED <<phase, settings, timings, stats, reports, exit>>

(* A stage has a request answered.                                          *)
Request ==
  /\ phase = "running" /\ ran # {} /\ RequestCount < MaxRequests
  /\ \E t \in 1 .. Timings : timings' = [timings EXCEPT ![t] = @ + 1]
  /\ UNCHANGED <<phase, settings, ran, stats, reports, exit>>

(* sorted_timings[i], from 0.                                               *)
Sorted(i) == CHOOSE v \in 1 .. Timings : Within(v - 1) <= i /\ i < Within(v)

(* Mutant: the index is a share of the last index. *)
MutPercentileIndexLast(p, n) == (p * (n - 1)) \div 100

(* int(n * 0.95), int(n * 0.99): the float product never falls short of an  *)
(* integer that the exact one reaches.                                      *)
PercentileIndex(p, n) == (p * n) \div 100

Percentile(p) ==
  LET i == PercentileIndex(p, RequestCount)
      last == RequestCount - 1
  IN Sorted(IF i < last THEN i ELSE last)

(* Doubled: the mean of the two in the middle, which may be the same.       *)
Median == Sorted((RequestCount - 1) \div 2) + Sorted(RequestCount \div 2)

(* report_builder, after all other stages: percentiles and counters, unless *)
(* something raises, which it catches.                                      *)
Summarise ==
  /\ phase = "running" /\ Stages = AllModules
  /\ \/ /\ phase' = "reporting"
        /\ stats' = IF RequestCount = 0 THEN NoStats
                    ELSE [total_requests |-> RequestCount, median |-> Median,
                          p95 |-> Percentile(95), p99 |-> Percentile(99)]
     \/ phase' = "reported" /\ UNCHANGED stats
  /\ UNCHANGED <<settings, ran, timings, reports, exit>>

(* The next report is written, with what the data store says of the scan;   *)
(* or it raises, which ends the stage but not the run.                      *)
WriteReport ==
  /\ phase = "reporting"
  /\ \/ /\ written' = written + 1
        /\ heading' = [domain |-> config.domain, worker_count |-> config.worker_count]
        /\ report' = stats
        /\ phase' = IF written' = Len(Reports) THEN "reported" ELSE phase
     \/ phase' = "reported" /\ UNCHANGED reports
  /\ UNCHANGED <<settings, ran, timings, stats, exit>>

(* The end of run() copies the counter again; then summary and exit code.   *)
Finish ==
  /\ phase = "reported"
  /\ stats' = [stats EXCEPT !.total_requests = RequestCount]
  /\ Exit(0)
  /\ UNCHANGED <<settings, ran, timings, reports>>

(* Ctrl-C, which main turns into an exit code.                              *)
Interrupt == phase # "exited" /\ Exits(130)

ScanNext ==
  \/ ListModules \/ RefuseFile \/ LoadSettings \/ RefuseDomain \/ StartScan
  \/ RunStage \/ Request \/ Summarise \/ WriteReport \/ Finish \/ Interrupt

ScanSpec == ScanInit /\ [][ScanNext]_scan_vars

-----------------------------------------------------------------------------
(* The value that setting s should have: that of the command line, or of    *)
(* the file, or the default; --verbose stands above any logging level, and  *)
(* --no-json, --no-markdown and --no-html above the settings of reports.    *)
Wanted(s) ==
  LET asked == s \in DOMAIN args.given /\ (s = "domain" => args.given[s] # NoDomain) IN
  IF s = "logging_level" /\ "verbose" \in DOMAIN args.given THEN "DEBUG"
  ELSE IF s \in args.skip THEN FALSE
  ELSE IF asked THEN args.given[s]
  ELSE IF s \in DOMAIN file.data THEN file.data[s]
  ELSE Default[s]

(* What the scan does with the settings that the code reads, it does with   *)
(* the values that command line, file and defaults call for, in this order: *)
(* directories are made where the output is wanted; every stage runs for    *)
(* the wanted domain, well-formed and normalised, with a client of the      *)
(* wanted timeout and retries, and under the wanted verbosity; and the      *)
(* reports show that domain and the wanted worker count.  from_dict is      *)
(* applied twice, and what it does not copy is lost.                        *)
SettingsInForce ==
  LET domain == [name |-> Wanted("domain").name, bare |-> TRUE] IN
  /\ directories \subseteq {Wanted("output_directory")}
  /\ \A s \in ran :
       /\ s.target = domain /\ domain.name \in Valid
       /\ s.timeout = Wanted("timeout") /\ s.max_retries = Wanted("retry_count")
       /\ log_level = IF Wanted("verbose") THEN "DEBUG" ELSE "INFO"
  /\ written > 0 =>
       heading = [domain |-> domain, worker_count |-> Wanted("worker_count")]

(* "Skip HTML report generation." (cli.py:120, and 124 and 128 for the      *)
(* other two): a report to be skipped is not written.                       *)
OnlyReportsAskedFor == \A i \in 1 .. written : Reports[i] \notin args.skip

(* "Specific modules to run" (cli.py:105): no other module is run.          *)
OnlyModulesAskedFor ==
  "modules" \in DOMAIN args.given => Stages \subseteq args.given["modules"]

(* The promises of these options, in their weakest form: one of the two is  *)
(* kept.  A run that keeps neither refutes both.                            *)
OptionsRestrictTheRun == OnlyReportsAskedFor \/ OnlyModulesAskedFor

(* A percentile in the report is one of the response times, enough of them  *)
(* are within it and not too many below it, also when there are one or two; *)
(* and p95 <= p99, median <= p95 (compute_percentiles).  The requests       *)
(* counted are those that were answered.                                    *)
PercentilesAreRanks ==
  report # NoStats =>
    LET IsRank(p, v) ==
          /\ v \in 1 .. Timings /\ timings[v] > 0
          /\ 100 * Within(v) >= p * RequestCount
          /\ 100 * Within(v - 1) <= p * RequestCount
    IN /\ IsRank(95, report.p95) /\ IsRank(99, report.p99)
       /\ report.p95 <= report.p99 /\ report.median <= 2 * report.p95
       /\ report.total_requests = RequestCount
=============================================================================
