----------------------------- MODULE ReportProofs -----------------------------
(***************************************************************************)
(* What a run reports: Scan for every command line, every file and every    *)
(* number of requests, RiskScoring for all results.                         *)
(***************************************************************************)
EXTENDS Scan, RiskScoring, FoldTheorems

Quiet == directories = {} /\ ran = {} /\ written = 0

Merged == \A s \in Settings : config[s] = Wanted(s)

(* The domain that the scan is to run for.                                  *)
WantedDomain == [name |-> Wanted("domain").name, bare |-> TRUE]

(* From the start of the scan on: what config and logger hold.              *)
InForce ==
  /\ config.domain = WantedDomain /\ WantedDomain.name \in Valid
  /\ \A s \in {"timeout", "retry_count", "worker_count"} : config[s] = Wanted(s)
  /\ log_level = IF Wanted("verbose") THEN "DEBUG" ELSE "INFO"

(* Before the scan starts nothing has happened; once the settings are       *)
(* loaded they are those wanted, and the scan runs under them.              *)
SettingsInv ==
  /\ phase \in {"parsed", "loaded", "running", "reporting", "reported", "exited"}
  /\ args \in Arguments
  /\ phase \in {"parsed", "loaded"} => Quiet /\ log_level = "INFO"
  /\ phase = "loaded" => Merged /\ DOMAIN config = Settings
  /\ phase \in {"running", "reporting", "reported"} => InForce
  /\ SettingsInForce

(* A quiet state gives SettingsInForce nothing to say.                      *)
LEMMA QuietIsEnough == Quiet => SettingsInForce
  BY DEF Quiet, SettingsInForce

(* What LoadSettings leaves in config is what is wanted.                    *)
LEMMA LoadSettingsMerges ==
  ASSUME args \in Arguments, LoadSettings
  PROVE  Merged' /\ DOMAIN config' = Settings
<1>1. args' = args /\ file' = file
  BY DEF LoadSettings
<1> DEFINE base == FromDict(file.data)
           over == [s \in Settings |->
                      IF s \in Overrides THEN args.given[s]
                      ELSE IF s = "logging_level" /\ "verbose" \in Overrides THEN "DEBUG"
                      ELSE base[s]]
<1>2. \A s \in Settings : base[s] = IF s \in DOMAIN file.data THEN file.data[s] ELSE Default[s]
  BY DEF FromDict
<1>3. DOMAIN over = Settings
  OBVIOUS
<1>4. MergedWithCli(base) = [s \in Settings |-> over[s]]
  BY <1>3 DEF MergedWithCli, FromDict
<1>5. \A s \in Settings : MergedWithCli(base)[s] = over[s]
  BY <1>4
<1>6. config' = [s \in Settings |-> IF s \in args.skip THEN FALSE ELSE MergedWithCli(base)[s]]
  BY DEF LoadSettings
<1>7. \A s \in Settings : config'[s] = IF s \in args.skip THEN FALSE ELSE over[s]
  BY <1>5, <1>6
<1>8. DOMAIN config' = Settings
  BY <1>6
<1>9. "logging_level" \notin DOMAIN args.given
  BY ArgumentsAssumption
<1>10. "logging_level" \notin args.skip
  <2>1. args.skip \subseteq {"json_report", "markdown_report", "html_report"}
    <3>1. \A i \in 1 .. 3 : Reports[i] \in {"json_report", "markdown_report", "html_report"}
      BY DEF Reports
    <3> QED BY <3>1, ArgumentsAssumption
  <2> QED BY <2>1
<1>11. ASSUME NEW s \in Settings PROVE config'[s] = Wanted(s)
  <2>1. over[s] = IF s \in Overrides THEN args.given[s]
                  ELSE IF s = "logging_level" /\ "verbose" \in Overrides THEN "DEBUG"
                  ELSE base[s]
    OBVIOUS
  <2>2. "verbose" \in Overrides <=> "verbose" \in DOMAIN args.given
    BY DEF Overrides
  <2>3. s \in Overrides <=> s \in DOMAIN args.given /\ (s = "domain" => args.given[s] # NoDomain)
    BY DEF Overrides
  <2> HIDE DEF over, base
  <2>4. CASE s = "logging_level"
    BY <2>4, <2>1, <2>2, <2>3, <1>2, <1>7, <1>9, <1>10 DEF Wanted
  <2>5. CASE s # "logging_level" /\ s \in args.skip
    BY <2>5, <1>7 DEF Wanted
  <2>6. CASE s # "logging_level" /\ s \notin args.skip
    BY <2>6, <2>1, <2>3, <1>2, <1>7 DEF Wanted
  <2> QED BY <2>4, <2>5, <2>6
<1>12. \A s \in Settings : config'[s] = Wanted(s)
  BY <1>11
<1> QED BY <1>1, <1>8, <1>12 DEF Merged, Wanted

LEMMA SettingsInit == ScanInit => SettingsInv
<1> SUFFICES ASSUME ScanInit PROVE SettingsInv
  OBVIOUS
<1>1. Quiet
  BY DEF ScanInit, Quiet
<1> QED BY <1>1, QuietIsEnough DEF ScanInit, SettingsInv

LEMMA SettingsStep == SettingsInv /\ [ScanNext]_scan_vars => SettingsInv'
<1> SUFFICES ASSUME SettingsInv, [ScanNext]_scan_vars PROVE SettingsInv'
  OBVIOUS
<1>0. UNCHANGED <<args, file>> => \A s : Wanted(s)' = Wanted(s)
  BY DEF Wanted
<1>1. ASSUME UNCHANGED <<settings, ran, written, heading>>,
             \/ phase' \in {phase, "exited"}
             \/ phase \in {"running", "reporting"} /\ phase' \in {"reporting", "reported"}
      PROVE  SettingsInv'
  <2>1. UNCHANGED <<args, file, config, log_level, directories>>
    BY <1>1 DEF settings
  <2>2. \A s : Wanted(s)' = Wanted(s)
    BY <2>1, <1>0
  <2>3. /\ Quiet => Quiet'
        /\ Merged => Merged'
        /\ InForce => InForce'
        /\ SettingsInForce => SettingsInForce'
    <3>1. Quiet => Quiet'
      BY <1>1, <2>1 DEF Quiet
    <3>2. Merged => Merged'
      BY <2>1, <2>2 DEF Merged
    <3>3. InForce => InForce'
      BY <2>1, <2>2 DEF InForce, WantedDomain
    <3>4. SettingsInForce => SettingsInForce'
      BY <1>1, <2>1, <2>2 DEF SettingsInForce
    <3> QED BY <3>1, <3>2, <3>3, <3>4
  <2> QED BY <1>1, <2>1, <2>3 DEF SettingsInv
<1>2. CASE ListModules \/ RefuseFile \/ RefuseDomain \/ Interrupt
  BY <1>1, <1>2 DEF ListModules, RefuseFile, RefuseDomain, Interrupt, Exits, Exit, settings, reports
<1>3. CASE LoadSettings
  <2>1. Merged' /\ DOMAIN config' = Settings
    BY <1>3, LoadSettingsMerges DEF SettingsInv
  <2>2. Quiet'
    BY <1>3 DEF SettingsInv, LoadSettings, Quiet, reports
  <2>3. SettingsInForce'
    BY <2>2, QuietIsEnough, PTL
  <2> QED BY <1>3, <2>1, <2>2, <2>3 DEF SettingsInv, LoadSettings
<1>4. CASE StartScan
  <2>1. /\ phase = "loaded" /\ phase' \in {"running", "exited"}
        /\ UNCHANGED <<args, file, ran, written, heading>>
        /\ config.domain.name \in Valid
        /\ config' = [config EXCEPT !.domain = Normalised(@)]
        /\ log_level' = IF config.verbose THEN "DEBUG" ELSE log_level
        /\ directories' \in {directories, directories \cup {config.output_directory}}
    BY <1>4 DEF StartScan, Exit, reports
  <2>2. Merged /\ DOMAIN config = Settings /\ Quiet /\ log_level = "INFO"
    BY <2>1 DEF SettingsInv
  <2>3. {"domain", "timeout", "retry_count", "worker_count", "verbose", "output_directory"}
          \subseteq Settings
    BY DEF Settings, Default
  <2>4. \A s : Wanted(s)' = Wanted(s)
    BY <2>1, <1>0
  <2>5. /\ config'.domain = Normalised(config.domain)
        /\ \A s \in {"timeout", "retry_count", "worker_count"} : config'[s] = config[s]
    BY <2>1, <2>2, <2>3
  <2>6. \A s \in {"domain", "timeout", "retry_count", "worker_count", "verbose", "output_directory"} :
          config[s] = Wanted(s)
    BY <2>2, <2>3 DEF Merged
  <2>7. InForce'
    <3>1. config'.domain = WantedDomain' /\ WantedDomain'.name \in Valid
      BY <2>1, <2>4, <2>5, <2>6 DEF WantedDomain, Normalised
    <3>2. \A s \in {"timeout", "retry_count", "worker_count"} : config'[s] = Wanted(s)'
      BY <2>4, <2>5, <2>6
    <3>3. log_level' = IF Wanted("verbose")' THEN "DEBUG" ELSE "INFO"
      BY <2>1, <2>2, <2>4, <2>6
    <3> QED BY <3>1, <3>2, <3>3 DEF InForce
  <2>8. SettingsInForce'
    <3>1. directories' \subseteq {Wanted("output_directory")'}
      BY <2>1, <2>2, <2>4, <2>6 DEF Quiet
    <3>2. ran' = {} /\ written' = 0
      BY <2>1, <2>2 DEF Quiet
    <3> QED BY <3>1, <3>2 DEF SettingsInForce
  <2> QED BY <2>1, <2>7, <2>8 DEF SettingsInv
<1>5. CASE RunStage
  <2>1. /\ phase = "running" /\ UNCHANGED <<phase, args, file, config, log_level, directories>>
        /\ UNCHANGED <<written, heading>>
        /\ \E m \in AllModules :
             ran' = ran \cup {[module |-> m, target |-> config.domain,
                               timeout |-> config.timeout, max_retries |-> config.retry_count]}
    BY <1>5 DEF RunStage, settings, reports
  <2>2. InForce /\ SettingsInForce
    BY <2>1 DEF SettingsInv
  <2>3. \A s : Wanted(s)' = Wanted(s)
    BY <2>1, <1>0
  <2>4. InForce'
    BY <2>1, <2>2, <2>3 DEF InForce, WantedDomain
  <2>5. ASSUME NEW s \in ran'
        PROVE  /\ s.target = WantedDomain /\ WantedDomain.name \in Valid
               /\ s.timeout = Wanted("timeout") /\ s.max_retries = Wanted("retry_count")
               /\ log_level = IF Wanted("verbose") THEN "DEBUG" ELSE "INFO"
    <3>1. CASE s \in ran
      BY <2>2, <3>1 DEF SettingsInForce, WantedDomain
    <3>2. CASE s \notin ran
      BY <2>1, <2>2, <3>2 DEF InForce
    <3> QED BY <3>1, <3>2
  <2>6. SettingsInForce'
    BY <2>1, <2>2, <2>3, <2>5 DEF SettingsInForce, WantedDomain
  <2> QED BY <2>1, <2>4, <2>6 DEF SettingsInv
<1>6. CASE Request \/ Summarise \/ Finish
  BY <1>1, <1>6 DEF Request, Summarise, Finish, Exit, settings, reports
<1>7. CASE WriteReport
  <2>1. CASE UNCHANGED <<written, heading>>
    BY <1>1, <1>7, <2>1 DEF WriteReport, settings
  <2>2. CASE heading' = [domain |-> config.domain, worker_count |-> config.worker_count]
    <3>1. /\ phase = "reporting" /\ phase' \in {"reporting", "reported"}
          /\ UNCHANGED <<args, file, config, log_level, directories, ran>>
      BY <1>7 DEF WriteReport, settings
    <3>2. InForce /\ SettingsInForce
      BY <3>1 DEF SettingsInv
    <3>3. \A s : Wanted(s)' = Wanted(s)
      BY <3>1, <1>0
    <3>4. InForce'
      BY <3>1, <3>2, <3>3 DEF InForce, WantedDomain
    <3>5. heading' = [domain |-> WantedDomain, worker_count |-> Wanted("worker_count")]
      BY <2>2, <3>2 DEF InForce
    <3>6. SettingsInForce'
      BY <3>1, <3>2, <3>3, <3>5 DEF SettingsInForce, WantedDomain
    <3> QED BY <3>1, <3>4, <3>6 DEF SettingsInv
  <2> QED BY <1>7, <2>1, <2>2 DEF WriteReport, reports
<1>8. CASE UNCHANGED scan_vars
  BY <1>1, <1>8 DEF scan_vars, settings, reports
<1> QED BY <1>2, <1>3, <1>4, <1>5, <1>6, <1>7, <1>8 DEF ScanNext

(* Whatever the command line and the file hold, directories are made, every *)
(* stage is run, the log is kept and the reports are headed under the       *)
(* values that they call for, and only a well-formed, normalised domain is  *)
(* scanned (from_dict, merged_with_cli, validate_domain).                   *)
THEOREM SettingsPrecedence == ScanSpec => []SettingsInForce
<1>1. SettingsInv => SettingsInForce
  BY DEF SettingsInv
<1> QED BY SettingsInit, SettingsStep, <1>1, PTL DEF ScanSpec

(* For any number of response times and any percentile below 100, the index *)
(* is one of the list, so that the cap at the last one changes nothing, and *)
(* it is the first with more than p percent of them up to it                *)
(* (compute_percentiles).                                                   *)
THEOREM PercentileIndexInList ==
  ASSUME NEW n \in Nat \ {0}, NEW p \in 0 .. 99
  PROVE  LET i == PercentileIndex(p, n) IN
         /\ i \in 0 .. n - 1
         /\ 100 * i <= p * n /\ p * n < 100 * (i + 1)
<1> DEFINE m == p * n
           i == PercentileIndex(p, n)
<1>1. m \in Nat
  OBVIOUS
<1>2. i = m \div 100
  BY DEF PercentileIndex
<1>3. m < 100 * n
  OBVIOUS
<1> HIDE DEF m, i
<1>4. i \in Nat /\ 100 * i <= m /\ m < 100 * (i + 1)
  BY <1>1, <1>2
<1>5. i < n
  BY <1>1, <1>3, <1>4
<1>6. i \in 0 .. n - 1 /\ 100 * i <= m /\ m < 100 * (i + 1)
  BY <1>4, <1>5
<1> QED BY <1>6 DEF m, i

-----------------------------------------------------------------------------
(* The response times are counted, and Within is the sum of the counts: it  *)
(* starts at zero, and no count makes it smaller.                           *)
LEMMA WithinCounts ==
  ASSUME timings \in [1 .. Timings -> Nat]
  PROVE  /\ Within(0) = 0
         /\ \A v \in 1 .. Timings : Within(v) = Within(v - 1) + timings[v]
         /\ \A v \in 0 .. Timings : Within(v) \in Nat
<1>1. timings \in Seq(Nat) /\ timings \in Seq(Int) /\ Len(timings) = Timings
  BY NumbersAssumption
<1>2. \A v \in 0 .. Timings : SubSeq(timings, 1, v) \in Seq(Nat)
  BY <1>1, NumbersAssumption
<1>3. \A v \in 0 .. Timings : Within(v) \in Nat
  BY <1>2, TotalNat DEF Within
<1> QED
  BY <1>1, <1>3, TotalOfFirst DEF Within

LEMMA WithinGrows ==
  ASSUME timings \in [1 .. Timings -> Nat], NEW u \in 0 .. Timings, NEW v \in 0 .. Timings, u <= v
  PROVE  Within(u) <= Within(v)
<1>0. /\ Within(0) = 0
      /\ \A k \in 1 .. Timings : Within(k) = Within(k - 1) + timings[k] /\ timings[k] \in Nat
      /\ \A k \in 0 .. Timings : Within(k) \in Nat
  BY WithinCounts
<1> DEFINE T == {k \in 0 .. Timings : \A i \in 0 .. k : Within(i) <= Within(k)}
<1>1. 0 \in T
  BY <1>0, NumbersAssumption
<1>2. ASSUME NEW k \in 0 .. Timings - 1, k \in T PROVE k + 1 \in T
  <2>1. k + 1 \in 1 .. Timings /\ k \in 0 .. Timings /\ k + 1 - 1 = k
    BY NumbersAssumption
  <2>2. Within(k + 1) = Within(k) + timings[k + 1] /\ timings[k + 1] \in Nat
          /\ Within(k) \in Nat
    BY <1>0, <2>1
  <2>3. ASSUME NEW i \in 0 .. k + 1 PROVE Within(i) <= Within(k + 1)
    <3>1. CASE i = k + 1
      BY <2>2, <3>1
    <3>2. CASE i \in 0 .. k
      <4>1. Within(i) <= Within(k) /\ Within(i) \in Nat
        BY <1>0, <1>2, <2>1, <3>2, NumbersAssumption
      <4> QED
        BY <2>2, <4>1
    <3> QED
      BY <2>1, <3>1, <3>2
  <2> QED
    BY <2>1, <2>3
<1>3. 0 .. Timings \subseteq T
  <2> HIDE DEF T
  <2> QED
    BY <1>1, <1>2, UpTo, NumbersAssumption
<1> QED
  BY <1>3

(* Every index below the number of requests has a response time in the      *)
(* sorted list, one that was taken; and a later one is no smaller.          *)
LEMMA SortedIs ==
  ASSUME timings \in [1 .. Timings -> Nat], NEW i \in 0 .. RequestCount - 1
  PROVE  /\ Sorted(i) \in 1 .. Timings
         /\ Within(Sorted(i) - 1) <= i /\ i < Within(Sorted(i))
         /\ timings[Sorted(i)] > 0
<1> DEFINE Beyond == {v \in 1 .. Timings : i < Within(v)}
<1>1. RequestCount \in Nat /\ i \in Nat
  BY WithinCounts, NumbersAssumption DEF RequestCount
<1>2. Timings \in Beyond /\ Beyond \in SUBSET Nat
  BY <1>1, NumbersAssumption DEF RequestCount
<1>3. PICK v \in Beyond : \A u \in Beyond : v <= u
  <2> HIDE DEF Beyond
  <2> QED
    BY <1>2, Least
<1>4. v \in 1 .. Timings /\ i < Within(v)
  BY <1>3
<1>5. Within(v - 1) <= i
  <2>1. CASE v = 1
    BY <1>1, <2>1, WithinCounts
  <2>2. CASE v # 1
    <3>1. v - 1 \in 1 .. Timings /\ v - 1 < v
      BY <1>4, <2>2, NumbersAssumption
    <3>2. v - 1 \notin Beyond
      BY <1>3, <1>4, <3>1
    <3>3. Within(v - 1) \in Nat
      BY <3>1, WithinCounts, NumbersAssumption
    <3> QED
      BY <1>1, <3>1, <3>2, <3>3
  <2> QED
    BY <2>1, <2>2
<1>6. /\ Sorted(i) \in 1 .. Timings
      /\ Within(Sorted(i) - 1) <= i /\ i < Within(Sorted(i))
  BY <1>4, <1>5 DEF Sorted
<1> DEFINE w == Sorted(i)
<1>7. w \in 1 .. Timings /\ Within(w - 1) <= i /\ i < Within(w)
  BY <1>6
<1> HIDE DEF w
<1>8. Within(w) = Within(w - 1) + timings[w] /\ timings[w] \in Nat /\ Within(w - 1) \in Nat
  <2>1. w - 1 \in 0 .. Timings
    BY <1>7, NumbersAssumption
  <2> QED
    BY <1>7, <2>1, WithinCounts
<1>9. timings[w] > 0
  BY <1>1, <1>7, <1>8
<1> QED
  BY <1>7, <1>9 DEF w

LEMMA SortedGrows ==
  ASSUME timings \in [1 .. Timings -> Nat], NEW i \in 0 .. RequestCount - 1,
         NEW j \in 0 .. RequestCount - 1, i <= j
  PROVE  Sorted(i) <= Sorted(j)
<1> DEFINE v == Sorted(i)
           w == Sorted(j)
<1>1. /\ v \in 1 .. Timings /\ Within(v - 1) <= i
      /\ w \in 1 .. Timings /\ j < Within(w)
  BY SortedIs
<1>2. RequestCount \in Nat
  BY WithinCounts, NumbersAssumption DEF RequestCount
<1> HIDE DEF v, w
<1>3. ASSUME w < v PROVE FALSE
  <2>1. v - 1 \in 0 .. Timings /\ w \in 0 .. Timings /\ w <= v - 1
    BY <1>1, <1>3, NumbersAssumption
  <2>2. Within(w) <= Within(v - 1) /\ Within(w) \in Nat /\ Within(v - 1) \in Nat
    BY <2>1, WithinGrows, WithinCounts
  <2> QED
    BY <1>1, <1>2, <2>2
<1>4. v <= w
  BY <1>1, <1>3, NumbersAssumption
<1> QED
  BY <1>4 DEF v, w

IsRankOf(p, v) ==
  /\ v \in 1 .. Timings /\ timings[v] > 0
  /\ 100 * Within(v) >= p * RequestCount
  /\ 100 * Within(v - 1) <= p * RequestCount

(* The cap at the last index is never needed, and what is there is a rank.  *)
LEMMA PercentileIsRank ==
  ASSUME timings \in [1 .. Timings -> Nat], RequestCount # 0, NEW p \in 0 .. 99
  PROVE  /\ IsRankOf(p, Percentile(p))
         /\ Percentile(p) = Sorted(PercentileIndex(p, RequestCount))
         /\ PercentileIndex(p, RequestCount) \in 0 .. RequestCount - 1
         /\ 100 * PercentileIndex(p, RequestCount) <= p * RequestCount
         /\ p * RequestCount < 100 * (PercentileIndex(p, RequestCount) + 1)
<1> DEFINE n == RequestCount
           i == PercentileIndex(p, n)
           m == p * n
<1>1. n \in Nat \ {0}
  BY WithinCounts, NumbersAssumption DEF RequestCount
<1>2. i \in 0 .. n - 1 /\ 100 * i <= m /\ m < 100 * (i + 1) /\ m \in Nat
  <2> HIDE DEF n
  <2>1. m \in Nat
    BY <1>1
  <2> QED
    BY <1>1, <2>1, PercentileIndexInList
<1>3. Percentile(p) = Sorted(i)
  <2>1. (IF i < n - 1 THEN i ELSE n - 1) = i
    <3> HIDE DEF i, n
    <3> QED
      BY <1>1, <1>2
  <2> QED
    BY <2>1 DEF Percentile
<1> DEFINE v == Sorted(i)
<1>4. v \in 1 .. Timings /\ Within(v - 1) <= i /\ i < Within(v) /\ timings[v] > 0
  BY <1>2, SortedIs
<1> HIDE DEF v, i, m
<1>5. Within(v) \in Nat /\ Within(v - 1) \in Nat
  <2>1. v \in 0 .. Timings /\ v - 1 \in 0 .. Timings
    BY <1>4, NumbersAssumption
  <2> QED
    BY <2>1, WithinCounts
<1>6. 100 * Within(v) >= m /\ 100 * Within(v - 1) <= m
  <2> HIDE DEF n
  <2> QED
    BY <1>1, <1>2, <1>4, <1>5
<1>7. IsRankOf(p, v)
  BY <1>4, <1>6 DEF IsRankOf, m
<1> QED
  BY <1>2, <1>3, <1>7 DEF v, i, m

(* What report_builder computes from at least one response time.            *)
LEMMA StatisticsAreRanks ==
  ASSUME timings \in [1 .. Timings -> Nat], RequestCount # 0
  PROVE  /\ IsRankOf(95, Percentile(95)) /\ IsRankOf(99, Percentile(99))
         /\ Percentile(95) <= Percentile(99) /\ Median <= 2 * Percentile(95)
<1> DEFINE n == RequestCount
           i == PercentileIndex(95, n)
           j == PercentileIndex(99, n)
           a == (n - 1) \div 2
           b == n \div 2
<1>1. n \in Nat \ {0}
  BY WithinCounts, NumbersAssumption DEF RequestCount
<1>2. /\ IsRankOf(95, Percentile(95)) /\ Percentile(95) = Sorted(i)
      /\ i \in 0 .. n - 1 /\ 100 * i <= 95 * n /\ 95 * n < 100 * (i + 1)
  BY PercentileIsRank
<1>3. /\ IsRankOf(99, Percentile(99)) /\ Percentile(99) = Sorted(j)
      /\ j \in 0 .. n - 1 /\ 99 * n < 100 * (j + 1)
  BY PercentileIsRank
<1>4. i <= j /\ a \in 0 .. n - 1 /\ b \in 0 .. n - 1 /\ a <= i /\ b <= i
  <2> HIDE DEF n, i, j
  <2> QED
    BY <1>1, <1>2, <1>3
<1>5. Sorted(i) <= Sorted(j) /\ Sorted(a) <= Sorted(i) /\ Sorted(b) <= Sorted(i)
  <2> HIDE DEF i, j, a, b
  <2> QED
    BY <1>2, <1>3, <1>4, SortedGrows
<1>6. Sorted(i) \in 1 .. Timings /\ Sorted(a) \in 1 .. Timings /\ Sorted(b) \in 1 .. Timings
  <2> HIDE DEF i, a, b
  <2> QED
    BY <1>2, <1>4, SortedIs
<1>7. Median = Sorted(a) + Sorted(b)
  BY DEF Median
<1>8. Median <= 2 * Sorted(i)
  <2> HIDE DEF i, a, b
  <2> QED
    BY <1>5, <1>6, <1>7, NumbersAssumption
<1> QED
  BY <1>2, <1>3, <1>5, <1>8

(* What PercentilesAreRanks says of the statistics in a report.             *)
AreRanks(r) ==
  r # NoStats =>
    /\ IsRankOf(95, r.p95) /\ IsRankOf(99, r.p99)
    /\ r.p95 <= r.p99 /\ r.median <= 2 * r.p95
    /\ r.total_requests = RequestCount

(* The statistics are those of the response times taken, which no more are  *)
(* added to once the reports are written.                                   *)
RankInv ==
  /\ timings \in [1 .. Timings -> Nat]
  /\ phase \in {"parsed", "loaded", "running"} => report = NoStats
  /\ phase = "reporting" => AreRanks(stats)
  /\ AreRanks(report)

LEMMA RankInit == ScanInit => RankInv
<1> SUFFICES ASSUME ScanInit PROVE RankInv
  OBVIOUS
<1>1. timings = [t \in 1 .. Timings |-> 0] /\ report = NoStats /\ phase = "parsed"
  BY DEF ScanInit
<1> QED
  BY <1>1 DEF RankInv, AreRanks

LEMMA RankStep == RankInv /\ [ScanNext]_scan_vars => RankInv'
<1> SUFFICES ASSUME RankInv, [ScanNext]_scan_vars PROVE RankInv'
  OBVIOUS
<1>0. timings' = timings => \A r : AreRanks(r)' <=> AreRanks(r)
  BY DEF AreRanks, IsRankOf, RequestCount, Within
<1>1. ASSUME UNCHANGED <<timings, report>>,
             phase' \in {"parsed", "loaded", "running"} => phase \in {"parsed", "loaded", "running"},
             phase' = "reporting" => phase = "reporting" /\ stats' = stats
      PROVE  RankInv'
  <2>1. AreRanks(report)'
    BY <1>0, <1>1 DEF RankInv
  <2>2. phase' = "reporting" => AreRanks(stats)'
    BY <1>0, <1>1 DEF RankInv
  <2> QED
    BY <1>1, <2>1, <2>2 DEF RankInv
<1>2. CASE ListModules \/ RefuseFile \/ RefuseDomain \/ Interrupt
  <2>1. phase' = "exited" /\ UNCHANGED <<timings, report>>
    BY <1>2 DEF ListModules, RefuseFile, RefuseDomain, Interrupt, Exits, Exit, reports
  <2> QED
    BY <1>1, <2>1
<1>3. CASE LoadSettings \/ StartScan \/ RunStage
  <2>1. /\ phase \in {"parsed", "loaded", "running"} /\ UNCHANGED <<timings, report>>
        /\ phase' \in {"loaded", "running", "exited"}
    BY <1>3 DEF LoadSettings, StartScan, RunStage, Exit, reports
  <2> QED
    BY <1>1, <2>1
<1>4. CASE Request
  <2>1. /\ phase = "running" /\ phase' = "running" /\ report' = report
        /\ \E t \in 1 .. Timings : timings' = [timings EXCEPT ![t] = @ + 1]
    BY <1>4 DEF Request, reports
  <2>2. timings' \in [1 .. Timings -> Nat]
    BY <2>1 DEF RankInv
  <2>3. report' = NoStats
    BY <2>1 DEF RankInv
  <2> QED
    BY <2>1, <2>2, <2>3 DEF RankInv, AreRanks
<1>5. CASE Summarise
  <2>1. /\ phase = "running" /\ phase' \in {"reporting", "reported"}
        /\ UNCHANGED <<timings, report>>
    BY <1>5 DEF Summarise, reports
  <2>2. timings \in [1 .. Timings -> Nat]
    BY DEF RankInv
  <2>3. ASSUME phase' = "reporting" PROVE AreRanks(stats')
    <3>1. stats' = IF RequestCount = 0 THEN NoStats
                   ELSE [total_requests |-> RequestCount, median |-> Median,
                         p95 |-> Percentile(95), p99 |-> Percentile(99)]
      BY <1>5, <2>3 DEF Summarise
    <3>2. CASE RequestCount = 0
      BY <3>1, <3>2 DEF AreRanks
    <3>3. CASE RequestCount # 0
      <4>1. /\ IsRankOf(95, Percentile(95)) /\ IsRankOf(99, Percentile(99))
            /\ Percentile(95) <= Percentile(99) /\ Median <= 2 * Percentile(95)
        BY <2>2, <3>3, StatisticsAreRanks
      <4> QED
        BY <3>1, <3>3, <4>1 DEF AreRanks
    <3> QED
      BY <3>2, <3>3
  <2>4. phase' = "reporting" => AreRanks(stats)'
    BY <2>1, <2>3 DEF AreRanks, IsRankOf, RequestCount, Within
  <2>5. AreRanks(report)'
    BY <1>0, <2>1 DEF RankInv
  <2> QED
    BY <2>1, <2>2, <2>4, <2>5 DEF RankInv
<1>6. CASE WriteReport
  <2>1. /\ phase = "reporting" /\ phase' \in {"reporting", "reported"}
        /\ UNCHANGED <<timings, stats>> /\ report' \in {report, stats}
    BY <1>6 DEF WriteReport, reports
  <2>2. AreRanks(stats) /\ AreRanks(report)
    BY <2>1 DEF RankInv
  <2>3. AreRanks(stats)' /\ AreRanks(report)'
    BY <2>1, <2>2 DEF AreRanks, IsRankOf, RequestCount, Within
  <2> QED
    BY <2>1, <2>3 DEF RankInv
<1>7. CASE Finish
  BY <1>1, <1>7 DEF Finish, Exit, reports
<1>8. CASE UNCHANGED scan_vars
  BY <1>1, <1>8 DEF scan_vars, reports
<1> QED
  BY <1>2, <1>3, <1>4, <1>5, <1>6, <1>7, <1>8 DEF ScanNext

(* For any number of requests with any response times, the percentiles in   *)
(* the reports are response times that were measured, of the rank they say, *)
(* in order, the median is not above them, and the number of requests shown *)
(* is that of the answered ones (compute_percentiles).                      *)
THEOREM ReportedRanks == ScanSpec => []PercentilesAreRanks
<1>1. RankInv => PercentilesAreRanks
  BY DEF RankInv, AreRanks, IsRankOf, PercentilesAreRanks
<1> QED
  BY <1>1, RankInit, RankStep, PTL DEF ScanSpec

-----------------------------------------------------------------------------
(* One more directive without harmful values never lowers the score of a    *)
(* policy nor raises what it takes from the risk score, for all policies.   *)

(* A policy as the parser builds it.                                        *)
Policies(d) ==
  /\ IsFiniteSet(DOMAIN d)
  /\ \A n \in DOMAIN d : d[n] \in Seq(Values)

PolicyInv == Policies(policy.directives) /\ policy.report_only \in BOOLEAN

(* A part is harmless to a policy that does not name its directive.         *)
Harmless(d, part) ==
  /\ part.name \notin DOMAIN d
  /\ ~Contains(part.values, "jsonp")
  /\ part.name \in {"script-src", "style-src"} => ~Contains(part.values, "host")
  /\ part.name = "script-src" => ~Contains(part.values, "'unsafe-inline'")

LEMMA ParsedPolicy ==
  ASSUME NEW d, Policies(d), NEW part \in Parts
  PROVE  Policies(Parsed(d, part))
<1>1. DOMAIN Parsed(d, part) = DOMAIN d \cup {part.name}
  BY DEF Parsed
<1>2. IsFiniteSet(DOMAIN d \cup {part.name})
  BY FS_AddElement DEF Policies
<1>3. part.values \in Seq(Values) /\ <<"*">> \in Seq(Values)
  <2>1. part.values \in Seq(Values)
    BY PartsAssumption
  <2>2. "*" \in Values
    BY DEF Values
  <2>3. \A S : \A x \in S : <<x>> \in Seq(S)
    OBVIOUS
  <2> QED
    BY <2>1, <2>2, <2>3
<1>4. ASSUME NEW n \in DOMAIN Parsed(d, part) PROVE Parsed(d, part)[n] \in Seq(Values)
  BY <1>3 DEF Parsed, Policies
<1> QED
  BY <1>1, <1>2, <1>4 DEF Policies

LEMMA PolicyInit == Init => PolicyInv
<1> SUFFICES ASSUME Init PROVE PolicyInv
  OBVIOUS
<1>1. DOMAIN Empty = {}
  BY DEF Empty
<1> QED
  BY <1>1, FS_EmptySet DEF Init, PolicyInv, Policies, NoPolicy

LEMMA PolicyStep == PolicyInv /\ [Next]_vars => PolicyInv'
<1> SUFFICES ASSUME PolicyInv, [Next]_vars PROVE PolicyInv'
  OBVIOUS
<1>1. Policies(NoPolicy.directives) /\ Policies(Empty)
  <2>1. DOMAIN Empty = {}
    BY DEF Empty
  <2> QED
    BY <2>1, FS_EmptySet DEF Policies, NoPolicy
<1>2. CASE policy' = policy
  BY <1>2 DEF PolicyInv
<1>3. CASE policy' = NoPolicy
  BY <1>1, <1>3 DEF PolicyInv, NoPolicy
<1>4. CASE CspHeader
  BY <1>1, <1>4 DEF CspHeader, PolicyInv, NoPolicy
<1>5. ASSUME NEW part \in Parts, CspPart(part) PROVE PolicyInv'
  <2>1. policy'.directives = Parsed(policy.directives, part)
          /\ policy'.report_only = policy.report_only
    BY <1>5 DEF CspPart
  <2> QED
    BY <2>1, ParsedPolicy DEF PolicyInv
<1>6. HeaderResult \/ TlsResult \/ SecretResult \/ CspAbsent \/ Raise \/ EndCategory \/ Weigh
        \/ UNCHANGED vars => policy' = policy
  BY DEF HeaderResult, TlsResult, SecretResult, CspAbsent, Read, Raise, EndCategory, Weigh, vars
<1>7. CspResult => policy' = NoPolicy
  BY DEF CspResult
<1> QED
  BY <1>2, <1>3, <1>4, <1>5, <1>6, <1>7 DEF Next

-----------------------------------------------------------------------------
(* The weaknesses of a policy are finitely many.                            *)
LEMMA WeaknessesFinite ==
  ASSUME NEW d, NEW r \in BOOLEAN
  PROVE  IsFiniteSet(Weaknesses(d, r)) /\ Cardinality(Weaknesses(d, r)) \in Nat
<1> DEFINE All == {"default-src", "script-src", "object-src", "base-uri", "frame-ancestors",
                   "form-action", "no reporting", "unsafe-inline", "report-only"}
<1>1. IsFiniteSet(All)
  <2>1. IsFiniteSet({}) /\ \A S, x : IsFiniteSet(S) => IsFiniteSet(S \cup {x})
    BY FS_EmptySet, FS_AddElement
  <2>2. All = {} \cup {"default-src"} \cup {"script-src"} \cup {"object-src"} \cup {"base-uri"}
                \cup {"frame-ancestors"} \cup {"form-action"} \cup {"no reporting"}
                \cup {"unsafe-inline"} \cup {"report-only"}
    OBVIOUS
  <2> HIDE DEF All
  <2> QED
    BY <2>1, <2>2
<1>2. Weaknesses(d, r) \subseteq All
  BY DEF Weaknesses, Essential
<1> HIDE DEF All
<1>3. IsFiniteSet(Weaknesses(d, r))
  BY <1>1, <1>2, FS_Subset
<1> QED
  BY <1>3, FS_CardinalityType

LEMMA BypassesFinite ==
  ASSUME NEW d, Policies(d)
  PROVE  IsFiniteSet(Bypasses(d)) /\ Cardinality(Bypasses(d)) \in Nat
<1> DEFINE Named(n) == IF n \in DOMAIN d THEN {n} \X DOMAIN d[n] ELSE {}
           Jsonp == (DOMAIN d) \X {0}
<1>1. \A n : IsFiniteSet(Named(n))
  <2>1. SUFFICES ASSUME NEW n \in DOMAIN d PROVE IsFiniteSet({n} \X DOMAIN d[n])
    BY FS_EmptySet
  <2>2. DOMAIN d[n] = 1 .. Len(d[n]) /\ Len(d[n]) \in Nat
    BY DEF Policies
  <2>3. IsFiniteSet(DOMAIN d[n])
    BY <2>2, FS_Interval
  <2>4. IsFiniteSet({n})
    BY FS_Singleton
  <2> QED
    BY <2>3, <2>4, FS_Product
<1>2. IsFiniteSet(Jsonp)
  BY FS_Singleton, FS_Product DEF Policies
<1>3. Bypasses(d) \subseteq Jsonp \cup Named("script-src") \cup Named("style-src")
  BY DEF Bypasses
<1> HIDE DEF Named, Jsonp
<1>4. IsFiniteSet(Jsonp \cup Named("script-src"))
  BY <1>1, <1>2, FS_Union
<1>5. IsFiniteSet(Jsonp \cup Named("script-src") \cup Named("style-src"))
  BY <1>1, <1>4, FS_Union
<1>6. IsFiniteSet(Bypasses(d))
  BY <1>3, <1>5, FS_Subset
<1> QED
  BY <1>6, FS_CardinalityType

(* What the policy held stays as it was.                                    *)
LEMMA ParsedKeeps ==
  ASSUME NEW d, NEW part, part.name \notin DOMAIN d
  PROVE  /\ DOMAIN Parsed(d, part) = DOMAIN d \cup {part.name}
         /\ \A n \in DOMAIN d : Parsed(d, part)[n] = d[n]
         /\ Parsed(d, part)[part.name] = IF part.values = <<>> THEN <<"*">> ELSE part.values
  BY DEF Parsed

(* A harmless part adds no weakness.                                        *)
LEMMA FewerWeaknesses ==
  ASSUME NEW d, NEW part \in Parts, Harmless(d, part), NEW r \in BOOLEAN
  PROVE  Weaknesses(Parsed(d, part), r) \subseteq Weaknesses(d, r)
<1> DEFINE e == Parsed(d, part)
<1>8. part.name \notin DOMAIN d
  BY DEF Harmless
<1>9. /\ DOMAIN e = DOMAIN d \cup {part.name}
      /\ \A n \in DOMAIN d : e[n] = d[n]
      /\ e[part.name] = <<"*">> \/ e[part.name] = part.values
  BY <1>8, ParsedKeeps
<1>1. DOMAIN d \subseteq DOMAIN e
  BY <1>9
<1>2. InlineAllowed(e) => InlineAllowed(d)
  <2>1. CASE part.name # "script-src"
    <3>1. "script-src" \in DOMAIN e <=> "script-src" \in DOMAIN d
      BY <2>1, <1>9
    <3>2. "script-src" \in DOMAIN d => e["script-src"] = d["script-src"]
      BY <1>9
    <3> QED
      BY <3>1, <3>2 DEF InlineAllowed, Has
  <2>2. CASE part.name = "script-src"
    <3>1. e["script-src"] = <<"*">> \/ e["script-src"] = part.values
      BY <2>2, <1>9
    <3>2. ~Contains(<<"*">>, "'unsafe-inline'")
      BY DEF Contains
    <3>3. ~Contains(part.values, "'unsafe-inline'")
      BY <2>2 DEF Harmless
    <3> QED
      BY <3>1, <3>2, <3>3 DEF InlineAllowed, Has
  <2> QED
    BY <2>1, <2>2
<1> HIDE DEF e
<1>3. Weaknesses(e, r) \subseteq Weaknesses(d, r)
  BY <1>1, <1>2 DEF Weaknesses
<1> QED
  BY <1>3 DEF e

(* A harmless part opens no bypass.                                         *)
LEMMA NoNewBypass ==
  ASSUME NEW d, NEW part \in Parts, Harmless(d, part)
  PROVE  Bypasses(Parsed(d, part)) \subseteq Bypasses(d)
<1> DEFINE e == Parsed(d, part)
<1>1. /\ DOMAIN e = DOMAIN d \cup {part.name}
      /\ \A n \in DOMAIN d : e[n] = d[n]
      /\ e[part.name] = <<"*">> \/ e[part.name] = part.values
  BY ParsedKeeps DEF Harmless
<1>2. ~Contains(e[part.name], "jsonp")
  BY <1>1 DEF Contains, Harmless
<1>3. part.name \in {"script-src", "style-src"} =>
        \A i \in DOMAIN e[part.name] : e[part.name][i] # "host"
  <2>1. part.values \in Seq(Values)
    BY PartsAssumption
  <2>2. DOMAIN part.values = 1 .. Len(part.values)
    BY <2>1
  <2>3. part.name \in {"script-src", "style-src"} =>
          \A i \in DOMAIN part.values : part.values[i] # "host"
    BY <2>2 DEF Harmless, Contains
  <2>4. \A i \in DOMAIN <<"*">> : <<"*">>[i] # "host"
    OBVIOUS
  <2> QED
    BY <1>1, <2>3, <2>4
<1> HIDE DEF e
<1>4. \A n \in DOMAIN e : Contains(e[n], "jsonp") => n \in DOMAIN d /\ Contains(d[n], "jsonp")
  BY <1>1, <1>2
<1>5. ASSUME NEW n \in DOMAIN e \cap {"script-src", "style-src"},
             NEW i \in DOMAIN e[n], e[n][i] = "host"
      PROVE  n \in DOMAIN d /\ i \in DOMAIN d[n] /\ d[n][i] = "host"
  BY <1>1, <1>3, <1>5
<1>6. Bypasses(e) \subseteq Bypasses(d)
  BY <1>4, <1>5 DEF Bypasses
<1> QED
  BY <1>6 DEF e

(* Fewer weaknesses and bypasses, a higher score.                           *)
LEMMA ScoreGrows ==
  ASSUME NEW d, NEW e, NEW r \in BOOLEAN, Policies(d), Policies(e),
         Weaknesses(e, r) \subseteq Weaknesses(d, r), Bypasses(e) \subseteq Bypasses(d)
  PROVE  LET before == Analysis(d, r)
             after == Analysis(e, r)
         IN after.score >= before.score /\ Cost(after) <= Cost(before)
<1> DEFINE w == Cardinality(Weaknesses(d, r))
           v == Cardinality(Weaknesses(e, r))
           b == Cardinality(Bypasses(d))
           c == Cardinality(Bypasses(e))
<1>1. w \in Nat /\ v \in Nat /\ v <= w
  BY WeaknessesFinite, FS_Subset
<1>2. b \in Nat /\ c \in Nat /\ c <= b
  BY BypassesFinite, FS_Subset
<1> HIDE DEF w, v, b, c
<1>3. /\ Analysis(d, r).weaknesses = w
      /\ Analysis(e, r).weaknesses = v
  BY DEF Analysis, w, v
<1>4. /\ Analysis(d, r).score = Score(d, r)
      /\ Analysis(e, r).score = Score(e, r)
  BY DEF Analysis
<1>5. /\ Score(d, r) = LET left == 100 - 10 * w - (IF r THEN 20 ELSE 0) - 5 * b
                       IN IF left < 0 THEN 0 ELSE left
      /\ Score(e, r) = LET left == 100 - 10 * v - (IF r THEN 20 ELSE 0) - 5 * c
                       IN IF left < 0 THEN 0 ELSE left
  BY DEF Score, w, v, b, c
<1>6. /\ Score(d, r) \in Nat /\ Score(e, r) \in Nat /\ Score(e, r) >= Score(d, r)
  BY <1>1, <1>2, <1>5
<1>7. Cost(Analysis(e, r)) <= Cost(Analysis(d, r))
  BY <1>1, <1>3, <1>4, <1>6 DEF Cost
<1> QED
  BY <1>4, <1>6, <1>7

(* Naming one more directive, without harmful values, never makes a site    *)
(* look worse, whatever the policy holds already and in whatever order the  *)
(* results come.                                                            *)
THEOREM CleanDirectives == Spec => CleanDirectiveNeverCosts
<1> DEFINE Holds == \A part \in Parts : CspPart(part) /\ Clean(part) =>
             LET before == Analysis(policy.directives, policy.report_only)
                 after == Analysis(policy'.directives, policy'.report_only)
             IN after.score >= before.score /\ Cost(after) <= Cost(before)
<1>1. PolicyInv => Holds
  <2>1. SUFFICES ASSUME PolicyInv, NEW part \in Parts, CspPart(part), Clean(part)
        PROVE  LET before == Analysis(policy.directives, policy.report_only)
                   after == Analysis(policy'.directives, policy'.report_only)
               IN after.score >= before.score /\ Cost(after) <= Cost(before)
    OBVIOUS
  <2> DEFINE d == policy.directives
             e == Parsed(d, part)
             r == policy.report_only
  <2>2. policy'.directives = e /\ policy'.report_only = r
    BY <2>1 DEF CspPart
  <2>3. Policies(d) /\ r \in BOOLEAN /\ Policies(e)
    BY <2>1, ParsedPolicy DEF PolicyInv
  <2>4. Harmless(d, part)
    BY <2>1 DEF Clean, Harmless
  <2>5. Weaknesses(e, r) \subseteq Weaknesses(d, r) /\ Bypasses(e) \subseteq Bypasses(d)
    BY <2>3, <2>4, FewerWeaknesses, NoNewBypass
  <2> QED
    BY <2>2, <2>3, <2>5, ScoreGrows
<1>2. PolicyInv /\ [Next]_vars => [Holds]_vars
  BY <1>1
<1> QED
  BY PolicyInit, PolicyStep, <1>2, PTL DEF Spec, CleanDirectiveNeverCosts

-----------------------------------------------------------------------------
(* Deductions are whole points, and a finding is a severity and a deduction. *)
Hundreds == {100 * k : k \in Nat}

(* The three that run() names itself are strings too.                       *)
Severities == STRING \cup {"critical", "high", "medium"}

Finding == Severities \X Hundreds

Factor == [category : CategorySet, severity : Severities, score : Hundreds]

LEMMA HundredsClosed ==
  /\ Hundreds \subseteq Nat /\ 0 \in Hundreds
  /\ \A a, b \in Hundreds : a + b \in Hundreds
<1>1. ASSUME NEW a \in Hundreds, NEW b \in Hundreds PROVE a + b \in Hundreds
  <2>1. PICK k \in Nat : a = 100 * k
    BY DEF Hundreds
  <2>2. PICK l \in Nat : b = 100 * l
    BY DEF Hundreds
  <2>3. a + b = 100 * (k + l) /\ k + l \in Nat
    BY <2>1, <2>2
  <2> QED
    BY <2>3 DEF Hundreds
<1>2. 0 \in Hundreds
  <2>1. 0 = 100 * 0 /\ 0 \in Nat
    OBVIOUS
  <2> QED
    BY <2>1 DEF Hundreds
<1>3. Hundreds \subseteq Nat
  BY DEF Hundreds
<1> QED
  BY <1>1, <1>2, <1>3

LEMMA Deductions ==
  {100, 300, 500, 800, 1000, 1500, 2500} \subseteq Hundreds
<1>1. /\ 100 = 100 * 1 /\ 300 = 100 * 3 /\ 500 = 100 * 5 /\ 800 = 100 * 8
      /\ 1000 = 100 * 10 /\ 1500 = 100 * 15 /\ 2500 = 100 * 25
  OBVIOUS
<1> QED
  BY <1>1 DEF Hundreds

(* Every loop deducts for findings of this kind.                            *)
LEMMA FindingsTyped ==
  ASSUME NEW severities \in FindingLists
  PROVE  Findings(severities) \in Seq(Finding)
<1>1. severities \in Seq(STRING)
  BY FindingListsAssumption
<1>2. \A severity \in STRING : Penalty(severity) \in Hundreds
  BY Deductions DEF Penalty, Severity
<1>3. Len(severities) \in Nat /\ DOMAIN severities = 1 .. Len(severities)
        /\ \A i \in 1 .. Len(severities) : severities[i] \in STRING
  BY <1>1
<1>4. \A i \in 1 .. Len(severities) : <<severities[i], Penalty(severities[i])>> \in Finding
  BY <1>2, <1>3 DEF Finding, Severities
<1>5. Findings(severities) \in [1 .. Len(severities) -> Finding]
  BY <1>3, <1>4 DEF Findings
<1> QED
  BY <1>3, <1>5

LEMMA SomeFindings ==
  /\ <<"high", 1500>> \in Finding /\ <<"critical", 2500>> \in Finding
  /\ <<"medium", 1000>> \in Finding /\ <<"medium", 800>> \in Finding
  /\ <<"medium", 500>> \in Finding
<1>1. "high" \in Severities /\ "critical" \in Severities /\ "medium" \in Severities
  BY DEF Severities
<1>2. 1500 \in Hundreds /\ 2500 \in Hundreds /\ 1000 \in Hundreds /\ 800 \in Hundreds
        /\ 500 \in Hundreds
  BY Deductions
<1> QED
  BY <1>1, <1>2 DEF Finding

(* A finding if there is reason for one.                                    *)
LEMMA PerhapsOne ==
  ASSUME NEW x \in Finding, NEW s, s = <<>> \/ s = <<x>>
  PROVE  s \in Seq(Finding)
<1>1. <<>> \in Seq(Finding) /\ <<x>> \in Seq(Finding)
  OBVIOUS
<1> QED
  BY <1>1, Zenon

LEMMA TlsFindingsTyped ==
  ASSUME NEW r
  PROVE  TlsFindings(r) \in Seq(Finding)
<1> DEFINE a == IF r.expired THEN <<<<"critical", 2500>>>> ELSE <<>>
           b == IF r.self_signed THEN <<<<"medium", 1000>>>> ELSE <<>>
           c == IF 0 < r.days /\ r.days < 30 THEN <<<<"medium", 800>>>> ELSE <<>>
           e == <<<<"high", 1500>>>>
<1>1. a \in Seq(Finding)
  <2>1. a = <<>> \/ a = <<<<"critical", 2500>>>>
    OBVIOUS
  <2> HIDE DEF a
  <2> QED
    BY <2>1, SomeFindings, PerhapsOne
<1>2. b \in Seq(Finding)
  <2>1. b = <<>> \/ b = <<<<"medium", 1000>>>>
    BY Zenon
  <2> HIDE DEF b
  <2> QED
    BY <2>1, SomeFindings, PerhapsOne
<1>3. c \in Seq(Finding)
  <2>1. c = <<>> \/ c = <<<<"medium", 800>>>>
    BY Zenon
  <2> HIDE DEF c
  <2> QED
    BY <2>1, SomeFindings, PerhapsOne
<1>4. e \in Seq(Finding)
  <2>1. e = <<<<"high", 1500>>>>
    OBVIOUS
  <2> HIDE DEF e
  <2> QED
    BY <2>1, SomeFindings, PerhapsOne
<1>5. TlsFindings(r) = IF r.error THEN e ELSE a \o b \o c
  BY DEF TlsFindings
<1> HIDE DEF a, b, c, e
<1>6. a \o b \o c \in Seq(Finding)
  BY <1>1, <1>2, <1>3
<1> QED
  BY <1>4, <1>5, <1>6, Zenon

LEMMA CspFindingsTyped ==
  ASSUME NEW a, a.weaknesses \in Nat
  PROVE  CspFindings(a) \in Seq(Finding)
<1> DEFINE h == IF a.score < 50 THEN <<<<"high", 1500>>>> ELSE <<>>
           w == [i \in 1 .. a.weaknesses |-> <<"medium", 500>>]
<1>1. h \in Seq(Finding)
  <2>1. h = <<>> \/ h = <<<<"high", 1500>>>>
    <3>1. CASE a.score < 50
      BY <3>1, Zenon
    <3>2. CASE ~(a.score < 50)
      BY <3>2, Zenon
    <3> QED
      BY <3>1, <3>2
  <2> HIDE DEF h
  <2> QED
    BY <2>1, SomeFindings, PerhapsOne
<1>2. w \in Seq(Finding)
  <2>1. w \in [1 .. a.weaknesses -> Finding]
    BY SomeFindings
  <2> HIDE DEF w
  <2> QED
    BY <2>1
<1>3. CspFindings(a) = h \o w
  BY DEF CspFindings
<1> HIDE DEF h, w
<1> QED
  BY <1>1, <1>2, <1>3

-----------------------------------------------------------------------------
Amounts(f, c) == [i \in DOMAIN f |-> IF f[i].category = c THEN f[i].score ELSE 0]

LEMMA AmountsTyped ==
  ASSUME NEW f \in Seq(Factor), NEW c
  PROVE  Amounts(f, c) \in Seq(Hundreds) /\ Len(Amounts(f, c)) = Len(f)
<1>1. Len(f) \in Nat /\ DOMAIN f = 1 .. Len(f) /\ \A i \in 1 .. Len(f) : f[i] \in Factor
  OBVIOUS
<1>2. \A i \in 1 .. Len(f) : f[i].score \in Hundreds
  BY <1>1 DEF Factor
<1>3. Amounts(f, c) \in [1 .. Len(f) -> Hundreds]
  BY <1>1, <1>2, HundredsClosed DEF Amounts
<1> QED
  BY <1>1, <1>3

(* A sum of whole points is one.                                            *)
LEMMA TotalHundreds ==
  ASSUME NEW s \in Seq(Hundreds)
  PROVE  s \in Seq(Int) /\ Total(s) \in Hundreds
<1>1. s \in Seq(Int)
  <2>1. Hundreds \subseteq Int
    BY HundredsClosed
  <2> QED
    BY <2>1, SeqMonotonic
<1>2. \A k \in 1 .. Len(s) : s[k] \in Hundreds
  OBVIOUS
<1>3. \A v \in Hundreds : \A k \in 1 .. Len(s) : v + s[k] \in Hundreds
  BY <1>2, HundredsClosed
<1> QED
  BY <1>1, <1>3, HundredsClosed, TotalIn

LEMMA AmountsConcat ==
  ASSUME NEW f \in Seq(Factor), NEW g \in Seq(Factor), NEW c
  PROVE  Amounts(f \o g, c) = Amounts(f, c) \o Amounts(g, c)
<1> DEFINE s == Amounts(f \o g, c)
           a == Amounts(f, c)
           b == Amounts(g, c)
<1>1. f \o g \in Seq(Factor) /\ Len(f \o g) = Len(f) + Len(g)
        /\ Len(f) \in Nat /\ Len(g) \in Nat
  OBVIOUS
<1>2. s \in Seq(Hundreds) /\ Len(s) = Len(f) + Len(g)
  BY <1>1, AmountsTyped
<1>3. a \in Seq(Hundreds) /\ b \in Seq(Hundreds) /\ Len(a) = Len(f) /\ Len(b) = Len(g)
  BY AmountsTyped
<1>4. ASSUME NEW k \in 1 .. Len(s) PROVE s[k] = (a \o b)[k]
  <2>1. s[k] = IF (f \o g)[k].category = c THEN (f \o g)[k].score ELSE 0
    BY <1>1, <1>2 DEF Amounts
  <2>2. CASE k <= Len(f)
    <3>1. k \in 1 .. Len(f) /\ k \in DOMAIN f /\ (f \o g)[k] = f[k]
      BY <1>1, <1>2, <2>2
    <3>2. a[k] = IF f[k].category = c THEN f[k].score ELSE 0
      BY <3>1 DEF Amounts
    <3> HIDE DEF s, a, b
    <3>3. (a \o b)[k] = a[k]
      BY <1>3, <3>1
    <3> QED
      BY <2>1, <3>1, <3>2, <3>3
  <2>3. CASE k > Len(f)
    <3>1. k - Len(f) \in 1 .. Len(g) /\ k - Len(f) \in DOMAIN g
            /\ (f \o g)[k] = g[k - Len(f)]
      BY <1>1, <1>2, <2>3
    <3>2. b[k - Len(f)] = IF g[k - Len(f)].category = c THEN g[k - Len(f)].score ELSE 0
      BY <3>1 DEF Amounts
    <3> HIDE DEF s, a, b
    <3>3. (a \o b)[k] = b[k - Len(a)]
      BY <1>1, <1>2, <1>3, <2>3
    <3> QED
      BY <1>3, <2>1, <3>1, <3>2, <3>3
  <2>4. k <= Len(f) \/ k > Len(f)
    <3> HIDE DEF s
    <3> QED
      BY <1>1, <1>2
  <2> QED
    BY <2>2, <2>3, <2>4
<1> HIDE DEF s, a, b
<1>5. a \o b \in Seq(Hundreds) /\ Len(a \o b) = Len(s)
  <2>1. a \o b \in Seq(Hundreds) /\ Len(a \o b) = Len(a) + Len(b)
    BY <1>3, ConcatProperties
  <2> QED
    BY <1>2, <1>3, <2>1
<1>6. s = a \o b
  BY <1>2, <1>4, <1>5, SeqEqual
<1> QED
  BY <1>6 DEF s, a, b

(* What a result costs is blamed on its category, and on no other.          *)
LEMMA Deducted ==
  ASSUME factors \in Seq(Factor), NEW found \in Seq(Finding), pc \in CategorySet, Deduct(found)
  PROVE  \E cost \in Hundreds :
           /\ total_score' = total_score - cost
           /\ factors' \in Seq(Factor)
           /\ \A c \in CategorySet : Blamed(c) \in Hundreds
           /\ \A c \in CategorySet : Blamed(c)' = Blamed(c) + (IF c = pc THEN cost ELSE 0)
<1> DEFINE costs == [i \in DOMAIN found |-> found[i][2]]
           new == [i \in DOMAIN found |->
                     [category |-> pc, severity |-> found[i][1], score |-> found[i][2]]]
<1>1. Len(found) \in Nat /\ DOMAIN found = 1 .. Len(found)
        /\ \A i \in 1 .. Len(found) : found[i] \in Finding
  OBVIOUS
<1>2. \A i \in 1 .. Len(found) : found[i][1] \in Severities /\ found[i][2] \in Hundreds
  BY <1>1 DEF Finding
<1>3. costs \in Seq(Hundreds)
  <2>1. costs \in [1 .. Len(found) -> Hundreds]
    BY <1>1, <1>2
  <2> HIDE DEF costs
  <2> QED
    BY <1>1, <2>1
<1>4. new \in Seq(Factor)
  <2>1. new \in [1 .. Len(found) -> Factor]
    BY <1>1, <1>2 DEF Factor
  <2> HIDE DEF new
  <2> QED
    BY <1>1, <2>1
<1>5. \A c : Amounts(new, c) = IF c = pc THEN costs ELSE [i \in DOMAIN costs |-> 0]
  BY <1>1 DEF Amounts
<1>6. factors' = factors \o new /\ total_score' = total_score - Total(costs)
  BY DEF Deduct
<1> HIDE DEF costs, new
<1>7. Total(costs) \in Hundreds
  BY <1>3, TotalHundreds
<1>8. Total([i \in DOMAIN costs |-> 0]) = 0
  <2> DEFINE zeros == [i \in DOMAIN costs |-> 0]
  <2>1. DOMAIN costs = 1 .. Len(costs) /\ Len(costs) \in Nat
    BY <1>3
  <2>2. zeros \in [1 .. Len(costs) -> Int] /\ \A k \in 1 .. Len(costs) : zeros[k] = 0
    BY <2>1
  <2> HIDE DEF zeros
  <2>3. zeros \in Seq(Int) /\ Len(zeros) = Len(costs)
    BY <2>1, <2>2
  <2>4. \A v \in {0} : \A k \in 1 .. Len(zeros) : v + zeros[k] \in {0}
    BY <2>2, <2>3
  <2>5. Total(zeros) \in {0}
    BY <2>3, <2>4, TotalIn
  <2> QED
    BY <2>5 DEF zeros
<1>9. \A c : Blamed(c) = Total(Amounts(factors, c)) /\ Blamed(c)' = Total(Amounts(factors', c))
  BY DEF Blamed, Amounts
<1>10. ASSUME NEW c \in CategorySet
       PROVE  Blamed(c) \in Hundreds /\ Blamed(c)' = Blamed(c) + (IF c = pc THEN Total(costs) ELSE 0)
  <2>1. Amounts(factors, c) \in Seq(Hundreds) /\ Amounts(new, c) \in Seq(Hundreds)
    BY <1>4, AmountsTyped
  <2>2. Total(Amounts(factors, c)) \in Hundreds /\ Amounts(factors, c) \in Seq(Int)
          /\ Amounts(new, c) \in Seq(Int)
    BY <2>1, TotalHundreds
  <2>3. Amounts(factors', c) = Amounts(factors, c) \o Amounts(new, c)
    BY <1>4, <1>6, AmountsConcat
  <2>4. Blamed(c)' = Blamed(c) + Total(Amounts(new, c))
    BY <1>9, <2>2, <2>3, TotalConcat
  <2>5. Total(Amounts(new, c)) = IF c = pc THEN Total(costs) ELSE 0
    BY <1>5, <1>8, Zenon
  <2> QED
    BY <1>9, <2>2, <2>4, <2>5
<1>11. factors' \in Seq(Factor)
  BY <1>4, <1>6
<1> QED
  BY <1>6, <1>7, <1>10, <1>11

-----------------------------------------------------------------------------
LEMMA CategoriesAre ==
  /\ CategorySet = {"security_headers", "tls", "csp", "secrets"}
  /\ DOMAIN Categories = 1 .. 4 /\ Len(Categories) = 4
  /\ Categories[1] = "security_headers" /\ Categories[2] = "tls"
  /\ Categories[3] = "csp" /\ Categories[4] = "secrets"
<1>1. /\ DOMAIN Categories = 1 .. 4 /\ Len(Categories) = 4
      /\ Categories[1] = "security_headers" /\ Categories[2] = "tls"
      /\ Categories[3] = "csp" /\ Categories[4] = "secrets"
  BY DEF Categories
<1>2. 1 .. 4 = {1, 2, 3, 4}
  OBVIOUS
<1> QED
  BY <1>1, <1>2 DEF CategorySet

(* The categories already scored.                                           *)
Ended(p) ==
  IF p = "security_headers" THEN {}
  ELSE IF p = "tls" THEN {"security_headers"}
  ELSE IF p = "csp" THEN {"security_headers", "tls"}
  ELSE IF p = "secrets" THEN {"security_headers", "tls", "csp"}
  ELSE CategorySet

Explained(c) ==
  /\ category_scores[c] \in 0 .. 1000
  /\ IF c = "security_headers"
     THEN 10 * category_scores[c] <= Capped(10000 - Blamed(c)) + 5
     ELSE 10 * category_scores[c] = Capped(10000 - Blamed(c))

(* What is left of a category under way is what its factors have not taken, *)
(* the later ones have none yet, and the scores of the earlier are          *)
(* explained by theirs.                                                     *)
ScoreInv ==
  /\ PolicyInv
  /\ policy.under_way => pc = "csp"
  /\ pc \in CategorySet \cup {"weigh", "done", "failed"}
  /\ factors \in Seq(Factor) /\ total_score \in Int
  /\ \A c \in CategorySet : Blamed(c) \in Hundreds
  /\ pc # "failed" =>
       /\ DOMAIN category_scores = Ended(pc)
       /\ \A c \in Ended(pc) : Explained(c)
       /\ \A c \in CategorySet \ Ended(pc) : c # pc => Blamed(c) = 0
  /\ pc \in CategorySet =>
       IF pc = "security_headers" THEN total_score <= 10000 - Blamed(pc)
                                  ELSE total_score = 10000 - Blamed(pc)
  /\ pc = "done" => result.overall = IF Overall < 0 THEN 0 ELSE Overall

(* The score of a category, to the tenth, is what is left of it: a point    *)
(* holds ten tenths and rounding changes nothing, except for the headers.   *)
LEMMA RoundedScore ==
  ASSUME NEW left \in Int, NEW t \in Rounded(Capped(left)), NEW b \in Hundreds,
         left <= 10000 - b
  PROVE  /\ t \in 0 .. 1000
         /\ 10 * t <= Capped(10000 - b) + 5
         /\ left = 10000 - b => 10 * t = Capped(10000 - b)
<1>1. PICK k \in Nat : b = 100 * k
  BY DEF Hundreds
<1> DEFINE h == Capped(left)
           q == h \div 10
<1>2. h \in Nat /\ h <= Capped(10000 - b) /\ h <= 10000
  BY <1>1 DEF Capped
<1>3. t \in {q, q + 1} /\ 10 * t - h \in -5 .. 5
  BY DEF Rounded
<1> HIDE DEF h
<1>4. q \in Nat /\ 10 * q <= h /\ h < 10 * q + 10
  BY <1>2
<1> HIDE DEF q
<1>5. t \in Nat /\ 10 * t <= h + 5
  BY <1>2, <1>3, <1>4
<1>6. Capped(10000 - b) \in Nat
  BY <1>1 DEF Capped
<1>7. t \in 0 .. 1000 /\ 10 * t <= Capped(10000 - b) + 5
  BY <1>2, <1>5, <1>6
<1>8. ASSUME left = 10000 - b PROVE 10 * t = Capped(10000 - b)
  <2>1. h = Capped(10000 - b)
    BY <1>8 DEF h
  <2>2. \E m \in Nat : h = 100 * m
    <3>1. CASE b <= 10000
      <4>1. h = 100 * (100 - k) /\ 100 - k \in Nat
        BY <1>1, <2>1, <3>1 DEF Capped
      <4> QED
        BY <4>1
    <3>2. CASE b > 10000
      <4>1. h = 100 * 0
        BY <1>1, <2>1, <3>2 DEF Capped
      <4> QED
        BY <4>1
    <3> QED
      BY <1>1, <3>1, <3>2
  <2>3. PICK m \in Nat : h = 100 * m
    BY <2>2
  <2>4. q = 10 * m
    BY <1>4, <2>3
  <2>5. t = q
    BY <1>3, <1>4, <2>3, <2>4
  <2> QED
    BY <2>1, <2>3, <2>4, <2>5
<1> QED
  BY <1>7, <1>8

LEMMA ScoreInit == Init => ScoreInv
<1> SUFFICES ASSUME Init PROVE ScoreInv
  OBVIOUS
<1>1. PolicyInv /\ ~policy.under_way
  BY PolicyInit DEF Init, NoPolicy
<1>2. /\ pc = "security_headers" /\ total_score = 10000 /\ factors = <<>>
      /\ DOMAIN category_scores = {}
  BY CategoriesAre DEF Init
<1>3. \A c : Blamed(c) = 0
  <2>1. \A c : [i \in DOMAIN factors |-> IF factors[i].category = c THEN factors[i].score ELSE 0]
                 = <<>>
    BY <1>2
  <2> QED
    BY <2>1, TotalEmpty DEF Blamed
<1>4. factors \in Seq(Factor)
  BY <1>2
<1> QED
  BY <1>1, <1>2, <1>3, <1>4, CategoriesAre, HundredsClosed DEF ScoreInv, Ended

(* A result with its deductions, of whatever category is under way.         *)
LEMMA DeductStep ==
  ASSUME ScoreInv, pc \in CategorySet, NEW found \in Seq(Finding), Deduct(found),
         UNCHANGED <<pc, category_scores, result>>, PolicyInv', policy'.under_way => pc = "csp"
  PROVE  ScoreInv'
<1>1. PICK cost \in Hundreds :
        /\ total_score' = total_score - cost
        /\ factors' \in Seq(Factor)
        /\ \A c \in CategorySet : Blamed(c) \in Hundreds
        /\ \A c \in CategorySet : Blamed(c)' = Blamed(c) + (IF c = pc THEN cost ELSE 0)
  BY Deducted DEF ScoreInv
<1>2. cost \in Nat /\ total_score \in Int /\ \A c \in CategorySet : Blamed(c) \in Nat
  <2>1. total_score \in Int
    BY DEF ScoreInv
  <2> QED
    BY <1>1, <2>1, HundredsClosed
<1>3. \A c \in CategorySet : Blamed(c)' \in Hundreds
  BY <1>1, HundredsClosed
<1>4. pc \notin Ended(pc) /\ Ended(pc) \subseteq CategorySet /\ pc \notin {"failed", "weigh", "done"}
  BY CategoriesAre DEF Ended
<1>5. \A c \in Ended(pc) : Blamed(c)' = Blamed(c)
  BY <1>1, <1>2, <1>4
<1>6. \A c \in Ended(pc) : Explained(c)'
  BY <1>4, <1>5 DEF ScoreInv, Explained
<1>7. \A c \in CategorySet \ Ended(pc) : c # pc => Blamed(c)' = 0
  BY <1>1, <1>4 DEF ScoreInv
<1>8. IF pc = "security_headers" THEN total_score' <= 10000 - Blamed(pc)'
                                 ELSE total_score' = 10000 - Blamed(pc)'
  <2> DEFINE b == Blamed(pc)
             d == Blamed(pc)'
  <2>1. d = b + cost /\ b \in Nat
    BY <1>1, <1>2
  <2>2. IF pc = "security_headers" THEN total_score <= 10000 - b ELSE total_score = 10000 - b
    BY DEF ScoreInv
  <2> HIDE DEF b, d
  <2>3. IF pc = "security_headers" THEN total_score' <= 10000 - d ELSE total_score' = 10000 - d
    BY <1>1, <1>2, <2>1, <2>2
  <2> QED
    BY <2>3 DEF d
<1>9. total_score' \in Int
  BY <1>1, <1>2
<1> QED
  BY <1>1, <1>3, <1>4, <1>6, <1>7, <1>8, <1>9 DEF ScoreInv

(* A step that leaves the scores and their factors alone.                   *)
LEMMA OtherStep ==
  ASSUME ScoreInv, UNCHANGED <<pc, total_score, factors, category_scores, result>>,
         PolicyInv', policy'.under_way => pc = "csp"
  PROVE  ScoreInv'
<1>1. \A c : Blamed(c)' = Blamed(c)
  BY DEF Blamed
<1>2. \A c : Explained(c)' <=> Explained(c)
  BY <1>1 DEF Explained
<1>3. Overall' = Overall
  BY DEF Overall, Lost
<1> QED
  BY <1>1, <1>2, <1>3 DEF ScoreInv

LEMMA HeaderStep ==
  ASSUME ScoreInv, HeaderResult
  PROVE  ScoreInv'
<1>1. PolicyInv'
  BY PolicyStep DEF ScoreInv, Next
<1>2. /\ pc = "security_headers" /\ pc \in CategorySet
      /\ ~policy.under_way /\ UNCHANGED <<pc, policy, category_scores, result>>
  BY CategoriesAre DEF HeaderResult, Read
<1>3. ASSUME NEW severities \in FindingLists, Deduct(Findings(severities))
      PROVE  ScoreInv'
  BY <1>1, <1>2, <1>3, FindingsTyped, DeductStep
<1>4. ASSUME NEW c \in Compliances, total_score' = total_score - (1000 - c) * 3,
             UNCHANGED factors
      PROVE  ScoreInv'
  <2>1. c \in 0 .. 1000 /\ total_score \in Int
    BY CompliancesAssumption DEF ScoreInv
  <2>2. total_score' \in Int /\ total_score' <= total_score
    BY <1>4, <2>1
  <2>3. \A d : Blamed(d)' = Blamed(d)
    BY <1>4 DEF Blamed
  <2>4. \A d : Explained(d)' <=> Explained(d)
    BY <1>2, <2>3 DEF Explained
  <2>5. total_score' <= 10000 - Blamed(pc)
    <3> DEFINE b == Blamed(pc)
    <3>1. b \in Hundreds /\ total_score <= 10000 - b
      BY <1>2 DEF ScoreInv
    <3> HIDE DEF b
    <3>2. total_score' <= 10000 - b
      BY <2>1, <2>2, <3>1, HundredsClosed
    <3> QED
      BY <3>2 DEF b
  <2> QED
    BY <1>1, <1>2, <1>4, <2>2, <2>3, <2>4, <2>5 DEF ScoreInv
<1>5. ASSUME UNCHANGED <<total_score, factors>> PROVE ScoreInv'
  BY <1>1, <1>2, <1>5, OtherStep
<1> QED
  BY <1>3, <1>4, <1>5 DEF HeaderResult

(* The end of a category.                                                   *)
LEMMA EndStep ==
  ASSUME ScoreInv, EndCategory
  PROVE  ScoreInv'
<1>1. PolicyInv' /\ ~policy'.under_way
  BY PolicyStep DEF ScoreInv, Next, EndCategory
<1>2. /\ pc \in CategorySet /\ pc' # "failed" /\ pc' # "done"
      /\ pc' \in CategorySet \cup {"weigh"} /\ pc' # "security_headers"
      /\ Ended(pc') = Ended(pc) \cup {pc} /\ pc \notin Ended(pc)
      /\ Ended(pc') \subseteq CategorySet /\ pc' \notin Ended(pc')
  <2>1. PICK i \in 1 .. 4 : pc = Categories[i]
                            /\ pc' = IF i = 4 THEN "weigh" ELSE Categories[i + 1]
    BY CategoriesAre DEF EndCategory
  <2>2. i = 1 \/ i = 2 \/ i = 3 \/ i = 4
    OBVIOUS
  <2>3. \/ pc = "security_headers" /\ pc' = "tls"
        \/ pc = "tls" /\ pc' = "csp"
        \/ pc = "csp" /\ pc' = "secrets"
        \/ pc = "secrets" /\ pc' = "weigh"
    BY <2>1, <2>2, CategoriesAre
  <2> QED
    BY <2>3, CategoriesAre DEF Ended
<1>3. PICK t \in Rounded(Capped(total_score)) :
        category_scores' = [c \in DOMAIN category_scores \cup {pc} |->
                              IF c = pc THEN t ELSE category_scores[c]]
  BY DEF EndCategory
<1>4. UNCHANGED <<factors, result>> /\ total_score' = 10000
  BY DEF EndCategory
<1>5. \A c : Blamed(c)' = Blamed(c)
  BY <1>4 DEF Blamed
<1>6. pc # "failed" /\ DOMAIN category_scores = Ended(pc)
  BY <1>2, CategoriesAre DEF ScoreInv
<1>7. DOMAIN category_scores' = Ended(pc') /\ category_scores'[pc] = t
        /\ \A c \in Ended(pc) : category_scores'[c] = category_scores[c]
  BY <1>2, <1>3, <1>6
<1>8. ASSUME NEW c, c = pc PROVE Explained(c)'
  <2> DEFINE b == Blamed(c)
  <2>1. /\ b \in Hundreds /\ total_score \in Int
        /\ IF c = "security_headers" THEN total_score <= 10000 - b ELSE total_score = 10000 - b
    BY <1>2, <1>8 DEF ScoreInv
  <2>2. Blamed(c)' = b
    BY <1>5
  <2> HIDE DEF b
  <2>3. total_score <= 10000 - b
    BY <2>1, HundredsClosed
  <2>4. /\ t \in 0 .. 1000
        /\ 10 * t <= Capped(10000 - b) + 5
        /\ total_score = 10000 - b => 10 * t = Capped(10000 - b)
    BY <2>1, <2>3, RoundedScore
  <2>5. category_scores'[c] = t
    BY <1>7, <1>8
  <2> QED
    BY <2>1, <2>2, <2>4, <2>5 DEF Explained
<1>9. ASSUME NEW c, c \in Ended(pc) PROVE Explained(c)'
  <2>1. Explained(c)
    BY <1>6, <1>9 DEF ScoreInv
  <2>2. category_scores'[c] = category_scores[c] /\ Blamed(c)' = Blamed(c)
    BY <1>5, <1>7, <1>9
  <2> QED
    BY <2>1, <2>2 DEF Explained
<1>10. ASSUME NEW c \in Ended(pc') PROVE Explained(c)'
  <2>1. CASE c = pc
    BY <1>8, <2>1
  <2>2. CASE c \in Ended(pc)
    BY <1>9, <2>2
  <2> QED
    BY <1>2, <2>1, <2>2
<1>11. ASSUME NEW c \in CategorySet \ Ended(pc') PROVE Blamed(c)' = 0
  <2>1. c \in CategorySet \ Ended(pc) /\ c # pc
    BY <1>2
  <2>2. Blamed(c) = 0
    BY <1>6, <2>1 DEF ScoreInv
  <2> QED
    BY <1>5, <2>2
<1>12. \A c \in CategorySet : Blamed(c)' \in Hundreds
  BY <1>5 DEF ScoreInv
<1>13. ASSUME NEW c \in CategorySet, c = pc' PROVE total_score' = 10000 - Blamed(c)'
  <2>1. Blamed(c)' = 0
    BY <1>2, <1>11, <1>13
  <2> QED
    BY <1>4, <2>1
<1> QED
  BY <1>1, <1>2, <1>4, <1>7, <1>10, <1>11, <1>12, <1>13 DEF ScoreInv

LEMMA ScoreStep == ScoreInv /\ [Next]_vars => ScoreInv'
<1> SUFFICES ASSUME ScoreInv, [Next]_vars PROVE ScoreInv'
  OBVIOUS
<1>1. PolicyInv'
  BY PolicyStep DEF ScoreInv
<1>2. ASSUME NEW category \in CategorySet, Read(category), policy'.under_way => pc = "csp",
             NEW found \in Seq(Finding), Deduct(found)
      PROVE  ScoreInv'
  BY <1>1, <1>2, DeductStep DEF Read
<1>3. CASE HeaderResult
  BY <1>3, HeaderStep
<1>4. CASE TlsResult
  <2>1. Read("tls") /\ ~policy'.under_way
    BY <1>4 DEF TlsResult, Read
  <2>2. PICK r \in TlsResults : Deduct(TlsFindings(r))
    BY <1>4 DEF TlsResult
  <2> QED
    BY <1>2, <2>1, <2>2, TlsFindingsTyped, CategoriesAre
<1>5. CASE SecretResult
  <2>1. Read("secrets") /\ ~policy'.under_way
    BY <1>5 DEF SecretResult, Read
  <2>2. PICK severities \in FindingLists : Deduct(Findings(severities))
    BY <1>5 DEF SecretResult
  <2> QED
    BY <1>2, <2>1, <2>2, FindingsTyped, CategoriesAre
<1>6. CASE CspAbsent
  <2>1. Read("csp") /\ ~policy'.under_way /\ Deduct(CspFindings(NoHeader))
    BY <1>6 DEF CspAbsent, Read
  <2>2. NoHeader.weaknesses \in Nat
    BY DEF NoHeader
  <2> QED
    BY <1>2, <2>1, <2>2, CspFindingsTyped, CategoriesAre
<1>7. CASE CspHeader
  <2>1. UNCHANGED <<pc, total_score, factors, category_scores, result>> /\ pc = "csp"
    BY <1>7 DEF CspHeader
  <2> QED
    BY <1>1, <2>1, OtherStep
<1>8. CASE CspResult
  <2> DEFINE a == Analysis(policy.directives, policy.report_only)
  <2>1. policy.under_way /\ policy' = NoPolicy /\ Deduct(CspFindings(a))
          /\ UNCHANGED <<pc, category_scores, result>>
    BY <1>8 DEF CspResult
  <2>2. pc \in CategorySet /\ ~policy'.under_way
    BY <2>1, CategoriesAre DEF ScoreInv, NoPolicy
  <2>3. a.weaknesses \in Nat
    BY WeaknessesFinite DEF Analysis, ScoreInv, PolicyInv
  <2> HIDE DEF a
  <2>4. CspFindings(a) \in Seq(Finding)
    BY <2>3, CspFindingsTyped
  <2> QED
    BY <1>1, <2>1, <2>2, <2>4, DeductStep
<1>9. ASSUME NEW part \in Parts, CspPart(part) PROVE ScoreInv'
  <2>1. UNCHANGED <<pc, total_score, factors, category_scores, result>> /\ policy.under_way
    BY <1>9 DEF CspPart
  <2>2. pc = "csp"
    BY <2>1 DEF ScoreInv
  <2> QED
    BY <1>1, <2>1, <2>2, OtherStep
<1>10. CASE Raise
  <2>1. pc' = "failed" /\ UNCHANGED <<policy, total_score, factors>> /\ ~policy.under_way
    BY <1>10 DEF Raise
  <2>2. \A c : Blamed(c)' = Blamed(c)
    BY <2>1 DEF Blamed
  <2>3. \A c \in CategorySet : Blamed(c)' \in Hundreds
    BY <2>2 DEF ScoreInv
  <2>4. total_score' \in Int /\ factors' \in Seq(Factor) /\ ~policy'.under_way
    BY <2>1 DEF ScoreInv
  <2> QED
    BY <1>1, <2>1, <2>3, <2>4, CategoriesAre DEF ScoreInv
<1>11. CASE EndCategory
  BY <1>11, EndStep
<1>12. CASE Weigh
  <2>1. /\ pc = "weigh" /\ pc' = "done"
        /\ UNCHANGED <<policy, total_score, factors, category_scores>>
        /\ result'.overall = IF Overall < 0 THEN 0 ELSE Overall
    BY <1>12 DEF Weigh
  <2>2. \A c : Blamed(c)' = Blamed(c)
    BY <2>1 DEF Blamed
  <2>3. \A c : Explained(c)' <=> Explained(c)
    BY <2>1, <2>2 DEF Explained
  <2>4. Overall' = Overall
    BY <2>1 DEF Overall, Lost
  <2>5. Ended(pc) = CategorySet /\ Ended(pc') = CategorySet
    BY <2>1 DEF Ended
  <2>6. \A c \in CategorySet : Blamed(c)' \in Hundreds /\ Explained(c)'
    BY <2>1, <2>2, <2>3, <2>5 DEF ScoreInv
  <2>7. /\ DOMAIN category_scores' = CategorySet /\ ~policy'.under_way
        /\ total_score' \in Int /\ factors' \in Seq(Factor)
    BY <2>1, <2>5 DEF ScoreInv
  <2> QED
    BY <1>1, <2>1, <2>4, <2>5, <2>6, <2>7, CategoriesAre DEF ScoreInv
<1>13. CASE UNCHANGED vars
  BY <1>1, <1>13, OtherStep DEF vars, ScoreInv
<1> QED
  BY <1>3, <1>4, <1>5, <1>6, <1>7, <1>8, <1>9, <1>10, <1>11, <1>12, <1>13 DEF Next

-----------------------------------------------------------------------------
LEMMA TotalOfFour ==
  ASSUME NEW a \in Int, NEW b \in Int, NEW c \in Int, NEW d \in Int
  PROVE  Total(<<a, b, c, d>>) = a + b + c + d
<1> DEFINE s == <<a, b, c, d>>
           f == [k \in 0 .. 4 |-> IF k = 0 THEN 0 ELSE IF k = 1 THEN a
                                  ELSE IF k = 2 THEN a + b ELSE IF k = 3 THEN a + b + c
                                  ELSE a + b + c + d]
<1>1. s \in Seq(Int) /\ Len(s) = 4 /\ s[1] = a /\ s[2] = b /\ s[3] = c /\ s[4] = d
  OBVIOUS
<1>2. f[0] = 0 /\ f[1] = a /\ f[2] = a + b /\ f[3] = a + b + c /\ f[4] = a + b + c + d
  OBVIOUS
<1> HIDE DEF s, f
<1>3. ASSUME NEW k \in 1 .. 4 PROVE f[k] = f[k - 1] + s[k]
  <2>1. k = 1 \/ k = 2 \/ k = 3 \/ k = 4
    OBVIOUS
  <2> QED
    BY <1>1, <1>2, <2>1
<1>4. PrefixSums(f, s, Len(s))
  BY <1>1, <1>2, <1>3 DEF PrefixSums
<1>5. Total(s) = f[Len(s)]
  BY <1>1, <1>4, TotalIs
<1> QED
  BY <1>1, <1>2, <1>5 DEF s

(* What a grade is made of: no category takes more than its weight.         *)
LEMMA OverallInRange ==
  ASSUME ScoreInv, pc = "done"
  PROVE  LET hit == {c \in CategorySet : category_scores[c] < 1000} IN
         20000 - result.overall \in 0 .. Total([i \in DOMAIN Categories |->
           IF Categories[i] \in hit THEN 1000 * Weight[Categories[i]] ELSE 0])
<1> DEFINE hit == {c \in CategorySet : category_scores[c] < 1000}
           most(c) == IF c \in hit THEN 1000 * Weight[c] ELSE 0
           list == [i \in DOMAIN Categories |->
                      IF Categories[i] \in hit THEN 1000 * Weight[Categories[i]] ELSE 0]
           sh == most("security_headers")
           tls == most("tls")
           csp == most("csp")
           sec == most("secrets")
<1>1. \A c \in CategorySet : category_scores[c] \in 0 .. 1000
  <2>1. Ended(pc) = CategorySet
    BY DEF Ended
  <2>2. \A c \in CategorySet : Explained(c)
    BY <2>1 DEF ScoreInv
  <2> QED
    BY <2>2 DEF Explained
<1>2. \A c \in CategorySet : Weight[c] \in 4 .. 6
  BY CategoriesAre DEF Weight
<1>3. ASSUME NEW c \in CategorySet PROVE Lost(c) \in Nat /\ most(c) \in Nat /\ Lost(c) <= most(c)
  <2>1. category_scores[c] \in 0 .. 1000 /\ Weight[c] \in 4 .. 6
    BY <1>1, <1>2
  <2>2. category_scores[c] < 1000 <=> c \in hit
    OBVIOUS
  <2> DEFINE x == category_scores[c]
             w == Weight[c]
  <2>3. Lost(c) = (1000 - x) * w
    BY DEF Lost
  <2>4. x \in 0 .. 1000 /\ (w = 4 \/ w = 5 \/ w = 6)
    BY <2>1
  <2>5. most(c) = IF x < 1000 THEN 1000 * w ELSE 0
    BY <2>2
  <2> HIDE DEF x, w, hit, most
  <2> QED
    BY <2>3, <2>4, <2>5
<1>4. list = <<sh, tls, csp, sec>>
  <2> HIDE DEF hit
  <2> QED
    BY CategoriesAre
<1> HIDE DEF list, hit, most
<1>5. /\ Lost("security_headers") \in Nat /\ Lost("tls") \in Nat
      /\ Lost("csp") \in Nat /\ Lost("secrets") \in Nat
      /\ sh \in Nat /\ tls \in Nat /\ csp \in Nat /\ sec \in Nat
      /\ Lost("security_headers") <= sh /\ Lost("tls") <= tls
      /\ Lost("csp") <= csp /\ Lost("secrets") <= sec
  BY <1>3, CategoriesAre
<1>6. sh <= 6000 /\ tls <= 5000 /\ csp <= 5000 /\ sec <= 4000
  BY DEF most, Weight
<1> HIDE DEF sh, tls, csp, sec
<1>7. Overall = 20000 - Lost("security_headers") - Lost("tls") - Lost("csp") - Lost("secrets")
  BY DEF Overall
<1>8. result.overall = IF Overall < 0 THEN 0 ELSE Overall
  BY DEF ScoreInv
<1>9. Total(list) = sh + tls + csp + sec
  BY <1>4, <1>5, TotalOfFour
<1>10. 20000 - result.overall \in 0 .. Total(list)
  BY <1>5, <1>6, <1>7, <1>8, <1>9
<1> QED
  BY <1>10 DEF list, hit

(* For any results in any number: every category lost what its own factors  *)
(* say and nothing else, down to zero; the headers lost at least that; and  *)
(* the overall score lost of no category more than its weight.              *)
THEOREM ScoreExplained == Spec => []FactorsExplainScore
<1>1. ScoreInv => FactorsExplainScore
  <2> SUFFICES ASSUME ScoreInv, pc = "done" PROVE FactorsExplainScore
    BY DEF FactorsExplainScore
  <2>1. Ended(pc) = CategorySet
    BY DEF Ended
  <2>2. DOMAIN category_scores = CategorySet /\ \A c \in CategorySet : Explained(c)
    BY <2>1 DEF ScoreInv
  <2>3. \A c \in CategorySet :
          LET explained == Capped(10000 - Blamed(c)) IN
          IF c = "security_headers" THEN 10 * category_scores[c] <= explained + 5
                                    ELSE 10 * category_scores[c] = explained
    BY <2>2 DEF Explained
  <2> QED
    BY <2>2, <2>3, OverallInRange DEF FactorsExplainScore
<1> QED
  BY <1>1, ScoreInit, ScoreStep, PTL DEF Spec
=============================================================================
