----------------------------- MODULE StageModules -----------------------------
(***************************************************************************)
(* The modules the stages run (src/reconforgex/modules/*.py), one object    *)
(* used for run after run.  All have the run() of one pattern: reset, fetch *)
(* a batch, and take the responses one by one into results; a parser may    *)
(* raise, an awaited batch may be cancelled, the shared client may be       *)
(* cancelled between two batches.  What a class does with a response is the *)
(* operator of its name.                                                    *)
(*                                                                         *)
(* A response is its status code, 0 if there was none, and what its body is *)
(* to the class: "plain" has something to find, "parent" refers to further  *)
(* documents, "empty" has nothing, and "malformed" holds a URL that urljoin *)
(* or urlparse answers with a ValueError.  A class without requests takes   *)
(* its inputs in their place: a host and port, or the text of a script.     *)
(***************************************************************************)
EXTENDS Integers, FiniteSets, Sums

CONSTANTS Classes,   \* the classes of modules considered
          Urls,      \* length of the first batch
          Subs,      \* how many documents a parent refers to
          MaxRuns    \* bound: runs of one module object

AllClasses ==
  {"HTTPFingerprinting", "HeaderAnalyzer", "SecurityHeaderScanner", "CSPAnalyzer",
   "RobotsParser", "SitemapParser", "JSCollector", "InterestingFilesFinder",
   "HTTPResponseAnalyzer", "TLSInspector", "JSEndpointExtractor", "JSSecretDetector"}

ASSUME ClassesAssumption == Classes \subseteq AllClasses
ASSUME LengthsAssumption == Urls \in Nat \ {0} /\ Subs \in Nat \ {0}
ASSUME RunsAssumption == MaxRuns \in Nat

NoAnswer == [code |-> 0, body |-> "empty"]

Responses ==
  {NoAnswer} \cup [code : {200, 404, 500},
                   body : {"plain", "parent", "empty", "malformed"}]

VARIABLES
  class,              \* the class of the module object
  pc,                 \* idle, first, loop, second, returned, aborted
  inputs,             \* the responses, or what run() was given
  next,               \* which of them comes next
  doomed,             \* the awaited batch began on a cancelled client
  client_cancelled,   \* _cancelled of the shared client
  results, errors,    \* results, and stats.errors
  items_found, items_processed, status,   \* the rest of stats
  batches,            \* batch_get calls of this run
  runs

stats == <<results, errors, items_found, items_processed, status>>
vars == <<class, pc, inputs, next, doomed, client_cancelled, stats, batches, runs>>

-----------------------------------------------------------------------------
(* What a class does with one response: nothing, a result with so many      *)
(* items, one more batch before the result, or an exception.                *)
Skip == [then |-> "skip", items |-> 0]
Keep(n) == [then |-> "keep", items |-> n]
More(n) == [then |-> "more", items |-> n]
Raise == [then |-> "raise", items |-> 0]

Something(r) == IF r.body = "empty" THEN 0 ELSE 1

OnePerPage(r) == IF r.code = 0 THEN Skip ELSE Keep(1)

HTTPFingerprinting(r) == OnePerPage(r)
HeaderAnalyzer(r) == OnePerPage(r)
SecurityHeaderScanner(r) == OnePerPage(r)

(* A page without a policy is a result too. *)
CSPAnalyzer(r) == OnePerPage(r)

(* A missing robots.txt is a result that says so; the items are paths.      *)
RobotsParser(r) ==
  IF r.code = 0 THEN Skip
  ELSE IF r.code = 404 THEN Keep(0) ELSE Keep(Something(r))

(* Sitemaps of an index are fetched before the paths are extracted.         *)
SitemapParser(r) ==
  IF r.code \in {0, 404} THEN Skip
  ELSE IF r.body = "parent" THEN More(0)
  ELSE IF r.body = "malformed" THEN Raise ELSE Keep(Something(r))

(* Scripts in the page, then those it loads; a bad src raises before.       *)
JSCollector(r) ==
  IF r.code = 0 THEN Skip
  ELSE IF r.body = "parent" THEN More(1)
  ELSE IF r.body = "malformed" THEN Raise ELSE Keep(Something(r))

(* Every base URL has a batch and a result. *)
InterestingFilesFinder(r) == More(0)

(* One result for all responses, appended after the loop. *)
HTTPResponseAnalyzer(r) == Skip

(* A host that cannot be inspected is a result with an error. *)
TLSInspector(r) == Keep(1)

JSEndpointExtractor(r) == Keep(Something(r))

JSSecretDetector(r) == IF Something(r) = 0 THEN Skip ELSE Keep(1)

Handle(r) ==
  [HTTPFingerprinting |-> HTTPFingerprinting(r), HeaderAnalyzer |-> HeaderAnalyzer(r),
   SecurityHeaderScanner |-> SecurityHeaderScanner(r), CSPAnalyzer |-> CSPAnalyzer(r),
   RobotsParser |-> RobotsParser(r), SitemapParser |-> SitemapParser(r),
   JSCollector |-> JSCollector(r), InterestingFilesFinder |-> InterestingFilesFinder(r),
   HTTPResponseAnalyzer |-> HTTPResponseAnalyzer(r), TLSInspector |-> TLSInspector(r),
   JSEndpointExtractor |-> JSEndpointExtractor(r), JSSecretDetector |-> JSSecretDetector(r)]
  [class]

(* What a response of the second batch adds to the result. *)
SubItems(r) ==
  IF class = "InterestingFilesFinder"
  THEN IF r.code \notin {0, 404} /\ r.code < 500 THEN 1 ELSE 0
  ELSE IF r.code # 200 THEN 0
  ELSE IF class = "JSCollector" THEN 1
  ELSE IF r.body = "parent" THEN 0 ELSE Something(r)

(* URLs of sub-sitemaps are parsed for their paths; scripts are not.        *)
SubRaises(r) == class = "SitemapParser" /\ r.code = 200 /\ r.body = "malformed"

FetchesFirst ==
  class \notin {"InterestingFilesFinder", "TLSInspector",
                "JSEndpointExtractor", "JSSecretDetector"}

-----------------------------------------------------------------------------
Init ==
  /\ class \in Classes
  /\ pc = "idle" /\ inputs = <<>> /\ next = 1
  /\ doomed = FALSE /\ client_cancelled = FALSE
  /\ results = <<>> /\ errors = 0
  /\ items_found = 0 /\ items_processed = 0 /\ status = "IDLE"
  /\ batches = 0 /\ runs = 0

(* Mutants: one of the fields is not reset. *)
MutResetKeepsFound ==
  /\ results' = <<>> /\ errors' = 0
  /\ UNCHANGED items_found
  /\ items_processed' = 0 /\ status' = "RUNNING"

MutResetKeepsResults ==
  /\ UNCHANGED <<results, items_found>>
  /\ errors' = 0
  /\ items_processed' = 0 /\ status' = "RUNNING"

(* reset(), and RUNNING. *)
Reset ==
  /\ results' = <<>> /\ errors' = 0
  /\ items_found' = 0
  /\ items_processed' = 0 /\ status' = "RUNNING"

(* run() up to its first await, or to its loop. *)
Start ==
  /\ pc \in {"idle", "returned", "aborted"} /\ runs < MaxRuns
  /\ runs' = runs + 1
  /\ Reset
  /\ next' = 1
  /\ IF FetchesFirst
     THEN pc' = "first" /\ inputs' = <<>> /\ batches' = 1
     ELSE pc' = "loop" /\ inputs' \in [1 .. Urls -> Responses] /\ batches' = 0
  /\ doomed' = client_cancelled
  /\ UNCHANGED <<class, client_cancelled>>

(* batch_get: a response for every URL, and none of them an answer if the   *)
(* client had been cancelled before. *)
Answers(n) == IF doomed THEN {[j \in 1 .. n |-> NoAnswer]} ELSE [1 .. n -> Responses]

Gathered ==
  /\ pc = "first"
  /\ pc' = "loop"
  /\ inputs' \in Answers(Urls)
  /\ UNCHANGED <<class, next, doomed, client_cancelled, stats, batches, runs>>

(* results.append and items_found. *)
Append1(n) ==
  /\ results' = Append(results, [at |-> next, run |-> runs, items |-> n])
  /\ items_found' = items_found + n
  /\ next' = next + 1
  /\ UNCHANGED <<errors, items_processed, status>>

(* Mutant: the exception is not recorded. *)
MutCaughtSilently ==
  /\ pc' = "returned"
  /\ status' = "COMPLETED" /\ items_processed' = Len(results)
  /\ UNCHANGED <<next, results, errors, items_found>>

(* except Exception, finally, return: what is left of the batch is dropped. *)
Caught ==
  /\ pc' = "returned"
  /\ errors' = errors + 1
  /\ status' = "COMPLETED" /\ items_processed' = Len(results)
  /\ UNCHANGED <<next, results, items_found>>

(* One iteration of the loop, up to its await if it has one. *)
Iterate ==
  /\ pc = "loop" /\ next <= Len(inputs)
  /\ LET h == Handle(inputs[next]) IN
       \/ h.then = "skip" /\ next' = next + 1 /\ UNCHANGED <<pc, batches, doomed, stats>>
       \/ h.then = "keep" /\ Append1(h.items) /\ UNCHANGED <<pc, batches, doomed>>
       \/ h.then = "raise" /\ Caught /\ UNCHANGED <<batches, doomed>>
       \/ /\ h.then = "more"
          /\ pc' = "second" /\ batches' = batches + 1 /\ doomed' = client_cancelled
          /\ UNCHANGED <<next, stats>>
  /\ UNCHANGED <<class, inputs, client_cancelled, runs>>

ItemsIn(subs) == Total([j \in DOMAIN subs |-> SubItems(subs[j])])

(* Mutant: the sitemaps of a sub-sitemap are fetched in turn. *)
MutSubGatheredRecursive ==
  /\ pc = "second"
  /\ \E subs \in Answers(Subs) :
       LET own == Handle(inputs[next]).items IN
       \/ (\E j \in 1 .. Subs : SubRaises(subs[j])) /\ Caught /\ UNCHANGED batches
       \/ /\ \A j \in 1 .. Subs : ~SubRaises(subs[j])
          /\ IF \E j \in 1 .. Subs : subs[j].body = "parent"
             THEN batches' = (batches % 3) + 1 /\ UNCHANGED <<pc, next, stats>>
             ELSE Append1(own + ItemsIn(subs)) /\ pc' = "loop" /\ UNCHANGED batches
  /\ UNCHANGED <<class, inputs, doomed, client_cancelled, runs>>

(* The second batch is there: the rest of the iteration. *)
SubGathered ==
  /\ pc = "second"
  /\ \E subs \in Answers(Subs) :
       LET own == Handle(inputs[next]).items IN
       \/ (\E j \in 1 .. Subs : SubRaises(subs[j])) /\ Caught
       \/ /\ \A j \in 1 .. Subs : ~SubRaises(subs[j])
          /\ Append1(own + ItemsIn(subs))
          /\ pc' = "loop"
  /\ UNCHANGED <<class, inputs, doomed, client_cancelled, batches, runs>>

Analyzed == Cardinality({j \in DOMAIN inputs : inputs[j].code # 0})

(* After the loop; the response analyzer has its one result here.           *)
Return ==
  /\ pc = "loop" /\ next > Len(inputs)
  /\ pc' = "returned"
  /\ IF class = "HTTPResponseAnalyzer"
     THEN /\ results' = <<[at |-> 1, run |-> runs, items |-> Analyzed]>>
          /\ items_found' = items_found + Analyzed
     ELSE UNCHANGED <<results, items_found>>
  /\ status' = "COMPLETED" /\ items_processed' = Len(results')
  /\ UNCHANGED <<class, inputs, next, doomed, client_cancelled, errors, batches, runs>>

(* CancelledError at an await: no except clause, but the finally clause.    *)
Abort ==
  /\ pc \in {"first", "second"}
  /\ pc' = "aborted"
  /\ status' = "COMPLETED" /\ items_processed' = Len(results)
  /\ UNCHANGED <<class, inputs, next, doomed, client_cancelled, results, errors,
                 items_found, batches, runs>>

(* cancel() of the shared client, which a module keeps for all its runs.    *)
CancelClient ==
  /\ ~client_cancelled
  /\ client_cancelled' = TRUE
  /\ UNCHANGED <<class, pc, inputs, next, doomed, stats, batches, runs>>

Next ==
  \/ Start \/ Gathered \/ Iterate \/ SubGathered \/ Return \/ Abort \/ CancelClient

(* A coroutine that can run is run, and a batch returns (HttpClient).       *)
Fairness == WF_vars(Gathered \/ Iterate \/ SubGathered \/ Return)

Spec == Init /\ [][Next]_vars /\ Fairness

-----------------------------------------------------------------------------
(* Every variable has its type; no run asks for more than a first batch and *)
(* one for each of its responses, and no exception is counted twice.        *)
TypeOK ==
  /\ class \in Classes
  /\ pc \in {"idle", "first", "loop", "second", "returned", "aborted"}
  /\ inputs \in {<<>>} \cup [1 .. Urls -> Responses]
  /\ next \in 1 .. Urls + 1
  /\ doomed \in BOOLEAN /\ client_cancelled \in BOOLEAN
  /\ results \in Seq([at : 1 .. Urls, run : 1 .. MaxRuns, items : Nat])
  /\ errors \in 0 .. 1 /\ items_found \in Nat /\ items_processed \in 0 .. Urls
  /\ status \in {"IDLE", "RUNNING", "COMPLETED"}
  /\ batches \in 0 .. Urls + 1 /\ runs \in 0 .. MaxRuns

(* The pages that have to have a result: those that were answered, and for  *)
(* the classes that look for documents those that exist. *)
Expected(r) ==
  IF class \in {"SitemapParser"} THEN r.code \notin {0, 404}
  ELSE IF class \in {"HTTPResponseAnalyzer"} THEN FALSE
  ELSE IF class \in {"JSSecretDetector"} THEN r.body # "empty"
  ELSE class \in {"TLSInspector", "JSEndpointExtractor", "InterestingFilesFinder"}
       \/ r.code # 0

HasResult(j) == \E k \in 1 .. Len(results) : results[k].at = j

(* A run that returns without an error recorded has a result for every page *)
(* that was answered; with an error recorded, what is missing is the page   *)
(* that could not be parsed and all that came after it.                     *)
NothingLostSilently ==
  pc = "returned" =>
    \A j \in 1 .. Len(inputs) :
      Expected(inputs[j]) /\ ~HasResult(j) => errors = 1 /\ next <= j

(* Results come in the order of the URLs, one for each, and none is left    *)
(* from an earlier run of the same module object, however that run ended.   *)
ResultsInOrder ==
  /\ \A k \in 1 .. Len(results) : results[k].run = runs
  /\ \A k, l \in 1 .. Len(results) : k < l => results[k].at < results[l].at

(* The counters reported for a module are those of its results, also after  *)
(* an exception and after a cancellation in the middle of a run.            *)
CountersMatchResults ==
  /\ items_found = Total([k \in DOMAIN results |-> results[k].items])
  /\ pc \in {"returned", "aborted"} => items_processed = Len(results)

(* A run ends: sitemaps that refer to each other are not followed for ever. *)
RunReturns == status = "RUNNING" ~> status = "COMPLETED"
=============================================================================
