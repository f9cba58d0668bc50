----------------------------- MODULE ModuleProofs -----------------------------
(***************************************************************************)
(* What holds of StageModules for every set of classes, all lengths of the  *)
(* batches and every number of runs; and of RobotsParser for every file.    *)
(***************************************************************************)
EXTENDS StageModules, RobotsParser, FoldTheorems

Active == {"first", "loop", "second"}

Result == [at : 1 .. Urls, run : 1 .. MaxRuns, items : Nat]

TypeInv ==
  /\ class \in Classes
  /\ pc \in {"idle", "returned", "aborted"} \cup Active
  /\ inputs \in {<<>>} \cup [1 .. Urls -> Responses]
  /\ pc \in {"loop", "second"} => inputs \in [1 .. Urls -> Responses]
  /\ next \in 1 .. Urls + 1
  /\ pc = "first" => next = 1
  /\ pc = "second" => next <= Urls /\ class # "HTTPResponseAnalyzer"
  /\ doomed \in BOOLEAN /\ client_cancelled \in BOOLEAN
  /\ runs \in 0 .. MaxRuns
  /\ pc \in Active => runs # 0

(* The results are of this run and of pages already passed.                 *)
ResultInv ==
  /\ results \in Seq(Result)
  /\ Len(results) < next
  /\ \A k \in 1 .. Len(results) : results[k].run = runs /\ results[k].at < next
  /\ \A k, l \in 1 .. Len(results) : k < l => results[k].at < results[l].at
  /\ pc \in Active /\ class = "HTTPResponseAnalyzer" => results = <<>>

Items == [k \in DOMAIN results |-> results[k].items]

CountInv ==
  /\ items_found \in Nat /\ items_found = Total(Items)
  /\ errors \in 0 .. 1
  /\ pc \in Active => errors = 0
  /\ items_processed \in Nat
  /\ pc \in {"returned", "aborted"} => items_processed = Len(results)
  /\ pc \notin {"returned", "aborted"} => items_processed = 0
  /\ status \in {"IDLE", "RUNNING", "COMPLETED"}

(* Every page passed that has to have a result has one.                     *)
PassedInv ==
  /\ pc \in {"loop", "second", "returned"} =>
       \A j \in 1 .. Len(inputs) : j < next /\ Expected(inputs[j]) => HasResult(j)
  /\ pc = "returned" => errors = 1 \/ next > Len(inputs)

(* One batch for the run, and one for each page from which it goes on.      *)
BatchInv ==
  /\ batches \in 0 .. Urls + 1
  /\ pc \in {"first", "loop"} => batches <= next
  /\ pc = "second" => batches <= next + 1

IInv == TypeInv /\ ResultInv /\ CountInv /\ PassedInv /\ BatchInv

-----------------------------------------------------------------------------
(* What a class may do with a response: it passes over none that has to     *)
(* have a result, and only those that send no first batch or find documents *)
(* in a page ask for more.                                                  *)
LEMMA HandleCases ==
  ASSUME class \in AllClasses, NEW r \in Responses
  PROVE  /\ Handle(r).then \in {"skip", "keep", "more", "raise"}
         /\ Handle(r).items \in 0 .. 1
         /\ Handle(r).then = "skip" => ~Expected(r)
         /\ class = "HTTPResponseAnalyzer" => Handle(r).then = "skip"
<1> USE DEF Skip, Keep, More, Raise
<1>1. CASE class \in {"HTTPFingerprinting", "HeaderAnalyzer", "SecurityHeaderScanner",
                      "CSPAnalyzer"}
  <2>1. Handle(r) = OnePerPage(r)
    BY <1>1 DEF Handle, HTTPFingerprinting, HeaderAnalyzer, SecurityHeaderScanner, CSPAnalyzer
  <2> QED
    BY <1>1, <2>1 DEF OnePerPage, Expected
<1>2. CASE class = "RobotsParser"
  <2>1. Handle(r) = RobotsParser(r)
    BY <1>2 DEF Handle
  <2> QED
    BY <1>2, <2>1 DEF RobotsParser, Something, Expected
<1>3. CASE class = "SitemapParser"
  <2>1. Handle(r) = SitemapParser(r)
    BY <1>3 DEF Handle
  <2> QED
    BY <1>3, <2>1 DEF SitemapParser, Something, Expected
<1>4. CASE class = "JSCollector"
  <2>1. Handle(r) = JSCollector(r)
    BY <1>4 DEF Handle
  <2> QED
    BY <1>4, <2>1 DEF JSCollector, Something, Expected
<1>5. CASE class = "InterestingFilesFinder"
  <2>1. Handle(r) = InterestingFilesFinder(r)
    BY <1>5 DEF Handle
  <2> QED
    BY <1>5, <2>1 DEF InterestingFilesFinder
<1>6. CASE class = "HTTPResponseAnalyzer"
  <2>1. Handle(r) = HTTPResponseAnalyzer(r)
    BY <1>6 DEF Handle
  <2> QED
    BY <1>6, <2>1 DEF HTTPResponseAnalyzer, Expected
<1>7. CASE class = "TLSInspector"
  <2>1. Handle(r) = TLSInspector(r)
    BY <1>7 DEF Handle
  <2> QED
    BY <1>7, <2>1 DEF TLSInspector
<1>8. CASE class = "JSEndpointExtractor"
  <2>1. Handle(r) = JSEndpointExtractor(r)
    BY <1>8 DEF Handle
  <2> QED
    BY <1>8, <2>1 DEF JSEndpointExtractor, Something
<1>9. CASE class = "JSSecretDetector"
  <2>1. Handle(r) = JSSecretDetector(r)
    BY <1>9 DEF Handle
  <2> QED
    BY <1>9, <2>1 DEF JSSecretDetector, Something, Expected
<1> QED
  BY <1>1, <1>2, <1>3, <1>4, <1>5, <1>6, <1>7, <1>8, <1>9 DEF AllClasses

LEMMA ItemsOfSecondBatch ==
  ASSUME NEW n \in Nat, NEW subs \in [1 .. n -> Responses]
  PROVE  ItemsIn(subs) \in Nat
<1>1. \A r \in Responses : SubItems(r) \in 0 .. 1
  BY DEF SubItems, Something
<1>2. [j \in DOMAIN subs |-> SubItems(subs[j])] \in Seq(Nat)
  <2>1. \A t \in [1 .. n -> Nat] : t \in Seq(Nat)
    OBVIOUS
  <2>2. [j \in DOMAIN subs |-> SubItems(subs[j])] \in [1 .. n -> Nat]
    BY <1>1
  <2> QED
    BY <2>1, <2>2
<1> QED
  BY <1>2, TotalNat DEF ItemsIn

(* What a step does to the results: it begins a run, adds one result and    *)
(* goes on to the next page, passes over a page that need not have one,     *)
(* ends a run, or leaves them as they are.                                  *)
Begins == pc \notin Active /\ Start

Adds ==
  /\ pc \in {"loop", "second"} /\ next <= Urls
  /\ class # "HTTPResponseAnalyzer"
  /\ \E n \in Nat : Append1(n)
  /\ pc' = "loop" /\ batches' = batches
  /\ UNCHANGED <<class, inputs, client_cancelled, doomed, runs>>

Passes ==
  /\ pc = "loop" /\ next <= Urls
  /\ ~Expected(inputs[next])
  /\ next' = next + 1
  /\ UNCHANGED <<class, pc, inputs, doomed, client_cancelled, stats, batches, runs>>

Waits ==
  /\ pc = "loop" /\ next <= Urls /\ class # "HTTPResponseAnalyzer"
  /\ pc' = "second" /\ batches' = batches + 1 /\ doomed' = client_cancelled
  /\ UNCHANGED <<class, inputs, next, client_cancelled, stats, runs>>

Catches ==
  /\ pc \in {"loop", "second"} /\ next <= Urls
  /\ Caught
  /\ UNCHANGED <<class, inputs, doomed, client_cancelled, batches, runs>>

LEMMA Steps ==
  ASSUME IInv, [Next]_vars
  PROVE  Begins \/ Gathered \/ Adds \/ Passes \/ Waits \/ Catches \/ Return \/ Abort
           \/ (CancelClient \/ UNCHANGED vars)
<1>1. CASE Start
  BY <1>1 DEF Start, Begins, Active
<1>2. CASE Iterate
  <2>1. pc = "loop" /\ next <= Urls /\ inputs[next] \in Responses /\ class \in AllClasses
    <3>1. pc = "loop" /\ next <= Len(inputs)
      BY <1>2 DEF Iterate
    <3>2. inputs \in [1 .. Urls -> Responses] /\ next \in 1 .. Urls + 1
      BY <3>1 DEF IInv, TypeInv
    <3>3. Len(inputs) = Urls
      BY <3>2, LengthsAssumption
    <3> QED
      BY <3>1, <3>2, <3>3, LengthsAssumption, ClassesAssumption DEF IInv, TypeInv
  <2> DEFINE h == Handle(inputs[next])
  <2>2. h.items \in Nat /\ (h.then = "skip" => ~Expected(inputs[next]))
          /\ (class = "HTTPResponseAnalyzer" => h.then = "skip")
    BY <2>1, HandleCases
  <2>3. CASE h.then = "skip"
    <3>1. next' = next + 1 /\ UNCHANGED <<pc, batches, doomed, stats>>
            /\ UNCHANGED <<class, inputs, client_cancelled, runs>>
      BY <1>2, <2>3 DEF Iterate
    <3> QED
      BY <2>1, <2>2, <2>3, <3>1 DEF Passes
  <2>4. CASE h.then = "keep"
    <3>1. Append1(h.items) /\ UNCHANGED <<pc, batches, doomed>>
            /\ UNCHANGED <<class, inputs, client_cancelled, runs>>
      BY <1>2, <2>4 DEF Iterate
    <3> HIDE DEF h
    <3> QED
      BY <2>1, <2>2, <2>4, <3>1 DEF Adds
  <2>5. CASE h.then = "raise"
    <3>1. Caught /\ UNCHANGED <<batches, doomed>>
            /\ UNCHANGED <<class, inputs, client_cancelled, runs>>
      BY <1>2, <2>5 DEF Iterate
    <3> QED
      BY <2>1, <3>1 DEF Catches
  <2>6. CASE h.then = "more"
    <3>1. pc' = "second" /\ batches' = batches + 1 /\ doomed' = client_cancelled
            /\ UNCHANGED <<next, stats>> /\ UNCHANGED <<class, inputs, client_cancelled, runs>>
      BY <1>2, <2>6 DEF Iterate
    <3> QED
      BY <2>1, <2>2, <2>6, <3>1 DEF Waits
  <2> QED
    BY <1>2, <2>3, <2>4, <2>5, <2>6 DEF Iterate
<1>3. CASE SubGathered
  <2>1. pc = "second" /\ next <= Urls /\ inputs[next] \in Responses /\ class \in AllClasses
    BY <1>3, ClassesAssumption, LengthsAssumption DEF SubGathered, IInv, TypeInv
  <2>2. UNCHANGED <<class, inputs, doomed, client_cancelled, batches, runs>>
    BY <1>3 DEF SubGathered
  <2>3. PICK subs \in Answers(Subs) :
          \/ Caught
          \/ Append1(Handle(inputs[next]).items + ItemsIn(subs)) /\ pc' = "loop"
    BY <1>3 DEF SubGathered
  <2>4. CASE Caught
    BY <2>1, <2>2, <2>4 DEF Catches
  <2>5. CASE Append1(Handle(inputs[next]).items + ItemsIn(subs)) /\ pc' = "loop"
    <3>1. subs \in [1 .. Subs -> Responses]
      BY <2>3 DEF Answers, Responses
    <3>2. ItemsIn(subs) \in Nat /\ Handle(inputs[next]).items \in Nat
      BY <2>1, <3>1, HandleCases, ItemsOfSecondBatch, LengthsAssumption
    <3>3. class # "HTTPResponseAnalyzer"
      BY <2>1 DEF IInv, TypeInv
    <3> QED
      BY <2>1, <2>2, <2>5, <3>2, <3>3 DEF Adds
  <2> QED
    BY <2>3, <2>4, <2>5
<1> QED
  BY <1>1, <1>2, <1>3 DEF Next

LEMMA InvInit == Init => IInv
<1> SUFFICES ASSUME Init PROVE IInv
  OBVIOUS
<1>1. pc = "idle" /\ inputs = <<>> /\ next = 1 /\ results = <<>>
  BY DEF Init
<1>2. TypeInv
  <2>1. /\ class \in Classes /\ doomed = FALSE /\ client_cancelled = FALSE /\ runs = 0
    BY DEF Init
  <2>2. runs \in 0 .. MaxRuns /\ next \in 1 .. Urls + 1
    BY <1>1, <2>1, LengthsAssumption, RunsAssumption
  <2> QED
    BY <1>1, <2>1, <2>2 DEF TypeInv, Active
<1>3. ResultInv
  <2>1. <<>> \in Seq(Result) /\ Len(<<>>) = 0
    OBVIOUS
  <2> QED
    BY <1>1, <2>1 DEF ResultInv
<1>4. CountInv
  <2>1. Items = <<>>
    BY <1>1 DEF Items
  <2> QED
    BY <1>1, <2>1, TotalEmpty DEF Init, CountInv, Active
<1>5. PassedInv
  BY <1>1 DEF PassedInv
<1>6. BatchInv
  BY <1>1, LengthsAssumption DEF Init, BatchInv
<1> QED
  BY <1>2, <1>3, <1>4, <1>5, <1>6 DEF IInv

LEMMA TypeStep == IInv /\ [Next]_vars => TypeInv'
<1> SUFFICES ASSUME IInv, [Next]_vars PROVE TypeInv'
  OBVIOUS
<1> USE DEF TypeInv, Active
<1>1. CASE Begins
  <2>1. /\ runs \in 0 .. MaxRuns /\ runs < MaxRuns /\ runs' = runs + 1
        /\ next' = 1 /\ doomed' = client_cancelled
        /\ UNCHANGED <<class, client_cancelled>>
    BY <1>1 DEF Begins, Start, IInv
  <2>2. \/ pc' = "first" /\ inputs' = <<>>
        \/ pc' = "loop" /\ inputs' \in [1 .. Urls -> Responses]
    BY <1>1 DEF Begins, Start
  <2> QED
    BY <2>1, <2>2, LengthsAssumption, RunsAssumption DEF IInv
<1>2. CASE Gathered
  <2>1. inputs' \in [1 .. Urls -> Responses]
    BY <1>2 DEF Gathered, Answers, Responses
  <2> QED
    BY <1>2, <2>1 DEF Gathered, IInv
<1>3. CASE Adds
  BY <1>3, LengthsAssumption DEF Adds, Append1, IInv
<1>4. CASE Passes
  BY <1>4, LengthsAssumption DEF Passes, IInv
<1>5. CASE Waits
  BY <1>5 DEF Waits, IInv
<1>6. CASE Catches
  BY <1>6 DEF Catches, Caught, IInv
<1>7. CASE Return
  BY <1>7 DEF Return, IInv
<1>8. CASE Abort
  BY <1>8 DEF Abort, IInv
<1>9. CASE CancelClient \/ UNCHANGED vars
  BY <1>9 DEF CancelClient, vars, IInv
<1> QED
  BY <1>1, <1>2, <1>3, <1>4, <1>5, <1>6, <1>7, <1>8, <1>9, Steps

(* One more field of a sequence of records is one more number.              *)
LEMMA AppendIs ==
  ASSUME NEW S, NEW s \in Seq(S), NEW x \in S, NEW t,
         DOMAIN t = 1 .. Len(s) + 1, t = [k \in DOMAIN t |-> t[k]],
         \A k \in 1 .. Len(s) : t[k] = s[k], t[Len(s) + 1] = x
  PROVE  t = Append(s, x)
<1>1. Append(s, x) \in Seq(S) /\ Len(Append(s, x)) = Len(s) + 1 /\ Len(s) \in Nat
  OBVIOUS
<1>2. \A k \in 1 .. Len(s) + 1 : Append(s, x)[k] = IF k = Len(s) + 1 THEN x ELSE s[k]
  OBVIOUS
<1>3. Append(s, x) = [k \in 1 .. Len(s) + 1 |-> Append(s, x)[k]]
  <2>1. \A u \in Seq(S) : u = [k \in 1 .. Len(u) |-> u[k]]
    OBVIOUS
  <2> QED
    BY <1>1, <2>1, Zenon
<1>4. \A k \in 1 .. Len(s) + 1 : t[k] = Append(s, x)[k]
  BY <1>1, <1>2
<1>5. t = [k \in 1 .. Len(s) + 1 |-> t[k]]
  OBVIOUS
<1> QED
  BY <1>3, <1>4, <1>5

(* A result added at the page that is next.                                 *)
LEMMA AddedResult ==
  ASSUME IInv, TypeInv', Adds
  PROVE  \E n \in Nat :
           /\ results' = Append(results, [at |-> next, run |-> runs, items |-> n])
           /\ results' \in Seq(Result)
           /\ Len(results') = Len(results) + 1
           /\ \A k \in 1 .. Len(results) : results'[k] = results[k]
           /\ results'[Len(results')].at = next /\ results'[Len(results')].run = runs
           /\ Items \in Seq(Int) /\ Items' = Append(Items, n)
           /\ items_found' = items_found + n /\ next' = next + 1
<1>1. PICK n \in Nat : Append1(n)
  BY DEF Adds
<1> DEFINE r == [at |-> next, run |-> runs, items |-> n]
<1>2. r \in Result
  BY DEF Adds, IInv, TypeInv, Result, Active
<1>3. results' = Append(results, r) /\ items_found' = items_found + n /\ next' = next + 1
  BY <1>1 DEF Append1
<1>4. results \in Seq(Result)
  BY DEF IInv, ResultInv
<1>5. /\ r.at = next /\ r.run = runs /\ r.items = n
  OBVIOUS
<1> HIDE DEF r
<1>6. /\ results' \in Seq(Result) /\ Len(results') = Len(results) + 1
      /\ \A k \in 1 .. Len(results) : results'[k] = results[k]
      /\ results'[Len(results')] = r
  BY <1>2, <1>3, <1>4
<1>7. Items \in Seq(Int)
  <2>1. DOMAIN results = 1 .. Len(results) /\ Len(results) \in Nat
    BY <1>4
  <2>2. \A k \in 1 .. Len(results) : results[k] \in Result
    BY <1>4
  <2>3. \A k \in 1 .. Len(results) : results[k].items \in Int
    BY <2>2 DEF Result
  <2>4. Items \in [1 .. Len(results) -> Int]
    BY <2>1, <2>3 DEF Items
  <2> QED
    BY <2>1, <2>4
<1>8. Items' = Append(Items, n)
  <2>1. DOMAIN results' = 1 .. Len(results) + 1 /\ DOMAIN results = 1 .. Len(results)
          /\ Len(results) \in Nat
    BY <1>4, <1>6
  <2>2. DOMAIN Items = 1 .. Len(results) /\ Len(Items) = Len(results)
    BY <1>7, <2>1 DEF Items
  <2>3. Items' = [k \in 1 .. Len(results) + 1 |-> results'[k].items]
    BY <2>1 DEF Items
  <2>4. \A k \in 1 .. Len(results) : results'[k].items = Items[k]
    BY <1>6, <2>1 DEF Items
  <2>5. results'[Len(results) + 1].items = n
    BY <1>5, <1>6
  <2> DEFINE t == [k \in 1 .. Len(results) + 1 |-> results'[k].items]
  <2>6. /\ DOMAIN t = 1 .. Len(Items) + 1 /\ t = [k \in DOMAIN t |-> t[k]]
        /\ \A k \in 1 .. Len(Items) : t[k] = Items[k]
        /\ t[Len(Items) + 1] = n
    BY <2>1, <2>2, <2>4, <2>5
  <2>7. n \in Int
    OBVIOUS
  <2> HIDE DEF t
  <2>8. t = Append(Items, n)
    BY <1>7, <2>6, <2>7, AppendIs
  <2> QED
    BY <2>3, <2>8 DEF t
<1> QED
  BY <1>3, <1>5, <1>6, <1>7, <1>8 DEF r

LEMMA AnalyzedType ==
  ASSUME NEW n \in Nat, inputs \in [1 .. n -> Responses]
  PROVE  Analyzed \in Nat
<1>1. IsFiniteSet(1 .. n)
  BY FS_Interval
<1>2. {j \in DOMAIN inputs : inputs[j].code # 0} \in SUBSET (1 .. n)
  OBVIOUS
<1>3. IsFiniteSet({j \in DOMAIN inputs : inputs[j].code # 0})
  BY <1>1, <1>2, FS_Subset
<1> QED
  BY <1>3, FS_CardinalityType DEF Analyzed

(* What the response analyzer adds when it returns.                         *)
LEMMA OneResult ==
  ASSUME IInv, Return, class = "HTTPResponseAnalyzer"
  PROVE  /\ Analyzed \in Nat
         /\ results' = <<[at |-> 1, run |-> runs, items |-> Analyzed]>>
         /\ items_found' = items_found + Analyzed
         /\ results = <<>>
         /\ [at |-> 1, run |-> runs, items |-> Analyzed] \in Result
         /\ 1 < next /\ Len(inputs) = Urls
<1>1. pc = "loop" /\ next > Len(inputs) /\ inputs \in [1 .. Urls -> Responses]
  BY DEF Return, IInv, TypeInv
<1>2. Len(inputs) = Urls /\ next \in Nat
  BY <1>1, LengthsAssumption DEF IInv, TypeInv
<1>3. Analyzed \in Nat
  BY <1>1, AnalyzedType, LengthsAssumption
<1>4. results = <<>>
  BY <1>1 DEF IInv, ResultInv, Active
<1>5. runs \in 1 .. MaxRuns
  BY <1>1, RunsAssumption DEF IInv, TypeInv, Active
<1> QED
  BY <1>1, <1>2, <1>3, <1>4, <1>5, LengthsAssumption DEF Return, Result

LEMMA ResultStep == IInv /\ [Next]_vars => ResultInv'
<1> SUFFICES ASSUME IInv, [Next]_vars PROVE ResultInv'
  OBVIOUS
<1>1. TypeInv'
  BY TypeStep
<1>2. next \in Nat /\ ResultInv
  BY DEF IInv, TypeInv
<1>3. CASE Begins
  <2>1. results' = <<>> /\ next' = 1
    BY <1>3 DEF Begins, Start, Reset
  <2>2. <<>> \in Seq(Result) /\ Len(<<>>) = 0
    OBVIOUS
  <2> QED
    BY <2>1, <2>2 DEF ResultInv
<1>4. CASE Gathered
  BY <1>2, <1>4 DEF Gathered, stats, ResultInv, Active
<1>5. CASE Adds
  <2>1. PICK n \in Nat :
           /\ results' \in Seq(Result)
           /\ Len(results') = Len(results) + 1
           /\ \A k \in 1 .. Len(results) : results'[k] = results[k]
           /\ results'[Len(results')].at = next /\ results'[Len(results')].run = runs
           /\ next' = next + 1
    BY <1>1, <1>5, AddedResult
  <2>2. Len(results) \in Nat /\ runs' = runs /\ class # "HTTPResponseAnalyzer" /\ class' = class
    BY <1>2, <1>5 DEF ResultInv, Adds
  <2>3. \A k \in 1 .. Len(results) : results[k].at \in Nat
    <3>1. \A k \in 1 .. Len(results) : results[k] \in Result
      BY <1>2 DEF ResultInv
    <3> QED
      BY <3>1 DEF Result
  <2>4. Len(results') < next'
    BY <1>2, <2>1, <2>2 DEF ResultInv
  <2>5. ASSUME NEW k \in 1 .. Len(results')
        PROVE  results'[k].run = runs' /\ results'[k].at < next'
    <3>1. CASE k = Len(results')
      BY <1>2, <2>1, <2>2, <3>1
    <3>2. CASE k \in 1 .. Len(results)
      BY <1>2, <2>1, <2>2, <2>3, <3>2 DEF ResultInv
    <3> QED
      BY <2>1, <2>2, <3>1, <3>2
  <2>6. ASSUME NEW k \in 1 .. Len(results'), NEW l \in 1 .. Len(results'), k < l
        PROVE  results'[k].at < results'[l].at
    <3>1. k \in 1 .. Len(results) /\ results'[k].at = results[k].at
      BY <2>1, <2>2, <2>6
    <3>2. CASE l = Len(results')
      BY <1>2, <2>1, <3>1, <3>2 DEF ResultInv
    <3>3. CASE l \in 1 .. Len(results)
      BY <1>2, <2>1, <2>6, <3>1, <3>3 DEF ResultInv
    <3> QED
      BY <2>1, <2>2, <3>2, <3>3
  <2> QED
    BY <2>1, <2>2, <2>4, <2>5, <2>6 DEF ResultInv
<1>6. CASE Passes
  <2>1. next' = next + 1 /\ UNCHANGED <<results, runs, pc, class>>
    BY <1>6 DEF Passes, stats
  <2>2. \A k \in 1 .. Len(results) : results[k].at \in Nat
    <3>1. \A k \in 1 .. Len(results) : results[k] \in Result
      BY <1>2 DEF ResultInv
    <3> QED
      BY <3>1 DEF Result
  <2>3. Len(results) \in Nat
    BY <1>2 DEF ResultInv
  <2> QED
    BY <1>2, <2>1, <2>2, <2>3 DEF ResultInv
<1>7. CASE Waits
  BY <1>2, <1>7 DEF Waits, stats, ResultInv
<1>8. CASE Catches
  BY <1>2, <1>8 DEF Catches, Caught, ResultInv, Active
<1>9. CASE Return
  <2>1. CASE class = "HTTPResponseAnalyzer"
    <3> DEFINE r == [at |-> 1, run |-> runs, items |-> Analyzed]
    <3>1. results' = <<r>> /\ r \in Result /\ 1 < next /\ r.at = 1 /\ r.run = runs
      BY <1>9, <2>1, OneResult
    <3>2. pc' = "returned" /\ next' = next /\ runs' = runs
      BY <1>9 DEF Return
    <3> HIDE DEF r
    <3>3. <<r>> \in Seq(Result) /\ Len(<<r>>) = 1 /\ <<r>>[1] = r
      BY <3>1
    <3> QED
      BY <1>2, <3>1, <3>2, <3>3 DEF ResultInv, Active
  <2>2. CASE class # "HTTPResponseAnalyzer"
    BY <1>2, <1>9, <2>2 DEF Return, ResultInv
  <2> QED
    BY <2>1, <2>2
<1>10. CASE Abort
  BY <1>2, <1>10 DEF Abort, ResultInv, Active
<1>11. CASE CancelClient \/ UNCHANGED vars
  BY <1>2, <1>11 DEF CancelClient, vars, stats, ResultInv
<1> QED
  BY <1>3, <1>4, <1>5, <1>6, <1>7, <1>8, <1>9, <1>10, <1>11, Steps

LEMMA CountStep == IInv /\ [Next]_vars => CountInv'
<1> SUFFICES ASSUME IInv, [Next]_vars PROVE CountInv'
  OBVIOUS
<1>1. TypeInv' /\ TypeInv /\ CountInv /\ ResultInv
  BY TypeStep DEF IInv
<1>2. UNCHANGED results => Items' = Items
  BY DEF Items
<1>3. CASE Begins
  <2>1. /\ results' = <<>> /\ items_found' = 0 /\ errors' = 0 /\ items_processed' = 0
        /\ status' = "RUNNING" /\ pc' \in {"first", "loop"}
    BY <1>3 DEF Begins, Start, Reset
  <2>2. Items' = <<>>
    BY <2>1 DEF Items
  <2> QED
    BY <2>1, <2>2, TotalEmpty DEF CountInv, Active
<1>4. CASE Gathered
  BY <1>1, <1>2, <1>4 DEF Gathered, stats, CountInv, Active
<1>5. CASE Adds
  <2>1. PICK n \in Nat : Items \in Seq(Int) /\ Items' = Append(Items, n)
                          /\ items_found' = items_found + n
    BY <1>1, <1>5, AddedResult
  <2>2. Total(Items') = Total(Items) + n
    BY <2>1, TotalAppend
  <2>3. pc \in {"loop", "second"} /\ pc' = "loop" /\ UNCHANGED <<errors, items_processed, status>>
    BY <1>5 DEF Adds, Append1
  <2> QED
    BY <1>1, <2>1, <2>2, <2>3 DEF CountInv, Active
<1>6. CASE Passes
  BY <1>1, <1>2, <1>6 DEF Passes, stats, CountInv
<1>7. CASE Waits
  BY <1>1, <1>2, <1>7 DEF Waits, stats, CountInv, Active
<1>8. CASE Catches
  <2>1. Len(results) \in Nat
    BY <1>1 DEF ResultInv
  <2> QED
    BY <1>1, <1>2, <1>8, <2>1 DEF Catches, Caught, CountInv, Active
<1>9. CASE Return
  <2>1. pc = "loop" /\ pc' = "returned" /\ status' = "COMPLETED" /\ UNCHANGED errors
          /\ items_processed' = Len(results')
    BY <1>9 DEF Return
  <2>2. CASE class = "HTTPResponseAnalyzer"
    <3> DEFINE r == [at |-> 1, run |-> runs, items |-> Analyzed]
    <3>1. results' = <<r>> /\ Analyzed \in Nat /\ items_found' = items_found + Analyzed
            /\ results = <<>> /\ r.items = Analyzed
      BY <1>9, <2>2, OneResult DEF IInv
    <3> HIDE DEF r
    <3>2. Len(<<r>>) = 1 /\ DOMAIN <<r>> = 1 .. 1 /\ <<r>>[1] = r
      OBVIOUS
    <3>3. items_found = 0
      <4>1. Items = <<>>
        BY <3>1 DEF Items
      <4> QED
        BY <1>1, <4>1, TotalEmpty DEF CountInv
    <3>4. Items' = Append(<<>>, Analyzed)
      <4> DEFINE t == [k \in 1 .. 1 |-> <<r>>[k].items]
      <4>1. /\ DOMAIN t = 1 .. Len(<<>>) + 1 /\ t = [k \in DOMAIN t |-> t[k]]
            /\ \A k \in 1 .. Len(<<>>) : t[k] = <<>>[k]
            /\ t[Len(<<>>) + 1] = Analyzed
        BY <3>1, <3>2
      <4>2. <<>> \in Seq(Int) /\ Analyzed \in Int
        BY <3>1
      <4>3. Items' = t
        BY <3>1, <3>2 DEF Items
      <4> HIDE DEF t
      <4>4. t = Append(<<>>, Analyzed)
        BY <4>1, <4>2, AppendIs
      <4> QED
        BY <4>3, <4>4
    <3>5. Total(Items') = Analyzed
      <4>1. <<>> \in Seq(Int) /\ Analyzed \in Int
        BY <3>1
      <4>2. Total(Append(<<>>, Analyzed)) = Total(<<>>) + Analyzed
        BY <4>1, TotalAppend
      <4> QED
        BY <3>1, <3>4, <4>2, TotalEmpty
    <3>6. Len(results') = 1
      BY <3>1, <3>2
    <3> QED
      BY <1>1, <2>1, <3>1, <3>3, <3>5, <3>6 DEF CountInv, Active
  <2>3. CASE class # "HTTPResponseAnalyzer"
    <3>1. UNCHANGED <<results, items_found>>
      BY <1>9, <2>3 DEF Return
    <3>2. Len(results) \in Nat
      BY <1>1 DEF ResultInv
    <3> QED
      BY <1>1, <1>2, <2>1, <3>1, <3>2 DEF CountInv, Active
  <2> QED
    BY <2>2, <2>3
<1>10. CASE Abort
  <2>1. Len(results) \in Nat
    BY <1>1 DEF ResultInv
  <2> QED
    BY <1>1, <1>2, <1>10, <2>1 DEF Abort, CountInv, Active
<1>11. CASE CancelClient \/ UNCHANGED vars
  BY <1>1, <1>2, <1>11 DEF CancelClient, vars, stats, CountInv
<1> QED
  BY <1>3, <1>4, <1>5, <1>6, <1>7, <1>8, <1>9, <1>10, <1>11, Steps

LEMMA PassedStep == IInv /\ [Next]_vars => PassedInv'
<1> SUFFICES ASSUME IInv, [Next]_vars PROVE PassedInv'
  OBVIOUS
<1>1. TypeInv' /\ TypeInv /\ PassedInv /\ ResultInv
  BY TypeStep DEF IInv
<1>2. \A f \in [1 .. Urls -> Responses] : Len(f) = Urls
  BY LengthsAssumption
<1>3. ASSUME UNCHANGED <<class, inputs, results, next>>, pc \in {"loop", "second"},
             pc' = "returned" => errors' = 1 \/ next > Len(inputs)
      PROVE  PassedInv'
  BY <1>1, <1>3 DEF PassedInv, Expected, HasResult
<1>4. ASSUME pc' = "loop", next' = 1
      PROVE  PassedInv'
  <2>1. inputs' \in [1 .. Urls -> Responses]
    BY <1>1, <1>4 DEF TypeInv
  <2>2. Len(inputs') = Urls
    BY <1>2, <2>1
  <2> QED
    BY <1>4, <2>2, LengthsAssumption DEF PassedInv
<1>5. CASE Begins
  <2>1. pc' \in {"first", "loop"} /\ next' = 1
    BY <1>5 DEF Begins, Start
  <2>2. CASE pc' = "first"
    BY <2>2 DEF PassedInv
  <2> QED
    BY <1>4, <2>1, <2>2
<1>6. CASE Gathered
  BY <1>1, <1>4, <1>6 DEF Gathered, TypeInv
<1>7. CASE Adds
  <2>1. PICK n \in Nat :
           /\ results' \in Seq(Result)
           /\ Len(results') = Len(results) + 1
           /\ \A k \in 1 .. Len(results) : results'[k] = results[k]
           /\ results'[Len(results')].at = next
           /\ next' = next + 1
    BY <1>1, <1>7, AddedResult
  <2>2. /\ UNCHANGED <<class, inputs>> /\ pc \in {"loop", "second"} /\ pc' = "loop"
        /\ Len(results) \in Nat /\ next \in Nat
    BY <1>1, <1>7 DEF Adds, ResultInv, TypeInv
  <2>3. Len(inputs) = Urls
    BY <1>1, <1>2, <2>2 DEF TypeInv
  <2>4. ASSUME NEW j \in 1 .. Len(inputs), j < next + 1, Expected(inputs[j])
        PROVE  HasResult(j)'
    <3>1. CASE j = next
      <4>1. Len(results') \in 1 .. Len(results')
        BY <2>1, <2>2
      <4> QED
        BY <2>1, <3>1, <4>1 DEF HasResult
    <3>2. CASE j < next
      <4>1. PICK k \in 1 .. Len(results) : results[k].at = j
        BY <1>1, <2>2, <2>4, <3>2 DEF PassedInv, HasResult
      <4>2. k \in 1 .. Len(results') /\ results'[k].at = j
        BY <2>1, <2>2, <4>1
      <4> QED
        BY <4>2 DEF HasResult
    <3> QED
      BY <2>2, <2>3, <2>4, <3>1, <3>2, LengthsAssumption
  <2>5. \A j \in 1 .. Len(inputs) : Expected(inputs[j])' <=> Expected(inputs[j])
    BY <2>2 DEF Expected
  <2> QED
    BY <2>1, <2>2, <2>4, <2>5 DEF PassedInv
<1>8. CASE Passes
  <2>1. /\ UNCHANGED <<class, inputs, results>> /\ pc = "loop" /\ pc' = "loop"
        /\ next' = next + 1 /\ next \in Nat /\ ~Expected(inputs[next])
    BY <1>1, <1>8 DEF Passes, stats, TypeInv
  <2>2. Len(inputs) = Urls
    BY <1>1, <1>2, <2>1 DEF TypeInv
  <2>3. ASSUME NEW j \in 1 .. Len(inputs), j < next + 1, Expected(inputs[j])
        PROVE  j < next
    BY <2>1, <2>2, <2>3, LengthsAssumption
  <2>4. \A j \in 1 .. Len(inputs) : (Expected(inputs[j])' <=> Expected(inputs[j]))
                                    /\ (HasResult(j)' <=> HasResult(j))
    BY <2>1 DEF Expected, HasResult
  <2> QED
    BY <1>1, <2>1, <2>3, <2>4 DEF PassedInv
<1>9. CASE Waits
  BY <1>3, <1>9 DEF Waits, stats
<1>10. CASE Catches
  <2>1. errors' = 1
    BY <1>10 DEF Catches, Caught, IInv, CountInv, Active
  <2> QED
    BY <1>3, <1>10, <2>1 DEF Catches, Caught
<1>11. CASE Return
  <2>1. pc = "loop" /\ pc' = "returned" /\ next > Len(inputs) /\ UNCHANGED <<class, inputs, next>>
    BY <1>11 DEF Return
  <2>2. CASE class = "HTTPResponseAnalyzer"
    BY <2>1, <2>2 DEF PassedInv, Expected
  <2>3. CASE class # "HTTPResponseAnalyzer"
    BY <1>3, <1>11, <2>1, <2>3 DEF Return
  <2> QED
    BY <2>2, <2>3
<1>12. CASE Abort
  BY <1>12 DEF Abort, PassedInv
<1>13. CASE CancelClient \/ UNCHANGED vars
  BY <1>1, <1>13 DEF CancelClient, vars, stats, PassedInv, Expected, HasResult
<1> QED
  BY <1>5, <1>6, <1>7, <1>8, <1>9, <1>10, <1>11, <1>12, <1>13, Steps

LEMMA BatchStep == IInv /\ [Next]_vars => BatchInv'
<1> SUFFICES ASSUME IInv, [Next]_vars PROVE BatchInv'
  OBVIOUS
<1> USE LengthsAssumption DEF IInv, TypeInv, BatchInv, Active
<1>1. CASE Begins
  BY <1>1 DEF Begins, Start
<1>2. CASE Gathered
  BY <1>2 DEF Gathered
<1>3. CASE Adds
  BY <1>3 DEF Adds, Append1
<1>4. CASE Passes
  BY <1>4 DEF Passes
<1>5. CASE Waits
  BY <1>5 DEF Waits
<1>6. CASE Catches
  BY <1>6 DEF Catches, Caught
<1>7. CASE Return
  BY <1>7 DEF Return
<1>8. CASE Abort
  BY <1>8 DEF Abort
<1>9. CASE CancelClient \/ UNCHANGED vars
  BY <1>9 DEF CancelClient, vars
<1> QED
  BY <1>1, <1>2, <1>3, <1>4, <1>5, <1>6, <1>7, <1>8, <1>9, Steps

LEMMA Invariant == Spec => []IInv
<1>1. IInv /\ [Next]_vars => IInv'
  BY TypeStep, ResultStep, CountStep, PassedStep, BatchStep DEF IInv
<1> QED
  BY <1>1, InvInit, PTL DEF Spec

(* Every variable keeps its type: no run has more results than pages, asks  *)
(* for more batches than one and one for each page, or counts an exception  *)
(* twice, however long the batches are and however often the object runs.   *)
THEOREM ModuleTypes == Spec => []TypeOK
<1>1. IInv => TypeOK
  <2> SUFFICES ASSUME IInv PROVE TypeOK
    OBVIOUS
  <2>1. Len(results) \in Nat /\ Len(results) <= Urls
    BY LengthsAssumption DEF IInv, TypeInv, ResultInv
  <2>2. items_processed \in 0 .. Urls
    BY <2>1, LengthsAssumption DEF IInv, TypeInv, CountInv, Active
  <2>3. results \in Seq([at : 1 .. Urls, run : 1 .. MaxRuns, items : Nat])
    BY DEF IInv, ResultInv, Result
  <2> QED
    BY <2>2, <2>3 DEF IInv, TypeInv, CountInv, BatchInv, TypeOK, Active
<1> QED
  BY <1>1, Invariant, PTL

(* Results come in the order of the URLs, at most one for each, and none is *)
(* left from an earlier run, also when that one was aborted or ended with   *)
(* an exception.                                                            *)
THEOREM ModuleResultsInOrder == Spec => []ResultsInOrder
<1>1. IInv => ResultsInOrder
  BY DEF IInv, ResultInv, ResultsInOrder
<1> QED
  BY <1>1, Invariant, PTL

(* A run that returns has a result for every page that must have one, or an *)
(* error recorded and only pages from where it stopped without.             *)
THEOREM ModuleNothingLost == Spec => []NothingLostSilently
<1>1. IInv => NothingLostSilently
  <2> SUFFICES ASSUME IInv, pc = "returned", NEW j \in 1 .. Len(inputs),
                      Expected(inputs[j]), ~HasResult(j)
               PROVE  errors = 1 /\ next <= j
    BY DEF NothingLostSilently
  <2>1. ~(j < next) /\ (errors = 1 \/ next > Len(inputs))
    BY DEF IInv, PassedInv
  <2>2. Len(inputs) \in Nat /\ next \in Nat
    <3>1. \A f \in [1 .. Urls -> Responses] : Len(f) = Urls
      BY LengthsAssumption
    <3>2. Len(<<>>) = 0
      OBVIOUS
    <3> QED
      BY <3>1, <3>2, LengthsAssumption DEF IInv, TypeInv
  <2> QED
    BY <2>1, <2>2
<1> QED
  BY <1>1, Invariant, PTL

(* items_found is the sum over the results, and items_processed their       *)
(* number once a run is over, after an exception and a cancellation too.    *)
THEOREM ModuleCounters == Spec => []CountersMatchResults
<1>1. IInv => CountersMatchResults
  BY DEF IInv, CountInv, Items, CountersMatchResults
<1> QED
  BY <1>1, Invariant, PTL

-----------------------------------------------------------------------------
(* What a run has still to do: the first batch, and for every page left its *)
(* iteration and, from there, a second batch.                               *)
Work ==
  IF pc = "first" THEN 2 * Urls + 2
  ELSE IF pc = "loop" THEN 2 * (Urls + 1 - next) + 1
  ELSE IF pc = "second" THEN 2 * (Urls + 1 - next)
  ELSE 0

(* Every step of a run leaves less to do, by a number that cannot go below  *)
(* zero: no class, not even one that follows sitemaps, can run for ever.    *)
THEOREM ModuleRunsEnd ==
  Spec => /\ [](Work \in Nat /\ (Work = 0 <=> pc \notin Active))
          /\ [][(pc \in Active) => Work' < Work \/ CancelClient]_vars
<1>1. IInv => Work \in Nat /\ (Work = 0 <=> pc \notin Active)
  BY LengthsAssumption DEF IInv, TypeInv, Work, Active
<1>2. ASSUME IInv, [Next]_vars
      PROVE  (pc \in Active => Work' < Work \/ CancelClient) \/ UNCHANGED vars
  <2> USE LengthsAssumption DEF IInv, TypeInv, Work, Active
  <2>1. CASE Begins
    BY <2>1 DEF Begins
  <2>2. CASE Gathered
    BY <1>2, <2>2 DEF Gathered
  <2>3. CASE Adds
    BY <1>2, <2>3 DEF Adds, Append1
  <2>4. CASE Passes
    BY <1>2, <2>4 DEF Passes
  <2>5. CASE Waits
    BY <1>2, <2>5 DEF Waits, stats
  <2>6. CASE Catches
    BY <1>2, <2>6 DEF Catches, Caught
  <2>7. CASE Return
    BY <1>2, <2>7 DEF Return
  <2>8. CASE Abort
    BY <1>2, <2>8 DEF Abort
  <2>9. CASE CancelClient \/ UNCHANGED vars
    BY <2>9
  <2> QED
    BY <1>2, <2>1, <2>2, <2>3, <2>4, <2>5, <2>6, <2>7, <2>8, <2>9, Steps
<1> QED
  BY <1>1, <1>2, Invariant, PTL DEF Spec

-----------------------------------------------------------------------------
(* RobotsParser implements DirectiveTable, for every file: what was said of *)
(* an agent is in a saved rule or in the section under way.                 *)
RuleSet == [user_agent : Agents, disallowed : Seq(Paths), allowed : Seq(Paths),
            crawl_delay : Delays \cup {NoValue}, sitemaps : Seq(Paths)]

(* An entry appended to a list is the only one its set gains.               *)
LEMMA AppendAdds ==
  ASSUME NEW S, NEW s \in Seq(S), NEW v \in S
  PROVE  ToSet(Append(s, v)) = ToSet(s) \cup {v}
<1>1. DOMAIN Append(s, v) = 1 .. Len(s) + 1 /\ DOMAIN s = 1 .. Len(s)
  OBVIOUS
<1>2. \A i \in 1 .. Len(s) : Append(s, v)[i] = s[i]
  OBVIOUS
<1>3. Append(s, v)[Len(s) + 1] = v
  OBVIOUS
<1>4. Len(s) \in Nat
  OBVIOUS
<1> QED
  BY <1>1, <1>2, <1>3, <1>4 DEF ToSet

(* The value of a line that names something is of the keyword's kind.       *)
LEMMA LineValues ==
  ASSUME NEW line \in Lines, line.value # NoValue
  PROVE  /\ line.keyword \in {"disallow", "allow", "sitemap"} => line.value \in Paths
         /\ line.keyword = "crawl-delay" => line.value \in Delays
         /\ line.keyword = "user-agent" => line.value \in Agents
  BY DEF Lines

(* The section under way is a rule, and saving it keeps the list of rules.  *)
LEMMA SavedTyped ==
  ASSUME ParseTypeOK
  PROVE  Rule \in RuleSet /\ rules \in Seq(RuleSet) /\ Saved \in Seq(RuleSet)
<1>1. Rule \in RuleSet
  BY DEF ParseTypeOK, Rule, RuleSet
<1>2. rules \in Seq(RuleSet)
  BY DEF ParseTypeOK, RuleSet
<1> QED
  BY <1>1, <1>2 DEF Saved

LEMMA ParseTypeInit == ParseInit => ParseTypeOK
<1> SUFFICES ASSUME ParseInit PROVE ParseTypeOK
  OBVIOUS
<1>1. \A S : <<>> \in Seq(S)
  OBVIOUS
<1>2. content \in Seq(Lines) /\ rules \in Seq(RuleSet)
  BY <1>1 DEF ParseInit
<1>3. /\ current_disallowed \in Seq(Paths)
      /\ current_allowed \in Seq(Paths)
      /\ current_sitemaps \in Seq(Paths)
  BY <1>1 DEF ParseInit
<1>4. current_agent \in Agents /\ current_delay \in Delays \cup {NoValue} /\ parsed \in BOOLEAN
  BY AgentsAssumption DEF ParseInit
<1> QED
  BY <1>2, <1>3, <1>4 DEF ParseTypeOK, RuleSet

LEMMA ParseTypeStep == ParseTypeOK /\ [ParseNext]_parse_vars => ParseTypeOK'
<1> SUFFICES ASSUME ParseTypeOK, [ParseNext]_parse_vars PROVE ParseTypeOK'
  OBVIOUS
<1>1. CASE ReadLine
  <2>1. PICK line \in Lines :
          /\ content' = Append(content, line)
          /\ \/ UserAgent(line) \/ Disallow(line) \/ Allow(line)
             \/ CrawlDelay(line) \/ Sitemap(line) \/ Ignore(line)
    BY <1>1 DEF ReadLine
  <2>2. content' \in Seq(Lines) /\ parsed' \in BOOLEAN
    BY <1>1, <2>1 DEF ReadLine, ParseTypeOK
  <2>3. CASE UserAgent(line)
    BY <2>2, <2>3, LineValues, SavedTyped, AgentsAssumption
    DEF UserAgent, ParseTypeOK, RuleSet
  <2>4. CASE Disallow(line)
    BY <2>2, <2>4, LineValues DEF Disallow, ParseTypeOK
  <2>5. CASE Allow(line)
    BY <2>2, <2>5, LineValues DEF Allow, ParseTypeOK
  <2>6. CASE CrawlDelay(line)
    BY <2>2, <2>6, LineValues DEF CrawlDelay, ParseTypeOK
  <2>7. CASE Sitemap(line)
    BY <2>2, <2>7, LineValues DEF Sitemap, ParseTypeOK
  <2>8. CASE Ignore(line)
    BY <2>2, <2>8 DEF Ignore, current, ParseTypeOK
  <2> QED
    BY <2>1, <2>3, <2>4, <2>5, <2>6, <2>7, <2>8
<1>2. CASE EndOfFile
  BY <1>2, SavedTyped DEF EndOfFile, current, ParseTypeOK, RuleSet
<1>3. CASE UNCHANGED parse_vars
  BY <1>3 DEF parse_vars, current, ParseTypeOK
<1> QED
  BY <1>1, <1>2, <1>3 DEF ParseNext

(* The lists of every section hold paths only, whatever lines come: an      *)
(* empty value or a malformed line reaches none of them.                    *)
THEOREM ParserTypes == ParseSpec => []ParseTypeOK
  BY ParseTypeInit, ParseTypeStep, PTL DEF ParseSpec

-----------------------------------------------------------------------------
(* Saving a section leaves everything said where it was, with the section   *)
(* under way or without it.                                                 *)
LEMMA SavedSaid ==
  ASSUME ParseTypeOK
  PROVE  UNION {Entries(r) : r \in ToSet(Saved)} = Said
<1>1. CASE Saved = Append(rules, Rule)
  <2>1. ToSet(Append(rules, Rule)) = ToSet(rules) \cup {Rule}
    BY SavedTyped, AppendAdds
  <2> QED
    BY <1>1, <2>1 DEF Said
<1>2. CASE Saved # Append(rules, Rule)
  <2>1. Saved = rules /\ current_disallowed = <<>> /\ current_allowed = <<>>
          /\ current_sitemaps = <<>>
    BY <1>2 DEF Saved
  <2>2. Entries(Rule) = {}
    BY <2>1 DEF Entries, Rule, ToSet
  <2> QED
    BY <2>1, <2>2 DEF Said
<1> QED
  BY <1>1, <1>2

(* A line that adds v to one list of the section says it of its agent.      *)
LEMMA LineSays ==
  ASSUME ParseTypeOK, NEW v \in Paths, NEW k \in {"disallow", "allow", "sitemap"},
         UNCHANGED <<current_agent, rules>>,
         current_disallowed' = IF k = "disallow" THEN Append(current_disallowed, v)
                               ELSE current_disallowed,
         current_allowed' = IF k = "allow" THEN Append(current_allowed, v)
                            ELSE current_allowed,
         current_sitemaps' = IF k = "sitemap" THEN Append(current_sitemaps, v)
                             ELSE current_sitemaps
  PROVE  Said' = Said \cup {<<current_agent, k, v>>}
<1>1. ToSet(Append(current_disallowed, v)) = ToSet(current_disallowed) \cup {v}
  BY AppendAdds DEF ParseTypeOK
<1>2. ToSet(Append(current_allowed, v)) = ToSet(current_allowed) \cup {v}
  BY AppendAdds DEF ParseTypeOK
<1>3. ToSet(Append(current_sitemaps, v)) = ToSet(current_sitemaps) \cup {v}
  BY AppendAdds DEF ParseTypeOK
<1>4. Entries(Rule)' = Entries(Rule) \cup {<<current_agent, k, v>>}
  <2>1. CASE k = "disallow"
    BY <1>1, <2>1 DEF Entries, Rule
  <2>2. CASE k = "allow"
    BY <1>2, <2>2 DEF Entries, Rule
  <2>3. CASE k = "sitemap"
    BY <1>3, <2>3 DEF Entries, Rule
  <2> QED
    BY <2>1, <2>2, <2>3
<1>5. (UNION {Entries(r) : r \in ToSet(rules)})' = UNION {Entries(r) : r \in ToSet(rules)}
  BY DEF ToSet, Entries
<1> QED
  BY <1>4, <1>5 DEF Said

LEMMA TableInit == ParseInit => Table!Init
<1> SUFFICES ASSUME ParseInit PROVE Table!Init
  OBVIOUS
<1>1. Entries(Rule) = {}
  BY DEF ParseInit, Entries, Rule, ToSet
<1>2. ToSet(rules) = {}
  BY DEF ParseInit, ToSet
<1> QED
  BY <1>1, <1>2 DEF ParseInit, Said, Table!Init

(* Every line is a step of the table or leaves it as it is.                 *)
LEMMA TableStep == ParseTypeOK /\ [ParseNext]_parse_vars => [Table!Next]_(Table!vars)
<1> SUFFICES ASSUME ParseTypeOK, [ParseNext]_parse_vars PROVE [Table!Next]_(Table!vars)
  OBVIOUS
<1>1. CASE ReadLine
  <2>1. PICK line \in Lines :
          UserAgent(line) \/ Disallow(line) \/ Allow(line)
            \/ CrawlDelay(line) \/ Sitemap(line) \/ Ignore(line)
    BY <1>1 DEF ReadLine
  <2>2. CASE UserAgent(line)
    <3>1. current_agent' \in Agents
      BY <2>2, LineValues, AgentsAssumption DEF UserAgent
    <3>2. Entries(Rule)' = {}
      BY <2>2 DEF UserAgent, Entries, Rule, ToSet
    <3>3. (UNION {Entries(r) : r \in ToSet(rules)})' = UNION {Entries(r) : r \in ToSet(Saved)}
      BY <2>2 DEF UserAgent, Entries, ToSet
    <3>4. Said' = Said
      BY <3>2, <3>3, SavedSaid DEF Said
    <3> QED
      BY <3>1, <3>4 DEF Table!Next, Table!Address
  <2>3. CASE Disallow(line)
    <3>1. line.value \in Paths
      BY <2>3, LineValues DEF Disallow
    <3>2. Said' = Said \cup {<<current_agent, "disallow", line.value>>}
      BY <2>3, <3>1, LineSays DEF Disallow
    <3> QED
      BY <2>3, <3>1, <3>2 DEF Disallow, Table!Next, Table!Say
  <2>4. CASE Allow(line)
    <3>1. line.value \in Paths
      BY <2>4, LineValues DEF Allow
    <3>2. Said' = Said \cup {<<current_agent, "allow", line.value>>}
      BY <2>4, <3>1, LineSays DEF Allow
    <3> QED
      BY <2>4, <3>1, <3>2 DEF Allow, Table!Next, Table!Say
  <2>5. CASE Sitemap(line)
    <3>1. line.value \in Paths
      BY <2>5, LineValues DEF Sitemap
    <3>2. Said' = Said \cup {<<current_agent, "sitemap", line.value>>}
      BY <2>5, <3>1, LineSays DEF Sitemap
    <3> QED
      BY <2>5, <3>1, <3>2 DEF Sitemap, Table!Next, Table!Say
  <2>6. CASE CrawlDelay(line) \/ Ignore(line)
    BY <2>6 DEF CrawlDelay, Ignore, current, Said, Entries, Rule, ToSet, Table!vars
  <2> QED
    BY <2>1, <2>2, <2>3, <2>4, <2>5, <2>6
<1>2. CASE EndOfFile
  <2>1. current_agent' = current_agent /\ Entries(Rule)' = Entries(Rule)
    BY <1>2 DEF EndOfFile, current, Entries, Rule, ToSet
  <2>2. (UNION {Entries(r) : r \in ToSet(rules)})' = UNION {Entries(r) : r \in ToSet(Saved)}
    BY <1>2 DEF EndOfFile, Entries, ToSet
  <2>3. Said' = Said
    BY <2>1, <2>2, SavedSaid DEF Said
  <2> QED
    BY <2>1, <2>3 DEF Table!vars
<1>3. CASE UNCHANGED parse_vars
  BY <1>3 DEF parse_vars, current, Said, Entries, Rule, ToSet, Table!vars
<1> QED
  BY <1>1, <1>2, <1>3 DEF ParseNext

(* Nothing a line says of an agent is lost or given to another one: not at  *)
(* the next User-agent line, not by directives before the first, not at the *)
(* end of the file.                                                         *)
THEOREM ParserImplementsTable == ParseSpec => ImplementsTable
  BY ParseTypeInit, ParseTypeStep, TableInit, TableStep, PTL DEF ParseSpec, ImplementsTable, Table!Spec

-----------------------------------------------------------------------------
(* The three folds with which run() collects the paths, as loops over the   *)
(* list: f[k] is what has been collected after k of its entries.            *)
CollectsJoined(f, rs, field) ==
  f[0] = <<>> /\ \A k \in 1 .. Len(rs) : f[k] = f[k - 1] \o rs[k][field]

AddOnce(list, v) == IF Contains(list, v) THEN list ELSE Append(list, v)

CollectsOnce(f, s) ==
  f[0] = <<>> /\ \A k \in 1 .. Len(s) : f[k] = AddOnce(f[k - 1], s[k])

AddInteresting(list, v) == IF v \in Interesting THEN Append(list, v) ELSE list

CollectsInteresting(f, s) ==
  f[0] = <<>> /\ \A k \in 1 .. Len(s) : f[k] = AddInteresting(f[k - 1], s[k])

(* JoinedFold, OnceFold and InterestingFold are what FoldLeft stands for.   *)
JoinedFold(iter, rs, field) ==
  iter = [t \in SUBSET DOMAIN rs |->
            IF t = {} THEN <<>> ELSE iter[t \ {Max(t)}] \o rs[Max(t)][field]]

(* Each list of a rule is a list of paths.                                 *)
LEMMA ListOfPaths ==
  ASSUME NEW rule \in RuleSet, NEW field \in {"disallowed", "allowed", "sitemaps"}
  PROVE  rule[field] \in Seq(Paths)
<1>1. rule["disallowed"] \in Seq(Paths) /\ rule["allowed"] \in Seq(Paths)
        /\ rule["sitemaps"] \in Seq(Paths)
  BY DEF RuleSet
<1> QED
  BY <1>1

LEMMA JoinedLoop ==
  ASSUME NEW field \in {"disallowed", "allowed", "sitemaps"}, NEW rs \in Seq(RuleSet)
  PROVE  \E f : CollectsJoined(f, rs, field) /\ Joined(rs, field) = f[Len(rs)]
<1> DEFINE n == Len(rs)
           X == Seq(Paths)
           g == [p \in X \X RuleSet |-> p[1] \o p[2][field]]
           iter == CHOOSE i : JoinedFold(i, rs, field)
           f == [k \in 0 .. n |-> iter[1 .. k]]
<1>1. Joined(rs, field) = iter[DOMAIN rs]
  BY Zenon DEF Joined, FoldLeft, MapThenFoldSet, JoinedFold
<1>2. n \in Nat /\ DOMAIN rs = 1 .. n /\ \A k \in 1 .. n : rs[k] \in RuleSet
  OBVIOUS
<1>3. \A x \in X : \A y \in RuleSet : g[<<x, y>>] = x \o y[field] /\ g[<<x, y>>] \in X
  <2>1. ASSUME NEW x \in X, NEW y \in RuleSet
        PROVE  g[<<x, y>>] = x \o y[field] /\ g[<<x, y>>] \in X
    <3>1. <<x, y>> \in X \X RuleSet /\ <<x, y>>[1] = x /\ <<x, y>>[2] = y
      OBVIOUS
    <3>2. g[<<x, y>>] = x \o y[field]
      <4>1. g[<<x, y>>] = <<x, y>>[1] \o <<x, y>>[2][field]
        BY <3>1, Zenon
      <4> QED
        BY <3>1, <4>1, Zenon
    <3>3. y[field] \in Seq(Paths)
      BY ListOfPaths
    <3>4. \A z \in Seq(Paths) : x \o z \in Seq(Paths)
      BY ConcatProperties
    <3> QED
      BY <3>2, <3>3, <3>4, Zenon
  <2> QED
    BY <2>1, Zenon
<1> HIDE DEF g
<1>4. PICK it \in [SUBSET (1 .. n) -> X] : Iterates(it, g, <<>>, rs, 1 .. n)
  <2>1. <<>> \in X
    OBVIOUS
  <2>2. \A x \in X : \A k \in 1 .. n : g[<<x, rs[k]>>] \in X
    BY <1>2, <1>3
  <2> HIDE DEF X, n
  <2> QED
    BY <1>2, <2>1, <2>2, IterationExists
<1>5. JoinedFold(it, rs, field)
  <2>1. ASSUME NEW t \in SUBSET (1 .. n)
        PROVE  it[t] = IF t = {} THEN <<>> ELSE it[t \ {Max(t)}] \o rs[Max(t)][field]
    <3>1. it[t] = IF t = {} THEN <<>> ELSE g[<<it[t \ {Max(t)}], rs[Max(t)]>>]
      BY <1>4 DEF Iterates
    <3>2. ASSUME t # {}
          PROVE  g[<<it[t \ {Max(t)}], rs[Max(t)]>>] = it[t \ {Max(t)}] \o rs[Max(t)][field]
      <4>1. Max(t) \in t
        BY <1>2, <3>2, MaxInside
      <4>2. it[t \ {Max(t)}] \in X
        OBVIOUS
      <4>3. rs[Max(t)] \in RuleSet
        BY <1>2, <4>1
      <4> HIDE DEF X
      <4> QED
        BY <1>3, <4>2, <4>3
    <3> QED
      BY <3>1, <3>2
  <2>2. it = [t \in SUBSET (1 .. n) |-> it[t]]
    OBVIOUS
  <2> QED
    BY <1>2, <2>1, <2>2, Zenon DEF JoinedFold
<1>6. JoinedFold(iter, rs, field)
  BY <1>5
<1> HIDE DEF iter
<1>7. ASSUME NEW t \in SUBSET (1 .. n)
      PROVE  iter[t] = IF t = {} THEN <<>> ELSE iter[t \ {Max(t)}] \o rs[Max(t)][field]
  BY <1>2, <1>6 DEF JoinedFold
<1>8. f[0] = <<>>
  <2>1. 1 .. 0 = {} /\ f[0] = iter[1 .. 0]
    BY <1>2
  <2> QED
    BY <1>7, <2>1
<1>9. ASSUME NEW k \in 1 .. n PROVE f[k] = f[k - 1] \o rs[k][field]
  <2>1. f[k] = iter[1 .. k] /\ f[k - 1] = iter[1 .. k - 1] /\ 1 .. k \subseteq 1 .. n
    BY <1>2
  <2>2. 1 .. k # {} /\ Max(1 .. k) = k /\ (1 .. k) \ {k} = 1 .. k - 1
    BY <1>2, FirstPositions
  <2> HIDE DEF f
  <2> QED
    BY <1>7, <2>1, <2>2
<1>10. f[n] = iter[DOMAIN rs]
  BY <1>2
<1> HIDE DEF f
<1> QED
  BY <1>1, <1>8, <1>9, <1>10 DEF CollectsJoined

OnceFold(iter, s) ==
  iter = [t \in SUBSET DOMAIN s |->
            IF t = {} THEN <<>> ELSE AddOnce(iter[t \ {Max(t)}], s[Max(t)])]

LEMMA OnceLoop ==
  ASSUME NEW s \in Seq(Paths)
  PROVE  \E f : CollectsOnce(f, s) /\ FirstOccurrences(s) = f[Len(s)]
<1> DEFINE n == Len(s)
           X == Seq(Paths)
           g == [p \in X \X Paths |-> AddOnce(p[1], p[2])]
           iter == CHOOSE i : OnceFold(i, s)
           f == [k \in 0 .. n |-> iter[1 .. k]]
<1>1. FirstOccurrences(s) = iter[DOMAIN s]
  BY Zenon DEF FirstOccurrences, FoldLeft, MapThenFoldSet, OnceFold, AddOnce
<1>2. n \in Nat /\ DOMAIN s = 1 .. n /\ \A k \in 1 .. n : s[k] \in Paths
  OBVIOUS
<1>3. \A x \in X : \A y \in Paths :
        g[<<x, y>>] = AddOnce(x, y) /\ g[<<x, y>>] \in X
  <2>1. ASSUME NEW x \in X, NEW y \in Paths
        PROVE  g[<<x, y>>] = AddOnce(x, y) /\ g[<<x, y>>] \in X
    <3>1. <<x, y>> \in X \X Paths /\ <<x, y>>[1] = x /\ <<x, y>>[2] = y
      OBVIOUS
    <3>2. g[<<x, y>>] = AddOnce(x, y)
      <4> DEFINE p == <<x, y>>
      <4>1. g[p] = AddOnce(p[1], p[2])
        BY <3>1, Zenon
      <4> QED
        BY <3>1, <4>1, Zenon
    <3>3. Append(x, y) \in X
      OBVIOUS
    <3> QED
      BY <3>2, <3>3, Zenon DEF AddOnce
  <2> QED
    BY <2>1, Zenon
<1> HIDE DEF g
<1>4. PICK it \in [SUBSET (1 .. n) -> X] : Iterates(it, g, <<>>, s, 1 .. n)
  <2>1. <<>> \in X
    OBVIOUS
  <2>2. \A x \in X : \A k \in 1 .. n : g[<<x, s[k]>>] \in X
    BY <1>2, <1>3
  <2> HIDE DEF X, n
  <2> QED
    BY <1>2, <2>1, <2>2, IterationExists
<1>5. OnceFold(it, s)
  <2>1. ASSUME NEW t \in SUBSET (1 .. n)
        PROVE  it[t] = IF t = {} THEN <<>> ELSE AddOnce(it[t \ {Max(t)}], s[Max(t)])
    <3>1. it[t] = IF t = {} THEN <<>> ELSE g[<<it[t \ {Max(t)}], s[Max(t)]>>]
      BY <1>4 DEF Iterates
    <3>2. ASSUME t # {}
          PROVE  g[<<it[t \ {Max(t)}], s[Max(t)]>>] = AddOnce(it[t \ {Max(t)}], s[Max(t)])
      <4>1. Max(t) \in t
        BY <1>2, <3>2, MaxInside
      <4>2. it[t \ {Max(t)}] \in X
        OBVIOUS
      <4>3. s[Max(t)] \in Paths
        BY <1>2, <4>1
      <4> HIDE DEF X
      <4> QED
        BY <1>3, <4>2, <4>3
    <3> QED
      BY <3>1, <3>2
  <2>2. it = [t \in SUBSET (1 .. n) |-> it[t]]
    OBVIOUS
  <2> QED
    BY <1>2, <2>1, <2>2, Zenon DEF OnceFold
<1>6. OnceFold(iter, s)
  BY <1>5
<1> HIDE DEF iter
<1>7. ASSUME NEW t \in SUBSET (1 .. n)
      PROVE  iter[t] = IF t = {} THEN <<>> ELSE AddOnce(iter[t \ {Max(t)}], s[Max(t)])
  BY <1>2, <1>6 DEF OnceFold
<1>8. f[0] = <<>>
  <2>1. 1 .. 0 = {} /\ f[0] = iter[1 .. 0]
    BY <1>2
  <2> QED
    BY <1>7, <2>1
<1>9. ASSUME NEW k \in 1 .. n PROVE f[k] = AddOnce(f[k - 1], s[k])
  <2>1. f[k] = iter[1 .. k] /\ f[k - 1] = iter[1 .. k - 1] /\ 1 .. k \subseteq 1 .. n
    BY <1>2
  <2>2. 1 .. k # {} /\ Max(1 .. k) = k /\ (1 .. k) \ {k} = 1 .. k - 1
    BY <1>2, FirstPositions
  <2> HIDE DEF f
  <2> QED
    BY <1>7, <2>1, <2>2
<1>10. f[n] = iter[DOMAIN s]
  BY <1>2
<1> HIDE DEF f
<1> QED
  BY <1>1, <1>8, <1>9, <1>10 DEF CollectsOnce

InterestingFold(iter, s) ==
  iter = [t \in SUBSET DOMAIN s |->
            IF t = {} THEN <<>> ELSE AddInteresting(iter[t \ {Max(t)}], s[Max(t)])]

LEMMA InterestingLoop ==
  ASSUME NEW s \in Seq(Paths)
  PROVE  \E f : CollectsInteresting(f, s) /\ FindInteresting(s) = f[Len(s)]
<1> DEFINE n == Len(s)
           X == Seq(Paths)
           g == [p \in X \X Paths |-> AddInteresting(p[1], p[2])]
           iter == CHOOSE i : InterestingFold(i, s)
           f == [k \in 0 .. n |-> iter[1 .. k]]
<1>1. FindInteresting(s) = iter[DOMAIN s]
  BY Zenon DEF FindInteresting, FoldLeft, MapThenFoldSet, InterestingFold, AddInteresting
<1>2. n \in Nat /\ DOMAIN s = 1 .. n /\ \A k \in 1 .. n : s[k] \in Paths
  OBVIOUS
<1>3. \A x \in X : \A y \in Paths :
        g[<<x, y>>] = AddInteresting(x, y) /\ g[<<x, y>>] \in X
  <2>1. ASSUME NEW x \in X, NEW y \in Paths
        PROVE  g[<<x, y>>] = AddInteresting(x, y) /\ g[<<x, y>>] \in X
    <3>1. <<x, y>> \in X \X Paths /\ <<x, y>>[1] = x /\ <<x, y>>[2] = y
      OBVIOUS
    <3>2. g[<<x, y>>] = AddInteresting(x, y)
      <4> DEFINE p == <<x, y>>
      <4>1. g[p] = AddInteresting(p[1], p[2])
        BY <3>1, Zenon
      <4> QED
        BY <3>1, <4>1, Zenon
    <3>3. Append(x, y) \in X
      OBVIOUS
    <3> QED
      BY <3>2, <3>3, Zenon DEF AddInteresting
  <2> QED
    BY <2>1, Zenon
<1> HIDE DEF g
<1>4. PICK it \in [SUBSET (1 .. n) -> X] : Iterates(it, g, <<>>, s, 1 .. n)
  <2>1. <<>> \in X
    OBVIOUS
  <2>2. \A x \in X : \A k \in 1 .. n : g[<<x, s[k]>>] \in X
    BY <1>2, <1>3
  <2> HIDE DEF X, n
  <2> QED
    BY <1>2, <2>1, <2>2, IterationExists
<1>5. InterestingFold(it, s)
  <2>1. ASSUME NEW t \in SUBSET (1 .. n)
        PROVE  it[t] = IF t = {} THEN <<>> ELSE AddInteresting(it[t \ {Max(t)}], s[Max(t)])
    <3>1. it[t] = IF t = {} THEN <<>> ELSE g[<<it[t \ {Max(t)}], s[Max(t)]>>]
      BY <1>4 DEF Iterates
    <3>2. ASSUME t # {}
          PROVE  g[<<it[t \ {Max(t)}], s[Max(t)]>>] = AddInteresting(it[t \ {Max(t)}], s[Max(t)])
      <4>1. Max(t) \in t
        BY <1>2, <3>2, MaxInside
      <4>2. it[t \ {Max(t)}] \in X
        OBVIOUS
      <4>3. s[Max(t)] \in Paths
        BY <1>2, <4>1
      <4> HIDE DEF X
      <4> QED
        BY <1>3, <4>2, <4>3
    <3> QED
      BY <3>1, <3>2
  <2>2. it = [t \in SUBSET (1 .. n) |-> it[t]]
    OBVIOUS
  <2> QED
    BY <1>2, <2>1, <2>2, Zenon DEF InterestingFold
<1>6. InterestingFold(iter, s)
  BY <1>5
<1> HIDE DEF iter
<1>7. ASSUME NEW t \in SUBSET (1 .. n)
      PROVE  iter[t] = IF t = {} THEN <<>> ELSE AddInteresting(iter[t \ {Max(t)}], s[Max(t)])
  BY <1>2, <1>6 DEF InterestingFold
<1>8. f[0] = <<>>
  <2>1. 1 .. 0 = {} /\ f[0] = iter[1 .. 0]
    BY <1>2
  <2> QED
    BY <1>7, <2>1
<1>9. ASSUME NEW k \in 1 .. n PROVE f[k] = AddInteresting(f[k - 1], s[k])
  <2>1. f[k] = iter[1 .. k] /\ f[k - 1] = iter[1 .. k - 1] /\ 1 .. k \subseteq 1 .. n
    BY <1>2
  <2>2. 1 .. k # {} /\ Max(1 .. k) = k /\ (1 .. k) \ {k} = 1 .. k - 1
    BY <1>2, FirstPositions
  <2> HIDE DEF f
  <2> QED
    BY <1>7, <2>1, <2>2
<1>10. f[n] = iter[DOMAIN s]
  BY <1>2
<1> HIDE DEF f
<1> QED
  BY <1>1, <1>8, <1>9, <1>10 DEF CollectsInteresting

(* The lists of one more rule come after those of the rules before.         *)
LEMMA JoinedAppend ==
  ASSUME NEW field \in {"disallowed", "allowed", "sitemaps"}, NEW rs \in Seq(RuleSet),
         NEW rule \in RuleSet
  PROVE  /\ Joined(rs, field) \in Seq(Paths)
         /\ Joined(Append(rs, rule), field) = Joined(rs, field) \o rule[field]
<1> DEFINE n == Len(rs)
           more == Append(rs, rule)
<1>1. n \in Nat /\ more \in Seq(RuleSet) /\ Len(more) = n + 1 /\ more[n + 1] = rule
        /\ \A k \in 1 .. n : more[k] = rs[k] /\ rs[k] \in RuleSet
  OBVIOUS
<1> HIDE DEF n, more
<1>2. PICK f : CollectsJoined(f, rs, field) /\ Joined(rs, field) = f[n]
  BY JoinedLoop DEF n
<1>3. PICK g : CollectsJoined(g, more, field) /\ Joined(more, field) = g[n + 1]
  BY <1>1, JoinedLoop
<1>4. f[0] = <<>> /\ \A k \in 1 .. n : f[k] = f[k - 1] \o rs[k][field]
  BY <1>2 DEF CollectsJoined, n
<1>5. g[0] = <<>> /\ \A k \in 0 .. n : g[k + 1] = g[k] \o more[k + 1][field]
  <2>1. g[0] = <<>> /\ \A k \in 1 .. n + 1 : g[k] = g[k - 1] \o more[k][field]
    BY <1>1, <1>3 DEF CollectsJoined
  <2>2. ASSUME NEW k \in 0 .. n PROVE g[k + 1] = g[k] \o more[k + 1][field]
    <3>1. k + 1 \in 1 .. n + 1 /\ k + 1 - 1 = k
      BY <1>1
    <3> DEFINE l == k + 1
    <3>2. g[l] = g[l - 1] \o more[l][field]
      BY <2>1, <3>1, Zenon
    <3>3. g[l - 1] = g[k]
      BY <3>1
    <3> HIDE DEF l
    <3>4. g[l] = g[k] \o more[l][field]
      BY <3>2, <3>3, Zenon
    <3> QED
      BY <3>4 DEF l
  <2> QED
    BY <2>1, <2>2
<1>6. \A k \in 0 .. n : f[k] \in Seq(Paths)
  <2>1. f[0] \in Seq(Paths)
    BY <1>4
  <2>2. ASSUME NEW k \in 1 .. n, f[k - 1] \in Seq(Paths) PROVE f[k] \in Seq(Paths)
    <3>1. rs[k][field] \in Seq(Paths)
      BY <1>1, ListOfPaths
    <3>2. f[k] = f[k - 1] \o rs[k][field]
      BY <1>4
    <3>3. \A x, y \in Seq(Paths) : x \o y \in Seq(Paths)
      BY ConcatProperties
    <3> QED
      BY <2>2, <3>1, <3>2, <3>3, Zenon
  <2> QED
    BY <1>1, <2>1, <2>2, LoopKeeps
<1>7. f[n] = g[n]
  <2> DEFINE T == {k \in 0 .. n : f[k] = g[k]}
  <2>1. 0 \in T
    BY <1>1, <1>4, <1>5
  <2>2. ASSUME NEW k \in 0 .. n - 1, k \in T PROVE k + 1 \in T
    <3>1. k + 1 \in 1 .. n /\ k + 1 \in 1 .. n + 1 /\ k + 1 - 1 = k
      BY <1>1
    <3> DEFINE l == k + 1
    <3>2. f[l] = f[l - 1] \o rs[l][field]
      BY <1>4, <3>1, Zenon
    <3>3. more[k + 1] = rs[k + 1]
      BY <1>1, <3>1
    <3>4. f[k] = g[k]
      BY <2>2
    <3>5. f[l - 1] = g[k] /\ more[l] = rs[l]
      BY <3>1, <3>3, <3>4
    <3>6. g[l] = g[k] \o more[l][field]
      <4>1. k \in 0 .. n
        BY <1>1
      <4> QED
        BY <1>5, <4>1, Zenon
    <3> HIDE DEF l
    <3>7. f[l] = g[l]
      BY <3>2, <3>5, <3>6, Zenon
    <3>8. k + 1 \in 0 .. n
      BY <1>1
    <3> QED
      BY <3>7, <3>8 DEF l
  <2> HIDE DEF T
  <2>3. 0 .. n \subseteq T
    BY <1>1, <2>1, <2>2, UpTo
  <2>4. n \in T
    BY <1>1, <2>3
  <2> QED
    BY <2>4 DEF T
<1>8. g[n + 1] = g[n] \o rule[field]
  <2>1. n \in 0 .. n
    BY <1>1
  <2> QED
    BY <1>1, <1>5, <2>1, Zenon
<1>9. f[n] \in Seq(Paths)
  BY <1>1, <1>6
<1> QED
  BY <1>2, <1>3, <1>7, <1>8, <1>9 DEF more

(* Without rules there is nothing.                                          *)
LEMMA JoinedNone ==
  ASSUME NEW field \in {"disallowed", "allowed", "sitemaps"}
  PROVE  Joined(<<>>, field) = <<>>
<1>1. <<>> \in Seq(RuleSet) /\ Len(<<>>) = 0
  OBVIOUS
<1>2. PICK f : CollectsJoined(f, <<>>, field) /\ Joined(<<>>, field) = f[Len(<<>>)]
  BY <1>1, JoinedLoop
<1> QED
  BY <1>1, <1>2 DEF CollectsJoined

(* The list holds each of the first m entries of s once, in the order in    *)
(* which they first come.                                                   *)
OnceIn(list, s, m) ==
  /\ ToSet(list) = {s[i] : i \in 1 .. m}
  /\ \A i, j \in DOMAIN list : i < j =>
       \E k \in 1 .. m : s[k] = list[i] /\ \A l \in 1 .. m : s[l] = list[j] => k < l

(* One more entry is listed unless the list has it.                        *)
LEMMA OnceStep ==
  ASSUME NEW s, NEW m \in Nat, s[m + 1] \in Paths, NEW list \in Seq(Paths), OnceIn(list, s, m)
  PROVE  AddOnce(list, s[m + 1]) \in Seq(Paths) /\ OnceIn(AddOnce(list, s[m + 1]), s, m + 1)
<1> DEFINE v == s[m + 1]
<1>1. \A k \in 1 .. m + 1 : k \in 1 .. m \/ k = m + 1
  OBVIOUS
<1>2. m + 1 \in 1 .. m + 1 /\ (1 .. m) \subseteq 1 .. m + 1 /\ \A k \in 1 .. m : k < m + 1
  OBVIOUS
<1>3. {s[i] : i \in 1 .. m + 1} = {s[i] : i \in 1 .. m} \cup {v}
  BY <1>1, <1>2, Zenon
<1>4. DOMAIN list = 1 .. Len(list) /\ Len(list) \in Nat
  OBVIOUS
<1>5. Contains(list, v) <=> v \in ToSet(list)
  BY <1>4 DEF Contains, ToSet
<1> HIDE DEF v
<1>6. CASE v \in ToSet(list)
  <2>1. AddOnce(list, v) = list
    BY <1>5, <1>6 DEF AddOnce
  <2>2. ToSet(list) = {s[i] : i \in 1 .. m + 1}
    BY <1>3, <1>6 DEF OnceIn
  <2>3. ASSUME NEW i \in DOMAIN list, NEW j \in DOMAIN list, i < j
        PROVE  \E k \in 1 .. m + 1 :
                 s[k] = list[i] /\ \A l \in 1 .. m + 1 : s[l] = list[j] => k < l
    <3>1. PICK k \in 1 .. m : s[k] = list[i] /\ \A l \in 1 .. m : s[l] = list[j] => k < l
      BY <2>3 DEF OnceIn
    <3> QED
      BY <1>1, <1>2, <3>1, Zenon
  <2>4. OnceIn(list, s, m + 1)
    BY <2>2, <2>3 DEF OnceIn
  <2> QED
    BY <2>1, <2>4 DEF v
<1>7. CASE v \notin ToSet(list)
  <2> DEFINE longer == Append(list, v)
  <2>0. v \in Paths
    BY DEF v
  <2>1. AddOnce(list, v) = longer
    BY <1>5, <1>7 DEF AddOnce
  <2>2. longer \in Seq(Paths) /\ DOMAIN longer = 1 .. Len(list) + 1
          /\ longer[Len(list) + 1] = v /\ \A i \in 1 .. Len(list) : longer[i] = list[i]
    BY <2>0
  <2>3. ToSet(longer) = {s[i] : i \in 1 .. m + 1}
    <3>1. ToSet(longer) = ToSet(list) \cup {v}
      BY <2>0, AppendAdds
    <3> QED
      BY <1>3, <3>1, Zenon DEF OnceIn
  <2> HIDE DEF longer
  <2>4. ASSUME NEW i \in DOMAIN longer, NEW j \in DOMAIN longer, i < j
        PROVE  \E k \in 1 .. m + 1 :
                 s[k] = longer[i] /\ \A l \in 1 .. m + 1 : s[l] = longer[j] => k < l
    <3>1. i \in DOMAIN list /\ (j \in DOMAIN list \/ j = Len(list) + 1)
      BY <1>4, <2>2, <2>4
    <3>2. CASE j \in DOMAIN list
      <4>1. PICK k \in 1 .. m : s[k] = list[i] /\ \A l \in 1 .. m : s[l] = list[j] => k < l
        BY <2>4, <3>1, <3>2 DEF OnceIn
      <4>2. longer[i] = list[i] /\ longer[j] = list[j]
        BY <1>4, <2>2, <3>1, <3>2
      <4> QED
        BY <1>1, <1>2, <4>1, <4>2, Zenon
    <3>3. CASE j = Len(list) + 1
      <4>1. longer[i] = list[i] /\ longer[j] = v
        BY <1>4, <2>2, <3>1, <3>3
      <4>2. list[i] \in ToSet(list)
        BY <3>1 DEF ToSet
      <4>3. PICK k \in 1 .. m : s[k] = list[i]
        BY <4>2 DEF OnceIn
      <4>4. \A l \in 1 .. m : s[l] # v
        BY <1>7 DEF OnceIn
      <4> QED
        BY <1>1, <1>2, <4>1, <4>3, <4>4, Zenon
    <3> QED
      BY <3>1, <3>2, <3>3
  <2>5. OnceIn(longer, s, m + 1)
    BY <2>3, <2>4 DEF OnceIn
  <2> QED
    BY <2>1, <2>2, <2>5 DEF v
<1> QED
  BY <1>6, <1>7

(* So FirstOccurrences lists each entry once.                               *)
LEMMA FirstOccurrencesAre ==
  ASSUME NEW s \in Seq(Paths)
  PROVE  FirstOccurrences(s) \in Seq(Paths) /\ OnceIn(FirstOccurrences(s), s, Len(s))
<1> DEFINE n == Len(s)
<1>1. n \in Nat /\ \A k \in 1 .. n : s[k] \in Paths
  OBVIOUS
<1>2. PICK f : CollectsOnce(f, s) /\ FirstOccurrences(s) = f[n]
  BY OnceLoop
<1>3. f[0] = <<>> /\ \A k \in 1 .. n : f[k] = AddOnce(f[k - 1], s[k])
  BY <1>2 DEF CollectsOnce
<1> HIDE DEF n
<1> DEFINE T == {k \in 0 .. n : f[k] \in Seq(Paths) /\ OnceIn(f[k], s, k)}
<1>4. 0 \in T
  <2>1. f[0] \in Seq(Paths) /\ DOMAIN f[0] = {} /\ 1 .. 0 = {}
    BY <1>3
  <2>2. OnceIn(f[0], s, 0)
    BY <2>1 DEF OnceIn, ToSet
  <2> QED
    BY <1>1, <2>1, <2>2
<1>5. ASSUME NEW k \in 0 .. n - 1, k \in T PROVE k + 1 \in T
  <2>1. k + 1 \in 1 .. n /\ k + 1 \in 0 .. n /\ k + 1 - 1 = k /\ k \in Nat
    BY <1>1
  <2>2. f[k + 1] = AddOnce(f[k], s[k + 1]) /\ s[k + 1] \in Paths
    BY <1>1, <1>3, <2>1
  <2>3. f[k] \in Seq(Paths) /\ OnceIn(f[k], s, k)
    BY <1>5
  <2>4. f[k + 1] \in Seq(Paths) /\ OnceIn(f[k + 1], s, k + 1)
    BY <2>1, <2>2, <2>3, OnceStep
  <2> QED
    BY <2>1, <2>4
<1> HIDE DEF T
<1>6. 0 .. n \subseteq T
  BY <1>1, <1>4, <1>5, UpTo
<1>7. n \in T
  BY <1>1, <1>6
<1> QED
  BY <1>2, <1>7 DEF T, n

(* The list holds those of the first m entries of s that are of interest,   *)
(* in their order.                                                          *)
KeptIn(list, s, m) ==
  /\ ToSet(list) = {s[i] : i \in 1 .. m} \cap Interesting
  /\ \A i, j \in DOMAIN list : i < j =>
       \E a, b \in 1 .. m : a < b /\ s[a] = list[i] /\ s[b] = list[j]

(* One more entry is kept if it is of interest.                             *)
LEMMA KeptStep ==
  ASSUME NEW s, NEW m \in Nat, s[m + 1] \in Paths, NEW list \in Seq(Paths), KeptIn(list, s, m)
  PROVE  /\ AddInteresting(list, s[m + 1]) \in Seq(Paths)
         /\ KeptIn(AddInteresting(list, s[m + 1]), s, m + 1)
<1> DEFINE v == s[m + 1]
<1>1. \A k \in 1 .. m + 1 : k \in 1 .. m \/ k = m + 1
  OBVIOUS
<1>2. m + 1 \in 1 .. m + 1 /\ (1 .. m) \subseteq 1 .. m + 1 /\ \A k \in 1 .. m : k < m + 1
  OBVIOUS
<1>3. {s[i] : i \in 1 .. m + 1} = {s[i] : i \in 1 .. m} \cup {v}
  BY <1>1, <1>2, Zenon
<1>4. DOMAIN list = 1 .. Len(list) /\ Len(list) \in Nat
  OBVIOUS
<1>5. \A i, j \in DOMAIN list : i < j =>
        \E a, b \in 1 .. m + 1 : a < b /\ s[a] = list[i] /\ s[b] = list[j]
  <2>1. ASSUME NEW i \in DOMAIN list, NEW j \in DOMAIN list, i < j
        PROVE  \E a, b \in 1 .. m + 1 : a < b /\ s[a] = list[i] /\ s[b] = list[j]
    <3>1. PICK a, b \in 1 .. m : a < b /\ s[a] = list[i] /\ s[b] = list[j]
      BY <2>1 DEF KeptIn
    <3> QED
      BY <1>2, <3>1, Zenon
  <2> QED
    BY <2>1
<1> HIDE DEF v
<1>6. CASE v \notin Interesting
  <2>1. AddInteresting(list, v) = list
    BY <1>6 DEF AddInteresting
  <2>2. ToSet(list) = {s[i] : i \in 1 .. m + 1} \cap Interesting
    BY <1>3, <1>6, Zenon DEF KeptIn
  <2>3. KeptIn(list, s, m + 1)
    BY <1>5, <2>2, Zenon DEF KeptIn
  <2> QED
    BY <2>1, <2>3 DEF v
<1>7. CASE v \in Interesting
  <2> DEFINE longer == Append(list, v)
  <2>0. v \in Paths
    BY DEF v
  <2>1. AddInteresting(list, v) = longer
    BY <1>7 DEF AddInteresting
  <2>2. longer \in Seq(Paths) /\ DOMAIN longer = 1 .. Len(list) + 1
          /\ longer[Len(list) + 1] = v /\ \A i \in 1 .. Len(list) : longer[i] = list[i]
    BY <2>0
  <2>3. ToSet(longer) = {s[i] : i \in 1 .. m + 1} \cap Interesting
    <3>1. ToSet(longer) = ToSet(list) \cup {v}
      BY <2>0, AppendAdds
    <3> QED
      BY <1>3, <1>7, <3>1, Zenon DEF KeptIn
  <2> HIDE DEF longer
  <2>4. ASSUME NEW i \in DOMAIN longer, NEW j \in DOMAIN longer, i < j
        PROVE  \E a, b \in 1 .. m + 1 : a < b /\ s[a] = longer[i] /\ s[b] = longer[j]
    <3>1. i \in DOMAIN list /\ (j \in DOMAIN list \/ j = Len(list) + 1)
      BY <1>4, <2>2, <2>4
    <3>2. CASE j \in DOMAIN list
      <4>1. longer[i] = list[i] /\ longer[j] = list[j]
        BY <1>4, <2>2, <3>1, <3>2
      <4> QED
        BY <1>5, <2>4, <3>1, <3>2, <4>1
    <3>3. CASE j = Len(list) + 1
      <4>1. longer[i] = list[i] /\ longer[j] = v
        BY <1>4, <2>2, <3>1, <3>3
      <4>2. list[i] \in ToSet(list)
        BY <3>1 DEF ToSet
      <4>3. PICK k \in 1 .. m : s[k] = list[i]
        BY <4>2 DEF KeptIn
      <4> QED
        BY <1>2, <4>1, <4>3, Zenon DEF v
    <3> QED
      BY <3>1, <3>2, <3>3
  <2>5. KeptIn(longer, s, m + 1)
    BY <2>3, <2>4 DEF KeptIn
  <2> QED
    BY <2>1, <2>2, <2>5 DEF v
<1> QED
  BY <1>6, <1>7

(* So FindInteresting keeps those of interest.                              *)
LEMMA FindInterestingKeeps ==
  ASSUME NEW s \in Seq(Paths)
  PROVE  FindInteresting(s) \in Seq(Paths) /\ KeptIn(FindInteresting(s), s, Len(s))
<1> DEFINE n == Len(s)
<1>1. n \in Nat /\ \A k \in 1 .. n : s[k] \in Paths
  OBVIOUS
<1>2. PICK f : CollectsInteresting(f, s) /\ FindInteresting(s) = f[n]
  BY InterestingLoop
<1>3. f[0] = <<>> /\ \A k \in 1 .. n : f[k] = AddInteresting(f[k - 1], s[k])
  BY <1>2 DEF CollectsInteresting
<1> HIDE DEF n
<1> DEFINE T == {k \in 0 .. n : f[k] \in Seq(Paths) /\ KeptIn(f[k], s, k)}
<1>4. 0 \in T
  <2>1. f[0] \in Seq(Paths) /\ DOMAIN f[0] = {} /\ 1 .. 0 = {}
    BY <1>3
  <2>2. KeptIn(f[0], s, 0)
    BY <2>1 DEF KeptIn, ToSet
  <2> QED
    BY <1>1, <2>1, <2>2
<1>5. ASSUME NEW k \in 0 .. n - 1, k \in T PROVE k + 1 \in T
  <2>1. k + 1 \in 1 .. n /\ k + 1 \in 0 .. n /\ k + 1 - 1 = k /\ k \in Nat
    BY <1>1
  <2>2. f[k + 1] = AddInteresting(f[k], s[k + 1]) /\ s[k + 1] \in Paths
    BY <1>1, <1>3, <2>1
  <2>3. f[k] \in Seq(Paths) /\ KeptIn(f[k], s, k)
    BY <1>5
  <2>4. f[k + 1] \in Seq(Paths) /\ KeptIn(f[k + 1], s, k + 1)
    BY <2>1, <2>2, <2>3, KeptStep
  <2> QED
    BY <2>1, <2>4
<1> HIDE DEF T
<1>6. 0 .. n \subseteq T
  BY <1>1, <1>4, <1>5, UpTo
<1>7. n \in T
  BY <1>1, <1>6
<1> QED
  BY <1>2, <1>7 DEF T, n

-----------------------------------------------------------------------------
(* Places in a set of numbers.  A number larger than all others takes the   *)
(* next place and leaves the others where they are.                         *)
LEMMA NextPlace ==
  ASSUME NEW S \in SUBSET Nat, IsFiniteSet(S), NEW m \in Nat, \A i \in S : i < m
  PROVE  /\ IsFiniteSet(S \cup {m}) /\ Cardinality(S) \in Nat
         /\ Cardinality(S \cup {m}) = Cardinality(S) + 1
         /\ Place(m, S \cup {m}) = Cardinality(S) + 1
         /\ \A i \in S : /\ Place(i, S) \in 1 .. Cardinality(S)
                         /\ Place(i, S \cup {m}) = Place(i, S)
<1>1. m \notin S
  OBVIOUS
<1>2. IsFiniteSet(S \cup {m}) /\ Cardinality(S \cup {m}) = Cardinality(S) + 1
        /\ Cardinality(S) \in Nat
  BY <1>1, FS_AddElement, FS_CardinalityType
<1>3. {j \in S \cup {m} : j <= m} = S \cup {m}
  <2>1. \A j \in S \cup {m} : j <= m
    OBVIOUS
  <2> QED
    BY <2>1, Zenon
<1>4. ASSUME NEW i \in S
      PROVE  Place(i, S) \in 1 .. Cardinality(S) /\ Place(i, S \cup {m}) = Place(i, S)
  <2> DEFINE T == {j \in S : j <= i}
  <2>1. {j \in S \cup {m} : j <= i} = T
    OBVIOUS
  <2>2. T \in SUBSET S /\ i \in T
    OBVIOUS
  <2> HIDE DEF T
  <2>3. IsFiniteSet(T) /\ Cardinality(T) <= Cardinality(S) /\ Cardinality(T) \in Nat
    BY <2>2, FS_Subset, FS_CardinalityType
  <2>4. Cardinality(T) # 0
    BY <2>2, <2>3, FS_EmptySet
  <2>5. Place(i, S \cup {m}) = Cardinality(T) /\ Place(i, S) = Cardinality(T)
    BY <2>1 DEF T, Place
  <2> QED
    BY <1>2, <2>3, <2>4, <2>5
<1> QED
  BY <1>2, <1>3, <1>4 DEF Place

(* Places come in the order of the numbers.                                 *)
LEMMA PlacesInOrder ==
  ASSUME NEW S \in SUBSET Nat, IsFiniteSet(S), NEW i \in S, NEW j \in S,
         Place(i, S) < Place(j, S)
  PROVE  i < j
<1> SUFFICES ASSUME j <= i PROVE FALSE
  OBVIOUS
<1> DEFINE T == {l \in S : l <= i}
           U == {l \in S : l <= j}
<1>1. U \in SUBSET T /\ T \in SUBSET S
  <2>1. \A l \in S : l <= j => l <= i
    OBVIOUS
  <2> QED
    BY <2>1, Zenon
<1>2. Place(i, S) = Cardinality(T) /\ Place(j, S) = Cardinality(U)
  BY DEF Place
<1> HIDE DEF T, U
<1>3. IsFiniteSet(T)
  BY <1>1, FS_Subset
<1>4. IsFiniteSet(U) /\ Cardinality(U) <= Cardinality(T)
  BY <1>1, <1>3, FS_Subset
<1>5. Cardinality(U) \in Nat /\ Cardinality(T) \in Nat
  BY <1>3, <1>4, FS_CardinalityType
<1> QED
  BY <1>2, <1>4, <1>5

(* Lists of the values of lines of c, where every place has its line.       *)
ListsOf(list, S, c) ==
  /\ Len(list) = Cardinality(S)
  /\ \A i \in S : list[Place(i, S)] = c[i].value
  /\ \A p \in 1 .. Len(list) : \E i \in S : Place(i, S) = p

(* No lines, no values.                                                     *)
LEMMA ListsOfNone ==
  ASSUME NEW c
  PROVE  ListsOf(<<>>, {}, c)
<1>1. Cardinality({}) = 0 /\ Len(<<>>) = 0
  BY FS_EmptySet
<1> QED
  BY <1>1 DEF ListsOf

(* A line that is read leaves what was listed, and the value that it names  *)
(* comes last.                                                              *)
LEMMA ListsMore ==
  ASSUME NEW c \in Seq(Lines), NEW line \in Lines, NEW S \in SUBSET (1 .. Len(c)),
         NEW list \in Seq(Paths), ListsOf(list, S, c)
  PROVE  /\ ListsOf(list, S, Append(c, line))
         /\ line.value \in Paths =>
              ListsOf(Append(list, line.value), S \cup {Len(c) + 1}, Append(c, line))
<1> DEFINE n == Len(c)
           d == Append(c, line)
           m == n + 1
           v == line.value
<1>1. n \in Nat /\ m \in Nat /\ d[m] = line /\ \A i \in 1 .. n : d[i] = c[i]
  OBVIOUS
<1>2. S \in SUBSET Nat /\ IsFiniteSet(S) /\ \A i \in S : i < m
  <2>1. IsFiniteSet(1 .. n)
    BY <1>1, FS_Interval
  <2>2. IsFiniteSet(S)
    BY <2>1, FS_Subset
  <2> QED
    BY <1>1, <2>2
<1>3. \A i \in S : d[i] = c[i]
  BY <1>1
<1> HIDE DEF n, d, m
<1>4. ListsOf(list, S, d)
  BY <1>3 DEF ListsOf
<1>5. ASSUME v \in Paths PROVE ListsOf(Append(list, v), S \cup {m}, d)
  <2> DEFINE longer == Append(list, v)
             U == S \cup {m}
  <2>1. Len(longer) = Len(list) + 1 /\ longer[Len(list) + 1] = v /\ Len(list) \in Nat
          /\ \A p \in 1 .. Len(list) : longer[p] = list[p]
    BY <1>5
  <2>2. /\ Cardinality(U) = Cardinality(S) + 1 /\ Place(m, U) = Cardinality(S) + 1
        /\ \A i \in S : Place(i, S) \in 1 .. Cardinality(S) /\ Place(i, U) = Place(i, S)
    BY <1>1, <1>2, NextPlace
  <2>3. \A i \in U : i \in S \/ i = m
    OBVIOUS
  <2>4. S \subseteq U /\ m \in U
    OBVIOUS
  <2> HIDE DEF longer, U, v
  <2>5. Len(longer) = Cardinality(U)
    BY <2>1, <2>2 DEF ListsOf
  <2>6. ASSUME NEW i \in U PROVE longer[Place(i, U)] = d[i].value
    <3>1. CASE i \in S
      <4>1. Place(i, U) = Place(i, S) /\ Place(i, S) \in 1 .. Len(list)
        BY <2>2, <3>1 DEF ListsOf
      <4>2. longer[Place(i, S)] = list[Place(i, S)]
        BY <2>1, <4>1
      <4>3. list[Place(i, S)] = d[i].value
        BY <1>4, <3>1 DEF ListsOf
      <4> QED
        BY <4>1, <4>2, <4>3
    <3>2. CASE i = m
      <4>1. Place(m, U) = Len(list) + 1
        BY <2>2 DEF ListsOf
      <4> QED
        BY <1>1, <2>1, <3>2, <4>1 DEF v
    <3> QED
      BY <2>3, <3>1, <3>2
  <2>7. ASSUME NEW p \in 1 .. Len(longer) PROVE \E i \in U : Place(i, U) = p
    <3>1. CASE p = Len(list) + 1
      BY <2>2, <2>4, <3>1 DEF ListsOf
    <3>2. CASE p # Len(list) + 1
      <4>1. p \in 1 .. Len(list)
        BY <2>1, <3>2
      <4>2. PICK i \in S : Place(i, S) = p
        BY <4>1 DEF ListsOf
      <4> QED
        BY <2>2, <2>4, <4>2
    <3> QED
      BY <3>1, <3>2
  <2> QED
    BY <2>5, <2>6, <2>7 DEF ListsOf, longer, U
<1> QED
  BY <1>4, <1>5 DEF d, m, n

-----------------------------------------------------------------------------
(* What a line adds to what the lines say.                                  *)
Says(line, keyword) == line.keyword = keyword /\ line.value # NoValue

Keywords == {"disallow", "allow", "sitemap", "crawl-delay"}

(* The sections and what is said, with one line more.                       *)
LEMMA LineRead ==
  ASSUME content \in Seq(Lines), NEW line \in Lines, content' = Append(content, line)
  PROVE  /\ Len(content) \in Nat /\ Starts \subseteq 0 .. Len(content)
         /\ \A keyword : SaidBy(keyword) \subseteq 1 .. Len(content)
         /\ content'[Len(content) + 1] = line
         /\ \A i \in 1 .. Len(content) : content'[i] = content[i]
         /\ Starts' = IF line.keyword = "user-agent" THEN Starts \cup {Len(content) + 1}
                      ELSE Starts
         /\ \A keyword : SaidBy(keyword)' =
              IF Says(line, keyword) THEN SaidBy(keyword) \cup {Len(content) + 1}
              ELSE SaidBy(keyword)
<1> DEFINE n == Len(content)
<1>1. n \in Nat /\ DOMAIN content = 1 .. n /\ DOMAIN content' = 1 .. n + 1
        /\ content'[n + 1] = line /\ \A i \in 1 .. n : content'[i] = content[i]
  OBVIOUS
<1>2. 1 .. n + 1 = (1 .. n) \cup {n + 1} /\ n + 1 \notin 1 .. n
  BY <1>1
<1> HIDE DEF n
<1>3. Starts \subseteq 0 .. n /\ \A keyword : SaidBy(keyword) \subseteq 1 .. n
  BY <1>1 DEF Starts, SaidBy
<1>4. Starts' = IF line.keyword = "user-agent" THEN Starts \cup {n + 1} ELSE Starts
  BY <1>1, <1>2 DEF Starts
<1>5. ASSUME NEW keyword
      PROVE  SaidBy(keyword)' =
               IF Says(line, keyword) THEN SaidBy(keyword) \cup {n + 1} ELSE SaidBy(keyword)
  BY <1>1, <1>2 DEF SaidBy, Says
<1> QED
  BY <1>1, <1>3, <1>4, <1>5 DEF n

(* A User-agent line begins a section in which nothing is said yet and      *)
(* leaves the others; any other line adds to the last section only.         *)
LEMMA SectionsOfLine ==
  ASSUME content \in Seq(Lines), NEW line \in Lines, content' = Append(content, line),
         NEW keyword \in Keywords, NEW s \in Starts, NEW n, n = Len(content)
  PROVE  /\ SaidIn(s, keyword) \subseteq 1 .. n
         /\ line.keyword = "user-agent" =>
              /\ SaidIn(s, keyword)' = SaidIn(s, keyword)
              /\ SaidIn(n + 1, keyword)' = {}
         /\ line.keyword # "user-agent" /\ (\A t \in Starts : t <= s) =>
              SaidIn(s, keyword)' =
                IF Says(line, keyword) THEN SaidIn(s, keyword) \cup {n + 1}
                ELSE SaidIn(s, keyword)
         /\ (\E t \in Starts : s < t) => SaidIn(s, keyword)' = SaidIn(s, keyword)
<1>1. /\ n \in Nat /\ Starts \subseteq 0 .. n /\ SaidBy(keyword) \subseteq 1 .. n
      /\ Starts' = IF line.keyword = "user-agent" THEN Starts \cup {n + 1} ELSE Starts
      /\ SaidBy(keyword)' =
           IF Says(line, keyword) THEN SaidBy(keyword) \cup {n + 1} ELSE SaidBy(keyword)
  BY LineRead
<1>2. s \in Int /\ s < n + 1 /\ \A i \in SaidBy(keyword) : i \in Int /\ i < n + 1 /\ ~(n + 1 < i)
  BY <1>1
<1>3. CASE line.keyword = "user-agent"
  <2>1. SaidBy(keyword)' = SaidBy(keyword) /\ Starts' = Starts \cup {n + 1}
    BY <1>1, <1>3 DEF Says, Keywords
  <2>2. SaidIn(s, keyword)' = SaidIn(s, keyword)
    BY <1>2, <2>1 DEF SaidIn
  <2>3. SaidIn(n + 1, keyword)' = {}
    BY <1>2, <2>1 DEF SaidIn
  <2> QED
    BY <1>1, <1>3, <2>2, <2>3 DEF SaidIn
<1>4. CASE line.keyword # "user-agent"
  <2>1. Starts' = Starts
    BY <1>1, <1>4
  <2>2. ASSUME \A t \in Starts : t <= s
        PROVE  SaidIn(s, keyword)' =
                 IF Says(line, keyword) THEN SaidIn(s, keyword) \cup {n + 1}
                 ELSE SaidIn(s, keyword)
    <3>1. \A t \in Starts : ~(s < t)
      BY <1>1, <2>2
    <3>2. SaidIn(s, keyword) = {i \in SaidBy(keyword) : s < i}
      BY <3>1 DEF SaidIn
    <3>3. SaidIn(s, keyword)' = {i \in SaidBy(keyword)' : s < i}
      BY <2>1, <3>1 DEF SaidIn
    <3> QED
      BY <1>1, <1>2, <3>2, <3>3
  <2>3. ASSUME NEW t \in Starts, s < t PROVE SaidIn(s, keyword)' = SaidIn(s, keyword)
    <3>1. ~(n + 1 < t) /\ t < n + 1
      BY <1>1
    <3> QED
      BY <1>1, <2>1, <2>3, <3>1 DEF SaidIn
  <2> QED
    BY <1>1, <1>4, <2>2, <2>3 DEF SaidIn
<1> QED
  BY <1>3, <1>4

(* A rule that was read from its section stays so while nothing more is     *)
(* said in it.                                                              *)
LEMMA ReadFromStays ==
  ASSUME content \in Seq(Lines), NEW line \in Lines, content' = Append(content, line),
         NEW s \in Starts, NEW rule, ReadFrom(rule, s),
         \A keyword \in Keywords : SaidIn(s, keyword)' = SaidIn(s, keyword)
  PROVE  ReadFrom(rule, s)'
<1> DEFINE n == Len(content)
<1>1. n \in Nat /\ s \in 0 .. n /\ \A i \in 1 .. n : content'[i] = content[i]
  BY LineRead
<1>2. \A keyword \in Keywords : SaidIn(s, keyword) \subseteq 1 .. n
  BY SectionsOfLine
<1> HIDE DEF n
<1>3. AgentOf(s)' = AgentOf(s)
  <2>1. s # 0 => s \in 1 .. n
    BY <1>1
  <2>2. s # 0 => content'[s] = content[s]
    BY <1>1, <2>1, Zenon
  <2> QED
    BY <2>2 DEF AgentOf
<1>4. ASSUME NEW keyword \in Keywords, NEW list, Lists(list, SaidIn(s, keyword))
      PROVE  Lists(list, SaidIn(s, keyword))'
  <2>1. \A i \in SaidIn(s, keyword) : content'[i] = content[i]
    BY <1>1, <1>2
  <2>2. SaidIn(s, keyword)' = SaidIn(s, keyword)
    OBVIOUS
  <2> QED
    BY <1>4, <2>1, <2>2 DEF Lists
<1>5. DelayOf(s)' = DelayOf(s)
  <2> DEFINE said == SaidIn(s, "crawl-delay")
  <2>1. said' = said /\ said \in SUBSET (1 .. n)
    BY <1>2 DEF Keywords
  <2>2. CASE said = {}
    BY <2>1, <2>2 DEF DelayOf
  <2>3. CASE said # {}
    <3>1. Max(said) \in said
      BY <1>1, <2>1, <2>3, MaxInside
    <3>2. content'[Max(said)] = content[Max(said)]
      BY <1>1, <2>1, <3>1
    <3> QED
      BY <2>1, <2>3, <3>2 DEF DelayOf
  <2> QED
    BY <2>2, <2>3
<1> QED
  BY <1>3, <1>4, <1>5 DEF ReadFrom, Keywords

-----------------------------------------------------------------------------
(* The section under way, which started at s, and the rules of the sections *)
(* of a set.                                                                *)
UnderWay(s) ==
  /\ \A t \in Starts : t <= s
  /\ current_agent = AgentOf(s)
  /\ ListsOf(current_disallowed, SaidIn(s, "disallow"), content)
  /\ ListsOf(current_allowed, SaidIn(s, "allow"), content)
  /\ ListsOf(current_sitemaps, SaidIn(s, "sitemap"), content)
  /\ current_delay = DelayOf(s)

RulesAre(rs, sections) ==
  /\ Len(rs) = Cardinality(sections)
  /\ \A s \in sections : ReadFrom(rs[Place(s, sections)], s)

(* The rules are those of the sections before the one under way, and after  *)
(* the end of the file of that one too.                                     *)
SectionInv ==
  \E s \in Starts :
    /\ UnderWay(s)
    /\ RulesAre(rules, IF parsed THEN Named ELSE {t \in Named : t < s})

(* All that was said so far is listed, rule by rule and in the section      *)
(* under way; after the end of the file it is in the result.                *)
PathsInv ==
  /\ ~parsed =>
       /\ ListsOf(Joined(rules, "disallowed") \o current_disallowed, SaidBy("disallow"), content)
       /\ ListsOf(Joined(rules, "allowed") \o current_allowed, SaidBy("allow"), content)
       /\ ListsOf(Joined(rules, "sitemaps") \o current_sitemaps, SaidBy("sitemap"), content)
  /\ PathsOnceInOrder

(* ListsOf says more than the property has to.                              *)
LEMMA ListsOfLists ==
  ASSUME NEW list, NEW lines, ListsOf(list, lines, content)
  PROVE  Lists(list, lines)
  BY DEF ListsOf, Lists

(* The file has finitely many lines, so that places can be counted.         *)
LEMMA StartsFinite ==
  ASSUME content \in Seq(Lines)
  PROVE  /\ Starts \in SUBSET Nat /\ IsFiniteSet(Starts) /\ 0 \in Starts
         /\ \A keyword : SaidBy(keyword) \in SUBSET Nat /\ IsFiniteSet(SaidBy(keyword))
<1> DEFINE n == Len(content)
<1>1. n \in Nat /\ DOMAIN content = 1 .. n
  OBVIOUS
<1>2. IsFiniteSet(0 .. n) /\ IsFiniteSet(1 .. n)
  BY <1>1, FS_Interval
<1> HIDE DEF n
<1>3. Starts \in SUBSET (0 .. n) /\ 0 \in Starts
  BY <1>1 DEF Starts
<1>4. \A keyword : SaidBy(keyword) \in SUBSET (1 .. n)
  BY <1>1 DEF SaidBy
<1>5. Starts \in SUBSET Nat /\ IsFiniteSet(Starts)
  <2>1. 0 .. n \subseteq Nat
    BY <1>1
  <2>2. IsFiniteSet(Starts)
    BY <1>2, <1>3, FS_Subset
  <2> QED
    BY <1>3, <2>1, <2>2
<1>6. ASSUME NEW keyword
      PROVE  SaidBy(keyword) \in SUBSET Nat /\ IsFiniteSet(SaidBy(keyword))
  BY <1>1, <1>2, <1>4, FS_Subset
<1> QED
  BY <1>3, <1>5, <1>6

(* Saving adds the section under way to the rules, unless it names nothing. *)
LEMMA SavedAre ==
  ASSUME ParseTypeOK, NEW s \in Starts, UnderWay(s),
         RulesAre(rules, {t \in Named : t < s})
  PROVE  RulesAre(Saved, Named)
<1> DEFINE before == {t \in Named : t < s}
<1>1. content \in Seq(Lines) /\ rules \in Seq(RuleSet) /\ Rule \in RuleSet
  BY SavedTyped DEF ParseTypeOK
<1>2. s \in Nat /\ before \in SUBSET Nat /\ IsFiniteSet(before)
        /\ \A t \in Named : t \in Nat /\ t <= s
  <2>1. Starts \in SUBSET Nat /\ IsFiniteSet(Starts)
    BY <1>1, StartsFinite
  <2>2. before \in SUBSET Starts /\ Named \subseteq Starts
    BY DEF Named
  <2>3. \A t \in Starts : t <= s
    BY DEF UnderWay
  <2> QED
    BY <2>1, <2>2, <2>3, FS_Subset
<1>3. s \notin before /\ \A t \in before : t < s
  BY <1>2
<1>4. Named = IF s \in Named THEN before \cup {s} ELSE before
  <2>1. \A t \in Named : t # s => t < s
    BY <1>2
  <2> QED
    BY <2>1
<1>5. s \in Named <=> <<current_disallowed, current_allowed, current_sitemaps>> # <<<<>>, <<>>, <<>>>>
  <2>1. ASSUME NEW keyword \in Keywords, NEW list \in Seq(Paths),
               ListsOf(list, SaidIn(s, keyword), content)
        PROVE  list = <<>> <=> SaidIn(s, keyword) = {}
    <3>1. IsFiniteSet(SaidIn(s, keyword))
      <4>1. SaidIn(s, keyword) \in SUBSET SaidBy(keyword) /\ IsFiniteSet(SaidBy(keyword))
        BY <1>1, StartsFinite DEF SaidIn
      <4> QED
        BY <4>1, FS_Subset
    <3>2. Cardinality(SaidIn(s, keyword)) = 0 <=> SaidIn(s, keyword) = {}
      BY <3>1, FS_EmptySet
    <3>3. Len(list) = 0 <=> list = <<>>
      OBVIOUS
    <3> QED
      BY <2>1, <3>2, <3>3 DEF ListsOf
  <2>2. current_disallowed = <<>> <=> SaidIn(s, "disallow") = {}
    BY <2>1 DEF UnderWay, ParseTypeOK, Keywords
  <2>3. current_allowed = <<>> <=> SaidIn(s, "allow") = {}
    BY <2>1 DEF UnderWay, ParseTypeOK, Keywords
  <2>4. current_sitemaps = <<>> <=> SaidIn(s, "sitemap") = {}
    BY <2>1 DEF UnderWay, ParseTypeOK, Keywords
  <2> QED
    BY <2>2, <2>3, <2>4 DEF Named
<1> HIDE DEF before
<1>6. RulesAre(rules, before)
  BY DEF before
<1>7. CASE s \notin Named
  BY <1>4, <1>5, <1>6, <1>7 DEF Saved
<1>8. CASE s \in Named
  <2> DEFINE longer == Append(rules, Rule)
  <2>1. Saved = longer /\ Named = before \cup {s}
    BY <1>4, <1>5, <1>8 DEF Saved
  <2>2. Len(longer) = Len(rules) + 1 /\ longer[Len(rules) + 1] = Rule /\ Len(rules) \in Nat
          /\ \A p \in 1 .. Len(rules) : longer[p] = rules[p]
    BY <1>1
  <2>3. /\ Cardinality(Named) = Cardinality(before) + 1 /\ Place(s, Named) = Cardinality(before) + 1
        /\ \A t \in before : /\ Place(t, before) \in 1 .. Cardinality(before)
                             /\ Place(t, Named) = Place(t, before)
    BY <1>2, <1>3, <2>1, NextPlace
  <2> HIDE DEF longer
  <2>4. Len(longer) = Cardinality(Named)
    BY <1>6, <2>2, <2>3 DEF RulesAre
  <2>5. ReadFrom(Rule, s)
    BY ListsOfLists DEF UnderWay, ReadFrom, Rule
  <2>6. ASSUME NEW t \in Named PROVE ReadFrom(longer[Place(t, Named)], t)
    <3>1. CASE t \in before
      <4>1. Place(t, Named) = Place(t, before) /\ Place(t, before) \in 1 .. Len(rules)
        BY <1>6, <2>3, <3>1 DEF RulesAre
      <4>2. longer[Place(t, Named)] = rules[Place(t, before)]
        BY <2>2, <4>1
      <4>3. ReadFrom(rules[Place(t, before)], t)
        BY <1>6, <3>1 DEF RulesAre
      <4> QED
        BY <4>2, <4>3
    <3>2. CASE t = s
      <4>1. Place(s, Named) = Len(rules) + 1
        BY <1>6, <2>3 DEF RulesAre
      <4> QED
        BY <2>2, <2>5, <3>2, <4>1
    <3> QED
      BY <2>1, <3>1, <3>2
  <2> QED
    BY <2>1, <2>4, <2>6 DEF RulesAre
<1> QED
  BY <1>7, <1>8

(* Where a line that is not a User-agent line goes.                         *)
After(list, keyword, line) == IF Says(line, keyword) THEN Append(list, line.value) ELSE list

(* Such a line goes to at most one list or to the delay.                    *)
LEMMA OtherLine ==
  ASSUME NEW line \in Lines,
         Disallow(line) \/ Allow(line) \/ CrawlDelay(line) \/ Sitemap(line) \/ Ignore(line)
  PROVE  /\ line.keyword # "user-agent"
         /\ UNCHANGED <<current_agent, rules>>
         /\ current_disallowed' = After(current_disallowed, "disallow", line)
         /\ current_allowed' = After(current_allowed, "allow", line)
         /\ current_sitemaps' = After(current_sitemaps, "sitemap", line)
         /\ current_delay' = IF Says(line, "crawl-delay") THEN line.value ELSE current_delay
  BY DEF Disallow, Allow, CrawlDelay, Sitemap, Ignore, After, Says, current

(* A list of what was said lists what is said with one line more.           *)
LEMMA ListsAfter ==
  ASSUME content \in Seq(Lines), NEW line \in Lines, content' = Append(content, line),
         NEW keyword \in {"disallow", "allow", "sitemap"},
         NEW S \in SUBSET (1 .. Len(content)), NEW list \in Seq(Paths), ListsOf(list, S, content)
  PROVE  ListsOf(After(list, keyword, line),
                 IF Says(line, keyword) THEN S \cup {Len(content) + 1} ELSE S, content')
<1>1. ListsOf(list, S, content')
  BY ListsMore
<1>2. line.value \in Paths =>
        ListsOf(Append(list, line.value), S \cup {Len(content) + 1}, content')
  BY ListsMore
<1>3. Says(line, keyword) => line.value \in Paths
  BY LineValues DEF Says
<1> QED
  BY <1>1, <1>2, <1>3 DEF After

(* The delay of a section is that of its last line that gives one.          *)
LEMMA DelayAfter ==
  ASSUME content \in Seq(Lines), NEW line \in Lines, content' = Append(content, line),
         line.keyword # "user-agent", NEW s \in Starts, \A t \in Starts : t <= s
  PROVE  DelayOf(s)' = IF Says(line, "crawl-delay") THEN line.value ELSE DelayOf(s)
<1> DEFINE n == Len(content)
           said == SaidIn(s, "crawl-delay")
<1>1. /\ n \in Nat /\ said \in SUBSET (1 .. n)
      /\ said' = IF Says(line, "crawl-delay") THEN said \cup {n + 1} ELSE said
  BY LineRead, SectionsOfLine DEF Keywords
<1>2. content'[n + 1] = line /\ \A i \in 1 .. n : content'[i] = content[i]
  BY LineRead
<1> HIDE DEF n
<1>3. CASE Says(line, "crawl-delay")
  <2>1. Max(said \cup {n + 1}) = n + 1
    BY <1>1, MaxOfPositions
  <2> QED
    BY <1>1, <1>2, <1>3, <2>1 DEF DelayOf
<1>4. CASE ~Says(line, "crawl-delay")
  <2>1. CASE said = {}
    BY <1>1, <1>4, <2>1 DEF DelayOf
  <2>2. CASE said # {}
    <3>1. Max(said) \in said
      BY <1>1, <2>2, MaxInside
    <3>2. content'[Max(said)] = content[Max(said)]
      BY <1>1, <1>2, <3>1
    <3> QED
      BY <1>1, <1>4, <2>2, <3>2 DEF DelayOf
  <2> QED
    BY <2>1, <2>2
<1> QED
  BY <1>3, <1>4

(* The rules of sections in which nothing more is said stay theirs.         *)
LEMMA RulesStay ==
  ASSUME content \in Seq(Lines), NEW line \in Lines, content' = Append(content, line),
         NEW rs, NEW sections \in SUBSET Starts, RulesAre(rs, sections),
         \A s \in sections : \A keyword \in Keywords : SaidIn(s, keyword)' = SaidIn(s, keyword)
  PROVE  RulesAre(rs, sections)'
<1>1. ASSUME NEW s \in sections PROVE ReadFrom(rs[Place(s, sections)], s)'
  <2>1. ReadFrom(rs[Place(s, sections)], s) /\ s \in Starts
    BY DEF RulesAre
  <2>2. \A keyword \in Keywords : SaidIn(s, keyword)' = SaidIn(s, keyword)
    OBVIOUS
  <2> QED
    BY <2>1, <2>2, ReadFromStays
<1> QED
  BY <1>1 DEF RulesAre

(* Before the first line there is one section, which names nothing.         *)
LEMMA SectionInit == ParseInit => SectionInv
<1> SUFFICES ASSUME ParseInit PROVE SectionInv
  OBVIOUS
<1>1. Starts = {0} /\ \A keyword : SaidBy(keyword) = {}
  BY DEF ParseInit, Starts, SaidBy
<1>2. \A keyword : SaidIn(0, keyword) = {}
  BY <1>1 DEF SaidIn
<1>3. UnderWay(0)
  <2>1. current_agent = AgentOf(0) /\ current_delay = DelayOf(0)
    BY <1>2 DEF ParseInit, AgentOf, DelayOf
  <2>2. /\ ListsOf(current_disallowed, SaidIn(0, "disallow"), content)
        /\ ListsOf(current_allowed, SaidIn(0, "allow"), content)
        /\ ListsOf(current_sitemaps, SaidIn(0, "sitemap"), content)
    BY <1>2, ListsOfNone DEF ParseInit
  <2>3. \A t \in Starts : t <= 0
    BY <1>1
  <2> QED
    BY <2>1, <2>2, <2>3 DEF UnderWay
<1>4. {t \in Named : t < 0} = {} /\ ~parsed
  BY <1>1 DEF Named, ParseInit
<1>5. RulesAre(rules, {})
  <2>1. Len(rules) = 0 /\ Cardinality({}) = 0
    BY FS_EmptySet DEF ParseInit
  <2> QED
    BY <2>1 DEF RulesAre
<1> QED
  BY <1>1, <1>3, <1>4, <1>5 DEF SectionInv

(* What is said depends on the file only.                                   *)
LEMMA SameFile ==
  ASSUME content' = content
  PROVE  /\ Starts' = Starts /\ Named' = Named
         /\ \A keyword : SaidBy(keyword)' = SaidBy(keyword)
         /\ \A t, keyword : SaidIn(t, keyword)' = SaidIn(t, keyword)
         /\ \A t : AgentOf(t)' = AgentOf(t) /\ DelayOf(t)' = DelayOf(t)
         /\ \A rs, sections : RulesAre(rs, sections)' <=> RulesAre(rs, sections)
<1>1. Starts' = Starts
  BY DEF Starts
<1>2. ASSUME NEW keyword PROVE SaidBy(keyword)' = SaidBy(keyword)
  BY DEF SaidBy
<1>3. ASSUME NEW t, NEW keyword PROVE SaidIn(t, keyword)' = SaidIn(t, keyword)
  BY <1>1, <1>2 DEF SaidIn
<1>4. ASSUME NEW t PROVE AgentOf(t)' = AgentOf(t) /\ DelayOf(t)' = DelayOf(t)
  BY <1>3 DEF AgentOf, DelayOf
<1>5. ASSUME NEW list, NEW lines PROVE Lists(list, lines)' <=> Lists(list, lines)
  BY DEF Lists
<1>6. ASSUME NEW rule, NEW t PROVE ReadFrom(rule, t)' <=> ReadFrom(rule, t)
  BY <1>3, <1>4, <1>5 DEF ReadFrom
<1>7. ASSUME NEW rs, NEW sections PROVE RulesAre(rs, sections)' <=> RulesAre(rs, sections)
  BY <1>6 DEF RulesAre
<1>8. Named' = Named
  BY <1>1, <1>3 DEF Named
<1> QED
  BY <1>1, <1>2, <1>3, <1>4, <1>7, <1>8

(* A User-agent line begins the next section and saves the one before; the  *)
(* other lines add to the section under way; the end of the file saves it.  *)
LEMMA SectionStep == ParseTypeOK /\ SectionInv /\ [ParseNext]_parse_vars => SectionInv'
<1> SUFFICES ASSUME ParseTypeOK, SectionInv, [ParseNext]_parse_vars PROVE SectionInv'
  OBVIOUS
<1>1. PICK s \in Starts :
        /\ UnderWay(s)
        /\ RulesAre(rules, IF parsed THEN Named ELSE {t \in Named : t < s})
  BY DEF SectionInv
<1>2. content \in Seq(Lines) /\ \A t \in Starts : t <= s
  BY <1>1 DEF ParseTypeOK, UnderWay
<1>3. CASE ReadLine
  <2> DEFINE n == Len(content)
             before == {t \in Named : t < s}
  <2>1. PICK line \in Lines :
          /\ content' = Append(content, line)
          /\ \/ UserAgent(line) \/ Disallow(line) \/ Allow(line)
             \/ CrawlDelay(line) \/ Sitemap(line) \/ Ignore(line)
    BY <1>3 DEF ReadLine
  <2>2. ~parsed /\ ~parsed'
    BY <1>3 DEF ReadLine
  <2>3. /\ n \in Nat /\ Starts \subseteq 0 .. n
        /\ Starts' = IF line.keyword = "user-agent" THEN Starts \cup {n + 1} ELSE Starts
        /\ content'[n + 1] = line /\ \A i \in 1 .. n : content'[i] = content[i]
    BY <1>2, <2>1, LineRead
  <2>4. RulesAre(rules, before)
    BY <1>1, <2>2
  <2>5. Named \subseteq Starts /\ before \subseteq Starts
    BY DEF Named
  <2>6. PICK m : m = n
    OBVIOUS
  <2> HIDE DEF n
  <2>7. CASE UserAgent(line)
    <3>1. Starts' = Starts \cup {m + 1} /\ line.keyword = "user-agent"
      BY <2>3, <2>6, <2>7 DEF UserAgent
    <3>2. \A t \in Starts : \A keyword \in Keywords : SaidIn(t, keyword)' = SaidIn(t, keyword)
      BY <1>2, <2>1, <2>6, <3>1, SectionsOfLine DEF n
    <3>3. \A keyword \in Keywords : SaidIn(m + 1, keyword)' = {}
      BY <1>1, <1>2, <2>1, <2>6, <3>1, SectionsOfLine DEF n
    <3>4. \A t \in Starts : t \in Nat /\ t < m + 1
      BY <2>3, <2>6
    <3>5. {t \in Named' : t < m + 1} = Named
      BY <3>1, <3>2, <3>3, <3>4 DEF Named, Keywords
    <3>6. RulesAre(rules', Named)
      BY <1>1, <2>4, <2>7, SavedAre DEF UserAgent
    <3>7. ASSUME NEW rs, NEW sections, rs = rules', sections = Named
          PROVE  RulesAre(rs, sections)'
      BY <1>2, <2>1, <2>5, <3>2, <3>6, <3>7, RulesStay
    <3>8. RulesAre(rules, {t \in Named : t < m + 1})'
      BY <3>5, <3>7 DEF RulesAre
    <3>9. UnderWay(m + 1)'
      <4>1. \A t \in Starts' : t <= m + 1
        BY <2>3, <2>6, <3>1
      <4>2. current_agent' = AgentOf(m + 1)'
        BY <2>3, <2>6, <2>7 DEF UserAgent, AgentOf
      <4>3. current_delay' = DelayOf(m + 1)'
        BY <2>7, <3>3 DEF UserAgent, DelayOf, Keywords
      <4> QED
        BY <2>7, <3>3, <4>1, <4>2, <4>3, ListsOfNone DEF UserAgent, UnderWay, Keywords
    <3> QED
      BY <2>2, <3>1, <3>8, <3>9 DEF SectionInv
  <2>8. CASE Disallow(line) \/ Allow(line) \/ CrawlDelay(line) \/ Sitemap(line) \/ Ignore(line)
    <3>1. /\ line.keyword # "user-agent" /\ Starts' = Starts
          /\ UNCHANGED <<current_agent, rules>>
          /\ current_disallowed' = After(current_disallowed, "disallow", line)
          /\ current_allowed' = After(current_allowed, "allow", line)
          /\ current_sitemaps' = After(current_sitemaps, "sitemap", line)
          /\ current_delay' = IF Says(line, "crawl-delay") THEN line.value ELSE current_delay
      BY <2>3, <2>8, OtherLine
    <3>2. \A keyword \in Keywords :
            /\ SaidIn(s, keyword) \in SUBSET (1 .. m)
            /\ SaidIn(s, keyword)' =
                 IF Says(line, keyword) THEN SaidIn(s, keyword) \cup {m + 1}
                 ELSE SaidIn(s, keyword)
      BY <1>1, <1>2, <2>1, <2>6, <3>1, SectionsOfLine DEF n
    <3>3. ASSUME NEW t \in Starts, t < s, NEW keyword \in Keywords
          PROVE  SaidIn(t, keyword)' = SaidIn(t, keyword)
      BY <1>1, <1>2, <2>1, <2>6, <3>3, SectionsOfLine DEF n
    <3>4. {t \in Named' : t < s} = before
      BY <2>5, <3>1, <3>3 DEF Named, Keywords
    <3>5. ASSUME NEW rs, NEW sections, rs = rules, sections = before
          PROVE  RulesAre(rs, sections)'
      BY <1>2, <2>1, <2>4, <2>5, <3>3, <3>5, RulesStay
    <3>6. RulesAre(rules, {t \in Named : t < s})'
      BY <3>1, <3>4, <3>5 DEF RulesAre
    <3>7. UnderWay(s)'
      <4>1. \A t \in Starts' : t <= s
        BY <1>2, <3>1
      <4>2. current_agent' = AgentOf(s)'
        <5>1. s # 0 => content'[s] = content[s]
          BY <2>3
        <5> QED
          BY <1>1, <3>1, <5>1 DEF AgentOf, UnderWay
      <4>3. current_delay' = DelayOf(s)'
        BY <1>1, <1>2, <2>1, <3>1, DelayAfter DEF UnderWay
      <4>4. ListsOf(current_disallowed', SaidIn(s, "disallow")', content')
        BY <1>1, <1>2, <2>1, <2>6, <3>1, <3>2, ListsAfter DEF UnderWay, Keywords, ParseTypeOK, n
      <4>5. ListsOf(current_allowed', SaidIn(s, "allow")', content')
        BY <1>1, <1>2, <2>1, <2>6, <3>1, <3>2, ListsAfter DEF UnderWay, Keywords, ParseTypeOK, n
      <4>6. ListsOf(current_sitemaps', SaidIn(s, "sitemap")', content')
        BY <1>1, <1>2, <2>1, <2>6, <3>1, <3>2, ListsAfter DEF UnderWay, Keywords, ParseTypeOK, n
      <4> QED
        BY <4>1, <4>2, <4>3, <4>4, <4>5, <4>6 DEF UnderWay
    <3> QED
      BY <2>2, <3>1, <3>6, <3>7 DEF SectionInv
  <2> QED
    BY <2>1, <2>7, <2>8
<1>4. CASE EndOfFile
  <2>1. ~parsed /\ parsed' /\ rules' = Saved /\ UNCHANGED <<content, current>>
    BY <1>4 DEF EndOfFile
  <2>2. RulesAre(Saved, Named)
    BY <1>1, <2>1, SavedAre
  <2>3. Starts' = Starts /\ Named' = Named
    BY <2>1, SameFile
  <2>4. UnderWay(s)'
    BY <1>1, <2>1, SameFile DEF current, UnderWay
  <2>5. ASSUME NEW rs, NEW sections, rs = Saved, sections = Named PROVE RulesAre(rs, sections)'
    BY <2>1, <2>2, <2>5, SameFile
  <2>6. RulesAre(rules, Named)'
    BY <2>1, <2>3, <2>5 DEF RulesAre
  <2> QED
    BY <2>1, <2>3, <2>4, <2>6 DEF SectionInv
<1>5. CASE UNCHANGED parse_vars
  <2>1. UNCHANGED <<content, current, rules, parsed>>
    BY <1>5 DEF parse_vars
  <2>2. Starts' = Starts /\ Named' = Named
    BY <2>1, SameFile
  <2>3. UnderWay(s)'
    BY <1>1, <2>1, SameFile DEF current, UnderWay
  <2>4. ASSUME NEW rs, NEW sections, rs = rules, RulesAre(rs, sections)
        PROVE  RulesAre(rs, sections)'
    BY <2>1, <2>4, SameFile
  <2>5. RulesAre(rules, IF parsed THEN Named ELSE {t \in Named : t < s})'
    BY <1>1, <2>1, <2>2, <2>4 DEF RulesAre
  <2> QED
    BY <2>2, <2>3, <2>5 DEF SectionInv
<1> QED
  BY <1>3, <1>4, <1>5 DEF ParseNext

(* The rules are the sections of the file, in its order and each read from  *)
(* its own lines only, for every file: no path, sitemap or delay reaches    *)
(* the rule of another section, and only sections that name none are left   *)
(* out (_parse_robots).                                                     *)
THEOREM ParserSectionsReadAlone == ParseSpec => []SectionsReadAlone
<1>1. SectionInv => SectionsReadAlone
  BY DEF SectionInv, SectionsReadAlone, RulesAre
<1> QED
  BY <1>1, ParseTypeInit, ParseTypeStep, SectionInit, SectionStep, PTL DEF ParseSpec

-----------------------------------------------------------------------------
(* Saving moves the lists of the section under way to those of the rules.   *)
LEMMA SavedJoined ==
  ASSUME ParseTypeOK
  PROVE  /\ Joined(Saved, "disallowed") = Joined(rules, "disallowed") \o current_disallowed
         /\ Joined(Saved, "allowed") = Joined(rules, "allowed") \o current_allowed
         /\ Joined(Saved, "sitemaps") = Joined(rules, "sitemaps") \o current_sitemaps
         /\ \A field \in {"disallowed", "allowed", "sitemaps"} :
              Joined(rules, field) \in Seq(Paths)
<1>1. rules \in Seq(RuleSet) /\ Rule \in RuleSet
  BY SavedTyped
<1>2. \A field \in {"disallowed", "allowed", "sitemaps"} :
        /\ Joined(rules, field) \in Seq(Paths)
        /\ Joined(Append(rules, Rule), field) = Joined(rules, field) \o Rule[field]
  BY <1>1, JoinedAppend
<1>3. /\ Rule["disallowed"] = current_disallowed /\ Rule["allowed"] = current_allowed
      /\ Rule["sitemaps"] = current_sitemaps
  BY DEF Rule
<1>4. CASE Saved = Append(rules, Rule)
  BY <1>2, <1>3, <1>4
<1>5. CASE Saved # Append(rules, Rule)
  <2>1. Saved = rules /\ current_disallowed = <<>> /\ current_allowed = <<>>
          /\ current_sitemaps = <<>>
    BY <1>5 DEF Saved
  <2>2. \A list \in Seq(Paths) : list \o <<>> = list
    OBVIOUS
  <2> QED
    BY <1>2, <2>1, <2>2
<1> QED
  BY <1>4, <1>5

(* A list of all that is said loses only what it repeats.                   *)
LEMMA ListedOnce ==
  ASSUME content \in Seq(Lines), NEW keyword, NEW list \in Seq(Paths),
         ListsOf(list, SaidBy(keyword), content)
  PROVE  /\ FirstOccurrences(list) \in Seq(Paths)
         /\ ListsOnce(FirstOccurrences(list), SaidBy(keyword))
<1> DEFINE once == FirstOccurrences(list)
           S == SaidBy(keyword)
<1>1. once \in Seq(Paths) /\ OnceIn(once, list, Len(list))
  BY FirstOccurrencesAre
<1>2. S \in SUBSET Nat /\ IsFiniteSet(S)
  BY StartsFinite
<1> HIDE DEF once, S
<1>3. /\ \A i \in S : Place(i, S) \in 1 .. Len(list) /\ list[Place(i, S)] = content[i].value
      /\ \A p \in 1 .. Len(list) : \E i \in S : Place(i, S) = p /\ content[i].value = list[p]
  <2>1. ASSUME NEW i \in S PROVE Place(i, S) \in 1 .. Len(list)
    <3> DEFINE T == {j \in S : j <= i}
    <3>1. i \in T /\ T \in SUBSET S
      BY <1>2
    <3>2. Place(i, S) = Cardinality(T)
      BY DEF Place
    <3> HIDE DEF T
    <3>3. IsFiniteSet(T) /\ Cardinality(T) <= Cardinality(S)
      BY <1>2, <3>1, FS_Subset
    <3>4. Cardinality(T) \in Nat /\ Cardinality(S) \in Nat /\ Cardinality(T) # 0
      BY <1>2, <3>1, <3>3, FS_CardinalityType, FS_EmptySet
    <3> QED
      BY <3>2, <3>3, <3>4 DEF ListsOf, S
  <2> QED
    BY <2>1 DEF ListsOf, S
<1>4. ToSet(once) = {content[i].value : i \in S}
  <2>1. {list[p] : p \in 1 .. Len(list)} = {content[i].value : i \in S}
    BY <1>3
  <2> QED
    BY <1>1, <2>1 DEF OnceIn
<1>5. ASSUME NEW i \in DOMAIN once, NEW j \in DOMAIN once, i < j
      PROVE  \E k \in S : /\ content[k].value = once[i]
                          /\ \A l \in S : content[l].value = once[j] => k < l
  <2>1. PICK p \in 1 .. Len(list) :
          list[p] = once[i] /\ \A q \in 1 .. Len(list) : list[q] = once[j] => p < q
    BY <1>1, <1>5 DEF OnceIn
  <2>2. PICK k \in S : Place(k, S) = p /\ content[k].value = list[p]
    BY <1>3
  <2>3. ASSUME NEW l \in S, content[l].value = once[j] PROVE k < l
    <3>1. Place(k, S) < Place(l, S)
      BY <1>3, <2>1, <2>2, <2>3
    <3> QED
      BY <1>2, <3>1, PlacesInOrder
  <2> QED
    BY <2>1, <2>2, <2>3
<1> QED
  BY <1>1, <1>4, <1>5 DEF ListsOnce, once, S

(* The same for those of interest, which are taken from the list without    *)
(* repetitions.                                                             *)
LEMMA InterestingOnce ==
  ASSUME NEW once \in Seq(Paths), NEW S, ListsOnce(once, S)
  PROVE  ListsOnce(FindInteresting(once), {i \in S : content[i].value \in Interesting})
<1> DEFINE kept == FindInteresting(once)
           T == {i \in S : content[i].value \in Interesting}
<1>1. kept \in Seq(Paths) /\ KeptIn(kept, once, Len(once))
  BY FindInterestingKeeps
<1>2. DOMAIN once = 1 .. Len(once) /\ ToSet(once) = {once[i] : i \in 1 .. Len(once)}
  BY DEF ToSet
<1> HIDE DEF kept
<1>3. ToSet(kept) = {content[i].value : i \in T}
  <2>1. ToSet(kept) = {content[i].value : i \in S} \cap Interesting
    BY <1>1, <1>2 DEF KeptIn, ListsOnce
  <2>2. {content[i].value : i \in S} \cap Interesting = {content[i].value : i \in T}
    OBVIOUS
  <2> QED
    BY <2>1, <2>2
<1>4. ASSUME NEW i \in DOMAIN kept, NEW j \in DOMAIN kept, i < j
      PROVE  \E k \in T : /\ content[k].value = kept[i]
                          /\ \A l \in T : content[l].value = kept[j] => k < l
  <2>1. PICK a, b \in 1 .. Len(once) : a < b /\ once[a] = kept[i] /\ once[b] = kept[j]
    BY <1>1, <1>4 DEF KeptIn
  <2>2. PICK k \in S : /\ content[k].value = once[a]
                       /\ \A l \in S : content[l].value = once[b] => k < l
    BY <1>2, <2>1 DEF ListsOnce
  <2>3. kept[i] \in Interesting
    <3>1. kept[i] \in ToSet(kept)
      BY DEF ToSet
    <3> QED
      BY <1>1, <3>1 DEF KeptIn
  <2> QED
    BY <2>1, <2>2, <2>3
<1> QED
  BY <1>3, <1>4 DEF ListsOnce, kept

(* Nothing is said and nothing listed.                                      *)
LEMMA PathsInit == ParseInit => PathsInv
<1> SUFFICES ASSUME ParseInit PROVE PathsInv
  OBVIOUS
<1>1. \A keyword : SaidBy(keyword) = {}
  BY DEF ParseInit, SaidBy
<1>2. \A field \in {"disallowed", "allowed", "sitemaps"} : Joined(rules, field) \o <<>> = <<>>
  <2>1. <<>> \o <<>> = <<>>
    OBVIOUS
  <2> QED
    BY <2>1, JoinedNone DEF ParseInit
<1>3. /\ current_disallowed = <<>> /\ current_allowed = <<>> /\ current_sitemaps = <<>>
      /\ ~parsed
  BY DEF ParseInit
<1> QED
  BY <1>1, <1>2, <1>3, ListsOfNone DEF PathsInv, PathsOnceInOrder

(* Every line said is listed at the end of its list, in the section under   *)
(* way; saving that section and collecting move the lists and keep them.    *)
LEMMA PathsStep == ParseTypeOK /\ PathsInv /\ [ParseNext]_parse_vars => PathsInv'
<1> SUFFICES ASSUME ParseTypeOK, PathsInv, [ParseNext]_parse_vars PROVE PathsInv'
  OBVIOUS
<1> DEFINE Fields == {"disallowed", "allowed", "sitemaps"}
<1>1. /\ content \in Seq(Lines)
      /\ current_disallowed \in Seq(Paths)
      /\ current_allowed \in Seq(Paths)
      /\ current_sitemaps \in Seq(Paths)
      /\ \A field \in Fields : Joined(rules, field) \in Seq(Paths)
  BY SavedJoined DEF ParseTypeOK
<1>2. \A list, more \in Seq(Paths) : list \o more \in Seq(Paths)
  OBVIOUS
<1>3. CASE ReadLine
  <2> DEFINE n == Len(content)
  <2>1. PICK line \in Lines :
          /\ content' = Append(content, line)
          /\ \/ UserAgent(line) \/ Disallow(line) \/ Allow(line)
             \/ CrawlDelay(line) \/ Sitemap(line) \/ Ignore(line)
    BY <1>3 DEF ReadLine
  <2>2. ~parsed /\ ~parsed'
    BY <1>3 DEF ReadLine
  <2>3. \A keyword :
          /\ SaidBy(keyword) \in SUBSET (1 .. n)
          /\ SaidBy(keyword)' =
               IF Says(line, keyword) THEN SaidBy(keyword) \cup {n + 1} ELSE SaidBy(keyword)
    BY <1>1, <2>1, LineRead
  <2>4. ASSUME NEW keyword \in {"disallow", "allow", "sitemap"}, NEW field \in Fields,
               NEW list \in Seq(Paths),
               ListsOf(Joined(rules, field) \o list, SaidBy(keyword), content)
        PROVE  /\ line.keyword # "user-agent" =>
                    ListsOf(Joined(rules, field) \o After(list, keyword, line),
                            SaidBy(keyword)', content')
               /\ line.keyword = "user-agent" =>
                    ListsOf(Joined(rules, field) \o list, SaidBy(keyword)', content')
    <3> DEFINE all == Joined(rules, field) \o list
    <3>1. all \in Seq(Paths)
      BY <1>1, <1>2
    <3>2. ListsOf(After(all, keyword, line), SaidBy(keyword)', content')
      BY <1>1, <2>1, <2>3, <2>4, <3>1, ListsAfter
    <3>3. line.keyword = "user-agent" => ~Says(line, keyword)
      BY DEF Says
    <3>4. After(all, keyword, line) = Joined(rules, field) \o After(list, keyword, line)
      <4>1. CASE ~Says(line, keyword)
        BY <4>1 DEF After
      <4>2. CASE Says(line, keyword)
        <5>1. line.value \in Paths
          BY <4>2, LineValues DEF Says
        <5>2. ASSUME NEW x \in Seq(Paths), NEW y \in Seq(Paths)
              PROVE  Append(x \o y, line.value) = x \o Append(y, line.value)
          <6> DEFINE one == <<line.value>>
          <6>1. one \in Seq(Paths) /\ x \o y \in Seq(Paths)
            BY <1>2, <5>1
          <6>2. \A z \in Seq(Paths) : Append(z, line.value) = z \o one
            BY <5>1
          <6> HIDE DEF one
          <6>3. (x \o y) \o one = x \o (y \o one)
            BY <6>1, ConcatAssociative
          <6> QED
            BY <6>1, <6>2, <6>3
        <5>3. Append(all, line.value) = Joined(rules, field) \o Append(list, line.value)
          BY <1>1, <5>2
        <5> QED
          BY <4>2, <5>3 DEF After
      <4> QED
        BY <4>1, <4>2
    <3> QED
      BY <3>2, <3>3, <3>4 DEF After
  <2>5. CASE UserAgent(line)
    <3>1. line.keyword = "user-agent" /\ rules' = Saved /\ current_disallowed' = <<>>
            /\ current_allowed' = <<>> /\ current_sitemaps' = <<>>
      BY <2>5 DEF UserAgent
    <3>2. \A list \in Seq(Paths) : list \o <<>> = list
      OBVIOUS
    <3>3. Joined(Saved, "disallowed") \o <<>> = Joined(rules, "disallowed") \o current_disallowed
      BY <1>1, <1>2, <3>2, SavedJoined
    <3>4. Joined(Saved, "allowed") \o <<>> = Joined(rules, "allowed") \o current_allowed
      BY <1>1, <1>2, <3>2, SavedJoined
    <3>5. Joined(Saved, "sitemaps") \o <<>> = Joined(rules, "sitemaps") \o current_sitemaps
      BY <1>1, <1>2, <3>2, SavedJoined
    <3> QED
      BY <1>1, <2>2, <2>4, <3>1, <3>3, <3>4, <3>5 DEF PathsInv, PathsOnceInOrder
  <2>6. CASE Disallow(line) \/ Allow(line) \/ CrawlDelay(line) \/ Sitemap(line) \/ Ignore(line)
    <3>1. /\ line.keyword # "user-agent" /\ rules' = rules
          /\ current_disallowed' = After(current_disallowed, "disallow", line)
          /\ current_allowed' = After(current_allowed, "allow", line)
          /\ current_sitemaps' = After(current_sitemaps, "sitemap", line)
      BY <2>6, OtherLine
    <3> QED
      BY <1>1, <2>2, <2>4, <3>1 DEF PathsInv, PathsOnceInOrder
  <2> QED
    BY <2>1, <2>5, <2>6
<1>4. CASE EndOfFile
  <2>1. ~parsed /\ parsed' /\ content' = content
    BY <1>4 DEF EndOfFile
  <2>2. \A keyword : SaidBy(keyword)' = SaidBy(keyword)
    BY <2>1, SameFile
  <2>3. /\ result'.disallowed = FirstOccurrences(Joined(Saved, "disallowed"))
        /\ result'.allowed = FirstOccurrences(Joined(Saved, "allowed"))
        /\ result'.sitemaps = FirstOccurrences(Joined(Saved, "sitemaps"))
        /\ result'.interesting = FindInteresting(result'.disallowed)
    BY <1>4 DEF EndOfFile
  <2>4. /\ ListsOf(Joined(Saved, "disallowed"), SaidBy("disallow"), content)
        /\ ListsOf(Joined(Saved, "allowed"), SaidBy("allow"), content)
        /\ ListsOf(Joined(Saved, "sitemaps"), SaidBy("sitemap"), content)
    BY <2>1, SavedJoined DEF PathsInv
  <2>5. /\ Joined(Saved, "disallowed") \in Seq(Paths)
        /\ Joined(Saved, "allowed") \in Seq(Paths)
        /\ Joined(Saved, "sitemaps") \in Seq(Paths)
    BY <1>1, <1>2, SavedJoined
  <2>6. /\ result'.disallowed \in Seq(Paths)
        /\ ListsOnce(result'.disallowed, SaidBy("disallow"))
        /\ ListsOnce(result'.allowed, SaidBy("allow"))
        /\ ListsOnce(result'.sitemaps, SaidBy("sitemap"))
    BY <1>1, <2>3, <2>4, <2>5, ListedOnce
  <2>7. ListsOnce(result'.interesting,
                  {i \in SaidBy("disallow") : content[i].value \in Interesting})
    BY <2>3, <2>6, InterestingOnce
  <2> QED
    BY <2>1, <2>2, <2>6, <2>7 DEF PathsInv, PathsOnceInOrder, ListsOnce
<1>5. CASE UNCHANGED parse_vars
  <2>1. UNCHANGED <<content, current_disallowed, current_allowed, current_sitemaps, rules,
                    parsed, result>>
    BY <1>5 DEF parse_vars, current
  <2>2. \A keyword : SaidBy(keyword)' = SaidBy(keyword)
    BY <2>1, SameFile
  <2> QED
    BY <2>1, <2>2 DEF PathsInv, PathsOnceInOrder, ListsOnce
<1> QED
  BY <1>3, <1>4, <1>5 DEF ParseNext

(* The result lists every path and sitemap that the file names once, where  *)
(* it first names it, for every file and however the agents share it; and   *)
(* so it does those of interest (run, _find_interesting_paths).             *)
THEOREM ParserPathsOnce == ParseSpec => []PathsOnceInOrder
<1>1. PathsInv => PathsOnceInOrder
  BY DEF PathsInv
<1> QED
  BY <1>1, ParseTypeInit, ParseTypeStep, PathsInit, PathsStep, PTL DEF ParseSpec
=============================================================================
