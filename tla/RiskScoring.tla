----------------------------- MODULE RiskScoring -----------------------------
(***************************************************************************)
(* RiskScoringEngine.run (src/reconforgex/modules/risk_scoring.py) over any *)
(* results: one action per result of the four loops, with the policy of     *)
(* each CSP result read by CspPolicy, then the weighted score and its       *)
(* grade.  The results come one after another from the sets below, as many  *)
(* as MaxResults.                                                           *)
(*                                                                         *)
(* Deductions are in hundredths of a point, category scores in tenths, the  *)
(* overall score in 1/200 of a point: all exact.  The program computes it   *)
(* in floating point, where a score that is exactly a threshold can come    *)
(* out just below: such a score has either grade.                           *)
(***************************************************************************)
EXTENDS CspPolicy, Sums

CONSTANTS FindingLists, \* the severities of the findings of a header or secret result
          Compliances,  \* compliance scores in tenths, 0 .. 1000
          TlsResults,   \* [error, expired, self_signed : BOOLEAN, days : Int]
          Parts,        \* [name, values]: the directives a policy may hold
          Dicts,        \* may a result be a dict, which has no attributes?
          MaxResults,   \* bound: results read
          MaxParts      \* bound: directives of one policy

ASSUME PartsAssumption == \A part \in Parts : part.values \in Seq(Values)
ASSUME FindingListsAssumption == FindingLists \subseteq Seq(STRING)
ASSUME CompliancesAssumption == Compliances \subseteq 0 .. 1000
ASSUME DictsAssumption == Dicts \in BOOLEAN
ASSUME BoundsAssumption == MaxResults \in Nat /\ MaxParts \in Nat

VARIABLES pc,              \* the category scored, "done" or "failed"
          read,            \* results read
          policy,          \* of the CSP result under way; NoPolicy between two
          total_score,     \* of the category under way
          factors,         \* all_factors: [category, severity, score]
          category_scores, \* of the categories already scored
          result           \* [overall, level]; NoResult before

vars == <<pc, read, policy, total_score, factors, category_scores, result>>

Categories == <<"security_headers", "tls", "csp", "secrets">>

NoPolicy == [under_way |-> FALSE, parts |-> 0, directives |-> Empty, report_only |-> FALSE]
NoResult == [overall |-> 0, level |-> "none"]

Severity == [critical |-> 2500, high |-> 1500, medium |-> 800, low |-> 300, info |-> 100]

Penalty(severity) == IF severity \in DOMAIN Severity THEN Severity[severity] ELSE 500

Weight == [security_headers |-> 6, tls |-> 5, csp |-> 5, secrets |-> 4]

Init ==
  /\ pc = Categories[1]
  /\ read = 0
  /\ policy = NoPolicy
  /\ total_score = 10000
  /\ factors = <<>>
  /\ category_scores = [c \in {} |-> 0]
  /\ result = NoResult

(* One factor and its deduction for each severity and score given.          *)
Deduct(found) ==
  /\ factors' = factors \o [i \in DOMAIN found |->
       [category |-> pc, severity |-> found[i][1], score |-> found[i][2]]]
  /\ total_score' = total_score - Total([i \in DOMAIN found |-> found[i][2]])

(* The next result of a category's list.                                    *)
Read(category) ==
  /\ pc = category
  /\ ~policy.under_way
  /\ read < MaxResults
  /\ read' = read + 1
  /\ UNCHANGED <<pc, policy, category_scores, result>>

Findings(severities) ==
  [i \in DOMAIN severities |-> <<severities[i], Penalty(severities[i])>>]

(* A result of HeaderAnalyzer has findings, one of SecurityHeaderScanner a  *)
(* compliance score, and a dict, which has neither, costs nothing.          *)
HeaderResult ==
  /\ Read("security_headers")
  /\ \/ \E severities \in FindingLists : Deduct(Findings(severities))
     \/ /\ \E c \in Compliances : total_score' = total_score - (1000 - c) * 3
        /\ UNCHANGED factors
     \/ Dicts /\ UNCHANGED <<total_score, factors>>

TlsFindings(r) ==
  IF r.error THEN <<<<"high", 1500>>>>
  ELSE (IF r.expired THEN <<<<"critical", 2500>>>> ELSE <<>>)
         \o (IF r.self_signed THEN <<<<"medium", 1000>>>> ELSE <<>>)
         \o (IF 0 < r.days /\ r.days < 30 THEN <<<<"medium", 800>>>> ELSE <<>>)

TlsResult == Read("tls") /\ \E r \in TlsResults : Deduct(TlsFindings(r))

SecretResult ==
  Read("secrets") /\ \E severities \in FindingLists : Deduct(Findings(severities))

CspFindings(a) ==
  (IF a.score < 50 THEN <<<<"high", 1500>>>> ELSE <<>>)
    \o [i \in 1 .. a.weaknesses |-> <<"medium", 500>>]

(* A response without any of the two headers.                               *)
CspAbsent == Read("csp") /\ Deduct(CspFindings(NoHeader))

(* A response with a policy: the first of the two headers found counts.     *)
CspHeader ==
  /\ pc = "csp" /\ ~policy.under_way
  /\ read < MaxResults
  /\ \E b \in BOOLEAN : policy' = [NoPolicy EXCEPT !.under_way = TRUE, !.report_only = b]
  /\ UNCHANGED <<pc, read, total_score, factors, category_scores, result>>

CspPart(part) ==
  /\ policy.under_way
  /\ policy.parts < MaxParts
  /\ policy' = [policy EXCEPT !.parts = @ + 1, !.directives = Parsed(@, part)]
  /\ UNCHANGED <<pc, read, total_score, factors, category_scores, result>>

CspResult ==
  /\ policy.under_way
  /\ read' = read + 1
  /\ policy' = NoPolicy
  /\ Deduct(CspFindings(Analysis(policy.directives, policy.report_only)))
  /\ UNCHANGED <<pc, category_scores, result>>

(* A dict where attributes are read raises: run() swallows the exception    *)
(* and returns no result.                                                   *)
Raise ==
  /\ Dicts
  /\ pc \in {"tls", "csp", "secrets"} /\ ~policy.under_way
  /\ read < MaxResults
  /\ pc' = "failed"
  /\ UNCHANGED <<read, policy, total_score, factors, category_scores, result>>

Capped(total) == IF total < 0 THEN 0 ELSE total

(* round(score, 1): either neighbour of a tie.                              *)
Rounded(hundredths) == {t \in {hundredths \div 10, hundredths \div 10 + 1} :
                          10 * t - hundredths \in -5 .. 5}

(* Mutant: the deductions of a category are carried over to the next. *)
MutEndCategoryCarriesOver ==
  /\ \E i \in DOMAIN Categories :
       /\ pc = Categories[i]
       /\ ~policy.under_way
       /\ pc' = IF i = Len(Categories) THEN "weigh" ELSE Categories[i + 1]
  /\ \E t \in Rounded(Capped(total_score)) :
       category_scores' = [c \in DOMAIN category_scores \cup {pc} |->
                             IF c = pc THEN t ELSE category_scores[c]]
  /\ UNCHANGED <<read, policy, total_score, factors, result>>

(* The end of a category: its score, and on to the next.                    *)
EndCategory ==
  /\ \E i \in DOMAIN Categories :
       /\ pc = Categories[i]
       /\ ~policy.under_way
       /\ pc' = IF i = Len(Categories) THEN "weigh" ELSE Categories[i + 1]
  /\ \E t \in Rounded(Capped(total_score)) :
       category_scores' = [c \in DOMAIN category_scores \cup {pc} |->
                             IF c = pc THEN t ELSE category_scores[c]]
  /\ total_score' = 10000
  /\ UNCHANGED <<read, policy, factors, result>>

Lost(c) == (1000 - category_scores[c]) * Weight[c]

Overall == 20000 - Lost("security_headers") - Lost("tls") - Lost("csp") - Lost("secrets")

Thresholds == <<<<18000, "Secure">>, <<14000, "Low Risk">>, <<10000, "Medium Risk">>,
                <<6000, "High Risk">>, <<0, "Critical Risk">>>>

(* The grades a score of s may get: that of the first threshold reached.    *)
Levels(s) ==
  {Thresholds[i][2] : i \in {j \in DOMAIN Thresholds :
     /\ s >= Thresholds[j][1]
     /\ \A k \in 1 .. j - 1 : s <= Thresholds[k][1]}}

Weigh ==
  /\ pc = "weigh"
  /\ pc' = "done"
  /\ LET s == IF Overall < 0 THEN 0 ELSE Overall IN
     \E level \in Levels(s) : result' = [overall |-> s, level |-> level]
  /\ UNCHANGED <<read, policy, total_score, factors, category_scores>>

Next ==
  \/ HeaderResult \/ TlsResult \/ SecretResult
  \/ CspAbsent \/ CspHeader \/ CspResult \/ \E part \in Parts : CspPart(part)
  \/ Raise \/ EndCategory \/ Weigh

Spec == Init /\ [][Next]_vars

-----------------------------------------------------------------------------
CategorySet == {Categories[i] : i \in DOMAIN Categories}

Blamed(c) ==
  Total([i \in DOMAIN factors |-> IF factors[i].category = c THEN factors[i].score ELSE 0])

(* The listed factors explain the score: each category lost what its own    *)
(* factors say, down to zero at most, and the overall score lost of every   *)
(* category at most its weight, however many findings it has; a category    *)
(* without findings cost nothing.  (Of the headers the factors explain a    *)
(* part: a low compliance score is no factor.)                              *)
FactorsExplainScore ==
  pc = "done" =>
    /\ DOMAIN category_scores = CategorySet
    /\ \A c \in CategorySet :
         LET explained == Capped(10000 - Blamed(c)) IN
         IF c = "security_headers" THEN 10 * category_scores[c] <= explained + 5
                                   ELSE 10 * category_scores[c] = explained
    /\ LET hit == {c \in CategorySet : category_scores[c] < 1000} IN
         20000 - result.overall \in 0 .. Total([i \in DOMAIN Categories |->
           IF Categories[i] \in hit THEN 1000 * Weight[Categories[i]] ELSE 0])

(* A directive that the policy lacks and that allows nothing known to be    *)
(* harmful.                                                                 *)
Clean(part) ==
  /\ part.name \notin DOMAIN policy.directives
  /\ ~Contains(part.values, "jsonp")
  /\ part.name \in {"script-src", "style-src"} => ~Contains(part.values, "host")
  /\ part.name = "script-src" => ~Contains(part.values, "'unsafe-inline'")

(* What the findings of an analysis take from the category's score.         *)
Cost(a) == (IF a.score < 50 THEN 1500 ELSE 0) + 500 * a.weaknesses

(* Naming one more directive, without harmful values, never makes a site    *)
(* look worse: neither does the policy's own score fall nor what it takes   *)
(* from the risk score grow.                                                *)
CleanDirectiveNeverCosts ==
  [][\A part \in Parts : CspPart(part) /\ Clean(part) =>
       LET before == Analysis(policy.directives, policy.report_only)
           after == Analysis(policy'.directives, policy'.report_only)
       IN after.score >= before.score /\ Cost(after) <= Cost(before)]_vars
=============================================================================
