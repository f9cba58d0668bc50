------------------------------ MODULE CspPolicy ------------------------------
(***************************************************************************)
(* _parse_csp, _evaluate_csp and the choice of the header in run() of       *)
(* src/reconforgex/modules/csp_analyzer.py: the score of the Content        *)
(* Security Policy of one response.  A policy is a function from the        *)
(* directives it names to their lists of values; a value stands for the     *)
(* test it passes: "host" begins with https:// and has two dots or more,    *)
(* "jsonp" holds that word, "'nonce-" is a nonce.  What _analyze_directive  *)
(* notes about a value has no part in the score and is left out.            *)
(***************************************************************************)
EXTENDS Integers, FiniteSets, SequencesExt

(* The directives whose absence is a weakness.                              *)
Essential == {"default-src", "script-src", "object-src", "base-uri",
              "frame-ancestors", "form-action"}

(* The classes of values; every value is of one that it passes the test of. *)
Values == {"*", "'none'", "'unsafe-inline'", "'strict-dynamic'", "'nonce-", "host",
           "jsonp", "other"}

Empty == [n \in {} |-> <<>>]

(* Mutant: the first of several directives of one name stands. *)
MutParsedFirstWins(directives, part) ==
  [n \in DOMAIN directives \cup {part.name} |->
     IF n \in DOMAIN directives THEN directives[n]
     ELSE IF part.values = <<>> THEN <<"*">> ELSE part.values]

(* One part of the header: a directive without values allows everything,    *)
(* one named again replaces the earlier.                                    *)
Parsed(directives, part) ==
  [n \in DOMAIN directives \cup {part.name} |->
     IF n # part.name THEN directives[n]
     ELSE IF part.values = <<>> THEN <<"*">> ELSE part.values]

Has(directives, name, value) ==
  name \in DOMAIN directives /\ Contains(directives[name], value)

(* A nonce or strict-dynamic makes browsers ignore unsafe-inline.           *)
InlineAllowed(directives) ==
  /\ Has(directives, "script-src", "'unsafe-inline'")
  /\ ~Has(directives, "script-src", "'strict-dynamic'")
  /\ ~Has(directives, "script-src", "'nonce-")

Weaknesses(directives, reportOnly) ==
  (Essential \ DOMAIN directives)
    \cup {w \in {"no reporting"} : {"report-uri", "report-to"} \cap DOMAIN directives = {}}
    \cup {w \in {"unsafe-inline"} : InlineAllowed(directives)}
    \cup {w \in {"report-only"} : reportOnly}

(* Mutant: a host is counted in every directive. *)
MutBypassesAnyDirective(directives) ==
  {<<n, 0>> : n \in {m \in DOMAIN directives : Contains(directives[m], "jsonp")}}
    \cup {b \in UNION {{n} \X DOMAIN directives[n] : n \in DOMAIN directives} :
            directives[b[1]][b[2]] = "host"}

Bypasses(directives) ==
  {<<n, 0>> : n \in {m \in DOMAIN directives : Contains(directives[m], "jsonp")}}
    \cup {b \in UNION {{n} \X DOMAIN directives[n] :
                         n \in DOMAIN directives \cap {"script-src", "style-src"}} :
            directives[b[1]][b[2]] = "host"}

Score(directives, reportOnly) ==
  LET left == 100 - 10 * Cardinality(Weaknesses(directives, reportOnly))
                  - (IF reportOnly THEN 20 ELSE 0)
                  - 5 * Cardinality(Bypasses(directives))
  IN IF left < 0 THEN 0 ELSE left

(* The analysis of a response: its score and the number of its weaknesses.  *)
Analysis(directives, reportOnly) ==
  [score |-> Score(directives, reportOnly),
   weaknesses |-> Cardinality(Weaknesses(directives, reportOnly))]

NoHeader == [score |-> 0, weaknesses |-> 1]
=============================================================================
