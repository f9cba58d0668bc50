---------------------------- MODULE MCRiskScoring ----------------------------
(* Lists of findings on both sides of a category's cap, every kind of        *)
(* certificate around the boundaries of its validity, and the directives     *)
(* that _evaluate_csp tells apart.                                           *)
EXTENDS RiskScoring

MCFindingLists ==
  {<<>>, <<"low">>, <<"high", "unknown">>,
   <<"critical", "critical", "critical", "critical", "info">>}

MCTlsResults ==
  [error : {FALSE}, expired : {FALSE}, self_signed : BOOLEAN, days : {0, 1, 29, 30}]
    \cup [error : {FALSE}, expired : {TRUE}, self_signed : BOOLEAN, days : {-1, 0}]
    \cup [error : {TRUE}, expired : {FALSE}, self_signed : {FALSE}, days : {0}]

MCParts ==
  [name : {"script-src"}, values : {<<>>, <<"'unsafe-inline'">>, <<"'unsafe-inline'", "'nonce-">>,
                                    <<"host", "host", "jsonp">>}]
    \cup [name : {"default-src", "object-src", "report-uri", "report-to", "form-action"},
          values : {<<"'none'">>}]
    \cup [name : {"style-src", "img-src"}, values : {<<"host">>}]
=============================================================================
