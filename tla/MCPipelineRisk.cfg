CONSTANTS
  Stages = {"header_analyzer", "tls_inspector", "js_collector", "js_secret_detector", "risk_scoring", "report_builder"}
  MaxRuns = 1
SPECIFICATION Spec
INVARIANTS CompletedRiskIsScored
\* after the last run the program stops
CHECK_DEADLOCK FALSE
