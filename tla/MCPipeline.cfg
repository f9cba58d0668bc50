CONSTANTS
  Stages = {"header_analyzer", "tls_inspector", "js_collector", "js_endpoint_extractor",
            "js_secret_detector", "risk_scoring", "report_builder"}
  MaxRuns = 2
SPECIFICATION Spec
INVARIANTS TypeOK InputsFinal InputsOfThisRun ReportListsEveryStage ReportsWrittenInOrder ClientsClosed
PROPERTIES RunEnds ImplementsGraph
\* after the last run the program stops
CHECK_DEADLOCK FALSE
