-------------------------------- MODULE MCScan --------------------------------
(***************************************************************************)
(* Scan on a few command lines and files: no option, one that the file has  *)
(* too, all of them, an empty, blank or malformed domain, one with capitals *)
(* or blanks around it; files that set nothing, everything, or a malformed  *)
(* domain, and those that cannot be used.                                   *)
(***************************************************************************)
EXTENDS Scan

Nothing == [s \in {} |-> 0]

Line(given) == [given |-> given, skip |-> {}, config |-> FALSE, list_modules |-> FALSE]

Bare(name) == [name |-> name, bare |-> TRUE]
Raw(name) == [name |-> name, bare |-> FALSE]

MCArguments ==
  LET all == Line([domain |-> Raw("cli.example"), output_directory |-> "cli",
                   worker_count |-> "cli", modules |-> {"tls_inspector"}, verbose |-> TRUE]) IN
  {Line(Nothing), Line([domain |-> NoDomain]), Line([domain |-> Raw("")]),
   Line([domain |-> Bare("malformed"), verbose |-> TRUE]), all,
   [Line([domain |-> Bare("cli.example"), worker_count |-> "cli"])
      EXCEPT !.skip = {"json_report", "html_report"}],
   [all EXCEPT !.config = TRUE, !.skip = {"markdown_report"}],
   [all EXCEPT !.list_modules = TRUE]}

MCFiles ==
  {[kind |-> "mapping", data |-> d] :
     d \in {Nothing, [domain |-> Bare("malformed"), timeout |-> "file"],
            [domain |-> Raw("file.example"), output_directory |-> "file",
             worker_count |-> "file", timeout |-> "file", rate_limit |-> "file",
             retry_count |-> "file", logging_level |-> "ERROR",
             modules |-> {"header_analyzer"}, verbose |-> TRUE,
             html_report |-> FALSE, json_report |-> FALSE, markdown_report |-> TRUE]}}
  \cup {[kind |-> k, data |-> Nothing] : k \in {"missing", "broken", "not_a_mapping"}}

MCValid == {"file.example", "cli.example"}
MCModules == {"header_analyzer", "tls_inspector"}
=============================================================================
