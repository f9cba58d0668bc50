----------------------------- MODULE MCHttpClient -----------------------------
(* Two callers that share a client, two URLs each. *)
EXTENDS HttpClient
=============================================================================
