------------------------------ MODULE HttpClient ------------------------------
(***************************************************************************)
(* AsyncHTTPClient (src/reconforgex/utils/http_client.py): callers share    *)
(* one client and run batches of requests over it; anyone may cancel() the  *)
(* client, and its owner may close() it while other batches are running.    *)
(* A step is what a coroutine does between two suspension points.           *)
(*                                                                         *)
(* The sleeps of the rate limiter and of the backoff are a "waiting" state  *)
(* of unknown length; what httpx and the server do is nondeterministic.     *)
(***************************************************************************)
EXTENDS Integers, FiniteSets

CONSTANTS Batches,        \* the calls of batch_get
          BatchSize,      \* how many URLs each of them has
          MaxRetries,     \* config.max_retries
          MaxCloses       \* bound: calls of close

ASSUME BatchesAssumption == IsFiniteSet(Batches) /\ BatchSize \in Nat \ {0}
ASSUME RetriesAssumption == MaxRetries \in Nat
ASSUME ClosesAssumption == MaxCloses \in Nat

Requests == Batches \X (1 .. BatchSize)

VARIABLES
  batch,             \* of each call: idle, running, aborting, returned, aborted
  request,           \* of each request: idle, queued, waiting, sending, done, stopped
  attempt,           \* of each request: the loop variable of _request
  outcome,           \* of each request: what _safe_get returned
  cancelled,         \* _cancelled
  client,            \* _client: the number of the httpx client, or 0 for None
  made,              \* httpx clients made so far
  live,              \* httpx clients made and not closed
  closing,           \* close() is awaiting aclose()
  closes,            \* calls of close so far
  open_connections, request_count, error_count, retry_count,
  usable,            \* httpx.AsyncClient can be built in this environment
  sends,             \* client.request calls that reached the network
  body_failed        \* some response could not be read

counters == <<request_count, error_count, retry_count>>
clients == <<client, made, live, closing, closes>>
vars == <<batch, request, attempt, outcome, cancelled, clients,
          open_connections, counters, usable, sends, body_failed>>

RequestsOf(b) == {r \in Requests : r[1] = b}

InFlight == {r \in Requests : request[r] = "sending"}

Init ==
  /\ batch = [b \in Batches |-> "idle"]
  /\ request = [r \in Requests |-> "idle"]
  /\ attempt = [r \in Requests |-> 0]
  /\ outcome = [r \in Requests |-> "none"]
  /\ cancelled = FALSE
  /\ client = 0 /\ made = 0 /\ live = {} /\ closing = FALSE /\ closes = 0
  /\ open_connections = 0
  /\ request_count = 0 /\ error_count = 0 /\ retry_count = 0
  /\ usable \in BOOLEAN
  /\ sends = 0 /\ body_failed = FALSE

(* batch_get: gather starts one task for each URL. *)
Submit(b) ==
  /\ batch[b] = "idle"
  /\ batch' = [batch EXCEPT ![b] = "running"]
  /\ request' = [r \in Requests |-> IF r[1] = b THEN "queued" ELSE request[r]]
  /\ UNCHANGED <<attempt, outcome, cancelled, clients, open_connections,
                 counters, usable, sends, body_failed>>

Active(r) == batch[r[1]] = "running"

(* _safe_get turns RequestCancelled into a response with an error. *)
Refuse(r) ==
  /\ request' = [request EXCEPT ![r] = "done"]
  /\ outcome' = [outcome EXCEPT ![r] = "cancelled"]
  /\ UNCHANGED <<batch, attempt, cancelled, clients, open_connections,
                 counters, usable, sends, body_failed>>

(* Mutant: the failure of the last attempt counts as a retry too. *)
MutFailedCountsLast(r, open) ==
  /\ error_count' = error_count + 1
  /\ open_connections' = IF open > 0 THEN open - 1 ELSE open
  /\ retry_count' = retry_count + 1
  /\ attempt' = [attempt EXCEPT ![r] =
                   IF attempt[r] < MaxRetries THEN attempt[r] + 1 ELSE attempt[r]]
  /\ request' = [request EXCEPT ![r] =
                   IF attempt[r] < MaxRetries THEN "waiting" ELSE "done"]
  /\ outcome' = [outcome EXCEPT ![r] =
                   IF attempt[r] < MaxRetries THEN "none" ELSE "error"]

(* Mutant: the loop runs once more than it should. *)
MutFailedOnceMore(r, open) ==
  /\ error_count' = error_count + 1
  /\ open_connections' = IF open > 0 THEN open - 1 ELSE open
  /\ \/ /\ attempt[r] <= MaxRetries
        /\ retry_count' = retry_count + 1
        /\ attempt' = [attempt EXCEPT ![r] = @ + 1]
        /\ request' = [request EXCEPT ![r] = "waiting"]
        /\ UNCHANGED outcome
     \/ /\ attempt[r] > MaxRetries
        /\ request' = [request EXCEPT ![r] = "done"]
        /\ outcome' = [outcome EXCEPT ![r] = "error"]
        /\ UNCHANGED <<attempt, retry_count>>

(* An except clause and what follows it: back off, or give up. *)
Failed(r, open) ==
  /\ error_count' = error_count + 1
  /\ open_connections' = IF open > 0 THEN open - 1 ELSE open
  /\ \/ /\ attempt[r] < MaxRetries
        /\ retry_count' = retry_count + 1
        /\ attempt' = [attempt EXCEPT ![r] = @ + 1]
        /\ request' = [request EXCEPT ![r] = "waiting"]
        /\ UNCHANGED outcome
     \/ /\ attempt[r] = MaxRetries
        /\ request' = [request EXCEPT ![r] = "done"]
        /\ outcome' = [outcome EXCEPT ![r] = "error"]
        /\ UNCHANGED <<attempt, retry_count>>

(* Mutant: _get_client does not look whether there is a client already. *)
MutGetClientAlways ==
  /\ client' = made + 1 /\ made' = made + 1 /\ live' = live \cup {made + 1}
  /\ UNCHANGED <<closing, closes>>

(* _get_client, when it does not raise. *)
GetClient ==
  /\ IF client # 0
     THEN UNCHANGED <<client, made, live>>
     ELSE client' = made + 1 /\ made' = made + 1 /\ live' = live \cup {made + 1}
  /\ UNCHANGED <<closing, closes>>

(* The try block up to the network: httpx cannot be built; or the client    *)
(* is being closed and refuses at once; or the request goes out.            *)
Attempt(r) ==
  /\ \/ /\ client = 0 /\ ~usable
        /\ Failed(r, open_connections)
        /\ UNCHANGED <<clients, sends>>
     \/ /\ client # 0 /\ client \notin live
        /\ Failed(r, open_connections + 1)
        /\ UNCHANGED <<clients, sends>>
     \/ /\ client \in live \/ (client = 0 /\ usable)
        /\ GetClient
        /\ open_connections' = open_connections + 1
        /\ request' = [request EXCEPT ![r] = "sending"]
        /\ sends' = sends + 1
        /\ UNCHANGED <<attempt, outcome, error_count, retry_count>>
  /\ UNCHANGED <<batch, cancelled, request_count, usable, body_failed>>

(* _request up to its first suspension. *)
Begin(r) ==
  /\ Active(r) /\ request[r] = "queued"
  /\ \/ /\ cancelled
        /\ Refuse(r)
     \/ /\ ~cancelled
        /\ \/ Attempt(r)
           \/ /\ request' = [request EXCEPT ![r] = "waiting"]
              /\ UNCHANGED <<batch, attempt, outcome, cancelled, clients,
                             open_connections, counters, usable, sends, body_failed>>

(* Mutant: _request looks at the flag only before it starts. *)
MutWakeUnchecked(r) ==
  /\ Active(r) /\ request[r] = "waiting"
  /\ Attempt(r)

(* Mutant: a sleeper of a cancelled client is never woken. *)
MutWakeIgnored(r) ==
  /\ Active(r) /\ request[r] = "waiting"
  /\ ~cancelled
  /\ Attempt(r)

(* A sleep is over: the head of the loop, and the next attempt. *)
Wake(r) ==
  /\ Active(r) /\ request[r] = "waiting"
  /\ IF cancelled THEN Refuse(r) ELSE Attempt(r)

(* The server answered and the response could be read. *)
Answer(r) ==
  /\ Active(r) /\ request[r] = "sending"
  /\ open_connections' = open_connections - 1
  /\ request_count' = request_count + 1
  /\ request' = [request EXCEPT ![r] = "done"]
  /\ outcome' = [outcome EXCEPT ![r] = "response"]
  /\ UNCHANGED <<batch, attempt, cancelled, clients, error_count, retry_count,
                 usable, sends, body_failed>>

(* The server answered and reading the body raised: the answer is counted,  *)
(* and then the except clause counts an error and one connection more.      *)
AnswerUnreadable(r) ==
  /\ Active(r) /\ request[r] = "sending"
  /\ request_count' = request_count + 1
  /\ body_failed' = TRUE
  /\ Failed(r, open_connections - 1)
  /\ UNCHANGED <<batch, cancelled, clients, usable, sends>>

(* Mutant: the connection is given back in the try block and again in the   *)
(* except clause. *)
MutFailTwice(r) ==
  /\ Active(r) /\ request[r] = "sending"
  /\ Failed(r, open_connections - 1)
  /\ UNCHANGED <<batch, cancelled, clients, request_count, usable, sends,
                 body_failed>>

(* A timeout, a refused or a broken connection. *)
Fail(r) ==
  /\ Active(r) /\ request[r] = "sending"
  /\ Failed(r, open_connections)
  /\ UNCHANGED <<batch, cancelled, clients, request_count, usable, sends,
                 body_failed>>

(* gather has every response, in the order of the URLs. *)
Return(b) ==
  /\ batch[b] = "running"
  /\ \A r \in RequestsOf(b) : request[r] = "done"
  /\ batch' = [batch EXCEPT ![b] = "returned"]
  /\ UNCHANGED <<request, attempt, outcome, cancelled, clients,
                 open_connections, counters, usable, sends, body_failed>>

(* The task that awaits batch_get is cancelled, as by a timeout around it;  *)
(* gather cancels its children. *)
Abort(b) ==
  /\ batch[b] = "running"
  /\ batch' = [batch EXCEPT ![b] = "aborting"]
  /\ UNCHANGED <<request, attempt, outcome, cancelled, clients,
                 open_connections, counters, usable, sends, body_failed>>

(* CancelledError is no Exception: no clause of _request catches it. *)
Stop(r) ==
  /\ batch[r[1]] = "aborting"
  /\ request[r] \in {"queued", "waiting", "sending"}
  /\ request' = [request EXCEPT ![r] = "stopped"]
  /\ UNCHANGED <<batch, attempt, outcome, cancelled, clients,
                 open_connections, counters, usable, sends, body_failed>>

EndAbort(b) ==
  /\ batch[b] = "aborting"
  /\ \A r \in RequestsOf(b) : request[r] \in {"done", "stopped"}
  /\ batch' = [batch EXCEPT ![b] = "aborted"]
  /\ UNCHANGED <<request, attempt, outcome, cancelled, clients,
                 open_connections, counters, usable, sends, body_failed>>

Cancel ==
  /\ ~cancelled
  /\ cancelled' = TRUE
  /\ UNCHANGED <<batch, request, attempt, outcome, clients, open_connections,
                 counters, usable, sends, body_failed>>

(* close() by the owner, up to the suspension in aclose(), which has marked *)
(* the httpx client closed by then. *)
BeginClose ==
  /\ client # 0 /\ ~closing /\ closes < MaxCloses
  /\ closing' = TRUE
  /\ closes' = closes + 1
  /\ live' = live \ {client}
  /\ UNCHANGED <<batch, request, attempt, outcome, cancelled, client, made,
                 open_connections, counters, usable, sends, body_failed>>

EndClose ==
  /\ closing
  /\ closing' = FALSE
  /\ client' = 0
  /\ open_connections' = 0
  /\ UNCHANGED <<batch, request, attempt, outcome, cancelled, made, live,
                 closes, counters, usable, sends, body_failed>>

RequestStep(r) ==
  \/ Begin(r) \/ Wake(r) \/ Stop(r)
  \/ Answer(r) \/ AnswerUnreadable(r) \/ Fail(r)

Next ==
  \/ \E b \in Batches : Submit(b) \/ Return(b) \/ Abort(b) \/ EndAbort(b)
  \/ \E r \in Requests : RequestStep(r)
  \/ Cancel \/ BeginClose \/ EndClose

(* The event loop runs what is ready; sleeps end, and the timeouts of httpx *)
(* see to it that a request is answered or fails.                           *)
Fairness ==
  /\ \A r \in Requests : WF_vars(RequestStep(r))
  /\ \A b \in Batches : WF_vars(Return(b)) /\ WF_vars(EndAbort(b))
  /\ WF_vars(EndClose)

Spec == Init /\ [][Next]_vars /\ Fairness

-----------------------------------------------------------------------------
(* Every variable has its type; no request makes more than MaxRetries + 1   *)
(* attempts, and _client is a client that was made.                         *)
TypeOK ==
  /\ batch \in [Batches -> {"idle", "running", "aborting", "returned", "aborted"}]
  /\ request \in [Requests -> {"idle", "queued", "waiting", "sending", "done", "stopped"}]
  /\ attempt \in [Requests -> 0 .. MaxRetries]
  /\ outcome \in [Requests -> {"none", "response", "error", "cancelled"}]
  /\ cancelled \in BOOLEAN /\ closing \in BOOLEAN /\ usable \in BOOLEAN
  /\ body_failed \in BOOLEAN
  /\ made \in Nat /\ client \in 0 .. made /\ live \in SUBSET (1 .. made)
  /\ closes \in 0 .. MaxCloses
  /\ open_connections \in Int
  /\ request_count \in Nat /\ error_count \in Nat /\ retry_count \in Nat
  /\ sends \in Nat

(* An httpx client that is open is the one that close() will close: however *)
(* requests, retries and a close interleave, no connection pool is lost.    *)
NoClientLost == live \subseteq {client} \ {0}

(* Errors are the retries announced and the requests given up, whichever of *)
(* the places that raise they come from: what the statistics report adds up.*)
FailuresAccounted ==
  error_count = retry_count + Cardinality({r \in Requests : outcome[r] = "error"})

(* As long as no close and no unreadable body came between, the number of   *)
(* open connections reported is not less than the requests in flight.       *)
ConnectionsNotUnderstated ==
  closes = 0 /\ ~body_failed => open_connections >= Cardinality(InFlight)

(* cancel() is final: no request goes out and no httpx client is made after *)
(* it, neither by a retry nor by a request that was waiting for the limiter.*)
NothingSentAfterCancel ==
  [][cancelled => sends' = sends /\ made' = made /\ InFlight' \subseteq InFlight]_vars

(* Every batch ends, whatever fails, is cancelled or is closed under it.    *)
BatchesReturn ==
  \A b \in Batches :
    batch[b] = "running" ~> batch[b] \in {"returned", "aborted"}
=============================================================================
