--------------------------- MODULE HttpClientProofs ---------------------------
(***************************************************************************)
(* Proofs about HttpClient for every set of batches, every batch size and   *)
(* every number of retries and closes.                                      *)
(***************************************************************************)
EXTENDS HttpClient, FiniteSetTheorems, TLAPS

RequestStates == {"idle", "queued", "waiting", "sending", "done", "stopped"}
BatchStates == {"idle", "running", "aborting", "returned", "aborted"}
Outcomes == {"none", "response", "error", "cancelled"}

-----------------------------------------------------------------------------
(* The except clauses keep the types of what they write. *)
LEMMA FailedTypes ==
  ASSUME TypeOK, NEW r \in Requests, NEW open \in Int, Failed(r, open)
  PROVE  /\ request' \in [Requests -> RequestStates]
         /\ attempt' \in [Requests -> 0 .. MaxRetries]
         /\ outcome' \in [Requests -> Outcomes]
         /\ error_count' \in Nat /\ retry_count' \in Nat
         /\ open_connections' \in Int
<1> USE RetriesAssumption DEF RequestStates, Outcomes
<1>1. error_count' \in Nat /\ open_connections' \in Int
  BY DEF Failed, TypeOK
<1>2. attempt[r] \in 0 .. MaxRetries
  BY DEF TypeOK
<1>3. CASE /\ attempt[r] < MaxRetries
           /\ retry_count' = retry_count + 1
           /\ attempt' = [attempt EXCEPT ![r] = @ + 1]
           /\ request' = [request EXCEPT ![r] = "waiting"]
           /\ UNCHANGED outcome
  <2>1. attempt[r] + 1 \in 0 .. MaxRetries
    BY <1>2, <1>3
  <2>2. attempt' \in [Requests -> 0 .. MaxRetries]
    BY <1>3, <2>1 DEF TypeOK
  <2>3. request' \in [Requests -> RequestStates]
    BY <1>3 DEF TypeOK
  <2>4. outcome' \in [Requests -> Outcomes] /\ retry_count' \in Nat
    BY <1>3 DEF TypeOK
  <2> QED BY <1>1, <2>2, <2>3, <2>4
<1>4. CASE /\ attempt[r] = MaxRetries
           /\ request' = [request EXCEPT ![r] = "done"]
           /\ outcome' = [outcome EXCEPT ![r] = "error"]
           /\ UNCHANGED <<attempt, retry_count>>
  BY <1>1, <1>4 DEF TypeOK
<1> QED BY <1>3, <1>4 DEF Failed

(* What may become of the httpx clients in one attempt. *)
LEMMA AttemptClients ==
  ASSUME NEW r \in Requests, Attempt(r)
  PROVE  /\ UNCHANGED <<closing, closes>>
         /\ \/ UNCHANGED <<client, made, live>>
            \/ /\ client = 0 /\ client' = made + 1 /\ made' = made + 1
               /\ live' = live \cup {made + 1}
BY DEF Attempt, GetClient, clients

LEMMA AttemptTypes ==
  ASSUME TypeOK, NEW r \in Requests, Attempt(r)
  PROVE  /\ request' \in [Requests -> RequestStates]
         /\ attempt' \in [Requests -> 0 .. MaxRetries]
         /\ outcome' \in [Requests -> Outcomes]
         /\ error_count' \in Nat /\ retry_count' \in Nat
         /\ open_connections' \in Int /\ sends' \in Nat
         /\ made' \in Nat /\ client' \in 0 .. made' /\ live' \in SUBSET (1 .. made')
<1>1. open_connections \in Int /\ sends \in Nat
  BY DEF TypeOK
<1>2. made' \in Nat /\ client' \in 0 .. made' /\ live' \in SUBSET (1 .. made')
  <2>1. made \in Nat /\ client \in 0 .. made /\ live \in SUBSET (1 .. made)
    BY DEF TypeOK
  <2>2. CASE UNCHANGED <<client, made, live>>
    BY <2>1, <2>2
  <2>3. CASE client' = made + 1 /\ made' = made + 1 /\ live' = live \cup {made + 1}
    <3>1. made' \in Nat /\ client' \in 0 .. made'
      BY <2>1, <2>3
    <3>2. \A c \in live' : c \in 1 .. made'
      BY <2>1, <2>3
    <3> QED BY <3>1, <3>2
  <2> QED BY <2>2, <2>3, AttemptClients
<1>3. CASE Failed(r, open_connections) /\ UNCHANGED sends
  BY <1>1, <1>2, <1>3, FailedTypes
<1>4. CASE Failed(r, open_connections + 1) /\ UNCHANGED sends
  BY <1>1, <1>2, <1>4, FailedTypes
<1>5. CASE /\ open_connections' = open_connections + 1
           /\ request' = [request EXCEPT ![r] = "sending"]
           /\ sends' = sends + 1
           /\ UNCHANGED <<attempt, outcome, error_count, retry_count>>
  <2>1. request' \in [Requests -> RequestStates]
    BY <1>5 DEF TypeOK, RequestStates
  <2>2. /\ attempt' \in [Requests -> 0 .. MaxRetries]
        /\ outcome' \in [Requests -> Outcomes]
        /\ error_count' \in Nat /\ retry_count' \in Nat
    BY <1>5 DEF TypeOK, Outcomes
  <2> QED BY <1>1, <1>2, <1>5, <2>1, <2>2
<1> QED BY <1>3, <1>4, <1>5 DEF Attempt, clients

(* The variables of the client keep their types, and no request makes more  *)
(* attempts than _request's loop allows. *)
THEOREM TypeCorrect == Spec => []TypeOK
<1> USE DEF RequestStates, BatchStates, Outcomes
<1>1. Init => TypeOK
  <2> SUFFICES ASSUME Init PROVE TypeOK
    OBVIOUS
  <2>1. attempt \in [Requests -> 0 .. MaxRetries] /\ closes \in 0 .. MaxCloses
    BY RetriesAssumption, ClosesAssumption DEF Init
  <2>2. batch \in [Batches -> BatchStates] /\ request \in [Requests -> RequestStates]
    BY DEF Init
  <2>3. outcome \in [Requests -> Outcomes]
    BY DEF Init
  <2>4. /\ made \in Nat /\ client \in 0 .. made /\ live \in SUBSET (1 .. made)
        /\ open_connections \in Int
    BY DEF Init
  <2>5. /\ request_count \in Nat /\ error_count \in Nat /\ retry_count \in Nat
        /\ sends \in Nat
    BY DEF Init
  <2>6. /\ cancelled \in BOOLEAN /\ closing \in BOOLEAN /\ usable \in BOOLEAN
        /\ body_failed \in BOOLEAN
    BY DEF Init
  <2> QED BY <2>1, <2>2, <2>3, <2>4, <2>5, <2>6 DEF TypeOK
<1>2. TypeOK /\ [Next]_vars => TypeOK'
  <2> SUFFICES ASSUME TypeOK, [Next]_vars PROVE TypeOK'
    OBVIOUS
  <2>1. ASSUME NEW b \in Batches, Submit(b) PROVE TypeOK'
    <3>1. batch' \in [Batches -> BatchStates]
      BY <2>1 DEF Submit, TypeOK
    <3>2. request' \in [Requests -> RequestStates]
      BY <2>1 DEF Submit, TypeOK
    <3> QED BY <2>1, <3>1, <3>2 DEF Submit, TypeOK, clients, counters
  <2>2. ASSUME NEW b \in Batches, Return(b) \/ Abort(b) \/ EndAbort(b) PROVE TypeOK'
    <3>1. batch' \in [Batches -> BatchStates]
      BY <2>2 DEF Return, Abort, EndAbort, TypeOK
    <3> QED BY <2>2, <3>1 DEF Return, Abort, EndAbort, TypeOK, clients, counters
  <2>3. ASSUME NEW r \in Requests, Refuse(r) PROVE TypeOK'
    <3>1. request' \in [Requests -> RequestStates] /\ outcome' \in [Requests -> Outcomes]
      BY <2>3 DEF Refuse, TypeOK
    <3> QED BY <2>3, <3>1 DEF Refuse, TypeOK, clients, counters
  <2>4. ASSUME NEW r \in Requests, Attempt(r) PROVE TypeOK'
    <3>1. UNCHANGED <<batch, cancelled, request_count, usable, body_failed,
                      closing, closes>>
      BY <2>4, AttemptClients DEF Attempt
    <3> QED BY <2>4, <3>1, AttemptTypes DEF TypeOK
  <2>5. ASSUME NEW r \in Requests, Begin(r) PROVE TypeOK'
    <3>1. CASE request' = [request EXCEPT ![r] = "waiting"]
               /\ UNCHANGED <<batch, attempt, outcome, cancelled, clients,
                             open_connections, counters, usable, sends, body_failed>>
      <4>1. request' \in [Requests -> RequestStates]
        BY <3>1 DEF TypeOK
      <4> QED BY <3>1, <4>1 DEF TypeOK, clients, counters
    <3>2. CASE Refuse(r)
      BY <2>3, <3>2
    <3> QED BY <2>4, <2>5, <3>1, <3>2 DEF Begin
  <2>6. ASSUME NEW r \in Requests, Wake(r) PROVE TypeOK'
    <3>1. CASE Refuse(r)
      BY <2>3, <3>1
    <3> QED BY <2>4, <2>6, <3>1 DEF Wake
  <2>7. ASSUME NEW r \in Requests, Stop(r) PROVE TypeOK'
    <3>1. request' \in [Requests -> RequestStates]
      BY <2>7 DEF Stop, TypeOK
    <3> QED BY <2>7, <3>1 DEF Stop, TypeOK, clients, counters
  <2>8. ASSUME NEW r \in Requests, Answer(r) PROVE TypeOK'
    <3>1. request' \in [Requests -> RequestStates] /\ outcome' \in [Requests -> Outcomes]
      BY <2>8 DEF Answer, TypeOK
    <3> QED BY <2>8, <3>1 DEF Answer, TypeOK, clients
  <2>9. ASSUME NEW r \in Requests, AnswerUnreadable(r) PROVE TypeOK'
    <3>1. open_connections - 1 \in Int /\ request_count' \in Nat
      BY <2>9 DEF AnswerUnreadable, TypeOK
    <3>2. /\ Failed(r, open_connections - 1) /\ body_failed' = TRUE
          /\ UNCHANGED <<batch, cancelled, clients, usable, sends>>
      BY <2>9 DEF AnswerUnreadable
    <3> QED BY <3>1, <3>2, FailedTypes DEF TypeOK, clients
  <2>10. ASSUME NEW r \in Requests, Fail(r) PROVE TypeOK'
    <3>1. /\ Failed(r, open_connections) /\ open_connections \in Int
          /\ UNCHANGED <<batch, cancelled, clients, request_count, usable, sends,
                         body_failed>>
      BY <2>10 DEF Fail, TypeOK
    <3> QED BY <3>1, FailedTypes DEF TypeOK, clients
  <2>11. CASE Cancel
    BY <2>11 DEF Cancel, TypeOK, clients, counters
  <2>12. CASE BeginClose
    <3>1. closes' \in 0 .. MaxCloses
      BY <2>12, ClosesAssumption DEF BeginClose, TypeOK
    <3> QED BY <2>12, <3>1 DEF BeginClose, TypeOK, counters
  <2>13. CASE EndClose
    <3>0. made \in Nat /\ 0 \in 0 .. made
      BY DEF TypeOK
    <3>a. client' = 0 /\ open_connections' = 0 /\ closing' = FALSE
      BY <2>13 DEF EndClose
    <3>b. closing' \in BOOLEAN
      BY <3>a, Zenon
    <3>1. client' \in 0 .. made /\ open_connections' \in Int
      BY <3>0, <3>a
    <3>2. UNCHANGED <<batch, request, attempt, outcome, cancelled, made, live, closes,
                      request_count, error_count, retry_count, usable, sends, body_failed>>
      BY <2>13 DEF EndClose, counters
    <3> QED BY <3>b, <3>1, <3>2 DEF TypeOK
  <2>14. CASE UNCHANGED vars
    BY <2>14 DEF vars, TypeOK, clients, counters
  <2> QED BY <2>1, <2>2, <2>5, <2>6, <2>7, <2>8, <2>9, <2>10, <2>11, <2>12,
             <2>13, <2>14 DEF Next, RequestStep
<1> QED BY <1>1, <1>2, PTL DEF Spec

-----------------------------------------------------------------------------
(* While aclose() is awaited the httpx client is still there, and no httpx  *)
(* client is open: a request meanwhile finds a client and makes none.       *)
ClosingInv == closing => client # 0 /\ live = {}

ClientInv == NoClientLost /\ ClosingInv

(* The open httpx client is always the one close() will close, however      *)
(* requests, retries and closes interleave. *)
THEOREM NoPoolLost == Spec => []NoClientLost
<1>1. Init => ClientInv
  BY DEF Init, ClientInv, NoClientLost, ClosingInv
<1>2. TypeOK /\ ClientInv /\ [Next]_vars => ClientInv'
  <2> SUFFICES ASSUME TypeOK, ClientInv, [Next]_vars PROVE ClientInv'
    OBVIOUS
  <2>0. made \in Nat /\ live \subseteq {client} \ {0} /\ ClosingInv
    BY DEF TypeOK, ClientInv, NoClientLost
  <2>1. ASSUME NEW r \in Requests, Attempt(r) PROVE ClientInv'
    <3>1. CASE UNCHANGED <<client, made, live>>
      BY <2>0, <2>1, <3>1, AttemptClients DEF ClientInv, NoClientLost, ClosingInv
    <3>2. CASE /\ client = 0 /\ client' = made + 1 /\ made' = made + 1
               /\ live' = live \cup {made + 1}
      <4>1. live = {} /\ ~closing /\ made + 1 # 0
        BY <2>0, <3>2 DEF ClosingInv
      <4>2. live' = {client'} /\ client' # 0 /\ ~closing'
        BY <2>1, <3>2, <4>1, AttemptClients
      <4> QED BY <4>2 DEF ClientInv, NoClientLost, ClosingInv
    <3> QED BY <2>1, <3>1, <3>2, AttemptClients
  <2>2. ASSUME UNCHANGED clients PROVE ClientInv'
    BY <2>2 DEF ClientInv, NoClientLost, ClosingInv, clients
  <2>3. CASE BeginClose
    <3>1. closing' /\ client' = client /\ client # 0 /\ live' = live \ {client}
      BY <2>3 DEF BeginClose
    <3>2. live' = {}
      BY <2>0, <3>1
    <3> QED BY <3>1, <3>2 DEF ClientInv, NoClientLost, ClosingInv
  <2>4. CASE EndClose
    <3>1. live = {}
      BY <2>0, <2>4 DEF EndClose, ClosingInv
    <3> QED BY <2>4, <3>1 DEF EndClose, ClientInv, NoClientLost, ClosingInv
  <2>5. ASSUME NEW r \in Requests, RequestStep(r) PROVE ClientInv'
    <3>1. Attempt(r) \/ UNCHANGED clients
      BY <2>5 DEF RequestStep, Begin, Wake, Refuse, Stop, Answer,
                  AnswerUnreadable, Fail
    <3> QED BY <2>1, <2>2, <3>1
  <2>6. ASSUME NEW b \in Batches, Submit(b) \/ Return(b) \/ Abort(b) \/ EndAbort(b)
        PROVE ClientInv'
    <3>1. UNCHANGED clients
      BY <2>6 DEF Submit, Return, Abort, EndAbort
    <3> QED BY <2>2, <3>1
  <2>7. CASE Cancel \/ UNCHANGED vars
    <3>1. UNCHANGED clients
      BY <2>7 DEF Cancel, vars
    <3> QED BY <2>2, <3>1
  <2> QED BY <2>3, <2>4, <2>5, <2>6, <2>7 DEF Next
<1>3. ClientInv => NoClientLost
  BY DEF ClientInv
<1> QED BY <1>1, <1>2, <1>3, TypeCorrect, PTL DEF Spec

-----------------------------------------------------------------------------
(* Once cancel() was called no request goes out and no httpx client is      *)
(* made, by whatever the requests under way still do. *)
THEOREM CancelIsFinal == Spec => NothingSentAfterCancel
<1> DEFINE Quiet == cancelled => sends' = sends /\ made' = made /\ InFlight' \subseteq InFlight
<1>1. TypeOK /\ [Next]_vars => [Quiet]_vars
  <2> SUFFICES ASSUME TypeOK, Next, cancelled
               PROVE  sends' = sends /\ made' = made /\ InFlight' \subseteq InFlight
    OBVIOUS
  <2>0. DOMAIN request = Requests
    BY DEF TypeOK
  <2>1. ASSUME NEW r \in Requests, NEW s \in RequestStates \ {"sending"},
               request' = [request EXCEPT ![r] = s]
        PROVE  InFlight' \subseteq InFlight
    BY <2>0, <2>1 DEF InFlight, RequestStates
  <2>2. ASSUME UNCHANGED request PROVE InFlight' \subseteq InFlight
    BY <2>2 DEF InFlight
  <2>3. ASSUME NEW r \in Requests, NEW open, Failed(r, open)
        PROVE  InFlight' \subseteq InFlight
    BY <2>1, <2>3 DEF Failed, RequestStates
  <2>4. ASSUME NEW r \in Requests, Begin(r) \/ Wake(r)
        PROVE  sends' = sends /\ made' = made /\ InFlight' \subseteq InFlight
    <3>1. Refuse(r)
      BY <2>4 DEF Begin, Wake
    <3> QED BY <2>1, <3>1 DEF Refuse, clients, RequestStates
  <2>5. ASSUME NEW r \in Requests, Stop(r) \/ Answer(r)
        PROVE  sends' = sends /\ made' = made /\ InFlight' \subseteq InFlight
    BY <2>1, <2>5 DEF Stop, Answer, clients, RequestStates
  <2>6. ASSUME NEW r \in Requests, AnswerUnreadable(r) \/ Fail(r)
        PROVE  sends' = sends /\ made' = made /\ InFlight' \subseteq InFlight
    BY <2>3, <2>6 DEF AnswerUnreadable, Fail, clients
  <2>7. ASSUME NEW b \in Batches, Submit(b)
        PROVE  sends' = sends /\ made' = made /\ InFlight' \subseteq InFlight
    BY <2>7 DEF Submit, InFlight, clients
  <2>8. ASSUME NEW b \in Batches, Return(b) \/ Abort(b) \/ EndAbort(b)
        PROVE  sends' = sends /\ made' = made /\ InFlight' \subseteq InFlight
    BY <2>2, <2>8 DEF Return, Abort, EndAbort, clients
  <2>9. CASE BeginClose \/ EndClose
    BY <2>2, <2>9 DEF BeginClose, EndClose
  <2>10. ~Cancel
    BY DEF Cancel
  <2> QED BY <2>4, <2>5, <2>6, <2>7, <2>8, <2>9, <2>10 DEF Next, RequestStep
<1> QED BY <1>1, TypeCorrect, PTL DEF Spec, NothingSentAfterCancel

-----------------------------------------------------------------------------
(* Only finitely many requests can fail. *)
LEMMA RequestsFinite == IsFiniteSet(Requests)
<1>1. BatchSize \in Int /\ IsFiniteSet(1 .. BatchSize)
  BY BatchesAssumption, FS_Interval
<1> QED BY <1>1, BatchesAssumption, FS_Product DEF Requests

GivenUp == {r \in Requests : outcome[r] = "error"}

(* A request has an outcome only when it is done. *)
OutcomeInv == \A r \in Requests : request[r] # "done" => outcome[r] = "none"

(* A batch that has not begun has begun no request. *)
IdleInv == \A r \in Requests : batch[r[1]] = "idle" => request[r] = "idle"

LedgerInv == FailuresAccounted /\ OutcomeInv

(* An except clause enters its failure once in the ledger. *)
LEMMA FailedAccounts ==
  ASSUME TypeOK, LedgerInv, NEW r \in Requests, NEW open,
         request[r] # "done", Failed(r, open)
  PROVE  LedgerInv'
<1>0. /\ request \in [Requests -> RequestStates] /\ outcome \in [Requests -> Outcomes]
      /\ error_count \in Nat /\ retry_count \in Nat
  BY DEF TypeOK, RequestStates, Outcomes
<1>1. outcome[r] = "none" /\ error_count = retry_count + Cardinality(GivenUp)
  BY DEF LedgerInv, OutcomeInv, FailuresAccounted, GivenUp
<1>2. GivenUp \in SUBSET Requests /\ IsFiniteSet(GivenUp) /\ r \notin GivenUp
  BY <1>1, RequestsFinite, FS_Subset DEF GivenUp
<1>3. Cardinality(GivenUp) \in Nat
  BY <1>2, FS_CardinalityType
<1>4. error_count' = error_count + 1
  BY DEF Failed
<1>5. CASE /\ retry_count' = retry_count + 1
           /\ request' = [request EXCEPT ![r] = "waiting"]
           /\ UNCHANGED outcome
  <2>1. GivenUp' = GivenUp
    BY <1>5 DEF GivenUp
  <2>2. error_count' = retry_count' + Cardinality(GivenUp')
    BY <1>0, <1>1, <1>3, <1>4, <1>5, <2>1
  <2>3. OutcomeInv'
    BY <1>0, <1>1, <1>5 DEF LedgerInv, OutcomeInv
  <2> QED BY <2>2, <2>3 DEF LedgerInv, FailuresAccounted, GivenUp
<1>6. CASE /\ request' = [request EXCEPT ![r] = "done"]
           /\ outcome' = [outcome EXCEPT ![r] = "error"]
           /\ UNCHANGED retry_count
  <2>1. GivenUp' = GivenUp \cup {r}
    BY <1>0, <1>6 DEF GivenUp
  <2>2. Cardinality(GivenUp') = Cardinality(GivenUp) + 1
    BY <1>2, <2>1, FS_AddElement
  <2>3. error_count' = retry_count' + Cardinality(GivenUp')
    BY <1>0, <1>1, <1>3, <1>4, <1>6, <2>2
  <2>4. OutcomeInv'
    BY <1>0, <1>6 DEF LedgerInv, OutcomeInv
  <2> QED BY <2>3, <2>4 DEF LedgerInv, FailuresAccounted, GivenUp
<1> QED BY <1>5, <1>6 DEF Failed

(* What is not a failure leaves the ledger as it is. *)
LEMMA OthersAccount ==
  ASSUME LedgerInv, UNCHANGED <<error_count, retry_count>>, GivenUp' = GivenUp, OutcomeInv'
  PROVE  LedgerInv'
BY DEF LedgerInv, FailuresAccounted, GivenUp

(* Before its batch is submitted a request has no state. *)
LEMMA IdleRequests == Spec => []IdleInv
<1>1. Init => IdleInv
  BY DEF Init, IdleInv
<1>2. TypeOK /\ IdleInv /\ [Next]_vars => IdleInv'
  <2> SUFFICES ASSUME TypeOK, IdleInv, [Next]_vars,
                      NEW q \in Requests, batch'[q[1]] = "idle"
               PROVE  request'[q] = "idle"
    BY DEF IdleInv
  <2>0. /\ request \in [Requests -> RequestStates] /\ DOMAIN batch = Batches
        /\ q[1] \in Batches /\ (batch[q[1]] = "idle" => request[q] = "idle")
    BY DEF TypeOK, RequestStates, IdleInv, Requests
  <2>1. ASSUME NEW r \in Requests, NEW s, request' = [request EXCEPT ![r] = s],
               batch[r[1]] # "idle", UNCHANGED batch
        PROVE  request'[q] = "idle"
    <3>1. q # r /\ request[q] = "idle"
      BY <2>0, <2>1
    <3> QED BY <2>0, <2>1, <3>1
  <2>2. ASSUME UNCHANGED <<batch, request>> PROVE request'[q] = "idle"
    BY <2>0, <2>2
  <2>3. ASSUME NEW r \in Requests, Active(r) \/ batch[r[1]] = "aborting",
               NEW open, Failed(r, open), UNCHANGED batch
        PROVE  request'[q] = "idle"
    BY <2>1, <2>3 DEF Failed, Active
  <2>4. ASSUME NEW r \in Requests, Active(r), Attempt(r) PROVE request'[q] = "idle"
    <3>1. UNCHANGED batch
      BY <2>4 DEF Attempt
    <3>2. CASE \E open \in {open_connections, open_connections + 1} : Failed(r, open)
      BY <2>3, <2>4, <3>1, <3>2
    <3>3. CASE request' = [request EXCEPT ![r] = "sending"]
      BY <2>1, <2>4, <3>1, <3>3 DEF Active
    <3> QED BY <2>4, <3>2, <3>3 DEF Attempt
  <2>5. ASSUME NEW r \in Requests, Active(r), Refuse(r) PROVE request'[q] = "idle"
    BY <2>1, <2>5 DEF Refuse, Active
  <2>6. ASSUME NEW r \in Requests, RequestStep(r) PROVE request'[q] = "idle"
    <3>1. CASE Begin(r)
      <4>1. CASE request' = [request EXCEPT ![r] = "waiting"] /\ UNCHANGED batch
        BY <2>1, <3>1, <4>1 DEF Begin, Active
      <4> QED BY <2>4, <2>5, <3>1, <4>1 DEF Begin
    <3>2. CASE Wake(r)
      BY <2>4, <2>5, <3>2 DEF Wake
    <3>3. CASE Stop(r) \/ Answer(r)
      BY <2>1, <3>3 DEF Stop, Answer, Active
    <3>4. CASE AnswerUnreadable(r) \/ Fail(r)
      BY <2>3, <3>4 DEF AnswerUnreadable, Fail
    <3> QED BY <2>6, <3>1, <3>2, <3>3, <3>4 DEF RequestStep
  <2>7. ASSUME NEW b \in Batches, Submit(b) PROVE request'[q] = "idle"
    <3>1. q[1] # b /\ batch[q[1]] = "idle"
      BY <2>0, <2>7 DEF Submit
    <3>2. request'[q] = request[q]
      BY <2>7, <3>1 DEF Submit
    <3> QED BY <2>0, <3>1, <3>2
  <2>8. ASSUME NEW b \in Batches, Return(b) \/ Abort(b) \/ EndAbort(b)
        PROVE  request'[q] = "idle"
    <3>1. batch[q[1]] = "idle" /\ UNCHANGED request
      BY <2>0, <2>8 DEF Return, Abort, EndAbort
    <3> QED BY <2>0, <3>1
  <2>9. CASE Cancel \/ BeginClose \/ EndClose \/ UNCHANGED vars
    BY <2>2, <2>9 DEF Cancel, BeginClose, EndClose, vars
  <2> QED BY <2>6, <2>7, <2>8, <2>9 DEF Next
<1> QED BY <1>1, <1>2, TypeCorrect, PTL DEF Spec

(* Every error counted is a retry counted or a request given up. *)
THEOREM ErrorsAddUp == Spec => []FailuresAccounted
<1>1. Init => LedgerInv
  <2> SUFFICES ASSUME Init PROVE LedgerInv
    OBVIOUS
  <2>1. GivenUp = {}
    BY DEF Init, GivenUp
  <2>2. Cardinality(GivenUp) = 0
    BY <2>1, FS_EmptySet
  <2>3. error_count = retry_count + Cardinality(GivenUp)
    BY <2>2 DEF Init
  <2>4. OutcomeInv
    BY DEF Init, OutcomeInv
  <2> QED BY <2>3, <2>4 DEF LedgerInv, FailuresAccounted, GivenUp
<1>2. TypeOK /\ IdleInv /\ LedgerInv /\ [Next]_vars => LedgerInv'
  <2> SUFFICES ASSUME TypeOK, IdleInv, LedgerInv, [Next]_vars PROVE LedgerInv'
    OBVIOUS
  <2>0. /\ request \in [Requests -> RequestStates] /\ outcome \in [Requests -> Outcomes]
        /\ OutcomeInv
    BY DEF TypeOK, RequestStates, Outcomes, LedgerInv
  <2>1. ASSUME NEW r \in Requests, NEW s \in RequestStates \ {"done"}, request[r] # "done",
               request' = [request EXCEPT ![r] = s], UNCHANGED <<outcome, error_count, retry_count>>
        PROVE  LedgerInv'
    <3>1. GivenUp' = GivenUp
      BY <2>1 DEF GivenUp
    <3>2. OutcomeInv'
      BY <2>0, <2>1 DEF OutcomeInv
    <3> QED BY <2>1, <3>1, <3>2, OthersAccount
  <2>2. ASSUME NEW r \in Requests, NEW o \in {"response", "cancelled"}, request[r] # "done",
               request' = [request EXCEPT ![r] = "done"], outcome' = [outcome EXCEPT ![r] = o],
               UNCHANGED <<error_count, retry_count>>
        PROVE  LedgerInv'
    <3>1. outcome[r] = "none"
      BY <2>0, <2>2 DEF OutcomeInv
    <3>2. GivenUp' = GivenUp
      BY <2>0, <2>2, <3>1 DEF GivenUp
    <3>3. OutcomeInv'
      BY <2>0, <2>2 DEF OutcomeInv
    <3> QED BY <2>2, <3>2, <3>3, OthersAccount
  <2>3. ASSUME UNCHANGED <<request, outcome, error_count, retry_count>> PROVE LedgerInv'
    BY <2>3 DEF LedgerInv, FailuresAccounted, OutcomeInv
  <2>4. ASSUME NEW r \in Requests, request[r] # "done", Attempt(r) PROVE LedgerInv'
    <3>1. CASE \E open \in {open_connections, open_connections + 1} : Failed(r, open)
      BY <2>4, <3>1, FailedAccounts
    <3>2. CASE /\ request' = [request EXCEPT ![r] = "sending"]
               /\ UNCHANGED <<attempt, outcome, error_count, retry_count>>
      BY <2>1, <2>4, <3>2 DEF RequestStates
    <3> QED BY <2>4, <3>1, <3>2 DEF Attempt
  <2>5. ASSUME NEW r \in Requests, request[r] # "done", Refuse(r) PROVE LedgerInv'
    BY <2>2, <2>5 DEF Refuse, counters
  <2>6. ASSUME NEW r \in Requests, Begin(r) PROVE LedgerInv'
    <3>1. request[r] # "done"
      BY <2>6 DEF Begin
    <3>2. CASE Refuse(r) \/ Attempt(r)
      BY <2>4, <2>5, <3>1, <3>2
    <3>3. CASE /\ request' = [request EXCEPT ![r] = "waiting"]
               /\ UNCHANGED <<outcome, counters>>
      BY <2>1, <3>1, <3>3 DEF RequestStates, counters
    <3> QED BY <2>6, <3>2, <3>3 DEF Begin
  <2>7. ASSUME NEW r \in Requests, Wake(r) PROVE LedgerInv'
    BY <2>4, <2>5, <2>7 DEF Wake
  <2>8. ASSUME NEW r \in Requests, Stop(r) PROVE LedgerInv'
    BY <2>1, <2>8 DEF Stop, counters, RequestStates
  <2>9. ASSUME NEW r \in Requests, Answer(r) PROVE LedgerInv'
    BY <2>2, <2>9 DEF Answer
  <2>10. ASSUME NEW r \in Requests, AnswerUnreadable(r) \/ Fail(r) PROVE LedgerInv'
    <3>1. request[r] # "done" /\ \E open \in {open_connections, open_connections - 1} : Failed(r, open)
      BY <2>10 DEF AnswerUnreadable, Fail
    <3> QED BY <3>1, FailedAccounts
  <2>11. ASSUME NEW b \in Batches, Submit(b) PROVE LedgerInv'
    <3>1. GivenUp' = GivenUp /\ UNCHANGED <<error_count, retry_count>>
      BY <2>11 DEF Submit, GivenUp, counters
    <3>2. OutcomeInv'
      <4> SUFFICES ASSUME NEW q \in Requests, request'[q] # "done"
                   PROVE  outcome'[q] = "none"
        BY DEF OutcomeInv
      <4>1. outcome' = outcome
        BY <2>11 DEF Submit
      <4>2. CASE q[1] = b
        BY <2>0, <2>11, <4>1, <4>2 DEF Submit, IdleInv, OutcomeInv
      <4>3. CASE q[1] # b
        <5>1. request'[q] = request[q]
          BY <2>11, <4>3 DEF Submit
        <5> QED BY <2>0, <4>1, <5>1 DEF OutcomeInv
      <4> QED BY <4>2, <4>3
    <3> QED BY <3>1, <3>2, OthersAccount
  <2>12. ASSUME NEW b \in Batches, Return(b) \/ Abort(b) \/ EndAbort(b) PROVE LedgerInv'
    BY <2>3, <2>12 DEF Return, Abort, EndAbort, counters
  <2>13. CASE Cancel \/ BeginClose \/ EndClose
    BY <2>3, <2>13 DEF Cancel, BeginClose, EndClose, counters
  <2>14. CASE UNCHANGED vars
    BY <2>3, <2>14 DEF vars, counters
  <2> QED BY <2>6, <2>7, <2>8, <2>9, <2>10, <2>11, <2>12, <2>13, <2>14
             DEF Next, RequestStep
<1>3. LedgerInv => FailuresAccounted
  BY DEF LedgerInv
<1> QED BY <1>1, <1>2, <1>3, TypeCorrect, IdleRequests, PTL DEF Spec

-----------------------------------------------------------------------------
(* Until a close, the client referred to is open, and where httpx cannot be *)
(* built nothing is ever in flight.                                         *)
ConnectionInv ==
  /\ ~usable => client = 0 /\ InFlight = {}
  /\ closes = 0 => ~closing /\ (client # 0 => client \in live)
  /\ ConnectionsNotUnderstated

InFlightNumber == Cardinality(InFlight)

LEMMA InFlightFinite ==
  /\ IsFiniteSet(InFlight) /\ InFlightNumber \in Nat
  /\ InFlight = {} => InFlightNumber = 0
  /\ \A S \in SUBSET InFlight : Cardinality(S) \in Nat /\ Cardinality(S) <= InFlightNumber
  /\ \A r \in InFlight : /\ Cardinality(InFlight \ {r}) = InFlightNumber - 1
                         /\ InFlightNumber >= 1
  /\ \A r : Cardinality(InFlight \cup {r}) <= InFlightNumber + 1
<1>1. IsFiniteSet(InFlight)
  BY RequestsFinite, FS_Subset DEF InFlight
<1>2. InFlightNumber \in Nat /\ (InFlight = {} <=> InFlightNumber = 0)
  BY <1>1, FS_CardinalityType, FS_EmptySet DEF InFlightNumber
<1>3. ASSUME NEW S \in SUBSET InFlight
      PROVE  Cardinality(S) \in Nat /\ Cardinality(S) <= InFlightNumber
  BY <1>1, <1>3, FS_Subset, FS_CardinalityType DEF InFlightNumber
<1>4. ASSUME NEW r \in InFlight
      PROVE  Cardinality(InFlight \ {r}) = InFlightNumber - 1 /\ InFlightNumber >= 1
  <2>1. InFlightNumber # 0
    BY <1>2, <1>4
  <2> QED BY <1>1, <1>2, <2>1, FS_RemoveElement DEF InFlightNumber
<1>5. ASSUME NEW r PROVE Cardinality(InFlight \cup {r}) <= InFlightNumber + 1
  <2>1. Cardinality(InFlight \cup {r}) \in {InFlightNumber, InFlightNumber + 1}
    BY <1>1, FS_AddElement DEF InFlightNumber
  <2> QED BY <1>2, <2>1
<1> QED BY <1>1, <1>2, <1>3, <1>4, <1>5

(* What takes nothing off the counter and adds nothing to the flight.       *)
LEMMA QuietConnections ==
  ASSUME TypeOK, ConnectionInv, InFlight' \subseteq InFlight,
         UNCHANGED <<client, live, closing, closes, usable, open_connections, body_failed>>
  PROVE  ConnectionInv'
<1>1. InFlight' \in SUBSET InFlight
  OBVIOUS
<1>2. Cardinality(InFlight') \in Nat /\ Cardinality(InFlight') <= InFlightNumber
  BY <1>1, InFlightFinite
<1>3. closes = 0 /\ ~body_failed => open_connections >= Cardinality(InFlight')
  BY <1>2, InFlightFinite DEF ConnectionInv, ConnectionsNotUnderstated, InFlightNumber, TypeOK
<1> QED BY <1>3 DEF ConnectionInv, ConnectionsNotUnderstated

(* An except clause met by a request in flight takes one connection off.    *)
LEMMA FailedConnections ==
  ASSUME TypeOK, ConnectionInv, NEW r \in InFlight, Failed(r, open_connections),
         UNCHANGED <<client, live, closing, closes, usable, body_failed>>
  PROVE  ConnectionInv'
<1>1. request \in [Requests -> RequestStates] /\ open_connections \in Int
  BY DEF TypeOK, RequestStates
<1>2. InFlight' = InFlight \ {r}
  BY <1>1 DEF Failed, InFlight
<1>3. open_connections' = IF open_connections > 0 THEN open_connections - 1 ELSE open_connections
  BY DEF Failed
<1>4. closes = 0 /\ ~body_failed => open_connections' >= Cardinality(InFlight')
  BY <1>1, <1>2, <1>3, InFlightFinite DEF ConnectionInv, ConnectionsNotUnderstated, InFlightNumber
<1> QED BY <1>2, <1>4 DEF ConnectionInv, ConnectionsNotUnderstated

LEMMA AttemptConnections ==
  ASSUME TypeOK, ConnectionInv, NEW r \in Requests, request[r] # "sending", Attempt(r)
  PROVE  ConnectionInv'
<1>0. /\ request \in [Requests -> RequestStates] /\ open_connections \in Int
      /\ client \in Nat /\ made \in Nat
      /\ UNCHANGED <<closing, closes, usable, body_failed>>
  BY AttemptClients DEF TypeOK, RequestStates, Attempt
<1>1. ASSUME NEW open, Failed(r, open) PROVE InFlight' = InFlight
  BY <1>0, <1>1 DEF Failed, InFlight
<1>2. CASE /\ client = 0 /\ ~usable
           /\ Failed(r, open_connections) /\ UNCHANGED <<clients, sends>>
  <2>1. InFlight' = {} /\ InFlight = {} /\ UNCHANGED client
    BY <1>1, <1>2 DEF ConnectionInv, clients
  <2>2. Cardinality(InFlight') = 0 /\ InFlightNumber = 0
    BY <2>1, FS_EmptySet DEF InFlightNumber
  <2>3. open_connections' = IF open_connections > 0 THEN open_connections - 1 ELSE open_connections
    BY <1>2 DEF Failed
  <2>4. closes = 0 /\ ~body_failed => open_connections' >= Cardinality(InFlight')
    BY <1>0, <2>2, <2>3 DEF ConnectionInv, ConnectionsNotUnderstated, InFlightNumber
  <2> QED BY <1>0, <1>2, <2>1, <2>4 DEF ConnectionInv, ConnectionsNotUnderstated
<1>3. CASE /\ client # 0 /\ client \notin live
           /\ Failed(r, open_connections + 1) /\ UNCHANGED <<clients, sends>>
  <2>1. closes # 0
    BY <1>3 DEF ConnectionInv
  <2> QED BY <1>0, <1>1, <1>3, <2>1 DEF ConnectionInv, ConnectionsNotUnderstated, clients
<1>4. CASE /\ client \in live \/ (client = 0 /\ usable)
           /\ GetClient
           /\ open_connections' = open_connections + 1
           /\ request' = [request EXCEPT ![r] = "sending"]
  <2>1. InFlight' = InFlight \cup {r}
    BY <1>0, <1>4 DEF InFlight
  <2>2. Cardinality(InFlight') \in Nat /\ Cardinality(InFlight') <= InFlightNumber + 1
    BY <2>1, InFlightFinite, FS_AddElement, FS_CardinalityType
  <2>3. closes = 0 /\ ~body_failed => open_connections' >= Cardinality(InFlight')
    BY <1>0, <1>4, <2>2, InFlightFinite DEF ConnectionInv, ConnectionsNotUnderstated, InFlightNumber
  <2>4. usable
    <3>1. 0 \notin live
      BY DEF TypeOK
    <3> QED BY <1>4, <3>1 DEF ConnectionInv
  <2>5. closes = 0 => (client' # 0 => client' \in live')
    BY <1>4 DEF ConnectionInv, GetClient
  <2> QED BY <1>0, <2>3, <2>4, <2>5 DEF ConnectionInv, ConnectionsNotUnderstated
<1> QED BY <1>2, <1>3, <1>4 DEF Attempt

(* The open connections reported are never fewer than the requests in       *)
(* flight, whatever raises or is aborted, as long as nothing was closed and *)
(* every body could be read.                                                *)
THEOREM ConnectionsCovered == Spec => []ConnectionsNotUnderstated
<1>1. Init => ConnectionInv
  <2> SUFFICES ASSUME Init PROVE ConnectionInv
    OBVIOUS
  <2>1. InFlight = {}
    BY DEF Init, InFlight
  <2>2. Cardinality(InFlight) = 0
    BY <2>1, FS_EmptySet
  <2> QED BY <2>1, <2>2 DEF Init, ConnectionInv, ConnectionsNotUnderstated
<1>2. TypeOK /\ ConnectionInv /\ [Next]_vars => ConnectionInv'
  <2> SUFFICES ASSUME TypeOK, ConnectionInv, [Next]_vars PROVE ConnectionInv'
    OBVIOUS
  <2>0. /\ request \in [Requests -> RequestStates]
        /\ open_connections \in Int
    BY DEF TypeOK, RequestStates
  <2>1. ASSUME NEW r \in Requests, NEW s \in RequestStates \ {"sending"},
               request' = [request EXCEPT ![r] = s],
               UNCHANGED <<clients, usable, open_connections, body_failed>>
        PROVE  ConnectionInv'
    <3>1. InFlight' \subseteq InFlight
      BY <2>0, <2>1 DEF InFlight
    <3> QED BY <2>1, <3>1, QuietConnections DEF clients
  <2>2. ASSUME NEW r \in Requests, Refuse(r) PROVE ConnectionInv'
    BY <2>1, <2>2 DEF Refuse, RequestStates
  <2>3. ASSUME NEW r \in Requests, Begin(r) PROVE ConnectionInv'
    <3>1. request[r] # "sending"
      BY <2>3 DEF Begin
    <3>2. CASE Refuse(r) \/ Attempt(r)
      BY <2>2, <3>1, <3>2, AttemptConnections
    <3>3. CASE /\ request' = [request EXCEPT ![r] = "waiting"]
               /\ UNCHANGED <<clients, usable, open_connections, body_failed>>
      BY <2>1, <3>3 DEF RequestStates
    <3> QED BY <2>3, <3>2, <3>3 DEF Begin
  <2>4. ASSUME NEW r \in Requests, Wake(r) PROVE ConnectionInv'
    <3>1. request[r] # "sending"
      BY <2>4 DEF Wake
    <3> QED BY <2>2, <2>4, <3>1, AttemptConnections DEF Wake
  <2>5. ASSUME NEW r \in Requests, Stop(r) PROVE ConnectionInv'
    BY <2>1, <2>5 DEF Stop, RequestStates
  <2>6. ASSUME NEW r \in Requests, Answer(r) PROVE ConnectionInv'
    <3>1. r \in InFlight /\ InFlight' = InFlight \ {r}
      BY <2>0, <2>6 DEF Answer, InFlight
    <3>2. closes = 0 /\ ~body_failed => open_connections' >= Cardinality(InFlight')
      BY <2>0, <2>6, <3>1, InFlightFinite
         DEF Answer, ConnectionInv, ConnectionsNotUnderstated, InFlightNumber
    <3> QED BY <2>6, <3>1, <3>2 DEF Answer, clients, ConnectionInv, ConnectionsNotUnderstated
  <2>7. ASSUME NEW r \in Requests, AnswerUnreadable(r) PROVE ConnectionInv'
    <3>1. InFlight' \subseteq InFlight
      BY <2>0, <2>7 DEF AnswerUnreadable, Failed, InFlight
    <3> QED BY <2>7, <3>1 DEF AnswerUnreadable, clients, ConnectionInv, ConnectionsNotUnderstated
  <2>8. ASSUME NEW r \in Requests, Fail(r) PROVE ConnectionInv'
    <3>1. r \in InFlight
      BY <2>8 DEF Fail, InFlight
    <3> QED BY <2>8, <3>1, FailedConnections DEF Fail, clients
  <2>9. ASSUME NEW b \in Batches, Submit(b) PROVE ConnectionInv'
    <3>1. InFlight' \subseteq InFlight
      BY <2>9 DEF Submit, InFlight
    <3> QED BY <2>9, <3>1, QuietConnections DEF Submit, clients
  <2>10. ASSUME UNCHANGED <<request, clients, usable, open_connections, body_failed>>
         PROVE  ConnectionInv'
    <3>1. InFlight' = InFlight
      BY <2>10 DEF InFlight
    <3> QED BY <2>10, <3>1, QuietConnections DEF clients
  <2>11. ASSUME NEW b \in Batches, Return(b) \/ Abort(b) \/ EndAbort(b) PROVE ConnectionInv'
    BY <2>10, <2>11 DEF Return, Abort, EndAbort
  <2>12. CASE Cancel
    BY <2>10, <2>12 DEF Cancel
  <2>13. CASE BeginClose
    <3>1. closes' # 0 /\ InFlight' = InFlight /\ UNCHANGED <<usable, client>>
      BY <2>13 DEF BeginClose, InFlight, TypeOK
    <3> QED BY <3>1 DEF ConnectionInv, ConnectionsNotUnderstated
  <2>14. CASE EndClose
    <3>1. closes' # 0 /\ InFlight' = InFlight /\ client' = 0 /\ UNCHANGED usable
      BY <2>14 DEF EndClose, InFlight, ConnectionInv
    <3> QED BY <3>1 DEF ConnectionInv, ConnectionsNotUnderstated
  <2>15. CASE UNCHANGED vars
    BY <2>10, <2>15 DEF vars
  <2> QED BY <2>3, <2>4, <2>5, <2>6, <2>7, <2>8, <2>9, <2>11, <2>12, <2>13, <2>14, <2>15
             DEF Next, RequestStep
<1>3. ConnectionInv => ConnectionsNotUnderstated
  BY DEF ConnectionInv
<1> QED BY <1>1, <1>2, <1>3, TypeCorrect, PTL DEF Spec

-----------------------------------------------------------------------------
(* How far a request has come: between two sleeps it is sent at most once,  *)
(* and it sleeps again only in a later attempt.                             *)
Position(r) ==
  IF request[r] = "idle" THEN 0
  ELSE IF request[r] = "queued" THEN 1
  ELSE IF request[r] = "waiting" THEN 2 * attempt[r] + 2
  ELSE IF request[r] = "sending" THEN 2 * attempt[r] + 3
  ELSE 2 * MaxRetries + 4

LEMMA PositionBounded ==
  ASSUME TypeOK, NEW r \in Requests
  PROVE  Position(r) \in 0 .. 2 * MaxRetries + 4
<1>1. attempt[r] \in 0 .. MaxRetries
  BY DEF TypeOK
<1> QED BY <1>1, RetriesAssumption DEF Position

(* What a step of a request does with it. *)
Advances(r) ==
  /\ request[r] \in {"queued", "waiting", "sending"}
  /\ \E s \in RequestStates, a \in 0 .. MaxRetries :
       /\ request' = [request EXCEPT ![r] = s]
       /\ attempt' = [attempt EXCEPT ![r] = a]
       /\ \/ s \in {"done", "stopped"}
          \/ s = "sending" /\ a = attempt[r] /\ request[r] # "sending"
          \/ s = "waiting" /\ a = attempt[r] /\ request[r] = "queued"
          \/ s = "waiting" /\ a = attempt[r] + 1

LEMMA FailedAdvances ==
  ASSUME TypeOK, NEW r \in Requests, request[r] \in {"queued", "waiting", "sending"},
         NEW open, Failed(r, open)
  PROVE  Advances(r)
<1> USE RetriesAssumption DEF RequestStates
<1>0. attempt[r] \in 0 .. MaxRetries /\ attempt \in [Requests -> 0 .. MaxRetries]
  BY DEF TypeOK
<1>1. CASE attempt[r] < MaxRetries /\ attempt' = [attempt EXCEPT ![r] = @ + 1]
           /\ request' = [request EXCEPT ![r] = "waiting"]
  <2>1. attempt[r] + 1 \in 0 .. MaxRetries
    BY <1>0, <1>1
  <2> QED BY <1>1, <2>1 DEF Advances
<1>2. CASE request' = [request EXCEPT ![r] = "done"] /\ UNCHANGED attempt
  <2>1. attempt' = [attempt EXCEPT ![r] = attempt[r]]
    BY <1>0, <1>2
  <2> QED BY <1>0, <1>2, <2>1 DEF Advances
<1> QED BY <1>1, <1>2 DEF Failed

LEMMA RequestAdvances ==
  ASSUME TypeOK, NEW r \in Requests, RequestStep(r)
  PROVE  Advances(r) /\ UNCHANGED batch
<1>0. attempt[r] \in 0 .. MaxRetries /\ attempt' = [attempt EXCEPT ![r] = attempt[r]]
      <=> UNCHANGED attempt
  BY DEF TypeOK
<1>a. attempt[r] \in 0 .. MaxRetries
  BY DEF TypeOK
<1>1. ASSUME request[r] \in {"queued", "waiting"}, Attempt(r)
      PROVE  Advances(r) /\ UNCHANGED batch
  <2>1. CASE \E open : Failed(r, open)
    BY <1>1, <2>1, FailedAdvances DEF Attempt
  <2>2. CASE request' = [request EXCEPT ![r] = "sending"] /\ UNCHANGED attempt
    BY <1>0, <1>a, <1>1, <2>2 DEF Attempt, Advances, RequestStates
  <2> QED BY <1>1, <2>1, <2>2 DEF Attempt
<1>2. ASSUME request[r] \in {"queued", "waiting"}, Refuse(r)
      PROVE  Advances(r) /\ UNCHANGED batch
  BY <1>0, <1>a, <1>2 DEF Refuse, Advances, RequestStates
<1>3. CASE Begin(r)
  <2>1. CASE request' = [request EXCEPT ![r] = "waiting"] /\ UNCHANGED <<batch, attempt>>
    BY <1>0, <1>a, <1>3, <2>1 DEF Begin, Advances, RequestStates
  <2> QED BY <1>1, <1>2, <1>3, <2>1 DEF Begin
<1>4. CASE Wake(r)
  BY <1>1, <1>2, <1>4 DEF Wake
<1>5. CASE Stop(r) \/ Answer(r)
  BY <1>0, <1>a, <1>5 DEF Stop, Answer, Advances, RequestStates
<1>6. CASE AnswerUnreadable(r) \/ Fail(r)
  BY <1>6, FailedAdvances DEF AnswerUnreadable, Fail
<1> QED BY <1>3, <1>4, <1>5, <1>6 DEF RequestStep

LEMMA PositionGrows ==
  ASSUME TypeOK, NEW r \in Requests, Advances(r)
  PROVE  /\ Position(r)' > Position(r)
         /\ \A q \in Requests \ {r} : Position(q)' = Position(q)
<1> USE RetriesAssumption
<1>0. /\ request \in [Requests -> RequestStates] /\ attempt \in [Requests -> 0 .. MaxRetries]
      /\ attempt[r] \in 0 .. MaxRetries
  BY DEF TypeOK, RequestStates
<1>1. \A q \in Requests \ {r} : request'[q] = request[q] /\ attempt'[q] = attempt[q]
  BY <1>0 DEF Advances
<1>2. request'[r] \in {"done", "stopped", "sending", "waiting"}
      /\ attempt'[r] \in 0 .. MaxRetries
  BY <1>0 DEF Advances
<1>3. \/ request'[r] \in {"done", "stopped"}
      \/ request'[r] = "sending" /\ attempt'[r] = attempt[r] /\ request[r] \in {"queued", "waiting"}
      \/ request'[r] = "waiting" /\ attempt'[r] = attempt[r] /\ request[r] = "queued"
      \/ request'[r] = "waiting" /\ attempt'[r] = attempt[r] + 1
  BY <1>0 DEF Advances
<1>4. request[r] \in {"queued", "waiting", "sending"}
  BY DEF Advances
<1>5. Position(r)' > Position(r)
  BY <1>0, <1>2, <1>3, <1>4 DEF Position
<1>6. \A q \in Requests \ {r} : Position(q)' = Position(q)
  BY <1>1 DEF Position
<1> QED BY <1>5, <1>6

(* Nothing else moves a request back. *)
LEMMA OthersKeepPosition ==
  ASSUME TypeOK, IdleInv, [Next]_vars, \A r \in Requests : ~RequestStep(r)
  PROVE  \A q \in Requests : Position(q)' >= Position(q)
<1> USE RetriesAssumption
<1> SUFFICES ASSUME NEW q \in Requests PROVE Position(q)' >= Position(q)
  OBVIOUS
<1>0. request[q] \in RequestStates /\ attempt[q] \in 0 .. MaxRetries
  BY DEF TypeOK, RequestStates
<1>1. CASE UNCHANGED <<request, attempt>>
  BY <1>0, <1>1 DEF Position
<1>2. ASSUME NEW b \in Batches, Submit(b) PROVE Position(q)' >= Position(q)
  <2>1. UNCHANGED attempt /\ request'[q] = IF q[1] = b THEN "queued" ELSE request[q]
    BY <1>2 DEF Submit
  <2>2. q[1] = b => request[q] = "idle"
    BY <1>2 DEF Submit, IdleInv
  <2> QED BY <1>0, <2>1, <2>2 DEF Position
<1> QED BY <1>1, <1>2 DEF Next, Return, Abort, EndAbort, Cancel, BeginClose, EndClose, vars

LEMMA PositionsMove ==
  ASSUME TypeOK, TypeOK', IdleInv, [Next]_vars
  PROVE  \A r \in Requests : /\ Position(r)' >= Position(r)
                             /\ RequestStep(r) => Position(r)' > Position(r)
<1>1. \A r \in Requests : Position(r) \in Int /\ Position(r)' \in Int
  <2> SUFFICES ASSUME NEW r \in Requests PROVE Position(r) \in Int /\ Position(r)' \in Int
    OBVIOUS
  <2>1. Position(r) \in 0 .. 2 * MaxRetries + 4
    BY PositionBounded
  <2>2. attempt'[r] \in 0 .. MaxRetries
    BY DEF TypeOK
  <2>3. Position(r)' \in Int
    BY <2>2, RetriesAssumption DEF Position
  <2> QED BY <2>1, <2>3, RetriesAssumption
<1>2. ASSUME NEW r \in Requests, RequestStep(r)
      PROVE  Position(r)' > Position(r) /\ \A q \in Requests \ {r} : Position(q)' = Position(q)
  BY <1>2, RequestAdvances, PositionGrows
<1>3. CASE \E r \in Requests : RequestStep(r)
  <2>1. PICK r \in Requests : RequestStep(r)
    BY <1>3
  <2>2. \A q \in Requests : q = r \/ Position(q)' = Position(q)
    BY <1>2, <2>1
  <2>3. Position(r)' > Position(r)
    BY <1>2, <2>1
  <2>4. \A q \in Requests : Position(q)' >= Position(q)
    BY <1>1, <2>2, <2>3
  <2> QED BY <1>2, <2>4
<1>4. CASE \A r \in Requests : ~RequestStep(r)
  BY <1>4, OthersKeepPosition
<1> QED BY <1>3, <1>4

(* A request moves through at most 2 * MaxRetries + 4 positions, never back:*)
(* each step of _request and of what it is cancelled by brings it further,  *)
(* and no other request, cancel, close or batch takes that away.            *)
THEOREM RequestsAdvance ==
  Spec => /\ [](\A r \in Requests : Position(r) \in 0 .. 2 * MaxRetries + 4)
          /\ [][\A r \in Requests : /\ Position(r)' >= Position(r)
                                    /\ RequestStep(r) => Position(r)' > Position(r)]_vars
<1> USE RetriesAssumption
<1>1. TypeOK => \A r \in Requests : Position(r) \in 0 .. 2 * MaxRetries + 4
  BY PositionBounded
<1>2. TypeOK /\ TypeOK' /\ IdleInv /\ [Next]_vars =>
        \A r \in Requests : /\ Position(r)' >= Position(r)
                            /\ RequestStep(r) => Position(r)' > Position(r)
  BY PositionsMove
<1> QED BY <1>1, <1>2, TypeCorrect, IdleRequests, PTL DEF Spec

-----------------------------------------------------------------------------
(* The attempts that have gone as far as the network, or been passed over.  *)
Tries == {p \in Requests \X (0 .. MaxRetries) : Position(p[1]) >= 2 * p[2] + 3}

LEMMA TriesCounted ==
  ASSUME NEW T \in SUBSET (Requests \X (0 .. MaxRetries))
  PROVE  /\ IsFiniteSet(T) /\ Cardinality(T) \in Nat
         /\ Cardinality(T) <= Cardinality(Requests) * (MaxRetries + 1)
<1>1. IsFiniteSet(0 .. MaxRetries) /\ Cardinality(0 .. MaxRetries) = MaxRetries + 1
  BY RetriesAssumption, FS_Interval
<1>2. /\ IsFiniteSet(Requests \X (0 .. MaxRetries))
      /\ Cardinality(Requests \X (0 .. MaxRetries)) = Cardinality(Requests) * (MaxRetries + 1)
  BY <1>1, RequestsFinite, FS_Product
<1> QED BY <1>2, FS_Subset, FS_CardinalityType

SendsInv == sends <= Cardinality(Tries)

(* What goes out is one request, in an attempt that had not come so far.    *)
LEMMA SendingIsATry ==
  ASSUME TypeOK, [Next]_vars, sends' # sends
  PROVE  \E r \in Requests :
           /\ RequestStep(r) /\ sends' = sends + 1 /\ UNCHANGED attempt
           /\ request[r] \in {"queued", "waiting"} /\ request'[r] = "sending"
<1>1. ASSUME NEW r \in Requests, request[r] \in {"queued", "waiting"}, Attempt(r), RequestStep(r)
      PROVE  /\ RequestStep(r) /\ sends' = sends + 1 /\ UNCHANGED attempt
             /\ request[r] \in {"queued", "waiting"} /\ request'[r] = "sending"
  BY <1>1 DEF Attempt, TypeOK
<1>2. ASSUME NEW r \in Requests, Refuse(r) PROVE FALSE
  BY <1>2 DEF Refuse
<1>3. ASSUME NEW r \in Requests, RequestStep(r)
      PROVE  request[r] \in {"queued", "waiting"} /\ Attempt(r)
  BY <1>2, <1>3 DEF RequestStep, Begin, Wake, Stop, Answer, AnswerUnreadable, Fail
<1>4. \E r \in Requests : RequestStep(r)
  BY DEF Next, Submit, Return, Abort, EndAbort, Cancel, BeginClose, EndClose, vars
<1> QED BY <1>1, <1>3, <1>4

LEMMA SendsCounted ==
  ASSUME TypeOK, TypeOK', IdleInv, SendsInv, [Next]_vars
  PROVE  SendsInv'
<1> USE RetriesAssumption
<1>0. sends \in Nat /\ attempt \in [Requests -> 0 .. MaxRetries]
  BY DEF TypeOK
<1>1. Tries \subseteq Tries'
  <2>1. ASSUME NEW r \in Requests, NEW a \in 0 .. MaxRetries, Position(r) >= 2 * a + 3
        PROVE  Position(r)' >= 2 * a + 3
    <3>1. Position(r)' >= Position(r)
      BY PositionsMove
    <3>2. Position(r) \in 0 .. 2 * MaxRetries + 4
      BY PositionBounded
    <3>3. attempt'[r] \in 0 .. MaxRetries
      BY DEF TypeOK
    <3>4. Position(r)' \in Int
      BY <3>3 DEF Position
    <3> QED BY <2>1, <3>1, <3>2, <3>4
  <2>2. Tries' = {p \in Requests \X (0 .. MaxRetries) : Position(p[1])' >= 2 * p[2] + 3}
    BY DEF Tries
  <2> QED BY <2>1, <2>2 DEF Tries
<1>2. /\ IsFiniteSet(Tries) /\ Cardinality(Tries) \in Nat
      /\ IsFiniteSet(Tries') /\ Cardinality(Tries') \in Nat
  BY TriesCounted DEF Tries
<1>3. CASE UNCHANGED sends
  <2>1. Cardinality(Tries) <= Cardinality(Tries')
    BY <1>1, <1>2, FS_Subset
  <2> QED BY <1>0, <1>2, <1>3, <2>1 DEF SendsInv
<1>4. CASE sends' # sends
  <2>1. PICK r \in Requests :
          /\ RequestStep(r) /\ sends' = sends + 1 /\ UNCHANGED attempt
          /\ request[r] \in {"queued", "waiting"} /\ request'[r] = "sending"
    BY <1>4, SendingIsATry
  <2> DEFINE p == <<r, attempt[r]>>
  <2>2. p \in Requests \X (0 .. MaxRetries) /\ p[1] = r /\ p[2] = attempt[r]
        /\ attempt[r] \in 0 .. MaxRetries /\ attempt'[r] = attempt[r]
    BY <1>0, <2>1
  <2>3. p \notin Tries
    BY <2>1, <2>2 DEF Tries, Position
  <2>4. p \in Tries'
    <3>1. Position(r)' >= 2 * attempt[r] + 3
      BY <2>1, <2>2 DEF Position
    <3> QED BY <2>2, <3>1 DEF Tries
  <2> HIDE DEF p
  <2>5. Cardinality(Tries \cup {p}) = Cardinality(Tries) + 1 /\ IsFiniteSet(Tries \cup {p})
    BY <1>2, <2>3, FS_AddElement
  <2>6. Cardinality(Tries \cup {p}) <= Cardinality(Tries')
    BY <1>1, <1>2, <2>4, <2>5, FS_Subset
  <2> QED BY <1>0, <1>2, <2>1, <2>5, <2>6 DEF SendsInv
<1> QED BY <1>3, <1>4

(* However requests fail, are cancelled or find the client closed under     *)
(* them, no URL is fetched more often than _request's loop allows: all      *)
(* batches together send at most MaxRetries + 1 requests for each URL.      *)
THEOREM SendsBounded == Spec => [](sends <= Cardinality(Requests) * (MaxRetries + 1))
<1>1. Init => SendsInv
  <2>1. Cardinality(Tries) \in Nat
    BY TriesCounted DEF Tries
  <2> QED BY <2>1 DEF Init, SendsInv
<1>2. TypeOK /\ TypeOK' /\ IdleInv /\ SendsInv /\ [Next]_vars => SendsInv'
  BY SendsCounted
<1>3. TypeOK /\ SendsInv => sends <= Cardinality(Requests) * (MaxRetries + 1)
  <2>1. /\ Cardinality(Tries) \in Nat
        /\ Cardinality(Tries) <= Cardinality(Requests) * (MaxRetries + 1)
    BY TriesCounted DEF Tries
  <2>2. Cardinality(Requests) * (MaxRetries + 1) \in Int
    BY RetriesAssumption, RequestsFinite, FS_CardinalityType
  <2> QED BY <2>1, <2>2 DEF SendsInv, TypeOK
<1> QED BY <1>1, <1>2, <1>3, TypeCorrect, IdleRequests, PTL DEF Spec
=============================================================================
