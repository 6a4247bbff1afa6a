------------------------- MODULE GatewayTextReasoning -------------------------
(***************************************************************************)
(* The Gateway's managed text route, POST /v1/responses (gateway/app.ts),   *)
(* over its two durable stores: the usage ledger (UsageBudget) and the      *)
(* operation results (OperationResultStore).                               *)
(*                                                                         *)
(* A request is one HTTP call.  Requests of one operation are retries of it *)
(* by one installation, the same operation id from another installation, or *)
(* the same id with another body.  A handler does everything up to its      *)
(* first await in one step: begin, reserve, and the undoing of begin when   *)
(* the reservation is not granted.  The two stores commit separately, so a  *)
(* crash can fall between two commits of one step.                         *)
(***************************************************************************)
EXTENDS Integers, FiniteSets

CONSTANTS
    Requests,           \* HTTP requests, each handled once
    InstallationOf, PrincipalOf,    \* the verified identity of a request
    OperationOf,        \* X-BB-Operation-ID
    BodyOf,             \* the request body, which the fingerprint hashes
    InputBytes,         \* size of each body
    RequestedOutput,    \* max_output_tokens of each body, 0 when absent
    ModelMaxOutput,     \* the longest answer of a model that was given no cap
    PrincipalLimit, InstallationLimit,  \* tokens per day
    Days,
    MaxUnacknowledged, MaxUnacknowledgedGlobal, MaxSucceeded,
    NoPayload,
    LedgerUp, StoreUp   \* {TRUE}, or BOOLEAN where a store may be unavailable

VARIABLES
    ledger, today,      \* usage_budget_reservations
    straddling,         \* history: its rows whose reservation went on past midnight
    results,            \* gateway_operation_results_v4
    phase,              \* where the handler of each request is
    receipt,            \* the fencing token of its usage reservation
    answer,             \* the payload its client received completely
    calls,              \* requests the provider got, per operation key
    produced            \* operation keys for which the provider answered 2xx

vars == <<ledger, today, straddling, results, phase, receipt, answer, calls, produced>>

Phases == {"unsent", "waiting", "calling", "streaming", "done", "gone"}
InFlight == {"waiting", "calling", "streaming"}

\* Mutant: the fingerprint leaves the body out.
fingerprintOfOperation(r) == OperationOf[r]

\* usageFingerprint of the capability and the body.
fingerprint(r) == BodyOf[r]

Binding(r) == [ installation |-> InstallationOf[r], operation |-> OperationOf[r],
                fingerprint  |-> fingerprint(r) ]

Amount(n) == [x \in {"total_tokens"} |-> n]

\* reserveReplayableTextUsage: reservedTextTokenUpperBound of the body.
Input(r) ==
    [ principal   |-> PrincipalOf[r],     installation |-> InstallationOf[r],
      operation   |-> OperationOf[r],     capability   |-> "TextReasoning",
      account     |-> "deepseek",         fingerprint  |-> fingerprint(r),
      amount      |-> Amount(InputBytes[BodyOf[r]] + RequestedOutput[BodyOf[r]]) ]

\* usage.actual: what the provider reports for a finished answer. An input
\* token takes at least a byte, and the provider keeps to a cap it was given.
UpstreamTotals(r) ==
    LET cap == IF RequestedOutput[BodyOf[r]] > 0
               THEN RequestedOutput[BodyOf[r]] ELSE ModelMaxOutput
    IN  1..(InputBytes[BodyOf[r]] + cap)

Payloads == [by : Requests, total : UNION {UpstreamTotals(r) : r \in Requests},
             whole : BOOLEAN]

\* What the constants are assumed to be. An installation has one principal
\* (installation_registrations_v1), and no body is empty.
RouteConfig ==
    /\ Days \in Nat \ {0}
    /\ LedgerUp \subseteq BOOLEAN /\ StoreUp \subseteq BOOLEAN
    /\ PrincipalLimit \in Nat /\ InstallationLimit \in Nat
    /\ ModelMaxOutput \in Nat
    /\ \A r \in Requests : /\ InputBytes[BodyOf[r]] \in Nat \ {0}
                           /\ RequestedOutput[BodyOf[r]] \in Nat
    /\ \A r, q \in Requests :
          InstallationOf[r] = InstallationOf[q] => PrincipalOf[r] = PrincipalOf[q]
    /\ NoPayload \notin Payloads

ASSUME RouteAssumption == RouteConfig

Ledger == INSTANCE UsageBudget WITH
    Axes <- {"total_tokens"},
    Inputs <- {Input(r) : r \in Requests},
    ActualsFor <- LAMBDA reserved : {},
    PrincipalLimit <- Amount(PrincipalLimit),
    InstallationLimit <- Amount(InstallationLimit),
    Legacy <- {}

Store == INSTANCE OperationResultStore WITH
    Calls <- Requests,
    BindingOf <- [r \in Requests |-> Binding(r)],
    call <- phase

UsageKey(r) == Ledger!Key(Input(r))
UsageKeys == {UsageKey(r) : r \in Requests}
ResultKey(r) == Store!Key(Binding(r))

Init ==
    /\ ledger = [k \in {} |-> 0]
    /\ today = 1 /\ straddling = {}
    /\ results = [k \in {} |-> 0]
    /\ phase = [r \in Requests |-> "unsent"]
    /\ receipt = [r \in Requests |-> 0]
    /\ answer = [r \in Requests |-> NoPayload]
    /\ calls = [k \in UsageKeys |-> 0]
    /\ produced = {}

-----------------------------------------------------------------------------
(* What the two stores answer to a request that arrives.                   *)

Began(r) == Store!beginOutcome(results, Binding(r))
Begun(r) == Store!begin(results, Binding(r), r)
Reservation(r, checked) == Ledger!reserveOutcome(ledger, today, checked, Input(r))

\* The handler is over, and nobody but its client was affected.
Left(r) ==
    /\ phase' = [phase EXCEPT ![r] = "done"]
    /\ UNCHANGED <<receipt, calls, produced>>

Over(r) == Left(r) /\ UNCHANGED <<today, straddling>>

\* OPERATION_IN_PROGRESS, OPERATION_OUTCOME_UNKNOWN, a conflict, a full
\* backlog, or OPERATION_RESULT_UNAVAILABLE.
RefuseAtBegin(r) ==
    /\ phase[r] = "unsent"
    /\ \/ Began(r) \notin {"started", "succeeded"} /\ results' = Begun(r)
       \/ FALSE \in StoreUp /\ results' = results
    /\ Over(r)
    /\ UNCHANGED <<ledger, answer>>

\* Mutant: a reservation that exists already starts the call again.
RefuseReservationOnlyOnError(r) ==
    /\ phase[r] = "unsent"
    /\ Began(r) = "started"
    /\ Reservation(r, today) = "duplicate"
    /\ results' = Begun(r)
    /\ phase' = [phase EXCEPT ![r] = "waiting"]
    /\ receipt' = [receipt EXCEPT ![r] = ledger[UsageKey(r)].token]
    /\ UNCHANGED <<ledger, today, straddling, answer, calls, produced>>

\* USAGE_LIMIT_REACHED, OPERATION_CONFLICT, BUDGET_UNAVAILABLE, or, for an
\* operation the ledger knows already, OPERATION_USAGE_CONFLICT: the result
\* reservation just made is given back.
RefuseReservation(r) ==
    /\ phase[r] = "unsent"
    /\ \E ledgerUp \in LedgerUp, storeUp \in StoreUp, checked \in Ledger!Ends :
          /\ \/ ~ledgerUp
             \/ Reservation(r, checked) \in {"conflict", "limit_reached"}
             \/ Began(r) = "started" /\ Reservation(r, checked) = "duplicate"
          /\ \/ /\ Began(r) = "started"
                /\ results' = IF storeUp
                              THEN Store!release(Begun(r), Binding(r), r)
                              ELSE Begun(r)
             \/ Began(r) = "succeeded" /\ results' = Begun(r)
          /\ today' = checked
    /\ Left(r)
    /\ UNCHANGED <<ledger, straddling, answer>>

\* replayTextReasoningResult: the stored answer, settled if it was not.
Replay(r) ==
    /\ phase[r] = "unsent"
    /\ Began(r) = "succeeded"
    /\ results' = Begun(r)
    /\ \E checked \in Ledger!Ends :
          /\ Reservation(r, checked) \in {"duplicate", "reserved"}
          /\ LET new == Reservation(r, checked) = "reserved"
                 payload == results[ResultKey(r)].payload
                 l == IF new THEN Ledger!reserve(ledger, today, Input(r)) ELSE ledger
             IN  /\ ledger' = Ledger!settle(l, OperationOf[r], l[UsageKey(r)].token,
                                            Amount(payload.total))
                 /\ straddling' = IF new THEN Ledger!Crossing(checked, Input(r))
                                  ELSE straddling
                 /\ answer' = [answer EXCEPT ![r] = payload]
          /\ today' = checked
    /\ Left(r)

Admit(r) ==
    /\ phase[r] = "unsent"
    /\ Began(r) = "started"
    /\ \E checked \in Ledger!Ends :
          /\ Reservation(r, checked) = "reserved"
          /\ straddling' = Ledger!Crossing(checked, Input(r))
          /\ today' = checked
    /\ results' = Begun(r)
    /\ ledger' = Ledger!reserve(ledger, today, Input(r))
    /\ receipt' = [receipt EXCEPT ![r] = ledger'[UsageKey(r)].token]
    /\ phase' = [phase EXCEPT ![r] = "waiting"]
    /\ UNCHANGED <<answer, calls, produced>>

-----------------------------------------------------------------------------
(* The provider call (createChatHandler) and its failures.                  *)

ledgerUnknown(r) == Ledger!markOutcomeUnknown(ledger, OperationOf[r], receipt[r])
ledgerReleased(r) == Ledger!release(ledger, OperationOf[r], receipt[r])
storeUnknown(r) == Store!markOutcomeUnknown(results, Binding(r), r)
storeReleased(r) == Store!release(results, Binding(r), r)

\* Mutant: the failure is charged, and its operation left reserved.
FailForgetsResult(r, paid) ==
    /\ ledger' = IF paid THEN ledgerUnknown(r) ELSE ledgerReleased(r)
    /\ Over(r)
    /\ UNCHANGED <<results, answer>>

\* meteredFailure, then the operation result. 499 and 5xx may have been paid
\* for; other errors were not. An error of the ledger ends the handler, and
\* an error of the result store is swallowed.
Fail(r, paid) ==
    /\ \E ledgerUp \in LedgerUp, storeUp \in StoreUp :
          IF ledgerUp
          THEN /\ ledger' = IF paid THEN ledgerUnknown(r) ELSE ledgerReleased(r)
               /\ results' = IF ~storeUp THEN results
                             ELSE IF paid THEN storeUnknown(r) ELSE storeReleased(r)
          ELSE UNCHANGED <<ledger, results>>
    /\ Over(r)
    /\ UNCHANGED answer

\* 400 from prepareBody, or 429 from the capacity queue or the rate bucket.
QueueRefuses(r) == phase[r] = "waiting" /\ Fail(r, FALSE)

\* The client is gone before the call (499), or the deadline passed (504).
AbandonedInQueue(r) == phase[r] = "waiting" /\ Fail(r, TRUE)

CallUpstream(r) ==
    /\ phase[r] = "waiting"
    /\ calls' = [calls EXCEPT ![UsageKey(r)] = @ + 1]
    /\ phase' = [phase EXCEPT ![r] = "calling"]
    /\ UNCHANGED <<ledger, today, straddling, results, receipt, answer, produced>>

\* A 4xx response. A ledger that is down for the first meteredFailure and up
\* for the one in the catch sees the status 500.
UpstreamRefuses(r) ==
    /\ phase[r] = "calling"
    /\ \/ Fail(r, FALSE)
       \/ FALSE \in LedgerUp /\ Fail(r, TRUE)

UpstreamFails(r) == phase[r] = "calling" /\ Fail(r, TRUE)

UpstreamStreams(r) ==
    /\ phase[r] = "calling"
    /\ phase' = [phase EXCEPT ![r] = "streaming"]
    /\ produced' = produced \cup {UsageKey(r)}
    /\ UNCHANGED <<ledger, today, straddling, results, receipt, answer, calls>>

-----------------------------------------------------------------------------
(* streamTextReasoningResult.                                              *)

\* Mutant: an interrupted answer is not charged.
MarkReleased(r, ledgerUp, storeUp) ==
    /\ results' = IF storeUp THEN storeUnknown(r) ELSE results
    /\ ledger' = IF ledgerUp THEN ledgerReleased(r) ELSE ledger
    /\ answer' = answer

\* markUnknown; errors of either store are swallowed.
MarkUnknown(r, ledgerUp, storeUp) ==
    /\ results' = IF storeUp THEN storeUnknown(r) ELSE results
    /\ ledger' = IF ledgerUp THEN ledgerUnknown(r) ELSE ledger
    /\ answer' = answer

\* Mutant: the charge comes first, whether the result can be stored or not.
FinishSettlesFirst(r, payload, delivered) ==
    /\ results' = Store!complete(results, Binding(r), r, payload)
    /\ ledger' = Ledger!settle(ledger, OperationOf[r], receipt[r],
                               Amount(payload.total))
    /\ answer' = [answer EXCEPT ![r] = IF delivered THEN payload ELSE @]
    /\ Over(r)

\* The end of the stream: the result first becomes replayable, then it is
\* charged. A result that cannot be stored (the lease was lost, the store is
\* down) is marked unknown; a charge that fails leaves the stored result.
Finish(r, payload, delivered) ==
    /\ \E ledgerUp \in LedgerUp, storeUp \in StoreUp :
          IF storeUp /\ Store!Completes(results, Binding(r), r, payload)
          THEN /\ results' = Store!complete(results, Binding(r), r, payload)
               /\ ledger' = IF ledgerUp
                            THEN Ledger!settle(ledger, OperationOf[r], receipt[r],
                                               Amount(payload.total))
                            ELSE ledger
               /\ answer' = [answer EXCEPT ![r] =
                                IF ledgerUp /\ delivered THEN payload ELSE @]
          ELSE MarkUnknown(r, ledgerUp, storeUp)
    /\ Over(r)

Whole(r, n) == [by |-> r, total |-> n, whole |-> TRUE]

\* A stream cut short before a usage event keeps the reserved amount.
Partial(r) == [by |-> r, whole |-> FALSE,
               total |-> InputBytes[BodyOf[r]] + RequestedOutput[BodyOf[r]]]

StreamDone(r) ==
    /\ phase[r] = "streaming"
    /\ \E n \in UpstreamTotals(r) : Finish(r, Whole(r, n), TRUE)

\* The upstream stream errors, or the response deadline aborts it.
StreamBreaks(r) ==
    /\ phase[r] = "streaming"
    /\ \E ledgerUp \in LedgerUp, storeUp \in StoreUp :
          MarkUnknown(r, ledgerUp, storeUp)
    /\ Over(r)

\* The client cancels. cancel() first cancels the reader: a read that is
\* pending in pull() resolves with done, as at the end of the stream, before
\* cancel() goes on to markUnknown. Where the abort of the request arrives
\* first, the read fails instead and the outcome is unknown.
ClientCancels(r) ==
    /\ phase[r] = "streaming"
    /\ \/ /\ \E ledgerUp \in LedgerUp, storeUp \in StoreUp :
                MarkUnknown(r, ledgerUp, storeUp)
          /\ Over(r)
       \/ Finish(r, Partial(r), FALSE)

\* POST of the ACK path, by a client that has the whole answer.
Acknowledge(r) ==
    /\ answer[r] # NoPayload
    /\ results' = Store!acknowledge(results, Binding(r))
    /\ UNCHANGED <<ledger, today, straddling, phase, receipt, answer, calls, produced>>

-----------------------------------------------------------------------------
(* Time, crashes and restarts.                                             *)

Expire(k) ==
    /\ Store!MayExpire(results, k)
    /\ results' = Store!expire(results, k)
    /\ UNCHANGED <<ledger, today, straddling, phase, receipt, answer, calls, produced>>

NextDay ==
    /\ today < Days
    /\ today' = today + 1
    /\ UNCHANGED <<ledger, straddling, results, phase, receipt, answer, calls, produced>>

\* The process ends, its handlers with it, and the constructors run again.
RestartWith(committed, lost) ==
    /\ results' = Store!reopened(committed)
    /\ phase' = [r \in Requests |->
                    IF r \in lost \/ phase[r] \in InFlight THEN "gone" ELSE phase[r]]
    /\ UNCHANGED <<ledger, today, straddling, receipt, answer, calls, produced>>

Crash == RestartWith(results, {})

\* begin has committed, reserve has not.
CrashBeforeReserve(r) ==
    /\ phase[r] = "unsent"
    /\ Began(r) = "started"
    /\ RestartWith(Begun(r), {r})

\* complete has committed, settle has not.
CrashBeforeSettle(r) ==
    /\ phase[r] = "streaming"
    /\ \E n \in UpstreamTotals(r) :
          RestartWith(Store!complete(results, Binding(r), r, Whole(r, n)), {r})

Next ==
    \/ \E r \in Requests :
          \/ RefuseAtBegin(r) \/ RefuseReservation(r) \/ Replay(r) \/ Admit(r)
          \/ QueueRefuses(r) \/ AbandonedInQueue(r) \/ CallUpstream(r)
          \/ UpstreamRefuses(r) \/ UpstreamFails(r) \/ UpstreamStreams(r)
          \/ StreamDone(r) \/ StreamBreaks(r) \/ ClientCancels(r)
          \/ Acknowledge(r) \/ CrashBeforeReserve(r) \/ CrashBeforeSettle(r)
    \/ \E k \in {ResultKey(r) : r \in Requests} : Expire(k)
    \/ NextDay
    \/ Crash

Spec == Init /\ [][Next]_vars

\* A waiting handler is ended by its permit, its queue timer or the abort of
\* the client; a call and a stream by an answer or by the response deadline.
Handle(r) ==
    \/ QueueRefuses(r) \/ AbandonedInQueue(r) \/ CallUpstream(r)
    \/ UpstreamRefuses(r) \/ UpstreamFails(r) \/ UpstreamStreams(r)
    \/ StreamDone(r) \/ StreamBreaks(r) \/ ClientCancels(r)

FairSpec == Spec /\ \A r \in Requests : WF_vars(Handle(r))

-----------------------------------------------------------------------------
TypeOK ==
    /\ today \in 1..Days
    /\ DOMAIN ledger \subseteq UsageKeys
    /\ DOMAIN results \subseteq {ResultKey(r) : r \in Requests}
    /\ \A k \in DOMAIN results :
          results[k].state = "succeeded" => results[k].payload \in Payloads
    /\ phase \in [Requests -> Phases]
    /\ receipt \in [Requests -> Nat]
    /\ answer \in [Requests -> Payloads \cup {NoPayload}]
    /\ calls \in [UsageKeys -> Nat]
    /\ produced \subseteq UsageKeys

\* "It never triggers another provider request" (app.ts, stream and replay):
\* however an operation is retried, from whichever installation, across lost
\* leases, pruned results, outages of a store and restarts, its provider is
\* called at most once.
AtMostOneUpstreamCall == \A k \in UsageKeys : calls[k] <= 1

\* An answer the provider has begun to produce is never given away: its
\* usage row exists and is not released.
NoFreeAnswer ==
    \A k \in produced : k \in DOMAIN ledger /\ ledger[k].state # "released"

\* "Persist the replayable result before charging": an exact amount is
\* charged only in a step that leaves a stored result of that amount behind.
SettledAsStored ==
    [][\A k \in DOMAIN ledger' :
          /\ ledger'[k].state = "settled"
          /\ k \in DOMAIN ledger => ledger[k].state # "settled"
          => \E j \in DOMAIN results' :
                /\ j.operation = k.operation
                /\ j.installation = ledger'[k].installation
                /\ results'[j].state = "succeeded"
                /\ ledger'[k].actual = Amount(results'[j].payload.total)]_vars

\* Whoever gets an answer gets the one of its own operation: made for the
\* same principal, installation, operation id and body.
AnswersAreOwn ==
    TypeOK /\
    \A r \in Requests : answer[r] # NoPayload =>
        /\ PrincipalOf[answer[r].by] = PrincipalOf[r]
        /\ InstallationOf[answer[r].by] = InstallationOf[r]
        /\ OperationOf[answer[r].by] = OperationOf[r]
        /\ BodyOf[answer[r].by] = BodyOf[r]

\* Every answer of POST /v1/responses is on the ledger of the one who gets it.
AnswersPaidAndOwn == NoFreeAnswer /\ AnswersAreOwn

-----------------------------------------------------------------------------
(* What documents of the code say and it does not keep, see the README. *)

\* A stored answer is the whole answer of the provider.
StoredAnswersWhole ==
    \A k \in DOMAIN results :
        results[k].state = "succeeded" => results[k].payload.whole

\* "Cancelled, refused and never started calls release what they reserved".
NeverStartedReleased ==
    \A k \in DOMAIN ledger :
        calls[k] = 0 => ledger[k].state # "outcome_unknown"

-----------------------------------------------------------------------------
\* "This reservation keeps a daily installation quota hard even while a long
\* SSE request is in flight" (app.ts:818), of requests that state a limit for
\* their output; without one nothing is reserved for it (app.ts:801). Only the
\* one call a day whose reservation goes on past midnight may break it.
QuotaHeld == Ledger!QuotaHeld

\* A reserved operation is settled one way or another without a restart and
\* without its lease: retries are not told "in progress" for ever.
OperationResolved ==
    \A k \in {ResultKey(r) : r \in Requests} :
        (k \in DOMAIN results /\ results[k].state = "reserved")
        ~> (k \notin DOMAIN results \/ results[k].state # "reserved")

-----------------------------------------------------------------------------
(* The abstract specification: the life of one operation.                  *)

\* The usage row made for an operation by its own installation.
Charged(k) == {j \in DOMAIN ledger : /\ j.operation = k.operation
                                     /\ ledger[j].installation = k.installation}

status ==
    [k \in {ResultKey(r) : r \in Requests} |->
        IF k \in DOMAIN results
        THEN IF \/ results[k].state = "outcome_unknown"
                \/ results[k].state = "reserved" /\ phase[results[k].token] \notin InFlight
             THEN "unknown"
             ELSE IF results[k].state = "reserved" THEN "running"
             ELSE IF results[k].acked THEN "acknowledged" ELSE "stored"
        ELSE IF Charged(k) = {} THEN "fresh"
        ELSE IF \A j \in Charged(k) : ledger[j].state = "released" THEN "refused"
        ELSE "forgotten"]

Abstract == INSTANCE ReplayableOperation WITH
                Operations <- {ResultKey(r) : r \in Requests}

\* The route, its stores and its crashes implement an operation that runs
\* once, and is then refused, stored until acknowledged, or fenced for good.
ImplementsReplayableOperation == Abstract!Spec
=============================================================================
