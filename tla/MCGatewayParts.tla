--------------------------- MODULE MCGatewayParts ---------------------------
(***************************************************************************)
(* Four parts of the Gateway that share no state, each on its own: a        *)
(* behaviour picks one of them and takes only its steps.                    *)
(*                                                                         *)
(* limiter   two tokens of two ticks each, two places in the queue, five    *)
(*           calls                                                         *)
(* ledger    one principal with two installations, whose calls compete for  *)
(*           one quota; opA is asked for again from the other installation  *)
(*           and after its account was rebound, opOld may be in the ledger  *)
(*           from the time before accounts were recorded                    *)
(* results   one installation with three calls of opA, one of them with     *)
(*           another body, and one of opB; another installation repeats opA *)
(* mimo      the users of MCGatewayUsers in both lanes; one lane queues two, so that a repeat     *)
(*           waiter can be displaced, the other one, so that a waiter of a  *)
(*           token at its ceiling can be                                   *)
(***************************************************************************)
EXTENDS ProviderRateLimiter, MCGatewayUsers

CONSTANTS c1, c2, c3, c4, c5,                   \* calls of the limiter
          s1, s2, s3, s4, s5, p1, p2,           \* calls and answers of the store
          q1, q2, q3, q4, q5, q6, q7            \* requests of the scheduler

\* The constants of the four modules; the limiter and the store both have Calls.
CONSTANTS Axes, Inputs, ActualsFor(_), PrincipalLimit, InstallationLimit, Days, Legacy,
          StoreCalls, BindingOf, Payloads, NoPayload,
          MaxUnacknowledged, MaxUnacknowledgedGlobal, MaxSucceeded,
          LaneOf, laneLimits, laneQueueMax,
          visionMaxConcurrentPerUser, visionMaxInflightPerUser

VARIABLES part, ledger, today, straddling, results, call, mimo

MCCalls == {c1, c2, c3, c4, c5}
\* Calls differ in nothing but their names: they are named as they arrive.
Order == <<c1, c2, c3, c4, c5>>
NamedInOrder == \A i \in 1..4 : outcome[Order[i]] = "new" => outcome[Order[i + 1]] = "new"

-----------------------------------------------------------------------------
Input(inst, op, account, amount) ==
    [ principal |-> "p", installation |-> inst, operation |-> op,
      capability |-> "text", account |-> account, fingerprint |-> op,
      amount |-> [total_tokens |-> amount] ]

MCAxes == {"total_tokens"}

MCInputs == { Input("i1", "opA", "acct", 2), Input("i2", "opA", "acct", 2),
                  Input("i1", "opA", "rebound", 2), Input("i1", "opB", "acct", 1),
                  Input("i2", "opC", "acct", 2), Input("i2", "opOld", "acct", 1) }

\* Providers report less than what was reserved.
MCActualsFor(reserved) == {[total_tokens |-> reserved.total_tokens - 1]}

MCLegacy ==
    {[ key |-> [principal |-> "p", operation |-> "opOld"], installation |-> "i2",
       capability |-> "text", account |-> "legacy:unbound", fingerprint |-> "opOld",
       reserved |-> [total_tokens |-> 1], actual |-> [total_tokens |-> 0],
       period |-> 1, state |-> "reserved", token |-> 1 ]}

MCPrincipalLimit == [total_tokens |-> 4]
MCInstallationLimit == [total_tokens |-> 3]

Ledger == INSTANCE UsageBudget

Binding(i, o, f) == [installation |-> i, operation |-> o, fingerprint |-> f]

MCStoreCalls == {s1, s2, s3, s4, s5}
MCBindingOf ==
    (s1 :> Binding("i1", "opA", "f")) @@ (s2 :> Binding("i1", "opA", "f"))
    @@ (s3 :> Binding("i1", "opA", "g")) @@ (s4 :> Binding("i1", "opB", "f"))
    @@ (s5 :> Binding("i2", "opA", "f"))

Store == INSTANCE OperationResultStore WITH Calls <- StoreCalls

MCRequests == {q1, q2, q3, q4, q5, q6, q7}
MCUserOf == (q1 :> u1) @@ (q2 :> u1) @@ (q3 :> u2) @@ (q4 :> u2) @@ (q5 :> u3)
            @@ (q6 :> u3) @@ (q7 :> u4)
MCLaneOf == [q \in MCRequests |-> IF q \in {q2, q6, q7} THEN "vision" ELSE "media"]
MCLaneLimits == [media |-> 1, vision |-> 1]
MCLaneQueueMax == [media |-> 2, vision |-> 1]

Mimo == INSTANCE MimoReservationScheduler

ASSUME PartsConfig ==
    Ledger!LedgerConfig /\ Store!StoreConfig /\ Mimo!ReservationConfig

-----------------------------------------------------------------------------
PartsInit ==
    /\ part \in {"limiter", "ledger", "results", "mimo"}
    /\ Init /\ Ledger!Init /\ Store!Init /\ Mimo!Init
    /\ part # "ledger" => DOMAIN ledger = {}

PartsNext ==
    /\ UNCHANGED part
    /\ \/ part = "limiter" /\ Next /\ NamedInOrder'
            /\ UNCHANGED <<ledger, today, straddling, results, call, mimo>>
       \/ part = "ledger" /\ Ledger!Next /\ UNCHANGED <<vars, results, call, mimo>>
       \/ part = "results" /\ Store!Next /\ UNCHANGED <<vars, ledger, today, straddling, mimo>>
       \/ part = "mimo" /\ Mimo!Next /\ UNCHANGED <<vars, ledger, today, straddling, results, call>>

partsVars == <<part, vars, ledger, today, straddling, results, call, mimo>>

PartsSpec == PartsInit /\ [][PartsNext]_partsVars

-----------------------------------------------------------------------------
\* The daily quota of the ledger is hard but for one reservation at midnight
\* (UsageBudget, assertWithinBudget), and
\* a lookup tells what begin would do (OperationResultStore, lookup).
TablesExact ==
    /\ part = "ledger" => Ledger!QuotaHeld
    /\ part = "results" => Store!LookupForetellsBegin

\* The lane scheduler's counters, queues and limits are exact and nobody who
\* could start waits: MimoReservationScheduler, drain and displacement.
LanesExact == part = "mimo" => Mimo!Bookkeeping /\ Mimo!NoRunnableWaiter

\* Outcomes are final in both tables.  The ledger keeps an operation's first
\* outcome; the store keeps an answer until it is acknowledged, keeps an unknown
\* outcome fenced, and takes an answer only from the call that holds the lease.
OutcomesStand ==
    [][/\ part = "ledger" => Ledger!KeepsFirstOutcome
       /\ part = "results" => /\ Store!KeepsUnacknowledged
                              /\ Store!KeepsUnknownFenced
                              /\ Store!CompletesAsHolder]_partsVars

\* Waiters get what their turn promises: the limiter lets nobody through out of
\* order or too late, and of the lanes' waiters only those that may be displaced
\* are (ProviderRateLimiter.drain, makeRoomForFreshRunnableToken).
TurnsKept ==
    [][/\ part = "limiter" => ServesInTurn
       /\ part = "mimo" => Mimo!DisplacesFairly]_partsVars
=============================================================================
