----------------------------- MODULE UsageBudget -----------------------------
(***************************************************************************)
(* The Gateway's usage ledger: gateway/usageBudget.ts, class                *)
(* SqliteUsageBudgetService.  Every method is one BEGIN IMMEDIATE ...        *)
(* COMMIT transaction, so every method is one step, and a crash leaves the   *)
(* rows as the last commit left them.  Only the clock goes on within a step: *)
(* reserve reads it twice, and midnight may lie between the two readings.    *)
(*                                                                         *)
(* A row is kept per operation key (principal and operation id).  It holds  *)
(* a reservation made before the paid call, and is finalised at most once.  *)
(***************************************************************************)
EXTENDS Integers, FiniteSets, FiniteSetsExt

CONSTANTS
    Axes,           \* the quantities of an amount (requests, bytes, tokens)
    Inputs,         \* the reservations callers ask for (UsageReserveInput)
    ActualsFor(_),  \* the amounts a provider may report for a reserved amount
    PrincipalLimit, InstallationLimit,  \* per axis, of one capability and day
    Days,           \* how many UTC days are followed
    Legacy          \* rows written before accounts were recorded

Amounts == [Axes -> Nat]
Zero == [x \in Axes |-> 0]

\* account_key of a row that predates account bindings.
LegacyAccount == "legacy:unbound"

Key(input) == [principal |-> input.principal, operation |-> input.operation]
Keys == {Key(input) : input \in Inputs} \cup {row.key : row \in Legacy}

UsageState == {"reserved", "settled", "released", "outcome_unknown"}

\* What the constants are assumed to be.  The one row of an old database is
\* the first that was numbered.
LedgerConfig ==
    /\ Days \in Nat \ {0}
    /\ PrincipalLimit \in [Axes -> Nat]
    /\ InstallationLimit \in [Axes -> Nat]
    /\ \A input \in Inputs : /\ input.amount \in Amounts
                             /\ input.account # LegacyAccount
    /\ \A row \in Legacy :
          /\ {"installation", "capability", "fingerprint", "account", "state",
              "period", "token", "reserved", "actual"} \subseteq DOMAIN row
          /\ row.account = LegacyAccount
          /\ row.state \in UsageState /\ row.period \in 0..1 /\ row.token = 1
          /\ row.reserved \in Amounts /\ row.actual \in Amounts

VARIABLES
    ledger,     \* usage_budget_reservations: the rows, by operation key
    today,      \* the UTC day of now()
    straddling  \* history: the rows whose reservation went on past midnight

vars == <<ledger, today, straddling>>

RowFor(input, day, token) ==
    [ installation |-> input.installation, capability  |-> input.capability,
      account      |-> input.account,      fingerprint |-> input.fingerprint,
      reserved     |-> input.amount,       actual      |-> Zero,
      period       |-> day, state |-> "reserved", token |-> token ]

\* An old database may already hold one legacy row for an operation.
LegacyLedgers ==
    {[k \in {row.key} |-> row] : row \in Legacy} \cup {[k \in {} |-> 0]}

Init == ledger \in LegacyLedgers /\ today = 1 /\ straddling = {}

-----------------------------------------------------------------------------
(* Pure helpers.                                                           *)

counted(row) == IF row.state = "settled" THEN row.actual ELSE row.reserved

\* Rows of a day and of one capability that count against a scope.
RowsOf(l, day, capability, principal) ==
    {k \in DOMAIN l : /\ l[k].period = day
                      /\ l[k].capability = capability
                      /\ l[k].state # "released"
                      /\ k.principal = principal}

Spent(l, S, x) == MapThenSumSet(LAMBDA k : counted(l[k])[x], S)

\* The UTC days a reservation that begins today may end on.
Ends == {today, today + 1} \cap 1..Days

\* The rows booked across midnight, with one whose sums are made on this day.
Crossing(checked, input) ==
    IF checked = today THEN straddling ELSE straddling \cup {Key(input)}

\* The rows assertWithinBudget adds up: reserve has selected those of the day
\* it read first, and those of another day than it reads itself are skipped.
Considered(l, day, checked, input) ==
    IF checked = day THEN RowsOf(l, day, input.capability, input.principal) ELSE {}

\* What the rows P leave of both limits allows another amount.
Fits(l, P, input) ==
    LET I == {k \in P : l[k].installation = input.installation}
    IN  \A x \in Axes :
          /\ Spent(l, P, x) + input.amount[x] <= PrincipalLimit[x]
          /\ Spent(l, I, x) + input.amount[x] <= InstallationLimit[x]

\* Mutant: a settled row no longer counts.
withinBudgetIgnoresSettled(l, day, checked, input) ==
    Fits(l, {k \in Considered(l, day, checked, input) : l[k].state # "settled"}, input)

\* assertWithinBudget: the principal's and the installation's counted usage
\* of the day, with this reservation, on every axis.
withinBudget(l, day, checked, input) ==
    Fits(l, Considered(l, day, checked, input), input)

\* sameBinding; the account is left out of the comparison for a legacy row.
sameBinding(row, input) ==
    /\ row.installation = input.installation
    /\ row.capability = input.capability
    /\ row.account \in {input.account, LegacyAccount}
    /\ row.fingerprint = input.fingerprint
    /\ row.reserved = input.amount

\* What reserve answers; "reserved" is the only answer that writes.
reserveOutcome(l, day, checked, input) ==
    IF Key(input) \in DOMAIN l
    THEN IF sameBinding(l[Key(input)], input) THEN "duplicate" ELSE "conflict"
    ELSE IF withinBudget(l, day, checked, input) THEN "reserved" ELSE "limit_reached"

\* The INSERT. Tokens are AUTOINCREMENT and no row is ever deleted.
reserve(l, day, input) ==
    [k \in DOMAIN l \cup {Key(input)} |->
        IF k = Key(input)
        THEN RowFor(input, day, Cardinality(DOMAIN l) + 1) ELSE l[k]]

finalizeRow(row, state, actual) == [row EXCEPT !.state = state, !.actual = actual]

\* Mutant: a row that is already final is overwritten.
finalizeAgain(l, operation, token, state, actual) ==
    [k \in DOMAIN l |->
        IF k.operation = operation /\ l[k].token = token
        THEN finalizeRow(l[k], state, actual) ELSE l[k]]

\* finalize: only a reserved row changes; a row that is already final is
\* returned as it is.
finalize(l, operation, token, state, actual) ==
    [k \in DOMAIN l |->
        IF /\ k.operation = operation
           /\ l[k].token = token
           /\ l[k].state = "reserved"
        THEN finalizeRow(l[k], state, actual) ELSE l[k]]

ReservedOf(l, operation, token) ==
    LET S == {k \in DOMAIN l : k.operation = operation /\ l[k].token = token}
    IN  IF S = {} THEN Zero ELSE l[CHOOSE k \in S : TRUE].reserved

settle(l, operation, token, actual) ==
    finalize(l, operation, token, "settled", actual)

release(l, operation, token) == finalize(l, operation, token, "released", Zero)

markOutcomeUnknown(l, operation, token) ==
    finalize(l, operation, token, "outcome_unknown", ReservedOf(l, operation, token))

-----------------------------------------------------------------------------
\* reserve reads the clock before it selects the rows of the day, and again
\* before it adds them up; the row is booked on the day it read first.
Reserve(input) ==
    \E checked \in Ends :
        /\ reserveOutcome(ledger, today, checked, input) = "reserved"
        /\ ledger' = reserve(ledger, today, input)
        /\ straddling' = Crossing(checked, input)
        /\ today' = checked

\* A duplicate, a conflict, or USAGE_LIMIT_REACHED: nothing is written.
ReserveAgain(input) ==
    \E checked \in Ends :
        /\ reserveOutcome(ledger, today, checked, input) # "reserved"
        /\ today' = checked
        /\ UNCHANGED <<ledger, straddling>>

Settle(k) ==
    /\ k \in DOMAIN ledger
    /\ \E actual \in ActualsFor(ledger[k].reserved) :
          ledger' = settle(ledger, k.operation, ledger[k].token, actual)
    /\ UNCHANGED <<today, straddling>>

Release(k) ==
    /\ k \in DOMAIN ledger
    /\ ledger' = release(ledger, k.operation, ledger[k].token)
    /\ UNCHANGED <<today, straddling>>

MarkOutcomeUnknown(k) ==
    /\ k \in DOMAIN ledger
    /\ ledger' = markOutcomeUnknown(ledger, k.operation, ledger[k].token)
    /\ UNCHANGED <<today, straddling>>

NextDay == today < Days /\ today' = today + 1 /\ UNCHANGED <<ledger, straddling>>

Next == \/ \E input \in Inputs : Reserve(input) \/ ReserveAgain(input)
        \/ \E k \in Keys :
              Settle(k) \/ Release(k) \/ MarkOutcomeUnknown(k)
        \/ NextDay

Spec == Init /\ [][Next]_vars
-----------------------------------------------------------------------------
TypeOK ==
    /\ today \in 1..Days
    /\ DOMAIN ledger \subseteq Keys
    /\ straddling \subseteq DOMAIN ledger
    /\ \A k \in DOMAIN ledger :
          /\ ledger[k].state \in UsageState
          /\ ledger[k].period \in 0..today
          /\ ledger[k].reserved \in Amounts
          /\ ledger[k].actual \in Amounts

\* The daily quota is hard but for midnight: whatever the order in which
\* concurrent calls reserve, settle, release and fail, what a principal or an
\* installation has reserved or spent on one capability in one day never passes
\* its limit (assertWithinBudget, as long as no call costs more than it
\* reserved), except by the one reservation, of all callers, that was being made
\* when the day ended: no row is booked on that day after it.
QuotaHeld ==
    /\ TypeOK
    /\ \A k \in DOMAIN ledger \ straddling, x \in Axes :
        LET row == ledger[k]
            P == RowsOf(ledger, row.period, row.capability, k.principal) \ straddling
            I == {j \in P : ledger[j].installation = row.installation}
        IN  row.account # LegacyAccount =>
               /\ Spent(ledger, P, x) <= PrincipalLimit[x]
               /\ Spent(ledger, I, x) <= InstallationLimit[x]
    /\ \A k \in straddling :
          /\ ledger[k].period < today
          /\ \A j \in straddling : ledger[j].period = ledger[k].period => j = k
          /\ \A x \in Axes : /\ ledger[k].reserved[x] <= PrincipalLimit[x]
                             /\ ledger[k].reserved[x] <= InstallationLimit[x]

\* An operation is charged once: no row disappears, its binding, day and
\* reservation never change, and its first outcome stands whatever settle,
\* release or markOutcomeUnknown comes later.
KeepsFirstOutcome ==
    \A k \in DOMAIN ledger :
      /\ k \in DOMAIN ledger'
      /\ [ledger'[k] EXCEPT !.state = "reserved", !.actual = Zero]
           = [ledger[k] EXCEPT !.state = "reserved", !.actual = Zero]
      /\ ledger[k].state # "reserved" => ledger'[k] = ledger[k]

=============================================================================
