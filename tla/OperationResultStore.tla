------------------------- MODULE OperationResultStore -------------------------
(***************************************************************************)
(* The Gateway's durable operation results: gateway/operationResultStore.ts, *)
(* class SqliteGatewayOperationResultStore.  A row reserves an operation    *)
(* while its provider call runs, keeps the result until its consumer has    *)
(* acknowledged it, and serves it again to a caller that lost the answer.   *)
(*                                                                         *)
(* Every method is one SQLite transaction, so it is one step.  Time enters  *)
(* only as "expires_at has passed", which becomes true at any moment: the   *)
(* lease of a reservation, the retention of an acknowledged result.         *)
(***************************************************************************)
EXTENDS Integers, FiniteSets, FiniteSetsExt

CONSTANTS
    Calls,                  \* calls of begin; each draws a fencing token
    BindingOf,              \* the binding each call is made with
    Payloads,               \* serialised results
    NoPayload,
    MaxUnacknowledged,      \* per installation, and of the whole store
    MaxUnacknowledgedGlobal,
    MaxSucceeded            \* acknowledged results kept per installation

\* operationKey: the capability and the fingerprint are not part of it.
Key(b) == [installation |-> b.installation, operation |-> b.operation]

Bindings == {BindingOf[c] : c \in Calls}
Keys == {Key(b) : b \in Bindings}

\* What the constants are assumed to be.
StoreConfig ==
    /\ IsFiniteSet(Calls)
    /\ NoPayload \notin Payloads
    /\ MaxUnacknowledged \in Nat
    /\ MaxUnacknowledgedGlobal \in Nat
    /\ MaxSucceeded \in Nat

VARIABLES
    results,    \* gateway_operation_results_v4: the rows, by operation key
    call        \* per call: "new", "holds" the reservation, or "over"

vars == <<results, call>>

RowState == {"reserved", "succeeded", "outcome_unknown"}

Init == /\ results = [k \in {} |-> 0]
        /\ call = [c \in Calls |-> "new"]

-----------------------------------------------------------------------------
(* Rows and queries.                                                       *)

Row(b, token, born) ==
    [ fingerprint |-> b.fingerprint, state |-> "reserved", token |-> token,
      payload |-> NoPayload, born |-> born, acked |-> FALSE, expired |-> FALSE ]

drop(s, gone) == [k \in DOMAIN s \ gone |-> s[k]]
put(s, k, row) == [j \in DOMAIN s \cup {k} |-> IF j = k THEN row ELSE s[j]]

sameBinding(row, b) == row.fingerprint = b.fingerprint

\* Acknowledged results that have been kept for RESULT_RETENTION_MS.
Forgettable(row) == row.state = "succeeded" /\ row.acked /\ row.expired

Lapsed(row) == row.state = "reserved" /\ row.expired

Unacknowledged(s) ==
    {k \in DOMAIN s : s[k].state = "succeeded" /\ ~s[k].acked}

\* assertConsumerAckBacklogAvailable: counts results, not running calls.
BacklogFull(s, b) ==
    \/ Cardinality(Unacknowledged(s)) >= MaxUnacknowledgedGlobal
    \/ Cardinality({k \in Unacknowledged(s) : k.installation = b.installation})
          >= MaxUnacknowledged

NextBorn(s) == 1 + Max({s[k].born : k \in DOMAIN s} \cup {0})   \* created_at

-----------------------------------------------------------------------------
(* The methods, as functions of the rows.                                  *)

\* What begin first does to the row it finds.
tidied(s, b) ==
    LET k == Key(b)
    IN  IF k \notin DOMAIN s THEN s
        ELSE IF Forgettable(s[k]) THEN drop(s, {k})
        ELSE IF Lapsed(s[k]) THEN [s EXCEPT ![k].state = "outcome_unknown"]
        ELSE s

beginOutcome(s, b) ==
    LET k == Key(b)
        t == tidied(s, b)
    IN  IF k \in DOMAIN s /\ ~sameBinding(s[k], b) THEN "conflict"
        ELSE IF k \notin DOMAIN t
             THEN IF BacklogFull(s, b) THEN "backlog_full" ELSE "started"
        ELSE IF t[k].state = "reserved" THEN "in_progress"
        ELSE t[k].state

\* Mutant: an interrupted operation may be started again.
beginRestartsUnknown(s, b, token) ==
    IF Key(b) \in DOMAIN s /\ s[Key(b)].state = "outcome_unknown"
    THEN put(s, Key(b), Row(b, token, NextBorn(s)))
    ELSE IF beginOutcome(s, b) = "started"
    THEN put(s, Key(b), Row(b, token, NextBorn(s))) ELSE tidied(s, b)

\* The error outcomes roll the transaction back.
begin(s, b, token) ==
    IF beginOutcome(s, b) \in {"conflict", "backlog_full"} THEN s
    ELSE IF beginOutcome(s, b) = "started"
         THEN put(tidied(s, b), Key(b), Row(b, token, NextBorn(s)))
    ELSE tidied(s, b)

\* mutate: the row must still carry the caller's fencing token.
Owns(s, b, token) ==
    Key(b) \in DOMAIN s /\ s[Key(b)].token = token /\ sameBinding(s[Key(b)], b)

\* Mutant: a caller that lost its lease may still write.
HoldsReservationByKey(s, b, token) ==
    Key(b) \in DOMAIN s /\ sameBinding(s[Key(b)], b)

HoldsReservation(s, b, token) ==
    Owns(s, b, token) /\ s[Key(b)].state = "reserved"

\* Mutant: pruning counts results nobody has acknowledged yet.
prunedUnacknowledged(s, b) ==
    LET kept == {k \in DOMAIN s : s[k].state = "succeeded"
                                    /\ k.installation = b.installation}
        newer(k) == {j \in kept : s[j].born > s[k].born}
    IN  drop(s, {k \in kept : Cardinality(newer(k)) >= MaxSucceeded})

\* pruneSucceeded: what is past its retention anywhere in the store, and the
\* oldest acknowledged results of the installation beyond the count kept.
pruned(s, b) ==
    LET kept == {k \in DOMAIN s : s[k].state = "succeeded" /\ s[k].acked
                                    /\ ~s[k].expired
                                    /\ k.installation = b.installation}
        newer(k) == {j \in kept : s[j].born > s[k].born}
    IN  drop(s, {k \in DOMAIN s : Forgettable(s[k])} \cup
                {k \in kept : Cardinality(newer(k)) >= MaxSucceeded})

completedRow(row, payload) ==
    [row EXCEPT !.state = "succeeded", !.payload = payload, !.expired = FALSE]

\* complete(..., {awaitingConsumerAck}): the result of a reservation. It is
\* refused, and writes nothing, once the reservation is gone or settled.
complete(s, b, token, payload) ==
    IF HoldsReservation(s, b, token)
    THEN [s EXCEPT ![Key(b)] = completedRow(@, payload)] ELSE s

Completes(s, b, token, payload) ==
    \/ HoldsReservation(s, b, token)
    \/ /\ Owns(s, b, token)
       /\ s[Key(b)].state = "succeeded" /\ s[Key(b)].payload = payload

release(s, b, token) ==
    IF HoldsReservation(s, b, token) THEN drop(s, {Key(b)}) ELSE s

markOutcomeUnknown(s, b, token) ==
    IF HoldsReservation(s, b, token)
    THEN [s EXCEPT ![Key(b)].state = "outcome_unknown"] ELSE s

Acknowledgeable(s, b) ==
    /\ Key(b) \in DOMAIN s /\ sameBinding(s[Key(b)], b)
    /\ s[Key(b)].state = "succeeded"

acknowledge(s, b) ==
    IF Acknowledgeable(s, b)
    THEN pruned([s EXCEPT ![Key(b)].acked = TRUE], b) ELSE s

\* Mutant: a lookup trusts a reservation whose lease is over.
lookupIgnoresLease(s, b) ==
    LET k == Key(b)
    IN  IF k \notin DOMAIN s \/ Forgettable(s[k]) THEN "not_found"
        ELSE IF ~sameBinding(s[k], b) THEN "conflict"
        ELSE IF s[k].state = "reserved" THEN "in_progress" ELSE s[k].state

\* lookup, the read-only question of a client that lost its answer.
lookup(s, b) ==
    LET k == Key(b)
    IN  IF k \notin DOMAIN s THEN "not_found"
        ELSE IF ~sameBinding(s[k], b) THEN "conflict"
        ELSE IF Forgettable(s[k]) THEN "not_found"
        ELSE IF Lapsed(s[k]) THEN "outcome_unknown"
        ELSE IF s[k].state = "reserved" THEN "in_progress" ELSE s[k].state

\* Mutant: reopening the store forgets what was running.
reopenedForgets(s) == drop(s, {k \in DOMAIN s : s[k].state = "reserved"})

\* The constructor: nobody is left who could complete a reservation.
reopened(s) ==
    [k \in DOMAIN s |-> IF s[k].state = "reserved"
                        THEN [s[k] EXCEPT !.state = "outcome_unknown"] ELSE s[k]]

\* The lease or the retention of a row has passed.
expire(s, k) == [s EXCEPT ![k].expired = TRUE]

MayExpire(s, k) ==
    /\ k \in DOMAIN s /\ ~s[k].expired
    /\ s[k].state = "reserved" \/ (s[k].state = "succeeded" /\ s[k].acked)

-----------------------------------------------------------------------------
(* The store on its own: callers begin, hold a reservation and end it.     *)

Begin(c) ==
    /\ call[c] = "new"
    /\ results' = begin(results, BindingOf[c], c)
    /\ call' = [call EXCEPT ![c] =
                    IF beginOutcome(results, BindingOf[c]) = "started"
                    THEN "holds" ELSE "over"]

Complete(c) ==
    /\ call[c] = "holds"
    /\ \E p \in Payloads : results' = complete(results, BindingOf[c], c, p)
    /\ call' = [call EXCEPT ![c] = "over"]

ReleaseReservation(c) ==
    /\ call[c] = "holds"
    /\ results' = release(results, BindingOf[c], c)
    /\ call' = [call EXCEPT ![c] = "over"]

MarkOutcomeUnknown(c) ==
    /\ call[c] = "holds"
    /\ results' = markOutcomeUnknown(results, BindingOf[c], c)
    /\ call' = [call EXCEPT ![c] = "over"]

Acknowledge(b) ==
    /\ results' = acknowledge(results, b)
    /\ UNCHANGED call

Expire(k) ==
    /\ MayExpire(results, k)
    /\ results' = expire(results, k)
    /\ UNCHANGED call

Reopen ==
    /\ results' = reopened(results)
    /\ call' = [c \in Calls |-> IF call[c] = "holds" THEN "over" ELSE call[c]]

Next == \/ \E c \in Calls : \/ Begin(c) \/ Complete(c)
                            \/ ReleaseReservation(c) \/ MarkOutcomeUnknown(c)
        \/ \E b \in Bindings : Acknowledge(b)
        \/ \E k \in Keys : Expire(k)
        \/ Reopen

Spec == Init /\ [][Next]_vars

-----------------------------------------------------------------------------
TypeOK ==
    /\ DOMAIN results \subseteq Keys
    /\ \A k \in DOMAIN results :
          /\ results[k].state \in RowState
          /\ results[k].token \in Calls
          /\ results[k].payload \in
                IF results[k].state = "succeeded" THEN Payloads ELSE {NoPayload}
          /\ results[k].acked \in BOOLEAN /\ results[k].expired \in BOOLEAN
    /\ call \in [Calls -> {"new", "holds", "over"}]

\* A client that lost its answer asks with lookup before it calls again, and
\* lookup changes nothing: what it says is what begin would find, so "not
\* found" is said only of an operation that begin would run or has no room for.
LookupForetellsBegin ==
    TypeOK /\
    \A b \in Bindings :
        LET begun == beginOutcome(results, b)
        IN  lookup(results, b) = IF begun \in {"started", "backlog_full"}
                                 THEN "not_found" ELSE begun

\* "Operations that name an external durable consumer stay outside TTL/count
\* pruning until that consumer explicitly confirms its own commit": whatever
\* other operations, prunings and restarts do, a result nobody acknowledged
\* stays, with the same payload, until it is acknowledged itself.
KeepsUnacknowledged ==
    \A k \in DOMAIN results :
      results[k].state = "succeeded" /\ ~results[k].acked
      => \/ k \in DOMAIN results' /\ results'[k] = results[k]
         \/ \E b \in Bindings : /\ Key(b) = k /\ sameBinding(results[k], b)
                                /\ results' = acknowledge(results, b)

\* An operation whose outcome became unknown stays fenced: nothing ever
\* starts it again, completes it or forgets it.
KeepsUnknownFenced ==
    \A k \in DOMAIN results :
      results[k].state = "outcome_unknown"
      => k \in DOMAIN results' /\ results'[k].state = "outcome_unknown"

\* A caller that lost its reservation (lease over, store reopened, released
\* and begun again by another call) cannot write the row of its successor:
\* a reservation becomes a result only by the call that holds its token.
CompletesAsHolder ==
    \A k \in DOMAIN results :
      /\ k \in DOMAIN results'
      /\ results[k].state # "succeeded" /\ results'[k].state = "succeeded"
      => /\ results[k].state = "reserved"
         /\ results'[k].token = results[k].token
         /\ call[results[k].token] = "holds"
         /\ call'[results[k].token] = "over"

=============================================================================
