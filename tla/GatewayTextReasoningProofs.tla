---------------------- MODULE GatewayTextReasoningProofs ----------------------
(***************************************************************************)
(* What holds of GatewayTextReasoning for all requests, installations,      *)
(* bodies and limits: its safety properties, that it implements             *)
(* ReplayableOperation, and the daily quota.                               *)
(*                                                                         *)
(* All steps but three are "calm": each moves a row of the results, a row   *)
(* of the ledger and a handler only as RowStep, UsageStep and Calm allow.   *)
(* What a calm step preserves is proved once, for all of them.              *)
(***************************************************************************)
EXTENDS GatewayTextReasoning, ListAndSumLemmas

ResultKeys == {ResultKey(r) : r \in Requests}

\* A row of the result store. Nothing is said of its age.
IsResult(row) ==
    row \in [ fingerprint : {fingerprint(r) : r \in Requests}, state : Store!RowState,
              token : Requests, payload : Payloads \cup {NoPayload}, born : {row.born},
              acked : BOOLEAN, expired : BOOLEAN ]

\* A row of the ledger.
IsUsage(row) ==
    row \in [ installation : {InstallationOf[r] : r \in Requests},
              capability : {"TextReasoning"}, account : {"deepseek"},
              fingerprint : {fingerprint(r) : r \in Requests},
              reserved : Ledger!Amounts, actual : Ledger!Amounts,
              period : 1..today, state : Ledger!UsageState, token : Nat ]

\* What is reserved for a body.
Most(body) == InputBytes[body] + RequestedOutput[body]

IsLedger(l) ==
    /\ IsFiniteSet(DOMAIN l)
    /\ l = [k \in DOMAIN l |-> l[k]]
    /\ \A k \in DOMAIN l :
          /\ IsUsage(l[k])
          /\ l[k].reserved = Amount(Most(l[k].fingerprint))
          /\ l[k].token \in 1..Cardinality(DOMAIN l)
          /\ \E q \in Requests : k = UsageKey(q) /\ l[k].installation = InstallationOf[q]
          /\ \A j \in DOMAIN l : l[j].token = l[k].token => j = k

\* The rows of the results. Everything but the age, which no property is about.
IsStore(s) ==
    \A k \in DOMAIN s :
       /\ IsResult(s[k])
       /\ k = ResultKey(s[k].token)
       /\ s[k].state = "reserved" => ~s[k].acked

\* A stored result is the answer to its own operation, and is on the ledger.
KeptRow(k) ==
    LET payload == results[k].payload
    IN  /\ payload \in Payloads
        /\ k = ResultKey(payload.by)
        /\ results[k].fingerprint = fingerprint(payload.by)
        /\ UsageKey(payload.by) \in produced
        /\ ledger[UsageKey(payload.by)].installation = InstallationOf[payload.by]
        /\ ledger[UsageKey(payload.by)].fingerprint = fingerprint(payload.by)

\* What a handler that has been admitted relies on.
Holds(r) ==
    LET u == UsageKey(r)
        k == ResultKey(r)
    IN  /\ u \in DOMAIN ledger /\ k \in DOMAIN results
        /\ ledger[u].state = "reserved" /\ ledger[u].token = receipt[r]
        /\ ledger[u].installation = InstallationOf[r]
        /\ ledger[u].fingerprint = fingerprint(r)
        /\ results[k].fingerprint = fingerprint(r)
        /\ \/ results[k].state = "reserved" /\ results[k].token = r
           \/ results[k].state = "outcome_unknown"
        /\ phase[r] = "waiting" => calls[u] = 0
        /\ phase[r] = "streaming" <=> u \in produced
        /\ \A q \in Requests : phase[q] \in InFlight /\ UsageKey(q) = u => q = r

OwnAnswer(r) ==
    /\ answer[r].by \in Requests
    /\ ResultKey(answer[r].by) = ResultKey(r)
    /\ fingerprint(answer[r].by) = fingerprint(r)

IInv ==
    /\ today \in 1..Days /\ IsLedger(ledger) /\ IsStore(results)
    /\ phase \in [Requests -> Phases]
    /\ receipt \in [Requests -> Nat]
    /\ answer \in [Requests -> Payloads \cup {NoPayload}]
    /\ calls \in [UsageKeys -> 0..1]
    /\ produced \subseteq DOMAIN ledger /\ straddling \subseteq DOMAIN ledger
    /\ \A k \in DOMAIN results : results[k].state = "succeeded" => KeptRow(k)
    /\ \A r \in Requests : phase[r] \in InFlight => Holds(r)
    /\ \A r \in Requests : answer[r] # NoPayload => OwnAnswer(r)
    /\ \A u \in UsageKeys : /\ u \notin DOMAIN ledger => calls[u] = 0
                            /\ u \in produced => ledger[u].state # "released"

-----------------------------------------------------------------------------
(* The ledger's methods, as the route calls them.                          *)

\* The ledger counts its rows with the library's Cardinality.
LEMMA SameCardinality == \A S : Ledger!Cardinality(S) = Cardinality(S)
BY DEF Ledger!Cardinality, Cardinality

\* The keys of a request, and that an installation's key of the results tells its
\* key in the ledger, because an installation has one principal.
LEMMA KeysOfRequests ==
    /\ \A r \in Requests :
          /\ UsageKey(r) = [principal |-> PrincipalOf[r], operation |-> OperationOf[r]]
          /\ ResultKey(r) = [installation |-> InstallationOf[r], operation |-> OperationOf[r]]
          /\ UsageKey(r) \in UsageKeys /\ ResultKey(r) \in ResultKeys
    /\ \A r, q \in Requests : ResultKey(r) = ResultKey(q) =>
          UsageKey(r) = UsageKey(q) /\ InstallationOf[r] = InstallationOf[q]
<1>1. \A r \in Requests :
          /\ UsageKey(r) = [principal |-> PrincipalOf[r], operation |-> OperationOf[r]]
          /\ ResultKey(r) = [installation |-> InstallationOf[r], operation |-> OperationOf[r]]
  BY DEF UsageKey, Ledger!Key, Input, ResultKey, Store!Key, Binding
<1> QED BY <1>1, RouteAssumption DEF UsageKeys, ResultKeys, RouteConfig

\* finalize changes the state and the amount of a row, nothing else.
LEMMA FinalizedRow ==
    ASSUME NEW row, IsUsage(row), NEW state \in Ledger!UsageState, NEW actual \in Ledger!Amounts,
           NEW f, f = Ledger!finalizeRow(row, state, actual)
    PROVE  /\ IsUsage(f) /\ f.state = state /\ f.actual = actual
           /\ f.token = row.token /\ f.installation = row.installation
           /\ f.fingerprint = row.fingerprint /\ f.reserved = row.reserved
           /\ f.period = row.period
<1> DEFINE g == [row EXCEPT !.state = state]
<1>1. /\ IsUsage(g) /\ g.state = state /\ g.token = row.token
      /\ g.installation = row.installation /\ g.fingerprint = row.fingerprint
      /\ g.reserved = row.reserved /\ g.period = row.period
  BY DEF IsUsage
<1>2. f = [g EXCEPT !.actual = actual]
  BY DEF Ledger!finalizeRow
<1> HIDE DEF g
<1> QED BY <1>1, <1>2 DEF IsUsage

\* The row of a request, and nothing else, is finalized, and only once.
LEMMA Finalized ==
    ASSUME NEW old, IsLedger(old), NEW r \in Requests, UsageKey(r) \in DOMAIN old,
           NEW state \in Ledger!UsageState, NEW actual \in Ledger!Amounts,
           NEW l, l = Ledger!finalize(old, OperationOf[r], old[UsageKey(r)].token, state, actual)
    PROVE  /\ IsLedger(l)
           /\ DOMAIN l = DOMAIN old
           /\ \A k \in DOMAIN old :
                 /\ l[k].token = old[k].token /\ l[k].installation = old[k].installation
                 /\ l[k].fingerprint = old[k].fingerprint
                 /\ l[k].reserved = old[k].reserved /\ l[k].period = old[k].period
                 /\ k # UsageKey(r) \/ old[k].state # "reserved" => l[k] = old[k]
           /\ old[UsageKey(r)].state = "reserved" =>
                 l[UsageKey(r)].state = state /\ l[UsageKey(r)].actual = actual
<1> DEFINE u == UsageKey(r)
<1>1. DOMAIN l = DOMAIN old /\ l = [k \in DOMAIN l |-> l[k]]
  BY DEF Ledger!finalize
<1>2. u.operation = OperationOf[r]
  BY KeysOfRequests
<1>3. \A k \in DOMAIN old : k # u \/ old[k].state # "reserved" => l[k] = old[k]
  BY DEF Ledger!finalize, IsLedger
<1>4. old[u].state = "reserved" => l[u] = Ledger!finalizeRow(old[u], state, actual)
  BY <1>2 DEF Ledger!finalize
<1>5. ASSUME old[u].state = "reserved"
      PROVE  /\ IsUsage(l[u]) /\ l[u].token = old[u].token /\ l[u].installation = old[u].installation
             /\ l[u].fingerprint = old[u].fingerprint
             /\ l[u].reserved = old[u].reserved /\ l[u].period = old[u].period
             /\ l[u].state = state /\ l[u].actual = actual
  <2>1. IsUsage(old[u])
    BY DEF IsLedger
  <2> QED BY <1>4, <1>5, <2>1, FinalizedRow
<1>6. \A k \in DOMAIN old : /\ IsUsage(l[k]) /\ l[k].token = old[k].token
                               /\ l[k].installation = old[k].installation
                               /\ l[k].fingerprint = old[k].fingerprint
                               /\ l[k].reserved = old[k].reserved
                               /\ l[k].period = old[k].period
  BY <1>3, <1>5 DEF IsLedger
<1>7. IsLedger(l)
  <2>1. IsFiniteSet(DOMAIN l) /\ Cardinality(DOMAIN l) = Cardinality(DOMAIN old)
    BY <1>1 DEF IsLedger
  <2> SUFFICES ASSUME NEW k \in DOMAIN old
               PROVE  /\ IsUsage(l[k])
                      /\ l[k].reserved = Amount(Most(l[k].fingerprint))
                      /\ l[k].token \in 1..Cardinality(DOMAIN l)
                      /\ \E q \in Requests : k = UsageKey(q) /\ l[k].installation = InstallationOf[q]
                      /\ \A j \in DOMAIN old : l[j].token = l[k].token => j = k
    BY <1>1, <2>1 DEF IsLedger
  <2> QED BY <1>6, <2>1 DEF IsLedger
<1> QED BY <1>1, <1>3, <1>5, <1>6, <1>7

\* reserve adds a row with a token of its own, and leaves the others alone: that
\* is what lets finalize find a row by operation and token.
LEMMA ReservedRow ==
    ASSUME IsLedger(ledger), NEW r \in Requests, UsageKey(r) \notin DOMAIN ledger, today \in 1..Days,
           NEW l, l = Ledger!reserve(ledger, today, Input(r))
    PROVE  /\ IsLedger(l)
           /\ DOMAIN l = DOMAIN ledger \cup {UsageKey(r)}
           /\ \A k \in DOMAIN ledger : l[k] = ledger[k]
           /\ l[UsageKey(r)].state = "reserved"
           /\ l[UsageKey(r)].installation = InstallationOf[r]
           /\ l[UsageKey(r)].fingerprint = fingerprint(r)
           /\ l[UsageKey(r)].period = today
<1> DEFINE u == UsageKey(r)
           n == Cardinality(DOMAIN ledger)
<1>1. u = Ledger!Key(Input(r))
  BY DEF UsageKey
<1>2. /\ DOMAIN l = DOMAIN ledger \cup {u} /\ l = [k \in DOMAIN l |-> l[k]]
      /\ \A k \in DOMAIN ledger : l[k] = ledger[k]
      /\ l[u] = Ledger!RowFor(Input(r), today, n + 1)
  <2> DEFINE fresh == Ledger!RowFor(Input(r), today, n + 1)
  <2>1. l = [k \in DOMAIN ledger \cup {u} |-> IF k = u THEN fresh ELSE ledger[k]]
    BY <1>1, SameCardinality DEF Ledger!reserve
  <2> HIDE DEF fresh, u
  <2>2. u \notin DOMAIN ledger
    BY DEF u
  <2> QED BY <2>1, <2>2 DEF fresh
<1>3. n \in Nat /\ IsFiniteSet(DOMAIN l) /\ Cardinality(DOMAIN l) = n + 1
  BY <1>2, FS_CardinalityType, FS_AddElement DEF IsLedger
<1>4. /\ l[u].state = "reserved" /\ l[u].installation = InstallationOf[r] /\ l[u].token = n + 1
      /\ l[u].fingerprint = fingerprint(r) /\ l[u].period = today
      /\ l[u].reserved = Amount(Most(fingerprint(r)))
      /\ IsUsage(l[u])
  <2>1. Input(r).amount \in Ledger!Amounts /\ Ledger!Zero \in Ledger!Amounts
    BY RouteAssumption DEF RouteConfig, Input, Amount, Ledger!Amounts, Ledger!Zero
  <2> QED BY <1>2, <1>3, <2>1, RouteAssumption
          DEF Ledger!RowFor, IsUsage, Input, Ledger!UsageState, RouteConfig, Most, fingerprint
<1>5. IsLedger(l)
  <2> SUFFICES ASSUME NEW k \in DOMAIN l
               PROVE  /\ IsUsage(l[k])
                      /\ l[k].reserved = Amount(Most(l[k].fingerprint))
                      /\ l[k].token \in 1..n+1
                      /\ \E q \in Requests : k = UsageKey(q) /\ l[k].installation = InstallationOf[q]
                      /\ \A j \in DOMAIN l : l[j].token = l[k].token => j = k
    BY <1>2, <1>3 DEF IsLedger
  <2>1. \A j \in DOMAIN ledger : l[j].token \in 1..n
    BY <1>2 DEF IsLedger
  <2>2. CASE k = u
    BY <1>2, <1>3, <1>4, <2>1, <2>2
  <2>3. CASE k \in DOMAIN ledger
    <3>1. l[k].token # n + 1 /\ l[k].token \in 1..n+1
      BY <1>3, <2>1, <2>3
    <3> QED BY <1>2, <1>4, <2>3, <3>1 DEF IsLedger
  <2> QED BY <1>2, <2>2, <2>3
<1> QED BY <1>2, <1>4, <1>5

\* What is charged for an outcome that is unknown is what was reserved.
LEMMA ReservedAmount ==
    ASSUME IsLedger(ledger), NEW operation, NEW token
    PROVE  Ledger!ReservedOf(ledger, operation, token) \in Ledger!Amounts
<1> DEFINE S == {k \in DOMAIN ledger : k.operation = operation /\ ledger[k].token = token}
<1>1. CASE S = {}
  BY <1>1 DEF Ledger!ReservedOf, Ledger!Zero, Ledger!Amounts
<1>2. CASE S # {}
  <2>1. (CHOOSE k \in S : TRUE) \in S
    BY <1>2
  <2>2. \A k \in S : ledger[k].reserved \in Ledger!Amounts
    BY DEF IsLedger, IsUsage
  <2> QED BY <1>2, <2>1, <2>2 DEF Ledger!ReservedOf
<1> QED BY <1>1, <1>2
-----------------------------------------------------------------------------
(* The store's methods, row by row.                                        *)

\* A row whose operation may have reached the provider.
Unknown(row) == [row EXCEPT !.state = "outcome_unknown"]

\* Fencing a row keeps everything but its state.
LEMMA UnknownRow ==
    ASSUME NEW row, IsResult(row)
    PROVE  /\ IsResult(Unknown(row)) /\ Unknown(row).state = "outcome_unknown"
           /\ Unknown(row).token = row.token /\ Unknown(row).fingerprint = row.fingerprint
BY DEF Unknown, IsResult, Store!RowState

\* begin touches the row of its own operation only: it makes a reservation
\* where there is no row, or one acknowledged long ago; and fences a
\* reservation whose lease is over.
LEMMA BegunRows ==
    ASSUME IsStore(results), NEW r \in Requests, NEW k, k = ResultKey(r), NEW s, s = Begun(r)
    PROVE  /\ IsStore(s)
           /\ \A j \in DOMAIN results \ {k} : j \in DOMAIN s /\ s[j] = results[j]
           /\ \A j \in DOMAIN s : j = k \/ j \in DOMAIN results
           /\ Began(r) = "started" =>
                 /\ k \in DOMAIN s /\ s[k].state = "reserved" /\ s[k].token = r
                 /\ s[k].fingerprint = fingerprint(r)
                 /\ k \in DOMAIN results => results[k].state = "succeeded" /\ results[k].acked
           /\ Began(r) # "started" =>
                 /\ DOMAIN s = DOMAIN results
                 /\ k \in DOMAIN results =>
                       \/ s[k] = results[k]
                       \/ results[k].state = "reserved" /\ s[k] = Unknown(results[k])
           /\ Began(r) = "succeeded" =>
                 /\ k \in DOMAIN results /\ results[k].state = "succeeded"
                 /\ results[k].fingerprint = fingerprint(r)
                 /\ \A j \in DOMAIN results : s[j] = results[j]
<1> DEFINE b == Binding(r)
           t == Store!tidied(results, b)
           row == Store!Row(b, r, Store!NextBorn(results))
<1>1. Store!Key(b) = k /\ b.fingerprint = fingerprint(r)
  BY DEF ResultKey, Binding
<1>2. IsResult(row) /\ row.state = "reserved" /\ row.token = r /\ ~row.acked
      /\ row.fingerprint = fingerprint(r)
  <2> DEFINE born == Store!NextBorn(results)
  <2> HIDE DEF born
  <2>1. row = Store!Row(b, r, born)
    BY DEF born
  <2> QED BY <1>1, <2>1 DEF IsResult, Store!Row, Store!RowState
<1>3. \/ k \notin DOMAIN results /\ t = results
      \/ /\ k \in DOMAIN results /\ Store!Forgettable(results[k])
         /\ t = Store!drop(results, {k})
      \/ /\ k \in DOMAIN results /\ ~Store!Forgettable(results[k]) /\ Store!Lapsed(results[k])
         /\ t = [results EXCEPT ![k] = Unknown(results[k])]
      \/ /\ k \in DOMAIN results /\ ~Store!Forgettable(results[k]) /\ ~Store!Lapsed(results[k])
         /\ t = results
  BY <1>1 DEF Store!tidied, Unknown
<1>4. /\ \A j \in DOMAIN results \ {k} : j \in DOMAIN t /\ t[j] = results[j]
      /\ \A j \in DOMAIN t : j \in DOMAIN results
      /\ k \in DOMAIN t => \/ t[k] = results[k]
                           \/ results[k].state = "reserved" /\ t[k] = Unknown(results[k])
      /\ k \in DOMAIN results /\ k \notin DOMAIN t =>
            results[k].state = "succeeded" /\ results[k].acked
      /\ k \in DOMAIN results /\ results[k].state = "succeeded" /\ k \in DOMAIN t => t[k] = results[k]
  BY <1>3 DEF Store!drop, Store!Forgettable, Store!Lapsed
<1>5. /\ Began(r) = "started" => k \notin DOMAIN t /\ s = Store!put(t, k, row)
      /\ Began(r) # "started" => s = results \/ (k \in DOMAIN t /\ s = t)
      /\ Began(r) = "succeeded" => /\ k \in DOMAIN t /\ s = t /\ t[k].state = "succeeded"
                                   /\ results[k].fingerprint = fingerprint(r)
  <2>1. Began(r) = IF k \in DOMAIN results /\ results[k].fingerprint # fingerprint(r) THEN "conflict"
                   ELSE IF k \notin DOMAIN t
                        THEN IF Store!BacklogFull(results, b) THEN "backlog_full" ELSE "started"
                   ELSE IF t[k].state = "reserved" THEN "in_progress" ELSE t[k].state
    BY <1>1 DEF Began, Store!beginOutcome, Store!sameBinding
  <2>2. s = IF Began(r) \in {"conflict", "backlog_full"} THEN results
            ELSE IF Began(r) = "started" THEN Store!put(t, k, row) ELSE t
    BY <1>1 DEF Begun, Began, Store!begin
  <2>3. k \in DOMAIN t => t[k].state \in {"reserved", "succeeded", "outcome_unknown"}
    BY <1>4, UnknownRow DEF IsStore, IsResult, Store!RowState
  <2> HIDE DEF row, t, b
  <2> QED BY <1>4, <2>1, <2>2, <2>3
<1>6. IsStore(t)
  BY <1>4, UnknownRow DEF IsStore
<1> HIDE DEF row, t
<1>7. CASE Began(r) = "started"
  <2>1. s = [j \in DOMAIN t \cup {k} |-> IF j = k THEN row ELSE t[j]]
    BY <1>5, <1>7 DEF Store!put
  <2>2. IsStore(s)
    BY <1>2, <1>6, <2>1 DEF IsStore
  <2> QED BY <1>2, <1>4, <1>5, <1>7, <2>1, <2>2
<1>8. CASE Began(r) # "started"
  <2>1. DOMAIN s = DOMAIN results
    BY <1>4, <1>5, <1>8
  <2>2. k \in DOMAIN results => Unknown(results[k]).state # "succeeded"
    BY UnknownRow, <1>4, <1>5, <1>8, <2>1 DEF IsStore
  <2> QED BY <1>4, <1>5, <1>6, <1>8, <2>1, <2>2
<1> QED BY <1>7, <1>8

\* The reservation of a request, as mutate finds it by its fencing token.
Holding(s, r) ==
    LET k == ResultKey(r)
    IN  /\ k \in DOMAIN s /\ s[k].token = r /\ s[k].state = "reserved"
        /\ s[k].fingerprint = fingerprint(r)

\* Two stores with the same keys that differ in one row at most.
SameBut(s, t, k) == DOMAIN s = DOMAIN t /\ \A j \in DOMAIN s : j # k => s[j] = t[j]

\* The lease that mutate looks for is the one of the request.
LEMMA HeldIsOwn ==
    ASSUME NEW s, NEW r \in Requests
    PROVE  Holding(s, r) = Store!HoldsReservation(s, Binding(r), r)
BY DEF Holding, Store!HoldsReservation, Store!Owns, Store!sameBinding, ResultKey, Binding

\* markOutcomeUnknown fences the request's own reservation, or does nothing.
LEMMA MarkedRows ==
    ASSUME NEW s, IsStore(s), NEW r \in Requests, NEW k, k = ResultKey(r),
           NEW t, t = Store!markOutcomeUnknown(s, Binding(r), r)
    PROVE  /\ IsStore(t) /\ SameBut(s, t, k)
           /\ Holding(s, r) => t[k] = Unknown(s[k])
           /\ ~Holding(s, r) => t = s
<1>1. k = Store!Key(Binding(r))
  BY DEF ResultKey
<1>2. CASE Holding(s, r)
  <2>1. t = [s EXCEPT ![k] = Unknown(s[k])]
    BY <1>1, <1>2, HeldIsOwn DEF Store!markOutcomeUnknown, Unknown
  <2>2. k \in DOMAIN s
    BY <1>2 DEF Holding
  <2> QED BY <1>2, <2>1, <2>2, UnknownRow DEF IsStore, SameBut
<1>3. CASE ~Holding(s, r)
  BY <1>3, HeldIsOwn DEF Store!markOutcomeUnknown, SameBut
<1> QED BY <1>2, <1>3

\* release drops the request's own reservation, or does nothing.
LEMMA ReleasedRows ==
    ASSUME NEW s, IsStore(s), NEW r \in Requests, NEW k, k = ResultKey(r),
           NEW t, t = Store!release(s, Binding(r), r)
    PROVE  /\ IsStore(t)
           /\ Holding(s, r) => /\ DOMAIN t = DOMAIN s \ {k}
                               /\ \A j \in DOMAIN t : t[j] = s[j]
           /\ ~Holding(s, r) => t = s
BY HeldIsOwn DEF Store!release, Store!drop, ResultKey, IsStore

\* complete keeps the fencing token, the fingerprint and the acknowledgement.
LEMMA CompletedRow ==
    ASSUME NEW row, IsResult(row), NEW payload \in Payloads,
           NEW f, f = Store!completedRow(row, payload)
    PROVE  /\ IsResult(f) /\ f.state = "succeeded" /\ f.payload = payload
           /\ f.token = row.token /\ f.fingerprint = row.fingerprint /\ f.acked = row.acked
<1> DEFINE g == [row EXCEPT !.state = "succeeded"]
           h == [g EXCEPT !.payload = payload]
<1>1. /\ IsResult(g) /\ g.state = "succeeded" /\ g.token = row.token
      /\ g.fingerprint = row.fingerprint /\ g.acked = row.acked
  BY DEF IsResult, Store!RowState
<1>2. f = [h EXCEPT !.expired = FALSE]
  BY DEF Store!completedRow
<1> HIDE DEF g
<1>3. /\ IsResult(h) /\ h.state = "succeeded" /\ h.token = row.token /\ h.payload = payload
      /\ h.fingerprint = row.fingerprint /\ h.acked = row.acked
  BY <1>1 DEF IsResult
<1> HIDE DEF h
<1> QED BY <1>2, <1>3 DEF IsResult

\* complete stores the answer in the request's own reservation, or does nothing.
LEMMA CompletedRows ==
    ASSUME NEW s, IsStore(s), NEW r \in Requests, NEW k, k = ResultKey(r),
           NEW payload \in Payloads, NEW t, t = Store!complete(s, Binding(r), r, payload)
    PROVE  /\ IsStore(t) /\ SameBut(s, t, k)
           /\ Holding(s, r) => /\ t[k].state = "succeeded" /\ t[k].payload = payload
                               /\ t[k].fingerprint = fingerprint(r) /\ ~t[k].acked
           /\ ~Holding(s, r) => t = s
<1>1. k = Store!Key(Binding(r))
  BY DEF ResultKey
<1>2. CASE Holding(s, r)
  <2> DEFINE f == Store!completedRow(s[k], payload)
  <2>1. t = [s EXCEPT ![k] = f]
    BY <1>1, <1>2, HeldIsOwn DEF Store!complete
  <2>2. k \in DOMAIN s /\ s[k].state = "reserved" /\ s[k].fingerprint = fingerprint(r)
    BY <1>2 DEF Holding
  <2>3. /\ IsResult(f) /\ f.state = "succeeded" /\ f.payload = payload
        /\ f.token = s[k].token /\ f.fingerprint = s[k].fingerprint /\ f.acked = s[k].acked
    BY <2>2, CompletedRow DEF IsStore
  <2> HIDE DEF f
  <2> QED BY <1>2, <2>1, <2>2, <2>3 DEF IsStore, SameBut
<1>3. CASE ~Holding(s, r)
  BY <1>3, HeldIsOwn DEF Store!complete, SameBut
<1> QED BY <1>2, <1>3

\* An acknowledgement drops nothing but acknowledged results.
LEMMA AcknowledgedRows ==
    ASSUME NEW s, IsStore(s), NEW r \in Requests, NEW k, k = ResultKey(r),
           NEW t, t = Store!acknowledge(s, Binding(r))
    PROVE  /\ IsStore(t) /\ DOMAIN t \subseteq DOMAIN s
           /\ \A j \in DOMAIN t :
                 \/ t[j] = s[j]
                 \/ /\ j = k /\ s[j].state = "succeeded" /\ t[j].state = "succeeded" /\ t[j].acked
                    /\ t[j].payload = s[j].payload /\ t[j].fingerprint = s[j].fingerprint
           /\ \A j \in DOMAIN s \ DOMAIN t : s[j].state = "succeeded" /\ (j = k \/ s[j].acked)
<1>1. k = Store!Key(Binding(r))
  BY DEF ResultKey
<1>2. CASE Store!Acknowledgeable(s, Binding(r))
  <2> DEFINE f == [s[k] EXCEPT !.acked = TRUE]
             a == [s EXCEPT ![k] = f]
  <2>1. k \in DOMAIN s /\ s[k].state = "succeeded"
    BY <1>1, <1>2 DEF Store!Acknowledgeable
  <2>2. /\ IsResult(f) /\ f.state = "succeeded" /\ f.acked
        /\ f.payload = s[k].payload /\ f.fingerprint = s[k].fingerprint /\ f.token = s[k].token
    BY <2>1 DEF IsStore, IsResult
  <2> HIDE DEF f
  <2>3. /\ DOMAIN a = DOMAIN s /\ a[k] = f
        /\ \A j \in DOMAIN s : j # k => a[j] = s[j]
    BY <2>1
  <2>4. t = Store!pruned(a, Binding(r))
    BY <1>1, <1>2 DEF Store!acknowledge, f
  <2> HIDE DEF a
  <2>5. /\ DOMAIN t \subseteq DOMAIN a /\ \A j \in DOMAIN t : t[j] = a[j]
        /\ \A j \in DOMAIN a \ DOMAIN t : a[j].state = "succeeded" /\ a[j].acked
    BY <2>4 DEF Store!pruned, Store!drop, Store!Forgettable
  <2> QED BY <2>1, <2>2, <2>3, <2>5 DEF IsStore
<1>3. CASE ~Store!Acknowledgeable(s, Binding(r))
  BY <1>3 DEF Store!acknowledge
<1> QED BY <1>2, <1>3

\* Opening the database fences every reservation.
LEMMA ReopenedRows ==
    ASSUME NEW s, IsStore(s), NEW t, t = Store!reopened(s)
    PROVE  /\ IsStore(t) /\ DOMAIN t = DOMAIN s
           /\ \A j \in DOMAIN s : t[j] = IF s[j].state = "reserved" THEN Unknown(s[j]) ELSE s[j]
<1>1. t = [j \in DOMAIN s |-> IF s[j].state = "reserved" THEN Unknown(s[j]) ELSE s[j]]
  BY DEF Store!reopened, Unknown
<1> QED BY <1>1, UnknownRow DEF IsStore

\* Time changes nothing but what is to be dropped.
LEMMA ExpiredRows ==
    ASSUME NEW s, IsStore(s), NEW k \in DOMAIN s, NEW t, t = Store!expire(s, k)
    PROVE  /\ IsStore(t) /\ SameBut(s, t, k)
           /\ t[k].state = s[k].state /\ t[k].token = s[k].token /\ t[k].payload = s[k].payload
           /\ t[k].fingerprint = s[k].fingerprint /\ t[k].acked = s[k].acked
<1> DEFINE f == [s[k] EXCEPT !.expired = TRUE]
<1>1. /\ IsResult(f) /\ f.state = s[k].state /\ f.token = s[k].token /\ f.payload = s[k].payload
      /\ f.fingerprint = s[k].fingerprint /\ f.acked = s[k].acked
  BY DEF IsStore, IsResult
<1>2. t = [s EXCEPT ![k] = f]
  BY DEF Store!expire
<1> HIDE DEF f
<1> QED BY <1>1, <1>2 DEF IsStore, SameBut

-----------------------------------------------------------------------------
(* The steps that neither admit a request nor call its provider: what they *)
(* may do to a row of the results, to the ledger and to a handler.          *)

Kept(k) ==
    /\ k \in DOMAIN results /\ k \in DOMAIN results'
    /\ results'[k].state = results[k].state /\ results'[k].token = results[k].token
    /\ results'[k].payload = results[k].payload /\ results'[k].acked = results[k].acked
    /\ results'[k].fingerprint = results[k].fingerprint

Fenced(k) ==
    /\ k \in DOMAIN results /\ k \in DOMAIN results'
    /\ results[k].state = "reserved" /\ results'[k].state = "outcome_unknown"
    /\ results'[k].fingerprint = results[k].fingerprint

Confirmed(k) ==
    /\ k \in DOMAIN results /\ k \in DOMAIN results'
    /\ results[k].state = "succeeded" /\ results'[k].state = "succeeded" /\ results'[k].acked
    /\ results'[k].payload = results[k].payload
    /\ results'[k].fingerprint = results[k].fingerprint

Forgotten(k) ==
    k \in DOMAIN results /\ k \notin DOMAIN results' /\ results[k].state = "succeeded"

\* The operation was begun, and its handler ended before it was admitted.
Stranded(k) ==
    /\ k \in DOMAIN results => results[k].state = "succeeded" /\ results[k].acked
    /\ k \in DOMAIN results'
    /\ \/ results'[k].state = "reserved" /\ phase'[results'[k].token] \notin InFlight
       \/ results'[k].state = "outcome_unknown"

Stored(k) ==
    \E r \in Requests :
       /\ phase[r] \in InFlight /\ k = ResultKey(r) /\ Holding(results, r)
       /\ phase'[r] \notin InFlight /\ UsageKey(r) \in produced
       /\ k \in DOMAIN results' /\ results'[k].state = "succeeded" /\ ~results'[k].acked
       /\ results'[k].fingerprint = fingerprint(r)
       /\ results'[k].payload \in Payloads /\ results'[k].payload.by = r
       /\ results'[k].payload.total \in UpstreamTotals(r)

Refused(k) ==
    \E r \in Requests :
       /\ phase[r] \in InFlight /\ k = ResultKey(r) /\ Holding(results, r)
       /\ phase'[r] \notin InFlight
       /\ k \notin DOMAIN results' /\ ledger'[UsageKey(r)].state = "released"

RowStep(k) ==
    \/ k \notin DOMAIN results /\ k \notin DOMAIN results'
    \/ Kept(k) \/ Fenced(k) \/ Confirmed(k) \/ Forgotten(k)
    \/ Stranded(k) \/ Stored(k) \/ Refused(k)

\* A row is finalized only for an operation the results know of.
UsageStep(u) ==
    /\ ledger'[u].installation = ledger[u].installation
    /\ ledger'[u].token = ledger[u].token
    /\ ledger'[u].fingerprint = ledger[u].fingerprint
    /\ ledger'[u].period = ledger[u].period
    /\ ledger[u].state # "reserved" => ledger'[u] = ledger[u]
    /\ \/ ledger'[u].state = ledger[u].state
       \/ \E r \in Requests : /\ u = UsageKey(r) /\ ledger[u].installation = InstallationOf[r]
                              /\ ResultKey(r) \in DOMAIN results
    /\ u \in produced => ledger'[u].state # "released"

Calm ==
    /\ today' \in 1..Days /\ today' \in {today, today + 1}
    /\ phase' \in [Requests -> Phases]
    /\ answer' \in [Requests -> Payloads \cup {NoPayload}]
    /\ UNCHANGED <<straddling, receipt, calls, produced>>
    /\ IsLedger(ledger)' /\ IsStore(results)'
    /\ DOMAIN ledger' = DOMAIN ledger
    /\ \A u \in DOMAIN ledger : UsageStep(u)
    /\ \A k \in ResultKeys : RowStep(k)
    /\ \A r \in Requests : phase'[r] \in InFlight =>
          /\ phase'[r] = phase[r]
          /\ ledger'[UsageKey(r)].state = ledger[UsageKey(r)].state
    /\ \A r \in Requests : answer'[r] = answer[r] \/ OwnAnswer(r)'

\* Rows of the past stay rows of the past.
LEMMA LedgerToday ==
    ASSUME IsLedger(ledger'), today \in 1..Days, today' \in {today, today + 1}
    PROVE  IsLedger(ledger)'
<1>1. 1..today \subseteq 1..today'
  BY RouteAssumption DEF RouteConfig
<1> QED BY <1>1 DEF IsLedger, IsUsage

\* A calm step preserves the inductive invariant.
LEMMA CalmKeeps == ASSUME IInv, Calm PROVE IInv'
<1>1. /\ today' \in 1..Days /\ IsLedger(ledger)' /\ IsStore(results)'
      /\ (phase \in [Requests -> Phases])' /\ (receipt \in [Requests -> Nat])'
      /\ (answer \in [Requests -> Payloads \cup {NoPayload}])'
      /\ (calls \in [UsageKeys -> 0..1])'
      /\ (produced \subseteq DOMAIN ledger)' /\ (straddling \subseteq DOMAIN ledger)'
  BY DEF IInv, Calm
<1>2. ASSUME NEW k \in DOMAIN results', results'[k].state = "succeeded" PROVE KeptRow(k)'
  <2>1. k \in ResultKeys
    BY <1>1, <1>2 DEF IsStore, IsResult, ResultKeys
  <2>2. CASE Kept(k) \/ Confirmed(k)
    BY <1>2, <2>2 DEF IInv, Calm, KeptRow, Kept, Confirmed, UsageStep
  <2>3. CASE Stored(k)
    <3>1. PICK r \in Requests :
             /\ phase[r] \in InFlight /\ k = ResultKey(r) /\ UsageKey(r) \in produced
             /\ results'[k].fingerprint = fingerprint(r)
             /\ results'[k].payload \in Payloads /\ results'[k].payload.by = r
      BY <2>3 DEF Stored
    <3>2. Holds(r)
      BY <3>1 DEF IInv
    <3> QED BY <3>1, <3>2 DEF IInv, Calm, KeptRow, Holds, UsageStep
  <2> QED BY <1>2, <2>1, <2>2, <2>3 DEF Calm, RowStep, Fenced, Forgotten, Stranded, Refused
<1>3. ASSUME NEW r \in Requests, phase'[r] \in InFlight PROVE Holds(r)'
  <2> DEFINE u == UsageKey(r)
             k == ResultKey(r)
  <2>1. Holds(r) /\ phase'[r] = phase[r] /\ phase[r] \in InFlight
    BY <1>3 DEF IInv, Calm
  <2>2. /\ u \in DOMAIN ledger' /\ ledger'[u].state = "reserved" /\ ledger'[u].token = receipt'[r]
        /\ ledger'[u].installation = InstallationOf[r]
        /\ ledger'[u].fingerprint = fingerprint(r)
    BY <1>3, <2>1 DEF Calm, Holds, UsageStep
  <2>3. /\ k \in DOMAIN results' /\ results'[k].fingerprint = fingerprint(r)
        /\ \/ results'[k].state = "reserved" /\ results'[k].token = r
           \/ results'[k].state = "outcome_unknown"
    <3>1. RowStep(k) /\ k \in DOMAIN results /\ results[k].state # "succeeded"
      BY <2>1, KeysOfRequests DEF Calm, Holds
    <3>2. ~Stored(k) /\ ~Refused(k)
      <4> SUFFICES ASSUME NEW q \in Requests, k = ResultKey(q), phase[q] \in InFlight,
                          phase'[q] \notin InFlight
                   PROVE  FALSE
        BY DEF Stored, Refused
      <4>1. UsageKey(q) = u
        BY KeysOfRequests
      <4> QED BY <1>3, <2>1, <4>1 DEF Holds
    <3>3. Kept(k) \/ Fenced(k)
      BY <3>1, <3>2 DEF RowStep, Confirmed, Forgotten, Stranded
    <3> QED BY <2>1, <3>3 DEF Holds, Kept, Fenced
  <2>4. /\ phase'[r] = "waiting" => calls'[u] = 0
        /\ phase'[r] = "streaming" <=> u \in produced'
        /\ \A q \in Requests : phase'[q] \in InFlight /\ UsageKey(q) = u => q = r
    BY <2>1 DEF Calm, Holds
  <2> QED BY <2>2, <2>3, <2>4 DEF Holds
<1>4. ASSUME NEW r \in Requests, answer'[r] # NoPayload PROVE OwnAnswer(r)'
  BY <1>4 DEF IInv, Calm, OwnAnswer
<1>5. \A u \in UsageKeys : /\ u \notin DOMAIN ledger' => calls'[u] = 0
                           /\ u \in produced' => ledger'[u].state # "released"
  BY DEF IInv, Calm, UsageStep
<1> QED BY <1>1, <1>2, <1>3, <1>4, <1>5 DEF IInv

-----------------------------------------------------------------------------
(* A handler that ends: the row of the ledger and the row of the results    *)
(* are changed by its tokens, or a store was not available.                 *)

Finalizes(r) ==
    \E state \in Ledger!UsageState \ {"reserved"}, actual \in Ledger!Amounts :
       /\ ledger' = Ledger!finalize(ledger, OperationOf[r], receipt[r], state, actual)
       /\ phase[r] = "streaming" => state # "released"

EndsResult(r) ==
    \/ results' = results
    \/ results' = storeUnknown(r)
    \/ results' = storeReleased(r) /\ ledger' = ledgerReleased(r)
    \/ \E payload \in Payloads :
          /\ payload.by = r /\ payload.total \in UpstreamTotals(r)
          /\ phase[r] = "streaming"
          /\ results' = Store!complete(results, Binding(r), r, payload)

EndsAnswer(r) ==
    \/ answer' = answer
    \/ \E payload \in Payloads : payload.by = r /\ answer' = [answer EXCEPT ![r] = payload]

\* release of a handler's own receipt does release its row.
LEMMA ReleasedUsage ==
    ASSUME IInv, NEW r \in Requests, phase[r] \in InFlight
    PROVE  ledgerReleased(r)[UsageKey(r)].state = "released"
<1> DEFINE u == UsageKey(r)
           l == ledgerReleased(r)
<1>1. /\ IsLedger(ledger) /\ u \in DOMAIN ledger /\ ledger[u].state = "reserved"
      /\ ledger[u].token = receipt[r]
  BY DEF IInv, Holds
<1>2. "released" \in Ledger!UsageState /\ Ledger!Zero \in Ledger!Amounts
  BY DEF Ledger!UsageState, Ledger!Zero, Ledger!Amounts
<1>3. l = Ledger!finalize(ledger, OperationOf[r], ledger[u].token, "released", Ledger!Zero)
  BY <1>1 DEF ledgerReleased, Ledger!release
<1> QED BY <1>1, <1>2, <1>3, Finalized

\* A handler finalizes its own row of the ledger, and that row alone.
LEMMA FinalizesUsage ==
    ASSUME IInv, NEW r \in Requests, phase[r] \in InFlight, Finalizes(r), today' = today,
           produced' = produced
    PROVE  /\ IsLedger(ledger)' /\ DOMAIN ledger' = DOMAIN ledger
           /\ \A u \in DOMAIN ledger : UsageStep(u)
           /\ \A u \in DOMAIN ledger : u # UsageKey(r) => ledger'[u] = ledger[u]
<1> DEFINE u == UsageKey(r)
<1>1. /\ IsLedger(ledger) /\ u \in DOMAIN ledger /\ ledger[u].state = "reserved"
      /\ ledger[u].token = receipt[r] /\ ledger[u].installation = InstallationOf[r]
      /\ ResultKey(r) \in DOMAIN results
      /\ phase[r] # "streaming" => u \notin produced
      /\ today \in 1..Days
  BY DEF IInv, Holds
<1>2. PICK state \in Ledger!UsageState \ {"reserved"}, actual \in Ledger!Amounts :
         /\ ledger' = Ledger!finalize(ledger, OperationOf[r], receipt[r], state, actual)
         /\ phase[r] = "streaming" => state # "released"
  BY DEF Finalizes
<1>3. /\ IsLedger(ledger') /\ DOMAIN ledger' = DOMAIN ledger
      /\ \A k \in DOMAIN ledger :
            /\ ledger'[k].token = ledger[k].token
            /\ ledger'[k].installation = ledger[k].installation
            /\ ledger'[k].fingerprint = ledger[k].fingerprint
            /\ ledger'[k].period = ledger[k].period
            /\ k # u => ledger'[k] = ledger[k]
      /\ ledger'[u].state = state
  BY <1>1, <1>2, Finalized
<1>4. IsLedger(ledger)'
  BY <1>1, <1>3, LedgerToday
<1>5. ASSUME NEW k \in DOMAIN ledger PROVE UsageStep(k)
  <2>1. k \in produced => k \in UsageKeys /\ ledger[k].state # "released"
    BY DEF IInv, IsLedger, UsageKeys
  <2> QED BY <1>1, <1>2, <1>3, <2>1 DEF UsageStep
<1> QED BY <1>3, <1>4, <1>5

\* A handler that ends moves its own row of the results as an operation may.
LEMMA EndsRows ==
    ASSUME IInv, NEW r \in Requests, phase[r] \in InFlight, phase' = [phase EXCEPT ![r] = "done"],
           EndsResult(r)
    PROVE  IsStore(results)' /\ \A k \in ResultKeys : RowStep(k)
<1> DEFINE k == ResultKey(r)
<1>1. /\ IsStore(results) /\ k \in DOMAIN results
      /\ phase[r] = "streaming" => UsageKey(r) \in produced
      /\ phase'[r] \notin InFlight
      /\ ledgerReleased(r)[UsageKey(r)].state = "released"
  BY ReleasedUsage DEF IInv, Holds, InFlight
<1>2. CASE results' = results
  BY <1>1, <1>2 DEF RowStep, Kept, IsStore
<1>3. CASE results' = storeUnknown(r)
  <2>1. /\ IsStore(results') /\ SameBut(results, results', k)
        /\ Holding(results, r) => results'[k] = Unknown(results[k])
        /\ ~Holding(results, r) => results' = results
    BY <1>1, <1>3, MarkedRows DEF storeUnknown
  <2>2. CASE Holding(results, r)
    <3>1. Fenced(k)
      BY <1>1, <2>1, <2>2, UnknownRow DEF Fenced, Holding, SameBut, IsStore
    <3> QED BY <2>1, <3>1 DEF RowStep, Kept, SameBut, IsStore
  <2> QED BY <1>1, <1>2, <2>1, <2>2
<1>4. CASE results' = storeReleased(r) /\ ledger' = ledgerReleased(r)
  <2>1. /\ IsStore(results')
        /\ Holding(results, r) => /\ DOMAIN results' = DOMAIN results \ {k}
                                  /\ \A j \in DOMAIN results' : results'[j] = results[j]
        /\ ~Holding(results, r) => results' = results
    BY <1>1, <1>4, ReleasedRows DEF storeReleased
  <2>2. CASE Holding(results, r)
    <3>1. Refused(k)
      BY <1>1, <1>4, <2>1, <2>2 DEF Refused
    <3> QED BY <2>1, <2>2, <3>1 DEF RowStep, Kept, IsStore
  <2> QED BY <1>1, <1>2, <2>1, <2>2
<1>5. ASSUME NEW payload \in Payloads, payload.by = r, phase[r] = "streaming",
             payload.total \in UpstreamTotals(r),
             results' = Store!complete(results, Binding(r), r, payload)
      PROVE  IsStore(results)' /\ \A j \in ResultKeys : RowStep(j)
  <2>1. /\ IsStore(results') /\ SameBut(results, results', k)
        /\ Holding(results, r) => /\ results'[k].state = "succeeded" /\ results'[k].payload = payload
                                  /\ results'[k].fingerprint = fingerprint(r) /\ ~results'[k].acked
        /\ ~Holding(results, r) => results' = results
    BY <1>1, <1>5, CompletedRows
  <2>2. CASE Holding(results, r)
    <3>1. Stored(k)
      BY <1>1, <1>5, <2>1, <2>2 DEF Stored, SameBut
    <3> QED BY <2>1, <3>1 DEF RowStep, Kept, SameBut, IsStore
  <2> QED BY <1>1, <1>2, <2>1, <2>2
<1> QED BY <1>2, <1>3, <1>4, <1>5 DEF EndsResult

\* A handler that ends is a calm step.
LEMMA EndsCalm ==
    ASSUME IInv, NEW r \in Requests, phase[r] \in InFlight, Over(r),
           ledger' = ledger \/ Finalizes(r), EndsResult(r), EndsAnswer(r)
    PROVE  Calm
<1>1. /\ phase' = [phase EXCEPT ![r] = "done"] /\ today' = today
      /\ UNCHANGED <<straddling, receipt, calls, produced>>
  BY DEF Over, Left
<1>2. /\ IsLedger(ledger)' /\ DOMAIN ledger' = DOMAIN ledger
      /\ \A u \in DOMAIN ledger : UsageStep(u)
      /\ \A u \in DOMAIN ledger : u # UsageKey(r) => ledger'[u] = ledger[u]
  <2>1. CASE ledger' = ledger
    BY <1>1, <2>1, LedgerToday DEF IInv, UsageStep, IsLedger, UsageKeys
  <2>2. CASE Finalizes(r)
    BY <1>1, <2>2, FinalizesUsage
  <2> QED BY <2>1, <2>2
<1>3. IsStore(results)' /\ \A k \in ResultKeys : RowStep(k)
  BY <1>1, EndsRows
<1>4. /\ phase' \in [Requests -> Phases]
      /\ answer' \in [Requests -> Payloads \cup {NoPayload}]
      /\ today' \in 1..Days
  BY <1>1 DEF IInv, EndsAnswer, Phases
<1>5. ASSUME NEW q \in Requests, phase'[q] \in InFlight
      PROVE  /\ phase'[q] = phase[q]
             /\ ledger'[UsageKey(q)].state = ledger[UsageKey(q)].state
  <2>1. q # r /\ phase'[q] = phase[q]
    BY <1>1, <1>5 DEF IInv, InFlight
  <2>2. UsageKey(q) # UsageKey(r) /\ UsageKey(q) \in DOMAIN ledger
    BY <1>5, <2>1 DEF IInv, Holds
  <2> QED BY <1>2, <2>1, <2>2
<1>6. ASSUME NEW q \in Requests, answer'[q] # answer[q] PROVE OwnAnswer(q)'
  <2>1. answer'[r].by = r /\ q = r
    BY <1>6 DEF IInv, EndsAnswer
  <2> QED BY <2>1 DEF OwnAnswer
<1> QED BY <1>1, <1>2, <1>3, <1>4, <1>5, <1>6 DEF Calm

\* What providers report is an amount, and the payloads that carry it.
LEMMA AmountsReported ==
    /\ \A n \in Nat : Amount(n) \in Ledger!Amounts
    /\ \A r \in Requests :
          /\ Partial(r) \in Payloads /\ Partial(r).by = r
          /\ Partial(r).total \in UpstreamTotals(r)
          /\ \A n \in UpstreamTotals(r) :
                Whole(r, n) \in Payloads /\ Whole(r, n).by = r /\ Whole(r, n).total = n
    /\ \A payload \in Payloads : payload.by \in Requests /\ payload.total \in Nat
<1>1. \A n \in Nat : Amount(n) \in Ledger!Amounts
  BY DEF Amount, Ledger!Amounts
<1>2. ASSUME NEW r \in Requests
      PROVE  InputBytes[BodyOf[r]] + RequestedOutput[BodyOf[r]] \in UpstreamTotals(r)
  BY RouteAssumption DEF RouteConfig, UpstreamTotals
<1>3. ASSUME NEW r \in Requests
      PROVE  UpstreamTotals(r) \subseteq Nat
  BY RouteAssumption DEF RouteConfig, UpstreamTotals
<1>4. UNION {UpstreamTotals(r) : r \in Requests} \subseteq Nat
  BY <1>3
<1> QED BY <1>1, <1>2, <1>4 DEF Payloads, Partial, Whole

\* The three ways in which the route closes a reservation.
LEMMA Finalizing ==
    ASSUME IInv, NEW r \in Requests, phase[r] \in InFlight
    PROVE  /\ phase[r] # "streaming" /\ ledger' = ledgerReleased(r) => Finalizes(r)
           /\ ledger' = ledgerUnknown(r) => Finalizes(r)
           /\ \A n \in Nat : ledger' = Ledger!settle(ledger, OperationOf[r], receipt[r], Amount(n))
                                => Finalizes(r)
<1>1. /\ Ledger!Zero \in Ledger!Amounts /\ IsLedger(ledger)
      /\ {"settled", "released", "outcome_unknown"} = Ledger!UsageState \ {"reserved"}
  BY DEF Ledger!Zero, Ledger!Amounts, Ledger!UsageState, IInv
<1>2. ASSUME NEW state \in {"settled", "released", "outcome_unknown"},
             NEW actual \in Ledger!Amounts,
             ledger' = Ledger!finalize(ledger, OperationOf[r], receipt[r], state, actual),
             phase[r] = "streaming" => state # "released"
      PROVE  Finalizes(r)
  BY <1>1, <1>2 DEF Finalizes
<1>3. ASSUME phase[r] # "streaming", ledger' = ledgerReleased(r) PROVE Finalizes(r)
  BY <1>1, <1>2, <1>3 DEF ledgerReleased, Ledger!release
<1>4. ASSUME ledger' = ledgerUnknown(r) PROVE Finalizes(r)
  <2> DEFINE amount == Ledger!ReservedOf(ledger, OperationOf[r], receipt[r])
  <2>1. amount \in Ledger!Amounts
    BY <1>1, ReservedAmount
  <2>2. ledger' = Ledger!finalize(ledger, OperationOf[r], receipt[r], "outcome_unknown", amount)
    BY <1>4 DEF ledgerUnknown, Ledger!markOutcomeUnknown
  <2> HIDE DEF amount
  <2> QED BY <1>2, <2>1, <2>2
<1>5. ASSUME NEW n \in Nat,
             ledger' = Ledger!settle(ledger, OperationOf[r], receipt[r], Amount(n))
      PROVE  Finalizes(r)
  BY <1>2, <1>5, AmountsReported DEF Ledger!settle
<1> QED BY <1>3, <1>4, <1>5

\* A call that is refused or fails before its answer (meteredFailure).
LEMMA FailCalm ==
    ASSUME IInv, NEW r \in Requests, phase[r] \in {"waiting", "calling"},
           NEW paid \in BOOLEAN, Fail(r, paid)
    PROVE  Calm
<1>1. phase[r] \in InFlight /\ phase[r] # "streaming"
  BY DEF InFlight
<1>2. (ledger' = ledger \/ Finalizes(r)) /\ EndsResult(r) /\ EndsAnswer(r)
  BY <1>1, Finalizing DEF Fail, EndsResult, EndsAnswer
<1> QED BY <1>1, <1>2, EndsCalm DEF Fail

\* A stream that breaks leaves both stores with an unknown outcome.
LEMMA MarkUnknownCalm ==
    ASSUME IInv, NEW r \in Requests, phase[r] \in InFlight, Over(r),
           NEW ledgerUp, NEW storeUp, MarkUnknown(r, ledgerUp, storeUp)
    PROVE  Calm
<1>1. (ledger' = ledger \/ Finalizes(r)) /\ EndsResult(r) /\ EndsAnswer(r)
  BY Finalizing DEF MarkUnknown, EndsResult, EndsAnswer
<1> QED BY <1>1, EndsCalm

\* A stream that ends, or is cancelled, stores its answer and settles.
LEMMA FinishCalm ==
    ASSUME IInv, NEW r \in Requests, phase[r] = "streaming", NEW payload \in Payloads,
           payload.by = r, payload.total \in UpstreamTotals(r),
           NEW delivered, Finish(r, payload, delivered)
    PROVE  Calm
<1>1. phase[r] \in InFlight
  BY DEF InFlight
<1>2. PICK ledgerUp \in LedgerUp, storeUp \in StoreUp :
          IF storeUp /\ Store!Completes(results, Binding(r), r, payload)
          THEN /\ results' = Store!complete(results, Binding(r), r, payload)
               /\ ledger' = IF ledgerUp
                            THEN Ledger!settle(ledger, OperationOf[r], receipt[r],
                                               Amount(payload.total))
                            ELSE ledger
               /\ answer' = [answer EXCEPT ![r] =
                                IF ledgerUp /\ delivered THEN payload ELSE @]
          ELSE MarkUnknown(r, ledgerUp, storeUp)
  BY DEF Finish
<1>3. Over(r)
  BY DEF Finish
<1>4. CASE MarkUnknown(r, ledgerUp, storeUp)
  BY <1>1, <1>3, <1>4, MarkUnknownCalm
<1>5. CASE /\ results' = Store!complete(results, Binding(r), r, payload)
           /\ ledger' = IF ledgerUp
                        THEN Ledger!settle(ledger, OperationOf[r], receipt[r], Amount(payload.total))
                        ELSE ledger
           /\ answer' = [answer EXCEPT ![r] = IF ledgerUp /\ delivered THEN payload ELSE @]
  <2>1. EndsResult(r)
    BY <1>5 DEF EndsResult
  <2>2. EndsAnswer(r)
    <3>1. [answer EXCEPT ![r] = answer[r]] = answer
      BY DEF IInv
    <3> QED BY <1>5, <3>1 DEF EndsAnswer
  <2>3. ledger' = ledger \/ Finalizes(r)
    BY <1>1, <1>5, Finalizing, AmountsReported
  <2> QED BY <1>1, <1>3, <2>1, <2>2, <2>3, EndsCalm
<1> QED BY <1>2, <1>4, <1>5

-----------------------------------------------------------------------------
(* The other calm steps.                                                   *)

\* A step that leaves the ledger alone.
LEMMA UntouchedLedger ==
    ASSUME IInv, UNCHANGED <<ledger, produced>>, today' \in {today, today + 1}
    PROVE  /\ IsLedger(ledger)' /\ DOMAIN ledger' = DOMAIN ledger
           /\ \A u \in DOMAIN ledger : UsageStep(u)
BY LedgerToday DEF IInv, UsageStep, IsLedger, UsageKeys

\* A request that was never admitted is over, or a handler stays as it is.
LEMMA QuietCalm ==
    ASSUME IInv, UNCHANGED <<ledger, straddling, receipt, answer, calls, produced>>,
           today' \in {today, today + 1}, today' \in 1..Days,
           IsStore(results'), \A k \in ResultKeys : RowStep(k),
           phase' \in [Requests -> Phases],
           \A q \in Requests : phase'[q] \in InFlight => phase'[q] = phase[q]
    PROVE  Calm
<1>1. IsStore(results)'
  BY DEF IsStore
<1> QED BY <1>1, UntouchedLedger DEF IInv, Calm

\* begin may fence the row of another handler's request, never take it away.
LEMMA RefuseAtBeginCalm == ASSUME IInv, NEW r \in Requests, RefuseAtBegin(r) PROVE Calm
<1> DEFINE k == ResultKey(r)
<1>1. /\ IsStore(results) /\ phase' = [phase EXCEPT ![r] = "done"] /\ phase[r] = "unsent"
      /\ phase \in [Requests -> Phases]
      /\ UNCHANGED <<ledger, today, straddling, receipt, answer, calls, produced>>
  BY DEF IInv, RefuseAtBegin, Over, Left
<1>2. IsStore(results') /\ \A j \in ResultKeys : RowStep(j)
  <2>1. CASE results' = results
    BY <1>1, <2>1 DEF RowStep, Kept
  <2>2. CASE Began(r) # "started" /\ results' = Begun(r)
    <3>1. /\ IsStore(results') /\ DOMAIN results' = DOMAIN results
          /\ \A j \in DOMAIN results \ {k} : results'[j] = results[j]
          /\ k \in DOMAIN results =>
                \/ results'[k] = results[k]
                \/ results[k].state = "reserved" /\ results'[k] = Unknown(results[k])
      BY <1>1, <2>2, BegunRows
    <3>2. k \in DOMAIN results => Kept(k) \/ Fenced(k)
      BY <1>1, <3>1, UnknownRow DEF Kept, Fenced, IsStore
    <3> QED BY <3>1, <3>2 DEF RowStep, Kept
  <2> QED BY <2>1, <2>2 DEF RefuseAtBegin
<1>3. \A q \in Requests : phase'[q] \in InFlight => phase'[q] = phase[q]
  BY <1>1 DEF InFlight
<1> QED BY <1>1, <1>2, <1>3, QuietCalm DEF IInv, Phases

\* A request that begins, is refused by the ledger, and undoes its begin.
LEMMA RefuseReservationCalm == ASSUME IInv, NEW r \in Requests, RefuseReservation(r) PROVE Calm
<1> DEFINE k == ResultKey(r)
<1>1. /\ IsStore(results) /\ phase' = [phase EXCEPT ![r] = "done"] /\ phase[r] = "unsent"
      /\ phase \in [Requests -> Phases]
      /\ UNCHANGED <<ledger, straddling, receipt, answer, calls, produced>>
      /\ today' \in {today, today + 1} /\ today' \in 1..Days
  BY DEF IInv, RefuseReservation, Left, Ledger!Ends
<1>2. \A q \in Requests : phase'[q] \in InFlight => phase'[q] = phase[q]
  BY <1>1 DEF InFlight
<1>3. phase'[r] \notin InFlight
  BY <1>1 DEF InFlight
<1>4. CASE Began(r) = "succeeded" /\ results' = Begun(r)
  <2>1. /\ IsStore(results') /\ DOMAIN results' = DOMAIN results
        /\ \A j \in DOMAIN results : results'[j] = results[j]
    BY <1>1, <1>4, BegunRows
  <2>2. \A j \in ResultKeys : RowStep(j)
    BY <2>1 DEF RowStep, Kept
  <2> QED BY <1>1, <1>2, <2>1, <2>2, QuietCalm DEF IInv, Phases
<1>5. CASE Began(r) = "started"
  <2> DEFINE s == Begun(r)
  <2>1. /\ IsStore(s) /\ k \in DOMAIN s /\ s[k].state = "reserved" /\ s[k].token = r
        /\ s[k].fingerprint = fingerprint(r)
        /\ k \in DOMAIN results => results[k].state = "succeeded" /\ results[k].acked
        /\ \A j \in DOMAIN results \ {k} : j \in DOMAIN s /\ s[j] = results[j]
        /\ \A j \in DOMAIN s : j = k \/ j \in DOMAIN results
    BY <1>1, <1>5, BegunRows
  <2>2. results' = s \/ results' = Store!release(s, Binding(r), r)
    BY <1>5 DEF RefuseReservation
  <2> HIDE DEF s
  <2>3. CASE results' = s
    <3>1. Stranded(k)
      BY <1>3, <2>1, <2>3 DEF Stranded
    <3>2. \A j \in ResultKeys : RowStep(j)
      BY <2>1, <2>3, <3>1 DEF RowStep, Kept
    <3> QED BY <1>1, <1>2, <2>1, <2>3, <3>2, QuietCalm DEF IInv, Phases
  <2>4. CASE results' = Store!release(s, Binding(r), r)
    <3>1. /\ IsStore(results') /\ DOMAIN results' = DOMAIN s \ {k}
          /\ \A j \in DOMAIN results' : results'[j] = s[j]
      <4>1. Holding(s, r)
        BY <2>1 DEF Holding
      <4> QED BY <2>1, <2>4, <4>1, ReleasedRows
    <3>2. \A j \in ResultKeys : RowStep(j)
      BY <2>1, <3>1 DEF RowStep, Kept, Forgotten
    <3> QED BY <1>1, <1>2, <3>1, <3>2, QuietCalm DEF IInv, Phases
  <2> QED BY <2>2, <2>3, <2>4
<1> QED BY <1>4, <1>5 DEF RefuseReservation

\* An acknowledgement touches stored answers only.
LEMMA AcknowledgeCalm == ASSUME IInv, NEW r \in Requests, Acknowledge(r) PROVE Calm
<1> DEFINE k == ResultKey(r)
<1>1. /\ IsStore(results') /\ DOMAIN results' \subseteq DOMAIN results
      /\ \A j \in DOMAIN results' :
            \/ results'[j] = results[j]
            \/ /\ results[j].state = "succeeded" /\ results'[j].state = "succeeded"
               /\ results'[j].acked /\ results'[j].payload = results[j].payload
               /\ results'[j].fingerprint = results[j].fingerprint
      /\ \A j \in DOMAIN results \ DOMAIN results' : results[j].state = "succeeded"
  BY AcknowledgedRows DEF IInv, Acknowledge
<1>2. \A j \in ResultKeys : RowStep(j)
  BY <1>1 DEF RowStep, Kept, Confirmed, Forgotten
<1> QED BY <1>1, <1>2, QuietCalm DEF IInv, Acknowledge

\* A row that grows old.
LEMMA ExpireCalm == ASSUME IInv, NEW k, Expire(k) PROVE Calm
<1>1. k \in DOMAIN results /\ results' = Store!expire(results, k) /\ IsStore(results)
  BY DEF Expire, Store!MayExpire, IInv
<1>2. /\ IsStore(results') /\ SameBut(results, results', k)
      /\ results'[k].state = results[k].state /\ results'[k].token = results[k].token
      /\ results'[k].payload = results[k].payload
      /\ results'[k].fingerprint = results[k].fingerprint
      /\ results'[k].acked = results[k].acked
  BY <1>1, ExpiredRows
<1>3. \A j \in ResultKeys : RowStep(j)
  BY <1>1, <1>2 DEF RowStep, Kept, SameBut
<1> QED BY <1>2, <1>3, QuietCalm DEF IInv, Expire

\* Midnight moves nothing but the day.
LEMMA NextDayCalm == ASSUME IInv, NextDay PROVE Calm
<1>1. today' = today + 1 /\ today' \in 1..Days
  BY RouteAssumption DEF NextDay, IInv, RouteConfig
<1>2. IsStore(results') /\ \A j \in ResultKeys : RowStep(j)
  BY DEF NextDay, IInv, RowStep, Kept
<1> QED BY <1>1, <1>2, QuietCalm DEF IInv, NextDay

\* A restart ends every handler, and fences what was reserved.
LEMMA RestartCalm ==
    ASSUME IInv, NEW s, IsStore(s), NEW lost, RestartWith(s, lost),
           \A k \in ResultKeys :
              \/ k \notin DOMAIN results /\ k \notin DOMAIN s
              \/ k \in DOMAIN results /\ k \in DOMAIN s /\ s[k] = results[k]
              \/ /\ k \in DOMAIN s /\ s[k].state = "reserved"
                 /\ k \in DOMAIN results => results[k].state = "succeeded" /\ results[k].acked
              \/ /\ k \in DOMAIN s /\ s[k].state = "succeeded" /\ ~s[k].acked
                 /\ \E r \in Requests :
                       /\ phase[r] = "streaming" /\ k = ResultKey(r) /\ Holding(results, r)
                       /\ s[k].fingerprint = fingerprint(r)
                       /\ s[k].payload \in Payloads /\ s[k].payload.by = r
                       /\ s[k].payload.total \in UpstreamTotals(r)
    PROVE  Calm
<1>1. /\ results' = Store!reopened(s)
      /\ phase' = [r \in Requests |->
                      IF r \in lost \/ phase[r] \in InFlight THEN "gone" ELSE phase[r]]
      /\ UNCHANGED <<ledger, today, straddling, receipt, answer, calls, produced>>
  BY DEF RestartWith
<1>2. \A q \in Requests : phase'[q] \notin InFlight
  BY <1>1 DEF InFlight
<1>3. phase' \in [Requests -> Phases]
  BY <1>1 DEF IInv, Phases
<1>4. /\ IsStore(results') /\ DOMAIN results' = DOMAIN s
      /\ \A k \in DOMAIN s : results'[k] = IF s[k].state = "reserved" THEN Unknown(s[k]) ELSE s[k]
  BY <1>1, ReopenedRows
<1>5. ASSUME NEW k \in ResultKeys PROVE RowStep(k)
  <2>1. CASE k \notin DOMAIN results /\ k \notin DOMAIN s
    BY <1>4, <2>1 DEF RowStep
  <2>2. CASE k \in DOMAIN results /\ k \in DOMAIN s /\ s[k] = results[k]
    <3>1. CASE s[k].state = "reserved"
      <4>1. results'[k].state = "outcome_unknown" /\ results'[k].fingerprint = s[k].fingerprint
        BY <1>4, <2>2, <3>1, UnknownRow DEF IsStore
      <4> QED BY <1>4, <2>2, <3>1, <4>1 DEF RowStep, Fenced
    <3>2. CASE s[k].state # "reserved"
      BY <1>4, <2>2, <3>2 DEF RowStep, Kept
    <3> QED BY <3>1, <3>2
  <2>3. CASE /\ k \in DOMAIN s /\ s[k].state = "reserved"
             /\ k \in DOMAIN results => results[k].state = "succeeded" /\ results[k].acked
    <3>1. results'[k].state = "outcome_unknown"
      BY <1>4, <2>3, UnknownRow DEF IsStore
    <3> QED BY <1>4, <2>3, <3>1 DEF RowStep, Stranded
  <2>4. ASSUME k \in DOMAIN s, s[k].state = "succeeded", ~s[k].acked,
               NEW r \in Requests, phase[r] = "streaming", k = ResultKey(r), Holding(results, r),
               s[k].fingerprint = fingerprint(r), s[k].payload \in Payloads, s[k].payload.by = r,
               s[k].payload.total \in UpstreamTotals(r)
        PROVE  RowStep(k)
    <3>1. phase[r] \in InFlight /\ UsageKey(r) \in produced
      BY <2>4 DEF IInv, Holds, InFlight
    <3>2. Stored(k)
      BY <1>2, <1>4, <2>4, <3>1 DEF Stored
    <3> QED BY <3>2 DEF RowStep
  <2> QED BY <2>1, <2>2, <2>3, <2>4
<1> QED BY <1>1, <1>2, <1>3, <1>4, <1>5, QuietCalm DEF IInv

\* A crash between two steps.
LEMMA CrashCalm == ASSUME IInv, Crash PROVE Calm
BY RestartCalm DEF IInv, Crash

\* A crash between begin and reserve.
LEMMA CrashBeforeReserveCalm == ASSUME IInv, NEW r \in Requests, CrashBeforeReserve(r) PROVE Calm
<1> DEFINE k == ResultKey(r)
           s == Begun(r)
<1>1. IsStore(results) /\ Began(r) = "started" /\ RestartWith(s, {r})
  BY DEF IInv, CrashBeforeReserve
<1>2. /\ IsStore(s) /\ k \in DOMAIN s /\ s[k].state = "reserved"
      /\ k \in DOMAIN results => results[k].state = "succeeded" /\ results[k].acked
      /\ \A j \in DOMAIN results \ {k} : j \in DOMAIN s /\ s[j] = results[j]
      /\ \A j \in DOMAIN s : j = k \/ j \in DOMAIN results
  BY <1>1, BegunRows
<1> HIDE DEF s
<1> QED BY <1>1, <1>2, RestartCalm

\* A crash between complete and settle.
LEMMA CrashBeforeSettleCalm == ASSUME IInv, NEW r \in Requests, CrashBeforeSettle(r) PROVE Calm
<1> DEFINE k == ResultKey(r)
<1>1. PICK n \in UpstreamTotals(r) :
         RestartWith(Store!complete(results, Binding(r), r, Whole(r, n)), {r})
  BY DEF CrashBeforeSettle
<1> DEFINE s == Store!complete(results, Binding(r), r, Whole(r, n))
<1>2. Whole(r, n) \in Payloads /\ Whole(r, n).by = r /\ Whole(r, n).total \in UpstreamTotals(r)
  BY AmountsReported
<1>3. IsStore(results) /\ phase[r] = "streaming" /\ RestartWith(s, {r})
  BY <1>1 DEF IInv, CrashBeforeSettle
<1>4. /\ IsStore(s) /\ SameBut(results, s, k)
      /\ Holding(results, r) => /\ s[k].state = "succeeded" /\ s[k].payload = Whole(r, n)
                                /\ s[k].fingerprint = fingerprint(r) /\ ~s[k].acked
      /\ ~Holding(results, r) => s = results
  BY <1>2, <1>3, CompletedRows
<1> HIDE DEF s
<1>5. CASE Holding(results, r)
  <2>1. k \in DOMAIN s
    BY <1>4, <1>5 DEF SameBut, Holding
  <2> QED BY <1>2, <1>3, <1>4, <1>5, <2>1, RestartCalm DEF SameBut
<1>6. CASE ~Holding(results, r)
  BY <1>3, <1>4, <1>6, RestartCalm
<1> QED BY <1>5, <1>6

\* A stored answer is on the ledger already: replaying it settles its row, if
\* that was left open, and reserves nothing.
LEMMA ReplaySettles ==
    ASSUME IInv, NEW r \in Requests, Replay(r)
    PROVE  LET k == ResultKey(r)
               u == UsageKey(r)
               payload == results[k].payload
           IN  /\ k \in DOMAIN results /\ results[k].state = "succeeded" /\ KeptRow(k)
               /\ UsageKey(payload.by) = u /\ u \in DOMAIN ledger /\ u \in produced
               /\ fingerprint(payload.by) = fingerprint(r)
               /\ ledger[u].installation = InstallationOf[r]
               /\ ledger' = Ledger!finalize(ledger, OperationOf[r], ledger[u].token, "settled",
                                            Amount(payload.total))
               /\ answer' = [answer EXCEPT ![r] = payload]
               /\ \A j \in DOMAIN results : results'[j] = results[j]
               /\ DOMAIN results' = DOMAIN results /\ IsStore(results')
               /\ straddling' = straddling /\ today' \in Ledger!Ends
<1> DEFINE k == ResultKey(r)
           u == UsageKey(r)
           payload == results[k].payload
<1>1. IsStore(results) /\ Began(r) = "succeeded" /\ results' = Begun(r)
  BY DEF IInv, Replay
<1>2. /\ k \in DOMAIN results /\ results[k].state = "succeeded"
      /\ results[k].fingerprint = fingerprint(r)
      /\ \A j \in DOMAIN results : results'[j] = results[j]
      /\ DOMAIN results' = DOMAIN results /\ IsStore(results')
  BY <1>1, BegunRows
<1>3. KeptRow(k)
  BY <1>2 DEF IInv
<1>4. payload.by \in Requests /\ ResultKey(payload.by) = k
  BY <1>3, AmountsReported DEF KeptRow
<1>5. UsageKey(payload.by) = u /\ InstallationOf[payload.by] = InstallationOf[r]
  BY <1>4, KeysOfRequests
<1>6. u \in DOMAIN ledger /\ u \in produced
  BY <1>3, <1>5 DEF KeptRow, IInv
<1>7. \A checked : Reservation(r, checked) # "reserved"
  BY <1>6 DEF Reservation, Ledger!reserveOutcome, UsageKey
<1>8. /\ ledger' = Ledger!settle(ledger, OperationOf[r], ledger[u].token, Amount(payload.total))
      /\ answer' = [answer EXCEPT ![r] = payload]
      /\ straddling' = straddling /\ today' \in Ledger!Ends
  BY <1>7 DEF Replay
<1> QED BY <1>2, <1>3, <1>5, <1>6, <1>8 DEF KeptRow, Ledger!settle

\* A stored answer is given again, and the charge that a crash cut off is made.
LEMMA ReplayCalm == ASSUME IInv, NEW r \in Requests, Replay(r) PROVE Calm
<1> DEFINE k == ResultKey(r)
           u == UsageKey(r)
           payload == results[k].payload
<1>1. /\ k \in DOMAIN results /\ results[k].state = "succeeded" /\ KeptRow(k)
      /\ u \in DOMAIN ledger /\ u \in produced /\ ledger[u].installation = InstallationOf[r]
      /\ fingerprint(payload.by) = fingerprint(r)
      /\ ledger' = Ledger!finalize(ledger, OperationOf[r], ledger[u].token, "settled",
                                   Amount(payload.total))
      /\ answer' = [answer EXCEPT ![r] = payload]
      /\ \A j \in DOMAIN results : results'[j] = results[j]
      /\ DOMAIN results' = DOMAIN results /\ IsStore(results')
      /\ straddling' = straddling /\ today' \in Ledger!Ends
  BY ReplaySettles
<1>2. /\ phase' = [phase EXCEPT ![r] = "done"] /\ phase[r] = "unsent"
      /\ UNCHANGED <<receipt, calls, produced>>
      /\ today' \in {today, today + 1} /\ today' \in 1..Days
      /\ phase \in [Requests -> Phases] /\ IsLedger(ledger) /\ today \in 1..Days
  BY <1>1 DEF Replay, Left, IInv, Ledger!Ends
<1>3. payload \in Payloads /\ Amount(payload.total) \in Ledger!Amounts
  BY <1>1, AmountsReported DEF KeptRow
<1>4. /\ IsLedger(ledger') /\ DOMAIN ledger' = DOMAIN ledger
      /\ \A j \in DOMAIN ledger :
            /\ ledger'[j].token = ledger[j].token
            /\ ledger'[j].installation = ledger[j].installation
            /\ ledger'[j].fingerprint = ledger[j].fingerprint
            /\ ledger'[j].period = ledger[j].period
            /\ j # u \/ ledger[j].state # "reserved" => ledger'[j] = ledger[j]
      /\ ledger[u].state = "reserved" => ledger'[u].state = "settled"
  <2>1. "settled" \in Ledger!UsageState
    BY DEF Ledger!UsageState
  <2> QED BY <1>1, <1>2, <1>3, <2>1, Finalized
<1>5. IsLedger(ledger)'
  BY <1>2, <1>4, LedgerToday
<1>6. ASSUME NEW j \in DOMAIN ledger PROVE UsageStep(j)
  <2>1. j \in produced => j \in UsageKeys /\ ledger[j].state # "released"
    BY DEF IInv, IsLedger, UsageKeys
  <2> QED BY <1>1, <1>4, <2>1 DEF UsageStep
<1>7. \A j \in ResultKeys : RowStep(j)
  BY <1>1 DEF RowStep, Kept
<1>8. ASSUME NEW q \in Requests, phase'[q] \in InFlight
      PROVE  phase'[q] = phase[q] /\ ledger'[UsageKey(q)].state = ledger[UsageKey(q)].state
  <2>1. q # r /\ phase'[q] = phase[q]
    BY <1>2, <1>8 DEF InFlight
  <2>2. Holds(q)
    BY <1>8, <2>1 DEF IInv
  <2>3. UsageKey(q) # u
    <3> SUFFICES ASSUME UsageKey(q) = u PROVE FALSE
      OBVIOUS
    <3>1. InstallationOf[q] = InstallationOf[r] /\ OperationOf[q] = OperationOf[r]
      BY <1>1, <2>2, KeysOfRequests DEF Holds
    <3>2. ResultKey(q) = k
      BY <3>1, KeysOfRequests
    <3> QED BY <1>1, <2>2, <3>2 DEF Holds
  <2> QED BY <1>4, <2>1, <2>2, <2>3 DEF Holds
<1>9. ASSUME NEW q \in Requests, answer'[q] # answer[q] PROVE OwnAnswer(q)'
  <2>1. q = r /\ answer'[r] = payload
    BY <1>1, <1>9 DEF IInv
  <2> QED BY <1>1, <1>3, <2>1, AmountsReported DEF OwnAnswer, KeptRow
<1>10. /\ phase' \in [Requests -> Phases] /\ IsStore(results)'
       /\ answer' \in [Requests -> Payloads \cup {NoPayload}]
  BY <1>1, <1>2, <1>3 DEF IInv, Phases, IsStore
<1> QED BY <1>1, <1>2, <1>4, <1>5, <1>6, <1>7, <1>8, <1>9, <1>10 DEF Calm

-----------------------------------------------------------------------------
(* The three steps that are not calm.                                      *)

\* A request is admitted only where neither store knows its operation.
LEMMA AdmitRows ==
    ASSUME IInv, NEW r \in Requests, Admit(r)
    PROVE  LET k == ResultKey(r)
               u == UsageKey(r)
           IN  /\ u \notin DOMAIN ledger /\ k \notin DOMAIN results
               /\ IsLedger(ledger') /\ DOMAIN ledger' = DOMAIN ledger \cup {u}
               /\ \A j \in DOMAIN ledger : ledger'[j] = ledger[j]
               /\ ledger'[u].state = "reserved" /\ ledger'[u].installation = InstallationOf[r]
               /\ ledger'[u].fingerprint = fingerprint(r) /\ ledger'[u].period = today
               /\ IsStore(results') /\ DOMAIN results' = DOMAIN results \cup {k}
               /\ \A j \in DOMAIN results : results'[j] = results[j]
               /\ results'[k].state = "reserved" /\ results'[k].token = r
               /\ results'[k].fingerprint = fingerprint(r)
<1> DEFINE k == ResultKey(r)
           u == UsageKey(r)
<1>1. /\ IsLedger(ledger) /\ IsStore(results) /\ today \in 1..Days
      /\ Began(r) = "started" /\ \E checked : Reservation(r, checked) = "reserved"
      /\ results' = Begun(r) /\ ledger' = Ledger!reserve(ledger, today, Input(r))
  BY DEF IInv, Admit
<1>2. u \notin DOMAIN ledger
  BY <1>1 DEF Reservation, Ledger!reserveOutcome, UsageKey
<1>3. /\ IsLedger(ledger') /\ DOMAIN ledger' = DOMAIN ledger \cup {u}
      /\ \A j \in DOMAIN ledger : ledger'[j] = ledger[j]
      /\ ledger'[u].state = "reserved" /\ ledger'[u].installation = InstallationOf[r]
      /\ ledger'[u].fingerprint = fingerprint(r) /\ ledger'[u].period = today
  BY <1>1, <1>2, ReservedRow
<1>4. /\ IsStore(results')
      /\ \A j \in DOMAIN results \ {k} : j \in DOMAIN results' /\ results'[j] = results[j]
      /\ \A j \in DOMAIN results' : j = k \/ j \in DOMAIN results
      /\ k \in DOMAIN results' /\ results'[k].state = "reserved" /\ results'[k].token = r
      /\ results'[k].fingerprint = fingerprint(r)
      /\ k \in DOMAIN results => results[k].state = "succeeded"
  BY <1>1, BegunRows
<1>5. k \notin DOMAIN results
  <2> SUFFICES ASSUME k \in DOMAIN results, KeptRow(k) PROVE FALSE
    BY <1>4 DEF IInv
  <2>1. UsageKey(results[k].payload.by) = u
    BY AmountsReported, KeysOfRequests DEF KeptRow
  <2> QED BY <1>2, <2>1 DEF KeptRow, IInv
<1> QED BY <1>2, <1>3, <1>4, <1>5

\* An admission opens both rows for one handler.
LEMMA AdmitKeeps == ASSUME IInv, NEW r \in Requests, Admit(r) PROVE IInv'
<1> DEFINE k == ResultKey(r)
           u == UsageKey(r)
<1>1. /\ u \notin DOMAIN ledger /\ k \notin DOMAIN results
      /\ IsLedger(ledger') /\ DOMAIN ledger' = DOMAIN ledger \cup {u}
      /\ \A j \in DOMAIN ledger : ledger'[j] = ledger[j]
      /\ ledger'[u].state = "reserved" /\ ledger'[u].installation = InstallationOf[r]
      /\ ledger'[u].fingerprint = fingerprint(r) /\ ledger'[u].period = today
      /\ IsStore(results') /\ DOMAIN results' = DOMAIN results \cup {k}
      /\ \A j \in DOMAIN results : results'[j] = results[j]
      /\ results'[k].state = "reserved" /\ results'[k].token = r
      /\ results'[k].fingerprint = fingerprint(r)
  BY AdmitRows
<1>2. /\ UNCHANGED <<answer, calls, produced>>
      /\ today' \in {today, today + 1} /\ today' \in 1..Days
      /\ straddling' \subseteq straddling \cup {u}
      /\ phase' = [phase EXCEPT ![r] = "waiting"]
      /\ receipt' = [receipt EXCEPT ![r] = ledger'[u].token]
      /\ u \in UsageKeys /\ k \in ResultKeys
  BY KeysOfRequests DEF Admit, Ledger!Ends, Ledger!Crossing, UsageKey
<1>3. /\ today' \in 1..Days /\ IsLedger(ledger)' /\ IsStore(results)'
      /\ (phase \in [Requests -> Phases])' /\ (receipt \in [Requests -> Nat])'
      /\ (answer \in [Requests -> Payloads \cup {NoPayload}])'
      /\ (calls \in [UsageKeys -> 0..1])'
      /\ (produced \subseteq DOMAIN ledger)' /\ (straddling \subseteq DOMAIN ledger)'
  <2>1. ledger'[u].token \in Nat
    BY <1>1 DEF IsLedger, IsUsage
  <2>2. IsLedger(ledger)' /\ IsStore(results)'
    BY <1>1, <1>2, LedgerToday DEF IInv, IsStore
  <2> QED BY <1>1, <1>2, <2>1, <2>2 DEF IInv, Phases
<1>4. ASSUME NEW j \in DOMAIN results', results'[j].state = "succeeded" PROVE KeptRow(j)'
  <2>1. j \in DOMAIN results /\ KeptRow(j) /\ results'[j] = results[j]
    BY <1>1, <1>4 DEF IInv
  <2> QED BY <1>1, <1>2, <2>1 DEF KeptRow, IInv
<1>5. ASSUME NEW q \in Requests, phase'[q] \in InFlight PROVE Holds(q)'
  <2>1. CASE q = r
    <3>1. \A p \in Requests : phase'[p] \in InFlight /\ UsageKey(p) = u => p = r
      BY <1>1, <1>2 DEF IInv, Holds
    <3>2. phase'[r] = "waiting" /\ receipt'[r] = ledger'[u].token
      BY <1>2 DEF IInv
    <3>3. calls'[u] = 0 /\ u \notin produced'
      BY <1>1, <1>2 DEF IInv
    <3> QED BY <1>1, <2>1, <3>1, <3>2, <3>3 DEF Holds
  <2>2. CASE q # r
    <3>1. Holds(q) /\ phase'[q] = phase[q] /\ receipt'[q] = receipt[q]
      BY <1>2, <1>5, <2>2 DEF IInv
    <3>2. UsageKey(q) # u /\ ResultKey(q) # k
      BY <1>1, <3>1 DEF Holds
    <3>3. \A p \in Requests : phase'[p] \in InFlight /\ UsageKey(p) = UsageKey(q) => p = q
      BY <1>2, <3>1, <3>2 DEF IInv, Holds
    <3> QED BY <1>1, <1>2, <3>1, <3>2, <3>3 DEF Holds
  <2> QED BY <2>1, <2>2
<1>6. ASSUME NEW q \in Requests, answer'[q] # NoPayload PROVE OwnAnswer(q)'
  BY <1>2, <1>6 DEF IInv, OwnAnswer
<1>7. \A j \in UsageKeys : /\ j \notin DOMAIN ledger' => calls'[j] = 0
                           /\ j \in produced' => ledger'[j].state # "released"
  BY <1>1, <1>2 DEF IInv
<1> QED BY <1>3, <1>4, <1>5, <1>6, <1>7 DEF IInv

\* The provider is called by the request that was admitted, once; and begins
\* to answer while its reservation is open.
LEMMA CallKeeps ==
    ASSUME IInv, NEW r \in Requests, CallUpstream(r) \/ UpstreamStreams(r)
    PROVE  IInv'
<1> DEFINE u == UsageKey(r)
<1>1. /\ UNCHANGED <<ledger, today, straddling, results, receipt, answer>>
      /\ phase[r] \in InFlight /\ phase[r] # "streaming"
  BY DEF CallUpstream, UpstreamStreams, InFlight
<1>2. /\ phase' \in [Requests -> Phases] /\ phase'[r] \in InFlight \ {"waiting"}
      /\ \A q \in Requests : q # r => phase'[q] = phase[q]
      /\ (phase'[r] = "streaming") <=> (u \in produced')
  <2>1. u \notin produced
    BY <1>1 DEF IInv, Holds
  <2>2. CASE CallUpstream(r)
    BY <2>1, <2>2 DEF CallUpstream, IInv, InFlight, Phases
  <2>3. CASE UpstreamStreams(r)
    BY <2>1, <2>3 DEF UpstreamStreams, IInv, InFlight, Phases
  <2> QED BY <2>2, <2>3
<1>3. Holds(r) /\ u \in UsageKeys
  BY <1>1, KeysOfRequests DEF IInv
<1>4. /\ calls' \in [UsageKeys -> 0..1]
      /\ \A j \in UsageKeys : j # u => calls'[j] = calls[j]
      /\ produced \subseteq produced' /\ \A j \in produced' : j # u => j \in produced
  <2>1. CASE CallUpstream(r)
    BY <1>3, <2>1 DEF CallUpstream, IInv, Holds
  <2>2. CASE UpstreamStreams(r)
    BY <2>2 DEF UpstreamStreams, IInv
  <2> QED BY <2>1, <2>2
<1>5. IsLedger(ledger)' /\ IsStore(results)'
  BY <1>1, LedgerToday DEF IInv
<1>6. ASSUME NEW j \in DOMAIN results', results'[j].state = "succeeded" PROVE KeptRow(j)'
  BY <1>1, <1>4, <1>6 DEF IInv, KeptRow
<1>7. ASSUME NEW q \in Requests, phase'[q] \in InFlight PROVE Holds(q)'
  <2>1. Holds(q)
    BY <1>1, <1>2, <1>7 DEF IInv
  <2>2. UsageKey(q) = u => q = r
    BY <1>1, <1>2, <1>3, <1>7 DEF Holds
  <2>3. \A p \in Requests : phase'[p] \in InFlight /\ UsageKey(p) = UsageKey(q) => p = q
    BY <1>1, <1>2, <2>1 DEF Holds
  <2>4. q # r => /\ phase'[q] = "waiting" => calls'[UsageKey(q)] = 0
                 /\ (phase'[q] = "streaming") <=> (UsageKey(q) \in produced')
    BY <1>2, <1>4, <2>1, <2>2, KeysOfRequests DEF Holds
  <2> QED BY <1>1, <1>2, <2>1, <2>3, <2>4 DEF Holds
<1>8. ASSUME NEW q \in Requests, answer'[q] # NoPayload PROVE OwnAnswer(q)'
  BY <1>1, <1>8 DEF IInv, OwnAnswer
<1>9. /\ produced' \subseteq DOMAIN ledger' /\ straddling' \subseteq DOMAIN ledger'
      /\ \A j \in UsageKeys : /\ j \notin DOMAIN ledger' => calls'[j] = 0
                              /\ j \in produced' => ledger'[j].state # "released"
  BY <1>1, <1>3, <1>4 DEF IInv, Holds
<1> QED BY <1>1, <1>2, <1>4, <1>5, <1>6, <1>7, <1>8, <1>9 DEF IInv

-----------------------------------------------------------------------------
(* Every step, and the properties.                                         *)

\* The steps that are neither an admission nor a call of the provider.
LEMMA CalmSteps ==
    ASSUME IInv, Next,
           \A r \in Requests : ~Admit(r) /\ ~CallUpstream(r) /\ ~UpstreamStreams(r)
    PROVE  Calm
<1>1. ASSUME NEW r \in Requests, RefuseAtBegin(r) PROVE Calm
  BY <1>1, RefuseAtBeginCalm
<1>2. ASSUME NEW r \in Requests, RefuseReservation(r) PROVE Calm
  BY <1>2, RefuseReservationCalm
<1>3. ASSUME NEW r \in Requests, Replay(r) PROVE Calm
  BY <1>3, ReplayCalm
<1>4. ASSUME NEW r \in Requests, QueueRefuses(r) \/ AbandonedInQueue(r) PROVE Calm
  BY <1>4, FailCalm DEF QueueRefuses, AbandonedInQueue
<1>5. ASSUME NEW r \in Requests, UpstreamRefuses(r) \/ UpstreamFails(r) PROVE Calm
  BY <1>5, FailCalm DEF UpstreamRefuses, UpstreamFails
<1>6. ASSUME NEW r \in Requests, StreamDone(r) PROVE Calm
  <2>1. PICK n \in UpstreamTotals(r) : Finish(r, Whole(r, n), TRUE)
    BY <1>6 DEF StreamDone
  <2>2. Whole(r, n) \in Payloads /\ Whole(r, n).by = r /\ Whole(r, n).total \in UpstreamTotals(r)
    BY AmountsReported
  <2> QED BY <1>6, <2>1, <2>2, FinishCalm DEF StreamDone
<1>7. ASSUME NEW r \in Requests, StreamBreaks(r) PROVE Calm
  BY <1>7, MarkUnknownCalm DEF StreamBreaks, InFlight
<1>8. ASSUME NEW r \in Requests, ClientCancels(r) PROVE Calm
  <2>1. phase[r] = "streaming" /\ phase[r] \in InFlight
    BY <1>8 DEF ClientCancels, InFlight
  <2>2. Partial(r) \in Payloads /\ Partial(r).by = r /\ Partial(r).total \in UpstreamTotals(r)
    BY AmountsReported
  <2>3. CASE Finish(r, Partial(r), FALSE)
    BY <2>1, <2>2, <2>3, FinishCalm
  <2>4. CASE /\ \E ledgerUp \in LedgerUp, storeUp \in StoreUp : MarkUnknown(r, ledgerUp, storeUp)
             /\ Over(r)
    BY <2>1, <2>4, MarkUnknownCalm
  <2> QED BY <1>8, <2>3, <2>4 DEF ClientCancels
<1>9. ASSUME NEW r \in Requests, Acknowledge(r) PROVE Calm
  BY <1>9, AcknowledgeCalm
<1>10. ASSUME NEW r \in Requests, CrashBeforeReserve(r) \/ CrashBeforeSettle(r) PROVE Calm
  BY <1>10, CrashBeforeReserveCalm, CrashBeforeSettleCalm
<1>11. ASSUME NEW k, Expire(k) PROVE Calm
  BY <1>11, ExpireCalm
<1> QED BY <1>1, <1>2, <1>3, <1>4, <1>5, <1>6, <1>7, <1>8, <1>9, <1>10, <1>11,
           NextDayCalm, CrashCalm DEF Next

\* The invariant holds when the service starts.
LEMMA IInvInit == Init => IInv
<1> SUFFICES ASSUME Init PROVE IInv
  OBVIOUS
<1>1. today \in 1..Days
  BY RouteAssumption DEF Init, RouteConfig
<1>2. IsLedger(ledger)
  BY FS_EmptySet DEF Init, IsLedger
<1>3. IsStore(results)
  BY DEF Init, IsStore
<1> QED BY <1>1, <1>2, <1>3 DEF Init, IInv, Phases, InFlight

\* Every step preserves it.
LEMMA IInvNext == IInv /\ [Next]_vars => IInv'
<1> SUFFICES ASSUME IInv, [Next]_vars PROVE IInv'
  OBVIOUS
<1>1. ASSUME NEW r \in Requests, Admit(r) PROVE IInv'
  BY <1>1, AdmitKeeps
<1>2. ASSUME NEW r \in Requests, CallUpstream(r) \/ UpstreamStreams(r) PROVE IInv'
  BY <1>2, CallKeeps
<1>3. CASE UNCHANGED vars
  BY <1>3 DEF vars, IInv, IsLedger, IsUsage, IsStore, KeptRow, Holds, OwnAnswer
<1> QED BY <1>1, <1>2, <1>3, CalmSteps, CalmKeeps

\* A handler in flight holds an open reservation of its own, nobody else's; a stored
\* answer is on the ledger: the inductive invariant of the route.
THEOREM Invariance == Spec => []IInv
BY IInvInit, IInvNext, PTL DEF Spec

\* The type invariant is part of it.
LEMMA IInvTypes == IInv => TypeOK
<1> SUFFICES ASSUME IInv PROVE TypeOK
  OBVIOUS
<1>1. DOMAIN ledger \subseteq UsageKeys
  BY DEF IInv, IsLedger, UsageKeys
<1>2. DOMAIN results \subseteq {ResultKey(r) : r \in Requests}
  BY DEF IInv, IsStore, IsResult
<1>3. \A k \in DOMAIN results : results[k].state = "succeeded" => results[k].payload \in Payloads
  BY DEF IInv, KeptRow
<1>4. calls \in [UsageKeys -> Nat]
  BY DEF IInv
<1> QED BY <1>1, <1>2, <1>3, <1>4 DEF IInv, TypeOK

\* The tables and the handlers of the route keep their shapes (app.ts).
THEOREM TypeCorrect == Spec => []TypeOK
BY Invariance, IInvTypes, PTL

\* However a client retries, from whatever installation and with whatever body, the
\* provider gets one call per operation at most (app.ts, reserve before the call).
THEOREM CalledOnce == Spec => []AtMostOneUpstreamCall
<1>1. IInv => AtMostOneUpstreamCall
  BY DEF IInv, AtMostOneUpstreamCall
<1> QED BY <1>1, Invariance, PTL

\* A client gets an answer to its own operation and body only, and only one that
\* was not given for free (app.ts, replay of a stored result).
THEOREM PaidAndOwn == Spec => []AnswersPaidAndOwn
<1>1. IInv => NoFreeAnswer
  BY IInvTypes DEF IInv, NoFreeAnswer, TypeOK
<1>2. ASSUME IInv, NEW r \in Requests, answer[r] # NoPayload
      PROVE  /\ PrincipalOf[answer[r].by] = PrincipalOf[r]
             /\ InstallationOf[answer[r].by] = InstallationOf[r]
             /\ OperationOf[answer[r].by] = OperationOf[r]
             /\ BodyOf[answer[r].by] = BodyOf[r]
  <2>1. OwnAnswer(r)
    BY <1>2 DEF IInv
  <2> QED BY <2>1, KeysOfRequests DEF OwnAnswer, fingerprint
<1>3. IInv => AnswersAreOwn
  BY <1>2, IInvTypes DEF AnswersAreOwn
<1> QED BY <1>1, <1>3, Invariance, PTL DEF AnswersPaidAndOwn

-----------------------------------------------------------------------------
(* Charges.                                                                *)

ChargeStored(u) ==
    \E j \in DOMAIN results' :
       /\ j.operation = u.operation
       /\ j.installation = ledger'[u].installation
       /\ results'[j].state = "succeeded"
       /\ ledger'[u].actual = Amount(results'[j].payload.total)

NewlySettled(u) ==
    /\ u \in DOMAIN ledger' /\ ledger'[u].state = "settled"
    /\ u \in DOMAIN ledger => ledger[u].state # "settled"

\* What is charged anew by a step that finalizes one row with some state.
LEMMA SettledByToken ==
    ASSUME IsLedger(ledger), NEW r \in Requests, UsageKey(r) \in DOMAIN ledger,
           NEW state \in Ledger!UsageState, NEW actual \in Ledger!Amounts,
           ledger' = Ledger!finalize(ledger, OperationOf[r], ledger[UsageKey(r)].token, state, actual),
           NEW u, NewlySettled(u)
    PROVE  /\ u = UsageKey(r) /\ state = "settled" /\ ledger'[u].actual = actual
           /\ ledger'[u].installation = ledger[u].installation
<1>1. /\ DOMAIN ledger' = DOMAIN ledger
      /\ \A k \in DOMAIN ledger :
            /\ ledger'[k].installation = ledger[k].installation
            /\ k # UsageKey(r) \/ ledger[k].state # "reserved" => ledger'[k] = ledger[k]
      /\ ledger[UsageKey(r)].state = "reserved" =>
            ledger'[UsageKey(r)].state = state /\ ledger'[UsageKey(r)].actual = actual
  BY Finalized
<1> QED BY <1>1 DEF NewlySettled

\* A failure charges nothing anew.
LEMMA FailureIsNoCharge ==
    ASSUME IInv, NEW r \in Requests, phase[r] \in InFlight,
           ledger' \in {ledger, ledgerReleased(r), ledgerUnknown(r)}, NEW u
    PROVE  ~NewlySettled(u)
<1>1. /\ IsLedger(ledger) /\ UsageKey(r) \in DOMAIN ledger
      /\ receipt[r] = ledger[UsageKey(r)].token
      /\ {"released", "outcome_unknown"} \subseteq Ledger!UsageState
      /\ Ledger!Zero \in Ledger!Amounts
  BY DEF IInv, Holds, Ledger!UsageState, Ledger!Zero, Ledger!Amounts
<1>2. CASE ledger' = ledger
  BY <1>2 DEF NewlySettled
<1>3. CASE ledger' = ledgerReleased(r)
  <2>1. ledger' = Ledger!finalize(ledger, OperationOf[r], ledger[UsageKey(r)].token,
                                  "released", Ledger!Zero)
    BY <1>1, <1>3 DEF ledgerReleased, Ledger!release
  <2> QED BY <1>1, <2>1, SettledByToken
<1>4. CASE ledger' = ledgerUnknown(r)
  <2> DEFINE amount == Ledger!ReservedOf(ledger, OperationOf[r], receipt[r])
  <2>1. amount \in Ledger!Amounts
    BY <1>1, ReservedAmount
  <2>2. ledger' = Ledger!finalize(ledger, OperationOf[r], ledger[UsageKey(r)].token,
                                  "outcome_unknown", amount)
    BY <1>1, <1>4 DEF ledgerUnknown, Ledger!markOutcomeUnknown
  <2> HIDE DEF amount
  <2> QED BY <1>1, <2>1, <2>2, SettledByToken
<1> QED BY <1>2, <1>3, <1>4

\* A finished stream charges what it stores.
LEMMA FinishCharges ==
    ASSUME IInv, NEW r \in Requests, phase[r] = "streaming", NEW payload \in Payloads,
           NEW delivered, Finish(r, payload, delivered), NEW u, NewlySettled(u)
    PROVE  ChargeStored(u)
<1> DEFINE k == ResultKey(r)
<1>1. Holds(r) /\ IsStore(results) /\ IsLedger(ledger) /\ phase[r] \in InFlight
  BY DEF IInv, InFlight
<1>2. PICK ledgerUp \in LedgerUp, storeUp \in StoreUp :
          IF storeUp /\ Store!Completes(results, Binding(r), r, payload)
          THEN /\ results' = Store!complete(results, Binding(r), r, payload)
               /\ ledger' = IF ledgerUp
                            THEN Ledger!settle(ledger, OperationOf[r], receipt[r],
                                               Amount(payload.total))
                            ELSE ledger
               /\ answer' = [answer EXCEPT ![r] =
                                IF ledgerUp /\ delivered THEN payload ELSE @]
          ELSE MarkUnknown(r, ledgerUp, storeUp)
  BY DEF Finish
<1>3. ~MarkUnknown(r, ledgerUp, storeUp)
  BY <1>1, FailureIsNoCharge DEF MarkUnknown
<1>4. /\ Store!Completes(results, Binding(r), r, payload)
      /\ results' = Store!complete(results, Binding(r), r, payload)
      /\ ledger' = Ledger!settle(ledger, OperationOf[r], receipt[r], Amount(payload.total))
  BY <1>1, <1>2, <1>3, FailureIsNoCharge
<1>5. Holding(results, r)
  BY <1>1, <1>4, HeldIsOwn DEF Store!Completes, Holds, ResultKey
<1>6. /\ k \in DOMAIN results' /\ results'[k].state = "succeeded"
      /\ results'[k].payload = payload
  BY <1>1, <1>4, <1>5, CompletedRows DEF SameBut, Holding
<1>7. /\ u = UsageKey(r) /\ ledger'[u].actual = Amount(payload.total)
      /\ ledger'[u].installation = ledger[u].installation
  <2>1. Amount(payload.total) \in Ledger!Amounts /\ "settled" \in Ledger!UsageState
    BY AmountsReported DEF Ledger!UsageState
  <2> QED BY <1>1, <1>4, <2>1, SettledByToken DEF Holds, Ledger!settle
<1> QED BY <1>1, <1>6, <1>7, KeysOfRequests DEF ChargeStored, Holds

\* A replay charges what was stored.
LEMMA ReplayCharges ==
    ASSUME IInv, NEW r \in Requests, Replay(r), NEW u, NewlySettled(u)
    PROVE  ChargeStored(u)
<1> DEFINE k == ResultKey(r)
           payload == results[k].payload
<1>1. /\ k \in DOMAIN results /\ results[k].state = "succeeded" /\ KeptRow(k)
      /\ UsageKey(r) \in DOMAIN ledger /\ ledger[UsageKey(r)].installation = InstallationOf[r]
      /\ ledger' = Ledger!finalize(ledger, OperationOf[r], ledger[UsageKey(r)].token, "settled",
                                   Amount(payload.total))
      /\ \A j \in DOMAIN results : results'[j] = results[j]
      /\ DOMAIN results' = DOMAIN results
  BY ReplaySettles
<1>2. Amount(payload.total) \in Ledger!Amounts /\ "settled" \in Ledger!UsageState
      /\ IsLedger(ledger)
  BY <1>1, AmountsReported DEF Ledger!UsageState, KeptRow, IInv
<1>3. /\ u = UsageKey(r) /\ ledger'[u].actual = Amount(payload.total)
      /\ ledger'[u].installation = ledger[u].installation
  BY <1>1, <1>2, SettledByToken
<1> QED BY <1>1, <1>3, KeysOfRequests DEF ChargeStored

\* Every step that charges, charges the amount of a stored answer.
LEMMA SettledAsStoredStep ==
    ASSUME IInv, Next, NEW u, NewlySettled(u)
    PROVE  ChargeStored(u)
<1>1. ledger' # ledger
  BY DEF NewlySettled
<1>2. ASSUME NEW r \in Requests, Replay(r) PROVE ChargeStored(u)
  BY <1>2, ReplayCharges
<1>3. ASSUME NEW r \in Requests, Admit(r) PROVE FALSE
  <2>1. /\ DOMAIN ledger' = DOMAIN ledger \cup {UsageKey(r)}
        /\ \A j \in DOMAIN ledger : ledger'[j] = ledger[j]
        /\ ledger'[UsageKey(r)].state = "reserved"
    BY <1>3, AdmitRows
  <2> QED BY <2>1 DEF NewlySettled
<1>4. ASSUME NEW r \in Requests, NEW paid \in BOOLEAN, Fail(r, paid),
             phase[r] \in {"waiting", "calling"}
      PROVE  FALSE
  BY <1>4, FailureIsNoCharge DEF Fail, InFlight
<1>5. ASSUME NEW r \in Requests, phase[r] = "streaming", NEW up1, NEW up2, MarkUnknown(r, up1, up2)
      PROVE  FALSE
  BY <1>5, FailureIsNoCharge DEF MarkUnknown, InFlight
<1>6. ASSUME NEW r \in Requests, StreamDone(r) PROVE ChargeStored(u)
  BY <1>6, FinishCharges, AmountsReported DEF StreamDone
<1>7. ASSUME NEW r \in Requests, ClientCancels(r) PROVE ChargeStored(u)
  BY <1>5, <1>7, FinishCharges, AmountsReported DEF ClientCancels
<1>8. ASSUME NEW r \in Requests,
             \/ RefuseAtBegin(r) \/ RefuseReservation(r) \/ CallUpstream(r) \/ UpstreamStreams(r)
             \/ Acknowledge(r) \/ CrashBeforeReserve(r) \/ CrashBeforeSettle(r)
      PROVE  FALSE
  BY <1>1, <1>8 DEF RefuseAtBegin, RefuseReservation, CallUpstream, UpstreamStreams,
                    Acknowledge, CrashBeforeReserve, CrashBeforeSettle, RestartWith
<1>9. (\A k : ~Expire(k)) /\ ~NextDay /\ ~Crash
  BY <1>1 DEF Expire, NextDay, Crash, RestartWith
<1> QED BY <1>2, <1>3, <1>4, <1>5, <1>6, <1>7, <1>8, <1>9
           DEF Next, QueueRefuses, AbandonedInQueue, UpstreamRefuses, UpstreamFails, StreamBreaks

\* A row is settled with the amount of an answer that is in the results by then
\* (app.ts, complete before settle; a replay settles what a crash left open).
THEOREM ChargesAreStored == Spec => SettledAsStored
<1> DEFINE A == \A k \in DOMAIN ledger' :
          /\ ledger'[k].state = "settled"
          /\ k \in DOMAIN ledger => ledger[k].state # "settled"
          => \E j \in DOMAIN results' :
                /\ j.operation = k.operation
                /\ j.installation = ledger'[k].installation
                /\ results'[j].state = "succeeded"
                /\ ledger'[k].actual = Amount(results'[j].payload.total)
<1>1. IInv /\ Next => A
  BY SettledAsStoredStep DEF NewlySettled, ChargeStored
<1>2. IInv /\ [Next]_vars => [A]_vars
  BY <1>1
<1> QED BY <1>2, Invariance, PTL DEF Spec, SettledAsStored

-----------------------------------------------------------------------------
(* The route implements ReplayableOperation.                               *)

\* The status of one operation, as "status" maps it.
StatusAt(k) ==
    IF k \in DOMAIN results
    THEN IF \/ results[k].state = "outcome_unknown"
            \/ results[k].state = "reserved" /\ phase[results[k].token] \notin InFlight
         THEN "unknown"
         ELSE IF results[k].state = "reserved" THEN "running"
         ELSE IF results[k].acked THEN "acknowledged" ELSE "stored"
    ELSE IF Charged(k) = {} THEN "fresh"
    ELSE IF \A j \in Charged(k) : ledger[j].state = "released" THEN "refused"
    ELSE "forgotten"

MayMove(k) == \/ StatusAt(k)' = StatusAt(k)
              \/ <<StatusAt(k), StatusAt(k)'>> \in Abstract!Moves

\* An operation is charged in one row of the ledger at most.
LEMMA ChargedRow ==
    ASSUME IInv, NEW r \in Requests
    PROVE  /\ Charged(ResultKey(r)) \subseteq {UsageKey(r)}
           /\ UsageKey(r) \in DOMAIN ledger /\ ledger[UsageKey(r)].installation = InstallationOf[r]
                 => Charged(ResultKey(r)) = {UsageKey(r)}
<1> DEFINE k == ResultKey(r)
<1>1. k.operation = OperationOf[r] /\ k.installation = InstallationOf[r]
      /\ UsageKey(r).operation = OperationOf[r]
  BY KeysOfRequests
<1>2. ASSUME NEW j \in Charged(k) PROVE j = UsageKey(r)
  <2>1. PICK q \in Requests : j = UsageKey(q) /\ ledger[j].installation = InstallationOf[q]
    BY DEF IInv, IsLedger, Charged
  <2>2. InstallationOf[q] = InstallationOf[r] /\ OperationOf[q] = OperationOf[r]
    BY <1>1, <2>1, KeysOfRequests DEF Charged
  <2> QED BY <2>1, <2>2, KeysOfRequests
<1>3. UsageKey(r) \in DOMAIN ledger /\ ledger[UsageKey(r)].installation = InstallationOf[r]
         => UsageKey(r) \in Charged(k)
  BY <1>1 DEF Charged
<1> QED BY <1>2, <1>3

\* A calm step moves an operation as ReplayableOperation allows.
LEMMA CalmMoves ==
    ASSUME IInv, IInv', Calm, NEW k \in ResultKeys
    PROVE  MayMove(k)
<1>1. PICK r \in Requests : k = ResultKey(r)
  BY DEF ResultKeys
<1>2. Charged(k)' = Charged(k)
  BY DEF Calm, UsageStep, Charged
<1>3. CASE k \notin DOMAIN results /\ k \notin DOMAIN results'
  <2>1. ASSUME NEW j \in Charged(k) PROVE ledger'[j].state = ledger[j].state
    <3>1. j \in DOMAIN ledger /\ UsageStep(j) /\ j.operation = k.operation
          /\ ledger[j].installation = k.installation
      BY DEF Calm, Charged
    <3> SUFFICES ASSUME NEW q \in Requests, j = UsageKey(q),
                        ledger[j].installation = InstallationOf[q], ResultKey(q) \in DOMAIN results
                 PROVE  FALSE
      BY <3>1 DEF UsageStep
    <3>2. OperationOf[q] = OperationOf[r] /\ InstallationOf[q] = InstallationOf[r]
      BY <1>1, <3>1, KeysOfRequests
    <3>3. ResultKey(q) = k
      BY <1>1, <3>2, KeysOfRequests
    <3> QED BY <1>3, <3>3
  <2> QED BY <1>2, <1>3, <2>1 DEF MayMove, StatusAt
<1>4. CASE Kept(k)
  <2>1. results[k].token \in Requests
    BY <1>4 DEF Kept, IInv, IsStore, IsResult
  <2>2. phase'[results[k].token] \in InFlight => phase[results[k].token] \in InFlight
    BY <2>1 DEF Calm
  <2> QED BY <1>4, <2>2 DEF Kept, MayMove, StatusAt, Abstract!Moves
<1>5. CASE Fenced(k)
  BY <1>5 DEF Fenced, MayMove, StatusAt, Abstract!Moves
<1>6. CASE Confirmed(k)
  BY <1>6 DEF Confirmed, MayMove, StatusAt, Abstract!Moves
<1>7. CASE Forgotten(k)
  <2> DEFINE q == results[k].payload.by
  <2>1. KeptRow(k)
    BY <1>7 DEF Forgotten, IInv
  <2>2. q \in Requests /\ k = ResultKey(q)
    BY <2>1, AmountsReported DEF KeptRow
  <2>3. /\ UsageKey(q) \in produced' /\ UsageKey(q) \in DOMAIN ledger'
        /\ ledger'[UsageKey(q)].installation = InstallationOf[q]
        /\ ledger'[UsageKey(q)].state # "released"
    BY <2>1, <2>2, KeysOfRequests DEF KeptRow, IInv, Calm, UsageStep
  <2> HIDE DEF q
  <2>4. UsageKey(q) \in Charged(k)'
    BY <2>2, <2>3, KeysOfRequests DEF Charged
  <2>5. StatusAt(k)' = "forgotten"
    BY <1>7, <2>3, <2>4 DEF Forgotten, StatusAt
  <2>6. StatusAt(k) \in {"stored", "acknowledged"}
    BY <1>7 DEF Forgotten, StatusAt
  <2> QED BY <2>5, <2>6 DEF MayMove, Abstract!Moves
<1>8. CASE Stranded(k)
  <2>1. StatusAt(k)' = "unknown"
    BY <1>8 DEF Stranded, StatusAt
  <2>2. StatusAt(k) \in {"fresh", "refused", "forgotten", "acknowledged"}
    BY <1>8 DEF Stranded, StatusAt
  <2> QED BY <2>1, <2>2 DEF MayMove, Abstract!Moves
<1>9. CASE Stored(k)
  <2>1. StatusAt(k)' = "stored"
    BY <1>9 DEF Stored, StatusAt
  <2>2. StatusAt(k) = "running"
    BY <1>9 DEF Stored, Holding, StatusAt
  <2> QED BY <2>1, <2>2 DEF MayMove, Abstract!Moves
<1>10. CASE Refused(k)
  <2>1. PICK q \in Requests : /\ phase[q] \in InFlight /\ k = ResultKey(q) /\ Holding(results, q)
                              /\ k \notin DOMAIN results'
                              /\ ledger'[UsageKey(q)].state = "released"
    BY <1>10 DEF Refused
  <2>2. StatusAt(k) = "running"
    BY <2>1 DEF Holding, StatusAt
  <2>3. Charged(k) = {UsageKey(q)}
    BY <2>1, ChargedRow DEF IInv, Holds
  <2>4. StatusAt(k)' = "refused"
    BY <1>2, <2>1, <2>3 DEF StatusAt
  <2> QED BY <2>2, <2>4 DEF MayMove, Abstract!Moves
<1> QED BY <1>3, <1>4, <1>5, <1>6, <1>7, <1>8, <1>9, <1>10 DEF Calm, RowStep

\* Only a fresh operation is admitted.
LEMMA AdmitMoves ==
    ASSUME IInv, NEW r \in Requests, Admit(r), NEW k \in ResultKeys
    PROVE  MayMove(k)
<1> DEFINE kr == ResultKey(r)
           u == UsageKey(r)
<1>1. /\ u \notin DOMAIN ledger /\ kr \notin DOMAIN results
      /\ DOMAIN ledger' = DOMAIN ledger \cup {u}
      /\ \A j \in DOMAIN ledger : ledger'[j] = ledger[j]
      /\ ledger'[u].installation = InstallationOf[r]
      /\ DOMAIN results' = DOMAIN results \cup {kr}
      /\ \A j \in DOMAIN results : results'[j] = results[j]
      /\ results'[kr].state = "reserved" /\ results'[kr].token = r
  BY AdmitRows
<1>2. phase' = [phase EXCEPT ![r] = "waiting"] /\ phase \in [Requests -> Phases]
  BY DEF Admit, IInv
<1>3. CASE k = kr
  <2>1. Charged(k) = {}
    BY <1>1, <1>3, ChargedRow DEF Charged
  <2>2. StatusAt(k) = "fresh"
    BY <1>1, <1>3, <2>1 DEF StatusAt
  <2>3. StatusAt(k)' = "running"
    BY <1>1, <1>2, <1>3 DEF StatusAt, InFlight
  <2> QED BY <2>2, <2>3 DEF MayMove, Abstract!Moves
<1>4. CASE k # kr
  <2>1. ~(k.operation = u.operation /\ k.installation = InstallationOf[r])
    BY <1>4, KeysOfRequests DEF ResultKeys
  <2>2. Charged(k)' = Charged(k)
    BY <1>1, <2>1 DEF Charged
  <2>3. \A j \in Charged(k) : ledger'[j] = ledger[j]
    BY <1>1 DEF Charged
  <2>4. ASSUME k \in DOMAIN results PROVE StatusAt(k)' = StatusAt(k)
    <3>1. k = ResultKey(results[k].token) /\ results[k].token \in Requests
      BY <2>4 DEF IInv, IsStore, IsResult
    <3>2. phase'[results[k].token] = phase[results[k].token]
      BY <1>2, <1>4, <3>1
    <3> QED BY <1>1, <2>4, <3>2 DEF StatusAt
  <2>5. ASSUME k \notin DOMAIN results PROVE StatusAt(k)' = StatusAt(k)
    BY <1>1, <1>4, <2>2, <2>3, <2>5 DEF StatusAt
  <2> QED BY <2>4, <2>5 DEF MayMove
<1> QED BY <1>3, <1>4

\* The call of the provider is inside of "running".
LEMMA CallMoves ==
    ASSUME IInv, NEW r \in Requests, CallUpstream(r) \/ UpstreamStreams(r), NEW k \in ResultKeys
    PROVE  StatusAt(k)' = StatusAt(k)
<1>1. UNCHANGED <<ledger, results>>
  BY DEF CallUpstream, UpstreamStreams
<1>2. \A q \in Requests : phase'[q] \in InFlight <=> phase[q] \in InFlight
  BY DEF CallUpstream, UpstreamStreams, IInv, InFlight
<1>3. k \in DOMAIN results => results[k].token \in Requests
  BY DEF IInv, IsStore, IsResult
<1> QED BY <1>1, <1>2, <1>3 DEF StatusAt, Charged

\* Every step moves every operation as ReplayableOperation allows.
LEMMA StatusSteps ==
    ASSUME IInv, [Next]_vars, NEW k \in ResultKeys
    PROVE  MayMove(k)
<1>1. CASE UNCHANGED vars
  BY <1>1 DEF vars, MayMove, StatusAt, Charged
<1>2. IInv'
  BY IInvNext
<1> QED BY <1>1, <1>2, CalmSteps, CalmMoves, AdmitMoves, CallMoves DEF MayMove

StatusWhole ==
    /\ status = [k \in ResultKeys |-> StatusAt(k)]
    /\ \A k \in ResultKeys : StatusAt(k) \in Abstract!Statuses

\* The refinement mapping, written with one state function per operation.
LEMMA StatusDomain == StatusWhole
<1>1. status = [k \in ResultKeys |-> StatusAt(k)]
  BY DEF status, StatusAt, ResultKeys
<1>2. {"fresh", "running", "refused", "stored", "unknown", "acknowledged", "forgotten"}
         \subseteq Abstract!Statuses
  BY DEF Abstract!Statuses, Abstract!Moves
<1> QED BY <1>1, <1>2 DEF StatusAt, StatusWhole

\* The route implements ReplayableOperation: an operation is run once, its answer
\* stored or its outcome unknown for good, and forgotten only once acknowledged.
THEOREM RouteImplementsOperation == Spec => ImplementsReplayableOperation
<1>1. Init => Abstract!Init
  <2> SUFFICES ASSUME Init PROVE \A k \in ResultKeys : StatusAt(k) = "fresh"
    BY StatusDomain DEF Abstract!Init, ResultKeys, StatusWhole
  <2> QED BY DEF Init, StatusAt, Charged
<1>2. IInv /\ [Next]_vars => [Abstract!Next]_status
  <2> SUFFICES ASSUME IInv, [Next]_vars PROVE Abstract!Next
    OBVIOUS
  <2>1. /\ status = [k \in ResultKeys |-> StatusAt(k)]
        /\ status' = [k \in ResultKeys |-> StatusAt(k)']
        /\ \A k \in ResultKeys : StatusAt(k)' \in Abstract!Statuses
    <3>1. StatusWhole /\ StatusWhole'
      BY StatusDomain, PTL
    <3> QED BY <3>1 DEF StatusWhole, ResultKeys
  <2>2. status' \in [ResultKeys -> Abstract!Statuses]
    BY <2>1
  <2>3. \A k \in ResultKeys : status'[k] = status[k] \/ <<status[k], status'[k]>> \in Abstract!Moves
    BY <2>1, StatusSteps DEF MayMove
  <2> QED BY <2>2, <2>3 DEF Abstract!Next, ResultKeys
<1> QED BY <1>1, <1>2, Invariance, PTL DEF Spec, ImplementsReplayableOperation, Abstract!Spec

-----------------------------------------------------------------------------
(* The daily quota.                                                        *)

\* What a row counts for, in tokens.
Tokens(l) == [k \in DOMAIN l |-> Ledger!counted(l[k])["total_tokens"]]

\* The rows of a day that count for a principal, and for an installation, but
\* for the rows s that were booked across midnight.
DayRows(l, s, day, principal) == Ledger!RowsOf(l, day, "TextReasoning", principal) \ s
OwnRows(l, s, day, principal, installation) ==
    {k \in DayRows(l, s, day, principal) : l[k].installation = installation}

WithinLimits(l, s) ==
    \A k \in DOMAIN l \ s :
       /\ Total(Tokens(l), DayRows(l, s, l[k].period, k.principal)) <= PrincipalLimit
       /\ Total(Tokens(l), OwnRows(l, s, l[k].period, k.principal, l[k].installation))
             <= InstallationLimit

\* A row booked across midnight is the only one of a day that is over, and
\* allowed by itself.
Straddlers(l, s, day) ==
    /\ s \subseteq DOMAIN l
    /\ \A k \in s :
          /\ l[k].period < day
          /\ \A j \in s : l[j].period = l[k].period => j = k
          /\ Most(l[k].fingerprint) <= PrincipalLimit
          /\ Most(l[k].fingerprint) <= InstallationLimit

WithinQuota == WithinLimits(ledger, straddling) /\ Straddlers(ledger, straddling, today)

\* No stored answer costs more than its body may.
StoredFits ==
    \A k \in DOMAIN results : results[k].state = "succeeded" =>
       results[k].payload.total <= Most(results[k].fingerprint)

Capped == \A r \in Requests : RequestedOutput[BodyOf[r]] > 0

QInv == IInv /\ StoredFits /\ WithinQuota

\* Rows count for natural numbers.
LEMMA CountedTokens ==
    ASSUME NEW l, IsLedger(l), NEW S, S \subseteq DOMAIN l
    PROVE  Weighs(Tokens(l), S)
<1>1. IsFiniteSet(S)
  BY FS_Subset DEF IsLedger
<1>2. ASSUME NEW k \in S PROVE Tokens(l)[k] \in Nat
  <2>1. l[k].reserved \in Ledger!Amounts /\ l[k].actual \in Ledger!Amounts
    BY DEF IsLedger, IsUsage
  <2> QED BY <2>1 DEF Tokens, Ledger!counted, Ledger!Amounts
<1> QED BY <1>1, <1>2 DEF Weighs

\* What the ledger adds up is the sum of what its rows count for.
LEMMA SpentIs ==
    ASSUME NEW l, IsLedger(l), NEW S, S \subseteq DOMAIN l
    PROVE  Ledger!Spent(l, S, "total_tokens") = Total(Tokens(l), S)
<1> DEFINE w == Tokens(l)
           Sums(f) == f = [s \in SUBSET S |-> IF s = {} THEN 0
                              ELSE Ledger!counted(l[Pick(s)])["total_tokens"] + f[s \ {Pick(s)}]]
           g == CHOOSE f : Sums(f)
<1>1. Ledger!Spent(l, S, "total_tokens") = g[S]
  BY DEF Ledger!Spent, Ledger!MapThenSumSet, Ledger!MapThenFoldSet, Pick
<1>2. \A s \in SUBSET S : s # {} => w[Pick(s)] = Ledger!counted(l[Pick(s)])["total_tokens"]
  BY PickIn DEF Tokens
<1>3. \A f : Sums(f) <=> SumsUp(f, w, S)
  BY <1>2 DEF SumsUp
<1>4. Weighs(w, S)
  BY CountedTokens
<1>5. PICK f : SumsUp(f, w, S)
  BY <1>4, SumExists
<1>6. SumsUp(g, w, S)
  BY <1>3, <1>5
<1> HIDE DEF g, w
<1>7. g[S] = Total(w, S)
  BY <1>4, <1>6, TotalIs
<1> QED BY <1>1, <1>7 DEF w

\* A ledger whose rows count for no more than before stays within the limits.
LEMMA LimitsStay ==
    ASSUME NEW l, NEW m, NEW s, IsLedger(l), IsLedger(m), DOMAIN m = DOMAIN l, WithinLimits(l, s),
           \A k \in DOMAIN l :
              /\ m[k].period = l[k].period /\ m[k].installation = l[k].installation
              /\ m[k].capability = l[k].capability
              /\ l[k].state = "released" => m[k].state = "released"
              /\ m[k].state # "released" => Tokens(m)[k] <= Tokens(l)[k]
    PROVE  WithinLimits(m, s)
<1> SUFFICES ASSUME NEW k \in DOMAIN m \ s
             PROVE  /\ Total(Tokens(m), DayRows(m, s, m[k].period, k.principal)) <= PrincipalLimit
                    /\ Total(Tokens(m), OwnRows(m, s, m[k].period, k.principal, m[k].installation))
                          <= InstallationLimit
  BY DEF WithinLimits
<1> DEFINE P == DayRows(l, s, l[k].period, k.principal)
           I == OwnRows(l, s, l[k].period, k.principal, l[k].installation)
           P1 == DayRows(m, s, m[k].period, k.principal)
           I1 == OwnRows(m, s, m[k].period, k.principal, m[k].installation)
<1>1. P1 \subseteq P /\ I1 \subseteq I /\ P \subseteq DOMAIN l /\ I \subseteq DOMAIN l
  BY DEF DayRows, OwnRows, Ledger!RowsOf
<1>2. \A j \in P1 \cup I1 : j \in DOMAIN l /\ m[j].state # "released"
  BY DEF DayRows, OwnRows, Ledger!RowsOf
<1>3. /\ Total(Tokens(l), P) <= PrincipalLimit /\ Total(Tokens(l), I) <= InstallationLimit
  BY DEF WithinLimits
<1> HIDE DEF P, I, P1, I1
<1>4. /\ Weighs(Tokens(l), P) /\ Weighs(Tokens(l), I)
      /\ Weighs(Tokens(m), P1) /\ Weighs(Tokens(m), I1)
  BY <1>1, CountedTokens
<1>5. /\ Total(Tokens(m), P1) <= Total(Tokens(l), P)
      /\ Total(Tokens(m), I1) <= Total(Tokens(l), I)
  BY <1>1, <1>2, <1>4, TotalMonotone
<1>6. /\ Total(Tokens(m), P1) \in Nat /\ Total(Tokens(l), P) \in Nat
      /\ Total(Tokens(m), I1) \in Nat /\ Total(Tokens(l), I) \in Nat
  BY <1>4, TotalIs
<1> QED BY <1>3, <1>5, <1>6, RouteAssumption DEF RouteConfig, P1, I1

\* A calm step charges no row more than it reserved.
LEMMA CalmCosts ==
    ASSUME QInv, IInv', StoredFits', Calm, Next, NEW k \in DOMAIN ledger,
           ledger'[k].state # "released"
    PROVE  Tokens(ledger')[k] <= Tokens(ledger)[k]
<1>1. /\ IsLedger(ledger) /\ IsLedger(ledger') /\ DOMAIN ledger' = DOMAIN ledger /\ UsageStep(k)
      /\ ledger[k].fingerprint = ledger'[k].fingerprint
  BY DEF QInv, IInv, Calm, IsLedger, IsUsage, UsageStep
<1>2. Tokens(ledger)[k] \in Nat
  BY <1>1, CountedTokens DEF Weighs
<1>3. CASE ledger[k].state # "reserved"
  BY <1>1, <1>2, <1>3 DEF UsageStep, Tokens
<1> DEFINE most == Most(ledger[k].fingerprint)
<1>4. /\ ledger[k].reserved = Amount(most) /\ ledger'[k].reserved = Amount(most)
  BY <1>1 DEF IsLedger
<1>5. CASE ledger[k].state = "reserved" /\ ledger'[k].state # "settled"
  <2>1. Ledger!counted(ledger'[k]) = Ledger!counted(ledger[k])
    BY <1>4, <1>5 DEF Ledger!counted
  <2> QED BY <1>1, <1>2, <2>1 DEF Tokens
<1>6. CASE ledger[k].state = "reserved" /\ ledger'[k].state = "settled"
  <2>1. ChargeStored(k)
    BY <1>1, <1>6, SettledAsStoredStep DEF NewlySettled, QInv
  <2>2. PICK j \in DOMAIN results' : /\ j.operation = k.operation
                                     /\ j.installation = ledger'[k].installation
                                     /\ results'[j].state = "succeeded"
                                     /\ ledger'[k].actual = Amount(results'[j].payload.total)
    BY <2>1 DEF ChargeStored
  <2> DEFINE payload == results'[j].payload
             by == payload.by
  <2>3. /\ payload \in Payloads /\ by \in Requests /\ payload.total \in Nat /\ j = ResultKey(by)
        /\ results'[j].fingerprint = fingerprint(by)
        /\ ledger'[UsageKey(by)].fingerprint = fingerprint(by)
    BY <2>2, AmountsReported DEF IInv, KeptRow
  <2>4. PICK q \in Requests : k = UsageKey(q) /\ ledger'[k].installation = InstallationOf[q]
    BY <1>1 DEF IsLedger
  <2>5. ResultKey(q) = j
    BY <2>2, <2>3, <2>4, KeysOfRequests
  <2>6. k = UsageKey(by)
    BY <2>3, <2>4, <2>5, KeysOfRequests
  <2>7. payload.total <= most
    BY <1>1, <2>2, <2>3, <2>6 DEF StoredFits
  <2>8. /\ Tokens(ledger')[k] = payload.total /\ Tokens(ledger)[k] = most
    BY <1>1, <1>4, <1>6, <2>2 DEF Tokens, Ledger!counted, Amount
  <2> QED BY <2>7, <2>8
<1> QED BY <1>3, <1>5, <1>6

\* An answer that is stored was produced under the cap of its body.
LEMMA FitsStays ==
    ASSUME IInv, StoredFits, Capped, Next
    PROVE  StoredFits'
<1>1. ASSUME Calm, NEW k \in DOMAIN results', results'[k].state = "succeeded"
      PROVE  results'[k].payload.total <= Most(results'[k].fingerprint)
  <2>1. k \in ResultKeys
    BY <1>1 DEF Calm, IsStore, IsResult, ResultKeys
  <2>2. Kept(k) \/ Confirmed(k) \/ Stored(k)
    BY <1>1, <2>1 DEF Calm, RowStep, Fenced, Forgotten, Stranded, Refused
  <2>3. CASE Kept(k) \/ Confirmed(k)
    BY <1>1, <2>3 DEF StoredFits, Kept, Confirmed
  <2>4. CASE Stored(k)
    <3>1. PICK r \in Requests : /\ results'[k].fingerprint = fingerprint(r)
                                /\ results'[k].payload.total \in UpstreamTotals(r)
      BY <2>4 DEF Stored
    <3>2. UpstreamTotals(r) = 1..Most(fingerprint(r))
      BY DEF Capped, UpstreamTotals, Most, fingerprint
    <3>3. Most(fingerprint(r)) \in Nat
      BY RouteAssumption DEF RouteConfig, Most, fingerprint
    <3> QED BY <3>1, <3>2, <3>3
  <2> QED BY <2>2, <2>3, <2>4
<1>2. ASSUME NEW r \in Requests, Admit(r) PROVE StoredFits'
  <2>1. /\ DOMAIN results' = DOMAIN results \cup {ResultKey(r)}
        /\ \A j \in DOMAIN results : results'[j] = results[j]
        /\ results'[ResultKey(r)].state = "reserved"
    BY <1>2, AdmitRows
  <2> QED BY <2>1 DEF StoredFits
<1>3. ASSUME NEW r \in Requests, CallUpstream(r) \/ UpstreamStreams(r) PROVE StoredFits'
  BY <1>3 DEF CallUpstream, UpstreamStreams, StoredFits
<1>4. Calm => StoredFits'
  BY <1>1 DEF StoredFits
<1> QED BY <1>2, <1>3, <1>4, CalmSteps

\* A sum over the rows of an admission: what was spent, and what is reserved.
LEMMA WithReserved ==
    ASSUME NEW l, NEW m, IsLedger(l), IsLedger(m), NEW u, u \notin DOMAIN l,
           DOMAIN m = DOMAIN l \cup {u}, \A j \in DOMAIN l : m[j] = l[j],
           NEW S, S \subseteq DOMAIN l
    PROVE  /\ Total(Tokens(m), S) = Total(Tokens(l), S)
           /\ Total(Tokens(m), S \cup {u}) = Tokens(m)[u] + Total(Tokens(l), S)
<1>1. Weighs(Tokens(l), S) /\ Weighs(Tokens(m), S \cup {u})
  BY CountedTokens
<1>2. \A j \in S : Tokens(m)[j] = Tokens(l)[j]
  BY DEF Tokens
<1>3. Total(Tokens(m), S) = Total(Tokens(l), S)
  BY <1>1, <1>2, TotalSame
<1>4. (S \cup {u}) \ {u} = S /\ u \in S \cup {u}
  OBVIOUS
<1> QED BY <1>1, <1>3, <1>4, TotalWith

\* assertWithinBudget: an admission leaves the sums of the day within the limits.
LEMMA AdmitOnTheDay ==
    ASSUME QInv, NEW r \in Requests, Admit(r),
           Ledger!withinBudget(ledger, today, today, Input(r))
    PROVE  WithinLimits(ledger', straddling)
<1> DEFINE u == UsageKey(r)
           p == PrincipalOf[r]
           i == InstallationOf[r]
           most == Most(fingerprint(r))
           P == DayRows(ledger, straddling, today, p)
           I == OwnRows(ledger, straddling, today, p, i)
<1>1. /\ u \notin DOMAIN ledger /\ IsLedger(ledger') /\ DOMAIN ledger' = DOMAIN ledger \cup {u}
      /\ \A j \in DOMAIN ledger : ledger'[j] = ledger[j]
      /\ ledger'[u].state = "reserved" /\ ledger'[u].installation = i
      /\ ledger'[u].fingerprint = fingerprint(r) /\ ledger'[u].period = today
      /\ IsLedger(ledger) /\ WithinLimits(ledger, straddling)
      /\ u \notin straddling
  BY AdmitRows DEF QInv, IInv, WithinQuota
<1>2. u.principal = p /\ most \in Nat /\ Tokens(ledger')[u] = most
  <2>1. ledger'[u].reserved = Amount(most)
    BY <1>1 DEF IsLedger
  <2> QED BY <1>1, <2>1, KeysOfRequests, RouteAssumption
          DEF Tokens, Ledger!counted, Amount, RouteConfig, Most, fingerprint
<1>3. /\ Ledger!Spent(ledger, P, "total_tokens") + most <= PrincipalLimit
      /\ Ledger!Spent(ledger, I, "total_tokens") + most <= InstallationLimit
  <2>0. P = Ledger!RowsOf(ledger, today, "TextReasoning", p)
    <3>1. \A k \in straddling : ledger[k].period < today /\ today \in 1..Days
      BY DEF QInv, IInv, WithinQuota, Straddlers
    <3>2. \A k \in straddling : ledger[k].period # today
      BY <3>1, RouteAssumption DEF RouteConfig
    <3> QED BY <3>2 DEF DayRows, Ledger!RowsOf
  <2>1. Ledger!Fits(ledger, Ledger!Considered(ledger, today, today, Input(r)), Input(r))
    BY DEF Ledger!withinBudget
  <2>2. /\ Input(r).principal = p /\ Input(r).installation = i
        /\ Input(r).capability = "TextReasoning" /\ Input(r).amount["total_tokens"] = most
    BY DEF Input, Amount, Most, fingerprint
  <2>3. Ledger!Considered(ledger, today, today, Input(r)) = P
    BY <2>0, <2>2 DEF Ledger!Considered
  <2> QED BY <2>1, <2>2, <2>3 DEF Ledger!Fits, OwnRows, Amount
<1>4. P \subseteq DOMAIN ledger /\ I \subseteq DOMAIN ledger
  BY DEF DayRows, OwnRows, Ledger!RowsOf
<1>5. /\ Total(Tokens(ledger), P) + most <= PrincipalLimit
      /\ Total(Tokens(ledger), I) + most <= InstallationLimit
      /\ Total(Tokens(ledger), P) \in Nat /\ Total(Tokens(ledger), I) \in Nat
  BY <1>1, <1>3, <1>4, SpentIs, CountedTokens, TotalIs
<1>6. /\ DayRows(ledger', straddling, today, p) = P \cup {u}
      /\ OwnRows(ledger', straddling, today, p, i) = I \cup {u}
  BY <1>1, <1>2 DEF DayRows, OwnRows, Ledger!RowsOf, IsLedger, IsUsage
<1>7. \A day, q, j : /\ <<day, q>> # <<today, p>> =>
                           DayRows(ledger', straddling, day, q) = DayRows(ledger, straddling, day, q)
                     /\ <<day, q, j>> # <<today, p, i>> =>
                           OwnRows(ledger', straddling, day, q, j) = OwnRows(ledger, straddling, day, q, j)
  BY <1>1, <1>2 DEF DayRows, OwnRows, Ledger!RowsOf
<1> SUFFICES ASSUME NEW k \in DOMAIN ledger' \ straddling
             PROVE  /\ Total(Tokens(ledger'), DayRows(ledger', straddling, ledger'[k].period, k.principal))
                          <= PrincipalLimit
                    /\ Total(Tokens(ledger'), OwnRows(ledger', straddling, ledger'[k].period, k.principal,
                                                      ledger'[k].installation))
                          <= InstallationLimit
  BY DEF WithinLimits
<1> DEFINE day == ledger'[k].period
           q == k.principal
           j == ledger'[k].installation
<1>8. /\ (k = u) \/ (k \in DOMAIN ledger /\ ledger'[k] = ledger[k])
      /\ k = u => day = today /\ q = p /\ j = i
  BY <1>1, <1>2
<1>9. \A S : S \subseteq DOMAIN ledger =>
          /\ Total(Tokens(ledger'), S) = Total(Tokens(ledger), S)
          /\ Total(Tokens(ledger'), S \cup {u}) = most + Total(Tokens(ledger), S)
  BY <1>1, <1>2, WithReserved
<1>10. /\ DayRows(ledger, straddling, day, q) \subseteq DOMAIN ledger
       /\ OwnRows(ledger, straddling, day, q, j) \subseteq DOMAIN ledger
  BY DEF DayRows, OwnRows, Ledger!RowsOf
<1>11. Total(Tokens(ledger'), DayRows(ledger', straddling, day, q)) <= PrincipalLimit
  <2>1. CASE day = today /\ q = p
    <3> HIDE DEF P, most
    <3>1. Total(Tokens(ledger'), P \cup {u}) <= PrincipalLimit
      BY <1>2, <1>4, <1>5, <1>9, RouteAssumption DEF RouteConfig
    <3> QED BY <1>6, <2>1, <3>1
  <2>2. CASE <<day, q>> # <<today, p>>
    <3>1. k \in DOMAIN ledger /\ day = ledger[k].period
      BY <1>8, <2>2
    <3>2. Total(Tokens(ledger), DayRows(ledger, straddling, day, q)) <= PrincipalLimit
      BY <1>1, <3>1 DEF WithinLimits
    <3> QED BY <1>7, <1>9, <1>10, <2>2, <3>2
  <2> QED BY <2>1, <2>2
<1>12. Total(Tokens(ledger'), OwnRows(ledger', straddling, day, q, j)) <= InstallationLimit
  <2>1. CASE day = today /\ q = p /\ j = i
    <3> HIDE DEF I, most
    <3>1. Total(Tokens(ledger'), I \cup {u}) <= InstallationLimit
      <4>1. Total(Tokens(ledger'), I \cup {u}) = most + Total(Tokens(ledger), I)
        BY <1>4, <1>9
      <4> QED BY <1>2, <1>5, <4>1, RouteAssumption DEF RouteConfig
    <3> QED BY <1>6, <2>1, <3>1
  <2>2. CASE <<day, q, j>> # <<today, p, i>>
    <3>1. k \in DOMAIN ledger /\ day = ledger[k].period /\ j = ledger[k].installation
      BY <1>8, <2>2
    <3>2. Total(Tokens(ledger), OwnRows(ledger, straddling, day, q, j)) <= InstallationLimit
      BY <1>1, <3>1 DEF WithinLimits
    <3>3. OwnRows(ledger', straddling, day, q, j) = OwnRows(ledger, straddling, day, q, j)
      BY <1>7, <2>2
    <3> QED BY <1>9, <1>10, <3>2, <3>3
  <2> QED BY <2>1, <2>2
<1> QED BY <1>11, <1>12

\* The row of an admission that is being made at midnight counts towards no
\* sum; it is the one of its day, which is over, and allowed by itself.
LEMMA AdmitAtMidnight ==
    ASSUME QInv, NEW r \in Requests, Admit(r), NEW checked, checked = today + 1,
           Ledger!withinBudget(ledger, today, checked, Input(r)),
           NEW s, s = straddling \cup {UsageKey(r)}
    PROVE  WithinLimits(ledger', s) /\ Straddlers(ledger', s, checked)
<1> DEFINE u == UsageKey(r)
           most == Most(fingerprint(r))
<1>1. /\ u \notin DOMAIN ledger /\ IsLedger(ledger') /\ DOMAIN ledger' = DOMAIN ledger \cup {u}
      /\ \A j \in DOMAIN ledger : ledger'[j] = ledger[j]
      /\ ledger'[u].fingerprint = fingerprint(r) /\ ledger'[u].period = today
      /\ IsLedger(ledger) /\ today \in Nat
      /\ WithinLimits(ledger, straddling) /\ Straddlers(ledger, straddling, today)
  <2>1. IInv /\ IsLedger(ledger) /\ today \in 1..Days /\ WithinQuota
    BY DEF QInv, IInv
  <2>2. today \in Nat
    BY <2>1, RouteAssumption DEF RouteConfig
  <2> QED BY <2>1, <2>2, AdmitRows DEF WithinQuota
<1>2. most <= PrincipalLimit /\ most <= InstallationLimit
  <2> DEFINE none == Ledger!Considered(ledger, today, checked, Input(r))
  <2>1. none = {} /\ {k \in {} : ledger[k].installation = Input(r).installation} = {}
    BY <1>1 DEF Ledger!Considered
  <2>2. Ledger!Fits(ledger, {}, Input(r))
    BY <2>1 DEF Ledger!withinBudget
  <2>3. Ledger!Spent(ledger, {}, "total_tokens") = 0
    <3>1. /\ Ledger!Spent(ledger, {}, "total_tokens") = Total(Tokens(ledger), {})
          /\ Weighs(Tokens(ledger), {})
      BY <1>1, SpentIs, CountedTokens
    <3> QED BY <3>1, TotalEmpty
  <2>4. Input(r).amount["total_tokens"] = most /\ most \in Nat
    BY RouteAssumption DEF Input, Amount, Most, fingerprint, RouteConfig
  <2>5. 0 + most <= PrincipalLimit /\ 0 + most <= InstallationLimit
    BY <2>1, <2>2, <2>3, <2>4 DEF Ledger!Fits, Amount
  <2> QED BY <2>4, <2>5
<1> HIDE DEF u
<1>3. s = straddling \cup {u} /\ straddling \subseteq DOMAIN ledger
  BY <1>1 DEF u, Straddlers
<1>4. Straddlers(ledger', s, checked)
  <2>1. \A k \in straddling : /\ k \in DOMAIN ledger /\ ledger'[k] = ledger[k]
                             /\ ledger[k].period \in Nat /\ ledger[k].period < today
    BY <1>1 DEF Straddlers, IsLedger, IsUsage
  <2>2. \A k \in straddling : ledger'[k].period # today
    BY <1>1, <2>1
  <2>3. \A k \in s : ledger'[k].period < checked
    BY <1>1, <1>3, <2>1
  <2>4. \A j, k \in s : ledger'[j].period = ledger'[k].period => j = k
    BY <1>1, <1>3, <2>1, <2>2 DEF Straddlers
  <2>5. \A k \in s : /\ Most(ledger'[k].fingerprint) <= PrincipalLimit
                    /\ Most(ledger'[k].fingerprint) <= InstallationLimit
    BY <1>1, <1>2, <1>3, <2>1 DEF Straddlers
  <2> QED BY <1>1, <1>3, <2>3, <2>4, <2>5 DEF Straddlers
<1>5. \A day, q, j :
         /\ DayRows(ledger', s, day, q) = DayRows(ledger, straddling, day, q)
         /\ OwnRows(ledger', s, day, q, j) = OwnRows(ledger, straddling, day, q, j)
         /\ DayRows(ledger, straddling, day, q) \subseteq DOMAIN ledger
         /\ OwnRows(ledger, straddling, day, q, j) \subseteq DOMAIN ledger
  BY <1>1, <1>3 DEF DayRows, OwnRows, Ledger!RowsOf
<1>6. \A S : S \subseteq DOMAIN ledger =>
          /\ Total(Tokens(ledger'), S) = Total(Tokens(ledger), S)
          /\ Total(Tokens(ledger'), S \cup {u}) = Tokens(ledger')[u] + Total(Tokens(ledger), S)
  BY <1>1, WithReserved
<1>7. \A k \in DOMAIN ledger' \ s : k \in DOMAIN ledger \ straddling /\ ledger'[k] = ledger[k]
  BY <1>1, <1>3
<1>8. WithinLimits(ledger', s)
  <2> SUFFICES ASSUME NEW k \in DOMAIN ledger' \ s
               PROVE  /\ Total(Tokens(ledger'), DayRows(ledger', s, ledger'[k].period, k.principal))
                            <= PrincipalLimit
                      /\ Total(Tokens(ledger'), OwnRows(ledger', s, ledger'[k].period,
                                                        k.principal, ledger'[k].installation))
                            <= InstallationLimit
    BY DEF WithinLimits
  <2>1. k \in DOMAIN ledger \ straddling /\ ledger'[k] = ledger[k]
    BY <1>7
  <2>2. /\ Total(Tokens(ledger), DayRows(ledger, straddling, ledger[k].period, k.principal))
             <= PrincipalLimit
        /\ Total(Tokens(ledger), OwnRows(ledger, straddling, ledger[k].period, k.principal,
                                         ledger[k].installation))
             <= InstallationLimit
    BY <1>1, <2>1 DEF WithinLimits
  <2> DEFINE P == DayRows(ledger, straddling, ledger[k].period, k.principal)
             I == OwnRows(ledger, straddling, ledger[k].period, k.principal,
                          ledger[k].installation)
  <2>3. /\ DayRows(ledger', s, ledger'[k].period, k.principal) = P
        /\ OwnRows(ledger', s, ledger'[k].period, k.principal, ledger'[k].installation) = I
        /\ P \subseteq DOMAIN ledger /\ I \subseteq DOMAIN ledger
    BY <1>5, <2>1
  <2> HIDE DEF P, I
  <2>4. /\ Total(Tokens(ledger'), P) = Total(Tokens(ledger), P)
        /\ Total(Tokens(ledger'), I) = Total(Tokens(ledger), I)
    BY <1>6, <2>3
  <2> QED BY <2>2, <2>3, <2>4 DEF P, I
<1> QED BY <1>4, <1>8

\* Whether midnight comes or not, an admission keeps the quota.
LEMMA AdmitWithinQuota ==
    ASSUME QInv, NEW r \in Requests, Admit(r)
    PROVE  WithinQuota'
<1>1. PICK checked \in Ledger!Ends :
         /\ Reservation(r, checked) = "reserved"
         /\ straddling' = Ledger!Crossing(checked, Input(r))
         /\ today' = checked
  BY DEF Admit
<1>2. /\ checked \in {today, today + 1} /\ today \in Nat
      /\ Ledger!withinBudget(ledger, today, checked, Input(r))
  BY <1>1 DEF Reservation, Ledger!Ends, Ledger!reserveOutcome, QInv, IInv
<1>3. CASE checked = today
  <2>1. straddling' = straddling /\ today' = today
    BY <1>1, <1>3 DEF Ledger!Crossing
  <2>2. WithinLimits(ledger', straddling)
    BY <1>2, <1>3, AdmitOnTheDay
  <2>3. Straddlers(ledger', straddling, today)
    <3>1. Straddlers(ledger, straddling, today)
      BY DEF QInv, WithinQuota
    <3>2. DOMAIN ledger \subseteq DOMAIN ledger' /\ \A k \in DOMAIN ledger : ledger'[k] = ledger[k]
      BY AdmitRows DEF QInv
    <3> QED BY <3>1, <3>2 DEF Straddlers
  <2> QED BY <2>1, <2>2, <2>3 DEF WithinQuota
<1>4. CASE checked = today + 1
  <2>1. straddling' = straddling \cup {UsageKey(r)} /\ today' = checked
    BY <1>1, <1>2, <1>4 DEF Ledger!Crossing, UsageKey
  <2>2. WithinLimits(ledger', straddling') /\ Straddlers(ledger', straddling', checked)
    BY <1>2, <1>4, <2>1, AdmitAtMidnight
  <2> QED BY <2>1, <2>2 DEF WithinQuota
<1> QED BY <1>2, <1>3, <1>4

\* Every step preserves the invariant of the quota.
LEMMA QInvNext == ASSUME QInv, Capped, [Next]_vars PROVE QInv'
<1>1. IInv'
  BY IInvNext DEF QInv
<1>2. CASE UNCHANGED vars
  BY <1>1, <1>2 DEF vars, QInv, StoredFits, WithinQuota
<1>3. CASE Next
  <2>1. StoredFits'
    BY <1>3, FitsStays DEF QInv
  <2>2. ASSUME Calm PROVE WithinQuota'
    <3>1. /\ IsLedger(ledger) /\ IsLedger(ledger') /\ DOMAIN ledger' = DOMAIN ledger
          /\ WithinLimits(ledger, straddling) /\ Straddlers(ledger, straddling, today)
          /\ straddling' = straddling /\ today \in Nat /\ today' \in {today, today + 1}
      BY <1>1, <2>2 DEF QInv, IInv, WithinQuota, Calm, IsLedger, IsUsage, UsageStep
    <3>2. ASSUME NEW k \in DOMAIN ledger
          PROVE  /\ ledger'[k].period = ledger[k].period
                 /\ ledger'[k].installation = ledger[k].installation
                 /\ ledger'[k].capability = ledger[k].capability
                 /\ ledger[k].state = "released" => ledger'[k].state = "released"
                 /\ ledger'[k].state # "released" => Tokens(ledger')[k] <= Tokens(ledger)[k]
      <4>1. UsageStep(k) /\ IsUsage(ledger[k]) /\ IsUsage(ledger'[k])
        BY <2>2, <3>1 DEF Calm, IsLedger
      <4> QED BY <1>1, <1>3, <2>1, <2>2, <4>1, CalmCosts DEF UsageStep, IsUsage
    <3>3. WithinLimits(ledger', straddling)
      BY <3>1, <3>2, LimitsStay
    <3>4. ASSUME NEW k \in straddling
          PROVE  /\ k \in DOMAIN ledger /\ ledger'[k].fingerprint = ledger[k].fingerprint
                 /\ ledger[k].period \in Nat /\ ledger[k].period < today
      BY <2>2, <3>1 DEF Calm, UsageStep, Straddlers, IsLedger, IsUsage
    <3>5. Straddlers(ledger', straddling, today')
      BY <3>1, <3>2, <3>4 DEF Straddlers
    <3> QED BY <3>1, <3>3, <3>5 DEF WithinQuota
  <2>3. ASSUME NEW r \in Requests, Admit(r) PROVE WithinQuota'
    BY <2>3, AdmitWithinQuota
  <2>4. ASSUME NEW r \in Requests, CallUpstream(r) \/ UpstreamStreams(r)
        PROVE  WithinQuota'
    BY <2>4 DEF CallUpstream, UpstreamStreams, QInv, WithinQuota
  <2>5. WithinQuota'
    BY <1>3, <2>2, <2>3, <2>4, CalmSteps DEF QInv
  <2> QED BY <1>1, <2>1, <2>5 DEF QInv
<1> QED BY <1>2, <1>3

\* The sums of the ledger are the sums of the invariant.
LEMMA QInvQuota == QInv => QuotaHeld
<1> SUFFICES ASSUME QInv PROVE Ledger!QuotaHeld
  BY DEF QuotaHeld
<1>1. /\ IsLedger(ledger) /\ today \in 1..Days
      /\ WithinLimits(ledger, straddling) /\ Straddlers(ledger, straddling, today)
  BY DEF QInv, IInv, WithinQuota
<1>2. Ledger!TypeOK
  <2>1. DOMAIN ledger \subseteq Ledger!Keys
    BY <1>1 DEF IsLedger, Ledger!Keys, UsageKey
  <2>2. \A k \in DOMAIN ledger : IsUsage(ledger[k])
    BY <1>1 DEF IsLedger
  <2> QED BY <1>1, <2>1, <2>2 DEF Ledger!TypeOK, IsUsage, Straddlers
<1>3. ASSUME NEW k \in DOMAIN ledger \ straddling, NEW x \in {"total_tokens"}
      PROVE  LET row == ledger[k]
                 P == Ledger!RowsOf(ledger, row.period, row.capability, k.principal) \ straddling
                 I == {j \in P : ledger[j].installation = row.installation}
             IN  /\ Ledger!Spent(ledger, P, x) <= PrincipalLimit
                 /\ Ledger!Spent(ledger, I, x) <= InstallationLimit
  <2> DEFINE P == DayRows(ledger, straddling, ledger[k].period, k.principal)
             I == OwnRows(ledger, straddling, ledger[k].period, k.principal, ledger[k].installation)
  <2>1. ledger[k].capability = "TextReasoning"
    BY <1>1 DEF IsLedger, IsUsage
  <2>2. P \subseteq DOMAIN ledger /\ I \subseteq DOMAIN ledger
    BY DEF DayRows, OwnRows, Ledger!RowsOf
  <2>3. /\ Ledger!Spent(ledger, P, x) <= PrincipalLimit
        /\ Ledger!Spent(ledger, I, x) <= InstallationLimit
    BY <1>1, <1>3, <2>2, SpentIs DEF WithinLimits
  <2> QED BY <2>1, <2>3 DEF DayRows, OwnRows
<1>4. ASSUME NEW k \in straddling, NEW x \in {"total_tokens"}
      PROVE  ledger[k].reserved[x] = Most(ledger[k].fingerprint)
  <2>1. k \in DOMAIN ledger
    BY <1>1 DEF Straddlers
  <2>2. ledger[k].reserved = Amount(Most(ledger[k].fingerprint))
    BY <1>1, <2>1 DEF IsLedger
  <2> QED BY <2>2 DEF Amount
<1> QED BY <1>1, <1>2, <1>3, <1>4 DEF Ledger!QuotaHeld, Amount, Straddlers

\* When every body states a limit for its output, the daily quota of every
\* principal and installation holds, whatever is in flight, fails or is
\* retried, but for the one reservation a day that midnight comes upon
\* (assertWithinBudget, its second reading of the clock, and the reservation of
\* app.ts:818).
THEOREM DailyQuotaHeld ==
    ASSUME \A r \in Requests : RequestedOutput[BodyOf[r]] > 0
    PROVE  Spec => []QuotaHeld
<1>1. Capped
  BY DEF Capped
<1>2. Init => QInv
  BY IInvInit DEF Init, QInv, StoredFits, WithinQuota, WithinLimits, Straddlers
<1>3. QInv /\ [Next]_vars => QInv'
  BY <1>1, QInvNext
<1> QED BY <1>2, <1>3, QInvQuota, PTL DEF Spec
===============================================================================
