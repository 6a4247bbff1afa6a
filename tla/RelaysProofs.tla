---------------------------- MODULE RelaysProofs ----------------------------
(***************************************************************************)
(* What holds of the two relays for all tasks, keys, operations, owners,   *)
(* limits, retries and crashes: what they spend, what they send, what they *)
(* keep, and the image relay's contract with the desktop.                  *)
(*                                                                         *)
(* The image relay.  Every step but the creation, the crash and the end of *)
(* the recovery is about one task (StepOf).  What such a step leaves of    *)
(* the other tasks is shown once (StepKeeps), and per action only what it  *)
(* does to its own: its row and reservation move as they may, and the four *)
(* parts of TaskInv hold again.  The refinement asks no more of a step.    *)
(*                                                                         *)
(* The video relay.  None of its properties is inductive.  SentOnce needs  *)
(* that nothing is charged before the fence; SpendWithinLimits that what   *)
(* was charged is still held; PublishedIsStored that nobody who is about   *)
(* to publish has missed the put, and that a cleanup only knows of results *)
(* that are acknowledged or expired; AcceptedCaredFor that whoever is      *)
(* waited for is there.  A step that only ends or moves one operation is   *)
(* an Outcome of it, and the lemmas of its own are about nothing else.     *)
(***************************************************************************)
EXTENDS MCRelays, ListAndSumLemmas

-----------------------------------------------------------------------------
(* The image relay: the inductive invariant.                               *)

\* A runner between the first check of its row and its last write.
InRun == {"rate", "posted", "answered", "storing", "stored"}

Blank(t) == files[t] = 0 /\ t \notin manifest

\* The money of a task: what is reserved, and what was spent.
Accounted(t) ==
    /\ ledger[t] = NeverUsed => /\ ~Has(t) /\ sent[t] = 0 /\ t \notin charged /\ Blank(t)
    /\ t \in charged => t \in Holding
    /\ t \in Active =>
          /\ ledger[t] # NeverUsed
          /\ ledger[t].state = IF row[t].receipt THEN "outcome_unknown" ELSE "reserved"
          /\ row[t].retries <= MaxRetries
          /\ t \in charged /\ ~row[t].receipt =>
                \/ Status(t) = "running" /\ mode = "down"
                \/ runner[t] = "posted" /\ ~work[t].refused
    /\ Has(t) => /\ sent[t] <= Hops(row[t].key)
                 /\ row[t].receipt => t \in charged
    /\ Status(t) = "queued" => sent[t] = 0 /\ ~row[t].receipt /\ Blank(t)

\* Where a runner is, its row and its files.
Runs(t) ==
    /\ ~Has(t) => runner[t] = "none"
    /\ Status(t) = "queued" => runner[t] \in {"none", "admission"}
    /\ Status(t) = "running" => mode = "down" \/ runner[t] \in InRun
    /\ mode = "down" \/ t \in todo => runner[t] = "none"
    /\ t \in todo => mode = "recovering"
    /\ runner[t] = "admission" => Status(t) \in {"queued", "cancelled"}
    /\ runner[t] \in InRun =>
          /\ Status(t) = "running" /\ mode = "serving"
          /\ sent[t] = work[t].hop
          /\ work[t].good > 0 => row[t].receipt
    /\ runner[t] = "rate" =>
          /\ Blank(t) /\ work[t].hop < Hops(row[t].key) /\ work[t].good <= work[t].hop
          /\ work[t].hop > 0 => row[t].receipt
    /\ runner[t] \in {"posted", "answered"} =>
          /\ Blank(t) /\ work[t].good < work[t].hop
    /\ runner[t] = "posted" => work[t].refused \/ t \in charged
    /\ runner[t] = "answered" => row[t].receipt
    /\ runner[t] = "storing" => work[t].good > 0 /\ files[t] <= work[t].good
    /\ runner[t] = "stored" => work[t].good > 0 /\ files[t] = work[t].good /\ t \in manifest

\* A stretch of two writes belongs to a row in the right state.
Cut(t) ==
    /\ section = <<"accept", t>> => Status(t) = "queued" /\ runner[t] = "none"
    /\ section = <<"unlink", t>> => Status(t) = "succeeded" /\ row[t].acked
    /\ section = <<"sweep", t>> => ~Has(t)
    /\ mode # "serving" => section = NoSection

Kept(t) ==
    Status(t) = "succeeded" /\ ~row[t].acked =>
       t \in manifest /\ files[t] = row[t].valid /\ files[t] > 0

TaskInv(t) == Accounted(t) /\ Runs(t) /\ Cut(t) /\ Kept(t)

WithinQuotas ==
    /\ \A o \in {OwnerOf(k) : k \in Keys} : HeldBy(OfOwner(o)) <= OwnerQuota
    /\ \A a \in Accounts : HeldBy(OfAccount(a)) <= ProviderQuota

\* A key has one row at most.
KeysApart == \A t, u \in Tasks : Has(t) /\ Has(u) /\ row[t].key = row[u].key => t = u

ImageInv == TypeOK /\ WithinQuotas /\ KeysApart /\ \A t \in Tasks : TaskInv(t)

-----------------------------------------------------------------------------
(* A step about one task.                                                  *)

Untouched(u) ==
    /\ row'[u] = row[u] /\ ledger'[u] = ledger[u]
    /\ files'[u] = files[u] /\ (u \in manifest' <=> u \in manifest)
    /\ runner'[u] = runner[u] /\ work'[u] = work[u] /\ (u \in todo' => u \in todo)
    /\ sent'[u] = sent[u] /\ (u \in charged' <=> u \in charged)

MovesOnly(t) ==
    /\ mode' = mode
    /\ \A u \in Tasks \ {t} : Untouched(u)
    /\ \/ section' \in {section, NoSection}
       \/ mode = "serving" /\ \E kind \in {"accept", "run", "unlink", "sweep"} : section' = <<kind, t>>

\* What no step but a new reservation does to the ledger: nothing is held that
\* was not held, and a reservation stays with its owner and its account.
Settles(t) ==
    /\ ledger'[t] = NeverUsed <=> ledger[t] = NeverUsed
    /\ ledger[t] # NeverUsed => /\ ledger'[t].owner = ledger[t].owner
                                /\ ledger'[t].account = ledger[t].account
    /\ t \in Holding' => t \in Holding

\* A row goes, or stays the row of its key.
KeepsKey(t) == Has(t)' => Has(t) /\ row'[t].key = row[t].key

\* What the desktop sees of it: the status, the acknowledgement, and the money.
Becomes(t, status) ==
    /\ Has(t) /\ Has(t)' /\ row'[t].acked = row[t].acked /\ charged' = charged
    /\ Status(t)' = status

Seen(t) ==
    \/ row'[t] = row[t] /\ charged' = charged
    \/ Becomes(t, Status(t))
    \/ Status(t) = "queued" /\ Becomes(t, "running")
    \/ Status(t) = "running" /\ t \notin charged /\ Becomes(t, "queued")
    \/ Has(t) /\ Status(t) = "running" /\ row'[t] = row[t] /\ charged' = charged \cup {t}
    \/ Status(t) \in {"queued", "running"} /\ t \notin charged /\ Becomes(t, "failed")
    \/ Status(t) = "queued" /\ t \notin charged /\ Becomes(t, "cancelled")
    \/ Status(t) = "running" /\ Becomes(t, "failed_unknown")
    \/ Status(t) \in {"running", "failed_unknown"} /\ t \in charged /\ Becomes(t, "succeeded")
    \/ /\ Has(t) /\ Has(t)' /\ Status(t) = "succeeded" /\ Status(t)' = "succeeded"
       /\ row'[t].acked /\ charged' = charged
    \/ /\ Has(t) /\ ~Has(t)' /\ charged' = charged
       /\ \/ Status(t) \in {"succeeded", "failed", "failed_unknown", "cancelled"}
          \/ Status(t) = "queued" /\ t \notin charged

StepOf(t) ==
    /\ TypeOK' /\ MovesOnly(t) /\ TaskInv(t)'
    /\ Settles(t) /\ KeepsKey(t) /\ Seen(t)

\* The other tasks are as they were.
LEMMA OtherTasks ==
    ASSUME ImageInv, NEW t \in Tasks, MovesOnly(t), NEW u \in Tasks, u # t
    PROVE  TaskInv(u)'
<1>1. TaskInv(u) /\ Untouched(u) /\ mode' = mode
  BY DEF ImageInv, MovesOnly
<1>2. Accounted(u)'
  BY <1>1 DEF TaskInv, Untouched, Accounted, Has, Status, Active, Holding, Blank
<1>3. Runs(u)'
  BY <1>1 DEF TaskInv, Untouched, Runs, Has, Status, Blank
<1>4. Cut(u)'
  BY <1>1 DEF TaskInv, Untouched, MovesOnly, Cut, Has, Status, NoSection
<1>5. Kept(u)'
  BY <1>1 DEF TaskInv, Untouched, Kept, Status
<1> QED BY <1>2, <1>3, <1>4, <1>5 DEF TaskInv

\* A subset weighs less.
LEMMA HeldBySubset ==
    ASSUME NEW S \in SUBSET Tasks, NEW T \in SUBSET Tasks, S \subseteq T
    PROVE  /\ Outputs * Cardinality(S) <= Outputs * Cardinality(T)
           /\ Outputs * Cardinality(S) \in Nat /\ Outputs * Cardinality(T) \in Nat
<1>1. /\ IsFiniteSet(S) /\ IsFiniteSet(T) /\ Cardinality(S) <= Cardinality(T)
      /\ Cardinality(S) \in Nat /\ Cardinality(T) \in Nat /\ Outputs \in Nat
  BY RelayAssumption, FS_Subset, FS_CardinalityType
<1> DEFINE m == Cardinality(S)
           n == Cardinality(T)
<1> HIDE DEF m, n
<1>2. m \in Nat /\ n \in Nat /\ m <= n /\ Outputs \in Nat
  BY <1>1 DEF m, n
<1>3. Outputs * m <= Outputs * n /\ Outputs * m \in Nat /\ Outputs * n \in Nat
  BY <1>2
<1> QED BY <1>3 DEF m, n

\* A step that adds no reservation keeps the quotas.
LEMMA QuotasStay ==
    ASSUME TypeOK, TypeOK', WithinQuotas, \A u \in Tasks : Settles(u)
    PROVE  WithinQuotas'
<1>1. \A o : Holding' \cap OfOwner(o)' \subseteq Holding \cap OfOwner(o)
  BY DEF Settles, OfOwner, Holding
<1>2. \A a : Holding' \cap OfAccount(a)' \subseteq Holding \cap OfAccount(a)
  BY DEF Settles, OfAccount, Holding
<1>3. /\ \A S : S \cap Holding \in SUBSET Tasks /\ (Holding \cap S) \in SUBSET Tasks
      /\ \A S : (Holding' \cap S) \in SUBSET Tasks
  BY DEF Holding
<1>4. /\ OwnerQuota \in Nat /\ ProviderQuota \in Nat
  BY RelayAssumption
<1>5. ASSUME NEW o \in {OwnerOf(k) : k \in Keys}
      PROVE  HeldBy(OfOwner(o))' <= OwnerQuota
  <2> DEFINE A == Holding' \cap OfOwner(o)'
             B == Holding \cap OfOwner(o)
  <2>1. /\ Outputs * Cardinality(A) <= Outputs * Cardinality(B)
        /\ Outputs * Cardinality(A) \in Nat /\ Outputs * Cardinality(B) \in Nat
    BY <1>1, <1>3, HeldBySubset
  <2>2. Outputs * Cardinality(B) <= OwnerQuota
    BY DEF WithinQuotas, HeldBy
  <2>3. HeldBy(OfOwner(o))' = Outputs * Cardinality(A)
    BY DEF HeldBy
  <2> HIDE DEF A, B
  <2> QED BY <1>4, <2>1, <2>2, <2>3
<1>6. ASSUME NEW a \in Accounts
      PROVE  HeldBy(OfAccount(a))' <= ProviderQuota
  <2> DEFINE A == Holding' \cap OfAccount(a)'
             B == Holding \cap OfAccount(a)
  <2>1. /\ Outputs * Cardinality(A) <= Outputs * Cardinality(B)
        /\ Outputs * Cardinality(A) \in Nat /\ Outputs * Cardinality(B) \in Nat
    BY <1>2, <1>3, HeldBySubset
  <2>2. Outputs * Cardinality(B) <= ProviderQuota
    BY DEF WithinQuotas, HeldBy
  <2>3. HeldBy(OfAccount(a))' = Outputs * Cardinality(A)
    BY DEF HeldBy
  <2> HIDE DEF A, B
  <2> QED BY <1>4, <2>1, <2>2, <2>3
<1> QED BY <1>5, <1>6 DEF WithinQuotas

\* A step of one task keeps the invariant.
LEMMA StepKeeps == ASSUME ImageInv, NEW t \in Tasks, StepOf(t) PROVE ImageInv'
<1>1. \A u \in Tasks : TaskInv(u)'
  BY OtherTasks DEF StepOf
<1>2. \A u \in Tasks : Settles(u)
  BY DEF StepOf, MovesOnly, Untouched, Settles, Holding
<1>3. WithinQuotas'
  BY <1>2, QuotasStay DEF ImageInv, StepOf
<1>4. KeysApart'
  BY DEF ImageInv, KeysApart, StepOf, MovesOnly, Untouched, KeepsKey, Has
<1> QED BY <1>1, <1>3, <1>4 DEF StepOf, ImageInv

-----------------------------------------------------------------------------
(* What the writes of the store do.                                        *)

RowType    == [Tasks -> Rows \cup {NoRow}]
LedgerType == [Tasks -> {NeverUsed} \cup
  [state : {"reserved", "outcome_unknown", "settled", "released"},
   account : Accounts, owner : {OwnerOf(k) : k \in Keys}]]

\* The row of t goes to a status, and nothing else is written.
OnlyRowOf(t, s) ==
    /\ row' \in RowType /\ row'[t] \in Rows
    /\ \A u \in Tasks \ {t} : row'[u] = row[u]
    /\ row'[t].status = s /\ row'[t].key = row[t].key
    /\ row'[t].acked = row[t].acked

OnlyLedgerOf(t, from, state) ==
    /\ ledger' \in LedgerType
    /\ \A u \in Tasks \ {t} : ledger'[u] = ledger[u]
    /\ ledger'[t] = NeverUsed <=> ledger[t] = NeverUsed
    /\ ledger'[t].state = IF ledger[t].state \in from THEN state ELSE ledger[t].state
    /\ ledger[t] # NeverUsed => /\ ledger'[t].owner = ledger[t].owner
                                /\ ledger'[t].account = ledger[t].account

\* What setStatus writes: the row of one task, in its type.
LEMMA SetStatusWrites ==
    ASSUME TypeOK, NEW t \in Tasks, Has(t), NEW s \in Statuses, SetStatus(t, s)
    PROVE  /\ OnlyRowOf(t, s)
           /\ row'[t].receipt = row[t].receipt /\ row'[t].valid = row[t].valid
           /\ row'[t].retries = row[t].retries
<1>1. row \in RowType /\ row[t] \in Rows
  BY DEF TypeOK, RowType, Has
<1>2. row' = [row EXCEPT ![t].status = s]
  BY DEF SetStatus
<1> QED BY <1>1, <1>2 DEF RowType, Rows, OnlyRowOf

\* What settling writes: the reservation of one task, in its type.
LEMMA SettleWrites ==
    ASSUME TypeOK, NEW t \in Tasks, NEW from, "none" \notin from,
           NEW state \in {"reserved", "outcome_unknown", "settled", "released"},
           Settle(t, from, state)
    PROVE  OnlyLedgerOf(t, from, state)
<1>1. ledger \in LedgerType
  BY DEF TypeOK, LedgerType
<1>2. CASE ledger[t].state \in from
  <2>1. /\ ledger[t] \in [state : {"reserved", "outcome_unknown", "settled", "released"},
                           account : Accounts, owner : {OwnerOf(k) : k \in Keys}]
        /\ ledger[t] # NeverUsed
    BY <1>1, <1>2 DEF LedgerType, NeverUsed
  <2>2. ledger' = [ledger EXCEPT ![t].state = state]
    BY <1>2 DEF Settle
  <2> QED BY <1>1, <1>2, <2>1, <2>2 DEF LedgerType, OnlyLedgerOf, NeverUsed
<1>3. CASE ledger[t].state \notin from
  <2>1. ledger' = ledger
    BY <1>3 DEF Settle
  <2> QED BY <1>1, <1>3, <2>1 DEF OnlyLedgerOf
<1> QED BY <1>2, <1>3

\* What a retry writes: queued again, with one retry more.
LEMMA RetryWrites ==
    ASSUME TypeOK, NEW t \in Tasks, Has(t), NEW s \in Statuses,
           row[t].retries <= MaxRetries,
           row' = [row EXCEPT ![t].status = s, ![t].retries = @ + 1]
    PROVE  /\ OnlyRowOf(t, s)
           /\ row'[t].receipt = row[t].receipt /\ row'[t].valid = row[t].valid
           /\ row'[t].retries = row[t].retries + 1
<1>1. row \in RowType /\ row[t] \in Rows /\ MaxRetries \in Nat
  BY RelayAssumption DEF TypeOK, RowType, Has
<1> DEFINE f == [row EXCEPT ![t].status = s]
<1>2. /\ f \in RowType /\ f[t] \in Rows
      /\ \A u \in Tasks \ {t} : f[u] = row[u]
      /\ f[t] = [row[t] EXCEPT !.status = s]
      /\ f[t].status = s /\ f[t].key = row[t].key /\ f[t].acked = row[t].acked
      /\ f[t].receipt = row[t].receipt /\ f[t].valid = row[t].valid
      /\ f[t].retries = row[t].retries
  BY <1>1 DEF RowType, Rows
<1>3. row' = [f EXCEPT ![t].retries = @ + 1]
  OBVIOUS
<1> HIDE DEF f
<1>4. f[t].retries + 1 \in 0 .. MaxRetries + 1
  BY <1>1, <1>2 DEF Rows
<1> QED BY <1>1, <1>2, <1>3, <1>4 DEF RowType, Rows, OnlyRowOf

-----------------------------------------------------------------------------
(* The end of a runner.                                                    *)

\* What a failure may say of the money and of the files.
MayCatch(t, err) ==
    /\ mode = "serving" /\ runner[t] \in InRun \cup {"admission"}
    /\ Status(t) # "cancelled" /\ ~row[t].receipt /\ err # "unknown" => t \notin charged
    /\ err = "capacity" /\ Eligible(t) => sent[t] = 0 /\ Blank(t)
    /\ err # "capacity" => runner[t] \in InRun

\* The actions that end in a catch clause write nothing else, but for the output
\* files that a failed write takes away.
OnlyCatches(t) ==
    /\ files' \in {files, [files EXCEPT ![t] = 0]}
    /\ UNCHANGED <<inputs, manifest, mode, account, todo, history>>

\* A runner that is somewhere works for a task that is not over.
LEMMA RunnerIsActive ==
    ASSUME ImageInv, NEW t \in Tasks, mode = "serving", runner[t] \in InRun \cup {"admission"}
    PROVE  /\ Has(t) /\ row[t] \in Rows
           /\ Status(t) # "cancelled" => t \in Active /\ ledger[t].state \in {"reserved", "outcome_unknown"}
                                                    /\ ledger[t] # NeverUsed
           /\ section # <<"accept", t>> /\ section # <<"sweep", t>> /\ section # <<"unlink", t>>
<1>1. TypeOK /\ TaskInv(t)
  BY DEF ImageInv
<1>2. Has(t) /\ Status(t) \in {"queued", "running", "cancelled"}
  BY <1>1 DEF TaskInv, Runs, InRun, Has, Status
<1>3. row[t] \in Rows
  BY <1>1, <1>2 DEF TypeOK, Has
<1>4. Status(t) # "cancelled" => t \in Active /\ ledger[t].state \in {"reserved", "outcome_unknown"}
                                             /\ ledger[t] # NeverUsed
  BY <1>1, <1>2 DEF Active, TaskInv, Accounted
<1>5. section # <<"accept", t>> /\ section # <<"sweep", t>> /\ section # <<"unlink", t>>
  BY <1>1, <1>2 DEF TaskInv, Cut, Runs, InRun
<1> QED BY <1>2, <1>3, <1>4, <1>5

\* Nothing was spent on a task in the queue.
LEMMA QueuedIsFree ==
    ASSUME ImageInv, NEW t \in Tasks, Status(t) = "queued"
    PROVE  /\ t \notin charged /\ Has(t) /\ row[t] \in Rows /\ ledger[t] # NeverUsed
           /\ ~row[t].receipt /\ sent[t] = 0 /\ Blank(t) /\ runner[t] \in {"none", "admission"}
BY DEF ImageInv, TypeOK, TaskInv, Accounted, Runs, Active, Has, Status, NoRow

\* The catch clause of runImageTask ends its task as the runner's evidence allows.
LEMMA CatchStep ==
    ASSUME ImageInv, NEW t \in Tasks, NEW err \in {"capacity", "refused", "unknown"},
           MayCatch(t, err), Catch(t, err), OnlyCatches(t)
    PROVE  StepOf(t)
<1>1. TypeOK /\ TaskInv(t)
  BY DEF ImageInv
<1>2. /\ Has(t) /\ row[t] \in Rows
      /\ Status(t) # "cancelled" => t \in Active /\ ledger[t].state \in {"reserved", "outcome_unknown"}
                                             /\ ledger[t] # NeverUsed
      /\ section # <<"accept", t>> /\ section # <<"sweep", t>> /\ section # <<"unlink", t>>
      /\ mode = "serving" /\ mode' = mode
  BY RunnerIsActive DEF MayCatch, OnlyCatches
<1>3. /\ work' = [work EXCEPT ![t] = NoWork]
      /\ \A u \in Tasks \ {t} : work'[u] = work[u]
      /\ work' \in [Tasks -> [hop : 0 .. Outputs, good : 0 .. Outputs, unsure : BOOLEAN, refused : BOOLEAN]]
  BY <1>1, RelayAssumption DEF Catch, TypeOK, NoWork
<1>4. /\ files' \in [Tasks -> 0 .. Outputs]
      /\ \A u \in Tasks \ {t} : files'[u] = files[u]
      /\ Blank(t) => Blank(t)'
  BY <1>1, RelayAssumption DEF OnlyCatches, TypeOK, Blank
<1>5. CASE Status(t) = "cancelled" /\ Ends(t) /\ UNCHANGED <<row, ledger, timers>>
  <2>1. TypeOK'
    BY <1>1, <1>3, <1>4, <1>5 DEF TypeOK, OnlyCatches, Ends, history
  <2>2. MovesOnly(t)
    BY <1>1, <1>2, <1>3, <1>4, <1>5 DEF MovesOnly, Untouched, OnlyCatches, Ends, history, TypeOK
  <2>3. Settles(t) /\ KeepsKey(t)
    BY <1>5 DEF Settles, KeepsKey, Has, Holding
  <2>4. Accounted(t)'
    BY <1>1, <1>2, <1>5 DEF TaskInv, Accounted, OnlyCatches, history, Has, Status, Active, Holding
  <2>5. Runs(t)' /\ Cut(t)' /\ Kept(t)'
    BY <1>1, <1>2, <1>5 DEF TaskInv, OnlyCatches, Runs, Cut, Kept, Ends, Has, Status, InRun, TypeOK
  <2>6. Seen(t)
    BY <1>5 DEF Seen, OnlyCatches, history
  <2> QED BY <2>1, <2>2, <2>3, <2>4, <2>5, <2>6 DEF StepOf, TaskInv
<1>6. CASE /\ Status(t) # "cancelled"
           /\ err = "capacity" /\ Eligible(t) /\ RetriesLeft(t)
           /\ Requeue(t)
           /\ scheduleTaskRetry(t)
           /\ runner' = [runner EXCEPT ![t] = "none"] /\ UNCHANGED section
  <2>1. row[t].retries < MaxRetries /\ row[t].retries \in Nat /\ MaxRetries \in Nat
    BY <1>2, <1>6, RelayAssumption DEF RetriesLeft, Rows
  <2>2. /\ OnlyRowOf(t, "queued") /\ row'[t].receipt = row[t].receipt
        /\ row'[t].retries <= MaxRetries /\ ledger' = ledger
    <3>1. /\ row' = [row EXCEPT ![t].status = "queued", ![t].retries = @ + 1] /\ ledger' = ledger
          /\ row[t].retries <= MaxRetries /\ row[t].retries + 1 <= MaxRetries
          /\ "queued" \in Statuses
      BY <1>6, <2>1 DEF Requeue, Statuses
    <3> QED BY <1>1, <1>2, <3>1, RetryWrites
  <2>3. TypeOK'
    BY <1>1, <1>3, <1>4, <1>6, <2>2
       DEF TypeOK, OnlyCatches, scheduleTaskRetry, history, OnlyRowOf, RowType
  <2>4. MovesOnly(t)
    BY <1>1, <1>3, <1>4, <1>6, <2>2 DEF MovesOnly, Untouched, OnlyCatches, history, TypeOK, OnlyRowOf
  <2>5. Settles(t) /\ KeepsKey(t)
    BY <1>2, <2>2 DEF Settles, KeepsKey, Has, Holding, OnlyRowOf
  <2>6. t \notin charged /\ ~row[t].receipt /\ sent[t] = 0 /\ Blank(t)'
    BY <1>2, <1>4, <1>6 DEF MayCatch, Eligible
  <2>7. Accounted(t)'
    BY <1>1, <1>2, <1>6, <2>2, <2>6, RelayAssumption
       DEF TaskInv, Accounted, OnlyCatches, history, Has, Status, Active, Holding, OnlyRowOf, Blank, TypeOK
  <2>8. Runs(t)' /\ Cut(t)' /\ Kept(t)'
    BY <1>1, <1>2, <1>6, <2>2 DEF TaskInv, OnlyCatches, Runs, Cut, Kept, Has, Status, InRun, TypeOK, OnlyRowOf, Rows, NoRow
  <2>9. Seen(t)
    <3>1. Has(t)' /\ Status(t) \in {"queued", "running"}
      BY <1>6, <2>2 DEF OnlyRowOf, Has, Rows, NoRow, Eligible
    <3> QED BY <1>2, <2>2, <2>6, <3>1 DEF Seen, Becomes, OnlyRowOf, OnlyCatches, history, Status
  <2> QED BY <2>3, <2>4, <2>5, <2>7, <2>8, <2>9 DEF StepOf, TaskInv
\* What the three outcomes have in common that give the task up.
<1>7. ASSUME NEW s \in {"failed", "failed_unknown"}, NEW from \in {{"reserved"}, {"reserved", "outcome_unknown"}},
             NEW state \in {"released", "outcome_unknown"},
             OnlyRowOf(t, s), OnlyLedgerOf(t, from, state), row'[t].receipt = row[t].receipt,
             s = "failed" \/ state = "released" => t \notin charged,
             s = "failed_unknown" => Status(t) = "running",
             Status(t) # "cancelled", Ends(t), UNCHANGED timers
      PROVE  StepOf(t)
  <2>1. TypeOK'
    BY <1>1, <1>3, <1>4, <1>7
       DEF TypeOK, OnlyCatches, history, OnlyRowOf, RowType, OnlyLedgerOf, LedgerType, Ends
  <2>2. MovesOnly(t)
    BY <1>1, <1>2, <1>3, <1>4, <1>7 DEF MovesOnly, Untouched, OnlyCatches, history, TypeOK, OnlyRowOf, OnlyLedgerOf, Ends
  <2>3. Settles(t) /\ KeepsKey(t)
    BY <1>2, <1>7 DEF Settles, KeepsKey, Has, Holding, OnlyRowOf, OnlyLedgerOf
  <2>4. t \in charged => ledger'[t].state = "outcome_unknown"
    BY <1>1, <1>2, <1>7 DEF OnlyLedgerOf
  <2>5. Accounted(t)'
    BY <1>1, <1>2, <1>7, <2>4
       DEF TaskInv, Accounted, OnlyCatches, history, Has, Status, Active, Holding, OnlyRowOf, OnlyLedgerOf
  <2>6. Runs(t)' /\ Cut(t)' /\ Kept(t)'
    BY <1>1, <1>2, <1>7 DEF TaskInv, OnlyCatches, Runs, Cut, Kept, Ends, Has, Status, InRun, TypeOK, OnlyRowOf, Rows, NoRow
  <2>7. Seen(t)
    <3>1. Has(t)' /\ Status(t) \in {"queued", "running"}
      BY <1>2, <1>7 DEF OnlyRowOf, Has, Rows, NoRow, Active
    <3> QED BY <1>2, <1>7, <3>1 DEF Seen, Becomes, OnlyRowOf, OnlyCatches, history, Status
  <2> QED BY <2>1, <2>2, <2>3, <2>5, <2>6, <2>7 DEF StepOf, TaskInv
<1>8. CASE /\ Status(t) # "cancelled"
           /\ err = "capacity" /\ Eligible(t) /\ ~RetriesLeft(t)
           /\ Exhaust(t)
           /\ Ends(t) /\ UNCHANGED timers
  <2>1. row[t].retries <= MaxRetries
    BY <1>1, <1>2, <1>8 DEF TaskInv, Accounted
  <2>2. /\ OnlyRowOf(t, "failed") /\ row'[t].receipt = row[t].receipt
        /\ OnlyLedgerOf(t, {"reserved"}, "released")
    BY <1>1, <1>2, <1>8, <2>1, RetryWrites, SettleWrites DEF Exhaust, Statuses
  <2>3. t \notin charged
    BY <1>8 DEF MayCatch, Eligible
  <2> QED BY <1>7, <1>8, <2>2, <2>3
<1>9. CASE /\ Status(t) # "cancelled" /\ (row[t].receipt \/ err = "unknown")
           /\ MarkOutcomeUnknown(t)
           /\ Ends(t) /\ UNCHANGED timers
  <2>1. /\ OnlyRowOf(t, "failed_unknown") /\ row'[t].receipt = row[t].receipt
        /\ OnlyLedgerOf(t, {"reserved", "outcome_unknown"}, "outcome_unknown")
    BY <1>1, <1>2, <1>9, SetStatusWrites, SettleWrites DEF MarkOutcomeUnknown, Statuses
  <2>2. Status(t) = "running"
    BY <1>1, <1>2, <1>9, QueuedIsFree DEF MayCatch, Active, TaskInv, Runs
  <2> QED BY <1>7, <1>9, <2>1, <2>2
<1>10. CASE /\ Status(t) # "cancelled" /\ ~(row[t].receipt \/ err = "unknown")
            /\ MarkKnownFailedAndRelease(t)
            /\ Ends(t) /\ UNCHANGED timers
  <2>1. /\ OnlyRowOf(t, "failed") /\ row'[t].receipt = row[t].receipt
        /\ OnlyLedgerOf(t, {"reserved"}, "released")
    BY <1>1, <1>2, <1>10, SetStatusWrites, SettleWrites DEF MarkKnownFailedAndRelease, Statuses
  <2>2. t \notin charged
    BY <1>10 DEF MayCatch
  <2> QED BY <1>7, <1>10, <2>1, <2>2
<1> QED BY <1>5, <1>6, <1>8, <1>9, <1>10 DEF Catch

-----------------------------------------------------------------------------
(* The steps of a runner.                                                  *)

\* An error of one request: kept while the task has outputs, or thrown.
LEMMA KeepOrThrowStep ==
    ASSUME ImageInv, NEW t \in Tasks, NEW err \in {"capacity", "refused", "unknown"},
           runner[t] \in {"rate", "posted", "answered"}, mode = "serving",
           work[t].good = 0 => MayCatch(t, err),
           KeepOrThrow(t, err), files' = files, OnlyCatches(t)
    PROVE  StepOf(t)
<1>1. TypeOK /\ TaskInv(t) /\ Has(t) /\ row[t] \in Rows
  BY RunnerIsActive DEF ImageInv, InRun
<1>2. work[t].good \in Nat
  BY <1>1, RelayAssumption DEF TypeOK
<1>3. CASE work[t].good = 0
  BY <1>2, <1>3, CatchStep DEF KeepOrThrow
<1>4. CASE work[t].good > 0
  <2>1. /\ runner' = [runner EXCEPT ![t] = "storing"]
        /\ section' = <<"run", t>>
        /\ work' = [work EXCEPT ![t].unsure = TRUE]
        /\ UNCHANGED <<row, ledger, timers>>
    BY <1>4 DEF KeepOrThrow
  <2>2. /\ work'[t].good = work[t].good /\ work'[t].hop = work[t].hop
        /\ \A u \in Tasks \ {t} : work'[u] = work[u]
        /\ work' \in [Tasks -> [hop : 0 .. Outputs, good : 0 .. Outputs, unsure : BOOLEAN, refused : BOOLEAN]]
    <3>1. work \in [Tasks -> [hop : 0 .. Outputs, good : 0 .. Outputs, unsure : BOOLEAN, refused : BOOLEAN]]
      BY <1>1 DEF TypeOK
    <3> QED BY <2>1, <3>1
  <2>3. TypeOK'
    BY <1>1, <2>1, <2>2 DEF TypeOK, OnlyCatches, history
  <2>4. MovesOnly(t)
    BY <1>1, <2>1, <2>2 DEF MovesOnly, Untouched, OnlyCatches, history, TypeOK
  <2>5. Settles(t) /\ KeepsKey(t)
    BY <2>1 DEF Settles, KeepsKey, Has, Holding
  <2>6. row[t].receipt /\ Blank(t)
    BY <1>1, <1>4 DEF TaskInv, Runs, InRun
  <2>7. Accounted(t)'
    BY <1>1, <2>1, <2>6 DEF TaskInv, Accounted, OnlyCatches, history, Has, Status, Active, Holding, Blank
  <2>8. Runs(t)' /\ Cut(t)' /\ Kept(t)'
    BY <1>1, <1>2, <1>4, <2>1, <2>2, <2>6, RunnerIsActive
       DEF TaskInv, Runs, Cut, Kept, OnlyCatches, history, Has, Status, InRun, TypeOK, Blank
  <2>9. Seen(t)
    BY <2>1 DEF Seen, OnlyCatches, history
  <2> QED BY <2>3, <2>4, <2>5, <2>7, <2>8, <2>9 DEF StepOf, TaskInv
<1> QED BY <1>2, <1>3, <1>4

\* The capacity is refused.
LEMMA AdmissionFailsStep == ASSUME ImageInv, NEW t \in Tasks, AdmissionFails(t) PROVE StepOf(t)
<1>1. TypeOK /\ TaskInv(t)
  BY DEF ImageInv
<1>2. Catch(t, "capacity") /\ OnlyCatches(t) /\ mode = "serving" /\ runner[t] = "admission"
  BY <1>1 DEF AdmissionFails, OnlyCatches, history, Idle
<1>3. MayCatch(t, "capacity")
  BY <1>1, <1>2 DEF MayCatch, TaskInv, Runs, Accounted, Eligible, Active
<1> QED BY <1>2, <1>3, CatchStep

\* The inputs cannot be read.
LEMMA PreparationFailsStep == ASSUME ImageInv, NEW t \in Tasks, PreparationFails(t) PROVE StepOf(t)
<1>1. TypeOK /\ TaskInv(t)
  BY DEF ImageInv
<1>2. Catch(t, "refused") /\ OnlyCatches(t) /\ mode = "serving" /\ runner[t] = "rate"
  BY <1>1 DEF PreparationFails, OnlyCatches, history, Idle
<1>3. MayCatch(t, "refused")
  BY <1>1, <1>2 DEF MayCatch, TaskInv, Runs, Accounted, Active, InRun
<1> QED BY <1>2, <1>3, CatchStep

\* The rate limit refuses a request of the task.
LEMMA RateFailsStep == ASSUME ImageInv, NEW t \in Tasks, RateFails(t) PROVE StepOf(t)
<1>1. TypeOK /\ TaskInv(t)
  BY DEF ImageInv
<1>2. /\ KeepOrThrow(t, "capacity") /\ OnlyCatches(t) /\ files' = files
      /\ mode = "serving" /\ runner[t] = "rate"
  BY <1>1 DEF RateFails, OnlyCatches, history, Idle
<1>3. work[t].hop > 0 \/ work[t].hop = 0
  BY <1>1, RelayAssumption DEF TypeOK
<1>4. MayCatch(t, "capacity")
  BY <1>1, <1>2, <1>3 DEF MayCatch, TaskInv, Runs, Accounted, Active, InRun, Eligible
<1> QED BY <1>2, <1>4, KeepOrThrowStep

\* The Provider refuses the POST.
LEMMA ProviderRefusesStep == ASSUME ImageInv, NEW t \in Tasks, ProviderRefuses(t) PROVE StepOf(t)
<1>1. TypeOK /\ TaskInv(t)
  BY DEF ImageInv
<1>2. /\ KeepOrThrow(t, "refused") /\ OnlyCatches(t) /\ files' = files
      /\ mode = "serving" /\ runner[t] = "posted" /\ work[t].refused
  BY <1>1 DEF ProviderRefuses, OnlyCatches, history, Idle
<1>3. MayCatch(t, "refused")
  BY <1>1, <1>2 DEF MayCatch, TaskInv, Runs, Accounted, Active, InRun
<1> QED BY <1>2, <1>3, KeepOrThrowStep

\* The answer is lost, or cannot be read.
LEMMA AnswerFailsStep ==
    ASSUME ImageInv, NEW t \in Tasks, AnswerLost(t) \/ AnswerUnusable(t) PROVE StepOf(t)
<1>1. /\ KeepOrThrow(t, "unknown") /\ OnlyCatches(t) /\ files' = files
      /\ mode = "serving" /\ runner[t] \in {"posted", "answered"}
  BY DEF AnswerLost, AnswerUnusable, OnlyCatches, history, Idle
<1>2. MayCatch(t, "unknown")
  BY <1>1 DEF MayCatch, InRun
<1> QED BY <1>1, <1>2, KeepOrThrowStep

\* The files of the result cannot be stored.
LEMMA PutOutputsFailsStep == ASSUME ImageInv, NEW t \in Tasks, PutOutputsFails(t) PROVE StepOf(t)
<1>1. Catch(t, "unknown") /\ OnlyCatches(t) /\ mode = "serving" /\ runner[t] = "storing"
  BY DEF PutOutputsFails, OnlyCatches, history
<1>2. MayCatch(t, "unknown")
  BY <1>1 DEF MayCatch, InRun
<1> QED BY <1>1, <1>2, CatchStep

\* The capacity is there.
LEMMA AdmittedStep == ASSUME ImageInv, NEW t \in Tasks, Admitted(t) PROVE StepOf(t)
<1>1. TypeOK /\ TaskInv(t)
  BY DEF ImageInv
<1>2. /\ mode = "serving" /\ runner[t] = "admission" /\ section = NoSection
      /\ UNCHANGED <<inputs, files, manifest, mode, account, timers, todo, sent, charged, crashes>>
  BY DEF Admitted, Idle, history
<1>3. /\ Has(t) /\ row[t] \in Rows
      /\ Status(t) # "cancelled" => t \in Active /\ ledger[t].state \in {"reserved", "outcome_unknown"}
                                             /\ ledger[t] # NeverUsed
  BY <1>2, RunnerIsActive
<1>4. CASE Status(t) # "queued" /\ Ends(t) /\ UNCHANGED <<row, ledger, work>>
  <2>1. TypeOK' /\ MovesOnly(t)
    BY <1>1, <1>2, <1>4 DEF TypeOK, Ends, MovesOnly, Untouched
  <2>2. Settles(t) /\ KeepsKey(t)
    BY <1>4 DEF Settles, KeepsKey, Has, Holding
  <2>3. Accounted(t)'
    BY <1>1, <1>2, <1>4 DEF TaskInv, Accounted, Has, Status, Active, Holding, Blank
  <2>4. Runs(t)' /\ Cut(t)' /\ Kept(t)'
    BY <1>1, <1>2, <1>3, <1>4 DEF TaskInv, Runs, Cut, Kept, Ends, Has, Status, InRun, TypeOK
  <2>5. Seen(t)
    BY <1>2, <1>4 DEF Seen
  <2> QED BY <2>1, <2>2, <2>3, <2>4, <2>5 DEF StepOf, TaskInv
<1>5. CASE Status(t) = "queued" /\ MarkKnownFailedAndRelease(t) /\ Ends(t) /\ UNCHANGED work
  <2>1. /\ OnlyRowOf(t, "failed") /\ row'[t].receipt = row[t].receipt
        /\ OnlyLedgerOf(t, {"reserved"}, "released")
    BY <1>1, <1>3, <1>5, SetStatusWrites, SettleWrites DEF MarkKnownFailedAndRelease, Statuses
  <2>2. t \notin charged
    BY <1>1, <1>2, <1>5 DEF TaskInv, Accounted, Active
  <2>3. TypeOK'
    BY <1>1, <1>2, <1>5, <2>1 DEF TypeOK, OnlyRowOf, RowType, OnlyLedgerOf, LedgerType, Ends
  <2>4. MovesOnly(t)
    BY <1>1, <1>2, <1>5, <2>1 DEF MovesOnly, Untouched, TypeOK, OnlyRowOf, OnlyLedgerOf, Ends
  <2>5. Settles(t) /\ KeepsKey(t)
    BY <1>3, <2>1 DEF Settles, KeepsKey, Has, Holding, OnlyRowOf, OnlyLedgerOf
  <2>6. Accounted(t)'
    BY <1>1, <1>2, <1>3, <1>5, <2>1, <2>2
       DEF TaskInv, Accounted, Has, Status, Active, Holding, OnlyRowOf, OnlyLedgerOf
  <2>7. Runs(t)' /\ Cut(t)' /\ Kept(t)'
    BY <1>1, <1>2, <1>3, <1>5, <2>1 DEF TaskInv, Runs, Cut, Kept, Ends, Has, Status, InRun, TypeOK, OnlyRowOf, Rows, NoRow
  <2>8. Seen(t)
    BY <1>2, <1>3, <1>5, <2>1, <2>2 DEF Seen, Becomes, OnlyRowOf, Has, Status, Rows, NoRow
  <2> QED BY <2>3, <2>4, <2>5, <2>6, <2>7, <2>8 DEF StepOf, TaskInv
<1>6. CASE /\ Status(t) = "queued" /\ SetStatus(t, "running")
           /\ runner' = [runner EXCEPT ![t] = "rate"]
           /\ work' = [work EXCEPT ![t] = NoWork]
           /\ UNCHANGED <<ledger, section>>
  <2>1. /\ OnlyRowOf(t, "running") /\ row'[t].receipt = row[t].receipt
        /\ row'[t].retries = row[t].retries
    BY <1>1, <1>3, <1>6, SetStatusWrites DEF Statuses
  <2>2. t \notin charged /\ ~row[t].receipt /\ sent[t] = 0 /\ Blank(t)
    BY <1>1, <1>2, <1>6 DEF TaskInv, Accounted, Active
  <2>3. Hops(row[t].key) \in Nat /\ Hops(row[t].key) > 0
    BY <1>3, RelayAssumption DEF Rows
  <2>4. TypeOK'
    <3>1. work' \in [Tasks -> [hop : 0 .. Outputs, good : 0 .. Outputs, unsure : BOOLEAN, refused : BOOLEAN]]
      BY <1>1, <1>6, RelayAssumption DEF TypeOK, NoWork
    <3> QED BY <1>1, <1>2, <1>6, <2>1, <3>1 DEF TypeOK, OnlyRowOf, RowType
  <2>5. MovesOnly(t)
    BY <1>1, <1>2, <1>6, <2>1 DEF MovesOnly, Untouched, TypeOK, OnlyRowOf
  <2>6. Settles(t) /\ KeepsKey(t)
    BY <1>3, <1>6, <2>1 DEF Settles, KeepsKey, Has, Holding, OnlyRowOf
  <2>7. Accounted(t)'
    BY <1>1, <1>2, <1>3, <1>6, <2>1, <2>2, <2>3
       DEF TaskInv, Accounted, Has, Status, Active, Holding, OnlyRowOf, Blank
  <2>8. Runs(t)' /\ Cut(t)' /\ Kept(t)'
    BY <1>1, <1>2, <1>3, <1>6, <2>1, <2>2, <2>3
       DEF TaskInv, Runs, Cut, Kept, Has, Status, InRun, TypeOK, OnlyRowOf, Rows, NoRow, NoWork, Blank, NoSection
  <2>9. Seen(t)
    BY <1>2, <1>3, <1>6, <2>1 DEF Seen, Becomes, OnlyRowOf, Has, Status, Rows, NoRow
  <2> QED BY <2>4, <2>5, <2>6, <2>7, <2>8, <2>9 DEF StepOf, TaskInv
<1> QED BY <1>4, <1>5, <1>6 DEF Admitted

\* The POST goes out: from here on it may have been paid.
LEMMA PostToProviderStep == ASSUME ImageInv, NEW t \in Tasks, PostToProvider(t) PROVE StepOf(t)
<1>1. TypeOK /\ TaskInv(t)
  BY DEF ImageInv
<1>2. /\ mode = "serving" /\ runner[t] = "rate"
      /\ sent' = [sent EXCEPT ![t] = @ + 1]
      /\ runner' = [runner EXCEPT ![t] = "posted"]
      /\ UNCHANGED <<row, ledger, inputs, files, manifest, mode, account, timers, section, todo, crashes>>
  BY DEF PostToProvider, Idle, durable
<1>3. PICK accepts \in BOOLEAN :
        /\ charged' = IF accepts THEN charged \cup {t} ELSE charged
        /\ work' = [work EXCEPT ![t].refused = ~accepts, ![t].hop = @ + 1]
  BY DEF PostToProvider
<1>4. /\ Has(t) /\ row[t] \in Rows /\ Status(t) = "running"
      /\ t \in Active /\ ledger[t].state \in {"reserved", "outcome_unknown"} /\ ledger[t] # NeverUsed
      /\ section # <<"accept", t>> /\ section # <<"sweep", t>> /\ section # <<"unlink", t>>
  BY <1>1, <1>2, RunnerIsActive DEF InRun, TaskInv, Runs
<1>5. /\ sent[t] = work[t].hop /\ work[t].hop < Hops(row[t].key) /\ work[t].good <= work[t].hop
      /\ Hops(row[t].key) \in Nat /\ Hops(row[t].key) <= Outputs /\ Outputs \in Nat
      /\ work[t].hop \in Nat /\ work[t].good \in Nat /\ Blank(t)
      /\ work[t].good > 0 => row[t].receipt
  BY <1>1, <1>2, <1>4, RelayAssumption DEF TaskInv, Runs, InRun, Rows, TypeOK
<1> DEFINE w == [work EXCEPT ![t].refused = ~accepts]
           Works == [hop : 0 .. Outputs, good : 0 .. Outputs, unsure : BOOLEAN, refused : BOOLEAN]
<1>6. /\ w \in [Tasks -> Works] /\ w[t].hop = work[t].hop /\ w[t].good = work[t].good
      /\ w[t].refused = ~accepts /\ \A u \in Tasks \ {t} : w[u] = work[u]
  <2>1. work \in [Tasks -> Works]
    BY <1>1 DEF TypeOK
  <2> QED BY <2>1
<1>7. work' = [w EXCEPT ![t].hop = @ + 1]
  BY <1>3
<1> HIDE DEF w
<1>8. /\ work' \in [Tasks -> Works] /\ work'[t].hop = work[t].hop + 1 /\ work'[t].good = work[t].good
      /\ work'[t].refused = ~accepts /\ \A u \in Tasks \ {t} : work'[u] = work[u]
  <2>1. w[t].hop + 1 \in 0 .. Outputs
    BY <1>5, <1>6
  <2> QED BY <1>6, <1>7, <2>1
<1>9. TypeOK'
  BY <1>1, <1>2, <1>3, <1>8 DEF TypeOK
<1>10. MovesOnly(t)
  BY <1>1, <1>2, <1>3, <1>8 DEF MovesOnly, Untouched, TypeOK
<1>11. Settles(t) /\ KeepsKey(t)
  BY <1>2 DEF Settles, KeepsKey, Has, Holding
<1>12. sent'[t] = sent[t] + 1
  BY <1>1, <1>2 DEF TypeOK
<1>13. Accounted(t)'
  <2>1. t \in Holding
    BY <1>4 DEF Holding
  <2>2. t \in charged => row[t].receipt
    BY <1>1, <1>2, <1>4 DEF TaskInv, Accounted
  <2>3. t \in charged' /\ ~row[t].receipt => ~work'[t].refused
    BY <1>3, <1>8, <2>2
  <2> QED BY <1>1, <1>2, <1>3, <1>4, <1>5, <1>12, <2>1, <2>3
             DEF TaskInv, Accounted, Has, Status, Active, Holding, Blank, TypeOK
<1>14. Runs(t)' /\ Cut(t)' /\ Kept(t)'
  BY <1>1, <1>2, <1>3, <1>4, <1>5, <1>8, <1>12 DEF Runs, Cut, Kept, Has, Status, InRun, TypeOK, Blank
<1>15. Seen(t)
  BY <1>2, <1>3, <1>4 DEF Seen
<1> QED BY <1>9, <1>10, <1>11, <1>13, <1>14, <1>15 DEF StepOf, TaskInv

\* The Provider's receipt is recorded.
LEMMA RecordReceiptStep == ASSUME ImageInv, NEW t \in Tasks, RecordReceipt(t) PROVE StepOf(t)
<1>1. TypeOK /\ TaskInv(t)
  BY DEF ImageInv
<1>2. /\ mode = "serving" /\ runner[t] = "posted" /\ ~work[t].refused
      /\ row' = [row EXCEPT ![t].receipt = TRUE]
      /\ Settle(t, {"reserved", "outcome_unknown"}, "outcome_unknown")
      /\ runner' = [runner EXCEPT ![t] = "answered"]
      /\ UNCHANGED <<inputs, files, manifest, mode, account, work, timers, section, todo, sent, charged, crashes>>
  BY DEF RecordReceipt, Idle, history
<1>3. /\ Has(t) /\ row[t] \in Rows /\ Status(t) = "running"
      /\ t \in Active /\ ledger[t].state \in {"reserved", "outcome_unknown"} /\ ledger[t] # NeverUsed
      /\ section # <<"accept", t>> /\ section # <<"sweep", t>> /\ section # <<"unlink", t>>
  BY <1>1, <1>2, RunnerIsActive DEF InRun, TaskInv, Runs
<1>4. /\ row' \in RowType /\ row'[t] \in Rows
      /\ \A u \in Tasks \ {t} : row'[u] = row[u]
      /\ row'[t] = [row[t] EXCEPT !.receipt = TRUE]
  BY <1>1, <1>2, <1>3 DEF TypeOK, RowType, Rows
<1>5. /\ row'[t].status = "running" /\ row'[t].key = row[t].key /\ row'[t].acked = row[t].acked
      /\ row'[t].receipt /\ row'[t].retries = row[t].retries
  BY <1>3, <1>4 DEF Rows, Status
<1>6. OnlyLedgerOf(t, {"reserved", "outcome_unknown"}, "outcome_unknown")
  BY <1>1, <1>2, SettleWrites
<1>7. t \in charged
  BY <1>1, <1>2 DEF TaskInv, Runs
<1>8. TypeOK'
  BY <1>1, <1>2, <1>4, <1>6 DEF TypeOK, RowType, OnlyLedgerOf, LedgerType
<1>9. MovesOnly(t)
  BY <1>1, <1>2, <1>4, <1>6 DEF MovesOnly, Untouched, TypeOK, OnlyLedgerOf
<1>10. Settles(t) /\ KeepsKey(t)
  BY <1>3, <1>5, <1>6 DEF Settles, KeepsKey, Has, Holding, OnlyLedgerOf
<1>11. Accounted(t)'
  BY <1>1, <1>2, <1>3, <1>5, <1>6, <1>7
     DEF TaskInv, Accounted, Has, Status, Active, Holding, OnlyLedgerOf, Blank
<1>12. Runs(t)' /\ Cut(t)' /\ Kept(t)'
  BY <1>1, <1>2, <1>3, <1>4, <1>5 DEF TaskInv, Runs, Cut, Kept, Has, Status, InRun, TypeOK, Blank, Rows, NoRow
<1>13. Seen(t)
  BY <1>2, <1>3, <1>4, <1>5 DEF Seen, Becomes, Has, Status, Rows, NoRow
<1> QED BY <1>8, <1>9, <1>10, <1>11, <1>12, <1>13 DEF StepOf, TaskInv

\* What an answer is asked for: what is left of the outputs, for one POST of
\* all; for a POST per output a single one.
LEMMA AskedFits ==
    ASSUME NEW k \in Keys, NEW hop \in Nat, NEW good \in Nat, good < hop, hop <= Hops(k),
           NEW valid \in 0 .. (Outputs \div Hops(k))
    PROVE  good + valid <= Outputs /\ (Hops(k) # 1 => good + valid <= hop)
<1>1. Outputs \in Nat \ {0} /\ Hops(k) \in {1, Outputs}
  BY RelayAssumption
<1>2. CASE Hops(k) = 1
  <2>1. Outputs \div Hops(k) = Outputs
    BY <1>1, <1>2
  <2> QED BY <1>1, <1>2, <2>1
<1>3. CASE Hops(k) = Outputs
  <2>1. Outputs \div Hops(k) = 1
    BY <1>1, <1>3
  <2> QED BY <1>1, <1>3, <2>1
<1> QED BY <1>1, <1>2, <1>3

\* The outputs of an answer are read.
LEMMA ReadAnswerStep == ASSUME ImageInv, NEW t \in Tasks, ReadAnswer(t) PROVE StepOf(t)
<1> DEFINE k     == row[t].key
           asked == Outputs \div Hops(k)
           last  == work[t].hop = Hops(k)
           Works == [hop : 0 .. Outputs, good : 0 .. Outputs, unsure : BOOLEAN, refused : BOOLEAN]
<1>1. TypeOK /\ TaskInv(t)
  BY DEF ImageInv
<1>2. /\ mode = "serving" /\ section = NoSection /\ runner[t] = "answered"
      /\ UNCHANGED <<inputs, files, manifest, mode, account, todo, sent, charged, crashes>>
  BY DEF ReadAnswer, Idle, history
<1>3. PICK valid \in 0 .. asked, extra \in BOOLEAN :
        \/ last /\ work[t].good + valid = 0 /\ Catch(t, "unknown")
        \/ /\ ~last \/ work[t].good + valid > 0
           /\ work' = [work EXCEPT ![t].good = work[t].good + valid, ![t].unsure = @ \/ valid < asked \/ extra]
           /\ runner' = [runner EXCEPT ![t] = IF last THEN "storing" ELSE "rate"]
           /\ section' = IF last THEN <<"run", t>> ELSE NoSection
           /\ UNCHANGED <<row, ledger, timers>>
  BY DEF ReadAnswer
<1>4. /\ Has(t) /\ row[t] \in Rows /\ Status(t) = "running" /\ row[t].receipt
      /\ t \in Active /\ ledger[t].state \in {"reserved", "outcome_unknown"} /\ ledger[t] # NeverUsed
      /\ work[t].good < work[t].hop /\ sent[t] = work[t].hop /\ sent[t] <= Hops(k) /\ Blank(t)
  BY <1>1, <1>2, RunnerIsActive DEF InRun, TaskInv, Runs, Accounted
<1>5. /\ k \in Keys /\ work[t].hop \in Nat /\ work[t].good \in Nat
      /\ Outputs \in Nat \ {0} /\ Hops(k) \in {1, Outputs}
  BY <1>1, <1>4, RelayAssumption DEF Rows, TypeOK
<1>6. /\ work[t].good + valid <= Outputs /\ work[t].good + valid \in Nat
      /\ ~last => work[t].good + valid <= work[t].hop /\ work[t].hop < Hops(k)
  <2>1. /\ work[t].good + valid <= Outputs
        /\ Hops(k) # 1 => work[t].good + valid <= work[t].hop
    BY <1>4, <1>5, AskedFits
  <2>2. valid \in Nat
    <3>1. asked \in Nat
      <4>1. CASE Hops(k) = 1
        BY <1>5, <4>1
      <4>2. CASE Hops(k) = Outputs
        BY <1>5, <4>2
      <4> QED BY <1>5, <4>1, <4>2
    <3> HIDE DEF asked
    <3> QED BY <3>1
  <2> QED BY <1>4, <1>5, <2>1, <2>2
<1>7. CASE last /\ work[t].good + valid = 0 /\ Catch(t, "unknown")
  <2>1. MayCatch(t, "unknown") /\ OnlyCatches(t)
    BY <1>2 DEF MayCatch, OnlyCatches, InRun, history
  <2> QED BY <1>7, <2>1, CatchStep
<1>8. CASE /\ ~last \/ work[t].good + valid > 0
           /\ work' = [work EXCEPT ![t].good = work[t].good + valid, ![t].unsure = @ \/ valid < asked \/ extra]
           /\ runner' = [runner EXCEPT ![t] = IF last THEN "storing" ELSE "rate"]
           /\ section' = IF last THEN <<"run", t>> ELSE NoSection
           /\ UNCHANGED <<row, ledger, timers>>
  <2> DEFINE w == [work EXCEPT ![t].good = work[t].good + valid]
             unsure == w[t].unsure \/ valid < asked \/ extra
  <2>1. /\ w \in [Tasks -> Works] /\ w[t].hop = work[t].hop /\ w[t].good = work[t].good + valid
        /\ \A u \in Tasks \ {t} : w[u] = work[u]
    <3>1. work \in [Tasks -> Works] /\ work[t].good + valid \in 0 .. Outputs
      BY <1>1, <1>6, RelayAssumption DEF TypeOK
    <3> HIDE DEF asked
    <3> QED BY <3>1
  <2>2. work' = [w EXCEPT ![t].unsure = unsure]
    BY <1>8
  <2>3. unsure \in BOOLEAN
    OBVIOUS
  <2> HIDE DEF w, unsure
  <2>4. /\ work' \in [Tasks -> Works] /\ work'[t].hop = work[t].hop /\ work'[t].good = work[t].good + valid
        /\ \A u \in Tasks \ {t} : work'[u] = work[u]
    BY <2>1, <2>2, <2>3
  <2> HIDE DEF asked
  <2>5. /\ TypeOK'
    BY <1>1, <1>2, <1>8, <2>4 DEF TypeOK
  <2>6. MovesOnly(t)
    BY <1>1, <1>2, <1>8, <2>4 DEF MovesOnly, Untouched, TypeOK
  <2>7. Settles(t) /\ KeepsKey(t)
    BY <1>8 DEF Settles, KeepsKey, Has, Holding
  <2>8. Accounted(t)'
    BY <1>1, <1>2, <1>4, <1>8 DEF TaskInv, Accounted, Has, Status, Active, Holding, Blank
  <2>9. Runs(t)' /\ Cut(t)' /\ Kept(t)'
    <3>1. CASE last
      BY <1>1, <1>2, <1>4, <1>5, <1>6, <1>8, <2>4, <3>1
         DEF TaskInv, Runs, Cut, Kept, Has, Status, InRun, TypeOK, Blank, NoSection
    <3>2. CASE ~last
      BY <1>1, <1>2, <1>4, <1>5, <1>6, <1>8, <2>4, <3>2
         DEF TaskInv, Runs, Cut, Kept, Has, Status, InRun, TypeOK, Blank, NoSection
    <3> QED BY <3>1, <3>2
  <2>10. Seen(t)
    BY <1>2, <1>8 DEF Seen
  <2> QED BY <2>5, <2>6, <2>7, <2>8, <2>9, <2>10 DEF StepOf, TaskInv
<1> QED BY <1>3, <1>7, <1>8

\* A file or the manifest of a result is written.
LEMMA StoringStep ==
    ASSUME ImageInv, NEW t \in Tasks, StoreOutput(t) \/ CommitManifest(t) PROVE StepOf(t)
<1>1. TypeOK /\ TaskInv(t)
  BY DEF ImageInv
<1>2. /\ mode = "serving" /\ runner[t] = "storing"
      /\ UNCHANGED <<row, ledger, inputs, mode, account, work, timers, section, todo, sent, charged, crashes>>
  BY DEF StoreOutput, CommitManifest, process, history
<1>3. /\ Has(t) /\ row[t] \in Rows /\ Status(t) = "running"
      /\ t \in Active /\ ledger[t] # NeverUsed
  BY <1>1, <1>2, RunnerIsActive DEF InRun, TaskInv, Runs
<1>4. /\ work[t].good \in 0 .. Outputs /\ work[t].good > 0 /\ files[t] \in Nat /\ files[t] <= work[t].good
      /\ Outputs \in Nat
  BY <1>1, <1>2, RelayAssumption DEF TypeOK, TaskInv, Runs
<1>5. Settles(t) /\ KeepsKey(t)
  BY <1>2 DEF Settles, KeepsKey, Has, Holding
<1>6. Seen(t)
  BY <1>2 DEF Seen
<1>7. CASE StoreOutput(t)
  <2>1. /\ files[t] < work[t].good /\ files' = [files EXCEPT ![t] = @ + 1]
        /\ manifest' = manifest /\ runner' = runner
    BY <1>7 DEF StoreOutput, process
  <2>2. /\ files[t] + 1 \in 0 .. Outputs /\ files[t] + 1 <= work[t].good
    BY <1>4, <2>1
  <2>3. TypeOK' /\ MovesOnly(t)
    BY <1>1, <1>2, <2>1, <2>2 DEF TypeOK, MovesOnly, Untouched
  <2>4. Accounted(t)'
    BY <1>1, <1>2, <1>3, <2>1 DEF TaskInv, Accounted, Has, Status, Active, Holding, Blank
  <2>5. Runs(t)' /\ Cut(t)' /\ Kept(t)'
    BY <1>1, <1>2, <1>3, <2>1, <2>2 DEF TaskInv, Runs, Cut, Kept, Has, Status, InRun, TypeOK
  <2> QED BY <1>5, <1>6, <2>3, <2>4, <2>5 DEF StepOf, TaskInv
<1>8. CASE CommitManifest(t)
  <2>1. /\ files[t] = work[t].good /\ files' = files
        /\ manifest' = manifest \cup {t} /\ runner' = [runner EXCEPT ![t] = "stored"]
    BY <1>8 DEF CommitManifest
  <2>2. TypeOK' /\ MovesOnly(t)
    BY <1>1, <1>2, <2>1 DEF TypeOK, MovesOnly, Untouched
  <2>3. Accounted(t)'
    BY <1>1, <1>2, <1>3, <2>1 DEF TaskInv, Accounted, Has, Status, Active, Holding, Blank
  <2>4. Runs(t)' /\ Cut(t)' /\ Kept(t)'
    BY <1>1, <1>2, <1>3, <1>4, <2>1 DEF TaskInv, Runs, Cut, Kept, Has, Status, InRun, TypeOK
  <2> QED BY <1>5, <1>6, <2>2, <2>3, <2>4 DEF StepOf, TaskInv
<1> QED BY <1>7, <1>8

SucceedsWith(t, n) == row' = [row EXCEPT ![t].status = "succeeded", ![t].valid = n]

\* The two ways a task succeeds: its row and its ledger, whatever the runner was.
LEMMA SucceedsStep ==
    ASSUME ImageInv, NEW t \in Tasks, Has(t), NEW n \in 1 .. Outputs,
           t \in manifest, files[t] = n,
           SucceedsWith(t, n),
           NEW from, "none" \notin from, "released" \notin from,
           NEW state \in {"settled", "outcome_unknown"}, Settle(t, from, state)
    PROVE  /\ OnlyRowOf(t, "succeeded") /\ row'[t].receipt = row[t].receipt
           /\ OnlyLedgerOf(t, from, state)
           /\ Settles(t) /\ KeepsKey(t)
           /\ UNCHANGED <<files, manifest, sent, charged, mode>> => Accounted(t)' /\ Kept(t)'
<1>1. TypeOK /\ TaskInv(t) /\ row[t] \in Rows /\ row \in RowType
  BY DEF ImageInv, TypeOK, RowType, Has
<1> DEFINE f == [row EXCEPT ![t].status = "succeeded"]
<1>2. /\ f \in RowType /\ f[t] \in Rows
      /\ \A u \in Tasks \ {t} : f[u] = row[u]
      /\ f[t].status = "succeeded" /\ f[t].key = row[t].key /\ f[t].acked = row[t].acked
      /\ f[t].receipt = row[t].receipt
  BY <1>1 DEF RowType, Rows, Statuses
<1>3. row' = [f EXCEPT ![t].valid = n]
  BY DEF SucceedsWith
<1> HIDE DEF f
<1>4. n \in 0 .. Outputs /\ n > 0
  BY RelayAssumption
<1>5. OnlyRowOf(t, "succeeded") /\ row'[t].receipt = row[t].receipt /\ row'[t].valid = n
  <2>1. row' = [f EXCEPT ![t].valid = n] /\ f \in RowType /\ f[t] \in Rows
    BY <1>2, <1>3
  <2>2. /\ row' \in RowType /\ row'[t] = [f[t] EXCEPT !.valid = n]
        /\ \A u \in Tasks \ {t} : row'[u] = f[u]
    BY <1>4, <2>1 DEF RowType, Rows
  <2> QED BY <1>2, <1>4, <2>2 DEF Rows, OnlyRowOf, Statuses
<1>6. OnlyLedgerOf(t, from, state)
  BY <1>1, SettleWrites
<1>7. Settles(t) /\ KeepsKey(t)
  <2>1. "settled" # "none" /\ ledger'[t].state = "released" => ledger[t].state = "released"
    BY <1>6 DEF OnlyLedgerOf
  <2>2. t \in Holding' => t \in Holding
    <3>1. ledger[t] \in {NeverUsed} \cup [state : {"reserved", "outcome_unknown", "settled", "released"},
                                         account : Accounts, owner : {OwnerOf(k) : k \in Keys}]
      BY <1>1 DEF TypeOK
    <3>2. ledger[t].state \in {"none", "reserved", "outcome_unknown", "settled", "released"}
      BY <3>1 DEF NeverUsed
    <3> QED BY <1>6, <3>2 DEF Holding, OnlyLedgerOf
  <2> QED BY <1>5, <1>6, <2>2 DEF Settles, KeepsKey, Has, OnlyRowOf, OnlyLedgerOf
<1>8. ASSUME UNCHANGED <<files, manifest, sent, charged, mode>> PROVE Accounted(t)' /\ Kept(t)'
  <2>1. t \in charged => t \in Holding'
    BY <1>1, <1>6 DEF TaskInv, Accounted, Holding, OnlyLedgerOf
  <2> QED BY <1>1, <1>4, <1>5, <1>6, <1>8, <2>1
             DEF TaskInv, Accounted, Kept, Has, Status, Active, OnlyRowOf, OnlyLedgerOf, NeverUsed
<1> QED BY <1>5, <1>6, <1>7, <1>8

\* The row is marked succeeded, behind its files.
LEMMA MarkSucceededStep == ASSUME ImageInv, NEW t \in Tasks, MarkSucceeded(t) PROVE StepOf(t)
<1> DEFINE from  == {"reserved", "outcome_unknown"}
           state == IF work[t].unsure THEN "outcome_unknown" ELSE "settled"
<1>1. TypeOK /\ TaskInv(t)
  BY DEF ImageInv
<1>2. /\ mode = "serving" /\ runner[t] = "stored"
      /\ SucceedsWith(t, work[t].good)
      /\ Settle(t, from, state)
      /\ work' = [work EXCEPT ![t] = NoWork]
      /\ runner' = [runner EXCEPT ![t] = "ending"] /\ section' = <<"run", t>>
      /\ UNCHANGED <<inputs, files, manifest, mode, account, timers, todo, sent, charged, crashes>>
  BY DEF MarkSucceeded, Ends, history, SucceedsWith
<1>3. Has(t) /\ work[t].good \in 1 .. Outputs /\ files[t] = work[t].good /\ t \in manifest
  BY <1>1, <1>2, RelayAssumption DEF TaskInv, Runs, InRun, TypeOK
<1>4. /\ OnlyRowOf(t, "succeeded")
      /\ OnlyLedgerOf(t, from, state)
      /\ Settles(t) /\ KeepsKey(t) /\ Accounted(t)' /\ Kept(t)'
  <2>1. "none" \notin from /\ "released" \notin from /\ state \in {"settled", "outcome_unknown"}
    OBVIOUS
  <2> HIDE DEF from, state
  <2> QED BY <1>2, <1>3, <2>1, SucceedsStep
<1>5. /\ work' \in [Tasks -> [hop : 0 .. Outputs, good : 0 .. Outputs, unsure : BOOLEAN, refused : BOOLEAN]]
      /\ \A u \in Tasks \ {t} : work'[u] = work[u]
  BY <1>1, <1>2, RelayAssumption DEF TypeOK, NoWork
<1>6. TypeOK'
  BY <1>1, <1>2, <1>4, <1>5 DEF TypeOK, OnlyRowOf, RowType, OnlyLedgerOf, LedgerType
<1>7. MovesOnly(t)
  BY <1>1, <1>2, <1>4, <1>5 DEF MovesOnly, Untouched, TypeOK, OnlyRowOf, OnlyLedgerOf
<1>8. Runs(t)' /\ Cut(t)'
  BY <1>1, <1>2, <1>4 DEF TaskInv, Runs, Cut, Has, Status, InRun, TypeOK, OnlyRowOf, Rows, NoRow
<1>9. Seen(t)
  <2>1. Status(t) = "running" /\ t \in charged
    BY <1>1, <1>2 DEF TaskInv, Runs, Accounted, InRun
  <2> QED BY <1>2, <1>3, <1>4, <2>1 DEF Seen, Becomes, OnlyRowOf, Has, Status, Rows, NoRow
<1> QED BY <1>4, <1>6, <1>7, <1>8, <1>9 DEF StepOf, TaskInv

\* The inputs of a task that is over are unlinked.
LEMMA DropInputStep == ASSUME ImageInv, NEW t \in Tasks, DropInput(t) PROVE StepOf(t)
<1>1. TypeOK /\ TaskInv(t)
  BY DEF ImageInv
<1>2. /\ mode = "serving" /\ runner[t] = "ending" /\ inputs' = inputs \ {t}
      /\ runner' = [runner EXCEPT ![t] = "none"] /\ section' = NoSection
      /\ UNCHANGED <<row, ledger, files, manifest, mode, account, work, timers, todo, sent, charged, crashes>>
  BY DEF DropInput, history
<1>3. TypeOK' /\ MovesOnly(t)
  BY <1>1, <1>2 DEF TypeOK, MovesOnly, Untouched
<1>4. Settles(t) /\ KeepsKey(t)
  BY <1>2 DEF Settles, KeepsKey, Has, Holding
<1>5. Accounted(t)'
  BY <1>1, <1>2 DEF TaskInv, Accounted, Has, Status, Active, Holding, Blank
<1>6. Runs(t)' /\ Cut(t)' /\ Kept(t)'
  BY <1>1, <1>2 DEF TaskInv, Runs, Cut, Kept, Has, Status, InRun, TypeOK, NoSection
<1>7. Seen(t)
  BY <1>2 DEF Seen
<1> QED BY <1>3, <1>4, <1>5, <1>6, <1>7 DEF StepOf, TaskInv

\* A timer of the task fires.
LEMMA TimerFiresStep == ASSUME ImageInv, NEW t \in Tasks, TimerFires(t) PROVE StepOf(t)
<1>1. TypeOK /\ TaskInv(t)
  BY DEF ImageInv
<1>2. /\ mode = "serving" /\ section = NoSection /\ timers' = timers \ {t}
      /\ \/ runner' = runner
         \/ /\ Status(t) = "queued" /\ runner[t] = "none"
            /\ runner' = [runner EXCEPT ![t] = "admission"]
      /\ UNCHANGED <<row, ledger, inputs, files, manifest, mode, account, work, section, todo, sent, charged, crashes>>
  BY DEF TimerFires, Idle, durable, history
<1>3. TypeOK' /\ MovesOnly(t)
  BY <1>1, <1>2 DEF TypeOK, MovesOnly, Untouched
<1>4. Settles(t) /\ KeepsKey(t)
  BY <1>2 DEF Settles, KeepsKey, Has, Holding
<1>5. Accounted(t)'
  BY <1>1, <1>2 DEF TaskInv, Accounted, Has, Status, Active, Holding, Blank, TypeOK
<1>6. Runs(t)' /\ Cut(t)' /\ Kept(t)'
  BY <1>1, <1>2 DEF TaskInv, Runs, Cut, Kept, Has, Status, InRun, TypeOK, NoSection, Blank, NoRow
<1>7. Seen(t)
  BY <1>2 DEF Seen
<1> QED BY <1>3, <1>4, <1>5, <1>6, <1>7 DEF StepOf, TaskInv

-----------------------------------------------------------------------------
(* Submission, requests and sweeps.                                        *)

\* The inputs of a new task are stored.
LEMMA StoreInputStep == ASSUME ImageInv, NEW t \in Tasks, StoreInput(t) PROVE StepOf(t)
<1>1. TypeOK /\ TaskInv(t)
  BY DEF ImageInv
<1>2. /\ mode = "serving" /\ section = <<"accept", t>> /\ inputs' = inputs \cup {t}
      /\ runner' = [runner EXCEPT ![t] = "admission"] /\ section' = NoSection
      /\ UNCHANGED <<row, ledger, files, manifest, mode, account, work, timers, todo, sent, charged, crashes>>
  BY DEF StoreInput, history
<1>3. Status(t) = "queued" /\ runner[t] = "none"
  BY <1>1, <1>2 DEF TaskInv, Cut
<1>4. TypeOK' /\ MovesOnly(t)
  BY <1>1, <1>2 DEF TypeOK, MovesOnly, Untouched
<1>5. Settles(t) /\ KeepsKey(t)
  BY <1>2 DEF Settles, KeepsKey, Has, Holding
<1>6. Accounted(t)'
  BY <1>1, <1>2, <1>3 DEF TaskInv, Accounted, Has, Status, Active, Holding, Blank
<1>7. Runs(t)' /\ Cut(t)' /\ Kept(t)'
  BY <1>1, <1>2, <1>3 DEF TaskInv, Runs, Cut, Kept, Has, Status, InRun, TypeOK, NoSection, NoRow
<1>8. Seen(t)
  BY <1>2 DEF Seen
<1> QED BY <1>4, <1>5, <1>6, <1>7, <1>8 DEF StepOf, TaskInv

\* The input of a new task cannot be stored: its reservation is given back.
LEMMA StoreInputFailsStep == ASSUME ImageInv, NEW t \in Tasks, StoreInputFails(t) PROVE StepOf(t)
<1>1. TypeOK /\ TaskInv(t)
  BY DEF ImageInv
<1>2. /\ mode = "serving" /\ section = <<"accept", t>>
      /\ row' = [row EXCEPT ![t] = NoRow] /\ section' = NoSection
      /\ UNCHANGED <<inputs, files, manifest, mode, account, runner, work, timers, todo, sent, charged, crashes>>
  BY DEF StoreInputFails, history
<1>3. Status(t) = "queued" /\ runner[t] = "none"
  BY <1>1, <1>2 DEF TaskInv, Cut
<1>4. t \notin charged /\ Has(t) /\ row[t] \in Rows /\ ledger[t] # NeverUsed
  BY <1>3, QueuedIsFree
<1>5. OnlyLedgerOf(t, {"reserved"}, "released")
  BY <1>1, SettleWrites DEF StoreInputFails
<1>6. TypeOK'
  BY <1>1, <1>2, <1>5 DEF TypeOK, OnlyLedgerOf, LedgerType
<1>7. MovesOnly(t)
  BY <1>1, <1>2, <1>5 DEF TypeOK, MovesOnly, Untouched, OnlyLedgerOf
<1>8. Settles(t) /\ KeepsKey(t)
  BY <1>1, <1>2, <1>5 DEF Settles, KeepsKey, Has, Holding, OnlyLedgerOf, TypeOK
<1>9. ~Has(t)' /\ Status(t)' = "none"
  BY <1>1, <1>2 DEF Has, Status, TypeOK, NoRow
<1>10. TaskInv(t)'
  BY <1>1, <1>2, <1>3, <1>4, <1>5, <1>9
     DEF TaskInv, Accounted, Runs, Cut, Kept, Active, Holding, OnlyLedgerOf, NoSection, InRun
<1>11. Seen(t)
  BY <1>2, <1>3, <1>4, <1>9 DEF Seen
<1> QED BY <1>6, <1>7, <1>8, <1>10, <1>11 DEF StepOf

\* The desktop cancels the task.
LEMMA CancelStep == ASSUME ImageInv, NEW t \in Tasks, Cancel(t) PROVE StepOf(t)
<1>1. TypeOK /\ TaskInv(t)
  BY DEF ImageInv
<1>2. /\ mode = "serving" /\ section = NoSection /\ Status(t) = "queued"
      /\ SetStatus(t, "cancelled") /\ Settle(t, {"reserved"}, "released")
      /\ timers' = timers \ {t} /\ inputs' = inputs \ {t}
      /\ UNCHANGED <<files, manifest, mode, account, runner, work, section, todo, sent, charged, crashes>>
  BY DEF Cancel, Idle, history
<1>3. t \notin charged /\ Has(t) /\ ledger[t] # NeverUsed /\ runner[t] \in {"none", "admission"} /\ ~row[t].receipt
  BY <1>2, QueuedIsFree
<1>4. /\ OnlyRowOf(t, "cancelled") /\ row'[t].receipt = row[t].receipt
      /\ OnlyLedgerOf(t, {"reserved"}, "released")
  BY <1>1, <1>2, <1>3, SetStatusWrites, SettleWrites DEF Statuses
<1>5. TypeOK'
  BY <1>1, <1>2, <1>4 DEF TypeOK, OnlyRowOf, RowType, OnlyLedgerOf, LedgerType
<1>6. MovesOnly(t)
  BY <1>1, <1>2, <1>4 DEF MovesOnly, Untouched, TypeOK, OnlyRowOf, OnlyLedgerOf
<1>7. Settles(t) /\ KeepsKey(t)
  BY <1>3, <1>4 DEF Settles, KeepsKey, Has, Holding, OnlyRowOf, OnlyLedgerOf
<1>8. Accounted(t)'
  BY <1>1, <1>2, <1>3, <1>4
     DEF TaskInv, Accounted, Has, Status, Active, Holding, OnlyRowOf, OnlyLedgerOf
<1>9. Runs(t)' /\ Cut(t)' /\ Kept(t)'
  BY <1>1, <1>2, <1>3, <1>4
     DEF TaskInv, Runs, Cut, Kept, Has, Status, InRun, TypeOK, OnlyRowOf, Rows, NoRow, NoSection
<1>10. Seen(t)
  BY <1>2, <1>3, <1>4 DEF Seen, Becomes, OnlyRowOf, Has, Status, Rows, NoRow
<1> QED BY <1>5, <1>6, <1>7, <1>8, <1>9, <1>10 DEF StepOf, TaskInv

\* The desktop acknowledges the result.
LEMMA AcknowledgeStep == ASSUME ImageInv, NEW t \in Tasks, Acknowledge(t) PROVE StepOf(t)
<1>1. TypeOK /\ TaskInv(t)
  BY DEF ImageInv
<1>2. /\ mode = "serving" /\ section = NoSection /\ Status(t) = "succeeded"
      /\ row' = [row EXCEPT ![t].acked = TRUE] /\ section' = <<"unlink", t>>
      /\ UNCHANGED <<ledger, inputs, files, manifest, mode, account, runner, work, timers, todo, sent, charged, crashes>>
  BY DEF Acknowledge, Idle, history
<1>3. row[t] \in Rows /\ Has(t) /\ row \in RowType
  BY <1>1, <1>2 DEF TypeOK, Has, Status, NoRow, RowType
<1>4. /\ row' \in RowType /\ row'[t] \in Rows /\ row'[t] = [row[t] EXCEPT !.acked = TRUE]
      /\ \A u \in Tasks \ {t} : row'[u] = row[u]
  BY <1>2, <1>3 DEF RowType, Rows
<1>5. /\ row'[t].status = "succeeded" /\ row'[t].key = row[t].key /\ row'[t].acked
      /\ row'[t].receipt = row[t].receipt
  BY <1>2, <1>3, <1>4 DEF Rows, Status
<1>6. TypeOK' /\ MovesOnly(t)
  BY <1>1, <1>2, <1>4 DEF TypeOK, RowType, MovesOnly, Untouched
<1>7. Settles(t) /\ KeepsKey(t)
  BY <1>2, <1>3, <1>5 DEF Settles, KeepsKey, Has, Holding
<1>8. Accounted(t)'
  BY <1>1, <1>2, <1>3, <1>5 DEF TaskInv, Accounted, Has, Status, Active, Holding
<1>9. Runs(t)' /\ Cut(t)' /\ Kept(t)'
  BY <1>1, <1>2, <1>3, <1>4, <1>5 DEF TaskInv, Runs, Cut, Kept, Has, Status, InRun, Rows, NoRow
<1>10. Seen(t)
  BY <1>2, <1>3, <1>4, <1>5 DEF Seen, Has, Status, Rows, NoRow
<1> QED BY <1>6, <1>7, <1>8, <1>9, <1>10 DEF StepOf, TaskInv

\* The files of an acknowledged result are unlinked.
LEMMA UnlinkOutputsStep == ASSUME ImageInv, NEW t \in Tasks, UnlinkOutputs(t) PROVE StepOf(t)
<1>1. TypeOK /\ TaskInv(t)
  BY DEF ImageInv
<1>2. /\ mode = "serving" /\ files' = [files EXCEPT ![t] = 0] /\ manifest' = manifest \ {t}
      /\ section' = NoSection
      /\ UNCHANGED <<row, ledger, inputs, mode, account, runner, work, timers, todo, sent, charged, crashes>>
  BY DEF UnlinkOutputs, history
<1>3. Status(t) = "succeeded" /\ row[t].acked
  BY <1>1 DEF UnlinkOutputs, TaskInv, Cut
<1>4. TypeOK' /\ MovesOnly(t)
  BY <1>1, <1>2, RelayAssumption DEF TypeOK, MovesOnly, Untouched
<1>5. Settles(t) /\ KeepsKey(t)
  BY <1>2 DEF Settles, KeepsKey, Has, Holding
<1>6. Accounted(t)'
  BY <1>1, <1>2, <1>3 DEF TaskInv, Accounted, Has, Status, Active, Holding, Blank, TypeOK
<1>7. Runs(t)' /\ Cut(t)' /\ Kept(t)'
  BY <1>1, <1>2, <1>3 DEF TaskInv, Runs, Cut, Kept, Has, Status, InRun, NoSection, NoRow
<1>8. Seen(t)
  BY <1>2 DEF Seen
<1> QED BY <1>4, <1>5, <1>6, <1>7, <1>8 DEF StepOf, TaskInv

\* The retention sweep takes a row.
LEMMA SweepRowStep == ASSUME ImageInv, NEW t \in Tasks, SweepRow(t) PROVE StepOf(t)
<1>1. TypeOK /\ TaskInv(t)
  BY DEF ImageInv
<1>2. /\ mode = "serving" /\ Has(t) /\ t \notin Active /\ runner[t] = "none"
      /\ row' = [row EXCEPT ![t] = NoRow] /\ section' = <<"sweep", t>>
      /\ UNCHANGED <<ledger, inputs, files, manifest, mode, account, runner, work, timers, todo, sent, charged, crashes>>
  BY DEF SweepRow, Idle, history
<1>3. ~Has(t)' /\ Status(t)' = "none" /\ ledger[t] # NeverUsed
  BY <1>1, <1>2 DEF Has, Status, TypeOK, NoRow, TaskInv, Accounted
<1>4. TypeOK' /\ MovesOnly(t)
  BY <1>1, <1>2 DEF TypeOK, MovesOnly, Untouched
<1>5. Settles(t) /\ KeepsKey(t)
  BY <1>2, <1>3 DEF Settles, KeepsKey, Holding
<1>6. TaskInv(t)'
  BY <1>1, <1>2, <1>3 DEF TaskInv, Accounted, Runs, Cut, Kept, Active, Holding, InRun
<1>7. Seen(t)
  <2>1. Status(t) \in {"succeeded", "failed", "failed_unknown", "cancelled"}
    BY <1>1, <1>2 DEF TypeOK, Has, Status, Active, Rows, Statuses
  <2> QED BY <1>2, <1>3, <2>1 DEF Seen
<1> QED BY <1>4, <1>5, <1>6, <1>7 DEF StepOf

\* The sweep unlinks the files of a row it took.
LEMMA SweepBlobsStep == ASSUME ImageInv, NEW t \in Tasks, SweepBlobs(t) PROVE StepOf(t)
<1>1. TypeOK /\ TaskInv(t)
  BY DEF ImageInv
<1>2. /\ mode = "serving" /\ section = <<"sweep", t>>
      /\ inputs' = inputs \ {t} /\ files' = [files EXCEPT ![t] = 0] /\ manifest' = manifest \ {t}
      /\ section' = NoSection
      /\ UNCHANGED <<row, ledger, mode, account, runner, work, timers, todo, sent, charged, crashes>>
  BY DEF SweepBlobs, history
<1>3. ~Has(t) /\ runner[t] = "none"
  BY <1>1, <1>2 DEF TaskInv, Cut, Runs
<1>4. TypeOK' /\ MovesOnly(t)
  BY <1>1, <1>2, RelayAssumption DEF TypeOK, MovesOnly, Untouched
<1>5. Settles(t) /\ KeepsKey(t)
  BY <1>2 DEF Settles, KeepsKey, Has, Holding
<1>6. Accounted(t)' /\ Runs(t)' /\ Cut(t)' /\ Kept(t)'
  BY <1>1, <1>2, <1>3
     DEF TaskInv, Accounted, Runs, Cut, Kept, Has, Status, Active, Holding, InRun, Blank, TypeOK, NoRow, NoSection
<1>7. Seen(t)
  BY <1>2 DEF Seen
<1> QED BY <1>4, <1>5, <1>6, <1>7 DEF StepOf, TaskInv

-----------------------------------------------------------------------------
(* Recovery.                                                               *)

\* The recovery finds a result's files and marks its task succeeded.
LEMMA RestoreResultStep == ASSUME ImageInv, NEW t \in Tasks, RestoreResult(t) PROVE StepOf(t)
<1> DEFINE from == {"reserved", "outcome_unknown", "settled"}
<1>1. TypeOK /\ TaskInv(t)
  BY DEF ImageInv
<1>2. /\ mode = "recovering" /\ Status(t) = "failed_unknown"
      /\ SucceedsWith(t, files[t]) /\ Settle(t, from, "outcome_unknown")
      /\ UNCHANGED <<inputs, files, manifest, mode, account, runner, work, timers, section, todo, sent, charged, crashes>>
  BY DEF RestoreResult, Restorable, SucceedsWith, process, history
<1>3. Has(t) /\ files[t] \in 1 .. Outputs /\ t \in manifest
  BY <1>1, RelayAssumption DEF RestoreResult, Restorable, Readable, Has, Status, NoRow, TypeOK
<1>4. /\ OnlyRowOf(t, "succeeded") /\ OnlyLedgerOf(t, from, "outcome_unknown")
      /\ Settles(t) /\ KeepsKey(t) /\ Accounted(t)' /\ Kept(t)'
  <2>1. "none" \notin from /\ "released" \notin from
    OBVIOUS
  <2> HIDE DEF from
  <2> QED BY <1>2, <1>3, <2>1, SucceedsStep
<1>5. TypeOK'
  BY <1>1, <1>2, <1>4 DEF TypeOK, OnlyRowOf, RowType, OnlyLedgerOf, LedgerType
<1>6. MovesOnly(t)
  BY <1>1, <1>2, <1>4 DEF MovesOnly, Untouched, TypeOK, OnlyRowOf, OnlyLedgerOf
<1>7. Runs(t)' /\ Cut(t)'
  BY <1>1, <1>2, <1>4 DEF TaskInv, Runs, Cut, Has, Status, InRun, OnlyRowOf, Rows, NoRow, NoSection
<1>8. Seen(t)
  <2>1. t \in charged
    BY <1>1, <1>3 DEF RestoreResult, Restorable, TaskInv, Accounted
  <2> QED BY <1>2, <1>3, <1>4, <2>1 DEF Seen, Becomes, OnlyRowOf, Has, Status, Rows, NoRow
<1> QED BY <1>4, <1>5, <1>6, <1>7, <1>8 DEF StepOf, TaskInv

\* The recovery drops the input of a task that will not run again.
LEMMA DropRecoveredStep == ASSUME ImageInv, NEW t \in Tasks, DropRecovered(t) PROVE StepOf(t)
<1>1. TypeOK /\ TaskInv(t)
  BY DEF ImageInv
<1>2. /\ inputs' = inputs \ {t} /\ todo' = todo \ {t}
      /\ UNCHANGED <<row, ledger, files, manifest, mode, account, runner, work, timers, section, sent, charged, crashes>>
  BY DEF DropRecovered, history
<1>3. TypeOK' /\ MovesOnly(t)
  BY <1>1, <1>2 DEF TypeOK, MovesOnly, Untouched
<1>4. Settles(t) /\ KeepsKey(t)
  BY <1>2 DEF Settles, KeepsKey, Has, Holding
<1>5. TaskInv(t)'
  BY <1>1, <1>2 DEF TaskInv, Accounted, Runs, Cut, Kept, Has, Status, Active, Holding, Blank
<1>6. Seen(t)
  BY <1>2 DEF Seen
<1> QED BY <1>3, <1>4, <1>5, <1>6 DEF StepOf

\* The recovery runs a task that was queued.
LEMMA ResumeQueuedStep == ASSUME ImageInv, NEW t \in Tasks, ResumeQueued(t) PROVE StepOf(t)
<1>1. TypeOK /\ TaskInv(t)
  BY DEF ImageInv
<1>2. /\ mode = "recovering" /\ Status(t) = "queued" /\ todo' = todo \ {t}
      /\ UNCHANGED <<inputs, files, manifest, mode, account, work, timers, section, sent, charged, crashes>>
  BY DEF ResumeQueued, UnknownDone, history
<1>3. /\ t \notin charged /\ Has(t) /\ row[t] \in Rows /\ ledger[t] # NeverUsed
      /\ ~row[t].receipt /\ sent[t] = 0 /\ Blank(t) /\ section = NoSection
  BY <1>1, <1>2, QueuedIsFree DEF TaskInv, Cut
<1>4. CASE runner' = [runner EXCEPT ![t] = "admission"] /\ UNCHANGED <<row, ledger>>
  <2>1. TypeOK' /\ MovesOnly(t)
    BY <1>1, <1>2, <1>4 DEF TypeOK, MovesOnly, Untouched
  <2>2. Settles(t) /\ KeepsKey(t)
    BY <1>4 DEF Settles, KeepsKey, Has, Holding
  <2>3. Accounted(t)'
    BY <1>1, <1>2, <1>3, <1>4 DEF TaskInv, Accounted, Has, Status, Active, Holding, Blank
  <2>4. Runs(t)' /\ Cut(t)' /\ Kept(t)'
    BY <1>1, <1>2, <1>3, <1>4 DEF TaskInv, Runs, Cut, Kept, Has, Status, InRun, TypeOK, NoSection
  <2>5. Seen(t)
    BY <1>2, <1>4 DEF Seen
  <2> QED BY <2>1, <2>2, <2>3, <2>4, <2>5 DEF StepOf, TaskInv
<1>5. CASE MarkKnownFailedAndRelease(t) /\ UNCHANGED runner
  <2>1. /\ OnlyRowOf(t, "failed") /\ row'[t].receipt = row[t].receipt
        /\ OnlyLedgerOf(t, {"reserved"}, "released")
    BY <1>1, <1>3, <1>5, SetStatusWrites, SettleWrites DEF MarkKnownFailedAndRelease, Statuses
  <2>2. TypeOK'
    BY <1>1, <1>2, <1>5, <2>1 DEF TypeOK, OnlyRowOf, RowType, OnlyLedgerOf, LedgerType
  <2>3. MovesOnly(t)
    BY <1>1, <1>2, <1>5, <2>1 DEF MovesOnly, Untouched, TypeOK, OnlyRowOf, OnlyLedgerOf
  <2>4. Settles(t) /\ KeepsKey(t)
    BY <1>3, <2>1 DEF Settles, KeepsKey, Has, Holding, OnlyRowOf, OnlyLedgerOf
  <2>5. Accounted(t)'
    BY <1>1, <1>2, <1>3, <1>5, <2>1
       DEF TaskInv, Accounted, Has, Status, Active, Holding, OnlyRowOf, OnlyLedgerOf
  <2>6. runner[t] = "none"
    BY <1>1 DEF TaskInv, Runs, ResumeQueued
  <2>7. Runs(t)' /\ Cut(t)' /\ Kept(t)'
    BY <1>1, <1>2, <1>3, <1>5, <2>1, <2>6 DEF Runs, Cut, Kept, Has, Status, InRun, OnlyRowOf, Rows, NoRow, NoSection
  <2>8. Seen(t)
    BY <1>2, <1>3, <2>1 DEF Seen, Becomes, OnlyRowOf, Has, Status, Rows, NoRow
  <2> QED BY <2>2, <2>3, <2>4, <2>5, <2>7, <2>8 DEF StepOf, TaskInv
<1> QED BY <1>4, <1>5 DEF ResumeQueued

-----------------------------------------------------------------------------
(* The steps that are about more than one row of their own.                *)

\* A new reservation: one more is held, within both quotas.
LEMMA CreateKeeps ==
    ASSUME ImageInv, NEW k \in Keys, NEW t \in Tasks, CreateWithReservation(k, t)
    PROVE  ImageInv'
<1> DEFINE new == [status |-> "queued", key |-> k, receipt |-> FALSE, valid |-> 0, acked |-> FALSE, retries |-> 0]
           paid == [state |-> "reserved", account |-> account, owner |-> OwnerOf(k)]
<1>1. TypeOK /\ TaskInv(t)
  BY DEF ImageInv
<1>2. /\ mode = "serving" /\ section = NoSection /\ Admissible(k) /\ ledger[t] = NeverUsed
      /\ row' = [row EXCEPT ![t] = new] /\ ledger' = [ledger EXCEPT ![t] = paid]
      /\ section' = <<"accept", t>>
      /\ UNCHANGED <<inputs, files, manifest, mode, account, runner, work, timers, todo, sent, charged, crashes>>
  BY DEF CreateWithReservation, Idle, history
<1>3. new \in Rows /\ new # NoRow
  <2>1. 0 \in 0 .. Outputs /\ 0 \in 0 .. MaxRetries + 1
    BY RelayAssumption
  <2> QED BY <2>1 DEF Rows, Statuses, NoRow
<1>4. paid \in [state : {"reserved", "outcome_unknown", "settled", "released"},
                account : Accounts, owner : {OwnerOf(j) : j \in Keys}] /\ paid # NeverUsed
  BY <1>1 DEF TypeOK, NeverUsed
<1>5. row'[t] = new /\ ledger'[t] = paid
  BY <1>1, <1>2 DEF TypeOK
<1>6. ~Has(t) /\ sent[t] = 0 /\ t \notin charged /\ Blank(t) /\ runner[t] = "none" /\ t \notin todo
  BY <1>1, <1>2 DEF TaskInv, Accounted, Runs
<1> HIDE DEF new, paid
<1>7. TypeOK'
  BY <1>1, <1>2, <1>3, <1>4 DEF TypeOK
<1>8. MovesOnly(t)
  BY <1>1, <1>2 DEF TypeOK, MovesOnly, Untouched
<1>9. \A u \in Tasks \ {t} : TaskInv(u)'
  BY <1>8, OtherTasks
<1>10. TaskInv(t)'
  <2>1. /\ Has(t)' /\ Status(t)' = "queued" /\ ~row'[t].receipt /\ row'[t].retries = 0
        /\ ledger'[t].state = "reserved" /\ ledger'[t] # NeverUsed
    BY <1>3, <1>4, <1>5 DEF Has, Status, new, paid
  <2>2. 0 <= MaxRetries /\ 0 <= Hops(row'[t].key)
    BY <1>3, <1>5, RelayAssumption DEF Rows
  <2>3. Accounted(t)'
    BY <1>2, <1>6, <2>1, <2>2 DEF Accounted, Active, Blank
  <2>4. Runs(t)' /\ Cut(t)' /\ Kept(t)'
    BY <1>2, <1>6, <2>1 DEF Runs, Cut, Kept, InRun, Blank
  <2> QED BY <2>3, <2>4 DEF TaskInv
<1>11. KeysApart'
  <2>1. /\ \A u \in Tasks : Has(u)' => u = t \/ (Has(u) /\ row'[u].key = row[u].key)
        /\ row'[t].key = k
    BY <1>1, <1>2, <1>5 DEF TypeOK, Has, new
  <2>2. \A u \in Tasks : Has(u) => row[u].key # k
    BY <1>2 DEF Admissible, KeyRows
  <2> QED BY <2>1, <2>2 DEF ImageInv, KeysApart
<1>12. WithinQuotas'
  <2>1. Holding' = Holding \cup {t} /\ t \notin Holding
    BY <1>1, <1>2, <1>5 DEF Holding, TypeOK, NeverUsed, paid
  <2>2. \A o : OfOwner(o)' = IF o = OwnerOf(k) THEN OfOwner(o) \cup {t} ELSE OfOwner(o)
    BY <1>1, <1>2, <1>4, <1>5 DEF OfOwner, TypeOK, paid
  <2>3. \A a : OfAccount(a)' = IF a = account THEN OfAccount(a) \cup {t} ELSE OfAccount(a)
    BY <1>1, <1>2, <1>4, <1>5 DEF OfAccount, TypeOK, paid
  <2>4. t \notin Holding /\ Holding \subseteq Tasks /\ IsFiniteSet(Tasks)
    BY <2>1, RelayAssumption DEF Holding
  <2>5. ASSUME NEW S \in SUBSET Tasks
        PROVE  /\ Outputs * Cardinality((Holding \cap S) \cup {t}) = Outputs * Cardinality(Holding \cap S) + Outputs
               /\ Outputs * Cardinality(Holding \cap S) \in Nat
    <3> DEFINE n == Cardinality(Holding \cap S)
    <3>1. IsFiniteSet(Holding \cap S) /\ n \in Nat
      BY <2>4, FS_Subset, FS_CardinalityType
    <3>2. Cardinality((Holding \cap S) \cup {t}) = n + 1
      BY <2>4, <3>1, FS_AddElement
    <3> HIDE DEF n
    <3>3. Outputs * (n + 1) = Outputs * n + Outputs /\ Outputs * n \in Nat
      BY <3>1, RelayAssumption
    <3> QED BY <3>2, <3>3 DEF n
  <2>6. ASSUME NEW o \in {OwnerOf(j) : j \in Keys} PROVE HeldBy(OfOwner(o))' <= OwnerQuota
    <3>1. HeldBy(OfOwner(o)) <= OwnerQuota
      BY DEF ImageInv, WithinQuotas
    <3>2. CASE o = OwnerOf(k)
      <4>1. Holding' \cap OfOwner(o)' = (Holding \cap OfOwner(o)) \cup {t}
        BY <2>1, <2>2, <3>2
      <4>2. HeldBy(OfOwner(o)) + Outputs <= OwnerQuota
        BY <1>2, <3>2 DEF Admissible
      <4>3. OfOwner(o) \in SUBSET Tasks
        BY DEF OfOwner
      <4> QED BY <2>5, <4>1, <4>2, <4>3 DEF HeldBy
    <3>3. CASE o # OwnerOf(k)
      <4>1. Holding' \cap OfOwner(o)' = Holding \cap OfOwner(o)
        BY <1>2, <2>1, <2>2, <3>3 DEF OfOwner
      <4> QED BY <3>1, <4>1 DEF HeldBy
    <3> QED BY <3>2, <3>3
  <2>7. ASSUME NEW a \in Accounts PROVE HeldBy(OfAccount(a))' <= ProviderQuota
    <3>1. HeldBy(OfAccount(a)) <= ProviderQuota
      BY DEF ImageInv, WithinQuotas
    <3>2. CASE a = account
      <4>1. Holding' \cap OfAccount(a)' = (Holding \cap OfAccount(a)) \cup {t}
        BY <2>1, <2>3, <3>2
      <4>2. HeldBy(OfAccount(a)) + Outputs <= ProviderQuota
        BY <1>2, <3>2 DEF Admissible
      <4>3. OfAccount(a) \in SUBSET Tasks
        BY DEF OfAccount
      <4> QED BY <2>5, <4>1, <4>2, <4>3 DEF HeldBy
    <3>3. CASE a # account
      <4>1. Holding' \cap OfAccount(a)' = Holding \cap OfAccount(a)
        BY <1>2, <2>1, <2>3, <3>3 DEF OfAccount
      <4> QED BY <3>1, <4>1 DEF HeldBy
    <3> QED BY <3>2, <3>3
  <2> QED BY <2>6, <2>7 DEF WithinQuotas
<1> QED BY <1>7, <1>9, <1>10, <1>11, <1>12 DEF ImageInv

\* A death takes the runners and every stretch under way.
LEMMA CrashKeeps == ASSUME ImageInv, Crash PROVE ImageInv'
<1>1. TypeOK /\ \A t \in Tasks : TaskInv(t)
  BY DEF ImageInv
<1>2. /\ mode' = "down" /\ crashes' = crashes + 1 /\ crashes < MaxCrashes
      /\ runner' = [t \in Tasks |-> "none"] /\ work' = [t \in Tasks |-> NoWork]
      /\ timers' = {} /\ section' = NoSection /\ todo' = {}
      /\ UNCHANGED <<row, ledger, inputs, files, manifest, account, sent, charged>>
  BY DEF Crash, durable
<1>3. TypeOK'
  <2>1. work' \in [Tasks -> [hop : 0 .. Outputs, good : 0 .. Outputs, unsure : BOOLEAN, refused : BOOLEAN]]
    BY <1>2, RelayAssumption DEF NoWork
  <2>2. crashes' \in 0 .. MaxCrashes
    BY <1>1, <1>2, RelayAssumption DEF TypeOK
  <2> QED BY <1>1, <1>2, <2>1, <2>2 DEF TypeOK
<1>4. WithinQuotas' /\ KeysApart'
  BY <1>2 DEF ImageInv, WithinQuotas, KeysApart, HeldBy, Holding, OfOwner, OfAccount, Has
<1>5. ASSUME NEW t \in Tasks PROVE TaskInv(t)'
  <2>1. Accounted(t)'
    BY <1>1, <1>2 DEF TaskInv, Accounted, Runs, InRun, Has, Status, Active, Holding, Blank
  <2>2. Runs(t)' /\ Cut(t)' /\ Kept(t)'
    BY <1>1, <1>2 DEF TaskInv, Runs, Cut, Kept, InRun, Has, Status, NoSection
  <2> QED BY <2>1, <2>2 DEF TaskInv
<1> QED BY <1>3, <1>4, <1>5 DEF ImageInv

\* The new process writes off what was running, row by row.
LEMMA RecoverRows ==
    ASSUME ImageInv, Recover
    PROVE  /\ row' \in RowType
           /\ \A t \in Tasks :
                /\ Has(t)' <=> Has(t)
                /\ Has(t) => /\ row'[t].key = row[t].key /\ row'[t].receipt = row[t].receipt
                             /\ row'[t].retries = row[t].retries /\ row'[t].acked = row[t].acked
                /\ Status(t)' = IF Status(t) = "running" THEN "failed_unknown" ELSE Status(t)
                /\ Status(t) # "running" => row'[t] = row[t]
<1> DEFINE running == {t \in Tasks : Status(t) = "running"}
           failed  == [t \in Tasks |-> [row[t] EXCEPT !.status = "failed_unknown"]]
<1>1. TypeOK /\ row' = [t \in Tasks |-> IF t \in running THEN failed[t] ELSE row[t]]
  BY DEF ImageInv, Recover
<1>2. ASSUME NEW t \in Tasks, Status(t) = "running"
      PROVE  /\ Has(t) /\ row[t] \in Rows /\ failed[t] \in Rows
             /\ failed[t].status = "failed_unknown" /\ failed[t].key = row[t].key
             /\ failed[t].acked = row[t].acked /\ failed[t].receipt = row[t].receipt
             /\ failed[t].retries = row[t].retries
  <2>1. Has(t) /\ row[t] \in Rows
    BY <1>1, <1>2 DEF TypeOK, Has, Status, NoRow
  <2> QED BY <2>1 DEF Rows, Statuses
<1> HIDE DEF failed
<1>3. row' \in RowType
  BY <1>1, <1>2 DEF TypeOK, RowType
<1>4. ASSUME NEW t \in Tasks
      PROVE  /\ Has(t)' <=> Has(t)
             /\ Has(t) => /\ row'[t].key = row[t].key /\ row'[t].receipt = row[t].receipt
                          /\ row'[t].retries = row[t].retries /\ row'[t].acked = row[t].acked
             /\ Status(t)' = IF Status(t) = "running" THEN "failed_unknown" ELSE Status(t)
             /\ Status(t) # "running" => row'[t] = row[t]
  <2>1. CASE Status(t) = "running"
    BY <1>1, <1>2, <2>1 DEF Has, Status, Rows, NoRow
  <2>2. CASE Status(t) # "running"
    BY <1>1, <2>2 DEF Has, Status
  <2> QED BY <2>1, <2>2
<1> QED BY <1>3, <1>4

\* What was running is written off, and all of it is still held.
LEMMA RecoverKeeps == ASSUME ImageInv, Recover PROVE ImageInv'
<1> DEFINE running == {t \in Tasks : Status(t) = "running"}
           lost    == running \cup {t \in Tasks : running # {} /\ Status(t) = "failed_unknown"}
           unsure  == [t \in Tasks |-> [ledger[t] EXCEPT !.state = "outcome_unknown"]]
           open    == {"reserved", "outcome_unknown"}
<1>1. TypeOK /\ \A t \in Tasks : TaskInv(t)
  BY DEF ImageInv
<1>2. /\ mode = "down" /\ mode' = "recovering" /\ account' \in Accounts
      /\ ledger' = [t \in Tasks |->
             IF t \in lost /\ ledger[t].state \in open THEN unsure[t] ELSE ledger[t]]
      /\ todo' = running \cup {t \in Tasks : Status(t) = "queued"}
      /\ UNCHANGED <<inputs, files, manifest, runner, work, timers, section, sent, charged, crashes>>
  BY DEF Recover, history
<1>3. ASSUME NEW t \in Tasks, ledger[t].state \in open
      PROVE  /\ ledger[t] # NeverUsed /\ unsure[t] # NeverUsed
             /\ unsure[t] \in [state : {"reserved", "outcome_unknown", "settled", "released"},
                               account : Accounts, owner : {OwnerOf(k) : k \in Keys}]
             /\ unsure[t].state = "outcome_unknown"
             /\ unsure[t].owner = ledger[t].owner /\ unsure[t].account = ledger[t].account
  <2>1. ledger[t] \in [state : {"reserved", "outcome_unknown", "settled", "released"},
                       account : Accounts, owner : {OwnerOf(k) : k \in Keys}]
    BY <1>1, <1>3 DEF TypeOK, NeverUsed
  <2> QED BY <2>1 DEF NeverUsed
<1> HIDE DEF unsure
<1>4. TypeOK'
  BY <1>1, <1>2, <1>3, RecoverRows DEF TypeOK, RowType
<1>5. ASSUME NEW t \in Tasks
      PROVE  /\ Has(t)' <=> Has(t)
             /\ Has(t) => /\ row'[t].key = row[t].key /\ row'[t].receipt = row[t].receipt
                          /\ row'[t].retries = row[t].retries
             /\ Status(t)' = IF Status(t) = "running" THEN "failed_unknown" ELSE Status(t)
             /\ Status(t) # "running" => row'[t] = row[t]
  BY RecoverRows
<1>6. ASSUME NEW t \in Tasks
      PROVE  /\ ledger'[t] = NeverUsed <=> ledger[t] = NeverUsed
             /\ ledger[t] # NeverUsed => /\ ledger'[t].owner = ledger[t].owner
                                         /\ ledger'[t].account = ledger[t].account
             /\ ledger'[t].state = IF t \in lost /\ ledger[t].state \in open
                                     THEN "outcome_unknown" ELSE ledger[t].state
             /\ t \in Holding' <=> t \in Holding
  <2>1. CASE t \in lost /\ ledger[t].state \in open
    BY <1>2, <1>3, <2>1 DEF Holding
  <2>2. CASE ~(t \in lost /\ ledger[t].state \in open)
    BY <1>2, <2>2 DEF Holding
  <2> QED BY <2>1, <2>2
<1>7. WithinQuotas'
  <2>1. \A u \in Tasks : Settles(u)
    BY <1>6 DEF Settles
  <2> QED BY <1>1, <1>4, <2>1, QuotasStay DEF ImageInv
<1>8. KeysApart'
  BY <1>5 DEF ImageInv, KeysApart
<1>9. ASSUME NEW t \in Tasks PROVE TaskInv(t)'
  <2>1. /\ TaskInv(t) /\ runner[t] = "none" /\ section = NoSection
        /\ files'[t] = files[t] /\ (t \in manifest' <=> t \in manifest)
        /\ runner'[t] = runner[t] /\ sent'[t] = sent[t] /\ (t \in charged' <=> t \in charged)
        /\ section' = section /\ mode' = "recovering"
    BY <1>1, <1>2 DEF TaskInv, Runs, Cut
  <2>2. t \in lost /\ Status(t) = "queued" => FALSE
    OBVIOUS
  <2>3. Accounted(t)'
    <3>1. Status(t)' \in {"queued", "running"} => Status(t) = "queued" /\ row'[t] = row[t] /\ ledger'[t].state = ledger[t].state
      BY <1>5, <1>6, <2>2
    <3> QED BY <1>5, <1>6, <2>1, <3>1 DEF TaskInv, Accounted, Active, Blank
  <2>4. Runs(t)' /\ Cut(t)' /\ Kept(t)'
    BY <1>2, <1>5, <2>1 DEF TaskInv, Runs, Cut, Kept, InRun, NoSection
  <2> QED BY <2>3, <2>4 DEF TaskInv
<1> QED BY <1>4, <1>7, <1>8, <1>9 DEF ImageInv

\* The recovery is over and the relay serves again.
LEMMA StartServingKeeps == ASSUME ImageInv, StartServing PROVE ImageInv'
<1>1. TypeOK /\ \A t \in Tasks : TaskInv(t)
  BY DEF ImageInv
<1>2. /\ mode = "recovering" /\ todo = {} /\ mode' = "serving"
      /\ UNCHANGED <<row, ledger, inputs, files, manifest, account, runner, work, timers,
                     section, todo, sent, charged, crashes>>
  BY DEF StartServing, durable, history
<1>3. TypeOK'
  BY <1>1, <1>2 DEF TypeOK
<1>4. WithinQuotas' /\ KeysApart'
  BY <1>2 DEF ImageInv, WithinQuotas, KeysApart, HeldBy, Holding, OfOwner, OfAccount, Has
<1>5. ASSUME NEW t \in Tasks PROVE TaskInv(t)'
  <2>1. Accounted(t)'
    BY <1>1, <1>2 DEF TaskInv, Accounted, Runs, InRun, Has, Status, Active, Holding, Blank
  <2>2. Runs(t)' /\ Cut(t)' /\ Kept(t)'
    BY <1>1, <1>2 DEF TaskInv, Runs, Cut, Kept, InRun, Has, Status, NoSection
  <2> QED BY <2>1, <2>2 DEF TaskInv
<1> QED BY <1>3, <1>4, <1>5 DEF ImageInv

\* The invariant holds at the start.
LEMMA ImageInitInv == RelayInit => ImageInv
<1> SUFFICES ASSUME RelayInit PROVE ImageInv
  OBVIOUS
<1>1. TypeOK
  <2>1. work \in [Tasks -> [hop : 0 .. Outputs, good : 0 .. Outputs, unsure : BOOLEAN, refused : BOOLEAN]]
    BY RelayAssumption DEF RelayInit, NoWork
  <2> QED BY <2>1, RelayAssumption DEF RelayInit, TypeOK
<1>2. Holding = {} /\ \A t \in Tasks : ~Has(t) /\ Status(t) = "none"
  BY DEF RelayInit, Holding, NeverUsed, NoRow, Has, Status
<1>3. WithinQuotas
  <2>1. \A S : HeldBy(S) = 0
    BY <1>2, FS_EmptySet, RelayAssumption DEF HeldBy
  <2> QED BY <2>1, RelayAssumption DEF WithinQuotas
<1>4. KeysApart
  BY <1>2 DEF KeysApart
<1>5. \A t \in Tasks : TaskInv(t)
  BY <1>2 DEF RelayInit, TaskInv, Accounted, Runs, Cut, Kept, InRun, Blank, Active, NeverUsed, NoSection
<1> QED BY <1>1, <1>3, <1>4, <1>5 DEF ImageInv

\* A step of the image relay.
LEMMA ImageNextInv == ASSUME ImageInv, [RelayNext]_vars PROVE ImageInv'
<1>1. CASE UNCHANGED vars
  <2>1. UNCHANGED <<row, ledger, inputs, files, manifest, mode, account, runner, work, timers,
                    section, todo, sent, charged, crashes>>
    BY <1>1 DEF vars, durable, process, history
  <2>2. TypeOK'
    BY <2>1 DEF ImageInv, TypeOK
  <2>3. WithinQuotas' /\ KeysApart'
    BY <2>1 DEF ImageInv, WithinQuotas, KeysApart, HeldBy, Holding, OfOwner, OfAccount, Has
  <2>4. ASSUME NEW t \in Tasks PROVE TaskInv(t)'
    <3>1. TaskInv(t)
      BY DEF ImageInv
    <3>2. Accounted(t)' /\ Runs(t)'
      BY <2>1, <3>1 DEF TaskInv, Accounted, Runs, Has, Status, Active, Holding, Blank
    <3>3. Cut(t)' /\ Kept(t)'
      BY <2>1, <3>1 DEF TaskInv, Cut, Kept, Has, Status
    <3> QED BY <3>2, <3>3 DEF TaskInv
  <2> QED BY <2>2, <2>3, <2>4 DEF ImageInv
<1>2. ASSUME NEW t \in Tasks, RunnerStep(t) PROVE ImageInv'
  BY <1>2, StepKeeps, AdmittedStep, AdmissionFailsStep, PostToProviderStep, PreparationFailsStep,
     RateFailsStep, ProviderRefusesStep, AnswerFailsStep, RecordReceiptStep, ReadAnswerStep,
     StoringStep, PutOutputsFailsStep, MarkSucceededStep, DropInputStep, TimerFiresStep DEF RunnerStep
<1>3. ASSUME NEW t \in Tasks, RecoveryStep(t) PROVE ImageInv'
  BY <1>3, StepKeeps, RestoreResultStep, DropRecoveredStep, ResumeQueuedStep DEF RecoveryStep
<1>4. ASSUME NEW t \in Tasks, RequestStep(t) PROVE ImageInv'
  BY <1>4, StepKeeps, CreateKeeps, StoreInputStep, StoreInputFailsStep, CancelStep, AcknowledgeStep,
     UnlinkOutputsStep, SweepRowStep, SweepBlobsStep DEF RequestStep
<1> QED BY <1>1, <1>2, <1>3, <1>4, CrashKeeps, RecoverKeeps, StartServingKeeps DEF RelayNext

\* What the three properties of the image relay follow from.
LEMMA ImageInvImplies == ImageInv => SpendWithinQuota /\ NeverPostedAgain /\ ResultReadable
<1> SUFFICES ASSUME ImageInv PROVE SpendWithinQuota /\ NeverPostedAgain /\ ResultReadable
  OBVIOUS
<1>1. charged \subseteq Holding /\ Holding \subseteq Tasks
  BY DEF ImageInv, TypeOK, TaskInv, Accounted, Holding
<1>2. ASSUME NEW S \in SUBSET Tasks
      PROVE  Spent(S) <= HeldBy(S) /\ Spent(S) \in Nat /\ HeldBy(S) \in Nat
  BY <1>1, HeldBySubset DEF Spent, HeldBy
<1>3. ASSUME NEW o \in {OwnerOf(k) : k \in Keys} PROVE Spent(OfOwner(o)) <= OwnerQuota
  <2>1. OfOwner(o) \in SUBSET Tasks /\ OwnerQuota \in Nat
    BY RelayAssumption DEF OfOwner
  <2>2. HeldBy(OfOwner(o)) <= OwnerQuota
    BY DEF ImageInv, WithinQuotas
  <2> QED BY <1>2, <2>1, <2>2
<1>4. ASSUME NEW a \in Accounts PROVE Spent(OfAccount(a)) <= ProviderQuota
  <2>1. OfAccount(a) \in SUBSET Tasks /\ ProviderQuota \in Nat
    BY RelayAssumption DEF OfAccount
  <2>2. HeldBy(OfAccount(a)) <= ProviderQuota
    BY DEF ImageInv, WithinQuotas
  <2> QED BY <1>2, <2>1, <2>2
<1>5. SpendWithinQuota
  BY <1>3, <1>4 DEF SpendWithinQuota, ImageInv
<1>6. NeverPostedAgain /\ ResultReadable
  BY DEF NeverPostedAgain, ResultReadable, ImageInv, TaskInv, Accounted, Kept
<1> QED BY <1>5, <1>6

-----------------------------------------------------------------------------
(* The contract with the desktop, key by key.                              *)

RemoteOf  == [k \in Keys |-> IF KeyRows(k) = {} THEN "absent" ELSE Status(TaskOf(k))]
AckedKeys == {k \in Keys : KeyRows(k) # {} /\ row[TaskOf(k)].acked}
PaidOf    == [k \in Keys |-> KeyRows(k) # {} /\ TaskOf(k) \in charged]

\* The contract's actions, with what it calls its variables.
LEMMA ContractActions ==
    ASSUME NEW k \in Keys
    PROVE  /\ Contract!AcceptTask(k) <=>
                /\ RemoteOf[k] = "absent" /\ RemoteOf' = [RemoteOf EXCEPT ![k] = "queued"]
                /\ AckedKeys' = AckedKeys /\ PaidOf' = PaidOf
           /\ Contract!StartTask(k) <=>
                /\ RemoteOf[k] = "queued" /\ RemoteOf' = [RemoteOf EXCEPT ![k] = "running"]
                /\ AckedKeys' = AckedKeys /\ PaidOf' = PaidOf
           /\ Contract!RequeueTask(k) <=>
                /\ RemoteOf[k] = "running" /\ ~PaidOf[k] /\ RemoteOf' = [RemoteOf EXCEPT ![k] = "queued"]
                /\ AckedKeys' = AckedKeys /\ PaidOf' = PaidOf
           /\ Contract!ProviderAccepts(k) <=>
                /\ RemoteOf[k] = "running" /\ PaidOf' = [PaidOf EXCEPT ![k] = TRUE]
                /\ RemoteOf' = RemoteOf /\ AckedKeys' = AckedKeys
           /\ Contract!FailTask(k) <=>
                /\ RemoteOf[k] \in {"queued", "running"} /\ ~PaidOf[k]
                /\ RemoteOf' = [RemoteOf EXCEPT ![k] = "failed"]
                /\ AckedKeys' = AckedKeys /\ PaidOf' = PaidOf
           /\ Contract!CancelTask(k) <=>
                /\ RemoteOf[k] = "queued" /\ ~PaidOf[k] /\ RemoteOf' = [RemoteOf EXCEPT ![k] = "cancelled"]
                /\ AckedKeys' = AckedKeys /\ PaidOf' = PaidOf
           /\ Contract!SucceedTask(k) <=>
                /\ RemoteOf[k] \in {"running", "failed_unknown"} /\ PaidOf[k]
                /\ RemoteOf' = [RemoteOf EXCEPT ![k] = "succeeded"]
                /\ AckedKeys' = AckedKeys /\ PaidOf' = PaidOf
           /\ Contract!AcknowledgeTask(k) <=>
                /\ RemoteOf[k] = "succeeded" /\ AckedKeys' = AckedKeys \cup {k}
                /\ RemoteOf' = RemoteOf /\ PaidOf' = PaidOf
           /\ Contract!ForgetTask(k) <=>
                /\ \/ RemoteOf[k] \in {"succeeded", "failed", "failed_unknown", "cancelled"}
                   \/ RemoteOf[k] = "queued" /\ ~PaidOf[k]
                /\ RemoteOf' = [RemoteOf EXCEPT ![k] = "absent"]
                /\ AckedKeys' = AckedKeys \ {k} /\ PaidOf' = [PaidOf EXCEPT ![k] = FALSE]
BY ZenonT(60) DEF RemoteOf, AckedKeys, PaidOf, Contract!AcceptTask, Contract!StartTask, Contract!RequeueTask,
   Contract!ProviderAccepts, Contract!FailTask, Contract!CancelTask, Contract!SucceedTask,
   Contract!AcknowledgeTask, Contract!ForgetTask, Contract!Become, Contract!ActiveStates,
   Contract!TerminalStates

\* What the contract allows when the relay loses track of a task.
LEMMA LoseTrackIs ==
    ASSUME NEW S \in SUBSET Keys, S # {}, \A k \in S : RemoteOf[k] = "running",
           RemoteOf' = [k \in Keys |-> IF k \in S THEN "failed_unknown" ELSE RemoteOf[k]],
           AckedKeys' = AckedKeys, PaidOf' = PaidOf
    PROVE  Contract!ContractNext
<1>1. Contract!LoseTrack(S)
  BY DEF RemoteOf, AckedKeys, PaidOf, Contract!LoseTrack
<1> QED BY <1>1 DEF Contract!ContractNext

\* Nothing moves for the desktop when no key's view changes.
LEMMA ContractStutters ==
    ASSUME RemoteOf' = RemoteOf, AckedKeys' = AckedKeys, PaidOf' = PaidOf
    PROVE  [Contract!ContractNext]_Contract!contractVars
BY DEF RemoteOf, AckedKeys, PaidOf, Contract!contractVars

\* The row of a key that has one.
LEMMA OneRow ==
    ASSUME KeysApart, NEW t \in Tasks, Has(t)
    PROVE  KeyRows(row[t].key) = {t} /\ TaskOf(row[t].key) = t
<1>1. KeyRows(row[t].key) = {t}
  BY DEF KeysApart, KeyRows
<1> QED BY <1>1 DEF TaskOf

\* What is shown for a key stays, if its row is not the one that moves.
LEMMA SameRows ==
    ASSUME NEW t \in Tasks, MovesOnly(t), NEW k \in Keys, KeyRows(k)' = KeyRows(k), t \notin KeyRows(k)
    PROVE  /\ RemoteOf'[k] = RemoteOf[k] /\ PaidOf'[k] = PaidOf[k]
           /\ k \in AckedKeys' <=> k \in AckedKeys
<1>1. KeyRows(k)' = KeyRows(k) /\ t \notin KeyRows(k) /\ KeyRows(k) \subseteq Tasks
  BY DEF KeyRows
<1>2. TaskOf(k)' = TaskOf(k)
  BY <1>1 DEF TaskOf
<1>3. KeyRows(k) # {} => /\ Status(TaskOf(k))' = Status(TaskOf(k))
                         /\ row'[TaskOf(k)].acked = row[TaskOf(k)].acked
                         /\ TaskOf(k) \in charged' <=> TaskOf(k) \in charged
  <2>1. KeyRows(k) # {} => TaskOf(k) \in KeyRows(k)
    BY DEF TaskOf
  <2> DEFINE u == TaskOf(k)
  <2>2. KeyRows(k) # {} => u \in Tasks /\ u # t
    BY <1>1, <2>1
  <2>3. KeyRows(k) # {} => row'[u] = row[u] /\ (u \in charged' <=> u \in charged)
    BY <2>2 DEF MovesOnly, Untouched
  <2> HIDE DEF u
  <2>4. KeyRows(k) # {} => /\ Status(u)' = Status(u) /\ row'[u].acked = row[u].acked
                           /\ u \in charged' <=> u \in charged
    <3>1. u' = u
      BY <1>2 DEF u
    <3> QED BY <2>3, <3>1 DEF Status
  <2> QED BY <1>2, <2>4 DEF u
<1> QED BY <1>1, <1>2, <1>3 DEF RemoteOf, PaidOf, AckedKeys

\* A step about one task leaves what is shown for the other keys as it is.
LEMMA OtherKeys ==
    ASSUME ImageInv, NEW t \in Tasks, MovesOnly(t), KeepsKey(t), NEW k \in Keys,
           Has(t) => k # row[t].key
    PROVE  /\ RemoteOf'[k] = RemoteOf[k] /\ PaidOf'[k] = PaidOf[k]
           /\ k \in AckedKeys' <=> k \in AckedKeys
<1>1. KeyRows(k)' = KeyRows(k) /\ t \notin KeyRows(k)
  BY DEF KeyRows, MovesOnly, Untouched, KeepsKey, Has
<1> QED BY <1>1, SameRows

\* What is shown for the key of the task itself.
LEMMA OwnKey ==
    ASSUME ImageInv, KeysApart', NEW t \in Tasks, MovesOnly(t), KeepsKey(t), Has(t),
           NEW k \in Keys, k = row[t].key
    PROVE  /\ RemoteOf[k] = Status(t) /\ PaidOf[k] = (t \in charged) /\ (k \in AckedKeys <=> row[t].acked)
           /\ Has(t)' => /\ RemoteOf'[k] = Status(t)' /\ PaidOf'[k] = (t \in charged')
                         /\ k \in AckedKeys' <=> row'[t].acked
           /\ ~Has(t)' => RemoteOf'[k] = "absent" /\ PaidOf'[k] = FALSE /\ k \notin AckedKeys'
<1>2. KeyRows(k) = {t} /\ TaskOf(k) = t
  BY OneRow DEF ImageInv
<1>3. RemoteOf[k] = Status(t) /\ PaidOf[k] = (t \in charged) /\ (k \in AckedKeys <=> row[t].acked)
  BY <1>2 DEF RemoteOf, PaidOf, AckedKeys
<1>4. ASSUME Has(t)'
      PROVE  /\ RemoteOf'[k] = Status(t)' /\ PaidOf'[k] = (t \in charged')
             /\ k \in AckedKeys' <=> row'[t].acked
  <2>1. row'[t].key = k
    BY <1>4 DEF KeepsKey
  <2>2. KeyRows(k)' = {t}
    <3>1. \A u \in Tasks : Has(u)' /\ row'[u].key = k => u = t
      BY <1>4, <2>1 DEF KeysApart
    <3> QED BY <1>4, <2>1, <3>1 DEF KeyRows
  <2>3. TaskOf(k)' = t
    BY <2>2 DEF TaskOf
  <2> QED BY <2>2, <2>3 DEF RemoteOf, PaidOf, AckedKeys
<1>5. ASSUME ~Has(t)'
      PROVE  RemoteOf'[k] = "absent" /\ PaidOf'[k] = FALSE /\ k \notin AckedKeys'
  <2>1. KeyRows(k)' = {}
    BY <1>2, <1>5 DEF KeyRows, MovesOnly, Untouched, Has
  <2> QED BY <2>1 DEF RemoteOf, PaidOf, AckedKeys
<1> QED BY <1>3, <1>4, <1>5

\* What is shown changes for one key only.
LEMMA ShownAre ==
    ASSUME NEW k \in Keys, NEW status, NEW paid \in BOOLEAN,
           RemoteOf'[k] = status, PaidOf'[k] = paid,
           \A j \in Keys \ {k} : /\ RemoteOf'[j] = RemoteOf[j] /\ PaidOf'[j] = PaidOf[j]
                                 /\ j \in AckedKeys' <=> j \in AckedKeys
    PROVE  /\ RemoteOf' = [RemoteOf EXCEPT ![k] = status] /\ PaidOf' = [PaidOf EXCEPT ![k] = paid]
           /\ RemoteOf[k] = status => RemoteOf' = RemoteOf
           /\ PaidOf[k] = paid => PaidOf' = PaidOf
           /\ k \in AckedKeys' => AckedKeys' = AckedKeys \cup {k}
           /\ k \notin AckedKeys' => AckedKeys' = AckedKeys \ {k}
           /\ (k \in AckedKeys' <=> k \in AckedKeys) => AckedKeys' = AckedKeys
<1>1. /\ RemoteOf  = [j \in Keys |-> RemoteOf[j]]  /\ PaidOf  = [j \in Keys |-> PaidOf[j]]
      /\ RemoteOf' = [j \in Keys |-> RemoteOf'[j]] /\ PaidOf' = [j \in Keys |-> PaidOf'[j]]
      /\ AckedKeys \subseteq Keys /\ AckedKeys' \subseteq Keys
  BY DEF RemoteOf, PaidOf, AckedKeys
<1> QED BY <1>1

\* A step of one task is a step of the contract for its key.
LEMMA StepIsContract ==
    ASSUME ImageInv, NEW t \in Tasks, StepOf(t)
    PROVE  [Contract!ContractNext]_(Contract!contractVars)
<1>1. ImageInv' /\ MovesOnly(t) /\ KeepsKey(t) /\ Seen(t) /\ KeysApart'
  BY StepKeeps DEF StepOf, ImageInv
<1>2. CASE ~Has(t)
  <2>1. \A k \in Keys : /\ RemoteOf'[k] = RemoteOf[k] /\ PaidOf'[k] = PaidOf[k]
                        /\ k \in AckedKeys' <=> k \in AckedKeys
    BY <1>1, <1>2, OtherKeys
  <2>2. /\ RemoteOf  = [j \in Keys |-> RemoteOf[j]]  /\ PaidOf  = [j \in Keys |-> PaidOf[j]]
        /\ RemoteOf' = [j \in Keys |-> RemoteOf'[j]] /\ PaidOf' = [j \in Keys |-> PaidOf'[j]]
        /\ AckedKeys \subseteq Keys /\ AckedKeys' \subseteq Keys
    BY DEF RemoteOf, PaidOf, AckedKeys
  <2>3. RemoteOf' = RemoteOf /\ PaidOf' = PaidOf /\ AckedKeys' = AckedKeys
    BY <2>1, <2>2
  <2> QED BY <2>3, ContractStutters
<1>3. CASE Has(t)
  <2>1. PICK k \in Keys : k = row[t].key
    BY <1>3 DEF ImageInv, TypeOK, Has, Rows
  <2>2. \A j \in Keys \ {k} : /\ RemoteOf'[j] = RemoteOf[j] /\ PaidOf'[j] = PaidOf[j]
                              /\ j \in AckedKeys' <=> j \in AckedKeys
    BY <1>1, <2>1, OtherKeys
  <2>3. /\ RemoteOf[k] = Status(t) /\ PaidOf[k] = (t \in charged) /\ (k \in AckedKeys <=> row[t].acked)
        /\ Has(t)' => /\ RemoteOf'[k] = Status(t)' /\ PaidOf'[k] = (t \in charged')
                      /\ k \in AckedKeys' <=> row'[t].acked
        /\ ~Has(t)' => RemoteOf'[k] = "absent" /\ PaidOf'[k] = FALSE /\ k \notin AckedKeys'
    BY <1>1, <1>3, <2>1, OwnKey
  <2>14. PICK status : RemoteOf'[k] = status
    OBVIOUS
  <2>15. PICK paid \in BOOLEAN : PaidOf'[k] = paid
    BY DEF PaidOf
  <2>4. RemoteOf'[k] = status /\ PaidOf'[k] = paid
    BY <2>14, <2>15
  <2>5. /\ RemoteOf' = [RemoteOf EXCEPT ![k] = status] /\ PaidOf' = [PaidOf EXCEPT ![k] = paid]
        /\ RemoteOf[k] = status => RemoteOf' = RemoteOf
        /\ PaidOf[k] = paid => PaidOf' = PaidOf
        /\ k \in AckedKeys' => AckedKeys' = AckedKeys \cup {k}
        /\ k \notin AckedKeys' => AckedKeys' = AckedKeys \ {k}
        /\ (k \in AckedKeys' <=> k \in AckedKeys) => AckedKeys' = AckedKeys
    BY <2>2, <2>4, ShownAre
  <2>6. CASE row'[t] = row[t] /\ charged' = charged
    <3>1. RemoteOf' = RemoteOf /\ PaidOf' = PaidOf /\ AckedKeys' = AckedKeys
      BY <1>3, <2>3, <2>4, <2>5, <2>6 DEF Has, Status
    <3> QED BY <3>1, ContractStutters
  <2>7. ASSUME NEW s, Becomes(t, s)
        PROVE  /\ RemoteOf' = [RemoteOf EXCEPT ![k] = s] /\ PaidOf' = PaidOf /\ AckedKeys' = AckedKeys
               /\ RemoteOf[k] = s => RemoteOf' = RemoteOf
    <3>1. status = s /\ paid = PaidOf[k] /\ (k \in AckedKeys' <=> k \in AckedKeys)
      BY <2>3, <2>4, <2>7 DEF Becomes
    <3> QED BY <2>5, <3>1
  <2>8. CASE Becomes(t, Status(t))
    <3>1. PICK s : s = Status(t)
      OBVIOUS
    <3>2. RemoteOf' = RemoteOf /\ PaidOf' = PaidOf /\ AckedKeys' = AckedKeys
      BY <2>3, <2>7, <2>8, <3>1
    <3> QED BY <3>2, ContractStutters
  <2>9. ASSUME NEW s \in {"running", "queued", "failed", "cancelled", "succeeded"}, Becomes(t, s),
               \/ s = "running" /\ Status(t) = "queued"
               \/ s = "queued" /\ Status(t) = "running" /\ t \notin charged
               \/ s = "failed" /\ Status(t) \in {"queued", "running"} /\ t \notin charged
               \/ s = "cancelled" /\ Status(t) = "queued" /\ t \notin charged
               \/ s = "succeeded" /\ Status(t) \in {"running", "failed_unknown"} /\ t \in charged
        PROVE  Contract!ContractNext
    <3>1. /\ RemoteOf' = [RemoteOf EXCEPT ![k] = s] /\ PaidOf' = PaidOf /\ AckedKeys' = AckedKeys
      BY <2>7, <2>9
    <3>2. \/ Contract!StartTask(k) \/ Contract!RequeueTask(k) \/ Contract!FailTask(k)
          \/ Contract!CancelTask(k) \/ Contract!SucceedTask(k)
      BY <2>3, <2>9, <3>1, ContractActions
    <3> QED BY <3>2 DEF Contract!ContractNext
  <2>10. CASE Status(t) = "running" /\ Becomes(t, "failed_unknown")
    <3>1. RemoteOf' = [RemoteOf EXCEPT ![k] = "failed_unknown"] /\ PaidOf' = PaidOf /\ AckedKeys' = AckedKeys
      BY <2>7, <2>10
    <3>2. RemoteOf' = [j \in Keys |-> IF j \in {k} THEN "failed_unknown" ELSE RemoteOf[j]]
      <4>1. RemoteOf = [j \in Keys |-> RemoteOf[j]]
        BY DEF RemoteOf
      <4> QED BY <3>1, <4>1
    <3>3. {k} \in SUBSET Keys /\ {k} # {} /\ \A j \in {k} : RemoteOf[j] = "running"
      BY <2>3, <2>10
    <3> QED BY <3>1, <3>2, <3>3, LoseTrackIs
  <2>11. CASE Status(t) = "running" /\ row'[t] = row[t] /\ charged' = charged \cup {t}
    <3>1. status = RemoteOf[k] /\ paid = TRUE /\ (k \in AckedKeys' <=> k \in AckedKeys)
      BY <1>3, <2>3, <2>4, <2>11 DEF Has, Status
    <3>2. Contract!ProviderAccepts(k)
      BY <2>3, <2>5, <2>11, <3>1, ContractActions
    <3> QED BY <3>2 DEF Contract!ContractNext
  <2>12. CASE /\ Has(t)' /\ Status(t) = "succeeded" /\ Status(t)' = "succeeded"
              /\ row'[t].acked /\ charged' = charged
    <3>1. status = RemoteOf[k] /\ paid = PaidOf[k] /\ k \in AckedKeys'
      BY <2>3, <2>4, <2>12
    <3>2. Contract!AcknowledgeTask(k)
      BY <2>3, <2>5, <2>12, <3>1, ContractActions
    <3> QED BY <3>2 DEF Contract!ContractNext
  <2>13. CASE /\ ~Has(t)'
              /\ \/ Status(t) \in {"succeeded", "failed", "failed_unknown", "cancelled"}
                 \/ Status(t) = "queued" /\ t \notin charged
    <3>1. status = "absent" /\ paid = FALSE /\ k \notin AckedKeys'
      BY <2>3, <2>4, <2>13
    <3>2. Contract!ForgetTask(k)
      BY <2>3, <2>5, <2>13, <3>1, ContractActions
    <3> QED BY <3>2 DEF Contract!ContractNext
  <2> QED BY <1>1, <2>6, <2>8, <2>9, <2>10, <2>11, <2>12, <2>13 DEF Seen
<1> QED BY <1>2, <1>3

\* A new task is the first of its key.
LEMMA CreateIsContract ==
    ASSUME ImageInv, NEW k \in Keys, NEW t \in Tasks, CreateWithReservation(k, t)
    PROVE  Contract!ContractNext
<1>1. ImageInv' /\ TypeOK /\ TypeOK' /\ KeysApart'
  BY CreateKeeps DEF ImageInv
<1>2. /\ KeyRows(k) = {} /\ charged' = charged /\ ~Has(t) /\ t \notin charged
      /\ \A u \in Tasks \ {t} : row'[u] = row[u]
      /\ Has(t)' /\ row'[t].key = k /\ Status(t)' = "queued" /\ row'[t].acked = FALSE
  <2> DEFINE new == [status |-> "queued", key |-> k, receipt |-> FALSE, valid |-> 0, acked |-> FALSE, retries |-> 0]
  <2>1. row'[t] = new /\ \A u \in Tasks \ {t} : row'[u] = row[u]
    BY <1>1 DEF CreateWithReservation, TypeOK
  <2>2. ~Has(t) /\ t \notin charged
    BY DEF ImageInv, TaskInv, Accounted, CreateWithReservation
  <2> QED BY <2>1, <2>2 DEF CreateWithReservation, Admissible, history, Has, Status, NoRow
<1>3. MovesOnly(t)
  BY <1>1 DEF CreateWithReservation, TypeOK, MovesOnly, Untouched, Idle, history
<1>4. ASSUME NEW j \in Keys \ {k}
      PROVE  /\ RemoteOf'[j] = RemoteOf[j] /\ PaidOf'[j] = PaidOf[j]
             /\ j \in AckedKeys' <=> j \in AckedKeys
  <2>1. KeyRows(j)' = KeyRows(j) /\ t \notin KeyRows(j)
    BY <1>2 DEF KeyRows, Has
  <2> QED BY <1>3, <2>1, SameRows
<1>5. RemoteOf[k] = "absent" /\ PaidOf[k] = FALSE /\ k \notin AckedKeys
  BY <1>2 DEF RemoteOf, PaidOf, AckedKeys
<1>6. RemoteOf'[k] = "queued" /\ PaidOf'[k] = FALSE /\ k \notin AckedKeys'
  <2>1. KeyRows(k)' = {t}
    <3>1. \A u \in Tasks : Has(u)' /\ row'[u].key = k => u = t
      BY <1>1, <1>2 DEF KeysApart
    <3> QED BY <1>2, <3>1 DEF KeyRows
  <2>2. TaskOf(k)' = t
    BY <2>1 DEF TaskOf
  <2> QED BY <1>2, <2>1, <2>2 DEF RemoteOf, PaidOf, AckedKeys
<1>7. RemoteOf' = [RemoteOf EXCEPT ![k] = "queued"] /\ PaidOf' = PaidOf /\ AckedKeys' = AckedKeys
  <2> DEFINE status == "queued"
             paid   == FALSE
  <2>1. RemoteOf'[k] = status /\ PaidOf'[k] = paid /\ paid \in BOOLEAN
    BY <1>6
  <2> HIDE DEF status, paid
  <2>2. /\ RemoteOf' = [RemoteOf EXCEPT ![k] = status] /\ (PaidOf[k] = paid => PaidOf' = PaidOf)
        /\ (k \in AckedKeys' <=> k \in AckedKeys) => AckedKeys' = AckedKeys
    BY <1>4, <2>1, ShownAre
  <2> QED BY <1>5, <1>6, <2>2 DEF status, paid
<1>8. Contract!AcceptTask(k)
  BY <1>5, <1>7, ContractActions
<1> QED BY <1>8 DEF Contract!ContractNext

\* The restart moves every task as the contract allows.
LEMMA RecoverIsContract ==
    ASSUME ImageInv, Recover
    PROVE  [Contract!ContractNext]_(Contract!contractVars)
<1> DEFINE S == {k \in Keys : RemoteOf[k] = "running"}
<1>1. charged' = charged
  BY DEF Recover, history
<1>2. ASSUME NEW k \in Keys
      PROVE  /\ RemoteOf'[k] = IF k \in S THEN "failed_unknown" ELSE RemoteOf[k]
             /\ PaidOf'[k] = PaidOf[k]
             /\ k \in AckedKeys' <=> k \in AckedKeys
  <2>1. KeyRows(k)' = KeyRows(k)
    BY RecoverRows DEF KeyRows
  <2>2. CASE KeyRows(k) = {}
    BY <2>1, <2>2 DEF RemoteOf, PaidOf, AckedKeys
  <2>3. CASE KeyRows(k) # {}
    <3>1. PICK t \in KeyRows(k) : t = TaskOf(k)
      BY <2>3 DEF TaskOf
    <3>2. TaskOf(k)' = t
      BY <2>1, <3>1 DEF TaskOf
    <3>3. t \in Tasks /\ Has(t)
      BY DEF KeyRows
    <3>4. /\ Status(t)' = IF Status(t) = "running" THEN "failed_unknown" ELSE Status(t)
          /\ row'[t].acked = row[t].acked
      BY <3>3, RecoverRows
    <3>5. /\ RemoteOf[k] = Status(t) /\ RemoteOf'[k] = Status(t)'
          /\ PaidOf[k] = (t \in charged) /\ PaidOf'[k] = (t \in charged')
          /\ (k \in AckedKeys <=> row[t].acked) /\ (k \in AckedKeys' <=> row'[t].acked)
      BY <2>1, <2>3, <3>1, <3>2 DEF RemoteOf, PaidOf, AckedKeys, Status
    <3> QED BY <1>1, <3>4, <3>5
  <2> QED BY <2>2, <2>3
<1>3. /\ RemoteOf  = [j \in Keys |-> RemoteOf[j]]  /\ PaidOf  = [j \in Keys |-> PaidOf[j]]
      /\ RemoteOf' = [j \in Keys |-> RemoteOf'[j]] /\ PaidOf' = [j \in Keys |-> PaidOf'[j]]
      /\ AckedKeys \subseteq Keys /\ AckedKeys' \subseteq Keys
  BY DEF RemoteOf, PaidOf, AckedKeys
<1>4. PaidOf' = PaidOf /\ AckedKeys' = AckedKeys
  BY <1>2, <1>3
<1>5. RemoteOf' = [k \in Keys |-> IF k \in S THEN "failed_unknown" ELSE RemoteOf[k]]
  BY <1>2, <1>3
<1>6. CASE S = {}
  <2>1. RemoteOf' = RemoteOf
    BY <1>3, <1>5, <1>6
  <2> QED BY <1>4, <2>1, ContractStutters
<1>7. CASE S # {}
  <2>1. S \in SUBSET Keys /\ \A k \in S : RemoteOf[k] = "running"
    OBVIOUS
  <2> HIDE DEF S
  <2> QED BY <1>4, <1>5, <1>7, <2>1, LoseTrackIs
<1> QED BY <1>6, <1>7

\* Nothing a desktop sees.
LEMMA UnseenIsContract ==
    ASSUME UNCHANGED <<row, charged>>
    PROVE  [Contract!ContractNext]_(Contract!contractVars)
<1>1. RemoteOf' = RemoteOf /\ AckedKeys' = AckedKeys /\ PaidOf' = PaidOf
  BY DEF RemoteOf, AckedKeys, PaidOf, KeyRows, TaskOf, Status, Has
<1> QED BY <1>1, ContractStutters

\* Every step of the relay is a step of the contract, or none.
LEMMA ImageStepIsContract ==
    ASSUME ImageInv, [RelayNext]_vars
    PROVE  [Contract!ContractNext]_(Contract!contractVars)
<1>1. CASE UNCHANGED vars
  BY <1>1, UnseenIsContract DEF vars, durable, history
<1>2. ASSUME NEW t \in Tasks, RunnerStep(t) PROVE [Contract!ContractNext]_(Contract!contractVars)
  BY <1>2, StepIsContract, AdmittedStep, AdmissionFailsStep, PostToProviderStep, PreparationFailsStep,
     RateFailsStep, ProviderRefusesStep, AnswerFailsStep, RecordReceiptStep, ReadAnswerStep,
     StoringStep, PutOutputsFailsStep, MarkSucceededStep, DropInputStep, TimerFiresStep DEF RunnerStep
<1>3. ASSUME NEW t \in Tasks, RecoveryStep(t) PROVE [Contract!ContractNext]_(Contract!contractVars)
  BY <1>3, StepIsContract, RestoreResultStep, DropRecoveredStep, ResumeQueuedStep DEF RecoveryStep
<1>4. ASSUME NEW t \in Tasks, RequestStep(t) PROVE [Contract!ContractNext]_(Contract!contractVars)
  BY <1>4, StepIsContract, CreateIsContract, StoreInputStep, StoreInputFailsStep, CancelStep, AcknowledgeStep,
     UnlinkOutputsStep, SweepRowStep, SweepBlobsStep DEF RequestStep
<1>5. CASE Crash \/ StartServing
  BY <1>5, UnseenIsContract DEF Crash, StartServing, durable, history
<1> QED BY <1>1, <1>2, <1>3, <1>4, <1>5, RecoverIsContract DEF RelayNext

\* At the start the desktop knows of no task.
LEMMA ContractBegins == RelayInit => Contract!ContractInit
<1> SUFFICES ASSUME RelayInit PROVE Contract!ContractInit
  OBVIOUS
<1>1. \A k \in Keys : KeyRows(k) = {}
  BY DEF RelayInit, KeyRows, Has
<1> QED BY <1>1 DEF Contract!ContractInit
-----------------------------------------------------------------------------
(* The video relay: the inductive invariant.                               *)

\* The states in which a reservation counts.
Held == {"reserved", "outcome_unknown", "settled"}

WithinUnits ==
    /\ \A o \in Ops : Video!Holding(Video!OfOwner(OpOwnerOf(o))) <= OwnerLimit
    /\ Video!Holding(Ops) <= AccountLimit

\* Money: nothing before the fence, one call behind it, and what was spent held.
SpendsOnce(o) ==
    /\ ~Video!Has(o) => quota[o] = "none"
    /\ ~Video!Fenced(o) => opSent[o] = 0 /\ o \notin opCharged
    /\ opSent[o] <= 1
    /\ o \in opCharged => quota[o] \in Held
    /\ Video!Has(o) /\ Video!State(o) = "accepted" => quota[o] \in Held

\* Who has an operation in hand.
InHand(o) ==
    /\ lock[o] # "free" => Video!Has(o)
    /\ \A c \in Callers : post[<<o, c>>] # "none" => Video!Has(o)
    /\ o \in submitting => \E c \in Callers : post[<<o, c>>] \in {"executing", "publishing"}
    /\ Video!Has(o) /\ Video!State(o) = "accepted" =>
         \/ \E c \in Callers : post[<<o, c>>] # "none"
         \/ ~Video!Fenced(o) /\ opRow[o].old
         \/ Video!Fenced(o) /\ (o \in submitting => Video!Publishing(o) # {})

\* A result, its object, and who may still put or delete that.
Delivers(r) ==
    /\ result[r] # "none" \/ own[r] # Video!Nowhere => Video!Has(r[1])
    /\ r \in rowAcked => result[r] = "published"
    /\ r \in doomed \/ r \in opSection => r \in rowAcked \/ result[r] = "expired"
    /\ result[r] = "publishing" /\ own[r].stage = "put" => r \in stored
    /\ result[r] = "published" /\ r \notin rowAcked => r \in stored

Promotes(f) ==
    flight[f] # Video!NoFlight =>
      /\ result[flight[f].result] # "none"
      /\ flight[f].stage = "put" /\ result[flight[f].result] = "publishing" => flight[f].result \in stored

OpInv(o) == SpendsOnce(o) /\ InHand(o)

VideoInv ==
    /\ Video!VideoTypeOK /\ WithinUnits
    /\ \A o \in Ops : OpInv(o)
    /\ \A r \in Video!Results : Delivers(r)
    /\ \A f \in Flights : Promotes(f)
-----------------------------------------------------------------------------
(* The video relay: what its writes do.                                    *)

States     == {"accepted", "submitted", "succeeded", "failed", "cancelled", "expired", "outcome_unknown"}
Operations == [state : States, fenced : BOOLEAN, task : BOOLEAN, old : BOOLEAN, acked : BOOLEAN]
Quotas     == {"none", "reserved", "outcome_unknown", "settled", "released"}

\* Only o is written, and its reservation is given back before the fence only.
Outcome(o) ==
    /\ opRow' \in [Ops -> {Video!NoRow} \cup Operations] /\ quota' \in [Ops -> Quotas]
    /\ \A p \in Ops \ {o} : opRow'[p] = opRow[p] /\ quota'[p] = quota[p]
    /\ Video!Has(o) /\ Video!Has(o)' /\ (Video!Fenced(o)' <=> Video!Fenced(o)) /\ opRow'[o].old = opRow[o].old
    /\ Video!State(o)' = "accepted" =>
         /\ Video!State(o) = "accepted"
         /\ quota[o] \in Held => quota'[o] \in Held
    /\ quota'[o] \in Held => quota[o] \in Held
    /\ quota[o] \in Held /\ quota'[o] \notin Held => ~Video!Fenced(o)

\* What a quota may become.
SafeQuota(o) ==
    /\ quota' \in [Ops -> Quotas]
    /\ \A p \in Ops \ {o} : quota'[p] = quota[p]
    /\ quota'[o] \in Held <=> quota[o] \in Held

\* What a row and a reservation may be.
LEMMA RowKinds ==
    ASSUME Video!VideoTypeOK, NEW o \in Ops
    PROVE  /\ opRow \in [Ops -> {Video!NoRow} \cup Operations] /\ quota \in [Ops -> Quotas]
           /\ Video!Has(o) => opRow[o] \in Operations
BY DEF Video!VideoTypeOK, Operations, States, Quotas, Video!Has

\* A reservation that is settled or retained counts as before.
LEMMA QuotaWrites ==
    ASSUME Video!VideoTypeOK, NEW o \in Ops
    PROVE  /\ Video!settleQuota(o) => SafeQuota(o)
           /\ Video!retainUnknownQuota(o) => SafeQuota(o)
           /\ UNCHANGED quota => SafeQuota(o)
<1>1. quota \in [Ops -> Quotas]
  BY RowKinds
<1>2. ASSUME NEW from, NEW state \in Quotas, Video!SetQuota(o, from, state)
      PROVE  /\ quota' \in [Ops -> Quotas]
             /\ \A p \in Ops \ {o} : quota'[p] = quota[p]
             /\ quota'[o] = IF quota[o] \in from THEN state ELSE quota[o]
  BY <1>1, <1>2 DEF Video!SetQuota
<1> QED BY <1>1, <1>2 DEF Video!settleQuota, Video!retainUnknownQuota, SafeQuota, Quotas, Held

\* A reservation that is released counts no more.
LEMMA ReleaseWrites ==
    ASSUME Video!VideoTypeOK, NEW o \in Ops, Video!releaseQuota(o)
    PROVE  /\ quota' \in [Ops -> Quotas]
           /\ \A p \in Ops \ {o} : quota'[p] = quota[p]
           /\ quota'[o] \in Held => quota[o] \in Held
<1>1. quota \in [Ops -> Quotas]
  BY RowKinds
<1>2. quota' = IF quota[o] \in {"reserved"} THEN [quota EXCEPT ![o] = "released"] ELSE quota
  BY DEF Video!releaseQuota, Video!SetQuota
<1> QED BY <1>1, <1>2 DEF Quotas, Held

\* What a new state writes: the row of one operation, in its type.
LEMMA BecomeWrites ==
    ASSUME Video!VideoTypeOK, NEW o \in Ops, Video!Has(o), NEW s \in States, Video!Become(o, s)
    PROVE  /\ opRow' \in [Ops -> {Video!NoRow} \cup Operations] /\ opRow'[o] \in Operations
           /\ \A p \in Ops \ {o} : opRow'[p] = opRow[p]
           /\ Video!Has(o)' /\ (Video!Fenced(o)' <=> Video!Fenced(o)) /\ opRow'[o].old = opRow[o].old
           /\ Video!State(o)' = s
<1>1. opRow \in [Ops -> {Video!NoRow} \cup Operations] /\ opRow[o] \in Operations
  BY RowKinds
<1>2. opRow' = [opRow EXCEPT ![o].state = s]
  BY DEF Video!Become
<1>3. /\ opRow' \in [Ops -> {Video!NoRow} \cup Operations] /\ opRow'[o] \in Operations
      /\ \A p \in Ops \ {o} : opRow'[p] = opRow[p]
      /\ opRow'[o].state = s /\ opRow'[o].fenced = opRow[o].fenced /\ opRow'[o].old = opRow[o].old
  BY <1>1, <1>2 DEF Operations
<1> QED BY <1>1, <1>3 DEF Video!Has, Video!Fenced, Video!State, Operations, Video!NoRow

\* An end, and the quota that follows it.
LEMMA EndIsOutcome ==
    ASSUME Video!VideoTypeOK, NEW o \in Ops, Video!Has(o), NEW s \in States \ {"accepted"}, Video!Become(o, s),
           SafeQuota(o) \/ (Video!releaseQuota(o) /\ ~Video!Fenced(o))
    PROVE  Outcome(o) /\ Video!State(o)' = s
<1>1. s \in States
  OBVIOUS
<1>2. /\ opRow' \in [Ops -> {Video!NoRow} \cup Operations]
      /\ \A p \in Ops \ {o} : opRow'[p] = opRow[p]
      /\ Video!Has(o)' /\ (Video!Fenced(o)' <=> Video!Fenced(o)) /\ opRow'[o].old = opRow[o].old
      /\ Video!State(o)' = s
  BY <1>1, BecomeWrites
<1>3. CASE SafeQuota(o)
  BY <1>2, <1>3 DEF Outcome, SafeQuota
<1>4. CASE Video!releaseQuota(o) /\ ~Video!Fenced(o)
  <2>1. /\ quota' \in [Ops -> Quotas]
        /\ \A p \in Ops \ {o} : quota'[p] = quota[p]
        /\ quota'[o] \in Held => quota[o] \in Held
    BY <1>4, ReleaseWrites
  <2> QED BY <1>2, <1>4, <2>1 DEF Outcome
<1> QED BY <1>3, <1>4

\* A reservation may be followed up while the row stays.
LEMMA NothingIsOutcome ==
    ASSUME Video!VideoTypeOK, NEW o \in Ops, Video!Has(o), UNCHANGED opRow, SafeQuota(o)
    PROVE  Outcome(o) /\ Video!State(o)' = Video!State(o)
BY RowKinds DEF Outcome, SafeQuota, Video!Has, Video!Fenced, Video!State

\* A conditional update either ends the operation or leaves it.
LEMMA IfIsOutcome ==
    ASSUME Video!VideoTypeOK, NEW o \in Ops, Video!Has(o), NEW from, Video!FailIf(o, from) \/ Video!LoseIf(o, from)
    PROVE  Outcome(o) /\ (Video!State(o)' = "accepted" => Video!State(o) = "accepted" /\ Video!State(o) \notin from)
<1>1. CASE Video!State(o) \in from
  <2>1. PICK s \in {"failed", "outcome_unknown"} : Video!Become(o, s)
    BY <1>1 DEF Video!FailIf, Video!LoseIf
  <2>2. SafeQuota(o)
    BY <1>1, QuotaWrites DEF Video!FailIf, Video!LoseIf
  <2>3. s \in States \ {"accepted"}
    BY DEF States
  <2> QED BY <2>1, <2>2, <2>3, EndIsOutcome
<1>2. CASE Video!State(o) \notin from
  BY <1>2, QuotaWrites, NothingIsOutcome DEF Video!FailIf, Video!LoseIf
<1> QED BY <1>1, <1>2

\* A POST that throws leaves an accepted operation only with a result at hand.
LEMMA CatchIsOutcome ==
    ASSUME Video!VideoTypeOK, NEW o \in Ops, Video!Has(o), NEW err, Video!Catch(o, err)
    PROVE  Outcome(o) /\ (Video!State(o)' = "accepted" => Video!Fenced(o) /\ Video!Publishing(o) # {})
<1> DEFINE Good == Outcome(o) /\ (Video!State(o)' = "accepted" => Video!Fenced(o) /\ Video!Publishing(o) # {})
<1>1. CASE ~Video!Fenced(o) /\ Video!failBeforeProvider(o)
  <2>1. CASE Video!State(o) = "accepted"
    BY <1>1, <2>1, EndIsOutcome DEF Video!failBeforeProvider, States
  <2>2. CASE Video!State(o) # "accepted"
    BY <1>1, <2>2, QuotaWrites, NothingIsOutcome DEF Video!failBeforeProvider
  <2> QED BY <2>1, <2>2
<1>2. CASE Video!LoseIf(o, Video!Unsettled) \/ Video!FailIf(o, Video!Unsettled)
  BY <1>2, IfIsOutcome DEF Video!Unsettled, Video!Promotable
<1>3. CASE Video!Fenced(o) /\ Video!Publishing(o) # {} /\ UNCHANGED <<opRow, quota>>
  BY <1>3, QuotaWrites, NothingIsOutcome
<1>4. CASE \/ Video!Become(o, "submitted") /\ UNCHANGED quota
           \/ Video!Become(o, "failed") /\ Video!settleQuota(o)
           \/ Video!Become(o, "outcome_unknown") /\ Video!retainUnknownQuota(o)
  <2>1. SafeQuota(o) /\ \E s \in States \ {"accepted"} : Video!Become(o, s)
    BY <1>4, QuotaWrites DEF States
  <2> QED BY <2>1, EndIsOutcome
<1> QED BY <1>1, <1>2, <1>3, <1>4 DEF Video!Catch

\* A status query that fails accepts nothing anew.
LEMMA QueryFailedIsOutcome ==
    ASSUME Video!VideoTypeOK, NEW o \in Ops, Video!Has(o), Video!QueryFailed(o)
    PROVE  Outcome(o)
<1>1. SafeQuota(o)
  BY QuotaWrites DEF Video!QueryFailed
<1>2. CASE Video!State(o) = "submitted"
  BY <1>1, <1>2, EndIsOutcome DEF Video!QueryFailed, States
<1>3. CASE Video!State(o) # "submitted"
  BY <1>1, <1>3, NothingIsOutcome DEF Video!QueryFailed
<1> QED BY <1>2, <1>3
-----------------------------------------------------------------------------
(* The video relay: what is held and what is spent are sums.               *)

UnitsOf == [o \in Ops |-> Units(o)]

\* The units of the operations are natural numbers, and there are finitely many.
LEMMA UnitsWeigh == \A S : S \subseteq Ops => Weighs(UnitsOf, S)
<1>1. IsFiniteSet(Ops) /\ \A o \in Ops : Units(o) \in Nat
  BY VideoAssumption DEF Video!VideoConfig, Video!IsFiniteSet, IsFiniteSet
<1> QED BY <1>1, FS_Subset DEF Weighs, UnitsOf

\* What the relay adds up is the sum of the units.
LEMMA UnitsSum ==
    ASSUME NEW S, S \subseteq Ops
    PROVE  Video!MapThenSumSet(Units, S) = Total(UnitsOf, S)
<1> DEFINE Sums(f) == f = [s \in SUBSET S |-> IF s = {} THEN 0
                              ELSE Units(Pick(s)) + f[s \ {Pick(s)}]]
           g == CHOOSE f : Sums(f)
<1>1. Video!MapThenSumSet(Units, S) = g[S]
  BY DEF Video!MapThenSumSet, Video!MapThenFoldSet, Pick
<1>2. \A s \in SUBSET S : s # {} => UnitsOf[Pick(s)] = Units(Pick(s))
  BY PickIn DEF UnitsOf
<1>3. \A f : Sums(f) <=> SumsUp(f, UnitsOf, S)
  BY <1>2 DEF SumsUp
<1>4. Weighs(UnitsOf, S)
  BY UnitsWeigh
<1>5. PICK f : SumsUp(f, UnitsOf, S)
  BY <1>4, SumExists
<1>6. SumsUp(g, UnitsOf, S)
  BY <1>3, <1>5
<1> HIDE DEF g
<1>7. g[S] = Total(UnitsOf, S)
  BY <1>4, <1>6, TotalIs
<1> QED BY <1>1, <1>7

\* The operations of S that hold units.
Holders(S) == {o \in S : quota[o] \in Held}

\* What is held is the sum over the holders, now and after the step.
LEMMA HoldingIs ==
    ASSUME NEW S, S \subseteq Ops
    PROVE  /\ Video!Holding(S) = Total(UnitsOf, Holders(S)) /\ Video!Holding(S) \in Nat
           /\ Video!Holding(S)' = Total(UnitsOf, Holders(S)') /\ Video!Holding(S)' \in Nat
<1>1. /\ Video!Holding(S) = Video!MapThenSumSet(Units, Holders(S))
      /\ Video!Holding(S)' = Video!MapThenSumSet(Units, Holders(S)')
  BY DEF Video!Holding, Holders, Held
<1>2. Holders(S) \subseteq Ops /\ Holders(S)' \subseteq Ops
  BY DEF Holders
<1>3. /\ Total(UnitsOf, Holders(S)) \in Nat
      /\ Total(UnitsOf, Holders(S)') \in Nat
  BY <1>2, UnitsWeigh, TotalIs
<1> QED BY <1>1, <1>2, <1>3, UnitsSum

\* The limits hold as long as nothing is reserved.
LEMMA LimitsStay ==
    ASSUME VideoInv, \A o \in Ops : quota'[o] \in Held => quota[o] \in Held
    PROVE  WithinUnits'
<1>1. ASSUME NEW S, S \subseteq Ops
      PROVE  Video!Holding(S)' <= Video!Holding(S)
  <2>1. Holders(S)' \subseteq Holders(S) /\ Holders(S) \subseteq Ops
    BY <1>1 DEF Holders
  <2>2. Weighs(UnitsOf, Holders(S))
    BY <2>1, UnitsWeigh
  <2>3. Total(UnitsOf, Holders(S)') <= Total(UnitsOf, Holders(S))
    <3>1. Weighs(UnitsOf, Holders(S)')
      BY <2>1, UnitsWeigh
    <3>2. \A x \in Holders(S)' : UnitsOf[x] <= UnitsOf[x]
      BY <3>1 DEF Weighs
    <3> QED BY <2>1, <2>2, <3>1, <3>2, TotalMonotone
  <2> QED BY <1>1, <2>3, HoldingIs
<1>2. /\ OwnerLimit \in Nat /\ AccountLimit \in Nat
      /\ \A S : S \subseteq Ops => Video!Holding(S) \in Nat /\ Video!Holding(S)' \in Nat
  BY VideoAssumption, HoldingIs DEF Video!VideoConfig
<1>3. \A o \in Ops : Video!OfOwner(OpOwnerOf(o)) \subseteq Ops
  BY DEF Video!OfOwner
<1>4. \A o \in Ops : Video!Holding(Video!OfOwner(OpOwnerOf(o))) <= OwnerLimit
  BY DEF VideoInv, WithinUnits
<1>5. Video!Holding(Ops) <= AccountLimit
  BY DEF VideoInv, WithinUnits
<1>6. \A o \in Ops : Video!Holding(Video!OfOwner(OpOwnerOf(o)))' <= OwnerLimit
  BY <1>1, <1>2, <1>3, <1>4
<1>7. Video!Holding(Ops)' <= AccountLimit
  BY <1>1, <1>2, <1>5
<1> QED BY <1>6, <1>7 DEF WithinUnits, Video!OfOwner
-----------------------------------------------------------------------------
(* The video relay: what a step that does not touch a thing leaves true.   *)

\* The parts of the type invariant, for the steps that write some variables only.
BooksType ==
    /\ opRow \in [Ops -> {Video!NoRow} \cup Operations] /\ quota \in [Ops -> Quotas]
    /\ opSent \in [Ops -> Nat] /\ opCharged \subseteq Ops /\ opCrashes \in 0 .. MaxCrashes
HandsType ==
    /\ post \in [Ops \X Callers -> {"none", "preparing", "executing", "publishing"}]
    /\ submitting \subseteq Ops
    /\ lock \in [Ops -> {"free", "poll", "publishing", "cancel"}]
ResultsType ==
    /\ result \in [Video!Results -> {"none", "publishing", "published", "expired"}]
    /\ {rowAcked, doomed, stored, opSection} \subseteq SUBSET Video!Results
    /\ own \in [Video!Results -> [by : {"none", "post", "poll"}, stage : {"none", "head", "put"}]]
    /\ flight \in [Flights -> {Video!NoFlight} \cup [result : Video!Results, stage : {"head", "put"}]]

\* The type invariant is its three parts.
LEMMA TypeParts ==
    /\ Video!VideoTypeOK <=> BooksType /\ HandsType /\ ResultsType
    /\ Video!VideoTypeOK' <=> BooksType' /\ HandsType' /\ ResultsType'
BY DEF Video!VideoTypeOK, BooksType, HandsType, ResultsType, Operations, States, Quotas

books   == <<opRow, quota, opSent, opCharged, opCrashes>>
hands   == <<post, submitting, lock>>
objects == <<result, rowAcked, doomed, stored, opSection, own, flight>>

\* What a step does to the money of the operations other than o, and of o.
LEMMA OutcomeSpends ==
    ASSUME VideoInv, NEW o \in Ops, Outcome(o), UNCHANGED <<opSent, opCharged, opCrashes>>
    PROVE  BooksType' /\ WithinUnits' /\ \A p \in Ops : SpendsOnce(p)'
<1>1. BooksType
  BY TypeParts DEF VideoInv
<1>2. BooksType'
  BY <1>1 DEF BooksType, Outcome
<1>3. \A p \in Ops : quota'[p] \in Held => quota[p] \in Held
  BY DEF Outcome
<1>4. ASSUME NEW p \in Ops
      PROVE  SpendsOnce(p)'
  <2>1. SpendsOnce(p)
    BY DEF VideoInv, OpInv
  <2>2. CASE p = o
    <3>1. /\ Video!Has(o)' /\ (Video!Fenced(o)' <=> Video!Fenced(o))
          /\ Video!State(o)' = "accepted" =>
               /\ Video!State(o) = "accepted"
               /\ quota[o] \in Held => quota'[o] \in Held
          /\ quota[o] \in Held /\ quota'[o] \notin Held => ~Video!Fenced(o)
          /\ Video!Has(o)
      BY DEF Outcome
    <3>2. SpendsOnce(o)
      BY <2>1, <2>2
    <3>3. o \in opCharged => quota'[o] \in Held
      BY <3>1, <3>2 DEF SpendsOnce
    <3>4. SpendsOnce(o)'
      BY <3>1, <3>2, <3>3 DEF SpendsOnce, Held
    <3> QED BY <2>2, <3>4
  <2>3. CASE p # o
    BY <2>1, <2>3 DEF SpendsOnce, Outcome, Video!Has, Video!Fenced, Video!State
  <2> QED BY <2>2, <2>3
<1> QED BY <1>2, <1>3, <1>4, LimitsStay

\* A step that does not write the books keeps the money.
LEMMA BooksStay ==
    ASSUME VideoInv, UNCHANGED books
    PROVE  BooksType' /\ WithinUnits' /\ \A p \in Ops : SpendsOnce(p)'
<1>1. BooksType'
  BY TypeParts DEF VideoInv, BooksType, books
<1>2. WithinUnits'
  BY LimitsStay DEF books
<1>3. ASSUME NEW p \in Ops
      PROVE  SpendsOnce(p)'
  BY DEF VideoInv, OpInv, SpendsOnce, books, Video!Has, Video!Fenced, Video!State
<1> QED BY <1>1, <1>2, <1>3

\* An operation nobody touches is in the same hands.
LEMMA HandStays ==
    ASSUME VideoInv, NEW p \in Ops, opRow'[p] = opRow[p], lock'[p] = lock[p],
           \A c \in Callers : post'[<<p, c>>] = post[<<p, c>>],
           p \in submitting' => p \in submitting,
           \A r \in Video!Results : r[1] = p => result'[r] = result[r]
    PROVE  InHand(p)'
<1>1. InHand(p)
  BY DEF VideoInv, OpInv
<1>2. Video!Publishing(p)' = Video!Publishing(p)
  BY DEF Video!Publishing, Video!RowsOf
<1> QED BY <1>1, <1>2 DEF InHand, Video!Has, Video!Fenced, Video!State

\* One that is not accepted needs nobody, a call that is out has its POST.
LEMMA HandSettles ==
    ASSUME VideoInv, NEW p \in Ops, Video!Has(p)', Video!State(p)' # "accepted",
           p \in submitting' => \E c \in Callers : post'[<<p, c>>] \in {"executing", "publishing"}
    PROVE  InHand(p)'
BY DEF InHand

\* A result nobody touches stays deliverable; more objects do no harm.
LEMMA DeliversStays ==
    ASSUME VideoInv, NEW r \in Video!Results, result'[r] = result[r], own'[r] = own[r] \/ own'[r] = Video!Nowhere,
           r \in rowAcked' <=> r \in rowAcked, r \in doomed' => r \in doomed,
           r \in opSection' => r \in opSection, r \in stored => r \in stored',
           Video!Has(r[1]) => Video!Has(r[1])'
    PROVE  Delivers(r)'
BY DEF VideoInv, Delivers, Video!Nowhere

\* A recovery goes on with a result that others may have published meanwhile.
LEMMA PromotesStays ==
    ASSUME VideoInv, NEW f \in Flights, flight'[f] = flight[f] \/ flight'[f] = Video!NoFlight,
           \A r \in Video!Results :
             /\ result[r] # "none" => result'[r] # "none"
             /\ result[r] # "none" /\ result'[r] = "publishing" => result[r] = "publishing"
             /\ result[r] = "publishing" /\ r \in stored => r \in stored'
    PROVE  Promotes(f)'
<1>1. CASE flight'[f] = Video!NoFlight
  BY <1>1 DEF Promotes
<1>2. CASE flight'[f] # Video!NoFlight
  <2>1. flight'[f] = flight[f] /\ Promotes(f) /\ flight[f] # Video!NoFlight
    BY <1>2 DEF VideoInv
  <2>2. flight[f].result \in Video!Results
    BY <2>1, TypeParts DEF VideoInv, ResultsType
  <2> QED BY <2>1, <2>2 DEF Promotes
<1> QED BY <1>1, <1>2

\* A step that leaves the results alone.
LEMMA ObjectsStay ==
    ASSUME VideoInv, UNCHANGED objects, \A p \in Ops : Video!Has(p) => Video!Has(p)'
    PROVE  ResultsType' /\ (\A r \in Video!Results : Delivers(r)') /\ \A f \in Flights : Promotes(f)'
<1>1. ResultsType'
  BY TypeParts DEF VideoInv, ResultsType, objects
<1>2. ASSUME NEW r \in Video!Results
      PROVE  Delivers(r)'
  <2>1. r[1] \in Ops
    BY DEF Video!Results
  <2> QED BY <2>1, DeliversStays DEF objects
<1>3. \A f \in Flights : Promotes(f)'
  BY PromotesStays DEF objects
<1> QED BY <1>1, <1>2, <1>3

\* The parts together.
LEMMA PartsMake ==
    ASSUME BooksType', HandsType', ResultsType', WithinUnits',
           \A p \in Ops : SpendsOnce(p)', \A p \in Ops : InHand(p)',
           \A r \in Video!Results : Delivers(r)', \A f \in Flights : Promotes(f)'
    PROVE  VideoInv'
BY TypeParts DEF VideoInv, OpInv
-----------------------------------------------------------------------------
(* The video relay: the steps that end or move one operation.              *)

\* The other operations stay in the hands they are in.
ElseHands(o) ==
    /\ HandsType'
    /\ \A p \in Ops \ {o} :
         /\ lock'[p] = lock[p] /\ (p \in submitting' => p \in submitting)
         /\ \A c \in Callers : post'[<<p, c>>] = post[<<p, c>>]

\* Where the POSTs may be.
LEMMA PostTyped ==
    ASSUME VideoInv
    PROVE  HandsType /\ post \in [Ops \X Callers -> {"none", "preparing", "executing", "publishing"}]
BY TypeParts DEF VideoInv, HandsType

\* A step that moves nobody leaves the other operations in their hands.
LEMMA HandsIdle ==
    ASSUME VideoInv, NEW o \in Ops, UNCHANGED hands
    PROVE  ElseHands(o)
BY PostTyped DEF ElseHands, hands, HandsType

\* A lock is one operation's.
LEMMA HandsOfLock ==
    ASSUME VideoInv, NEW o \in Ops, UNCHANGED <<post, submitting>>,
           NEW s \in {"free", "poll", "publishing", "cancel"}, lock' = [lock EXCEPT ![o] = s]
    PROVE  ElseHands(o) /\ lock'[o] = s
BY PostTyped DEF ElseHands, HandsType

\* A POST is one operation's.
LEMMA HandsOfPost ==
    ASSUME VideoInv, NEW o \in Ops, NEW c \in Callers, UNCHANGED lock,
           NEW s \in {"none", "preparing", "executing", "publishing"},
           post' = [post EXCEPT ![<<o, c>>] = s],
           submitting' \in {submitting, submitting \ {o}, submitting \cup {o}}
    PROVE  /\ ElseHands(o) /\ post'[<<o, c>>] = s
           /\ \A d \in Callers \ {c} : post'[<<o, d>>] = post[<<o, d>>]
<1>1. post \in [Ops \X Callers -> {"none", "preparing", "executing", "publishing"}]
      /\ <<o, c>> \in Ops \X Callers
  BY PostTyped
<1>2. post' \in [Ops \X Callers -> {"none", "preparing", "executing", "publishing"}]
      /\ post'[<<o, c>>] = s /\ \A k \in (Ops \X Callers) \ {<<o, c>>} : post'[k] = post[k]
  BY <1>1
<1>3. /\ \A d \in Callers \ {c} : post'[<<o, d>>] = post[<<o, d>>]
      /\ \A p \in Ops \ {o} : \A d \in Callers : post'[<<p, d>>] = post[<<p, d>>]
  BY <1>2
<1>4. HandsType'
  BY <1>2, PostTyped DEF HandsType
<1> QED BY <1>2, <1>3, <1>4 DEF ElseHands

\* A step whose writes are an outcome of o and the hands it is in.
LEMMA OutcomeKeeps ==
    ASSUME VideoInv, NEW o \in Ops, Outcome(o), UNCHANGED <<opSent, opCharged, opCrashes>>,
           UNCHANGED objects, ElseHands(o), InHand(o)'
    PROVE  VideoInv'
<1>1. BooksType' /\ WithinUnits' /\ \A p \in Ops : SpendsOnce(p)'
  BY OutcomeSpends
<1>2. \A p \in Ops : Video!Has(p) => Video!Has(p)'
  BY DEF Outcome, Video!Has
<1>3. ResultsType' /\ (\A r \in Video!Results : Delivers(r)') /\ \A f \in Flights : Promotes(f)'
  BY <1>2, ObjectsStay
<1>4. ASSUME NEW p \in Ops, p # o
      PROVE  InHand(p)'
  <2>1. opRow'[p] = opRow[p]
    BY <1>4 DEF Outcome
  <2>2. \A r \in Video!Results : r[1] = p => result'[r] = result[r]
    BY DEF objects
  <2> QED BY <1>4, <2>1, <2>2, HandStays DEF ElseHands
<1>5. \A p \in Ops : InHand(p)'
  BY <1>4
<1>6. HandsType'
  BY DEF ElseHands
<1> QED BY <1>1, <1>3, <1>5, <1>6, PartsMake

\* An outcome that takes nothing out of hand.
LEMMA HandOutcome ==
    ASSUME VideoInv, NEW o \in Ops, Outcome(o), UNCHANGED <<post, submitting, result>>
    PROVE  InHand(o)'
<1>1. InHand(o)
  BY DEF VideoInv, OpInv
<1>2. Video!Publishing(o)' = Video!Publishing(o)
  BY DEF Video!Publishing, Video!RowsOf
<1>3. /\ Video!Has(o) /\ Video!Has(o)' /\ (Video!Fenced(o)' <=> Video!Fenced(o)) /\ opRow'[o].old = opRow[o].old
      /\ Video!State(o)' = "accepted" => Video!State(o) = "accepted"
  BY DEF Outcome
<1> QED BY <1>1, <1>2, <1>3 DEF InHand

\* Whoever is waited for has an operation.
LEMMA BusyHas ==
    ASSUME VideoInv, NEW o \in Ops
    PROVE  /\ lock[o] # "free" => Video!Has(o)
           /\ \A c \in Callers : post[<<o, c>>] # "none" => Video!Has(o)
           /\ Video!Fenced(o) => Video!Has(o)
BY DEF VideoInv, OpInv, InHand, Video!Fenced

\* A preparation that fails ends its operation, unless another POST sent it.
LEMMA PreparationFailsKeeps ==
    ASSUME VideoInv, NEW o \in Ops, NEW c \in Callers, Video!PreparationFails(o, c)
    PROVE  VideoInv'
<1>1. /\ post[<<o, c>>] = "preparing" /\ Video!Leaves(o, c) /\ UNCHANGED <<submitting, lock>>
      /\ UNCHANGED objects /\ UNCHANGED <<opSent, opCharged, opCrashes>>
  BY DEF Video!PreparationFails, objects, Video!history
<1>2. PICK err : Video!Catch(o, err)
  BY DEF Video!PreparationFails
<1>3. Video!Has(o) /\ Video!VideoTypeOK
  BY <1>1, BusyHas DEF VideoInv
<1>4. Outcome(o) /\ (Video!State(o)' = "accepted" => Video!Fenced(o) /\ Video!Publishing(o) # {})
  BY <1>2, <1>3, CatchIsOutcome
<1>5. /\ ElseHands(o) /\ post'[<<o, c>>] = "none"
      /\ \A d \in Callers \ {c} : post'[<<o, d>>] = post[<<o, d>>]
  BY <1>1, HandsOfPost DEF Video!Leaves
<1>6. InHand(o)'
  <2>1. InHand(o)
    BY DEF VideoInv, OpInv
  <2>2. o \in submitting' => \E d \in Callers : post'[<<o, d>>] \in {"executing", "publishing"}
    BY <1>1, <1>5, <2>1 DEF InHand
  <2>3. Video!Publishing(o)' = Video!Publishing(o)
    BY <1>1 DEF Video!Publishing, Video!RowsOf, objects
  <2>4. Video!Has(o)' /\ (Video!Fenced(o)' <=> Video!Fenced(o))
    BY <1>4 DEF Outcome
  <2> QED BY <1>4, <2>2, <2>3, <2>4 DEF InHand
<1> QED BY <1>1, <1>4, <1>5, <1>6, OutcomeKeeps

\* A call that ends in an error.
LEMMA ExecuteFailsKeeps ==
    ASSUME VideoInv, NEW o \in Ops, NEW c \in Callers, Video!ExecuteFails(o, c)
    PROVE  VideoInv'
<1>1. /\ post[<<o, c>>] = "executing" /\ Video!Leaves(o, c) /\ UNCHANGED lock
      /\ submitting' = submitting \ {o}
      /\ UNCHANGED objects /\ UNCHANGED <<opSent, opCharged, opCrashes>>
  BY DEF Video!ExecuteFails, objects, Video!history
<1>2. PICK err : Video!Catch(o, err)
  BY DEF Video!ExecuteFails
<1>3. Video!Has(o) /\ Video!VideoTypeOK
  BY <1>1, BusyHas DEF VideoInv
<1>4. Outcome(o) /\ (Video!State(o)' = "accepted" => Video!Fenced(o) /\ Video!Publishing(o) # {})
  BY <1>2, <1>3, CatchIsOutcome
<1>5. ElseHands(o)
  BY <1>1, HandsOfPost DEF Video!Leaves
<1>6. InHand(o)'
  <2>1. Video!Publishing(o)' = Video!Publishing(o)
    BY <1>1 DEF Video!Publishing, Video!RowsOf, objects
  <2>2. Video!Has(o)' /\ (Video!Fenced(o)' <=> Video!Fenced(o))
    BY <1>4 DEF Outcome
  <2> QED BY <1>1, <1>4, <2>1, <2>2 DEF InHand
<1> QED BY <1>1, <1>4, <1>5, <1>6, OutcomeKeeps

\* The row of a task the Provider has taken.
Submitted(o) == opRow' = [opRow EXCEPT ![o].state = "submitted", ![o].task = TRUE]

\* A task the Provider took is no longer merely accepted.
LEMMA SubmittedWrites ==
    ASSUME Video!VideoTypeOK, NEW o \in Ops, Video!Has(o), Submitted(o), UNCHANGED quota
    PROVE  Outcome(o) /\ Video!State(o)' = "submitted"
<1>1. opRow \in [Ops -> {Video!NoRow} \cup Operations] /\ opRow[o] \in Operations
  BY RowKinds
<1> DEFINE next == [opRow[o] EXCEPT !.state = "submitted", !.task = TRUE]
<1>2. next \in Operations /\ next.state = "submitted" /\ next.fenced = opRow[o].fenced
      /\ next.old = opRow[o].old /\ next # Video!NoRow
  BY <1>1 DEF Operations, States, Video!NoRow
<1>3. opRow' = [opRow EXCEPT ![o] = next]
  BY DEF Submitted
<1> HIDE DEF next
<1>4. opRow' \in [Ops -> {Video!NoRow} \cup Operations] /\ opRow'[o] = next
      /\ \A p \in Ops \ {o} : opRow'[p] = opRow[p]
  BY <1>1, <1>2, <1>3
<1>5. quota' \in [Ops -> Quotas]
  BY RowKinds
<1> QED BY <1>2, <1>4, <1>5 DEF Outcome, Video!Has, Video!Fenced, Video!State

\* A long transcription becomes a task.
LEMMA ExecuteSubmittedKeeps ==
    ASSUME VideoInv, NEW o \in Ops, NEW c \in Callers, Video!ExecuteSubmitted(o, c)
    PROVE  VideoInv'
<1>1. /\ post[<<o, c>>] = "executing" /\ Video!Leaves(o, c) /\ UNCHANGED lock
      /\ submitting' = submitting \ {o}
      /\ UNCHANGED objects /\ UNCHANGED <<opSent, opCharged, opCrashes>>
  BY DEF Video!ExecuteSubmitted, objects, Video!history
<1>2. \/ Submitted(o) /\ UNCHANGED quota
      \/ Video!Catch(o, "refused")
  BY DEF Video!ExecuteSubmitted, Submitted
<1>3. Video!Has(o) /\ Video!VideoTypeOK
  BY <1>1, BusyHas DEF VideoInv
<1>4. Outcome(o) /\ (Video!State(o)' = "accepted" => Video!Fenced(o) /\ Video!Publishing(o) # {})
  BY <1>2, <1>3, CatchIsOutcome, SubmittedWrites
<1>5. ElseHands(o)
  BY <1>1, HandsOfPost DEF Video!Leaves
<1>6. InHand(o)'
  <2>1. Video!Publishing(o)' = Video!Publishing(o)
    BY <1>1 DEF Video!Publishing, Video!RowsOf, objects
  <2>2. Video!Has(o)' /\ (Video!Fenced(o)' <=> Video!Fenced(o))
    BY <1>4 DEF Outcome
  <2> QED BY <1>1, <1>4, <2>1, <2>2 DEF InHand
<1> QED BY <1>1, <1>4, <1>5, <1>6, OutcomeKeeps

\* A poll without a result.
LEMMA PollEndsKeeps ==
    ASSUME VideoInv, NEW o \in Ops, Video!PollEnds(o)
    PROVE  VideoInv'
<1>1. /\ lock[o] = "poll" /\ Video!Unlocks(o) /\ UNCHANGED <<post, submitting, result>>
      /\ UNCHANGED objects /\ UNCHANGED <<opSent, opCharged, opCrashes>>
  BY DEF Video!PollEnds, objects, Video!history
<1>2. Video!Has(o) /\ Video!VideoTypeOK
  BY <1>1, BusyHas DEF VideoInv
<1>3. Outcome(o)
  <2>1. CASE Video!Become(o, "submitted") /\ UNCHANGED quota
    BY <1>2, <2>1, QuotaWrites, EndIsOutcome DEF States
  <2>2. CASE (\E state \in {"cancelled", "failed", "expired"} : Video!Become(o, state)) /\ Video!settleQuota(o)
    BY <1>2, <2>2, QuotaWrites, EndIsOutcome DEF States
  <2>3. CASE Video!Become(o, "outcome_unknown") /\ Video!retainUnknownQuota(o)
    BY <1>2, <2>3, QuotaWrites, EndIsOutcome DEF States
  <2>4. CASE Video!QueryFailed(o)
    BY <1>2, <2>4, QueryFailedIsOutcome
  <2> QED BY <2>1, <2>2, <2>3, <2>4 DEF Video!PollEnds
<1>4. ElseHands(o)
  BY <1>1, HandsOfLock DEF Video!Unlocks
<1> QED BY <1>1, <1>3, <1>4, HandOutcome, OutcomeKeeps

\* The end of a cancel.
LEMMA CancelEndsKeeps ==
    ASSUME VideoInv, NEW o \in Ops, Video!CancelEnds(o)
    PROVE  VideoInv'
<1>1. /\ lock[o] = "cancel" /\ (Video!Unlocks(o) \/ lock' = [lock EXCEPT ![o] = "poll"])
      /\ UNCHANGED <<post, submitting, result>>
      /\ UNCHANGED objects /\ UNCHANGED <<opSent, opCharged, opCrashes>>
  BY DEF Video!CancelEnds, objects, Video!history
<1>2. Video!Has(o) /\ Video!VideoTypeOK
  BY <1>1, BusyHas DEF VideoInv
<1>3. Outcome(o)
  <2>1. CASE Video!LoseIf(o, {"submitted", "cancelled"})
    BY <1>2, <2>1, IfIsOutcome
  <2>2. CASE Video!Become(o, "cancelled") /\ Video!settleQuota(o)
    BY <1>2, <2>2, QuotaWrites, EndIsOutcome DEF States
  <2>3. CASE UNCHANGED <<opRow, quota>>
    BY <1>2, <2>3, QuotaWrites, NothingIsOutcome
  <2> QED BY <2>1, <2>2, <2>3 DEF Video!CancelEnds
<1>4. ElseHands(o)
  BY <1>1, HandsOfLock DEF Video!Unlocks
<1> QED BY <1>1, <1>3, <1>4, HandOutcome, OutcomeKeeps

\* Before the fence an operation may end for free: a cancel, or the sweep.
LEMMA UnstartedEndKeeps ==
    ASSUME VideoInv, NEW o \in Ops, Video!CancelUnstarted(o) \/ Video!SweepOrphan(o) \/ Video!MarkInterrupted(o)
    PROVE  VideoInv'
<1>1. /\ UNCHANGED <<post, submitting, result>> /\ UNCHANGED hands
      /\ UNCHANGED objects /\ UNCHANGED <<opSent, opCharged, opCrashes>>
  BY DEF Video!CancelUnstarted, Video!SweepOrphan, Video!MarkInterrupted, Video!waits, hands, objects, Video!history
<1>2. Video!Has(o) /\ Video!VideoTypeOK
  BY BusyHas DEF Video!CancelUnstarted, Video!SweepOrphan, Video!MarkInterrupted, VideoInv
<1>3. Outcome(o)
  <2>1. CASE (\E s \in {"cancelled", "failed"} : Video!Become(o, s)) /\ Video!releaseQuota(o) /\ ~Video!Fenced(o)
    BY <1>2, <2>1, EndIsOutcome DEF States
  <2>2. CASE Video!Become(o, "outcome_unknown") /\ Video!retainUnknownQuota(o)
    BY <1>2, <2>2, QuotaWrites, EndIsOutcome DEF States
  <2> QED BY <2>1, <2>2 DEF Video!CancelUnstarted, Video!SweepOrphan, Video!MarkInterrupted
<1> QED BY <1>1, <1>3, HandsIdle, HandOutcome, OutcomeKeeps

\* A request that only starts to wait.
LEMMA LockStartsKeeps ==
    ASSUME VideoInv, NEW o \in Ops, Video!PollStarts(o) \/ Video!CancelStarts(o)
    PROVE  VideoInv'
<1>1. /\ UNCHANGED <<post, submitting, result, opRow, quota>> /\ Video!Has(o)
      /\ lock' = [lock EXCEPT ![o] = "poll"] \/ lock' = [lock EXCEPT ![o] = "cancel"]
      /\ UNCHANGED objects /\ UNCHANGED <<opSent, opCharged, opCrashes>>
  BY DEF Video!PollStarts, Video!CancelStarts, Video!durable, objects, Video!history
<1>2. Outcome(o)
  BY <1>1, QuotaWrites, NothingIsOutcome DEF VideoInv
<1>3. ElseHands(o)
  BY <1>1, HandsOfLock
<1> QED BY <1>1, <1>2, <1>3, HandOutcome, OutcomeKeeps

\* A second POST of an operation that was not sent yet, or was meanwhile.
LEMMA RepeatKeeps ==
    ASSUME VideoInv, NEW o \in Ops, NEW c \in Callers, Video!Repeat(o, c)
    PROVE  VideoInv'
<1>1. /\ UNCHANGED <<opRow, quota, submitting, lock>> /\ Video!Has(o) /\ post[<<o, c>>] = "none"
      /\ post' = [post EXCEPT ![<<o, c>>] = "preparing"]
      /\ UNCHANGED objects /\ UNCHANGED <<opSent, opCharged, opCrashes>>
  BY DEF Video!Repeat, Video!durable, objects, Video!history
<1>2. Outcome(o)
  BY <1>1, QuotaWrites, NothingIsOutcome DEF VideoInv
<1>3. /\ ElseHands(o) /\ post'[<<o, c>>] = "preparing"
      /\ \A d \in Callers \ {c} : post'[<<o, d>>] = post[<<o, d>>]
  BY <1>1, HandsOfPost
<1>4. InHand(o)'
  <2>1. InHand(o)
    BY DEF VideoInv, OpInv
  <2>2. Video!Has(o)'
    BY <1>2 DEF Outcome
  <2>3. o \in submitting' => \E d \in Callers : post'[<<o, d>>] \in {"executing", "publishing"}
    BY <1>1, <1>3, <2>1 DEF InHand
  <2> QED BY <1>3, <2>2, <2>3 DEF InHand
<1> QED BY <1>1, <1>2, <1>3, <1>4, OutcomeKeeps

\* A POST that finds the fence set leaves the operation to the one that set it.
LEMMA AlreadyFencedKeeps ==
    ASSUME VideoInv, NEW o \in Ops, NEW c \in Callers, Video!AlreadyFenced(o, c)
    PROVE  VideoInv'
<1>1. /\ UNCHANGED <<opRow, quota, submitting, lock>> /\ post[<<o, c>>] = "preparing"
      /\ ~(Video!State(o) = "accepted" /\ ~Video!Fenced(o)) /\ Video!Leaves(o, c)
      /\ UNCHANGED objects /\ UNCHANGED <<opSent, opCharged, opCrashes>>
  BY DEF Video!AlreadyFenced, Video!durable, objects, Video!history
<1>2. Video!Has(o) /\ Video!VideoTypeOK
  BY <1>1, BusyHas DEF VideoInv
<1>3. Outcome(o) /\ Video!State(o)' = Video!State(o)
  BY <1>1, <1>2, QuotaWrites, NothingIsOutcome
<1>4. /\ ElseHands(o) /\ post'[<<o, c>>] = "none"
      /\ \A d \in Callers \ {c} : post'[<<o, d>>] = post[<<o, d>>]
  BY <1>1, HandsOfPost DEF Video!Leaves
<1>5. InHand(o)'
  <2>1. InHand(o)
    BY DEF VideoInv, OpInv
  <2>2. Video!Has(o)' /\ (Video!Fenced(o)' <=> Video!Fenced(o))
    BY <1>3 DEF Outcome
  <2>3. o \in submitting' => \E d \in Callers : post'[<<o, d>>] \in {"executing", "publishing"}
    BY <1>1, <1>4, <2>1 DEF InHand
  <2>4. ASSUME Video!State(o)' = "accepted"
        PROVE  \/ \E d \in Callers : post'[<<o, d>>] # "none"
               \/ Video!Fenced(o)' /\ (o \in submitting' => Video!Publishing(o)' # {})
    BY <1>1, <1>3, <2>2, <2>3, <2>4
  <2> QED BY <2>2, <2>3, <2>4 DEF InHand
<1> QED BY <1>1, <1>3, <1>4, <1>5, OutcomeKeeps
-----------------------------------------------------------------------------
(* The video relay: the reservation and the fence.                         *)

\* A step that leaves the results alone, and the operations other than o.
LEMMA BooksKeep ==
    ASSUME VideoInv, NEW o \in Ops, BooksType', WithinUnits', \A p \in Ops : SpendsOnce(p)',
           UNCHANGED objects, \A p \in Ops \ {o} : opRow'[p] = opRow[p], Video!Has(o)',
           ElseHands(o), InHand(o)'
    PROVE  VideoInv'
<1>1. \A p \in Ops : Video!Has(p) => Video!Has(p)'
  BY DEF Video!Has
<1>2. ResultsType' /\ (\A r \in Video!Results : Delivers(r)') /\ \A f \in Flights : Promotes(f)'
  BY <1>1, ObjectsStay
<1>3. ASSUME NEW p \in Ops, p # o
      PROVE  InHand(p)'
  <2>1. opRow'[p] = opRow[p]
    BY <1>3
  <2>2. \A r \in Video!Results : r[1] = p => result'[r] = result[r]
    BY DEF objects
  <2> QED BY <1>3, <2>1, <2>2, HandStays DEF ElseHands
<1>4. \A p \in Ops : InHand(p)'
  BY <1>3
<1>5. HandsType'
  BY DEF ElseHands
<1> QED BY <1>2, <1>4, <1>5, PartsMake

\* A reservation that fits keeps the limits.
LEMMA ReservationFits ==
    ASSUME VideoInv, NEW o \in Ops, ~Video!Has(o), Video!Reservable(o), quota' = [quota EXCEPT ![o] = "reserved"]
    PROVE  WithinUnits'
<1>1. quota \in [Ops -> Quotas] /\ quota[o] \notin Held
  BY RowKinds DEF VideoInv, OpInv, SpendsOnce, Held
<1>2. \A p \in Ops \ {o} : quota'[p] = quota[p]
  BY <1>1
<1>3. quota'[o] \in Held
  BY <1>1 DEF Held
<1>4. ASSUME NEW S, S \subseteq Ops, o \in S
      PROVE  Video!Holding(S)' = Video!Holding(S) + Units(o)
  <2>1. Holders(S)' = Holders(S) \cup {o} /\ Holders(S) = Holders(S)' \ {o}
    BY <1>1, <1>2, <1>3, <1>4 DEF Holders, Held
  <2>2. Weighs(UnitsOf, Holders(S)') /\ o \in Holders(S)'
    BY <1>4, <2>1, UnitsWeigh DEF Holders
  <2>3. Total(UnitsOf, Holders(S)') = UnitsOf[o] + Total(UnitsOf, Holders(S))
    BY <2>1, <2>2, TotalWith
  <2>4. UnitsOf[o] = Units(o) /\ UnitsOf[o] \in Nat
    BY <2>2 DEF UnitsOf, Weighs
  <2>5. /\ Video!Holding(S) = Total(UnitsOf, Holders(S)) /\ Video!Holding(S) \in Nat
        /\ Video!Holding(S)' = Total(UnitsOf, Holders(S)')
    BY <1>4, HoldingIs
  <2> QED BY <2>3, <2>4, <2>5
<1>5. ASSUME NEW S, S \subseteq Ops, o \notin S
      PROVE  Video!Holding(S)' = Video!Holding(S)
  <2>1. Holders(S)' = Holders(S)
    BY <1>2, <1>5 DEF Holders, Held
  <2> QED BY <1>5, <2>1, HoldingIs
<1>6. /\ Video!Holding(Video!OfOwner(OpOwnerOf(o))) + Units(o) <= OwnerLimit
      /\ Video!Holding(Ops) + Units(o) <= AccountLimit
  BY DEF Video!Reservable
<1>7. Video!Holding(Ops)' <= AccountLimit
  BY <1>4, <1>6
<1>8. ASSUME NEW p \in Ops
      PROVE  Video!Holding(Video!OfOwner(OpOwnerOf(p)))' <= OwnerLimit
  <2>1. Video!OfOwner(OpOwnerOf(p)) \subseteq Ops /\ o \in Video!OfOwner(OpOwnerOf(o))
    BY DEF Video!OfOwner
  <2>2. CASE o \in Video!OfOwner(OpOwnerOf(p))
    <3>1. Video!OfOwner(OpOwnerOf(p)) = Video!OfOwner(OpOwnerOf(o))
      BY <2>2 DEF Video!OfOwner
    <3> QED BY <1>4, <1>6, <2>1, <3>1
  <2>3. CASE o \notin Video!OfOwner(OpOwnerOf(p))
    BY <1>5, <2>1, <2>3 DEF VideoInv, WithinUnits
  <2> QED BY <2>2, <2>3
<1> QED BY <1>7, <1>8 DEF WithinUnits, Video!OfOwner

\* A new operation reserves what fits.
LEMMA CreateVideoKeeps ==
    ASSUME VideoInv, NEW o \in Ops, NEW c \in Callers, Video!Create(o, c)
    PROVE  VideoInv'
<1> DEFINE new == [state |-> "accepted", fenced |-> FALSE, task |-> FALSE, old |-> FALSE, acked |-> FALSE]
<1>1. /\ ~Video!Has(o) /\ Video!Reservable(o) /\ opRow' = [opRow EXCEPT ![o] = new]
      /\ quota' = [quota EXCEPT ![o] = "reserved"]
      /\ post' = [post EXCEPT ![<<o, c>>] = "preparing"] /\ UNCHANGED <<submitting, lock>>
      /\ UNCHANGED objects /\ UNCHANGED <<opSent, opCharged, opCrashes>>
  BY DEF Video!Create, objects, Video!history
<1>2. new \in Operations /\ new # Video!NoRow /\ new.state = "accepted" /\ ~new.fenced
  BY DEF Operations, States, Video!NoRow
<1> HIDE DEF new
<1>3. BooksType
  BY TypeParts DEF VideoInv
<1>4. /\ opRow' \in [Ops -> {Video!NoRow} \cup Operations] /\ opRow'[o] = new
      /\ \A p \in Ops \ {o} : opRow'[p] = opRow[p]
  BY <1>1, <1>2, <1>3 DEF BooksType
<1>5. /\ quota' \in [Ops -> Quotas] /\ quota'[o] = "reserved"
      /\ \A p \in Ops \ {o} : quota'[p] = quota[p]
  BY <1>1, <1>3 DEF BooksType, Quotas
<1>6. BooksType'
  BY <1>1, <1>3, <1>4, <1>5 DEF BooksType
<1>7. Video!Has(o)' /\ ~Video!Fenced(o)'
  BY <1>2, <1>4 DEF Video!Has, Video!Fenced
<1>8. ASSUME NEW p \in Ops
      PROVE  SpendsOnce(p)'
  <2>1. SpendsOnce(p)
    BY DEF VideoInv, OpInv
  <2>2. CASE p = o
    <3>1. opSent[o] = 0 /\ o \notin opCharged
      BY <1>1, <2>1, <2>2 DEF SpendsOnce, Video!Fenced
    <3>2. quota'[o] \in Held
      BY <1>5 DEF Held
    <3> QED BY <1>1, <1>7, <2>2, <3>1, <3>2 DEF SpendsOnce, Held
  <2>3. CASE p # o
    <3>1. opRow'[p] = opRow[p] /\ quota'[p] = quota[p]
      BY <1>4, <1>5, <2>3
    <3> QED BY <1>1, <2>1, <3>1 DEF SpendsOnce, Video!Has, Video!Fenced, Video!State, Held
  <2> QED BY <2>2, <2>3
<1>9. ElseHands(o) /\ post'[<<o, c>>] = "preparing"
  BY <1>1, HandsOfPost
<1>10. InHand(o)'
  <2>1. o \notin submitting'
    BY <1>1 DEF VideoInv, OpInv, InHand
  <2> QED BY <1>7, <1>9, <2>1 DEF InHand
<1>11. WithinUnits'
  BY <1>1, ReservationFits
<1> QED BY <1>1, <1>4, <1>6, <1>7, <1>8, <1>9, <1>10, <1>11, BooksKeep

\* The fence: nothing was sent before it, and nothing will be sent again.
LEMMA FenceKeeps ==
    ASSUME VideoInv, NEW o \in Ops, NEW c \in Callers, Video!Fence(o, c)
    PROVE  VideoInv'
<1>1. /\ post[<<o, c>>] = "preparing" /\ Video!State(o) = "accepted" /\ ~Video!Fenced(o)
      /\ opRow' = [opRow EXCEPT ![o].fenced = TRUE] /\ submitting' = submitting \cup {o}
      /\ post' = [post EXCEPT ![<<o, c>>] = "executing"] /\ UNCHANGED <<quota, lock, opCrashes>>
      /\ opSent' = [opSent EXCEPT ![o] = @ + 1] /\ opCharged' \in {opCharged, opCharged \cup {o}}
      /\ UNCHANGED objects
  BY DEF Video!Fence, objects
<1>2. Video!Has(o) /\ Video!VideoTypeOK /\ BooksType
  BY <1>1, BusyHas, TypeParts DEF VideoInv
<1>3. opRow[o] \in Operations
  BY <1>2, RowKinds
<1>4. /\ opRow' \in [Ops -> {Video!NoRow} \cup Operations] /\ opRow'[o] \in Operations
      /\ opRow'[o].fenced = TRUE /\ opRow'[o].state = opRow[o].state
      /\ \A p \in Ops \ {o} : opRow'[p] = opRow[p]
  BY <1>1, <1>2, <1>3 DEF BooksType, Operations
<1>5. Video!Has(o)' /\ Video!Fenced(o)'
  BY <1>4 DEF Video!Has, Video!Fenced, Operations, Video!NoRow
<1>6. SpendsOnce(o)
  BY DEF VideoInv, OpInv
<1>7. /\ opSent' \in [Ops -> Nat] /\ opSent'[o] = 1 /\ opCharged' \subseteq Ops
      /\ \A p \in Ops \ {o} : opSent'[p] = opSent[p] /\ (p \in opCharged' <=> p \in opCharged)
  BY <1>1, <1>2, <1>6 DEF BooksType, SpendsOnce
<1>8. BooksType'
  BY <1>1, <1>2, <1>4, <1>7 DEF BooksType
<1>9. ASSUME NEW p \in Ops
      PROVE  SpendsOnce(p)'
  <2>1. CASE p = o
    <3>1. quota'[o] \in Held
      BY <1>1, <1>2, <1>6 DEF SpendsOnce
    <3> QED BY <1>5, <1>7, <2>1, <3>1 DEF SpendsOnce, Held
  <2>2. CASE p # o
    <3>1. /\ opRow'[p] = opRow[p] /\ opSent'[p] = opSent[p] /\ (p \in opCharged' <=> p \in opCharged)
          /\ quota'[p] = quota[p]
      BY <1>1, <1>4, <1>7, <2>2
    <3>2. SpendsOnce(p)
      BY DEF VideoInv, OpInv
    <3> QED BY <3>1, <3>2 DEF SpendsOnce, Video!Has, Video!Fenced, Video!State, Held
  <2> QED BY <2>1, <2>2
<1>10. WithinUnits'
  BY <1>1, LimitsStay
<1>11. ElseHands(o) /\ post'[<<o, c>>] = "executing"
  BY <1>1, HandsOfPost
<1>12. InHand(o)'
  BY <1>5, <1>11 DEF InHand
<1> QED BY <1>1, <1>4, <1>5, <1>8, <1>9, <1>10, <1>11, <1>12, BooksKeep
-----------------------------------------------------------------------------
(* The video relay: the publication of results.                            *)

\* A step whose writes are an outcome of o and the results of o.
LEMMA PublicationKeeps ==
    ASSUME VideoInv, NEW o \in Ops, Outcome(o), UNCHANGED <<opSent, opCharged, opCrashes>>,
           ElseHands(o), InHand(o)', \A r \in Video!Results : r[1] # o => result'[r] = result[r],
           ResultsType', \A r \in Video!Results : Delivers(r)', \A f \in Flights : Promotes(f)'
    PROVE  VideoInv'
<1>1. BooksType' /\ WithinUnits' /\ \A p \in Ops : SpendsOnce(p)'
  BY OutcomeSpends
<1>2. ASSUME NEW p \in Ops, p # o
      PROVE  InHand(p)'
  <2>1. opRow'[p] = opRow[p]
    BY <1>2 DEF Outcome
  <2>2. \A r \in Video!Results : r[1] = p => result'[r] = result[r]
    BY <1>2
  <2> QED BY <1>2, <2>1, <2>2, HandStays DEF ElseHands
<1>3. \A p \in Ops : InHand(p)'
  BY <1>2
<1>4. HandsType'
  BY DEF ElseHands
<1> QED BY <1>1, <1>3, <1>4, PartsMake

\* The operation of a result.
LEMMA ResultOf ==
    ASSUME VideoInv, NEW r \in Video!Results
    PROVE  /\ r[1] \in Ops /\ r \in Video!RowsOf(r[1])
           /\ result[r] # "none" \/ own[r] # Video!Nowhere => Video!Has(r[1])
BY DEF VideoInv, Delivers, Video!Results, Video!RowsOf

\* An outcome of one operation forgets no row.
LEMMA OutcomeHas ==
    ASSUME NEW o \in Ops, Outcome(o)
    PROVE  \A p \in Ops : Video!Has(p) => Video!Has(p)'
BY DEF Outcome, Video!Has

\* A publication that ends, with its result published or not.
LEMMA ObjectsAfterEnd ==
    ASSUME VideoInv, NEW r \in Video!Results, \A p \in Ops : Video!Has(p) => Video!Has(p)',
           UNCHANGED <<rowAcked, doomed, stored, opSection>>,
           \/ UNCHANGED result
           \/ /\ result[r] = "publishing" /\ r \in stored
              /\ result' = [result EXCEPT ![r] = "published"],
           UNCHANGED own \/ Video!Ends(r),
           UNCHANGED flight \/ \E f \in Flights : flight' = [flight EXCEPT ![f] = Video!NoFlight]
    PROVE  /\ ResultsType' /\ (\A q \in Video!Results : Delivers(q)') /\ (\A f \in Flights : Promotes(f)')
           /\ \A q \in Video!Results : q[1] # r[1] => result'[q] = result[q]
<1>1. ResultsType
  BY TypeParts DEF VideoInv
<1>2. /\ result' \in [Video!Results -> {"none", "publishing", "published", "expired"}]
      /\ \A q \in Video!Results \ {r} : result'[q] = result[q]
      /\ result'[r] # result[r] => result[r] = "publishing" /\ r \in stored /\ result'[r] = "published"
  BY <1>1 DEF ResultsType
<1>3. /\ own' \in [Video!Results -> [by : {"none", "post", "poll"}, stage : {"none", "head", "put"}]]
      /\ \A q \in Video!Results : own'[q] = own[q] \/ own'[q] = Video!Nowhere
  <2>1. Video!Nowhere \in [by : {"none", "post", "poll"}, stage : {"none", "head", "put"}]
    BY DEF Video!Nowhere
  <2> QED BY <1>1, <2>1 DEF ResultsType, Video!Ends
<1>4. /\ flight' \in [Flights -> {Video!NoFlight} \cup [result : Video!Results, stage : {"head", "put"}]]
      /\ \A f \in Flights : flight'[f] = flight[f] \/ flight'[f] = Video!NoFlight
  BY <1>1 DEF ResultsType
<1>5. ResultsType'
  BY <1>1, <1>2, <1>3, <1>4 DEF ResultsType
<1>6. ASSUME NEW q \in Video!Results
      PROVE  Delivers(q)'
  <2>1. Video!Has(q[1]) => Video!Has(q[1])'
    BY ResultOf
  <2>2. CASE result'[q] = result[q]
    BY <1>3, <2>1, <2>2, DeliversStays
  <2>3. CASE result'[q] # result[q]
    <3>1. q = r /\ result[q] = "publishing" /\ q \in stored /\ result'[q] = "published"
      BY <1>2, <2>3
    <3>2. Video!Has(q[1]) /\ Delivers(q)
      BY <3>1, ResultOf DEF VideoInv
    <3>3. q \notin rowAcked /\ q \notin doomed /\ q \notin opSection
      BY <3>1, <3>2 DEF Delivers
    <3> QED BY <2>1, <3>1, <3>2, <3>3 DEF Delivers
  <2> QED BY <2>2, <2>3
<1>7. \A q \in Video!Results :
         /\ result[q] # "none" => result'[q] # "none"
         /\ result[q] # "none" /\ result'[q] = "publishing" => result[q] = "publishing"
  BY <1>2
<1>8. ASSUME NEW f \in Flights
      PROVE  Promotes(f)'
  <2>1. flight'[f] = flight[f] \/ flight'[f] = Video!NoFlight
    BY <1>4
  <2>2. \A q \in Video!Results : result[q] = "publishing" /\ q \in stored => q \in stored'
    OBVIOUS
  <2>3. \A q \in Video!Results :
          /\ result[q] # "none" => result'[q] # "none"
          /\ result[q] # "none" /\ result'[q] = "publishing" => result[q] = "publishing"
          /\ result[q] = "publishing" /\ q \in stored => q \in stored'
    BY <1>7, <2>2
  <2> QED BY <2>1, <2>3, PromotesStays
<1> QED BY <1>2, <1>5, <1>6, <1>8

\* What a promotion writes.
LEMMA PromotedWrites ==
    ASSUME VideoInv, NEW r \in Video!Results, Video!Promoted(r), r \in stored
    PROVE  /\ Outcome(r[1]) /\ Video!State(r[1])' = "succeeded" /\ Video!Has(r[1])'
           /\ result[r] = "publishing" /\ result' = [result EXCEPT ![r] = "published"]
<1>1. /\ result[r] = "publishing" /\ result' = [result EXCEPT ![r] = "published"]
      /\ Video!Become(r[1], "succeeded") /\ Video!settleQuota(r[1])
  BY DEF Video!Promoted
<1>2. Video!Has(r[1]) /\ Video!VideoTypeOK /\ r[1] \in Ops
  BY <1>1, ResultOf DEF VideoInv
<1>3. SafeQuota(r[1])
  BY <1>1, <1>2, QuotaWrites
<1>4. "succeeded" \in States \ {"accepted"}
  BY DEF States
<1>5. Outcome(r[1]) /\ Video!State(r[1])' = "succeeded"
  BY <1>1, <1>2, <1>3, <1>4, EndIsOutcome
<1> QED BY <1>1, <1>5 DEF Outcome

\* The hands of an operation whose publishing POST leaves.
LEMMA PostLeavesHands ==
    ASSUME VideoInv, NEW o \in Ops, Video!PostLeaves(o), UNCHANGED lock
    PROVE  ElseHands(o) /\ o \notin submitting'
<1>1. post \in [Ops \X Callers -> {"none", "preparing", "executing", "publishing"}]
  BY PostTyped
<1>2. post' = [k \in Ops \X Callers |-> IF k[1] = o /\ post[k] = "publishing" THEN "none" ELSE post[k]]
  BY <1>1 DEF Video!PostLeaves
<1>3. /\ post' \in [Ops \X Callers -> {"none", "preparing", "executing", "publishing"}]
      /\ \A p \in Ops \ {o} : \A c \in Callers : post'[<<p, c>>] = post[<<p, c>>]
  BY <1>1, <1>2
<1>4. submitting' = submitting \ {o}
  BY DEF Video!PostLeaves
<1>5. HandsType'
  BY <1>3, <1>4, PostTyped DEF HandsType
<1> QED BY <1>3, <1>4, <1>5 DEF ElseHands

\* The POST publishes its result.
LEMMA PostPublishesKeeps ==
    ASSUME VideoInv, NEW r \in Video!Results, Video!PostPublishes(r)
    PROVE  VideoInv'
<1>1. /\ own[r] = [by |-> "post", stage |-> "put"] /\ Video!Promoted(r) /\ Video!Ends(r) /\ Video!PostLeaves(r[1])
      /\ UNCHANGED lock /\ UNCHANGED <<rowAcked, doomed, stored, opSection>> /\ UNCHANGED flight
      /\ UNCHANGED <<opSent, opCharged, opCrashes>>
  BY DEF Video!PostPublishes, Video!history
<1>2. r \in stored /\ r[1] \in Ops
  BY <1>1, ResultOf DEF VideoInv, Delivers, Video!Promoted
<1>3. /\ Outcome(r[1]) /\ Video!State(r[1])' = "succeeded" /\ Video!Has(r[1])'
      /\ result[r] = "publishing" /\ result' = [result EXCEPT ![r] = "published"]
  BY <1>1, <1>2, PromotedWrites
<1>4. ElseHands(r[1]) /\ r[1] \notin submitting'
  BY <1>1, <1>2, PostLeavesHands
<1>5. InHand(r[1])'
  BY <1>2, <1>3, <1>4, HandSettles
<1>6. /\ ResultsType' /\ (\A q \in Video!Results : Delivers(q)') /\ (\A f \in Flights : Promotes(f)')
      /\ \A q \in Video!Results : q[1] # r[1] => result'[q] = result[q]
  BY <1>1, <1>2, <1>3, OutcomeHas, ObjectsAfterEnd
<1> QED BY <1>1, <1>2, <1>3, <1>4, <1>5, <1>6, PublicationKeeps

\* The POST cannot publish: its result stays for the recovery.
LEMMA PostPublishFailsKeeps ==
    ASSUME VideoInv, NEW r \in Video!Results, Video!PostPublishFails(r)
    PROVE  VideoInv'
<1>1. /\ own[r].by = "post" /\ Video!Catch(r[1], "unknown") /\ Video!Ends(r) /\ Video!PostLeaves(r[1])
      /\ UNCHANGED lock /\ UNCHANGED <<rowAcked, doomed, stored, opSection>>
      /\ UNCHANGED flight /\ UNCHANGED result /\ UNCHANGED <<opSent, opCharged, opCrashes>>
  BY DEF Video!PostPublishFails, Video!history
<1>2. r[1] \in Ops /\ Video!Has(r[1]) /\ Video!VideoTypeOK
  BY <1>1, ResultOf DEF VideoInv, Video!Nowhere
<1>3. Outcome(r[1]) /\ (Video!State(r[1])' = "accepted" => Video!Fenced(r[1]) /\ Video!Publishing(r[1]) # {})
  BY <1>1, <1>2, CatchIsOutcome
<1>4. ElseHands(r[1]) /\ r[1] \notin submitting'
  BY <1>1, <1>2, PostLeavesHands
<1>5. Video!Has(r[1])' /\ (Video!Fenced(r[1])' <=> Video!Fenced(r[1]))
  BY <1>3 DEF Outcome
<1>6. InHand(r[1])'
  BY <1>3, <1>4, <1>5 DEF InHand
<1>7. /\ ResultsType' /\ (\A q \in Video!Results : Delivers(q)') /\ (\A f \in Flights : Promotes(f)')
      /\ \A q \in Video!Results : q[1] # r[1] => result'[q] = result[q]
  BY <1>1, <1>2, <1>3, OutcomeHas, ObjectsAfterEnd
<1> QED BY <1>1, <1>2, <1>3, <1>4, <1>6, <1>7, PublicationKeeps

\* A poll publishes its result.
LEMMA PollPublishesKeeps ==
    ASSUME VideoInv, NEW r \in Video!Results, Video!PollPublishes(r)
    PROVE  VideoInv'
<1>1. /\ own[r] = [by |-> "poll", stage |-> "put"] /\ Video!Promoted(r) /\ Video!Ends(r) /\ Video!Unlocks(r[1])
      /\ UNCHANGED <<post, submitting>> /\ UNCHANGED <<rowAcked, doomed, stored, opSection>>
      /\ UNCHANGED flight /\ UNCHANGED <<opSent, opCharged, opCrashes>>
  BY DEF Video!PollPublishes, Video!history
<1>2. r \in stored /\ r[1] \in Ops
  BY <1>1, ResultOf DEF VideoInv, Delivers, Video!Promoted
<1>3. /\ Outcome(r[1]) /\ Video!State(r[1])' = "succeeded" /\ Video!Has(r[1])'
      /\ result[r] = "publishing" /\ result' = [result EXCEPT ![r] = "published"]
  BY <1>1, <1>2, PromotedWrites
<1>4. ElseHands(r[1])
  BY <1>1, <1>2, HandsOfLock DEF Video!Unlocks
<1>5. r[1] \in submitting => \E c \in Callers : post[<<r[1], c>>] \in {"executing", "publishing"}
  BY <1>2 DEF VideoInv, OpInv, InHand
<1>6. InHand(r[1])'
  BY <1>1, <1>2, <1>3, <1>5, HandSettles
<1>7. /\ ResultsType' /\ (\A q \in Video!Results : Delivers(q)') /\ (\A f \in Flights : Promotes(f)')
      /\ \A q \in Video!Results : q[1] # r[1] => result'[q] = result[q]
  BY <1>1, <1>2, <1>3, OutcomeHas, ObjectsAfterEnd
<1> QED BY <1>1, <1>2, <1>3, <1>4, <1>6, <1>7, PublicationKeeps

\* A poll that cannot publish, or finds its operation ended by somebody else.
LEMMA PollPublishFailsKeeps ==
    ASSUME VideoInv, NEW r \in Video!Results, Video!PollPublishFails(r) \/ Video!PollPublishConflicts(r)
    PROVE  VideoInv'
<1>1. /\ own[r] # Video!Nowhere /\ Video!Ends(r) /\ Video!Unlocks(r[1])
      /\ Video!QueryFailed(r[1]) \/ (Video!Become(r[1], "failed") /\ Video!settleQuota(r[1]))
      /\ UNCHANGED <<post, submitting, result>> /\ UNCHANGED <<rowAcked, doomed, stored, opSection>>
      /\ UNCHANGED flight /\ UNCHANGED result /\ UNCHANGED <<opSent, opCharged, opCrashes>>
  BY DEF Video!PollPublishFails, Video!PollPublishConflicts, Video!history, Video!Nowhere
<1>2. r[1] \in Ops /\ Video!Has(r[1]) /\ Video!VideoTypeOK
  BY <1>1, ResultOf DEF VideoInv
<1>3. Outcome(r[1])
  BY <1>1, <1>2, QueryFailedIsOutcome, QuotaWrites, EndIsOutcome DEF States
<1>4. ElseHands(r[1])
  BY <1>1, <1>2, HandsOfLock DEF Video!Unlocks
<1>5. InHand(r[1])'
  BY <1>1, <1>2, <1>3, HandOutcome
<1>6. /\ ResultsType' /\ (\A q \in Video!Results : Delivers(q)') /\ (\A f \in Flights : Promotes(f)')
      /\ \A q \in Video!Results : q[1] # r[1] => result'[q] = result[q]
  BY <1>1, <1>2, <1>3, OutcomeHas, ObjectsAfterEnd
<1> QED BY <1>1, <1>2, <1>3, <1>4, <1>5, <1>6, PublicationKeeps

\* A recovery publishes a result.
LEMMA FlightPublishesKeeps ==
    ASSUME VideoInv, NEW f \in Flights, Video!FlightPublishes(f)
    PROVE  VideoInv'
<1> DEFINE s == flight[f].result
<1>1. /\ flight[f].stage = "put" /\ Video!Promoted(s) /\ flight' = [flight EXCEPT ![f] = Video!NoFlight]
      /\ UNCHANGED hands /\ UNCHANGED <<rowAcked, doomed, stored, opSection>>
      /\ UNCHANGED own /\ UNCHANGED <<opSent, opCharged, opCrashes>>
  BY DEF Video!FlightPublishes, Video!history, hands
<1>2. flight[f] # Video!NoFlight /\ s \in Video!Results /\ s \in stored
  <2>1. flight[f] # Video!NoFlight
    BY <1>1 DEF Video!NoFlight
  <2>2. s \in Video!Results
    BY <2>1, TypeParts DEF VideoInv, ResultsType
  <2> QED BY <1>1, <2>1, <2>2 DEF VideoInv, Promotes, Video!Promoted
<1> SUFFICES ASSUME NEW r \in Video!Results, r = s PROVE VideoInv'
  BY <1>2
<1>3. Video!Promoted(r) /\ r \in stored /\ r[1] \in Ops
  BY <1>1, <1>2, ResultOf
<1>4. /\ Outcome(r[1]) /\ Video!State(r[1])' = "succeeded" /\ Video!Has(r[1])'
      /\ result[r] = "publishing" /\ result' = [result EXCEPT ![r] = "published"]
  BY <1>3, PromotedWrites
<1>5. ElseHands(r[1])
  BY <1>1, <1>3, HandsIdle
<1>6. r[1] \in submitting => \E c \in Callers : post[<<r[1], c>>] \in {"executing", "publishing"}
  BY <1>3 DEF VideoInv, OpInv, InHand
<1>7. InHand(r[1])'
  BY <1>1, <1>3, <1>4, <1>6, HandSettles DEF hands
<1>8. \A p \in Ops : Video!Has(p) => Video!Has(p)'
  BY <1>3, <1>4, OutcomeHas
<1>9. /\ ResultsType' /\ (\A q \in Video!Results : Delivers(q)') /\ (\A g \in Flights : Promotes(g)')
      /\ \A q \in Video!Results : q[1] # r[1] => result'[q] = result[q]
  BY <1>1, <1>3, <1>4, <1>8, ObjectsAfterEnd
<1> QED BY <1>1, <1>3, <1>4, <1>5, <1>7, <1>9, PublicationKeeps
-----------------------------------------------------------------------------
(* The video relay: puts, recoveries, acknowledgement and cleanup.         *)

\* A step that leaves the operations alone: the books, the hands and the rows.
LEMMA ObjectsKeep ==
    ASSUME VideoInv, UNCHANGED books, UNCHANGED hands, UNCHANGED result,
           ResultsType', \A r \in Video!Results : Delivers(r)', \A f \in Flights : Promotes(f)'
    PROVE  VideoInv'
<1>1. BooksType' /\ WithinUnits' /\ \A p \in Ops : SpendsOnce(p)'
  BY BooksStay
<1>2. HandsType'
  BY PostTyped DEF HandsType, hands
<1>3. \A p \in Ops : InHand(p)'
  BY HandStays DEF hands, books
<1> QED BY <1>1, <1>2, <1>3, PartsMake

\* More objects in the store, and nothing else.
LEMMA MoreStored ==
    ASSUME VideoInv, NEW s \in Video!Results, stored' = stored \cup {s}, UNCHANGED opRow,
           UNCHANGED <<result, rowAcked, doomed, opSection>>
    PROVE  /\ \A r \in Video!Results : own'[r] = own[r] => Delivers(r)'
           /\ \A f \in Flights : flight'[f] = flight[f] => Promotes(f)'
<1>1. ASSUME NEW r \in Video!Results, own'[r] = own[r]
      PROVE  Delivers(r)'
  <2>1. Video!Has(r[1])' = Video!Has(r[1])
    BY DEF Video!Has
  <2> QED BY <1>1, <2>1, DeliversStays
<1>2. ASSUME NEW f \in Flights, flight'[f] = flight[f]
      PROVE  Promotes(f)'
  BY <1>2, PromotesStays
<1> QED BY <1>1, <1>2

\* The object of a first publication is in the store.
LEMMA OwnPutLandsKeeps ==
    ASSUME VideoInv, NEW r \in Video!Results, Video!OwnPutLands(r)
    PROVE  VideoInv'
<1>1. /\ own[r].stage = "head" /\ stored' = stored \cup {r} /\ own' = [own EXCEPT ![r].stage = "put"]
      /\ UNCHANGED books /\ UNCHANGED hands /\ UNCHANGED opRow
      /\ UNCHANGED <<result, rowAcked, doomed, opSection>> /\ UNCHANGED flight
  BY DEF Video!OwnPutLands, books, hands, Video!history
<1>2. ResultsType
  BY TypeParts DEF VideoInv
<1>3. own[r] \in [by : {"none", "post", "poll"}, stage : {"none", "head", "put"}]
  BY <1>2 DEF ResultsType
<1>4. /\ own' \in [Video!Results -> [by : {"none", "post", "poll"}, stage : {"none", "head", "put"}]]
      /\ \A q \in Video!Results \ {r} : own'[q] = own[q]
  BY <1>1, <1>2, <1>3 DEF ResultsType
<1>5. ResultsType'
  BY <1>1, <1>2, <1>4 DEF ResultsType
<1>6. ASSUME NEW q \in Video!Results
      PROVE  Delivers(q)'
  <2>1. CASE q = r
    <3>1. Video!Has(r[1])' /\ Delivers(r)
      BY <1>1, ResultOf DEF VideoInv, Video!Has, Video!Nowhere
    <3> QED BY <1>1, <2>1, <3>1 DEF Delivers
  <2>2. CASE q # r
    BY <1>1, <1>4, <2>2, MoreStored
  <2> QED BY <2>1, <2>2
<1>7. \A f \in Flights : Promotes(f)'
  BY <1>1, MoreStored
<1> QED BY <1>1, <1>5, <1>6, <1>7, ObjectsKeep

\* Recoveries start with a result that is publishing, and put its object again.
LEMMA FlightKeeps ==
    ASSUME VideoInv, NEW f \in Flights,
           (\E r \in Video!Results : Video!FlightStarts(f, r)) \/ Video!FlightFails(f)
    PROVE  VideoInv'
<1>1. /\ UNCHANGED <<rowAcked, doomed, stored, opSection>> /\ UNCHANGED own /\ UNCHANGED result
      /\ UNCHANGED books /\ UNCHANGED hands /\ UNCHANGED opRow
  BY DEF Video!FlightStarts, Video!FlightFails, books, hands, Video!history, Video!durable
<1>2. PICK e : /\ flight' = [flight EXCEPT ![f] = e]
               /\ \/ e = Video!NoFlight
                  \/ /\ e \in [result : Video!Results, stage : {"head", "put"}]
                     /\ result[e.result] = "publishing"
                     /\ e.stage = "put" => e.result \in stored
  <2>1. CASE Video!FlightFails(f)
    BY <2>1 DEF Video!FlightFails
  <2>2. ASSUME NEW r \in Video!Results, Video!FlightStarts(f, r)
        PROVE  LET e == [result |-> r, stage |-> IF r \in stored THEN "put" ELSE "head"]
               IN  /\ flight' = [flight EXCEPT ![f] = e]
                   /\ e \in [result : Video!Results, stage : {"head", "put"}]
                   /\ result[e.result] = "publishing"
                   /\ e.stage = "put" => e.result \in stored
    BY <2>2 DEF Video!FlightStarts
  <2> QED BY <2>1, <2>2
<1>3. ResultsType
  BY TypeParts DEF VideoInv
<1>4. /\ flight' \in [Flights -> {Video!NoFlight} \cup [result : Video!Results, stage : {"head", "put"}]]
      /\ flight'[f] = e /\ \A g \in Flights \ {f} : flight'[g] = flight[g]
  BY <1>2, <1>3 DEF ResultsType
<1>5. ResultsType'
  BY <1>1, <1>3, <1>4 DEF ResultsType
<1>6. ASSUME NEW r \in Video!Results
      PROVE  Delivers(r)'
  <2>1. Video!Has(r[1])' = Video!Has(r[1])
    BY <1>1 DEF Video!Has
  <2> QED BY <1>1, <2>1, DeliversStays
<1>7. ASSUME NEW g \in Flights
      PROVE  Promotes(g)'
  <2>1. CASE g = f
    BY <1>1, <1>2, <1>4, <2>1 DEF Promotes
  <2>2. CASE g # f
    <3>1. flight'[g] = flight[g]
      BY <1>4, <2>2
    <3> QED BY <1>1, <3>1, PromotesStays
  <2> QED BY <2>1, <2>2
<1> QED BY <1>1, <1>5, <1>6, <1>7, ObjectsKeep

\* The object a recovery puts is in the store.
LEMMA FlightPutLandsKeeps ==
    ASSUME VideoInv, NEW f \in Flights, Video!FlightPutLands(f)
    PROVE  VideoInv'
<1>1. /\ flight[f].stage = "head" /\ stored' = stored \cup {flight[f].result}
      /\ flight' = [flight EXCEPT ![f].stage = "put"]
      /\ UNCHANGED books /\ UNCHANGED hands /\ UNCHANGED opRow
      /\ UNCHANGED <<result, rowAcked, doomed, opSection>> /\ UNCHANGED own
  BY DEF Video!FlightPutLands, books, hands, Video!history
<1>2. ResultsType
  BY TypeParts DEF VideoInv
<1>3. flight[f] # Video!NoFlight /\ flight[f] \in [result : Video!Results, stage : {"head", "put"}]
  BY <1>1, <1>2 DEF ResultsType, Video!NoFlight
<1>4. /\ flight' \in [Flights -> {Video!NoFlight} \cup [result : Video!Results, stage : {"head", "put"}]]
      /\ flight'[f].result = flight[f].result
      /\ \A g \in Flights \ {f} : flight'[g] = flight[g]
  BY <1>1, <1>2, <1>3 DEF ResultsType
<1>5. ResultsType'
  BY <1>1, <1>2, <1>3, <1>4 DEF ResultsType
<1>6. \A r \in Video!Results : Delivers(r)'
  BY <1>1, <1>3, MoreStored
<1>7. ASSUME NEW g \in Flights
      PROVE  Promotes(g)'
  <2>1. CASE g = f
    BY <1>1, <1>3, <1>4, <2>1 DEF Promotes, VideoInv
  <2>2. CASE g # f
    BY <1>1, <1>3, <1>4, <2>2, MoreStored
  <2> QED BY <2>1, <2>2
<1> QED BY <1>1, <1>5, <1>6, <1>7, ObjectsKeep

\* What is acknowledged is published, and its cleanup queued with it.
LEMMA AcknowledgeKeeps ==
    ASSUME VideoInv, NEW o \in Ops, Video!Acknowledge(o)
    PROVE  VideoInv'
<1>1. /\ Video!Has(o) /\ opSection = {} /\ opRow' = [opRow EXCEPT ![o].acked = TRUE]
      /\ rowAcked' = rowAcked \cup Video!Deliverable(o) /\ opSection' = Video!RowsOf(o) \cap rowAcked'
      /\ UNCHANGED <<doomed, stored>> /\ UNCHANGED <<own, flight>> /\ UNCHANGED <<post, submitting, result>>
      /\ UNCHANGED hands /\ UNCHANGED <<opSent, opCharged, opCrashes>> /\ UNCHANGED quota
  BY DEF Video!Acknowledge, Video!Idle, hands, Video!waits, Video!history
<1>2. Outcome(o)
  <2>1. opRow \in [Ops -> {Video!NoRow} \cup Operations] /\ opRow[o] \in Operations /\ quota \in [Ops -> Quotas]
    BY <1>1, RowKinds DEF VideoInv
  <2>2. /\ opRow' \in [Ops -> {Video!NoRow} \cup Operations] /\ opRow'[o] \in Operations
        /\ \A p \in Ops \ {o} : opRow'[p] = opRow[p]
        /\ opRow'[o].state = opRow[o].state /\ opRow'[o].fenced = opRow[o].fenced /\ opRow'[o].old = opRow[o].old
    BY <1>1, <2>1 DEF Operations
  <2>3. Video!Has(o)' /\ (Video!Fenced(o)' <=> Video!Fenced(o)) /\ Video!State(o)' = Video!State(o)
    BY <1>1, <2>2 DEF Video!Has, Video!Fenced, Video!State, Operations, Video!NoRow
  <2> QED BY <1>1, <2>1, <2>2, <2>3 DEF Outcome
<1>3. Video!Deliverable(o) \subseteq Video!Results /\ \A r \in Video!Deliverable(o) : result[r] = "published"
  BY DEF Video!Deliverable, Video!RowsOf
<1>4. ResultsType'
  <2>1. ResultsType
    BY TypeParts DEF VideoInv
  <2>2. rowAcked' \subseteq Video!Results /\ opSection' \subseteq Video!Results
    BY <1>1, <1>3, <2>1 DEF ResultsType, Video!RowsOf
  <2> QED BY <1>1, <2>1, <2>2 DEF ResultsType
<1>5. ASSUME NEW r \in Video!Results
      PROVE  Delivers(r)'
  <2>1. Video!Has(r[1]) => Video!Has(r[1])'
    BY <1>2, OutcomeHas, ResultOf
  <2>2. Delivers(r)
    BY DEF VideoInv
  <2> QED BY <1>1, <1>3, <2>1, <2>2 DEF Delivers
<1>6. \A f \in Flights : Promotes(f)'
  BY <1>1, PromotesStays
<1>7. \A r \in Video!Results : r[1] # o => result'[r] = result[r]
  BY <1>1
<1> QED BY <1>1, <1>2, <1>4, <1>5, <1>6, <1>7, HandsIdle, HandOutcome, PublicationKeeps

\* A result's time is over, and its operation's if it still had one.
LEMMA ExpireResultKeeps ==
    ASSUME VideoInv, NEW r \in Video!Results, Video!ExpireResult(r)
    PROVE  VideoInv'
<1> DEFINE o == r[1]
           s == IF opRow[o].state = "succeeded" /\ ~opRow[o].acked THEN "expired" ELSE opRow[o].state
<1>1. /\ opSection = {} /\ result[r] = "published" /\ r \notin rowAcked
      /\ result' = [result EXCEPT ![r] = "expired"] /\ opRow' = [opRow EXCEPT ![o].state = s]
      /\ opSection' = {r}
      /\ UNCHANGED <<rowAcked, doomed, stored>> /\ UNCHANGED <<own, flight>> /\ UNCHANGED <<post, submitting>>
      /\ UNCHANGED hands /\ UNCHANGED <<opSent, opCharged, opCrashes>> /\ UNCHANGED quota
  BY DEF Video!ExpireResult, Video!Idle, hands, Video!waits, Video!history
<1>2. o \in Ops /\ Video!Has(o) /\ Video!VideoTypeOK
  BY <1>1, ResultOf DEF VideoInv
<1>3. opRow \in [Ops -> {Video!NoRow} \cup Operations] /\ opRow[o] \in Operations /\ quota \in [Ops -> Quotas]
  BY <1>2, RowKinds
<1>4. s \in States /\ (s = "accepted" => Video!State(o) = "accepted")
  BY <1>3 DEF Operations, States, Video!State
<1> HIDE DEF s
<1>5. Video!Become(o, s)
  BY <1>1 DEF Video!Become
<1>6. /\ opRow' \in [Ops -> {Video!NoRow} \cup Operations] /\ opRow'[o] \in Operations
      /\ \A p \in Ops \ {o} : opRow'[p] = opRow[p]
      /\ Video!Has(o)' /\ (Video!Fenced(o)' <=> Video!Fenced(o)) /\ opRow'[o].old = opRow[o].old
      /\ Video!State(o)' = s
  BY <1>2, <1>4, <1>5, BecomeWrites
<1>7. Outcome(o)
  BY <1>1, <1>2, <1>3, <1>4, <1>6 DEF Outcome
<1>8. ResultsType
  BY TypeParts DEF VideoInv
<1>9. /\ result' \in [Video!Results -> {"none", "publishing", "published", "expired"}]
      /\ result'[r] = "expired" /\ \A q \in Video!Results \ {r} : result'[q] = result[q]
  BY <1>1, <1>8 DEF ResultsType
<1>10. ResultsType'
  BY <1>1, <1>8, <1>9 DEF ResultsType
<1>11. ASSUME NEW q \in Video!Results
       PROVE  Delivers(q)'
  <2>1. Video!Has(q[1]) => Video!Has(q[1])'
    BY <1>2, <1>7, OutcomeHas, ResultOf
  <2>2. CASE q = r
    BY <1>1, <1>2, <1>9, <2>1, <2>2 DEF Delivers
  <2>3. CASE q # r
    BY <1>1, <1>9, <2>1, <2>3, DeliversStays
  <2> QED BY <2>2, <2>3
<1>12. \A q \in Video!Results :
         /\ result[q] # "none" => result'[q] # "none"
         /\ result[q] # "none" /\ result'[q] = "publishing" => result[q] = "publishing"
  BY <1>9
<1>13. ASSUME NEW f \in Flights
       PROVE  Promotes(f)'
  <2>1. flight'[f] = flight[f] /\ stored' = stored
    BY <1>1
  <2>2. \A q \in Video!Results :
          /\ result[q] # "none" => result'[q] # "none"
          /\ result[q] # "none" /\ result'[q] = "publishing" => result[q] = "publishing"
          /\ result[q] = "publishing" /\ q \in stored => q \in stored'
    BY <1>12, <2>1
  <2> QED BY <2>1, <2>2, PromotesStays
<1>14. InHand(o)'
  <2>1. InHand(o)
    BY <1>2 DEF VideoInv, OpInv
  <2>2. Video!Publishing(o)' = Video!Publishing(o)
    BY <1>1, <1>9 DEF Video!Publishing, Video!RowsOf
  <2>3. Video!State(o)' = "accepted" => Video!State(o) = "accepted"
    BY <1>4, <1>6
  <2> QED BY <1>1, <1>2, <1>6, <2>1, <2>2, <2>3 DEF InHand
<1>15. \A q \in Video!Results : q[1] # o => result'[q] = result[q]
  BY <1>9
<1>16. ElseHands(o)
  BY <1>1, <1>2, HandsIdle
<1> QED BY <1>1, <1>2, <1>7, <1>10, <1>11, <1>13, <1>14, <1>15, <1>16, PublicationKeeps

\* The cleanup is queued for what was acknowledged or has expired.
LEMMA QueueCleanupKeeps ==
    ASSUME VideoInv, Video!QueueCleanup
    PROVE  VideoInv'
<1>1. /\ doomed' = doomed \cup opSection /\ opSection' = {}
      /\ UNCHANGED <<rowAcked, stored>> /\ UNCHANGED <<own, flight>> /\ UNCHANGED result /\ UNCHANGED opRow
      /\ UNCHANGED hands /\ UNCHANGED books
  BY DEF Video!QueueCleanup, hands, books, Video!waits, Video!history
<1>2. ResultsType'
  BY <1>1, TypeParts DEF VideoInv, ResultsType
<1>3. ASSUME NEW r \in Video!Results
      PROVE  Delivers(r)'
  BY <1>1 DEF VideoInv, Delivers, Video!Has, Video!Nowhere
<1>4. \A f \in Flights : Promotes(f)'
  BY <1>1, PromotesStays
<1> QED BY <1>1, <1>2, <1>3, <1>4, ObjectsKeep

\* Nothing that can still be delivered is deleted.
LEMMA DeleteResultKeeps ==
    ASSUME VideoInv, NEW r \in Video!Results, Video!DeleteResult(r)
    PROVE  VideoInv'
<1>1. /\ r \in doomed /\ doomed' = doomed \ {r} /\ stored' = stored \ {r}
      /\ UNCHANGED <<rowAcked, opSection>> /\ UNCHANGED <<own, flight>> /\ UNCHANGED result /\ UNCHANGED opRow
      /\ UNCHANGED hands /\ UNCHANGED books
  BY DEF Video!DeleteResult, hands, books, Video!waits, Video!history
<1>2. ResultsType'
  BY <1>1, TypeParts DEF VideoInv, ResultsType
<1>3. result[r] # "publishing" /\ (result[r] = "published" => r \in rowAcked)
  BY <1>1 DEF VideoInv, Delivers
<1>4. ASSUME NEW q \in Video!Results
      PROVE  Delivers(q)'
  <2>1. Delivers(q)
    BY DEF VideoInv
  <2> QED BY <1>1, <1>3, <2>1 DEF Delivers, Video!Has, Video!Nowhere
<1>5. ASSUME NEW f \in Flights
      PROVE  Promotes(f)'
  BY <1>1, <1>3, PromotesStays
<1> QED BY <1>1, <1>2, <1>4, <1>5, ObjectsKeep
-----------------------------------------------------------------------------
(* The video relay: a paid call that is answered, and the restart.         *)

\* A new result: neither acknowledged, nor doomed, nor in anybody's hands.
LEMMA PersistWrites ==
    ASSUME VideoInv, NEW r \in Video!Results, NEW by \in {"post", "poll"}, Video!Persist(r, by), Video!Has(r[1]),
           UNCHANGED opRow, UNCHANGED <<rowAcked, doomed, stored, opSection>>, UNCHANGED flight
    PROVE  /\ ResultsType' /\ (\A q \in Video!Results : Delivers(q)') /\ (\A f \in Flights : Promotes(f)')
           /\ \A q \in Video!Results : q[1] # r[1] => result'[q] = result[q]
           /\ Video!Publishing(r[1]) \subseteq Video!Publishing(r[1])'
<1>1. /\ result[r] = "none" /\ result' = [result EXCEPT ![r] = "publishing"]
      /\ own' = [own EXCEPT ![r] = [by |-> by, stage |-> "head"]]
  BY DEF Video!Persist, Video!Unused
<1>2. ResultsType
  BY TypeParts DEF VideoInv
<1>3. /\ result' \in [Video!Results -> {"none", "publishing", "published", "expired"}]
      /\ result'[r] = "publishing" /\ \A q \in Video!Results \ {r} : result'[q] = result[q]
  BY <1>1, <1>2 DEF ResultsType
<1>4. /\ own' \in [Video!Results -> [by : {"none", "post", "poll"}, stage : {"none", "head", "put"}]]
      /\ own'[r].stage = "head" /\ \A q \in Video!Results \ {r} : own'[q] = own[q]
  BY <1>1, <1>2 DEF ResultsType
<1>5. ResultsType'
  BY <1>2, <1>3, <1>4 DEF ResultsType
<1>6. ASSUME NEW q \in Video!Results
      PROVE  Delivers(q)'
  <2>1. Video!Has(q[1])' = Video!Has(q[1])
    BY DEF Video!Has
  <2>2. CASE q = r
    <3>1. r \notin rowAcked /\ r \notin doomed /\ r \notin opSection
      BY <1>1 DEF VideoInv, Delivers
    <3> QED BY <1>3, <1>4, <2>1, <2>2, <3>1 DEF Delivers
  <2>3. CASE q # r
    BY <1>3, <1>4, <2>1, <2>3, DeliversStays
  <2> QED BY <2>2, <2>3
<1>7. \A q \in Video!Results :
         /\ result[q] # "none" => result'[q] # "none"
         /\ result[q] # "none" /\ result'[q] = "publishing" => result[q] = "publishing"
         /\ result[q] = "publishing" /\ q \in stored => q \in stored'
  BY <1>1, <1>3
<1>8. ASSUME NEW f \in Flights
      PROVE  Promotes(f)'
  BY <1>7, PromotesStays
<1>9. \A q \in Video!Results : q[1] # r[1] => result'[q] = result[q]
  BY <1>3
<1>10. Video!Publishing(r[1]) \subseteq Video!Publishing(r[1])'
  BY <1>1, <1>3 DEF Video!Publishing, Video!RowsOf
<1> QED BY <1>5, <1>6, <1>8, <1>9, <1>10

\* A short call is answered.
LEMMA ExecuteSucceedsKeeps ==
    ASSUME VideoInv, NEW o \in Ops, NEW c \in Callers, Video!ExecuteSucceeds(o, c)
    PROVE  VideoInv'
<1>1. /\ post[<<o, c>>] = "executing" /\ post' = [post EXCEPT ![<<o, c>>] = "publishing"]
      /\ UNCHANGED <<opRow, quota, submitting, lock>> /\ UNCHANGED opRow /\ UNCHANGED flight
      /\ UNCHANGED <<rowAcked, doomed, stored, opSection>> /\ UNCHANGED <<opSent, opCharged, opCrashes>>
  BY DEF Video!ExecuteSucceeds, Video!history
<1>2. PICK r \in Video!Results : r[1] = o /\ Video!Persist(r, "post")
  BY DEF Video!ExecuteSucceeds, Video!RowsOf
<1>3. Video!Has(o) /\ Video!VideoTypeOK
  BY <1>1, BusyHas DEF VideoInv
<1>4. /\ ResultsType' /\ (\A q \in Video!Results : Delivers(q)') /\ (\A f \in Flights : Promotes(f)')
      /\ \A q \in Video!Results : q[1] # o => result'[q] = result[q]
  BY <1>1, <1>2, <1>3, PersistWrites
<1>5. Outcome(o)
  BY <1>1, <1>3, QuotaWrites, NothingIsOutcome
<1>6. /\ ElseHands(o) /\ post'[<<o, c>>] = "publishing"
  BY <1>1, HandsOfPost
<1>7. Video!Has(o)'
  BY <1>5 DEF Outcome
<1>8. InHand(o)'
  BY <1>6, <1>7 DEF InHand
<1> QED BY <1>1, <1>4, <1>5, <1>6, <1>8, PublicationKeeps

\* A poll is answered with the result.
LEMMA PollSucceedsKeeps ==
    ASSUME VideoInv, NEW o \in Ops, Video!PollSucceeds(o)
    PROVE  VideoInv'
<1>1. /\ lock[o] = "poll" /\ lock' = [lock EXCEPT ![o] = "publishing"]
      /\ UNCHANGED <<opRow, quota, post, submitting>> /\ UNCHANGED opRow /\ UNCHANGED flight
      /\ UNCHANGED <<rowAcked, doomed, stored, opSection>> /\ UNCHANGED <<opSent, opCharged, opCrashes>>
  BY DEF Video!PollSucceeds, Video!history
<1>2. PICK r \in Video!Results : r[1] = o /\ Video!Persist(r, "poll")
  BY DEF Video!PollSucceeds, Video!RowsOf
<1>3. Video!Has(o) /\ Video!VideoTypeOK
  BY <1>1, BusyHas DEF VideoInv
<1>4. /\ ResultsType' /\ (\A q \in Video!Results : Delivers(q)') /\ (\A f \in Flights : Promotes(f)')
      /\ (\A q \in Video!Results : q[1] # o => result'[q] = result[q])
      /\ Video!Publishing(o) \subseteq Video!Publishing(o)'
  BY <1>1, <1>2, <1>3, PersistWrites
<1>5. Outcome(o) /\ Video!State(o)' = Video!State(o)
  BY <1>1, <1>3, QuotaWrites, NothingIsOutcome
<1>6. ElseHands(o)
  BY <1>1, HandsOfLock
<1>7. /\ Video!Has(o)' /\ (Video!Fenced(o)' <=> Video!Fenced(o)) /\ opRow'[o].old = opRow[o].old
  BY <1>5 DEF Outcome
<1>8. InHand(o)'
  <2>1. InHand(o)
    BY DEF VideoInv, OpInv
  <2> QED BY <1>1, <1>3, <1>4, <1>5, <1>7, <2>1 DEF InHand
<1> QED BY <1>1, <1>4, <1>5, <1>6, <1>8, PublicationKeeps

\* The restart keeps the rows, marks them as an earlier process's, and waits for nothing.
LEMMA RestartKeeps ==
    ASSUME VideoInv, Video!Restart
    PROVE  VideoInv'
<1>1. /\ opCrashes < MaxCrashes /\ opCrashes' = opCrashes + 1
      /\ opRow' = [o \in Ops |-> IF Video!Has(o) THEN [opRow[o] EXCEPT !.old = TRUE] ELSE Video!NoRow]
      /\ post' = [k \in DOMAIN post |-> "none"] /\ submitting' = {}
      /\ own' = [r \in Video!Results |-> Video!Nowhere] /\ lock' = [o \in Ops |-> "free"]
      /\ flight' = [f \in Flights |-> Video!NoFlight] /\ opSection' = {}
      /\ UNCHANGED <<quota, opSent, opCharged>> /\ UNCHANGED <<result, rowAcked, doomed, stored>>
  BY DEF Video!Restart
<1>2. BooksType /\ HandsType /\ ResultsType
  BY TypeParts DEF VideoInv
<1>3. ASSUME NEW o \in Ops
      PROVE  /\ opRow'[o] \in {Video!NoRow} \cup Operations
             /\ Video!Has(o)' <=> Video!Has(o)
             /\ Video!Fenced(o)' <=> Video!Fenced(o)
             /\ Video!Has(o) => Video!State(o)' = Video!State(o) /\ opRow'[o].old
  <2>1. CASE Video!Has(o)
    <3>1. opRow[o] \in Operations /\ opRow'[o] = [opRow[o] EXCEPT !.old = TRUE]
      BY <1>1, <1>2, <2>1 DEF BooksType, Video!Has
    <3>2. /\ opRow'[o] \in Operations /\ opRow'[o].state = opRow[o].state
          /\ opRow'[o].fenced = opRow[o].fenced /\ opRow'[o].old = TRUE
      BY <3>1 DEF Operations
    <3> QED BY <2>1, <3>2 DEF Video!Has, Video!Fenced, Video!State, Operations, Video!NoRow
  <2>2. CASE ~Video!Has(o)
    BY <1>1, <2>2 DEF Video!Has, Video!Fenced
  <2> QED BY <2>1, <2>2
<1>4. opCrashes' \in 0 .. MaxCrashes
  <2>1. MaxCrashes \in Nat /\ opCrashes \in 0 .. MaxCrashes
    BY <1>2, VideoAssumption DEF Video!VideoConfig, BooksType
  <2> QED BY <1>1, <2>1
<1>5. opRow' \in [Ops -> {Video!NoRow} \cup Operations]
  BY <1>1, <1>3
<1>6. BooksType'
  BY <1>1, <1>2, <1>4, <1>5 DEF BooksType
<1>7. HandsType' /\ \A o \in Ops : \A c \in Callers : post'[<<o, c>>] = "none"
  <2>1. post' = [k \in Ops \X Callers |-> "none"]
    BY <1>1, <1>2 DEF HandsType
  <2> QED BY <1>1, <2>1 DEF HandsType
<1>8. ResultsType'
  <2>1. own' \in [Video!Results -> [by : {"none", "post", "poll"}, stage : {"none", "head", "put"}]]
    BY <1>1 DEF Video!Nowhere
  <2> QED BY <1>1, <1>2, <2>1 DEF ResultsType
<1>9. WithinUnits'
  BY <1>1, LimitsStay
<1>10. ASSUME NEW o \in Ops
       PROVE  SpendsOnce(o)'
  <2>1. SpendsOnce(o)
    BY DEF VideoInv, OpInv
  <2> QED BY <1>1, <1>3, <2>1 DEF SpendsOnce, Held
<1>11. ASSUME NEW o \in Ops
       PROVE  InHand(o)'
  <2>1. lock'[o] = "free" /\ o \notin submitting'
    BY <1>1
  <2> QED BY <1>3, <1>7, <2>1 DEF InHand
<1>12. ASSUME NEW r \in Video!Results
       PROVE  Delivers(r)'
  <2>1. r[1] \in Ops
    BY ResultOf
  <2>2. Video!Has(r[1])' <=> Video!Has(r[1])
    BY <1>3, <2>1
  <2>3. own'[r] = Video!Nowhere /\ r \notin opSection'
    BY <1>1
  <2> QED BY <1>1, <2>2, <2>3, DeliversStays
<1>13. \A f \in Flights : Promotes(f)'
  BY <1>1 DEF Promotes, Video!NoFlight
<1> QED BY <1>6, <1>7, <1>8, <1>9, <1>10, <1>11, <1>12, <1>13, PartsMake

-----------------------------------------------------------------------------
(* The video relay: the invariant is inductive, and what it says.          *)

\* The invariant holds at the start.
LEMMA VideoInitInv == Video!VideoInit => VideoInv
<1> SUFFICES ASSUME Video!VideoInit PROVE VideoInv
  OBVIOUS
<1>1. /\ opRow = [o \in Ops |-> Video!NoRow] /\ quota = [o \in Ops |-> "none"]
      /\ result = [r \in Video!Results |-> "none"] /\ rowAcked = {} /\ doomed = {} /\ stored = {}
      /\ post = [k \in Ops \X Callers |-> "none"] /\ submitting = {}
      /\ own = [r \in Video!Results |-> Video!Nowhere] /\ lock = [o \in Ops |-> "free"]
      /\ flight = [f \in Flights |-> Video!NoFlight] /\ opSection = {}
      /\ opSent = [o \in Ops |-> 0] /\ opCharged = {} /\ opCrashes = 0
  BY DEF Video!VideoInit
<1>2. MaxCrashes \in Nat /\ OwnerLimit \in Nat /\ AccountLimit \in Nat
  BY VideoAssumption DEF Video!VideoConfig
<1>3. BooksType
  BY <1>1, <1>2 DEF BooksType, Quotas
<1>4. HandsType
  BY <1>1 DEF HandsType
<1>5. ResultsType
  <2>1. own \in [Video!Results -> [by : {"none", "post", "poll"}, stage : {"none", "head", "put"}]]
    BY <1>1 DEF Video!Nowhere
  <2> QED BY <1>1, <2>1 DEF ResultsType
<1>6. Video!VideoTypeOK
  BY <1>3, <1>4, <1>5, TypeParts
<1>7. ASSUME NEW S, S \subseteq Ops
      PROVE  Video!Holding(S) = 0
  <2>1. Holders(S) = {}
    BY <1>1, <1>7 DEF Holders, Held
  <2> QED BY <1>7, <2>1, HoldingIs, TotalEmpty
<1>8. WithinUnits
  BY <1>2, <1>7 DEF WithinUnits, Video!OfOwner
<1>9. \A o \in Ops : ~Video!Has(o) /\ ~Video!Fenced(o)
  BY <1>1 DEF Video!Has, Video!Fenced
<1>10. \A o \in Ops : SpendsOnce(o)
  BY <1>1, <1>9 DEF SpendsOnce
<1>11. ASSUME NEW o \in Ops
       PROVE  InHand(o)
  <2>1. \A c \in Callers : post[<<o, c>>] = "none"
    BY <1>1
  <2> QED BY <1>1, <1>9, <2>1 DEF InHand
<1>12. \A r \in Video!Results : Delivers(r)
  BY <1>1 DEF Delivers
<1>13. \A f \in Flights : Promotes(f)
  BY <1>1 DEF Promotes
<1> QED BY <1>6, <1>8, <1>10, <1>11, <1>12, <1>13 DEF VideoInv, OpInv

\* Every step keeps the invariant.
LEMMA VideoNextInv ==
    ASSUME VideoInv, [Video!VideoNext]_videoVars
    PROVE  VideoInv'
<1>1. CASE UNCHANGED videoVars
  <2>1. UNCHANGED books /\ UNCHANGED hands /\ UNCHANGED objects /\ UNCHANGED result
    BY <1>1 DEF videoVars, Video!durable, Video!waits, Video!history, books, hands, objects
  <2>2. \A p \in Ops : Video!Has(p)' = Video!Has(p)
    BY <2>1 DEF Video!Has, books
  <2> QED BY <2>1, <2>2, ObjectsStay, ObjectsKeep
<1>2. ASSUME NEW o \in Ops, NEW c \in Callers, Video!Create(o, c) \/ Video!Repeat(o, c) \/ Video!PostStep(o, c)
      PROVE  VideoInv'
  BY <1>2, CreateVideoKeeps, RepeatKeeps, PreparationFailsKeeps, FenceKeeps, AlreadyFencedKeeps,
     ExecuteFailsKeeps, ExecuteSubmittedKeeps, ExecuteSucceedsKeeps DEF Video!PostStep
<1>3. ASSUME NEW o \in Ops,
             \/ Video!PollStarts(o) \/ Video!PollEnds(o) \/ Video!PollSucceeds(o)
             \/ Video!CancelUnstarted(o) \/ Video!CancelStarts(o) \/ Video!CancelEnds(o)
             \/ Video!Acknowledge(o) \/ Video!SweepStep(o)
      PROVE  VideoInv'
  BY <1>3, LockStartsKeeps, PollEndsKeeps, PollSucceedsKeeps, UnstartedEndKeeps, CancelEndsKeeps,
     AcknowledgeKeeps DEF Video!SweepStep
<1>4. ASSUME NEW r \in Video!Results, Video!PublishStep(r) \/ Video!ExpireResult(r) \/ Video!DeleteResult(r)
      PROVE  VideoInv'
  BY <1>4, OwnPutLandsKeeps, PostPublishesKeeps, PostPublishFailsKeeps, PollPublishesKeeps,
     PollPublishFailsKeeps, ExpireResultKeeps, DeleteResultKeeps DEF Video!PublishStep
<1>5. ASSUME NEW f \in Flights,
             \/ \E r \in Video!Results : Video!FlightStarts(f, r)
             \/ Video!FlightPutLands(f) \/ Video!FlightPublishes(f) \/ Video!FlightFails(f)
      PROVE  VideoInv'
  BY <1>5, FlightKeeps, FlightPutLandsKeeps, FlightPublishesKeeps
<1> QED BY <1>1, <1>2, <1>3, <1>4, <1>5, QueueCleanupKeeps, RestartKeeps DEF Video!VideoNext

\* What the invariant says of the money, the calls and the results.
LEMMA VideoInvImplies ==
    VideoInv => Video!SpendWithinLimits /\ Video!SentOnce /\ Video!PublishedIsStored /\ Video!AcceptedCaredFor
<1> SUFFICES ASSUME VideoInv PROVE Video!SpendWithinLimits /\ Video!SentOnce /\ Video!PublishedIsStored /\ Video!AcceptedCaredFor
  OBVIOUS
<1>1. \A o \in Ops : SpendsOnce(o) /\ InHand(o)
  BY DEF VideoInv, OpInv
<1>2. \A r \in Video!Results : Delivers(r)
  BY DEF VideoInv
<1>3. Video!SentOnce /\ Video!PublishedIsStored
  BY <1>1, <1>2 DEF SpendsOnce, Delivers, Video!SentOnce, Video!PublishedIsStored
<1>4. Video!AcceptedCaredFor
  BY <1>1 DEF InHand, Video!AcceptedCaredFor
<1>5. \A o \in opCharged : o \in Ops /\ quota[o] \in Held
  <2>1. opCharged \subseteq Ops
    BY TypeParts DEF VideoInv, BooksType
  <2> QED BY <1>1, <2>1 DEF SpendsOnce
<1>6. ASSUME NEW S, S \subseteq Ops
      PROVE  Video!Spent(S) <= Video!Holding(S) /\ Video!Spent(S) \in Nat /\ Video!Holding(S) \in Nat
  <2>1. opCharged \cap S \subseteq Holders(S) /\ Holders(S) \subseteq Ops
    BY <1>5, <1>6 DEF Holders
  <2>2. Weighs(UnitsOf, Holders(S)) /\ Weighs(UnitsOf, opCharged \cap S)
    BY <2>1, UnitsWeigh
  <2>3. \A x \in opCharged \cap S : UnitsOf[x] <= UnitsOf[x]
    BY <2>2 DEF Weighs
  <2>4. Total(UnitsOf, opCharged \cap S) <= Total(UnitsOf, Holders(S))
    BY <2>1, <2>2, <2>3, TotalMonotone
  <2>5. Video!Spent(S) = Total(UnitsOf, opCharged \cap S)
    BY <2>1, UnitsSum DEF Video!Spent
  <2> QED BY <1>6, <2>2, <2>4, <2>5, HoldingIs, TotalIs
<1>7. OwnerLimit \in Nat /\ AccountLimit \in Nat
  BY VideoAssumption DEF Video!VideoConfig
<1>8. \A o \in Ops : Video!Spent(Video!OfOwner(OpOwnerOf(o))) <= OwnerLimit
  <2> SUFFICES ASSUME NEW o \in Ops PROVE Video!Spent(Video!OfOwner(OpOwnerOf(o))) <= OwnerLimit
    OBVIOUS
  <2> DEFINE S == Video!OfOwner(OpOwnerOf(o))
  <2>1. S \subseteq Ops
    BY DEF Video!OfOwner
  <2>2. Video!Holding(S) <= OwnerLimit
    BY DEF VideoInv, WithinUnits
  <2> HIDE DEF S
  <2>3. Video!Spent(S) <= OwnerLimit
    BY <1>6, <1>7, <2>1, <2>2
  <2> QED BY <2>3 DEF S
<1>9. Video!Spent(Ops) <= AccountLimit
  <2>1. Video!Holding(Ops) <= AccountLimit
    BY DEF VideoInv, WithinUnits
  <2> QED BY <1>6, <1>7, <2>1
<1>10. \A o \in opCharged : quota[o] # "released"
  BY <1>5 DEF Held
<1> QED BY <1>3, <1>4, <1>8, <1>9, <1>10 DEF Video!SpendWithinLimits, VideoInv
-----------------------------------------------------------------------------
(* Both relays.                                                            *)

\* The inductive invariant of the composition: each relay keeps its own.
PartsInv == ImageInv /\ VideoInv

\* A behaviour of the composition keeps both invariants.
LEMMA PartsInvariance == PartsSpec => []PartsInv
<1>1. PartsInit => PartsInv
  BY ImageInitInv, VideoInitInv DEF PartsInit, PartsInv
<1>2. PartsInv /\ [PartsNext]_partsVars => PartsInv'
  <2> SUFFICES ASSUME PartsInv, [PartsNext]_partsVars PROVE PartsInv'
    OBVIOUS
  <2>1. ([RelayNext]_vars /\ [Video!VideoNext]_videoVars)
    BY DEF PartsNext, partsVars
  <2>2. ImageInv'
    BY <2>1, ImageNextInv DEF PartsInv
  <2>3. VideoInv'
    BY <2>1, VideoNextInv DEF PartsInv
  <2> QED BY <2>2, <2>3 DEF PartsInv
<1> QED BY <1>1, <1>2, PTL DEF PartsSpec

\* The Providers never charge more than the quotas allow, and a reservation
\* that was given back was not spent: in the image relay the account's and the
\* owner's quota over every crash, retry and account change
\* (createWithReservation, markFailed), in the video relay the day's limits of
\* the owner and of the account over every repeated POST, cancel, sweep and
\* restart (reserve, failBeforeProvider, releaseQuota).
THEOREM SpendingHeld == PartsSpec => []SpendWithinLimits
<1>1. PartsInv => SpendWithinLimits
  BY ImageInvImplies, VideoInvImplies DEF PartsInv, SpendWithinLimits
<1> QED BY <1>1, PartsInvariance, PTL

\* Nothing that may have been paid is sent again: a task whose POST was under
\* way when the process died is not run again (runImageTask, the recovery),
\* and an operation passes the fence once (submission_started_at).
THEOREM SentOnceOnly == PartsSpec => []NeverSentAgain
<1>1. PartsInv => NeverSentAgain
  BY ImageInvImplies, VideoInvImplies DEF PartsInv, NeverSentAgain
<1> QED BY <1>1, PartsInvariance, PTL

\* Accepted work is kept: a succeeded image task has its files, a published
\* video result its object until it is acknowledged or expires, and an accepted
\* operation always has a POST, a sweep or a recovery that will take it
\* (putOutputs, promotePublishingResult, sweepExpiredResources).
THEOREM NothingForgotten == PartsSpec => []WorkKept
<1>1. PartsInv => WorkKept
  BY ImageInvImplies, VideoInvImplies DEF PartsInv, WorkKept
<1> QED BY <1>1, PartsInvariance, PTL

\* The image relay implements what the desktop is told of it: per idempotency
\* key one task that moves as the contract allows, free until it may have been
\* paid (RelayImageTasks refines ImageRelayContract).
THEOREM RelayImplementsContract == PartsSpec => KeepsContract
<1>1. PartsInit => Contract!ContractInit
  BY ContractBegins DEF PartsInit
<1>2. PartsInv /\ [PartsNext]_partsVars => [Contract!ContractNext]_(Contract!contractVars)
  <2> SUFFICES ASSUME PartsInv, [PartsNext]_partsVars
               PROVE  [Contract!ContractNext]_(Contract!contractVars)
    OBVIOUS
  <2>1. [RelayNext]_vars
    BY DEF PartsNext, partsVars
  <2> QED BY <2>1, ImageStepIsContract DEF PartsInv
<1> QED BY <1>1, <1>2, PartsInvariance, PTL DEF PartsSpec, KeepsContract, Contract!ContractSpec

=============================================================================
