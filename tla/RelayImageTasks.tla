-------------------------- MODULE RelayImageTasks --------------------------
(***************************************************************************)
(* The image relay (relay/app.ts): durable tasks and quota reservations in *)
(* SQLite, inputs and results as files beside it, and one process that     *)
(* runs each accepted task against a paid Provider, may die at any point   *)
(* and finds its way back from the files alone.                            *)
(*                                                                         *)
(* JavaScript runs one handler at a time up to its next await.  A stretch  *)
(* of code that writes twice is cut into one action per durable write;     *)
(* while such a stretch is under way (`section') no other handler moves,   *)
(* but the process may die.                                                *)
(***************************************************************************)
EXTENDS Naturals, FiniteSets, FiniteSetsExt

CONSTANTS
  Tasks,          \* task ids; a new task takes one that was never used
  Keys,           \* idempotency keys (with the installation that owns them)
  OwnerOf(_),     \* the installation of a key
  Hops(_),        \* paid POSTs of a task: one (OpenAI), or one per output (Seedream)
  Outputs,        \* requested outputs, the amount a task reserves
  Accounts,       \* physical Provider accounts a deployment may be bound to
  QueueMax, OwnerTaskMax, OwnerQuota, ProviderQuota,
  MaxRetries,     \* MAX_PRE_PROVIDER_ADMISSION_RETRIES
  MaxCrashes      \* bound of the model

ASSUME RelayAssumption ==
  /\ IsFiniteSet(Tasks) /\ IsFiniteSet(Keys) /\ Accounts # {}
  /\ Outputs \in Nat \ {0}
  /\ \A k \in Keys : Hops(k) \in {1, Outputs}
  /\ {QueueMax, OwnerTaskMax, OwnerQuota, ProviderQuota, MaxRetries, MaxCrashes} \subseteq Nat

VARIABLES
  \* durable
  row,        \* the tasks table: NoRow, or the record of a task
  ledger,     \* image_quota_reservations: state and account, never deleted here
  inputs,     \* tasks whose input file exists
  files,      \* per task, the output files written
  manifest,   \* tasks whose output manifest (the commit marker) exists
  \* the process
  mode,       \* "down", "recovering" or "serving"
  account,    \* the account binding of the running deployment
  runner,     \* per task, how far its runImageTask got ("none" when there is none)
  work,       \* per task, that runner's results so far
  timers,     \* tasks with a retry timer
  section,    \* the task and kind of the synchronous stretch under way
  todo,       \* startup: recovered tasks not yet looked at
  \* history
  sent,       \* paid POSTs sent for a task
  charged,    \* tasks for which the Provider accepted a POST
  crashes

durable == <<row, ledger, inputs, files, manifest>>
process == <<mode, account, runner, work, timers, section, todo>>
history == <<sent, charged, crashes>>
vars    == <<durable, process, history>>

NoRow     == [status |-> "none"]
NoSection == <<"none">>
NoWork    == [hop |-> 0, good |-> 0, unsure |-> FALSE, refused |-> FALSE]
NeverUsed == [state |-> "none"]

Statuses == {"queued", "running", "succeeded", "failed", "failed_unknown", "cancelled"}
Rows == [status : Statuses, key : Keys, receipt : BOOLEAN, valid : 0 .. Outputs,
         acked : BOOLEAN, retries : 0 .. MaxRetries + 1]

Has(t)       == row[t] # NoRow
Status(t)    == row[t].status
Active       == {t \in Tasks : Status(t) \in {"queued", "running"}}
KeyRows(k)   == {t \in Tasks : Has(t) /\ row[t].key = k}
\* Mutant: an outcome that is unknown weighs nothing.
HoldingIgnoresUnknown == {t \in Tasks : ledger[t].state \in {"reserved", "settled"}}
Holding      == {t \in Tasks : ledger[t].state \in {"reserved", "outcome_unknown", "settled"}}
HeldBy(S)    == Outputs * Cardinality(Holding \cap S)
OfOwner(o)   == {t \in Tasks : ledger[t] # NeverUsed /\ ledger[t].owner = o}
OfAccount(a) == {t \in Tasks : ledger[t] # NeverUsed /\ ledger[t].account = a}

Idle == mode = "serving" /\ section = NoSection

RelayInit ==
  /\ row = [t \in Tasks |-> NoRow] /\ ledger = [t \in Tasks |-> NeverUsed]
  /\ inputs = {} /\ files = [t \in Tasks |-> 0] /\ manifest = {}
  /\ mode = "serving" /\ account \in Accounts
  /\ runner = [t \in Tasks |-> "none"] /\ work = [t \in Tasks |-> NoWork]
  /\ timers = {} /\ section = NoSection /\ todo = {}
  /\ sent = [t \in Tasks |-> 0] /\ charged = {} /\ crashes = 0

-----------------------------------------------------------------------------
(* TaskStore: each of these is one SQLite transaction.                     *)

SetStatus(t, status) == row' = [row EXCEPT ![t].status = status]

\* UPDATE ... SET state WHERE task_id=? AND state IN (from)
Settle(t, from, state) ==
  ledger' = IF ledger[t].state \in from
              THEN [ledger EXCEPT ![t].state = state] ELSE ledger

MarkKnownFailedAndRelease(t) ==
  SetStatus(t, "failed") /\ Settle(t, {"reserved"}, "released")

MarkOutcomeUnknown(t) ==
  /\ SetStatus(t, "failed_unknown")
  /\ Settle(t, {"reserved", "outcome_unknown"}, "outcome_unknown")

\* Mutant: a task that was answered before may be posted again.
EligibleAlthoughAnswered(t) == Status(t) \in {"queued", "running"}

Eligible(t) == Status(t) \in {"queued", "running"} /\ ~row[t].receipt

RetriesLeft(t) == row[t].retries < MaxRetries

\* The branch of retryPreProviderAdmission that puts the task back in the queue.
Requeue(t) ==
  /\ row' = [row EXCEPT ![t].status = "queued", ![t].retries = @ + 1]
  /\ UNCHANGED ledger

\* The branch that gives up.
Exhaust(t) ==
  /\ row' = [row EXCEPT ![t].status = "failed", ![t].retries = @ + 1]
  /\ Settle(t, {"reserved"}, "released")

-----------------------------------------------------------------------------
(* Submission.                                                             *)

\* createWithReservation: the lookup of the key, the queue and quota limits and
\* both inserts in one transaction.  A key that has a row answers from it.
Admissible(k) ==
  /\ KeyRows(k) = {}
  /\ Cardinality(Active) < QueueMax
  /\ Cardinality({t \in Active : OwnerOf(row[t].key) = OwnerOf(k)}) < OwnerTaskMax
  /\ HeldBy(OfOwner(OwnerOf(k))) + Outputs <= OwnerQuota
  /\ HeldBy(OfAccount(account)) + Outputs <= ProviderQuota

CreateWithReservation(k, t) ==
  /\ Idle /\ Admissible(k)
  /\ ledger[t] = NeverUsed
  /\ row' = [row EXCEPT ![t] = [status |-> "queued", key |-> k, receipt |-> FALSE,
                                valid |-> 0, acked |-> FALSE, retries |-> 0]]
  /\ ledger' = [ledger EXCEPT ![t] = [state |-> "reserved", account |-> account, owner |-> OwnerOf(k)]]
  /\ section' = <<"accept", t>>
  /\ UNCHANGED <<inputs, files, manifest, mode, account, runner, work, timers, todo, history>>

\* blobs.put of the input, then runImageTask up to its first await.
StoreInput(t) ==
  /\ mode = "serving" /\ section = <<"accept", t>>
  /\ inputs' = inputs \cup {t}
  /\ runner' = [runner EXCEPT ![t] = "admission"]
  /\ section' = NoSection
  /\ UNCHANGED <<row, ledger, files, manifest, mode, account, work, timers, todo, history>>

\* The input cannot be stored: removeAndRelease.
StoreInputFails(t) ==
  /\ mode = "serving" /\ section = <<"accept", t>>
  /\ row' = [row EXCEPT ![t] = NoRow]
  /\ Settle(t, {"reserved"}, "released")
  /\ section' = NoSection
  /\ UNCHANGED <<inputs, files, manifest, mode, account, runner, work, timers, todo, history>>

-----------------------------------------------------------------------------
(* runImageTask.                                                           *)

\* The `finally' of a runner that does not keep its input for a retry.
Ends(t) == runner' = [runner EXCEPT ![t] = "ending"] /\ section' = <<"run", t>>

\* Mutant: a deferred task gets no timer.
scheduleNoRetry(t) == UNCHANGED timers

scheduleTaskRetry(t) == timers' = timers \cup {t}

\* The catch clause, by what was thrown: "capacity", "refused" or "unknown".
Catch(t, err) ==
  /\ \/ /\ Status(t) = "cancelled"
        /\ Ends(t) /\ UNCHANGED <<row, ledger, timers>>
     \/ /\ Status(t) # "cancelled"
        /\ err = "capacity" /\ Eligible(t) /\ RetriesLeft(t)
        /\ Requeue(t)
        /\ scheduleTaskRetry(t)
        /\ runner' = [runner EXCEPT ![t] = "none"] /\ UNCHANGED section
     \/ /\ Status(t) # "cancelled"
        /\ err = "capacity" /\ Eligible(t) /\ ~RetriesLeft(t)
        /\ Exhaust(t)
        /\ Ends(t) /\ UNCHANGED timers
     \/ /\ Status(t) # "cancelled" /\ ~(err = "capacity" /\ Eligible(t))
        /\ IF row[t].receipt \/ err = "unknown"
             THEN MarkOutcomeUnknown(t) ELSE MarkKnownFailedAndRelease(t)
        /\ Ends(t) /\ UNCHANGED timers
  /\ work' = [work EXCEPT ![t] = NoWork]

\* The admission permit is granted.  The row may have been cancelled meanwhile,
\* and a deployment bound to another account must not spend the old reservation.
Admitted(t) ==
  /\ Idle /\ runner[t] = "admission"
  /\ \/ /\ Status(t) # "queued"
        /\ Ends(t) /\ UNCHANGED <<row, ledger, work>>
     \/ /\ Status(t) = "queued" /\ (t \notin inputs \/ ledger[t].account # account)
        /\ MarkKnownFailedAndRelease(t)
        /\ Ends(t) /\ UNCHANGED work
     \/ /\ Status(t) = "queued" /\ t \in inputs /\ ledger[t].account = account
        /\ SetStatus(t, "running")
        /\ runner' = [runner EXCEPT ![t] = "rate"]
        /\ work' = [work EXCEPT ![t] = NoWork]
        /\ UNCHANGED <<ledger, section>>
  /\ UNCHANGED <<inputs, files, manifest, mode, account, timers, todo, history>>

\* The queue is full, the wait was too long, or a cancel aborted it.
AdmissionFails(t) ==
  /\ Idle /\ runner[t] = "admission"
  /\ Catch(t, "capacity")
  /\ UNCHANGED <<inputs, files, manifest, mode, account, todo, history>>

\* A rate token is there: the POST goes out.  Whether the Provider accepts it
\* is decided then, long before the relay learns of it.
PostToProvider(t) ==
  /\ Idle /\ runner[t] = "rate"
  /\ sent' = [sent EXCEPT ![t] = @ + 1]
  /\ \E accepts \in BOOLEAN :
       /\ charged' = IF accepts THEN charged \cup {t} ELSE charged
       /\ work' = [work EXCEPT ![t].refused = ~accepts, ![t].hop = @ + 1]
  /\ runner' = [runner EXCEPT ![t] = "posted"]
  /\ UNCHANGED <<durable, mode, account, timers, section, todo, crashes>>

\* The request cannot be built: nothing was sent.
PreparationFails(t) ==
  /\ Idle /\ runner[t] = "rate" /\ work[t].hop = 0
  /\ Catch(t, "refused")
  /\ UNCHANGED <<inputs, files, manifest, mode, account, todo, history>>

\* Something went wrong after `good' outputs were obtained: keep them and stop,
\* or throw when there is none.
KeepOrThrow(t, err) ==
  IF work[t].good > 0
    THEN /\ runner' = [runner EXCEPT ![t] = "storing"]
         /\ section' = <<"run", t>>
         /\ work' = [work EXCEPT ![t].unsure = TRUE]
         /\ UNCHANGED <<row, ledger, timers>>
    ELSE Catch(t, err)

RateFails(t) ==
  /\ Idle /\ runner[t] = "rate"
  /\ KeepOrThrow(t, "capacity")
  /\ UNCHANGED <<inputs, files, manifest, mode, account, todo, history>>

\* A refusal arrives.
ProviderRefuses(t) ==
  /\ Idle /\ runner[t] = "posted" /\ work[t].refused
  /\ KeepOrThrow(t, "refused")
  /\ UNCHANGED <<inputs, files, manifest, mode, account, todo, history>>

\* Mutant: no answer counts as a refusal.
AnswerLostMeansRefused(t) ==
  /\ Idle /\ runner[t] = "posted"
  /\ KeepOrThrow(t, "refused")
  /\ UNCHANGED <<inputs, files, manifest, mode, account, todo, history>>

\* No answer, or one that cannot be read, within the time limit.
AnswerLost(t) ==
  /\ Idle /\ runner[t] = "posted"
  /\ KeepOrThrow(t, "unknown")
  /\ UNCHANGED <<inputs, files, manifest, mode, account, todo, history>>

\* A successful answer: its receipt is recorded before anything is parsed.
RecordReceipt(t) ==
  /\ Idle /\ runner[t] = "posted" /\ ~work[t].refused
  /\ row' = [row EXCEPT ![t].receipt = TRUE]
  /\ Settle(t, {"reserved", "outcome_unknown"}, "outcome_unknown")
  /\ runner' = [runner EXCEPT ![t] = "answered"]
  /\ UNCHANGED <<inputs, files, manifest, mode, account, work, timers, section, todo, history>>

\* The body is parsed and, with Seedream, the asset downloaded: `valid' of the
\* outputs this answer was asked for can be used.
ReadAnswer(t) ==
  /\ Idle /\ runner[t] = "answered"
  /\ LET k == row[t].key
         asked == Outputs \div Hops(k)
     IN \E valid \in 0 .. asked, extra \in BOOLEAN :
          LET good == work[t].good + valid
              last == work[t].hop = Hops(k)
          IN \/ /\ last /\ good = 0
                /\ Catch(t, "unknown")
             \/ /\ ~last \/ good > 0
                /\ work' = [work EXCEPT ![t].good = good, ![t].unsure = @ \/ valid < asked \/ extra]
                /\ runner' = [runner EXCEPT ![t] = IF last THEN "storing" ELSE "rate"]
                /\ section' = IF last THEN <<"run", t>> ELSE NoSection
                /\ UNCHANGED <<row, ledger, timers>>
  /\ UNCHANGED <<inputs, files, manifest, mode, account, todo, history>>

\* The answer is accepted but useless as a whole (not JSON, or no usable asset).
AnswerUnusable(t) ==
  /\ Idle /\ runner[t] = "answered"
  /\ KeepOrThrow(t, "unknown")
  /\ UNCHANGED <<inputs, files, manifest, mode, account, todo, history>>

\* putOutputs: the outputs one by one, then the manifest that commits them.
StoreOutput(t) ==
  /\ mode = "serving" /\ runner[t] = "storing" /\ files[t] < work[t].good
  /\ files' = [files EXCEPT ![t] = @ + 1]
  /\ UNCHANGED <<row, ledger, inputs, manifest, process, history>>

\* Mutant: the result is announced before its files are written.
CommitManifestFirst(t) ==
  /\ mode = "serving" /\ runner[t] = "storing"
  /\ manifest' = manifest \cup {t}
  /\ runner' = [runner EXCEPT ![t] = "stored"]
  /\ UNCHANGED <<row, ledger, inputs, files, mode, account, work, timers, section, todo, history>>

CommitManifest(t) ==
  /\ mode = "serving" /\ runner[t] = "storing" /\ files[t] = work[t].good
  /\ manifest' = manifest \cup {t}
  /\ runner' = [runner EXCEPT ![t] = "stored"]
  /\ UNCHANGED <<row, ledger, inputs, files, mode, account, work, timers, section, todo, history>>

\* A write fails: what was written is removed and the outcome is unknown.
PutOutputsFails(t) ==
  /\ mode = "serving" /\ runner[t] = "storing"
  /\ files' = [files EXCEPT ![t] = 0]
  /\ Catch(t, "unknown")
  /\ UNCHANGED <<inputs, manifest, mode, account, todo, history>>

MarkSucceeded(t) ==
  /\ mode = "serving" /\ runner[t] = "stored"
  /\ row' = [row EXCEPT ![t].status = "succeeded", ![t].valid = work[t].good]
  /\ Settle(t, {"reserved", "outcome_unknown"}, IF work[t].unsure THEN "outcome_unknown" ELSE "settled")
  /\ work' = [work EXCEPT ![t] = NoWork]
  /\ Ends(t)
  /\ UNCHANGED <<inputs, files, manifest, mode, account, timers, todo, history>>

\* `finally': the input of a task that ended is deleted.
DropInput(t) ==
  /\ mode = "serving" /\ runner[t] = "ending"
  /\ inputs' = inputs \ {t}
  /\ runner' = [runner EXCEPT ![t] = "none"]
  /\ section' = NoSection
  /\ UNCHANGED <<row, ledger, files, manifest, mode, account, work, timers, todo, history>>

\* Mutant: the timer starts no runner.
TimerFiresIdly(t) ==
  /\ Idle /\ t \in timers
  /\ timers' = timers \ {t}
  /\ UNCHANGED <<durable, mode, account, runner, work, section, todo, history>>

\* The retry timer: a task still queued is run again.
TimerFires(t) ==
  /\ Idle /\ t \in timers
  /\ timers' = timers \ {t}
  /\ runner' = IF Status(t) = "queued" /\ runner[t] = "none"
                 THEN [runner EXCEPT ![t] = "admission"] ELSE runner
  /\ UNCHANGED <<durable, mode, account, work, section, todo, history>>

-----------------------------------------------------------------------------
(* Requests about a task.                                                  *)

Cancel(t) ==
  /\ Idle /\ Status(t) = "queued"
  /\ SetStatus(t, "cancelled") /\ Settle(t, {"reserved"}, "released")
  /\ timers' = timers \ {t}
  /\ inputs' = inputs \ {t}
  /\ UNCHANGED <<files, manifest, mode, account, runner, work, section, todo, history>>

Readable(t) == t \in manifest /\ files[t] > 0

Acknowledge(t) ==
  /\ Idle /\ Status(t) = "succeeded"
  /\ row[t].acked \/ Readable(t)
  /\ row' = [row EXCEPT ![t].acked = TRUE]
  /\ section' = <<"unlink", t>>
  /\ UNCHANGED <<ledger, inputs, files, manifest, mode, account, runner, work, timers, todo, history>>

\* The output files go after the acknowledgement is durable; the sweep of any
\* later request repeats it for every acknowledged task.
UnlinkOutputs(t) ==
  /\ \/ section = <<"unlink", t>>
     \/ Idle /\ Has(t) /\ Status(t) = "succeeded" /\ row[t].acked
  /\ mode = "serving"
  /\ files' = [files EXCEPT ![t] = 0]
  /\ manifest' = manifest \ {t}
  /\ section' = NoSection
  /\ UNCHANGED <<row, ledger, inputs, mode, account, runner, work, timers, todo, history>>

\* sweepExpired: retention ends for a task that is not active.  How long it
\* lasts is left open (an unacknowledged result has the longer one); it is far
\* longer than a runner whose wait was aborted takes to leave.
SweepRow(t) ==
  /\ Idle /\ Has(t) /\ t \notin Active /\ runner[t] = "none"
  /\ row' = [row EXCEPT ![t] = NoRow]
  /\ section' = <<"sweep", t>>
  /\ UNCHANGED <<ledger, inputs, files, manifest, mode, account, runner, work, timers, todo, history>>

SweepBlobs(t) ==
  /\ mode = "serving" /\ section = <<"sweep", t>>
  /\ inputs' = inputs \ {t}
  /\ files' = [files EXCEPT ![t] = 0]
  /\ manifest' = manifest \ {t}
  /\ section' = NoSection
  /\ UNCHANGED <<row, ledger, mode, account, runner, work, timers, todo, history>>

-----------------------------------------------------------------------------
(* Death and recovery.                                                     *)

Crash ==
  /\ mode # "down" /\ crashes < MaxCrashes
  /\ mode' = "down" /\ crashes' = crashes + 1
  /\ runner' = [t \in Tasks |-> "none"] /\ work' = [t \in Tasks |-> NoWork]
  /\ timers' = {} /\ section' = NoSection /\ todo' = {}
  /\ UNCHANGED <<durable, account, sent, charged>>

\* TaskStore.recover: one transaction over every running task.
Recover ==
  /\ mode = "down"
  /\ LET running == {t \in Tasks : Status(t) = "running"}
         lost    == running \cup {t \in Tasks : running # {} /\ Status(t) = "failed_unknown"}
     IN /\ row' = [t \in Tasks |-> IF t \in running THEN [row[t] EXCEPT !.status = "failed_unknown"] ELSE row[t]]
        /\ ledger' = [t \in Tasks |->
             IF t \in lost /\ ledger[t].state \in {"reserved", "outcome_unknown"}
               THEN [ledger[t] EXCEPT !.state = "outcome_unknown"] ELSE ledger[t]]
        /\ todo' = running \cup {t \in Tasks : Status(t) = "queued"}
  /\ mode' = "recovering" /\ account' \in Accounts
  /\ UNCHANGED <<inputs, files, manifest, runner, work, timers, section, history>>

Restorable(t) ==
  Status(t) = "failed_unknown" /\ t \in inputs /\ Readable(t) /\ row[t].receipt /\ ~row[t].acked

\* recoverSucceededManifestResult: the files prove a result the row lost.
RestoreResult(t) ==
  /\ mode = "recovering" /\ t \in todo /\ Restorable(t)
  /\ row' = [row EXCEPT ![t].status = "succeeded", ![t].valid = files[t]]
  /\ Settle(t, {"reserved", "outcome_unknown", "settled"}, "outcome_unknown")
  /\ UNCHANGED <<inputs, files, manifest, process, history>>

\* The input of a task that was running goes last.
DropRecovered(t) ==
  /\ mode = "recovering" /\ t \in todo
  /\ Status(t) # "queued" /\ ~Restorable(t)
  /\ inputs' = inputs \ {t} /\ todo' = todo \ {t}
  /\ UNCHANGED <<row, ledger, files, manifest, mode, account, runner, work, timers, section, history>>

\* Queued tasks follow: run again from the stored input, or fail without it.
UnknownDone == \A t \in todo : Status(t) = "queued"

ResumeQueued(t) ==
  /\ mode = "recovering" /\ UnknownDone /\ t \in todo
  /\ todo' = todo \ {t}
  /\ \/ /\ t \in inputs
        /\ runner' = [runner EXCEPT ![t] = "admission"] /\ UNCHANGED <<row, ledger>>
     \/ /\ t \notin inputs
        /\ MarkKnownFailedAndRelease(t) /\ UNCHANGED runner
  /\ UNCHANGED <<inputs, files, manifest, mode, account, work, timers, section, history>>

StartServing ==
  /\ mode = "recovering" /\ todo = {}
  /\ mode' = "serving"
  /\ UNCHANGED <<durable, account, runner, work, timers, section, todo, history>>

-----------------------------------------------------------------------------
RunnerStep(t) ==
  \/ Admitted(t) \/ AdmissionFails(t) \/ PostToProvider(t) \/ PreparationFails(t)
  \/ RateFails(t) \/ ProviderRefuses(t) \/ AnswerLost(t) \/ RecordReceipt(t)
  \/ ReadAnswer(t) \/ AnswerUnusable(t) \/ StoreOutput(t) \/ CommitManifest(t)
  \/ PutOutputsFails(t) \/ MarkSucceeded(t) \/ DropInput(t) \/ TimerFires(t)

RecoveryStep(t) == RestoreResult(t) \/ DropRecovered(t) \/ ResumeQueued(t)

RequestStep(t) ==
  \/ \E k \in Keys : CreateWithReservation(k, t)
  \/ StoreInput(t) \/ StoreInputFails(t) \/ Cancel(t) \/ Acknowledge(t)
  \/ UnlinkOutputs(t) \/ SweepRow(t) \/ SweepBlobs(t)

RelayNext ==
  \/ \E t \in Tasks : RunnerStep(t) \/ RecoveryStep(t) \/ RequestStep(t)
  \/ Crash \/ Recover \/ StartServing

(***************************************************************************)
(* Fairness: a synchronous stretch that began goes on; the event loop runs *)
(* every handler that is ready again and again, and every wait of a runner *)
(* ends (queue waits, rate waits and upstream calls all have a deadline);  *)
(* recovery goes through its list and the service manager starts the relay *)
(* again.  Nothing is assumed of the installations: no submission, cancel, *)
(* acknowledgement or sweep has to happen.                                 *)
(***************************************************************************)
SectionStep(t) ==
  StoreInput(t) \/ SweepBlobs(t) \/ (section # NoSection /\ UnlinkOutputs(t))

Fairness ==
  /\ \A t \in Tasks : SF_vars(RunnerStep(t))
  /\ WF_vars(\E t \in Tasks : SectionStep(t))
  /\ WF_vars(Recover \/ StartServing \/ \E t \in Tasks : RecoveryStep(t))

RelaySpec == RelayInit /\ [][RelayNext]_vars /\ Fairness

-----------------------------------------------------------------------------
TypeOK ==
  /\ row \in [Tasks -> Rows \cup {NoRow}]
  /\ ledger \in [Tasks -> {NeverUsed} \cup
       [state : {"reserved", "outcome_unknown", "settled", "released"},
        account : Accounts, owner : {OwnerOf(k) : k \in Keys}]]
  /\ inputs \subseteq Tasks /\ manifest \subseteq Tasks
  /\ files \in [Tasks -> 0 .. Outputs]
  /\ mode \in {"down", "recovering", "serving"} /\ account \in Accounts
  /\ runner \in [Tasks -> {"none", "admission", "rate", "posted", "answered", "storing", "stored", "ending"}]
  /\ work \in [Tasks -> [hop : 0 .. Outputs, good : 0 .. Outputs, unsure : BOOLEAN, refused : BOOLEAN]]
  /\ timers \subseteq Tasks /\ todo \subseteq Tasks
  /\ section \in {NoSection} \cup ({"accept", "run", "unlink", "sweep"} \X Tasks)
  /\ sent \in [Tasks -> Nat] /\ charged \subseteq Tasks /\ crashes \in 0 .. MaxCrashes

(***************************************************************************)
(* What the Provider charges never exceeds a quota, per installation and   *)
(* per physical account: no failure, retry, cancellation, restart or       *)
(* rebinding gives back the reservation of work that was accepted          *)
(* (createWithReservation, appendProviderReceipt, recover).                *)
(***************************************************************************)
Spent(S) == Outputs * Cardinality(charged \cap S)

SpendWithinQuota ==
  /\ TypeOK
  /\ \A o \in {OwnerOf(k) : k \in Keys} : Spent(OfOwner(o)) <= OwnerQuota
  /\ \A a \in Accounts : Spent(OfAccount(a)) <= ProviderQuota

(***************************************************************************)
(* No POST is ever sent again: over admission retries, timeouts and        *)
(* restarts a task sends each of its paid POSTs at most once, unless the   *)
(* Provider refused it outright (runImageTask, retryPreProviderAdmission,  *)
(* recover: no automatic resubmission of a task that may have been paid).  *)
(***************************************************************************)
NeverPostedAgain == \A t \in Tasks : Has(t) => sent[t] <= Hops(row[t].key)

(***************************************************************************)
(* A result that was announced can be fetched until it is acknowledged:    *)
(* every output the summary counts is on disk behind a committed manifest, *)
(* wherever the process died before (putOutputs, markSucceeded, /ack).     *)
(***************************************************************************)
ResultReadable ==
  \A t \in Tasks :
    Has(t) /\ Status(t) = "succeeded" /\ ~row[t].acked
      => t \in manifest /\ files[t] = row[t].valid /\ files[t] > 0

(***************************************************************************)
(* Every accepted task reaches an end, whatever the Provider does and      *)
(* however often the relay restarts (bounded here).                        *)
(***************************************************************************)
TaskEnds == \A t \in Tasks : (t \in Active) ~> (t \notin Active)

-----------------------------------------------------------------------------
(* The relay keeps its contract with the desktop.                          *)
TaskOf(k) == CHOOSE t \in KeyRows(k) : TRUE

Contract == INSTANCE ImageRelayContract WITH
  remote <- [k \in Keys |-> IF KeyRows(k) = {} THEN "absent" ELSE Status(TaskOf(k))],
  acknowledged <- {k \in Keys : KeyRows(k) # {} /\ row[TaskOf(k)].acked},
  paid <- [k \in Keys |-> KeyRows(k) # {} /\ TaskOf(k) \in charged]

(***************************************************************************)
(* A known failure or a cancellation is a promise that nothing was spent,  *)
(* a success that something was; a row only ever moves as the desktop      *)
(* expects it to.                                                          *)
(***************************************************************************)
KeepsContract == Contract!ContractSpec
=============================================================================
