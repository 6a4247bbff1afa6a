----------------------------- MODULE ImageRound -----------------------------
(***************************************************************************)
(* One paid image generation of the desktop's local server                 *)
(* (imageWorkbenchRuntime.ts, imageWorkbenchRepository.ts) over the relay  *)
(* of ImageRelayContract.                                                  *)
(*                                                                         *)
(* Two records describe it: the transport task T, which remembers what was *)
(* sent, and the formal operation G, which the user sees.  Whoever asks    *)
(* about the operation drives it on: the call that created it, any number  *)
(* of polls, a cancel, and the recovery at startup.  Each reads a record,  *)
(* waits for the network or for the project's file lock, and writes back   *)
(* what it had read with its change.  Every such write is one action here, *)
(* and calls interleave between them.                                      *)
(***************************************************************************)
EXTENDS ImageRelayContract

CONSTANTS
  Callers,        \* concurrent calls of the local server
  Creator,        \* the one that creates the round, and recovers at a restart
  Refresher,      \* the promise in activeRefreshes, shared by those who await it
  Pollers,        \* those that may ask for the operation
  Cancellers,     \* those that may cancel it
  MaxCrashes      \* bound of the model

ASSUME RoundAssumption ==
  /\ Pollers \subseteq Callers /\ Cancellers \subseteq Callers
  /\ Creator \in Callers /\ Refresher \notin Callers
  /\ MaxCrashes \in Nat
  /\ \E k \in Keys : Keys = {k}

VARIABLES
  T, G, group,    \* SQLite: transport task, formal operation, candidate group
  mode,           \* the local server: "up", "down" or "recovering"
  submitting,     \* activeSubmissions holds this operation
  proc,           \* per caller: which call it is, where, and what it has read
  post,           \* the POST: "none", "flying", "accepted", "refused", "late", "gone"
  posts, crashes, \* history
  denied          \* history: a refused status read was taken for the end of the task

vars == <<contractVars, T, G, group, mode, submitting, proc, post, posts, crashes, denied>>

Key   == CHOOSE k \in Keys : TRUE
Procs == Callers \cup {Refresher}

NewT == [status |-> "queued", unknown |-> FALSE, remote |-> FALSE,
         started |-> FALSE, receipt |-> FALSE, acked |-> FALSE]
NewG == [status |-> "queued", result |-> FALSE, late |-> FALSE]

Idle == [call |-> "none", at |-> "idle", next |-> "none", t |-> NewT, g |-> NewG]

RoundInit ==
  /\ ContractInit
  /\ T = NewT /\ G = NewG /\ group = FALSE
  /\ mode = "up" /\ submitting = FALSE
  /\ proc = [p \in Procs |->
       IF p = Creator THEN [Idle EXCEPT !.call = "create", !.at = "claim"] ELSE Idle]
  /\ post = "none" /\ posts = 0 /\ crashes = 0 /\ denied = FALSE

At(p, label) == mode # "down" /\ proc[p].at = label

-----------------------------------------------------------------------------
(* Where a call goes next.  Between two waits a call runs to its next one: *)
(* these operators give that wait, and Settled takes the steps that need   *)
(* none.                                                                   *)

\* The call waits at a place, with a record in hand.
Going(q, place, t) == [q EXCEPT !.at = place, !.t = t]

\* Mutant: only a queued or running task is asked after.
DecidedWhileActive(q, t) ==
  Going(q, IF t.status = "succeeded" THEN "ack"
           ELSE IF t.remote /\ t.status \in ActiveStates THEN "refresh" ELSE "sync", t)

\* getOperation, once the record is neither interrupted nor unknown
Decided(q, t) ==
  Going(q, IF t.status = "succeeded" THEN "ack"
           ELSE IF ~t.remote \/ t.status \in {"failed", "cancelled"} THEN "sync" ELSE "refresh", t)

\* after recoverOutcomeUnknownOperation, or without need for it
Reconciled(q, t) ==
  IF q.call \in {"create", "resume"} THEN Going(q, "submitted", t)
  ELSE IF q.call = "recover" THEN Going(q, IF t.status = "committing" THEN "refresh" ELSE "ack", t)
  ELSE Decided(q, t)

Checked(q, t) ==
  IF t.unknown /\ ~t.remote THEN Going(q, "lookup", t) ELSE Reconciled(q, t)

\* resumeUnpostedGenerationOperation: only a POST that never began may begin
Resumable(t, g) == ~t.remote /\ g.status = "queued" /\ t.status = "queued" /\ ~t.started

Fenced(q, t, g) ==
  IF q.call = "recover" /\ Resumable(t, g)
    THEN [q EXCEPT !.call = "resume", !.at = "claim"] ELSE Checked(q, t)

\* fenceInterruptedSubmission: a POST began and nobody here waits for its answer
Interrupted(t) ==
  ~t.remote /\ t.started /\ ~t.unknown /\ t.status \in {"queued", "running"} /\ ~submitting

Begun(q) ==
  IF Interrupted(T) THEN Going(q, "fence", T) ELSE Fenced(q, T, G)

\* after syncGenerationOperationFromTransport returned g, with the record t then
Returned(q, g, t) ==
  LET cancels == q.call = "cancel" /\ g.status = "queued"
  IN IF q.call = "resume" THEN Checked([q EXCEPT !.call = "recover"], t)
     ELSE IF q.call = "recover" THEN [Idle EXCEPT !.at = "served"]
     ELSE IF cancels /\ ~t.remote /\ ~t.started THEN [q EXCEPT !.at = "cancelLocally"]
     ELSE IF cancels /\ t.remote /\ t.status = "queued"
       THEN [q EXCEPT !.at = "cancelRemotely", !.t = t, !.g = g]
     ELSE Idle

\* Mutant: a receipt is enough.
AcknowledgeableOnReceipt(t, g) == t.remote /\ t.receipt /\ ~t.acked

Acknowledgeable(t, g) == t.remote /\ t.receipt /\ ~t.acked /\ g.result

LocallyCancelled(t, g) == g.status = "cancelled" /\ ~t.remote

SettleAck(q) ==
  IF q.at # "ack" THEN q ELSE [q EXCEPT !.at = IF Acknowledgeable(q.t, G') THEN "acking" ELSE "sync"]

SettleSync(q) ==
  IF q.at # "sync" THEN q
  ELSE IF ~LocallyCancelled(q.t, G') THEN [q EXCEPT !.at = "syncWrite", !.g = G']
  ELSE IF q.t.status # "cancelled" THEN [q EXCEPT !.at = "syncCancel", !.g = G']
  ELSE Returned(q, G', T')

\* refreshPersistedOperation: start the shared promise or join it
SettleRefresh(f) ==
  LET joining == {p \in Callers : f[p].at = "refresh"}
  IN [p \in Procs |->
       IF p \in joining THEN [f[p] EXCEPT !.at = "awaiting"]
       ELSE IF p = Refresher /\ joining # {} /\ f[p].at = "idle"
         THEN [Idle EXCEPT !.call = "refresh", !.at = "read", !.t = f[CHOOSE j \in joining : TRUE].t]
         ELSE f[p]]

Settled(f) == SettleRefresh([p \in Procs |-> SettleSync(SettleAck(f[p]))])

Move(p, q) == proc' = Settled([proc EXCEPT ![p] = q])

\* The shared promise resolves: everybody who awaits it goes on.  A lookup that
\* led to it continues there, startup recovery and a poll with the projection.
Resumed(q, t) ==
  IF q.next = "reconcile" THEN Reconciled([q EXCEPT !.next = "none"], t)
  ELSE Going(q, IF q.call = "recover" THEN "ack" ELSE "sync", t)

Resolve(t) ==
  proc' = Settled([p \in Procs |->
    IF p = Refresher THEN Idle
    ELSE IF proc[p].at = "awaiting" THEN Resumed(proc[p], t) ELSE proc[p]])

\* It rejects: recoverOutcomeUnknownOperation returns what it was called with,
\* every other call fails.
Unresolved(t) == [t EXCEPT !.status = "failed", !.unknown = TRUE, !.remote = FALSE]

Rejected(q) ==
  IF q.next = "reconcile" THEN Reconciled([q EXCEPT !.next = "none"], Unresolved(q.t))
  ELSE IF q.call = "recover" THEN [Idle EXCEPT !.at = "served"] ELSE Idle

Reject ==
  proc' = Settled([p \in Procs |->
    IF p = Refresher THEN Idle
    ELSE IF proc[p].at = "awaiting" THEN Rejected(proc[p]) ELSE proc[p]])

-----------------------------------------------------------------------------
(* Submission.                                                             *)

\* claimGenerationSubmission: one transaction over both records
CanClaim ==
  G.status = "queued" /\ T.status = "queued" /\ ~T.remote /\ ~T.started

ClaimGenerationSubmission(p) ==
  /\ At(p, "claim")
  /\ UNCHANGED G
  /\ \/ /\ CanClaim
        /\ T' = [T EXCEPT !.started = TRUE, !.unknown = FALSE]
        /\ Move(p, Going(proc[p], "begin", T'))
     \/ /\ ~CanClaim
        /\ UNCHANGED T
        /\ Move(p, Returned(proc[p], G, T))
  /\ UNCHANGED <<contractVars, group, mode, submitting, post, posts, crashes, denied>>

\* performSubmission up to its POST
BeginSubmission(p) ==
  /\ At(p, "begin")
  /\ submitting' = TRUE
  /\ T' = [proc[p].t EXCEPT !.status = "queued", !.unknown = FALSE]
  /\ post' = "flying" /\ posts' = posts + 1
  /\ UNCHANGED <<contractVars, G, group, mode, crashes, denied>>
  /\ Move(p, Going(proc[p], "post", T'))

\* The relay gets the POST, in time or long after the desktop gave up.
RelayTakesPost ==
  /\ post \in {"flying", "late"}
  /\ \E taken \in BOOLEAN :
       /\ post' = IF post = "late" THEN "gone" ELSE IF taken THEN "accepted" ELSE "refused"
       /\ IF taken /\ remote[Key] = "absent" THEN AcceptTask(Key) ELSE UNCHANGED contractVars
  /\ UNCHANGED <<T, G, group, mode, submitting, proc, posts, crashes, denied>>

PostVanishes ==
  /\ post = "late" /\ post' = "gone"
  /\ UNCHANGED <<contractVars, T, G, group, mode, submitting, proc, posts, crashes, denied>>

PostAnswered(p) ==
  /\ At(p, "post") /\ post \in {"accepted", "refused"}
  /\ T' = IF post = "accepted"
            THEN [proc[p].t EXCEPT !.status = "queued", !.remote = TRUE, !.receipt = FALSE]
            ELSE [proc[p].t EXCEPT !.status = "failed", !.unknown = FALSE, !.receipt = FALSE]
  /\ post' = "gone"
  /\ UNCHANGED <<contractVars, G, group, mode, submitting, posts, crashes, denied>>
  /\ Move(p, Reconciled(proc[p], T'))

\* Mutant: no answer counts as a refusal.
PostUnansweredFails(p) ==
  /\ At(p, "post")
  /\ T' = [proc[p].t EXCEPT !.status = "failed", !.unknown = FALSE, !.receipt = FALSE]
  /\ post' = IF post = "flying" THEN "late" ELSE "gone"
  /\ UNCHANGED <<contractVars, G, group, mode, submitting, posts, crashes, denied>>
  /\ Move(p, Checked(proc[p], T'))

\* A 5xx, a lost answer or the deadline: from here on only lookups.
PostUnanswered(p) ==
  /\ At(p, "post")
  /\ T' = [proc[p].t EXCEPT !.status = "failed", !.unknown = TRUE, !.receipt = FALSE]
  /\ post' = IF post = "flying" THEN "late" ELSE "gone"
  /\ UNCHANGED <<contractVars, G, group, mode, submitting, posts, crashes, denied>>
  /\ Move(p, Checked(proc[p], T'))

\* activeSubmissions is cleared, and the formal record follows.
SubmissionEnds(p) ==
  /\ At(p, "submitted")
  /\ submitting' = FALSE
  /\ UNCHANGED <<contractVars, T, G, group, mode, post, posts, crashes, denied>>
  /\ Move(p, [proc[p] EXCEPT !.at = "sync"])

-----------------------------------------------------------------------------
(* Reading on: the fence, the lookup by key, the projection.               *)

Fence(p) ==
  /\ At(p, "fence")
  /\ T' = [proc[p].t EXCEPT !.status = "failed", !.unknown = TRUE, !.receipt = FALSE]
  /\ UNCHANGED <<contractVars, G, group, mode, submitting, post, posts, crashes, denied>>
  /\ Move(p, Fenced(proc[p], T', G))

\* provider_receipt_hash as the relay may report it
Receipts == {r \in BOOLEAN : (r => paid[Key]) /\ (remote[Key] = "succeeded" => r)}

LookupFinds(p) ==
  /\ At(p, "lookup") /\ remote[Key] # "absent"
  /\ \E r \in Receipts :
       T' = [proc[p].t EXCEPT !.remote = TRUE, !.unknown = FALSE, !.receipt = @ \/ r,
                              !.status = IF remote[Key] = "running" THEN "running" ELSE "queued"]
  /\ UNCHANGED <<contractVars, G, group, mode, submitting, post, posts, crashes, denied>>
  /\ Move(p, Going([proc[p] EXCEPT !.next = "reconcile"], "refresh", T'))

\* Mutant: a lookup that finds nothing leads to another POST.
LookupFailsPostsAgain(p) ==
  /\ At(p, "lookup")
  /\ UNCHANGED <<contractVars, T, G, group, mode, submitting, post, posts, crashes, denied>>
  /\ Move(p, [proc[p] EXCEPT !.at = "begin"])

\* 404, an error or no answer: the operation stays unknown, and is never posted.
LookupFails(p) ==
  /\ At(p, "lookup")
  /\ UNCHANGED <<contractVars, T, G, group, mode, submitting, post, posts, crashes, denied>>
  /\ Move(p, Reconciled(proc[p], proc[p].t))

\* The formal record's status, layered onto the record read before.
Terminal == {"succeeded", "failed", "cancelled"}

DefinitivelyNotSubmitted(t) ==
  t.status \in {"failed", "cancelled"} /\ ~t.unknown /\ ~t.receipt

Layered(g, t) ==
  [g EXCEPT !.status = IF t.unknown THEN "outcome_unknown" ELSE t.status]

SyncWrite(p) ==
  /\ At(p, "syncWrite")
  /\ G' = Layered(proc[p].g, proc[p].t)
  /\ UNCHANGED <<contractVars, T, group, mode, submitting, post, posts, crashes, denied>>
  /\ IF p = Refresher THEN Resolve(proc[p].t) ELSE Move(p, Returned(proc[p], G', T))

SyncCancel(p) ==
  /\ At(p, "syncCancel")
  /\ T' = [proc[p].t EXCEPT !.status = "cancelled", !.unknown = FALSE]
  /\ UNCHANGED <<contractVars, G, group, mode, submitting, post, posts, crashes, denied>>
  /\ Move(p, Returned(proc[p], proc[p].g, T'))

-----------------------------------------------------------------------------
(* refreshOperation, the body of the shared promise.                       *)

AtRefresh(label) == At(Refresher, label)
me == proc[Refresher]

\* What the status read says: the row's status, "handoff" for a success whose
\* outputs are still held, or "refused" (401, 403, 404, 429).
Answers ==
  {IF remote[Key] = "succeeded" /\ Key \notin acknowledged THEN "handoff" ELSE remote[Key],
   "refused"}

StatusRead ==
  /\ AtRefresh("read")
  /\ \E a \in Answers : proc' = [proc EXCEPT ![Refresher] = [@ EXCEPT !.at = "answer", !.next = a]]
  /\ UNCHANGED <<contractVars, T, G, group, mode, submitting, post, posts, crashes, denied>>

\* No answer, a 5xx, or outputs that cannot be fetched: nothing is concluded.
ReadFails ==
  /\ AtRefresh("read") \/ (AtRefresh("answer") /\ me.next = "handoff")
  /\ UNCHANGED <<contractVars, T, G, group, mode, submitting, post, posts, crashes, denied>>
  /\ Resolve(me.t)

StatusActive ==
  /\ AtRefresh("answer") /\ me.next \in ActiveStates
  /\ T' = [me.t EXCEPT !.status = me.next]
  /\ UNCHANGED <<contractVars, G, group, mode, submitting, post, posts, crashes, denied>>
  /\ Resolve(T')

\* A read that is refused ends the operation like a task that failed.
StatusEnded ==
  /\ AtRefresh("answer") /\ me.next \in {"absent", "refused", "failed", "failed_unknown", "cancelled"}
  /\ \E r \in IF me.next = "failed_unknown" THEN Receipts ELSE {FALSE} :
       T' = [me.t EXCEPT !.status = "failed", !.unknown = me.next = "failed_unknown", !.receipt = r]
  /\ denied' = (denied \/ me.next = "refused")
  /\ UNCHANGED <<contractVars, G, group, mode, submitting, post, posts, crashes>>
  /\ Resolve(T')

\* persistGenerationRemoteResults, with the outputs or (acknowledged) without
BeginCommit ==
  /\ AtRefresh("answer")
  /\ \/ me.next = "handoff" /\ remote[Key] = "succeeded" /\ Key \notin acknowledged
     \/ me.next = "succeeded"
  /\ T' = [me.t EXCEPT !.status = "committing", !.receipt = TRUE]
  /\ proc' = [proc EXCEPT ![Refresher] = [@ EXCEPT !.at = "committing", !.t = T', !.g = G]]
  /\ UNCHANGED <<contractVars, G, group, mode, submitting, post, posts, crashes, denied>>

MarkCommitting ==
  /\ AtRefresh("committing")
  /\ G' = [me.g EXCEPT !.status = "committing"]
  /\ proc' = [proc EXCEPT ![Refresher] = [@ EXCEPT !.at = "commit", !.g = G']]
  /\ UNCHANGED <<contractVars, T, group, mode, submitting, post, posts, crashes, denied>>

\* commitCandidateGroup: one transaction; an earlier commit of this operation
\* answers with what is stored.
CommitCandidateGroup ==
  /\ AtRefresh("commit") /\ me.next = "handoff"
  /\ IF group THEN UNCHANGED <<T, G>>
              ELSE /\ T' = [me.t EXCEPT !.status = "succeeded"]
                   /\ G' = [me.g EXCEPT !.status = "succeeded", !.result = TRUE]
  /\ group' = TRUE
  /\ UNCHANGED <<contractVars, mode, submitting, post, posts, crashes, denied>>
  /\ IF Acknowledgeable(T', G') THEN Move(Refresher, Going(me, "acking", T')) ELSE Resolve(T')

\* Another operation of the project moved its writer fence meanwhile.
CommitRefused ==
  /\ AtRefresh("commit") /\ me.next = "handoff"
  /\ UNCHANGED <<contractVars, T, G, group, mode, submitting, post, posts, crashes, denied>>
  /\ Reject

\* No output is there, or none that can be verified.
NothingToCommit ==
  /\ AtRefresh("commit")
  /\ T' = [me.t EXCEPT !.status = "failed", !.unknown = FALSE]
  /\ UNCHANGED <<contractVars, G, group, mode, submitting, post, posts, crashes, denied>>
  /\ Move(Refresher, Going(me, "sync", T'))

-----------------------------------------------------------------------------
(* Acknowledgement, by a caller or by the refresh that committed.          *)

Acknowledged(p, t) ==
  IF p = Refresher THEN Resolve(t) ELSE Move(p, Going(proc[p], "sync", t))

AckExecuted(p) ==
  /\ At(p, "acking") /\ AcknowledgeTask(Key)
  /\ proc' = [proc EXCEPT ![p].at = "acked"]
  /\ UNCHANGED <<T, G, group, mode, submitting, post, posts, crashes, denied>>

AckSaved(p) ==
  /\ At(p, "acked")
  /\ T' = [proc[p].t EXCEPT !.acked = TRUE]
  /\ UNCHANGED <<contractVars, G, group, mode, submitting, post, posts, crashes, denied>>
  /\ Acknowledged(p, T')

AckUnanswered(p) ==
  /\ At(p, "acking") \/ At(p, "acked")
  /\ UNCHANGED <<contractVars, T, G, group, mode, submitting, post, posts, crashes, denied>>
  /\ Acknowledged(p, proc[p].t)

-----------------------------------------------------------------------------
(* Calls.                                                                  *)

\* refreshGenerationOperation, by a poll or before a cancel
LateResult == T.remote /\ (G.status = "outcome_unknown" \/ (G.status = "cancelled" /\ G.late))

Call(p, call) ==
  /\ mode = "up" /\ proc[p].at = "idle"
  /\ UNCHANGED <<contractVars, T, G, group, mode, submitting, post, posts, crashes, denied>>
  /\ LET q == [Idle EXCEPT !.call = call]
     IN Move(p, IF LateResult THEN Going(q, "refresh", T) ELSE Begun(q))

\* cancelGenerationBeforeSubmission
CancelLocally(p) ==
  /\ At(p, "cancelLocally")
  /\ IF CanClaim
       THEN /\ T' = [T EXCEPT !.status = "cancelled", !.unknown = FALSE]
            /\ G' = [G EXCEPT !.status = "cancelled", !.late = TRUE]
       ELSE UNCHANGED <<T, G>>
  /\ UNCHANGED <<contractVars, group, mode, submitting, post, posts, crashes, denied>>
  /\ Move(p, Idle)

\* cancelOperation: the relay cancels a queued task, or refuses.
CancelExecuted(p) ==
  /\ At(p, "cancelRemotely") /\ CancelTask(Key)
  /\ proc' = [proc EXCEPT ![p].at = "cancelled"]
  /\ UNCHANGED <<T, G, group, mode, submitting, post, posts, crashes, denied>>

CancelFails(p) ==
  /\ At(p, "cancelRemotely") \/ At(p, "cancelled")
  /\ UNCHANGED <<contractVars, T, G, group, mode, submitting, post, posts, crashes, denied>>
  /\ Move(p, Idle)

MarkOperationCancelled(p) ==
  /\ At(p, "cancelled")
  /\ T' = [proc[p].t EXCEPT !.status = "cancelled", !.unknown = FALSE]
  /\ proc' = [proc EXCEPT ![p].at = "cancelSave"]
  /\ UNCHANGED <<contractVars, G, group, mode, submitting, post, posts, crashes, denied>>

SaveCancelled(p) ==
  /\ At(p, "cancelSave")
  /\ G' = [proc[p].g EXCEPT !.status = "cancelled", !.late = TRUE]
  /\ UNCHANGED <<contractVars, T, group, mode, submitting, post, posts, crashes, denied>>
  /\ Move(p, Idle)

-----------------------------------------------------------------------------
(* The local server dies and starts again; recovery runs before it serves. *)

Crash ==
  /\ mode # "down" /\ crashes < MaxCrashes
  /\ mode' = "down" /\ crashes' = crashes + 1
  /\ proc' = [p \in Procs |-> Idle] /\ submitting' = FALSE
  /\ post' = IF post = "flying" THEN "late" ELSE IF post \in {"accepted", "refused"} THEN "gone" ELSE post
  /\ UNCHANGED <<contractVars, T, G, group, posts, denied>>

Restart ==
  /\ mode = "down"
  /\ mode' = "recovering"
  /\ UNCHANGED <<contractVars, T, G, group, submitting, post, posts, crashes, denied>>
  /\ Move(Creator, Begun([Idle EXCEPT !.call = "recover"]))

Serve ==
  /\ At(Creator, "served")
  /\ mode' = "up"
  /\ proc' = [proc EXCEPT ![Creator] = Idle]
  /\ UNCHANGED <<contractVars, T, G, group, submitting, post, posts, crashes, denied>>

\* The relay on its own.
RelayStep ==
  /\ \/ StartTask(Key) \/ RequeueTask(Key) \/ ProviderAccepts(Key)
     \/ FailTask(Key) \/ LoseTrack({Key}) \/ SucceedTask(Key)
  /\ UNCHANGED <<T, G, group, mode, submitting, proc, post, posts, crashes, denied>>

-----------------------------------------------------------------------------
CallStep(p) ==
  \/ ClaimGenerationSubmission(p) \/ BeginSubmission(p) \/ PostAnswered(p) \/ PostUnanswered(p)
  \/ SubmissionEnds(p) \/ Fence(p) \/ LookupFinds(p) \/ LookupFails(p)
  \/ SyncWrite(p) \/ SyncCancel(p) \/ AckExecuted(p) \/ AckSaved(p) \/ AckUnanswered(p)
  \/ CancelLocally(p) \/ CancelExecuted(p) \/ CancelFails(p)
  \/ MarkOperationCancelled(p) \/ SaveCancelled(p)

RefreshStep ==
  \/ StatusRead \/ ReadFails \/ StatusActive \/ StatusEnded \/ BeginCommit
  \/ MarkCommitting \/ CommitCandidateGroup \/ CommitRefused \/ NothingToCommit

RoundNext ==
  \/ \E p \in Procs : CallStep(p)
  \/ \E p \in Pollers : Call(p, "poll")
  \/ \E p \in Cancellers : Call(p, "cancel")
  \/ RefreshStep \/ RelayTakesPost \/ PostVanishes \/ RelayStep
  \/ Crash \/ Restart \/ Serve

\* Mutant: a task that waits at the relay is not asked after.
ScheduledWhileRunning ==
  G.status \in {"queued", "running", "outcome_unknown"} /\ T.status = "running"

\* remoteRefreshDelay is not null: the long poll of the project's events asks
\* after the operation.  It does not after one whose transport task has failed
\* with an unknown outcome, nor while the formal record is committing.
Scheduled ==
  G.status \in {"queued", "running", "outcome_unknown"} /\ T.status \in ActiveStates

(* Fairness.  The page of the project stays open: its long poll asks after  *)
(* an operation as long as one is scheduled, and nobody has to ask besides. *)
(* Calls run on, a server that died is started again, and what is asked of  *)
(* others again and again happens at last: the relay answers a lookup and a *)
(* status read, it hands its outputs over, and other operations of the      *)
(* project do not refuse every commit.                                      *)
Fairness ==
  /\ WF_vars(Scheduled /\ \E p \in Pollers : Call(p, "poll"))
  /\ \A p \in Callers : WF_vars(CallStep(p))
  /\ WF_vars(CallStep(Refresher) \/ RefreshStep \/ Restart \/ Serve)
  /\ SF_vars(\E p \in Callers : LookupFinds(p))
  /\ SF_vars(StatusRead)
  /\ SF_vars(BeginCommit)
  /\ SF_vars(CommitCandidateGroup)

RoundSpec     == RoundInit /\ [][RoundNext]_vars
FairRoundSpec == RoundSpec /\ Fairness

TypeOK ==
  /\ T \in [status : {"queued", "running", "committing", "succeeded", "failed", "cancelled"},
            unknown : BOOLEAN, remote : BOOLEAN, started : BOOLEAN, receipt : BOOLEAN, acked : BOOLEAN]
  /\ G \in [status : {"queued", "running", "committing", "succeeded", "failed", "cancelled", "outcome_unknown"},
            result : BOOLEAN, late : BOOLEAN]
  /\ group \in BOOLEAN /\ submitting \in BOOLEAN
  /\ mode \in {"up", "down", "recovering"}
  /\ post \in {"none", "flying", "accepted", "refused", "late", "gone"}
  /\ posts \in Nat /\ crashes \in 0 .. MaxCrashes /\ denied \in BOOLEAN

\* A generation is posted once in its life: no poll, no cancel, no lookup that
\* finds nothing and no restart sends it a second time, whatever is not known
\* about the first.
PostedOnce == TypeOK /\ posts <= 1

\* "Only a receipt or an unknown outcome keeps the recovery fence reserved": an
\* operation that is recorded as failed or cancelled with neither was never
\* paid for, although its POST may have arrived long after the desktop gave up;
\* unless it was recorded so because the relay refused a read of its status.
KnownFailureIsFree == DefinitivelyNotSubmitted(T) => ~paid[Key] \/ denied

\* The relay is told to forget a result, and the user that there is one, only
\* when the candidate group is committed, whoever of the callers, the shared
\* refresh and a restarted server gets that far.
CommittedBeforeReleased ==
  acknowledged # {} \/ T.status = "succeeded" \/ G.status = "succeeded" => group

\* One of its two records has ended without an open question.
KnownFailure == G.status = "failed" \/ (T.status = "failed" /\ ~T.unknown)

\* Nobody asks after the operation, and nothing schedules that anybody does:
\* its outcome is unknown, or its commit was refused or cut off.
LeftAlone ==
  /\ mode = "up" /\ \A p \in Procs : proc[p].at = "idle"
  /\ T.unknown \/ "committing" \in {T.status, G.status}

\* "Event long-polling is also this workbench's reconciliation clock": a result
\* that was paid for reaches the project, also when its POST was never answered,
\* when commits were refused and after a restart, or one of its two records ends
\* as a known failure (the result holds no valid image, or the read of its status
\* was refused; a stale write may leave the other record behind).  The one other
\* way to end is that it is left alone for good: an operation whose outcome is
\* unknown, or whose commit was refused, is asked after by no clock.  As long as
\* a user goes on asking, it gets there too.
PaidWorkIsDelivered ==
  remote[Key] = "succeeded" ~> group \/ KnownFailure \/ []LeftAlone
=============================================================================
