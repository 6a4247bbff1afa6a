-------------------------- MODULE VideoMediaRelay --------------------------
(***************************************************************************)
(* The operations of the video media relay (video-media-relay/app.ts).     *)
(* An operation is a row that spends a quota reservation on one paid       *)
(* Provider call.  It is submitted by a POST that the desktop may repeat   *)
(* at any time, also while the first one runs.  A short call ends with its *)
(* result; a long transcription becomes a Provider task that each GET      *)
(* polls.  A result is first a row with its bytes, then an object in the   *)
(* object store, and only then the outcome of its operation.               *)
(*                                                                         *)
(* An action is what a handler does between two awaits.  The quota row     *)
(* that follows a state in a statement of its own is written with it: a    *)
(* death in between leaves "reserved", which weighs what the later states  *)
(* weigh and which nothing gives back once the Provider was called.        *)
(***************************************************************************)
EXTENDS Naturals, FiniteSets, FiniteSetsExt

CONSTANTS
  Ops,            \* operations, each with the idempotency key it is posted with
  Long,           \* those that become a Provider task: long transcriptions
  OwnerOf(_), Units(_),
  Callers,        \* POSTs of one operation that can be under way at once
  Flights,        \* runs of recoverPublishingResults that can be under way at once
  Versions,       \* results an operation may get (bound of the model)
  OwnerLimit, AccountLimit,
  MaxCrashes      \* bound of the model

\* What the constants are assumed to be. An operation costs some units.
VideoConfig ==
  /\ IsFiniteSet(Ops) /\ Long \subseteq Ops
  /\ \A o \in Ops : Units(o) \in Nat
  /\ {OwnerLimit, AccountLimit, MaxCrashes} \subseteq Nat

VARIABLES
  \* durable
  row,            \* video_media_operations_v1: NoRow, or the record of an operation
  quota,          \* video_media_quota_v1: the state of its reservation
  result,         \* video_media_result_objects_v1: the state of each result row
  rowAcked,       \* result rows with an acknowledgement
  doomed,         \* result objects whose cleanup is active
  stored,         \* result objects in the object store
  \* the process
  post,           \* where each POST of an operation is
  submitting,     \* activeProviderSubmissions
  own,            \* activeResultPublications: per result, how far its first publication is
  lock,           \* what the holder of the operation's lock is waiting for
  flight,         \* per recovery, the result it is promoting and how far it is
  section,        \* results whose cleanup is about to be queued, in this stretch
  \* history
  sent, charged,  \* calls sent, and operations for which the Provider accepted one
  crashes

durable   == <<row, quota, result, rowAcked, doomed, stored>>
waits     == <<post, submitting, own, lock, flight>>
history   == <<sent, charged, crashes>>
videoVars == <<durable, waits, section, history>>

NoRow   == [state |-> "none"]
Results == Ops \X Versions
Nowhere == [by |-> "none", stage |-> "none"]
NoFlight == [result |-> <<>>, stage |-> "none"]

Idle == section = {}

Has(o)    == row[o] # NoRow
State(o)  == row[o].state
Fenced(o) == Has(o) /\ row[o].fenced
Promotable == {"accepted", "submitted"}    \* "submitted" stands for "running" too
Unsettled  == Promotable \cup {"outcome_unknown"}

RowsOf(o)     == {r \in Results : r[1] = o}
Publishing(o) == {r \in RowsOf(o) : result[r] = "publishing"}
Unused(o)     == {r \in RowsOf(o) : result[r] = "none"}

VideoInit ==
  /\ row = [o \in Ops |-> NoRow] /\ quota = [o \in Ops |-> "none"]
  /\ result = [r \in Results |-> "none"] /\ rowAcked = {} /\ doomed = {} /\ stored = {}
  /\ post = [k \in Ops \X Callers |-> "none"] /\ submitting = {}
  /\ own = [r \in Results |-> Nowhere] /\ lock = [o \in Ops |-> "free"]
  /\ flight = [f \in Flights |-> NoFlight] /\ section = {}
  /\ sent = [o \in Ops |-> 0] /\ charged = {} /\ crashes = 0

-----------------------------------------------------------------------------
(* RelayStore.                                                             *)

\* Mutant: an outcome that is unknown weighs nothing.
HoldingIgnoresUnknown(S) == MapThenSumSet(Units, {o \in S : quota[o] \in {"reserved", "settled"}})

\* What counts against a limit; a settled reservation keeps its units.
Holding(S) == MapThenSumSet(Units, {o \in S : quota[o] \in {"reserved", "outcome_unknown", "settled"}})

OfOwner(w) == {o \in Ops : OwnerOf(o) = w}

Reservable(o) ==
  /\ Holding(OfOwner(OwnerOf(o))) + Units(o) <= OwnerLimit
  /\ Holding(Ops) + Units(o) <= AccountLimit

\* UPDATE ... SET state WHERE state IN (from)
SetQuota(o, from, state) == quota' = IF quota[o] \in from THEN [quota EXCEPT ![o] = state] ELSE quota

settleQuota(o)        == SetQuota(o, {"reserved", "outcome_unknown"}, "settled")
retainUnknownQuota(o) == SetQuota(o, {"reserved"}, "outcome_unknown")
releaseQuota(o)       == SetQuota(o, {"reserved"}, "released")

Become(o, state) == row' = [row EXCEPT ![o].state = state]

\* UPDATE ... SET state WHERE state IN (from), with the quota if a row changed.
FailIf(o, from) ==
  IF State(o) \in from THEN Become(o, "failed") /\ settleQuota(o) ELSE UNCHANGED <<row, quota>>
LoseIf(o, from) ==
  IF State(o) \in from THEN Become(o, "outcome_unknown") /\ retainUnknownQuota(o) ELSE UNCHANGED <<row, quota>>

-----------------------------------------------------------------------------
(* POST /operations.                                                       *)

\* A new key: reservation, row and key in one transaction.
Create(o, c) ==
  /\ Idle /\ ~Has(o) /\ Reservable(o)
  /\ row' = [row EXCEPT ![o] = [state |-> "accepted", fenced |-> FALSE, task |-> FALSE,
                                old |-> FALSE, acked |-> FALSE]]
  /\ quota' = [quota EXCEPT ![o] = "reserved"]
  /\ post' = [post EXCEPT ![<<o, c>>] = "preparing"]
  /\ UNCHANGED <<result, rowAcked, doomed, stored, submitting, own, lock, flight, section, history>>

\* A known key whose call was not yet made: this request prepares it as well.
\* In every other state a repeated POST only reads, or does what MarkInterrupted does.
Repeat(o, c) ==
  /\ Idle /\ Has(o) /\ State(o) = "accepted" /\ ~Fenced(o) /\ post[<<o, c>>] = "none"
  /\ post' = [post EXCEPT ![<<o, c>>] = "preparing"]
  /\ UNCHANGED <<durable, submitting, own, lock, flight, section, history>>

\* Mutant: the operation is left as it is, for nobody.
failBeforeProviderForgets(o) == UNCHANGED <<row, quota>>

failBeforeProvider(o) ==
  IF State(o) = "accepted" /\ ~Fenced(o)
    THEN Become(o, "failed") /\ releaseQuota(o) ELSE UNCHANGED <<row, quota>>

\* The catch clause, for whichever POST of the operation threw: "refused" (4xx),
\* "unknown", "no_amount" (a receipt without a price) or "bad_result".
Catch(o, err) ==
  \/ /\ ~Fenced(o)
     /\ failBeforeProvider(o)
  \/ /\ Fenced(o) /\ err = "no_amount"
     /\ LoseIf(o, Unsettled)
  \/ /\ Fenced(o) /\ err = "bad_result"
     /\ FailIf(o, Unsettled)
  \/ /\ Fenced(o) /\ err \in {"refused", "unknown"}
     /\ \/ Publishing(o) # {} /\ UNCHANGED <<row, quota>>
        \/ Publishing(o) = {} /\ row[o].task /\ Become(o, "submitted") /\ UNCHANGED quota
        \/ /\ Publishing(o) = {} /\ ~row[o].task /\ err = "refused"
           /\ Become(o, "failed") /\ settleQuota(o)
        \/ /\ Publishing(o) = {} /\ ~row[o].task /\ err = "unknown"
           /\ Become(o, "outcome_unknown") /\ retainUnknownQuota(o)

Leaves(o, c) == post' = [post EXCEPT ![<<o, c>>] = "none"]

\* Inputs cannot be bound or read, or the capacity is refused: full (429), given
\* up by the client (499), or timed out (503).
PreparationFails(o, c) ==
  /\ Idle /\ post[<<o, c>>] = "preparing"
  /\ \E err \in {"refused", "unknown"} : Catch(o, err)
  /\ Leaves(o, c)
  /\ UNCHANGED <<result, rowAcked, doomed, stored, submitting, own, lock, flight, section, history>>

\* Mutant: the fence is set again, whoever set it first.
FenceUnguarded(o, c) ==
  /\ Idle /\ post[<<o, c>>] = "preparing"
  /\ row' = [row EXCEPT ![o].fenced = TRUE]
  /\ submitting' = submitting \cup {o}
  /\ post' = [post EXCEPT ![<<o, c>>] = "executing"]
  /\ sent' = [sent EXCEPT ![o] = @ + 1]
  /\ charged' \in {charged, charged \cup {o}}
  /\ UNCHANGED <<quota, result, rowAcked, doomed, stored, own, lock, flight, section, crashes>>

\* The permit is there.  The fence is the last write before the call goes out;
\* whether the Provider accepts it is decided then, long before this is known.
Fence(o, c) ==
  /\ Idle /\ post[<<o, c>>] = "preparing"
  /\ State(o) = "accepted" /\ ~Fenced(o)
  /\ row' = [row EXCEPT ![o].fenced = TRUE]
  /\ submitting' = submitting \cup {o}
  /\ post' = [post EXCEPT ![<<o, c>>] = "executing"]
  /\ sent' = [sent EXCEPT ![o] = @ + 1]
  /\ charged' \in {charged, charged \cup {o}}
  /\ UNCHANGED <<quota, result, rowAcked, doomed, stored, own, lock, flight, section, crashes>>

\* ProviderSubmissionAlreadyFenced: answered with the projection.
AlreadyFenced(o, c) ==
  /\ Idle /\ post[<<o, c>>] = "preparing"
  /\ ~(State(o) = "accepted" /\ ~Fenced(o))
  /\ Leaves(o, c)
  /\ UNCHANGED <<durable, submitting, own, lock, flight, section, history>>

\* The call ends in an error.  A refusal proves that a task was not accepted,
\* but not that a short call was not paid (asr_result_empty).
ExecuteErrors(o) ==
  {"unknown"} \cup (IF o \in charged THEN {"no_amount"} ELSE {})
              \cup (IF o \in charged \ Long THEN {"bad_result"} ELSE {})
              \cup (IF o \in charged \cap Long THEN {} ELSE {"refused"})

ExecuteFails(o, c) ==
  /\ Idle /\ post[<<o, c>>] = "executing"
  /\ \E err \in ExecuteErrors(o) : Catch(o, err)
  /\ submitting' = submitting \ {o}
  /\ Leaves(o, c)
  /\ UNCHANGED <<result, rowAcked, doomed, stored, own, lock, flight, section, history>>

\* onAccepted and the write after execute: between them nothing else can run.
ExecuteSubmitted(o, c) ==
  /\ Idle /\ post[<<o, c>>] = "executing" /\ o \in Long \cap charged
  /\ IF State(o) = "accepted"
       THEN row' = [row EXCEPT ![o].state = "submitted", ![o].task = TRUE] /\ UNCHANGED quota
       ELSE Catch(o, "refused")
  /\ submitting' = submitting \ {o}
  /\ Leaves(o, c)
  /\ UNCHANGED <<result, rowAcked, doomed, stored, own, lock, flight, section, history>>

-----------------------------------------------------------------------------
(* Publication of a result.                                                *)

\* Mutant: the object is not put before the result is published.
PersistStored(r, by) ==
  /\ r \in Unused(r[1])
  /\ result' = [result EXCEPT ![r] = "publishing"]
  /\ own' = [own EXCEPT ![r] = [by |-> by, stage |-> "put"]]

\* persistResult, up to the first await: the row with the bytes of the result,
\* and the intent to clean up, before anything is in the object store.
Persist(r, by) ==
  /\ r \in Unused(r[1])
  /\ result' = [result EXCEPT ![r] = "publishing"]
  /\ own' = [own EXCEPT ![r] = [by |-> by, stage |-> "head"]]

ExecuteSucceeds(o, c) ==
  /\ Idle /\ post[<<o, c>>] = "executing" /\ o \in charged \ Long
  /\ \E r \in RowsOf(o) : Persist(r, "post")
  /\ post' = [post EXCEPT ![<<o, c>>] = "publishing"]
  /\ UNCHANGED <<row, quota, rowAcked, doomed, stored, submitting, lock, flight, section, history>>

\* promotePublishingResult, its last transaction: it is all or nothing.
Promoted(r) ==
  /\ result[r] = "publishing" /\ State(r[1]) \in Promotable
  /\ result' = [result EXCEPT ![r] = "published"]
  /\ Become(r[1], "succeeded")
  /\ settleQuota(r[1])

Conflict(r) == ~(result[r] = "publishing" /\ State(r[1]) \in Promotable)

\* The first publication: the object is put and verified.
OwnPutLands(r) ==
  /\ Idle /\ own[r].stage = "head"
  /\ stored' = stored \cup {r}
  /\ own' = [own EXCEPT ![r].stage = "put"]
  /\ UNCHANGED <<row, quota, result, rowAcked, doomed, post, submitting, lock, flight, section, history>>

Ends(r) == own' = [own EXCEPT ![r] = Nowhere]

\* The POST that publishes is over.
PostLeaves(o) ==
  /\ post' = [k \in DOMAIN post |-> IF k[1] = o /\ post[k] = "publishing" THEN "none" ELSE post[k]]
  /\ submitting' = submitting \ {o}

PostPublishes(r) ==
  /\ Idle /\ own[r] = [by |-> "post", stage |-> "put"]
  /\ Promoted(r)
  /\ Ends(r) /\ PostLeaves(r[1])
  /\ UNCHANGED <<rowAcked, doomed, stored, lock, flight, section, history>>

\* The object store or the transaction fails: the row is there for the recovery.
PostPublishFails(r) ==
  /\ Idle /\ own[r].by = "post"
  /\ Catch(r[1], "unknown")
  /\ Ends(r) /\ PostLeaves(r[1])
  /\ UNCHANGED <<result, rowAcked, doomed, stored, lock, flight, section, history>>

\* recoverPublishingResults, at the start, every minute and before each request:
\* one iteration of its loop.
FlightStarts(f, r) ==
  /\ Idle /\ flight[f] = NoFlight
  /\ result[r] = "publishing" /\ own[r] = Nowhere
  /\ flight' = [flight EXCEPT ![f] = [result |-> r, stage |-> IF r \in stored THEN "put" ELSE "head"]]
  /\ UNCHANGED <<durable, post, submitting, own, lock, section, history>>

FlightPutLands(f) ==
  /\ Idle /\ flight[f].stage = "head"
  /\ stored' = stored \cup {flight[f].result}
  /\ flight' = [flight EXCEPT ![f].stage = "put"]
  /\ UNCHANGED <<row, quota, result, rowAcked, doomed, post, submitting, own, lock, section, history>>

FlightPublishes(f) ==
  /\ Idle /\ flight[f].stage = "put"
  /\ Promoted(flight[f].result)
  /\ flight' = [flight EXCEPT ![f] = NoFlight]
  /\ UNCHANGED <<rowAcked, doomed, stored, post, submitting, own, lock, section, history>>

FlightFails(f) ==
  /\ Idle /\ flight[f] # NoFlight
  /\ flight' = [flight EXCEPT ![f] = NoFlight]
  /\ UNCHANGED <<durable, post, submitting, own, lock, section, history>>

-----------------------------------------------------------------------------
(* GET and cancel, one at a time per operation.                            *)

Unlocks(o) == lock' = [lock EXCEPT ![o] = "free"]

\* The catch clause of refreshOperation, for a 5xx and anything unclassified.
QueryFailed(o) ==
  /\ IF State(o) = "submitted" THEN Become(o, "outcome_unknown") ELSE UNCHANGED row
  /\ retainUnknownQuota(o)

\* refreshOperation: the row is read, then the capacity and the Provider are asked.
PollStarts(o) ==
  /\ Idle /\ Has(o) /\ lock[o] = "free"
  /\ State(o) = "submitted" /\ row[o].task
  /\ lock' = [lock EXCEPT ![o] = "poll"]
  /\ UNCHANGED <<durable, post, submitting, own, flight, section, history>>

\* Every write of a poll that has no result: the task goes on, has ended, has no
\* price, or its query failed.  Any 4xx counts as the end of the task, also the
\* refusal of the capacity (429, 499).
PollEnds(o) ==
  /\ Idle /\ lock[o] = "poll"
  /\ \/ Become(o, "submitted") /\ UNCHANGED quota
     \/ (\E state \in {"cancelled", "failed", "expired"} : Become(o, state)) /\ settleQuota(o)
     \/ Become(o, "outcome_unknown") /\ retainUnknownQuota(o)
     \/ QueryFailed(o)
  /\ Unlocks(o)
  /\ UNCHANGED <<result, rowAcked, doomed, stored, post, submitting, own, flight, section, history>>

PollSucceeds(o) ==
  /\ Idle /\ lock[o] = "poll"
  /\ \E r \in RowsOf(o) : Persist(r, "poll")
  /\ lock' = [lock EXCEPT ![o] = "publishing"]
  /\ UNCHANGED <<row, quota, rowAcked, doomed, stored, post, submitting, flight, section, history>>

PollPublishes(r) ==
  /\ Idle /\ own[r] = [by |-> "poll", stage |-> "put"]
  /\ Promoted(r)
  /\ Ends(r) /\ Unlocks(r[1])
  /\ UNCHANGED <<rowAcked, doomed, stored, post, submitting, flight, section, history>>

\* The object store fails: the catch clause takes it for a failed status query.
PollPublishFails(r) ==
  /\ Idle /\ own[r].by = "poll"
  /\ QueryFailed(r[1])
  /\ Ends(r) /\ Unlocks(r[1])
  /\ UNCHANGED <<result, rowAcked, doomed, stored, post, submitting, flight, section, history>>

\* The transaction finds the operation in another state: a 409, which is a 4xx.
PollPublishConflicts(r) ==
  /\ Idle /\ own[r] = [by |-> "poll", stage |-> "put"] /\ Conflict(r)
  /\ Become(r[1], "failed") /\ settleQuota(r[1])
  /\ Ends(r) /\ Unlocks(r[1])
  /\ UNCHANGED <<result, rowAcked, doomed, stored, post, submitting, flight, section, history>>

\* Mutant: a call that is out counts as not started.
CancelUnstartedAlways(o) ==
  /\ Idle /\ Has(o) /\ lock[o] = "free"
  /\ State(o) = "accepted"
  /\ Become(o, "cancelled") /\ releaseQuota(o)
  /\ UNCHANGED <<result, rowAcked, doomed, stored, waits, section, history>>

CancelUnstarted(o) ==
  /\ Idle /\ Has(o) /\ lock[o] = "free"
  /\ State(o) = "accepted" /\ ~Fenced(o)
  /\ Become(o, "cancelled") /\ releaseQuota(o)
  /\ UNCHANGED <<result, rowAcked, doomed, stored, waits, section, history>>

CancelStarts(o) ==
  /\ Idle /\ Has(o) /\ lock[o] = "free"
  /\ State(o) = "submitted" /\ row[o].task
  /\ lock' = [lock EXCEPT ![o] = "cancel"]
  /\ UNCHANGED <<durable, post, submitting, own, flight, section, history>>

\* The Provider's proof counts with a receipt only; without proof the operation
\* is polled once more, and without an answer the request fails.
CancelEnds(o) ==
  /\ Idle /\ lock[o] = "cancel"
  /\ \/ /\ LoseIf(o, {"submitted", "cancelled"}) /\ Unlocks(o)
     \/ /\ State(o) = "submitted"
        /\ Become(o, "cancelled") /\ settleQuota(o) /\ Unlocks(o)
     \/ /\ lock' = [lock EXCEPT ![o] = "poll"] /\ UNCHANGED <<row, quota>>
     \/ /\ Unlocks(o) /\ UNCHANGED <<row, quota>>
  /\ UNCHANGED <<result, rowAcked, doomed, stored, post, submitting, own, flight, section, history>>

-----------------------------------------------------------------------------
(* Acknowledgement, retention and cleanup.                                 *)

Deliverable(o) == {r \in RowsOf(o) : result[r] = "published" /\ r \notin rowAcked}

Acknowledge(o) ==
  /\ Idle /\ Has(o) /\ lock[o] = "free"
  /\ State(o) = "succeeded" /\ ~row[o].acked /\ Deliverable(o) # {}
  /\ row' = [row EXCEPT ![o].acked = TRUE]
  /\ rowAcked' = rowAcked \cup Deliverable(o)
  /\ section' = RowsOf(o) \cap rowAcked'
  /\ UNCHANGED <<quota, result, doomed, stored, waits, history>>

\* sweepExpiredResources: a result's time is over.
ExpireResult(r) ==
  /\ Idle /\ result[r] = "published" /\ r \notin rowAcked
  /\ result' = [result EXCEPT ![r] = "expired"]
  /\ row' = [row EXCEPT ![r[1]].state = IF @ = "succeeded" /\ ~row[r[1]].acked THEN "expired" ELSE @]
  /\ section' = {r}
  /\ UNCHANGED <<quota, rowAcked, doomed, stored, waits, history>>

\* The cleanup is queued by statements after that transaction.
QueueCleanup ==
  /\ section # {}
  /\ doomed' = doomed \cup section
  /\ section' = {}
  /\ UNCHANGED <<row, quota, result, rowAcked, stored, waits, history>>

DeleteResult(r) ==
  /\ Idle /\ r \in doomed
  /\ doomed' = doomed \ {r}
  /\ stored' = stored \ {r}
  /\ UNCHANGED <<row, quota, result, rowAcked, waits, section, history>>

\* sweepExpiredResources: operations an earlier process accepted and left
\* before the fence, once they are old enough.
SweepOrphan(o) ==
  /\ Idle /\ Has(o) /\ row[o].old
  /\ State(o) = "accepted" /\ ~Fenced(o)
  /\ Become(o, "failed") /\ releaseQuota(o)
  /\ UNCHANGED <<result, rowAcked, doomed, stored, waits, section, history>>

\* The same for a call that was cut off, but not for one with a result at hand;
\* a repeated POST comes to the same conclusion.
MarkInterrupted(o) ==
  /\ Idle /\ Fenced(o) /\ State(o) = "accepted"
  /\ Publishing(o) = {} /\ o \notin submitting
  /\ Become(o, "outcome_unknown") /\ retainUnknownQuota(o)
  /\ UNCHANGED <<result, rowAcked, doomed, stored, waits, section, history>>

\* The process dies and is started again; its first act is the sweep.
Restart ==
  /\ crashes < MaxCrashes
  /\ crashes' = crashes + 1
  /\ row' = [o \in Ops |-> IF Has(o) THEN [row[o] EXCEPT !.old = TRUE] ELSE NoRow]
  /\ post' = [k \in DOMAIN post |-> "none"] /\ submitting' = {}
  /\ own' = [r \in Results |-> Nowhere] /\ lock' = [o \in Ops |-> "free"]
  /\ flight' = [f \in Flights |-> NoFlight] /\ section' = {}
  /\ UNCHANGED <<quota, result, rowAcked, doomed, stored, sent, charged>>

-----------------------------------------------------------------------------
PostStep(o, c) ==
  \/ PreparationFails(o, c) \/ Fence(o, c) \/ AlreadyFenced(o, c)
  \/ ExecuteFails(o, c) \/ ExecuteSubmitted(o, c) \/ ExecuteSucceeds(o, c)

PublishStep(r) ==
  \/ OwnPutLands(r) \/ PostPublishes(r) \/ PostPublishFails(r)
  \/ PollPublishes(r) \/ PollPublishFails(r) \/ PollPublishConflicts(r)

SweepStep(o) == SweepOrphan(o) \/ MarkInterrupted(o)

VideoNext ==
  \/ \E o \in Ops, c \in Callers : Create(o, c) \/ Repeat(o, c) \/ PostStep(o, c)
  \/ \E o \in Ops : \/ PollStarts(o) \/ PollEnds(o) \/ PollSucceeds(o)
                    \/ CancelUnstarted(o) \/ CancelStarts(o) \/ CancelEnds(o)
                    \/ Acknowledge(o) \/ SweepStep(o)
  \/ \E r \in Results : PublishStep(r) \/ ExpireResult(r) \/ DeleteResult(r)
  \/ \E f \in Flights : \/ \E r \in Results : FlightStarts(f, r)
                        \/ FlightPutLands(f) \/ FlightPublishes(f) \/ FlightFails(f)
  \/ QueueCleanup \/ Restart

VideoSpec == VideoInit /\ [][VideoNext]_videoVars

-----------------------------------------------------------------------------
VideoTypeOK ==
  /\ row \in [Ops -> {NoRow} \cup
       [state : {"accepted", "submitted", "succeeded", "failed", "cancelled", "expired", "outcome_unknown"},
        fenced : BOOLEAN, task : BOOLEAN, old : BOOLEAN, acked : BOOLEAN]]
  /\ quota \in [Ops -> {"none", "reserved", "outcome_unknown", "settled", "released"}]
  /\ result \in [Results -> {"none", "publishing", "published", "expired"}]
  /\ {rowAcked, doomed, stored, section} \subseteq SUBSET Results
  /\ post \in [Ops \X Callers -> {"none", "preparing", "executing", "publishing"}]
  /\ submitting \subseteq Ops
  /\ own \in [Results -> [by : {"none", "post", "poll"}, stage : {"none", "head", "put"}]]
  /\ lock \in [Ops -> {"free", "poll", "publishing", "cancel"}]
  /\ flight \in [Flights -> {NoFlight} \cup [result : Results, stage : {"head", "put"}]]
  /\ sent \in [Ops -> Nat] /\ charged \subseteq Ops /\ crashes \in 0 .. MaxCrashes

(***************************************************************************)
(* What the Provider charges stays within the day's limits of the owner    *)
(* and of the account, and a reservation that was given back was never     *)
(* spent: no repeated POST, cancel, sweep or restart releases what was     *)
(* sent (reserve, failBeforeProvider, releaseQuota).                       *)
(***************************************************************************)
Spent(S) == MapThenSumSet(Units, charged \cap S)

SpendWithinLimits ==
  /\ VideoTypeOK
  /\ \A o \in Ops : Spent(OfOwner(OwnerOf(o))) <= OwnerLimit
  /\ Spent(Ops) <= AccountLimit
  /\ \A o \in charged : quota[o] # "released"

(***************************************************************************)
(* An operation is sent to the Provider at most once, over repeated POSTs, *)
(* crashes and recovered results (the fence, submission_started_at).       *)
(***************************************************************************)
SentOnce == \A o \in Ops : sent[o] <= 1

(***************************************************************************)
(* A published result can be fetched until it is acknowledged or expires:  *)
(* its object is in the store, whoever put it (promotePublishingResult,    *)
(* recoverPublishingResults, retryObjectCleanup).                          *)
(***************************************************************************)
PublishedIsStored == \A r \in Results : result[r] = "published" /\ r \notin rowAcked => r \in stored

(***************************************************************************)
(* No accepted operation is forgotten, wherever the process died: a POST   *)
(* has it in hand, or one of the jobs that run every minute will take it - *)
(* the sweep of orphans before the fence, after it the recovery of its     *)
(* result or the search for interrupted calls (sweepExpiredResources,      *)
(* recoverPublishingResults).                                              *)
(***************************************************************************)
AcceptedCaredFor ==
  \A o \in Ops : Has(o) /\ State(o) = "accepted" =>
    \/ \E c \in Callers : post[<<o, c>>] # "none"
    \/ ~Fenced(o) /\ row[o].old
    \/ Fenced(o) /\ (o \in submitting => Publishing(o) # {})

(***************************************************************************)
(* "A publishing result is an already-durable paid outcome" that no other  *)
(* end of its operation may strand: it can still be promoted               *)
(* (sweepExpiredResources' comment, refreshOperation, POST /operations).   *)
(***************************************************************************)
PublishingPromotable ==
  \A r \in Results : result[r] = "publishing" => State(r[1]) \in Promotable
=============================================================================
