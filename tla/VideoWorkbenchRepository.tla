---------------------- MODULE VideoWorkbenchRepository ----------------------
(***************************************************************************)
(* The local store of one video project and its operations: revisions are  *)
(* immutable payload files, SQLite rows point at them, and an outbox of     *)
(* events tells the renderer what changed                                   *)
(* (videoWorkbenchRepository.ts over media/kernel/storage and operations).  *)
(*                                                                         *)
(* A save takes the project's writer fence and goes through stage, prepare, *)
(* publish and commit, of which only prepare and commit are transactions;   *)
(* the process may die, or a step fail, between any two of them.  Reading   *)
(* events takes no fence.                                                   *)
(***************************************************************************)
EXTENDS Naturals, Sequences, FiniteSets, FiniteSetsExt

CONSTANTS
  Project, Operations,  \* the aggregates that have revisions
  Saves,                \* calls of saveProject and saveOperation
  TargetOf(_),          \* the aggregate a call saves
  PageLimit,            \* events in one page
  MaxCrashes,           \* bound of the model
  NoSave

ASSUME RepositoryAssumption ==
  /\ Project \notin Operations /\ IsFiniteSet(Operations)
  /\ \A s \in Saves : TargetOf(s) \in Operations \cup {Project}
  /\ NoSave \notin Saves
  /\ PageLimit \in Nat \ {0} /\ MaxCrashes \in Nat

VARIABLES
  \* durable
  intents,     \* media_commit_intents by created_at, each with its revision, file and event
  row,         \* the intent an aggregate's row points at, 0 when there is no row
  nextCursor,  \* media_event_cursors.next_cursor
  \* the local server
  mode,        \* "down", "recovering", "serving", or "broken" when recovery threw
  fence,       \* the save that holds the writer fence
  save,        \* per call: where it is, its intent and the project row it was made from
  recovery,    \* intents recover() has still to look at, and those it found to drop or to commit
  \* the renderer
  client,      \* its continuation cursor, the sequences it knows, and its long poll
  \* history
  stranded,    \* intents whose abandonment failed
  skipped,     \* events that were prepared when the renderer's cursor passed them
  crashes

vars == <<intents, row, nextCursor, mode, fence, save, recovery, client, stranded, skipped, crashes>>

Aggregates == Operations \cup {Project}
NoRecovery == [todo |-> {}, dropped |-> {}, ready |-> {}]
Closed     == [at |-> "closed", cursor |-> 0, known |-> [o \in Operations |-> 0]]

Init ==
  /\ intents = <<>> /\ row = [a \in Aggregates |-> 0] /\ nextCursor = 1
  /\ mode = "serving" /\ fence = NoSave
  /\ save = [s \in Saves |-> [at |-> "new", intent |-> 0, read |-> 0]]
  /\ recovery = NoRecovery /\ client = Closed
  /\ stranded = {} /\ skipped = {} /\ crashes = 0

\* status_sequence of the revision an operation's row points at.
sequenceOf(o) == IF row[o] = 0 THEN 0 ELSE intents[row[o]].sequence

-----------------------------------------------------------------------------
(* The steps of the commit protocol on intent i, as they change the intent *)

stage(s, changed) ==
  [ aggregate |-> TargetOf(s),
    basis |-> IF TargetOf(s) = Project THEN save[s].read ELSE row[TargetOf(s)],
    sequence |-> IF TargetOf(s) = Project THEN 0
                 ELSE sequenceOf(TargetOf(s)) + (IF changed THEN 1 ELSE 0),
    emits |-> changed, cursor |-> 0,
    state |-> "staging", revision |-> "none", file |-> "none" ]

\* The transaction of prepare: the revision, its event, and the intent.
prepare(i) ==
  /\ intents' = [intents EXCEPT ![i].state = "prepared", ![i].revision = "prepared",
                                ![i].cursor = IF intents[i].emits THEN nextCursor ELSE 0]
  /\ nextCursor' = IF intents[i].emits THEN nextCursor + 1 ELSE nextCursor

\* The transaction of commitProjectIntent and commitOperationIntent, after the
\* payload could be read back.
commit(i) ==
  /\ intents[i].file = "final"
  /\ row' = [row EXCEPT ![intents[i].aggregate] = i]
  /\ intents' = [intents EXCEPT ![i].revision = "committed",
                                ![i].state = IF @ = "prepared" THEN "committed" ELSE @]

\* Mutant: the intent is left as it was.
abandonKeepsIntent(i) ==
  intents' = [intents EXCEPT ![i].revision = IF @ = "prepared" THEN "abandoned" ELSE @]

\* The transaction of abandonPreparedIntent.
abandon(i) ==
  intents' = [intents EXCEPT ![i].revision = IF @ = "prepared" THEN "abandoned" ELSE @,
                             ![i].state = IF @ = "committed" THEN @ ELSE "abandoned"]

-----------------------------------------------------------------------------
(* saveProject and saveOperation *)

\* Only an authorized project save carries the writer_fence it was made from.
ReadProject(s) ==
  /\ mode = "serving" /\ save[s].at = "new" /\ TargetOf(s) = Project
  /\ save' = [save EXCEPT ![s].at = "read", ![s].read = row[Project]]
  /\ UNCHANGED <<intents, row, nextCursor, mode, fence, recovery, client, stranded, skipped, crashes>>

Ended == [at |-> "ended", intent |-> 0, read |-> 0]

Asked(s) == IF TargetOf(s) = Project THEN save[s].at = "read" ELSE save[s].at = "new"

\* Mutant: the project is saved whatever it was made from.
AdmittedUnchecked(s) == TargetOf(s) = Project \/ row[Project] # 0

\* saveProjectLocked compares writer fences, saveOperationLocked needs a project.
Admitted(s) == IF TargetOf(s) = Project THEN row[Project] = save[s].read ELSE row[Project] # 0

\* Inside the fence: read what is there, derive the next revision, insert its intent.
Begin(s) ==
  /\ mode = "serving" /\ fence = NoSave /\ Asked(s) /\ Admitted(s)
  /\ \E changed \in BOOLEAN :
       /\ TargetOf(s) = Project => ~changed
       /\ TargetOf(s) # Project /\ row[TargetOf(s)] = 0 => changed
       /\ intents' = Append(intents, stage(s, changed))
  /\ fence' = s
  /\ save' = [save EXCEPT ![s].at = "staging", ![s].intent = Len(intents) + 1]
  /\ UNCHANGED <<row, nextCursor, mode, recovery, client, stranded, skipped, crashes>>

Refuse(s) ==
  /\ mode = "serving" /\ fence = NoSave /\ Asked(s) /\ ~Admitted(s)
  /\ save' = [save EXCEPT ![s] = Ended]
  /\ UNCHANGED <<intents, row, nextCursor, mode, fence, recovery, client, stranded, skipped, crashes>>

At(s, where) == mode = "serving" /\ save[s].at = where
Go(s, where) == save' = [save EXCEPT ![s].at = where]
Leave(s) == save' = [save EXCEPT ![s] = Ended] /\ fence' = NoSave

Stage(s) ==
  /\ At(s, "staging") /\ Go(s, "ready")
  /\ intents' = [intents EXCEPT ![save[s].intent].file = "staged", ![save[s].intent].state = "payload_ready"]
  /\ UNCHANGED <<row, nextCursor, mode, fence, recovery, client, stranded, skipped, crashes>>

StageFails(s) ==
  /\ At(s, "staging") /\ Leave(s)
  /\ intents' = [intents EXCEPT ![save[s].intent].state = "abandoned"]
  /\ UNCHANGED <<row, nextCursor, mode, recovery, client, stranded, skipped, crashes>>

Prepare(s) ==
  /\ At(s, "ready") /\ Go(s, "prepared") /\ prepare(save[s].intent)
  /\ UNCHANGED <<row, mode, fence, recovery, client, stranded, skipped, crashes>>

\* prepare stands outside the try: the intent stays payload_ready until a restart.
PrepareFails(s) ==
  /\ At(s, "ready") /\ Leave(s)
  /\ UNCHANGED <<intents, row, nextCursor, mode, recovery, client, stranded, skipped, crashes>>

Publish(s) ==
  /\ At(s, "prepared") /\ Go(s, "published")
  /\ intents' = [intents EXCEPT ![save[s].intent].file = "final"]
  /\ UNCHANGED <<row, nextCursor, mode, fence, recovery, client, stranded, skipped, crashes>>

\* Mutant: the row is committed before its payload is published.
CommitUnpublished(s) ==
  /\ At(s, "prepared") /\ Go(s, "committed")
  /\ row' = [row EXCEPT ![TargetOf(s)] = save[s].intent]
  /\ intents' = [intents EXCEPT ![save[s].intent].revision = "committed", ![save[s].intent].state = "committed"]
  /\ UNCHANGED <<nextCursor, mode, fence, recovery, client, stranded, skipped, crashes>>

Commit(s) ==
  /\ At(s, "published") /\ Go(s, "committed") /\ commit(save[s].intent)
  /\ UNCHANGED <<nextCursor, mode, fence, recovery, client, stranded, skipped, crashes>>

\* publish or commit failed: the catch abandons what was prepared ...
Abandon(s) ==
  /\ At(s, "prepared") \/ At(s, "published")
  /\ Leave(s) /\ abandon(save[s].intent)
  /\ UNCHANGED <<row, nextCursor, mode, recovery, client, stranded, skipped, crashes>>

\* ... unless its own transaction fails too: the prepared intent stays.
AbandonFails(s) ==
  /\ At(s, "prepared") \/ At(s, "published")
  /\ Leave(s) /\ stranded' = stranded \cup {save[s].intent}
  /\ UNCHANGED <<intents, row, nextCursor, mode, recovery, client, skipped, crashes>>

\* notify, and the fence is released.
Finish(s) ==
  /\ At(s, "committed") /\ Leave(s)
  /\ client' = IF intents[save[s].intent].emits /\ client.at = "waiting"
               THEN [client EXCEPT !.at = "woken"] ELSE client
  /\ UNCHANGED <<intents, row, nextCursor, mode, recovery, stranded, skipped, crashes>>

-----------------------------------------------------------------------------
(* The renderer: a snapshot, then long polls from its continuation cursor *)

events(state) == {i \in DOMAIN intents : intents[i].cursor # 0 /\ intents[i].revision = state}

\* EventJournal.list: at most PageLimit committed events above the cursor.
page(after) ==
  LET later == {i \in events("committed") : intents[i].cursor > after}
  IN {i \in later : Cardinality({j \in later : intents[j].cursor < intents[i].cursor}) < PageLimit}

\* Mutant: a truncated page continues behind the newest event.
continuationAtHead(list) == nextCursor

continuation(list) ==
  IF list = {} THEN nextCursor ELSE Max({intents[i].cursor : i \in list}) + 1

\* The renderer resumes from next_cursor - 1 and keeps the newest sequences.
Receive(list, known, where) ==
  LET cursor == Max({client.cursor, continuation(list) - 1})
  IN /\ client' = [ at |-> where, cursor |-> cursor,
                    known |-> [o \in Operations |->
                                 Max({known[o]} \cup {intents[i].sequence : i \in {j \in list : intents[j].aggregate = o}})]]
     /\ skipped' = skipped \cup {i \in events("prepared") : intents[i].cursor \in (client.cursor + 1)..cursor}

\* getWorkspaceSnapshot reads rows and events under the fence.
LoadWorkspace ==
  /\ mode = "serving" /\ fence = NoSave /\ row[Project] # 0 /\ client.at \in {"closed", "idle"}
  /\ Receive(page(client.cursor), [o \in Operations |-> sequenceOf(o)], "idle")
  /\ UNCHANGED <<intents, row, nextCursor, mode, fence, save, recovery, stranded, crashes>>

\* waitForOperationEvents: answer at once, or wait for a notification ...
Poll ==
  /\ mode = "serving" /\ client.at = "idle"
  /\ IF page(client.cursor) # {} THEN Receive(page(client.cursor), client.known, "idle")
     ELSE client' = [client EXCEPT !.at = "waiting"] /\ UNCHANGED skipped
  /\ UNCHANGED <<intents, row, nextCursor, mode, fence, save, recovery, stranded, crashes>>

WaitEnds ==
  /\ client.at = "waiting" /\ client' = [client EXCEPT !.at = "woken"]
  /\ UNCHANGED <<intents, row, nextCursor, mode, fence, save, recovery, stranded, skipped, crashes>>

\* ... or for the time limit, and then answer whatever there is.
PollAgain ==
  /\ mode = "serving" /\ client.at = "woken"
  /\ Receive(page(client.cursor), client.known, "idle")
  /\ UNCHANGED <<intents, row, nextCursor, mode, fence, save, recovery, stranded, crashes>>

-----------------------------------------------------------------------------
(* The process dies and comes back *)

Crash ==
  /\ mode # "down" /\ crashes < MaxCrashes /\ crashes' = crashes + 1
  /\ mode' = "down" /\ fence' = NoSave /\ recovery' = NoRecovery
  /\ save' = [s \in Saves |-> IF save[s].at = "new" THEN save[s] ELSE Ended]
  /\ client' = IF client.at = "closed" THEN client ELSE [client EXCEPT !.at = "idle"]
  /\ UNCHANGED <<intents, row, nextCursor, stranded, skipped>>

Restart ==
  /\ mode = "down" /\ mode' = "recovering"
  /\ recovery' = [NoRecovery EXCEPT !.todo =
                    {i \in DOMAIN intents : intents[i].state \in {"staging", "payload_ready", "prepared"}}]
  /\ UNCHANGED <<intents, row, nextCursor, fence, save, client, stranded, skipped, crashes>>

\* PayloadCommitProtocol.recover, oldest intent first.
Next1 == Min(recovery.todo)

Republish ==
  /\ mode = "recovering" /\ recovery.todo # {} /\ intents[Next1].state = "prepared"
  /\ intents' = [intents EXCEPT ![Next1].file = "final"]
  /\ recovery' = [recovery EXCEPT !.todo = @ \ {Next1}, !.ready = @ \cup {Next1}]
  /\ UNCHANGED <<row, nextCursor, mode, fence, save, client, stranded, skipped, crashes>>

\* What was never prepared is dropped, and so is what cannot be published.
Drop ==
  /\ mode = "recovering" /\ recovery.todo # {}
  /\ intents' = [intents EXCEPT ![Next1].state = "abandoned",
                                ![Next1].file = IF @ = "staged" THEN "none" ELSE @]
  /\ recovery' = [recovery EXCEPT !.todo = @ \ {Next1}, !.dropped = @ \cup {Next1}]
  /\ UNCHANGED <<row, nextCursor, mode, fence, save, client, stranded, skipped, crashes>>

\* recoverPayloadCommits: abandon all that was dropped, then commit the rest in order.
RecoverAbandon ==
  /\ mode = "recovering" /\ recovery.todo = {} /\ recovery.dropped # {}
  /\ abandon(Min(recovery.dropped))
  /\ recovery' = [recovery EXCEPT !.dropped = @ \ {Min(@)}]
  /\ UNCHANGED <<row, nextCursor, mode, fence, save, client, stranded, skipped, crashes>>

RecoverCommit ==
  /\ mode = "recovering" /\ recovery.todo = {} /\ recovery.dropped = {} /\ recovery.ready # {}
  /\ commit(Min(recovery.ready))
  /\ recovery' = [recovery EXCEPT !.ready = @ \ {Min(@)}]
  /\ UNCHANGED <<nextCursor, mode, fence, save, client, stranded, skipped, crashes>>

\* A failure in recovery rejects readyPromise: every call fails until a restart.
RecoveryFails ==
  /\ mode = "recovering" /\ recovery.todo \cup recovery.dropped \cup recovery.ready # {}
  /\ mode' = "broken" /\ recovery' = NoRecovery
  /\ UNCHANGED <<intents, row, nextCursor, fence, save, client, stranded, skipped, crashes>>

Serve ==
  /\ mode = "recovering" /\ recovery = NoRecovery /\ mode' = "serving"
  /\ UNCHANGED <<intents, row, nextCursor, fence, save, recovery, client, stranded, skipped, crashes>>

Next ==
  \/ \E s \in Saves : \/ ReadProject(s) \/ Begin(s) \/ Refuse(s)
                      \/ Stage(s) \/ StageFails(s) \/ Prepare(s) \/ PrepareFails(s)
                      \/ Publish(s) \/ Commit(s) \/ Abandon(s) \/ AbandonFails(s) \/ Finish(s)
  \/ LoadWorkspace \/ Poll \/ WaitEnds \/ PollAgain
  \/ Crash \/ Restart \/ Republish \/ Drop \/ RecoverAbandon \/ RecoverCommit \/ RecoveryFails \/ Serve

Spec == Init /\ [][Next]_vars
-----------------------------------------------------------------------------
Missed == {i \in events("committed") :
             /\ client.at # "closed" /\ intents[i].cursor <= client.cursor
             /\ client.known[intents[i].aggregate] < intents[i].sequence}

\* Rows point at committed revisions whose payload is published, events have
\* cursors of their own, and once everybody has left the fence nothing is half
\* way between prepare and commit, whatever failed or died: the protocol of
\* persistOperation, recover and abandonPreparedIntent.
StoreWhole ==
  /\ \A a \in Aggregates : row[a] # 0 => intents[row[a]].revision = "committed" /\ intents[row[a]].aggregate = a
  /\ \A i \in DOMAIN intents : intents[i].revision = "committed" => intents[i].file = "final" /\ intents[i].state = "committed"
  /\ \A i, j \in DOMAIN intents : intents[i].cursor # 0 /\ i # j => intents[i].cursor \notin {intents[j].cursor, nextCursor}
  /\ mode = "serving" /\ fence = NoSave =>
       \A i \in DOMAIN intents : intents[i].state = "prepared" => i \in stranded

\* A committed revision was made from the one it replaces: no save, and no
\* recovery, overwrites what it has not seen (writer_fence, status_sequence and
\* the order of recoverPayloadCommits), but for an intent that could be neither
\* committed nor abandoned.
RevisionsInTurn ==
  [][\A a \in Aggregates : row'[a] # row[a] =>
        \/ intents[row'[a]].basis = row[a]
        \/ stranded \cap {row[a], row'[a]} # {}]_vars

\* The recovery has committed an intent that could be neither committed nor
\* abandoned over what was saved since: the aggregate has gone back.
SetBack(a) ==
  \E i \in stranded : intents[i].aggregate = a /\ intents[i].revision = "committed"

\* A renderer that resumes from next_cursor - 1 has seen every event up to its
\* cursor, through truncated pages, restarts and recovered events, except those
\* that were prepared while it was given an empty page: EventJournal.list. An
\* operation that was set back is left out: a snapshot has what is stored now.
MissedOnlyInFlight == \A i \in Missed : i \in skipped \/ SetBack(intents[i].aggregate)

\* "Resuming from a cursor misses no event": the release checklist of the video
\* workbench, of the pages that EventJournal.list answers.
NoEventMissed == Missed = {}
=============================================================================
