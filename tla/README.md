# BilliardBuddy: verification

TLA+ models of the parts of BilliardBuddy where concurrency, retries, crashes
and money meet, the TLC configurations that check them on small instances, and
proofs (TLAPS) of the central invariants for every value of the constants.
Every definition is translated from the source; `PROJECT.json` names the lines
each one stands for (`map`), the runs, the mutants that show that a property can
fail, the hazards of the code and the theorems. Paths below are relative to
`src/`.

1. [The system](#1-the-system)
2. [Modules and their correspondence to the code](#2-modules-and-their-correspondence-to-the-code)
3. [Runs](#3-runs)
4. [Fairness and other assumptions](#4-fairness-and-other-assumptions)
5. [Proofs](#5-proofs)
6. [Observations](#6-observations-where-code-and-documents-disagree)
7. [What is not modelled](#7-what-is-not-modelled)
8. [Plan](#8-plan)

To check a run: `tlc -config <cfg> <MC module>`; to check a proof:
`tlapm <module>Proofs.tla`.

## 1. The system

BilliardBuddy is a desktop application (Electron, with a local Bun server as a
child process) whose paid model calls go through services that the vendor
operates: the *Gateway* (text, vision, transcription), the *Relay* (images) and
the *Video Media Relay*. The desktop has no account: each installation gets an
anonymous identity and rotating tokens from the Gateway.

    desktop main process ── starts, gives token ──> local server (child process)
        │  InstallationSession                          │ model calls with
        │  bootstrap/refresh/logout                     │ operation ids
        ▼                                               ▼
    Gateway: AuthAuthority   ┌───────────── Gateway routes ─────────────┐
                             │ capacity ─ usage ledger ─ result store   │──> providers
                             └──────────────────────────────────────────┘
    Relay, Video Media Relay: ProviderRateLimiter, ProviderAdmissionGate ──> providers

Sizes: `gateway` 7.3k lines, `relay` 5k, `video-media-relay` 3.4k,
`ts/src/server` 49k, `ts/desktop` 38k, `ts/shared` 7.7k, `native` 5.8k,
`website` 11.8k, `ts/test` 29k.

### Components

| Component | State | Operations | What is hard | What makes it correct |
|---|---|---|---|---|
| Provider admission gate (`ts/shared/kernel/providerAdmission.ts`) | counters per gate and owner, a queue per owner, the list of waiting owners, last granted owner | acquire, release, timeout, abort, close | release, timeout and abort race for one place; a waiter leaves from the middle | counters equal permits; limits; nobody who could start waits; turns among owners; closed stays closed |
| Provider rate limiter (same file) | token bucket, FIFO queue, one wake-up timer, a deadline each | acquire, wake-up, timeout, abort, close | late timers, a token earned while the timer is off | rate kept over every interval; a timer whenever somebody waits; no overtaking |
| Gateway capacity (`gateway/modelCapacity.ts`) | as the gate, with limits per pool, token and user; two lanes with reserved places for Mimo | acquire, release, timeout, abort; displacement of a waiter | several limits gate one grant; a full queue of waiters that cannot start | limits; exact bookkeeping; no idle place beside a runnable waiter; fair displacement |
| Usage ledger (`gateway/usageBudget.ts`) | a row per operation key in SQLite | reserve, settle, release, markOutcomeUnknown | quota read and written by concurrent calls; late outcomes; rows of an older schema | quota of a day is hard; first outcome stands |
| Operation results (`gateway/operationResultStore.ts`) | a row per operation key with a fencing token, lease, payload, acknowledgement | begin, lookup, complete, acknowledge, release, markOutcomeUnknown, prune, reopen | a lease expires while its call runs; a retry meets any state of the row | an unacknowledged result is kept; unknown stays fenced; only the holder writes |
| Text route (`gateway/app.ts`, POST /v1/responses) | the handler of each request, over ledger and results | begin, reserve, wait for capacity, call, stream, store, settle, fail, crash | two stores that commit separately; client, provider and process fail at any point | at most one paid call per operation; no free answer; charge and stored result agree |
| Session authority (`gateway/installationAuth.ts`) | sessions and registrations in SQLite | bootstrap, refresh, logout, verifyAccess | an old and a new copy of a token are used at once | one live session; a refresh token buys once; banned stays banned |
| Installation session (`ts/desktop/electron/services/installationSession.ts`) | held session, queue of operations, two timers, logout intent | accessToken, timer, logout, restart | answers are lost, requests are executed after they were given up | cached token is accepted; a session is always cared for; a logout gets its turn |
| Local server runtime (`.../serverRuntime.ts`, `sidecarManager.ts`) | current child, pending start, pending replacement, token hand-overs | start, set token, reconfigure, stop, quit | every method awaits while others change the same fields | nothing starts after closing; no child is lost; the child has the last token |
| Scheduled tasks (`.../scheduledAgentTasks.ts`) | map of tasks, its file, one timer | create, enable, remove, runDue, persist, restart | overlapping runDue; two saves rename in either order; a restart from an old file | an occurrence runs once; the timer is armed |
| Image relay (`relay/app.ts`) | tasks and quota reservations in SQLite, input and result files, a runner and a timer per task | submit, run, retry, cancel, acknowledge, sweep, recover | the provider's answer, the files and the row are written one after the other; an answer may never come | money is spent within the quota and never twice; a result can be fetched until acknowledged; every task ends; the contract with the desktop |
| Image workbench (`ts/src/server/services/imageWorkbenchRuntime.ts`, `imageWorkbenchRepository.ts`) | a transport record, a formal record and a candidate group per paid generation | create, poll, cancel, refresh, commit, acknowledge, recover | calls that write back what they read before a wait; an answer that never came | posted once; a failure that is called free is free; committed before it is released; paid work arrives |
| Video store and media kernel (`ts/src/server/media/kernel`, `.../videoWorkbenchRepository.ts`, `ts/desktop/src/videoWorkbench/state.ts`) | commit intents, revisions, payload files, rows, events with cursors, a writer fence; the renderer's cursor | save, load, list and wait for events, recover | file and row are committed apart; a step and its clean-up fail; a reader without the fence | rows and files agree; nothing unseen is overwritten; no event is passed over |
| Video Media Relay (`video-media-relay/app.ts`) | operations, quota reservations, result rows and cleanup intents in SQLite, objects in a store, the POSTs, polls and recoveries under way | submit, repeat, poll, cancel, publish, recover, acknowledge, expire, sweep (its uploads and leases are planned) | repeated POSTs meet before the fence; a result is a row, then an object, then an outcome, with recoveries beside the call that made it | spending stays within the limits; sent once; a published result can be fetched; no accepted operation is forgotten |
| Video and media runtimes, voice operations (`ts/src/server/services`) | job rows, local journals of paid operations | submit, poll, cancel, resume | the client side of the Gateway's replay protocol | planned |

How they interact. The desktop's session manager calls the authority over HTTP
and hands each new token to the local server's runtime through the callback
`onTokenChanged`; the runtime passes it to its child by a PUT, or replaces the
child. The child sends paid calls with an operation id and repeats them with the
same id when an answer is lost. The Gateway's routes call the result store and
the ledger (shared SQLite state), wait for a permit of a capacity scheduler
(promise, timer, abort signal), and call the provider. The relays wait for the
rate limiter and the gate in the same way.

The components that are left out, with reasons, are in `PROJECT.json` and in
[section 7](#7-what-is-not-modelled).

## 2. Modules and their correspondence to the code

Conventions: an action stands for what runs without giving up control, which is
a whole method where it does not await, one SQLite transaction where the class
consists of transactions, and the code between two awaits otherwise. Names are
the source's names. A *Mutant* is a wrong form of the definition that follows
it; it is used by the mutants of `PROJECT.json` only. A *history* variable only
observes.

- **WaitingLists**: the array operations of the schedulers (`indexOf`, `splice`,
  the shift/push loops), used by three modules.
- **ProviderAdmissionGate**: class `ProviderAdmissionGate`. The variable `gate`
  is the object's fields and the state of each acquire call. `Acquire...` are
  the five ways through `acquire` (refused, at once, without waiting, at a full
  queue, queued); `Release`, `ReleaseAgain` (idempotent), `RejectAndRemove`
  (timeout or abort) and `Close` end in `drain` where the code does. `drain` is one
  iteration of the code's loop: every call gives back at most one place, and
  `NoRunnableWaiter` says that nobody is left for a second one.
- **GateRoundRobin**: the gate with a history of how often an owner that waits
  and could be served was passed over by each other one.
- **ProviderRateLimiter**: class `ProviderRateLimiter`. Time is in ticks, a token
  costs `PerToken` of them, so the code's fractions are exact. `refilled` is
  `refill`, `drain` the loop with the reset of the wake-up timer. Timers may fire
  late and in any order, as JavaScript's do.
- **UsageBudget**: class `SqliteUsageBudgetService`. Rows by operation key;
  `withinBudget` is `assertWithinBudget`; `today` is the UTC day of `now()`,
  which a reservation reads twice: midnight may lie between (`Ends`).
- **OperationResultStore**: class `SqliteGatewayOperationResultStore`. `begin`,
  `lookup`, `complete`, `acknowledge`, ... are functions on rows. Each action
  applies one and, like the code, first applies what `expires_at` demands.
  `Reopen` is the constructor's recovery.
- **ReplayableOperation**: abstract. An operation runs once; then it is refused,
  stored until acknowledged, or fenced as unknown for good.
- **GatewayTextReasoning**: the route, `createChatHandler` and
  `streamTextReasoningResult`, over instances of the two stores (`Ledger!`,
  `Store!`), whose operators it applies to its own variables. A step is what a
  handler does between two awaits; `CrashBeforeReserve`, `CrashBeforeSettle` and
  `Crash` are the crashes that fall between two commits or between two steps,
  each followed by the recovery of the stores. Providers refuse, break off, or
  answer in full; clients leave at any await.
- **FairCapacityScheduler**, **MimoReservationScheduler**: the two schedulers of
  `modelCapacity.ts`. The Mimo one has lanes, reserved places, and a waiter that
  is displaced when the queue is full.
- **AuthAuthority**: class `AuthAuthority`. A session id stands for the access
  and the refresh token issued together; time is seen through the age of a
  session.
- **InstallationSession**: class `InstallationSessionManager`, extending
  `AuthAuthority`: the request and its answer are separate steps, either may be
  lost, and a request the client has given up may be executed later.
- **ElectronServerRuntime**: class `ElectronServerRuntime` with `stopSidecar`.
  `start`, `restart` and `call` are the pending promises and where each is.
  Continuations of a settled promise run before any other event (`Calm`), as
  microtasks do.
- **ScheduledAgentTasks**: class `ScheduledAgentTaskService`. Each call and each
  run of `runDue` is a flow with its own place; the file is renamed by whichever
  flow gets there.
- **RelayImageTasks**: the image relay, from `createWithReservation` to the sweep.
  A task's runner is a place in `runImageTask`; a stretch without an await that
  makes two durable writes is two actions under one `section`, between which only
  the process may die. `Restorable` and the recovery loop read nothing but rows
  and files. `KeepsContract` is the refinement to the next module.
- **ImageRelayContract**: abstract. What the relay promises for one idempotency
  key: a row that moves only as the desktop expects, `failed` and `cancelled` only
  for work that was not paid, a result only for work that was.
- **ImageRound**: one generation in the desktop's local server, over the contract.
  Every call (create, poll, cancel, recovery) reads a record, waits, and writes
  back what it had read; each such write is an action. `Begun`, `Reconciled`,
  `Decided` and `Returned` say where a call goes on to between two waits, as
  `getOperation` and `refreshGenerationOperation` do. `Refresher` is the shared
  promise of `activeRefreshes`.
- **VideoMediaRelay**: the operations of the video media relay. An action is what a
  handler does between two awaits. `Fence` is the transaction that sets
  `submission_started_at`, the last write before the call goes out; `Catch` is the
  catch clause of POST, for whichever POST of the key threw. `Persist` is
  `persistResult` (row and bytes), `Promoted` the last transaction of
  `promotePublishingResult`; `flight` are the runs of `recoverPublishingResults`.
  A quota row that is written by a statement right after a state is written with
  it; a cleanup that is queued after a transaction is a `section` of its own.
- **VideoWorkbenchRepository**: the local video store. `stage`, `prepare`,
  `commit`, `abandon` are the transactions of `payloadCommitProtocol.ts` and of
  the repository; an intent carries the revision row, the payload file and the
  event that belong to it. `page` and `continuation` are `EventJournal.list`,
  `Receive` the renderer's reducer. The recovery is taken step by step.
- **MCGatewayParts**, **MCGateAndServer**, **MCRelays**, **MCLocalStores**: parts that share
  nothing, in one instance. A behaviour chooses its part at the start (`part`) and
  takes only that part's steps, so that the state spaces add up and do not
  multiply; the other parts stay in their initial states.
- **MC...**: instances for TLC. **...Proofs**, **ListAndSumLemmas**: see
  [section 5](#5-proofs).

## 3. Runs

Bounds are CONSTANTS or guards named in the modules. Deadlock is checked except
where the modelled system comes to rest: clocks that stop (rate limiter,
scheduled tasks), sessions that run out (installation session), an application
that has quit (server runtime), tasks, operations and saves that are all over (the relays,
image round, video store).

| Run | Modules | States | What it shows |
|---|---|---|---|
| `gate_and_server` | GateRoundRobin, ElectronServerRuntime | 99k | the gate: bookkeeping, limits, `NoRunnableWaiter`, `ServedInTurn` (FIFO within an owner, no owner passed over without end, closed for good), and every waiter is settled if permits come back and no more waiters give up. The server runtime: closing, lost children, last token, the wait for an exit |
| `fair_capacity` | FairCapacityScheduler | 206k | limits of pool, token, user and queue at once; no idle place; a user with its own token does not starve, even while others give up |
| `gateway_parts` | ProviderRateLimiter, UsageBudget, OperationResultStore, MimoReservationScheduler | 826k | rate over every interval, wake-up always set, no overtaking and nobody served late out of turn, with two different waits; both quotas, also where midnight comes upon a reservation, and the first outcome; results kept until acknowledged, unknown fenced, fencing token, `lookup` foretells `begin`; lanes, reserved places and displacement |
| `gateway_retries` | GatewayTextReasoning | 185k | four requests with one operation id: one paid call, no free answer, own answers only, charge and result agree; implements ReplayableOperation |
| `gateway_quota` | GatewayTextReasoning | 78k | three operations over midnight, which may come upon a reservation: quota of what was really used; every reservation is resolved |
| `relays` | RelayImageTasks, VideoMediaRelay | 232k | image: two tasks of two providers, every failure and one crash between any two writes: spending within both quotas, no POST again, announced results readable, every task ends; implements ImageRelayContract. Video: a short and a long operation, repeated POSTs, polls and recoveries beside each other, one restart: spending within limits, sent once, published results fetchable, no accepted operation forgotten |
| `video_stranded` | VideoMediaRelay | – | expected violation: a paid result that can never be published, see section 6 |
| `image_round` | ImageRound | 185k | one generation, polled and cancelled beside its creation, answers lost or refused, one restart: posted once, `failed` means free (unless a status read was refused), committed before released, paid work is delivered or left to the user |
| `installation_session` | InstallationSession | 567k | client and authority over a bad network that executes any request late: one live session, a refresh token buys once, the cached token is accepted unless a late bootstrap has overtaken it, a session is cared for (`SessionKept`), a logout gets its turn |
| `server_overlap` | ElectronServerRuntime | – | expected violation: two children at once, see section 6 |
| `local_stores` | VideoWorkbenchRepository, ScheduledAgentTasks | 1.55M | the video store: saves cut off or failing between any two steps, a recovery that may fail, pages of one event. The agenda: overlapping flows, failing saves, a restart |
| `video_events` | VideoWorkbenchRepository | – | expected violation: an event the renderer never gets, see section 6 |

Why the bounds are enough. A scheduler's decision depends on the owners that
wait, on which of them are at a limit, and on who was granted last. Three owners
are the least for a rotation that can go wrong, and an owner can be served twice
in a row, ahead of one that waits, only if it can have a call in and two more
waiting. The gate (three places, two per owner, three seats of which an owner gets two;
owners with one, three and two calls) reaches a refusal at an owner's full
queue, and an owner that is passed over twice by the same other one, which is as
often as it can be with three owners. In this instance the room as a whole is never full
beside a free place; the proof covers that. `fair_capacity` has two places and four users: two
of one token that fill the queue (four) while they leave a place idle, which a
fifth caller then takes; a user whose place always goes back to it if served
users kept their turn; and the user that would starve. The Mimo part has one reserved place and two or one seats in each
lane, so that a lane is full while the other is idle; three principals, so that
one may wait whom nobody may displace. The rate limiter holds two
tokens of two ticks: fractions, a full bucket and two grants at once occur, and
the clock covers an empty bucket filling again; its callers wait not at all, two ticks or
four, as the two kinds of callers of the shared Mimo limiter do. Ledger and result store have
two installations, two or three operations, a conflicting binding, a second day
and (ledger) a row of the old schema: each branch of their methods fires.
`gateway_retries` has two identical requests, one from another installation, one
with another body: the four relations two requests of one id can have; ledger
and store may each be out of order. `gateway_quota` uses three different
operations of one installation whose limit admits two of them. Installation:
three sessions let a refresh, its lost twin and a bootstrap meet; two queued
operations let a logout wait behind a renewal; two requests may be late at once
(`MaxLate`), of any kind. Server runtime: three children
(reused once free) are an old one, its replacement and one more; three tokens
are one at the start and two rotations. Scheduled tasks: one task that is over
after a run and one that repeats; one call and two runs of `runDue` overlap in
every way two saves can; one restart.
The image part of `relays` has two tasks whose outputs exactly use up the owner's quota of
four and, each, an account's quota of two, so that one wrong release is one task
too many; one provider is called once for both outputs, the other once for each;
one admission retry, one crash, and an account that may be another one after it.
Its video part has one operation that ends with its call and one that becomes a
Provider task, and limits for one of them; two POSTs of a key, so that one can fail
before the fence when the other is beyond it; two recoveries, so that one can promote
a result another is uploading; two results of an operation, since a poll after a
failed publication makes a second; one restart.
`image_round` needs two callers for every pair of a stale reading and a write
(the creation or the recovery against a poll or a cancel), and the shared
refresh; the same with both callers polling and cancelling was run once without
its liveness (762k states). `local_stores` has two instances of the video store: one
saves the project twice from what was read and an operation twice, each save in
every order with the others; the other saves an operation three times beside the
project, so that two saves may follow one that was left prepared. Pages hold one
event, so that a page is truncated as soon as two are there. Five saves on two
operations were searched to 17 million states without a violation, not to the end.

Type invariants are conjuncts of the first invariant of a part, beside what they
are needed for: `Bookkeeping`, `PoolExact` and `LanesExact` of the schedulers,
`SpendWithinLimits` of the relays, `PostedOnce` of the image round; that of the gate,
the limiter and the authority are theorems as well.

A run may have one name for several statements about one promise. `ServedInTurn`
is `OwnerFifo`, `ClosedForGood` and `OwnersRotate`; `TablesExact` is the quota of the
ledger and `LookupForetellsBegin` of the store; `OutcomesStand` is
`KeepsFirstOutcome`, `KeepsUnacknowledged`, `KeepsUnknownFenced` and
`CompletesAsHolder`; `TurnsKept` is `ServesInTurn` of the limiter (`ServesInOrder` and
`ServesInTime`) and `DisplacesFairly` of the Mimo scheduler; `LanesExact` is its `Bookkeeping` and
`NoRunnableWaiter`; `PoolExact` the same of the fair scheduler; `AnswersPaidAndOwn`,
`SessionKept` and `NoStrayChild` likewise join two. `SpendWithinLimits`,
`NeverSentAgain` and `WorkKept` of `relays` each join what the image relay and the
video relay promise. Each part has a mutant of its
own, so none of them is there for nothing.

Action properties (`[][...]_vars`) are checked for every step: `ServedInTurn`,
`OutcomesStand`, `TurnsKept`, `SettledAsStored`, `RevisionsInTurn`,
`OccurrenceRunsOnce`. The liveness properties are `WaiterEventuallySettled` (gate,
fair capacity), `OperationResolved`, `TaskEnds`, `PaidWorkIsDelivered`,
`LogoutGetsItsTurn` and `ExitNoticed`. There are two refinements.
`ImplementsReplayableOperation`: the route's variables are mapped to the abstract
`status` of each operation key by the definition `status`; a restart moves several
operations at once. `KeepsContract`: the relay's rows and what the provider
accepted are mapped to the contract; `ImageRound` is built on that contract, so
what it shows holds over the relay as modelled.

## 4. Fairness and other assumptions

- The gate and `fair_capacity`: no permit is held for ever
  (`[]<>(status # "granted")`, which is what weak fairness of each `Release` comes
  to): the relays and the Gateway give a permit back in a `finally`, or when the
  stream ends. Timeouts and aborts may happen and are never forced, so a waiter
  that is settled is not rescued by its timer. The gate's `WaiterEventuallySettled`
  is stated for behaviours in which only finitely many waiters give up, see
  "Turns after a timeout" in section 6.
- `gateway_quota`: weak fairness of each handler's next step: the permit's queue
  timer, the response deadline, the end of the body or the client's abort ends
  every await. None of retries, lease expiry or restart, so that
  `OperationResolved` does not rest on them. In this run both stores answer:
  when the result store cannot be written a row does stay reserved until its
  lease has passed, and `gateway_retries` has those failures.
- `installation_session`: weak fairness of the manager's step and of giving up a
  request: each fetch has `AbortSignal.timeout`. It assumes that
  `onTokenChanged` settles, which section 6 shows is not always so.
- The server runtime: weak fairness of continuations, of probes and PUTs (both have
  timeouts) and of the exit of a child that was killed; no fairness of anything
  the user or the session manager does.
- `ElectronServerRuntime!Settled`: the next rotation comes only after pending
  PUTs have ended and the exit of a stopped child was noticed. Tokens live 15
  minutes (`gateway/installationAuth.ts:77`), a PUT is given up after seconds.
  Without it, a rotation during a replacement that meets an overlapping server
  leaves that server with the old token (`serverRuntime.ts:142`).
- Usage: a provider does not report more than was reserved for a request that
  states its output limit (`UsageBudget!ActualsFor`,
  `GatewayTextReasoning` with `MCCapped`).
- The image part of `relays`: a stretch that began goes on, recovery goes through its list, and
  each runner gets its turn again and again although others crash into it (strong
  fairness over a bounded number of crashes): every wait of a runner has a
  deadline. Nothing is assumed of clients: no submission, cancel,
  acknowledgement or sweep has to happen. Of the video part nothing is assumed; it is
  checked for safety only, and `AcceptedCaredFor` says in its place that every
  operation is in somebody's hands.
- `image_round`: the page's long poll asks after the operation as long as
  `remoteRefreshDelay` schedules it (`Scheduled`): while the transport task is
  queued or running, and not when its outcome is unknown or a commit is under way. A
  user may ask at any time and never has to. Calls run on and a server that died is
  started again (weak). A relay that is asked again and again answers at last, hands its outputs over,
  and the project's fence is not moved by another operation every time (strong).
- The relay's retention is longer than the desktop is away; otherwise a key that is
  forgotten could be posted again.
- A provider that answers with an error status, 5xx included, did not accept the
  call: the relay treats every such answer as a known failure
  (`relay/app.ts`, `runImageTask`).
- One local server process writes the video store. The fence of a dead process is
  taken over after 30 s (`writerFence.ts:14`); in the model it ends with it.
- SQLite transactions are atomic and durable; the clock does not go back.

## 5. Proofs

Proved by TLAPS for all values of the constants that satisfy the named
assumptions. The runs check the same properties on an instance.

**GateAndServerProofs**. Of the gate (assumes `GateConfig`: finitely many requests
and owners, positive limits, what the constructor enforces):

    GateInv == Sound(gate) /\ NobodyRunnable(gate) /\ RoomRespected(gate)

`Sound` joins the type, exact counters, the limits, the exact list of waiting
owners, exact queues, and an empty room after closing. It also holds in the
middle of a call, before `drain`. `NobodyRunnable` does not; it is
established by `drain`. This is why the invariant has these two parts:
the proof shows that `drain` keeps `Sound`, admits one waiter at most, and leaves
`NobodyRunnable` behind. The theorems are `TypeCorrect`,
`CountersCorrect`, `LimitsCorrect` and `WaitingCorrect`, together
`BookkeepingCorrect`, and `NoLostWakeUp`. `WaitingListExact` and
`NoRunnableWaiter` need the counters, and the counters need the queues (a queued
request holds no permit), so neither is inductive alone. `InOrder` is the action
property that an owner's calls are admitted as they came, and nobody after `close`.

Of its turns: how often an owner *v* was admitted while *u* waited and could have
been served is bounded by the owners behind *u* in the list that the next `drain`
would scan (`Order`). While *u* is eligible that scan stops at *u* at the latest, so nobody
behind *u* is served and the owners behind it only become more; an admitted *v* was
before *u* and is behind it afterwards, or not queued at all. It comes before *u*
again only when it is queued after the last granted owner, who then is behind *u* too. `Turns` says
that the count is at most the number behind *u*, or, when *v* is not before *u*, one more than that
number without *v* and the last granted owner.
`TurnsHonoured` proves `ServedInTurn` from it. The attempt to prove
a strict round robin failed with such a behaviour, which TLC then found in the
code's model: see "Turns are not strictly round" in section 6.

Of the server runtime (assumes `RuntimeConfig`, that `NoChild` is no child and some
token can be issued):

    RuntimeSound == RuntimeTypes /\ Serving /\ Accounted
                    /\ Fresh /\ StartedWith /\ StartUpToDate /\ Told

`ServerHasToken` speaks of a runtime at rest and is not inductive. `Told` says of every
moment that a server with an old token has the PUT of the last one on its way, under no
replacement or under one that waits for the start that sends it, or that the
replacement is `Stuck`, one of the two ways of section 6. For a start that is
not yet a server, `StartedWith` and `StartUpToDate` say which token it was given and who will
notice that it is old. `Serving` and `Accounted` say the same of the processes: there is
no server as long as a start may still make one, and every child alive is one of the two.
Theorems `NoChildLost` and `TokenReachesServer`.

**GatewayPartsProofs** (assumes `LimiterConfig`, `PartsConfig` and, of the pool, `SchedulerConfig`). Of the rate
limiter: `RateKept` speaks of
pairs of grants only and says nothing of the tokens that are left. The invariant
adds `History`: from any grant on, the requests let through and the tokens still
held together cost at most a full bucket and what was earned since. `Timer` says
that a wake-up is set, for no later than the next token, whenever somebody waits.
Theorems `TypeCorrect`, `WaitersCorrect`, `RateCorrect`, `WakeUpCorrect`.

`TurnsKept` says of the limiter that it serves in order and in time, whatever waits its
callers ask for. The order needs no more than `WaitersExact`: a drain refuses and serves
from the head of the queue (`MovesInTurn`), and what else happens to the queue, an append
or a waiter that is taken out, leaves the others in order (`PartOf`). In time means that a
waiter whose time is over is refused even if its timer is late. A drain looks for such
waiters at the head only, and the callers do not wait equally long: of the shared Mimo limiter's the
chat and audio routes pass `mimoQueueMaxWait` (`gateway/app.ts:1051`, `app.ts:1271`) and the
vision route the lesser of two waits (`app.ts:1244`), 3 s and 2 s by default
(`capacityPolicy.ts:244`). So a vision call whose time is over may be let through behind a chat
call whose time is not (section 6). `ServesInTime` says that this is the only way: the same
drain lets through a call before it that is in time. `TurnsHeld` proves `TurnsKept`
without a hypothesis on the waits.

Of the usage ledger and the result store, as parts of `gateway_parts`: a settled
ledger row counts for what the provider reported, so the quota
survives a settlement only if the row a fencing token finds is the row of the
reservation it was issued for, and the report is no more than that reservation. The first is in the
invariant (`IsUsageTable`: the rows are numbered, no two alike, by numbers up to
how many there are), the second is the hypothesis `ReportsWithin` of
`TablesCorrect`; the constants of the run satisfy it, and without it section 6
shows the quota passed. `reserve` reads the clock twice, to select and book (`usageBudget.ts:308`) and
to add up (`usageBudget.ts:346`); a reservation that midnight comes upon is compared with no row
at all (`Considered`) and booked on the old day. `QuotaHeld` excepts such rows (`straddling`), and says
that there is one a day at most, of all callers together, that it is within each limit by
itself, and that the day it is booked on is over: transactions follow one another, so
no later one can read the old day. What this needs of a reservation made at midnight
is lemma `ReserveAtMidnight`. A reservation adds one row to two of the sums and leaves all
others alone (`ReserveWithinQuota`), an outcome lowers them (`QuotaStays`). Of an old
database `LedgerConfig` assumes no more than one row, the first numbered, and the quota speaks only of rows that
know their account. For the store the proof describes each method by the rows it may write; `lookup` is
then compared with what `begin` would do to each kind of row. `OutcomesFinal`
proves `OutcomesStand`, an action property: of the ledger from the steps alone, of the store from
its types.

Of the fair scheduler: `PoolInv` joins `PoolSound` (types, counters that are the
numbers of permits out, limits, queues and list that hold exactly those that wait)
and `NobodyCanStart`. `PoolSound` also holds before the drain, `NobodyCanStart`
does not, and the model takes one turn of the loop where the code loops until
nobody can start. The proof shows that this is the same. A request that joins the
queue can only make its own user start. After a release and a turn the pool is as full
as before the release, so a waiter that could still start was limited by the user or
the token that got a place back, and the waiter served by the same token: with that it
has used the place up (`ReleaseRests`). An abandoned waiter
frees no place. The queue limit is on a sum of lengths; `QueuedIsCount` shows that it is the
number of waiting requests. Theorem `PoolCorrect`, of `PoolExact`.

Of the lanes: `LanesInv` joins `LanesSound` (each of the four maps of counters is `Tallied`:
it says how many permits of each lane, token, user, or user with vision are out, and no
more than its limit; the queues, the two lists and the lanes' queue counters hold exactly those that
wait; what a user has in flight is within both of its limits) and `NobodyRuns`. Here one
turn of the loop is not enough: a release frees a lane, a token and a user, each perhaps
for another waiter. Serving somebody only raises counters, so nobody comes to be able to start
(`StartsLess`), a turn serves somebody exactly if somebody could start, and it leaves one
waiter less: after as many turns as there were waiters, nobody who waits could start
(`AfterTurns`, by the first turn at which this would fail; `TurnsExist` shows that the
recursive function of `drain` has a value). An acquire at a full queue drains first; by the invariant
that drain finds nobody. A displaced waiter gives its seat to a request of its own lane, whose token
had none there (`DisplacesIsFair`), and the drain after it throws nobody out
(`Undisplaced`). Theorem `LanesCorrect`, of `LanesExact`.

**SessionProofs** (assumes `SessionBound`, `NoSuchInstallation`, `MeInstalled`).
Of the authority alone: `RefreshBuysOnce` is not inductive, as nothing in it keeps
an exchanged session from being presented again. `Exchanged` adds that such a
session is not in force and was issued before. Theorems `TypeCorrect`,
`SessionsCorrect`, `RefreshCorrect`, of `AuthSpec`.

Of the desktop and the authority behind the network:

    SessionInv == Inv /\ SessionCaredFor /\ Queue /\ OnTheirWay /\ Back /\ Shown

A fresh session stays good because nothing that can still be executed ends it, but for a
bootstrap that was given up: it revokes every session issued before it, and `overtaken` holds the
last one it issued.
`OnTheirWay` says so of the request that is waited for and of all that were
given up: a refresh presents a session that is no longer fresh, and a logout one
that is not shown unless a logout is intended. `Back` says of an answer that the
session it brings is the desktop's own, `Queue` that at most one logout is
queued and is intended, `Shown` that the session held is renewed by a timer. Each
step of the authority `Spares` the sessions it does not end, which is one lemma
per operation, and one lemma (`GatewayKeeps`) takes it to the desktop.
`SessionHeld` proves `SessionKept` for requests of every kind that are executed late. `AuthorityBehind`
is the refinement `Spec => AuthSpec`; so `OneLiveSession` and
`RefreshBuysOnce` hold of the desktop too (`DesktopsSessions`).

**GatewayTextReasoningProofs** (assumes `RouteConfig`: limits in Nat, each body's
input a positive number of bytes, an installation has one principal, and the absent
payload is none of the payloads; no set need be finite). The invariant joins the
types, ties each durable row of the ledger to the row of the result store with
the same operation, and says of every place of the handler which of the two
writes have been made, so that a crash between them leaves a pair recovery knows.
Theorems `CalledOnce`, `PaidAndOwn`, `ChargesAreStored` (an action property) and
`DailyQuotaHeld`; the last has the hypothesis that every body states a limit of its
output, without which section 6 shows it false, and `QuotaHeld` excepts the row that midnight
comes upon, as in the ledger. `RouteImplementsOperation` proves
the refinement of `ReplayableOperation`: initial states, and one lemma per action of the
route.

**RelaysProofs** (assumes `RelayAssumption`: finitely many tasks and keys, an
account at least, positive outputs, a task's Provider called once or once per
output, bounds in Nat; `VideoAssumption`: finitely many operations, weights and
limits in Nat). The image relay's
invariant `ImageInv` has the reservations of each owner within the quotas, the keys
of tasks apart, and for each task what its row, blobs, input and runner may be
together (`TaskInv`). A step changes one task, and the money of one: what it does is a lemma
about that task alone, and the sums follow by `TotalMonotone`. `RelayImplementsContract`
is the refinement of `ImageRelayContract` for each key, step by step.
The video relay's `VideoInv` adds to the money (`SpendsOnce`, `WithinUnits`) who
has an operation in hand (`InHand`), and, for each result, what is stored and who is about to
promote it (`Delivers`, `Promotes`): `NeverSentAgain` and `WorkKept` cannot be proved
from their own conjuncts, as none says what a crashed call had done. Theorems
`SpendingHeld`, `SentOnceOnly`, `NothingForgotten`, `RelayImplementsContract`.

**ImageRoundProofs** (assumes `RoundAssumption`: callers and their roles, a bound on
restarts in Nat, one key). Every call of the local server
reads a record, waits, and writes what it had read; so the invariant speaks of the records
in all their places: on disk, in the hands of each call, and in the shared refresh.
`Fits` says what a record may claim relative to three facts that last once they are
true: the group is committed, the relay knows the key, and the relay has refused or
lost the work for nothing. A record that fitted when it was read fits whenever it is
written. `PostedOnceOnly`, `CommittedFirst`, and `FailuresAreFree`, of `KnownFailureIsFree`: the
exception in it, a status read that was refused (`denied`), is what the code does, see section 6.

**LocalStoresProofs** (assumes `RepositoryAssumption`: the project is no operation,
finitely many operations, a positive page; `StoresConfig`: schedules with positive
times, calls and timers apart). The video store:

    StoreInv == StoreTypeOK /\ Intents /\ Rows /\ Fenced /\ HalfWay
                /\ Recovers /\ CutOff /\ Newest /\ Seen

None of the three properties is inductive. `Fenced`, `HalfWay` and `Recovers` say who may
still hold an intent that is not committed: the save in the fence, the
recovery, or nobody, when it is stranded. `CutOff` says that, stranded intents aside, at most one save was cut
off between prepare and commit, and that what it was made from is still the row
(or the row is a stranded one), which is what lets the recovery commit it. `Newest`
says that a row has the newest sequence of its operation unless the operation was set
back, and `Seen` that the renderer knows every event at or below its cursor, with the
same exception and that of the events skipped in flight. A step that moves one intent
without committing it keeps rows and events (`QuietKeeps`); a commit has its own lemma.
Theorems `StoreKeptWhole`, `EventsReach` and `RevisionsReplaced` (an action property). The
proof attempt showed that `MissedOnlyInFlight`, as it stood, did not hold for three
saves of an operation: see the stranded intent in section 6.

The scheduled tasks: `AgendaInv` adds to the types that the timer is armed at rest
and `Over`: an occurrence that was run lies before the task's next time, or is the
task's next time while the task is not enabled, unless a call that threw EXPIRED
enabled it. Theorems `TimerKeptArmed`, `OccurrencesRunOnce` (an action property).

**ListAndSumLemmas**: rotation, removal and appending keep a list's elements and
their distinctness; the first position exists; a sum over a finite set when an element is
added, leaves or weighs less.

Only model-checked: all liveness properties and everything about ENABLED, which are
outside the prover's reach; every invariant and every action property of the passing runs is
stated by a theorem, some of them under the hypotheses named above. What a recursive definition
computes for every input is not proved by induction over data.

## 6. Observations: where code and documents disagree

Run in the project:

- **Children overlap** (`server_overlap`, `NeverOverlap`). "Replace the running
  child after a rotated access bearer, never overlap children"
  (`serverRuntime.ts:139`). `stopServer` forgets the server before it awaits its
  exit (`serverRuntime.ts:127`), so a `getServerUrl` in between starts another.
- **A paid result is stranded** (`video_stranded`, `PublishingPromotable`). "A concurrent
  GET must not mistake the currently executing request for a crash and change its
  state underneath it" (`video-media-relay/app.ts:485`), and a publishing result is
  "an already-durable paid outcome" that another state would "strand ... forever"
  (`app.ts:964`). The catch clause of POST writes `failed` or `outcome_unknown`
  without a guard (`app.ts:1482`): a second POST of the key that was let in before the
  fence, and whose inputs or capacity are refused after it, ends the operation while
  the first one executes. Its result is stored in a row, and no promotion accepts the
  operation's state any more. The charge is kept.
- **An event is passed over** (`video_events`, `NoEventMissed`). A release criterion
  says that resuming from a cursor misses no event
  (`docs/运维/视频工作台Gate5-6发布证据.md:98`). An event gets its cursor, and
  `next_cursor` moves, when it is prepared (`eventJournal.ts:128`); `list` takes no
  fence and answers an empty page with `next_cursor` (`eventJournal.ts:81`), and the
  renderer resumes from one below. If the event is committed after that, no later
  page has it. The renderer knows of it only after its next full load.
  `MissedOnlyInFlight` shows that this is the only way to miss one.

Seen while modelling. The definition named stays in its module; put it in place
of the properties of the named cfg to see the counterexample.

- **A cost is erased** (read in the source; the model leaves the cost out, as nothing in
  `src/` decides by it). "Always layer transport state onto
  the newest formal record so a refresh cannot erase its ... cost facts"
  (`imageWorkbenchRuntime.ts:4613`). The record is read at 4616, then
  `updateGenerationOperation` waits for the project's lock, so a poll that read
  before the claim writes `not_submitted` over the claim's cost.
- **A poll strands its own result** (`PublishingPromotable`). When the upload of a polled
  result fails, `refreshOperation` takes it for a failed query and marks the operation
  unknown while its result is `publishing`. And when the recovery meanwhile promotes an
  earlier result (its poll was cut off by a restart), the conflict of the second
  promotion (409) is taken for a known failure: an operation with a published result
  ends `failed`.
- **A refused capacity ends a task.** The same catch clause takes every 4xx for the end of
  the Provider's task, also the refusals of the capacity (429, and 499 when the client
  goes): a GET at the wrong moment marks a running, paid task `failed`. A test says
  that an exceptional status query only leads to `outcome_unknown`
  (`ts/test/videoMediaRelay.test.ts:866`); it has no refusal of the capacity.
- **Objects that stay.** A crash between the transaction of an acknowledgement or an expiry
  and the statements that queue the cleanup leaves the object in the store for good:
  the intent written before the upload stays `publish_pending`, and nothing activates
  it (`video-media-relay/app.ts:813`).
- **A replacement that waits for itself** (`ChildReplaced`, `MCServerOverlap.cfg`). A start passes a rotated token on
  (`serverRuntime.ts:210`); the PUT fails; `reconfigureServer` stops the child
  and calls `startServer`, which returns the promise of the start that is
  waiting. Neither ends.
- **An exit that is not seen** (`sidecarManager.ts:363`). A child that died from
  a signal has no `exitCode`, and its event is over. `ExitNoticed` leaves it out.
- **A child that outlives the application** (`NoOrphan`, `MCServerOverlap.cfg`).
  A child that is still being started when the desktop quits is not killed
  (`serverRuntime.ts:127`, the comment at `main.ts:2917`).
- **Quota without an output limit** (`QuotaHeld`, `MCGatewayQuota.cfg` with
  `RequestedOutput <- MCUncapped`). "This reservation keeps a daily installation
  quota hard" (`gateway/app.ts:818`), but a request without a limit reserves no
  output (`app.ts:801`), and the settled usage passes the quota.
- **The quota at midnight** (the `straddling` rows of `QuotaHeld`). The same comment calls the quota
  hard. `reserve` takes the day from the clock (`usageBudget.ts:308`) and `assertWithinBudget` reads
  the clock again (`usageBudget.ts:346`) and skips rows of another day (`usageBudget.ts:350`): a reservation
  that begins before midnight and is added up after it is booked on the old day
  and compared with nothing. One reservation a day can pass so.
- **Served after its time** (`ServesInTime`). The vision route takes the lesser of two waits so
  that its call does not wait longer than its own limit (`gateway/app.ts:1242`). Behind a chat call
  with the longer wait, it is let through late if the limiter's drain runs before the late timer
  (`providerAdmission.ts:125`).
- **A truncated answer is stored** (`StoredAnswersWhole`,
  `MCGatewayTextReasoning.cfg`). `cancel()` awaits the reader's cancellation
  (`app.ts:1455`), which ends the pending read; `pull` takes this for the end of
  the stream and stores and settles what it has. The design document wants such
  a usage kept for reconciliation (`docs/重构/模型资源治理分层.md:96`).
- **A call that never started** (`NeverStartedReleased`,
  `MCGatewayTextReasoning.cfg`). A client that leaves while its request waits for
  capacity leaves the operation fenced as unknown (`app.ts:1330`), where the
  same line of the design document releases it.
- **Users of one token** (`FairCapacityScheduler.drain`,
  `gateway/modelCapacity.ts:671`). The drain moves a user it skips for its token's
  limit to the end like one it served, so of users that share a token one can be
  passed over for ever. Today every installation has a token of its own;
  `WaiterEventuallySettled` is stated for such users.
- **Which waiter is displaced** (`NewestDisplaced`). "Drop the
  newest eligible waiter" (`modelCapacity.ts:378`); the loop takes the newest of
  the first user whose queue holds one of the token, which need not be the
  token's newest.
- **Turns are not strictly round** (`RoundRobin`, `MCGateAndServer.cfg` as an INVARIANT).
  "A bounded, round-robin gate" (`providerAdmission.ts:228`). The scan starts behind the last granted owner
  (`providerAdmission.ts:398`). When that owner was not queued and is queued again, whoever is
  queued after it comes before all that waited earlier; so an owner is served twice while
  another waits that could be served. It is served fewer times than there are owners
  (`OwnersRotate`, proved).
- **Turns after a timeout** (`providerAdmission.ts:398`). The gate rotates its
  list behind the last granted owner only while that owner is listed. `OwnersRotate`
  counts anew when a waiter gives up; counted through, it fails. While others
  keep giving up, a waiting owner can be passed over again and again, until its
  own timer fires: without its premise `WaiterEventuallySettled` fails too.
- **A bootstrap after logout** (`NoneStartedAfterLogout`,
  `MCInstallationSession.cfg`). "No later refresh may start after this point"
  (`installationSession.ts:79`); a refresh that is refused meanwhile still starts
  a bootstrap (`installationSession.ts:138`).
- **A one-time task may run twice.** A Turn is started before the file is written
  (`scheduledAgentTasks.ts:242`), so a crash in between repeats it; and
  `setEnabled` sets `enabled` before it throws EXPIRED
  (`scheduledAgentTasks.ts:155`), so the next arm runs a finished task again. The
  model has both behaviours; `OccurrenceRunsOnce` is stated per start and leaves
  a refused task out.
- **A refused status read** (`denied` in `KnownFailureIsFree`). "A status-read failure says
  nothing about a remote operation which has already been accepted"
  (`imageWorkbenchRuntime.ts:6744`), but `refreshOperation` turns a 401, 403 or 404 into `failed`
  (`imageWorkbenchRuntime.ts:6749`), which counts as not submitted although the relay
  may have been paid. A stale write of another call may leave one of the two records
  queued beside the other's failure.
- **No clock asks after an unknown outcome** (`LeftAlone` in `PaidWorkIsDelivered`). "Event long-polling is
  also this workbench's reconciliation clock" (`imageWorkbenchRuntime.ts:5645`), and
  `refreshActiveRemoteOperation` takes formal records with an unknown outcome; but
  `remoteRefreshDelay` schedules it for transports that are queued or running only
  (`imageWorkbenchRuntime.ts:5689`). A task whose POST was not answered and whose lookup found
  nothing yet, and one whose commit was refused, wait until somebody asks for them or
  the server is started again.
- **A bootstrap that is executed late** (`overtaken` in `CachedProofAccepted`). The client gives a
  request up after its timeout (`installationSession.ts:190`); the Gateway executes a bootstrap
  all the same (`gateway/app.ts:1637`; only while it queues for the bucket does it notice), and
  revokes the session a later bootstrap has brought. The desktop shows that session, and
  every call with it is refused, until its refresh is refused as well.
- **A cancellation that becomes a failure.** After a confirmed cancel the next
  refresh writes `failed` over the formal `cancelled`.
- **A poll between claim and submission.** A poll that reads after
  `claimGenerationSubmission` and before `activeSubmissions` holds the operation
  fences it as interrupted; the lookup by key repairs it. A late lookup answer can
  write over a committed transport record, and a poll after the acknowledgement,
  when the relay has no data any more, then marks a committed operation failed.
- **Two crashes in the image relay's recovery** leave a committed result behind a row
  that says unknown: the first recovery has marked it and not yet restored it, and
  the second looks at running rows only. A crash between `SweepRow` and
  `SweepBlobs` leaves files without a row, and one before `DropInput` leaves the
  input of an ended task until its retention.
- **Two directions of one project in `committing` at a restart.** The second
  `commitCandidateGroup` is refused with IMAGE_WRITER_FENCE_CONFLICT, `Promise.all`
  rejects, and every request that awaits the media recovery
  (`ts/src/server/index.ts:155`) fails until the next start.
- **A prepared intent that could be neither committed nor abandoned** stays in the
  video store. Later saves commit over it, and the next restart commits it over
  them, also over a project that was deleted meanwhile (`deleted=0`).
  `RevisionsInTurn` and `StoreWhole` leave such intents out (`stranded`). If later saves
  of the operation went on from a newer sequence, that recovery sets
  `status_sequence` back: a renderer that loads again shows the older state, and
  an event that is then saved again can have a sequence it knows. `MissedOnlyInFlight`
  leaves out operations that were set back so (`SetBack`).
- **A failed recovery** rejects `readyPromise` for good
  (`videoWorkbenchRepository.ts:227`): every call fails until the process is
  started again. `prepare` stands outside the `try` of `persistOperation`, so a
  failure in it leaves a staged file until then; a crash between `markAbandoned` in
  `recover` and `abandonPreparedIntent` leaves a revision `prepared` and its
  reference counted for good.

## 7. What is not modelled

- Inside the modelled parts: wording of errors, logging, snapshots that only
  read, the format of tokens and payloads, streaming in pieces (a body is whole
  or not), validation of a tasks file, the search for a port. Ledger or store
  failures after the call has begun appear as failures of the step.
- The Gateway's other routes (image advice, media reasoning, visual evidence,
  transcription). They repeat the pattern of the text route; transcription has
  no result store and leaves its row reserved when the process dies.
- Of the image relay: rows of older schemas, the budget of input bytes, the gate
  that limits concurrent deliveries, the end of a quota period, failing SQLite
  writes, and the details of a policy refusal.
- Of the image workbench: everything but one paid generation (campaigns, canvases,
  exports, advice).
- Of the video store: facts, deletion and restore, managed assets, the import of
  legacy JSON. `reset_required` cannot occur without pruning or import. A deletion
  whose asset move failed leaves a pending receipt that a later restart resumes.
- Of the video relay: leases and multipart uploads of inputs, identity introspection,
  consent, the Provider adapter, and the rebinding of an operation that is resumed
  before its fence.
- The video and media runtimes, the voice operations and the native agent host:
  planned, next section.
- Hazards seen and not covered: the ledger or the result store is locked when a
  failure is recorded (`gateway/app.ts:1991`); a crash during a transcription
  (`gateway/app.ts:2064`); a revocation that its own throw rolls back
  (`gateway/installationAuth.ts:130`); a crash while a due Turn is being started
  (`scheduledAgentTasks.ts:242`).
- Adapters that translate provider formats, configuration, the local server's
  HTTP layer, the renderer, native helpers, the website and deployment: data
  conversion, input/output or presentation, with no state protocol of their own.

## 8. Plan

Order: money and durability first, then the desktop, then proofs.

1. Done: admission, ledger, result store, text route with its abstract
   specification, capacity, sessions, server runtime, scheduled tasks; the image
   relay, its contract, and the desktop's round over it; the operations of the video
   relay; the video store. Proofs of
   the gate, the limiter, the authority and the session, the route with its
   refinement and its quota, both relays with the contract, the image round, the
   video store, the scheduled tasks, the server runtime, the usage ledger, the result store and
   both schedulers.
2. Next modules: deletion and restore over the video store;
   `VoiceOperation` (local journal against `ReplayableOperation`), which puts the
   client's side of the replay protocol beside the Gateway's; transcription as a
   variant of the route without a result store; the video relay's uploads and
   leases, and liveness of its operations; the native host's requests.
3. Proofs: those of the modules of item 2 as they come. Of what there is, only liveness is
   left to the runs.
