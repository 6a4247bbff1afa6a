------------------------- MODULE InstallationSession -------------------------
(***************************************************************************)
(* The installation session of one desktop process against the gateway's   *)
(* authority: class InstallationSessionManager of                          *)
(* ts/desktop/electron/services/installationSession.ts with AuthAuthority   *)
(* behind a network.                                                       *)
(*                                                                         *)
(* The manager runs its operations one after another (stateTail); an        *)
(* operation is one call of accessToken, by a caller or by a timer, or one  *)
(* logout.  A request may be executed and its answer lost; one the client   *)
(* has given up may still be executed later.  The session is held in memory *)
(* only (EphemeralCredentialStore), so a restart forgets it.               *)
(***************************************************************************)
EXTENDS AuthAuthority, FiniteSets, Sequences

CONSTANTS
    Me,         \* this installation
    MaxCalls,   \* bound: the most operations that queue
    MaxLate     \* bound: the most requests that are late at once

ASSUME MeInstalled == Me \in Installations

VARIABLES
    held,           \* session: the session held, or NoSid
    logoutIntent,
    operations,     \* stateTail: the operation that runs, and those behind it
    phase,          \* what the first operation waits for
    request,        \* the request on its way, or NoRequest
    answer,         \* its answer on the way back, or NoAnswer
    late,           \* requests given up but not lost
    refreshTimer,   \* the session the timer is set for, or NoSid
    recoveryTimer,  \* whether that timer is set
    wanted,         \* history: a token was asked for since the last logout
    overtaken       \* history: the last session issued to a bootstrap nobody
                    \* waited for any more, or NoSid

clientVars == <<held, logoutIntent, operations, phase, request, answer, late,
                refreshTimer, recoveryTimer, wanted, overtaken>>
vars == <<authVars, clientVars>>

NoRequest == [op |-> "none", sid |-> NoSid]
NoAnswer == [status |-> "none", sid |-> NoSid]

Init ==
    /\ AuthInit
    /\ held = NoSid /\ logoutIntent = FALSE
    /\ operations = <<>> /\ phase = "ready"
    /\ request = NoRequest /\ answer = NoAnswer /\ late = {}
    /\ refreshTimer = NoSid /\ recoveryTimer = FALSE
    /\ wanted = FALSE /\ overtaken = NoSid

-----------------------------------------------------------------------------
(* The queue of operations.                                                *)

enqueue(op) == operations' = Append(operations, op)

Runs(op, where) == operations # <<>> /\ Head(operations) = op /\ phase = where

\* The operation is over, whether it succeeded or not, and the next may start.
OperationOver == operations' = Tail(operations) /\ phase' = "ready"

\* accessToken: refused at once while a logout is intended.
accessToken ==
    /\ ~logoutIntent
    /\ Len(operations) < MaxCalls
    /\ enqueue("token")
    /\ wanted' = TRUE
    /\ UNCHANGED <<held, logoutIntent, phase, request, answer, late, overtaken>>

CallAccessToken == accessToken /\ UNCHANGED <<authVars, refreshTimer, recoveryTimer>>

RefreshTimerFires ==
    /\ refreshTimer # NoSid /\ age[refreshTimer] > Fresh
    /\ accessToken
    /\ refreshTimer' = NoSid
    /\ UNCHANGED <<authVars, recoveryTimer>>

RecoveryTimerFires ==
    /\ recoveryTimer
    /\ accessToken
    /\ recoveryTimer' = FALSE
    /\ UNCHANGED <<authVars, refreshTimer>>

\* logout: the intent holds at once, the rest waits its turn; a second call
\* waits for the first.
CallLogout ==
    /\ logoutIntent' = TRUE
    /\ refreshTimer' = NoSid /\ recoveryTimer' = FALSE
    /\ IF \E i \in DOMAIN operations : operations[i] = "logout"
       THEN UNCHANGED operations
       ELSE enqueue("logout")
    /\ UNCHANGED <<authVars, held, phase, request, answer, late, overtaken, wanted>>

send(op, sid) ==
    /\ request' = [op |-> op, sid |-> sid]
    /\ phase' = op
    /\ UNCHANGED operations

-----------------------------------------------------------------------------
(* An accessToken operation.                                               *)

\* It is refused after all, or the session held is good enough.
TokenAtOnce ==
    /\ Runs("token", "ready")
    /\ logoutIntent \/ (held # NoSid /\ age[held] = Fresh)
    /\ OperationOver
    /\ UNCHANGED <<authVars, held, logoutIntent, request, answer, late, overtaken,
                   refreshTimer, recoveryTimer, wanted>>

\* refreshOrBootstrap
TokenRequested ==
    /\ Runs("token", "ready")
    /\ ~logoutIntent
    /\ \/ held # NoSid /\ age[held] > Fresh /\ send("refresh", held)
       \/ held = NoSid /\ send("bootstrap", NoSid)
    /\ UNCHANGED <<authVars, held, logoutIntent, answer, late, overtaken, refreshTimer,
                   recoveryTimer, wanted>>

\* commitSession: a session that arrives after a logout was called is kept for
\* it to end, but no caller gets its token. Otherwise onTokenChanged passes the
\* token on; if that fails, the recovery timer is set as well.
Committed ==
    /\ phase \in {"refresh", "bootstrap"} /\ answer.status = "tokens"
    /\ held' = answer.sid
    /\ recoveryTimer' \in (IF logoutIntent THEN {FALSE} ELSE BOOLEAN)
    /\ refreshTimer' = IF logoutIntent THEN refreshTimer ELSE answer.sid
    /\ OperationOver
    /\ answer' = NoAnswer
    /\ UNCHANGED <<authVars, logoutIntent, request, late, overtaken, wanted>>

\* A refresh that is refused (401, 403) falls back to a bootstrap.
Refused ==
    /\ phase = "refresh" /\ answer.status = "refused"
    /\ held' = NoSid
    /\ send("bootstrap", NoSid)
    /\ answer' = NoAnswer
    /\ UNCHANGED <<authVars, logoutIntent, late, overtaken, refreshTimer, recoveryTimer, wanted>>

\* Mutant: a failed operation does not let the next one start.
TokenFailureSticks ==
    /\ recoveryTimer' = IF logoutIntent THEN recoveryTimer ELSE TRUE
    /\ phase' = "stuck"
    /\ UNCHANGED <<held, logoutIntent, refreshTimer, operations, wanted>>

\* Mutant: nobody is told to try again.
TokenFailsForGood ==
    /\ OperationOver
    /\ UNCHANGED <<held, logoutIntent, refreshTimer, recoveryTimer, wanted>>

TokenFails ==
    /\ recoveryTimer' = IF logoutIntent THEN recoveryTimer ELSE TRUE
    /\ OperationOver
    /\ UNCHANGED <<held, logoutIntent, refreshTimer, wanted>>

-----------------------------------------------------------------------------
(* A logout operation.                                                     *)

LogoutAtOnce ==
    /\ Runs("logout", "ready")
    /\ held = NoSid
    /\ logoutIntent' = FALSE
    /\ OperationOver
    /\ wanted' = FALSE
    /\ UNCHANGED <<authVars, held, request, answer, late, overtaken, refreshTimer, recoveryTimer>>

LogoutRequested ==
    /\ Runs("logout", "ready")
    /\ held # NoSid
    /\ send("logout", held)
    /\ UNCHANGED <<authVars, held, logoutIntent, answer, late, overtaken, refreshTimer,
                   recoveryTimer, wanted>>

LoggedOut ==
    /\ phase = "logout" /\ answer.status = "done"
    /\ held' = NoSid
    /\ refreshTimer' = NoSid /\ recoveryTimer' = FALSE
    /\ logoutIntent' = FALSE
    /\ wanted' = FALSE
    /\ OperationOver
    /\ answer' = NoAnswer
    /\ UNCHANGED <<authVars, request, late, overtaken>>

\* Mutant: a logout that failed is forgotten.
LogoutFailsLightly ==
    /\ logoutIntent' = FALSE
    /\ OperationOver
    /\ UNCHANGED <<held, refreshTimer, recoveryTimer, wanted>>

\* The session and the intent are kept for another try.
LogoutFails ==
    /\ OperationOver
    /\ UNCHANGED <<held, logoutIntent, refreshTimer, recoveryTimer, wanted>>

Fails == IF phase = "logout" THEN LogoutFails ELSE TokenFails

\* The gateway knows no such session any more.
LogoutRefused ==
    /\ phase = "logout" /\ answer.status = "refused"
    /\ LogoutFails
    /\ answer' = NoAnswer
    /\ UNCHANGED <<authVars, request, late, overtaken>>

\* A request that is given up may be lost, or it may be executed all the same:
\* but for a bootstrap that queues for its token bucket, the gateway does not ask
\* whether anybody still waits for the answer.
leftBehind ==
    IF request # NoRequest /\ Cardinality(late) < MaxLate THEN late \cup {request} ELSE late

\* The request or its answer is lost or takes too long, or the gateway answers
\* that it is unavailable, overloaded or does not want the installation.
GivenUp ==
    /\ phase # "ready"
    /\ Fails
    /\ request' = NoRequest /\ answer' = NoAnswer
    /\ late' = leftBehind
    /\ UNCHANGED <<authVars, overtaken>>

-----------------------------------------------------------------------------
(* The gateway.                                                            *)

Gives(status, sid) == answer' = [status |-> status, sid |-> sid]

\* The routes /v1/auth/bootstrap, refresh and logout.
Executes(r, status, sid) ==
    \/ /\ r.op = "bootstrap" /\ bootstrap(Me)
       /\ status = "tokens" /\ sid = issued + 1
    \/ /\ r.op = "refresh" /\ refresh(r.sid)
       /\ status = "tokens" /\ sid = issued + 1
    \/ /\ r.op = "refresh" /\ ~Current(r.sid)
       /\ status = "refused" /\ sid = NoSid /\ UNCHANGED authVars
    \/ /\ r.op = "logout" /\ logout(r.sid)
       /\ status = "done" /\ sid = NoSid
    \/ /\ r.op = "logout" /\ ~logoutAccepted(r.sid)
       /\ status = "refused" /\ sid = NoSid /\ UNCHANGED authVars

GatewayAnswers ==
    /\ request # NoRequest
    /\ request' = NoRequest
    /\ \E status \in {"tokens", "refused", "done"}, sid \in 0..MaxSessions :
          Executes(request, status, sid) /\ Gives(status, sid)
    /\ UNCHANGED <<held, logoutIntent, operations, phase, late, overtaken, refreshTimer,
                   recoveryTimer, wanted>>

\* Several bootstraps may be late, and late holds one of them; of two equal
\* refreshes or logouts the second does nothing.
GatewayAnswersLate(r) ==
    /\ r \in late
    /\ late' = late \ {r} \/ (late' = late /\ r.op = "bootstrap")
    /\ overtaken' = IF r.op = "bootstrap" THEN issued + 1 ELSE overtaken
    /\ \E status \in {"tokens", "refused", "done"}, sid \in 0..MaxSessions :
          Executes(r, status, sid)
    /\ UNCHANGED <<held, logoutIntent, operations, phase, request, answer,
                   refreshTimer, recoveryTimer, wanted>>

Ages(s) == GrowOlder(s) /\ UNCHANGED clientVars

\* Other installations use the same gateway, and prune its table.
OthersBootstrap(i) == bootstrap(i) /\ UNCHANGED clientVars

\* The desktop process ends, however, and starts again.
Restart ==
    /\ held' = NoSid /\ logoutIntent' = FALSE
    /\ operations' = <<>> /\ phase' = "ready"
    /\ request' = NoRequest /\ answer' = NoAnswer
    /\ late' = leftBehind
    /\ refreshTimer' = NoSid /\ recoveryTimer' = FALSE /\ wanted' = FALSE
    /\ UNCHANGED <<authVars, overtaken>>

\* What the manager does by itself; the gateway and the network decide the rest.
Proceeds ==
    \/ TokenAtOnce \/ TokenRequested \/ Committed \/ Refused
    \/ LogoutAtOnce \/ LogoutRequested \/ LoggedOut \/ LogoutRefused

Next ==
    \/ CallAccessToken \/ RefreshTimerFires \/ RecoveryTimerFires \/ CallLogout
    \/ Proceeds \/ GivenUp
    \/ GatewayAnswers \/ \E r \in late : GatewayAnswersLate(r)
    \/ \E s \in Sids : Ages(s)
    \/ \E i \in Installations \ {Me} : OthersBootstrap(i)
    \/ Restart

Spec == Init /\ [][Next]_vars

\* The manager goes on when it can, and gives a request up after
\* requestTimeoutMs if nothing has happened to it.
FairSpec == Spec /\ WF_vars(Proceeds) /\ WF_vars(GivenUp)

-----------------------------------------------------------------------------
Requests == [op : {"refresh", "bootstrap", "logout"}, sid : 0..MaxSessions]

TypeOK ==
    /\ AuthTypeOK
    /\ held \in 0..issued
    /\ logoutIntent \in BOOLEAN /\ refreshTimer \in 0..issued
    /\ recoveryTimer \in BOOLEAN /\ wanted \in BOOLEAN /\ overtaken \in 0..issued
    /\ operations \in Seq({"token", "logout"})
    /\ phase \in {"ready", "refresh", "bootstrap", "logout"}
    /\ request \in Requests \cup {NoRequest} /\ late \subseteq Requests
    /\ answer = NoAnswer \/ answer.status \in {"tokens", "refused", "done"}
    \* one request at a time, of the operation that runs
    /\ request # NoRequest => request.op = phase /\ answer = NoAnswer
    /\ phase # "ready" => operations # <<>>

\* A token that is handed out without asking the gateway, because it is not
\* near its end, is one the gateway accepts: no refresh, logout, timeout or
\* restart in between has ended its session. Only a bootstrap that was given up
\* can, when it is executed after the session was issued: it revokes them all.
CachedProofAccepted ==
    held > overtaken /\ age[held] = Fresh /\ ~logoutIntent => verifies(held)

\* A process that wants a session goes on caring for one: unless it is logging
\* out, something is under way or a timer is set to renew or to recover it.
SessionCaredFor ==
    TypeOK /\
    (wanted /\ ~logoutIntent => operations # <<>> \/ refreshTimer # NoSid \/ recoveryTimer)

\* The session the desktop shows is one the gateway knows, and one that somebody
\* renews: InstallationSession.getAccessToken and its two timers.
SessionKept == CachedProofAccepted /\ SessionCaredFor

\* Every operation comes to an end, however requests and answers get lost, so
\* that a logout gets its turn.
LogoutGetsItsTurn ==
    (\E i \in DOMAIN operations : operations[i] = "logout")
        ~> ~(\E i \in DOMAIN operations : operations[i] = "logout")

\* What the comment on logout says, and a refused refresh does not keep: once it
\* was called, no new session is asked for.
NoneStartedAfterLogout ==
    [][logoutIntent /\ logoutIntent' =>
          ~(request = NoRequest /\ request'.op \in {"refresh", "bootstrap"})]_vars
=============================================================================
