------------------------ MODULE ElectronServerRuntime ------------------------
(***************************************************************************)
(* How the desktop's Electron main process runs its local server, a child   *)
(* process that it starts, gives the installation's access token, replaces  *)
(* and stops: ts/desktop/electron/services/serverRuntime.ts, class          *)
(* ElectronServerRuntime, with stopSidecar of sidecarManager.ts.            *)
(*                                                                         *)
(* Every method runs up to its next await in one step.  What is pending is  *)
(* one call of startServerOnce (startPromise), one replacement of the child *)
(* (restartPromise), and a call of setInstallationAccessToken per caller:   *)
(* a token rotation, the token a start without one has asked for, and the   *)
(* end of a start that was overtaken by a rotation.                         *)
(***************************************************************************)
EXTENDS Integers, FiniteSets

CONSTANTS
    Children, NoChild,  \* child processes; an identity is used again once free
    MaxToken,           \* access tokens are numbered in the order of issue
    Signals             \* whether a child may also die from a signal

\* What the constants must be; the modules that give them values assume it.
RuntimeConfig ==
    /\ NoChild \notin Children
    /\ MaxToken \in Nat \ {0}
    /\ Signals \in BOOLEAN

VARIABLES
    server,         \* the child whose URL is handed out, or NoChild
    closing, startupError,
    token,          \* installationAccessToken, 0 before the first
    start,          \* startPromise and where startServerOnce is
    restart,        \* restartPromise, and the child it has stopped
    call,           \* calls of setInstallationAccessToken
    process, has,   \* each child, and the token in its environment
    issued, asked,  \* the session manager: its last token; one was asked for
    quit            \* the main process has ended

own == <<server, closing, startupError, token, start, restart, call>>
vars == <<own, process, has, issued, asked, quit>>

Callers == {"rotation", "asked", "start"}

NoStart == [pc |-> "none", child |-> NoChild, token |-> 0, stale |-> FALSE]
Starting == [NoStart EXCEPT !.pc = "env"]
NoRestart == [pc |-> "none", child |-> NoChild]
NoCall == [pc |-> "none", child |-> NoChild, token |-> 0]

\* The session may have got a token before the runtime was created.
Init ==
    /\ server = NoChild /\ closing = FALSE /\ startupError = FALSE
    /\ token = 0
    /\ start = NoStart /\ restart = NoRestart
    /\ call = [f \in Callers |-> NoCall]
    /\ process = [c \in Children |-> "free"] /\ has = [c \in Children |-> 0]
    /\ issued \in {0, 1} /\ asked = FALSE /\ quit = FALSE

-----------------------------------------------------------------------------
(* The child processes.                                                    *)

InUse == {server, start.child, restart.child} \cup {call[f].child : f \in Callers}

\* kill() of one that has died already does nothing.
killed(c) == IF c \in Children /\ process[c] = "alive"
             THEN [process EXCEPT ![c] = "dying"] ELSE process

\* waitForSidecarExit: the exit of a child that was alive when it was killed
\* is reported, and an exit code that is there already is seen; of a child
\* that died from a signal before, neither is.
ExitSeen(c) == process[c] = "exited"

ChildExits(c) ==
    /\ \/ process[c] = "dying" /\ process' = [process EXCEPT ![c] = "exited"]
       \/ /\ process[c] = "alive"
          /\ \E how \in {"exited"} \cup (IF Signals THEN {"signalled"} ELSE {}) :
                process' = [process EXCEPT ![c] = how]
    /\ UNCHANGED <<own, has, issued, asked, quit>>

-----------------------------------------------------------------------------
(* startServer and startServerOnce.                                        *)

\* startServer, or getServerUrl, when there is neither a server nor a start;
\* otherwise they return what is there.
StartServer ==
    /\ server = NoChild /\ start.pc = "none" /\ ~closing /\ ~startupError
    /\ start' = Starting
    /\ UNCHANGED <<server, closing, startupError, token, restart, call,
                   process, has, issued, asked, quit>>

\* The port and the environment are there. The child is started without
\* another look at closing; without a token it asks for one.
Spawn ==
    /\ start.pc = "env"
    /\ \E c \in {d \in Children \ InUse : process[d] # "alive" /\ process[d] # "dying"} :
          LET t == IF token # 0 THEN token ELSE issued
          IN  /\ process' = [process EXCEPT ![c] = "alive"]
              /\ has' = [has EXCEPT ![c] = t]
              /\ start' = [start EXCEPT !.pc = "health", !.child = c, !.token = t]
              /\ asked' = (asked \/ t = 0)
    /\ UNCHANGED <<server, closing, startupError, token, restart, call, issued, quit>>

StartFails ==
    /\ \/ start.pc = "env" /\ startupError' = TRUE          \* no binary
       \/ start.pc = "env" /\ startupError' = startupError  \* no port
       \/ start.pc = "killing" /\ ExitSeen(start.child) /\ startupError' = TRUE
    /\ start' = NoStart
    /\ UNCHANGED <<server, closing, token, restart, call, process, has, issued,
                   asked, quit>>

\* Mutant: the child of a failed start is left alone.
NotReadyLeavesChild ==
    /\ start.pc = "health"
    /\ startupError' = TRUE
    /\ start' = NoStart
    /\ UNCHANGED <<server, closing, token, restart, call, process, has, issued,
                   asked, quit>>

\* Not healthy in time, or healthy too late: stopSidecar(child).
NotReady ==
    /\ start.pc = "health"
    /\ process' = killed(start.child)
    /\ start' = [start EXCEPT !.pc = "killing"]
    /\ UNCHANGED <<server, closing, startupError, token, restart, call, has,
                   issued, asked, quit>>

\* Mutant: a start that was overtaken by stopAll still becomes the server.
ReadyAlthoughClosing ==
    /\ start.pc = "health" /\ process[start.child] = "alive"
    /\ server' = start.child /\ startupError' = FALSE
    /\ start' = NoStart
    /\ UNCHANGED <<closing, token, restart, call, process, has, issued, asked, quit>>

\* Mutant: a token that came during the start is not passed on.
ReadyWithOldToken ==
    /\ start.pc = "health" /\ process[start.child] = "alive"
    /\ ~closing /\ ~start.stale
    /\ server' = start.child /\ startupError' = FALSE
    /\ start' = NoStart
    /\ UNCHANGED <<closing, token, restart, call, process, has, issued, asked, quit>>

\* The child is healthy in time and becomes the server. If a token came
\* meanwhile the start goes on to pass it to the child.
Ready ==
    /\ start.pc = "health" /\ process[start.child] = "alive"
    /\ ~closing /\ ~start.stale
    /\ server' = start.child /\ startupError' = FALSE
    /\ IF token = start.token \/ token = 0
       THEN start' = NoStart /\ UNCHANGED call
       ELSE /\ start' = [start EXCEPT !.pc = "pushing"]
            /\ call' = [call EXCEPT !["start"] =
                            [pc |-> "put", child |-> start.child, token |-> token]]
    /\ UNCHANGED <<closing, token, restart, process, has, issued, asked, quit>>

ReturnDue == start.pc = "pushing" /\ call["start"].pc = "none"
StartReturns ==
    /\ ReturnDue
    /\ start' = NoStart
    /\ UNCHANGED <<server, closing, startupError, token, restart, call, process,
                   has, issued, asked, quit>>

-----------------------------------------------------------------------------
(* setInstallationAccessToken and reconfigureServer.                       *)

setInstallationAccessToken(f, t) ==
    /\ token' = t
    /\ call' = IF server = NoChild THEN call
               ELSE [call EXCEPT ![f] = [pc |-> "put", child |-> server, token |-> t]]
    /\ UNCHANGED <<server, closing, startupError, start, restart, process, has, quit>>

\* Tokens live for minutes: when one is due, no PUT of the one before is still
\* out, and no stop is waiting, unless for an exit it will never see.
Settled == /\ \A f \in Callers : call[f].pc # "put"
           /\ restart.pc = "stopping" => process[restart.child] = "signalled"

\* onTokenChanged of the session manager, which has one operation at a time.
Rotate ==
    /\ ~quit /\ issued < MaxToken
    /\ call["rotation"].pc = "none" /\ Settled
    /\ issued' = issued + 1
    /\ setInstallationAccessToken("rotation", issued')
    /\ UNCHANGED asked

AskedTokenArrives ==
    /\ asked /\ issued > 0 /\ ~quit
    /\ call["rotation"].pc = "none" /\ call["asked"].pc = "none"
    /\ asked' = FALSE
    /\ setInstallationAccessToken("asked", issued)
    /\ UNCHANGED issued

PutAccepted(f) ==
    /\ call[f].pc = "put" /\ process[call[f].child] = "alive"
    /\ has' = [has EXCEPT ![call[f].child] = call[f].token]
    /\ call' = [call EXCEPT ![f] = NoCall]
    /\ UNCHANGED <<server, closing, startupError, token, start, restart, process,
                   issued, asked, quit>>

\* Mutant: the server is forgotten, and goes on running.
stopServerForgets ==
    /\ server' = NoChild
    /\ process' = process
    /\ start' = IF start.pc = "none" THEN start ELSE [start EXCEPT !.stale = TRUE]

\* stopServer up to its await: the server is forgotten, then killed.
stopServer ==
    /\ server' = NoChild
    /\ process' = killed(server)
    /\ start' = IF start.pc = "none" THEN start ELSE [start EXCEPT !.stale = TRUE]

\* The PUT is refused, lost, or not answered in time: reconfigureServer.
PutFails(f) ==
    /\ call[f].pc = "put"
    /\ \/ has' = has
       \/ /\ process[call[f].child] = "alive"
          /\ has' = [has EXCEPT ![call[f].child] = call[f].token]
    /\ IF closing \/ server = NoChild
       THEN /\ call' = [call EXCEPT ![f] = NoCall]
            /\ UNCHANGED <<server, process, start, restart>>
       ELSE /\ call' = [call EXCEPT ![f] = [NoCall EXCEPT !.pc = "restart"]]
            /\ IF restart.pc # "none"
               THEN UNCHANGED <<server, process, start, restart>>
               ELSE stopServer /\ restart' = [pc |-> "stopping", child |-> server]
    /\ UNCHANGED <<closing, startupError, token, issued, asked, quit>>

\* restartPromise settles, and with it the calls that wait for it.
restartOver ==
    /\ restart' = NoRestart
    /\ call' = [f \in Callers |-> IF call[f].pc = "restart" THEN NoCall ELSE call[f]]

\* The old child has exited: startServer, which may find a server, or a start.
RestartContinues ==
    /\ restart.pc = "stopping" /\ ExitSeen(restart.child)
    /\ IF closing \/ server # NoChild
       THEN restartOver /\ UNCHANGED start
       ELSE /\ restart' = [NoRestart EXCEPT !.pc = "starting"]
            /\ start' = IF start.pc = "none" THEN Starting ELSE start
            /\ UNCHANGED call
    /\ UNCHANGED <<server, closing, startupError, token, process, has, issued,
                   asked, quit>>

EndDue == restart.pc = "starting" /\ start.pc = "none"
RestartEnds ==
    /\ EndDue
    /\ restartOver
    /\ UNCHANGED <<server, closing, startupError, token, start, process, has,
                   issued, asked, quit>>

-----------------------------------------------------------------------------
\* stopAll, before an update is installed or the mode changes.
StopAll ==
    /\ ~quit
    /\ closing' = TRUE
    /\ stopServer
    /\ UNCHANGED <<startupError, token, restart, call, has, issued, asked, quit>>

\* before-quit: stopAll(true); then the process ends, and all that is pending.
Quit ==
    /\ ~quit /\ quit' = TRUE
    /\ closing' = TRUE
    /\ server' = NoChild /\ process' = killed(server)
    /\ start' = NoStart /\ restart' = NoRestart /\ asked' = FALSE
    /\ call' = [f \in Callers |-> NoCall]
    /\ UNCHANGED <<startupError, token, has, issued>>

\* The continuations of a settled promise run before any other event is handled.
Continues == StartReturns \/ RestartEnds
Calm == ~ReturnDue /\ ~EndDue

StartGoesOn == Calm /\ (Spawn \/ StartFails \/ NotReady \/ Ready)
PutEnds(f) == Calm /\ (PutAccepted(f) \/ PutFails(f))
RestartGoesOn == Calm /\ RestartContinues

Next ==
    \/ Continues \/ StartGoesOn \/ RestartGoesOn
    \/ \E f \in Callers : PutEnds(f)
    \/ Calm /\ (StartServer \/ Rotate \/ AskedTokenArrives \/ StopAll \/ Quit)
    \/ Calm /\ \E c \in Children : ChildExits(c)

Spec == Init /\ [][Next]_vars

\* What the runtime awaits happens: a probe or a PUT is answered or times
\* out, and a child that was told to end does.
FairSpec ==
    /\ Spec
    /\ WF_vars(Continues) /\ WF_vars(StartGoesOn) /\ WF_vars(RestartGoesOn)
    /\ \A f \in Callers : WF_vars(PutEnds(f))
    /\ \A c \in Children : WF_vars(Calm /\ process[c] = "dying" /\ ChildExits(c))

-----------------------------------------------------------------------------
TypeOK ==
    /\ server \in Children \cup {NoChild}
    /\ closing \in BOOLEAN /\ startupError \in BOOLEAN /\ asked \in BOOLEAN
    /\ token \in 0..issued /\ issued \in 0..MaxToken
    /\ start.pc \in {"none", "env", "health", "pushing", "killing"}
    /\ start.child \in Children <=> start.pc \in {"health", "pushing", "killing"}
    /\ restart.pc \in {"none", "stopping", "starting"}
    /\ restart.child \in Children <=> restart.pc = "stopping"
    /\ \A f \in Callers : call[f].pc \in {"none", "put", "restart"}
    /\ call["start"].pc # "none" => start.pc = "pushing"
    /\ process \in [Children -> {"free", "alive", "dying", "exited", "signalled"}]
    /\ has \in [Children -> 0..MaxToken]

\* "Permanently stop this runtime; token timers must not revive a closing
\* app": whatever start, replacement or token was pending when stopAll was
\* called, no child becomes the server afterwards.
ClosedForGood == closing => server = NoChild

\* Every child that lives, and was not told to end, is the server or is being
\* started: no failed or overtaken start and no replacement loses one.
NoChildForgotten ==
    TypeOK /\
    (~quit => \A c \in Children : process[c] = "alive" =>
                 c = server \/ (start.pc = "health" /\ c = start.child))

\* Between a start, a replacement and stopAll that overtake each other no child
\* is lost and none outlives its time: ElectronServerRuntime.stopAll, stopServer.
NoStrayChild == ClosedForGood /\ NoChildForgotten

\* "Main is the sole writer of the local Server's installation access bearer":
\* once nothing is pending, the server has the token the runtime was last given.
ServerHasToken ==
    (/\ server # NoChild /\ process[server] = "alive" /\ token # 0
     /\ start.pc = "none" /\ restart.pc = "none"
     /\ \A f \in Callers : call[f].pc = "none")
    => has[server] = token

\* "Stop a sidecar and wait for the child to exit": a replacement does not wait
\* for ever, unless the child had died from a signal before it was to be
\* stopped: waitForSidecarExit looks for an exit code only (sidecarManager.ts:363).
ExitNoticed ==
    (restart.pc = "stopping" /\ process[restart.child] # "signalled") ~> (restart.pc # "stopping")

-----------------------------------------------------------------------------
(* What comments of the code say and it does not keep, see the README.     *)

\* "Never overlap children" (reconfigureServer).
NeverOverlap ==
    \A c, d \in Children :
        process[c] \in {"alive", "dying"} /\ process[d] \in {"alive", "dying"} => c = d

\* "Replace the running child after a rotated access bearer": a replacement
\* that has stopped the old child comes to an end.
ChildReplaced == (restart.pc # "none") ~> (restart.pc = "none")

\* "Synchronous on quit ... otherwise the fire-and-forget kill can leave
\* orphaned sidecars": no child outlives the application without having been
\* told to end.
NoOrphan == quit => \A c \in Children : process[c] # "alive"
=============================================================================
