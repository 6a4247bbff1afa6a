--------------------------- MODULE MCGateAndServer ---------------------------
(***************************************************************************)
(* Two small parts that share no state, each on its own: a behaviour picks  *)
(* one of them and takes only its steps.                                    *)
(*                                                                         *)
(* gate      three owners, two calls at once each; one of them makes three, *)
(*           so that it waits for itself too, and one makes two, so that an *)
(*           owner can be served twice while another waits                  *)
(* server    three children of the desktop: an old one, its replacement,    *)
(*           and one more; three access tokens                             *)
(***************************************************************************)
EXTENDS GateRoundRobin, TLC

CONSTANTS o1, o2, o3, a1, b1, b2, b3, d1, d2,   \* owners and their calls
          c1, c2, c3                            \* children
CONSTANTS Children, NoChild, MaxToken, Signals

VARIABLES part,
          server, closing, startupError, token, start, restart, call, process, has, issued, asked, quit

MCOwners == {o1, o2, o3}
MCRequests == {a1, b1, b2, b3, d1, d2}
MCOwnerOf == (a1 :> o1) @@ (b1 :> o2) @@ (b2 :> o2) @@ (b3 :> o2) @@ (d1 :> o3) @@ (d2 :> o3)
MCChildren == {c1, c2, c3}

Runtime == INSTANCE ElectronServerRuntime

ASSUME PartsConfig == Runtime!RuntimeConfig

runtimeVars == <<server, closing, startupError, token, start, restart, call, process, has, issued, asked, quit>>
partsVars == <<part, histVars, runtimeVars>>

PartsInit ==
    /\ part \in {"gate", "server"}
    /\ HistInit /\ Runtime!Init
    /\ part = "gate" => issued = 0

PartsNext ==
    /\ UNCHANGED part
    /\ \/ part = "gate" /\ HistNext /\ UNCHANGED runtimeVars
       \/ part = "server" /\ Runtime!Next /\ UNCHANGED histVars

Server(A) == part = "server" /\ A /\ UNCHANGED <<part, histVars>>

\* The fairness of FairHistSpec, and of the runtime's FairSpec.
PartsSpec ==
    /\ PartsInit /\ [][PartsNext]_partsVars
    /\ \A r \in Requests : []<>(gate.status[r] # "granted")
    /\ WF_partsVars(Server(Runtime!Continues))
    /\ WF_partsVars(Server(Runtime!StartGoesOn)) /\ WF_partsVars(Server(Runtime!RestartGoesOn))
    /\ \A f \in Runtime!Callers : WF_partsVars(Server(Runtime!PutEnds(f)))
    /\ \A c \in Children :
          WF_partsVars(Server(Runtime!Calm /\ process[c] = "dying" /\ Runtime!ChildExits(c)))

-----------------------------------------------------------------------------
\* No child process is lost or outlives its time: ElectronServerRuntime, stopAll, stopServer.
NoStrayChild == Runtime!NoStrayChild

\* At rest the server has the last token: ElectronServerRuntime, setInstallationAccessToken.
ServerHasToken == Runtime!ServerHasToken

\* The wait for a stopped child ends: stopSidecar and waitForSidecarExit of sidecarManager.ts.
ExitNoticed == Runtime!ExitNoticed
=============================================================================
