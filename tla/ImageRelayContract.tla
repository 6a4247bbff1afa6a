------------------------- MODULE ImageRelayContract -------------------------
(***************************************************************************)
(* What the image relay promises the desktop for one idempotency key: the  *)
(* row it keeps, the paid Provider work behind it, and the result it holds *)
(* until it is acknowledged.  relay/app.ts implements it                   *)
(* (RelayImageTasks); the image workbench relies on it (ImageRound).       *)
(*                                                                         *)
(* `paid' is the truth at the Provider: whether it accepted a call for the *)
(* current row of the key, whatever the row says about it.                 *)
(***************************************************************************)
EXTENDS Naturals

CONSTANT Keys

VARIABLES
  remote,       \* the durable row of a key as its status, or "absent"
  acknowledged, \* keys whose result was acknowledged
  paid          \* per key, whether the Provider accepted a call for that row

contractVars == <<remote, acknowledged, paid>>

ActiveStates   == {"queued", "running"}
TerminalStates == {"succeeded", "failed", "failed_unknown", "cancelled"}

ContractInit ==
  /\ remote = [k \in Keys |-> "absent"]
  /\ acknowledged = {}
  /\ paid = [k \in Keys |-> FALSE]

Become(k, status) == remote' = [remote EXCEPT ![k] = status]

\* A submission is accepted once; a repeated one only reads the row.
AcceptTask(k) ==
  /\ remote[k] = "absent"
  /\ Become(k, "queued")
  /\ UNCHANGED <<acknowledged, paid>>

StartTask(k) ==
  /\ remote[k] = "queued"
  /\ Become(k, "running")
  /\ UNCHANGED <<acknowledged, paid>>

\* Admission failed before anything was sent.
RequeueTask(k) ==
  /\ remote[k] = "running" /\ ~paid[k]
  /\ Become(k, "queued")
  /\ UNCHANGED <<acknowledged, paid>>

\* The only step at which money can be spent.
ProviderAccepts(k) ==
  /\ remote[k] = "running"
  /\ paid' = [paid EXCEPT ![k] = TRUE]
  /\ UNCHANGED <<remote, acknowledged>>

\* A known failure is a promise that nothing was spent.
FailTask(k) ==
  /\ remote[k] \in ActiveStates /\ ~paid[k]
  /\ Become(k, "failed")
  /\ UNCHANGED <<acknowledged, paid>>

CancelTask(k) ==
  /\ remote[k] = "queued" /\ ~paid[k]
  /\ Become(k, "cancelled")
  /\ UNCHANGED <<acknowledged, paid>>

\* An answer never comes, or a restart finds tasks whose runner died.
LoseTrack(S) ==
  /\ S # {} /\ \A k \in S : remote[k] = "running"
  /\ remote' = [k \in Keys |-> IF k \in S THEN "failed_unknown" ELSE remote[k]]
  /\ UNCHANGED <<acknowledged, paid>>

\* A result is offered only for paid work, also after a restart.
SucceedTask(k) ==
  /\ remote[k] \in {"running", "failed_unknown"} /\ paid[k]
  /\ Become(k, "succeeded")
  /\ UNCHANGED <<acknowledged, paid>>

AcknowledgeTask(k) ==
  /\ remote[k] = "succeeded"
  /\ acknowledged' = acknowledged \cup {k}
  /\ UNCHANGED <<remote, paid>>

\* Retention ended, or the input of a submission could not be stored.
ForgetTask(k) ==
  /\ remote[k] \in TerminalStates \/ (remote[k] = "queued" /\ ~paid[k])
  /\ Become(k, "absent")
  /\ acknowledged' = acknowledged \ {k}
  /\ paid' = [paid EXCEPT ![k] = FALSE]

ContractNext ==
  \/ \E k \in Keys :
       \/ AcceptTask(k) \/ StartTask(k) \/ RequeueTask(k) \/ ProviderAccepts(k)
       \/ FailTask(k) \/ CancelTask(k) \/ SucceedTask(k)
       \/ AcknowledgeTask(k) \/ ForgetTask(k)
  \/ \E S \in SUBSET Keys : LoseTrack(S)

ContractSpec == ContractInit /\ [][ContractNext]_contractVars
=============================================================================
