---------------------------- MODULE MCGatewayQuota ----------------------------
(* Three operations of one installation compete for its daily quota, over     *)
(* midnight.                                                                *)
EXTENDS GatewayTextReasoning, TLC
CONSTANTS r1, r2, r3
MCRequests == {r1, r2, r3}
MCInstallationOf == [r \in MCRequests |-> "i1"]
MCPrincipalOf == [r \in MCRequests |-> "p"]
MCOperationOf == (r1 :> "opA") @@ (r2 :> "opB") @@ (r3 :> "opC")
MCBodyOf == [r \in MCRequests |-> "body"]
MCInputBytes == [body |-> 1]
MCCapped == [body |-> 1]
MCUncapped == [body |-> 0]
\* The requests differ in nothing but their names: they are named as they arrive.
NamedInOrder ==
    /\ phase[r1] = "unsent" => phase[r2] = "unsent"
    /\ phase[r2] = "unsent" => phase[r3] = "unsent"
MCNext == NextDay \/ (Next /\ NamedInOrder')
MCSpec == Init /\ [][MCNext]_vars /\ \A r \in Requests : WF_vars(Handle(r))
=============================================================================
