------------------------ MODULE MCGatewayTextReasoning ------------------------
(* One operation id: two requests of one body, the same from another        *)
(* installation, and one with another body.  installationAuth.ts derives    *)
(* the principal from the installation, so each has its own.                *)
EXTENDS GatewayTextReasoning, TLC
CONSTANTS r1, r2, r3, r4
MCRequests == {r1, r2, r3, r4}
MCInstallationOf == (r1 :> "i1") @@ (r2 :> "i1") @@ (r3 :> "i2") @@ (r4 :> "i1")
MCPrincipalOf == [r \in MCRequests |-> IF MCInstallationOf[r] = "i1" THEN "p1" ELSE "p2"]
MCOperationOf == [r \in MCRequests |-> "opA"]
MCBodyOf == (r1 :> "body") @@ (r2 :> "body") @@ (r3 :> "body") @@ (r4 :> "other")
MCInputBytes == [body |-> 1, other |-> 1]
MCRequestedOutput == [body |-> 1, other |-> 1]
=============================================================================
