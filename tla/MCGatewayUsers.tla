---------------------------- MODULE MCGatewayUsers ----------------------------
(***************************************************************************)
(* The callers of the Gateway's two capacity schedulers: installations      *)
(* (users) with their principals (tokens), two installations of one         *)
(* principal and two with a principal each.                                *)
(***************************************************************************)
EXTENDS TLC

CONSTANTS u1, u2, u3, u4, t1, t2, t3            \* users and tokens

\* What both schedulers are configured with.
CONSTANTS Requests, UserOf, Users, Tokens, TokenOf, Abandonable,
          maxConcurrentPerUser, maxConcurrentPerToken, maxInflightPerUser

MCUsers == {u1, u2, u3, u4}
MCTokens == {t1, t2, t3}
MCTokenOf == (u1 :> t1) @@ (u2 :> t1) @@ (u3 :> t2) @@ (u4 :> t3)
=============================================================================
