-------------------------- MODULE ReplayableOperation --------------------------
(***************************************************************************)
(* What the Gateway promises about a paid operation, whatever its clients   *)
(* repeat and whenever its process dies: the operation runs at most once;   *)
(* its result is kept until the client has acknowledged it; and when nobody *)
(* can tell what became of it, it stays fenced for ever.                    *)
(***************************************************************************)
CONSTANT Operations

VARIABLE status

Init == status = [k \in Operations |-> "fresh"]

\* How one operation may move.  Nothing but "fresh" leads to "running".
\* An attempt to run an old operation again ends in "unknown" at worst.
Moves ==
    { <<"fresh", "running">>,
      <<"running", "refused">>, <<"running", "stored">>, <<"running", "unknown">>,
      <<"stored", "acknowledged">>, <<"stored", "forgotten">>,
      <<"acknowledged", "forgotten">>,
      <<"fresh", "unknown">>, <<"refused", "unknown">>,
      <<"acknowledged", "unknown">>, <<"forgotten", "unknown">> }

Statuses == {m[1] : m \in Moves} \cup {m[2] : m \in Moves}

\* A restart fences all that runs, and pruning forgets several at once.
Next == /\ status' \in [Operations -> Statuses]
        /\ \A k \in Operations : \/ status'[k] = status[k]
                                 \/ <<status[k], status'[k]>> \in Moves

Spec == Init /\ [][Next]_status
=============================================================================
