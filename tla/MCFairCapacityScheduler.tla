----------------------- MODULE MCFairCapacityScheduler -----------------------
(***************************************************************************)
(* The fair scheduler.  The queue holds as many as the two users of one     *)
(* principal can make wait while they leave the pool a place: the full      *)
(* queue then lets one more through.                                       *)
(***************************************************************************)
EXTENDS MCGatewayUsers

CONSTANTS maxConcurrent, queueMax,
          a1, a2, a3, b1, b2, e1, d1, d2, d3    \* the requests

VARIABLE pool

Pool == INSTANCE FairCapacityScheduler

PoolRequests == {a1, a2, a3, b1, b2, e1, d1, d2, d3}
PoolUserOf == (a1 :> u1) @@ (a2 :> u1) @@ (a3 :> u1) @@ (b1 :> u2) @@ (b2 :> u2)
              @@ (e1 :> u3) @@ (d1 :> u4) @@ (d2 :> u4) @@ (d3 :> u4)

ASSUME PoolConfig == Pool!SchedulerConfig

PoolSpec == Pool!Spec
PoolFairSpec == Pool!FairSpec

\* What acquire, removeAndReject and release leave behind after every call: exact
\* books, and no place that a waiting request could have.
PoolExact == Pool!Bookkeeping /\ Pool!NoRunnableWaiter

\* "Round-robin admission across users": as long as permits are given back, no
\* waiting request of a user with a token of its own depends on its timer
\* (FairCapacityScheduler.drain).
WaiterEventuallySettled == Pool!WaiterEventuallySettled
=============================================================================
