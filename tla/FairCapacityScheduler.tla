------------------------ MODULE FairCapacityScheduler ------------------------
(***************************************************************************)
(* The Gateway's capacity pool for one model account: gateway/              *)
(* modelCapacity.ts, class FairCapacityScheduler.  Users (installations)    *)
(* share tokens (principals), and three limits gate every grant: the pool,  *)
(* the token and the user.                                                 *)
(*                                                                         *)
(* No method awaits, so every method, with the drain it ends in, is a step. *)
(***************************************************************************)
EXTENDS WaitingLists, FiniteSets, FiniteSetsExt

CONSTANTS
    Requests,           \* slots for concurrent calls of acquire
    Users, UserOf,      \* the owner each request is made for
    Tokens, TokenOf,    \* the token of each user (user = token#client)
    Abandonable,        \* the requests whose timer or abort signal may fire
    maxConcurrent, maxConcurrentPerUser, maxConcurrentPerToken,
    queueMax, maxInflightPerUser

\* What the constants are assumed to be.
SchedulerConfig ==
    /\ IsFiniteSet(Requests) /\ IsFiniteSet(Users)
    /\ UserOf \in [Requests -> Users]
    /\ TokenOf \in [Users -> Tokens]
    /\ Abandonable \subseteq Requests
    /\ {maxConcurrent, maxConcurrentPerUser, maxConcurrentPerToken,
        maxInflightPerUser} \subseteq Nat \ {0}
    /\ queueMax \in Nat

VARIABLE pool   \* the fields of the object, and the state of each request

vars == pool

\* A rejected call leaves its slot "idle", as if it had not been made.
Status == {"idle", "pending", "granted", "released"}

Init == pool = [ active  |-> 0,
                 byUser  |-> [u \in Users |-> 0],
                 byToken |-> [t \in Tokens |-> 0],
                 queue   |-> [u \in Users |-> <<>>],    \* pendingByUser
                 waiting |-> <<>>,                      \* waitingUsers
                 status  |-> [r \in Requests |-> "idle"] ]

-----------------------------------------------------------------------------
(* The private helpers, as functions of the object's fields.               *)

queuedCount(p) == MapThenSumSet(LAMBDA u : Len(p.queue[u]), Users)

inflightForUser(p, u) == p.byUser[u] + Len(p.queue[u])

canStart(p, u) ==
    /\ p.active < maxConcurrent
    /\ p.byUser[u] < maxConcurrentPerUser
    /\ p.byToken[TokenOf[u]] < maxConcurrentPerToken

hasRunnablePending(p) ==
    \E i \in DOMAIN p.waiting : canStart(p, p.waiting[i])

grant(p, r) ==
    LET u == UserOf[r]
    IN  [p EXCEPT !.active = @ + 1, !.byUser[u] = @ + 1,
                  !.byToken[TokenOf[u]] = @ + 1, !.status[r] = "granted"]

reject(p, r) == [p EXCEPT !.status[r] = "idle"]

\* Mutant: the list is scanned from its front, and the user that is granted
\* stays there.
drainFromFront(p) ==
    LET S == {i \in DOMAIN p.waiting : canStart(p, p.waiting[i])}
        u == p.waiting[First(S)]
    IN  IF S = {} THEN p
        ELSE grant([p EXCEPT !.queue[u] = Tail(@),
                             !.waiting = IF Len(p.queue[u]) = 1
                                         THEN Without(@, u) ELSE @],
                   Head(p.queue[u]))

\* Mutant: a drain grants the head of the list or nobody.
drainHeadOnly(p) ==
    LET u == Head(p.waiting)
    IN  IF p.waiting = <<>> \/ ~canStart(p, u) THEN p
        ELSE grant([p EXCEPT !.queue[u] = Tail(@),
                             !.waiting = IF Len(p.queue[u]) = 1 THEN Tail(@)
                                         ELSE Append(Tail(@), u)],
                   Head(p.queue[u]))

\* One turn of the loop in drain, for the first listed user that can start.
\* The users passed over go to the back of the list, and so does the granted
\* one while it has more requests. One turn is all: a call frees one slot or
\* adds one request, and NoRunnableWaiter says that nobody is left to start.
drain(p) ==
    LET S == {i \in DOMAIN p.waiting : canStart(p, p.waiting[i])}
        u == p.waiting[First(S)]
        rest == TakeOut(p.waiting, First(S))
    IN  IF S = {} THEN p
        ELSE grant([p EXCEPT !.queue[u] = Tail(@),
                             !.waiting = IF Len(p.queue[u]) = 1 THEN rest
                                         ELSE Append(rest, u)],
                   Head(p.queue[u]))

enqueue(p, r) ==
    LET u == UserOf[r]
    IN  [p EXCEPT !.waiting = IF p.queue[u] = <<>> THEN Append(@, u) ELSE @,
                  !.queue[u] = Append(@, r), !.status[r] = "pending"]

\* The user leaves the waiting list with its last request.
removePending(p, r) ==
    LET u == UserOf[r]
        others == Without(p.queue[u], r)
    IN  [p EXCEPT !.queue[u] = others,
                  !.waiting = IF others = <<>> THEN Without(@, u) ELSE @]

-----------------------------------------------------------------------------
(* acquire, by the way it ends.  A slot is used again once its promise is   *)
(* settled and its permit given back.                                      *)

CanAcquire(r) == pool.status[r] \in {"idle", "released"}

TooManyInflight(u) == inflightForUser(pool, u) >= maxInflightPerUser
Immediate(u) == pool.waiting = <<>> /\ canStart(pool, u)
QueueFull == queuedCount(pool) >= queueMax

\* The signal had fired, or the user has too much in flight.
AcquireRefused(r) ==
    /\ CanAcquire(r)
    /\ r \in Abandonable \/ TooManyInflight(UserOf[r])
    /\ pool' = reject(pool, r)

AcquireImmediately(r) ==
    /\ CanAcquire(r)
    /\ ~TooManyInflight(UserOf[r])
    /\ Immediate(UserOf[r])
    /\ pool' = grant(pool, r)

\* maxWaitMs is not positive.
AcquireWithoutWaiting(r) ==
    /\ CanAcquire(r)
    /\ ~TooManyInflight(UserOf[r]) /\ ~Immediate(UserOf[r])
    /\ r \in Abandonable
    /\ pool' = reject(pool, r)

\* A full queue of users that cannot start does not keep out one that can.
AcquireAtFullQueue(r) ==
    /\ CanAcquire(r)
    /\ ~TooManyInflight(UserOf[r]) /\ ~Immediate(UserOf[r])
    /\ QueueFull
    /\ LET d == drain(pool)
       IN  pool' = IF ~hasRunnablePending(d) /\ canStart(d, UserOf[r])
                   THEN grant(d, r) ELSE reject(d, r)

AcquireQueued(r) ==
    /\ CanAcquire(r)
    /\ ~TooManyInflight(UserOf[r]) /\ ~Immediate(UserOf[r])
    /\ ~QueueFull
    /\ pool' = drain(enqueue(pool, r))

\* removeAndReject, from the timer or from the abort signal of the request.
RemoveAndReject(r) ==
    /\ r \in Abandonable
    /\ pool.status[r] = "pending"
    /\ pool' = drain(reject(removePending(pool, r), r))

\* Mutant: the token's count is not given back.
ReleaseKeepsToken(r) ==
    /\ pool.status[r] = "granted"
    /\ LET u == UserOf[r]
       IN  pool' = drain([pool EXCEPT !.active = @ - 1, !.byUser[u] = @ - 1,
                                      !.status[r] = "released"])

Release(r) ==
    /\ pool.status[r] = "granted"
    /\ LET u == UserOf[r]
       IN  pool' = drain([pool EXCEPT !.active = @ - 1, !.byUser[u] = @ - 1,
                                      !.byToken[TokenOf[u]] = @ - 1,
                                      !.status[r] = "released"])

ReleaseAgain(r) == pool.status[r] = "released" /\ UNCHANGED pool

Next == \E r \in Requests :
            \/ AcquireRefused(r) \/ AcquireImmediately(r)
            \/ AcquireWithoutWaiting(r) \/ AcquireAtFullQueue(r)
            \/ AcquireQueued(r)
            \/ RemoveAndReject(r) \/ Release(r) \/ ReleaseAgain(r)

Spec == Init /\ [][Next]_vars

\* Every handler gives its permit back when its answer or its stream ends.
\* (As Release leaves "granted", this is what its weak fairness comes to.)
FairSpec == Spec /\ \A r \in Requests : []<>(pool.status[r] # "granted")

-----------------------------------------------------------------------------
TypeOK ==
    /\ pool.active \in Nat
    /\ pool.byUser \in [Users -> Nat] /\ pool.byToken \in [Tokens -> Nat]
    /\ pool.queue \in [Users -> Seq(Requests)]
    /\ pool.waiting \in Seq(Users)
    /\ pool.status \in [Requests -> Status]

Holding(S) == {r \in Requests : pool.status[r] = "granted" /\ UserOf[r] \in S}
UsersOf(t) == {u \in Users : TokenOf[u] = t}
Queued == {r \in Requests : pool.status[r] = "pending"}

\* The three counters say what the outstanding permits say, and neither the
\* pool, nor a token, nor a user, nor the queue exceeds its limit, whichever
\* path admitted a request.
LimitsRespected ==
    /\ pool.active = Cardinality(Holding(Users)) /\ pool.active <= maxConcurrent
    /\ \A u \in Users :
          /\ pool.byUser[u] = Cardinality(Holding({u}))
          /\ pool.byUser[u] <= maxConcurrentPerUser
          /\ inflightForUser(pool, u) <= maxInflightPerUser
    /\ \A t \in Tokens :
          /\ pool.byToken[t] = Cardinality(Holding(UsersOf(t)))
          /\ pool.byToken[t] <= maxConcurrentPerToken
    /\ Cardinality(Queued) <= queueMax

\* Every waiting request is in its user's queue, and the drain visits every
\* user with a queue once: nobody is forgotten by the list, nobody served twice.
WaitingListExact ==
    /\ Distinct(pool.waiting)
    /\ \A u \in Users : /\ Distinct(pool.queue[u])
                         /\ pool.queue[u] # <<>> <=> Listed(pool.waiting, u)
                         /\ {pool.queue[u][i] : i \in DOMAIN pool.queue[u]}
                              = {r \in Queued : UserOf[r] = u}

\* After any interleaving of calls, timers, aborts and releases the object's
\* books are right: exact counters, no limit passed, nobody lost or listed twice.
Bookkeeping == TypeOK /\ LimitsRespected /\ WaitingListExact

\* "... so a temporarily blocked owner cannot leave globally idle capacity
\* stranded": between two calls no waiting request could start.
NoRunnableWaiter == ~hasRunnablePending(pool)

\* "Round-robin admission across users ... each installation its fair share":
\* as long as permits are given back, a user that shares its token with nobody
\* (as the installations of AuthAuthority do) is not kept waiting: each of its
\* waiting requests is settled, with no need of the timer or of a client that
\* leaves. The drain moves a user it skips for a token's limit behind the
\* others, so of users of one token one may starve.
WaiterEventuallySettled ==
    \A r \in Requests :
        UsersOf(TokenOf[UserOf[r]]) = {UserOf[r]} =>
            (pool.status[r] = "pending" ~> pool.status[r] # "pending")
=============================================================================
