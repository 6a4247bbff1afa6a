---------------------- MODULE MimoReservationScheduler ----------------------
(***************************************************************************)
(* The Gateway's scheduler for the one model account whose capacity is      *)
(* reserved for two lanes, media and vision: gateway/modelCapacity.ts,      *)
(* class MimoReservationScheduler.  A grant checks the account, the lane,   *)
(* the token (principal), the user (installation) and the user's vision     *)
(* limit at once.  A full lane queue may give the seat of one waiter to a   *)
(* token that has none.                                                    *)
(*                                                                         *)
(* No method awaits, so every method, with the drain it ends in, is a step. *)
(***************************************************************************)
EXTENDS WaitingLists, FiniteSets, FiniteSetsExt

CONSTANTS
    Requests,               \* slots for concurrent calls of acquire
    LaneOf, UserOf,         \* what each request asks for, and for whom
    Users, Tokens, TokenOf, \* the token of each user
    Abandonable,            \* the requests whose timer or abort signal may fire
    laneLimits,             \* mediaConcurrent and visionConcurrent
    laneQueueMax,
    maxConcurrentPerUser, maxConcurrentPerToken, maxInflightPerUser,
    visionMaxConcurrentPerUser, visionMaxInflightPerUser

Lanes == {"media", "vision"}

\* What the constants are assumed to be.
ReservationConfig ==
    /\ IsFiniteSet(Requests)
    /\ LaneOf \in [Requests -> Lanes]
    /\ UserOf \in [Requests -> Users]
    /\ TokenOf \in [Users -> Tokens]
    /\ Abandonable \subseteq Requests
    /\ laneLimits \in [Lanes -> Nat \ {0}]
    /\ laneQueueMax \in [Lanes -> Nat]
    /\ {maxConcurrentPerUser, maxConcurrentPerToken, maxInflightPerUser,
        visionMaxConcurrentPerUser, visionMaxInflightPerUser} \subseteq Nat \ {0}

\* "It must exactly equal the two lane reservations."
maxConcurrent == laneLimits["media"] + laneLimits["vision"]

VARIABLE mimo   \* the fields of the object, and the state of each request

vars == mimo

Status == {"idle", "pending", "granted", "released", "rejected"}

Init == mimo = [ active       |-> 0,
                 byLane       |-> [l \in Lanes |-> 0],
                 byUser       |-> [u \in Users |-> 0],
                 visionByUser |-> [u \in Users |-> 0],
                 byToken      |-> [t \in Tokens |-> 0],
                 queue        |-> [u \in Users |-> <<>>],   \* pendingByUser
                 keys         |-> <<>>,     \* its keys, in insertion order
                 waiting      |-> <<>>,     \* waitingUsers
                 queued       |-> [l \in Lanes |-> 0],      \* queuedByLane
                 arrived      |-> <<>>,     \* pending requests, by queuedAt
                 status       |-> [r \in Requests |-> "idle"] ]

Token(r) == TokenOf[UserOf[r]]
IsVision(r) == LaneOf[r] = "vision"
One(r) == IF IsVision(r) THEN 1 ELSE 0

-----------------------------------------------------------------------------
(* The private helpers, as functions of the object's fields.               *)

inflightForUser(m, u) == m.byUser[u] + Len(m.queue[u])
inflightVisionForUser(m, u) ==
    m.visionByUser[u] + Cardinality({i \in DOMAIN m.queue[u] : IsVision(m.queue[u][i])})

canStart(m, r) ==
    LET u == UserOf[r]
    IN  /\ m.active < maxConcurrent
        /\ m.byLane[LaneOf[r]] < laneLimits[LaneOf[r]]
        /\ m.byUser[u] < maxConcurrentPerUser
        /\ IsVision(r) => m.visionByUser[u] < visionMaxConcurrentPerUser
        /\ m.byToken[Token(r)] < maxConcurrentPerToken

\* Where in a user's queue the first request that can start is.
Startable(m, u) == {i \in DOMAIN m.queue[u] : canStart(m, m.queue[u][i])}
hasRunnablePending(m) == \E i \in DOMAIN m.waiting : Startable(m, m.waiting[i]) # {}

grant(m, r) ==
    [m EXCEPT !.active = @ + 1, !.byLane[LaneOf[r]] = @ + 1,
              !.byUser[UserOf[r]] = @ + 1, !.visionByUser[UserOf[r]] = @ + One(r),
              !.byToken[Token(r)] = @ + 1, !.status[r] = "granted"]

reject(m, r) == [m EXCEPT !.status[r] = "rejected"]

\* A request leaves its user's queue; an empty queue leaves the map.
unqueue(m, r) ==
    LET others == Without(m.queue[UserOf[r]], r)
    IN  [m EXCEPT !.queue[UserOf[r]] = others,
                  !.keys = IF others = <<>> THEN Without(@, UserOf[r]) ELSE @,
                  !.queued[LaneOf[r]] = @ - 1,
                  !.arrived = Without(@, r)]

\* One turn of the loop in drain: the first listed user with a request that
\* can start. The users passed over go to the back of the list, and so does
\* the granted one while it has more requests.
grantNext(m) ==
    LET S == {i \in DOMAIN m.waiting : Startable(m, m.waiting[i]) # {}}
        u == m.waiting[First(S)]
        r == m.queue[u][First(Startable(m, u))]
        rest == TakeOut(m.waiting, First(S))
        n == [unqueue(m, r) EXCEPT !.waiting =
                 IF Len(m.queue[u]) = 1 THEN rest ELSE Append(rest, u)]
    IN  IF S = {} THEN m ELSE grant(n, r)

\* Mutant: a drain grants one request at most.
drainOnce(m) == grantNext(m)

\* A release may free a lane for one waiter and a token for another: the loop
\* goes on, at most once for each that waits.
drain(m) ==
    LET turns == Cardinality({r \in Requests : m.status[r] = "pending"})
        after[n \in 0..turns] == IF n = 0 THEN m ELSE grantNext(after[n - 1])
    IN  after[turns]

enqueue(m, r) ==
    LET u == UserOf[r]
        new == m.queue[u] = <<>>
    IN  [m EXCEPT !.queue[u] = Append(@, r),
                  !.keys = IF new THEN Append(@, u) ELSE @,
                  !.waiting = IF new THEN Append(@, u) ELSE @,
                  !.queued[LaneOf[r]] = @ + 1,
                  !.arrived = Append(@, r),
                  !.status[r] = "pending"]

\* Mutant: the lane's counter is not lowered.
removePendingKeepsCount(m, r) ==
    LET n == unqueue(m, r)
    IN  [n EXCEPT !.waiting = IF n.queue[UserOf[r]] = <<>>
                              THEN Without(@, UserOf[r]) ELSE @,
                  !.queued = m.queued]

removePending(m, r) ==
    LET n == unqueue(m, r)
    IN  [n EXCEPT !.waiting = IF n.queue[UserOf[r]] = <<>>
                              THEN Without(@, UserOf[r]) ELSE @]

-----------------------------------------------------------------------------
(* makeRoomForFreshRunnableToken                                           *)

atActiveCap(m, t) == m.byToken[t] >= maxConcurrentPerToken

\* Where in a user's queue its requests of a lane are.
Seats(m, lane, u) == {i \in DOMAIN m.queue[u] : LaneOf[m.queue[u][i]] = lane}

queuedByToken(m, lane, t) ==
    Cardinality(UNION { {m.queue[u][i] : i \in Seats(m, lane, u)} :
                        u \in {v \in Users : TokenOf[v] = t} })

\* Mutant: any waiter gives up its seat.
scoreAnybody(m, lane, t) == 1

score(m, lane, t) ==
    LET count == queuedByToken(m, lane, t)
    IN  IF count > 1 THEN 2 + count ELSE IF atActiveCap(m, t) THEN 1 ELSE 0

\* The users, by their place in pendingByUser, with a waiter of the lane whose
\* token scores highest, if any scores.
Donors(m, lane) ==
    LET K == {k \in DOMAIN m.keys : Seats(m, lane, m.keys[k]) # {}}
        of == [k \in K |-> score(m, lane, TokenOf[m.keys[k]])]
    IN  {k \in K : of[k] > 0 /\ \A j \in K : of[j] <= of[k]}

\* The first token met with the highest score, the first user met with a
\* waiter of that token in the lane, and the last of those in its queue.
displaced(m, lane) ==
    LET u == m.keys[First(Donors(m, lane))] IN m.queue[u][Max(Seats(m, lane, u))]

MayDisplace(m, r) ==
    /\ ~atActiveCap(m, Token(r))
    /\ queuedByToken(m, LaneOf[r], Token(r)) = 0
    /\ Donors(m, LaneOf[r]) # {}

makeRoom(m, r) ==
    LET d == displaced(m, LaneOf[r]) IN reject(removePending(m, d), d)

-----------------------------------------------------------------------------
(* acquire, by the way it ends.  A slot is used again once its promise is   *)
(* settled and its permit given back.                                      *)

CanAcquire(r) == mimo.status[r] \in {"idle", "released", "rejected"}

TooManyInflight(r) ==
    \/ inflightForUser(mimo, UserOf[r]) >= maxInflightPerUser
    \/ IsVision(r) /\ inflightVisionForUser(mimo, UserOf[r]) >= visionMaxInflightPerUser

Immediate(r) == mimo.waiting = <<>> /\ canStart(mimo, r)
QueueFull(m, r) == m.queued[LaneOf[r]] >= laneQueueMax[LaneOf[r]]

\* The signal had fired, or the user has too much in flight.
AcquireRefused(r) ==
    /\ CanAcquire(r)
    /\ r \in Abandonable \/ TooManyInflight(r)
    /\ mimo' = reject(mimo, r)

AcquireImmediately(r) ==
    /\ CanAcquire(r) /\ ~TooManyInflight(r)
    /\ Immediate(r)
    /\ mimo' = grant(mimo, r)

\* maxWaitMs is not positive.
AcquireWithoutWaiting(r) ==
    /\ CanAcquire(r) /\ ~TooManyInflight(r) /\ ~Immediate(r)
    /\ r \in Abandonable
    /\ mimo' = reject(mimo, r)

AcquireAtFullQueue(r) ==
    /\ CanAcquire(r) /\ ~TooManyInflight(r) /\ ~Immediate(r)
    /\ QueueFull(mimo, r)
    /\ LET d == drain(mimo)
       IN  mimo' = IF ~hasRunnablePending(d) /\ canStart(d, r) THEN grant(d, r)
                   ELSE IF ~QueueFull(d, r) THEN drain(enqueue(d, r))
                   ELSE IF MayDisplace(d, r) THEN drain(enqueue(makeRoom(d, r), r))
                   ELSE reject(d, r)

AcquireQueued(r) ==
    /\ CanAcquire(r) /\ ~TooManyInflight(r) /\ ~Immediate(r)
    /\ ~QueueFull(mimo, r)
    /\ mimo' = drain(enqueue(mimo, r))

\* removeAndReject, from the timer or from the abort signal of the request.
RemoveAndReject(r) ==
    /\ r \in Abandonable
    /\ mimo.status[r] = "pending"
    /\ mimo' = drain(reject(removePending(mimo, r), r))

Release(r) ==
    /\ mimo.status[r] = "granted"
    /\ mimo' = drain([mimo EXCEPT !.active = @ - 1, !.byLane[LaneOf[r]] = @ - 1,
                                  !.byUser[UserOf[r]] = @ - 1,
                                  !.visionByUser[UserOf[r]] = @ - One(r),
                                  !.byToken[Token(r)] = @ - 1,
                                  !.status[r] = "released"])

ReleaseAgain(r) == mimo.status[r] = "released" /\ UNCHANGED mimo

Next == \E r \in Requests :
            \/ AcquireRefused(r) \/ AcquireImmediately(r)
            \/ AcquireWithoutWaiting(r) \/ AcquireAtFullQueue(r)
            \/ AcquireQueued(r)
            \/ RemoveAndReject(r) \/ Release(r) \/ ReleaseAgain(r)

Spec == Init /\ [][Next]_vars

-----------------------------------------------------------------------------
TypeOK ==
    /\ mimo.active \in Nat
    /\ mimo.byLane \in [Lanes -> Nat] /\ mimo.queued \in [Lanes -> Nat]
    /\ mimo.byUser \in [Users -> Nat] /\ mimo.visionByUser \in [Users -> Nat]
    /\ mimo.byToken \in [Tokens -> Nat]
    /\ mimo.queue \in [Users -> Seq(Requests)]
    /\ mimo.keys \in Seq(Users) /\ mimo.waiting \in Seq(Users)
    /\ mimo.arrived \in Seq(Requests)
    /\ mimo.status \in [Requests -> Status]

Pending == {r \in Requests : mimo.status[r] = "pending"}
Held(P(_)) == Cardinality({r \in Requests : mimo.status[r] = "granted" /\ P(r)})

\* One atomic scheduler: whatever the order of grants, displacements and
\* releases, the counters say what the outstanding permits say, and no lane
\* reaches into the reservation of the other, nor a token or a user past its
\* share of both.
LimitsRespected ==
    /\ mimo.active = Held(LAMBDA r : TRUE) /\ mimo.active <= maxConcurrent
    /\ \A l \in Lanes :
          /\ mimo.byLane[l] = Held(LAMBDA r : LaneOf[r] = l)
          /\ mimo.byLane[l] <= laneLimits[l]
    /\ \A u \in Users :
          /\ mimo.byUser[u] = Held(LAMBDA r : UserOf[r] = u)
          /\ mimo.byUser[u] <= maxConcurrentPerUser
          /\ mimo.visionByUser[u] = Held(LAMBDA r : UserOf[r] = u /\ IsVision(r))
          /\ mimo.visionByUser[u] <= visionMaxConcurrentPerUser
          /\ inflightForUser(mimo, u) <= maxInflightPerUser
          /\ inflightVisionForUser(mimo, u) <= visionMaxInflightPerUser
    /\ \A t \in Tokens : /\ mimo.byToken[t] = Held(LAMBDA r : Token(r) = t)
                         /\ mimo.byToken[t] <= maxConcurrentPerToken

\* The map of queues, the waiting list, the two lane counters and the promises
\* agree, also after a waiter was thrown out of the middle of a queue; and no
\* lane keeps more waiting than its queue may hold.
WaitingListExact ==
    /\ Distinct(mimo.waiting) /\ Distinct(mimo.keys)
    /\ \A u \in Users :
          /\ mimo.queue[u] # <<>> <=> Listed(mimo.waiting, u)
          /\ Listed(mimo.keys, u) <=> Listed(mimo.waiting, u)
          /\ Distinct(mimo.queue[u])
          /\ {mimo.queue[u][i] : i \in DOMAIN mimo.queue[u]} = {r \in Pending : UserOf[r] = u}
    /\ \A l \in Lanes :
          /\ mimo.queued[l] = Cardinality({r \in Pending : LaneOf[r] = l})
          /\ mimo.queued[l] <= laneQueueMax[l]

\* After any interleaving of calls, timers, aborts and releases the object's
\* books are right: exact counters, no limit passed, nobody lost or listed twice.
Bookkeeping == TypeOK /\ LimitsRespected /\ WaitingListExact

\* "... otherwise a release from a different token can leave a physical lane
\* slot idle behind only blocked waiters": between two calls no waiting request
\* of either lane could start, wherever in its user's queue it stands.
NoRunnableWaiter == ~hasRunnablePending(mimo)

\* r loses its seat to s in this step.
Displaces(s, r) ==
    /\ mimo.status[r] = "pending" /\ mimo'.status[r] = "rejected"
    /\ mimo.status[s] # "pending" /\ mimo'.status[s] = "pending"

\* "A new token gets one waiting seat only by displacing a repeat waiter, or a
\* waiter whose token is already at its active ceiling", in its own lane.
DisplacesFairly ==
    \A r, s \in Requests : Displaces(s, r) =>
      /\ LaneOf[r] = LaneOf[s] /\ Token(r) # Token(s)
      /\ \A q \in Pending : LaneOf[q] = LaneOf[s] => Token(q) # Token(s)
      /\ \/ \E q \in Pending \ {r} : LaneOf[q] = LaneOf[r] /\ Token(q) = Token(r)
         \/ atActiveCap(mimo, Token(r))

\* "Drop the newest eligible waiter so an older request from that token
\* retains its place." Not kept: the newest of the first user in the list that
\* has a waiter of the token is taken, see the README.
NewestDisplaced ==
    [][\A r, s \in Requests : Displaces(s, r) =>
          \A q \in Pending :
              LaneOf[q] = LaneOf[r] /\ Token(q) = Token(r)
              => First(At(mimo.arrived, q)) <= First(At(mimo.arrived, r))]_vars
=============================================================================
