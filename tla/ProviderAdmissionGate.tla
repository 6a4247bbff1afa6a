------------------------ MODULE ProviderAdmissionGate ------------------------
(***************************************************************************)
(* The bounded, round-robin gate that the Image Relay and the Video Media   *)
(* Relay put in front of a provider account:                               *)
(* ts/shared/kernel/providerAdmission.ts, class ProviderAdmissionGate.      *)
(*                                                                         *)
(* The class runs on one JavaScript thread and none of its methods awaits,  *)
(* so every method (with the drain it ends in) is one step.  Several calls  *)
(* are in flight at once: a call of acquire is a request, which waits in    *)
(* its owner's queue, holds a permit, or is settled.                       *)
(***************************************************************************)
EXTENDS WaitingLists, FiniteSets

CONSTANTS
    Requests,           \* slots for concurrent calls of acquire
    Owners,             \* stable owner references
    OwnerOf,            \* the owner each request is made for
    NoOwner,            \* lastGrantedOwner before the first grant
    Abandonable,        \* the requests whose timer or abort signal may fire
    MaxActive, MaxActivePerOwner,   \* ProviderAdmissionConfig
    MaxQueued, MaxQueuedPerOwner

\* What the constructor enforces before a gate exists.
ASSUME GateConfig ==
    /\ IsFiniteSet(Requests)
    /\ IsFiniteSet(Owners)
    /\ OwnerOf \in [Requests -> Owners]
    /\ NoOwner \notin Owners
    /\ Abandonable \subseteq Requests
    /\ MaxActive \in Nat \ {0}
    /\ MaxActivePerOwner \in Nat \ {0}
    /\ MaxQueued \in Nat
    /\ MaxQueuedPerOwner \in Nat
    /\ MaxQueuedPerOwner <= MaxQueued

VARIABLE gate   \* the fields of the object, and the state of each request

vars == gate

\* The life of the promise and of the permit one acquire call returns.
Status == {"idle", "pending", "granted", "released", "rejected"}

Fields == {"active", "byOwner", "queue", "waiting", "last", "closed", "status"}

IsGate(g) ==
    /\ DOMAIN g = Fields
    /\ g.active \in Nat                        \* active
    /\ g.byOwner \in [Owners -> Nat]           \* activeByOwner; 0 = no entry
    /\ g.queue \in [Owners -> Seq(Requests)]   \* pendingByOwner; <<>> = no entry
    /\ g.waiting \in Seq(Owners)               \* waitingOwners
    /\ g.last \in Owners \cup {NoOwner}        \* lastGrantedOwner
    /\ g.closed \in BOOLEAN
    /\ g.status \in [Requests -> Status]

Init == gate = [ active  |-> 0,
                 byOwner |-> [o \in Owners |-> 0],
                 queue   |-> [o \in Owners |-> <<>>],
                 waiting |-> <<>>,
                 last    |-> NoOwner,
                 closed  |-> FALSE,
                 status  |-> [r \in Requests |-> "idle"] ]

-----------------------------------------------------------------------------
(* The private helpers, as functions of the object's fields.               *)

Positions(g) == UNION { {<<o, i>> : i \in DOMAIN g.queue[o]} : o \in Owners }
queuedCount(g) == Cardinality(Positions(g))

canStart(g, o) ==
    /\ ~g.closed
    /\ g.active < MaxActive
    /\ g.byOwner[o] < MaxActivePerOwner

hasRunnablePending(g) ==
    \E i \in DOMAIN g.waiting :
        g.queue[g.waiting[i]] # <<>> /\ canStart(g, g.waiting[i])

grant(g, r) ==
    [g EXCEPT !.active = @ + 1,
              !.byOwner[OwnerOf[r]] = @ + 1,
              !.last = OwnerOf[r],
              !.status[r] = "granted"]

reject(g, r) == [g EXCEPT !.status[r] = "rejected"]

\* Everything up to and including the last granted owner goes to the back.
rotateAfterLastGrantedOwner(g) ==
    IF Listed(g.waiting, g.last)
    THEN Rotate(g.waiting, First(At(g.waiting, g.last)))
    ELSE g.waiting

\* The owner at position i of the rotated list w gets a permit for its oldest
\* request. The owners passed over went to the back of the list in their
\* order, and so does the granted owner while it has more requests.
grantAt(g, w, i) ==
    LET o == w[i]
        rest == TakeOut(w, i)
    IN  grant([g EXCEPT !.queue[o] = Tail(@),
                        !.waiting = IF Tail(g.queue[o]) = <<>> THEN rest
                                    ELSE Append(rest, o)],
              Head(g.queue[o]))

Startable(g, w) == {i \in DOMAIN w : canStart(g, w[i])}

\* Mutant: the list is scanned from its front, and the owner that is granted
\* stays there.
drainFromFront(g) ==
    LET S == Startable(g, g.waiting)
        o == g.waiting[First(S)]
    IN  IF S = {} THEN g
        ELSE grant([g EXCEPT !.queue[o] = Tail(@),
                             !.waiting = IF Tail(g.queue[o]) = <<>>
                                         THEN Without(@, o) ELSE @],
                   Head(g.queue[o]))

\* One iteration of the loop in drain, for the first owner of the rotated list
\* that can start. The loop stops when no waiting owner can start, and
\* NoRunnableWaiter below says that it has then stopped: a second iteration
\* would find nobody, and its rotation would change nothing (the owner just
\* granted is last in the list or not in it).
drain(g) ==
    IF g.closed \/ g.active >= MaxActive \/ g.waiting = <<>> THEN g
    ELSE LET w == rotateAfterLastGrantedOwner(g)
         IN  IF Startable(g, w) = {} THEN [g EXCEPT !.waiting = w]
             ELSE grantAt(g, w, First(Startable(g, w)))

\* Mutant: a new request is queued before the older ones of its owner.
enqueueInFront(g, r) ==
    LET o == OwnerOf[r]
    IN  [g EXCEPT !.waiting = IF g.queue[o] = <<>> THEN Append(@, o) ELSE @,
                  !.queue[o] = <<r>> \o @,
                  !.status[r] = "pending"]

enqueue(g, r) ==
    LET o == OwnerOf[r]
    IN  [g EXCEPT !.waiting = IF g.queue[o] = <<>> THEN Append(@, o) ELSE @,
                  !.queue[o] = Append(@, r),
                  !.status[r] = "pending"]

\* Mutant: the waiting list keeps an owner that has nothing queued any more.
removePendingKeepsOwner(g, r) ==
    [g EXCEPT !.queue[OwnerOf[r]] = Without(@, r)]

\* The owner leaves the waiting list with its last request.
removePending(g, r) ==
    LET o == OwnerOf[r]
        others == Without(g.queue[o], r)
    IN  [g EXCEPT !.queue[o] = others,
                  !.waiting = IF others = <<>> THEN Without(@, o) ELSE @]

-----------------------------------------------------------------------------
(* acquire, by the way it ends.  A slot is used again once its promise is   *)
(* settled and its permit given back.                                      *)

CanAcquire(r) == gate.status[r] \in {"idle", "released", "rejected"}

Immediate(r) == gate.waiting = <<>> /\ canStart(gate, OwnerOf[r])

QueueFull(o) == \/ queuedCount(gate) >= MaxQueued
                \/ Len(gate.queue[o]) >= MaxQueuedPerOwner

\* ADMISSION_CLOSED, or ADMISSION_ABORTED when the signal fired beforehand.
AcquireRefused(r) ==
    /\ CanAcquire(r)
    /\ gate.closed \/ r \in Abandonable
    /\ gate' = reject(gate, r)

AcquireImmediately(r) ==
    /\ CanAcquire(r)
    /\ ~gate.closed
    /\ Immediate(r)
    /\ gate' = grant(gate, r)

\* The waiting window is zero: ADMISSION_QUEUE_FULL at once.
AcquireWithoutWaiting(r) ==
    /\ CanAcquire(r)
    /\ ~gate.closed
    /\ ~Immediate(r)
    /\ gate' = reject(gate, r)

\* A full queue of owners that cannot start does not keep out one that can.
AcquireAtFullQueue(r) ==
    /\ CanAcquire(r)
    /\ ~gate.closed
    /\ ~Immediate(r)
    /\ QueueFull(OwnerOf[r])
    /\ LET d == drain(gate)
       IN  gate' = IF ~hasRunnablePending(d) /\ canStart(d, OwnerOf[r])
                   THEN grant(d, r) ELSE reject(d, r)

AcquireQueued(r) ==
    /\ CanAcquire(r)
    /\ ~gate.closed
    /\ ~Immediate(r)
    /\ ~QueueFull(OwnerOf[r])
    /\ gate' = drain(enqueue(gate, r))

\* rejectAndRemove, from the timer or from the abort signal of the request.
RejectAndRemove(r) ==
    /\ r \in Abandonable
    /\ gate.status[r] = "pending"
    /\ gate' = drain(reject(removePending(gate, r), r))

\* Mutant: the slot is given back but nobody is woken.
ReleaseWithoutDrain(r) ==
    /\ gate.status[r] = "granted"
    /\ gate' = [gate EXCEPT !.active = @ - 1,
                            !.byOwner[OwnerOf[r]] = @ - 1,
                            !.status[r] = "released"]

\* The permit's release; a second call finds its released flag set.
Release(r) ==
    /\ gate.status[r] = "granted"
    /\ gate' = drain([gate EXCEPT !.active = @ - 1,
                                  !.byOwner[OwnerOf[r]] = @ - 1,
                                  !.status[r] = "released"])

ReleaseAgain(r) ==
    /\ gate.status[r] = "released"
    /\ UNCHANGED gate

\* Mutant: closing leaves the queue waiting.
CloseKeepsWaiters ==
    ~gate.closed /\ gate' = [gate EXCEPT !.closed = TRUE]

\* Queued requests are refused; the permits that are out stay valid.
Close ==
    /\ ~gate.closed
    /\ gate' = [gate EXCEPT
                  !.closed = TRUE,
                  !.queue = [o \in Owners |-> <<>>],
                  !.waiting = <<>>,
                  !.status = [r \in Requests |->
                                IF @[r] = "pending" THEN "rejected" ELSE @[r]]]

Next == \/ \E r \in Requests :
              \/ AcquireRefused(r) \/ AcquireImmediately(r)
              \/ AcquireWithoutWaiting(r) \/ AcquireAtFullQueue(r)
              \/ AcquireQueued(r)
              \/ RejectAndRemove(r) \/ Release(r) \/ ReleaseAgain(r)
        \/ Close

Spec == Init /\ [][Next]_vars

-----------------------------------------------------------------------------
(* The properties, as predicates of the object's fields where a proof       *)
(* follows them through a half-finished call.                              *)

TypeOK == IsGate(gate)

Granted(g) == {r \in Requests : g.status[r] = "granted"}
Holders(g, o) == {r \in Requests : g.status[r] = "granted" /\ OwnerOf[r] = o}

CountersExact(g) ==
    /\ g.active = Cardinality(Granted(g))
    /\ \A o \in Owners : g.byOwner[o] = Cardinality(Holders(g, o))

\* The two counters of the class say what the outstanding permits say,
\* whatever the order of grants, releases and repeated releases.
CountersMatchPermits == CountersExact(gate)

WithinLimits(g) ==
    /\ Cardinality(Granted(g)) <= MaxActive
    /\ \A o \in Owners : Cardinality(Holders(g, o)) <= MaxActivePerOwner

RoomRespected(g) ==
    /\ queuedCount(g) <= MaxQueued
    /\ \A o \in Owners : Len(g.queue[o]) <= MaxQueuedPerOwner

\* No interleaving takes the provider account, one owner or the waiting room
\* over its configured limit.
LimitsRespected == WithinLimits(gate) /\ RoomRespected(gate)

\* The waiting list names exactly the owners with a queue, once each.
ListExact(g) ==
    /\ Distinct(g.waiting)
    /\ \A o \in Owners : g.queue[o] # <<>> <=> Listed(g.waiting, o)

\* A request is pending exactly while it is in its owner's queue, once.
QueuesExact(g) ==
    /\ \A o \in Owners : /\ Distinct(g.queue[o])
                          /\ \A i \in DOMAIN g.queue[o] : OwnerOf[g.queue[o][i]] = o
    /\ \A r \in Requests : g.status[r] = "pending" <=> Listed(g.queue[OwnerOf[r]], r)

\* The waiting list, the queues and the promises agree: nobody waits in a
\* queue the drain never visits, and no settled request is still queued.
WaitingListExact == ListExact(gate) /\ QueuesExact(gate)

\* After any interleaving of calls, timers, aborts and close(), the object's
\* books are right: exact counters, no limit passed, nobody lost or listed twice.
Bookkeeping ==
    TypeOK /\ CountersMatchPermits /\ LimitsRespected /\ WaitingListExact

NobodyRunnable(g) == \A o \in Owners : g.queue[o] # <<>> => ~canStart(g, o)

\* Between two calls no waiting owner could start: capacity is never idle
\* behind a request that may use it, so no request waits for a wake-up that
\* nobody will give it.
NoRunnableWaiter == NobodyRunnable(gate)

Ahead(g, r, s) ==
    \E i, j \in DOMAIN g.queue[OwnerOf[r]] :
        i < j /\ g.queue[OwnerOf[r]][i] = r /\ g.queue[OwnerOf[r]][j] = s

\* A later call of an owner never overtakes an earlier one that still waits:
\* neither in the queue, nor by being admitted at once when it arrives.
OwnerFifo ==
    [][\A r, s \in Requests :
          /\ r # s /\ OwnerOf[r] = OwnerOf[s]
          /\ gate.status[r] = "pending" /\ gate'.status[r] = "pending"
          /\ gate.status[s] = "pending" => Ahead(gate, r, s)
          => /\ gate'.status[s] = "granted" => gate.status[s] = "granted"
             /\ gate'.status[s] = "pending" => Ahead(gate', r, s)]_vars

\* Once closed, a gate grants nothing more and keeps nobody waiting, while
\* permits that were out go on counting until they are released.
ClosedForGood ==
    [][gate.closed =>
         /\ gate'.closed
         /\ \A r \in Requests : gate'.status[r] \notin {"pending"}
         /\ \A r \in Requests : gate'.status[r] = "granted"
                                   => gate.status[r] = "granted"]_vars

\* Nobody is admitted out of order, and nobody at all once close() was called.
AdmittedInOrder == OwnerFifo /\ ClosedForGood

\* A timer, an abort signal or close() takes a waiter from its queue.
GaveUp == \E r \in Requests : gate.status[r] = "pending" /\ gate'.status[r] = "rejected"

\* Whoever waits is eventually admitted or refused, as long as permits are
\* given back, with no need of its own timer. Waiters that give up stop the
\* rotation (rotateAfterLastGrantedOwner), so they do so finitely often here.
WaiterEventuallySettled ==
    <>[][~GaveUp]_vars =>
    \A r \in Requests : gate.status[r] = "pending" ~> gate.status[r] # "pending"
=============================================================================
