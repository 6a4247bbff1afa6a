------------------------- MODULE ProviderRateLimiter -------------------------
(***************************************************************************)
(* The request-rate gate of one provider account: class ProviderRateLimiter *)
(* of shared/kernel/providerAdmission.ts, a token bucket with a FIFO queue, *)
(* one wake-up timer for the queue and one timeout for each waiter.         *)
(*                                                                         *)
(* Time is counted in ticks; a token takes PerToken of them and is held in  *)
(* parts, so tokens \div PerToken requests may start.  A timer fires at or  *)
(* after the time it was set for, never before, and timers that are due     *)
(* fire in any order.                                                      *)
(***************************************************************************)
EXTENDS WaitingLists

CONSTANTS
    Calls,      \* calls of acquire
    Capacity,   \* rpm, the most tokens the bucket holds
    PerToken,   \* ticks in which one token is earned: 1 / rate
    QueueMax,   \* the most waiters
    Waits,      \* maxWait arguments, in ticks
    MaxTime     \* bound: the clock stops here

ASSUME LimiterConfig ==
    /\ Capacity \in Nat \ {0}
    /\ PerToken \in Nat \ {0}
    /\ QueueMax \in Nat
    /\ Waits \subseteq Nat
    /\ MaxTime \in Nat

VARIABLES
    tokens, ts,     \* the bucket, and the time of its last refill
    waiters,        \* the queue, oldest first
    deadlineAt,     \* when the wait of each call ends
    wakeAt,         \* what the wake-up timer is set for, or NoTimer
    outcome,        \* what became of each call
    now,            \* performance.now()
    grants          \* history: when each request was let through

vars == <<tokens, ts, waiters, deadlineAt, wakeAt, outcome, now, grants>>

NoTimer == -1
Outcomes == {"new", "waiting", "granted", "busy", "cancelled", "closed"}

Full == Capacity * PerToken
AtMost(a, b) == IF a <= b THEN a ELSE b

Init ==
    /\ tokens = Full /\ ts = 0 /\ now = 0
    /\ waiters = <<>> /\ wakeAt = NoTimer
    /\ deadlineAt = [c \in Calls |-> 0]
    /\ outcome = [c \in Calls |-> "new"]
    /\ grants = <<>>

\* Mutant: the bucket may fill beyond its capacity.
refilledUncapped(t) == tokens + (t - ts)

\* refill: what the bucket holds at a given time.
refilled(t) == AtMost(Full, tokens + (t - ts))

\* k more requests are let through now.
Granted(k) ==
    grants' = [i \in 1..(Len(grants) + k) |-> IF i <= Len(grants) THEN grants[i] ELSE now]

\* Mutant: nobody whose wait is over is dropped.
ExpiredServed(q) == 0

\* How many waiters at the head of the queue have waited as long as they may, ...
Expired(q) ==
    First({i \in 0..Len(q) : i = Len(q) \/ deadlineAt'[q[i + 1]] > now})

\* ... and how many of those behind them get a token.
Runnable(q) == AtMost(Len(q) - Expired(q), refilled(now) \div PerToken)

\* The queue moves on: the first e waiters are told "busy", the next g take a
\* token, and told says what has become of the calls outside the queue.
Move(q, told) ==
    LET e == Expired(q)
        g == Runnable(q)
    IN  /\ tokens' = refilled(now) - g * PerToken
        /\ ts' = now
        /\ Granted(g)
        /\ waiters' = [i \in 1..(Len(q) - (e + g)) |-> q[i + (e + g)]]
        /\ outcome' = [c \in Calls |->
                IF \E i \in 1..e : q[i] = c THEN "busy"
                ELSE IF \E i \in (e + 1)..(e + g) : q[i] = c THEN "granted"
                ELSE told[c]]

\* When the wake-up is due: with the next token, or earlier when the wait of
\* the first waiter ends, and never at once.
NextWake(q, held) ==
    LET left == deadlineAt'[q[1]] - now
    IN  now + AtMost(PerToken - held, IF left < 1 THEN 1 ELSE left)

\* Mutant: the timer is set only when somebody was let through.
drainForgetsTimer(q, told) ==
    /\ Move(q, told)
    /\ wakeAt' = IF waiters' = <<>> \/ Runnable(q) = 0 THEN NoTimer
                 ELSE NextWake(waiters', tokens')

\* drain: refill, drop what has expired, let through what the tokens allow,
\* and set the timer again.
drain(q, told) ==
    /\ Move(q, told)
    /\ wakeAt' = IF waiters' = <<>> THEN NoTimer ELSE NextWake(waiters', tokens')

-----------------------------------------------------------------------------
(* acquire                                                                 *)

AcquireAborted(c) ==
    /\ outcome[c] = "new"
    /\ outcome' = [outcome EXCEPT ![c] = "cancelled"]
    /\ UNCHANGED <<tokens, ts, waiters, deadlineAt, wakeAt, now, grants>>

\* Mutant: a free token goes to a newcomer before the queue.
ImmediateOvertakes == refilled(now) >= PerToken

Immediate == waiters = <<>> /\ refilled(now) >= PerToken

AcquireImmediately(c) ==
    /\ outcome[c] = "new"
    /\ Immediate
    /\ tokens' = refilled(now) - PerToken
    /\ ts' = now
    /\ Granted(1)
    /\ outcome' = [outcome EXCEPT ![c] = "granted"]
    /\ UNCHANGED <<waiters, deadlineAt, wakeAt, now>>

AcquireRefused(c, maxWait) ==
    /\ outcome[c] = "new"
    /\ ~Immediate
    /\ maxWait = 0 \/ Len(waiters) >= QueueMax
    /\ tokens' = refilled(now)
    /\ ts' = now
    /\ outcome' = [outcome EXCEPT ![c] = "busy"]
    /\ UNCHANGED <<waiters, deadlineAt, wakeAt, now, grants>>

AcquireQueued(c, maxWait) ==
    /\ outcome[c] = "new"
    /\ ~Immediate
    /\ maxWait > 0 /\ Len(waiters) < QueueMax
    /\ deadlineAt' = [deadlineAt EXCEPT ![c] = now + maxWait]
    /\ drain(Append(waiters, c), [outcome EXCEPT ![c] = "waiting"])
    /\ UNCHANGED now

snapshot ==
    /\ tokens' = refilled(now)
    /\ ts' = now
    /\ UNCHANGED <<waiters, deadlineAt, wakeAt, outcome, now, grants>>

-----------------------------------------------------------------------------
(* The timers, the abort signal and close.                                 *)

\* Mutant: a waiter that was refused stays in the queue.
rejectOnly(c, told) ==
    /\ UNCHANGED <<deadlineAt, now>>
    /\ drain(waiters, [outcome EXCEPT ![c] = told])

rejectAndRemove(c, told) ==
    /\ UNCHANGED <<deadlineAt, now>>
    /\ drain(Without(waiters, c), [outcome EXCEPT ![c] = told])

TimeoutFires(c) ==
    /\ outcome[c] = "waiting"
    /\ deadlineAt[c] <= now
    /\ rejectAndRemove(c, "busy")

Abort(c) ==
    /\ outcome[c] = "waiting"
    /\ rejectAndRemove(c, "cancelled")

WakeTimerFires ==
    /\ wakeAt # NoTimer
    /\ wakeAt <= now
    /\ UNCHANGED <<deadlineAt, now>>
    /\ drain(waiters, outcome)

close ==
    /\ waiters' = <<>>
    /\ wakeAt' = NoTimer
    /\ outcome' = [c \in Calls |-> IF outcome[c] = "waiting" THEN "closed" ELSE outcome[c]]
    /\ UNCHANGED <<tokens, ts, deadlineAt, now, grants>>

Tick ==
    /\ now < MaxTime
    /\ now' = now + 1
    /\ UNCHANGED <<tokens, ts, waiters, deadlineAt, wakeAt, outcome, grants>>

Next ==
    \/ \E c \in Calls :
          \/ AcquireAborted(c) \/ AcquireImmediately(c)
          \/ TimeoutFires(c) \/ Abort(c)
          \/ \E maxWait \in Waits : AcquireRefused(c, maxWait) \/ AcquireQueued(c, maxWait)
    \/ WakeTimerFires
    \/ snapshot
    \/ close
    \/ Tick

Spec == Init /\ [][Next]_vars

-----------------------------------------------------------------------------
TypeOK ==
    /\ tokens \in 0..Full
    /\ now \in Nat /\ ts \in 0..now
    /\ grants \in Seq(Nat)
    /\ waiters \in Seq(Calls)
    /\ deadlineAt \in [Calls -> Nat]
    /\ wakeAt \in Nat \cup {NoTimer}
    /\ outcome \in [Calls -> Outcomes]

\* A call waits exactly while it is in the queue, once: whoever was refused,
\* cancelled or timed out is not let through later, and costs no token.
WaitersExact ==
    /\ Distinct(waiters)
    /\ \A c \in Calls : outcome[c] = "waiting" <=> Listed(waiters, c)

\* A provider account is never asked more than its rate allows: between any
\* two requests let through, however they came to be let through, lie at most
\* a full bucket and the tokens earned in the meantime.
RateKept ==
    \A i \in 1..Len(grants) : \A j \in i..Len(grants) :
        (j - i + 1) * PerToken <= Full + (grants[j] - grants[i])

\* A token never lies idle before a queue without the wake-up being due: as
\* soon as the bucket holds one, the timer set by the last drain has run out.
TokenWakesQueue ==
    (waiters # <<>> /\ refilled(now) >= PerToken) => wakeAt \in 0..now

\* The queue is served in order: no call is let through, at once or from the
\* queue, while one that was waiting before it waits on.
ServesInOrder ==
    \A c, d \in Calls :
        /\ outcome[d] # "granted" /\ outcome'[d] = "granted"
        /\ outcome[c] = "waiting" /\ outcome'[c] = "waiting"
        => \E i, j \in 1..Len(waiters) :
              /\ i < j /\ waiters[i] = d /\ waiters[j] = c

\* It is served in time as far as drain looks: it drops those at the head whose
\* wait is over and none behind the first whose wait is not. Even when timers are
\* late, a call that has waited longer than it asked for (as one with a short
\* wait behind one with a long wait may) is let through only in the same drain as
\* one before it that has not.
ServesInTime ==
    \A c \in Calls :
        outcome[c] = "waiting" /\ outcome'[c] = "granted" /\ deadlineAt[c] <= now
        => \E i, j \in 1..Len(waiters) :
              /\ i < j /\ waiters[j] = c
              /\ outcome'[waiters[i]] = "granted" /\ deadlineAt[waiters[i]] > now

ServesInTurn == ServesInOrder /\ ServesInTime
=============================================================================
