-------------------------- MODULE GatewayPartsProofs --------------------------
(***************************************************************************)
(* What holds of five parts of the Gateway, each on its own, for every      *)
(* value of their constants: the rate limiter, the usage ledger, the        *)
(* result store, the capacity pool and the reserved lanes.                 *)
(*                                                                         *)
(* Limiter.  RateKept is not inductive: it says nothing of the tokens that  *)
(* are left.  The invariant weighs them against the grants already made:    *)
(* from any grant on, the requests let through and the tokens still held    *)
(* cost at most a full bucket and what was earned since.  A drain only      *)
(* cuts the queue at its head, so that nobody overtakes; that nobody is     *)
(* served too late needs the waits to end in the order of the queue.        *)
(*                                                                         *)
(* Ledger.  A settled row counts for what it cost, so that the quota is     *)
(* kept only if the row that a token finds is the row of its own            *)
(* reservation: the invariant numbers the rows.  Sums over the rows are     *)
(* those of ListAndSumLemmas.                                              *)
(*                                                                         *)
(* Store.  The rows are well formed, and each method is described by the    *)
(* rows it may write.                                                      *)
(*                                                                         *)
(* Pool.  Its books are right in the middle of a call too; that nobody      *)
(* waits who could start is what the drain at the end of a call restores,   *)
(* with one turn: one place came back, or one waiter did.                  *)
(*                                                                         *)
(* Lanes.  As the pool, but one turn is not enough: a release may free a    *)
(* lane for one waiter and a token for another.  A turn in which somebody   *)
(* is served leaves one waiter less, so that as many turns as there were    *)
(* waiters leave nobody who could start.                                    *)
(***************************************************************************)
EXTENDS MCGatewayParts, MCFairCapacityScheduler, ListAndSumLemmas, FiniteSets, Functions

-----------------------------------------------------------------------------
(* The rate limiter.                                                       *)

Bucket == /\ tokens \in 0..Full
          /\ now \in Nat
          /\ ts \in 0..now

History == /\ grants \in Seq(Nat)
           /\ \A i \in 1..Len(grants) :
                 /\ grants[i] <= ts
                 /\ (Len(grants) - i + 1) * PerToken + tokens <= Full + (ts - grants[i])

Queue == /\ waiters \in Seq(Calls)
         /\ deadlineAt \in [Calls -> Nat]
         /\ outcome \in [Calls -> Outcomes]
         /\ WaitersExact

\* The timer is set whenever somebody waits, for no later than the next token.
Timer == /\ wakeAt \in Nat \cup {NoTimer}
         /\ waiters # <<>> =>
               /\ wakeAt \in Nat
               /\ wakeAt <= ts \/ wakeAt + tokens <= ts + PerToken

Inv == Bucket /\ History /\ RateKept /\ Queue /\ Timer

-----------------------------------------------------------------------------
(* Arithmetic                                                              *)

\* A full bucket holds at least one token.
LEMMA FullBucket == Full \in Nat /\ PerToken <= Full /\ PerToken \in Nat \ {0}
<1>1. Capacity \in Nat \ {0} /\ PerToken \in Nat \ {0}
  BY LimiterConfig DEF LimiterConfig
<1>2. PICK d \in Nat : Capacity = d + 1
  <2>1. Capacity - 1 \in Nat /\ Capacity = (Capacity - 1) + 1
    BY <1>1
  <2> QED BY <2>1
<1>3. d * PerToken \in Nat
  BY <1>1, <1>2
<1>4. Full = d * PerToken + PerToken
  BY <1>1, <1>2 DEF Full
<1> QED BY <1>1, <1>3, <1>4

\* What m tokens cost.
Cost(m) == m * PerToken

\* The costs of two lists add up.
LEMMA CostAdds ==
    /\ \A a \in Nat : Cost(a) \in Nat
    /\ \A a, b \in Nat : Cost(a + b) = Cost(a) + Cost(b)
BY FullBucket DEF Cost

\* Whole tokens in a bucket, and what is left of it without them.
LEMMA Division ==
    ASSUME NEW r \in Nat, NEW p \in Nat \ {0}
    PROVE  /\ r \div p \in Nat
           /\ (r \div p) * p <= r
           /\ r < (r \div p) * p + p
OBVIOUS

\* Refilling never overfills the bucket and adds at most the time passed.
LEMMA Refilled ==
    ASSUME Bucket
    PROVE  /\ refilled(now) \in 0..Full
           /\ refilled(now) <= tokens + (now - ts)
           /\ refilled(now) = Full \/ refilled(now) = tokens + (now - ts)
BY FullBucket DEF Bucket, refilled, AtMost

\* The waiters a drain refuses and those it lets through fit the queue, and
\* the bucket can pay for the latter; if any waiter is left, less than one
\* token is.
LEMMA MovesOn ==
    ASSUME Bucket, NEW q \in Seq(Calls)
    PROVE  /\ Expired(q) \in 0..Len(q)
           /\ Runnable(q) \in Nat
           /\ Expired(q) + Runnable(q) <= Len(q)
           /\ Runnable(q) * PerToken <= refilled(now)
           /\ Expired(q) + Runnable(q) < Len(q) =>
                 refilled(now) - Runnable(q) * PerToken < PerToken
<1> DEFINE r == refilled(now)
           S == {i \in 0..Len(q) : i = Len(q) \/ deadlineAt'[q[i + 1]] > now}
           whole == r \div PerToken
<1>1. Len(q) \in Nat
  BY LenProperties
<1>2. PerToken \in Nat \ {0} /\ r \in Nat
  BY FullBucket, Refilled
<1>3. S \subseteq Nat /\ Len(q) \in S
  BY <1>1
<1>4. First(S) \in S
  BY <1>3, FirstIn
<1>5. Expired(q) = First(S)
  BY DEF Expired
<1> HIDE DEF r
<1>6. Expired(q) \in 0..Len(q)
  BY <1>4, <1>5
<1>7. whole \in Nat /\ whole * PerToken <= r /\ r < whole * PerToken + PerToken
  BY <1>2, Division
<1>8. Runnable(q) = AtMost(Len(q) - Expired(q), whole)
  BY DEF Runnable, r
<1> HIDE DEF whole
<1>9. /\ Runnable(q) \in Nat
      /\ Runnable(q) <= Len(q) - Expired(q)
      /\ Runnable(q) <= whole
      /\ Runnable(q) = Len(q) - Expired(q) \/ Runnable(q) = whole
  BY <1>1, <1>6, <1>7, <1>8 DEF AtMost
<1>10. Runnable(q) * PerToken <= whole * PerToken
  <2>1. PICK d \in Nat : whole = Runnable(q) + d
    <3>1. whole - Runnable(q) \in Nat /\ whole = Runnable(q) + (whole - Runnable(q))
      BY <1>7, <1>9
    <3> QED BY <3>1
  <2>2. whole * PerToken = Runnable(q) * PerToken + d * PerToken /\ d * PerToken \in Nat
    BY <1>2, <1>9, <2>1
  <2>3. Runnable(q) * PerToken \in Nat
    BY <1>2, <1>9
  <2> QED BY <2>2, <2>3
<1>11. Runnable(q) * PerToken <= r
  <2>1. Runnable(q) * PerToken \in Nat /\ whole * PerToken \in Nat
    BY <1>2, <1>7, <1>9
  <2> QED BY <1>2, <1>7, <1>10, <2>1
<1>12. ASSUME Expired(q) + Runnable(q) < Len(q)
       PROVE  r - Runnable(q) * PerToken < PerToken
  <2>1. Runnable(q) = whole
    BY <1>1, <1>6, <1>9, <1>12
  <2>2. whole * PerToken \in Nat
    BY <1>2, <1>7
  <2> QED BY <1>2, <1>7, <2>1, <2>2
<1>13. Expired(q) + Runnable(q) <= Len(q)
  BY <1>1, <1>6, <1>9
<1> QED BY <1>6, <1>9, <1>11, <1>12, <1>13 DEF r

-----------------------------------------------------------------------------
(* What every step has in common: the bucket is refilled, and k tokens are  *)
(* taken out for k requests.                                               *)

\* Taking tokens that are there keeps the rate.
LEMMA TakeTokens ==
    ASSUME Bucket, History, RateKept, NEW k \in Nat,
           Cost(k) <= refilled(now),
           tokens' = refilled(now) - Cost(k), ts' = now, now' = now,
           grants' \in Seq(Nat), Len(grants') = Len(grants) + k,
           \A i \in 1..(Len(grants) + k) :
              grants'[i] = IF i <= Len(grants) THEN grants[i] ELSE now
    PROVE  Bucket' /\ History' /\ RateKept'
<1> DEFINE r == refilled(now)
           n == Len(grants)
           m(i) == n + k - i + 1
<1>1. Full \in Nat /\ r \in 0..Full /\ r <= tokens + (now - ts)
  BY FullBucket, Refilled
<1>2. tokens \in 0..Full /\ now \in Nat /\ ts \in 0..now
  BY DEF Bucket
<1>3. n \in Nat /\ \A i \in 1..n : grants[i] \in Nat
  BY LenProperties, ElementOfSeq DEF History
<1>4. /\ \A a \in Nat : Cost(a) \in Nat
      /\ \A a, b \in Nat : Cost(a + b) = Cost(a) + Cost(b)
  BY CostAdds
<1>5. tokens' = r - Cost(k) /\ Cost(k) <= r /\ Cost(k) \in Nat
  BY <1>4
<1> HIDE DEF r
<1>6. tokens' \in 0..Full
  BY <1>1, <1>5
<1>7. \A i \in 1..(n + k) :
         grants'[i] \in 0..now /\ Cost(m(i)) + tokens' <= Full + (now - grants'[i])
  <2> TAKE i \in 1..(n + k)
  <2>1. CASE i <= n
    <3>1. i \in 1..n /\ grants'[i] = grants[i] /\ grants[i] \in Nat /\ grants[i] <= ts
      BY <1>3, <2>1 DEF History
    <3>2. Cost(n - i + 1) + tokens <= Full + (ts - grants[i])
      BY <3>1 DEF History, Cost
    <3>3. n - i + 1 \in Nat /\ m(i) = (n - i + 1) + k
      BY <1>3, <3>1
    <3>4. Cost(m(i)) = Cost(n - i + 1) + Cost(k) /\ Cost(n - i + 1) \in Nat /\ Cost(k) \in Nat
      BY <1>4, <3>3
    <3>5. grants'[i] \in 0..now
      BY <1>2, <3>1
    <3>6. Cost(m(i)) + tokens' = Cost(n - i + 1) + r
      BY <1>1, <1>5, <3>4
    <3>7. Cost(n - i + 1) + r <= Full + (now - grants[i])
      <4> DEFINE c == Cost(n - i + 1)
                 x == grants[i]
      <4>1. c \in Nat /\ x \in Nat /\ x <= ts /\ c + tokens <= Full + (ts - x)
        BY <3>1, <3>2, <3>4
      <4> HIDE DEF c, x
      <4>2. r \in Int /\ r <= tokens + (now - ts) /\ Full \in Int
        BY <1>1
      <4>3. c + r <= Full + (now - x)
        BY <1>2, <4>1, <4>2
      <4> QED BY <4>3 DEF c, x
    <3> QED BY <3>1, <3>5, <3>6, <3>7
  <2>2. CASE ~(i <= n)
    <3>1. grants'[i] = now
      BY <2>2
    <3>2. m(i) \in Nat /\ i - n - 1 \in Nat /\ k = m(i) + (i - n - 1)
      BY <1>3, <2>2
    <3>3. Cost(k) = Cost(m(i)) + Cost(i - n - 1) /\ Cost(m(i)) \in Nat /\ Cost(i - n - 1) \in Nat
      <4> DEFINE a == m(i)
                 b == i - n - 1
      <4>1. a \in Nat /\ b \in Nat /\ k = a + b
        BY <3>2
      <4> HIDE DEF a, b
      <4>2. Cost(a) \in Nat /\ Cost(b) \in Nat /\ Cost(a + b) = Cost(a) + Cost(b)
        BY <1>4, <4>1
      <4> QED BY <4>1, <4>2 DEF a, b
    <3>4. Cost(m(i)) + tokens' <= r
      <4> DEFINE c == Cost(m(i))
                 d == Cost(i - n - 1)
                 e == Cost(k)
      <4>1. c \in Nat /\ d \in Nat /\ e = c + d
        BY <3>3
      <4>2. r \in Int /\ tokens' = r - e
        BY <1>1, <1>5
      <4> HIDE DEF c, d, e
      <4>3. c + tokens' <= r
        BY <4>1, <4>2
      <4> QED BY <4>3 DEF c
    <3>5. Cost(m(i)) + tokens' <= Full + (now - now)
      BY <1>1, <1>2, <1>6, <3>3, <3>4
    <3> QED BY <1>2, <3>1, <3>5
  <2> QED BY <2>1, <2>2
<1>8. History'
  <2>1. \A i \in 1..(n + k) :
           /\ grants'[i] <= now
           /\ (n + k - i + 1) * PerToken + tokens' <= Full + (now - grants'[i])
    BY <1>2, <1>7 DEF Cost
  <2> QED BY <2>1 DEF History, Full
<1>9. RateKept'
  <2>1. SUFFICES ASSUME NEW i \in 1..(n + k), NEW j \in i..(n + k)
                 PROVE  Cost(j - i + 1) <= Full + (grants'[j] - grants'[i])
    BY DEF RateKept, Full, Cost
  <2>2. CASE j <= n
    <3>1. i \in 1..n /\ j \in i..n /\ grants'[i] = grants[i] /\ grants'[j] = grants[j]
      BY <1>3, <2>2
    <3>2. (j - i + 1) * PerToken <= Full + (grants[j] - grants[i])
      BY <3>1 DEF RateKept
    <3> QED BY <3>1, <3>2 DEF Cost
  <2>3. CASE ~(j <= n)
    <3>1. grants'[j] = now
      BY <1>3, <2>3
    <3>2. j - i + 1 \in Nat /\ n + k - j \in Nat /\ m(i) = (j - i + 1) + (n + k - j)
      BY <1>3
    <3>3. /\ Cost(m(i)) = Cost(j - i + 1) + Cost(n + k - j)
          /\ Cost(j - i + 1) \in Nat /\ Cost(n + k - j) \in Nat
      <4> DEFINE a == j - i + 1
                 b == n + k - j
      <4>1. a \in Nat /\ b \in Nat /\ m(i) = a + b
        BY <3>2
      <4> HIDE DEF a, b, m
      <4>2. Cost(a) \in Nat /\ Cost(b) \in Nat /\ Cost(a + b) = Cost(a) + Cost(b)
        BY <1>4, <4>1
      <4> QED BY <4>1, <4>2 DEF a, b
    <3>4. Cost(m(i)) + tokens' <= Full + (now - grants'[i]) /\ grants'[i] \in 0..now
      BY <1>7
    <3>5. Cost(j - i + 1) <= Full + (now - grants'[i])
      <4> DEFINE c == Cost(j - i + 1)
                 d == Cost(n + k - j)
                 x == grants'[i]
      <4>1. /\ c \in Nat /\ d \in Nat /\ x \in 0..now
            /\ c + d + tokens' <= Full + (now - x)
        BY <3>3, <3>4
      <4> HIDE DEF c, d, x
      <4>2. tokens' \in Nat /\ Full \in Nat /\ now \in Nat
        BY <1>1, <1>2, <1>6
      <4>3. c <= Full + (now - x)
        BY <4>1, <4>2
      <4> QED BY <4>3 DEF c, x
    <3> QED BY <3>1, <3>5
  <2> QED BY <2>2, <2>3
<1> QED BY <1>2, <1>6, <1>8, <1>9 DEF Bucket, Full

\* k more grants, as the code makes them.
LEMMA GrantedIs ==
    ASSUME Bucket, History, NEW k \in Nat, Granted(k)
    PROVE  /\ grants' \in Seq(Nat)
           /\ Len(grants') = Len(grants) + k
           /\ \A i \in 1..(Len(grants) + k) :
                 grants'[i] = IF i <= Len(grants) THEN grants[i] ELSE now
<1>1. Len(grants) \in Nat /\ \A i \in 1..Len(grants) : grants[i] \in Nat
  BY LenProperties, ElementOfSeq DEF History
<1>2. now \in Nat
  BY DEF Bucket
<1> QED BY <1>1, <1>2 DEF Granted

-----------------------------------------------------------------------------
(* What a drain does to the queue and its timer.                           *)

\* The calls outside the queue have been told, those inside it wait.
Sorted(q, told) ==
    /\ q \in Seq(Calls) /\ Distinct(q)
    /\ told \in [Calls -> Outcomes]
    /\ \A c \in Calls : told[c] = "waiting" <=> Listed(q, c)

\* Moving the queue keeps its waiters apart and known.
LEMMA MoveKeeps ==
    ASSUME Bucket, NEW q, NEW told, Sorted(q, told), Move(q, told)
    PROVE  /\ waiters' \in Seq(Calls)
           /\ outcome' \in [Calls -> Outcomes]
           /\ WaitersExact'
<1> DEFINE e == Expired(q)
           g == Runnable(q)
           n == Len(q) - (e + g)
<1>1. q \in Seq(Calls) /\ Len(q) \in Nat /\ DOMAIN q = 1..Len(q) /\ Distinct(q)
  BY LenProperties DEF Sorted
<1>2. e \in 0..Len(q) /\ g \in Nat /\ e + g <= Len(q)
  BY <1>1, MovesOn
<1>3. waiters' = [i \in 1..n |-> q[i + (e + g)]]
  BY DEF Move
<1>4. outcome' = [c \in Calls |->
                IF \E i \in 1..e : q[i] = c THEN "busy"
                ELSE IF \E i \in (e + 1)..(e + g) : q[i] = c THEN "granted"
                ELSE told[c]]
  BY DEF Move
<1> HIDE DEF e, g
<1>5. n \in Nat /\ \A i \in 1..n : i + (e + g) \in 1..Len(q)
  BY <1>1, <1>2
<1>6. \A i \in 1..n : q[i + (e + g)] \in Calls
  BY <1>1, <1>5, ElementOfSeq
<1>7. waiters' \in Seq(Calls) /\ DOMAIN waiters' = 1..n
  BY <1>3, <1>5, <1>6
<1>8. Distinct(waiters')
  <2> SUFFICES ASSUME NEW i \in 1..n, NEW j \in 1..n, q[i + (e + g)] = q[j + (e + g)]
               PROVE  i = j
    BY <1>3, <1>7 DEF Distinct
  <2>1. i + (e + g) = j + (e + g)
    BY <1>1, <1>5 DEF Distinct
  <2> QED BY <1>2, <2>1
<1>9. \A c \in Calls : outcome'[c] \in Outcomes
  BY <1>4 DEF Sorted, Outcomes
<1>10. ASSUME NEW c \in Calls PROVE outcome'[c] = "waiting" <=> Listed(waiters', c)
  <2>1. Listed(waiters', c) <=> \E i \in 1..n : q[i + (e + g)] = c
    BY <1>3, <1>7 DEF Listed, At
  <2>2. Listed(q, c) <=> \E i \in 1..Len(q) : q[i] = c
    BY <1>1 DEF Listed, At
  <2>3. outcome'[c] = "waiting" <=>
           /\ \E i \in 1..Len(q) : q[i] = c
           /\ ~ \E i \in 1..e : q[i] = c
           /\ ~ \E i \in (e + 1)..(e + g) : q[i] = c
    BY <1>4, <2>2 DEF Sorted
  <2>4. ASSUME outcome'[c] = "waiting" PROVE \E i \in 1..n : q[i + (e + g)] = c
    <3>1. PICK i \in 1..Len(q) : q[i] = c
      BY <2>3, <2>4
    <3>2. ~(i \in 1..e) /\ ~(i \in (e + 1)..(e + g))
      BY <2>3, <2>4, <3>1
    <3>3. i - (e + g) \in 1..n /\ (i - (e + g)) + (e + g) = i
      BY <1>1, <1>2, <3>2
    <3> QED BY <3>1, <3>3
  <2>5. ASSUME NEW i \in 1..n, q[i + (e + g)] = c PROVE outcome'[c] = "waiting"
    <3>1. i + (e + g) \in 1..Len(q)
      BY <1>5
    <3>2. \A k \in 1..(e + g) : k \in 1..Len(q) /\ k # i + (e + g)
      BY <1>1, <1>2
    <3>3. \A k \in 1..(e + g) : q[k] # c
      BY <1>1, <2>5, <3>1, <3>2 DEF Distinct
    <3>4. 1..e \subseteq 1..(e + g) /\ (e + 1)..(e + g) \subseteq 1..(e + g)
      BY <1>2
    <3> QED BY <2>3, <2>5, <3>1, <3>3, <3>4
  <2> QED BY <2>1, <2>4, <2>5
<1>11. outcome' \in [Calls -> Outcomes]
  BY <1>4, <1>9
<1> QED BY <1>7, <1>8, <1>10, <1>11 DEF WaitersExact

\* The step that ends in a drain keeps everything.
LEMMA DrainKeeps ==
    ASSUME Bucket, History, RateKept, NEW q, NEW told, Sorted(q, told),
           deadlineAt' \in [Calls -> Nat], now' = now, drain(q, told)
    PROVE  Inv'
<1> DEFINE g == Runnable(q)
           r == refilled(now)
<1>1. q \in Seq(Calls) /\ Len(q) \in Nat /\ Move(q, told)
  BY LenProperties DEF Sorted, drain
<1>2. /\ g \in Nat /\ Cost(g) <= r /\ Expired(q) \in 0..Len(q)
      /\ Expired(q) + g < Len(q) => r - Cost(g) < PerToken
  BY <1>1, MovesOn DEF Cost
<1>3. Bucket' /\ History' /\ RateKept'
  <2>1. tokens' = r - Cost(g) /\ ts' = now /\ Granted(g)
    BY <1>1 DEF Move, Cost
  <2> HIDE DEF g, r
  <2> QED BY <1>2, <2>1, GrantedIs, TakeTokens DEF r
<1>4. Queue'
  BY <1>1, MoveKeeps DEF Queue
<1>5. Timer'
  <2>1. CASE waiters' = <<>>
    BY <2>1 DEF Timer, drain, NoTimer
  <2>2. CASE waiters' # <<>>
    <3>1. wakeAt' = NextWake(waiters', tokens')
      BY <2>2 DEF drain
    <3>2. waiters' = [i \in 1..(Len(q) - (Expired(q) + g)) |-> q[i + (Expired(q) + g)]]
      BY <1>1 DEF Move
    <3>3. Expired(q) + g < Len(q)
      <4>1. ASSUME ~(Expired(q) + g < Len(q)) PROVE FALSE
        <5>1. 1..(Len(q) - (Expired(q) + g)) = {}
          BY <1>1, <1>2, <4>1
        <5>2. waiters' = <<>>
          BY <3>2, <5>1
        <5> QED BY <2>2, <5>2
      <4> QED BY <4>1
    <3>4. tokens' < PerToken /\ tokens' \in Nat /\ ts' = now /\ now \in Nat /\ PerToken \in Nat
      <4>1. tokens' = r - Cost(g) /\ ts' = now
        BY <1>1 DEF Move, Cost
      <4>2. tokens' \in 0..Full
        BY <1>3 DEF Bucket, Full
      <4> QED BY <1>2, <3>3, <4>1, <4>2, FullBucket DEF Bucket
    <3>5. deadlineAt'[waiters'[1]] \in Nat
      <4>1. waiters' \in Seq(Calls)
        BY <1>4 DEF Queue
      <4>2. 1 \in 1..Len(waiters')
        BY <2>2, <4>1, LenProperties, EmptySeq
      <4>3. waiters'[1] \in Calls
        BY <4>1, <4>2, ElementOfSeq
      <4> QED BY <4>3
    <3>6. wakeAt' \in Nat /\ wakeAt' + tokens' <= now + PerToken
      <4> DEFINE held == tokens'
                 due == deadlineAt'[waiters'[1]]
      <4>1. held \in Nat /\ held < PerToken /\ due \in Nat
        BY <3>4, <3>5
      <4>2. wakeAt' = now + AtMost(PerToken - held, IF due - now < 1 THEN 1 ELSE due - now)
        BY <3>1 DEF NextWake
      <4> HIDE DEF held, due
      <4>3. now \in Nat /\ PerToken \in Nat
        BY <3>4
      <4>4. wakeAt' \in Nat /\ wakeAt' + held <= now + PerToken
        BY <4>1, <4>2, <4>3 DEF AtMost
      <4> QED BY <4>4 DEF held
    <3> QED BY <3>4, <3>6 DEF Timer
  <2> QED BY <2>1, <2>2
<1> QED BY <1>3, <1>4, <1>5 DEF Inv

-----------------------------------------------------------------------------
(* The steps.                                                              *)

\* Refilling the bucket early does not make the wake-up late.
LEMMA RefillKeepsTimer ==
    ASSUME Bucket, Timer, tokens' = refilled(now), ts' = now, UNCHANGED <<waiters, wakeAt>>
    PROVE  Timer'
<1>1. CASE waiters = <<>>
  BY <1>1 DEF Timer
<1>2. CASE waiters # <<>>
  <2>1. wakeAt \in Nat /\ (wakeAt <= ts \/ wakeAt + tokens <= ts + PerToken)
    BY <1>2 DEF Timer
  <2>2. wakeAt <= now \/ wakeAt + refilled(now) <= now + PerToken
    BY <2>1, Refilled, FullBucket DEF Bucket
  <2> QED BY <2>1, <2>2 DEF Timer
<1> QED BY <1>1, <1>2

\* A request that only refills the bucket.
LEMMA RefillKeeps ==
    ASSUME Bucket, History, RateKept, tokens' = refilled(now), ts' = now, now' = now,
           grants' = grants
    PROVE  Bucket' /\ History' /\ RateKept'
<1>1. Cost(0) = 0 /\ refilled(now) \in Nat
  BY FullBucket, Refilled DEF Cost
<1>2. Len(grants) \in Nat /\ grants \in Seq(Nat)
  BY LenProperties DEF History
<1>3. \A i \in 1..(Len(grants) + 0) :
         grants'[i] = IF i <= Len(grants) THEN grants[i] ELSE now
  BY <1>2
<1> QED BY <1>1, <1>2, <1>3, TakeTokens

\* The invariant holds at the start.
LEMMA InitInv == Init => Inv
<1> SUFFICES ASSUME Init PROVE Inv
  OBVIOUS
<1>1. Bucket
  BY FullBucket DEF Init, Bucket
<1>2. grants = <<>> /\ Len(grants) = 0 /\ grants \in Seq(Nat) /\ DOMAIN waiters = {}
  BY DEF Init
<1>3. History /\ RateKept
  BY <1>2 DEF History, RateKept
<1>4. WaitersExact
  BY <1>2 DEF Init, WaitersExact, Distinct, Listed, At
<1>5. Queue
  BY <1>4 DEF Init, Queue, Outcomes
<1>6. Timer
  BY DEF Init, Timer, NoTimer
<1> QED BY <1>1, <1>3, <1>5, <1>6 DEF Inv

\* Every step keeps the invariant.
LEMMA NextInv == Inv /\ [Next]_vars => Inv'
<1> SUFFICES ASSUME Inv, [Next]_vars PROVE Inv'
  OBVIOUS
<1>1. Bucket /\ History /\ RateKept /\ Queue /\ Timer
  BY DEF Inv
<1>2. Sorted(waiters, outcome) /\ waiters \in Seq(Calls) /\ deadlineAt \in [Calls -> Nat]
  BY <1>1 DEF Queue, WaitersExact, Sorted
<1>3. ASSUME NEW c \in Calls, AcquireAborted(c) PROVE Inv'
  <2>1. Bucket' /\ History' /\ RateKept' /\ Timer'
    BY <1>1, <1>3, FullBucket DEF AcquireAborted, Bucket, History, RateKept, Timer, Full
  <2>2. Queue'
    BY <1>1, <1>3 DEF AcquireAborted, Queue, WaitersExact, Outcomes
  <2> QED BY <2>1, <2>2 DEF Inv
<1>4. ASSUME NEW c \in Calls, AcquireImmediately(c) PROVE Inv'
  <2>1. waiters = <<>> /\ PerToken <= refilled(now)
    BY <1>1, <1>4, FullBucket, Refilled DEF AcquireImmediately, Immediate
  <2>2. Cost(1) = PerToken
    BY FullBucket DEF Cost
  <2>3. /\ tokens' = refilled(now) - Cost(1) /\ ts' = now /\ now' = now
        /\ Granted(1) /\ Cost(1) <= refilled(now)
    BY <1>4, <2>1, <2>2 DEF AcquireImmediately
  <2>4. Bucket' /\ History' /\ RateKept'
    BY <1>1, <2>3, GrantedIs, TakeTokens
  <2>5. Queue' /\ Timer'
    BY <1>1, <1>4, <2>1
    DEF AcquireImmediately, Queue, WaitersExact, Outcomes, Timer
  <2> QED BY <2>4, <2>5 DEF Inv
<1>5. ASSUME NEW c \in Calls, NEW maxWait \in Waits, AcquireRefused(c, maxWait) PROVE Inv'
  <2>1. Bucket' /\ History' /\ RateKept' /\ Timer'
    BY <1>1, <1>5, RefillKeeps, RefillKeepsTimer DEF AcquireRefused
  <2>2. Queue'
    BY <1>1, <1>5 DEF AcquireRefused, Queue, WaitersExact, Outcomes
  <2> QED BY <2>1, <2>2 DEF Inv
<1>6. ASSUME NEW c \in Calls, NEW maxWait \in Waits, AcquireQueued(c, maxWait) PROVE Inv'
  <2> DEFINE q == Append(waiters, c)
             told == [outcome EXCEPT ![c] = "waiting"]
  <2>1. maxWait \in Nat /\ now \in Nat
    BY <1>1, LimiterConfig DEF LimiterConfig, Bucket
  <2>2. deadlineAt' \in [Calls -> Nat]
    BY <1>2, <1>6, <2>1 DEF AcquireQueued
  <2>3. ~Listed(waiters, c)
    BY <1>1, <1>6 DEF AcquireQueued, Queue, WaitersExact
  <2>4. /\ \A y : Listed(q, y) <=> Listed(waiters, y) \/ y = c
        /\ Distinct(q) /\ q \in Seq(Calls)
    BY <1>1, <1>2, <2>3, AppendKeeps DEF Queue, WaitersExact
  <2>5. told \in [Calls -> Outcomes] /\ \A d \in Calls : told[d] = "waiting" <=> Listed(q, d)
    BY <1>1, <2>4 DEF Queue, WaitersExact, Outcomes
  <2>6. Sorted(q, told)
    BY <2>4, <2>5 DEF Sorted
  <2>7. drain(q, told) /\ now' = now
    BY <1>6 DEF AcquireQueued
  <2> HIDE DEF q, told
  <2> QED BY <1>1, <2>2, <2>6, <2>7, DrainKeeps
<1>7. ASSUME NEW c \in Calls, NEW why \in Outcomes, why # "waiting",
             rejectAndRemove(c, why)
      PROVE  Inv'
  <2> DEFINE q == Without(waiters, c)
             told == [outcome EXCEPT ![c] = why]
  <2>1. /\ q \in Seq(Calls) /\ Distinct(q)
        /\ \A y : Listed(q, y) <=> Listed(waiters, y) /\ y # c
    BY <1>1, <1>2, WithoutKeeps DEF Queue, WaitersExact
  <2>2. told \in [Calls -> Outcomes] /\ \A d \in Calls : told[d] = "waiting" <=> Listed(q, d)
    BY <1>1, <1>7, <2>1 DEF Queue, WaitersExact
  <2>3. Sorted(q, told)
    BY <2>1, <2>2 DEF Sorted
  <2>4. drain(q, told) /\ now' = now /\ deadlineAt' \in [Calls -> Nat]
    BY <1>2, <1>7 DEF rejectAndRemove
  <2> HIDE DEF q, told
  <2> QED BY <1>1, <2>3, <2>4, DrainKeeps
<1>8. ASSUME NEW c \in Calls, TimeoutFires(c) PROVE Inv'
  BY <1>7, <1>8 DEF TimeoutFires, Outcomes
<1>9. ASSUME NEW c \in Calls, Abort(c) PROVE Inv'
  BY <1>7, <1>9 DEF Abort, Outcomes
<1>10. CASE WakeTimerFires
  <2>1. drain(waiters, outcome) /\ now' = now /\ deadlineAt' \in [Calls -> Nat]
    BY <1>2, <1>10 DEF WakeTimerFires
  <2> QED BY <1>1, <1>2, <2>1, DrainKeeps
<1>11. CASE snapshot
  <2>1. Bucket' /\ History' /\ RateKept' /\ Timer'
    BY <1>1, <1>11, RefillKeeps, RefillKeepsTimer DEF snapshot
  <2>2. Queue'
    BY <1>1, <1>11 DEF snapshot, Queue, WaitersExact
  <2> QED BY <2>1, <2>2 DEF Inv
<1>12. CASE close
  <2>1. Bucket' /\ History' /\ RateKept'
    BY <1>1, <1>12 DEF close, Bucket, History, RateKept, Full
  <2>2. waiters' = <<>> /\ DOMAIN waiters' = {}
    BY <1>12 DEF close
  <2>3. Timer'
    BY <1>12, <2>2 DEF close, Timer
  <2>4. outcome' \in [Calls -> Outcomes] /\ \A c \in Calls : outcome'[c] # "waiting"
    BY <1>1, <1>12 DEF close, Queue, Outcomes
  <2>5. WaitersExact'
    BY <2>2, <2>4 DEF WaitersExact, Distinct, Listed, At
  <2>6. Queue'
    BY <1>2, <1>12, <2>2, <2>4, <2>5 DEF close, Queue
  <2> QED BY <2>1, <2>3, <2>6 DEF Inv
<1>13. CASE Tick
  <2>1. now' = now + 1 /\ UNCHANGED <<tokens, ts, waiters, deadlineAt, wakeAt, outcome, grants>>
    BY <1>13 DEF Tick
  <2>2. Bucket'
    BY <1>1, <2>1 DEF Bucket, Full
  <2>3. History' /\ RateKept' /\ Queue' /\ Timer'
    BY <1>1, <2>1 DEF History, RateKept, Queue, WaitersExact, Timer, Full
  <2> QED BY <2>2, <2>3 DEF Inv
<1>14. CASE UNCHANGED vars
  BY <1>1, <1>14 DEF vars, Inv, Bucket, History, RateKept, Queue, WaitersExact, Timer, Full
<1> QED BY <1>3, <1>4, <1>5, <1>6, <1>8, <1>9, <1>10, <1>11, <1>12, <1>13, <1>14 DEF Next

-----------------------------------------------------------------------------
\* What each property needs of the invariant.
LEMMA InvType == Inv => TypeOK
<1> SUFFICES ASSUME Inv PROVE TypeOK
  OBVIOUS
<1>1. grants \in Seq(Nat) /\ Len(grants) \in Nat /\ DOMAIN grants = 1..Len(grants)
  BY LenProperties DEF Inv, History
<1> QED BY <1>1 DEF Inv, Bucket, Queue, Timer, TypeOK

\* The invariant says that a token that comes wakes the queue.
LEMMA InvWake == Inv => TokenWakesQueue
<1> SUFFICES ASSUME Inv, waiters # <<>>, refilled(now) >= PerToken
             PROVE  wakeAt \in 0..now
  BY DEF TokenWakesQueue
<1>1. Bucket /\ wakeAt \in Nat /\ (wakeAt <= ts \/ wakeAt + tokens <= ts + PerToken)
  BY DEF Inv, Timer
<1> QED BY <1>1, Refilled, FullBucket DEF Bucket

\* Types: the bucket never overfills or runs into debt, and the wake-up
\* timer, once set, is set for a real time.
THEOREM TypeCorrect == Spec => []TypeOK
<1>1. Init => Inv  BY InitInv
<1>2. Inv /\ [Next]_vars => Inv'  BY NextInv
<1>3. Inv => TypeOK  BY InvType
<1> QED BY <1>1, <1>2, <1>3, PTL DEF Spec

\* The queue holds exactly the calls that wait: whoever timed out, was
\* cancelled or closed is never let through later.
THEOREM WaitersCorrect == Spec => []WaitersExact
<1>1. Init => Inv  BY InitInv
<1>2. Inv /\ [Next]_vars => Inv'  BY NextInv
<1>3. Inv => WaitersExact  BY DEF Inv, Queue
<1> QED BY <1>1, <1>2, <1>3, PTL DEF Spec

\* The rate: in every stretch of time no more requests are let through than a
\* full bucket and the tokens earned in that time, whoever lets them through.
THEOREM RateCorrect == Spec => []RateKept
<1>1. Init => Inv  BY InitInv
<1>2. Inv /\ [Next]_vars => Inv'  BY NextInv
<1>3. Inv => RateKept  BY DEF Inv
<1> QED BY <1>1, <1>2, <1>3, PTL DEF Spec

\* No lost wake-up: when a queue waits and a token is there, the wake-up timer
\* has run out, whatever acquire, abort and snapshot did since it was set.
THEOREM WakeUpCorrect == Spec => []TokenWakesQueue
<1>1. Init => Inv  BY InitInv
<1>2. Inv /\ [Next]_vars => Inv'  BY NextInv
<1>3. Inv => TokenWakesQueue  BY InvWake
<1> QED BY <1>1, <1>2, <1>3, PTL DEF Spec


-----------------------------------------------------------------------------
(* The usage ledger.                                                       *)

\* What a call may reserve.
Reservable == {input.amount : input \in Inputs} \cup {row.reserved : row \in Legacy}

\* Providers report no more than was reserved for a call.
ReportsWithin ==
    \A most \in Reservable : \A actual \in ActualsFor(most) :
        actual \in Ledger!Amounts /\ \A x \in Axes : actual[x] <= most[x]

IsUsageRow(row) ==
    /\ {"installation", "capability", "fingerprint", "account", "state",
        "period", "token", "reserved", "actual"} \subseteq DOMAIN row
    /\ row.state \in Ledger!UsageState
    /\ row.reserved \in Reservable /\ row.actual \in Ledger!Amounts

\* The rows are numbered, no two alike.
IsUsageTable(l, day) ==
    /\ IsFiniteSet(DOMAIN l) /\ DOMAIN l \subseteq Ledger!Keys
    /\ \A k \in DOMAIN l : /\ IsUsageRow(l[k])
                           /\ l[k].period \in 0..day
                           /\ l[k].token \in 1..Cardinality(DOMAIN l)
    /\ \A j, k \in DOMAIN l : l[j].token = l[k].token => j = k

\* A table stays one as the days pass.
LEMMA TableLater ==
    ASSUME NEW l, NEW day \in Nat, NEW later \in Nat, day <= later, IsUsageTable(l, day)
    PROVE  IsUsageTable(l, later)
<1>1. 0..day \subseteq 0..later
  OBVIOUS
<1> QED BY <1>1 DEF IsUsageTable

\* What a row counts for, on one axis.
Counts(l, x) == [k \in DOMAIN l |-> Ledger!counted(l[k])[x]]

\* The rows of a day that count for a principal, and for an installation, but
\* for the rows s that were booked across midnight.
OfPrincipal(l, s, day, capability, p) == Ledger!RowsOf(l, day, capability, p) \ s
OfInstallation(l, s, day, capability, p, i) ==
    {k \in OfPrincipal(l, s, day, capability, p) : l[k].installation = i}

WithinQuota(l, s) ==
    \A k \in DOMAIN l \ s, x \in Axes : l[k].account # Ledger!LegacyAccount =>
       /\ Total(Counts(l, x), OfPrincipal(l, s, l[k].period, l[k].capability, k.principal))
             <= PrincipalLimit[x]
       /\ Total(Counts(l, x), OfInstallation(l, s, l[k].period, l[k].capability, k.principal,
                                             l[k].installation))
             <= InstallationLimit[x]

\* A row booked across midnight is the only one of a day that is over, and
\* allowed by itself.
Straddlers(l, s, day) ==
    /\ s \subseteq DOMAIN l
    /\ \A k \in s :
          /\ l[k].period < day
          /\ \A j \in s : l[j].period = l[k].period => j = k
          /\ \A x \in Axes : /\ l[k].reserved[x] <= PrincipalLimit[x]
                             /\ l[k].reserved[x] <= InstallationLimit[x]

LedgerInv ==
    /\ today \in 1..Days
    /\ IsUsageTable(ledger, today)
    /\ WithinQuota(ledger, straddling)
    /\ Straddlers(ledger, straddling, today)

\* What the ledger is configured with.
LEMMA LedgerLimits ==
    /\ Days \in Nat \ {0}
    /\ PrincipalLimit \in [Axes -> Nat] /\ InstallationLimit \in [Axes -> Nat]
    /\ \A input \in Inputs : input.amount \in Ledger!Amounts /\ input.account # Ledger!LegacyAccount
    /\ \A row \in Legacy : IsUsageRow(row) /\ row.account = Ledger!LegacyAccount
                           /\ row.period \in 0..1 /\ row.token = 1
BY PartsConfig DEF Ledger!LedgerConfig, IsUsageRow, Reservable

\* Reservations are amounts.
LEMMA ReservableAmounts == \A most \in Reservable : most \in Ledger!Amounts
BY PartsConfig DEF Ledger!LedgerConfig, Reservable

\* Rows count for natural numbers.
LEMMA RowsWeigh ==
    ASSUME NEW l, NEW day, IsUsageTable(l, day), NEW S, S \subseteq DOMAIN l, NEW x \in Axes
    PROVE  Weighs(Counts(l, x), S)
<1>1. IsFiniteSet(S)
  BY FS_Subset DEF IsUsageTable
<1>2. ASSUME NEW k \in S PROVE Counts(l, x)[k] \in Nat
  <2>1. l[k].reserved \in Ledger!Amounts /\ l[k].actual \in Ledger!Amounts
    BY ReservableAmounts DEF IsUsageTable, IsUsageRow
  <2> QED BY <2>1 DEF Counts, Ledger!counted, Ledger!Amounts
<1> QED BY <1>1, <1>2 DEF Weighs

\* What the ledger adds up is the sum of what its rows count for.
LEMMA SpentIsTotal ==
    ASSUME NEW l, NEW day, IsUsageTable(l, day), NEW S, S \subseteq DOMAIN l, NEW x \in Axes
    PROVE  Ledger!Spent(l, S, x) = Total(Counts(l, x), S)
<1> DEFINE w == Counts(l, x)
           Sums(f) == f = [s \in SUBSET S |-> IF s = {} THEN 0
                              ELSE Ledger!counted(l[Pick(s)])[x] + f[s \ {Pick(s)}]]
           g == CHOOSE f : Sums(f)
<1>1. Ledger!Spent(l, S, x) = g[S]
  BY DEF Ledger!Spent, Ledger!MapThenSumSet, Ledger!MapThenFoldSet, Pick
<1>2. \A s \in SUBSET S : s # {} => w[Pick(s)] = Ledger!counted(l[Pick(s)])[x]
  BY PickIn DEF Counts
<1>3. \A f : Sums(f) <=> SumsUp(f, w, S)
  BY <1>2 DEF SumsUp
<1>4. Weighs(w, S)
  BY RowsWeigh
<1>5. PICK f : SumsUp(f, w, S)
  BY <1>4, SumExists
<1>6. SumsUp(g, w, S)
  BY <1>3, <1>5
<1> HIDE DEF g, w
<1>7. g[S] = Total(w, S)
  BY <1>4, <1>6, TotalIs
<1> QED BY <1>1, <1>7 DEF w

\* An old database is a table, and no row of it says what its account was.
LEMMA LedgerInvInit == Ledger!Init => LedgerInv
<1> SUFFICES ASSUME Ledger!Init PROVE LedgerInv
  OBVIOUS
<1>1. today = 1 /\ today \in 1..Days
  BY LedgerLimits DEF Ledger!Init
<1>2. CASE DOMAIN ledger = {}
  <2>1. IsUsageTable(ledger, today)
    BY <1>2, FS_EmptySet DEF IsUsageTable
  <2> QED BY <1>1, <1>2, <2>1 DEF LedgerInv, WithinQuota, Straddlers, Ledger!Init
<1>3. ASSUME NEW row \in Legacy, ledger = [k \in {row.key} |-> row] PROVE LedgerInv
  <2>1. DOMAIN ledger = {row.key} /\ ledger[row.key] = row
    BY <1>3
  <2>2. IsFiniteSet(DOMAIN ledger) /\ Cardinality(DOMAIN ledger) = 1
    BY <2>1, FS_Singleton
  <2>3. IsUsageTable(ledger, today)
    BY <1>1, <2>1, <2>2, LedgerLimits DEF IsUsageTable, Ledger!Keys
  <2> QED BY <1>1, <2>1, <2>3, LedgerLimits DEF LedgerInv, WithinQuota, Straddlers, Ledger!Init
<1> QED BY <1>2, <1>3 DEF Ledger!Init, Ledger!LegacyLedgers

-----------------------------------------------------------------------------
(* Finalising a row.                                                       *)

\* One row gets its outcome, if it had none.
Finalizes(l, m, k, state, actual) ==
    /\ DOMAIN m = DOMAIN l
    /\ \A j \in DOMAIN l \ {k} : m[j] = l[j]
    /\ m[k] = IF l[k].state = "reserved" THEN Ledger!finalizeRow(l[k], state, actual) ELSE l[k]

\* The token finds the row of its own operation only.
LEMMA FinalizeIs ==
    ASSUME NEW l, NEW day, IsUsageTable(l, day), NEW k \in DOMAIN l, NEW state, NEW actual
    PROVE  Finalizes(l, Ledger!finalize(l, k.operation, l[k].token, state, actual), k, state, actual)
BY DEF Finalizes, Ledger!finalize, IsUsageTable

\* The fields a final row keeps, and those it gets.
LEMMA FinalRow ==
    ASSUME NEW row, IsUsageRow(row), NEW state \in Ledger!UsageState, NEW actual \in Ledger!Amounts,
           NEW fin, fin = Ledger!finalizeRow(row, state, actual)
    PROVE  /\ IsUsageRow(fin)
           /\ fin.state = state /\ fin.actual = actual
           /\ fin.reserved = row.reserved /\ fin.period = row.period
           /\ fin.installation = row.installation /\ fin.capability = row.capability
           /\ fin.account = row.account /\ fin.token = row.token
BY DEF IsUsageRow, Ledger!finalizeRow

\* A table whose rows count for no more than before stays within the quota.
LEMMA QuotaStays ==
    ASSUME NEW l, NEW m, NEW s, NEW day, IsUsageTable(l, day), IsUsageTable(m, day),
           DOMAIN m = DOMAIN l, WithinQuota(l, s),
           \A k \in DOMAIN l :
              /\ m[k].period = l[k].period /\ m[k].installation = l[k].installation
              /\ m[k].capability = l[k].capability /\ m[k].account = l[k].account
              /\ l[k].state = "released" => m[k].state = "released"
              /\ m[k].state # "released" => \A x \in Axes : Counts(m, x)[k] <= Counts(l, x)[k]
    PROVE  WithinQuota(m, s)
<1> SUFFICES ASSUME NEW k \in DOMAIN m \ s, NEW x \in Axes, m[k].account # Ledger!LegacyAccount
             PROVE  /\ Total(Counts(m, x), OfPrincipal(m, s, m[k].period, m[k].capability, k.principal))
                          <= PrincipalLimit[x]
                    /\ Total(Counts(m, x), OfInstallation(m, s, m[k].period, m[k].capability,
                                                          k.principal, m[k].installation))
                          <= InstallationLimit[x]
  BY DEF WithinQuota
<1> DEFINE P == OfPrincipal(l, s, l[k].period, l[k].capability, k.principal)
           I == OfInstallation(l, s, l[k].period, l[k].capability, k.principal, l[k].installation)
           P1 == OfPrincipal(m, s, m[k].period, m[k].capability, k.principal)
           I1 == OfInstallation(m, s, m[k].period, m[k].capability, k.principal, m[k].installation)
<1>1. P1 \subseteq P /\ I1 \subseteq I /\ P \subseteq DOMAIN l /\ I \subseteq DOMAIN l
  BY DEF OfPrincipal, OfInstallation, Ledger!RowsOf
<1>2. \A j \in P1 \cup I1 : j \in DOMAIN l /\ m[j].state # "released"
  BY DEF OfPrincipal, OfInstallation, Ledger!RowsOf
<1>3. /\ Total(Counts(l, x), P) <= PrincipalLimit[x] /\ Total(Counts(l, x), I) <= InstallationLimit[x]
  BY DEF WithinQuota
<1> HIDE DEF P, I, P1, I1
<1>4. /\ Weighs(Counts(l, x), P) /\ Weighs(Counts(l, x), I)
      /\ Weighs(Counts(m, x), P1) /\ Weighs(Counts(m, x), I1)
  BY <1>1, RowsWeigh
<1>5. /\ Total(Counts(m, x), P1) <= Total(Counts(l, x), P)
      /\ Total(Counts(m, x), I1) <= Total(Counts(l, x), I)
  BY <1>1, <1>2, <1>4, TotalMonotone
<1>6. /\ Total(Counts(m, x), P1) \in Nat /\ Total(Counts(l, x), P) \in Nat
      /\ Total(Counts(m, x), I1) \in Nat /\ Total(Counts(l, x), I) \in Nat
  BY <1>4, TotalIs
<1>7. PrincipalLimit[x] \in Nat /\ InstallationLimit[x] \in Nat
  BY LedgerLimits
<1> QED BY <1>3, <1>5, <1>6, <1>7 DEF P1, I1

\* A row that gets its outcome counts for no more than its reservation.
LEMMA FinalizeKeeps ==
    ASSUME LedgerInv, NEW k \in DOMAIN ledger, NEW state \in Ledger!UsageState \ {"reserved"},
           NEW actual \in Ledger!Amounts,
           \A x \in Axes : state = "settled" => actual[x] <= ledger[k].reserved[x],
           NEW m, m = Ledger!finalize(ledger, k.operation, ledger[k].token, state, actual)
    PROVE  /\ IsUsageTable(m, today) /\ WithinQuota(m, straddling)
           /\ Straddlers(m, straddling, today)
<1>1. /\ IsUsageTable(ledger, today) /\ WithinQuota(ledger, straddling)
      /\ Straddlers(ledger, straddling, today)
  BY DEF LedgerInv
<1>2. Finalizes(ledger, m, k, state, actual)
  BY <1>1, FinalizeIs
<1>3. IsUsageRow(ledger[k])
  BY <1>1 DEF IsUsageTable
<1>4. /\ IsUsageRow(m[k]) /\ m[k].reserved = ledger[k].reserved /\ m[k].period = ledger[k].period
      /\ m[k].installation = ledger[k].installation /\ m[k].capability = ledger[k].capability
      /\ m[k].account = ledger[k].account /\ m[k].token = ledger[k].token
      /\ \/ m[k] = ledger[k]
         \/ ledger[k].state = "reserved" /\ m[k].state = state /\ m[k].actual = actual
  <2>1. CASE ledger[k].state = "reserved"
    <3>1. m[k] = Ledger!finalizeRow(ledger[k], state, actual)
      BY <1>2, <2>1 DEF Finalizes
    <3> QED BY <1>3, <2>1, <3>1, FinalRow
  <2>2. CASE ledger[k].state # "reserved"
    BY <1>2, <1>3, <2>2 DEF Finalizes
  <2> QED BY <2>1, <2>2
<1>5. DOMAIN m = DOMAIN ledger /\ \A j \in DOMAIN ledger : j # k => m[j] = ledger[j]
  BY <1>2 DEF Finalizes
<1>6. IsUsageTable(m, today)
  BY <1>1, <1>4, <1>5 DEF IsUsageTable
<1>7. ASSUME NEW j \in DOMAIN ledger
      PROVE  /\ m[j].period = ledger[j].period /\ m[j].installation = ledger[j].installation
             /\ m[j].capability = ledger[j].capability /\ m[j].account = ledger[j].account
             /\ ledger[j].state = "released" => m[j].state = "released"
             /\ \A x \in Axes : Counts(m, x)[j] <= Counts(ledger, x)[j]
  <2>1. \A x \in Axes : /\ Counts(ledger, x)[j] \in Nat
                        /\ ledger[j].reserved[x] \in Nat
    BY <1>1, RowsWeigh, ReservableAmounts DEF Weighs, IsUsageTable, IsUsageRow, Ledger!Amounts
  <2>2. CASE j # k \/ m[k] = ledger[k]
    BY <1>5, <2>1, <2>2 DEF Counts
  <2>3. CASE j = k /\ ledger[k].state = "reserved" /\ m[k].state = state /\ m[k].actual = actual
    BY <1>4, <1>5, <2>1, <2>3 DEF Counts, Ledger!counted
  <2> QED BY <1>4, <2>2, <2>3
<1>8. WithinQuota(m, straddling)
  BY <1>1, <1>5, <1>6, <1>7, QuotaStays
<1>9. \A j \in DOMAIN ledger : m[j].reserved = ledger[j].reserved
  BY <1>4, <1>5
<1>10. Straddlers(m, straddling, today)
  BY <1>1, <1>5, <1>7, <1>9 DEF Straddlers
<1> QED BY <1>6, <1>8, <1>10

-----------------------------------------------------------------------------
(* Reserving.                                                              *)

\* The table with one row more.
LEMMA ReservedTable ==
    ASSUME LedgerInv, NEW input \in Inputs, Ledger!Reserve(input)
    PROVE  LET k == Ledger!Key(input)
           IN  /\ k \notin DOMAIN ledger /\ k \in DOMAIN ledger'
               /\ DOMAIN ledger' = DOMAIN ledger \cup {k}
               /\ \A j \in DOMAIN ledger : ledger'[j] = ledger[j]
               /\ ledger'[k] = Ledger!RowFor(input, today, Cardinality(DOMAIN ledger) + 1)
               /\ IsUsageTable(ledger', today)
<1> DEFINE k == Ledger!Key(input)
<1>0. Ledger!Cardinality(DOMAIN ledger) = Cardinality(DOMAIN ledger)
  BY DEF Ledger!Cardinality, Cardinality
<1>1. k \notin DOMAIN ledger /\ ledger' = Ledger!reserve(ledger, today, input)
  BY DEF Ledger!Reserve, Ledger!reserveOutcome
<1>2. /\ DOMAIN ledger' = DOMAIN ledger \cup {k}
      /\ \A j \in DOMAIN ledger : ledger'[j] = ledger[j]
      /\ ledger'[k] = Ledger!RowFor(input, today, Cardinality(DOMAIN ledger) + 1)
  BY <1>0, <1>1 DEF Ledger!reserve
<1>3. /\ IsFiniteSet(DOMAIN ledger) /\ DOMAIN ledger \subseteq Ledger!Keys /\ k \in Ledger!Keys
      /\ today \in 1..Days
  BY DEF LedgerInv, IsUsageTable, Ledger!Keys
<1>4. /\ IsFiniteSet(DOMAIN ledger') /\ Cardinality(DOMAIN ledger') = Cardinality(DOMAIN ledger) + 1
      /\ Cardinality(DOMAIN ledger) \in Nat
  BY <1>1, <1>2, <1>3, FS_AddElement, FS_CardinalityType
<1>5. Ledger!Zero \in Ledger!Amounts
  BY DEF Ledger!Zero, Ledger!Amounts
<1>6. IsUsageRow(ledger'[k]) /\ ledger'[k].period \in 0..today
  BY <1>2, <1>3, <1>5, LedgerLimits DEF IsUsageRow, Ledger!RowFor, Ledger!UsageState, Reservable
<1>7. ledger'[k].token = Cardinality(DOMAIN ledger) + 1
  BY <1>2 DEF Ledger!RowFor
<1>8. \A j \in DOMAIN ledger : /\ IsUsageRow(ledger[j]) /\ ledger[j].period \in 0..today
                              /\ ledger[j].token \in 1..Cardinality(DOMAIN ledger)
  BY DEF LedgerInv, IsUsageTable
<1>9. \A i, j \in DOMAIN ledger : ledger[j].token = ledger[i].token => j = i
  BY DEF LedgerInv, IsUsageTable
<1> HIDE DEF k
<1>10. \A i, j \in DOMAIN ledger' : ledger'[j].token = ledger'[i].token => j = i
  BY <1>2, <1>4, <1>7, <1>8, <1>9
<1>11. IsUsageTable(ledger', today)
  <2>1. \A j \in DOMAIN ledger' : /\ IsUsageRow(ledger'[j]) /\ ledger'[j].period \in 0..today
                                 /\ ledger'[j].token \in 1..Cardinality(DOMAIN ledger')
    BY <1>2, <1>4, <1>6, <1>7, <1>8
  <2> QED BY <1>2, <1>3, <1>4, <1>10, <2>1 DEF IsUsageTable
<1> QED BY <1>1, <1>2, <1>11 DEF k

\* The rows there were count as before, and the new one for what it reserves.
LEMMA TotalWithRow ==
    ASSUME NEW l, NEW m, NEW day, IsUsageTable(l, day), IsUsageTable(m, day), NEW u,
           u \notin DOMAIN l, DOMAIN m = DOMAIN l \cup {u}, \A j \in DOMAIN l : m[j] = l[j],
           NEW x \in Axes, NEW S, S \subseteq DOMAIN l
    PROVE  /\ Total(Counts(m, x), S) = Total(Counts(l, x), S)
           /\ Total(Counts(m, x), S \cup {u}) = Counts(m, x)[u] + Total(Counts(l, x), S)
<1>1. Weighs(Counts(l, x), S) /\ Weighs(Counts(m, x), S \cup {u})
  BY RowsWeigh
<1>2. \A j \in S : Counts(m, x)[j] = Counts(l, x)[j]
  BY DEF Counts
<1>3. Total(Counts(m, x), S) = Total(Counts(l, x), S)
  BY <1>1, <1>2, TotalSame
<1>4. (S \cup {u}) \ {u} = S
  OBVIOUS
<1>5. Total(Counts(m, x), S \cup {u}) = Counts(m, x)[u] + Total(Counts(m, x), S)
  BY <1>1, <1>4, TotalWith
<1> QED BY <1>3, <1>5

\* assertWithinBudget: a reservation leaves the sums within the limits.
LEMMA ReserveWithinQuota ==
    ASSUME LedgerInv, NEW input \in Inputs, Ledger!Reserve(input),
           Ledger!withinBudget(ledger, today, today, input)
    PROVE  IsUsageTable(ledger', today) /\ WithinQuota(ledger', straddling)
<1> DEFINE u == Ledger!Key(input)
           p == input.principal
           i == input.installation
           c == input.capability
           P == OfPrincipal(ledger, straddling, today, c, p)
           I == OfInstallation(ledger, straddling, today, c, p, i)
<1>1. /\ u \notin DOMAIN ledger /\ DOMAIN ledger' = DOMAIN ledger \cup {u}
      /\ \A j \in DOMAIN ledger : ledger'[j] = ledger[j]
      /\ ledger'[u] = Ledger!RowFor(input, today, Cardinality(DOMAIN ledger) + 1)
      /\ IsUsageTable(ledger', today) /\ IsUsageTable(ledger, today) /\ WithinQuota(ledger, straddling)
      /\ Straddlers(ledger, straddling, today) /\ today \in Nat
  BY ReservedTable, LedgerLimits DEF LedgerInv
<1>2. /\ ledger'[u].state = "reserved" /\ ledger'[u].installation = i
      /\ ledger'[u].capability = c /\ ledger'[u].period = today /\ u \notin straddling
      /\ u.principal = p /\ \A x \in Axes : Counts(ledger', x)[u] = input.amount[x]
  BY <1>1 DEF Ledger!RowFor, Ledger!Key, Counts, Ledger!counted, Straddlers
<1>3. ASSUME NEW x \in Axes
      PROVE  /\ Ledger!Spent(ledger, P, x) + input.amount[x] <= PrincipalLimit[x]
             /\ Ledger!Spent(ledger, I, x) + input.amount[x] <= InstallationLimit[x]
  <2>1. P = Ledger!RowsOf(ledger, today, c, p)
    BY <1>1 DEF OfPrincipal, Ledger!RowsOf, Straddlers
  <2>2. I = {k \in P : ledger[k].installation = i}
    BY DEF OfInstallation
  <2> HIDE DEF P, I
  <2> QED BY <2>1, <2>2 DEF Ledger!withinBudget, Ledger!Considered, Ledger!Fits
<1>4. P \subseteq DOMAIN ledger /\ I \subseteq DOMAIN ledger
  BY DEF OfPrincipal, OfInstallation, Ledger!RowsOf
<1>5. ASSUME NEW x \in Axes
      PROVE  /\ Total(Counts(ledger, x), P) + input.amount[x] <= PrincipalLimit[x]
             /\ Total(Counts(ledger, x), I) + input.amount[x] <= InstallationLimit[x]
             /\ Total(Counts(ledger, x), P) \in Nat /\ Total(Counts(ledger, x), I) \in Nat
             /\ input.amount[x] \in Nat
             /\ PrincipalLimit[x] \in Nat /\ InstallationLimit[x] \in Nat
  BY <1>1, <1>3, <1>4, SpentIsTotal, RowsWeigh, TotalIs, LedgerLimits DEF Ledger!Amounts
<1>6. /\ OfPrincipal(ledger', straddling, today, c, p) = P \cup {u}
      /\ OfInstallation(ledger', straddling, today, c, p, i) = I \cup {u}
  BY <1>1, <1>2 DEF OfPrincipal, OfInstallation, Ledger!RowsOf
<1>7. \A day, d, q, j :
         /\ <<day, d, q>> # <<today, c, p>> =>
               OfPrincipal(ledger', straddling, day, d, q) = OfPrincipal(ledger, straddling, day, d, q)
         /\ <<day, d, q, j>> # <<today, c, p, i>> =>
               OfInstallation(ledger', straddling, day, d, q, j) = OfInstallation(ledger, straddling, day, d, q, j)
  BY <1>1, <1>2 DEF OfPrincipal, OfInstallation, Ledger!RowsOf
<1>8. ASSUME NEW x \in Axes, NEW S, S \subseteq DOMAIN ledger
      PROVE  /\ Total(Counts(ledger', x), S) = Total(Counts(ledger, x), S)
             /\ Total(Counts(ledger', x), S \cup {u}) = input.amount[x] + Total(Counts(ledger, x), S)
  <2> DEFINE m == ledger'
  <2>1. /\ IsUsageTable(ledger, today) /\ IsUsageTable(m, today)
        /\ u \notin DOMAIN ledger /\ DOMAIN m = DOMAIN ledger \cup {u}
        /\ \A j \in DOMAIN ledger : m[j] = ledger[j]
    BY <1>1
  <2>2. Counts(m, x)[u] = input.amount[x]
    BY <1>2
  <2> HIDE DEF u, m
  <2>3. /\ Total(Counts(m, x), S) = Total(Counts(ledger, x), S)
        /\ Total(Counts(m, x), S \cup {u}) = Counts(m, x)[u] + Total(Counts(ledger, x), S)
    BY <1>8, <2>1, TotalWithRow
  <2> QED BY <2>2, <2>3 DEF m
<1> SUFFICES ASSUME NEW k \in DOMAIN ledger' \ straddling, NEW x \in Axes,
                    ledger'[k].account # Ledger!LegacyAccount
             PROVE  /\ Total(Counts(ledger', x), OfPrincipal(ledger', straddling, ledger'[k].period,
                                                    ledger'[k].capability, k.principal))
                          <= PrincipalLimit[x]
                    /\ Total(Counts(ledger', x), OfInstallation(ledger', straddling, ledger'[k].period,
                                                    ledger'[k].capability, k.principal,
                                                    ledger'[k].installation))
                          <= InstallationLimit[x]
  BY <1>1 DEF WithinQuota
<1> DEFINE day == ledger'[k].period
           d == ledger'[k].capability
           q == k.principal
           j == ledger'[k].installation
<1>9. /\ (k = u) \/ (k \in DOMAIN ledger /\ ledger'[k] = ledger[k])
      /\ k = u => day = today /\ d = c /\ q = p /\ j = i
  BY <1>1, <1>2
<1>10. /\ OfPrincipal(ledger, straddling, day, d, q) \subseteq DOMAIN ledger
       /\ OfInstallation(ledger, straddling, day, d, q, j) \subseteq DOMAIN ledger
  BY DEF OfPrincipal, OfInstallation, Ledger!RowsOf
<1>11. Total(Counts(ledger', x), OfPrincipal(ledger', straddling, day, d, q)) <= PrincipalLimit[x]
  <2>1. CASE <<day, d, q>> = <<today, c, p>>
    <3>1. Total(Counts(ledger', x), P \cup {u}) = input.amount[x] + Total(Counts(ledger, x), P)
      BY <1>4, <1>8
    <3>2. OfPrincipal(ledger', straddling, day, d, q) = P \cup {u}
      BY <1>6, <2>1
    <3> HIDE DEF P, u, day, d, q
    <3> QED BY <1>5, <3>1, <3>2
  <2>2. CASE <<day, d, q>> # <<today, c, p>>
    <3>1. k \in DOMAIN ledger /\ ledger'[k] = ledger[k]
      BY <1>9, <2>2
    <3>2. Total(Counts(ledger, x), OfPrincipal(ledger, straddling, day, d, q)) <= PrincipalLimit[x]
      BY <1>1, <3>1 DEF WithinQuota
    <3>3. OfPrincipal(ledger', straddling, day, d, q) = OfPrincipal(ledger, straddling, day, d, q)
      BY <1>7, <2>2
    <3> QED BY <1>8, <1>10, <3>2, <3>3
  <2> QED BY <2>1, <2>2
<1>12. Total(Counts(ledger', x), OfInstallation(ledger', straddling, day, d, q, j)) <= InstallationLimit[x]
  <2>1. CASE <<day, d, q, j>> = <<today, c, p, i>>
    <3>1. Total(Counts(ledger', x), I \cup {u}) = input.amount[x] + Total(Counts(ledger, x), I)
      BY <1>4, <1>8
    <3>2. OfInstallation(ledger', straddling, day, d, q, j) = I \cup {u}
      BY <1>6, <2>1
    <3> HIDE DEF I, u, day, d, q, j
    <3> QED BY <1>5, <3>1, <3>2
  <2>2. CASE <<day, d, q, j>> # <<today, c, p, i>>
    <3>1. k \in DOMAIN ledger /\ ledger'[k] = ledger[k]
      BY <1>9, <2>2
    <3>2. Total(Counts(ledger, x), OfInstallation(ledger, straddling, day, d, q, j)) <= InstallationLimit[x]
      BY <1>1, <3>1 DEF WithinQuota
    <3>3. OfInstallation(ledger', straddling, day, d, q, j) = OfInstallation(ledger, straddling, day, d, q, j)
      BY <1>7, <2>2
    <3> QED BY <1>8, <1>10, <3>2, <3>3
  <2> QED BY <2>1, <2>2
<1> QED BY <1>1, <1>11, <1>12

\* The row of a reservation that is being made at midnight counts towards no
\* sum; it is the one of its day, which is over, and allowed by itself.
LEMMA ReserveAtMidnight ==
    ASSUME LedgerInv, NEW input \in Inputs, Ledger!Reserve(input), NEW checked,
           checked = today + 1, Ledger!withinBudget(ledger, today, checked, input),
           NEW s, s = straddling \cup {Ledger!Key(input)}
    PROVE  /\ IsUsageTable(ledger', today) /\ WithinQuota(ledger', s)
           /\ Straddlers(ledger', s, checked)
<1> DEFINE u == Ledger!Key(input)
<1>1. /\ u \notin DOMAIN ledger /\ DOMAIN ledger' = DOMAIN ledger \cup {u}
      /\ \A j \in DOMAIN ledger : ledger'[j] = ledger[j]
      /\ ledger'[u] = Ledger!RowFor(input, today, Cardinality(DOMAIN ledger) + 1)
      /\ IsUsageTable(ledger', today) /\ IsUsageTable(ledger, today)
      /\ WithinQuota(ledger, straddling)
      /\ Straddlers(ledger, straddling, today) /\ today \in Nat
  <2>1. /\ IsUsageTable(ledger, today) /\ WithinQuota(ledger, straddling)
        /\ Straddlers(ledger, straddling, today) /\ today \in Nat
    BY LedgerLimits DEF LedgerInv
  <2>2. LedgerInv /\ input \in Inputs /\ Ledger!Reserve(input)
    OBVIOUS
  <2>3. /\ u \notin DOMAIN ledger /\ DOMAIN ledger' = DOMAIN ledger \cup {u}
        /\ \A j \in DOMAIN ledger : ledger'[j] = ledger[j]
        /\ ledger'[u] = Ledger!RowFor(input, today, Cardinality(DOMAIN ledger) + 1)
        /\ IsUsageTable(ledger', today)
    BY ONLY <2>2, ReservedTable
  <2> QED BY <2>1, <2>3
<1>2. ledger'[u].period = today /\ ledger'[u].reserved = input.amount
  BY <1>1 DEF Ledger!RowFor
<1>3. ASSUME NEW x \in Axes
      PROVE  input.amount[x] <= PrincipalLimit[x] /\ input.amount[x] <= InstallationLimit[x]
  <2>1. Ledger!Considered(ledger, today, checked, input) = {}
    BY <1>1 DEF Ledger!Considered
  <2>2. Ledger!Fits(ledger, {}, input)
    BY <2>1 DEF Ledger!withinBudget
  <2>3. Ledger!Spent(ledger, {}, x) = 0
    <3>1. Ledger!Spent(ledger, {}, x) = Total(Counts(ledger, x), {}) /\ Weighs(Counts(ledger, x), {})
      BY <1>1, SpentIsTotal, RowsWeigh
    <3> QED BY <3>1, TotalEmpty
  <2>4. {k \in {} : ledger[k].installation = input.installation} = {}
    OBVIOUS
  <2>5. /\ 0 + input.amount[x] <= PrincipalLimit[x]
        /\ 0 + input.amount[x] <= InstallationLimit[x]
    BY <2>2, <2>3, <2>4 DEF Ledger!Fits
  <2> QED BY <2>5, LedgerLimits DEF Ledger!Amounts
<1> HIDE DEF u
<1>4. s = straddling \cup {u} /\ straddling \subseteq DOMAIN ledger
  BY <1>1 DEF u, Straddlers
<1>5. Straddlers(ledger', s, checked)
  <2>1. ASSUME NEW k \in s
        PROVE  /\ ledger'[k].period <= today
               /\ \A x \in Axes : /\ ledger'[k].reserved[x] <= PrincipalLimit[x]
                                  /\ ledger'[k].reserved[x] <= InstallationLimit[x]
    <3>1. CASE k = u
      BY <1>1, <1>2, <1>3, <3>1
    <3>2. CASE k \in straddling
      <4>1. k \in DOMAIN ledger /\ ledger'[k] = ledger[k] /\ ledger[k].period \in 0..today
        BY <1>1, <1>4, <3>2 DEF IsUsageTable
      <4> QED BY <1>1, <3>2, <4>1 DEF Straddlers
    <3> QED BY <1>4, <3>1, <3>2
  <2>2. ASSUME NEW j \in s, NEW k \in s, ledger'[j].period = ledger'[k].period PROVE j = k
    <3>1. \A i \in straddling : ledger'[i].period # today /\ ledger'[i] = ledger[i]
      <4>1. \A i \in straddling : i \in DOMAIN ledger /\ ledger[i].period < today
        BY <1>1 DEF Straddlers
      <4> QED BY <1>1, <4>1
    <3> QED BY <1>1, <1>2, <1>4, <2>2, <3>1 DEF Straddlers
  <2>3. \A k \in s : ledger'[k].period \in Nat /\ k \in DOMAIN ledger'
    BY <1>1, <1>4 DEF IsUsageTable
  <2>4. \A k \in s : ledger'[k].period < checked
    BY <1>1, <2>1, <2>3
  <2> QED BY <2>1, <2>2, <2>3, <2>4 DEF Straddlers
<1>6. \A day, d, q, j :
         /\ OfPrincipal(ledger', s, day, d, q) = OfPrincipal(ledger, straddling, day, d, q)
         /\ OfInstallation(ledger', s, day, d, q, j)
              = OfInstallation(ledger, straddling, day, d, q, j)
         /\ OfPrincipal(ledger, straddling, day, d, q) \subseteq DOMAIN ledger
         /\ OfInstallation(ledger, straddling, day, d, q, j) \subseteq DOMAIN ledger
  BY <1>1, <1>4 DEF OfPrincipal, OfInstallation, Ledger!RowsOf
<1>7. ASSUME NEW x \in Axes, NEW S, S \subseteq DOMAIN ledger
      PROVE  Total(Counts(ledger', x), S) = Total(Counts(ledger, x), S)
  <2> DEFINE m == ledger'
  <2>1. /\ IsUsageTable(ledger, today) /\ IsUsageTable(m, today)
        /\ u \notin DOMAIN ledger /\ DOMAIN m = DOMAIN ledger \cup {u}
        /\ \A j \in DOMAIN ledger : m[j] = ledger[j]
    BY <1>1
  <2> HIDE DEF m
  <2>2. /\ Total(Counts(m, x), S) = Total(Counts(ledger, x), S)
        /\ Total(Counts(m, x), S \cup {u}) = Counts(m, x)[u] + Total(Counts(ledger, x), S)
    BY <1>7, <2>1, TotalWithRow
  <2> QED BY <2>2 DEF m
<1>8. ASSUME NEW k \in DOMAIN ledger' \ s PROVE k \in DOMAIN ledger \ straddling /\ ledger'[k] = ledger[k]
  BY <1>1, <1>4
<1>9. ASSUME NEW k \in DOMAIN ledger' \ s, NEW x \in Axes,
             ledger'[k].account # Ledger!LegacyAccount
      PROVE  /\ Total(Counts(ledger', x), OfPrincipal(ledger', s, ledger'[k].period,
                                             ledger'[k].capability, k.principal))
                   <= PrincipalLimit[x]
             /\ Total(Counts(ledger', x), OfInstallation(ledger', s, ledger'[k].period,
                                             ledger'[k].capability, k.principal,
                                             ledger'[k].installation))
                   <= InstallationLimit[x]
  <2> DEFINE day == ledger'[k].period
             d == ledger'[k].capability
             q == k.principal
             j == ledger'[k].installation
             P == OfPrincipal(ledger, straddling, day, d, q)
             I == OfInstallation(ledger, straddling, day, d, q, j)
  <2>1. k \in DOMAIN ledger \ straddling /\ ledger'[k] = ledger[k]
    BY <1>8, <1>9
  <2>2. Total(Counts(ledger, x), P) <= PrincipalLimit[x]
        /\ Total(Counts(ledger, x), I) <= InstallationLimit[x]
    BY <1>1, <1>9, <2>1 DEF WithinQuota
  <2>3. /\ OfPrincipal(ledger', s, day, d, q) = P /\ OfInstallation(ledger', s, day, d, q, j) = I
        /\ P \subseteq DOMAIN ledger /\ I \subseteq DOMAIN ledger
    BY <1>6
  <2> HIDE DEF P, I
  <2>4. Total(Counts(ledger', x), P) = Total(Counts(ledger, x), P)
    BY <1>7, <2>3
  <2>5. Total(Counts(ledger', x), I) = Total(Counts(ledger, x), I)
    BY <1>7, <2>3
  <2> QED BY <2>2, <2>3, <2>4, <2>5
<1>10. WithinQuota(ledger', s)
  BY <1>9 DEF WithinQuota
<1> QED BY <1>1, <1>5, <1>10

\* Whether midnight comes or not, a reservation keeps the table and the quota.
LEMMA ReserveKeeps ==
    ASSUME LedgerInv, NEW input \in Inputs, Ledger!Reserve(input) PROVE LedgerInv'
<1>1. PICK checked \in Ledger!Ends :
         /\ Ledger!reserveOutcome(ledger, today, checked, input) = "reserved"
         /\ straddling' = Ledger!Crossing(checked, input)
         /\ today' = checked
  BY DEF Ledger!Reserve
<1>2. /\ checked \in 1..Days /\ checked \in {today, today + 1} /\ today \in 1..Days
      /\ Ledger!withinBudget(ledger, today, checked, input)
  BY <1>1 DEF Ledger!Ends, Ledger!reserveOutcome, LedgerInv
<1>3. CASE checked = today
  <2>1. straddling' = straddling /\ today' = today
    BY <1>1, <1>3 DEF Ledger!Crossing
  <2>2. IsUsageTable(ledger', today) /\ WithinQuota(ledger', straddling)
    BY <1>2, <1>3, ReserveWithinQuota
  <2>3. Straddlers(ledger', straddling, today)
    BY ReservedTable DEF LedgerInv, Straddlers
  <2> QED BY <1>2, <2>1, <2>2, <2>3 DEF LedgerInv
<1>4. CASE checked = today + 1
  <2>1. straddling' = straddling \cup {Ledger!Key(input)} /\ today' = checked
    BY <1>1, <1>2, <1>4, LedgerLimits DEF Ledger!Crossing
  <2>2. /\ IsUsageTable(ledger', today) /\ WithinQuota(ledger', straddling')
        /\ Straddlers(ledger', straddling', checked)
    BY <1>2, <1>4, <2>1, ReserveAtMidnight
  <2>3. IsUsageTable(ledger', checked)
    BY <1>2, <1>4, <2>2, TableLater, LedgerLimits
  <2> QED BY <1>2, <2>1, <2>2, <2>3 DEF LedgerInv
<1> QED BY <1>2, <1>3, <1>4

-----------------------------------------------------------------------------
\* Every step of the ledger keeps its table and the quota.
LEMMA LedgerInvNext ==
    ASSUME LedgerInv, ReportsWithin, [Ledger!Next]_<<ledger, today, straddling>> PROVE LedgerInv'
<1>1. CASE UNCHANGED <<ledger, today, straddling>>
  BY <1>1 DEF LedgerInv
<1>2. ASSUME NEW input \in Inputs, Ledger!Reserve(input) PROVE LedgerInv'
  BY <1>2, ReserveKeeps
<1>3. ASSUME UNCHANGED <<ledger, straddling>>, today' \in 1..Days, today' \in {today, today + 1}
      PROVE  LedgerInv'
  <2>1. today \in Nat /\ today' \in Nat /\ today <= today'
    BY <1>3, LedgerLimits DEF LedgerInv
  <2>2. IsUsageTable(ledger, today')
    BY <2>1, TableLater DEF LedgerInv
  <2>3. Straddlers(ledger, straddling, today')
    <3>1. \A k \in straddling : ledger[k].period \in Nat /\ ledger[k].period < today
      BY DEF LedgerInv, Straddlers, IsUsageTable
    <3> QED BY <2>1, <3>1 DEF LedgerInv, Straddlers
  <2> QED BY <1>3, <2>2, <2>3 DEF LedgerInv
<1>4. ASSUME NEW k \in DOMAIN ledger, NEW state \in Ledger!UsageState \ {"reserved"},
             NEW actual \in Ledger!Amounts,
             \A x \in Axes : state = "settled" => actual[x] <= ledger[k].reserved[x],
             ledger' = Ledger!finalize(ledger, k.operation, ledger[k].token, state, actual),
             UNCHANGED <<today, straddling>>
      PROVE  LedgerInv'
  BY <1>4, FinalizeKeeps DEF LedgerInv
<1>5. ASSUME NEW k \in Ledger!Keys, Ledger!Settle(k) PROVE LedgerInv'
  <2>1. k \in DOMAIN ledger /\ UNCHANGED <<today, straddling>>
    BY <1>5 DEF Ledger!Settle
  <2>2. PICK actual \in ActualsFor(ledger[k].reserved) :
           ledger' = Ledger!finalize(ledger, k.operation, ledger[k].token, "settled", actual)
    BY <1>5 DEF Ledger!Settle, Ledger!settle
  <2>3. ledger[k].reserved \in Reservable
    BY <2>1 DEF LedgerInv, IsUsageTable, IsUsageRow
  <2>4. actual \in Ledger!Amounts /\ \A x \in Axes : actual[x] <= ledger[k].reserved[x]
    BY <2>2, <2>3 DEF ReportsWithin
  <2> QED BY <1>4, <2>1, <2>2, <2>4 DEF Ledger!UsageState
<1>6. ASSUME NEW k \in Ledger!Keys, Ledger!Release(k) PROVE LedgerInv'
  <2>1. Ledger!Zero \in Ledger!Amounts
    BY DEF Ledger!Zero, Ledger!Amounts
  <2> QED BY <1>4, <1>6, <2>1 DEF Ledger!Release, Ledger!release, Ledger!UsageState
<1>7. ASSUME NEW k \in Ledger!Keys, Ledger!MarkOutcomeUnknown(k) PROVE LedgerInv'
  <2> DEFINE most == Ledger!ReservedOf(ledger, k.operation, ledger[k].token)
             S == {j \in DOMAIN ledger : j.operation = k.operation /\ ledger[j].token = ledger[k].token}
  <2>1. k \in DOMAIN ledger /\ UNCHANGED <<today, straddling>>
        /\ ledger' = Ledger!finalize(ledger, k.operation, ledger[k].token, "outcome_unknown", most)
    BY <1>7 DEF Ledger!MarkOutcomeUnknown, Ledger!markOutcomeUnknown
  <2>2. k \in S /\ (CHOOSE j \in S : TRUE) \in S /\ S \subseteq DOMAIN ledger
    BY <2>1
  <2>3. most = ledger[CHOOSE j \in S : TRUE].reserved
    BY <2>2 DEF Ledger!ReservedOf
  <2>4. most \in Ledger!Amounts
    BY <2>2, <2>3, ReservableAmounts DEF LedgerInv, IsUsageTable, IsUsageRow
  <2> HIDE DEF most
  <2> QED BY <1>4, <2>1, <2>4 DEF Ledger!UsageState
<1>8. ASSUME NEW input \in Inputs, Ledger!ReserveAgain(input) PROVE LedgerInv'
  BY <1>3, <1>8 DEF Ledger!ReserveAgain, Ledger!Ends
<1>9. CASE Ledger!NextDay
  <2>1. today' = today + 1 /\ today < Days /\ today \in 1..Days /\ UNCHANGED <<ledger, straddling>>
    BY <1>9 DEF Ledger!NextDay, LedgerInv
  <2>2. today' \in 1..Days
    BY <2>1, LedgerLimits
  <2> QED BY <1>3, <2>1, <2>2
<1> QED BY <1>1, <1>2, <1>5, <1>6, <1>7, <1>8, <1>9 DEF Ledger!Next

\* The sums of the ledger are the sums of the invariant.
LEMMA LedgerQuota == LedgerInv => Ledger!QuotaHeld
<1> SUFFICES ASSUME LedgerInv PROVE Ledger!QuotaHeld
  OBVIOUS
<1>1. /\ IsUsageTable(ledger, today) /\ today \in 1..Days /\ WithinQuota(ledger, straddling)
      /\ Straddlers(ledger, straddling, today)
  BY DEF LedgerInv
<1>2. Ledger!TypeOK
  BY <1>1, ReservableAmounts DEF Ledger!TypeOK, IsUsageTable, IsUsageRow, Straddlers
<1>3. ASSUME NEW k \in DOMAIN ledger \ straddling, NEW x \in Axes, ledger[k].account # Ledger!LegacyAccount
      PROVE  LET row == ledger[k]
                 P == Ledger!RowsOf(ledger, row.period, row.capability, k.principal) \ straddling
                 I == {j \in P : ledger[j].installation = row.installation}
             IN  /\ Ledger!Spent(ledger, P, x) <= PrincipalLimit[x]
                 /\ Ledger!Spent(ledger, I, x) <= InstallationLimit[x]
  <2> DEFINE P == OfPrincipal(ledger, straddling, ledger[k].period, ledger[k].capability, k.principal)
             I == OfInstallation(ledger, straddling, ledger[k].period, ledger[k].capability, k.principal,
                                 ledger[k].installation)
  <2>1. P \subseteq DOMAIN ledger /\ I \subseteq DOMAIN ledger
    BY DEF OfPrincipal, OfInstallation, Ledger!RowsOf
  <2>2. /\ Ledger!Spent(ledger, P, x) <= PrincipalLimit[x]
        /\ Ledger!Spent(ledger, I, x) <= InstallationLimit[x]
    BY <1>1, <1>3, <2>1, SpentIsTotal DEF WithinQuota
  <2> QED BY <2>2 DEF OfPrincipal, OfInstallation
<1> QED BY <1>1, <1>2, <1>3 DEF Ledger!QuotaHeld, Straddlers

\* Whatever settles a row, its first outcome stands.
LEMMA LedgerOutcomes == ASSUME [Ledger!Next]_<<ledger, today, straddling>> PROVE Ledger!KeepsFirstOutcome
<1>1. CASE UNCHANGED <<ledger, today, straddling>>
  BY <1>1 DEF Ledger!KeepsFirstOutcome
<1>2. ASSUME NEW input \in Inputs, Ledger!Reserve(input) PROVE Ledger!KeepsFirstOutcome
  <2>1. \A k \in DOMAIN ledger : k \in DOMAIN ledger' /\ ledger'[k] = ledger[k]
    BY <1>2 DEF Ledger!Reserve, Ledger!reserve, Ledger!reserveOutcome
  <2> QED BY <2>1 DEF Ledger!KeepsFirstOutcome
<1>3. ASSUME NEW operation, NEW token, NEW state, NEW actual,
             ledger' = Ledger!finalize(ledger, operation, token, state, actual)
      PROVE  Ledger!KeepsFirstOutcome
  <2> SUFFICES ASSUME NEW k \in DOMAIN ledger
               PROVE  /\ k \in DOMAIN ledger'
                      /\ [ledger'[k] EXCEPT !.state = "reserved", !.actual = Ledger!Zero]
                           = [ledger[k] EXCEPT !.state = "reserved", !.actual = Ledger!Zero]
                      /\ ledger[k].state # "reserved" => ledger'[k] = ledger[k]
    BY DEF Ledger!KeepsFirstOutcome
  <2>1. DOMAIN ledger' = DOMAIN ledger
    BY <1>3 DEF Ledger!finalize
  <2>2. \/ ledger'[k] = ledger[k]
        \/ ledger[k].state = "reserved" /\ ledger'[k] = Ledger!finalizeRow(ledger[k], state, actual)
    BY <1>3 DEF Ledger!finalize
  <2>3. \A row : [Ledger!finalizeRow(row, state, actual) EXCEPT !.state = "reserved", !.actual = Ledger!Zero]
                 = [row EXCEPT !.state = "reserved", !.actual = Ledger!Zero]
    BY DEF Ledger!finalizeRow
  <2> QED BY <2>1, <2>2, <2>3
<1>4. ASSUME NEW k \in Ledger!Keys, Ledger!Settle(k) \/ Ledger!Release(k) \/ Ledger!MarkOutcomeUnknown(k)
      PROVE  Ledger!KeepsFirstOutcome
  BY <1>3, <1>4 DEF Ledger!Settle, Ledger!Release, Ledger!MarkOutcomeUnknown,
                    Ledger!settle, Ledger!release, Ledger!markOutcomeUnknown
<1>5. ASSUME UNCHANGED ledger PROVE Ledger!KeepsFirstOutcome
  BY <1>5 DEF Ledger!KeepsFirstOutcome
<1> QED BY <1>1, <1>2, <1>4, <1>5 DEF Ledger!Next, Ledger!ReserveAgain, Ledger!NextDay, Ledger!vars

-----------------------------------------------------------------------------
(* The result store.                                                       *)

IsResultRow(row) ==
    /\ {"fingerprint", "state", "token", "payload", "acked", "expired"} \subseteq DOMAIN row
    /\ row.state \in Store!RowState
    /\ row.token \in StoreCalls
    /\ row.payload \in IF row.state = "succeeded" THEN Payloads ELSE {NoPayload}
    /\ row.acked \in BOOLEAN /\ row.expired \in BOOLEAN

IsResultTable(s) ==
    /\ DOMAIN s \subseteq Store!Keys
    /\ \A k \in DOMAIN s : IsResultRow(s[k])

StoreInv ==
    /\ IsResultTable(results)
    /\ call \in [StoreCalls -> {"new", "holds", "over"}]

\* Tidying up before a call drops an answer that may be forgotten and gives a
\* lapsed reservation up; no other row changes.
LEMMA TidiedIs ==
    ASSUME NEW s, IsResultTable(s), NEW b
    PROVE  LET t == Store!tidied(s, b)
           IN  /\ IsResultTable(t) /\ DOMAIN t \subseteq DOMAIN s
               /\ \A k \in DOMAIN s \ DOMAIN t : Store!Forgettable(s[k])
               /\ \A k \in DOMAIN t :
                     \/ t[k] = s[k]
                     \/ s[k].state = "reserved" /\ t[k].state = "outcome_unknown"
<1> DEFINE k == Store!Key(b)
           t == Store!tidied(s, b)
<1>1. CASE k \notin DOMAIN s
  BY <1>1 DEF Store!tidied
<1>2. CASE k \in DOMAIN s /\ Store!Forgettable(s[k])
  <2>1. t = Store!drop(s, {k})
    BY <1>2 DEF Store!tidied
  <2>2. DOMAIN t = DOMAIN s \ {k} /\ \A j \in DOMAIN t : t[j] = s[j]
    BY <2>1 DEF Store!drop
  <2> HIDE DEF k, t
  <2> QED BY <1>2, <2>2 DEF IsResultTable, t
<1>3. CASE k \in DOMAIN s /\ ~Store!Forgettable(s[k]) /\ Store!Lapsed(s[k])
  <2>1. t = [s EXCEPT ![k].state = "outcome_unknown"]
    BY <1>3 DEF Store!tidied
  <2>2. /\ DOMAIN t = DOMAIN s /\ \A j \in DOMAIN s \ {k} : t[j] = s[j]
        /\ t[k] = [s[k] EXCEPT !.state = "outcome_unknown"]
    BY <1>3, <2>1
  <2>3. IsResultRow(t[k]) /\ s[k].state = "reserved" /\ t[k].state = "outcome_unknown"
    BY <1>3, <2>2 DEF IsResultTable, IsResultRow, Store!Lapsed, Store!RowState
  <2> HIDE DEF k, t
  <2> QED BY <1>3, <2>2, <2>3 DEF IsResultTable, t
<1>4. CASE k \in DOMAIN s /\ ~Store!Forgettable(s[k]) /\ ~Store!Lapsed(s[k])
  BY <1>4 DEF Store!tidied
<1> QED BY <1>1, <1>2, <1>3, <1>4

\* begin adds at most one row, a reservation of the call's token, and otherwise
\* only tidies up.
LEMMA BeginIs ==
    ASSUME NEW s, IsResultTable(s), NEW c \in StoreCalls
    PROVE  LET t == Store!begin(s, BindingOf[c], c)
               new == Store!Key(BindingOf[c])
           IN  /\ IsResultTable(t)
               /\ \A k \in DOMAIN s \ DOMAIN t : Store!Forgettable(s[k])
               /\ \A k \in DOMAIN t \cap DOMAIN s :
                     \/ t[k] = s[k]
                     \/ s[k].state = "reserved" /\ t[k].state = "outcome_unknown"
                     \/ Store!Forgettable(s[k]) /\ t[k].state = "reserved"
<1> DEFINE b == BindingOf[c]
           t == Store!begin(s, b, c)
           u == Store!tidied(s, b)
           new == Store!Key(b)
           row == Store!Row(b, c, Store!NextBorn(s))
<1>1. /\ IsResultTable(u) /\ DOMAIN u \subseteq DOMAIN s
      /\ \A k \in DOMAIN s \ DOMAIN u : Store!Forgettable(s[k])
      /\ \A k \in DOMAIN u : \/ u[k] = s[k]
                             \/ s[k].state = "reserved" /\ u[k].state = "outcome_unknown"
  BY TidiedIs
<1>2. CASE t = s
  BY <1>2
<1>3. CASE t = u
  BY <1>1, <1>3
<1>4. CASE t = Store!put(u, new, row) /\ Store!beginOutcome(s, b) = "started"
  <2>1. DOMAIN t = DOMAIN u \cup {new} /\ t[new] = row /\ \A k \in DOMAIN u \ {new} : t[k] = u[k]
    BY <1>4 DEF Store!put
  <2>2. new \notin DOMAIN u
    BY <1>1, <1>4 DEF Store!beginOutcome, IsResultTable, IsResultRow, Store!RowState
  <2>3. IsResultRow(row) /\ row.state = "reserved" /\ new \in Store!Keys
    BY DEF IsResultRow, Store!Row, Store!RowState, Store!Keys, Store!Bindings
  <2> HIDE DEF t, u, new, row
  <2>4. IsResultTable(t)
    BY <1>1, <2>1, <2>2, <2>3 DEF IsResultTable
  <2>5. \A k \in DOMAIN s \ DOMAIN t : Store!Forgettable(s[k])
    BY <1>1, <2>1
  <2>6. \A k \in DOMAIN t \cap DOMAIN s :
           \/ t[k] = s[k]
           \/ s[k].state = "reserved" /\ t[k].state = "outcome_unknown"
           \/ Store!Forgettable(s[k]) /\ t[k].state = "reserved"
    BY <1>1, <2>1, <2>2, <2>3
  <2> QED BY <2>4, <2>5, <2>6 DEF t, new
<1> QED BY <1>2, <1>3, <1>4 DEF Store!begin

\* Pruning drops only what was acknowledged.
LEMMA PrunedIs ==
    ASSUME NEW s, NEW b
    PROVE  LET t == Store!pruned(s, b)
           IN  /\ DOMAIN t \subseteq DOMAIN s
               /\ \A k \in DOMAIN t : t[k] = s[k]
               /\ \A k \in DOMAIN s \ DOMAIN t : s[k].state = "succeeded" /\ s[k].acked
BY DEF Store!pruned, Store!drop, Store!Forgettable

\* Acknowledging marks one answer, and drops only what was acknowledged.
LEMMA AcknowledgedIs ==
    ASSUME NEW s, IsResultTable(s), NEW b
    PROVE  LET t == Store!acknowledge(s, b)
           IN  /\ IsResultTable(t) /\ DOMAIN t \subseteq DOMAIN s
               /\ \A k \in DOMAIN s :
                     \/ k \in DOMAIN t /\ t[k] = s[k]
                     \/ s[k].state = "succeeded" /\ (s[k].acked \/ (Store!Acknowledgeable(s, b) /\ k = Store!Key(b)))
               /\ \A k \in DOMAIN t : t[k].state = s[k].state
<1> DEFINE k0 == Store!Key(b)
           u == [s EXCEPT ![k0].acked = TRUE]
           t == Store!acknowledge(s, b)
<1>1. CASE ~Store!Acknowledgeable(s, b)
  BY <1>1 DEF Store!acknowledge
<1>2. CASE Store!Acknowledgeable(s, b)
  <2>1. k0 \in DOMAIN s /\ s[k0].state = "succeeded"
    BY <1>2 DEF Store!Acknowledgeable
  <2>2. /\ DOMAIN u = DOMAIN s /\ \A j \in DOMAIN s \ {k0} : u[j] = s[j]
        /\ u[k0] = [s[k0] EXCEPT !.acked = TRUE]
    BY <2>1
  <2>3. IsResultRow(u[k0]) /\ u[k0].state = "succeeded"
    BY <2>1, <2>2 DEF IsResultTable, IsResultRow
  <2>4. t = Store!pruned(u, b)
    BY <1>2 DEF Store!acknowledge
  <2> HIDE DEF u, t
  <2>5. /\ DOMAIN t \subseteq DOMAIN u
        /\ \A k \in DOMAIN t : t[k] = u[k]
        /\ \A k \in DOMAIN u \ DOMAIN t : u[k].state = "succeeded" /\ u[k].acked
    BY <2>4, PrunedIs
  <2>6. k0 = Store!Key(b)
    OBVIOUS
  <2> HIDE DEF k0
  <2>7. IsResultTable(t) /\ DOMAIN t \subseteq DOMAIN s
    BY <2>1, <2>2, <2>3, <2>5 DEF IsResultTable
  <2>8. \A k \in DOMAIN t : t[k].state = s[k].state
    BY <2>1, <2>2, <2>3, <2>5
  <2>9. ASSUME NEW k \in DOMAIN s
        PROVE  \/ k \in DOMAIN t /\ t[k] = s[k]
               \/ s[k].state = "succeeded" /\ (s[k].acked \/ k = k0)
    <3>1. CASE k = k0
      BY <2>1, <3>1
    <3>2. CASE k # k0
      BY <2>2, <2>5, <3>2
    <3> QED BY <3>1, <3>2
  <2>10. \A k \in DOMAIN s :
            \/ k \in DOMAIN t /\ t[k] = s[k]
            \/ s[k].state = "succeeded" /\ (s[k].acked \/ (Store!Acknowledgeable(s, b) /\ k = Store!Key(b)))
    BY <1>2, <2>6, <2>9
  <2> QED BY <2>7, <2>8, <2>10 DEF t
<1> QED BY <1>1, <1>2

\* Completing writes the row of the holder, and gives it an answer.
LEMMA CompletedIs ==
    ASSUME NEW s, IsResultTable(s), NEW c \in StoreCalls, NEW p \in Payloads
    PROVE  LET t == Store!complete(s, BindingOf[c], c, p)
               k == Store!Key(BindingOf[c])
           IN  \/ t = s
               \/ /\ k \in DOMAIN s /\ s[k].state = "reserved" /\ s[k].token = c
                  /\ IsResultTable(t) /\ DOMAIN t = DOMAIN s
                  /\ t[k].token = c
                  /\ \A j \in DOMAIN s \ {k} : t[j] = s[j]
<1> DEFINE b == BindingOf[c]
           k == Store!Key(b)
           t == Store!complete(s, b, c, p)
<1>1. CASE ~Store!HoldsReservation(s, b, c)
  BY <1>1 DEF Store!complete
<1>2. CASE Store!HoldsReservation(s, b, c)
  <2>1. k \in DOMAIN s /\ s[k].state = "reserved" /\ s[k].token = c /\ IsResultRow(s[k])
    BY <1>2 DEF Store!HoldsReservation, Store!Owns, IsResultTable
  <2>2. t = [s EXCEPT ![k] = Store!completedRow(@, p)]
    BY <1>2 DEF Store!complete
  <2>3. /\ DOMAIN t = DOMAIN s /\ \A j \in DOMAIN s \ {k} : t[j] = s[j]
        /\ t[k] = Store!completedRow(s[k], p)
    BY <2>1, <2>2
  <2>4. IsResultRow(t[k]) /\ t[k].token = c
    BY <2>1, <2>3 DEF IsResultRow, Store!completedRow, Store!RowState
  <2> QED BY <2>1, <2>3, <2>4 DEF IsResultTable
<1> QED BY <1>1, <1>2

\* Giving up changes the state of the holder's row.
LEMMA GivenUpIs ==
    ASSUME NEW s, IsResultTable(s), NEW c \in StoreCalls
    PROVE  LET t == Store!markOutcomeUnknown(s, BindingOf[c], c)
           IN  /\ IsResultTable(t) /\ DOMAIN t = DOMAIN s
               /\ \A k \in DOMAIN s :
                     \/ t[k] = s[k]
                     \/ s[k].state = "reserved" /\ t[k].state = "outcome_unknown"
<1> DEFINE b == BindingOf[c]
           k == Store!Key(b)
           t == Store!markOutcomeUnknown(s, b, c)
<1>1. CASE ~Store!HoldsReservation(s, b, c)
  BY <1>1 DEF Store!markOutcomeUnknown
<1>2. CASE Store!HoldsReservation(s, b, c)
  <2>1. k \in DOMAIN s /\ s[k].state = "reserved" /\ IsResultRow(s[k])
    BY <1>2 DEF Store!HoldsReservation, Store!Owns, IsResultTable
  <2>2. t = [s EXCEPT ![k].state = "outcome_unknown"]
    BY <1>2 DEF Store!markOutcomeUnknown
  <2>3. /\ DOMAIN t = DOMAIN s /\ \A j \in DOMAIN s \ {k} : t[j] = s[j]
        /\ t[k] = [s[k] EXCEPT !.state = "outcome_unknown"]
    BY <2>1, <2>2
  <2>4. IsResultRow(t[k]) /\ t[k].state = "outcome_unknown"
    BY <2>1, <2>3 DEF IsResultRow, Store!RowState
  <2> QED BY <2>1, <2>3, <2>4 DEF IsResultTable
<1> QED BY <1>1, <1>2

\* The passing of a lease or a retention keeps every row as it was, but for that.
LEMMA ExpiredIs ==
    ASSUME NEW s, IsResultTable(s), NEW e, Store!MayExpire(s, e)
    PROVE  LET t == Store!expire(s, e)
           IN  /\ IsResultTable(t) /\ DOMAIN t = DOMAIN s
               /\ \A k \in DOMAIN s : t[k].state = s[k].state
               /\ \A k \in DOMAIN s : t[k] = s[k] \/ s[k].state = "reserved" \/ s[k].acked
<1> DEFINE t == Store!expire(s, e)
<1>1. /\ e \in DOMAIN s /\ IsResultRow(s[e])
      /\ s[e].state = "reserved" \/ s[e].acked
  BY DEF Store!MayExpire, IsResultTable
<1>2. /\ DOMAIN t = DOMAIN s /\ \A k \in DOMAIN s \ {e} : t[k] = s[k]
      /\ t[e] = [s[e] EXCEPT !.expired = TRUE]
  BY <1>1 DEF Store!expire
<1>3. IsResultRow(t[e]) /\ t[e].state = s[e].state
  BY <1>1, <1>2 DEF IsResultRow
<1> QED BY <1>1, <1>2, <1>3 DEF IsResultTable

\* Reopening the store gives up every reservation, and changes nothing else.
LEMMA ReopenedIs ==
    ASSUME NEW s, IsResultTable(s)
    PROVE  LET t == Store!reopened(s)
           IN  /\ IsResultTable(t) /\ DOMAIN t = DOMAIN s
               /\ \A k \in DOMAIN s :
                     \/ t[k] = s[k]
                     \/ s[k].state = "reserved" /\ t[k].state = "outcome_unknown"
<1> DEFINE t == Store!reopened(s)
<1>1. DOMAIN t = DOMAIN s
  BY DEF Store!reopened
<1>2. ASSUME NEW k \in DOMAIN s
      PROVE  /\ IsResultRow(t[k])
             /\ \/ t[k] = s[k]
                \/ s[k].state = "reserved" /\ t[k].state = "outcome_unknown"
  <2>1. CASE s[k].state = "reserved"
    <3>1. t[k] = [s[k] EXCEPT !.state = "outcome_unknown"]
      BY <2>1 DEF Store!reopened
    <3> QED BY <2>1, <3>1 DEF IsResultTable, IsResultRow, Store!RowState
  <2>2. CASE s[k].state # "reserved"
    BY <2>2 DEF Store!reopened, IsResultTable
  <2> QED BY <2>1, <2>2
<1> QED BY <1>1, <1>2 DEF IsResultTable

-----------------------------------------------------------------------------
\* An empty store.
LEMMA StoreInvInit == Store!Init => StoreInv
BY DEF Store!Init, StoreInv, IsResultTable

\* What every step of the store keeps, and what its outcomes are.
LEMMA StoreInvNext ==
    ASSUME StoreInv, [Store!Next]_<<results, call>>
    PROVE  /\ StoreInv'
           /\ Store!KeepsUnacknowledged
           /\ Store!KeepsUnknownFenced
           /\ Store!CompletesAsHolder
<1> DEFINE Fine == /\ StoreInv' /\ Store!KeepsUnacknowledged
                   /\ Store!KeepsUnknownFenced /\ Store!CompletesAsHolder
<1>0. IsResultTable(results) /\ call \in [StoreCalls -> {"new", "holds", "over"}]
  BY DEF StoreInv
<1>1. CASE UNCHANGED <<results, call>>
  BY <1>1 DEF StoreInv, Store!KeepsUnacknowledged, Store!KeepsUnknownFenced, Store!CompletesAsHolder
<1>2. ASSUME IsResultTable(results'), call' \in [StoreCalls -> {"new", "holds", "over"}],
             \A k \in DOMAIN results : results[k].state = "outcome_unknown"
                => k \in DOMAIN results' /\ results'[k].state = "outcome_unknown",
             \A k \in DOMAIN results : results[k].state = "succeeded" /\ ~results[k].acked
                => k \in DOMAIN results' /\ results'[k] = results[k],
             \A k \in DOMAIN results \cap DOMAIN results' :
                results[k].state # "succeeded" => results'[k].state # "succeeded"
      PROVE  Fine
  BY <1>2 DEF StoreInv, Store!KeepsUnacknowledged, Store!KeepsUnknownFenced, Store!CompletesAsHolder
<1>3. ASSUME NEW c \in StoreCalls, Store!Begin(c) PROVE Fine
  <2>1. results' = Store!begin(results, BindingOf[c], c)
        /\ call' \in [StoreCalls -> {"new", "holds", "over"}]
    BY <1>0, <1>3 DEF Store!Begin
  <2> QED BY <1>0, <1>2, <2>1, BeginIs DEF Store!Forgettable
<1>4. ASSUME NEW c \in StoreCalls, Store!Complete(c) PROVE Fine
  <2>1. PICK p \in Payloads : results' = Store!complete(results, BindingOf[c], c, p)
    BY <1>4 DEF Store!Complete
  <2>2. call[c] = "holds" /\ call' = [call EXCEPT ![c] = "over"]
        /\ call' \in [StoreCalls -> {"new", "holds", "over"}] /\ call'[c] = "over"
    BY <1>0, <1>4 DEF Store!Complete
  <2> DEFINE k == Store!Key(BindingOf[c])
  <2>3. \/ results' = results
        \/ /\ k \in DOMAIN results /\ results[k].state = "reserved" /\ results[k].token = c
           /\ IsResultTable(results') /\ DOMAIN results' = DOMAIN results
           /\ results'[k].token = c
           /\ \A j \in DOMAIN results \ {k} : results'[j] = results[j]
    BY <1>0, <2>1, CompletedIs
  <2> HIDE DEF k
  <2>4. Store!KeepsUnacknowledged /\ Store!KeepsUnknownFenced
    BY <2>3 DEF Store!KeepsUnacknowledged, Store!KeepsUnknownFenced
  <2>5. Store!CompletesAsHolder
    BY <2>2, <2>3 DEF Store!CompletesAsHolder
  <2> QED BY <1>0, <2>2, <2>3, <2>4, <2>5 DEF StoreInv
<1>5. ASSUME NEW c \in StoreCalls, Store!ReleaseReservation(c) PROVE Fine
  <2>1. results' = Store!release(results, BindingOf[c], c)
        /\ call' \in [StoreCalls -> {"new", "holds", "over"}]
    BY <1>0, <1>5 DEF Store!ReleaseReservation
  <2>2. /\ IsResultTable(results')
        /\ results' = results \/ \A k \in DOMAIN results :
                                    k \in DOMAIN results' \/ results[k].state = "reserved"
        /\ \A k \in DOMAIN results' \cap DOMAIN results : results'[k] = results[k]
    BY <1>0, <2>1 DEF IsResultTable, Store!release, Store!drop, Store!HoldsReservation
  <2> QED BY <1>2, <2>1, <2>2
<1>6. ASSUME NEW c \in StoreCalls, Store!MarkOutcomeUnknown(c) PROVE Fine
  <2>1. results' = Store!markOutcomeUnknown(results, BindingOf[c], c)
        /\ call' \in [StoreCalls -> {"new", "holds", "over"}]
    BY <1>0, <1>6 DEF Store!MarkOutcomeUnknown
  <2> QED BY <1>0, <1>2, <2>1, GivenUpIs
<1>7. ASSUME NEW b \in Store!Bindings, Store!Acknowledge(b) PROVE Fine
  <2>1. results' = Store!acknowledge(results, b) /\ call' = call
    BY <1>7 DEF Store!Acknowledge
  <2>2. /\ IsResultTable(results') /\ DOMAIN results' \subseteq DOMAIN results
        /\ \A k \in DOMAIN results :
              \/ k \in DOMAIN results' /\ results'[k] = results[k]
              \/ /\ results[k].state = "succeeded"
                 /\ results[k].acked \/ (Store!Acknowledgeable(results, b) /\ k = Store!Key(b))
        /\ \A k \in DOMAIN results' : results'[k].state = results[k].state
    BY <1>0, <2>1, AcknowledgedIs
  <2>3. Store!KeepsUnacknowledged
    BY <2>1, <2>2 DEF Store!KeepsUnacknowledged, Store!Acknowledgeable
  <2>4. Store!KeepsUnknownFenced /\ Store!CompletesAsHolder
    BY <2>2 DEF Store!KeepsUnknownFenced, Store!CompletesAsHolder
  <2> QED BY <1>0, <2>1, <2>2, <2>3, <2>4 DEF StoreInv
<1>8. ASSUME NEW k \in Store!Keys, Store!Expire(k) PROVE Fine
  <2>1. Store!MayExpire(results, k) /\ results' = Store!expire(results, k) /\ call' = call
    BY <1>8 DEF Store!Expire
  <2> QED BY <1>0, <1>2, <2>1, ExpiredIs
<1>9. CASE Store!Reopen
  <2>1. results' = Store!reopened(results)
        /\ call' \in [StoreCalls -> {"new", "holds", "over"}]
    BY <1>0, <1>9 DEF Store!Reopen
  <2> QED BY <1>0, <1>2, <2>1, ReopenedIs
<1> QED BY <1>1, <1>3, <1>4, <1>5, <1>6, <1>7, <1>8, <1>9 DEF Store!Next

\* lookup finds the row as begin would leave it.
LEMMA StoreForetells == StoreInv => Store!LookupForetellsBegin
<1> SUFFICES ASSUME StoreInv PROVE Store!LookupForetellsBegin
  OBVIOUS
<1>1. Store!TypeOK
  BY DEF StoreInv, IsResultTable, IsResultRow, Store!TypeOK
<1>2. ASSUME NEW b \in Store!Bindings
      PROVE  LET begun == Store!beginOutcome(results, b)
             IN  Store!lookup(results, b) = IF begun \in {"started", "backlog_full"}
                                            THEN "not_found" ELSE begun
  <2> DEFINE k == Store!Key(b)
             t == Store!tidied(results, b)
  <2>1. CASE k \notin DOMAIN results
    BY <2>1 DEF Store!beginOutcome, Store!lookup, Store!tidied
  <2>2. CASE k \in DOMAIN results /\ ~Store!sameBinding(results[k], b)
    BY <2>2 DEF Store!beginOutcome, Store!lookup
  <2>3. CASE /\ k \in DOMAIN results /\ Store!sameBinding(results[k], b)
             /\ Store!Forgettable(results[k])
    <3>1. k \notin DOMAIN t
      BY <2>3 DEF Store!tidied, Store!drop
    <3> QED BY <2>3, <3>1 DEF Store!beginOutcome, Store!lookup
  <2>4. CASE /\ k \in DOMAIN results /\ Store!sameBinding(results[k], b)
             /\ ~Store!Forgettable(results[k])
    <3>1. IsResultRow(results[k])
      BY <2>4 DEF StoreInv, IsResultTable
    <3>2. k \in DOMAIN t /\ t[k].state = IF Store!Lapsed(results[k]) THEN "outcome_unknown"
                                         ELSE results[k].state
      BY <2>4, <3>1 DEF Store!tidied, IsResultRow
    <3>3. Store!beginOutcome(results, b) = IF t[k].state = "reserved" THEN "in_progress" ELSE t[k].state
      BY <2>4, <3>2 DEF Store!beginOutcome
    <3> HIDE DEF t
    <3> QED BY <2>4, <3>1, <3>2, <3>3 DEF Store!lookup, IsResultRow, Store!RowState
  <2> QED BY <2>1, <2>2, <2>3, <2>4
<1> QED BY <1>1, <1>2 DEF Store!LookupForetellsBegin

-----------------------------------------------------------------------------
(* The parts together.                                                     *)

\* What holds of the tables, whichever part runs.
TablesInv == StoreInv /\ LedgerInv

\* The daily quota is hard but for the one reservation a day that is being made at
\* midnight, and a lookup tells what begin would do: usageBudget.ts, reserve and
\* assertWithinBudget, where providers report no more than was reserved for the
\* call; operationResultStore.ts, lookup and begin.
THEOREM TablesCorrect == ASSUME ReportsWithin PROVE PartsSpec => []TablesExact
<1>1. PartsInit => TablesInv
  BY LedgerInvInit, StoreInvInit DEF PartsInit, TablesInv
<1>2. TablesInv /\ [PartsNext]_partsVars => TablesInv'
  <2> SUFFICES ASSUME TablesInv, [PartsNext]_partsVars PROVE TablesInv'
    OBVIOUS
  <2>1. [Ledger!Next]_<<ledger, today, straddling>> /\ [Store!Next]_<<results, call>>
    BY DEF PartsNext, partsVars
  <2> QED BY <2>1, LedgerInvNext, StoreInvNext DEF TablesInv
<1>3. TablesInv => TablesExact
  BY LedgerQuota, StoreForetells DEF TablesInv, TablesExact
<1> QED BY <1>1, <1>2, <1>3, PTL DEF PartsSpec

\* Outcomes are final in both tables, whatever is called in whatever order:
\* usageBudget.ts, finalize; operationResultStore.ts, begin, mutate, acknowledge,
\* pruneSucceeded and the constructor.
THEOREM OutcomesFinal == PartsSpec => OutcomesStand
<1>1. PartsInit => StoreInv
  BY StoreInvInit DEF PartsInit
<1>2. ASSUME StoreInv, [PartsNext]_partsVars
      PROVE  /\ StoreInv'
             /\ part = "ledger" => Ledger!KeepsFirstOutcome
             /\ part = "results" => /\ Store!KeepsUnacknowledged
                                    /\ Store!KeepsUnknownFenced
                                    /\ Store!CompletesAsHolder
  <2>1. [Ledger!Next]_<<ledger, today, straddling>> /\ [Store!Next]_<<results, call>>
    BY <1>2 DEF PartsNext, partsVars
  <2> QED BY <1>2, <2>1, LedgerOutcomes, StoreInvNext
<1> QED BY <1>1, <1>2, PTL DEF PartsSpec, OutcomesStand

-----------------------------------------------------------------------------
(* The two schedulers: permits and waiting requests are counted by what     *)
(* became of each request, and the queues hold exactly those that wait.     *)

\* How many requests of a set are in a state.
InState(status, S, x) == {r \in S : status[r] = x}
Count(status, S, x) == Cardinality(InState(status, S, x))

\* Counts of a finite set are numbers.
LEMMA CountIsNat ==
    ASSUME IsFiniteSet(Requests), NEW S \in SUBSET Requests, NEW status, NEW x
    PROVE  IsFiniteSet(InState(status, S, x)) /\ Count(status, S, x) \in Nat
<1>1. InState(status, S, x) \subseteq Requests
  BY DEF InState
<1> QED BY <1>1, FS_Subset, FS_CardinalityType DEF Count

\* n is status but for the state of r.
Moves(status, n, r, y) == \A q \in Requests : n[q] = IF q = r THEN y ELSE status[q]

\* An EXCEPT of one request moves that request only.
LEMMA MovesByExcept ==
    ASSUME NEW T, NEW status \in [Requests -> T], NEW r \in Requests, NEW y
    PROVE  Moves(status, [status EXCEPT ![r] = y], r, y)
BY DEF Moves

\* The count of the state that a request enters goes up by one.
LEMMA CountEnters ==
    ASSUME IsFiniteSet(Requests), NEW S \in SUBSET Requests, NEW status, NEW n,
           NEW r \in Requests, NEW y, Moves(status, n, r, y), r \in S, status[r] # y
    PROVE  Count(n, S, y) = Count(status, S, y) + 1
<1>1. InState(n, S, y) = InState(status, S, y) \cup {r} /\ r \notin InState(status, S, y)
  BY DEF InState, Moves
<1> QED BY <1>1, CountIsNat, FS_AddElement DEF Count

\* The count of the state that a request leaves goes down by one.
LEMMA CountLeaves ==
    ASSUME IsFiniteSet(Requests), NEW S \in SUBSET Requests, NEW status, NEW n,
           NEW r \in Requests, NEW y, Moves(status, n, r, y), r \in S, status[r] # y
    PROVE  /\ Count(n, S, status[r]) = Count(status, S, status[r]) - 1
           /\ 0 < Count(status, S, status[r])
<1> DEFINE x == status[r]
<1>1. InState(n, S, x) = InState(status, S, x) \ {r} /\ r \in InState(status, S, x)
  BY DEF InState, Moves
<1> HIDE DEF x
<1>2. Count(status, S, x) # 0
  BY <1>1, CountIsNat, FS_EmptySet DEF Count
<1>3. Cardinality(InState(status, S, x) \ {r}) = Cardinality(InState(status, S, x)) - 1
  BY <1>1, CountIsNat, FS_RemoveElement
<1>4. Count(n, S, x) = Count(status, S, x) - 1
  BY <1>1, <1>3 DEF Count
<1> QED BY <1>2, <1>4, CountIsNat DEF x

\* A count of which the request is no part, before or after, stays.
LEMMA CountStays ==
    ASSUME NEW S \in SUBSET Requests, NEW status, NEW n, NEW r \in Requests, NEW y,
           Moves(status, n, r, y), NEW x, r \in S => (status[r] = x <=> y = x)
    PROVE  Count(n, S, x) = Count(status, S, x)
<1>1. InState(n, S, x) = InState(status, S, x)
  BY DEF InState, Moves
<1> QED BY <1>1 DEF Count

\* What becomes of every count.
LEMMA CountMoves ==
    ASSUME IsFiniteSet(Requests), NEW status, NEW n,
           NEW r \in Requests, NEW y, Moves(status, n, r, y)
    PROVE  \A S \in SUBSET Requests : \A x :
              /\ Count(status, S, x) \in Nat
              /\ Count(n, S, x) =
                    IF r \in S /\ status[r] # y /\ x = y THEN Count(status, S, x) + 1
                    ELSE IF r \in S /\ status[r] # y /\ x = status[r]
                         THEN Count(status, S, x) - 1 ELSE Count(status, S, x)
              /\ r \in S /\ status[r] # y /\ x = status[r] => 0 < Count(status, S, x)
<1> TAKE S \in SUBSET Requests
<1> TAKE x
<1>1. Count(status, S, x) \in Nat
  BY CountIsNat
<1>2. CASE r \in S /\ status[r] # y /\ x = y
  BY <1>1, <1>2, CountEnters
<1>3. CASE r \in S /\ status[r] # y /\ x = status[r]
  BY <1>1, <1>3, CountLeaves
<1>4. CASE ~(r \in S /\ status[r] # y /\ x = y) /\ ~(r \in S /\ status[r] # y /\ x = status[r])
  BY <1>1, <1>4, CountStays
<1> QED BY <1>2, <1>3, <1>4

\* Those of a set that hold a permit or wait for one.
Inflight(status, S) == Count(status, S, "granted") + Count(status, S, "pending")

\* A permit that a waiter gets changes nothing, a new request counts one more.
LEMMA InflightMoves ==
    ASSUME IsFiniteSet(Requests), NEW status, NEW n, NEW r \in Requests, NEW y,
           Moves(status, n, r, y)
    PROVE  \A S \in SUBSET Requests :
              /\ Inflight(status, S) \in Nat
              /\ Inflight(n, S) \in Nat
              /\ Inflight(n, S) <= Inflight(status, S) + 1
              /\ r \notin S => Inflight(n, S) <= Inflight(status, S)
              /\ y \notin {"granted", "pending"} => Inflight(n, S) <= Inflight(status, S)
              /\ status[r] \in {"granted", "pending"} => Inflight(n, S) <= Inflight(status, S)
<1> TAKE S \in SUBSET Requests
<1> DEFINE After(x) == IF r \in S /\ status[r] # y /\ x = y THEN Count(status, S, x) + 1
                       ELSE IF r \in S /\ status[r] # y /\ x = status[r]
                            THEN Count(status, S, x) - 1 ELSE Count(status, S, x)
<1>1. /\ Count(status, S, "granted") \in Nat /\ Count(n, S, "granted") = After("granted")
      /\ Count(status, S, "pending") \in Nat /\ Count(n, S, "pending") = After("pending")
  BY CountMoves
<1>2. Count(n, S, "granted") \in Nat /\ Count(n, S, "pending") \in Nat
  BY CountIsNat
<1> QED BY <1>2, <1>1 DEF Inflight

\* The requests of some users.
RequestsOf(S) == {r \in Requests : UserOf[r] \in S}

\* Every waiting request is in the queue of its user, once, and nothing else is.
QueuesHold(queue, status) ==
    \A u \in Users :
       /\ Distinct(queue[u])
       /\ \A r \in Requests : Listed(queue[u], r) <=> status[r] = "pending" /\ UserOf[r] = u

\* A list of exactly the users with a queue.
InLine(list, queue) ==
    /\ Distinct(list)
    /\ \A u \in Users : Listed(list, u) <=> queue[u] # <<>>

\* A list without repetitions is as long as the set of its elements.
LEMMA LengthIsCardinality ==
    ASSUME NEW T, NEW s \in Seq(T), Distinct(s)
    PROVE  Cardinality({s[i] : i \in DOMAIN s}) = Len(s)
<1> DEFINE S == {s[i] : i \in DOMAIN s}
<1>1. Len(s) \in Nat /\ DOMAIN s = 1..Len(s)
  BY LenProperties
<1>2. s \in [1..Len(s) -> S]
  BY <1>1, LenProperties, SeqDef
<1>3. s \in Bijection(1..Len(s), S)
  BY <1>1, <1>2 DEF Distinct, Bijection, Injection, Surjection, IsInjective
<1>4. ExistsBijection(1..Len(s), S)
  BY <1>3 DEF ExistsBijection
<1> QED BY <1>1, <1>4, FS_CountingElements

\* A user's queue is as long as it has waiting requests.
LEMMA LengthIsCount ==
    ASSUME NEW queue \in [Users -> Seq(Requests)], NEW status, QueuesHold(queue, status),
           NEW u \in Users
    PROVE  /\ {queue[u][i] : i \in DOMAIN queue[u]} = InState(status, RequestsOf({u}), "pending")
           /\ Len(queue[u]) = Count(status, RequestsOf({u}), "pending")
<1> DEFINE q == queue[u]
<1>1. q \in Seq(Requests) /\ DOMAIN q = 1..Len(q) /\ \A i \in 1..Len(q) : q[i] \in Requests
  BY LenProperties, ElementOfSeq
<1>2. Distinct(q) /\ \A r \in Requests : Listed(q, r) <=> status[r] = "pending" /\ UserOf[r] = u
  BY DEF QueuesHold
<1> HIDE DEF q
<1>3. {q[i] : i \in DOMAIN q} = InState(status, RequestsOf({u}), "pending")
  BY <1>1, <1>2 DEF Listed, At, InState, RequestsOf
<1>4. Len(q) = Count(status, RequestsOf({u}), "pending")
  BY <1>1, <1>2, <1>3, LengthIsCardinality DEF Count
<1> QED BY <1>3, <1>4 DEF q

\* A request joins the queue of its user.
LEMMA JoinsQueue ==
    ASSUME UserOf \in [Requests -> Users], NEW queue \in [Users -> Seq(Requests)],
           NEW status, QueuesHold(queue, status), NEW r \in Requests, status[r] # "pending",
           NEW h, h = [queue EXCEPT ![UserOf[r]] = Append(@, r)],
           NEW n, Moves(status, n, r, "pending")
    PROVE  h \in [Users -> Seq(Requests)] /\ QueuesHold(h, n) /\ h[UserOf[r]] # <<>>
<1> DEFINE u == UserOf[r]
           q == queue[u]
<1>1. u \in Users /\ q \in Seq(Requests)
  OBVIOUS
<1>2. Distinct(q) /\ ~Listed(q, r)
  BY <1>1 DEF QueuesHold
<1> HIDE DEF q
<1>3. /\ Append(q, r) \in Seq(Requests) /\ Distinct(Append(q, r))
      /\ \A y : Listed(Append(q, r), y) <=> Listed(q, y) \/ y = r
      /\ Append(q, r) # <<>>
  <2>1. Append(q, r) \in Seq(Requests) /\ Append(q, r) # <<>>
    BY <1>1, AppendProperties
  <2> QED BY <1>1, <1>2, <2>1, AppendKeeps
<1>4. h \in [Users -> Seq(Requests)] /\ h[u] = Append(q, r) /\ \A v \in Users \ {u} : h[v] = queue[v]
  BY <1>1, <1>3 DEF q
<1>5. ASSUME NEW v \in Users
      PROVE  /\ Distinct(h[v])
             /\ \A y \in Requests : Listed(h[v], y) <=> n[y] = "pending" /\ UserOf[y] = v
  <2>1. CASE v = u
    BY <1>3, <1>4, <2>1 DEF QueuesHold, Moves, q
  <2>2. CASE v # u
    BY <1>4, <2>2 DEF QueuesHold, Moves
  <2> QED BY <2>1, <2>2
<1> QED BY <1>3, <1>4, <1>5 DEF QueuesHold

\* A request leaves the queue of its user, and what is left of it is rest.
LEMMA LeavesQueue ==
    ASSUME UserOf \in [Requests -> Users], NEW queue \in [Users -> Seq(Requests)],
           NEW status, QueuesHold(queue, status), NEW r \in Requests, NEW x, x # "pending",
           NEW rest \in Seq(Requests), Distinct(rest),
           \A y : Listed(rest, y) <=> Listed(queue[UserOf[r]], y) /\ y # r,
           NEW h, h = [queue EXCEPT ![UserOf[r]] = rest],
           NEW n, Moves(status, n, r, x)
    PROVE  h \in [Users -> Seq(Requests)] /\ QueuesHold(h, n)
<1> DEFINE u == UserOf[r]
<1>1. /\ u \in Users
      /\ h \in [Users -> Seq(Requests)] /\ h[u] = rest
      /\ \A v \in Users \ {u} : h[v] = queue[v]
  OBVIOUS
<1>2. ASSUME NEW v \in Users
      PROVE  /\ Distinct(h[v])
             /\ \A y \in Requests : Listed(h[v], y) <=> n[y] = "pending" /\ UserOf[y] = v
  <2>1. CASE v = u
    BY <1>1, <2>1 DEF QueuesHold, Moves
  <2>2. CASE v # u
    BY <1>1, <2>2 DEF QueuesHold, Moves
  <2> QED BY <2>1, <2>2
<1> QED BY <1>1, <1>2 DEF QueuesHold

\* A request outside the queues stays outside.
LEMMA StaysOut ==
    ASSUME NEW queue, NEW status, QueuesHold(queue, status),
           NEW r \in Requests, status[r] # "pending", NEW x, x # "pending",
           NEW n, Moves(status, n, r, x)
    PROVE  QueuesHold(queue, n)
BY DEF QueuesHold, Moves

\* h is queue but for the requests of u.
Requeued(queue, h, u, rest) == \A v \in Users : h[v] = IF v = u THEN rest ELSE queue[v]

\* The line when a request joins the queue of user u.
LEMMA JoinsLine ==
    ASSUME NEW queue, NEW list \in Seq(Users), InLine(list, queue), NEW u \in Users,
           NEW h, NEW more, Requeued(queue, h, u, more), more # <<>>
    PROVE  LET l == IF queue[u] = <<>> THEN Append(list, u) ELSE list
           IN  /\ l \in Seq(Users) /\ InLine(l, h)
               /\ \A x : Listed(l, x) <=> Listed(list, x) \/ x = u
<1> DEFINE l == IF queue[u] = <<>> THEN Append(list, u) ELSE list
<1>1. h[u] # <<>> /\ \A v \in Users \ {u} : h[v] = queue[v]
  BY DEF Requeued
<1>2. CASE queue[u] = <<>>
  <2>1. ~Listed(list, u) /\ Distinct(list)
    BY <1>2 DEF InLine
  <2>2. /\ l = Append(list, u) /\ l \in Seq(Users) /\ Distinct(l)
        /\ \A x : Listed(l, x) <=> Listed(list, x) \/ x = u
    BY <1>2, <2>1, AppendKeeps, AppendProperties
  <2> QED BY <1>1, <2>2 DEF InLine
<1>3. CASE queue[u] # <<>>
  BY <1>1, <1>3 DEF InLine
<1> QED BY <1>2, <1>3

\* The line when user u has lost a request, the last of its queue or not.
LEMMA LeavesLine ==
    ASSUME NEW queue, NEW list \in Seq(Users), InLine(list, queue),
           NEW u \in Users, queue[u] # <<>>, NEW h, NEW rest, Requeued(queue, h, u, rest)
    PROVE  LET l == IF rest = <<>> THEN Without(list, u) ELSE list
           IN  /\ l \in Seq(Users) /\ InLine(l, h)
               /\ \A x : Listed(l, x) => Listed(list, x)
<1> DEFINE l == IF rest = <<>> THEN Without(list, u) ELSE list
<1>1. h[u] = rest /\ \A v \in Users \ {u} : h[v] = queue[v]
  BY DEF Requeued
<1>2. CASE rest = <<>>
  <2>1. /\ l \in Seq(Users) /\ Distinct(l)
        /\ \A x : Listed(l, x) <=> Listed(list, x) /\ x # u
    BY <1>2, WithoutKeeps DEF InLine
  <2> QED BY <1>1, <1>2, <2>1 DEF InLine
<1>3. CASE rest # <<>>
  BY <1>1, <1>3 DEF InLine
<1> QED BY <1>2, <1>3

\* The line when u, taken out of it, was served: u goes to the back while it waits.
LEMMA ServedLine ==
    ASSUME NEW queue, NEW list \in Seq(Users), InLine(list, queue), NEW u \in Users,
           NEW others \in Seq(Users), Distinct(others),
           \A x : Listed(others, x) <=> Listed(list, x) /\ x # u, Listed(list, u),
           NEW h, NEW rest, Requeued(queue, h, u, rest)
    PROVE  LET l == IF rest = <<>> THEN others ELSE Append(others, u)
           IN  /\ l \in Seq(Users) /\ InLine(l, h)
               /\ \A x : Listed(l, x) <=> Listed(list, x) /\ (x = u => rest # <<>>)
<1> DEFINE l == IF rest = <<>> THEN others ELSE Append(others, u)
<1>1. h[u] = rest /\ \A v \in Users \ {u} : h[v] = queue[v]
  BY DEF Requeued
<1>2. ASSUME rest = <<>>
      PROVE  /\ l \in Seq(Users) /\ InLine(l, h)
             /\ \A x : Listed(l, x) <=> Listed(list, x) /\ (x = u => rest # <<>>)
  <2>1. l = others
    BY <1>2
  <2> HIDE DEF l
  <2> QED BY <1>1, <1>2, <2>1 DEF InLine
<1>3. ASSUME rest # <<>>
      PROVE  /\ l \in Seq(Users) /\ InLine(l, h)
             /\ \A x : Listed(l, x) <=> Listed(list, x) /\ (x = u => rest # <<>>)
  <2>1. l = Append(others, u)
    BY <1>3
  <2>2. u \in Users /\ others \in Seq(Users) /\ Distinct(others) /\ ~Listed(others, u)
    OBVIOUS
  <2>3. Append(others, u) \in Seq(Users)
    BY ONLY <2>2, AppendProperties
  <2>4. /\ Distinct(Append(others, u))
        /\ \A x : Listed(Append(others, u), x) <=> Listed(others, x) \/ x = u
    BY ONLY <2>2, AppendKeeps
  <2> HIDE DEF l
  <2> QED BY <1>1, <1>3, <2>1, <2>3, <2>4 DEF InLine
<1> QED BY <1>2, <1>3

\* A user in line has a queue, and its requests wait and are its own.
LEMMA QueueIsOwn ==
    ASSUME NEW queue \in [Users -> Seq(Requests)], NEW status, QueuesHold(queue, status),
           NEW u \in Users, NEW i \in 1..Len(queue[u])
    PROVE  /\ queue[u][i] \in Requests /\ UserOf[queue[u][i]] = u
           /\ status[queue[u][i]] = "pending"
<1> DEFINE q == queue[u]
<1>1. q \in Seq(Requests)
  OBVIOUS
<1>2. \A r \in Requests : Listed(q, r) => status[r] = "pending" /\ UserOf[r] = u
  BY DEF QueuesHold
<1>3. i \in 1..Len(q)
  OBVIOUS
<1> HIDE DEF q
<1>4. q[i] \in Requests /\ i \in DOMAIN q
  BY <1>1, <1>3, LenProperties, ElementOfSeq
<1>5. Listed(q, q[i])
  BY <1>4 DEF Listed, At
<1> QED BY <1>2, <1>4, <1>5 DEF q

-----------------------------------------------------------------------------
(* The pool: its queue limit is on a sum over the users.                   *)

\* Weights of nothing sum up to nothing.
LEMMA TotalOfZeros ==
    ASSUME NEW S, IsFiniteSet(S), NEW w, \A x \in S : w[x] = 0
    PROVE  Total(w, S) = 0
<1> DEFINE Bad == {T \in SUBSET S : Total(w, T) # 0}
<1> SUFFICES ASSUME Bad # {} PROVE FALSE
  OBVIOUS
<1>1. PICK T \in Bad : \A u \in Bad : ~(u \subseteq T /\ u # T)
  <2>1. Bad \subseteq SUBSET S
    OBVIOUS
  <2> HIDE DEF Bad
  <2> QED BY <2>1, LeastSet
<1>2. T # {} /\ T \subseteq S
  BY <1>1, TotalEmpty
<1>3. PICK x \in T : TRUE
  BY <1>2
<1>4. Weighs(w, T)
  BY <1>2, FS_Subset DEF Weighs
<1>5. Total(w, T) = w[x] + Total(w, T \ {x})
  BY <1>4, TotalWith
<1>6. Total(w, T \ {x}) = 0
  BY <1>1, <1>2
<1> QED BY <1>1, <1>2, <1>5, <1>6

\* One element weighs one more.
LEMMA TotalOneMore ==
    ASSUME NEW S, NEW w, Weighs(w, S), NEW x \in S, NEW v,
           v[x] = w[x] + 1, \A y \in S \ {x} : v[y] = w[y]
    PROVE  Total(v, S) = Total(w, S) + 1
<1>1. Weighs(v, S) /\ Weighs(w, S \ {x})
  BY WeighsSubset DEF Weighs
<1>2. Total(v, S) = v[x] + Total(v, S \ {x}) /\ Total(w, S) = w[x] + Total(w, S \ {x})
  BY <1>1, TotalWith
<1>3. Total(v, S \ {x}) = Total(w, S \ {x}) /\ Total(w, S \ {x}) \in Nat
  BY <1>1, TotalSame, TotalIs
<1>4. w[x] \in Nat
  BY DEF Weighs
<1> QED BY <1>2, <1>3, <1>4

\* The operators of the instance are those of this module.
LEMMA PoolSame ==
    /\ \A S : Pool!IsFiniteSet(S) <=> IsFiniteSet(S)
    /\ \A S : Pool!Cardinality(S) = Cardinality(S)
    /\ \A S : Pool!First(S) = First(S)
    /\ \A s, x : Pool!At(s, x) = At(s, x) /\ (Pool!Listed(s, x) <=> Listed(s, x))
    /\ \A s, x : Pool!Without(s, x) = Without(s, x)
    /\ \A s : Pool!Distinct(s) <=> Distinct(s)
    /\ \A s, i : Pool!TakeOut(s, i) = TakeOut(s, i)
<1>1. \A S : Pool!IsFiniteSet(S) <=> IsFiniteSet(S)
  BY DEF Pool!IsFiniteSet, IsFiniteSet
<1>2. \A S : Pool!Cardinality(S) = Cardinality(S)
  BY DEF Pool!Cardinality, Cardinality, Pool!IsFiniteSet, IsFiniteSet
<1>3. \A S : Pool!First(S) = First(S)
  BY DEF Pool!First, First
<1>4. \A s, x : Pool!At(s, x) = At(s, x) /\ (Pool!Listed(s, x) <=> Listed(s, x))
  BY DEF Pool!At, At, Pool!Listed, Listed
<1>5. \A s, i : Pool!Splice(s, i) = Splice(s, i)
  BY DEF Pool!Splice, Splice
<1>6. \A s, x : Pool!Without(s, x) = Without(s, x)
  BY <1>3, <1>4, <1>5 DEF Pool!Without, Without
<1>7. \A s : Pool!Distinct(s) <=> Distinct(s)
  BY DEF Pool!Distinct, Distinct
<1>8. \A s, i : Pool!TakeOut(s, i) = TakeOut(s, i)
  BY DEF Pool!TakeOut, TakeOut
<1> QED BY <1>1, <1>2, <1>3, <1>4, <1>6, <1>7, <1>8

\* What the configuration says of the constants.
LEMMA PoolTypes ==
    ASSUME Pool!SchedulerConfig
    PROVE  /\ IsFiniteSet(Requests) /\ IsFiniteSet(Users)
           /\ UserOf \in [Requests -> Users] /\ TokenOf \in [Users -> Tokens]
           /\ maxConcurrent \in Nat /\ maxConcurrentPerUser \in Nat
           /\ maxConcurrentPerToken \in Nat /\ maxInflightPerUser \in Nat
           /\ queueMax \in Nat
BY PoolSame DEF Pool!SchedulerConfig

\* The requests of each user add up to all requests.
LEMMA SharesAddUp ==
    ASSUME Pool!SchedulerConfig, NEW P \in SUBSET Requests
    PROVE  Total([u \in Users |-> Cardinality({r \in P : UserOf[r] = u})], Users)
              = Cardinality(P)
<1> DEFINE Share(Q) == [u \in Users |-> Cardinality({r \in Q : UserOf[r] = u})]
           Bad == {Q \in SUBSET P : Total(Share(Q), Users) # Cardinality(Q)}
<1> SUFFICES ASSUME Bad # {} PROVE FALSE
  OBVIOUS
<1>1. IsFiniteSet(P) /\ IsFiniteSet(Users) /\ UserOf \in [Requests -> Users]
  BY PoolTypes, FS_Subset
<1>2. PICK Q \in Bad : \A U \in Bad : ~(U \subseteq Q /\ U # Q)
  <2>1. Bad \subseteq SUBSET P
    OBVIOUS
  <2> HIDE DEF Bad
  <2> QED BY <1>1, <2>1, LeastSet
<1>3. Q \subseteq P /\ Total(Share(Q), Users) # Cardinality(Q)
  BY <1>2
<1>4. Q # {}
  <2>1. Cardinality({}) = 0
    BY FS_EmptySet
  <2>2. \A u \in Users : {r \in {} : UserOf[r] = u} = {}
    OBVIOUS
  <2>3. \A u \in Users : Share({})[u] = 0
    BY <2>1, <2>2
  <2>4. Total(Share({}), Users) = 0
    BY <1>1, <2>3, TotalOfZeros
  <2> QED BY <1>3, <2>1, <2>4
<1>5. PICK r \in Q : TRUE
  BY <1>4
<1> DEFINE R == Q \ {r}
           o == UserOf[r]
<1>6. Total(Share(R), Users) = Cardinality(R)
  <2>1. R \in SUBSET P /\ R # Q /\ R \subseteq Q
    BY <1>3, <1>5
  <2> QED BY <1>2, <2>1
<1>7. \A u \in Users : IsFiniteSet({q \in R : UserOf[q] = u})
  BY <1>1, <1>3, FS_Subset
<1>8. Weighs(Share(R), Users)
  BY <1>1, <1>7, FS_CardinalityType DEF Weighs
<1>9. o \in Users
  BY <1>1, <1>3, <1>5
<1>10. Share(Q)[o] = Share(R)[o] + 1
  <2>1. {q \in Q : UserOf[q] = o} = {q \in R : UserOf[q] = o} \cup {r}
    BY <1>5
  <2>2. r \notin {q \in R : UserOf[q] = o}
    OBVIOUS
  <2> QED BY <1>7, <1>9, <2>1, <2>2, FS_AddElement
<1>11. \A u \in Users \ {o} : Share(Q)[u] = Share(R)[u]
  <2>1. \A u \in Users \ {o} : {q \in Q : UserOf[q] = u} = {q \in R : UserOf[q] = u}
    OBVIOUS
  <2> QED BY <2>1
<1> HIDE DEF o
<1>12. Total(Share(Q), Users) = Total(Share(R), Users) + 1
  <2> HIDE DEF Share
  <2> QED BY <1>8, <1>9, <1>10, <1>11, TotalOneMore
<1>13. Cardinality(Q) = Cardinality(R) + 1
  <2>1. Q = R \cup {r} /\ r \notin R /\ IsFiniteSet(R)
    BY <1>1, <1>3, <1>5, FS_Subset
  <2> QED BY <2>1, FS_AddElement
<1> QED BY <1>3, <1>6, <1>12, <1>13

\* What the queue limit is compared with.
LEMMA QueuedIsCount ==
    ASSUME Pool!SchedulerConfig, NEW p, p.queue \in [Users -> Seq(Requests)],
           QueuesHold(p.queue, p.status)
    PROVE  Pool!queuedCount(p) = Count(p.status, Requests, "pending")
<1> DEFINE P == InState(p.status, Requests, "pending")
           w == [u \in Users |-> Cardinality({r \in P : UserOf[r] = u})]
           Sums(f) == f = [s \in SUBSET Users |-> IF s = {} THEN 0
                              ELSE Len(p.queue[Pick(s)]) + f[s \ {Pick(s)}]]
           g == CHOOSE f : Sums(f)
<1>1. Pool!queuedCount(p) = g[Users]
  BY DEF Pool!queuedCount, Pool!MapThenSumSet, Pool!MapThenFoldSet, Pick
<1>2. \A u \in Users : Len(p.queue[u]) = w[u]
  <2> TAKE u \in Users
  <2>1. Len(p.queue[u]) = Count(p.status, RequestsOf({u}), "pending")
    BY LengthIsCount
  <2>2. InState(p.status, RequestsOf({u}), "pending") = {r \in P : UserOf[r] = u}
    BY DEF InState, RequestsOf
  <2> QED BY <2>1, <2>2 DEF Count
<1>3. \A s \in SUBSET Users : s # {} => w[Pick(s)] = Len(p.queue[Pick(s)])
  BY <1>2, PickIn
<1> HIDE DEF w
<1>4. \A f : Sums(f) <=> SumsUp(f, w, Users)
  BY <1>3 DEF SumsUp
<1>5. Weighs(w, Users)
  <2>1. IsFiniteSet(Users)
    BY PoolTypes
  <2>2. \A u \in Users : Len(p.queue[u]) \in Nat
    BY LenProperties
  <2> QED BY <1>2, <2>1, <2>2 DEF Weighs
<1>6. PICK f : SumsUp(f, w, Users)
  BY <1>5, SumExists
<1>7. SumsUp(g, w, Users)
  BY <1>4, <1>6
<1> HIDE DEF g
<1>8. g[Users] = Total(w, Users)
  BY <1>5, <1>7, TotalIs
<1>9. P \in SUBSET Requests
  BY DEF InState
<1>10. Total(w, Users) = Cardinality(P)
  BY <1>9, SharesAddUp DEF w
<1> QED BY <1>1, <1>8, <1>10 DEF Count

-----------------------------------------------------------------------------
(* The pool's invariant.                                                   *)

PoolFields == {"active", "byUser", "byToken", "queue", "waiting", "status"}

IsPool(p) ==
    /\ DOMAIN p = PoolFields
    /\ p.active \in Nat
    /\ p.byUser \in [Users -> Nat] /\ p.byToken \in [Tokens -> Nat]
    /\ p.queue \in [Users -> Seq(Requests)] /\ p.waiting \in Seq(Users)
    /\ p.status \in [Requests -> Pool!Status]

PoolCounters(p) ==
    /\ p.active = Count(p.status, Requests, "granted")
    /\ \A u \in Users : p.byUser[u] = Count(p.status, RequestsOf({u}), "granted")
    /\ \A t \in Tokens :
          p.byToken[t] = Count(p.status, RequestsOf(Pool!UsersOf(t)), "granted")

PoolBounded(p) ==
    /\ p.active <= maxConcurrent
    /\ \A u \in Users : p.byUser[u] <= maxConcurrentPerUser
    /\ \A t \in Tokens : p.byToken[t] <= maxConcurrentPerToken

PoolRoom(p) ==
    /\ \A u \in Users : Inflight(p.status, RequestsOf({u})) <= maxInflightPerUser
    /\ Count(p.status, Requests, "pending") <= queueMax

PoolSound(p) ==
    /\ IsPool(p)
    /\ PoolCounters(p) /\ PoolBounded(p) /\ PoolRoom(p)
    /\ QueuesHold(p.queue, p.status) /\ InLine(p.waiting, p.queue)

NobodyCanStart(p) == \A u \in Users : Listed(p.waiting, u) => ~Pool!canStart(p, u)

PoolInv == PoolSound(pool) /\ NobodyCanStart(pool)

\* One permit more, for a request that can start.
LEMMA PoolCountersGrant ==
    ASSUME Pool!SchedulerConfig, NEW p, IsPool(p), PoolCounters(p), PoolBounded(p),
           NEW r \in Requests, p.status[r] # "granted", Pool!canStart(p, UserOf[r]),
           NEW h, h.active = p.active + 1,
           h.byUser = [p.byUser EXCEPT ![UserOf[r]] = @ + 1],
           h.byToken = [p.byToken EXCEPT ![TokenOf[UserOf[r]]] = @ + 1],
           h.status = [p.status EXCEPT ![r] = "granted"]
    PROVE  /\ h.active \in Nat /\ h.byUser \in [Users -> Nat] /\ h.byToken \in [Tokens -> Nat]
           /\ h.status \in [Requests -> Pool!Status]
           /\ PoolCounters(h) /\ PoolBounded(h)
<1> DEFINE u == UserOf[r]
           t == TokenOf[u]
<1>1. /\ u \in Users /\ t \in Tokens /\ IsFiniteSet(Requests)
      /\ p.active \in Nat /\ p.byUser \in [Users -> Nat] /\ p.byToken \in [Tokens -> Nat]
      /\ p.status \in [Requests -> Pool!Status] /\ "granted" \in Pool!Status
  BY PoolTypes DEF IsPool, Pool!Status
<1>0. Moves(p.status, h.status, r, "granted")
  BY <1>1, MovesByExcept
<1>2. /\ \A v \in Users : h.byUser[v] = IF v = u THEN p.byUser[v] + 1 ELSE p.byUser[v]
      /\ \A s \in Tokens : h.byToken[s] = IF s = t THEN p.byToken[s] + 1 ELSE p.byToken[s]
  BY <1>1
<1>3. /\ h.active \in Nat /\ h.byUser \in [Users -> Nat] /\ h.byToken \in [Tokens -> Nat]
      /\ h.status \in [Requests -> Pool!Status]
  BY <1>1
<1>4. h.active = Count(h.status, Requests, "granted")
  BY <1>0, <1>1, CountMoves DEF PoolCounters
<1>5. ASSUME NEW v \in Users PROVE h.byUser[v] = Count(h.status, RequestsOf({v}), "granted")
  <2> DEFINE S == RequestsOf({v})
  <2>1. S \in SUBSET Requests /\ (r \in S <=> v = u)
    BY DEF RequestsOf
  <2>2. p.byUser[v] = Count(p.status, S, "granted")
    BY DEF PoolCounters
  <2> HIDE DEF S
  <2>3. h.byUser[v] = Count(h.status, S, "granted")
    BY <1>0, <1>1, <1>2, <2>1, <2>2, CountMoves
  <2> QED BY <2>3 DEF S
<1>6. ASSUME NEW s \in Tokens
      PROVE  h.byToken[s] = Count(h.status, RequestsOf(Pool!UsersOf(s)), "granted")
  <2>1. /\ RequestsOf(Pool!UsersOf(s)) \in SUBSET Requests
        /\ r \in RequestsOf(Pool!UsersOf(s)) <=> s = t
    BY <1>1 DEF RequestsOf, Pool!UsersOf
  <2>2. p.byToken[s] = Count(p.status, RequestsOf(Pool!UsersOf(s)), "granted")
    BY DEF PoolCounters
  <2> QED BY <1>0, <1>1, <1>2, <2>1, <2>2, CountMoves
<1>7. PoolBounded(h)
  BY <1>1, <1>2, PoolTypes DEF PoolBounded, Pool!canStart
<1> QED BY <1>3, <1>4, <1>5, <1>6, <1>7 DEF PoolCounters

\* One permit less.
LEMMA PoolCountersRelease ==
    ASSUME Pool!SchedulerConfig, NEW p, IsPool(p), PoolCounters(p), PoolBounded(p),
           NEW r \in Requests, p.status[r] = "granted",
           NEW h, h.active = p.active - 1,
           h.byUser = [p.byUser EXCEPT ![UserOf[r]] = @ - 1],
           h.byToken = [p.byToken EXCEPT ![TokenOf[UserOf[r]]] = @ - 1],
           h.status = [p.status EXCEPT ![r] = "released"]
    PROVE  /\ h.active \in Nat /\ h.byUser \in [Users -> Nat] /\ h.byToken \in [Tokens -> Nat]
           /\ h.status \in [Requests -> Pool!Status]
           /\ PoolCounters(h) /\ PoolBounded(h)
<1> DEFINE u == UserOf[r]
           t == TokenOf[u]
<1>1. /\ u \in Users /\ t \in Tokens /\ IsFiniteSet(Requests)
      /\ p.active \in Nat /\ p.byUser \in [Users -> Nat] /\ p.byToken \in [Tokens -> Nat]
      /\ p.status \in [Requests -> Pool!Status] /\ "released" \in Pool!Status
  BY PoolTypes DEF IsPool, Pool!Status
<1>0. Moves(p.status, h.status, r, "released")
  BY <1>1, MovesByExcept
<1>2. /\ \A v \in Users : h.byUser[v] = IF v = u THEN p.byUser[v] - 1 ELSE p.byUser[v]
      /\ \A s \in Tokens : h.byToken[s] = IF s = t THEN p.byToken[s] - 1 ELSE p.byToken[s]
  BY <1>1
<1>4. h.active = Count(h.status, Requests, "granted") /\ 0 < p.active
  BY <1>0, <1>1, CountMoves DEF PoolCounters
<1>5. ASSUME NEW v \in Users
      PROVE  /\ h.byUser[v] = Count(h.status, RequestsOf({v}), "granted")
             /\ v = u => 0 < p.byUser[v]
  <2> DEFINE S == RequestsOf({v})
  <2>1. S \in SUBSET Requests /\ (r \in S <=> v = u)
    BY DEF RequestsOf
  <2>2. p.byUser[v] = Count(p.status, S, "granted")
    BY DEF PoolCounters
  <2> HIDE DEF S
  <2>3. h.byUser[v] = Count(h.status, S, "granted") /\ (v = u => 0 < p.byUser[v])
    BY <1>0, <1>1, <1>2, <2>1, <2>2, CountMoves
  <2> QED BY <2>3 DEF S
<1>6. ASSUME NEW s \in Tokens
      PROVE  /\ h.byToken[s] = Count(h.status, RequestsOf(Pool!UsersOf(s)), "granted")
             /\ s = t => 0 < p.byToken[s]
  <2>1. /\ RequestsOf(Pool!UsersOf(s)) \in SUBSET Requests
        /\ r \in RequestsOf(Pool!UsersOf(s)) <=> s = t
    BY <1>1 DEF RequestsOf, Pool!UsersOf
  <2>2. p.byToken[s] = Count(p.status, RequestsOf(Pool!UsersOf(s)), "granted")
    BY DEF PoolCounters
  <2> QED BY <1>0, <1>1, <1>2, <2>1, <2>2, CountMoves
<1>3. /\ h.active \in Nat /\ h.byUser \in [Users -> Nat] /\ h.byToken \in [Tokens -> Nat]
      /\ h.status \in [Requests -> Pool!Status]
  <2>1. p.active - 1 \in Nat /\ p.byUser[u] - 1 \in Nat /\ p.byToken[t] - 1 \in Nat
    <3>1. 0 < p.active /\ 0 < p.byUser[u] /\ 0 < p.byToken[t]
      BY <1>1, <1>4, <1>5, <1>6
    <3>2. p.active \in Nat /\ p.byUser[u] \in Nat /\ p.byToken[t] \in Nat
      BY <1>1
    <3> QED BY <3>1, <3>2
  <2> QED BY <1>1, <2>1
<1>7. PoolBounded(h)
  BY <1>1, <1>2, PoolTypes DEF PoolBounded
<1> QED BY <1>3, <1>4, <1>5, <1>6, <1>7 DEF PoolCounters

\* The same permits.
LEMMA PoolCountersKept ==
    ASSUME Pool!SchedulerConfig, NEW p, IsPool(p), PoolCounters(p), PoolBounded(p),
           NEW r \in Requests, p.status[r] # "granted", NEW x \in Pool!Status, x # "granted",
           NEW h, h.active = p.active, h.byUser = p.byUser, h.byToken = p.byToken,
           Moves(p.status, h.status, r, x)
    PROVE  PoolCounters(h) /\ PoolBounded(h)
<1>1. IsFiniteSet(Requests) /\ p.status \in [Requests -> Pool!Status]
  BY PoolTypes DEF IsPool
<1>2. \A S \in SUBSET Requests : Count(h.status, S, "granted") = Count(p.status, S, "granted")
  BY <1>1, CountMoves
<1>3. \A S : RequestsOf(S) \in SUBSET Requests
  BY DEF RequestsOf
<1> QED BY <1>1, <1>2, <1>3 DEF PoolCounters, PoolBounded

\* A request that was not in the books gets a permit at once.
LEMMA GrantSound ==
    ASSUME Pool!SchedulerConfig, NEW p, PoolSound(p), NEW r \in Requests,
           p.status[r] \in {"idle", "released"}, Pool!canStart(p, UserOf[r]),
           Inflight(p.status, RequestsOf({UserOf[r]})) < maxInflightPerUser
    PROVE  /\ PoolSound(Pool!grant(p, r))
           /\ NobodyCanStart(p) => NobodyCanStart(Pool!grant(p, r))
<1> DEFINE h == Pool!grant(p, r)
           u == UserOf[r]
<1>1. /\ IsPool(p) /\ IsFiniteSet(Requests) /\ u \in Users /\ TokenOf[u] \in Tokens
      /\ TokenOf \in [Users -> Tokens]
      /\ PoolCounters(p) /\ PoolBounded(p) /\ PoolRoom(p)
      /\ p.status \in [Requests -> Pool!Status] /\ p.status[r] # "pending"
  BY PoolTypes DEF PoolSound, IsPool
<1>2. /\ DOMAIN h = PoolFields
      /\ h.active = p.active + 1
      /\ h.byUser = [p.byUser EXCEPT ![u] = @ + 1]
      /\ h.byToken = [p.byToken EXCEPT ![TokenOf[u]] = @ + 1]
      /\ h.queue = p.queue /\ h.waiting = p.waiting
      /\ h.status = [p.status EXCEPT ![r] = "granted"]
  BY <1>1 DEF Pool!grant, IsPool, PoolFields
<1> HIDE DEF h
<1>3. /\ h.active \in Nat /\ h.byUser \in [Users -> Nat] /\ h.byToken \in [Tokens -> Nat]
      /\ h.status \in [Requests -> Pool!Status]
      /\ PoolCounters(h) /\ PoolBounded(h)
  BY <1>1, <1>2, PoolCountersGrant
<1>4. IsPool(h)
  BY <1>1, <1>2, <1>3 DEF IsPool
<1>5. Moves(p.status, h.status, r, "granted")
  BY <1>1, <1>2, MovesByExcept
<1>0. \A S \in SUBSET Requests :
         /\ Inflight(p.status, S) \in Nat /\ Inflight(h.status, S) \in Nat
         /\ Inflight(h.status, S) <= Inflight(p.status, S) + 1
         /\ r \notin S => Inflight(h.status, S) <= Inflight(p.status, S)
  <2> TAKE S \in SUBSET Requests
  <2>1. Inflight(p.status, S) \in Nat /\ Inflight(h.status, S) \in Nat
    BY <1>1, <1>5, InflightMoves
  <2>2. Inflight(h.status, S) <= Inflight(p.status, S) + 1
    BY <1>1, <1>5, <2>1, InflightMoves
  <2>3. r \notin S => Inflight(h.status, S) <= Inflight(p.status, S)
    BY <1>1, <1>5, InflightMoves
  <2> QED BY <2>1, <2>2, <2>3
<1>6. PoolRoom(h)
  <2>1. Count(h.status, Requests, "pending") = Count(p.status, Requests, "pending")
    BY <1>1, <1>5, CountMoves
  <2>2. ASSUME NEW v \in Users
        PROVE  Inflight(h.status, RequestsOf({v})) <= maxInflightPerUser
    <3> DEFINE S == RequestsOf({v})
    <3>1. S \in SUBSET Requests /\ (r \in S <=> v = u)
      BY DEF RequestsOf
    <3>2. /\ Inflight(p.status, S) <= maxInflightPerUser
          /\ v = u => Inflight(p.status, S) < maxInflightPerUser
      BY <1>1 DEF PoolRoom
    <3> HIDE DEF S
    <3>5. Inflight(h.status, S) <= maxInflightPerUser
      BY <1>0, <3>1, <3>2, PoolTypes
    <3> QED BY <3>5 DEF S
  <2> QED BY <1>1, <2>1, <2>2 DEF PoolRoom
<1>7. QueuesHold(h.queue, h.status)
  BY <1>1, <1>2, <1>5, StaysOut DEF PoolSound
<1>8. PoolSound(h)
  BY <1>2, <1>3, <1>4, <1>6, <1>7 DEF PoolSound
<1>9. ASSUME NobodyCanStart(p) PROVE NobodyCanStart(h)
  <2> SUFFICES ASSUME NEW v \in Users, Listed(p.waiting, v) PROVE ~Pool!canStart(h, v)
    BY <1>2 DEF NobodyCanStart
  <2>1. ~Pool!canStart(p, v)
    BY <1>9 DEF NobodyCanStart
  <2>2. p.byUser[v] <= h.byUser[v] /\ p.byToken[TokenOf[v]] <= h.byToken[TokenOf[v]]
    BY <1>1, <1>2 DEF IsPool
  <2>3. /\ p.active \in Nat /\ p.byUser[v] \in Nat /\ p.byToken[TokenOf[v]] \in Nat
        /\ h.active \in Nat /\ h.byUser[v] \in Nat /\ h.byToken[TokenOf[v]] \in Nat
    BY <1>1, <1>3 DEF IsPool
  <2>4. ASSUME Pool!canStart(h, v) PROVE Pool!canStart(p, v)
    <3>1. /\ h.active < maxConcurrent /\ h.byUser[v] < maxConcurrentPerUser
          /\ h.byToken[TokenOf[v]] < maxConcurrentPerToken
      BY <2>4 DEF Pool!canStart
    <3>2. /\ p.active < maxConcurrent /\ p.byUser[v] < maxConcurrentPerUser
          /\ p.byToken[TokenOf[v]] < maxConcurrentPerToken
      BY <1>2, <2>2, <2>3, <3>1, PoolTypes
    <3> QED BY <3>2 DEF Pool!canStart
  <2> QED BY <2>1, <2>4
<1> QED BY <1>8, <1>9 DEF h

\* A request is refused: its slot is free, and the books are as before.
LEMMA RejectSound ==
    ASSUME Pool!SchedulerConfig, NEW p, PoolSound(p), NEW r \in Requests,
           p.status[r] \in {"idle", "released"}
    PROVE  /\ PoolSound(Pool!reject(p, r))
           /\ NobodyCanStart(p) => NobodyCanStart(Pool!reject(p, r))
<1> DEFINE h == Pool!reject(p, r)
<1>1. /\ IsPool(p) /\ IsFiniteSet(Requests) /\ PoolCounters(p) /\ PoolBounded(p) /\ PoolRoom(p)
      /\ p.status \in [Requests -> Pool!Status] /\ "idle" \in Pool!Status
  BY PoolTypes DEF PoolSound, IsPool, Pool!Status
<1>2. /\ DOMAIN h = PoolFields
      /\ h.active = p.active /\ h.byUser = p.byUser /\ h.byToken = p.byToken
      /\ h.queue = p.queue /\ h.waiting = p.waiting
      /\ h.status = [p.status EXCEPT ![r] = "idle"]
  BY <1>1 DEF Pool!reject, IsPool, PoolFields
<1> HIDE DEF h
<1>5. Moves(p.status, h.status, r, "idle")
  BY <1>1, <1>2, MovesByExcept
<1>3. h.status \in [Requests -> Pool!Status] /\ PoolCounters(h) /\ PoolBounded(h)
  BY <1>1, <1>2, <1>5, PoolCountersKept
<1>4. IsPool(h)
  BY <1>1, <1>2, <1>3 DEF IsPool
<1>0. \A S \in SUBSET Requests :
         /\ Inflight(p.status, S) \in Nat /\ Inflight(h.status, S) \in Nat
         /\ Inflight(h.status, S) <= Inflight(p.status, S)
  BY <1>1, <1>5, InflightMoves
<1>6. PoolRoom(h)
  <2>1. Count(h.status, Requests, "pending") = Count(p.status, Requests, "pending")
    BY <1>1, <1>5, CountMoves
  <2>2. ASSUME NEW v \in Users
        PROVE  Inflight(h.status, RequestsOf({v})) <= maxInflightPerUser
    <3>1. RequestsOf({v}) \in SUBSET Requests
      BY DEF RequestsOf
    <3>2. /\ Inflight(p.status, RequestsOf({v})) \in Nat
          /\ Inflight(h.status, RequestsOf({v})) \in Nat
          /\ Inflight(h.status, RequestsOf({v})) <= Inflight(p.status, RequestsOf({v}))
      BY <1>0, <3>1
    <3>3. Inflight(p.status, RequestsOf({v})) <= maxInflightPerUser
      BY <1>1 DEF PoolRoom
    <3> QED BY <3>2, <3>3, PoolTypes
  <2> QED BY <1>1, <2>1, <2>2 DEF PoolRoom
<1>7. QueuesHold(h.queue, h.status)
  BY <1>1, <1>2, <1>5, StaysOut DEF PoolSound
<1>8. PoolSound(h)
  BY <1>2, <1>3, <1>4, <1>6, <1>7 DEF PoolSound
<1>9. NobodyCanStart(p) => NobodyCanStart(h)
  BY <1>2 DEF NobodyCanStart, Pool!canStart
<1> QED BY <1>8, <1>9 DEF h

\* A request is put into the queue of its user.
LEMMA EnqueueSound ==
    ASSUME Pool!SchedulerConfig, NEW p, PoolSound(p), NEW r \in Requests,
           p.status[r] \in {"idle", "released"},
           Inflight(p.status, RequestsOf({UserOf[r]})) < maxInflightPerUser,
           Count(p.status, Requests, "pending") < queueMax
    PROVE  LET h == Pool!enqueue(p, r)
           IN  /\ PoolSound(h)
               /\ h.active = p.active /\ h.byUser = p.byUser /\ h.byToken = p.byToken
               /\ h.queue = [p.queue EXCEPT ![UserOf[r]] = Append(@, r)]
               /\ \A v : Listed(h.waiting, v) <=> Listed(p.waiting, v) \/ v = UserOf[r]
<1> DEFINE h == Pool!enqueue(p, r)
           u == UserOf[r]
<1>a. /\ IsPool(p) /\ PoolCounters(p) /\ PoolBounded(p) /\ PoolRoom(p)
      /\ QueuesHold(p.queue, p.status) /\ InLine(p.waiting, p.queue)
  BY DEF PoolSound
<1>b. /\ p.status \in [Requests -> Pool!Status] /\ p.queue \in [Users -> Seq(Requests)]
      /\ p.waiting \in Seq(Users)
  BY <1>a DEF IsPool
<1>c. /\ p.status[r] # "pending" /\ p.status[r] # "granted"
      /\ "pending" \in Pool!Status /\ "pending" # "granted"
  BY DEF Pool!Status
<1>d. IsFiniteSet(Requests) /\ u \in Users /\ UserOf \in [Requests -> Users]
  BY PoolTypes
<1>2. /\ DOMAIN h = PoolFields
      /\ h.active = p.active /\ h.byUser = p.byUser /\ h.byToken = p.byToken
      /\ h.queue = [p.queue EXCEPT ![u] = Append(@, r)]
      /\ h.waiting = IF p.queue[u] = <<>> THEN Append(p.waiting, u) ELSE p.waiting
      /\ h.status = [p.status EXCEPT ![r] = "pending"]
  BY <1>a, <1>d DEF Pool!enqueue, IsPool, PoolFields
<1> HIDE DEF h
<1>7. Moves(p.status, h.status, r, "pending")
  <2>1. h.status = [p.status EXCEPT ![r] = "pending"]
    BY <1>2
  <2> QED BY <1>b, <2>1 DEF Moves
<1>3. h.status \in [Requests -> Pool!Status] /\ PoolCounters(h) /\ PoolBounded(h)
  <2>1. h.status \in [Requests -> Pool!Status]
    BY <1>2, <1>b, <1>c
  <2>2. h.active = p.active /\ h.byUser = p.byUser /\ h.byToken = p.byToken
    BY <1>2
  <2> QED BY <2>1, <2>2, <1>7, <1>a, <1>c, PoolCountersKept
<1>4. h.queue \in [Users -> Seq(Requests)] /\ QueuesHold(h.queue, h.status)
  BY <1>2, <1>7, <1>a, <1>b, <1>c, <1>d, JoinsQueue
<1>5. /\ h.waiting \in Seq(Users) /\ InLine(h.waiting, h.queue)
      /\ \A v : Listed(h.waiting, v) <=> Listed(p.waiting, v) \/ v = u
  <2>1. /\ Requeued(p.queue, h.queue, u, Append(p.queue[u], r))
        /\ Append(p.queue[u], r) # <<>>
    <3>1. Requeued(p.queue, h.queue, u, Append(p.queue[u], r))
      BY <1>2, <1>b, <1>d DEF Requeued
    <3>2. p.queue[u] \in Seq(Requests)
      BY <1>b, <1>d
    <3> QED BY <3>1, <3>2, AppendProperties
  <2>2. h.waiting = IF p.queue[u] = <<>> THEN Append(p.waiting, u) ELSE p.waiting
    BY <1>2
  <2> DEFINE more == Append(p.queue[u], r)
  <2> HIDE DEF more, u
  <2>3. /\ InLine(p.waiting, p.queue) /\ p.waiting \in Seq(Users) /\ u \in Users
        /\ Requeued(p.queue, h.queue, u, more) /\ more # <<>>
    BY <2>1, <1>a, <1>b, <1>d DEF more
  <2> QED BY ONLY <2>2, <2>3, JoinsLine
<1>6. IsPool(h)
  BY <1>2, <1>3, <1>a, <1>4, <1>5 DEF IsPool
<1>0. \A S \in SUBSET Requests :
         /\ Inflight(p.status, S) \in Nat /\ Inflight(h.status, S) \in Nat
         /\ Inflight(h.status, S) <= Inflight(p.status, S) + 1
         /\ r \notin S => Inflight(h.status, S) <= Inflight(p.status, S)
  <2> TAKE S \in SUBSET Requests
  <2>1. Inflight(p.status, S) \in Nat /\ Inflight(h.status, S) \in Nat
    BY <1>7, <1>d, InflightMoves
  <2>2. Inflight(h.status, S) <= Inflight(p.status, S) + 1
    BY <1>7, <1>d, <2>1, InflightMoves
  <2>3. r \notin S => Inflight(h.status, S) <= Inflight(p.status, S)
    BY <1>7, <1>d, InflightMoves
  <2> QED BY <2>1, <2>2, <2>3
<1>8. PoolRoom(h)
  <2>1. /\ Count(p.status, Requests, "pending") \in Nat
        /\ Count(h.status, Requests, "pending") = Count(p.status, Requests, "pending") + 1
    BY <1>7, <1>d, CountMoves
  <2>2. ASSUME NEW v \in Users
        PROVE  Inflight(h.status, RequestsOf({v})) <= maxInflightPerUser
    <3> DEFINE S == RequestsOf({v})
    <3>1. S \in SUBSET Requests /\ (r \in S <=> v = u)
      BY DEF RequestsOf
    <3>2. /\ Inflight(p.status, S) <= maxInflightPerUser
          /\ v = u => Inflight(p.status, S) < maxInflightPerUser
      BY <1>a, <1>b, <1>d DEF PoolRoom
    <3> HIDE DEF S
    <3>3. Inflight(h.status, S) <= maxInflightPerUser
      BY <1>0, <3>1, <3>2, PoolTypes
    <3> QED BY <3>3 DEF S
  <2> QED BY <2>1, <2>2, PoolTypes DEF PoolRoom
<1>9. PoolSound(h)
  BY <1>3, <1>4, <1>5, <1>6, <1>8 DEF PoolSound
<1> QED BY <1>2, <1>5, <1>9 DEF h

\* A waiting request is taken out of the books.
LEMMA AbandonSound ==
    ASSUME Pool!SchedulerConfig, NEW p, PoolSound(p), NEW r \in Requests,
           p.status[r] = "pending"
    PROVE  LET h == Pool!reject(Pool!removePending(p, r), r)
           IN  PoolSound(h) /\ (NobodyCanStart(p) => NobodyCanStart(h))
<1> DEFINE h == Pool!reject(Pool!removePending(p, r), r)
           u == UserOf[r]
           rest == Without(p.queue[u], r)
<1>a. /\ IsPool(p) /\ PoolCounters(p) /\ PoolBounded(p) /\ PoolRoom(p)
      /\ QueuesHold(p.queue, p.status) /\ InLine(p.waiting, p.queue)
  BY DEF PoolSound
<1>b. /\ p.status \in [Requests -> Pool!Status] /\ p.queue \in [Users -> Seq(Requests)]
      /\ p.waiting \in Seq(Users)
  BY <1>a DEF IsPool
<1>c. "idle" \in Pool!Status /\ "idle" # "granted" /\ "idle" # "pending"
  BY DEF Pool!Status
<1>d. IsFiniteSet(Requests) /\ u \in Users /\ UserOf \in [Requests -> Users]
  BY PoolTypes
<1>2. /\ DOMAIN h = PoolFields
      /\ h.active = p.active /\ h.byUser = p.byUser /\ h.byToken = p.byToken
      /\ h.queue = [p.queue EXCEPT ![u] = rest]
      /\ h.waiting = IF rest = <<>> THEN Without(p.waiting, u) ELSE p.waiting
      /\ h.status = [p.status EXCEPT ![r] = "idle"]
  BY <1>a, <1>d, PoolSame DEF Pool!reject, Pool!removePending, IsPool, PoolFields
<1> HIDE DEF h
<1>9. Moves(p.status, h.status, r, "idle")
  <2>1. h.status = [p.status EXCEPT ![r] = "idle"]
    BY <1>2
  <2> QED BY <1>b, <2>1 DEF Moves
<1>3. h.status \in [Requests -> Pool!Status] /\ PoolCounters(h) /\ PoolBounded(h)
  <2>1. h.status \in [Requests -> Pool!Status]
    BY <1>2, <1>b, <1>c
  <2>2. h.active = p.active /\ h.byUser = p.byUser /\ h.byToken = p.byToken
    BY <1>2
  <2> QED BY <2>1, <2>2, <1>9, <1>a, <1>c, PoolCountersKept
<1>4. /\ p.queue[u] \in Seq(Requests) /\ Distinct(p.queue[u]) /\ Listed(p.queue[u], r)
      /\ p.queue[u] # <<>>
  <2>1. p.queue[u] \in Seq(Requests) /\ Distinct(p.queue[u]) /\ Listed(p.queue[u], r)
    BY <1>a, <1>b, <1>d DEF QueuesHold
  <2> QED BY <2>1, ListedNonEmpty
<1>5. /\ rest \in Seq(Requests) /\ Distinct(rest)
      /\ \A y : Listed(rest, y) <=> Listed(p.queue[u], y) /\ y # r
  BY <1>4, WithoutKeeps
<1> HIDE DEF rest
<1>6. h.queue \in [Users -> Seq(Requests)] /\ QueuesHold(h.queue, h.status)
  BY <1>2, <1>5, <1>9, <1>a, <1>b, <1>c, <1>d, LeavesQueue
<1>7. /\ h.waiting \in Seq(Users) /\ InLine(h.waiting, h.queue)
      /\ \A v : Listed(h.waiting, v) => Listed(p.waiting, v)
  <2>1. Requeued(p.queue, h.queue, u, rest)
    BY <1>2, <1>b, <1>d DEF Requeued
  <2>2. h.waiting = IF rest = <<>> THEN Without(p.waiting, u) ELSE p.waiting
    BY <1>2
  <2> QED BY <2>1, <2>2, <1>4, <1>a, <1>b, <1>d, LeavesLine
<1>8. IsPool(h)
  BY <1>2, <1>3, <1>a, <1>6, <1>7 DEF IsPool
<1>10. PoolRoom(h)
  <2>1. \A S \in SUBSET Requests :
           /\ Inflight(p.status, S) \in Nat /\ Inflight(h.status, S) \in Nat
           /\ Inflight(h.status, S) <= Inflight(p.status, S)
    BY <1>9, <1>c, <1>d, InflightMoves
  <2>2. ASSUME NEW v \in Users
        PROVE  Inflight(h.status, RequestsOf({v})) <= maxInflightPerUser
    <3>1. RequestsOf({v}) \in SUBSET Requests
      BY DEF RequestsOf
    <3>2. Inflight(p.status, RequestsOf({v})) <= maxInflightPerUser
      BY <1>a, <1>b, <1>d DEF PoolRoom
    <3>3. /\ Inflight(p.status, RequestsOf({v})) \in Nat
          /\ Inflight(h.status, RequestsOf({v})) \in Nat
          /\ Inflight(h.status, RequestsOf({v})) <= Inflight(p.status, RequestsOf({v}))
      BY <2>1, <3>1
    <3> QED BY <3>2, <3>3, PoolTypes
  <2>3. /\ Count(p.status, Requests, "pending") \in Nat
        /\ Count(h.status, Requests, "pending") = Count(p.status, Requests, "pending") - 1
    BY <1>9, <1>c, <1>d, CountMoves
  <2>4. Count(p.status, Requests, "pending") <= queueMax
    BY <1>a, <1>b, <1>d DEF PoolRoom
  <2>5. Count(h.status, Requests, "pending") <= queueMax
    BY <2>3, <2>4, PoolTypes
  <2> QED BY <2>2, <2>5 DEF PoolRoom
<1>11. PoolSound(h)
  BY <1>3, <1>6, <1>7, <1>8, <1>10 DEF PoolSound
<1>12. NobodyCanStart(p) => NobodyCanStart(h)
  BY <1>2, <1>7 DEF NobodyCanStart, Pool!canStart
<1> QED BY <1>11, <1>12 DEF h

\* Whether the drain finds somebody.
LEMMA NobodyIs ==
    ASSUME NEW p, IsPool(p)
    PROVE  /\ NobodyCanStart(p) <=> {i \in DOMAIN p.waiting : Pool!canStart(p, p.waiting[i])} = {}
           /\ NobodyCanStart(p) <=> ~Pool!hasRunnablePending(p)
           /\ NobodyCanStart(p) => Pool!drain(p) = p
<1>1. p.waiting \in Seq(Users)
  BY DEF IsPool
<1>2. \A i \in DOMAIN p.waiting : p.waiting[i] \in Users
  BY <1>1, ElementOfSeq, LenProperties
<1>3. NobodyCanStart(p) <=> \A i \in DOMAIN p.waiting : ~Pool!canStart(p, p.waiting[i])
  BY <1>2 DEF NobodyCanStart, Listed, At
<1> QED BY <1>3 DEF Pool!hasRunnablePending, Pool!drain

\* What a turn of the drain does for the user it serves.
Serves(p, d, u) ==
    /\ u \in Users /\ Listed(p.waiting, u) /\ Pool!canStart(p, u)
    /\ d.active = p.active + 1
    /\ d.byUser = [p.byUser EXCEPT ![u] = @ + 1]
    /\ d.byToken = [p.byToken EXCEPT ![TokenOf[u]] = @ + 1]
    /\ \A v : Listed(d.waiting, v) <=> Listed(p.waiting, v) /\ (v = u => Tail(p.queue[u]) # <<>>)

\* A turn of the drain with somebody who can start keeps the books and serves one user.
LEMMA DrainServes ==
    ASSUME Pool!SchedulerConfig, NEW p, PoolSound(p), ~NobodyCanStart(p)
    PROVE  PoolSound(Pool!drain(p)) /\ \E u : Serves(p, Pool!drain(p), u)
<1> DEFINE S == {j \in DOMAIN p.waiting : Pool!canStart(p, p.waiting[j])}
           i == First(S)
           u == p.waiting[i]
           q == p.queue[u]
           r == Head(q)
           rest == Tail(q)
           d == Pool!drain(p)
<1>a. /\ IsPool(p) /\ PoolCounters(p) /\ PoolBounded(p) /\ PoolRoom(p)
      /\ QueuesHold(p.queue, p.status) /\ InLine(p.waiting, p.queue)
  BY DEF PoolSound
<1>b. /\ p.status \in [Requests -> Pool!Status] /\ p.queue \in [Users -> Seq(Requests)]
      /\ p.waiting \in Seq(Users) /\ DOMAIN p.waiting = 1..Len(p.waiting)
      /\ IsFiniteSet(Requests) /\ UserOf \in [Requests -> Users]
  BY <1>a, PoolTypes, LenProperties DEF IsPool
<1>1. S # {} /\ S \subseteq Nat
  <2>1. S # {}
    BY <1>a, NobodyIs
  <2>2. S \subseteq 1..Len(p.waiting) /\ 1..Len(p.waiting) \subseteq Nat
    BY <1>b
  <2> QED BY <2>1, <2>2
<1>2. i \in 1..Len(p.waiting) /\ Pool!canStart(p, u)
  <2>1. i \in S
    BY <1>1, FirstIn
  <2> QED BY <1>b, <2>1
<1> HIDE DEF i
<1>3. u \in Users /\ Listed(p.waiting, u)
  BY <1>2, <1>b, ElementOfSeq DEF Listed, At
<1>4. q \in Seq(Requests) /\ q # <<>> /\ Distinct(q)
  BY <1>3, <1>a, <1>b DEF QueuesHold, InLine
<1>5. /\ rest \in Seq(Requests) /\ Distinct(rest) /\ Listed(q, r)
      /\ \A y : Listed(rest, y) <=> Listed(q, y) /\ y # r
      /\ r \in Requests
      /\ Len(q) = 1 <=> rest = <<>>
  <2>1. r \in Requests /\ rest \in Seq(Requests) /\ Len(rest) = Len(q) - 1 /\ Len(q) \in Nat
    BY <1>4, HeadTailProperties, LenProperties
  <2>2. rest = <<>> <=> Len(rest) = 0
    BY <2>1, EmptySeq
  <2>3. /\ Listed(q, r) /\ Distinct(rest)
        /\ \A y : Listed(rest, y) <=> Listed(q, y) /\ y # r
    BY <1>4, TailKeeps
  <2> QED BY <2>1, <2>2, <2>3
<1>6. p.status[r] = "pending" /\ UserOf[r] = u
  BY <1>3, <1>5, <1>a DEF QueuesHold
<1>7. d = LET others == TakeOut(p.waiting, i)
          IN  Pool!grant([p EXCEPT !.queue[u] = rest,
                                   !.waiting = IF Len(q) = 1 THEN others ELSE Append(others, u)],
                         r)
  BY <1>1, PoolSame DEF Pool!drain, i
<1> HIDE DEF d, u, q, rest, r, S
<1>8. /\ DOMAIN d = PoolFields
      /\ d.active = p.active + 1
      /\ d.byUser = [p.byUser EXCEPT ![u] = @ + 1]
      /\ d.byToken = [p.byToken EXCEPT ![TokenOf[u]] = @ + 1]
      /\ d.queue = [p.queue EXCEPT ![u] = rest]
      /\ d.waiting = IF rest = <<>> THEN TakeOut(p.waiting, i) ELSE Append(TakeOut(p.waiting, i), u)
      /\ d.status = [p.status EXCEPT ![r] = "granted"]
  BY <1>5, <1>6, <1>7, <1>a DEF Pool!grant, IsPool, PoolFields
<1>9. Moves(p.status, d.status, r, "granted")
  <2>1. d.status = [p.status EXCEPT ![r] = "granted"]
    BY <1>8
  <2> QED BY <1>b, <2>1 DEF Moves
<1>10. /\ d.active \in Nat /\ d.byUser \in [Users -> Nat] /\ d.byToken \in [Tokens -> Nat]
       /\ d.status \in [Requests -> Pool!Status]
       /\ PoolCounters(d) /\ PoolBounded(d)
  <2>1. /\ d.active = p.active + 1
        /\ d.byUser = [p.byUser EXCEPT ![UserOf[r]] = @ + 1]
        /\ d.byToken = [p.byToken EXCEPT ![TokenOf[UserOf[r]]] = @ + 1]
        /\ d.status = [p.status EXCEPT ![r] = "granted"]
    BY <1>6, <1>8
  <2>2. r \in Requests /\ p.status[r] # "granted" /\ Pool!canStart(p, UserOf[r])
    BY <1>2, <1>5, <1>6 DEF u
  <2> QED BY <2>1, <2>2, <1>a, PoolCountersGrant
<1>11. d.queue \in [Users -> Seq(Requests)] /\ QueuesHold(d.queue, d.status)
  <2>1. d.queue = [p.queue EXCEPT ![UserOf[r]] = rest]
    BY <1>6, <1>8
  <2>2. \A y : Listed(rest, y) <=> Listed(p.queue[UserOf[r]], y) /\ y # r
    BY <1>5, <1>6 DEF q
  <2> QED BY <2>1, <2>2, <1>5, <1>9, <1>a, <1>b, LeavesQueue
<1>12. /\ d.waiting \in Seq(Users) /\ InLine(d.waiting, d.queue)
       /\ \A v : Listed(d.waiting, v) <=> Listed(p.waiting, v) /\ (v = u => rest # <<>>)
  <2> DEFINE others == TakeOut(p.waiting, i)
  <2>1. Requeued(p.queue, d.queue, u, rest)
    BY <1>3, <1>8, <1>b DEF Requeued
  <2>2. d.waiting = IF rest = <<>> THEN others ELSE Append(others, u)
    BY <1>8
  <2>3. /\ others \in Seq(Users) /\ Distinct(others)
        /\ \A x : Listed(others, x) <=> Listed(p.waiting, x) /\ x # u
    BY <1>2, <1>a, <1>b, TakeOutKeeps DEF u, InLine
  <2> HIDE DEF others
  <2>4. /\ u \in Users /\ Listed(p.waiting, u)
        /\ p.waiting \in Seq(Users) /\ InLine(p.waiting, p.queue)
    BY <1>3, <1>a, <1>b
  <2> QED BY ONLY <2>1, <2>2, <2>3, <2>4, ServedLine
<1>13. IsPool(d)
  BY <1>8, <1>10, <1>11, <1>12 DEF IsPool
<1>14. PoolRoom(d)
  <2>1. \A A \in SUBSET Requests :
           /\ Inflight(p.status, A) \in Nat /\ Inflight(d.status, A) \in Nat
           /\ Inflight(d.status, A) <= Inflight(p.status, A)
    BY <1>5, <1>6, <1>9, <1>b, InflightMoves
  <2>2. ASSUME NEW v \in Users
        PROVE  Inflight(d.status, RequestsOf({v})) <= maxInflightPerUser
    <3>1. RequestsOf({v}) \in SUBSET Requests
      BY DEF RequestsOf
    <3>2. Inflight(p.status, RequestsOf({v})) <= maxInflightPerUser
      BY <1>a DEF PoolRoom
    <3>3. /\ Inflight(p.status, RequestsOf({v})) \in Nat
          /\ Inflight(d.status, RequestsOf({v})) \in Nat
          /\ Inflight(d.status, RequestsOf({v})) <= Inflight(p.status, RequestsOf({v}))
      BY <2>1, <3>1
    <3> QED BY <3>2, <3>3, PoolTypes
  <2>3. /\ Count(p.status, Requests, "pending") \in Nat
        /\ Count(d.status, Requests, "pending") = Count(p.status, Requests, "pending") - 1
    <3>1. /\ r \in Requests /\ p.status[r] = "pending" /\ "granted" # "pending"
          /\ Requests \in SUBSET Requests /\ IsFiniteSet(Requests)
      BY <1>5, <1>6, <1>b
    <3> QED BY ONLY <3>1, <1>9, CountMoves
  <2>4. Count(p.status, Requests, "pending") <= queueMax
    BY <1>a DEF PoolRoom
  <2>5. Count(d.status, Requests, "pending") <= queueMax
    BY <2>3, <2>4, PoolTypes
  <2> QED BY <2>2, <2>5 DEF PoolRoom
<1>15. PoolSound(d)
  BY <1>10, <1>11, <1>12, <1>13, <1>14 DEF PoolSound
<1>16. Serves(p, d, u)
  BY <1>2, <1>3, <1>8, <1>12 DEF Serves, u, rest, q
<1> QED BY <1>15, <1>16 DEF d

\* A permit comes back.
Freed(p, r) ==
    [p EXCEPT !.active = @ - 1, !.byUser[UserOf[r]] = @ - 1,
              !.byToken[TokenOf[UserOf[r]]] = @ - 1, !.status[r] = "released"]

\* A permit that is released is counted no more.
LEMMA FreedSound ==
    ASSUME Pool!SchedulerConfig, NEW p, PoolSound(p), NEW r \in Requests,
           p.status[r] = "granted"
    PROVE  LET h == Freed(p, r)
           IN  /\ PoolSound(h)
               /\ h.active = p.active - 1
               /\ h.byUser = [p.byUser EXCEPT ![UserOf[r]] = @ - 1]
               /\ h.byToken = [p.byToken EXCEPT ![TokenOf[UserOf[r]]] = @ - 1]
               /\ h.waiting = p.waiting
<1> DEFINE h == Freed(p, r)
           u == UserOf[r]
<1>1. /\ IsPool(p) /\ IsFiniteSet(Requests) /\ PoolCounters(p) /\ PoolBounded(p) /\ PoolRoom(p)
      /\ p.status \in [Requests -> Pool!Status]
  BY PoolTypes DEF PoolSound, IsPool
<1>2. /\ DOMAIN h = PoolFields
      /\ h.active = p.active - 1
      /\ h.byUser = [p.byUser EXCEPT ![u] = @ - 1]
      /\ h.byToken = [p.byToken EXCEPT ![TokenOf[u]] = @ - 1]
      /\ h.queue = p.queue /\ h.waiting = p.waiting
      /\ h.status = [p.status EXCEPT ![r] = "released"]
  BY <1>1 DEF Freed, IsPool, PoolFields
<1> HIDE DEF h
<1>3. /\ h.active \in Nat /\ h.byUser \in [Users -> Nat] /\ h.byToken \in [Tokens -> Nat]
      /\ h.status \in [Requests -> Pool!Status]
      /\ PoolCounters(h) /\ PoolBounded(h)
  BY <1>1, <1>2, PoolCountersRelease
<1>4. IsPool(h)
  BY <1>1, <1>2, <1>3 DEF IsPool
<1>5. Moves(p.status, h.status, r, "released")
  <2>1. h.status = [p.status EXCEPT ![r] = "released"]
    BY <1>2
  <2> QED BY <1>1, <2>1 DEF Moves
<1>6. PoolRoom(h)
  <2>1. Count(h.status, Requests, "pending") = Count(p.status, Requests, "pending")
    BY <1>1, <1>5, CountMoves
  <2>2. \A S \in SUBSET Requests :
           /\ Inflight(p.status, S) \in Nat /\ Inflight(h.status, S) \in Nat
           /\ Inflight(h.status, S) <= Inflight(p.status, S)
    BY <1>1, <1>5, InflightMoves
  <2>3. ASSUME NEW v \in Users
        PROVE  Inflight(h.status, RequestsOf({v})) <= maxInflightPerUser
    <3>1. RequestsOf({v}) \in SUBSET Requests
      BY DEF RequestsOf
    <3>2. Inflight(p.status, RequestsOf({v})) <= maxInflightPerUser
      BY <1>1 DEF PoolRoom
    <3>3. /\ Inflight(p.status, RequestsOf({v})) \in Nat
          /\ Inflight(h.status, RequestsOf({v})) \in Nat
          /\ Inflight(h.status, RequestsOf({v})) <= Inflight(p.status, RequestsOf({v}))
      BY <2>2, <3>1
    <3> QED BY <3>2, <3>3, PoolTypes
  <2> QED BY <1>1, <2>1, <2>3 DEF PoolRoom
<1>7. QueuesHold(h.queue, h.status)
  BY <1>1, <1>2, <1>5, StaysOut DEF PoolSound
<1>8. PoolSound(h)
  BY <1>2, <1>3, <1>4, <1>6, <1>7 DEF PoolSound
<1> QED BY <1>2, <1>8 DEF h

\* Who could start with more permits out could have started before.
LEMMA CanStartBefore ==
    ASSUME Pool!SchedulerConfig, NEW p, IsPool(p), NEW d, IsPool(d), NEW v \in Users,
           p.active <= d.active, p.byUser[v] <= d.byUser[v],
           p.byToken[TokenOf[v]] <= d.byToken[TokenOf[v]], Pool!canStart(d, v)
    PROVE  Pool!canStart(p, v)
<1>1. /\ d.active < maxConcurrent /\ d.byUser[v] < maxConcurrentPerUser
      /\ d.byToken[TokenOf[v]] < maxConcurrentPerToken
  BY DEF Pool!canStart
<1>2. /\ p.active \in Nat /\ p.byUser[v] \in Nat /\ p.byToken[TokenOf[v]] \in Nat
      /\ d.active \in Nat /\ d.byUser[v] \in Nat /\ d.byToken[TokenOf[v]] \in Nat
  BY PoolTypes DEF IsPool
<1>3. /\ p.active < maxConcurrent /\ p.byUser[v] < maxConcurrentPerUser
      /\ p.byToken[TokenOf[v]] < maxConcurrentPerToken
  BY <1>1, <1>2, PoolTypes
<1> QED BY <1>3 DEF Pool!canStart

\* The permits before and after a turn of the drain.
LEMMA ServedCounts ==
    ASSUME Pool!SchedulerConfig, NEW p, IsPool(p), NEW d, NEW u, Serves(p, d, u)
    PROVE  /\ p.active \in Nat /\ d.active = p.active + 1
           /\ \A v \in Users :
                 /\ p.byUser[v] \in Nat
                 /\ d.byUser[v] = IF v = u THEN p.byUser[v] + 1 ELSE p.byUser[v]
           /\ \A t \in Tokens :
                 /\ p.byToken[t] \in Nat
                 /\ d.byToken[t] = IF t = TokenOf[u] THEN p.byToken[t] + 1 ELSE p.byToken[t]
BY PoolTypes DEF IsPool, Serves

\* A request that joins the queue may be the one that can start, and no other.
LEMMA EnqueueRests ==
    ASSUME Pool!SchedulerConfig, NEW p, PoolSound(p), NobodyCanStart(p), NEW r \in Requests,
           p.status[r] \in {"idle", "released"},
           Inflight(p.status, RequestsOf({UserOf[r]})) < maxInflightPerUser,
           Count(p.status, Requests, "pending") < queueMax
    PROVE  LET d == Pool!drain(Pool!enqueue(p, r)) IN PoolSound(d) /\ NobodyCanStart(d)
<1> DEFINE h == Pool!enqueue(p, r)
           d == Pool!drain(h)
           o == UserOf[r]
<1>1. /\ PoolSound(h)
      /\ h.active = p.active /\ h.byUser = p.byUser /\ h.byToken = p.byToken
      /\ h.queue = [p.queue EXCEPT ![o] = Append(@, r)]
      /\ \A v : Listed(h.waiting, v) <=> Listed(p.waiting, v) \/ v = o
  <2>1. /\ Pool!SchedulerConfig /\ PoolSound(p) /\ r \in Requests
        /\ p.status[r] \in {"idle", "released"}
        /\ Inflight(p.status, RequestsOf({UserOf[r]})) < maxInflightPerUser
        /\ Count(p.status, Requests, "pending") < queueMax
    OBVIOUS
  <2> HIDE DEF h
  <2>2. h = Pool!enqueue(p, r)
    BY DEF h
  <2> QED BY ONLY <2>1, <2>2, EnqueueSound, Zenon
<1> HIDE DEF h
<1>2. IsPool(p) /\ IsPool(h) /\ p.queue \in [Users -> Seq(Requests)] /\ o \in Users
  BY <1>1, PoolTypes DEF PoolSound, IsPool
<1>3. ASSUME NobodyCanStart(h) PROVE PoolSound(d) /\ NobodyCanStart(d)
  BY <1>1, <1>2, <1>3, NobodyIs
<1>4. ASSUME ~NobodyCanStart(h) PROVE PoolSound(d) /\ NobodyCanStart(d)
  <2>1. PoolSound(d)
    BY <1>1, <1>4, DrainServes
  <2>2. PICK u : Serves(h, d, u)
    BY <1>1, <1>4, DrainServes
  <2>3. IsPool(d)
    BY <2>1 DEF PoolSound
  <2> HIDE DEF d
  <2>4. u \in Users /\ Listed(h.waiting, u) /\ Pool!canStart(h, u)
    BY <2>2 DEF Serves
  <2>5. Pool!canStart(p, u)
    BY <1>1, <2>4 DEF Pool!canStart
  <2>6. ~Listed(p.waiting, u) /\ u = o
    BY <1>1, <2>4, <2>5 DEF NobodyCanStart
  <2>7. p.queue[u] = <<>>
    BY <2>4, <2>6 DEF PoolSound, InLine
  <2>8. h.queue[u] = Append(<<>>, r)
    BY <1>1, <1>2, <2>4, <2>6, <2>7
  <2>9. Tail(h.queue[u]) = <<>>
    BY <2>8
  <2>10. \A v : Listed(d.waiting, v) => Listed(p.waiting, v)
    BY <1>1, <2>2, <2>6, <2>9 DEF Serves
  <2>11. ASSUME NEW v \in Users, Listed(d.waiting, v) PROVE ~Pool!canStart(d, v)
    <3>1. ~Pool!canStart(p, v)
      BY <2>10, <2>11 DEF NobodyCanStart
    <3>2. /\ h.active <= d.active /\ h.byUser[v] <= d.byUser[v]
          /\ h.byToken[TokenOf[v]] <= d.byToken[TokenOf[v]]
      <4>1. TokenOf[v] \in Tokens
        BY PoolTypes
      <4>2. h.active \in Nat /\ d.active = h.active + 1
        BY <1>2, <2>2, ServedCounts
      <4>3. /\ h.byUser[v] \in Nat
            /\ d.byUser[v] = IF v = u THEN h.byUser[v] + 1 ELSE h.byUser[v]
        BY <1>2, <2>2, ServedCounts
      <4>4. /\ h.byToken[TokenOf[v]] \in Nat
            /\ d.byToken[TokenOf[v]] = IF TokenOf[v] = TokenOf[u] THEN h.byToken[TokenOf[v]] + 1
                                       ELSE h.byToken[TokenOf[v]]
        BY <1>2, <2>2, <4>1, ServedCounts
      <4> QED BY <4>2, <4>3, <4>4
    <3>3. /\ p.active <= d.active /\ p.byUser[v] <= d.byUser[v]
          /\ p.byToken[TokenOf[v]] <= d.byToken[TokenOf[v]]
      BY <1>1, <3>2
    <3> QED BY <1>2, <2>3, <3>1, <3>3, CanStartBefore
  <2> QED BY <2>1, <2>11 DEF NobodyCanStart
<1> QED BY <1>3, <1>4 DEF h

\* One place is given to one waiter: whoever could use the place that came
\* back is of the same token, and the waiter that got it has used it up.
LEMMA ReleaseRests ==
    ASSUME Pool!SchedulerConfig, NEW p, PoolSound(p), NobodyCanStart(p), NEW r \in Requests,
           p.status[r] = "granted"
    PROVE  LET d == Pool!drain(Freed(p, r)) IN PoolSound(d) /\ NobodyCanStart(d)
<1> DEFINE h == Freed(p, r)
           d == Pool!drain(h)
           o == UserOf[r]
<1>1. /\ PoolSound(h)
      /\ h.active = p.active - 1
      /\ h.byUser = [p.byUser EXCEPT ![o] = @ - 1]
      /\ h.byToken = [p.byToken EXCEPT ![TokenOf[o]] = @ - 1]
      /\ h.waiting = p.waiting
  BY FreedSound
<1> HIDE DEF h
<1>2. IsPool(p) /\ IsPool(h) /\ o \in Users /\ TokenOf \in [Users -> Tokens]
  BY <1>1, PoolTypes DEF PoolSound, IsPool
<1>3. ASSUME NobodyCanStart(h) PROVE PoolSound(d) /\ NobodyCanStart(d)
  BY <1>1, <1>2, <1>3, NobodyIs
<1>4. ASSUME ~NobodyCanStart(h) PROVE PoolSound(d) /\ NobodyCanStart(d)
  <2>1. PoolSound(d)
    BY <1>1, <1>4, DrainServes
  <2>2. PICK u : Serves(h, d, u)
    BY <1>1, <1>4, DrainServes
  <2> HIDE DEF d
  <2>3. u \in Users /\ Listed(p.waiting, u) /\ Pool!canStart(h, u)
    BY <1>1, <2>2 DEF Serves
  <2>4. ~Pool!canStart(p, u)
    BY <2>3 DEF NobodyCanStart
  <2>5. \A v : Listed(d.waiting, v) => Listed(p.waiting, v)
    BY <1>1, <2>2 DEF Serves
  <2>6. ASSUME NEW v \in Users, Listed(d.waiting, v), Pool!canStart(d, v) PROVE FALSE
    <3>1. ~Pool!canStart(p, v)
      BY <2>5, <2>6 DEF NobodyCanStart
    <3>2. /\ p.active \in Nat /\ d.active = p.active
          /\ p.byUser[v] \in Nat /\ p.byUser[u] \in Nat
          /\ p.byToken[TokenOf[v]] \in Nat /\ p.byToken[TokenOf[u]] \in Nat
      <4>1. h.active \in Nat /\ d.active = h.active + 1
        BY <1>2, <2>2, ServedCounts
      <4>2. p.active \in Nat /\ p.byUser \in [Users -> Nat] /\ p.byToken \in [Tokens -> Nat]
        BY <1>2 DEF IsPool
      <4>3. d.active = p.active
        BY <1>1, <4>1, <4>2
      <4>4. TokenOf[v] \in Tokens /\ TokenOf[u] \in Tokens
        BY <1>2, <2>3
      <4> QED BY <2>3, <4>2, <4>3, <4>4
    <3>3. h.byUser[u] = IF u = o THEN p.byUser[u] - 1 ELSE p.byUser[u]
      BY <1>1, <1>2, <2>3 DEF IsPool
    <3>4. h.byToken[TokenOf[u]] = IF TokenOf[u] = TokenOf[o] THEN p.byToken[TokenOf[u]] - 1
                                  ELSE p.byToken[TokenOf[u]]
      BY <1>1, <1>2, <2>3 DEF IsPool
    <3>5. d.byUser[v] = (IF v = o THEN p.byUser[v] - 1 ELSE p.byUser[v])
                          + (IF v = u THEN 1 ELSE 0)
      <4>1. h.byUser[v] = IF v = o THEN p.byUser[v] - 1 ELSE p.byUser[v]
        BY <1>1, <1>2 DEF IsPool
      <4>2. d.byUser[v] = IF v = u THEN h.byUser[v] + 1 ELSE h.byUser[v]
        BY <1>2, <2>2, ServedCounts
      <4> QED BY <3>2, <4>1, <4>2
    <3>6. d.byToken[TokenOf[v]] =
             (IF TokenOf[v] = TokenOf[o] THEN p.byToken[TokenOf[v]] - 1 ELSE p.byToken[TokenOf[v]])
             + (IF TokenOf[v] = TokenOf[u] THEN 1 ELSE 0)
      <4>1. h.byToken[TokenOf[v]] = IF TokenOf[v] = TokenOf[o] THEN p.byToken[TokenOf[v]] - 1
                                    ELSE p.byToken[TokenOf[v]]
        BY <1>1, <1>2 DEF IsPool
      <4>2. d.byToken[TokenOf[v]] = IF TokenOf[v] = TokenOf[u] THEN h.byToken[TokenOf[v]] + 1
                                    ELSE h.byToken[TokenOf[v]]
        BY <1>2, <2>2, ServedCounts
      <4> QED BY <3>2, <4>1, <4>2
    <3>7. /\ d.active < maxConcurrent /\ d.byUser[v] < maxConcurrentPerUser
          /\ d.byToken[TokenOf[v]] < maxConcurrentPerToken
      BY <2>6 DEF Pool!canStart
    <3>8. /\ h.byUser[u] < maxConcurrentPerUser
          /\ h.byToken[TokenOf[u]] < maxConcurrentPerToken
      BY <2>3 DEF Pool!canStart
    <3>9. \/ p.byUser[v] >= maxConcurrentPerUser
          \/ p.byToken[TokenOf[v]] >= maxConcurrentPerToken
      BY <3>1, <3>2, <3>7, PoolTypes DEF Pool!canStart
    <3>10. \/ p.byUser[u] >= maxConcurrentPerUser
           \/ p.byToken[TokenOf[u]] >= maxConcurrentPerToken
      BY <2>4, <3>2, <3>7, PoolTypes DEF Pool!canStart
    <3>11. TokenOf[u] = TokenOf[o]
      BY <3>2, <3>3, <3>4, <3>8, <3>10, PoolTypes
    <3>12. TokenOf[v] = TokenOf[o]
      BY <3>2, <3>5, <3>6, <3>7, <3>9, PoolTypes
    <3>13. p.byToken[TokenOf[v]] < maxConcurrentPerToken
      BY <3>2, <3>6, <3>7, <3>11, <3>12, PoolTypes
    <3>14. v = o /\ v # u
      BY <3>2, <3>5, <3>7, <3>9, <3>13, PoolTypes
    <3>15. p.byUser[u] < maxConcurrentPerUser
      BY <3>2, <3>3, <3>8, <3>14, PoolTypes
    <3> QED BY <3>2, <3>10, <3>11, <3>12, <3>13, <3>15, PoolTypes
  <2> QED BY <2>1, <2>6 DEF NobodyCanStart
<1> QED BY <1>3, <1>4 DEF h

\* What a caller may have in flight, as the code counts it.
LEMMA InflightIs ==
    ASSUME Pool!SchedulerConfig, NEW p, PoolSound(p), NEW u \in Users
    PROVE  Pool!inflightForUser(p, u) = Inflight(p.status, RequestsOf({u}))
<1>1. p.byUser[u] = Count(p.status, RequestsOf({u}), "granted")
  BY DEF PoolSound, PoolCounters
<1>2. Len(p.queue[u]) = Count(p.status, RequestsOf({u}), "pending")
  <2>1. p.queue \in [Users -> Seq(Requests)] /\ QueuesHold(p.queue, p.status)
    BY DEF PoolSound, IsPool
  <2> QED BY <2>1, LengthIsCount
<1> QED BY <1>1, <1>2 DEF Pool!inflightForUser, Inflight

\* Counts of nothing.
LEMMA CountOfNone ==
    ASSUME NEW S \in SUBSET Requests, NEW status, NEW x, \A r \in Requests : status[r] # x
    PROVE  Count(status, S, x) = 0
<1>1. InState(status, S, x) = {}
  BY DEF InState
<1> QED BY <1>1, FS_EmptySet DEF Count

\* The pool's invariant holds of a new scheduler.
LEMMA PoolInvInit == ASSUME Pool!SchedulerConfig PROVE Pool!Init => PoolInv
<1> SUFFICES ASSUME Pool!Init PROVE PoolInv
  OBVIOUS
<1>1. /\ pool.active = 0 /\ pool.byUser = [u \in Users |-> 0]
      /\ pool.byToken = [t \in Tokens |-> 0]
      /\ pool.queue = [u \in Users |-> <<>>] /\ pool.waiting = <<>>
      /\ pool.status = [r \in Requests |-> "idle"]
      /\ DOMAIN pool = PoolFields
  BY DEF Pool!Init, PoolFields
<1>2. /\ \A r \in Requests : pool.status[r] # "granted" /\ pool.status[r] # "pending"
      /\ pool.status \in [Requests -> Pool!Status]
  BY <1>1 DEF Pool!Status
<1>3. IsPool(pool)
  BY <1>1, <1>2 DEF IsPool
<1>4. \A S \in SUBSET Requests :
         /\ Count(pool.status, S, "granted") = 0 /\ Count(pool.status, S, "pending") = 0
         /\ Inflight(pool.status, S) = 0
  BY <1>2, CountOfNone DEF Inflight
<1>5. \A S : RequestsOf(S) \in SUBSET Requests
  BY DEF RequestsOf
<1>6. PoolCounters(pool) /\ PoolBounded(pool) /\ PoolRoom(pool)
  BY <1>1, <1>4, <1>5, PoolTypes DEF PoolCounters, PoolBounded, PoolRoom
<1>7. /\ \A x : ~Listed(<<>>, x)
      /\ Distinct(<<>>)
  BY DEF Listed, At, Distinct
<1>8. QueuesHold(pool.queue, pool.status) /\ InLine(pool.waiting, pool.queue) /\ NobodyCanStart(pool)
  BY <1>1, <1>2, <1>7 DEF QueuesHold, InLine, NobodyCanStart
<1> QED BY <1>3, <1>6, <1>8 DEF PoolInv, PoolSound

\* Every call of the scheduler keeps the pool's invariant.
LEMMA PoolInvNext ==
    ASSUME Pool!SchedulerConfig PROVE PoolInv /\ [Pool!Next]_pool => PoolInv'
<1> SUFFICES ASSUME PoolInv, [Pool!Next]_pool PROVE PoolInv'
  OBVIOUS
<1> DEFINE Rests(d) == PoolSound(d) /\ NobodyCanStart(d)
<1>1. Rests(pool) /\ IsPool(pool)
  BY DEF PoolInv, PoolSound
<1>2. \A d : pool' = d /\ Rests(d) => PoolInv'
  BY DEF PoolInv, PoolSound, NobodyCanStart, IsPool, PoolCounters, PoolBounded, PoolRoom, QueuesHold, InLine
<1> HIDE DEF Rests
<1>3. \A r \in Requests : Pool!CanAcquire(r) => pool.status[r] \in {"idle", "released"}
  BY DEF Pool!CanAcquire
<1>4. ASSUME NEW r \in Requests, ~Pool!TooManyInflight(UserOf[r])
      PROVE  Inflight(pool.status, RequestsOf({UserOf[r]})) < maxInflightPerUser
  <2>1. UserOf[r] \in Users
    BY PoolTypes
  <2>2. Pool!inflightForUser(pool, UserOf[r]) = Inflight(pool.status, RequestsOf({UserOf[r]}))
    BY <1>1, <2>1, InflightIs DEF Rests
  <2>3. Inflight(pool.status, RequestsOf({UserOf[r]})) \in Nat
    <3>1. RequestsOf({UserOf[r]}) \in SUBSET Requests
      BY DEF RequestsOf
    <3> QED BY <3>1, CountIsNat, PoolTypes DEF Inflight
  <2> QED BY <1>4, <2>2, <2>3, PoolTypes DEF Pool!TooManyInflight
<1>5. ASSUME NEW r \in Requests, Pool!CanAcquire(r) PROVE Rests(Pool!reject(pool, r))
  BY <1>1, <1>3, <1>5, RejectSound DEF Rests
<1>6. ASSUME NEW r \in Requests, Pool!CanAcquire(r), ~Pool!TooManyInflight(UserOf[r]),
             Pool!canStart(pool, UserOf[r])
      PROVE  Rests(Pool!grant(pool, r))
  BY <1>1, <1>3, <1>4, <1>6, GrantSound DEF Rests
<1>7. ASSUME NEW r \in Requests, Pool!AcquireRefused(r) PROVE PoolInv'
  BY <1>2, <1>5, <1>7 DEF Pool!AcquireRefused
<1>8. ASSUME NEW r \in Requests, Pool!AcquireImmediately(r) PROVE PoolInv'
  BY <1>2, <1>6, <1>8 DEF Pool!AcquireImmediately, Pool!Immediate
<1>9. ASSUME NEW r \in Requests, Pool!AcquireWithoutWaiting(r) PROVE PoolInv'
  BY <1>2, <1>5, <1>9 DEF Pool!AcquireWithoutWaiting
<1>10. ASSUME NEW r \in Requests, Pool!AcquireAtFullQueue(r) PROVE PoolInv'
  <2>1. Pool!drain(pool) = pool
    BY <1>1, NobodyIs DEF Rests
  <2>2. \/ Pool!canStart(pool, UserOf[r]) /\ pool' = Pool!grant(pool, r)
        \/ pool' = Pool!reject(pool, r)
    BY <1>10, <2>1 DEF Pool!AcquireAtFullQueue
  <2> QED BY <1>2, <1>5, <1>6, <1>10, <2>2 DEF Pool!AcquireAtFullQueue
<1>11. ASSUME NEW r \in Requests, Pool!AcquireQueued(r) PROVE PoolInv'
  <2>1. /\ pool.status[r] \in {"idle", "released"}
        /\ Inflight(pool.status, RequestsOf({UserOf[r]})) < maxInflightPerUser
        /\ pool' = Pool!drain(Pool!enqueue(pool, r))
    BY <1>3, <1>4, <1>11 DEF Pool!AcquireQueued
  <2>2. Count(pool.status, Requests, "pending") < queueMax
    <3>1. Pool!queuedCount(pool) = Count(pool.status, Requests, "pending")
      BY <1>1, QueuedIsCount DEF Rests, PoolSound, IsPool
    <3>2. Count(pool.status, Requests, "pending") \in Nat
      BY CountIsNat, PoolTypes
    <3> QED BY <1>11, <3>1, <3>2, PoolTypes DEF Pool!AcquireQueued, Pool!QueueFull
  <2>3. Rests(Pool!drain(Pool!enqueue(pool, r)))
    BY <1>1, <2>1, <2>2, EnqueueRests DEF Rests
  <2> QED BY <1>2, <2>1, <2>3
<1>12. ASSUME NEW r \in Requests, Pool!RemoveAndReject(r) PROVE PoolInv'
  <2> DEFINE h == Pool!reject(Pool!removePending(pool, r), r)
  <2>1. pool.status[r] = "pending" /\ pool' = Pool!drain(h)
    BY <1>12 DEF Pool!RemoveAndReject
  <2>2. Rests(h)
    BY <1>1, <2>1, AbandonSound DEF Rests
  <2> HIDE DEF h
  <2>3. Pool!drain(h) = h
    BY <2>2, NobodyIs DEF Rests, PoolSound
  <2> QED BY <1>2, <2>1, <2>2, <2>3
<1>13. ASSUME NEW r \in Requests, Pool!Release(r) PROVE PoolInv'
  <2>1. pool.status[r] = "granted" /\ pool' = Pool!drain(Freed(pool, r))
    BY <1>13 DEF Pool!Release, Freed
  <2>2. Rests(Pool!drain(Freed(pool, r)))
    BY <1>1, <2>1, ReleaseRests DEF Rests
  <2> QED BY <1>2, <2>1, <2>2
<1>14. ASSUME NEW r \in Requests, Pool!ReleaseAgain(r) PROVE PoolInv'
  BY <1>1, <1>2, <1>14 DEF Pool!ReleaseAgain
<1>15. CASE UNCHANGED pool
  BY <1>1, <1>2, <1>15
<1> QED
  BY <1>7, <1>8, <1>9, <1>10, <1>11, <1>12, <1>13, <1>14, <1>15 DEF Pool!Next

\* The pool's invariant gives what the run checks.
LEMMA PoolInvExact == ASSUME Pool!SchedulerConfig PROVE PoolInv => PoolExact
<1> SUFFICES ASSUME PoolInv PROVE PoolExact
  OBVIOUS
<1>1. /\ PoolSound(pool) /\ NobodyCanStart(pool) /\ IsPool(pool)
      /\ PoolCounters(pool) /\ PoolBounded(pool) /\ PoolRoom(pool)
      /\ QueuesHold(pool.queue, pool.status) /\ InLine(pool.waiting, pool.queue)
  BY DEF PoolInv, PoolSound
<1>2. Pool!TypeOK
  BY <1>1 DEF IsPool, Pool!TypeOK
<1>3. \A S : Pool!Cardinality(Pool!Holding(S)) = Count(pool.status, RequestsOf(S), "granted")
  <2> TAKE S
  <2>1. Pool!Holding(S) = InState(pool.status, RequestsOf(S), "granted")
    BY DEF Pool!Holding, InState, RequestsOf
  <2> QED BY <2>1, PoolSame DEF Count
<1>4. RequestsOf(Users) = Requests
  BY PoolTypes DEF RequestsOf
<1>5. Pool!Queued = InState(pool.status, Requests, "pending")
  BY DEF Pool!Queued, InState
<1>6. Pool!Cardinality(Pool!Queued) = Count(pool.status, Requests, "pending")
  BY <1>5, PoolSame DEF Count
<1>7. \A u \in Users : Pool!inflightForUser(pool, u) <= maxInflightPerUser
  BY <1>1, InflightIs DEF PoolRoom
<1>8. Pool!LimitsRespected
  BY <1>1, <1>3, <1>4, <1>6, <1>7 DEF Pool!LimitsRespected, PoolCounters, PoolBounded, PoolRoom
<1>9. ASSUME NEW u \in Users
      PROVE  /\ Pool!Distinct(pool.queue[u])
             /\ pool.queue[u] # <<>> <=> Pool!Listed(pool.waiting, u)
             /\ {pool.queue[u][i] : i \in DOMAIN pool.queue[u]}
                   = {r \in Pool!Queued : UserOf[r] = u}
  <2>1. Distinct(pool.queue[u]) /\ (pool.queue[u] # <<>> <=> Listed(pool.waiting, u))
    BY <1>1 DEF QueuesHold, InLine
  <2>2. {pool.queue[u][i] : i \in DOMAIN pool.queue[u]}
           = InState(pool.status, RequestsOf({u}), "pending")
    BY <1>1, LengthIsCount DEF IsPool
  <2>3. InState(pool.status, RequestsOf({u}), "pending") = {r \in Pool!Queued : UserOf[r] = u}
    BY DEF InState, RequestsOf, Pool!Queued
  <2> QED BY <2>1, <2>2, <2>3, PoolSame
<1>10. Pool!WaitingListExact
  BY <1>1, <1>9, PoolSame DEF Pool!WaitingListExact, InLine
<1>11. Pool!NoRunnableWaiter
  BY <1>1, NobodyIs DEF Pool!NoRunnableWaiter
<1> QED BY <1>2, <1>8, <1>10, <1>11 DEF PoolExact, Pool!Bookkeeping

\* PoolExact: after every call of acquire, of a timer or an abort, and of
\* release, the counters are the permits that are out, no limit is passed, the
\* queues hold exactly those that wait, and none of those could start.
THEOREM PoolCorrect == PoolSpec => []PoolExact
<1>1. Pool!Init => PoolInv
  BY PoolConfig, PoolInvInit
<1>2. PoolInv /\ [Pool!Next]_pool => PoolInv'
  BY PoolConfig, PoolInvNext
<1>3. PoolInv => PoolExact
  BY PoolConfig, PoolInvExact
<1> QED BY <1>1, <1>2, <1>3, PTL DEF PoolSpec, Pool!Spec, Pool!vars


-----------------------------------------------------------------------------
(* The lanes: the reserved account of MimoReservationScheduler.            *)

\* The operators of the instance are those of this module.
LEMMA MimoSame ==
    /\ \A S : Mimo!IsFiniteSet(S) <=> IsFiniteSet(S)
    /\ \A S : Mimo!Cardinality(S) = Cardinality(S)
    /\ \A S : Mimo!First(S) = First(S)
    /\ \A s, x : Mimo!At(s, x) = At(s, x) /\ (Mimo!Listed(s, x) <=> Listed(s, x))
    /\ \A s, x : Mimo!Without(s, x) = Without(s, x)
    /\ \A s : Mimo!Distinct(s) <=> Distinct(s)
    /\ \A s, i : Mimo!TakeOut(s, i) = TakeOut(s, i)
<1>1. \A S : Mimo!IsFiniteSet(S) <=> IsFiniteSet(S)
  BY DEF Mimo!IsFiniteSet, IsFiniteSet
<1>2. \A S : Mimo!Cardinality(S) = Cardinality(S)
  BY DEF Mimo!Cardinality, Cardinality, Mimo!IsFiniteSet, IsFiniteSet
<1>3. \A S : Mimo!First(S) = First(S)
  BY DEF Mimo!First, First
<1>4. \A s, x : Mimo!At(s, x) = At(s, x) /\ (Mimo!Listed(s, x) <=> Listed(s, x))
  BY DEF Mimo!At, At, Mimo!Listed, Listed
<1>5. \A s, i : Mimo!Splice(s, i) = Splice(s, i)
  BY DEF Mimo!Splice, Splice
<1>6. \A s, x : Mimo!Without(s, x) = Without(s, x)
  BY <1>3, <1>4, <1>5 DEF Mimo!Without, Without
<1>7. \A s : Mimo!Distinct(s) <=> Distinct(s)
  BY DEF Mimo!Distinct, Distinct
<1>8. \A s, i : Mimo!TakeOut(s, i) = TakeOut(s, i)
  BY DEF Mimo!TakeOut, TakeOut
<1> QED BY <1>1, <1>2, <1>3, <1>4, <1>6, <1>7, <1>8

\* What the configuration says of the constants.
LEMMA MimoTypes ==
    /\ IsFiniteSet(Requests)
    /\ UserOf \in [Requests -> Users] /\ TokenOf \in [Users -> Tokens]
    /\ LaneOf \in [Requests -> Mimo!Lanes]
    /\ Mimo!maxConcurrent \in Nat
    /\ laneLimits \in [Mimo!Lanes -> Nat] /\ laneQueueMax \in [Mimo!Lanes -> Nat]
    /\ maxConcurrentPerUser \in Nat /\ maxConcurrentPerToken \in Nat
    /\ maxInflightPerUser \in Nat
    /\ visionMaxConcurrentPerUser \in Nat /\ visionMaxInflightPerUser \in Nat
<1>1. Mimo!ReservationConfig
  BY PartsConfig DEF PartsConfig
<1> QED BY <1>1, MimoSame DEF Mimo!ReservationConfig, Mimo!maxConcurrent, Mimo!Lanes

\* The last of a non-empty set of positions.
LEMMA MaxIn ==
    ASSUME NEW n \in Nat, NEW S, S \subseteq 1..n, S # {}
    PROVE  Mimo!Max(S) \in S
<1> DEFINE T == {n - i : i \in S}
<1>1. T \subseteq Nat /\ T # {}
  <2>1. \A i \in S : i \in Nat /\ i <= n
    OBVIOUS
  <2>2. \A i \in S : n - i \in Nat
    BY <2>1
  <2> QED BY <2>2
<1>2. First(T) \in T /\ \A j \in T : First(T) <= j
  BY <1>1, FirstIn
<1>3. PICK i \in S : First(T) = n - i
  BY <1>2
<1>4. \A j \in S : n - i <= n - j
  BY <1>2, <1>3
<1>5. \A j \in S : i >= j
  BY <1>4
<1> QED BY <1>5 DEF Mimo!Max

-----------------------------------------------------------------------------
(* Counters of permits.                                                    *)

\* Each counter says how many requests of its set hold a permit, within its limit.
Tallied(c, K, of, limit, status) ==
    /\ c \in [K -> Nat]
    /\ \A k \in K : c[k] = Count(status, of[k], "granted") /\ c[k] <= limit[k]

\* The counters of the sets that a request is in change by x.
Bumped(c, d, K, of, r, x) == d = [k \in K |-> IF r \in of[k] THEN c[k] + x ELSE c[k]]

\* A permit is counted where there is room for it.
LEMMA TallyUp ==
    ASSUME IsFiniteSet(Requests), NEW K, NEW of \in [K -> SUBSET Requests],
           NEW limit \in [K -> Nat], NEW c, NEW d, NEW status, NEW n, NEW r \in Requests,
           Tallied(c, K, of, limit, status), Bumped(c, d, K, of, r, 1),
           Moves(status, n, r, "granted"), status[r] # "granted",
           \A k \in K : r \in of[k] => c[k] < limit[k]
    PROVE  Tallied(d, K, of, limit, n)
<1>1. /\ c \in [K -> Nat] /\ limit \in [K -> Nat]
      /\ \A k \in K : of[k] \in SUBSET Requests
  BY DEF Tallied
<1>2. /\ d \in [K -> Nat]
      /\ \A k \in K : d[k] = IF r \in of[k] THEN c[k] + 1 ELSE c[k]
  BY <1>1 DEF Bumped
<1>3. \A k \in K : d[k] = Count(n, of[k], "granted")
  <2> TAKE k \in K
  <2>1. c[k] = Count(status, of[k], "granted") /\ of[k] \in SUBSET Requests
    BY <1>1 DEF Tallied
  <2>2. Count(n, of[k], "granted") = IF r \in of[k] THEN Count(status, of[k], "granted") + 1
                                     ELSE Count(status, of[k], "granted")
    BY <2>1, CountMoves
  <2> QED BY <1>2, <2>1, <2>2
<1>4. \A k \in K : d[k] <= limit[k]
  BY <1>1, <1>2 DEF Tallied
<1> QED BY <1>2, <1>3, <1>4 DEF Tallied

\* A permit that is given back is counted no more.
LEMMA TallyDown ==
    ASSUME IsFiniteSet(Requests), NEW K, NEW of \in [K -> SUBSET Requests],
           NEW limit \in [K -> Nat], NEW c, NEW d, NEW status, NEW n, NEW r \in Requests,
           Tallied(c, K, of, limit, status), Bumped(c, d, K, of, r, 0 - 1),
           Moves(status, n, r, "released"), status[r] = "granted"
    PROVE  Tallied(d, K, of, limit, n)
<1>1. /\ c \in [K -> Nat] /\ limit \in [K -> Nat]
      /\ \A k \in K : of[k] \in SUBSET Requests
  BY DEF Tallied
<1>2. \A k \in K : d[k] = IF r \in of[k] THEN c[k] + (0 - 1) ELSE c[k]
  BY DEF Bumped
<1>3. \A k \in K : d[k] = Count(n, of[k], "granted") /\ (r \in of[k] => 0 < c[k])
  <2> TAKE k \in K
  <2>1. c[k] = Count(status, of[k], "granted") /\ of[k] \in SUBSET Requests
    BY <1>1 DEF Tallied
  <2>2. /\ Count(status, of[k], "granted") \in Nat
        /\ Count(n, of[k], "granted") = IF r \in of[k]
                                        THEN Count(status, of[k], "granted") - 1
                                        ELSE Count(status, of[k], "granted")
        /\ r \in of[k] => 0 < Count(status, of[k], "granted")
    BY <2>1, CountMoves
  <2> QED BY <1>2, <2>1, <2>2
<1>4. \A k \in K : d[k] \in Nat /\ d[k] <= limit[k]
  <2> TAKE k \in K
  <2>1. c[k] \in Nat /\ limit[k] \in Nat /\ c[k] <= limit[k] /\ (r \in of[k] => 0 < c[k])
    BY <1>1, <1>3 DEF Tallied
  <2> QED BY <1>2, <2>1
<1>5. d \in [K -> Nat]
  BY <1>4 DEF Bumped
<1> QED BY <1>3, <1>4, <1>5 DEF Tallied

\* Where no permit is given or taken, the counters stay right.
LEMMA TallyKept ==
    ASSUME IsFiniteSet(Requests), NEW K, NEW of \in [K -> SUBSET Requests],
           NEW limit, NEW c, NEW status, NEW n, NEW r \in Requests, NEW x,
           Tallied(c, K, of, limit, status),
           Moves(status, n, r, x), status[r] # "granted", x # "granted"
    PROVE  Tallied(c, K, of, limit, n)
<1>1. \A k \in K : Count(n, of[k], "granted") = Count(status, of[k], "granted")
  BY CountMoves
<1> QED BY <1>1 DEF Tallied


-----------------------------------------------------------------------------
(* The lanes' invariant.                                                   *)

LaneFields == {"active", "byLane", "byUser", "visionByUser", "byToken", "queue", "keys",
               "waiting", "queued", "arrived", "status"}

\* The sets of requests that the counters are about.
OfLane == [l \in Mimo!Lanes |-> {r \in Requests : LaneOf[r] = l}]
OfUser == [u \in Users |-> RequestsOf({u})]
VisionOf == [u \in Users |-> {r \in Requests : UserOf[r] = u /\ Mimo!IsVision(r)}]
OfToken == [t \in Tokens |-> {r \in Requests : Mimo!Token(r) = t}]

LaneShare == laneLimits
UserShare == [u \in Users |-> maxConcurrentPerUser]
VisionShare == [u \in Users |-> visionMaxConcurrentPerUser]
TokenShare == [t \in Tokens |-> maxConcurrentPerToken]

PermitsExact(m) ==
    /\ m.active = Count(m.status, Requests, "granted") /\ m.active <= Mimo!maxConcurrent
    /\ Tallied(m.byLane, Mimo!Lanes, OfLane, LaneShare, m.status)
    /\ Tallied(m.byUser, Users, OfUser, UserShare, m.status)
    /\ Tallied(m.visionByUser, Users, VisionOf, VisionShare, m.status)
    /\ Tallied(m.byToken, Tokens, OfToken, TokenShare, m.status)

RoomKept(m) ==
    \A u \in Users : /\ Inflight(m.status, OfUser[u]) <= maxInflightPerUser
                     /\ Inflight(m.status, VisionOf[u]) <= visionMaxInflightPerUser

\* A list of exactly the waiting requests.
Arrivals(list, status) ==
    /\ Distinct(list)
    /\ \A r \in Requests : Listed(list, r) <=> status[r] = "pending"

\* The two counters of the lanes' queues.
QueuedExact(queued, status) ==
    \A l \in Mimo!Lanes : queued[l] = Count(status, OfLane[l], "pending")

QueuesExact(m) ==
    /\ m.queue \in [Users -> Seq(Requests)] /\ QueuesHold(m.queue, m.status)
    /\ m.keys \in Seq(Users) /\ InLine(m.keys, m.queue)
    /\ m.waiting \in Seq(Users) /\ InLine(m.waiting, m.queue)
    /\ m.arrived \in Seq(Requests) /\ Arrivals(m.arrived, m.status)
    /\ m.queued \in [Mimo!Lanes -> Nat] /\ QueuedExact(m.queued, m.status)

LanesSound(m) ==
    /\ DOMAIN m = LaneFields /\ m.status \in [Requests -> Mimo!Status]
    /\ PermitsExact(m) /\ RoomKept(m) /\ QueuesExact(m)
    /\ \A l \in Mimo!Lanes : m.queued[l] <= laneQueueMax[l]

NobodyRuns(m) == \A r \in Requests : m.status[r] = "pending" => ~Mimo!canStart(m, r)

\* The sets of requests are what the lemmas on counters need.
LEMMA SetsAre ==
    /\ OfLane \in [Mimo!Lanes -> SUBSET Requests] /\ OfUser \in [Users -> SUBSET Requests]
    /\ VisionOf \in [Users -> SUBSET Requests] /\ OfToken \in [Tokens -> SUBSET Requests]
    /\ LaneShare \in [Mimo!Lanes -> Nat] /\ UserShare \in [Users -> Nat]
    /\ VisionShare \in [Users -> Nat] /\ TokenShare \in [Tokens -> Nat]
BY MimoTypes DEF OfLane, OfUser, VisionOf, OfToken, LaneShare, UserShare, VisionShare,
                 TokenShare, RequestsOf

\* Where a request is counted.
LEMMA CountedIn ==
    ASSUME NEW r \in Requests
    PROVE  /\ UserOf[r] \in Users /\ LaneOf[r] \in Mimo!Lanes /\ Mimo!Token(r) \in Tokens
           /\ \A l \in Mimo!Lanes : r \in OfLane[l] <=> l = LaneOf[r]
           /\ \A u \in Users : r \in OfUser[u] <=> u = UserOf[r]
           /\ \A u \in Users : r \in VisionOf[u] <=> u = UserOf[r] /\ Mimo!IsVision(r)
           /\ \A t \in Tokens : r \in OfToken[t] <=> t = Mimo!Token(r)
BY MimoTypes DEF OfLane, OfUser, VisionOf, OfToken, RequestsOf, Mimo!Token

\* What a permit does to the counters: x is one more or one less.
PermitBy(m, h, r, x) ==
    /\ h.active = m.active + x
    /\ Bumped(m.byLane, h.byLane, Mimo!Lanes, OfLane, r, x)
    /\ Bumped(m.byUser, h.byUser, Users, OfUser, r, x)
    /\ Bumped(m.visionByUser, h.visionByUser, Users, VisionOf, r, x)
    /\ Bumped(m.byToken, h.byToken, Tokens, OfToken, r, x)

SamePermits(m, h) ==
    /\ h.active = m.active /\ h.byLane = m.byLane /\ h.byUser = m.byUser
    /\ h.visionByUser = m.visionByUser /\ h.byToken = m.byToken

\* The counters when a request that can start gets its permit.
LEMMA PermitGiven ==
    ASSUME NEW m, PermitsExact(m), NEW h, NEW r \in Requests, PermitBy(m, h, r, 1),
           Moves(m.status, h.status, r, "granted"), m.status[r] # "granted",
           Mimo!canStart(m, r)
    PROVE  PermitsExact(h)
<1>1. IsFiniteSet(Requests) /\ Mimo!maxConcurrent \in Nat
  BY MimoTypes
<1>2. /\ m.active < Mimo!maxConcurrent
      /\ m.byLane[LaneOf[r]] < laneLimits[LaneOf[r]]
      /\ m.byUser[UserOf[r]] < maxConcurrentPerUser
      /\ Mimo!IsVision(r) => m.visionByUser[UserOf[r]] < visionMaxConcurrentPerUser
      /\ m.byToken[Mimo!Token(r)] < maxConcurrentPerToken
  BY DEF Mimo!canStart
<1>3. h.active = Count(h.status, Requests, "granted") /\ h.active <= Mimo!maxConcurrent
  BY <1>1, <1>2, CountMoves DEF PermitsExact, PermitBy
<1>4. Tallied(h.byLane, Mimo!Lanes, OfLane, LaneShare, h.status)
  <2>1. \A k \in Mimo!Lanes : r \in OfLane[k] => m.byLane[k] < LaneShare[k]
    BY <1>2, CountedIn DEF LaneShare
  <2> QED BY <1>1, <2>1, SetsAre, TallyUp DEF PermitsExact, PermitBy
<1>5. Tallied(h.byUser, Users, OfUser, UserShare, h.status)
  <2>1. \A k \in Users : r \in OfUser[k] => m.byUser[k] < UserShare[k]
    BY <1>2, CountedIn DEF UserShare
  <2> QED BY <1>1, <2>1, SetsAre, TallyUp DEF PermitsExact, PermitBy
<1>6. Tallied(h.visionByUser, Users, VisionOf, VisionShare, h.status)
  <2>1. \A k \in Users : r \in VisionOf[k] => m.visionByUser[k] < VisionShare[k]
    BY <1>2, CountedIn DEF VisionShare
  <2> QED BY <1>1, <2>1, SetsAre, TallyUp DEF PermitsExact, PermitBy
<1>7. Tallied(h.byToken, Tokens, OfToken, TokenShare, h.status)
  <2>1. \A k \in Tokens : r \in OfToken[k] => m.byToken[k] < TokenShare[k]
    BY <1>2, CountedIn DEF TokenShare
  <2> QED BY <1>1, <2>1, SetsAre, TallyUp DEF PermitsExact, PermitBy
<1> QED BY <1>3, <1>4, <1>5, <1>6, <1>7 DEF PermitsExact

\* The counters when a permit is given back.
LEMMA PermitBack ==
    ASSUME NEW m, PermitsExact(m), NEW h, NEW r \in Requests, PermitBy(m, h, r, 0 - 1),
           Moves(m.status, h.status, r, "released"), m.status[r] = "granted"
    PROVE  PermitsExact(h)
<1>1. IsFiniteSet(Requests) /\ Mimo!maxConcurrent \in Nat
  BY MimoTypes
<1>3. h.active = Count(h.status, Requests, "granted") /\ h.active <= Mimo!maxConcurrent
  BY <1>1, CountMoves DEF PermitsExact, PermitBy
<1>4. Tallied(h.byLane, Mimo!Lanes, OfLane, LaneShare, h.status)
  BY <1>1, SetsAre, TallyDown DEF PermitsExact, PermitBy
<1>5. Tallied(h.byUser, Users, OfUser, UserShare, h.status)
  BY <1>1, SetsAre, TallyDown DEF PermitsExact, PermitBy
<1>6. Tallied(h.visionByUser, Users, VisionOf, VisionShare, h.status)
  BY <1>1, SetsAre, TallyDown DEF PermitsExact, PermitBy
<1>7. Tallied(h.byToken, Tokens, OfToken, TokenShare, h.status)
  BY <1>1, SetsAre, TallyDown DEF PermitsExact, PermitBy
<1> QED BY <1>3, <1>4, <1>5, <1>6, <1>7 DEF PermitsExact

\* The counters when no permit changes hands.
LEMMA PermitsSame ==
    ASSUME NEW m, PermitsExact(m), NEW h, NEW r \in Requests, SamePermits(m, h),
           NEW x, x # "granted",
           Moves(m.status, h.status, r, x), m.status[r] # "granted"
    PROVE  PermitsExact(h)
<1>1. IsFiniteSet(Requests)
  BY MimoTypes
<1>3. h.active = Count(h.status, Requests, "granted") /\ h.active <= Mimo!maxConcurrent
  <2>1. Count(h.status, Requests, "granted") = Count(m.status, Requests, "granted")
    BY <1>1, CountMoves
  <2> QED BY <2>1 DEF PermitsExact, SamePermits
<1>4. Tallied(h.byLane, Mimo!Lanes, OfLane, LaneShare, h.status)
  BY <1>1, SetsAre, TallyKept DEF PermitsExact, SamePermits
<1>5. Tallied(h.byUser, Users, OfUser, UserShare, h.status)
  BY <1>1, SetsAre, TallyKept DEF PermitsExact, SamePermits
<1>6. Tallied(h.visionByUser, Users, VisionOf, VisionShare, h.status)
  BY <1>1, SetsAre, TallyKept DEF PermitsExact, SamePermits
<1>7. Tallied(h.byToken, Tokens, OfToken, TokenShare, h.status)
  BY <1>1, SetsAre, TallyKept DEF PermitsExact, SamePermits
<1> QED BY <1>3, <1>4, <1>5, <1>6, <1>7 DEF PermitsExact

\* Room in flight: what is not a new call needs none.
LEMMA RoomStays ==
    ASSUME NEW m, RoomKept(m), NEW h, NEW r \in Requests, NEW y,
           Moves(m.status, h.status, r, y),
           y \notin {"granted", "pending"} \/ m.status[r] \in {"granted", "pending"}
    PROVE  RoomKept(h)
<1>1. \A S \in SUBSET Requests : /\ Inflight(m.status, S) \in Nat /\ Inflight(h.status, S) \in Nat
                                 /\ Inflight(h.status, S) <= Inflight(m.status, S)
  BY MimoTypes, InflightMoves
<1> SUFFICES ASSUME NEW u \in Users
             PROVE  /\ Inflight(h.status, OfUser[u]) <= maxInflightPerUser
                    /\ Inflight(h.status, VisionOf[u]) <= visionMaxInflightPerUser
  BY DEF RoomKept
<1>2. OfUser[u] \in SUBSET Requests /\ VisionOf[u] \in SUBSET Requests
  BY SetsAre
<1>3. /\ Inflight(m.status, OfUser[u]) <= maxInflightPerUser
      /\ Inflight(m.status, VisionOf[u]) <= visionMaxInflightPerUser
  BY DEF RoomKept
<1> QED BY <1>1, <1>2, <1>3, MimoTypes

\* Room in flight for a new call.
HasRoom(m, r) ==
    /\ Inflight(m.status, OfUser[UserOf[r]]) < maxInflightPerUser
    /\ Mimo!IsVision(r) => Inflight(m.status, VisionOf[UserOf[r]]) < visionMaxInflightPerUser

\* A new call takes it.
LEMMA RoomTaken ==
    ASSUME NEW m, RoomKept(m), NEW h, NEW r \in Requests, NEW y,
           Moves(m.status, h.status, r, y), HasRoom(m, r)
    PROVE  RoomKept(h)
<1>1. \A S \in SUBSET Requests : /\ Inflight(m.status, S) \in Nat /\ Inflight(h.status, S) \in Nat
                                 /\ Inflight(h.status, S) <= Inflight(m.status, S) + 1
                                 /\ r \notin S => Inflight(h.status, S) <= Inflight(m.status, S)
  BY MimoTypes, InflightMoves
<1> SUFFICES ASSUME NEW u \in Users
             PROVE  /\ Inflight(h.status, OfUser[u]) <= maxInflightPerUser
                    /\ Inflight(h.status, VisionOf[u]) <= visionMaxInflightPerUser
  BY DEF RoomKept
<1>2. /\ OfUser[u] \in SUBSET Requests /\ VisionOf[u] \in SUBSET Requests
      /\ r \in OfUser[u] => u = UserOf[r]
      /\ r \in VisionOf[u] => u = UserOf[r] /\ Mimo!IsVision(r)
  BY SetsAre, CountedIn
<1>3. /\ Inflight(m.status, OfUser[u]) <= maxInflightPerUser
      /\ Inflight(m.status, VisionOf[u]) <= visionMaxInflightPerUser
      /\ r \in OfUser[u] => Inflight(m.status, OfUser[u]) < maxInflightPerUser
      /\ r \in VisionOf[u] => Inflight(m.status, VisionOf[u]) < visionMaxInflightPerUser
  BY <1>2 DEF RoomKept, HasRoom
<1> HIDE DEF OfUser, VisionOf
<1>4. Inflight(h.status, OfUser[u]) <= maxInflightPerUser
  BY <1>1, <1>2, <1>3, MimoTypes
<1>5. Inflight(h.status, VisionOf[u]) <= visionMaxInflightPerUser
  BY <1>1, <1>2, <1>3, MimoTypes
<1> QED BY <1>4, <1>5

-----------------------------------------------------------------------------
(* The lanes' queues.                                                      *)

SameLines(m, h) ==
    /\ h.queue = m.queue /\ h.keys = m.keys /\ h.waiting = m.waiting
    /\ h.queued = m.queued /\ h.arrived = m.arrived

\* What enqueue does to the queues and lists.
Joined(m, h, r) ==
    LET u == UserOf[r]
    IN  /\ h.queue = [m.queue EXCEPT ![u] = Append(@, r)]
        /\ h.keys = IF m.queue[u] = <<>> THEN Append(m.keys, u) ELSE m.keys
        /\ h.waiting = IF m.queue[u] = <<>> THEN Append(m.waiting, u) ELSE m.waiting
        /\ h.queued = [m.queued EXCEPT ![LaneOf[r]] = @ + 1]
        /\ h.arrived = Append(m.arrived, r)

\* What unqueue does to them; the waiting list is up to the caller.
Gone(m, h, r) ==
    LET u == UserOf[r]
        rest == Without(m.queue[u], r)
    IN  /\ h.queue = [m.queue EXCEPT ![u] = rest]
        /\ h.keys = IF rest = <<>> THEN Without(m.keys, u) ELSE m.keys
        /\ h.queued = [m.queued EXCEPT ![LaneOf[r]] = @ - 1]
        /\ h.arrived = Without(m.arrived, r)

\* A request outside the queues stays outside.
LEMMA LinesStay ==
    ASSUME NEW m, QueuesExact(m), NEW h, NEW r \in Requests, SameLines(m, h),
           NEW x, x # "pending", Moves(m.status, h.status, r, x), m.status[r] # "pending"
    PROVE  QueuesExact(h)
<1>1. QueuesHold(h.queue, h.status)
  BY StaysOut DEF QueuesExact, SameLines
<1>2. Arrivals(h.arrived, h.status)
  BY DEF QueuesExact, SameLines, Arrivals, Moves
<1>3. \A l \in Mimo!Lanes :
         Count(h.status, OfLane[l], "pending") = Count(m.status, OfLane[l], "pending")
  BY MimoTypes, SetsAre, CountMoves
<1>4. QueuedExact(h.queued, h.status)
  BY <1>3 DEF QueuesExact, SameLines, QueuedExact
<1> QED BY <1>1, <1>2, <1>4 DEF QueuesExact, SameLines

\* A request joins: its user's queue, the lists if it is the first there, its lane.
LEMMA LinesJoin ==
    ASSUME NEW m, QueuesExact(m), NEW h, NEW r \in Requests, Joined(m, h, r),
           Moves(m.status, h.status, r, "pending"), m.status[r] # "pending"
    PROVE  QueuesExact(h)
<1> DEFINE u == UserOf[r]
           more == Append(m.queue[u], r)
<1>1. /\ m.queue \in [Users -> Seq(Requests)] /\ QueuesHold(m.queue, m.status)
      /\ m.keys \in Seq(Users) /\ InLine(m.keys, m.queue)
      /\ m.waiting \in Seq(Users) /\ InLine(m.waiting, m.queue)
      /\ m.arrived \in Seq(Requests) /\ Arrivals(m.arrived, m.status)
      /\ m.queued \in [Mimo!Lanes -> Nat] /\ QueuedExact(m.queued, m.status)
  BY DEF QueuesExact
<1>2. /\ u \in Users /\ UserOf \in [Requests -> Users] /\ IsFiniteSet(Requests)
      /\ LaneOf[r] \in Mimo!Lanes
  BY MimoTypes
<1>3. /\ h.queue = [m.queue EXCEPT ![u] = Append(@, r)]
      /\ h.keys = IF m.queue[u] = <<>> THEN Append(m.keys, u) ELSE m.keys
      /\ h.waiting = IF m.queue[u] = <<>> THEN Append(m.waiting, u) ELSE m.waiting
      /\ h.queued = [m.queued EXCEPT ![LaneOf[r]] = @ + 1]
      /\ h.arrived = Append(m.arrived, r)
  BY DEF Joined
<1>4. h.queue \in [Users -> Seq(Requests)] /\ QueuesHold(h.queue, h.status)
  BY <1>1, <1>2, <1>3, JoinsQueue
<1>5. Requeued(m.queue, h.queue, u, more) /\ more # <<>>
  <2>1. Requeued(m.queue, h.queue, u, more)
    BY <1>1, <1>2, <1>3 DEF Requeued
  <2>2. m.queue[u] \in Seq(Requests)
    BY <1>1, <1>2
  <2> QED BY <2>1, <2>2, AppendProperties
<1> HIDE DEF more, u
<1>6. h.keys \in Seq(Users) /\ InLine(h.keys, h.queue)
  BY <1>1, <1>2, <1>3, <1>5, JoinsLine
<1>7. h.waiting \in Seq(Users) /\ InLine(h.waiting, h.queue)
  BY <1>1, <1>2, <1>3, <1>5, JoinsLine
<1>8. h.arrived \in Seq(Requests) /\ Arrivals(h.arrived, h.status)
  <2>1. Distinct(m.arrived) /\ ~Listed(m.arrived, r)
    BY <1>1 DEF Arrivals
  <2>2. /\ Distinct(h.arrived) /\ h.arrived \in Seq(Requests)
        /\ \A y : Listed(h.arrived, y) <=> Listed(m.arrived, y) \/ y = r
    BY <1>1, <1>3, <2>1, AppendKeeps, AppendProperties
  <2> QED BY <1>1, <2>2 DEF Arrivals, Moves
<1>9. h.queued \in [Mimo!Lanes -> Nat] /\ QueuedExact(h.queued, h.status)
  <2>1. \A l \in Mimo!Lanes : h.queued[l] = IF l = LaneOf[r] THEN m.queued[l] + 1 ELSE m.queued[l]
    BY <1>1, <1>2, <1>3
  <2>2. h.queued \in [Mimo!Lanes -> Nat]
    BY <1>1, <1>2, <1>3
  <2>3. ASSUME NEW l \in Mimo!Lanes PROVE h.queued[l] = Count(h.status, OfLane[l], "pending")
    <3>1. m.queued[l] = Count(m.status, OfLane[l], "pending") /\ OfLane[l] \in SUBSET Requests
      BY <1>1, SetsAre DEF QueuedExact
    <3>2. r \in OfLane[l] <=> l = LaneOf[r]
      BY CountedIn
    <3> QED BY <1>2, <2>1, <3>1, <3>2, CountMoves
  <2> QED BY <2>2, <2>3 DEF QueuedExact
<1> QED BY <1>4, <1>6, <1>7, <1>8, <1>9 DEF QueuesExact

\* A waiting request leaves, wherever it stands in its user's queue.
LEMMA LinesLeave ==
    ASSUME NEW m, QueuesExact(m), NEW h, NEW r \in Requests, Gone(m, h, r),
           NEW x, x # "pending", Moves(m.status, h.status, r, x), m.status[r] = "pending",
           h.waiting \in Seq(Users),
           Requeued(m.queue, h.queue, UserOf[r], Without(m.queue[UserOf[r]], r))
               => InLine(h.waiting, h.queue)
    PROVE  /\ QueuesExact(h)
           /\ \A l \in Mimo!Lanes : h.queued[l] <= m.queued[l]
           /\ h.queued[LaneOf[r]] + 1 = m.queued[LaneOf[r]]
<1> DEFINE u == UserOf[r]
           rest == Without(m.queue[u], r)
<1>1. /\ m.queue \in [Users -> Seq(Requests)] /\ QueuesHold(m.queue, m.status)
      /\ m.keys \in Seq(Users) /\ InLine(m.keys, m.queue)
      /\ m.arrived \in Seq(Requests) /\ Arrivals(m.arrived, m.status)
      /\ m.queued \in [Mimo!Lanes -> Nat] /\ QueuedExact(m.queued, m.status)
  BY DEF QueuesExact
<1>2. /\ u \in Users /\ UserOf \in [Requests -> Users] /\ IsFiniteSet(Requests)
      /\ LaneOf[r] \in Mimo!Lanes
  BY MimoTypes
<1>3. /\ h.queue = [m.queue EXCEPT ![u] = rest]
      /\ h.keys = IF rest = <<>> THEN Without(m.keys, u) ELSE m.keys
      /\ h.queued = [m.queued EXCEPT ![LaneOf[r]] = @ - 1]
      /\ h.arrived = Without(m.arrived, r)
  BY DEF Gone
<1>4. /\ m.queue[u] \in Seq(Requests) /\ Distinct(m.queue[u]) /\ Listed(m.queue[u], r)
      /\ m.queue[u] # <<>>
  <2>1. m.queue[u] \in Seq(Requests) /\ Distinct(m.queue[u]) /\ Listed(m.queue[u], r)
    BY <1>1, <1>2 DEF QueuesHold
  <2> QED BY <2>1, ListedNonEmpty
<1>5. /\ rest \in Seq(Requests) /\ Distinct(rest)
      /\ \A y : Listed(rest, y) <=> Listed(m.queue[u], y) /\ y # r
  BY <1>4, WithoutKeeps
<1>6. Requeued(m.queue, h.queue, u, rest)
  BY <1>1, <1>2, <1>3 DEF Requeued
<1>7. InLine(h.waiting, h.queue)
  BY <1>6
<1> HIDE DEF rest, u
<1>8. h.queue \in [Users -> Seq(Requests)] /\ QueuesHold(h.queue, h.status)
  BY <1>1, <1>2, <1>3, <1>5, LeavesQueue DEF u
<1>9. h.keys \in Seq(Users) /\ InLine(h.keys, h.queue)
  BY <1>1, <1>2, <1>3, <1>4, <1>6, LeavesLine
<1>10. h.arrived \in Seq(Requests) /\ Arrivals(h.arrived, h.status)
  <2>2. /\ Distinct(h.arrived) /\ h.arrived \in Seq(Requests)
        /\ \A y : Listed(h.arrived, y) <=> Listed(m.arrived, y) /\ y # r
    BY <1>1, <1>3, WithoutKeeps DEF Arrivals
  <2> QED BY <1>1, <2>2 DEF Arrivals, Moves
<1>11. ASSUME NEW l \in Mimo!Lanes
       PROVE  /\ h.queued[l] = Count(h.status, OfLane[l], "pending") /\ h.queued[l] \in Nat
              /\ h.queued[l] <= m.queued[l]
              /\ l = LaneOf[r] => h.queued[l] + 1 = m.queued[l]
  <2>1. h.queued[l] = IF l = LaneOf[r] THEN m.queued[l] - 1 ELSE m.queued[l]
    BY <1>1, <1>2, <1>3
  <2>2. m.queued[l] = Count(m.status, OfLane[l], "pending") /\ OfLane[l] \in SUBSET Requests
    BY <1>1, SetsAre DEF QueuedExact
  <2>3. r \in OfLane[l] <=> l = LaneOf[r]
    BY CountedIn
  <2>4. /\ h.queued[l] = Count(h.status, OfLane[l], "pending")
        /\ l = LaneOf[r] => 0 < m.queued[l]
    BY <1>2, <2>1, <2>2, <2>3, CountMoves
  <2>5. m.queued[l] \in Nat
    BY <1>1
  <2> QED BY <2>1, <2>4, <2>5
<1>12. h.queued \in [Mimo!Lanes -> Nat] /\ QueuedExact(h.queued, h.status)
  BY <1>1, <1>3, <1>11 DEF QueuedExact
<1> QED BY <1>2, <1>7, <1>8, <1>9, <1>10, <1>11, <1>12 DEF QueuesExact

-----------------------------------------------------------------------------
(* What each method does, before its drain.                                *)

\* The counters have their types.
LEMMA PermitTypes ==
    ASSUME NEW m, PermitsExact(m)
    PROVE  /\ m.active \in Nat
           /\ m.byLane \in [Mimo!Lanes -> Nat] /\ m.byUser \in [Users -> Nat]
           /\ m.visionByUser \in [Users -> Nat] /\ m.byToken \in [Tokens -> Nat]
BY MimoTypes, CountIsNat DEF PermitsExact, Tallied

\* A permit more, in the fields.
LEMMA GrantIs ==
    ASSUME NEW m, PermitsExact(m), NEW n, SamePermits(m, n), n.status = m.status,
           DOMAIN n = LaneFields, NEW r \in Requests
    PROVE  LET h == Mimo!grant(n, r)
           IN  /\ DOMAIN h = LaneFields /\ PermitBy(m, h, r, 1) /\ SameLines(n, h)
               /\ h.status = [m.status EXCEPT ![r] = "granted"]
<1> DEFINE h == Mimo!grant(n, r)
<1>1. /\ DOMAIN h = LaneFields
      /\ h.active = m.active + 1
      /\ h.byLane = [m.byLane EXCEPT ![LaneOf[r]] = @ + 1]
      /\ h.byUser = [m.byUser EXCEPT ![UserOf[r]] = @ + 1]
      /\ h.visionByUser = [m.visionByUser EXCEPT ![UserOf[r]] = @ + Mimo!One(r)]
      /\ h.byToken = [m.byToken EXCEPT ![Mimo!Token(r)] = @ + 1]
      /\ h.status = [m.status EXCEPT ![r] = "granted"]
  BY DEF Mimo!grant, LaneFields, SamePermits
<1>2. SameLines(n, h)
  BY DEF Mimo!grant, LaneFields, SameLines
<1> HIDE DEF h
<1>3. Bumped(m.byLane, h.byLane, Mimo!Lanes, OfLane, r, 1)
  BY <1>1, PermitTypes, CountedIn DEF Bumped
<1>4. Bumped(m.byUser, h.byUser, Users, OfUser, r, 1)
  BY <1>1, PermitTypes, CountedIn DEF Bumped
<1>5. Bumped(m.visionByUser, h.visionByUser, Users, VisionOf, r, 1)
  <2>1. m.visionByUser \in [Users -> Nat]
    BY PermitTypes
  <2>2. \A u \in Users : h.visionByUser[u] = IF r \in VisionOf[u] THEN m.visionByUser[u] + 1
                                             ELSE m.visionByUser[u]
    BY <1>1, <2>1, CountedIn DEF Mimo!One
  <2>3. h.visionByUser = [u \in Users |-> h.visionByUser[u]]
    BY <1>1, <2>1
  <2> QED BY <2>2, <2>3 DEF Bumped
<1>6. Bumped(m.byToken, h.byToken, Tokens, OfToken, r, 1)
  BY <1>1, PermitTypes, CountedIn DEF Bumped
<1>7. PermitBy(m, h, r, 1)
  BY <1>1, <1>3, <1>4, <1>5, <1>6 DEF PermitBy
<1> QED BY <1>1, <1>2, <1>7 DEF h

\* Nobody can start who could not when fewer permits were out.
LEMMA StartsLess ==
    ASSUME NEW m, PermitsExact(m), NEW h, PermitsExact(h), NEW r \in Requests,
           PermitBy(m, h, r, 1), NEW q \in Requests, Mimo!canStart(h, q)
    PROVE  Mimo!canStart(m, q)
<1>1. /\ m.active <= h.active
      /\ m.byLane[LaneOf[q]] <= h.byLane[LaneOf[q]]
      /\ m.byUser[UserOf[q]] <= h.byUser[UserOf[q]]
      /\ m.visionByUser[UserOf[q]] <= h.visionByUser[UserOf[q]]
      /\ m.byToken[Mimo!Token(q)] <= h.byToken[Mimo!Token(q)]
  BY PermitTypes, CountedIn DEF PermitBy, Bumped
<1>2. /\ m.active \in Nat /\ h.active \in Nat
      /\ m.byLane[LaneOf[q]] \in Nat /\ h.byLane[LaneOf[q]] \in Nat
      /\ m.byUser[UserOf[q]] \in Nat /\ h.byUser[UserOf[q]] \in Nat
      /\ m.visionByUser[UserOf[q]] \in Nat /\ h.visionByUser[UserOf[q]] \in Nat
      /\ m.byToken[Mimo!Token(q)] \in Nat /\ h.byToken[Mimo!Token(q)] \in Nat
  BY PermitTypes, CountedIn
<1>3. /\ Mimo!maxConcurrent \in Nat /\ laneLimits[LaneOf[q]] \in Nat
      /\ maxConcurrentPerUser \in Nat /\ maxConcurrentPerToken \in Nat
      /\ visionMaxConcurrentPerUser \in Nat
  BY MimoTypes
<1>4. /\ h.active < Mimo!maxConcurrent
      /\ h.byLane[LaneOf[q]] < laneLimits[LaneOf[q]]
      /\ h.byUser[UserOf[q]] < maxConcurrentPerUser
      /\ Mimo!IsVision(q) => h.visionByUser[UserOf[q]] < visionMaxConcurrentPerUser
      /\ h.byToken[Mimo!Token(q)] < maxConcurrentPerToken
  BY DEF Mimo!canStart
<1>5. /\ m.active < Mimo!maxConcurrent
      /\ m.byLane[LaneOf[q]] < laneLimits[LaneOf[q]]
      /\ m.byUser[UserOf[q]] < maxConcurrentPerUser
      /\ Mimo!IsVision(q) => m.visionByUser[UserOf[q]] < visionMaxConcurrentPerUser
      /\ m.byToken[Mimo!Token(q)] < maxConcurrentPerToken
  BY <1>1, <1>2, <1>3, <1>4
<1> QED BY <1>5 DEF Mimo!canStart

\* The same permits let the same requests start.
LEMMA StartsSame ==
    ASSUME NEW m, NEW h, SamePermits(m, h), NEW q
    PROVE  Mimo!canStart(h, q) <=> Mimo!canStart(m, q)
BY DEF SamePermits, Mimo!canStart

\* A new call gets its permit at once.
LEMMA GrantKeepsLanes ==
    ASSUME NEW m, LanesSound(m), NEW r \in Requests,
           m.status[r] \notin {"granted", "pending"}, Mimo!canStart(m, r), HasRoom(m, r)
    PROVE  LET h == Mimo!grant(m, r)
           IN  /\ LanesSound(h) /\ Moves(m.status, h.status, r, "granted")
               /\ NobodyRuns(m) => NobodyRuns(h)
<1> DEFINE h == Mimo!grant(m, r)
<1>1. /\ PermitsExact(m) /\ RoomKept(m) /\ QueuesExact(m) /\ DOMAIN m = LaneFields
      /\ m.status \in [Requests -> Mimo!Status] /\ SamePermits(m, m)
      /\ m.status[r] # "granted" /\ m.status[r] # "pending"
  BY DEF LanesSound, SamePermits
<1>2. /\ DOMAIN h = LaneFields /\ PermitBy(m, h, r, 1) /\ SameLines(m, h)
      /\ h.status = [m.status EXCEPT ![r] = "granted"]
  BY <1>1, GrantIs
<1> HIDE DEF h
<1>3. h.status \in [Requests -> Mimo!Status] /\ Moves(m.status, h.status, r, "granted")
  BY <1>1, <1>2 DEF Mimo!Status, Moves
<1>4. PermitsExact(h)
  BY <1>1, <1>2, <1>3, PermitGiven
<1>5. RoomKept(h)
  BY <1>1, <1>3, RoomTaken
<1>6. QueuesExact(h)
  BY <1>1, <1>2, <1>3, LinesStay
<1>7. LanesSound(h)
  BY <1>2, <1>3, <1>4, <1>5, <1>6 DEF LanesSound, SameLines
<1>8. ASSUME NobodyRuns(m) PROVE NobodyRuns(h)
  <2> SUFFICES ASSUME NEW q \in Requests, h.status[q] = "pending", Mimo!canStart(h, q)
               PROVE  FALSE
    BY DEF NobodyRuns
  <2>1. m.status[q] = "pending"
    BY <1>3 DEF Moves
  <2> QED BY <1>1, <1>2, <1>4, <1>8, <2>1, StartsLess DEF NobodyRuns
<1> QED BY <1>3, <1>7, <1>8 DEF h

\* A call is refused: its slot is free, and the books are as before.
LEMMA RejectKeepsLanes ==
    ASSUME NEW m, LanesSound(m), NEW r \in Requests,
           m.status[r] \notin {"granted", "pending"}
    PROVE  LET h == Mimo!reject(m, r)
           IN  /\ LanesSound(h) /\ Moves(m.status, h.status, r, "rejected")
               /\ NobodyRuns(m) => NobodyRuns(h)
<1> DEFINE h == Mimo!reject(m, r)
<1>1. /\ PermitsExact(m) /\ RoomKept(m) /\ QueuesExact(m) /\ DOMAIN m = LaneFields
      /\ m.status \in [Requests -> Mimo!Status]
      /\ m.status[r] # "granted" /\ m.status[r] # "pending"
  BY DEF LanesSound
<1>2. /\ DOMAIN h = LaneFields /\ SamePermits(m, h) /\ SameLines(m, h)
      /\ h.status = [m.status EXCEPT ![r] = "rejected"]
  BY <1>1 DEF Mimo!reject, LaneFields, SamePermits, SameLines
<1> HIDE DEF h
<1>3. h.status \in [Requests -> Mimo!Status] /\ Moves(m.status, h.status, r, "rejected")
  BY <1>1, <1>2 DEF Mimo!Status, Moves
<1>4. PermitsExact(h)
  BY <1>1, <1>2, <1>3, PermitsSame
<1>5. RoomKept(h)
  BY <1>1, <1>3, RoomStays
<1>6. QueuesExact(h)
  BY <1>1, <1>2, <1>3, LinesStay
<1>7. LanesSound(h)
  BY <1>2, <1>3, <1>4, <1>5, <1>6 DEF LanesSound, SameLines
<1>8. NobodyRuns(m) => NobodyRuns(h)
  BY <1>2, <1>3, StartsSame DEF NobodyRuns, Moves
<1> QED BY <1>3, <1>7, <1>8 DEF h

\* A call is put into the queue of its user.
LEMMA EnqueueKeepsLanes ==
    ASSUME NEW m, LanesSound(m), NEW r \in Requests,
           m.status[r] \notin {"granted", "pending"}, HasRoom(m, r),
           m.queued[LaneOf[r]] < laneQueueMax[LaneOf[r]]
    PROVE  LET h == Mimo!enqueue(m, r)
           IN  LanesSound(h) /\ Moves(m.status, h.status, r, "pending")
<1> DEFINE h == Mimo!enqueue(m, r)
<1>1. /\ PermitsExact(m) /\ RoomKept(m) /\ QueuesExact(m) /\ DOMAIN m = LaneFields
      /\ m.status \in [Requests -> Mimo!Status]
      /\ m.status[r] # "granted" /\ m.status[r] # "pending"
  BY DEF LanesSound
<1>2. /\ DOMAIN h = LaneFields /\ SamePermits(m, h) /\ Joined(m, h, r)
      /\ h.status = [m.status EXCEPT ![r] = "pending"]
  BY <1>1 DEF Mimo!enqueue, LaneFields, SamePermits, Joined
<1> HIDE DEF h
<1>3. h.status \in [Requests -> Mimo!Status] /\ Moves(m.status, h.status, r, "pending")
  BY <1>1, <1>2 DEF Mimo!Status, Moves
<1>4. PermitsExact(h)
  BY <1>1, <1>2, <1>3, PermitsSame
<1>5. RoomKept(h)
  BY <1>1, <1>3, RoomTaken
<1>6. QueuesExact(h)
  BY <1>1, <1>2, <1>3, LinesJoin
<1>7. \A l \in Mimo!Lanes : h.queued[l] <= laneQueueMax[l]
  <2>1. m.queued \in [Mimo!Lanes -> Nat] /\ laneQueueMax \in [Mimo!Lanes -> Nat]
    BY <1>1, MimoTypes DEF QueuesExact
  <2>2. \A l \in Mimo!Lanes : m.queued[l] <= laneQueueMax[l]
    BY DEF LanesSound
  <2>3. h.queued = [m.queued EXCEPT ![LaneOf[r]] = @ + 1]
    BY <1>2 DEF Joined
  <2> QED BY <2>1, <2>2, <2>3
<1>8. LanesSound(h)
  BY <1>2, <1>3, <1>4, <1>5, <1>6, <1>7 DEF LanesSound
<1> QED BY <1>3, <1>8 DEF h

\* A waiting request is taken out of the books.
LEMMA AbandonKeepsLanes ==
    ASSUME NEW m, LanesSound(m), NEW r \in Requests, m.status[r] = "pending"
    PROVE  LET h == Mimo!reject(Mimo!removePending(m, r), r)
           IN  /\ LanesSound(h) /\ Moves(m.status, h.status, r, "rejected")
               /\ SamePermits(m, h)
               /\ h.queued[LaneOf[r]] < laneQueueMax[LaneOf[r]]
<1> DEFINE h == Mimo!reject(Mimo!removePending(m, r), r)
           u == UserOf[r]
           rest == Without(m.queue[u], r)
<1>1. /\ PermitsExact(m) /\ RoomKept(m) /\ QueuesExact(m) /\ DOMAIN m = LaneFields
      /\ m.status \in [Requests -> Mimo!Status] /\ m.status[r] # "granted"
  BY DEF LanesSound
<1>2. /\ u \in Users /\ m.queue \in [Users -> Seq(Requests)] /\ QueuesHold(m.queue, m.status)
      /\ m.waiting \in Seq(Users) /\ InLine(m.waiting, m.queue)
  BY <1>1, MimoTypes DEF QueuesExact
<1>3. /\ DOMAIN h = LaneFields /\ SamePermits(m, h) /\ Gone(m, h, r)
      /\ h.waiting = IF rest = <<>> THEN Without(m.waiting, u) ELSE m.waiting
      /\ h.status = [m.status EXCEPT ![r] = "rejected"]
  BY <1>1, <1>2, MimoSame
     DEF Mimo!reject, Mimo!removePending, Mimo!unqueue, LaneFields, SamePermits, Gone
<1> HIDE DEF h
<1>4. h.status \in [Requests -> Mimo!Status] /\ Moves(m.status, h.status, r, "rejected")
  BY <1>1, <1>3 DEF Mimo!Status, Moves
<1>5. PermitsExact(h)
  BY <1>1, <1>3, <1>4, PermitsSame
<1>6. RoomKept(h)
  BY <1>1, <1>4, RoomStays
<1>7. h.waiting \in Seq(Users) /\ (Requeued(m.queue, h.queue, u, rest) => InLine(h.waiting, h.queue))
  <2>1. m.queue[u] # <<>>
    <3>1. m.queue[u] \in Seq(Requests) /\ Listed(m.queue[u], r)
      BY <1>2 DEF QueuesHold
    <3> QED BY <3>1, ListedNonEmpty
  <2>2. h.waiting \in Seq(Users)
    BY <1>2, <1>3, WithoutKeeps DEF InLine
  <2> HIDE DEF rest, u
  <2>3. ASSUME Requeued(m.queue, h.queue, u, rest) PROVE InLine(h.waiting, h.queue)
    BY <1>2, <1>3, <2>1, <2>3, LeavesLine
  <2> QED BY <2>2, <2>3
<1>8. /\ QueuesExact(h)
      /\ \A l \in Mimo!Lanes : h.queued[l] <= m.queued[l]
      /\ h.queued[LaneOf[r]] + 1 = m.queued[LaneOf[r]]
  <2>1. /\ QueuesExact(m) /\ r \in Requests /\ Gone(m, h, r) /\ m.status[r] = "pending"
        /\ "rejected" # "pending" /\ Moves(m.status, h.status, r, "rejected")
        /\ h.waiting \in Seq(Users)
        /\ Requeued(m.queue, h.queue, UserOf[r], Without(m.queue[UserOf[r]], r))
              => InLine(h.waiting, h.queue)
    BY <1>1, <1>3, <1>4, <1>7
  <2> QED BY ONLY <2>1, LinesLeave
<1>9. ASSUME NEW l \in Mimo!Lanes
      PROVE  h.queued[l] <= laneQueueMax[l] /\ (l = LaneOf[r] => h.queued[l] < laneQueueMax[l])
  <2>1. m.queued[l] \in Nat /\ h.queued[l] \in Nat /\ laneQueueMax[l] \in Nat
    BY <1>1, <1>8, MimoTypes DEF QueuesExact
  <2>2. m.queued[l] <= laneQueueMax[l]
    BY DEF LanesSound
  <2> QED BY <1>8, <2>1, <2>2
<1>10. LanesSound(h)
  BY <1>3, <1>4, <1>5, <1>6, <1>8, <1>9 DEF LanesSound
<1> QED BY <1>3, <1>4, <1>9, <1>10, CountedIn DEF h

\* A permit comes back to the lanes.
LaneFreed(m, r) ==
    [m EXCEPT !.active = @ - 1, !.byLane[LaneOf[r]] = @ - 1, !.byUser[UserOf[r]] = @ - 1,
              !.visionByUser[UserOf[r]] = @ - Mimo!One(r), !.byToken[Mimo!Token(r)] = @ - 1,
              !.status[r] = "released"]

\* A permit that is released is counted no more.
LEMMA FreedKeepsLanes ==
    ASSUME NEW m, LanesSound(m), NEW r \in Requests, m.status[r] = "granted"
    PROVE  LET h == LaneFreed(m, r)
           IN  LanesSound(h) /\ Moves(m.status, h.status, r, "released")
<1> DEFINE h == LaneFreed(m, r)
<1>1. /\ PermitsExact(m) /\ RoomKept(m) /\ QueuesExact(m) /\ DOMAIN m = LaneFields
      /\ m.status \in [Requests -> Mimo!Status] /\ m.status[r] # "pending"
  BY DEF LanesSound
<1>2. /\ DOMAIN h = LaneFields /\ SameLines(m, h)
      /\ h.active = m.active - 1
      /\ h.byLane = [m.byLane EXCEPT ![LaneOf[r]] = @ - 1]
      /\ h.byUser = [m.byUser EXCEPT ![UserOf[r]] = @ - 1]
      /\ h.visionByUser = [m.visionByUser EXCEPT ![UserOf[r]] = @ - Mimo!One(r)]
      /\ h.byToken = [m.byToken EXCEPT ![Mimo!Token(r)] = @ - 1]
      /\ h.status = [m.status EXCEPT ![r] = "released"]
  BY <1>1 DEF LaneFreed, LaneFields, SameLines
<1> HIDE DEF h
<1>3. h.status \in [Requests -> Mimo!Status] /\ Moves(m.status, h.status, r, "released")
  BY <1>1, <1>2 DEF Mimo!Status, Moves
<1>4. PermitBy(m, h, r, 0 - 1)
  <2>0. /\ m.active \in Nat
        /\ m.byLane \in [Mimo!Lanes -> Nat] /\ m.byUser \in [Users -> Nat]
        /\ m.visionByUser \in [Users -> Nat] /\ m.byToken \in [Tokens -> Nat]
    BY <1>1, PermitTypes
  <2>1. Bumped(m.byLane, h.byLane, Mimo!Lanes, OfLane, r, 0 - 1)
    <3>1. \A k \in Mimo!Lanes : h.byLane[k] = IF r \in OfLane[k] THEN m.byLane[k] + (0 - 1)
                                              ELSE m.byLane[k]
      BY <1>2, <2>0, CountedIn
    <3>2. h.byLane = [k \in Mimo!Lanes |-> h.byLane[k]]
      BY <1>2, <2>0
    <3> QED BY <3>1, <3>2 DEF Bumped
  <2>2. Bumped(m.byUser, h.byUser, Users, OfUser, r, 0 - 1)
    <3>1. \A k \in Users : h.byUser[k] = IF r \in OfUser[k] THEN m.byUser[k] + (0 - 1)
                                         ELSE m.byUser[k]
      BY <1>2, <2>0, CountedIn
    <3>2. h.byUser = [k \in Users |-> h.byUser[k]]
      BY <1>2, <2>0
    <3> QED BY <3>1, <3>2 DEF Bumped
  <2>3. Bumped(m.visionByUser, h.visionByUser, Users, VisionOf, r, 0 - 1)
    <3>1. \A k \in Users : h.visionByUser[k] = IF r \in VisionOf[k]
                                               THEN m.visionByUser[k] + (0 - 1)
                                               ELSE m.visionByUser[k]
      BY <1>2, <2>0, CountedIn DEF Mimo!One
    <3>2. h.visionByUser = [k \in Users |-> h.visionByUser[k]]
      BY <1>2, <2>0
    <3> QED BY <3>1, <3>2 DEF Bumped
  <2>4. Bumped(m.byToken, h.byToken, Tokens, OfToken, r, 0 - 1)
    <3>1. \A k \in Tokens : h.byToken[k] = IF r \in OfToken[k] THEN m.byToken[k] + (0 - 1)
                                           ELSE m.byToken[k]
      BY <1>2, <2>0, CountedIn
    <3>2. h.byToken = [k \in Tokens |-> h.byToken[k]]
      BY <1>2, <2>0
    <3> QED BY <3>1, <3>2 DEF Bumped
  <2> QED BY <1>2, <2>0, <2>1, <2>2, <2>3, <2>4 DEF PermitBy
<1>5. PermitsExact(h)
  BY <1>1, <1>3, <1>4, PermitBack
<1>6. RoomKept(h)
  BY <1>1, <1>3, RoomStays
<1>7. QueuesExact(h)
  BY <1>1, <1>2, <1>3, LinesStay
<1>8. LanesSound(h)
  BY <1>2, <1>3, <1>5, <1>6, <1>7 DEF LanesSound, SameLines
<1> QED BY <1>3, <1>8 DEF h

\* What was listed once is one element less.
LEMMA WithoutLength ==
    ASSUME NEW T, NEW s \in Seq(T), NEW x, Distinct(s), Listed(s, x)
    PROVE  Without(s, x) = <<>> <=> Len(s) = 1
<1> DEFINE i == First(At(s, x))
<1>1. Len(s) \in Nat /\ DOMAIN s = 1..Len(s)
  BY LenProperties
<1>2. i \in 1..Len(s)
  <2>1. At(s, x) \subseteq Nat /\ At(s, x) # {} /\ At(s, x) \subseteq 1..Len(s)
    BY <1>1 DEF Listed, At
  <2> QED BY <2>1, FirstIn
<1>3. Without(s, x) = Splice(s, i)
  BY DEF Without
<1> HIDE DEF i
<1>4. Splice(s, i) \in Seq(T) /\ Len(Splice(s, i)) = Len(s) - 1
  BY <1>2, SpliceKeeps
<1>5. Splice(s, i) = <<>> <=> Len(Splice(s, i)) = 0
  BY <1>4, EmptySeq
<1> QED BY <1>1, <1>3, <1>4, <1>5

\* Where a request that can start is found.
LEMMA RunsIs ==
    ASSUME NEW m, QueuesExact(m)
    PROVE  /\ NobodyRuns(m) <=> \A i \in DOMAIN m.waiting : Mimo!Startable(m, m.waiting[i]) = {}
           /\ NobodyRuns(m) <=> ~Mimo!hasRunnablePending(m)
           /\ NobodyRuns(m) => Mimo!grantNext(m) = m
<1>1. /\ m.queue \in [Users -> Seq(Requests)] /\ QueuesHold(m.queue, m.status)
      /\ m.waiting \in Seq(Users) /\ InLine(m.waiting, m.queue)
  BY DEF QueuesExact
<1>2. ASSUME NEW r \in Requests, m.status[r] = "pending", Mimo!canStart(m, r)
      PROVE  \E i \in DOMAIN m.waiting : Mimo!Startable(m, m.waiting[i]) # {}
  <2> DEFINE u == UserOf[r]
  <2>1. u \in Users /\ m.queue[u] \in Seq(Requests) /\ Listed(m.queue[u], r)
    BY <1>1, <1>2, MimoTypes DEF QueuesHold
  <2>2. m.queue[u] # <<>>
    BY <2>1, ListedNonEmpty
  <2>3. PICK i \in DOMAIN m.waiting : m.waiting[i] = u
    BY <1>1, <2>1, <2>2 DEF InLine, Listed, At
  <2>4. PICK j \in DOMAIN m.queue[u] : m.queue[u][j] = r
    BY <2>1 DEF Listed, At
  <2>5. j \in Mimo!Startable(m, u)
    BY <1>2, <2>4 DEF Mimo!Startable
  <2> QED BY <2>3, <2>5
<1>3. ASSUME NEW i \in DOMAIN m.waiting, NEW j \in Mimo!Startable(m, m.waiting[i])
      PROVE  \E r \in Requests : m.status[r] = "pending" /\ Mimo!canStart(m, r)
  <2> DEFINE u == m.waiting[i]
  <2>1. u \in Users
    BY <1>1, ElementOfSeq, LenProperties
  <2>2. j \in 1..Len(m.queue[u]) /\ Mimo!canStart(m, m.queue[u][j])
    BY <1>1, <2>1, LenProperties DEF Mimo!Startable
  <2> DEFINE queue == m.queue
             status == m.status
  <2>3. /\ queue \in [Users -> Seq(Requests)] /\ QueuesHold(queue, status)
        /\ u \in Users /\ j \in 1..Len(queue[u])
    BY <1>1, <2>1, <2>2
  <2> HIDE DEF u, queue, status
  <2>4. queue[u][j] \in Requests /\ status[queue[u][j]] = "pending"
    BY ONLY <2>3, QueueIsOwn
  <2> QED BY <2>2, <2>4 DEF queue, status
<1>4. NobodyRuns(m) <=> \A i \in DOMAIN m.waiting : Mimo!Startable(m, m.waiting[i]) = {}
  BY <1>2, <1>3 DEF NobodyRuns
<1>5. NobodyRuns(m) <=> ~Mimo!hasRunnablePending(m)
  BY <1>4 DEF Mimo!hasRunnablePending
<1>6. ASSUME NobodyRuns(m) PROVE Mimo!grantNext(m) = m
  <2>1. {i \in DOMAIN m.waiting : Mimo!Startable(m, m.waiting[i]) # {}} = {}
    BY <1>4, <1>6
  <2> QED BY <2>1 DEF Mimo!grantNext
<1> QED BY <1>4, <1>5, <1>6

\* A turn of the drain with somebody who can start gives one waiter its permit.
LEMMA TurnKeepsLanes ==
    ASSUME NEW m, LanesSound(m), ~NobodyRuns(m)
    PROVE  LET h == Mimo!grantNext(m)
           IN  /\ LanesSound(h)
               /\ \E r \in Requests : /\ m.status[r] = "pending" /\ Mimo!canStart(m, r)
                                      /\ Moves(m.status, h.status, r, "granted")
<1> DEFINE S == {k \in DOMAIN m.waiting : Mimo!Startable(m, m.waiting[k]) # {}}
           i == First(S)
           u == m.waiting[i]
           q == m.queue[u]
           j == First(Mimo!Startable(m, u))
           r == q[j]
           others == TakeOut(m.waiting, i)
           n == [Mimo!unqueue(m, r) EXCEPT !.waiting =
                    IF Len(q) = 1 THEN others ELSE Append(others, u)]
           h == Mimo!grantNext(m)
<1>1. /\ PermitsExact(m) /\ RoomKept(m) /\ QueuesExact(m) /\ DOMAIN m = LaneFields
      /\ m.status \in [Requests -> Mimo!Status]
  BY DEF LanesSound
<1>2. /\ m.queue \in [Users -> Seq(Requests)] /\ QueuesHold(m.queue, m.status)
      /\ m.waiting \in Seq(Users) /\ InLine(m.waiting, m.queue) /\ Distinct(m.waiting)
  BY <1>1 DEF QueuesExact, InLine
<1>3. DOMAIN m.waiting = 1..Len(m.waiting) /\ \A k \in 1..Len(m.waiting) : m.waiting[k] \in Users
  BY <1>2, LenProperties, ElementOfSeq
<1>4. S # {} /\ S \subseteq Nat
  <2>1. S # {}
    BY <1>1, RunsIs
  <2>2. S \subseteq 1..Len(m.waiting) /\ 1..Len(m.waiting) \subseteq Nat
    BY <1>3
  <2> QED BY <2>1, <2>2
<1>5. i \in 1..Len(m.waiting) /\ u \in Users /\ Mimo!Startable(m, u) # {}
  <2>1. i \in S
    BY <1>4, FirstIn
  <2> QED BY <1>3, <2>1
<1>6. h = Mimo!grant(n, r)
  <2>1. {k \in DOMAIN m.waiting : Mimo!Startable(m, m.waiting[k]) # {}} # {}
    BY <1>4
  <2> QED BY <2>1, MimoSame DEF Mimo!grantNext
<1> HIDE DEF i
<1>7. q \in Seq(Requests) /\ DOMAIN q = 1..Len(q) /\ Listed(m.waiting, u)
  BY <1>2, <1>3, <1>5, LenProperties DEF Listed, At
<1>8. j \in 1..Len(q) /\ Mimo!canStart(m, r)
  <2>1. Mimo!Startable(m, u) \subseteq 1..Len(q) /\ 1..Len(q) \subseteq Nat
    BY <1>7 DEF Mimo!Startable
  <2>2. j \in Mimo!Startable(m, u)
    BY <1>5, <2>1, FirstIn
  <2> QED BY <2>1, <2>2 DEF Mimo!Startable
<1> HIDE DEF j, u
<1>9. r \in Requests /\ UserOf[r] = u /\ m.status[r] = "pending"
  <2> DEFINE queue == m.queue
             status == m.status
  <2>1. /\ queue \in [Users -> Seq(Requests)] /\ QueuesHold(queue, status)
        /\ u \in Users /\ j \in 1..Len(queue[u])
    BY <1>2, <1>5, <1>8
  <2> HIDE DEF queue, status
  <2>2. queue[u][j] \in Requests /\ UserOf[queue[u][j]] = u /\ status[queue[u][j]] = "pending"
    BY ONLY <2>1, QueueIsOwn
  <2> QED BY <2>2 DEF queue, status
<1> DEFINE rest == Without(q, r)
<1>10. Distinct(q) /\ Listed(q, r)
  BY <1>2, <1>5, <1>9 DEF QueuesHold
<1>11. rest = <<>> <=> Len(q) = 1
  BY <1>7, <1>10, WithoutLength
<1> HIDE DEF r
<1>12. /\ DOMAIN n = LaneFields /\ SamePermits(m, n) /\ n.status = m.status
       /\ n.waiting = IF rest = <<>> THEN others ELSE Append(others, u)
       /\ Gone(m, n, r)
  BY <1>1, <1>9, <1>11, MimoSame DEF Mimo!unqueue, LaneFields, SamePermits, Gone
<1> HIDE DEF n, h, rest, others, q
<1>13. /\ DOMAIN h = LaneFields /\ PermitBy(m, h, r, 1) /\ SameLines(n, h)
       /\ h.status = [m.status EXCEPT ![r] = "granted"]
  BY <1>1, <1>6, <1>9, <1>12, GrantIs
<1>14. h.status \in [Requests -> Mimo!Status] /\ Moves(m.status, h.status, r, "granted")
  BY <1>1, <1>13 DEF Mimo!Status, Moves
<1>15. PermitsExact(h)
  BY <1>1, <1>8, <1>9, <1>13, <1>14, PermitGiven DEF r
<1>16. RoomKept(h)
  BY <1>1, <1>9, <1>14, RoomStays
<1>17. h.waiting \in Seq(Users) /\ (Requeued(m.queue, h.queue, u, rest) => InLine(h.waiting, h.queue))
  <2>1. /\ others \in Seq(Users) /\ Distinct(others)
        /\ \A x : Listed(others, x) <=> Listed(m.waiting, x) /\ x # u
    BY <1>2, <1>5, TakeOutKeeps DEF u, others
  <2>2. h.waiting = IF rest = <<>> THEN others ELSE Append(others, u)
    BY <1>12, <1>13 DEF SameLines
  <2>3. h.waiting \in Seq(Users)
    BY <1>5, <2>1, <2>2, AppendProperties
  <2>4. ASSUME Requeued(m.queue, h.queue, u, rest) PROVE InLine(h.waiting, h.queue)
    <3>1. /\ u \in Users /\ Listed(m.waiting, u)
          /\ m.waiting \in Seq(Users) /\ InLine(m.waiting, m.queue)
          /\ Requeued(m.queue, h.queue, u, rest)
      BY <1>2, <1>5, <1>7, <2>4
    <3> QED BY ONLY <2>1, <2>2, <3>1, ServedLine
  <2> QED BY <2>3, <2>4
<1>18. Gone(m, h, r)
  BY <1>12, <1>13 DEF Gone, SameLines
<1>19. QueuesExact(h) /\ \A l \in Mimo!Lanes : h.queued[l] <= m.queued[l]
  <2>1. /\ QueuesExact(m) /\ r \in Requests /\ Gone(m, h, r) /\ m.status[r] = "pending"
        /\ "granted" # "pending" /\ Moves(m.status, h.status, r, "granted")
        /\ h.waiting \in Seq(Users)
        /\ Requeued(m.queue, h.queue, UserOf[r], Without(m.queue[UserOf[r]], r))
              => InLine(h.waiting, h.queue)
    BY <1>1, <1>9, <1>14, <1>17, <1>18 DEF rest, q
  <2> QED BY ONLY <2>1, LinesLeave
<1>20. \A l \in Mimo!Lanes : h.queued[l] <= laneQueueMax[l]
  <2> TAKE l \in Mimo!Lanes
  <2>1. m.queued[l] \in Nat /\ h.queued[l] \in Nat /\ laneQueueMax[l] \in Nat
    BY <1>1, <1>19, MimoTypes DEF QueuesExact
  <2>2. m.queued[l] <= laneQueueMax[l]
    BY DEF LanesSound
  <2> QED BY <1>19, <2>1, <2>2
<1>21. LanesSound(h)
  BY <1>13, <1>14, <1>15, <1>16, <1>19, <1>20 DEF LanesSound
<1> QED BY <1>8, <1>9, <1>14, <1>21 DEF h, r

-----------------------------------------------------------------------------
(* The drain.                                                              *)

\* Nothing else happens to a request than that its wait ends with a permit.
Serving(status, n) ==
    \A r \in Requests : n[r] = status[r] \/ (status[r] = "pending" /\ n[r] = "granted")

Turns(f, m, k) == f = [n \in 0..k |-> IF n = 0 THEN m ELSE Mimo!grantNext(f[n - 1])]

\* Any number of turns can be taken.
LEMMA TurnsExist ==
    ASSUME NEW m, NEW k \in Nat
    PROVE  \E f : Turns(f, m, k)
<1> DEFINE Bad == {n \in Nat : ~\E f : Turns(f, m, n)}
<1> SUFFICES ASSUME Bad # {} PROVE FALSE
  BY Zenon
<1> DEFINE b == First(Bad)
<1>1. b \in Bad /\ \A n \in Bad : b <= n
  <2>1. Bad \subseteq Nat
    OBVIOUS
  <2> HIDE DEF Bad
  <2> QED BY <2>1, FirstIn
<1> HIDE DEF b
<1>2. b \in Nat /\ ~\E f : Turns(f, m, b)
  BY <1>1
<1>3. b # 0
  <2>1. Turns([n \in 0..0 |-> m], m, 0)
    BY DEF Turns
  <2> QED BY <1>2, <2>1
<1>4. PICK f : Turns(f, m, b - 1)
  <2>1. b - 1 \in Nat /\ ~(b <= b - 1)
    BY <1>2, <1>3
  <2>2. b - 1 \notin Bad
    BY <1>1, <2>1
  <2> QED BY <2>1, <2>2
<1> DEFINE g == [n \in 0..b |-> IF n = b THEN Mimo!grantNext(f[b - 1]) ELSE f[n]]
<1>5. \A n \in 0..b : g[n] = IF n = 0 THEN m ELSE Mimo!grantNext(g[n - 1])
  <2> TAKE n \in 0..b
  <2>1. CASE n = b
    <3>1. b - 1 \in 0..b /\ b - 1 # b
      BY <1>2, <1>3
    <3> QED BY <1>3, <2>1, <3>1
  <2>2. CASE n # b
    <3>1. n \in 0..(b - 1) /\ (n # 0 => n - 1 \in 0..b /\ n - 1 # b)
      BY <1>2, <2>2
    <3>2. f[n] = IF n = 0 THEN m ELSE Mimo!grantNext(f[n - 1])
      BY <1>4, <3>1 DEF Turns
    <3> QED BY <2>2, <3>1, <3>2
  <2> QED BY <2>1, <2>2
<1>6. g = [n \in 0..b |-> g[n]]
  OBVIOUS
<1> HIDE DEF g
<1>7. Turns(g, m, b)
  BY <1>5, <1>6 DEF Turns
<1> QED BY <1>2, <1>7

\* What each turn leaves: sound books, waits that ended with a permit, and one
\* waiter less or nobody who can start.
LEMMA AfterTurns ==
    ASSUME NEW m, LanesSound(m), NEW k \in Nat, NEW f, Turns(f, m, k)
    PROVE  \A n \in 0..k :
              /\ LanesSound(f[n]) /\ Serving(m.status, f[n].status)
              /\ NobodyRuns(m) => f[n] = m
              /\ \/ NobodyRuns(f[n])
                 \/ Count(f[n].status, Requests, "pending") + n
                        = Count(m.status, Requests, "pending")
<1> DEFINE P(n) == /\ LanesSound(f[n]) /\ Serving(m.status, f[n].status)
                   /\ NobodyRuns(m) => f[n] = m
                   /\ \/ NobodyRuns(f[n])
                      \/ Count(f[n].status, Requests, "pending") + n
                             = Count(m.status, Requests, "pending")
           Bad == {n \in 0..k : ~P(n)}
<1> SUFFICES ASSUME Bad # {} PROVE FALSE
  OBVIOUS
<1> DEFINE b == First(Bad)
<1>0. IsFiniteSet(Requests) /\ Requests \in SUBSET Requests
  BY MimoTypes
<1>1. b \in Bad /\ \A n \in Bad : b <= n
  <2>1. Bad \subseteq Nat
    OBVIOUS
  <2> HIDE DEF Bad
  <2> QED BY <2>1, FirstIn
<1> HIDE DEF b
<1>2. b \in 0..k /\ ~P(b)
  BY <1>1
<1>3. f[b] = IF b = 0 THEN m ELSE Mimo!grantNext(f[b - 1])
  BY <1>2 DEF Turns
<1>4. b # 0
  <2>1. P(0)
    <3>1. f[0] = m
      BY DEF Turns
    <3>2. Count(m.status, Requests, "pending") \in Nat
      BY <1>0, CountIsNat
    <3> QED BY <3>1, <3>2 DEF Serving
  <2> QED BY <1>2, <2>1
<1> DEFINE a == b - 1
           g == f[a]
<1>5. P(a) /\ a \in Nat /\ a + 1 = b
  <2>1. a \in 0..k /\ ~(b <= a) /\ a \in Nat /\ a + 1 = b
    BY <1>2, <1>4
  <2>2. a \notin Bad
    BY <1>1, <2>1
  <2> QED BY <2>1, <2>2
<1>6. f[b] = Mimo!grantNext(g)
  BY <1>3, <1>4
<1>7. /\ LanesSound(g) /\ Serving(m.status, g.status) /\ (NobodyRuns(m) => g = m)
      /\ \/ NobodyRuns(g)
         \/ Count(g.status, Requests, "pending") + a = Count(m.status, Requests, "pending")
  BY <1>5
<1> HIDE DEF g, a
<1>8. CASE NobodyRuns(g)
  <2>1. f[b] = g
    BY <1>6, <1>7, <1>8, RunsIs DEF LanesSound
  <2> QED BY <1>2, <1>7, <1>8, <2>1
<1>9. CASE ~NobodyRuns(g)
  <2>1. /\ LanesSound(f[b])
        /\ \E r \in Requests : /\ g.status[r] = "pending" /\ Mimo!canStart(g, r)
                               /\ Moves(g.status, f[b].status, r, "granted")
    BY <1>6, <1>7, <1>9, TurnKeepsLanes
  <2>2. PICK r \in Requests : g.status[r] = "pending" /\ Moves(g.status, f[b].status, r, "granted")
    BY <2>1
  <2>3. Serving(m.status, f[b].status)
    BY <1>7, <2>2 DEF Serving, Moves
  <2>4. /\ Count(g.status, Requests, "pending") \in Nat
        /\ Count(f[b].status, Requests, "pending") = Count(g.status, Requests, "pending") - 1
    BY <1>0, <2>2, CountMoves
  <2>5. Count(f[b].status, Requests, "pending") + b = Count(m.status, Requests, "pending")
    <3>1. Count(g.status, Requests, "pending") + a = Count(m.status, Requests, "pending")
      BY <1>7, <1>9
    <3> QED BY <1>5, <2>4, <3>1
  <2>6. ~NobodyRuns(m)
    BY <1>7, <1>9
  <2> QED BY <1>2, <2>1, <2>3, <2>5, <2>6
<1> QED BY <1>8, <1>9

\* The drain: sound books, nobody left who could start, waits that ended with
\* a permit, and nothing at all where nobody could start.
LEMMA DrainKeepsLanes ==
    ASSUME NEW m, LanesSound(m)
    PROVE  LET d == Mimo!drain(m)
           IN  /\ LanesSound(d) /\ NobodyRuns(d) /\ Serving(m.status, d.status)
               /\ NobodyRuns(m) => d = m
<1> DEFINE k == Count(m.status, Requests, "pending")
           f == CHOOSE g : Turns(g, m, k)
<1>0. IsFiniteSet(Requests) /\ k \in Nat
  BY MimoTypes, CountIsNat
<1>1. Mimo!drain(m) = f[k]
  BY MimoSame DEF Mimo!drain, Turns, Count, InState
<1>2. Turns(f, m, k)
  BY <1>0, TurnsExist
<1> HIDE DEF f
<1>3. k \in 0..k
  BY <1>0
<1>4. /\ LanesSound(f[k]) /\ Serving(m.status, f[k].status) /\ (NobodyRuns(m) => f[k] = m)
      /\ NobodyRuns(f[k]) \/ Count(f[k].status, Requests, "pending") + k = k
  BY <1>0, <1>2, <1>3, AfterTurns
<1>5. NobodyRuns(f[k])
  <2> SUFFICES ASSUME ~NobodyRuns(f[k]) PROVE FALSE
    OBVIOUS
  <2>1. Count(f[k].status, Requests, "pending") \in Nat
    BY <1>0, CountIsNat
  <2>2. Count(f[k].status, Requests, "pending") = 0
    <3> HIDE DEF k
    <3> QED BY <1>0, <1>4, <2>1
  <2>3. InState(f[k].status, Requests, "pending") = {}
    BY <1>0, <2>2, CountIsNat, FS_EmptySet DEF Count
  <2> QED BY <2>3 DEF NobodyRuns, InState
<1> QED BY <1>1, <1>4, <1>5

-----------------------------------------------------------------------------
(* The lanes' scheduler as a whole.                                        *)

\* A queue has as many positions with a vision request as there are such requests.
LEMMA PositionsAreCount ==
    ASSUME NEW m, QueuesExact(m), NEW u \in Users
    PROVE  Cardinality({i \in DOMAIN m.queue[u] : Mimo!IsVision(m.queue[u][i])})
              = Count(m.status, VisionOf[u], "pending")
<1> DEFINE q == m.queue[u]
           I == {i \in DOMAIN q : Mimo!IsVision(q[i])}
           V == InState(m.status, VisionOf[u], "pending")
           f == [i \in I |-> q[i]]
<1>1. /\ q \in Seq(Requests) /\ Distinct(q) /\ DOMAIN q = 1..Len(q)
      /\ \A i \in 1..Len(q) : q[i] \in Requests
      /\ \A r \in Requests : Listed(q, r) <=> m.status[r] = "pending" /\ UserOf[r] = u
  <2>1. q \in Seq(Requests)
    BY DEF QueuesExact
  <2> QED BY <2>1, LenProperties, ElementOfSeq DEF QueuesExact, QueuesHold
<1> HIDE DEF q
<1>2. \A i \in I : q[i] \in V
  BY <1>1 DEF Listed, At, InState, VisionOf
<1>3. \A r \in V : \E i \in I : q[i] = r
  BY <1>1 DEF Listed, At, InState, VisionOf
<1>4. \A i, j \in I : q[i] = q[j] => i = j
  BY <1>1 DEF Distinct
<1> HIDE DEF I, V
<1>5. f \in Bijection(I, V)
  BY <1>2, <1>3, <1>4 DEF Bijection, Injection, Surjection, IsInjective
<1>6. ExistsBijection(I, V)
  BY <1>5 DEF ExistsBijection
<1>7. IsFiniteSet(I)
  <2>1. I \subseteq 1..Len(q) /\ Len(q) \in Nat
    BY <1>1, LenProperties DEF I
  <2>2. IsFiniteSet(1..Len(q))
    BY <2>1, FS_Interval
  <2> QED BY <2>1, <2>2, FS_Subset
<1>8. Cardinality(I) = Cardinality(V)
  BY <1>6, <1>7, FS_Bijection
<1> QED BY <1>8 DEF Count, I, V, q

\* What a caller has in flight, as the code counts it.
LEMMA InflightLanes ==
    ASSUME NEW m, LanesSound(m), NEW u \in Users
    PROVE  /\ Mimo!inflightForUser(m, u) = Inflight(m.status, OfUser[u])
           /\ Mimo!inflightVisionForUser(m, u) = Inflight(m.status, VisionOf[u])
<1>1. QueuesExact(m) /\ PermitsExact(m)
  BY DEF LanesSound
<1>2. /\ m.byUser[u] = Count(m.status, OfUser[u], "granted")
      /\ m.visionByUser[u] = Count(m.status, VisionOf[u], "granted")
  BY <1>1 DEF PermitsExact, Tallied
<1>3. Len(m.queue[u]) = Count(m.status, OfUser[u], "pending")
  <2>1. m.queue \in [Users -> Seq(Requests)] /\ QueuesHold(m.queue, m.status)
    BY <1>1 DEF QueuesExact
  <2> QED BY <2>1, LengthIsCount DEF OfUser
<1>4. Mimo!Cardinality({i \in DOMAIN m.queue[u] : Mimo!IsVision(m.queue[u][i])})
         = Count(m.status, VisionOf[u], "pending")
  BY <1>1, PositionsAreCount, MimoSame
<1> QED BY <1>2, <1>3, <1>4 DEF Mimo!inflightForUser, Mimo!inflightVisionForUser, Inflight

\* A call that is not refused has room.
LEMMA NotTooMany ==
    ASSUME LanesSound(mimo), NEW r \in Requests, ~Mimo!TooManyInflight(r)
    PROVE  HasRoom(mimo, r)
<1> DEFINE u == UserOf[r]
<1>1. u \in Users
  BY CountedIn
<1>2. /\ Mimo!inflightForUser(mimo, u) = Inflight(mimo.status, OfUser[u])
      /\ Mimo!inflightVisionForUser(mimo, u) = Inflight(mimo.status, VisionOf[u])
  BY <1>1, InflightLanes
<1>3. Inflight(mimo.status, OfUser[u]) \in Nat /\ Inflight(mimo.status, VisionOf[u]) \in Nat
  <2>1. OfUser[u] \in SUBSET Requests /\ VisionOf[u] \in SUBSET Requests
    BY <1>1, SetsAre
  <2> QED BY <2>1, CountIsNat, MimoTypes DEF Inflight
<1> QED BY <1>2, <1>3, MimoTypes DEF Mimo!TooManyInflight, HasRoom

\* Which requests a token keeps waiting in a lane.
WaitersOf(m, lane, t) ==
    {q \in Requests : m.status[q] = "pending" /\ LaneOf[q] = lane /\ Mimo!Token(q) = t}

\* That is what makeRoomForFreshRunnableToken counts.
LEMMA QueuedByTokenIs ==
    ASSUME NEW m, QueuesExact(m), NEW lane, NEW t
    PROVE  Mimo!queuedByToken(m, lane, t) = Cardinality(WaitersOf(m, lane, t))
<1> DEFINE U == UNION { {m.queue[u][i] : i \in Mimo!Seats(m, lane, u)} :
                        u \in {v \in Users : TokenOf[v] = t} }
<1>1. m.queue \in [Users -> Seq(Requests)] /\ QueuesHold(m.queue, m.status)
  BY DEF QueuesExact
<1>2. ASSUME NEW x \in U PROVE x \in WaitersOf(m, lane, t)
  <2>1. PICK u \in Users : TokenOf[u] = t /\ x \in {m.queue[u][i] : i \in Mimo!Seats(m, lane, u)}
    OBVIOUS
  <2>2. PICK i \in DOMAIN m.queue[u] : x = m.queue[u][i] /\ LaneOf[x] = lane
    BY <2>1 DEF Mimo!Seats
  <2>3. x \in Requests /\ Listed(m.queue[u], x)
    <3>1. m.queue[u] \in Seq(Requests)
      BY <1>1
    <3>2. x \in Requests
      BY <2>2, <3>1, LenProperties, ElementOfSeq
    <3> QED BY <2>2, <3>2 DEF Listed, At
  <2>4. m.status[x] = "pending" /\ UserOf[x] = u
    BY <1>1, <2>3 DEF QueuesHold
  <2> QED BY <2>1, <2>2, <2>3, <2>4 DEF WaitersOf, Mimo!Token
<1>3. ASSUME NEW x \in WaitersOf(m, lane, t) PROVE x \in U
  <2> DEFINE u == UserOf[x]
  <2>1. x \in Requests /\ m.status[x] = "pending" /\ LaneOf[x] = lane /\ TokenOf[u] = t
    BY <1>3 DEF WaitersOf, Mimo!Token
  <2>2. u \in Users
    BY <2>1, MimoTypes
  <2>3. PICK i \in DOMAIN m.queue[u] : m.queue[u][i] = x
    BY <1>1, <2>1, <2>2 DEF QueuesHold, Listed, At
  <2>4. i \in Mimo!Seats(m, lane, u)
    BY <2>1, <2>3 DEF Mimo!Seats
  <2> QED BY <2>1, <2>2, <2>3, <2>4
<1>4. U = WaitersOf(m, lane, t)
  BY <1>2, <1>3
<1> QED BY <1>4, MimoSame DEF Mimo!queuedByToken

\* Who gives up its seat: a waiter of the lane, whose token has another one
\* there or is at its ceiling.
LEMMA DisplacedIs ==
    ASSUME NEW m, LanesSound(m), NEW lane, Mimo!Donors(m, lane) # {}
    PROVE  LET d == Mimo!displaced(m, lane)
           IN  /\ d \in Requests /\ m.status[d] = "pending" /\ LaneOf[d] = lane
               /\ \/ \E q \in WaitersOf(m, lane, Mimo!Token(d)) : q # d
                  \/ Mimo!atActiveCap(m, Mimo!Token(d))
<1> DEFINE D == Mimo!Donors(m, lane)
           k == First(D)
           u == m.keys[k]
           i == Mimo!Max(Mimo!Seats(m, lane, u))
           q == m.queue[u]
           d == q[i]
<1>1. QueuesExact(m)
  BY DEF LanesSound
<1>2. /\ m.queue \in [Users -> Seq(Requests)] /\ QueuesHold(m.queue, m.status)
      /\ m.keys \in Seq(Users)
  BY <1>1 DEF QueuesExact
<1>3. D \subseteq DOMAIN m.keys /\ DOMAIN m.keys = 1..Len(m.keys) /\ Len(m.keys) \in Nat
  BY <1>2, LenProperties DEF Mimo!Donors
<1>4. k \in D
  <2>1. D \subseteq Nat
    BY <1>3
  <2> HIDE DEF D
  <2> QED BY <2>1, FirstIn DEF D
<1>5. /\ k \in DOMAIN m.keys /\ Mimo!Seats(m, lane, u) # {}
      /\ Mimo!score(m, lane, TokenOf[u]) > 0
  BY <1>4 DEF Mimo!Donors
<1>6. Mimo!displaced(m, lane) = d
  BY MimoSame DEF Mimo!displaced
<1> HIDE DEF k, D
<1>7. u \in Users
  BY <1>2, <1>3, <1>5, ElementOfSeq
<1>8. q \in Seq(Requests) /\ DOMAIN q = 1..Len(q) /\ Len(q) \in Nat
  BY <1>2, <1>7, LenProperties
<1> HIDE DEF u
<1>9. i \in 1..Len(q) /\ LaneOf[d] = lane
  <2>1. Mimo!Seats(m, lane, u) \subseteq 1..Len(q)
    BY <1>8 DEF Mimo!Seats
  <2>2. i \in Mimo!Seats(m, lane, u)
    BY <1>5, <1>8, <2>1, MaxIn
  <2> QED BY <2>1, <2>2 DEF Mimo!Seats
<1> HIDE DEF i
<1>10. d \in Requests /\ UserOf[d] = u /\ m.status[d] = "pending"
  <2> DEFINE queue == m.queue
             status == m.status
  <2>1. /\ queue \in [Users -> Seq(Requests)] /\ QueuesHold(queue, status)
        /\ u \in Users /\ i \in 1..Len(queue[u])
    BY <1>2, <1>7, <1>9
  <2> HIDE DEF queue, status
  <2>2. queue[u][i] \in Requests /\ UserOf[queue[u][i]] = u /\ status[queue[u][i]] = "pending"
    BY ONLY <2>1, QueueIsOwn
  <2> QED BY <2>2 DEF queue, status
<1> HIDE DEF d
<1>11. Mimo!Token(d) = TokenOf[u]
  BY <1>10 DEF Mimo!Token
<1> DEFINE W == WaitersOf(m, lane, Mimo!Token(d))
<1>12. Mimo!queuedByToken(m, lane, TokenOf[u]) = Cardinality(W)
  BY <1>1, <1>11, QueuedByTokenIs
<1>13. CASE Mimo!atActiveCap(m, TokenOf[u])
  BY <1>6, <1>9, <1>10, <1>11, <1>13 DEF d
<1>14. CASE ~Mimo!atActiveCap(m, TokenOf[u])
  <2>1. Cardinality(W) > 1
    BY <1>5, <1>12, <1>14 DEF Mimo!score
  <2>2. IsFiniteSet(W)
    BY MimoTypes, FS_Subset DEF WaitersOf
  <2>3. W # {d}
    BY <2>1, FS_Singleton
  <2>4. d \in W
    BY <1>9, <1>10 DEF WaitersOf, d
  <2>5. \E x \in W : x # d
    BY <2>3, <2>4
  <2> QED BY <1>6, <1>9, <1>10, <2>5 DEF d
<1> QED BY <1>13, <1>14

\* No one loses its seat while another one gets a seat.
Undisplaced(status, n) ==
    \A r, s \in Requests : ~ /\ status[r] = "pending" /\ n[r] = "rejected"
                             /\ status[s] # "pending" /\ n[s] = "pending"

\* Between two calls: sound books, and nobody waits who could start.
Rests(m) == LanesSound(m) /\ NobodyRuns(m)

LanesInv == Rests(mimo)

\* A call that is displaced for: the books, and who loses its seat.
LEMMA DisplacedRests ==
    ASSUME NEW m, Rests(m), NEW r \in Requests, m.status[r] \notin {"granted", "pending"},
           HasRoom(m, r), Mimo!MayDisplace(m, r)
    PROVE  LET n == Mimo!drain(Mimo!enqueue(Mimo!makeRoom(m, r), r))
               d == Mimo!displaced(m, LaneOf[r])
           IN  /\ Rests(n)
               /\ \A x, s \in Requests :
                     /\ m.status[x] = "pending" /\ n.status[x] = "rejected" => x = d
                     /\ m.status[s] # "pending" /\ n.status[s] = "pending" => s = r
<1> DEFINE d == Mimo!displaced(m, LaneOf[r])
           a == Mimo!makeRoom(m, r)
           b == Mimo!enqueue(a, r)
           n == Mimo!drain(b)
<1>1. LanesSound(m) /\ Mimo!Donors(m, LaneOf[r]) # {}
  BY DEF Rests, Mimo!MayDisplace
<1>2. d \in Requests /\ m.status[d] = "pending" /\ LaneOf[d] = LaneOf[r]
  BY <1>1, DisplacedIs
<1> HIDE DEF d
<1>3. a = Mimo!reject(Mimo!removePending(m, d), d)
  BY DEF Mimo!makeRoom, d
<1> HIDE DEF a
<1>4. /\ LanesSound(a) /\ Moves(m.status, a.status, d, "rejected")
      /\ a.queued[LaneOf[r]] < laneQueueMax[LaneOf[r]]
  BY <1>1, <1>2, <1>3, AbandonKeepsLanes
<1>5. a.status[r] \notin {"granted", "pending"}
  BY <1>2, <1>4 DEF Moves
<1>6. HasRoom(a, r)
  <2>1. \A S \in SUBSET Requests : /\ Inflight(m.status, S) \in Nat
                                   /\ Inflight(a.status, S) \in Nat
                                   /\ Inflight(a.status, S) <= Inflight(m.status, S)
    BY <1>2, <1>4, MimoTypes, InflightMoves
  <2>2. OfUser[UserOf[r]] \in SUBSET Requests /\ VisionOf[UserOf[r]] \in SUBSET Requests
    BY SetsAre, CountedIn
  <2> QED BY <2>1, <2>2, MimoTypes DEF HasRoom
<1>7. LanesSound(b) /\ Moves(a.status, b.status, r, "pending")
  BY <1>4, <1>5, <1>6, EnqueueKeepsLanes
<1> HIDE DEF b
<1>8. LanesSound(n) /\ NobodyRuns(n) /\ Serving(b.status, n.status)
  BY <1>7, DrainKeepsLanes
<1> HIDE DEF n
<1>9. ASSUME NEW x \in Requests, m.status[x] = "pending", n.status[x] = "rejected" PROVE x = d
  BY <1>4, <1>7, <1>8, <1>9 DEF Moves, Serving
<1>10. ASSUME NEW s \in Requests, m.status[s] # "pending", n.status[s] = "pending" PROVE s = r
  BY <1>4, <1>7, <1>8, <1>10 DEF Moves, Serving
<1> QED BY <1>8, <1>9, <1>10 DEF Rests, n, b, a, d

\* Who loses its seat may lose it.
LEMMA DisplacesIsFair ==
    ASSUME NEW m, LanesSound(m), NEW r \in Requests, m.status[r] # "pending",
           Mimo!MayDisplace(m, r)
    PROVE  LET d == Mimo!displaced(m, LaneOf[r])
           IN  /\ LaneOf[d] = LaneOf[r] /\ Mimo!Token(d) # Mimo!Token(r)
               /\ \A q \in Requests : m.status[q] = "pending" /\ LaneOf[q] = LaneOf[r]
                                         => Mimo!Token(q) # Mimo!Token(r)
               /\ \/ \E q \in Requests \ {d} : /\ m.status[q] = "pending"
                                               /\ LaneOf[q] = LaneOf[d]
                                               /\ Mimo!Token(q) = Mimo!Token(d)
                  \/ Mimo!atActiveCap(m, Mimo!Token(d))
<1> DEFINE d == Mimo!displaced(m, LaneOf[r])
           W == WaitersOf(m, LaneOf[r], Mimo!Token(r))
<1>1. /\ Mimo!queuedByToken(m, LaneOf[r], Mimo!Token(r)) = 0
      /\ Mimo!Donors(m, LaneOf[r]) # {}
  BY DEF Mimo!MayDisplace
<1>2. /\ d \in Requests /\ m.status[d] = "pending" /\ LaneOf[d] = LaneOf[r]
      /\ \/ \E q \in WaitersOf(m, LaneOf[r], Mimo!Token(d)) : q # d
         \/ Mimo!atActiveCap(m, Mimo!Token(d))
  BY <1>1, DisplacedIs
<1> HIDE DEF d
<1>3. W = {}
  <2>1. Cardinality(W) = 0
    BY <1>1, QueuedByTokenIs DEF LanesSound
  <2>2. IsFiniteSet(W)
    BY MimoTypes, FS_Subset DEF WaitersOf
  <2> QED BY <2>1, <2>2, FS_EmptySet
<1>4. \A q \in Requests : m.status[q] = "pending" /\ LaneOf[q] = LaneOf[r]
                             => Mimo!Token(q) # Mimo!Token(r)
  BY <1>3 DEF WaitersOf
<1>5. \/ \E q \in Requests \ {d} : /\ m.status[q] = "pending" /\ LaneOf[q] = LaneOf[d]
                                   /\ Mimo!Token(q) = Mimo!Token(d)
      \/ Mimo!atActiveCap(m, Mimo!Token(d))
  BY <1>2 DEF WaitersOf
<1> QED BY <1>2, <1>4, <1>5 DEF d

\* A call that is refused or granted at once displaces nobody.
LEMMA SettledRests ==
    ASSUME NEW m, Rests(m), NEW r \in Requests, m.status[r] \notin {"granted", "pending"}
    PROVE  /\ LET n == Mimo!reject(m, r) IN Rests(n) /\ Undisplaced(m.status, n.status)
           /\ Mimo!canStart(m, r) /\ HasRoom(m, r) =>
                 LET n == Mimo!grant(m, r) IN Rests(n) /\ Undisplaced(m.status, n.status)
<1>1. ASSUME NEW n, NEW y, y # "pending", Moves(m.status, n.status, r, y)
      PROVE  Undisplaced(m.status, n.status)
  BY <1>1 DEF Undisplaced, Moves
<1>2. LET n == Mimo!reject(m, r) IN Rests(n) /\ Undisplaced(m.status, n.status)
  <2> DEFINE n == Mimo!reject(m, r)
  <2>1. LanesSound(n) /\ NobodyRuns(n) /\ Moves(m.status, n.status, r, "rejected")
    BY RejectKeepsLanes DEF Rests
  <2> HIDE DEF n
  <2>2. Undisplaced(m.status, n.status)
    BY <1>1, <2>1
  <2> QED BY <2>1, <2>2 DEF Rests, n
<1>3. ASSUME Mimo!canStart(m, r), HasRoom(m, r)
      PROVE  LET n == Mimo!grant(m, r) IN Rests(n) /\ Undisplaced(m.status, n.status)
  <2> DEFINE n == Mimo!grant(m, r)
  <2>1. LanesSound(n) /\ NobodyRuns(n) /\ Moves(m.status, n.status, r, "granted")
    BY <1>3, GrantKeepsLanes DEF Rests
  <2> HIDE DEF n
  <2>2. Undisplaced(m.status, n.status)
    BY <1>1, <2>1
  <2> QED BY <2>1, <2>2 DEF Rests, n
<1> QED BY <1>2, <1>3

\* Nor does a call that finds a free place in the queue.
LEMMA QueuedRests ==
    ASSUME NEW m, Rests(m), NEW r \in Requests, m.status[r] \notin {"granted", "pending"},
           HasRoom(m, r), ~Mimo!QueueFull(m, r)
    PROVE  LET n == Mimo!drain(Mimo!enqueue(m, r))
           IN  Rests(n) /\ Undisplaced(m.status, n.status)
<1> DEFINE a == Mimo!enqueue(m, r)
           n == Mimo!drain(a)
<1>1. m.queued[LaneOf[r]] < laneQueueMax[LaneOf[r]]
  <2>1. m.queued \in [Mimo!Lanes -> Nat]
    BY DEF Rests, LanesSound, QueuesExact
  <2>2. m.queued[LaneOf[r]] \in Nat /\ laneQueueMax[LaneOf[r]] \in Nat
    BY <2>1, MimoTypes
  <2> QED BY <2>2 DEF Mimo!QueueFull
<1>2. LanesSound(a) /\ Moves(m.status, a.status, r, "pending")
  BY <1>1, EnqueueKeepsLanes DEF Rests
<1> HIDE DEF a
<1>3. LanesSound(n) /\ NobodyRuns(n) /\ Serving(a.status, n.status)
  BY <1>2, DrainKeepsLanes
<1> HIDE DEF n
<1>4. Undisplaced(m.status, n.status)
  BY <1>2, <1>3 DEF Undisplaced, Moves, Serving
<1> QED BY <1>3, <1>4 DEF Rests, n, a

\* Nor a timer, an abort signal or a permit that comes back.
LEMMA FreedRests ==
    ASSUME NEW m, Rests(m), NEW r \in Requests
    PROVE  /\ m.status[r] = "pending" =>
                 LET n == Mimo!drain(Mimo!reject(Mimo!removePending(m, r), r))
                 IN  Rests(n) /\ Undisplaced(m.status, n.status)
           /\ m.status[r] = "granted" =>
                 LET n == Mimo!drain(LaneFreed(m, r))
                 IN  Rests(n) /\ Undisplaced(m.status, n.status)
<1>1. ASSUME NEW a, NEW y, y # "pending", LanesSound(a), Moves(m.status, a.status, r, y)
      PROVE  Rests(Mimo!drain(a)) /\ Undisplaced(m.status, Mimo!drain(a).status)
  <2> DEFINE n == Mimo!drain(a)
  <2>1. LanesSound(n) /\ NobodyRuns(n) /\ Serving(a.status, n.status)
    BY <1>1, DrainKeepsLanes
  <2> HIDE DEF n
  <2>2. Undisplaced(m.status, n.status)
    BY <1>1, <2>1 DEF Undisplaced, Moves, Serving
  <2> QED BY <2>1, <2>2 DEF Rests, n
<1>2. ASSUME m.status[r] = "pending"
      PROVE  LET a == Mimo!reject(Mimo!removePending(m, r), r)
             IN  LanesSound(a) /\ Moves(m.status, a.status, r, "rejected")
  BY <1>2, AbandonKeepsLanes DEF Rests
<1>3. ASSUME m.status[r] = "granted"
      PROVE  LanesSound(LaneFreed(m, r)) /\ Moves(m.status, LaneFreed(m, r).status, r, "released")
  BY <1>3, FreedKeepsLanes DEF Rests
<1> QED BY <1>1, <1>2, <1>3

\* Every call of the scheduler keeps the lanes' invariant and displaces fairly.
LEMMA LanesInvNext ==
    ASSUME LanesInv, [Mimo!Next]_mimo
    PROVE  LanesInv' /\ Mimo!DisplacesFairly
<1>1. Rests(mimo)
  BY DEF LanesInv
<1>2. \A d : mimo' = d /\ Rests(d) => LanesInv'
  BY DEF LanesInv, Rests, LanesSound, NobodyRuns, PermitsExact, RoomKept, QueuesExact, Tallied,
         QueuesHold, InLine, Arrivals, QueuedExact, Mimo!canStart
<1>3. ASSUME Undisplaced(mimo.status, mimo'.status) PROVE Mimo!DisplacesFairly
  BY <1>3 DEF Undisplaced, Mimo!DisplacesFairly, Mimo!Displaces
<1>4. ASSUME NEW d, mimo' = d, Rests(d), Undisplaced(mimo.status, d.status)
      PROVE  LanesInv' /\ Mimo!DisplacesFairly
  BY <1>2, <1>3, <1>4
<1>5. \A r \in Requests : Mimo!CanAcquire(r) => mimo.status[r] \notin {"granted", "pending"}
  BY DEF Mimo!CanAcquire
<1>6. \A r \in Requests : ~Mimo!TooManyInflight(r) => HasRoom(mimo, r)
  BY <1>1, NotTooMany DEF Rests
<1>7. ASSUME NEW r \in Requests, Mimo!CanAcquire(r), mimo' = Mimo!reject(mimo, r)
      PROVE  LanesInv' /\ Mimo!DisplacesFairly
  BY <1>1, <1>4, <1>5, <1>7, SettledRests
<1>8. ASSUME NEW r \in Requests, Mimo!CanAcquire(r), ~Mimo!TooManyInflight(r),
             Mimo!canStart(mimo, r), mimo' = Mimo!grant(mimo, r)
      PROVE  LanesInv' /\ Mimo!DisplacesFairly
  BY <1>1, <1>4, <1>5, <1>6, <1>8, SettledRests
<1>9. ASSUME NEW r \in Requests, Mimo!CanAcquire(r), ~Mimo!TooManyInflight(r),
             ~Mimo!QueueFull(mimo, r), mimo' = Mimo!drain(Mimo!enqueue(mimo, r))
      PROVE  LanesInv' /\ Mimo!DisplacesFairly
  BY <1>1, <1>4, <1>5, <1>6, <1>9, QueuedRests
<1>10. ASSUME NEW r \in Requests, Mimo!CanAcquire(r), ~Mimo!TooManyInflight(r),
              Mimo!MayDisplace(mimo, r),
              mimo' = Mimo!drain(Mimo!enqueue(Mimo!makeRoom(mimo, r), r))
       PROVE  LanesInv' /\ Mimo!DisplacesFairly
  <2> DEFINE n == Mimo!drain(Mimo!enqueue(Mimo!makeRoom(mimo, r), r))
             d == Mimo!displaced(mimo, LaneOf[r])
  <2>1. /\ Rests(n)
        /\ \A x, s \in Requests :
              /\ mimo.status[x] = "pending" /\ n.status[x] = "rejected" => x = d
              /\ mimo.status[s] # "pending" /\ n.status[s] = "pending" => s = r
    BY <1>1, <1>5, <1>6, <1>10, DisplacedRests
  <2>2. mimo.status[r] # "pending" /\ LanesSound(mimo)
    BY <1>1, <1>5, <1>10 DEF Rests
  <2>3. /\ LaneOf[d] = LaneOf[r] /\ Mimo!Token(d) # Mimo!Token(r)
        /\ \A q \in Requests : mimo.status[q] = "pending" /\ LaneOf[q] = LaneOf[r]
                                  => Mimo!Token(q) # Mimo!Token(r)
        /\ \/ \E q \in Requests \ {d} : /\ mimo.status[q] = "pending" /\ LaneOf[q] = LaneOf[d]
                                        /\ Mimo!Token(q) = Mimo!Token(d)
           \/ Mimo!atActiveCap(mimo, Mimo!Token(d))
    BY <1>10, <2>2, DisplacesIsFair
  <2> HIDE DEF d
  <2>4. mimo' = n
    BY <1>10
  <2> HIDE DEF n
  <2>5. ASSUME NEW x \in Requests, NEW s \in Requests, Mimo!Displaces(s, x)
        PROVE  x = d /\ s = r
    BY <2>1, <2>4, <2>5 DEF Mimo!Displaces
  <2>6. Mimo!DisplacesFairly
    BY <2>3, <2>5 DEF Mimo!DisplacesFairly, Mimo!Pending
  <2> QED BY <1>2, <2>1, <2>4, <2>6
<1>11. ASSUME NEW r \in Requests, Mimo!AcquireAtFullQueue(r)
       PROVE  LanesInv' /\ Mimo!DisplacesFairly
  <2>1. Mimo!drain(mimo) = mimo
    BY <1>1, DrainKeepsLanes DEF Rests
  <2>2. /\ Mimo!CanAcquire(r) /\ ~Mimo!TooManyInflight(r)
        /\ \/ Mimo!canStart(mimo, r) /\ mimo' = Mimo!grant(mimo, r)
           \/ ~Mimo!QueueFull(mimo, r) /\ mimo' = Mimo!drain(Mimo!enqueue(mimo, r))
           \/ /\ Mimo!MayDisplace(mimo, r)
              /\ mimo' = Mimo!drain(Mimo!enqueue(Mimo!makeRoom(mimo, r), r))
           \/ mimo' = Mimo!reject(mimo, r)
    BY <1>11, <2>1 DEF Mimo!AcquireAtFullQueue
  <2> QED BY <1>7, <1>8, <1>9, <1>10, <2>2
<1>12. ASSUME NEW r \in Requests, Mimo!RemoveAndReject(r) PROVE LanesInv' /\ Mimo!DisplacesFairly
  <2>1. /\ mimo.status[r] = "pending"
        /\ mimo' = Mimo!drain(Mimo!reject(Mimo!removePending(mimo, r), r))
    BY <1>12 DEF Mimo!RemoveAndReject
  <2> QED BY <1>1, <1>4, <2>1, FreedRests
<1>13. ASSUME NEW r \in Requests, Mimo!Release(r) PROVE LanesInv' /\ Mimo!DisplacesFairly
  <2>1. mimo.status[r] = "granted" /\ mimo' = Mimo!drain(LaneFreed(mimo, r))
    BY <1>13 DEF Mimo!Release, LaneFreed
  <2> QED BY <1>1, <1>4, <2>1, FreedRests
<1>14. CASE UNCHANGED mimo
  BY <1>1, <1>4, <1>14 DEF Undisplaced
<1>15. ASSUME NEW r \in Requests,
              \/ Mimo!AcquireRefused(r) \/ Mimo!AcquireImmediately(r)
              \/ Mimo!AcquireWithoutWaiting(r) \/ Mimo!AcquireQueued(r)
       PROVE  LanesInv' /\ Mimo!DisplacesFairly
  BY <1>7, <1>8, <1>9, <1>15
     DEF Mimo!AcquireRefused, Mimo!AcquireImmediately, Mimo!AcquireWithoutWaiting,
         Mimo!AcquireQueued, Mimo!Immediate
<1> QED BY <1>11, <1>12, <1>13, <1>14, <1>15 DEF Mimo!Next, Mimo!ReleaseAgain

\* The lanes' invariant holds of a new scheduler.
LEMMA LanesInvInit == Mimo!Init => LanesInv
<1> SUFFICES ASSUME Mimo!Init PROVE LanesInv
  OBVIOUS
<1>1. /\ mimo.active = 0 /\ mimo.byLane = [l \in Mimo!Lanes |-> 0]
      /\ mimo.byUser = [u \in Users |-> 0] /\ mimo.visionByUser = [u \in Users |-> 0]
      /\ mimo.byToken = [t \in Tokens |-> 0]
      /\ mimo.queue = [u \in Users |-> <<>>] /\ mimo.keys = <<>> /\ mimo.waiting = <<>>
      /\ mimo.queued = [l \in Mimo!Lanes |-> 0] /\ mimo.arrived = <<>>
      /\ mimo.status = [r \in Requests |-> "idle"]
      /\ DOMAIN mimo = LaneFields
  BY DEF Mimo!Init, LaneFields
<1>2. /\ \A r \in Requests : mimo.status[r] # "granted" /\ mimo.status[r] # "pending"
      /\ mimo.status \in [Requests -> Mimo!Status]
  BY <1>1 DEF Mimo!Status
<1>3. \A S \in SUBSET Requests :
         /\ Count(mimo.status, S, "granted") = 0 /\ Count(mimo.status, S, "pending") = 0
         /\ Inflight(mimo.status, S) = 0
  BY <1>2, CountOfNone DEF Inflight
<1>a. /\ \A l \in Mimo!Lanes : /\ Count(mimo.status, OfLane[l], "granted") = 0
                               /\ Count(mimo.status, OfLane[l], "pending") = 0
      /\ \A u \in Users : /\ Count(mimo.status, OfUser[u], "granted") = 0
                          /\ Count(mimo.status, VisionOf[u], "granted") = 0
      /\ \A t \in Tokens : Count(mimo.status, OfToken[t], "granted") = 0
  BY <1>3, SetsAre
<1>b. /\ \A l \in Mimo!Lanes : LaneShare[l] \in Nat
      /\ \A u \in Users : UserShare[u] \in Nat /\ VisionShare[u] \in Nat
      /\ \A t \in Tokens : TokenShare[t] \in Nat
  BY SetsAre
<1>c. mimo.active = Count(mimo.status, Requests, "granted") /\ mimo.active <= Mimo!maxConcurrent
  <2>1. Count(mimo.status, Requests, "granted") = 0
    BY <1>3
  <2>2. mimo.active = 0 /\ Mimo!maxConcurrent \in Nat
    BY <1>1, MimoTypes
  <2> QED BY <2>1, <2>2
<1>4. PermitsExact(mimo)
  BY <1>1, <1>a, <1>b, <1>c DEF PermitsExact, Tallied
<1>5. RoomKept(mimo)
  BY <1>3, SetsAre, MimoTypes DEF RoomKept
<1>6. /\ \A x : ~Listed(<<>>, x)
      /\ Distinct(<<>>)
  BY DEF Listed, At, Distinct
<1>7. QueuesHold(mimo.queue, mimo.status) /\ InLine(<<>>, mimo.queue)
  BY <1>1, <1>2, <1>6 DEF QueuesHold, InLine
<1>8. Arrivals(mimo.arrived, mimo.status) /\ QueuedExact(mimo.queued, mimo.status)
  BY <1>1, <1>2, <1>6, <1>a DEF Arrivals, QueuedExact
<1>9. QueuesExact(mimo)
  BY <1>1, <1>7, <1>8 DEF QueuesExact
<1>10. \A l \in Mimo!Lanes : mimo.queued[l] <= laneQueueMax[l]
  BY <1>1, MimoTypes
<1>11. NobodyRuns(mimo)
  BY <1>2 DEF NobodyRuns
<1> QED BY <1>1, <1>2, <1>4, <1>5, <1>9, <1>10, <1>11 DEF LanesInv, Rests, LanesSound

\* The lanes' invariant gives what the run checks.
LEMMA LanesInvExact == LanesInv => Mimo!Bookkeeping /\ Mimo!NoRunnableWaiter
<1> SUFFICES ASSUME LanesInv PROVE Mimo!Bookkeeping /\ Mimo!NoRunnableWaiter
  OBVIOUS
<1>1. /\ LanesSound(mimo) /\ NobodyRuns(mimo)
      /\ PermitsExact(mimo) /\ RoomKept(mimo) /\ QueuesExact(mimo)
      /\ mimo.status \in [Requests -> Mimo!Status]
  BY DEF LanesInv, Rests, LanesSound
<1>2. Mimo!TypeOK
  BY <1>1, PermitTypes DEF QueuesExact, Mimo!TypeOK
<1>3. /\ mimo.active = Mimo!Held(LAMBDA r : TRUE) /\ mimo.active <= Mimo!maxConcurrent
  <2>1. {r \in Requests : mimo.status[r] = "granted" /\ TRUE}
           = InState(mimo.status, Requests, "granted")
    BY DEF InState
  <2> QED BY <1>1, <2>1, MimoSame DEF PermitsExact, Mimo!Held, Count
<1>4. ASSUME NEW l \in Mimo!Lanes
      PROVE  /\ mimo.byLane[l] = Mimo!Held(LAMBDA r : LaneOf[r] = l)
             /\ mimo.byLane[l] <= laneLimits[l]
  <2>1. {r \in Requests : mimo.status[r] = "granted" /\ LaneOf[r] = l}
           = InState(mimo.status, OfLane[l], "granted")
    BY DEF InState, OfLane
  <2>2. /\ mimo.byLane[l] = Count(mimo.status, OfLane[l], "granted")
        /\ mimo.byLane[l] <= laneLimits[l]
    BY <1>1 DEF PermitsExact, Tallied, LaneShare
  <2> QED BY <2>1, <2>2, MimoSame DEF Mimo!Held, Count
<1>5. ASSUME NEW u \in Users
      PROVE  /\ mimo.byUser[u] = Mimo!Held(LAMBDA r : UserOf[r] = u)
             /\ mimo.byUser[u] <= maxConcurrentPerUser
  <2>1. {r \in Requests : mimo.status[r] = "granted" /\ UserOf[r] = u}
           = InState(mimo.status, OfUser[u], "granted")
    BY DEF InState, OfUser, RequestsOf
  <2>2. /\ mimo.byUser[u] = Count(mimo.status, OfUser[u], "granted")
        /\ mimo.byUser[u] <= maxConcurrentPerUser
    BY <1>1 DEF PermitsExact, Tallied, UserShare
  <2> QED BY <2>1, <2>2, MimoSame DEF Mimo!Held, Count
<1>6. ASSUME NEW u \in Users
      PROVE  /\ mimo.visionByUser[u] = Mimo!Held(LAMBDA r : UserOf[r] = u /\ Mimo!IsVision(r))
             /\ mimo.visionByUser[u] <= visionMaxConcurrentPerUser
  <2>1. {r \in Requests : mimo.status[r] = "granted" /\ (UserOf[r] = u /\ Mimo!IsVision(r))}
           = InState(mimo.status, VisionOf[u], "granted")
    BY DEF InState, VisionOf
  <2>2. /\ mimo.visionByUser[u] = Count(mimo.status, VisionOf[u], "granted")
        /\ mimo.visionByUser[u] <= visionMaxConcurrentPerUser
    BY <1>1 DEF PermitsExact, Tallied, VisionShare
  <2> QED BY <2>1, <2>2, MimoSame DEF Mimo!Held, Count
<1>7. ASSUME NEW u \in Users
      PROVE  /\ Mimo!inflightForUser(mimo, u) <= maxInflightPerUser
             /\ Mimo!inflightVisionForUser(mimo, u) <= visionMaxInflightPerUser
  BY <1>1, InflightLanes DEF RoomKept
<1>8. ASSUME NEW t \in Tokens
      PROVE  /\ mimo.byToken[t] = Mimo!Held(LAMBDA r : Mimo!Token(r) = t)
             /\ mimo.byToken[t] <= maxConcurrentPerToken
  <2>1. {r \in Requests : mimo.status[r] = "granted" /\ Mimo!Token(r) = t}
           = InState(mimo.status, OfToken[t], "granted")
    BY DEF InState, OfToken
  <2>2. /\ mimo.byToken[t] = Count(mimo.status, OfToken[t], "granted")
        /\ mimo.byToken[t] <= maxConcurrentPerToken
    BY <1>1 DEF PermitsExact, Tallied, TokenShare
  <2> QED BY <2>1, <2>2, MimoSame DEF Mimo!Held, Count
<1>9. Mimo!LimitsRespected
  BY <1>3, <1>4, <1>5, <1>6, <1>7, <1>8 DEF Mimo!LimitsRespected
<1>10. /\ mimo.queue \in [Users -> Seq(Requests)] /\ QueuesHold(mimo.queue, mimo.status)
       /\ InLine(mimo.keys, mimo.queue) /\ InLine(mimo.waiting, mimo.queue)
       /\ QueuedExact(mimo.queued, mimo.status)
  BY <1>1 DEF QueuesExact
<1>11. ASSUME NEW u \in Users
       PROVE  /\ mimo.queue[u] # <<>> <=> Mimo!Listed(mimo.waiting, u)
              /\ Mimo!Listed(mimo.keys, u) <=> Mimo!Listed(mimo.waiting, u)
              /\ Mimo!Distinct(mimo.queue[u])
              /\ {mimo.queue[u][i] : i \in DOMAIN mimo.queue[u]}
                    = {r \in Mimo!Pending : UserOf[r] = u}
  <2>1. /\ Distinct(mimo.queue[u]) /\ (mimo.queue[u] # <<>> <=> Listed(mimo.waiting, u))
        /\ mimo.queue[u] # <<>> <=> Listed(mimo.keys, u)
    BY <1>10 DEF QueuesHold, InLine
  <2>2. {mimo.queue[u][i] : i \in DOMAIN mimo.queue[u]}
           = InState(mimo.status, RequestsOf({u}), "pending")
    BY <1>10, LengthIsCount
  <2>3. InState(mimo.status, RequestsOf({u}), "pending") = {r \in Mimo!Pending : UserOf[r] = u}
    BY DEF InState, RequestsOf, Mimo!Pending
  <2> QED BY <2>1, <2>2, <2>3, MimoSame
<1>12. ASSUME NEW l \in Mimo!Lanes
       PROVE  /\ mimo.queued[l] = Mimo!Cardinality({r \in Mimo!Pending : LaneOf[r] = l})
              /\ mimo.queued[l] <= laneQueueMax[l]
  <2>1. {r \in Mimo!Pending : LaneOf[r] = l} = InState(mimo.status, OfLane[l], "pending")
    BY DEF Mimo!Pending, InState, OfLane
  <2>2. mimo.queued[l] <= laneQueueMax[l]
    BY <1>1 DEF LanesSound
  <2> QED BY <1>10, <2>1, <2>2, MimoSame DEF QueuedExact, Count
<1>13. Mimo!WaitingListExact
  BY <1>10, <1>11, <1>12, MimoSame DEF Mimo!WaitingListExact, InLine
<1>14. Mimo!NoRunnableWaiter
  BY <1>1, RunsIs DEF Mimo!NoRunnableWaiter
<1> QED BY <1>2, <1>9, <1>13, <1>14 DEF Mimo!Bookkeeping

\* LanesExact: after every call of acquire, of a timer or an abort, and of
\* release, the lanes' counters are the permits that are out, no reservation or
\* share is passed, every waiting request is in its place, and none could start.
THEOREM LanesCorrect == PartsSpec => []LanesExact
<1>1. PartsInit => LanesInv
  BY LanesInvInit DEF PartsInit
<1>2. ASSUME LanesInv, [PartsNext]_partsVars PROVE LanesInv'
  <2>1. [Mimo!Next]_mimo
    BY <1>2 DEF PartsNext, partsVars
  <2> QED BY <1>2, <2>1, LanesInvNext
<1>3. LanesInv => LanesExact
  BY LanesInvExact DEF LanesExact
<1> QED BY <1>1, <1>2, <1>3, PTL DEF PartsSpec

-----------------------------------------------------------------------------
(* The limiter's queue moves in the order in which its callers came, and as *)
(* long as they all wait equally long, in the order of their deadlines.     *)

\* x stands before y.
Before(s, x, y) == \E i, j \in 1..Len(s) : i < j /\ s[i] = x /\ s[j] = y

\* Whoever is in t is in s too, in the same order.
PartOf(t, s) ==
    \A i, j \in 1..Len(t) :
        \E k, m \in 1..Len(s) : t[i] = s[k] /\ t[j] = s[m] /\ (i < j => k < m)

\* Who stands before whom in a part does so in the whole.
LEMMA BeforeInPart ==
    ASSUME NEW t, NEW s, PartOf(t, s)
    PROVE  \A x, y : Before(t, x, y) => Before(s, x, y)
<1>1. SUFFICES ASSUME NEW x, NEW y, Before(t, x, y) PROVE Before(s, x, y)
  OBVIOUS
<1>2. PICK i \in 1..Len(t), j \in 1..Len(t) : i < j /\ t[i] = x /\ t[j] = y
  BY <1>1 DEF Before
<1>3. PICK k \in 1..Len(s), m \in 1..Len(s) : t[i] = s[k] /\ t[j] = s[m] /\ k < m
  BY <1>2 DEF PartOf
<1>4. s[k] = x /\ s[m] = y
  BY <1>2, <1>3
<1> QED BY <1>3, <1>4, Zenon DEF Before

\* Taking one out keeps the others in order.
LEMMA WithoutInOrder ==
    ASSUME NEW T, NEW s \in Seq(T), NEW x
    PROVE  PartOf(Without(s, x), s)
<1>1. Len(s) \in Nat /\ DOMAIN s = 1..Len(s)
  BY LenProperties
<1>2. CASE ~Listed(s, x)
  BY <1>1, <1>2 DEF Without, PartOf
<1>3. CASE Listed(s, x)
  <2> DEFINE f == First(At(s, x))
             t == Splice(s, f)
  <2>1. At(s, x) \subseteq Nat /\ At(s, x) # {} /\ At(s, x) \subseteq 1..Len(s)
    BY <1>1, <1>3 DEF Listed, At
  <2>2. f \in 1..Len(s)
    BY <2>1, FirstIn
  <2>3. Without(s, x) = t
    BY <1>3 DEF Without
  <2> HIDE DEF f
  <2>4. /\ Len(t) = Len(s) - 1
        /\ \A k \in 1..(Len(s) - 1) : t[k] = IF k < f THEN s[k] ELSE s[k + 1]
    <3>1. t = [k \in 1..(Len(s) - 1) |-> IF k < f THEN s[k] ELSE s[k + 1]]
      BY DEF Splice
    <3>2. Len(s) - 1 \in Nat /\ DOMAIN t = 1..(Len(s) - 1)
      BY <1>1, <2>2, <3>1
    <3>3. \A k \in 1..(Len(s) - 1) : k \in 1..Len(s) /\ k + 1 \in 1..Len(s)
      BY <1>1
    <3>4. t \in Seq(T)
      BY <3>1, <3>2, <3>3, ElementOfSeq
    <3> QED BY <3>1, <3>2, <3>4, LenProperties
  <2> HIDE DEF t
  <2>5. ASSUME NEW i \in 1..Len(t), NEW j \in 1..Len(t)
        PROVE  \E k, m \in 1..Len(s) : t[i] = s[k] /\ t[j] = s[m] /\ (i < j => k < m)
    <3> DEFINE k == IF i < f THEN i ELSE i + 1
               m == IF j < f THEN j ELSE j + 1
    <3>1. k \in 1..Len(s) /\ m \in 1..Len(s) /\ (i < j => k < m)
      BY <1>1, <2>2, <2>4
    <3>2. t[i] = s[k] /\ t[j] = s[m]
      BY <2>4
    <3> HIDE DEF k, m
    <3> QED BY <3>1, <3>2
  <2>6. PartOf(t, s)
    BY ONLY <2>5 DEF PartOf
  <2> QED BY <2>3, <2>6
<1> QED BY <1>2, <1>3

\* Nobody overtakes by standing at the end.
LEMMA AppendInOrder ==
    ASSUME NEW T, NEW s \in Seq(T), NEW x \in T
    PROVE  \A y, z : Before(Append(s, x), y, z) /\ z # x => Before(s, y, z)
<1> DEFINE a == Append(s, x)
<1>1. Len(s) \in Nat
  BY LenProperties
<1>2. /\ Len(a) = Len(s) + 1 /\ a[Len(s) + 1] = x
      /\ \A k \in 1..Len(s) : a[k] = s[k]
  BY <1>1, AppendProperties
<1> HIDE DEF a
<1>3. \A k \in 1..Len(a) : k \in 1..Len(s) \/ k = Len(s) + 1
  BY <1>1, <1>2
<1>4. ASSUME NEW y, NEW z, Before(a, y, z), z # x PROVE Before(s, y, z)
  <2>1. PICK i \in 1..Len(a), j \in 1..Len(a) : i < j /\ a[i] = y /\ a[j] = z
    BY <1>4 DEF Before
  <2>2. j \in 1..Len(s)
    BY <1>2, <1>3, <1>4, <2>1
  <2>3. i \in 1..Len(s)
    BY <1>1, <2>1, <2>2
  <2> QED BY <1>2, <2>1, <2>2, <2>3 DEF Before
<1> QED BY <1>4 DEF a

\* What a move of the queue does with the order: those it lets through stood
\* before those it leaves, and the time of the first of them was not over.
LEMMA MovesInTurn ==
    ASSUME Bucket, NEW q, NEW told, Sorted(q, told), Move(q, told),
           deadlineAt' \in [Calls -> Nat]
    PROVE  /\ PartOf(waiters', q)
           /\ \A c, d \in Calls :
                 /\ told[d] # "granted" /\ outcome'[d] = "granted" /\ outcome'[c] = "waiting"
                 => Before(q, d, c)
           /\ \A c \in Calls :
                 told[c] # "granted" /\ outcome'[c] = "granted" /\ deadlineAt'[c] <= now
                 => \E d \in Calls : /\ Before(q, d, c)
                                     /\ outcome'[d] = "granted" /\ deadlineAt'[d] > now
<1> DEFINE e == Expired(q)
           g == Runnable(q)
           n == Len(q) - (e + g)
           S == {i \in 0..Len(q) : i = Len(q) \/ deadlineAt'[q[i + 1]] > now}
<1>1. q \in Seq(Calls) /\ Len(q) \in Nat /\ DOMAIN q = 1..Len(q) /\ Distinct(q)
  BY LenProperties DEF Sorted
<1>2. e \in 0..Len(q) /\ g \in Nat /\ e + g <= Len(q)
  BY <1>1, MovesOn
<1>3. e \in S
  <2>1. S \subseteq Nat /\ Len(q) \in S
    BY <1>1
  <2>2. First(S) \in S
    BY <2>1, FirstIn
  <2> QED BY <2>2 DEF Expired
<1>4. e = Len(q) \/ deadlineAt'[q[e + 1]] > now
  BY <1>3
<1>5. waiters' = [i \in 1..n |-> q[i + (e + g)]]
  BY DEF Move
<1>6. outcome' = [c \in Calls |->
                IF \E i \in 1..e : q[i] = c THEN "busy"
                ELSE IF \E i \in (e + 1)..(e + g) : q[i] = c THEN "granted"
                ELSE told[c]]
  BY DEF Move
<1> HIDE DEF e, g, S
<1>7. n \in Nat /\ \A i \in 1..n : i + (e + g) \in 1..Len(q)
  BY <1>1, <1>2
<1>8. waiters' \in Seq(Calls)
  BY <1>1, <1>5, <1>7, ElementOfSeq
<1>9. Len(waiters') = n /\ \A i \in 1..n : waiters'[i] = q[i + (e + g)]
  <2>1. DOMAIN waiters' = 1..n
    BY <1>5
  <2> QED BY <1>5, <1>7, <1>8, <2>1, LenProperties
<1>10. PartOf(waiters', q)
  <2>1. ASSUME NEW i \in 1..n, NEW j \in 1..n
        PROVE  \E k, m \in 1..Len(q) : /\ waiters'[i] = q[k] /\ waiters'[j] = q[m]
                                       /\ i < j => k < m
    <3>1. i + (e + g) \in 1..Len(q) /\ j + (e + g) \in 1..Len(q)
      BY <1>7
    <3>2. i < j => i + (e + g) < j + (e + g)
      BY <1>2
    <3> QED BY <1>9, <3>1, <3>2
  <2> QED BY <1>9, <2>1 DEF PartOf
<1>11. ASSUME NEW d \in Calls, told[d] # "granted", outcome'[d] = "granted"
       PROVE  \E i \in (e + 1)..(e + g) : q[i] = d
  BY <1>6, <1>11
<1>12. ASSUME NEW c \in Calls, NEW d \in Calls, told[d] # "granted", outcome'[d] = "granted",
              outcome'[c] = "waiting"
       PROVE  Before(q, d, c)
  <2>1. PICK i \in (e + 1)..(e + g) : q[i] = d
    BY <1>11, <1>12
  <2>2. Listed(q, c) /\ ~(\E k \in 1..e : q[k] = c) /\ ~(\E k \in (e + 1)..(e + g) : q[k] = c)
    BY <1>6, <1>12 DEF Sorted
  <2>3. PICK j \in 1..Len(q) : q[j] = c
    BY <1>1, <2>2 DEF Listed, At
  <2>4. ~(j \in 1..e) /\ ~(j \in (e + 1)..(e + g))
    BY <2>2, <2>3
  <2>5. i \in Nat /\ e < i /\ i <= e + g
    BY <1>2, <2>1
  <2>6. j \in Nat /\ e + g < j /\ j <= Len(q)
    BY <1>1, <1>2, <2>4
  <2>7. i \in 1..Len(q) /\ i < j
    BY <1>1, <1>2, <2>5, <2>6
  <2> QED BY <2>1, <2>3, <2>7 DEF Before
<1>13. ASSUME NEW c \in Calls, told[c] # "granted", outcome'[c] = "granted",
              deadlineAt'[c] <= now
       PROVE  \E d \in Calls : /\ Before(q, d, c)
                               /\ outcome'[d] = "granted" /\ deadlineAt'[d] > now
  <2>1. PICK i \in (e + 1)..(e + g) : q[i] = c
    BY <1>11, <1>13
  <2>2. e + 1 \in 1..Len(q) /\ i \in 1..Len(q) /\ e # Len(q)
    <3>1. e \in Nat /\ e + g \in Nat
      BY <1>2
    <3>2. i \in Nat /\ e + 1 <= i /\ i <= e + g
      BY <2>1, <3>1
    <3>3. i \in 1..Len(q) /\ e < Len(q)
      BY <1>1, <1>2, <3>1, <3>2
    <3>4. e \in Nat /\ Len(q) \in Nat /\ e < Len(q)
      BY <1>1, <3>1, <3>3
    <3>5. e + 1 \in 1..Len(q)
      BY ONLY <3>4
    <3>6. e # Len(q)
      BY ONLY <3>4
    <3> QED BY <3>3, <3>5, <3>6
  <2>3. deadlineAt'[q[e + 1]] > now
    BY <1>4, <2>2
  <2>4. q[e + 1] \in Calls /\ deadlineAt'[q[e + 1]] \in Nat /\ now \in Nat
    <3>1. q[e + 1] \in Calls
      BY <1>1, <2>2, ElementOfSeq
    <3> QED BY <3>1 DEF Bucket
  <2>5. i # e + 1
    BY <1>13, <2>1, <2>3, <2>4
  <2>6. e + 1 < i /\ e + 1 \in (e + 1)..(e + g)
    BY <1>2, <2>1, <2>5
  <2>7. Before(q, q[e + 1], c)
    BY <2>1, <2>2, <2>6 DEF Before
  <2>8. ~(\E k \in 1..e : q[k] = q[e + 1])
    <3>1. \A k \in 1..e : k \in 1..Len(q) /\ k # e + 1
      BY <1>1, <1>2
    <3> QED BY <1>1, <2>2, <3>1 DEF Distinct
  <2>9. outcome'[q[e + 1]] = "granted"
    BY <1>6, <2>4, <2>6, <2>8
  <2> QED BY <2>3, <2>4, <2>7, <2>9
<1> QED BY <1>10, <1>12, <1>13

\* Nobody is let through without a drain, or from an empty queue.
LEMMA NobodyLetThrough ==
    ASSUME \A d \in Calls : outcome'[d] = "granted" => outcome[d] = "granted"
    PROVE  ServesInOrder /\ ServesInTime
<1>1. ServesInOrder
  BY DEF ServesInOrder
<1>2. ServesInTime
  <2>1. SUFFICES ASSUME NEW c \in Calls, outcome[c] = "waiting", outcome'[c] = "granted"
                 PROVE  FALSE
    BY DEF ServesInTime
  <2> QED BY <2>1
<1> QED BY <1>1, <1>2

\* A drain of a queue in which whoever waits stands as in the queue before it
\* serves in turn.
LEMMA DrainInTurn ==
    ASSUME Inv, NEW q, NEW told, Sorted(q, told), drain(q, told),
           deadlineAt' \in [Calls -> Nat],
           \A c \in Calls : told[c] = "granted" => outcome[c] = "granted",
           \A c \in Calls : outcome[c] = "waiting" => deadlineAt'[c] = deadlineAt[c],
           \A c, d \in Calls : outcome[c] = "waiting" /\ Before(q, d, c) => Before(waiters, d, c)
    PROVE  ServesInTurn
<1>1. Bucket /\ Move(q, told)
  BY DEF Inv, drain
<1>2. /\ \A c, d \in Calls :
            /\ told[d] # "granted" /\ outcome'[d] = "granted" /\ outcome'[c] = "waiting"
            => Before(q, d, c)
      /\ \A c \in Calls :
            told[c] # "granted" /\ outcome'[c] = "granted" /\ deadlineAt'[c] <= now
            => \E d \in Calls : /\ Before(q, d, c)
                                /\ outcome'[d] = "granted" /\ deadlineAt'[d] > now
  BY <1>1, MovesInTurn
<1>3. ServesInOrder
  <2>1. SUFFICES ASSUME NEW c \in Calls, NEW d \in Calls,
                        outcome[d] # "granted", outcome'[d] = "granted",
                        outcome[c] = "waiting", outcome'[c] = "waiting"
                 PROVE  Before(waiters, d, c)
    BY DEF ServesInOrder, Before
  <2> QED BY <1>2, <2>1
<1>4. ServesInTime
  <2>1. SUFFICES ASSUME NEW c \in Calls, outcome[c] = "waiting", outcome'[c] = "granted",
                        deadlineAt[c] <= now
                 PROVE  \E i, j \in 1..Len(waiters) :
                           /\ i < j /\ waiters[j] = c
                           /\ outcome'[waiters[i]] = "granted"
                           /\ deadlineAt[waiters[i]] > now
    BY DEF ServesInTime
  <2>2. PICK d \in Calls : Before(q, d, c) /\ outcome'[d] = "granted" /\ deadlineAt'[d] > now
    BY <1>2, <2>1
  <2>3. PICK i \in 1..Len(waiters), j \in 1..Len(waiters) :
                i < j /\ waiters[i] = d /\ waiters[j] = c
    BY <2>1, <2>2 DEF Before
  <2>4. outcome[d] = "waiting"
    <3>1. waiters \in Seq(Calls)
      BY DEF Inv, Queue
    <3>2. DOMAIN waiters = 1..Len(waiters)
      BY <3>1, LenProperties
    <3>3. Listed(waiters, d)
      BY <2>3, <3>2 DEF Listed, At
    <3> QED BY <3>3 DEF Inv, Queue, WaitersExact
  <2> QED BY <2>2, <2>3, <2>4
<1> QED BY <1>3, <1>4 DEF ServesInTurn

\* Every step of the limiter serves in turn.
LEMMA NextInTurn ==
    ASSUME Inv, [Next]_vars
    PROVE  ServesInTurn
<1>1. Bucket /\ Queue /\ waiters \in Seq(Calls) /\ deadlineAt \in [Calls -> Nat]
  BY DEF Inv, Queue
<1>2. Sorted(waiters, outcome)
  BY <1>1 DEF Queue, WaitersExact, Sorted
<1>3. ASSUME \A d \in Calls : outcome'[d] = "granted" => outcome[d] = "granted"
      PROVE  ServesInTurn
  BY <1>3, NobodyLetThrough DEF ServesInTurn
<1>4. ASSUME NEW c \in Calls, AcquireAborted(c) PROVE ServesInTurn
  <2>1. \A d \in Calls : outcome'[d] = "granted" => outcome[d] = "granted"
    BY <1>1, <1>4 DEF AcquireAborted, Queue
  <2> QED BY <1>3, <2>1
<1>5. ASSUME NEW c \in Calls, AcquireImmediately(c) PROVE ServesInTurn
  <2>1. waiters = <<>>
    BY <1>5 DEF AcquireImmediately, Immediate
  <2>2. \A d \in Calls : outcome[d] # "waiting"
    BY <1>1, <2>1 DEF Queue, WaitersExact, Listed, At
  <2> QED BY <2>2 DEF ServesInTurn, ServesInOrder, ServesInTime
<1>6. ASSUME NEW c \in Calls, NEW maxWait \in Waits, AcquireRefused(c, maxWait)
      PROVE  ServesInTurn
  <2>1. \A d \in Calls : outcome'[d] = "granted" => outcome[d] = "granted"
    BY <1>1, <1>6 DEF AcquireRefused, Queue
  <2> QED BY <1>3, <2>1
<1>7. ASSUME NEW c \in Calls, NEW maxWait \in Waits, AcquireQueued(c, maxWait)
      PROVE  ServesInTurn
  <2> DEFINE q == Append(waiters, c)
             told == [outcome EXCEPT ![c] = "waiting"]
  <2>1. maxWait \in Nat /\ now \in Nat /\ outcome[c] = "new"
    BY <1>1, <1>7, LimiterConfig DEF LimiterConfig, AcquireQueued, Bucket
  <2>2. /\ deadlineAt' \in [Calls -> Nat]
        /\ \A d \in Calls : d # c => deadlineAt'[d] = deadlineAt[d]
    BY <1>1, <1>7, <2>1 DEF AcquireQueued
  <2>3. ~Listed(waiters, c)
    BY <1>1, <2>1 DEF Queue, WaitersExact
  <2>4. /\ \A y : Listed(q, y) <=> Listed(waiters, y) \/ y = c
        /\ Distinct(q) /\ q \in Seq(Calls)
    BY <1>1, <2>3, AppendKeeps DEF Queue, WaitersExact
  <2>5. told \in [Calls -> Outcomes] /\ \A d \in Calls : told[d] = "waiting" <=> Listed(q, d)
    BY <1>1, <2>4 DEF Queue, WaitersExact, Outcomes
  <2>6. Sorted(q, told)
    BY <2>4, <2>5 DEF Sorted
  <2>7. drain(q, told)
    BY <1>7 DEF AcquireQueued
  <2>8. \A d \in Calls : told[d] = "granted" => outcome[d] = "granted"
    BY <1>1 DEF Queue
  <2>9. \A x, d \in Calls : outcome[x] = "waiting" /\ Before(q, d, x) => Before(waiters, d, x)
    <3>1. \A x, d : Before(q, d, x) /\ x # c => Before(waiters, d, x)
      BY <1>1, AppendInOrder
    <3> QED BY <2>1, <3>1
  <2> HIDE DEF told, q
  <2>10. \A x \in Calls : outcome[x] = "waiting" => deadlineAt'[x] = deadlineAt[x]
    BY <2>1, <2>2
  <2> QED BY <2>2, <2>6, <2>7, <2>8, <2>9, <2>10, DrainInTurn
<1>8. ASSUME NEW c \in Calls, NEW why \in Outcomes, why # "waiting", why # "granted",
             rejectAndRemove(c, why)
      PROVE  ServesInTurn
  <2> DEFINE q == Without(waiters, c)
             told == [outcome EXCEPT ![c] = why]
  <2>1. /\ q \in Seq(Calls) /\ Distinct(q)
        /\ \A y : Listed(q, y) <=> Listed(waiters, y) /\ y # c
    BY <1>1, WithoutKeeps DEF Queue, WaitersExact
  <2>2. told \in [Calls -> Outcomes] /\ \A d \in Calls : told[d] = "waiting" <=> Listed(q, d)
    BY <1>1, <1>8, <2>1 DEF Queue, WaitersExact
  <2>3. Sorted(q, told)
    BY <2>1, <2>2 DEF Sorted
  <2>4. drain(q, told) /\ deadlineAt' = deadlineAt
    BY <1>8 DEF rejectAndRemove
  <2>5. \A d \in Calls : told[d] = "granted" => outcome[d] = "granted"
    BY <1>1, <1>8 DEF Queue
  <2>6. PartOf(q, waiters)
    BY <1>1, WithoutInOrder
  <2> HIDE DEF q, told
  <2>7. \A x, y : Before(q, x, y) => Before(waiters, x, y)
    BY <2>6, BeforeInPart
  <2> QED BY <1>1, <2>3, <2>4, <2>5, <2>7, DrainInTurn
<1>9. ASSUME NEW c \in Calls, TimeoutFires(c) PROVE ServesInTurn
  BY <1>8, <1>9 DEF TimeoutFires, Outcomes
<1>10. ASSUME NEW c \in Calls, Abort(c) PROVE ServesInTurn
  BY <1>8, <1>10 DEF Abort, Outcomes
<1>11. ASSUME WakeTimerFires PROVE ServesInTurn
  <2>1. drain(waiters, outcome) /\ deadlineAt' = deadlineAt
    BY <1>11 DEF WakeTimerFires
  <2> QED BY <1>1, <1>2, <2>1, DrainInTurn
<1>12. ASSUME snapshot \/ close \/ Tick \/ UNCHANGED vars PROVE ServesInTurn
  <2>1. \A d \in Calls : outcome'[d] = "granted" => outcome[d] = "granted"
    BY <1>12 DEF snapshot, close, Tick, vars
  <2> QED BY <1>3, <2>1
<1> QED BY <1>4, <1>5, <1>6, <1>7, <1>9, <1>10, <1>11, <1>12 DEF Next

\* TurnsKept, whatever waits the callers ask for: the limiter lets no call
\* through while one that waited before it waits on, and none that has waited
\* longer than it asked for except behind one let through with it that has not;
\* and of the lanes' waiters a fresh one displaces only one of its own lane whose
\* token loses nothing (ProviderRateLimiter, drain; makeRoomForFreshRunnableToken).
THEOREM TurnsHeld == PartsSpec => TurnsKept
<1>1. PartsInit => Inv /\ LanesInv
  BY InitInv, LanesInvInit DEF PartsInit
<1>2. ASSUME Inv, LanesInv, [PartsNext]_partsVars
      PROVE  /\ Inv' /\ LanesInv'
             /\ part = "limiter" => ServesInTurn
             /\ part = "mimo" => Mimo!DisplacesFairly
  <2>1. [Next]_vars /\ [Mimo!Next]_mimo
    BY <1>2 DEF PartsNext, partsVars
  <2> QED BY <1>2, <2>1, NextInv, NextInTurn, LanesInvNext
<1> QED BY <1>1, <1>2, PTL DEF PartsSpec, TurnsKept
=============================================================================
