-------------------------- MODULE LocalStoresProofs --------------------------
(***************************************************************************)
(* What holds of the two local stores of the desktop for all aggregates,   *)
(* saves, page lengths, tasks, timers, failures and restarts.              *)
(*                                                                         *)
(* The video store.  None of its properties is inductive.  StoreWhole      *)
(* needs to know who may still have a prepared intent in hand: the save in *)
(* the fence, the recovery, or nobody if it is stranded.  RevisionsInTurn  *)
(* needs that one save at most was cut off between prepare and commit, and *)
(* that what it was made from is still there.  MissedOnlyInFlight needs    *)
(* that a row has the newest sequence of its operation.  A step that moves *)
(* one intent without committing it is Quiet, and what it leaves of rows,  *)
(* events and the renderer is shown once (QuietKeeps); a commit has a      *)
(* lemma of its own, and so has what the renderer is given.                *)
(*                                                                         *)
(* The scheduled tasks.  That an occurrence is run once rests on Over: the *)
(* next time of a task is later than every occurrence that was run, or the *)
(* task is not enabled, or a call that threw enabled it.  TimerArmed needs *)
(* the types only.                                                         *)
(***************************************************************************)
EXTENDS MCLocalStores, TLAPS, SequenceTheorems, FiniteSetTheorems, WellFoundedInduction

-----------------------------------------------------------------------------
(* The video store: the inductive invariant.                               *)

InFence == {"staging", "ready", "prepared", "published", "committed"}

IntentRecord ==
  [ aggregate : Aggregates, basis : Nat, sequence : Nat, emits : BOOLEAN, cursor : Nat,
    state : {"staging", "payload_ready", "prepared", "committed", "abandoned"},
    revision : {"none", "prepared", "committed", "abandoned"},
    file : {"none", "staged", "final"} ]

SaveRecord == [at : InFence \cup {"new", "read", "ended"}, intent : Nat, read : Nat]

StoreTypeOK ==
  /\ intents \in Seq(IntentRecord)
  /\ row \in [Aggregates -> 0..Len(intents)]
  /\ nextCursor \in Nat \ {0}
  /\ mode \in {"down", "recovering", "serving", "broken"}
  /\ fence \in Saves \cup {NoSave}
  /\ save \in [Saves -> SaveRecord]
  /\ recovery \in [todo : SUBSET (DOMAIN intents), dropped : SUBSET (DOMAIN intents),
                   ready : SUBSET (DOMAIN intents)]
  /\ client \in [at : {"closed", "idle", "waiting", "woken"}, cursor : Nat,
                 known : [Operations -> Nat]]
  /\ stranded \subseteq DOMAIN intents

\* How far an intent is, its revision and its file are.
Consistent(x) ==
  /\ x.state = "staging" => x.revision = "none" /\ x.file = "none" /\ x.cursor = 0
  /\ x.state = "payload_ready" => x.revision = "none" /\ x.file = "staged" /\ x.cursor = 0
  /\ x.state = "prepared" => x.revision = "prepared" /\ x.file # "none"
  /\ x.state = "committed" <=> x.revision = "committed"
  /\ x.state = "committed" => x.file = "final"
  /\ x.emits \/ x.cursor # 0 => x.aggregate \in Operations

Intents ==
  \A i \in DOMAIN intents :
    /\ Consistent(intents[i]) /\ intents[i].sequence <= i
    /\ intents[i].cursor < nextCursor
    /\ \A j \in DOMAIN intents : intents[i].cursor # 0 /\ i # j => intents[i].cursor # intents[j].cursor

Rows ==
  \A a \in Aggregates : row[a] # 0 =>
    intents[row[a]].revision = "committed" /\ intents[row[a]].aggregate = a

\* What an intent was made from is what it will replace.
UpToDate(i) ==
  LET a == intents[i].aggregate
  IN  intents[i].basis = row[a] /\ (a \in Operations => sequenceOf(a) <= intents[i].sequence)

\* A save inside the fence has it alone, and its intent is as far as it is.
Fenced ==
  /\ fence # NoSave => save[fence].at \in InFence
  /\ \A s \in Saves : save[s].at \in InFence =>
       LET i == save[s].intent
       IN  /\ fence = s /\ mode = "serving"
           /\ i \in DOMAIN intents /\ i \notin stranded /\ intents[i].aggregate = TargetOf(s)
           /\ save[s].at = "staging" => intents[i].state = "staging"
           /\ save[s].at = "ready" => intents[i].state = "payload_ready"
           /\ save[s].at \in {"prepared", "published"} => intents[i].state = "prepared"
           /\ save[s].at = "published" => intents[i].file = "final"
           /\ save[s].at = "committed" => intents[i].state = "committed"
           /\ save[s].at # "committed" => UpToDate(i)

\* Who still has an intent that is prepared.
HalfWay ==
  \A i \in DOMAIN intents : intents[i].state = "prepared" =>
    /\ mode = "serving" => i \in stranded \/ (fence # NoSave /\ i = save[fence].intent)
    /\ mode = "recovering" => i \in recovery.todo \cup recovery.ready

\* Only one was left by a save that was cut off; the recovery may have
\* committed a stranded one of its aggregate before it.
CutOff ==
  \A i \in DOMAIN intents \ stranded : intents[i].state = "prepared" =>
    /\ UpToDate(i) \/ row[intents[i].aggregate] \in stranded
    /\ \A j \in DOMAIN intents \ stranded : intents[j].state = "prepared" => i = j

Recovers ==
  /\ mode # "recovering" => recovery = NoRecovery
  /\ recovery.todo \cap recovery.ready = {}
  /\ \A i \in recovery.todo : intents[i].state \in {"staging", "payload_ready", "prepared"}
  /\ \A i \in recovery.dropped : intents[i].state = "abandoned"
  /\ \A i \in recovery.ready : intents[i].state = "prepared" /\ intents[i].file = "final"

\* The row of an operation has its newest sequence, unless it was set back.
Newest ==
  \A i \in events("committed") :
    SetBack(intents[i].aggregate) \/ intents[i].sequence <= sequenceOf(intents[i].aggregate)

\* What the renderer has behind it.
Seen ==
  /\ client.cursor < nextCursor
  /\ client.at = "closed" => client.cursor = 0
  /\ \A i \in DOMAIN intents \ skipped :
       intents[i].cursor # 0 /\ intents[i].cursor <= client.cursor =>
         /\ intents[i].revision # "prepared"
         /\ intents[i].revision = "committed" /\ ~SetBack(intents[i].aggregate) =>
              intents[i].sequence <= client.known[intents[i].aggregate]

StoreInv ==
  /\ StoreTypeOK /\ Intents /\ Rows /\ Fenced /\ HalfWay /\ CutOff /\ Recovers
  /\ Newest /\ Seen

-----------------------------------------------------------------------------
(* Least and greatest elements.                                            *)

\* A nonempty set of numbers has a least one, and Min is it.
LEMMA MinIn ==
    ASSUME NEW S, S \subseteq Nat, S # {}
    PROVE  Min(S) \in S /\ \A y \in S : Min(S) <= y
<1>1. \E x \in S : \A y \in S : ~(<<y, x>> \in OpToRel(<, Nat))
  BY NatLessThanWellFounded, WFMin
<1>2. \A x, y \in Nat : y < x => <<y, x>> \in OpToRel(<, Nat)
  BY Zenon DEF OpToRel
<1>3. PICK x \in S : \A y \in S : ~(<<y, x>> \in OpToRel(<, Nat))
  BY <1>1
<1>4. \A y \in S : ~(y < x)
  BY <1>2, <1>3
<1>5. \E z \in S : \A y \in S : z <= y
  BY <1>4
<1> QED BY <1>5 DEF Min

\* A nonempty set of numbers below a bound has a greatest one, and Max is it.
LEMMA MaxIn ==
    ASSUME NEW S, S \subseteq Nat, S # {}, NEW b \in Nat, \A x \in S : x <= b
    PROVE  Max(S) \in S /\ \A y \in S : y <= Max(S)
<1> DEFINE D == {b - x : x \in S}
<1>1. D \subseteq Nat /\ D # {}
  <2>1. \A x \in S : b - x \in Nat
    OBVIOUS
  <2> QED BY <2>1
<1>2. Min(D) \in D /\ \A d \in D : Min(D) <= d
  <2> HIDE DEF D
  <2> QED BY <1>1, MinIn
<1>3. PICK x \in S : Min(D) = b - x
  BY <1>2
<1>4. \A y \in S : b - x <= b - y
  BY <1>2, <1>3
<1>5. \A y \in S : x >= y
  BY <1>4
<1>6. \E z \in S : \A y \in S : z >= y
  BY <1>5
<1>7. Max(S) \in S /\ \A y \in S : Max(S) >= y
  BY <1>6 DEF Max
<1> QED BY <1>7

\* The greater of two numbers.
LEMMA MaxOfTwo ==
    ASSUME NEW m \in Nat, NEW n \in Nat
    PROVE  Max({m, n}) \in {m, n} /\ m <= Max({m, n}) /\ n <= Max({m, n})
<1>1. \A x \in {m, n} : x <= m + n
  OBVIOUS
<1>2. {m, n} \subseteq Nat /\ {m, n} # {}
  OBVIOUS
<1>3. Max({m, n}) \in {m, n} /\ \A y \in {m, n} : y <= Max({m, n})
  BY <1>1, <1>2, MaxIn
<1> QED BY <1>3

-----------------------------------------------------------------------------
(* What a step does to one intent.                                         *)

\* Intent i moves on, the others stay, and what i was made from stays too.
OnlyIntent(i) ==
    /\ intents' \in Seq(IntentRecord) /\ Len(intents') = Len(intents)
    /\ \A j \in DOMAIN intents : j # i => intents'[j] = intents[j]
    /\ intents'[i].aggregate = intents[i].aggregate /\ intents'[i].basis = intents[i].basis
    /\ intents'[i].sequence = intents[i].sequence /\ intents'[i].emits = intents[i].emits

\* Its cursor stays, or it is given the next one.
Counts(i) ==
    \/ intents'[i].cursor = intents[i].cursor /\ nextCursor' = nextCursor
    \/ intents'[i].cursor = nextCursor /\ nextCursor' = nextCursor + 1
       /\ intents[i].emits /\ intents[i].revision = "none"

Moves(i) ==
    /\ i \in DOMAIN intents /\ OnlyIntent(i) /\ Counts(i) /\ Consistent(intents'[i])
    /\ intents[i].revision = "committed" => intents'[i].revision = "committed"

\* The renderer may begin or end to wait, but is given nothing.
GivenNothing ==
    /\ client' \in [at : {"closed", "idle", "waiting", "woken"}, cursor : Nat, known : [Operations -> Nat]]
    /\ client'.cursor = client.cursor /\ client'.known = client.known
    /\ client.at = "closed" <=> client'.at = "closed"
    /\ skipped' = skipped

Quiet(i) ==
    /\ Moves(i) /\ row' = row /\ GivenNothing
    /\ stranded \subseteq stranded'
    /\ intents'[i].revision = "committed" => intents[i].revision = "committed"
    /\ intents'[i].revision = "prepared" =>
          intents[i].revision = "prepared" \/ intents'[i].cursor \in {0, nextCursor}

\* One intent is replaced by another record.
LEMMA Replaces ==
    ASSUME StoreTypeOK, NEW i \in DOMAIN intents, NEW x \in IntentRecord,
           intents' = [intents EXCEPT ![i] = x]
    PROVE  /\ intents' \in Seq(IntentRecord) /\ Len(intents') = Len(intents)
           /\ DOMAIN intents' = DOMAIN intents
           /\ \A j \in DOMAIN intents : intents'[j] = IF j = i THEN x ELSE intents[j]
<1>1. intents \in Seq(IntentRecord) /\ DOMAIN intents = 1..Len(intents)
  BY LenProperties DEF StoreTypeOK
<1>2. /\ intents' \in Seq(IntentRecord) /\ Len(intents') = Len(intents)
      /\ \A j \in 1..Len(intents) : intents'[j] = IF j = i THEN x ELSE intents[j]
  BY <1>1, ExceptSeq
<1>3. DOMAIN intents' = 1..Len(intents')
  BY <1>2, LenProperties
<1> QED BY <1>1, <1>2, <1>3

\* The positions of the intents, before and after.
LEMMA Positions ==
    ASSUME StoreTypeOK
    PROVE  /\ intents \in Seq(IntentRecord) /\ Len(intents) \in Nat /\ DOMAIN intents = 1..Len(intents)
           /\ \A j \in DOMAIN intents : j \in Nat /\ intents[j] \in IntentRecord
           /\ \A i : OnlyIntent(i) => DOMAIN intents' = DOMAIN intents
<1>1. intents \in Seq(IntentRecord) /\ Len(intents) \in Nat /\ DOMAIN intents = 1..Len(intents)
  BY LenProperties DEF StoreTypeOK
<1>2. \A j \in 1..Len(intents) : j \in Nat /\ intents[j] \in IntentRecord
  BY <1>1, ElementOfSeq
<1>3. ASSUME NEW i, OnlyIntent(i) PROVE DOMAIN intents' = DOMAIN intents
  <2>1. DOMAIN intents' = 1..Len(intents')
    BY <1>3, LenProperties DEF OnlyIntent
  <2> QED BY <1>1, <1>3, <2>1 DEF OnlyIntent
<1> QED BY <1>1, <1>2, <1>3

\* Numbers the fields of intents and rows stand for.
LEMMA FieldTypes ==
    ASSUME StoreTypeOK
    PROVE  /\ \A j \in DOMAIN intents :
                  /\ intents[j].aggregate \in Aggregates /\ intents[j].basis \in Nat
                  /\ intents[j].sequence \in Nat /\ intents[j].cursor \in Nat
           /\ \A a \in Aggregates : row[a] \in Nat /\ (row[a] # 0 => row[a] \in DOMAIN intents)
           /\ \A a \in Aggregates : sequenceOf(a) \in Nat
           /\ nextCursor \in Nat /\ nextCursor > 0 /\ client.cursor \in Nat
           /\ \A a \in Operations : client.known[a] \in Nat
<1>1. \A j \in DOMAIN intents :
        /\ intents[j].aggregate \in Aggregates /\ intents[j].basis \in Nat
        /\ intents[j].sequence \in Nat /\ intents[j].cursor \in Nat
  BY Positions DEF IntentRecord
<1>2. \A a \in Aggregates : row[a] \in Nat /\ (row[a] # 0 => row[a] \in DOMAIN intents)
  BY Positions DEF StoreTypeOK
<1>3. \A a \in Aggregates : sequenceOf(a) \in Nat
  BY <1>1, <1>2 DEF sequenceOf
<1>4. nextCursor \in Nat /\ nextCursor > 0 /\ client.cursor \in Nat
      /\ \A a \in Operations : client.known[a] \in Nat
  BY DEF StoreTypeOK
<1> QED BY <1>1, <1>2, <1>3, <1>4

\* What was made when an intent was inserted, and never changes.
LEMMA SameFields ==
    ASSUME StoreTypeOK, NEW i \in DOMAIN intents, OnlyIntent(i)
    PROVE  /\ DOMAIN intents' = DOMAIN intents
           /\ \A j \in DOMAIN intents :
                 /\ intents'[j].aggregate = intents[j].aggregate
                 /\ intents'[j].basis = intents[j].basis
                 /\ intents'[j].sequence = intents[j].sequence
<1>1. DOMAIN intents' = DOMAIN intents
  BY Positions
<1> QED BY <1>1 DEF OnlyIntent

\* A step of one intent keeps what is known of all of them.
LEMMA MovesIntents ==
    ASSUME StoreInv, NEW i, Moves(i)
    PROVE  Intents'
<1>1. StoreTypeOK /\ Intents /\ i \in DOMAIN intents /\ OnlyIntent(i)
  BY DEF StoreInv, Moves
<1>2. /\ DOMAIN intents' = DOMAIN intents
      /\ \A j \in DOMAIN intents : intents'[j].sequence = intents[j].sequence
      /\ \A j \in DOMAIN intents : j # i => intents'[j] = intents[j]
  BY <1>1, SameFields DEF OnlyIntent
<1>3. nextCursor \in Nat /\ nextCursor > 0 /\ nextCursor' \in Nat
      /\ \A j \in DOMAIN intents : intents[j].cursor \in Nat
  BY <1>1, FieldTypes DEF Moves, Counts
<1>4. \A j \in DOMAIN intents : Consistent(intents'[j])
  BY <1>1, <1>2 DEF Moves, Intents
<1>5. \A j \in DOMAIN intents : intents'[j].cursor < nextCursor'
  BY <1>1, <1>2, <1>3 DEF Moves, Intents, Counts
<1>6. \A j, k \in DOMAIN intents :
         intents'[j].cursor # 0 /\ j # k => intents'[j].cursor # intents'[k].cursor
  BY <1>1, <1>2, <1>3 DEF Moves, Intents, Counts
<1>7. \A j \in DOMAIN intents : intents[j].sequence <= j
  BY <1>1 DEF Intents
<1> QED BY <1>2, <1>4, <1>5, <1>6, <1>7 DEF Intents

\* Nothing that was set back is put right again.
LEMMA SetBackStays ==
    ASSUME StoreTypeOK, stranded \subseteq stranded',
           \A j \in DOMAIN intents :
              /\ intents'[j].aggregate = intents[j].aggregate
              /\ intents[j].revision = "committed" => intents'[j].revision = "committed",
           NEW a, SetBack(a)
    PROVE  SetBack(a)'
<1>1. PICK i \in stranded : intents[i].aggregate = a /\ intents[i].revision = "committed"
  BY DEF SetBack
<1>2. i \in DOMAIN intents /\ i \in stranded'
  BY <1>1 DEF StoreTypeOK
<1>3. intents'[i].aggregate = a /\ intents'[i].revision = "committed"
  BY <1>1, <1>2
<1> QED BY <1>2, <1>3 DEF SetBack

\* While the rows stay, so does what they show and what is up to date.
LEMMA RowsShow ==
    ASSUME StoreTypeOK, row' = row,
           \A j \in DOMAIN intents :
              /\ intents'[j].aggregate = intents[j].aggregate
              /\ intents'[j].basis = intents[j].basis
              /\ intents'[j].sequence = intents[j].sequence
    PROVE  /\ \A a \in Aggregates : sequenceOf(a)' = sequenceOf(a)
           /\ \A j \in DOMAIN intents : UpToDate(j)' <=> UpToDate(j)
<1>1. ASSUME NEW a \in Aggregates PROVE sequenceOf(a)' = sequenceOf(a)
  <2>1. row[a] = 0 \/ intents'[row[a]].sequence = intents[row[a]].sequence
    BY FieldTypes
  <2> QED BY <2>1 DEF sequenceOf
<1>2. ASSUME NEW j \in DOMAIN intents PROVE UpToDate(j)' <=> UpToDate(j)
  <2>1. intents[j].aggregate \in Aggregates
    BY FieldTypes
  <2>2. ASSUME NEW a, a = intents[j].aggregate PROVE sequenceOf(a)' = sequenceOf(a)
    BY <1>1, <2>1, <2>2
  <2> QED BY <2>2 DEF UpToDate, sequenceOf
<1> QED BY <1>1, <1>2

\* A step of one intent that commits nothing.
LEMMA QuietKeeps ==
    ASSUME StoreInv, NEW i, Quiet(i)
    PROVE  Intents' /\ Rows' /\ Newest' /\ Seen'
<1>1. /\ StoreTypeOK /\ Intents /\ Rows /\ Newest /\ Seen
      /\ Moves(i) /\ i \in DOMAIN intents /\ OnlyIntent(i)
      /\ row' = row /\ GivenNothing
  BY DEF StoreInv, Quiet, Moves
<1>2. /\ DOMAIN intents' = DOMAIN intents
      /\ \A j \in DOMAIN intents :
            /\ intents'[j].aggregate = intents[j].aggregate
            /\ intents'[j].basis = intents[j].basis
            /\ intents'[j].sequence = intents[j].sequence
      /\ \A j \in DOMAIN intents : j # i => intents'[j] = intents[j]
  BY <1>1, SameFields DEF OnlyIntent
<1>3. \A j \in DOMAIN intents : intents'[j].revision = "committed" <=> intents[j].revision = "committed"
  BY <1>1, <1>2 DEF Moves, Quiet
<1>4. \A a : SetBack(a) => SetBack(a)'
  BY <1>1, <1>2, <1>3, SetBackStays DEF Quiet
<1>5. \A a \in Aggregates : sequenceOf(a)' = sequenceOf(a)
  BY <1>1, <1>2, RowsShow
<1>6. nextCursor \in Nat /\ nextCursor > 0 /\ client.cursor \in Nat
      /\ \A j \in DOMAIN intents : intents[j].cursor \in Nat /\ intents[j].aggregate \in Aggregates
      /\ \A a \in Aggregates : row[a] # 0 => row[a] \in DOMAIN intents
  BY <1>1, FieldTypes
<1>7. Intents'
  BY MovesIntents, <1>1
<1>8. Rows'
  BY <1>1, <1>2, <1>3, <1>6 DEF Rows
<1>9. Newest'
  <2> SUFFICES ASSUME NEW j \in DOMAIN intents, intents'[j].cursor # 0, intents'[j].revision = "committed",
                      NEW a, a = intents[j].aggregate, ~SetBack(a)'
               PROVE  intents'[j].sequence <= sequenceOf(a)'
    BY <1>2 DEF Newest, events, SetBack, sequenceOf
  <2>1. intents[j].revision = "committed" /\ ~SetBack(a)
    BY <1>3, <1>4
  <2>2. intents[j].cursor # 0
    BY <1>1, <1>2, <2>1 DEF Moves, Counts
  <2>3. intents[j].sequence <= sequenceOf(a)
    BY <1>1, <2>1, <2>2 DEF Newest, events
  <2> QED BY <1>2, <1>5, <1>6, <2>3
<1>10. Seen'
  <2>1. client.cursor < nextCursor'
    BY <1>1, <1>6 DEF Seen, Moves, Counts
  <2>2. ASSUME NEW j \in DOMAIN intents, j \notin skipped, intents'[j].cursor # 0, intents'[j].cursor <= client.cursor
        PROVE  /\ intents'[j].revision # "prepared"
               /\ intents'[j].revision = "committed" /\ ~SetBack(intents[j].aggregate)' =>
                    intents'[j].sequence <= client.known[intents[j].aggregate]
    <3>1. intents'[j].cursor = intents[j].cursor
      BY <1>1, <1>2, <1>6, <2>2 DEF Moves, Counts, Seen
    <3>2. /\ intents[j].revision # "prepared"
          /\ intents[j].revision = "committed" /\ ~SetBack(intents[j].aggregate) =>
                intents[j].sequence <= client.known[intents[j].aggregate]
      BY <1>1, <2>2, <3>1 DEF Seen
    <3>3. intents'[j].revision # "prepared"
      BY <1>1, <1>2, <1>6, <2>2, <3>1, <3>2 DEF Quiet, Seen
    <3>4. ASSUME NEW a, a = intents[j].aggregate, ~SetBack(a)' PROVE ~SetBack(a)
      BY <1>4, <3>4
    <3>5. ~SetBack(intents[j].aggregate)' => ~SetBack(intents[j].aggregate)
      BY <1>2, <3>4 DEF SetBack
    <3> QED BY <1>2, <1>3, <3>2, <3>3, <3>5
  <2> QED BY <1>1, <1>2, <2>1, <2>2 DEF Seen, GivenNothing
<1> QED BY <1>7, <1>8, <1>9, <1>10

\* A step that leaves the intents, the rows and what the renderer was given.
Still ==
    /\ UNCHANGED <<intents, row, nextCursor>> /\ GivenNothing
    /\ stranded \subseteq stranded' /\ stranded' \subseteq DOMAIN intents

\* Such a step keeps what is known of them.
LEMMA StillKeeps ==
    ASSUME StoreInv, Still
    PROVE  Intents' /\ Rows' /\ CutOff' /\ Newest' /\ Seen'
<1>1. /\ StoreTypeOK /\ Intents /\ Rows /\ CutOff /\ Newest /\ Seen
      /\ intents' = intents /\ row' = row /\ nextCursor' = nextCursor
  BY DEF StoreInv, Still
<1>2. \A a : SetBack(a) => SetBack(a)'
  BY <1>1 DEF Still, SetBack
<1>3. Intents' /\ Rows'
  BY <1>1 DEF Intents, Rows
<1>4. CutOff'
  BY <1>1 DEF CutOff, UpToDate, sequenceOf, Still
<1>5. Newest'
  <2> SUFFICES ASSUME NEW j \in events("committed"), NEW a, a = intents[j].aggregate, ~SetBack(a)'
               PROVE  intents[j].sequence <= sequenceOf(a)
    BY <1>1 DEF Newest, events, SetBack, sequenceOf
  <2> QED BY <1>1, <1>2 DEF Newest
<1>6. Seen'
  <2> SUFFICES ASSUME NEW j \in DOMAIN intents \ skipped, intents[j].cursor # 0,
                      intents[j].cursor <= client.cursor, NEW a, a = intents[j].aggregate
               PROVE  /\ intents[j].revision # "prepared"
                      /\ intents[j].revision = "committed" /\ ~SetBack(a)' => intents[j].sequence <= client.known[a]
    BY <1>1 DEF Seen, GivenNothing, Still, SetBack
  <2> QED BY <1>1, <1>2 DEF Seen
<1> QED BY <1>3, <1>4, <1>5, <1>6

\* Who is inside the fence, and what is known of its intent.
LEMMA Inside ==
    ASSUME StoreInv, NEW s \in Saves, save[s].at \in InFence
    PROVE  /\ fence = s /\ fence # NoSave /\ mode = "serving" /\ recovery = NoRecovery
           /\ save[s].intent \in DOMAIN intents /\ save[s].intent \notin stranded
           /\ intents[save[s].intent].aggregate = TargetOf(s) /\ TargetOf(s) \in Aggregates
           /\ save[s].at = "staging" => intents[save[s].intent].state = "staging"
           /\ save[s].at = "ready" => intents[save[s].intent].state = "payload_ready"
           /\ save[s].at \in {"prepared", "published"} => intents[save[s].intent].state = "prepared"
           /\ save[s].at = "published" => intents[save[s].intent].file = "final"
           /\ save[s].at = "committed" => intents[save[s].intent].state = "committed"
           /\ save[s].at # "committed" => UpToDate(save[s].intent)
           /\ \A r \in Saves : r # s => save[r].at \notin InFence
BY RepositoryAssumption DEF StoreInv, Fenced, Recovers, Aggregates

\* Nobody is, when the store does not serve or the fence is free.
LEMMA NobodyInside ==
    ASSUME StoreInv, mode # "serving" \/ fence = NoSave
    PROVE  fence = NoSave /\ \A s \in Saves : save[s].at \notin InFence
BY RepositoryAssumption DEF StoreInv, StoreTypeOK, Fenced

\* The types of what a step of a save leaves behind.
LEMMA SaveTypes ==
    ASSUME StoreInv, NEW i, Quiet(i), stranded' \subseteq DOMAIN intents,
           mode' = mode, recovery' = recovery,
           fence' \in Saves \cup {NoSave}, save' \in [Saves -> SaveRecord]
    PROVE  StoreTypeOK'
<1>1. /\ StoreTypeOK /\ DOMAIN intents' = DOMAIN intents /\ Len(intents') = Len(intents)
      /\ intents' \in Seq(IntentRecord) /\ row' = row
      /\ nextCursor' \in {nextCursor, nextCursor + 1}
  BY SameFields DEF StoreInv, Quiet, Moves, OnlyIntent, Counts
<1> QED BY <1>1 DEF StoreTypeOK, Quiet, GivenNothing

\* A save goes on inside the fence.
LEMMA GoesOn ==
    ASSUME StoreInv, NEW s \in Saves, save[s].at \in InFence \ {"committed"},
           NEW where \in {"ready", "prepared", "published"}, Go(s, where),
           Quiet(save[s].intent), UNCHANGED <<mode, fence, recovery, stranded>>,
           where = "ready" => intents'[save[s].intent].state = "payload_ready",
           where # "ready" => intents'[save[s].intent].state = "prepared",
           where = "published" => intents'[save[s].intent].file = "final"
    PROVE  StoreInv'
<1> DEFINE i == save[s].intent
<1>1. /\ StoreTypeOK /\ Intents /\ Rows /\ Fenced /\ HalfWay /\ CutOff /\ Recovers
      /\ Moves(i) /\ i \in DOMAIN intents /\ OnlyIntent(i)
  BY DEF StoreInv, Quiet, Moves
<1>2. /\ fence = s /\ fence # NoSave /\ mode = "serving" /\ recovery = NoRecovery
      /\ i \notin stranded /\ intents[i].aggregate = TargetOf(s) /\ UpToDate(i)
      /\ \A r \in Saves : r # s => save[r].at \notin InFence
  BY Inside
<1>3. Intents' /\ Rows' /\ Newest' /\ Seen'
  BY QuietKeeps
<1>4. /\ DOMAIN intents' = DOMAIN intents
      /\ \A j \in DOMAIN intents :
            /\ intents'[j].aggregate = intents[j].aggregate
            /\ intents'[j].basis = intents[j].basis
            /\ intents'[j].sequence = intents[j].sequence
      /\ \A j \in DOMAIN intents : j # i => intents'[j] = intents[j]
  BY <1>1, SameFields DEF OnlyIntent
<1>5. \A j \in DOMAIN intents : UpToDate(j)' <=> UpToDate(j)
  BY <1>1, <1>4, RowsShow DEF Quiet
<1>6. /\ save' \in [Saves -> SaveRecord]
      /\ save'[s].at = where /\ save'[s].intent = i
      /\ \A r \in Saves : r # s => save'[r] = save[r]
  BY <1>1 DEF StoreTypeOK, Go, SaveRecord, InFence
<1>7. StoreTypeOK'
  BY <1>1, <1>2, <1>6, SaveTypes DEF StoreTypeOK
<1>8. Fenced'
  <2>1. \A r \in Saves : save'[r].at \in InFence => r = s
    BY <1>2, <1>6
  <2>2. /\ i \in DOMAIN intents' /\ intents'[i].aggregate = TargetOf(s)
        /\ save'[s].at \in InFence
    BY <1>1, <1>2, <1>4, <1>6 DEF InFence
  <2>3. ASSUME NEW k, k = i PROVE UpToDate(k)'
    BY <1>1, <1>2, <1>5, <2>3
  <2> HIDE DEF i
  <2>4. \A r \in Saves : save'[r].at \in InFence =>
          /\ r = s /\ save'[r].intent = i /\ save'[r].at = where
    BY <1>6, <2>1
  <2> QED BY <1>2, <1>6, <2>2, <2>3, <2>4 DEF Fenced, UpToDate, sequenceOf, i
<1>9. HalfWay'
  <2>1. \A j \in DOMAIN intents : intents'[j].state = "prepared" => j \in stranded \/ j = i
    BY <1>1, <1>2, <1>4 DEF HalfWay
  <2> QED BY <1>2, <1>4, <1>6, <2>1 DEF HalfWay
<1>10. CutOff'
  <2>1. \A j \in DOMAIN intents \ stranded : intents'[j].state = "prepared" => j = i
    BY <1>1, <1>2, <1>4 DEF HalfWay
  <2>2. ASSUME NEW k, k = i PROVE UpToDate(k)'
    BY <1>1, <1>2, <1>5, <2>2
  <2>3. \A k \in DOMAIN intents \ stranded : intents'[k].state = "prepared" => UpToDate(k)'
    BY <2>1, <2>2
  <2> HIDE DEF i
  <2> QED BY <1>2, <1>4, <2>1, <2>3 DEF CutOff, UpToDate
<1>11. Recovers'
  BY <1>1, <1>2 DEF Recovers, NoRecovery
<1> QED BY <1>3, <1>7, <1>8, <1>9, <1>10, <1>11 DEF StoreInv

\* A save leaves the fence, and its intent is not half way or stranded.
LEMMA GoesOut ==
    ASSUME StoreInv, NEW s \in Saves, save[s].at \in InFence, Leave(s),
           Quiet(save[s].intent), UNCHANGED <<mode, recovery>>,
           stranded' \in {stranded, stranded \cup {save[s].intent}},
           intents'[save[s].intent].state = "prepared" => save[s].intent \in stranded'
    PROVE  StoreInv'
<1> DEFINE i == save[s].intent
<1>1. /\ StoreTypeOK /\ Intents /\ Rows /\ Fenced /\ HalfWay /\ CutOff /\ Recovers
      /\ Moves(i) /\ i \in DOMAIN intents /\ OnlyIntent(i)
  BY DEF StoreInv, Quiet, Moves
<1>2. /\ fence = s /\ fence # NoSave /\ mode = "serving" /\ recovery = NoRecovery
      /\ \A r \in Saves : r # s => save[r].at \notin InFence
  BY Inside
<1>3. Intents' /\ Rows' /\ Newest' /\ Seen'
  BY QuietKeeps
<1>4. /\ DOMAIN intents' = DOMAIN intents
      /\ \A j \in DOMAIN intents : j # i => intents'[j] = intents[j]
  BY <1>1, SameFields DEF OnlyIntent
<1>5. /\ save' \in [Saves -> SaveRecord] /\ fence' = NoSave
      /\ \A r \in Saves : save'[r].at \notin InFence
  <2>1. Ended \in SaveRecord /\ Ended.at \notin InFence
    BY DEF Ended, SaveRecord, InFence
  <2>2. save' = [save EXCEPT ![s] = Ended] /\ fence' = NoSave
    BY DEF Leave
  <2> QED BY <1>1, <1>2, <2>1, <2>2 DEF StoreTypeOK
<1>6. StoreTypeOK'
  <2>1. stranded' \subseteq DOMAIN intents
    BY <1>1 DEF StoreTypeOK
  <2> QED BY <1>5, <2>1, SaveTypes
<1>7. Fenced'
  BY <1>5 DEF Fenced
<1>8. \A j \in DOMAIN intents : intents'[j].state = "prepared" => j \in stranded'
  <2> HIDE DEF i
  <2> QED BY <1>1, <1>2, <1>4 DEF HalfWay, i
<1>9. HalfWay'
  BY <1>2, <1>4, <1>8 DEF HalfWay
<1>10. CutOff'
  BY <1>4, <1>8 DEF CutOff
<1>11. Recovers'
  BY <1>1, <1>2 DEF Recovers, NoRecovery
<1> QED BY <1>3, <1>6, <1>7, <1>9, <1>10, <1>11 DEF StoreInv

-----------------------------------------------------------------------------
(* The steps of a save.                                                    *)

\* An intent that stays as it is.
LEMMA StaysQuiet ==
    ASSUME StoreInv, NEW i \in DOMAIN intents, UNCHANGED <<intents, row, nextCursor>>,
           GivenNothing, stranded \subseteq stranded'
    PROVE  Quiet(i)
<1>1. StoreTypeOK /\ Intents /\ intents' = intents /\ nextCursor' = nextCursor /\ row' = row
  BY DEF StoreInv
<1>2. OnlyIntent(i)
  BY <1>1 DEF OnlyIntent, StoreTypeOK
<1>3. Consistent(intents'[i])
  BY <1>1 DEF Intents
<1> QED BY <1>1, <1>2, <1>3 DEF Quiet, Moves, Counts

\* The renderer may be left as it is.
LEMMA SameClient == ASSUME StoreTypeOK, client' = client, skipped' = skipped PROVE GivenNothing
BY DEF GivenNothing, StoreTypeOK

\* An intent gets another state, revision and file: what must be shown of it.
LEMMA ChangesQuiet ==
    ASSUME StoreInv, NEW i \in DOMAIN intents, NEW x \in IntentRecord, Consistent(x),
           intents' = [intents EXCEPT ![i] = x],
           x.aggregate = intents[i].aggregate, x.basis = intents[i].basis,
           x.sequence = intents[i].sequence, x.emits = intents[i].emits,
           \/ x.cursor = intents[i].cursor /\ nextCursor' = nextCursor
           \/ x.cursor = nextCursor /\ nextCursor' = nextCursor + 1
              /\ intents[i].emits /\ intents[i].revision = "none",
           intents[i].revision = "committed" <=> x.revision = "committed",
           x.revision = "prepared" =>
             intents[i].revision = "prepared" \/ x.cursor \in {0, nextCursor},
           row' = row, client' = client, skipped' = skipped, stranded' = stranded
    PROVE  Quiet(i) /\ intents'[i] = x
<1>1. StoreTypeOK
  BY DEF StoreInv
<1>2. /\ intents' \in Seq(IntentRecord) /\ Len(intents') = Len(intents) /\ intents'[i] = x
      /\ \A j \in DOMAIN intents : j # i => intents'[j] = intents[j]
  BY <1>1, Replaces
<1>3. GivenNothing
  BY <1>1, SameClient
<1>4. OnlyIntent(i)
  BY <1>2 DEF OnlyIntent
<1> QED BY <1>2, <1>3, <1>4 DEF Quiet, Moves, Counts

\* The payload is staged.
LEMMA StageKeeps == ASSUME StoreInv, NEW s \in Saves, Stage(s) PROVE StoreInv'
<1> DEFINE i == save[s].intent
           x == [intents[i] EXCEPT !.file = "staged", !.state = "payload_ready"]
<1>1. save[s].at = "staging" /\ save[s].at \in InFence \ {"committed"}
  BY DEF Stage, At, InFence
<1>2. i \in DOMAIN intents /\ intents[i].state = "staging"
  BY <1>1, Inside
<1>3. intents[i] \in IntentRecord /\ Consistent(intents[i])
  BY <1>2, Positions DEF StoreInv, Intents
<1>4. intents' = [intents EXCEPT ![i] = x]
  BY DEF Stage
<1>5. x \in IntentRecord /\ Consistent(x)
  BY <1>2, <1>3 DEF IntentRecord, Consistent
<1>6. Quiet(i) /\ intents'[i] = x
  <2>1. /\ x.aggregate = intents[i].aggregate /\ x.basis = intents[i].basis
        /\ x.sequence = intents[i].sequence /\ x.emits = intents[i].emits
        /\ x.cursor = intents[i].cursor /\ x.revision = intents[i].revision
    BY <1>3 DEF IntentRecord
  <2> HIDE DEF x, i
  <2> QED BY <1>2, <1>4, <1>5, <2>1, ChangesQuiet DEF Stage
<1>7. x.state = "payload_ready"
  BY <1>3 DEF IntentRecord
<1> HIDE DEF x
<1> QED BY <1>1, <1>6, <1>7, GoesOn DEF Stage

\* Staging failed: the intent is dropped.
LEMMA StageFailsKeeps == ASSUME StoreInv, NEW s \in Saves, StageFails(s) PROVE StoreInv'
<1> DEFINE i == save[s].intent
           x == [intents[i] EXCEPT !.state = "abandoned"]
<1>1. save[s].at = "staging" /\ save[s].at \in InFence
  BY DEF StageFails, At, InFence
<1>2. i \in DOMAIN intents /\ intents[i].state = "staging"
  BY <1>1, Inside
<1>3. intents[i] \in IntentRecord /\ Consistent(intents[i])
  BY <1>2, Positions DEF StoreInv, Intents
<1>4. intents' = [intents EXCEPT ![i] = x]
  BY DEF StageFails
<1>5. x \in IntentRecord /\ Consistent(x)
  BY <1>2, <1>3 DEF IntentRecord, Consistent
<1>6. /\ x.aggregate = intents[i].aggregate /\ x.basis = intents[i].basis
      /\ x.sequence = intents[i].sequence /\ x.emits = intents[i].emits
      /\ x.cursor = intents[i].cursor /\ x.revision = intents[i].revision
      /\ x.state # "prepared"
  BY <1>3 DEF IntentRecord
<1>7. Quiet(i) /\ intents'[i] = x
  <2> HIDE DEF x, i
  <2> QED BY <1>2, <1>4, <1>5, <1>6, ChangesQuiet DEF StageFails
<1> HIDE DEF x
<1> QED BY <1>1, <1>6, <1>7, GoesOut DEF StageFails

\* The revision and its event are prepared.
LEMMA PrepareKeeps == ASSUME StoreInv, NEW s \in Saves, Prepare(s) PROVE StoreInv'
<1> DEFINE i == save[s].intent
           x == [intents[i] EXCEPT !.state = "prepared", !.revision = "prepared",
                                   !.cursor = IF intents[i].emits THEN nextCursor ELSE 0]
<1>1. save[s].at = "ready" /\ save[s].at \in InFence \ {"committed"}
  BY DEF Prepare, At, InFence
<1>2. i \in DOMAIN intents /\ intents[i].state = "payload_ready"
  BY <1>1, Inside
<1>3. intents[i] \in IntentRecord /\ Consistent(intents[i]) /\ nextCursor \in Nat
  BY <1>2, Positions, FieldTypes DEF StoreInv, Intents
<1>4. intents' = [intents EXCEPT ![i] = x]
  BY DEF Prepare, prepare
<1>5. x \in IntentRecord /\ Consistent(x)
  BY <1>2, <1>3 DEF IntentRecord, Consistent
<1>6. /\ x.aggregate = intents[i].aggregate /\ x.basis = intents[i].basis
      /\ x.sequence = intents[i].sequence /\ x.emits = intents[i].emits
      /\ x.cursor = IF intents[i].emits THEN nextCursor ELSE 0
      /\ x.revision = "prepared" /\ x.state = "prepared"
  BY <1>3 DEF IntentRecord
<1>7. intents[i].revision = "none" /\ intents[i].cursor = 0
  BY <1>2, <1>3 DEF Consistent
<1>8. nextCursor' = IF intents[i].emits THEN nextCursor + 1 ELSE nextCursor
  BY DEF Prepare, prepare
<1>9. Quiet(i) /\ intents'[i] = x
  <2> HIDE DEF x, i
  <2> QED BY <1>2, <1>4, <1>5, <1>6, <1>7, <1>8, ChangesQuiet DEF Prepare
<1> HIDE DEF x
<1> QED BY <1>1, <1>6, <1>9, GoesOn DEF Prepare

\* The payload is published.
LEMMA PublishKeeps == ASSUME StoreInv, NEW s \in Saves, Publish(s) PROVE StoreInv'
<1> DEFINE i == save[s].intent
           x == [intents[i] EXCEPT !.file = "final"]
<1>1. save[s].at = "prepared" /\ save[s].at \in InFence \ {"committed"}
  BY DEF Publish, At, InFence
<1>2. i \in DOMAIN intents /\ intents[i].state = "prepared"
  BY <1>1, Inside
<1>3. intents[i] \in IntentRecord /\ Consistent(intents[i])
  BY <1>2, Positions DEF StoreInv, Intents
<1>4. intents' = [intents EXCEPT ![i] = x]
  BY DEF Publish
<1>5. x \in IntentRecord /\ Consistent(x)
  BY <1>2, <1>3 DEF IntentRecord, Consistent
<1>6. /\ x.aggregate = intents[i].aggregate /\ x.basis = intents[i].basis
      /\ x.sequence = intents[i].sequence /\ x.emits = intents[i].emits
      /\ x.cursor = intents[i].cursor /\ x.revision = intents[i].revision
      /\ x.state = "prepared" /\ x.file = "final"
  BY <1>2, <1>3 DEF IntentRecord
<1>7. Quiet(i) /\ intents'[i] = x
  <2> HIDE DEF x, i
  <2> QED BY <1>2, <1>4, <1>5, <1>6, ChangesQuiet DEF Publish
<1> HIDE DEF x
<1> QED BY <1>1, <1>6, <1>7, GoesOn DEF Publish

\* What abandonPreparedIntent writes.
LEMMA AbandonWrites ==
    ASSUME StoreInv, NEW i \in DOMAIN intents, intents[i].revision # "committed", abandon(i),
           row' = row, nextCursor' = nextCursor, client' = client, skipped' = skipped,
           stranded' = stranded
    PROVE  Quiet(i) /\ intents'[i].state = "abandoned"
<1> DEFINE x == [intents[i] EXCEPT !.revision = IF @ = "prepared" THEN "abandoned" ELSE @,
                                   !.state = IF @ = "committed" THEN @ ELSE "abandoned"]
<1>1. intents[i] \in IntentRecord /\ Consistent(intents[i])
  BY Positions DEF StoreInv, Intents
<1>2. intents' = [intents EXCEPT ![i] = x]
  BY DEF abandon
<1>3. x \in IntentRecord /\ Consistent(x)
  BY <1>1 DEF IntentRecord, Consistent
<1>4. /\ x.aggregate = intents[i].aggregate /\ x.basis = intents[i].basis
      /\ x.sequence = intents[i].sequence /\ x.emits = intents[i].emits
      /\ x.cursor = intents[i].cursor /\ x.revision # "committed"
      /\ x.revision # "prepared" /\ x.state = "abandoned"
  BY <1>1 DEF IntentRecord, Consistent
<1> HIDE DEF x
<1> QED BY <1>2, <1>3, <1>4, ChangesQuiet

\* A save that failed abandons what it prepared.
LEMMA AbandonKeeps == ASSUME StoreInv, NEW s \in Saves, Abandon(s) PROVE StoreInv'
<1>1. save[s].at \in {"prepared", "published"} /\ save[s].at \in InFence
  BY DEF Abandon, At, InFence
<1>2. save[s].intent \in DOMAIN intents /\ intents[save[s].intent].state = "prepared"
  BY <1>1, Inside
<1>3. intents[save[s].intent].revision # "committed"
  BY <1>2 DEF StoreInv, Intents, Consistent
<1>4. Quiet(save[s].intent) /\ intents'[save[s].intent].state = "abandoned"
  BY <1>2, <1>3, AbandonWrites DEF Abandon
<1> QED BY <1>1, <1>4, GoesOut DEF Abandon

\* Or it cannot, and leaves a stranded intent.
LEMMA AbandonFailsKeeps == ASSUME StoreInv, NEW s \in Saves, AbandonFails(s) PROVE StoreInv'
<1>1. save[s].at \in InFence
  BY DEF AbandonFails, At, InFence
<1>2. save[s].intent \in DOMAIN intents
  BY <1>1, Inside
<1>3. Quiet(save[s].intent)
  BY <1>2, StaysQuiet, SameClient DEF AbandonFails, StoreInv
<1> QED BY <1>1, <1>3, GoesOut DEF AbandonFails

\* A save whose prepare failed leaves an intent that is not half way.
LEMMA PrepareFailsKeeps == ASSUME StoreInv, NEW s \in Saves, PrepareFails(s) PROVE StoreInv'
<1>1. save[s].at = "ready" /\ save[s].at \in InFence
  BY DEF PrepareFails, At, InFence
<1>2. save[s].intent \in DOMAIN intents /\ intents[save[s].intent].state = "payload_ready"
  BY <1>1, Inside
<1>3. Quiet(save[s].intent)
  BY <1>2, StaysQuiet, SameClient DEF PrepareFails, StoreInv
<1> QED BY <1>1, <1>2, <1>3, GoesOut DEF PrepareFails

\* A save that is committed notifies the renderer and is done.
LEMMA FinishKeeps == ASSUME StoreInv, NEW s \in Saves, Finish(s) PROVE StoreInv'
<1>1. save[s].at = "committed" /\ save[s].at \in InFence
  BY DEF Finish, At, InFence
<1>2. save[s].intent \in DOMAIN intents /\ intents[save[s].intent].state = "committed"
  BY <1>1, Inside
<1>3. GivenNothing
  BY DEF Finish, GivenNothing, StoreInv, StoreTypeOK
<1>4. Quiet(save[s].intent)
  BY <1>2, <1>3, StaysQuiet DEF Finish
<1> QED BY <1>1, <1>2, <1>4, GoesOut DEF Finish

\* The steps outside the fence: a save reads, or is refused.
LEMMA OutsideKeeps ==
    ASSUME StoreInv, NEW s \in Saves, ReadProject(s) \/ Refuse(s)
    PROVE  StoreInv'
<1>1. /\ StoreTypeOK /\ Fenced /\ HalfWay /\ Recovers
      /\ UNCHANGED <<intents, row, nextCursor, mode, fence, recovery, client, stranded, skipped>>
      /\ save[s].at \in {"new", "read"}
  BY DEF StoreInv, ReadProject, Refuse, Asked
<1>2. /\ save' \in [Saves -> SaveRecord] /\ save'[s].at \in {"read", "ended"}
      /\ \A r \in Saves : r # s => save'[r] = save[r]
  <2>1. CASE ReadProject(s)
    <3>1. Project \in Aggregates /\ row[Project] \in Nat
      BY <1>1, FieldTypes DEF Aggregates
    <3> QED BY <1>1, <2>1, <3>1 DEF ReadProject, StoreTypeOK, SaveRecord
  <2>2. CASE Refuse(s)
    BY <1>1, <2>2 DEF Refuse, Ended, StoreTypeOK, SaveRecord
  <2> QED BY <2>1, <2>2
<1>3. Still
  BY <1>1, SameClient DEF Still, StoreTypeOK
<1>4. Intents' /\ Rows' /\ CutOff' /\ Newest' /\ Seen'
  BY <1>3, StillKeeps
<1>5. StoreTypeOK'
  BY <1>1, <1>2 DEF StoreTypeOK
<1>6. s # fence
  BY <1>1, RepositoryAssumption DEF Fenced, InFence
<1>7. Fenced'
  <2>1. fence # NoSave => save'[fence] = save[fence]
    BY <1>1, <1>2, <1>6 DEF StoreTypeOK
  <2>2. \A r \in Saves : save'[r].at \in InFence => r # s
    BY <1>2 DEF InFence
  <2> QED BY <1>1, <1>2, <2>1, <2>2 DEF Fenced, UpToDate, sequenceOf
<1>8. HalfWay'
  BY <1>1, <1>2, <1>6 DEF HalfWay, StoreTypeOK
<1>9. Recovers'
  BY <1>1 DEF Recovers
<1> QED BY <1>4, <1>5, <1>7, <1>8, <1>9 DEF StoreInv

\* A save enters the fence with a new intent, made from what is there.
LEMMA BeginKeeps == ASSUME StoreInv, NEW s \in Saves, Begin(s) PROVE StoreInv'
<1> DEFINE n == Len(intents) + 1
           a == TargetOf(s)
<1>1. /\ StoreTypeOK /\ Intents /\ Rows /\ Fenced /\ HalfWay /\ CutOff /\ Recovers /\ Newest /\ Seen
      /\ mode = "serving" /\ fence = NoSave /\ fence' = s
      /\ UNCHANGED <<row, nextCursor, mode, recovery, client, stranded, skipped>>
      /\ save' = [save EXCEPT ![s].at = "staging", ![s].intent = n]
      /\ save[s] \in SaveRecord /\ Admitted(s)
  BY DEF StoreInv, StoreTypeOK, Begin
<1>2. PICK changed \in BOOLEAN :
        /\ a = Project => ~changed
        /\ intents' = Append(intents, stage(s, changed))
  BY DEF Begin
<1> DEFINE x == stage(s, changed)
<1>3. a \in Aggregates /\ (a # Project => a \in Operations)
  BY RepositoryAssumption DEF Aggregates
<1>4. intents \in Seq(IntentRecord) /\ Len(intents) \in Nat /\ DOMAIN intents = 1..Len(intents)
  BY <1>1, Positions
<1>5. /\ row[a] \in Nat /\ row[a] <= Len(intents) /\ sequenceOf(a) \in Nat
      /\ a # Project => sequenceOf(a) <= Len(intents)
  <2>1. row[a] \in Nat /\ row[a] <= Len(intents) /\ sequenceOf(a) \in Nat
    BY <1>1, <1>3, FieldTypes DEF StoreTypeOK
  <2>2. row[a] # 0 => row[a] \in DOMAIN intents /\ intents[row[a]].sequence <= row[a]
    BY <1>1, <1>3, FieldTypes DEF Intents
  <2>3. row[a] # 0 => intents[row[a]].sequence \in Nat
    BY <1>1, <2>2, FieldTypes
  <2> QED BY <1>4, <2>1, <2>2, <2>3 DEF sequenceOf
<1>6. /\ x.aggregate = a /\ x.basis = row[a] /\ x.cursor = 0 /\ x.emits \in BOOLEAN
      /\ x.sequence \in Nat /\ x.sequence <= n
      /\ a \in Operations => sequenceOf(a) <= x.sequence
      /\ x.state = "staging" /\ x.revision = "none" /\ x.file = "none"
      /\ x.emits => a # Project
      /\ x \in IntentRecord
  <2>1. /\ x.aggregate = a /\ x.cursor = 0 /\ x.emits = changed
        /\ x.state = "staging" /\ x.revision = "none" /\ x.file = "none"
        /\ x.basis = (IF a = Project THEN save[s].read ELSE row[a])
        /\ x.sequence = (IF a = Project THEN 0 ELSE sequenceOf(a) + (IF changed THEN 1 ELSE 0))
    BY DEF stage
  <2>2. x.basis = row[a]
    BY <1>1, <2>1 DEF Admitted
  <2>3. /\ x.sequence \in Nat /\ x.sequence <= n /\ (a \in Operations => sequenceOf(a) <= x.sequence)
    BY <1>2, <1>4, <1>5, <2>1, RepositoryAssumption
  <2>4. x = [aggregate |-> x.aggregate, basis |-> x.basis, sequence |-> x.sequence, emits |-> x.emits,
             cursor |-> x.cursor, state |-> x.state, revision |-> x.revision, file |-> x.file]
    BY DEF stage
  <2> HIDE DEF x
  <2>5. x \in IntentRecord
    BY <1>3, <1>5, <2>1, <2>2, <2>3, <2>4 DEF IntentRecord
  <2> QED BY <1>2, <2>1, <2>2, <2>3, <2>5
<1> HIDE DEF x
<1>7. /\ intents' \in Seq(IntentRecord) /\ Len(intents') = n
      /\ \A j \in 1..Len(intents) : intents'[j] = intents[j]
      /\ intents'[n] = x
  BY <1>2, <1>4, <1>6, AppendProperties DEF x
<1>8. /\ DOMAIN intents' = 1..n /\ n \notin DOMAIN intents /\ DOMAIN intents \subseteq DOMAIN intents'
      /\ \A j \in DOMAIN intents' : j \in DOMAIN intents \/ j = n
      /\ \A j \in DOMAIN intents : intents'[j] = intents[j]
  <2>1. DOMAIN intents' = 1..Len(intents')
    BY <1>7, LenProperties
  <2> QED BY <1>4, <1>7, <2>1
<1>9. \A b \in Aggregates : row[b] # 0 => row[b] \in DOMAIN intents
  BY <1>1, FieldTypes
<1>10. \A b \in Aggregates : sequenceOf(b)' = sequenceOf(b)
  BY <1>1, <1>8, <1>9 DEF sequenceOf
<1>11. \A j \in DOMAIN intents : UpToDate(j)' <=> UpToDate(j)
  <2> TAKE j \in DOMAIN intents
  <2>1. intents[j].aggregate \in Aggregates
    BY <1>1, FieldTypes
  <2>2. ASSUME NEW b, b = intents[j].aggregate PROVE sequenceOf(b)' = sequenceOf(b)
    BY <1>10, <2>1, <2>2
  <2> QED BY <1>1, <1>8, <2>2 DEF UpToDate, sequenceOf
<1>12. \A b : SetBack(b)' <=> SetBack(b)
  BY <1>1, <1>8 DEF SetBack, StoreTypeOK
<1>13. StoreTypeOK'
  <2>1. save' \in [Saves -> SaveRecord]
    <3> DEFINE z == [save[s] EXCEPT !.at = "staging"]
               y == [z EXCEPT !.intent = n]
    <3>1. save' = [save EXCEPT ![s] = y] /\ save \in [Saves -> SaveRecord]
      BY <1>1 DEF StoreTypeOK
    <3>2. z \in SaveRecord
      BY <1>1 DEF SaveRecord, InFence
    <3>3. n \in Nat
      BY <1>4
    <3> HIDE DEF z, n
    <3>4. y \in SaveRecord
      BY <3>2, <3>3 DEF SaveRecord
    <3> HIDE DEF y
    <3> QED BY <3>1, <3>4
  <2>2. row' \in [Aggregates -> 0..Len(intents')]
    BY <1>1, <1>4, <1>7 DEF StoreTypeOK
  <2>3. recovery' \in [todo : SUBSET (DOMAIN intents'), dropped : SUBSET (DOMAIN intents'),
                       ready : SUBSET (DOMAIN intents')]
    BY <1>1, <1>8 DEF StoreTypeOK
  <2> QED BY <1>1, <1>7, <1>8, <2>1, <2>2, <2>3 DEF StoreTypeOK
<1>14. Intents'
  <2>1. Consistent(x)
    BY <1>3, <1>6 DEF Consistent
  <2>2. nextCursor \in Nat /\ nextCursor > 0
    BY <1>1, FieldTypes
  <2> HIDE DEF n, a
  <2> QED BY <1>1, <1>6, <1>7, <1>8, <2>1, <2>2 DEF Intents
<1>15. Rows'
  BY <1>1, <1>8, <1>9 DEF Rows
<1>16. Fenced'
  <2>1. \A r \in Saves : save[r].at \notin InFence
    BY <1>1, NobodyInside
  <2>2. /\ save'[s].at = "staging" /\ save'[s].intent = n
        /\ \A r \in Saves : r # s => save'[r] = save[r]
    BY <1>1 DEF StoreTypeOK, SaveRecord
  <2>3. \A r \in Saves : save'[r].at \in InFence => r = s
    BY <2>1, <2>2
  <2>4. n \in DOMAIN intents' /\ n \notin stranded
    BY <1>1, <1>4, <1>8 DEF StoreTypeOK
  <2>5. ASSUME NEW k, k = n PROVE UpToDate(k)'
    <3>1. ASSUME NEW b, b = a PROVE sequenceOf(b)' = sequenceOf(b)
      BY <1>3, <1>10, <3>1
    <3> HIDE DEF n
    <3> QED BY <1>1, <1>6, <1>7, <2>5, <3>1 DEF UpToDate, sequenceOf
  <2>6. save'[s].at \in InFence
    BY <2>2 DEF InFence
  <2> HIDE DEF n
  <2>7. \A r \in Saves : save'[r].at \in InFence =>
          r = s /\ save'[r].intent = n /\ save'[r].at = "staging"
    BY <2>2, <2>3
  <2>8. intents'[n].aggregate = a /\ intents'[n].state = "staging"
    BY <1>6, <1>7
  <2> HIDE DEF a
  <2>9. ASSUME NEW r \in Saves, save'[r].at \in InFence, NEW k, k = save'[r].intent
        PROVE  /\ fence' = r /\ mode' = "serving" /\ k \in DOMAIN intents' /\ k \notin stranded'
               /\ intents'[k].aggregate = TargetOf(r) /\ intents'[k].state = "staging"
               /\ save'[r].at = "staging" /\ UpToDate(k)'
    <3>1. r = s /\ k = n /\ save'[r].at = "staging"
      BY <2>7, <2>9
    <3>2. UpToDate(k)'
      BY <2>5, <3>1
    <3>3. fence' = s /\ mode' = "serving" /\ stranded' = stranded
      BY <1>1
    <3> QED BY <2>4, <2>8, <3>1, <3>2, <3>3 DEF a
  <2>10. fence' # NoSave => save'[fence'].at \in InFence
    BY <1>1, <2>6
  <2> QED BY <2>9, <2>10 DEF Fenced, UpToDate, sequenceOf
<1>17. HalfWay'
  BY <1>1, <1>6, <1>7, <1>8 DEF HalfWay
<1>18. CutOff'
  <2>1. \A j \in DOMAIN intents' \ stranded : intents'[j].state = "prepared" => j \in DOMAIN intents \ stranded
    BY <1>6, <1>7, <1>8
  <2> QED BY <1>1, <1>8, <1>11, <2>1 DEF CutOff
<1>19. Recovers'
  BY <1>1 DEF Recovers, NoRecovery
<1>20. Newest'
  <2> SUFFICES ASSUME NEW j \in DOMAIN intents', intents'[j].cursor # 0, intents'[j].revision = "committed",
                      NEW b, b = intents'[j].aggregate, ~SetBack(b)'
               PROVE  intents'[j].sequence <= sequenceOf(b)'
    BY DEF Newest, events, SetBack, sequenceOf
  <2>1. j \in DOMAIN intents /\ intents'[j] = intents[j] /\ b \in Aggregates
    BY <1>1, <1>6, <1>7, <1>8, FieldTypes
  <2>2. intents[j].sequence <= sequenceOf(b)
    BY <1>1, <1>12, <2>1 DEF Newest, events
  <2> QED BY <1>10, <2>1, <2>2
<1>21. Seen'
  <2> SUFFICES ASSUME NEW j \in DOMAIN intents' \ skipped, intents'[j].cursor # 0,
                      intents'[j].cursor <= client.cursor, NEW b, b = intents'[j].aggregate
               PROVE  /\ intents'[j].revision # "prepared"
                      /\ intents'[j].revision = "committed" /\ ~SetBack(b)' => intents'[j].sequence <= client.known[b]
    BY <1>1 DEF Seen, SetBack
  <2>1. j \in DOMAIN intents /\ intents'[j] = intents[j]
    BY <1>6, <1>7, <1>8
  <2> QED BY <1>1, <1>12, <2>1 DEF Seen
<1> QED BY <1>13, <1>14, <1>15, <1>16, <1>17, <1>18, <1>19, <1>20, <1>21 DEF StoreInv

\* A commit: the row points at the intent, and what it showed is older, or the
\* operation is set back.
LEMMA CommitWrites ==
    ASSUME StoreInv, NEW i \in DOMAIN intents, intents[i].state = "prepared", commit(i),
           UNCHANGED <<nextCursor, client, skipped, stranded>>
    PROVE  /\ Moves(i) /\ intents'[i].state = "committed"
           /\ DOMAIN intents' = DOMAIN intents /\ Len(intents') = Len(intents)
           /\ \A j \in DOMAIN intents : j # i => intents'[j] = intents[j]
           /\ row' \in [Aggregates -> 0..Len(intents)]
           /\ Intents' /\ Rows' /\ CutOff' /\ Newest' /\ Seen'
<1> DEFINE x == [intents[i] EXCEPT !.revision = "committed",
                                   !.state = IF @ = "prepared" THEN "committed" ELSE @]
           a == intents[i].aggregate
<1>1. /\ StoreTypeOK /\ Intents /\ Rows /\ CutOff /\ Newest /\ Seen
      /\ intents[i] \in IntentRecord /\ Consistent(intents[i]) /\ intents[i].file = "final"
      /\ intents[i].revision = "prepared"
      /\ row' = [row EXCEPT ![a] = i] /\ intents' = [intents EXCEPT ![i] = x]
      /\ UNCHANGED <<nextCursor, client, skipped, stranded>>
  BY Positions DEF StoreInv, Intents, Consistent, commit
<1>2. /\ x \in IntentRecord /\ Consistent(x)
      /\ x.aggregate = a /\ x.basis = intents[i].basis /\ x.sequence = intents[i].sequence
      /\ x.emits = intents[i].emits /\ x.cursor = intents[i].cursor
      /\ x.revision = "committed" /\ x.state = "committed"
  BY <1>1 DEF IntentRecord, Consistent
<1> HIDE DEF x
<1>3. /\ intents' \in Seq(IntentRecord) /\ Len(intents') = Len(intents)
      /\ DOMAIN intents' = DOMAIN intents /\ intents'[i] = x
      /\ \A j \in DOMAIN intents : j # i => intents'[j] = intents[j]
  BY <1>1, <1>2, Replaces
<1>4. Moves(i)
  BY <1>1, <1>2, <1>3 DEF Moves, OnlyIntent, Counts
<1>5. Intents'
  BY <1>4, MovesIntents
<1>6. /\ a \in Aggregates /\ i \in Nat /\ i \in 1..Len(intents)
      /\ \A b \in Aggregates : row[b] # 0 => row[b] \in DOMAIN intents
      /\ row \in [Aggregates -> 0..Len(intents)]
  BY <1>1, FieldTypes, Positions DEF StoreTypeOK
<1>7. /\ row' \in [Aggregates -> 0..Len(intents)] /\ row'[a] = i
      /\ \A b \in Aggregates : b # a => row'[b] = row[b]
  BY <1>1, <1>6
<1>8. \A j \in DOMAIN intents :
         /\ intents'[j].aggregate = intents[j].aggregate /\ intents'[j].basis = intents[j].basis
         /\ intents'[j].sequence = intents[j].sequence
         /\ intents[j].revision = "committed" => intents'[j].revision = "committed"
  BY <1>2, <1>3
<1>9. Rows'
  BY <1>2, <1>3, <1>6, <1>7, <1>8, <1>1 DEF Rows
<1>10. /\ \A b \in Aggregates : b # a => sequenceOf(b)' = sequenceOf(b)
       /\ \A b : b = a => sequenceOf(b)' = intents[i].sequence
  <2>1. i # 0
    BY <1>6
  <2> QED BY <1>1, <1>6, <1>7, <1>8, <2>1 DEF sequenceOf
<1>11. \A b : SetBack(b) => SetBack(b)'
  BY <1>1, <1>8, SetBackStays
<1>12. ASSUME NEW b, b = a, i \in stranded \/ row[a] \in stranded PROVE SetBack(b)'
  <2>1. CASE i \in stranded
    BY <1>1, <1>2, <1>3, <1>12, <2>1 DEF SetBack
  <2>2. CASE row[a] \in stranded
    <3>1. row[a] \in DOMAIN intents /\ row[a] # 0
      BY <1>1, <1>6, <2>2 DEF StoreTypeOK
    <3>2. intents[row[a]].revision = "committed" /\ intents[row[a]].aggregate = a
      BY <1>1, <1>6, <3>1 DEF Rows
    <3>3. SetBack(a)
      BY <2>2, <3>2 DEF SetBack
    <3> HIDE DEF a
    <3> QED BY <1>11, <1>12, <3>3
  <2> QED BY <1>12, <2>1, <2>2
<1>13. i \in stranded \/ row[a] \in stranded \/ UpToDate(i)
  BY <1>1 DEF CutOff
<1>14. CutOff'
  <2>1. ASSUME NEW j \in DOMAIN intents \ stranded, intents'[j].state = "prepared",
               NEW k, k = j, NEW b, b = intents[j].aggregate
        PROVE  UpToDate(k)' \/ row'[b] \in stranded
    <3>1. j # i /\ intents[j].state = "prepared" /\ b \in Aggregates
      BY <1>1, <1>2, <1>3, <2>1, FieldTypes
    <3>2. CASE b = a
      BY <1>1, <1>7, <2>1, <3>1, <3>2 DEF CutOff
    <3>3. CASE b # a
      <4>1. UpToDate(j) \/ row[b] \in stranded
        BY <1>1, <2>1, <3>1 DEF CutOff
      <4>2. row'[b] = row[b] /\ sequenceOf(b)' = sequenceOf(b)
        BY <1>7, <1>10, <3>1, <3>3
      <4> QED BY <1>8, <2>1, <4>1, <4>2 DEF UpToDate, sequenceOf
    <3> QED BY <3>2, <3>3
  <2>2. \A j, k \in DOMAIN intents \ stranded :
           intents'[j].state = "prepared" /\ intents'[k].state = "prepared" => j = k
    BY <1>1, <1>2, <1>3 DEF CutOff
  <2> QED BY <1>1, <1>3, <1>8, <2>1, <2>2 DEF CutOff, UpToDate, sequenceOf
<1>15. Newest'
  <2> SUFFICES ASSUME NEW j \in DOMAIN intents, intents'[j].cursor # 0, intents'[j].revision = "committed",
                      NEW b, b = intents[j].aggregate, ~SetBack(b)'
               PROVE  intents'[j].sequence <= sequenceOf(b)'
    BY <1>3, <1>8 DEF Newest, events, SetBack, sequenceOf
  <2>1. /\ b \in Aggregates /\ intents[j].sequence \in Nat /\ sequenceOf(b) \in Nat
        /\ intents[i].sequence \in Nat
    BY <1>1, FieldTypes
  <2>2. CASE j = i
    BY <1>2, <1>3, <1>10, <2>1, <2>2
  <2>3. CASE j # i
    <3>1. intents[j].cursor # 0 /\ intents[j].revision = "committed" /\ ~SetBack(b)
      BY <1>3, <1>11, <2>3
    <3>2. intents[j].sequence <= sequenceOf(b) /\ b \in Operations
      BY <1>1, <3>1 DEF Newest, events, Intents, Consistent
    <3>3. CASE b # a
      BY <1>8, <1>10, <2>1, <3>2, <3>3
    <3>4. CASE b = a
      <4>1. UpToDate(i)
        BY <1>12, <1>13, <3>4
      <4>2. sequenceOf(b) <= intents[i].sequence
        BY <3>2, <3>4, <4>1 DEF UpToDate
      <4> HIDE DEF a
      <4> QED BY <1>8, <1>10, <2>1, <3>2, <3>4, <4>2
    <3> QED BY <3>3, <3>4
  <2> QED BY <2>2, <2>3
<1>16. Seen'
  <2> SUFFICES ASSUME NEW j \in DOMAIN intents \ skipped, intents'[j].cursor # 0,
                      intents'[j].cursor <= client.cursor, NEW b, b = intents[j].aggregate
               PROVE  /\ intents'[j].revision # "prepared"
                      /\ intents'[j].revision = "committed" /\ ~SetBack(b)' => intents'[j].sequence <= client.known[b]
    BY <1>1, <1>3, <1>8 DEF Seen, SetBack
  <2>1. intents'[j].cursor = intents[j].cursor
    BY <1>2, <1>3
  <2>2. j # i
    BY <1>1, <2>1 DEF Seen
  <2> QED BY <1>1, <1>3, <1>11, <2>1, <2>2 DEF Seen
<1> QED BY <1>2, <1>3, <1>4, <1>5, <1>7, <1>9, <1>14, <1>15, <1>16

\* A save commits what it published.
LEMMA CommitKeeps == ASSUME StoreInv, NEW s \in Saves, Commit(s) PROVE StoreInv'
<1> DEFINE i == save[s].intent
<1>1. save[s].at = "published" /\ save[s].at \in InFence
  BY DEF Commit, At, InFence
<1>2. /\ fence = s /\ fence # NoSave /\ mode = "serving" /\ recovery = NoRecovery
      /\ i \in DOMAIN intents /\ i \notin stranded
      /\ intents[i].state = "prepared" /\ intents[i].aggregate = TargetOf(s)
      /\ \A r \in Saves : r # s => save[r].at \notin InFence
  BY <1>1, Inside
<1>3. /\ StoreTypeOK /\ HalfWay /\ Recovers /\ commit(i) /\ Go(s, "committed")
      /\ UNCHANGED <<nextCursor, mode, fence, recovery, client, stranded, skipped>>
  BY DEF StoreInv, Commit
<1>4. /\ Moves(i) /\ intents'[i].state = "committed"
      /\ DOMAIN intents' = DOMAIN intents /\ Len(intents') = Len(intents)
      /\ \A j \in DOMAIN intents : j # i => intents'[j] = intents[j]
      /\ row' \in [Aggregates -> 0..Len(intents)]
      /\ Intents' /\ Rows' /\ CutOff' /\ Newest' /\ Seen'
  <2> HIDE DEF i
  <2> QED BY <1>2, <1>3, CommitWrites
<1>5. /\ save' \in [Saves -> SaveRecord] /\ save'[s].at = "committed" /\ save'[s].intent = i
      /\ \A r \in Saves : r # s => save'[r] = save[r]
  BY <1>3 DEF StoreTypeOK, Go, SaveRecord, InFence
<1>6. StoreTypeOK'
  BY <1>3, <1>4, <1>5 DEF StoreTypeOK, Moves, OnlyIntent
<1>7. Fenced'
  <2>1. ASSUME NEW r \in Saves, save'[r].at \in InFence PROVE r = s
    BY <1>2, <1>5, <2>1
  <2>2. i \in DOMAIN intents' /\ i \notin stranded' /\ intents'[i].aggregate = TargetOf(s)
    BY <1>2, <1>3, <1>4 DEF Moves, OnlyIntent
  <2>3. save'[s].at \in InFence
    BY <1>5 DEF InFence
  <2> HIDE DEF i
  <2> QED BY <1>2, <1>3, <1>4, <1>5, <2>1, <2>2, <2>3 DEF Fenced
<1>8. HalfWay'
  <2> HIDE DEF i
  <2>1. \A j \in DOMAIN intents : intents'[j].state = "prepared" => j \in stranded
    BY <1>2, <1>3, <1>4 DEF HalfWay, i
  <2> QED BY <1>2, <1>3, <1>4, <2>1 DEF HalfWay
<1>9. Recovers'
  BY <1>2, <1>3 DEF Recovers, NoRecovery
<1> QED BY <1>4, <1>6, <1>7, <1>8, <1>9 DEF StoreInv

-----------------------------------------------------------------------------
(* The renderer.                                                           *)

\* A page that is left empty had nothing to hold, and one that is cut short
\* leaves nothing behind its last event.
LEMMA PageLeavesNothing ==
    ASSUME StoreInv, NEW after \in Nat, NEW j \in events("committed"), intents[j].cursor > after
    PROVE  /\ page(after) # {}
           /\ page(after) \subseteq events("committed")
           /\ \A m \in page(after) : intents[j].cursor <= intents[m].cursor => j \in page(after)
<1> DEFINE later == {i \in events("committed") : intents[i].cursor > after}
           before(k) == {i \in later : intents[i].cursor < intents[k].cursor}
<1>1. StoreTypeOK /\ PageLimit \in Nat /\ PageLimit > 0
  BY RepositoryAssumption DEF StoreInv
<1>2. /\ DOMAIN intents = 1..Len(intents) /\ Len(intents) \in Nat
      /\ \A i \in DOMAIN intents : intents[i].cursor \in Nat
  BY <1>1, Positions, FieldTypes
<1>3. later \subseteq DOMAIN intents /\ IsFiniteSet(later) /\ j \in later
  <2>1. later \subseteq DOMAIN intents /\ j \in later
    BY DEF events
  <2>2. IsFiniteSet(1..Len(intents))
    BY <1>2, FS_Interval
  <2> QED BY <1>2, <2>1, <2>2, FS_Subset
<1>4. page(after) = {i \in later : Cardinality(before(i)) < PageLimit}
  BY DEF page
<1>5. \A k : IsFiniteSet(before(k)) /\ Cardinality(before(k)) \in Nat
  <2> TAKE k
  <2>1. before(k) \subseteq later
    OBVIOUS
  <2> HIDE DEF before, later
  <2> QED BY <1>3, <2>1, FS_Subset, FS_CardinalityType
<1>6. page(after) # {}
  <2> DEFINE C == {intents[i].cursor : i \in later}
  <2>1. C \subseteq Nat /\ C # {}
    BY <1>2, <1>3
  <2>2. Min(C) \in C /\ \A c \in C : Min(C) <= c
    <3> HIDE DEF C
    <3> QED BY <2>1, MinIn
  <2>3. PICK k \in later : intents[k].cursor = Min(C)
    BY <2>2
  <2>4. before(k) = {}
    <3> SUFFICES ASSUME NEW i \in before(k) PROVE FALSE
      OBVIOUS
    <3>1. intents[i].cursor \in C /\ intents[i].cursor < Min(C) /\ i \in DOMAIN intents
      BY <1>3, <2>3
    <3>2. intents[i].cursor \in Nat /\ intents[k].cursor \in Nat
      BY <1>2, <1>3, <2>3, <3>1
    <3>3. Min(C) <= intents[i].cursor
      BY <2>2, <3>1
    <3> QED BY <2>3, <3>1, <3>2, <3>3
  <2>5. Cardinality(before(k)) < PageLimit
    BY <1>1, <2>4, FS_EmptySet
  <2> QED BY <1>4, <2>3, <2>5
<1>7. page(after) \subseteq events("committed")
  BY <1>4
<1>8. ASSUME NEW m \in page(after), intents[j].cursor <= intents[m].cursor PROVE j \in page(after)
  <2>1. m \in later /\ Cardinality(before(m)) < PageLimit
    BY <1>4
  <2>2. before(j) \subseteq before(m)
    BY <1>2, <1>3, <1>8, <2>1
  <2>3. Cardinality(before(j)) <= Cardinality(before(m))
    <3> HIDE DEF before
    <3> QED BY <1>5, <2>2, FS_Subset
  <2>4. Cardinality(before(j)) < PageLimit
    <3> HIDE DEF before
    <3> QED BY <1>1, <1>5, <2>1, <2>3
  <2> QED BY <1>3, <1>4, <2>4
<1> QED BY <1>6, <1>7, <1>8

\* Where the renderer continues, and what it has received then.
LEMMA ReceiveSees ==
    ASSUME StoreInv, NEW known \in [Operations -> Nat], NEW where \in {"idle"},
           Receive(page(client.cursor), known, where),
           \A j \in events("committed") :
              ~SetBack(intents[j].aggregate) /\ j \notin skipped /\ intents[j].cursor <= client.cursor =>
                intents[j].sequence <= known[intents[j].aggregate],
           UNCHANGED <<intents, nextCursor, stranded>>
    PROVE  /\ client' \in [at : {"closed", "idle", "waiting", "woken"}, cursor : Nat,
                           known : [Operations -> Nat]]
           /\ Seen'
<1> DEFINE list == page(client.cursor)
           cursor == Max({client.cursor, continuation(list) - 1})
           seqs(w) == {intents[i].sequence : i \in {j \in list : intents[j].aggregate = w}}
           newest(w) == Max({known[w]} \cup seqs(w))
<1>1. StoreTypeOK /\ Intents /\ Seen
  BY DEF StoreInv
<1>2. /\ \A j \in DOMAIN intents : /\ intents[j].cursor \in Nat /\ intents[j].sequence \in Nat
                                   /\ intents[j].aggregate \in Aggregates
                                   /\ intents[j].sequence <= Len(intents)
      /\ Len(intents) \in Nat /\ DOMAIN intents = 1..Len(intents)
      /\ nextCursor \in Nat /\ nextCursor > 0 /\ client.cursor \in Nat
  <2>1. Len(intents) \in Nat /\ DOMAIN intents = 1..Len(intents)
    BY <1>1, Positions
  <2>2. \A j \in DOMAIN intents : /\ intents[j].cursor \in Nat /\ intents[j].sequence \in Nat
                                  /\ intents[j].aggregate \in Aggregates
    BY <1>1, FieldTypes
  <2>3. nextCursor \in Nat /\ nextCursor > 0 /\ client.cursor \in Nat
    BY <1>1, FieldTypes
  <2>4. \A j \in DOMAIN intents : intents[j].sequence <= j
    BY <1>1 DEF Intents
  <2>5. \A j \in DOMAIN intents : intents[j].sequence <= Len(intents)
    BY <2>1, <2>2, <2>4
  <2> QED BY <2>1, <2>2, <2>3, <2>5
<1>3. list \subseteq events("committed") /\ list \subseteq DOMAIN intents
  BY DEF page, events
<1>4. list # {} => \E m \in list : /\ continuation(list) = intents[m].cursor + 1
                                   /\ \A j \in list : intents[j].cursor <= intents[m].cursor
  <2> SUFFICES ASSUME list # {}
               PROVE  \E m \in list : /\ continuation(list) = intents[m].cursor + 1
                                      /\ \A j \in list : intents[j].cursor <= intents[m].cursor
    OBVIOUS
  <2> DEFINE C == {intents[i].cursor : i \in list}
  <2> HIDE DEF list
  <2>1. C \subseteq Nat /\ C # {} /\ \A c \in C : c <= nextCursor
    BY <1>1, <1>2, <1>3 DEF Intents
  <2>2. Max(C) \in C /\ \A c \in C : c <= Max(C)
    <3> HIDE DEF C
    <3> QED BY <1>2, <2>1, MaxIn
  <2>3. continuation(list) = Max(C) + 1
    BY DEF continuation
  <2> QED BY <2>2, <2>3
<1>5. list = {} => continuation(list) = nextCursor
  BY DEF continuation
<1> HIDE DEF list
<1>6. /\ continuation(list) \in Nat /\ continuation(list) - 1 \in Nat
      /\ continuation(list) <= nextCursor
      /\ list # {} => \E m \in list : /\ continuation(list) - 1 = intents[m].cursor
                                      /\ \A j \in list : intents[j].cursor <= intents[m].cursor
  <2>1. CASE list = {}
    BY <1>2, <1>5, <2>1
  <2>2. CASE list # {}
    <3>1. PICK m \in list : /\ continuation(list) = intents[m].cursor + 1
                             /\ \A j \in list : intents[j].cursor <= intents[m].cursor
      BY <1>4, <2>2
    <3>2. intents[m].cursor \in Nat /\ intents[m].cursor < nextCursor
      BY <1>1, <1>2, <1>3 DEF Intents
    <3>3. continuation(list) \in Nat /\ continuation(list) - 1 = intents[m].cursor
      BY <3>1, <3>2
    <3> QED BY <1>2, <3>1, <3>2, <3>3
  <2> QED BY <2>1, <2>2
<1>7. /\ cursor \in {client.cursor, continuation(list) - 1}
      /\ client.cursor <= cursor /\ continuation(list) - 1 <= cursor
  <2> DEFINE c == continuation(list) - 1
  <2>1. c \in Nat
    BY <1>6
  <2> HIDE DEF c
  <2>2. /\ Max({client.cursor, c}) \in {client.cursor, c}
        /\ client.cursor <= Max({client.cursor, c}) /\ c <= Max({client.cursor, c})
    BY <1>2, <2>1, MaxOfTwo
  <2> QED BY <2>2 DEF c
<1>8. cursor \in Nat /\ cursor < nextCursor
  <2>1. client.cursor < nextCursor
    BY <1>1 DEF Seen
  <2> HIDE DEF cursor
  <2> QED BY <1>2, <1>6, <1>7, <2>1
<1>9. \A w \in Operations : /\ newest(w) \in Nat /\ known[w] <= newest(w)
                            /\ \A j \in list : intents[j].aggregate = w => intents[j].sequence <= newest(w)
  <2> TAKE w \in Operations
  <2> DEFINE S == {known[w]} \cup seqs(w)
             b == known[w] + Len(intents)
  <2>1. S \subseteq Nat /\ S # {} /\ b \in Nat /\ \A n \in S : n <= b
    <3>1. known[w] \in Nat
      OBVIOUS
    <3>2. \A i \in list : intents[i].sequence \in Nat /\ intents[i].sequence <= Len(intents)
      BY <1>2, <1>3
    <3> QED BY <1>2, <3>1, <3>2
  <2>2. Max(S) \in S /\ \A n \in S : n <= Max(S)
    <3> HIDE DEF S, b
    <3> QED BY <2>1, MaxIn
  <2> QED BY <2>1, <2>2
<1>10. /\ client' = [at |-> where, cursor |-> cursor, known |-> [w \in Operations |-> newest(w)]]
       /\ skipped' = skipped \cup {i \in events("prepared") : intents[i].cursor \in (client.cursor + 1)..cursor}
  BY DEF Receive, list
<1> HIDE DEF cursor, newest
<1>11. /\ client'.at = "idle" /\ client'.cursor = cursor
       /\ \A w \in Operations : client'.known[w] = newest(w)
       /\ client' \in [at : {"closed", "idle", "waiting", "woken"}, cursor : Nat, known : [Operations -> Nat]]
  BY <1>8, <1>9, <1>10
<1>12. ASSUME NEW j \in DOMAIN intents, j \notin skipped', intents[j].cursor # 0, intents[j].cursor <= cursor,
              NEW w, w = intents[j].aggregate
       PROVE  /\ intents[j].revision # "prepared"
              /\ intents[j].revision = "committed" /\ ~SetBack(w) => intents[j].sequence <= newest(w)
  <2>1. j \notin skipped /\ w \in Operations /\ intents[j].cursor \in Nat /\ intents[j].sequence \in Nat
    BY <1>1, <1>2, <1>10, <1>12 DEF Intents, Consistent
  <2>2. CASE intents[j].cursor <= client.cursor
    <3>1. intents[j].revision # "prepared"
      BY <1>1, <1>12, <2>1, <2>2 DEF Seen
    <3>2. intents[j].revision = "committed" /\ ~SetBack(w) => intents[j].sequence <= known[w]
      BY <1>12, <2>1, <2>2 DEF events
    <3>3. known[w] \in Nat /\ newest(w) \in Nat /\ known[w] <= newest(w)
      BY <1>9, <2>1
    <3> QED BY <2>1, <3>1, <3>2, <3>3
  <2>3. CASE intents[j].cursor > client.cursor
    <3>1. intents[j].revision # "prepared"
      <4>1. intents[j].cursor \in (client.cursor + 1)..cursor
        BY <1>2, <1>8, <1>12, <2>1, <2>3
      <4> QED BY <1>10, <1>12, <4>1 DEF events
    <3>2. ASSUME intents[j].revision = "committed" PROVE j \in list
      <4>1. j \in events("committed")
        BY <1>12, <3>2 DEF events
      <4>2. /\ list # {}
            /\ \A m \in list : intents[j].cursor <= intents[m].cursor => j \in list
        BY <1>2, <2>3, <4>1, PageLeavesNothing DEF list
      <4>3. PICK m \in list : continuation(list) - 1 = intents[m].cursor
        BY <1>6, <4>2
      <4>4. intents[j].cursor <= intents[m].cursor
        <5>1. intents[m].cursor \in Nat
          BY <1>2, <1>3, <4>3
        <5> QED BY <1>2, <1>7, <1>12, <2>1, <2>3, <4>3, <5>1
      <4> QED BY <4>2, <4>4
    <3> QED BY <1>9, <1>12, <2>1, <3>1, <3>2
  <2> QED BY <1>2, <2>1, <2>2, <2>3
<1>13. Seen'
  <2> SUFFICES ASSUME NEW j \in DOMAIN intents \ skipped', intents[j].cursor # 0,
                      intents[j].cursor <= client'.cursor, NEW w, w = intents[j].aggregate
               PROVE  /\ intents[j].revision # "prepared"
                      /\ intents[j].revision = "committed" /\ ~SetBack(w) => intents[j].sequence <= client'.known[w]
    BY <1>8, <1>11 DEF Seen, SetBack
  <2>1. w \in Operations
    BY <1>1 DEF Intents, Consistent
  <2> QED BY <1>11, <1>12, <2>1
<1> QED BY <1>11, <1>13

\* What only the renderer does leaves the store as it is.
LEMMA StoreUntouched ==
    ASSUME StoreInv, UNCHANGED <<intents, row, nextCursor, mode, fence, save, recovery, stranded>>,
           client' \in [at : {"closed", "idle", "waiting", "woken"}, cursor : Nat, known : [Operations -> Nat]],
           Seen'
    PROVE  StoreInv'
<1>1. StoreTypeOK'
  BY DEF StoreInv, StoreTypeOK
<1>2. Intents' /\ Rows'
  BY DEF StoreInv, Intents, Rows
<1>3. Fenced' /\ HalfWay'
  BY DEF StoreInv, Fenced, HalfWay, UpToDate, sequenceOf
<1>4. CutOff'
  BY DEF StoreInv, CutOff, UpToDate, sequenceOf
<1>5. Recovers' /\ Newest'
  BY DEF StoreInv, Recovers, Newest, SetBack, events, sequenceOf
<1> QED BY <1>1, <1>2, <1>3, <1>4, <1>5 DEF StoreInv

\* The renderer loads a snapshot: it has the newest sequence of every operation.
LEMMA LoadWorkspaceKeeps == ASSUME StoreInv, LoadWorkspace PROVE StoreInv'
<1> DEFINE known == [w \in Operations |-> sequenceOf(w)]
<1>1. known \in [Operations -> Nat]
  BY FieldTypes DEF StoreInv, Aggregates
<1>2. ASSUME NEW j \in events("committed"), ~SetBack(intents[j].aggregate)
      PROVE  intents[j].sequence <= known[intents[j].aggregate]
  <2>1. intents[j].aggregate \in Operations
    BY DEF StoreInv, Intents, Consistent, events
  <2> QED BY <1>2, <2>1 DEF StoreInv, Newest
<1>3. Receive(page(client.cursor), known, "idle")
  BY DEF LoadWorkspace
<1> HIDE DEF known
<1>4. /\ client' \in [at : {"closed", "idle", "waiting", "woken"}, cursor : Nat, known : [Operations -> Nat]]
      /\ Seen'
  BY <1>1, <1>2, <1>3, ReceiveSees DEF LoadWorkspace
<1> QED BY <1>4, StoreUntouched DEF LoadWorkspace

\* It receives a page of events over what it knows.
LEMMA PageKeeps ==
    ASSUME StoreInv, Receive(page(client.cursor), client.known, "idle"),
           UNCHANGED <<intents, row, nextCursor, mode, fence, save, recovery, stranded>>
    PROVE  StoreInv'
<1>1. client.known \in [Operations -> Nat]
  BY DEF StoreInv, StoreTypeOK
<1>2. ASSUME NEW j \in events("committed"), ~SetBack(intents[j].aggregate), j \notin skipped,
             intents[j].cursor <= client.cursor
      PROVE  intents[j].sequence <= client.known[intents[j].aggregate]
  BY <1>2 DEF StoreInv, Seen, events
<1>3. /\ client' \in [at : {"closed", "idle", "waiting", "woken"}, cursor : Nat, known : [Operations -> Nat]]
      /\ Seen'
  BY <1>1, <1>2, ReceiveSees
<1> QED BY <1>3, StoreUntouched

\* It begins or ends to wait.
LEMMA WaitKeeps ==
    ASSUME StoreInv, GivenNothing,
           UNCHANGED <<intents, row, nextCursor, mode, fence, save, recovery, stranded>>
    PROVE  StoreInv'
<1>1. Still
  BY DEF Still, StoreInv, StoreTypeOK
<1> QED BY <1>1, StillKeeps, StoreUntouched DEF GivenNothing

\* The steps of the renderer.
LEMMA RendererKeeps ==
    ASSUME StoreInv, LoadWorkspace \/ Poll \/ WaitEnds \/ PollAgain
    PROVE  StoreInv'
<1>1. CASE LoadWorkspace
  BY <1>1, LoadWorkspaceKeeps
<1>2. CASE Poll
  <2>1. CASE page(client.cursor) # {}
    BY <1>2, <2>1, PageKeeps DEF Poll
  <2>2. CASE page(client.cursor) = {}
    <3>1. GivenNothing
      BY <1>2, <2>2 DEF Poll, GivenNothing, StoreInv, StoreTypeOK
    <3> QED BY <1>2, <3>1, WaitKeeps DEF Poll
  <2> QED BY <2>1, <2>2
<1>3. CASE WaitEnds
  <2>1. GivenNothing
    BY <1>3 DEF WaitEnds, GivenNothing, StoreInv, StoreTypeOK
  <2> QED BY <1>3, <2>1, WaitKeeps DEF WaitEnds
<1>4. CASE PollAgain
  BY <1>4, PageKeeps DEF PollAgain
<1> QED BY <1>1, <1>2, <1>3, <1>4

-----------------------------------------------------------------------------
(* The process dies and recovers.                                          *)

\* The process dies: whoever was inside the fence is gone.
LEMMA CrashKeeps == ASSUME StoreInv, Crash PROVE StoreInv'
<1>1. /\ StoreTypeOK /\ mode' = "down" /\ fence' = NoSave /\ recovery' = NoRecovery
      /\ UNCHANGED <<intents, row, nextCursor, stranded, skipped>>
  BY DEF StoreInv, Crash
<1>2. GivenNothing
  BY DEF Crash, GivenNothing, StoreInv, StoreTypeOK
<1>3. Still
  BY <1>1, <1>2 DEF Still, StoreTypeOK
<1>4. Intents' /\ Rows' /\ CutOff' /\ Newest' /\ Seen'
  BY <1>3, StillKeeps
<1>5. /\ save' \in [Saves -> SaveRecord]
      /\ \A s \in Saves : save'[s].at \notin InFence
  <2>1. Ended \in SaveRecord /\ Ended.at \notin InFence
    BY DEF Ended, SaveRecord, InFence
  <2>2. save' = [s \in Saves |-> IF save[s].at = "new" THEN save[s] ELSE Ended]
    BY DEF Crash
  <2>3. "new" \notin InFence /\ \A s \in Saves : save[s] \in SaveRecord
    BY <1>1 DEF InFence, StoreTypeOK
  <2> QED BY <2>1, <2>2, <2>3
<1>6. StoreTypeOK'
  BY <1>1, <1>2, <1>5 DEF StoreTypeOK, GivenNothing, NoRecovery
<1>7. Fenced' /\ HalfWay' /\ Recovers'
  BY <1>1, <1>5 DEF Fenced, HalfWay, Recovers, NoRecovery
<1> QED BY <1>4, <1>6, <1>7 DEF StoreInv

\* It comes back and looks at every intent that is not done; it gives up; it serves.
LEMMA ModeKeeps ==
    ASSUME StoreInv, Restart \/ RecoveryFails \/ Serve
    PROVE  StoreInv'
<1>1. /\ StoreTypeOK /\ HalfWay /\ Recovers /\ mode # "serving"
      /\ UNCHANGED <<intents, row, nextCursor, fence, save, client, stranded, skipped>>
  BY DEF StoreInv, Restart, RecoveryFails, Serve
<1>2. fence = NoSave /\ \A s \in Saves : save[s].at \notin InFence
  BY <1>1, NobodyInside
<1>3. Still
  BY <1>1, SameClient DEF Still, StoreTypeOK
<1>4. Intents' /\ Rows' /\ CutOff' /\ Newest' /\ Seen'
  BY <1>3, StillKeeps
<1>5. Fenced'
  BY <1>1, <1>2 DEF Fenced
<1>6. StoreTypeOK' /\ HalfWay' /\ Recovers'
  <2>1. CASE Restart
    <3>1. /\ mode' = "recovering" /\ recovery'.dropped = {} /\ recovery'.ready = {}
          /\ recovery'.todo = {i \in DOMAIN intents : intents[i].state \in {"staging", "payload_ready", "prepared"}}
          /\ recovery' = [todo |-> recovery'.todo, dropped |-> {}, ready |-> {}]
      BY <2>1 DEF Restart, NoRecovery
    <3>2. StoreTypeOK'
      BY <1>1, <3>1 DEF StoreTypeOK
    <3> QED BY <1>1, <3>1, <3>2 DEF HalfWay, Recovers
  <2>2. CASE RecoveryFails
    BY <1>1, <2>2 DEF RecoveryFails, StoreTypeOK, HalfWay, Recovers, NoRecovery
  <2>3. CASE Serve
    BY <1>1, <2>3 DEF Serve, StoreTypeOK, HalfWay, Recovers, NoRecovery
  <2> QED BY <2>1, <2>2, <2>3
<1> QED BY <1>4, <1>5, <1>6 DEF StoreInv

\* What every step of the recovery that changes an intent leaves.
LEMMA RecoveryTypes ==
    ASSUME StoreInv, mode = "recovering", NEW i, Moves(i),
           row' \in [Aggregates -> 0..Len(intents)],
           recovery' \in [todo : SUBSET (DOMAIN intents), dropped : SUBSET (DOMAIN intents),
                          ready : SUBSET (DOMAIN intents)],
           UNCHANGED <<mode, fence, save, client, stranded, skipped>>
    PROVE  StoreTypeOK' /\ Fenced'
<1>1. /\ StoreTypeOK /\ DOMAIN intents' = DOMAIN intents /\ Len(intents') = Len(intents)
      /\ intents' \in Seq(IntentRecord) /\ nextCursor' \in {nextCursor, nextCursor + 1}
  BY SameFields DEF StoreInv, Moves, OnlyIntent, Counts
<1>2. StoreTypeOK'
  BY <1>1 DEF StoreTypeOK
<1>3. fence = NoSave /\ \A s \in Saves : save[s].at \notin InFence
  BY NobodyInside
<1>4. Fenced'
  BY <1>3 DEF Fenced
<1> QED BY <1>2, <1>4

\* The recovery changes an intent and commits nothing: it looks at it no more,
\* or it is ready.
LEMMA RecoveryGoesOn ==
    ASSUME StoreInv, mode = "recovering", NEW i, Quiet(i),
           intents'[i].state = "prepared" => intents[i].state = "prepared" /\ i \in recovery'.todo \cup recovery'.ready,
           recovery' \in [todo : SUBSET (DOMAIN intents), dropped : SUBSET (DOMAIN intents),
                          ready : SUBSET (DOMAIN intents)],
           \A j \in DOMAIN intents : j # i => (j \in recovery'.todo <=> j \in recovery.todo),
           \A j \in DOMAIN intents : j # i => (j \in recovery'.ready <=> j \in recovery.ready),
           \A j \in DOMAIN intents : j # i => (j \in recovery'.dropped => j \in recovery.dropped),
           i \notin recovery'.todo,
           i \in recovery'.ready => intents'[i].state = "prepared" /\ intents'[i].file = "final",
           i \in recovery'.dropped => intents'[i].state = "abandoned",
           UNCHANGED <<mode, fence, save, client, stranded, skipped>>
    PROVE  StoreInv'
<1>1. /\ StoreTypeOK /\ HalfWay /\ CutOff /\ Recovers
      /\ Moves(i) /\ i \in DOMAIN intents /\ OnlyIntent(i) /\ row' = row
  BY DEF StoreInv, Quiet, Moves
<1>2. Intents' /\ Rows' /\ Newest' /\ Seen'
  BY QuietKeeps
<1>3. /\ DOMAIN intents' = DOMAIN intents
      /\ \A j \in DOMAIN intents :
            /\ intents'[j].aggregate = intents[j].aggregate
            /\ intents'[j].basis = intents[j].basis
            /\ intents'[j].sequence = intents[j].sequence
      /\ \A j \in DOMAIN intents : j # i => intents'[j] = intents[j]
  BY <1>1, SameFields DEF OnlyIntent
<1>4. StoreTypeOK' /\ Fenced'
  <2>1. row' \in [Aggregates -> 0..Len(intents)]
    BY <1>1 DEF StoreTypeOK
  <2> QED BY <1>1, <2>1, RecoveryTypes
<1>5. \A j \in DOMAIN intents : UpToDate(j)' <=> UpToDate(j)
  BY <1>1, <1>3, RowsShow
<1>6. \A j \in DOMAIN intents : intents'[j].state = "prepared" => intents[j].state = "prepared"
  BY <1>3
<1>7. HalfWay'
  BY <1>1, <1>3, <1>6 DEF HalfWay
<1>8. CutOff'
  BY <1>1, <1>3, <1>5, <1>6 DEF CutOff
<1>9. Recovers'
  <2>1. \A j \in recovery'.todo : j # i /\ j \in recovery.todo /\ intents'[j] = intents[j]
    BY <1>3
  <2>2. \A j \in recovery'.ready : j = i \/ (j \in recovery.ready /\ intents'[j] = intents[j])
    BY <1>3
  <2>3. \A j \in recovery'.dropped : j = i \/ (j \in recovery.dropped /\ intents'[j] = intents[j])
    BY <1>3
  <2>4. recovery'.todo \cap recovery'.ready = {}
    BY <1>1, <2>1, <2>2 DEF Recovers
  <2>5. \A j \in recovery'.todo : intents'[j].state \in {"staging", "payload_ready", "prepared"}
    BY <1>1, <2>1 DEF Recovers
  <2>6. \A j \in recovery'.dropped : intents'[j].state = "abandoned"
    BY <1>1, <2>3 DEF Recovers
  <2>7. \A j \in recovery'.ready : intents'[j].state = "prepared" /\ intents'[j].file = "final"
    BY <1>1, <2>2 DEF Recovers
  <2> QED BY <2>4, <2>5, <2>6, <2>7 DEF Recovers
<1> QED BY <1>2, <1>4, <1>7, <1>8, <1>9 DEF StoreInv

\* The oldest intent of a set the recovery has.
LEMMA OldestIn ==
    ASSUME StoreInv, NEW S, S \subseteq DOMAIN intents, S # {}
    PROVE  Min(S) \in S
<1>1. S \subseteq Nat
  BY Positions DEF StoreInv
<1> QED BY <1>1, MinIn

\* A prepared intent is published again.
LEMMA RepublishKeeps == ASSUME StoreInv, Republish PROVE StoreInv'
<1> DEFINE i == Next1
           x == [intents[i] EXCEPT !.file = "final"]
<1>1. /\ StoreTypeOK /\ Recovers /\ mode = "recovering" /\ intents[i].state = "prepared"
      /\ recovery' = [recovery EXCEPT !.todo = @ \ {i}, !.ready = @ \cup {i}]
      /\ UNCHANGED <<row, nextCursor, mode, fence, save, client, stranded, skipped>>
  BY DEF StoreInv, Republish
<1>2. i \in recovery.todo /\ i \in DOMAIN intents
  <2>1. recovery.todo \subseteq DOMAIN intents /\ recovery.todo # {}
    BY <1>1 DEF StoreTypeOK, Republish
  <2> QED BY <2>1, OldestIn DEF Next1
<1>3. intents[i] \in IntentRecord /\ Consistent(intents[i])
  BY <1>2, Positions DEF StoreInv, Intents
<1>4. intents' = [intents EXCEPT ![i] = x]
  BY DEF Republish
<1>5. x \in IntentRecord /\ Consistent(x)
  BY <1>1, <1>3 DEF IntentRecord, Consistent
<1>6. /\ x.aggregate = intents[i].aggregate /\ x.basis = intents[i].basis
      /\ x.sequence = intents[i].sequence /\ x.emits = intents[i].emits
      /\ x.cursor = intents[i].cursor /\ x.revision = intents[i].revision
      /\ x.state = "prepared" /\ x.file = "final"
  BY <1>1, <1>3 DEF IntentRecord
<1> HIDE DEF x, i
<1>7. Quiet(i) /\ intents'[i] = x
  BY <1>1, <1>2, <1>4, <1>5, <1>6, ChangesQuiet
<1>8. /\ recovery'.todo = recovery.todo \ {i} /\ recovery'.ready = recovery.ready \cup {i}
      /\ recovery'.dropped = recovery.dropped
      /\ recovery' \in [todo : SUBSET (DOMAIN intents), dropped : SUBSET (DOMAIN intents),
                        ready : SUBSET (DOMAIN intents)]
  BY <1>1, <1>2 DEF StoreTypeOK
<1>9. i \notin recovery.dropped
  BY <1>1 DEF Recovers
<1> QED BY <1>1, <1>2, <1>6, <1>7, <1>8, <1>9, RecoveryGoesOn

\* An intent that was never prepared, or cannot be published, is dropped.
LEMMA DropKeeps == ASSUME StoreInv, Drop PROVE StoreInv'
<1> DEFINE i == Next1
           x == [intents[i] EXCEPT !.state = "abandoned", !.file = IF @ = "staged" THEN "none" ELSE @]
<1>1. /\ StoreTypeOK /\ Recovers /\ mode = "recovering"
      /\ recovery' = [recovery EXCEPT !.todo = @ \ {i}, !.dropped = @ \cup {i}]
      /\ UNCHANGED <<row, nextCursor, mode, fence, save, client, stranded, skipped>>
  BY DEF StoreInv, Drop
<1>2. i \in recovery.todo /\ i \in DOMAIN intents
  <2>1. recovery.todo \subseteq DOMAIN intents /\ recovery.todo # {}
    BY <1>1 DEF StoreTypeOK, Drop
  <2> QED BY <2>1, OldestIn DEF Next1
<1>3. /\ intents[i] \in IntentRecord /\ Consistent(intents[i])
      /\ intents[i].state \in {"staging", "payload_ready", "prepared"}
  BY <1>1, <1>2, Positions DEF StoreInv, Intents, Recovers
<1>4. intents' = [intents EXCEPT ![i] = x]
  BY DEF Drop
<1>5. x \in IntentRecord /\ Consistent(x)
  BY <1>3 DEF IntentRecord, Consistent
<1>6. /\ x.aggregate = intents[i].aggregate /\ x.basis = intents[i].basis
      /\ x.sequence = intents[i].sequence /\ x.emits = intents[i].emits
      /\ x.cursor = intents[i].cursor /\ x.revision = intents[i].revision
      /\ x.state = "abandoned"
  BY <1>3 DEF IntentRecord
<1> HIDE DEF x, i
<1>7. Quiet(i) /\ intents'[i] = x
  BY <1>1, <1>2, <1>4, <1>5, <1>6, ChangesQuiet
<1>8. /\ recovery'.todo = recovery.todo \ {i} /\ recovery'.dropped = recovery.dropped \cup {i}
      /\ recovery'.ready = recovery.ready
      /\ recovery' \in [todo : SUBSET (DOMAIN intents), dropped : SUBSET (DOMAIN intents),
                        ready : SUBSET (DOMAIN intents)]
  BY <1>1, <1>2 DEF StoreTypeOK
<1>9. i \notin recovery.ready
  BY <1>1, <1>2 DEF Recovers
<1> QED BY <1>1, <1>2, <1>6, <1>7, <1>8, <1>9, RecoveryGoesOn

\* What was dropped is abandoned.
LEMMA RecoverAbandonKeeps == ASSUME StoreInv, RecoverAbandon PROVE StoreInv'
<1> DEFINE i == Min(recovery.dropped)
<1>1. /\ StoreTypeOK /\ Recovers /\ mode = "recovering" /\ recovery.todo = {} /\ abandon(i)
      /\ recovery' = [recovery EXCEPT !.dropped = @ \ {i}]
      /\ UNCHANGED <<row, nextCursor, mode, fence, save, client, stranded, skipped>>
  BY DEF StoreInv, RecoverAbandon
<1>2. i \in recovery.dropped /\ i \in DOMAIN intents
  <2>1. recovery.dropped \subseteq DOMAIN intents /\ recovery.dropped # {}
    BY <1>1 DEF StoreTypeOK, RecoverAbandon
  <2> QED BY <2>1, OldestIn
<1> HIDE DEF i
<1>3. intents[i].state = "abandoned" /\ intents[i].revision # "committed" /\ i \notin recovery.ready
  BY <1>1, <1>2 DEF Recovers, StoreInv, Intents, Consistent
<1>4. Quiet(i) /\ intents'[i].state = "abandoned"
  BY <1>1, <1>2, <1>3, AbandonWrites
<1>5. /\ recovery'.todo = recovery.todo /\ recovery'.dropped = recovery.dropped \ {i}
      /\ recovery'.ready = recovery.ready
      /\ recovery' \in [todo : SUBSET (DOMAIN intents), dropped : SUBSET (DOMAIN intents),
                        ready : SUBSET (DOMAIN intents)]
  BY <1>1, <1>2 DEF StoreTypeOK
<1> QED BY <1>1, <1>2, <1>3, <1>4, <1>5, RecoveryGoesOn

\* What is ready is committed, oldest first.
LEMMA RecoverCommitKeeps == ASSUME StoreInv, RecoverCommit PROVE StoreInv'
<1> DEFINE i == Min(recovery.ready)
<1>1. /\ StoreTypeOK /\ HalfWay /\ Recovers /\ mode = "recovering"
      /\ recovery.todo = {} /\ recovery.dropped = {} /\ commit(i)
      /\ recovery' = [recovery EXCEPT !.ready = @ \ {i}]
      /\ UNCHANGED <<nextCursor, mode, fence, save, client, stranded, skipped>>
  BY DEF StoreInv, RecoverCommit
<1>2. i \in recovery.ready /\ i \in DOMAIN intents
  <2>1. recovery.ready \subseteq DOMAIN intents /\ recovery.ready # {}
    BY <1>1 DEF StoreTypeOK, RecoverCommit
  <2> QED BY <2>1, OldestIn
<1> HIDE DEF i
<1>3. intents[i].state = "prepared"
  BY <1>1, <1>2 DEF Recovers
<1>4. /\ Moves(i) /\ intents'[i].state = "committed"
      /\ DOMAIN intents' = DOMAIN intents
      /\ \A j \in DOMAIN intents : j # i => intents'[j] = intents[j]
      /\ row' \in [Aggregates -> 0..Len(intents)]
      /\ Intents' /\ Rows' /\ CutOff' /\ Newest' /\ Seen'
  BY <1>1, <1>2, <1>3, CommitWrites
<1>5. /\ recovery'.todo = {} /\ recovery'.dropped = {} /\ recovery'.ready = recovery.ready \ {i}
      /\ recovery' \in [todo : SUBSET (DOMAIN intents), dropped : SUBSET (DOMAIN intents),
                        ready : SUBSET (DOMAIN intents)]
  BY <1>1, <1>2 DEF StoreTypeOK
<1>6. StoreTypeOK' /\ Fenced'
  BY <1>1, <1>4, <1>5, RecoveryTypes
<1>7. HalfWay'
  BY <1>1, <1>4, <1>5 DEF HalfWay
<1>8. Recovers'
  <2>1. \A j \in recovery'.ready : j \in recovery.ready /\ j # i /\ j \in DOMAIN intents
    BY <1>1, <1>5 DEF StoreTypeOK
  <2>2. \A j \in recovery'.ready : intents'[j].state = "prepared" /\ intents'[j].file = "final"
    BY <1>1, <1>4, <2>1 DEF Recovers
  <2> QED BY <1>1, <1>5, <2>2 DEF Recovers
<1> QED BY <1>4, <1>6, <1>7, <1>8 DEF StoreInv

-----------------------------------------------------------------------------
(* The theorems about the video store.                                     *)

\* The store begins with nothing in it.
LEMMA StoreInitInv == Init => StoreInv
<1> SUFFICES ASSUME Init PROVE StoreInv
  OBVIOUS
<1>1. DOMAIN intents = {} /\ Len(intents) = 0 /\ intents \in Seq(IntentRecord)
  BY EmptySeq, LenProperties DEF Init
<1>2. \A s \in Saves : save[s] = [at |-> "new", intent |-> 0, read |-> 0]
  BY DEF Init
<1>3. StoreTypeOK
  BY <1>1, <1>2 DEF Init, StoreTypeOK, NoRecovery, Closed, SaveRecord
<1>4. Fenced
  BY <1>2 DEF Init, Fenced, InFence
<1>5. Intents /\ Rows /\ HalfWay /\ CutOff
  BY <1>1 DEF Init, Intents, Rows, HalfWay, CutOff
<1>6. Recovers /\ Newest /\ Seen
  BY <1>1 DEF Init, Recovers, NoRecovery, Newest, events, Seen, Closed
<1> QED BY <1>3, <1>4, <1>5, <1>6 DEF StoreInv

\* Every step keeps the invariant.
LEMMA StoreNextInv == ASSUME StoreInv, [Next]_vars PROVE StoreInv'
<1>1. CASE UNCHANGED vars
  <2>1. UNCHANGED <<intents, row, nextCursor, mode, fence, save, recovery, stranded>>
        /\ client' = client /\ skipped' = skipped
    BY <1>1 DEF vars
  <2> QED BY <2>1, SameClient, WaitKeeps DEF StoreInv
<1>2. ASSUME NEW s \in Saves,
             \/ ReadProject(s) \/ Begin(s) \/ Refuse(s) \/ Stage(s) \/ StageFails(s)
             \/ Prepare(s) \/ PrepareFails(s) \/ Publish(s) \/ Commit(s) \/ Abandon(s)
             \/ AbandonFails(s) \/ Finish(s)
      PROVE  StoreInv'
  BY <1>2, OutsideKeeps, BeginKeeps, StageKeeps, StageFailsKeeps, PrepareKeeps, PrepareFailsKeeps,
     PublishKeeps, CommitKeeps, AbandonKeeps, AbandonFailsKeeps, FinishKeeps
<1>3. CASE LoadWorkspace \/ Poll \/ WaitEnds \/ PollAgain
  BY <1>3, RendererKeeps
<1>4. CASE Crash \/ Restart \/ RecoveryFails \/ Serve
  BY <1>4, CrashKeeps, ModeKeeps
<1>5. CASE Republish \/ Drop \/ RecoverAbandon \/ RecoverCommit
  BY <1>5, RepublishKeeps, DropKeeps, RecoverAbandonKeeps, RecoverCommitKeeps
<1> QED BY <1>1, <1>2, <1>3, <1>4, <1>5 DEF Next

\* What the invariant is for.
LEMMA StoreInvImplies == StoreInv => StoreWhole /\ MissedOnlyInFlight
<1> SUFFICES ASSUME StoreInv PROVE StoreWhole /\ MissedOnlyInFlight
  OBVIOUS
<1>1. \A a \in Aggregates : row[a] # 0 => intents[row[a]].revision = "committed" /\ intents[row[a]].aggregate = a
  BY DEF StoreInv, Rows
<1>2. \A i \in DOMAIN intents : intents[i].revision = "committed" =>
         intents[i].file = "final" /\ intents[i].state = "committed"
  BY DEF StoreInv, Intents, Consistent
<1>3. \A i, j \in DOMAIN intents : intents[i].cursor # 0 /\ i # j =>
         intents[i].cursor \notin {intents[j].cursor, nextCursor}
  <2>1. nextCursor \in Nat /\ \A i \in DOMAIN intents : intents[i].cursor \in Nat
    BY FieldTypes DEF StoreInv
  <2> QED BY <2>1 DEF StoreInv, Intents
<1>4. mode = "serving" /\ fence = NoSave =>
         \A i \in DOMAIN intents : intents[i].state = "prepared" => i \in stranded
  BY DEF StoreInv, HalfWay
<1>5. StoreWhole
  BY <1>1, <1>2, <1>3, <1>4 DEF StoreWhole
<1>6. MissedOnlyInFlight
  <2> SUFFICES ASSUME NEW i \in Missed, i \notin skipped, ~SetBack(intents[i].aggregate)
               PROVE  FALSE
    BY DEF MissedOnlyInFlight
  <2>1. /\ i \in DOMAIN intents /\ intents[i].cursor # 0 /\ intents[i].revision = "committed"
        /\ intents[i].cursor <= client.cursor
        /\ client.known[intents[i].aggregate] < intents[i].sequence
    BY DEF Missed, events
  <2>2. intents[i].aggregate \in Operations
    BY <2>1 DEF StoreInv, Intents, Consistent
  <2>3. client.known[intents[i].aggregate] \in Nat /\ intents[i].sequence \in Nat
    BY <2>1, <2>2, FieldTypes DEF StoreInv
  <2>4. intents[i].sequence <= client.known[intents[i].aggregate]
    BY <2>1 DEF StoreInv, Seen
  <2> QED BY <2>1, <2>3, <2>4
<1> QED BY <1>5, <1>6

\* A row only moves to what was made from the row.
LEMMA RowsInTurn ==
    ASSUME StoreInv, [Next]_vars, NEW a \in Aggregates, row'[a] # row[a]
    PROVE  intents[row'[a]].basis = row[a] \/ stranded \cap {row[a], row'[a]} # {}
<1>1. (\E s \in Saves : Commit(s)) \/ RecoverCommit
  BY DEF Next, vars, ReadProject, Begin, Refuse, Stage, StageFails, Prepare, PrepareFails, Publish,
         Abandon, AbandonFails, Finish, LoadWorkspace, Poll, WaitEnds, PollAgain, Crash, Restart,
         Republish, Drop, RecoverAbandon, RecoveryFails, Serve
<1>2. ASSUME NEW i \in DOMAIN intents, commit(i),
             i \in stranded \/ UpToDate(i) \/ row[intents[i].aggregate] \in stranded
      PROVE  intents[row'[a]].basis = row[a] \/ stranded \cap {row[a], row'[a]} # {}
  <2>1. row' = [row EXCEPT ![intents[i].aggregate] = i] /\ row \in [Aggregates -> 0..Len(intents)]
    BY <1>2 DEF commit, StoreInv, StoreTypeOK
  <2>2. a = intents[i].aggregate /\ row'[a] = i
    BY <2>1
  <2> QED BY <1>2, <2>2 DEF UpToDate
<1>3. ASSUME NEW s \in Saves, Commit(s)
      PROVE  intents[row'[a]].basis = row[a] \/ stranded \cap {row[a], row'[a]} # {}
  <2>1. save[s].at = "published" /\ save[s].at \in InFence /\ commit(save[s].intent)
    BY <1>3 DEF Commit, At, InFence
  <2>2. save[s].intent \in DOMAIN intents /\ UpToDate(save[s].intent)
    BY <2>1, Inside
  <2> QED BY <1>2, <2>1, <2>2
<1>4. CASE RecoverCommit
  <2> DEFINE i == Min(recovery.ready)
  <2>1. recovery.ready \subseteq DOMAIN intents /\ recovery.ready # {} /\ commit(i)
    BY <1>4 DEF RecoverCommit, StoreInv, StoreTypeOK
  <2>2. i \in recovery.ready /\ i \in DOMAIN intents
    BY <2>1, OldestIn
  <2> HIDE DEF i
  <2>3. intents[i].state = "prepared"
    BY <2>2 DEF StoreInv, Recovers
  <2>4. i \in stranded \/ UpToDate(i) \/ row[intents[i].aggregate] \in stranded
    BY <2>2, <2>3 DEF StoreInv, CutOff
  <2> QED BY <1>2, <2>1, <2>2, <2>4
<1> QED BY <1>1, <1>3, <1>4

\* Whatever fails or dies, in whatever order: rows point at published and
\* committed revisions and nothing is left half way outside the fence
\* (persistOperation, recover, abandonPreparedIntent); the renderer has missed
\* no event but those in flight (EventJournal.list); and no save or recovery
\* overwrites what it has not seen, but for stranded intents.
THEOREM StoreHeld == Spec => []StoreWhole /\ []MissedOnlyInFlight /\ RevisionsInTurn
<1>1. Init => StoreInv
  BY StoreInitInv
<1>2. StoreInv /\ [Next]_vars => StoreInv'
  BY StoreNextInv
<1>3. StoreInv => StoreWhole /\ MissedOnlyInFlight
  BY StoreInvImplies
<1>4. StoreInv /\ [Next]_vars =>
        [\A a \in Aggregates : row'[a] # row[a] =>
           \/ intents[row'[a]].basis = row[a]
           \/ stranded \cap {row[a], row'[a]} # {}]_vars
  BY RowsInTurn
<1> QED BY <1>1, <1>2, <1>3, <1>4, PTL DEF Spec, RevisionsInTurn

\* The video store among the stores of the desktop takes its own steps.
LEMMA StoresAreStore == StoresSpec => Spec
<1>1. StoresInit => Init
  BY DEF StoresInit
<1>2. [StoresNext]_<<part, vars, agenda>> => [Next]_vars
  BY DEF StoresNext
<1> QED BY <1>1, <1>2, PTL DEF StoresSpec, Spec

\* Rows, revisions and files agree, and nothing is left half way outside the
\* fence (persistOperation, recover, abandonPreparedIntent).
THEOREM StoreKeptWhole == StoresSpec => []StoreWhole
BY StoresAreStore, StoreHeld, PTL

\* Pages leave out only events that were in flight (EventJournal.list).
THEOREM EventsReach == StoresSpec => []MissedOnlyInFlight
BY StoresAreStore, StoreHeld, PTL

\* No save or recovery overwrites what it has not seen, but for stranded intents
\* (prepare's check of the current revision, and recover's).
THEOREM RevisionsReplaced == StoresSpec => RevisionsInTurn
BY StoresAreStore, StoreHeld, PTL

-----------------------------------------------------------------------------
(* The scheduled tasks: the inductive invariant.                           *)

TaskRecord == [enabled : BOOLEAN, next : Nat \ {0}]

\* A flow has its five fields.
Shaped(x) == x = [ pc |-> x.pc, running |-> x.running, todo |-> x.todo,
                   now |-> x.now, snapshot |-> x.snapshot ]

FlowsOK == DOMAIN flow = Agenda!Flows /\ \A f \in Agenda!Flows : Shaped(flow[f])

Armed == (\A f \in Agenda!Flows : flow[f].pc = "idle") /\ ~thrown => timer = Agenda!arm(tasks)

\* An occurrence that was run is over: the task has a later one, or it is not
\* enabled, unless a call that threw EXPIRED had enabled it.
Over ==
    \A t \in Tasks, n \in Nat : <<t, n>> \in ran =>
        /\ t \in created /\ n <= clock
        /\ t \in DOMAIN tasks =>
              \/ n < tasks[t].next
              \/ n = tasks[t].next /\ (~tasks[t].enabled \/ t \in refused)

AgendaInv == Agenda!TypeOK /\ FlowsOK /\ Armed /\ Over

\* The next time of a task is later than the time it is asked for.
LEMMA NextTime ==
    ASSUME NEW t \in Tasks, NEW after \in Nat
    PROVE  /\ Agenda!next(t, after) \in Nat
           /\ Agenda!next(t, after) # 0 => after < Agenda!next(t, after)
<1>1. Schedule[t].at \in Nat \ {0}
  BY StoresConfig DEF Agenda!ServiceConfig
<1> QED BY <1>1 DEF Agenda!next

\* The timer is set to a time.
LEMMA ArmTime ==
    ASSUME NEW ts, Agenda!TaskMap(ts)
    PROVE  Agenda!arm(ts) \in Nat
<1> DEFINE S == {ts[t].next : t \in Agenda!Enabled(ts)}
<1>1. CASE Agenda!Enabled(ts) = {}
  BY <1>1 DEF Agenda!arm, Agenda!NoTimer
<1>2. CASE Agenda!Enabled(ts) # {}
  <2>1. S \subseteq Nat /\ S # {}
    BY <1>2 DEF Agenda!TaskMap, Agenda!Enabled
  <2>2. Min(S) \in S
    <3> HIDE DEF S
    <3> QED BY <2>1, MinIn
  <2>3. Agenda!arm(ts) = Min(S)
    BY <1>2 DEF Agenda!arm, Agenda!Min, Min
  <2> HIDE DEF S
  <2> QED BY <2>1, <2>2, <2>3
<1> QED BY <1>1, <1>2

\* One flow goes on, the others stay.
LEMMA SetFlow ==
    ASSUME FlowsOK, NEW f \in Agenda!Flows, NEW x, Shaped(x), Agenda!set(f, x)
    PROVE  /\ FlowsOK' /\ flow'[f] = x
           /\ \A g \in Agenda!Flows : g # f => flow'[g] = flow[g]
<1>1. /\ DOMAIN flow' = Agenda!Flows /\ flow'[f] = x
      /\ \A g \in Agenda!Flows : g # f => flow'[g] = flow[g]
  BY DEF FlowsOK, Agenda!set
<1>2. \A g \in Agenda!Flows : Shaped(flow'[g])
  BY <1>1 DEF FlowsOK
<1> QED BY <1>1, <1>2 DEF FlowsOK

\* What a flow must be.
FlowType(f, x) ==
    /\ Shaped(x)
    /\ x.pc \in {"idle", "mkdir", "write"} \cup (IF f \in Timers THEN {"running"} ELSE {})
    /\ x.todo \cup x.running \subseteq Tasks /\ x.now \in 0..clock
    /\ Agenda!TaskMap(x.snapshot)
    /\ x.pc # "write" => x.snapshot = Agenda!None
    /\ (x.pc = "running") = (x.running # {})

\* The types after a step of one flow.
LEMMA AgendaTypes ==
    ASSUME AgendaInv, NEW f \in Agenda!Flows, NEW x, FlowType(f, x), Agenda!set(f, x),
           Agenda!TaskMap(tasks)', Agenda!TaskMap(file)', timer' \in Nat, clock' = clock,
           restarts' = restarts, created \subseteq created', created' \subseteq Tasks,
           refused' \subseteq DOMAIN tasks', thrown' \in BOOLEAN
    PROVE  Agenda!TypeOK' /\ FlowsOK'
<1>1. /\ FlowsOK' /\ flow'[f] = x
      /\ \A g \in Agenda!Flows : g # f => flow'[g] = flow[g]
  BY SetFlow DEF AgendaInv, FlowType
<1>2. \A ts : Agenda!TaskMap(ts) => DOMAIN ts \subseteq created' /\ \A t \in DOMAIN ts : ts[t] \in TaskRecord
  BY DEF Agenda!TaskMap, TaskRecord
<1>3. \A g \in Agenda!Flows :
        /\ flow'[g].pc \in {"idle", "mkdir", "write"} \cup (IF g \in Timers THEN {"running"} ELSE {})
        /\ flow'[g].todo \cup flow'[g].running \subseteq Tasks /\ flow'[g].now \in 0..clock
        /\ Agenda!TaskMap(flow'[g].snapshot)
        /\ flow'[g].pc # "write" => flow'[g].snapshot = Agenda!None
        /\ (flow'[g].pc = "running") = (flow'[g].running # {})
  BY <1>1 DEF FlowType, AgendaInv, Agenda!TypeOK
<1>4. clock \in 1..MaxTime /\ restarts \in 0..MaxCrashes
  BY DEF AgendaInv, Agenda!TypeOK
<1> HIDE DEF FlowType
<1>5. Agenda!TypeOK'
  BY <1>2, <1>3, <1>4 DEF Agenda!TypeOK, Agenda!TaskMap, TaskRecord
<1> QED BY <1>1, <1>5

\* A flow that does nothing, and what a flow may be made of it.
LEMMA IdleIsFlow ==
    ASSUME AgendaInv, NEW f \in Agenda!Flows
    PROVE  /\ FlowType(f, Agenda!Idle) /\ Agenda!Idle.pc = "idle"
           /\ FlowType(f, [Agenda!Idle EXCEPT !.pc = "mkdir"])
           /\ [Agenda!Idle EXCEPT !.pc = "mkdir"].pc = "mkdir"
<1>1. Agenda!TaskMap(Agenda!None) /\ clock \in Nat
  BY DEF Agenda!TaskMap, Agenda!None, AgendaInv, Agenda!TypeOK
<1>2. Agenda!Idle = [pc |-> "idle", running |-> {}, todo |-> {}, now |-> 0, snapshot |-> Agenda!None]
  BY DEF Agenda!Idle
<1>3. FlowType(f, Agenda!Idle) /\ Agenda!Idle.pc = "idle"
  BY <1>1, <1>2 DEF FlowType, Shaped
<1>4. [Agenda!Idle EXCEPT !.pc = "mkdir"] =
        [pc |-> "mkdir", running |-> {}, todo |-> {}, now |-> 0, snapshot |-> Agenda!None]
  BY <1>2
<1>5. /\ FlowType(f, [Agenda!Idle EXCEPT !.pc = "mkdir"])
      /\ [Agenda!Idle EXCEPT !.pc = "mkdir"].pc = "mkdir"
  BY <1>1, <1>4 DEF FlowType, Shaped
<1> QED BY <1>3, <1>5

\* A run of runDue that awaits a Turn, field by field.
LEMMA RunningFlow ==
    ASSUME NEW t, NEW rest, NEW now
    PROVE  [Agenda!Idle EXCEPT !.pc = "running", !.running = {t}, !.todo = rest, !.now = now] =
             [pc |-> "running", running |-> {t}, todo |-> rest, now |-> now, snapshot |-> Agenda!None]
<1> DEFINE x == [Agenda!Idle EXCEPT !.pc = "running", !.running = {t}, !.todo = rest, !.now = now]
           y == [Agenda!Idle EXCEPT !.pc = "running"]
           z == [y EXCEPT !.running = {t}]
           w == [z EXCEPT !.todo = rest]
<1>1. y = [pc |-> "running", running |-> {}, todo |-> {}, now |-> 0, snapshot |-> Agenda!None]
  BY DEF Agenda!Idle
<1>2. x = [w EXCEPT !.now = now]
  OBVIOUS
<1> HIDE DEF y, x
<1>3. z = [pc |-> "running", running |-> {t}, todo |-> {}, now |-> 0, snapshot |-> Agenda!None]
  BY <1>1
<1> HIDE DEF z
<1>4. w = [pc |-> "running", running |-> {t}, todo |-> rest, now |-> 0, snapshot |-> Agenda!None]
  BY <1>3
<1> HIDE DEF w
<1>5. x = [pc |-> "running", running |-> {t}, todo |-> rest, now |-> now, snapshot |-> Agenda!None]
  BY <1>2, <1>4
<1> QED BY <1>5 DEF x

\* It is a flow.
LEMMA RunningIsFlow ==
    ASSUME AgendaInv, NEW f \in Timers, NEW t \in Tasks, NEW rest \in SUBSET Tasks, NEW now \in 0..clock,
           NEW x, x = [pc |-> "running", running |-> {t}, todo |-> rest, now |-> now, snapshot |-> Agenda!None]
    PROVE  FlowType(f, x) /\ x.pc = "running" /\ x.running = {t}
<1>1. Agenda!TaskMap(Agenda!None)
  BY DEF Agenda!TaskMap, Agenda!None
<1>2. /\ Shaped(x) /\ x.pc = "running" /\ x.running = {t} /\ x.todo = rest
      /\ x.now = now /\ x.snapshot = Agenda!None
  BY DEF Shaped
<1>3. x.running # {} /\ x.running \subseteq Tasks
  BY <1>2
<1> QED BY <1>1, <1>2, <1>3 DEF FlowType

\* A task that is enabled, and refused by no one, has not had its occurrence.
LEMMA NotRunYet ==
    ASSUME AgendaInv, NEW t \in DOMAIN tasks, tasks[t].enabled, t \notin refused
    PROVE  <<t, tasks[t].next>> \notin ran
<1>1. t \in Tasks /\ tasks[t].next \in Nat
  BY DEF AgendaInv, Agenda!TypeOK, Agenda!TaskMap
<1> QED BY <1>1 DEF AgendaInv, Over

\* A due task is moved to its next time and run.
LEMMA RunKeeps ==
    ASSUME AgendaInv, NEW f \in Timers, NEW rest \in SUBSET Tasks, NEW now \in 0..clock,
           NEW t \in Agenda!Due(tasks, now), Agenda!Run(f, t, rest, now),
           timer' \in Nat, UNCHANGED <<thrown, clock, restarts, created>>, Agenda!TaskMap(file)'
    PROVE  AgendaInv'
<1> DEFINE after == Agenda!next(t, now)
           x == [Agenda!Idle EXCEPT !.pc = "running", !.running = {t}, !.todo = rest, !.now = now]
           task == [tasks[t] EXCEPT !.enabled = after # 0, !.next = IF after = 0 THEN @ ELSE after]
<1>1. /\ Agenda!TypeOK /\ FlowsOK /\ Over /\ clock \in Nat /\ now \in Nat /\ now <= clock
      /\ t \in DOMAIN tasks /\ t \in Tasks /\ tasks[t] \in TaskRecord /\ t \in created
      /\ tasks[t].enabled /\ tasks[t].next <= now
      /\ DOMAIN tasks \subseteq created /\ created \subseteq Tasks
  BY DEF AgendaInv, Agenda!TypeOK, Agenda!TaskMap, Agenda!Due, Agenda!Enabled, TaskRecord
<1>2. /\ tasks' = [tasks EXCEPT ![t] = task]
      /\ Agenda!set(f, x)
      /\ ran' = ran \cup {<<t, tasks[t].next>>} /\ refused' = refused \ {t}
  BY DEF Agenda!Run
<1>3. after \in Nat /\ (after # 0 => now < after)
  BY <1>1, NextTime
<1> HIDE DEF after
<1>4. /\ task \in TaskRecord /\ (after = 0 => ~task.enabled)
      /\ task.next = IF after = 0 THEN tasks[t].next ELSE after
  BY <1>1, <1>3 DEF TaskRecord
<1> HIDE DEF task
<1>5. /\ DOMAIN tasks' = DOMAIN tasks /\ tasks'[t] = task
      /\ \A s \in DOMAIN tasks : s # t => tasks'[s] = tasks[s]
  BY <1>1, <1>2
<1>6. Agenda!TaskMap(tasks)'
  BY <1>1, <1>4, <1>5 DEF Agenda!TaskMap, TaskRecord, Agenda!TypeOK
<1>7. f \in Agenda!Flows /\ FlowType(f, x) /\ x.pc = "running"
  <2>1. f \in Agenda!Flows
    BY DEF Agenda!Flows
  <2>2. x = [pc |-> "running", running |-> {t}, todo |-> rest, now |-> now, snapshot |-> Agenda!None]
    BY RunningFlow
  <2> HIDE DEF x
  <2>3. FlowType(f, x) /\ x.pc = "running"
    BY <1>1, <2>2, RunningIsFlow
  <2> QED BY <2>1, <2>3
<1> HIDE DEF x
<1>8. Agenda!TypeOK' /\ FlowsOK'
  <2>1. refused' \subseteq DOMAIN tasks' /\ thrown' \in BOOLEAN
    BY <1>1, <1>2, <1>5 DEF Agenda!TypeOK
  <2> QED BY <1>1, <1>2, <1>6, <1>7, <2>1, AgendaTypes
<1>9. Armed'
  <2>1. flow'[f].pc = "running"
    BY <1>1, <1>2, <1>7, SetFlow DEF FlowType
  <2> QED BY <1>7, <2>1 DEF Armed
<1>10. Over'
  <2> SUFFICES ASSUME NEW s \in Tasks, NEW n \in Nat, <<s, n>> \in ran'
               PROVE  /\ s \in created /\ n <= clock
                      /\ s \in DOMAIN tasks =>
                            \/ n < tasks'[s].next
                            \/ n = tasks'[s].next /\ (~tasks'[s].enabled \/ s \in refused')
    BY <1>5 DEF Over
  <2>1. CASE s # t
    BY <1>1, <1>2, <1>5, <2>1 DEF Over
  <2>2. CASE s = t
    <3>1. tasks[t].next \in Nat /\ n <= tasks[t].next
      BY <1>1, <1>2, <2>2 DEF Over, TaskRecord
    <3>2. n <= clock
      BY <1>1, <3>1
    <3>3. CASE after = 0
      BY <1>1, <1>4, <1>5, <2>2, <3>1, <3>2, <3>3
    <3>4. CASE after # 0
      BY <1>1, <1>3, <1>4, <1>5, <2>2, <3>1, <3>2, <3>4
    <3> QED BY <3>3, <3>4
  <2> QED BY <2>1, <2>2
<1> QED BY <1>8, <1>9, <1>10 DEF AgendaInv

\* The loop of runDue goes on.
LEMMA AdvanceKeeps ==
    ASSUME AgendaInv, NEW f \in Timers, NEW todo \in SUBSET Tasks, NEW now \in 0..clock,
           NEW pending \in Nat, Agenda!advance(f, todo, now, pending),
           UNCHANGED <<clock, restarts, created>>, Agenda!TaskMap(file)'
    PROVE  AgendaInv'
<1>1. /\ Agenda!TypeOK /\ FlowsOK /\ Over /\ f \in Agenda!Flows
  BY DEF AgendaInv, Agenda!Flows
<1>2. CASE Agenda!set(f, Agenda!Idle) /\ Agenda!armed /\ UNCHANGED <<tasks, ran, refused>>
  <2>1. timer' = Agenda!arm(tasks) /\ timer' \in Nat /\ thrown' = FALSE
    BY <1>1, <1>2, ArmTime DEF Agenda!armed, Agenda!TypeOK
  <2>2. Agenda!TaskMap(tasks)'
    BY <1>1, <1>2 DEF Agenda!TypeOK, Agenda!TaskMap
  <2>3. FlowType(f, Agenda!Idle)
    BY <1>1, IdleIsFlow
  <2>4. Agenda!TypeOK' /\ FlowsOK'
    <3>1. refused' \subseteq DOMAIN tasks' /\ created \subseteq created' /\ created' \subseteq Tasks
      BY <1>1, <1>2 DEF Agenda!TypeOK
    <3> QED BY <1>1, <1>2, <2>1, <2>2, <2>3, <3>1, AgendaTypes
  <2>5. Armed'
    BY <1>2, <2>1 DEF Armed, Agenda!arm, Agenda!Enabled
  <2>6. Over'
    BY <1>1, <1>2 DEF Over
  <2> QED BY <2>4, <2>5, <2>6 DEF AgendaInv
<1>3. CASE \E t \in todo \cap Agenda!Due(tasks, now) :
             Agenda!Run(f, t, todo \ {t}, now) /\ timer' = pending /\ thrown' = thrown
  BY <1>3, RunKeeps
<1> QED BY <1>2, <1>3 DEF Agenda!advance

\* A step of a flow that leaves the tasks.
LEMMA FlowKeeps ==
    ASSUME AgendaInv, NEW f \in Agenda!Flows, NEW x, FlowType(f, x), Agenda!set(f, x),
           UNCHANGED <<tasks, clock, restarts, created, ran, refused>>, Agenda!TaskMap(file)',
           timer' \in Nat, thrown' \in BOOLEAN,
           x.pc # "idle" \/ thrown' \/ timer' = Agenda!arm(tasks)
    PROVE  AgendaInv'
<1>1. Agenda!TypeOK /\ FlowsOK /\ Over
  BY DEF AgendaInv
<1>2. Agenda!TaskMap(tasks)'
  BY <1>1 DEF Agenda!TypeOK, Agenda!TaskMap
<1>3. Agenda!TypeOK' /\ FlowsOK'
  <2>1. refused' \subseteq DOMAIN tasks' /\ created \subseteq created' /\ created' \subseteq Tasks
    BY <1>1 DEF Agenda!TypeOK
  <2> QED BY <1>2, <2>1, AgendaTypes
<1>4. Armed'
  <2>1. flow'[f] = x
    BY <1>1, SetFlow DEF FlowType
  <2> QED BY <2>1 DEF Armed, Agenda!arm, Agenda!Enabled
<1>5. Over'
  BY <1>1 DEF Over
<1> QED BY <1>3, <1>4, <1>5 DEF AgendaInv

\* The file is read at the next start, with the tasks that exist now.
LEMMA FileStays ==
    ASSUME AgendaInv, file' = file, created \subseteq created'
    PROVE  Agenda!TaskMap(file)'
BY DEF AgendaInv, Agenda!TypeOK, Agenda!TaskMap

\* A flow that is given another place, and nothing to run or a snapshot.
LEMMA ShapedMoves ==
    ASSUME NEW w, Shaped(w), NEW pc, NEW y
    PROVE  /\ [w EXCEPT !.pc = pc, !.running = y] =
                [pc |-> pc, running |-> y, todo |-> w.todo, now |-> w.now, snapshot |-> w.snapshot]
           /\ [w EXCEPT !.pc = pc, !.snapshot = y] =
                [pc |-> pc, running |-> w.running, todo |-> w.todo, now |-> w.now, snapshot |-> y]
<1> DEFINE v == [w EXCEPT !.pc = pc]
<1>1. PICK r, t, n, m : w = [pc |-> w.pc, running |-> r, todo |-> t, now |-> n, snapshot |-> m]
  BY Zenon DEF Shaped
<1>2. w.running = r /\ w.todo = t /\ w.now = n /\ w.snapshot = m
  BY ONLY <1>1
<1>3. v = [pc |-> pc, running |-> r, todo |-> t, now |-> n, snapshot |-> m]
  BY ONLY <1>1
<1>4. /\ [w EXCEPT !.pc = pc, !.running = y] = [v EXCEPT !.running = y]
      /\ [w EXCEPT !.pc = pc, !.snapshot = y] = [v EXCEPT !.snapshot = y]
  OBVIOUS
<1> HIDE DEF v
<1>5. /\ [v EXCEPT !.running = y] = [pc |-> pc, running |-> y, todo |-> t, now |-> n, snapshot |-> m]
      /\ [v EXCEPT !.snapshot = y] = [pc |-> pc, running |-> r, todo |-> t, now |-> n, snapshot |-> y]
  BY ONLY <1>3
<1> QED BY <1>2, <1>4, <1>5

\* The steps of a flow between its awaits.
LEMMA FlowStepKeeps ==
    ASSUME AgendaInv, NEW f \in Agenda!Flows,
           Agenda!RunEnds(f) \/ Agenda!Snapshot(f) \/ Agenda!Rename(f) \/ Agenda!PersistThrows(f)
    PROVE  AgendaInv'
<1>1. /\ Agenda!TypeOK /\ FlowsOK /\ FlowType(f, flow[f]) /\ Shaped(flow[f])
      /\ timer \in Nat /\ clock \in Nat /\ thrown \in BOOLEAN /\ created \subseteq Tasks
  BY DEF AgendaInv, FlowsOK, FlowType, Agenda!TypeOK
<1>2. FlowType(f, Agenda!Idle) /\ Agenda!Idle.pc = "idle"
  BY IdleIsFlow
<1>3. CASE Agenda!RunEnds(f)
  <2> DEFINE x == [flow[f] EXCEPT !.pc = "mkdir", !.running = {}]
  <2>1. x = [ pc |-> "mkdir", running |-> {}, todo |-> flow[f].todo,
              now |-> flow[f].now, snapshot |-> flow[f].snapshot ]
    BY <1>1, ShapedMoves
  <2>2. Agenda!set(f, x) /\ flow[f].pc = "running"
    BY <1>3 DEF Agenda!RunEnds
  <2> HIDE DEF x
  <2>3. FlowType(f, x) /\ x.pc = "mkdir"
    BY <1>1, <2>1, <2>2 DEF FlowType, Shaped
  <2>4. Agenda!TaskMap(file)'
    BY <1>3, FileStays DEF Agenda!RunEnds
  <2> QED BY <1>1, <1>3, <2>2, <2>3, <2>4, FlowKeeps DEF Agenda!RunEnds
<1>4. CASE Agenda!Snapshot(f)
  <2> DEFINE x == [flow[f] EXCEPT !.pc = "write", !.snapshot = tasks]
  <2>1. x = [ pc |-> "write", running |-> flow[f].running, todo |-> flow[f].todo,
              now |-> flow[f].now, snapshot |-> tasks ]
    BY <1>1, ShapedMoves
  <2>2. Agenda!set(f, x) /\ flow[f].pc = "mkdir" /\ Agenda!TaskMap(tasks)
    BY <1>1, <1>4 DEF Agenda!Snapshot, Agenda!TypeOK
  <2> HIDE DEF x
  <2>3. FlowType(f, x) /\ x.pc = "write"
    BY <1>1, <2>1, <2>2 DEF FlowType, Shaped
  <2>4. Agenda!TaskMap(file)'
    BY <1>4, FileStays DEF Agenda!Snapshot
  <2> QED BY <1>1, <1>4, <2>2, <2>3, <2>4, FlowKeeps DEF Agenda!Snapshot
<1>5. CASE Agenda!Rename(f)
  <2>1. Agenda!TaskMap(file)' /\ UNCHANGED <<clock, restarts, created>>
    BY <1>1, <1>5 DEF Agenda!Rename, FlowType, Agenda!TaskMap
  <2>2. CASE f \in Timers /\ Agenda!advance(f, flow[f].todo, flow[f].now, timer)
    <3>1. flow[f].todo \in SUBSET Tasks /\ flow[f].now \in 0..clock
      BY <1>1 DEF FlowType
    <3> QED BY <1>1, <2>1, <2>2, <3>1, AdvanceKeeps
  <2>3. CASE Agenda!set(f, Agenda!Idle) /\ Agenda!armed /\ UNCHANGED <<tasks, ran, refused>>
    <3>1. timer' = Agenda!arm(tasks) /\ timer' \in Nat /\ thrown' = FALSE
      BY <1>1, <2>3, ArmTime DEF Agenda!armed, Agenda!TypeOK
    <3> QED BY <1>2, <2>1, <2>3, <3>1, FlowKeeps
  <2> QED BY <1>5, <2>2, <2>3 DEF Agenda!Rename
<1>6. CASE Agenda!PersistThrows(f)
  <2>1. /\ Agenda!set(f, Agenda!Idle) /\ UNCHANGED <<tasks, clock, restarts, created, ran, refused>>
        /\ Agenda!TaskMap(file)'
    BY <1>6, FileStays DEF Agenda!PersistThrows
  <2>2. Agenda!arm(tasks) \in Nat
    BY <1>1, ArmTime DEF Agenda!TypeOK
  <2>3. CASE f \in Timers
    <3>1. timer' = Agenda!arm(tasks) /\ thrown' = FALSE
      BY <1>6, <2>3 DEF Agenda!PersistThrows, Agenda!armed
    <3> QED BY <1>1, <1>2, <2>1, <2>2, <3>1, FlowKeeps
  <2>4. CASE f \notin Timers
    <3>1. timer' = timer /\ thrown' = TRUE
      BY <1>6, <2>4 DEF Agenda!PersistThrows
    <3> QED BY <1>1, <1>2, <2>1, <3>1, FlowKeeps
  <2> QED BY <2>3, <2>4
<1> QED BY <1>3, <1>4, <1>5, <1>6

\* The timer fires.
LEMMA TimerFiresKeeps ==
    ASSUME AgendaInv, NEW f \in Timers, Agenda!TimerFires(f)
    PROVE  AgendaInv'
<1>1. Agenda!Due(tasks, clock) \in SUBSET Tasks /\ clock \in 0..clock
  BY DEF AgendaInv, Agenda!TypeOK, Agenda!TaskMap, Agenda!Due, Agenda!Enabled
<1>2. /\ Agenda!advance(f, Agenda!Due(tasks, clock), clock, Agenda!NoTimer)
      /\ UNCHANGED <<clock, restarts, created>> /\ Agenda!TaskMap(file)'
  BY FileStays DEF Agenda!TimerFires
<1>3. Agenda!NoTimer \in Nat
  BY DEF Agenda!NoTimer
<1> QED BY <1>1, <1>2, <1>3, AdvanceKeeps

\* A call begins: it will arm the timer when its save is done.
LEMMA CallKeeps ==
    ASSUME AgendaInv, NEW f, Agenda!Begins(f),
           UNCHANGED <<file, timer, clock, restarts, ran, thrown>>,
           created \subseteq created', created' \subseteq Tasks,
           Agenda!TaskMap(tasks)', refused' \subseteq DOMAIN tasks', Over'
    PROVE  AgendaInv'
<1> DEFINE x == [Agenda!Idle EXCEPT !.pc = "mkdir"]
<1>1. f \in Agenda!Flows /\ Agenda!set(f, x)
  BY DEF Agenda!Begins, Agenda!Flows
<1>2. FlowType(f, x) /\ x.pc = "mkdir"
  BY <1>1, IdleIsFlow
<1> HIDE DEF x
<1>3. Agenda!TaskMap(file)' /\ timer' \in Nat /\ thrown' \in BOOLEAN
  <2>1. timer \in Nat /\ thrown \in BOOLEAN
    BY DEF AgendaInv, Agenda!TypeOK
  <2> QED BY <2>1, FileStays
<1>4. Agenda!TypeOK' /\ FlowsOK'
  BY <1>1, <1>2, <1>3, AgendaTypes
<1>5. flow'[f] = x
  BY <1>1, <1>2, SetFlow DEF AgendaInv, FlowType
<1>6. Armed'
  BY <1>1, <1>2, <1>5 DEF Armed
<1> QED BY <1>4, <1>6 DEF AgendaInv

\* A task is created: it never existed, and has run nothing.
LEMMA CreateKeeps ==
    ASSUME AgendaInv, NEW f, NEW t \in Tasks, NEW e \in BOOLEAN, Agenda!Create(f, t, e)
    PROVE  AgendaInv'
<1> DEFINE task == [enabled |-> e, next |-> Agenda!next(t, clock)]
<1>1. /\ Agenda!TypeOK /\ Over /\ clock \in Nat /\ created \subseteq Tasks
      /\ DOMAIN tasks \subseteq created /\ refused \subseteq DOMAIN tasks /\ t \notin created
      /\ \A s \in DOMAIN tasks : tasks[s] \in TaskRecord
  BY DEF AgendaInv, Agenda!TypeOK, Agenda!TaskMap, TaskRecord, Agenda!Create
<1>2. /\ Agenda!Begins(f) /\ created' = created \cup {t}
      /\ tasks' = Agenda!put(tasks, t, task) /\ Agenda!next(t, clock) # 0
      /\ UNCHANGED <<file, timer, clock, restarts, ran, refused, thrown>>
  BY DEF Agenda!Create
<1>3. task \in TaskRecord
  BY <1>1, <1>2, NextTime DEF TaskRecord
<1> HIDE DEF task
<1>4. /\ DOMAIN tasks' = DOMAIN tasks \cup {t} /\ tasks'[t] = task
      /\ \A s \in DOMAIN tasks : tasks'[s] = tasks[s]
  BY <1>1, <1>2 DEF Agenda!put
<1>5. Agenda!TaskMap(tasks)'
  BY <1>1, <1>2, <1>3, <1>4 DEF Agenda!TaskMap, TaskRecord
<1>6. Over'
  BY <1>1, <1>2, <1>4 DEF Over
<1>7. refused' \subseteq DOMAIN tasks' /\ created' \subseteq Tasks /\ created \subseteq created'
  BY <1>1, <1>2, <1>4
<1> QED BY <1>2, <1>5, <1>6, <1>7, CallKeeps

\* A task is disabled.
LEMMA DisableKeeps ==
    ASSUME AgendaInv, NEW f, NEW t \in Tasks, Agenda!Disable(f, t)
    PROVE  AgendaInv'
<1> DEFINE task == [tasks[t] EXCEPT !.enabled = FALSE]
<1>1. /\ Agenda!TypeOK /\ Over /\ created \subseteq Tasks /\ t \in DOMAIN tasks
      /\ DOMAIN tasks \subseteq created /\ refused \subseteq DOMAIN tasks
      /\ \A s \in DOMAIN tasks : tasks[s] \in TaskRecord
  BY DEF AgendaInv, Agenda!TypeOK, Agenda!TaskMap, TaskRecord, Agenda!Disable
<1>2. /\ Agenda!Begins(f) /\ tasks' = [tasks EXCEPT ![t] = task] /\ refused' = refused \ {t}
      /\ UNCHANGED <<file, timer, clock, restarts, created, ran, thrown>>
  BY DEF Agenda!Disable
<1>3. task \in TaskRecord /\ ~task.enabled /\ task.next = tasks[t].next
  BY <1>1 DEF TaskRecord
<1> HIDE DEF task
<1>4. /\ DOMAIN tasks' = DOMAIN tasks /\ tasks'[t] = task
      /\ \A s \in DOMAIN tasks : s # t => tasks'[s] = tasks[s]
  BY <1>1, <1>2
<1>5. Agenda!TaskMap(tasks)'
  BY <1>1, <1>2, <1>3, <1>4 DEF Agenda!TaskMap, TaskRecord
<1>6. Over'
  BY <1>1, <1>2, <1>3, <1>4 DEF Over
<1>7. refused' \subseteq DOMAIN tasks' /\ created' \subseteq Tasks /\ created \subseteq created'
  BY <1>1, <1>2, <1>4
<1> QED BY <1>2, <1>5, <1>6, <1>7, CallKeeps

\* A task that is enabled and given a next time.
LEMMA TaskFields ==
    ASSUME NEW w, NEW e, NEW n, w = [enabled |-> e, next |-> n], NEW b, NEW y
    PROVE  [w EXCEPT !.enabled = b, !.next = y] = [enabled |-> b, next |-> y]
<1> DEFINE v == [w EXCEPT !.enabled = b]
<1>1. v = [enabled |-> b, next |-> n]
  OBVIOUS
<1>2. [w EXCEPT !.enabled = b, !.next = y] = [v EXCEPT !.next = y]
  OBVIOUS
<1> HIDE DEF v
<1> QED BY ONLY <1>1, <1>2

\* A task is enabled: its next time is ahead, and every occurrence that was run
\* is behind.
LEMMA EnableKeeps ==
    ASSUME AgendaInv, NEW f, NEW t \in Tasks, Agenda!Enable(f, t)
    PROVE  AgendaInv'
<1> DEFINE task == [tasks[t] EXCEPT !.enabled = TRUE,
                                    !.next = IF Agenda!Late(t) THEN Agenda!next(t, clock) ELSE @]
<1>1. /\ Agenda!TypeOK /\ Over /\ created \subseteq Tasks /\ t \in DOMAIN tasks /\ clock \in Nat
      /\ DOMAIN tasks \subseteq created /\ refused \subseteq DOMAIN tasks
      /\ \A s \in DOMAIN tasks : tasks[s] \in TaskRecord
  BY DEF AgendaInv, Agenda!TypeOK, Agenda!TaskMap, TaskRecord, Agenda!Enable
<1>2. /\ Agenda!Begins(f) /\ tasks' = [tasks EXCEPT ![t] = task]
      /\ Agenda!Late(t) => Agenda!next(t, clock) # 0
      /\ UNCHANGED <<file, timer, clock, restarts, created, ran, refused, thrown>>
  BY DEF Agenda!Enable
<1>3. /\ Agenda!next(t, clock) \in Nat
      /\ Agenda!next(t, clock) # 0 => clock < Agenda!next(t, clock)
  BY <1>1, NextTime
<1>4. task \in TaskRecord /\ clock < task.next
  <2> DEFINE y == IF Agenda!Late(t) THEN Agenda!next(t, clock) ELSE tasks[t].next
  <2>1. tasks[t].next \in Nat \ {0} /\ (~Agenda!Late(t) => clock < tasks[t].next)
    BY <1>1 DEF TaskRecord, Agenda!Late
  <2>2. y \in Nat \ {0} /\ clock < y
    BY <1>1, <1>2, <1>3, <2>1
  <2>3. task = [enabled |-> TRUE, next |-> y]
    <3>1. tasks[t] \in TaskRecord
      BY <1>1
    <3>2. PICK e, n : tasks[t] = [enabled |-> e, next |-> n]
      BY <3>1 DEF TaskRecord
    <3> HIDE DEF y
    <3>3. [tasks[t] EXCEPT !.enabled = TRUE, !.next = y] = [enabled |-> TRUE, next |-> y]
      BY ONLY <3>2, TaskFields
    <3> USE DEF y
    <3> QED BY <3>3
  <2> HIDE DEF task, y
  <2>4. task.next = y
    BY ONLY <2>3
  <2> QED BY <2>2, <2>3, <2>4 DEF TaskRecord
<1> HIDE DEF task
<1>5. /\ DOMAIN tasks' = DOMAIN tasks /\ tasks'[t] = task
      /\ \A s \in DOMAIN tasks : s # t => tasks'[s] = tasks[s]
  BY <1>1, <1>2
<1>6. Agenda!TaskMap(tasks)'
  BY <1>1, <1>2, <1>4, <1>5 DEF Agenda!TaskMap, TaskRecord
<1>7. Over'
  <2>1. task.next \in Nat /\ \A n \in Nat : n <= clock => n < task.next
    BY <1>1, <1>4 DEF TaskRecord
  <2> QED BY <1>1, <1>2, <1>5, <2>1 DEF Over
<1>8. refused' \subseteq DOMAIN tasks' /\ created' \subseteq Tasks /\ created \subseteq created'
  BY <1>1, <1>2, <1>5
<1> QED BY <1>2, <1>6, <1>7, <1>8, CallKeeps

\* A task is removed, and its id is not used again.
LEMMA RemoveKeeps ==
    ASSUME AgendaInv, NEW f, NEW t \in Tasks, Agenda!Remove(f, t)
    PROVE  AgendaInv'
<1>1. /\ Agenda!TypeOK /\ Over /\ created \subseteq Tasks
      /\ DOMAIN tasks \subseteq created /\ refused \subseteq DOMAIN tasks
      /\ \A s \in DOMAIN tasks : tasks[s] \in TaskRecord
  BY DEF AgendaInv, Agenda!TypeOK, Agenda!TaskMap, TaskRecord
<1>2. /\ Agenda!Begins(f) /\ refused' = refused \ {t}
      /\ tasks' = [s \in DOMAIN tasks \ {t} |-> tasks[s]]
      /\ UNCHANGED <<file, timer, clock, restarts, created, ran, thrown>>
  BY DEF Agenda!Remove, Agenda!Restrict
<1>3. /\ DOMAIN tasks' = DOMAIN tasks \ {t}
      /\ \A s \in DOMAIN tasks' : tasks'[s] = tasks[s]
  BY <1>2
<1>4. Agenda!TaskMap(tasks)'
  BY <1>1, <1>2, <1>3 DEF Agenda!TaskMap, TaskRecord
<1>5. Over'
  BY <1>1, <1>2, <1>3 DEF Over
<1>6. refused' \subseteq DOMAIN tasks' /\ created' \subseteq Tasks /\ created \subseteq created'
  BY <1>1, <1>2, <1>3
<1> QED BY <1>2, <1>4, <1>5, <1>6, CallKeeps

\* Enabling is refused, after the fact.
LEMMA EnableExpiredKeeps ==
    ASSUME AgendaInv, NEW t \in Tasks, Agenda!EnableExpired(t)
    PROVE  AgendaInv'
<1> DEFINE task == [tasks[t] EXCEPT !.enabled = TRUE]
<1>1. /\ Agenda!TypeOK /\ FlowsOK /\ Over /\ created \subseteq Tasks /\ t \in DOMAIN tasks
      /\ DOMAIN tasks \subseteq created /\ refused \subseteq DOMAIN tasks
      /\ \A s \in DOMAIN tasks : tasks[s] \in TaskRecord
  BY DEF AgendaInv, Agenda!TypeOK, Agenda!TaskMap, TaskRecord, Agenda!EnableExpired
<1>2. /\ tasks' = [tasks EXCEPT ![t] = task] /\ refused' = refused \cup {t} /\ thrown' = TRUE
      /\ UNCHANGED <<file, timer, flow, clock, restarts, created, ran>>
  BY DEF Agenda!EnableExpired
<1>3. task \in TaskRecord /\ task.next = tasks[t].next
  BY <1>1 DEF TaskRecord
<1> HIDE DEF task
<1>4. /\ DOMAIN tasks' = DOMAIN tasks /\ tasks'[t] = task
      /\ \A s \in DOMAIN tasks : s # t => tasks'[s] = tasks[s]
  BY <1>1, <1>2
<1>5. Agenda!TaskMap(tasks)'
  BY <1>1, <1>2, <1>3, <1>4 DEF Agenda!TaskMap, TaskRecord
<1>6. Agenda!TypeOK'
  BY <1>1, <1>2, <1>4, <1>5 DEF Agenda!TypeOK, Agenda!TaskMap
<1>7. FlowsOK' /\ Armed'
  BY <1>1, <1>2 DEF FlowsOK, Armed
<1>8. Over'
  BY <1>1, <1>2, <1>3, <1>4 DEF Over
<1> QED BY <1>6, <1>7, <1>8 DEF AgendaInv

\* Time passes.
LEMMA TickKeeps == ASSUME AgendaInv, Agenda!Tick PROVE AgendaInv'
<1>1. /\ Agenda!TypeOK /\ FlowsOK /\ Armed /\ Over
      /\ clock \in Nat /\ clock < MaxTime /\ clock' = clock + 1 /\ MaxTime \in Nat
      /\ UNCHANGED <<tasks, file, timer, flow, restarts, created, ran, refused, thrown>>
  BY StoresConfig DEF AgendaInv, Agenda!TypeOK, Agenda!Tick, Agenda!ServiceConfig
<1>2. clock' \in 1..MaxTime /\ \A n \in 0..clock : n \in 0..clock'
  BY <1>1
<1>3. Agenda!TypeOK'
  BY <1>1, <1>2 DEF Agenda!TypeOK, Agenda!TaskMap
<1>4. FlowsOK' /\ Armed'
  BY <1>1 DEF FlowsOK, Armed, Agenda!arm, Agenda!Enabled
<1>5. Over'
  BY <1>1 DEF Over
<1> QED BY <1>3, <1>4, <1>5 DEF AgendaInv

\* The desktop starts again from its file.
LEMMA RestartKeeps == ASSUME AgendaInv, Agenda!Restart PROVE AgendaInv'
<1>1. /\ Agenda!TypeOK /\ restarts < MaxCrashes /\ restarts' = restarts + 1
      /\ tasks' = file /\ timer' = Agenda!arm(file)
      /\ flow' = [f \in Agenda!Flows |-> Agenda!Idle]
      /\ ran' = {} /\ refused' = {} /\ thrown' = FALSE
      /\ UNCHANGED <<file, clock, created>>
  BY DEF AgendaInv, Agenda!Restart
<1>2. \A f \in Agenda!Flows : flow'[f] = Agenda!Idle /\ FlowType(f, Agenda!Idle)
  BY <1>1, IdleIsFlow
<1>3. Agenda!TaskMap(tasks)' /\ Agenda!TaskMap(file)' /\ timer' \in Nat
  BY <1>1, ArmTime DEF Agenda!TypeOK, Agenda!TaskMap
<1>4. restarts' \in 0..MaxCrashes
  BY <1>1, StoresConfig DEF Agenda!TypeOK, Agenda!ServiceConfig
<1>5. Agenda!TypeOK'
  BY <1>1, <1>2, <1>3, <1>4 DEF Agenda!TypeOK, FlowType, Agenda!TaskMap
<1>6. FlowsOK'
  BY <1>1, <1>2 DEF FlowsOK, FlowType
<1>7. Armed' /\ Over'
  BY <1>1 DEF Armed, Over
<1> QED BY <1>5, <1>6, <1>7 DEF AgendaInv

\* No task, no flow, no timer: the desktop before its first call.
LEMMA AgendaInitInv == Agenda!Init => AgendaInv
<1> SUFFICES ASSUME Agenda!Init PROVE AgendaInv
  OBVIOUS
<1>1. /\ tasks = Agenda!None /\ file = Agenda!None /\ timer = Agenda!NoTimer
      /\ flow = [f \in Agenda!Flows |-> Agenda!Idle]
      /\ clock = 1 /\ restarts = 0 /\ created = {} /\ ran = {} /\ refused = {} /\ thrown = FALSE
  BY DEF Agenda!Init
<1>2. /\ Agenda!TaskMap(tasks) /\ Agenda!TaskMap(file) /\ Agenda!TaskMap(Agenda!None)
      /\ DOMAIN tasks = {} /\ Agenda!Enabled(tasks) = {}
  BY <1>1 DEF Agenda!TaskMap, Agenda!None, Agenda!Enabled
<1>3. \A f \in Agenda!Flows :
        flow[f] = [pc |-> "idle", running |-> {}, todo |-> {}, now |-> 0, snapshot |-> Agenda!None]
  BY <1>1 DEF Agenda!Idle
<1>4. MaxTime \in Nat \ {0} /\ MaxCrashes \in Nat
  BY StoresConfig DEF Agenda!ServiceConfig
<1>5. clock \in 1..MaxTime /\ restarts \in 0..MaxCrashes /\ 0 \in 0..clock /\ timer \in Nat
  BY <1>1, <1>4 DEF Agenda!NoTimer
<1>6. Agenda!TypeOK
  <2>1. \A f \in Agenda!Flows :
          /\ flow[f].pc = "idle" /\ flow[f].todo = {} /\ flow[f].running = {} /\ flow[f].now = 0
          /\ flow[f].snapshot = Agenda!None
    BY <1>3
  <2>2. created \subseteq Tasks /\ refused \subseteq DOMAIN tasks
    BY <1>1
  <2>3. thrown \in BOOLEAN /\ "idle" # "running" /\ "idle" # "write"
    BY <1>1
  <2>4. \A f \in Agenda!Flows :
          /\ flow[f].pc \in {"idle", "mkdir", "write"} \cup (IF f \in Timers THEN {"running"} ELSE {})
          /\ flow[f].todo \cup flow[f].running \subseteq Tasks /\ flow[f].now \in 0..clock
          /\ Agenda!TaskMap(flow[f].snapshot)
          /\ flow[f].pc # "write" => flow[f].snapshot = Agenda!None
          /\ (flow[f].pc = "running") = (flow[f].running # {})
    BY <1>2, <1>5, <2>1, <2>3
  <2> QED BY <1>2, <1>5, <2>2, <2>3, <2>4 DEF Agenda!TypeOK
<1>7. FlowsOK
  BY <1>1, <1>3 DEF FlowsOK, Shaped
<1>8. Armed /\ Over
  BY <1>1, <1>2 DEF Armed, Over, Agenda!arm
<1> QED BY <1>6, <1>7, <1>8 DEF AgendaInv

\* Every step keeps the invariant.
LEMMA AgendaNextInv == AgendaInv /\ [Agenda!Next]_agenda => AgendaInv'
<1> SUFFICES ASSUME AgendaInv, [Agenda!Next]_agenda PROVE AgendaInv'
  OBVIOUS
<1>1. CASE UNCHANGED agenda
  <2>1. UNCHANGED <<tasks, file, timer, flow, clock, restarts, created, ran, refused, thrown>>
    BY <1>1 DEF agenda
  <2>2. Agenda!TypeOK /\ FlowsOK /\ Armed /\ Over
    BY DEF AgendaInv
  <2>3. Agenda!TypeOK'
    BY <2>1, <2>2 DEF Agenda!TypeOK, Agenda!TaskMap
  <2>4. FlowsOK' /\ Armed' /\ Over'
    BY <2>1, <2>2 DEF FlowsOK, Armed, Over, Agenda!arm, Agenda!Enabled
  <2> QED BY <2>3, <2>4 DEF AgendaInv
<1>2. ASSUME NEW f \in Agenda!Flows,
             Agenda!RunEnds(f) \/ Agenda!Snapshot(f) \/ Agenda!Rename(f) \/ Agenda!PersistThrows(f)
      PROVE  AgendaInv'
  BY <1>2, FlowStepKeeps
<1>3. ASSUME NEW f \in Timers, Agenda!TimerFires(f) PROVE AgendaInv'
  BY <1>3, TimerFiresKeeps
<1>4. ASSUME NEW f \in Calls, NEW t \in Tasks,
             \/ \E e \in BOOLEAN : Agenda!Create(f, t, e)
             \/ Agenda!Disable(f, t) \/ Agenda!Enable(f, t) \/ Agenda!Remove(f, t)
      PROVE  AgendaInv'
  BY <1>4, CreateKeeps, DisableKeeps, EnableKeeps, RemoveKeeps
<1>5. ASSUME NEW t \in Tasks, Agenda!EnableExpired(t) PROVE AgendaInv'
  BY <1>5, EnableExpiredKeeps
<1>6. CASE Agenda!Tick \/ Agenda!Restart
  BY <1>6, TickKeeps, RestartKeeps
<1> QED BY <1>1, <1>2, <1>3, <1>4, <1>5, <1>6 DEF Agenda!Next

\* What is started was enabled and due, and had not been run.
LEMMA StartedOnce ==
    ASSUME AgendaInv, [Agenda!Next]_agenda, NEW f \in Timers, NEW t \in Tasks,
           Agenda!Starts(f, t), t \notin refused
    PROVE  <<t, tasks[t].next>> \notin ran
<1> DEFINE Goal == <<t, tasks[t].next>> \notin ran
<1>1. /\ f \in Agenda!Flows /\ flow'[f].pc = "running" /\ flow'[f] # flow[f] /\ t \in flow'[f].running
      /\ FlowsOK /\ Agenda!Idle.pc = "idle" /\ Shaped(Agenda!Idle)
  BY IdleIsFlow DEF Agenda!Starts, Agenda!Flows, AgendaInv, FlowType
<1>2. ASSUME NEW g \in Agenda!Flows, NEW x, Shaped(x), x.pc # "running", Agenda!set(g, x) PROVE FALSE
  BY <1>1, <1>2, SetFlow
<1>3. ASSUME NEW g \in Timers, NEW now, NEW s \in Agenda!Due(tasks, now), NEW rest,
             Agenda!Run(g, s, rest, now)
      PROVE  Goal
  <2> DEFINE x == [Agenda!Idle EXCEPT !.pc = "running", !.running = {s}, !.todo = rest, !.now = now]
  <2>1. x = [pc |-> "running", running |-> {s}, todo |-> rest, now |-> now, snapshot |-> Agenda!None]
    BY RunningFlow
  <2>2. Agenda!set(g, x) /\ g \in Agenda!Flows
    BY <1>3 DEF Agenda!Run, Agenda!Flows
  <2> HIDE DEF x
  <2>3. Shaped(x) /\ x.running = {s}
    BY <2>1 DEF Shaped
  <2>4. flow'[g] = x /\ (f # g => flow'[f] = flow[f])
    BY <1>1, <2>2, <2>3, SetFlow
  <2>5. t = s
    BY <1>1, <2>3, <2>4
  <2>6. t \in DOMAIN tasks /\ tasks[t].enabled
    BY <2>5 DEF Agenda!Due, Agenda!Enabled
  <2> QED BY <2>6, NotRunYet
<1>4. ASSUME NEW g \in Timers, NEW todo, NEW now, NEW pending, Agenda!advance(g, todo, now, pending)
      PROVE  Goal
  <2>1. CASE Agenda!set(g, Agenda!Idle)
    BY <1>1, <1>2, <2>1 DEF Agenda!Flows
  <2>2. CASE \E s \in todo \cap Agenda!Due(tasks, now) : Agenda!Run(g, s, todo \ {s}, now)
    BY <1>3, <2>2
  <2> QED BY <1>4, <2>1, <2>2 DEF Agenda!advance
<1>5. ASSUME NEW g \in Agenda!Flows, Agenda!RunEnds(g) PROVE Goal
  <2> DEFINE x == [flow[g] EXCEPT !.pc = "mkdir", !.running = {}]
  <2>1. x = [ pc |-> "mkdir", running |-> {}, todo |-> flow[g].todo,
              now |-> flow[g].now, snapshot |-> flow[g].snapshot ]
    BY <1>1, ShapedMoves DEF FlowsOK
  <2>2. Agenda!set(g, x)
    BY <1>5 DEF Agenda!RunEnds
  <2> HIDE DEF x
  <2>3. Shaped(x) /\ x.pc # "running"
    BY <2>1 DEF Shaped
  <2> QED BY <1>2, <2>2, <2>3
<1>6. ASSUME NEW g \in Agenda!Flows, Agenda!Snapshot(g) PROVE Goal
  <2> DEFINE x == [flow[g] EXCEPT !.pc = "write", !.snapshot = tasks]
  <2>1. x = [ pc |-> "write", running |-> flow[g].running, todo |-> flow[g].todo,
              now |-> flow[g].now, snapshot |-> tasks ]
    BY <1>1, ShapedMoves DEF FlowsOK
  <2>2. Agenda!set(g, x)
    BY <1>6 DEF Agenda!Snapshot
  <2> HIDE DEF x
  <2>3. Shaped(x) /\ x.pc # "running"
    BY <2>1 DEF Shaped
  <2> QED BY <1>2, <2>2, <2>3
<1>7. ASSUME NEW g \in Agenda!Flows, Agenda!Rename(g) PROVE Goal
  BY <1>1, <1>2, <1>4, <1>7 DEF Agenda!Rename
<1>8. ASSUME NEW g \in Agenda!Flows, Agenda!PersistThrows(g) PROVE Goal
  BY <1>1, <1>2, <1>8 DEF Agenda!PersistThrows
<1>9. ASSUME NEW g \in Timers, Agenda!TimerFires(g) PROVE Goal
  BY <1>4, <1>9 DEF Agenda!TimerFires
<1>10. ASSUME NEW g, Agenda!Begins(g) PROVE Goal
  <2> DEFINE x == [Agenda!Idle EXCEPT !.pc = "mkdir"]
  <2>1. g \in Agenda!Flows /\ Agenda!set(g, x)
    BY <1>10 DEF Agenda!Begins, Agenda!Flows
  <2>2. Shaped(x) /\ x.pc # "running"
    BY <2>1, IdleIsFlow DEF FlowType
  <2> HIDE DEF x
  <2> QED BY <1>2, <2>1, <2>2
<1>11. ASSUME NEW g \in Calls, NEW s \in Tasks,
              \/ \E e \in BOOLEAN : Agenda!Create(g, s, e)
              \/ Agenda!Disable(g, s) \/ Agenda!Enable(g, s) \/ Agenda!Remove(g, s)
       PROVE  Goal
  <2>1. Agenda!Begins(g)
    BY <1>11 DEF Agenda!Create, Agenda!Disable, Agenda!Enable, Agenda!Remove
  <2> QED BY <1>10, <2>1
<1>12. CASE UNCHANGED flow
  BY <1>1, <1>12
<1>13. CASE Agenda!Restart
  <2>1. flow'[f] = Agenda!Idle
    BY <1>1, <1>13 DEF Agenda!Restart
  <2> QED BY <1>1, <2>1
<1>14. (\E s \in Tasks : Agenda!EnableExpired(s)) \/ Agenda!Tick \/ UNCHANGED agenda => UNCHANGED flow
  BY DEF Agenda!EnableExpired, Agenda!Tick, agenda
<1> QED BY <1>5, <1>6, <1>7, <1>8, <1>9, <1>11, <1>12, <1>13, <1>14 DEF Agenda!Next

\* The scheduled tasks among the stores of the desktop keep their invariant.
LEMMA AgendaKept == StoresSpec => []AgendaInv /\ [][Agenda!Next]_agenda
<1>1. StoresInit => AgendaInv
  BY AgendaInitInv DEF StoresInit
<1>2. [StoresNext]_<<part, vars, agenda>> => [Agenda!Next]_agenda
  BY DEF StoresNext
<1>3. AgendaInv /\ [Agenda!Next]_agenda => AgendaInv'
  BY AgendaNextInv
<1> QED BY <1>1, <1>2, <1>3, PTL DEF StoresSpec

\* No wake-up is lost: arm follows every await of runDue and of the calls.
THEOREM TimerKeptArmed == StoresSpec => []TimerArmed
<1>1. AgendaInv => TimerArmed
  BY DEF TimerArmed, Agenda!TimerArmed, AgendaInv, Armed
<1> QED BY <1>1, AgendaKept, PTL

\* No occurrence is run twice in one start of the desktop: runDue looks at the
\* task again and moves its next time before it awaits.
THEOREM OccurrencesRunOnce == StoresSpec => OccurrenceRunsOnce
<1>1. AgendaInv /\ [Agenda!Next]_agenda =>
        [\A f \in Timers, t \in Tasks :
            Agenda!Starts(f, t) /\ t \notin refused => <<t, tasks[t].next>> \notin ran]_(Agenda!vars)
  BY StartedOnce DEF agenda, Agenda!vars
<1> QED BY <1>1, AgendaKept, PTL DEF OccurrenceRunsOnce, Agenda!OccurrenceRunsOnce
=============================================================================
