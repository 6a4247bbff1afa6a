------------------------- MODULE GateAndServerProofs -------------------------
(***************************************************************************)
(* Of ProviderAdmissionGate, for every number of owners, requests and every *)
(* limit: it keeps its type, its counters, its limits and its waiting       *)
(* structures, never leaves a waiting owner that could start, and admits in *)
(* turn.  Of ElectronServerRuntime, for every number of children and        *)
(* tokens: no child process is lost, and the server gets the last token.    *)
(***************************************************************************)
EXTENDS MCGateAndServer, ListAndSumLemmas, FiniteSetTheorems

-----------------------------------------------------------------------------
(* The inductive invariant, part by part.                                  *)

Bounded(g) ==
    /\ g.active <= MaxActive
    /\ \A o \in Owners : g.byOwner[o] <= MaxActivePerOwner

\* A closed gate keeps nobody waiting.
ClosedIsEmpty(g) == g.closed => g.waiting = <<>>

\* What holds of the fields also in the middle of a call.
Sound(g) == /\ IsGate(g)
            /\ CountersExact(g)
            /\ Bounded(g)
            /\ ListExact(g)
            /\ QueuesExact(g)
            /\ ClosedIsEmpty(g)

\* What holds between calls.
GateInv == Sound(gate) /\ NobodyRunnable(gate) /\ RoomRespected(gate)

-----------------------------------------------------------------------------
(* The permits and their counters.                                         *)

\* Finitely many permits are out.
LEMMA GrantedFinite ==
    ASSUME NEW g
    PROVE  /\ IsFiniteSet(Granted(g))
           /\ \A o : IsFiniteSet(Holders(g, o))
<1>1. Granted(g) \in SUBSET Requests /\ \A o : Holders(g, o) \in SUBSET Requests
  BY DEF Granted, Holders
<1> QED BY <1>1, GateConfig, FS_Subset DEF GateConfig

\* One permit more.
LEMMA CountersAfterGrant ==
    ASSUME NEW g, NEW h, IsGate(g), CountersExact(g),
           NEW r \in Requests, g.status[r] # "granted",
           h.active = g.active + 1,
           h.byOwner = [g.byOwner EXCEPT ![OwnerOf[r]] = @ + 1],
           h.status = [g.status EXCEPT ![r] = "granted"]
    PROVE  CountersExact(h)
<1>1. Granted(h) = Granted(g) \cup {r} /\ r \notin Granted(g)
  BY DEF Granted, IsGate
<1>2. h.active = Cardinality(Granted(h))
  BY <1>1, GrantedFinite, FS_AddElement DEF CountersExact
<1>3. ASSUME NEW o \in Owners PROVE h.byOwner[o] = Cardinality(Holders(h, o))
  <2>1. CASE o = OwnerOf[r]
    <3>1. Holders(h, o) = Holders(g, o) \cup {r} /\ r \notin Holders(g, o)
      BY <2>1 DEF Holders, IsGate
    <3>2. h.byOwner[o] = g.byOwner[o] + 1
      BY <2>1 DEF IsGate
    <3> QED BY <3>1, <3>2, GrantedFinite, FS_AddElement DEF CountersExact
  <2>2. CASE o # OwnerOf[r]
    <3>1. Holders(h, o) = Holders(g, o)
      BY <2>2 DEF Holders, IsGate
    <3>2. h.byOwner[o] = g.byOwner[o]
      BY <2>2 DEF IsGate
    <3> QED BY <3>1, <3>2 DEF CountersExact
  <2> QED BY <2>1, <2>2
<1> QED BY <1>2, <1>3 DEF CountersExact

\* One permit less; both counters were positive.
LEMMA CountersAfterRelease ==
    ASSUME NEW g, NEW h, IsGate(g), CountersExact(g),
           NEW r \in Requests, g.status[r] = "granted",
           h.active = g.active - 1,
           h.byOwner = [g.byOwner EXCEPT ![OwnerOf[r]] = @ - 1],
           h.status = [g.status EXCEPT ![r] = "released"]
    PROVE  CountersExact(h) /\ 0 < g.active /\ 0 < g.byOwner[OwnerOf[r]]
<1>1. Granted(h) = Granted(g) \ {r} /\ r \in Granted(g)
  BY DEF Granted, IsGate
<1>2. h.active = Cardinality(Granted(h))
  BY <1>1, GrantedFinite, FS_RemoveElement DEF CountersExact
<1>3. ASSUME NEW o \in Owners PROVE h.byOwner[o] = Cardinality(Holders(h, o))
  <2>1. CASE o = OwnerOf[r]
    <3>1. Holders(h, o) = Holders(g, o) \ {r} /\ r \in Holders(g, o)
      BY <2>1 DEF Holders, IsGate
    <3>2. h.byOwner[o] = g.byOwner[o] - 1
      BY <2>1 DEF IsGate
    <3> QED BY <3>1, <3>2, GrantedFinite, FS_RemoveElement DEF CountersExact
  <2>2. CASE o # OwnerOf[r]
    <3>1. Holders(h, o) = Holders(g, o)
      BY <2>2 DEF Holders, IsGate
    <3>2. h.byOwner[o] = g.byOwner[o]
      BY <2>2 DEF IsGate
    <3> QED BY <3>1, <3>2 DEF CountersExact
  <2> QED BY <2>1, <2>2
<1>4. 0 < g.active
  <2>1. Granted(g) # {}
    BY <1>1
  <2> QED BY <2>1, GrantedFinite, FS_EmptySet DEF CountersExact, IsGate
<1>5. 0 < g.byOwner[OwnerOf[r]]
  <2>1. OwnerOf[r] \in Owners
    BY GateConfig DEF GateConfig
  <2>2. Holders(g, OwnerOf[r]) # {}
    BY DEF Holders
  <2> QED BY <2>1, <2>2, GrantedFinite, FS_EmptySet DEF CountersExact, IsGate
<1> QED BY <1>2, <1>3, <1>4, <1>5 DEF CountersExact

\* The same permits.
LEMMA CountersUnchanged ==
    ASSUME NEW g, NEW h, CountersExact(g),
           h.active = g.active, h.byOwner = g.byOwner,
           \A r \in Requests : h.status[r] = "granted" <=> g.status[r] = "granted"
    PROVE  CountersExact(h)
<1>1. Granted(h) = Granted(g) /\ \A o : Holders(h, o) = Holders(g, o)
  BY DEF Granted, Holders
<1> QED BY <1>1 DEF CountersExact

-----------------------------------------------------------------------------
(* The waiting structures.                                                 *)

\* The oldest request of an owner with a queue.
LEMMA HeadFacts ==
    ASSUME NEW g, IsGate(g), QueuesExact(g), NEW o \in Owners, g.queue[o] # <<>>
    PROVE  /\ g.queue[o] \in Seq(Requests)
           /\ Distinct(g.queue[o])
           /\ Head(g.queue[o]) \in Requests
           /\ OwnerOf[Head(g.queue[o])] = o
           /\ Listed(g.queue[o], Head(g.queue[o]))
           /\ g.status[Head(g.queue[o])] = "pending"
<1>1. g.queue[o] \in Seq(Requests) /\ Distinct(g.queue[o])
  BY DEF IsGate, QueuesExact
<1>2. Head(g.queue[o]) \in Requests
  BY <1>1, HeadTailProperties
<1>3. Listed(g.queue[o], Head(g.queue[o]))
  BY <1>1, TailKeeps
<1>4. OwnerOf[Head(g.queue[o])] = o
  BY <1>3 DEF QueuesExact, Listed, At
<1>5. g.status[Head(g.queue[o])] = "pending"
  BY <1>2, <1>3, <1>4 DEF QueuesExact
<1> QED BY <1>1, <1>2, <1>3, <1>4, <1>5

\* The step from g to d that admits the oldest request of o.
Admits(g, d, o) ==
    /\ g.queue[o] # <<>>
    /\ canStart(g, o)
    /\ d.active = g.active + 1
    /\ d.byOwner = [g.byOwner EXCEPT ![o] = @ + 1]
    /\ d.queue = [g.queue EXCEPT ![o] = Tail(@)]
    /\ d.closed = g.closed
    /\ d.status = [g.status EXCEPT ![Head(g.queue[o])] = "granted"]

\* grantAt admits the oldest request of the owner it is given, and the lists
\* stay exact.
LEMMA GrantAtSound ==
    ASSUME NEW g, Sound(g), NEW w \in Seq(Owners), Distinct(w),
           \A o \in Owners : g.queue[o] # <<>> <=> Listed(w, o),
           NEW i \in 1..Len(w), canStart(g, w[i])
    PROVE  Sound(grantAt(g, w, i)) /\ Admits(g, grantAt(g, w, i), w[i])
<1> DEFINE o == w[i]
           r == Head(g.queue[o])
           rest == TakeOut(w, i)
           d == grantAt(g, w, i)
<1> USE DEF Sound
<1>1. o \in Owners /\ Listed(w, o) /\ g.queue[o] # <<>>
  <2>1. o \in Owners /\ i \in DOMAIN w
    BY ElementOfSeq, LenProperties
  <2> QED BY <2>1 DEF Listed, At
<1> HIDE DEF o
<1>2. /\ g.queue[o] \in Seq(Requests) /\ Distinct(g.queue[o])
      /\ r \in Requests /\ OwnerOf[r] = o /\ g.status[r] = "pending"
      /\ Listed(g.queue[o], r)
  BY <1>1, HeadFacts
<1>3. /\ rest \in Seq(Owners) /\ Distinct(rest)
      /\ \A x : Listed(rest, x) <=> Listed(w, x) /\ x # o
  BY TakeOutKeeps DEF o
<1> DEFINE tail == Tail(g.queue[o])
           list == IF tail = <<>> THEN rest ELSE Append(rest, o)
<1>4. /\ tail \in Seq(Requests) /\ Distinct(tail)
      /\ \A x : Listed(tail, x) <=> Listed(g.queue[o], x) /\ x # r
  BY <1>1, <1>2, TailKeeps, HeadTailProperties
<1>5. /\ list \in Seq(Owners) /\ Distinct(list)
      /\ \A x : Listed(list, x) <=> ((Listed(w, x) /\ x # o) \/ (tail # <<>> /\ x = o))
  <2>1. CASE tail = <<>>
    BY <1>3, <2>1
  <2>2. CASE tail # <<>>
    <3>1. /\ Append(rest, o) \in Seq(Owners) /\ Distinct(Append(rest, o))
          /\ \A x : Listed(Append(rest, o), x) <=> Listed(rest, x) \/ x = o
      BY <1>1, <1>3, AppendProperties, AppendKeeps
    <3>2. list = Append(rest, o)
      BY <2>2
    <3> HIDE DEF list
    <3> QED BY <1>3, <2>2, <3>1, <3>2
  <2> QED BY <2>1, <2>2
<1> HIDE DEF rest, tail, list, r
<1>6. /\ DOMAIN d = Fields
      /\ d.active = g.active + 1
      /\ d.byOwner = [g.byOwner EXCEPT ![o] = @ + 1]
      /\ d.queue = [g.queue EXCEPT ![o] = tail]
      /\ d.waiting = list
      /\ d.last = o
      /\ d.closed = g.closed
      /\ d.status = [g.status EXCEPT ![r] = "granted"]
  BY <1>2 DEF grantAt, grant, o, r, tail, list, rest, IsGate, Fields
<1> HIDE DEF d
<1>7. IsGate(d)
  <2>1. d.active \in Nat /\ d.byOwner \in [Owners -> Nat]
    <3>1. g.active \in Nat /\ g.byOwner \in [Owners -> Nat]
      BY DEF IsGate
    <3>2. g.byOwner[o] + 1 \in Nat /\ g.active + 1 \in Nat
      BY <1>1, <3>1
    <3> QED BY <1>6, <3>1, <3>2
  <2>2. d.queue \in [Owners -> Seq(Requests)]
    BY <1>1, <1>4, <1>6 DEF IsGate
  <2>3. d.status \in [Requests -> Status]
    BY <1>2, <1>6 DEF IsGate, Status
  <2> QED BY <1>1, <1>5, <1>6, <2>1, <2>2, <2>3 DEF IsGate
<1>8. CountersExact(d)
  BY <1>1, <1>2, <1>6, CountersAfterGrant
<1>9. Bounded(d)
  <2>1. g.active < MaxActive /\ g.byOwner[o] < MaxActivePerOwner
    BY DEF canStart, o
  <2>2. d.active <= MaxActive
    BY <1>6, <2>1, GateConfig DEF IsGate, GateConfig
  <2>3. \A p \in Owners : d.byOwner[p] <= MaxActivePerOwner
    <3>1. g.byOwner \in [Owners -> Nat] /\ MaxActivePerOwner \in Nat
      BY GateConfig DEF IsGate, GateConfig
    <3>2. g.byOwner[o] + 1 <= MaxActivePerOwner
      BY <1>1, <2>1, <3>1
    <3> QED BY <1>6, <3>1, <3>2 DEF Bounded
  <2> QED BY <2>2, <2>3 DEF Bounded
<1>10. ListExact(d)
  <2>1. ASSUME NEW p \in Owners PROVE d.queue[p] # <<>> <=> Listed(d.waiting, p)
    <3>1. CASE p = o
      BY <1>1, <1>5, <1>6, <3>1 DEF IsGate
    <3>2. CASE p # o
      <4>1. d.queue[p] = g.queue[p]
        BY <1>6, <3>2 DEF IsGate
      <4> QED BY <1>5, <1>6, <3>2, <4>1
    <3> QED BY <3>1, <3>2
  <2> QED BY <1>5, <1>6, <2>1 DEF ListExact
<1>11. QueuesExact(d)
  <2>1. ASSUME NEW p \in Owners
        PROVE  /\ Distinct(d.queue[p])
               /\ \A k \in DOMAIN d.queue[p] : OwnerOf[d.queue[p][k]] = p
    <3>1. CASE p = o
      <4>1. \A k \in DOMAIN tail : Listed(g.queue[o], tail[k])
        BY <1>4 DEF Listed, At
      <4>2. \A x : Listed(g.queue[o], x) => OwnerOf[x] = o
        BY <1>1 DEF QueuesExact, Listed, At
      <4> QED BY <1>1, <1>4, <1>6, <3>1, <4>1, <4>2 DEF IsGate
    <3>2. CASE p # o
      BY <1>6, <3>2 DEF IsGate, QueuesExact
    <3> QED BY <3>1, <3>2
  <2>2. ASSUME NEW q \in Requests
        PROVE  d.status[q] = "pending" <=> Listed(d.queue[OwnerOf[q]], q)
    <3>1. OwnerOf[q] \in Owners
      BY GateConfig DEF GateConfig
    <3>2. g.status[q] = "pending" <=> Listed(g.queue[OwnerOf[q]], q)
      BY DEF QueuesExact
    <3>3. CASE q = r
      BY <1>1, <1>2, <1>4, <1>6, <3>1, <3>3 DEF IsGate
    <3>4. CASE q # r /\ OwnerOf[q] = o
      BY <1>1, <1>4, <1>6, <3>1, <3>2, <3>4 DEF IsGate
    <3>5. CASE q # r /\ OwnerOf[q] # o
      BY <1>6, <3>1, <3>2, <3>5 DEF IsGate
    <3> QED BY <3>3, <3>4, <3>5
  <2> QED BY <2>1, <2>2 DEF QueuesExact
<1>12. ClosedIsEmpty(d)
  BY <1>6 DEF ClosedIsEmpty, canStart
<1>13. Admits(g, d, o)
  BY <1>1, <1>6 DEF Admits, o, r, tail
<1> QED BY <1>7, <1>8, <1>9, <1>10, <1>11, <1>12, <1>13 DEF d, o

\* Replacing the waiting list by one with the same elements.
LEMMA RelistSound ==
    ASSUME NEW g, Sound(g), NEW w \in Seq(Owners), Distinct(w),
           \A x : Listed(w, x) <=> Listed(g.waiting, x),
           w # <<>> => g.waiting # <<>>
    PROVE  Sound([g EXCEPT !.waiting = w])
<1> DEFINE d == [g EXCEPT !.waiting = w]
<1>1. /\ DOMAIN d = Fields /\ d.waiting = w
      /\ d.active = g.active /\ d.byOwner = g.byOwner /\ d.queue = g.queue
      /\ d.last = g.last /\ d.closed = g.closed /\ d.status = g.status
  BY DEF Sound, IsGate, Fields
<1> HIDE DEF d
<1>2. IsGate(d)
  BY <1>1 DEF Sound, IsGate
<1>3. CountersExact(d)
  BY <1>1, CountersUnchanged DEF Sound
<1>4. Bounded(d) /\ ListExact(d) /\ QueuesExact(d) /\ ClosedIsEmpty(d)
  BY <1>1 DEF Sound, Bounded, ListExact, QueuesExact, ClosedIsEmpty
<1> QED BY <1>2, <1>3, <1>4 DEF Sound, d

\* The rotated list has the elements of the waiting list.
LEMMA RotatedList ==
    ASSUME NEW g, Sound(g)
    PROVE  /\ rotateAfterLastGrantedOwner(g) \in Seq(Owners)
           /\ Distinct(rotateAfterLastGrantedOwner(g))
           /\ \A x : Listed(rotateAfterLastGrantedOwner(g), x) <=> Listed(g.waiting, x)
           /\ Len(rotateAfterLastGrantedOwner(g)) = Len(g.waiting)
<1>1. g.waiting \in Seq(Owners) /\ Distinct(g.waiting)
  BY DEF Sound, IsGate, ListExact
<1>2. CASE ~Listed(g.waiting, g.last)
  BY <1>1, <1>2 DEF rotateAfterLastGrantedOwner
<1>3. CASE Listed(g.waiting, g.last)
  <2> DEFINE i == First(At(g.waiting, g.last))
  <2>1. At(g.waiting, g.last) \subseteq Nat /\ At(g.waiting, g.last) # {}
    BY <1>1, <1>3, LenProperties DEF Listed, At
  <2>2. i \in At(g.waiting, g.last)
    BY <2>1, FirstIn
  <2>3. i \in 1..Len(g.waiting)
    BY <1>1, <2>2, LenProperties DEF At
  <2>4. rotateAfterLastGrantedOwner(g) = Rotate(g.waiting, i)
    BY <1>3 DEF rotateAfterLastGrantedOwner
  <2> HIDE DEF i
  <2> QED BY <1>1, <2>3, <2>4, RotateKeeps
<1> QED BY <1>2, <1>3

\* The step from g to d in which nobody is admitted.
AdmitsNobody(g, d) ==
    /\ d.active = g.active
    /\ d.byOwner = g.byOwner
    /\ d.queue = g.queue
    /\ d.closed = g.closed
    /\ d.status = g.status

\* A drain admits one waiting owner that could start, or there is none.
LEMMA DrainOutcome ==
    ASSUME NEW g, Sound(g)
    PROVE  /\ Sound(drain(g))
           /\ \/ NobodyRunnable(g) /\ AdmitsNobody(g, drain(g))
              \/ \E o \in Owners : Admits(g, drain(g), o)
<1> DEFINE w == rotateAfterLastGrantedOwner(g)
<1>0. /\ w \in Seq(Owners) /\ Distinct(w) /\ Len(w) = Len(g.waiting)
      /\ \A x : Listed(w, x) <=> Listed(g.waiting, x)
  BY RotatedList
<1>1. \A o \in Owners : g.queue[o] # <<>> <=> Listed(w, o)
  BY <1>0 DEF Sound, ListExact
<1>2. g.waiting \in Seq(Owners) /\ DOMAIN w = 1..Len(w) /\ Len(w) \in Nat
  BY <1>0, LenProperties DEF Sound, IsGate
<1> HIDE DEF w
<1>3. CASE g.closed \/ g.active >= MaxActive \/ g.waiting = <<>>
  <2>1. drain(g) = g
    BY <1>3 DEF drain
  <2>2. NobodyRunnable(g)
    <3>1. CASE g.closed
      BY <3>1 DEF NobodyRunnable, canStart
    <3>2. CASE g.active >= MaxActive
      BY <3>2, GateConfig DEF NobodyRunnable, canStart, Sound, IsGate, GateConfig
    <3>3. CASE g.waiting = <<>>
      <4>1. \A o \in Owners : ~Listed(g.waiting, o)
        BY <1>2, <3>3, ListedNonEmpty
      <4> QED BY <1>0, <1>1, <4>1 DEF NobodyRunnable
    <3> QED BY <1>3, <3>1, <3>2, <3>3
  <2> QED BY <2>1, <2>2 DEF AdmitsNobody
<1>4. CASE /\ ~(g.closed \/ g.active >= MaxActive \/ g.waiting = <<>>)
           /\ Startable(g, w) = {}
  <2>1. drain(g) = [g EXCEPT !.waiting = w]
    BY <1>4 DEF drain, w
  <2>2. Sound(drain(g))
    BY <1>0, <1>4, <2>1, RelistSound
  <2>3. NobodyRunnable(g)
    BY <1>1, <1>4 DEF NobodyRunnable, Startable, Listed, At
  <2>4. AdmitsNobody(g, drain(g))
    BY <2>1 DEF AdmitsNobody, Sound, IsGate, Fields
  <2> QED BY <2>2, <2>3, <2>4
<1>5. CASE /\ ~(g.closed \/ g.active >= MaxActive \/ g.waiting = <<>>)
           /\ Startable(g, w) # {}
  <2> DEFINE i == First(Startable(g, w))
  <2>1. drain(g) = grantAt(g, w, i)
    BY <1>5 DEF drain, w
  <2>2. Startable(g, w) \subseteq Nat
    BY <1>2 DEF Startable
  <2>3. i \in Startable(g, w)
    BY <1>5, <2>2, FirstIn
  <2>4. i \in 1..Len(w) /\ canStart(g, w[i])
    BY <1>2, <2>3 DEF Startable
  <2> HIDE DEF i
  <2>5. Sound(grantAt(g, w, i)) /\ Admits(g, grantAt(g, w, i), w[i])
    BY <1>0, <1>1, <2>4, GrantAtSound
  <2>6. w[i] \in Owners
    BY <1>0, <2>4, ElementOfSeq
  <2> QED BY <2>1, <2>5, <2>6
<1> QED BY <1>3, <1>4, <1>5

\* A new request joins the end of its owner's queue.
LEMMA EnqueueSound ==
    ASSUME NEW g, Sound(g), NEW r \in Requests,
           g.status[r] # "pending", g.status[r] # "granted", ~g.closed
    PROVE  /\ Sound(enqueue(g, r))
           /\ enqueue(g, r).active = g.active
           /\ enqueue(g, r).byOwner = g.byOwner
           /\ enqueue(g, r).closed = g.closed
           /\ enqueue(g, r).queue = [g.queue EXCEPT ![OwnerOf[r]] = Append(@, r)]
<1> DEFINE o == OwnerOf[r]
           list == IF g.queue[o] = <<>> THEN Append(g.waiting, o) ELSE g.waiting
           longer == Append(g.queue[o], r)
           d == enqueue(g, r)
<1> USE DEF Sound
<1>1. /\ o \in Owners /\ g.queue[o] \in Seq(Requests) /\ Distinct(g.queue[o])
      /\ g.waiting \in Seq(Owners) /\ Distinct(g.waiting)
  BY GateConfig DEF GateConfig, IsGate, QueuesExact, ListExact
<1>2. ~Listed(g.queue[o], r)
  BY DEF QueuesExact
<1>3. g.queue[o] = <<>> <=> ~Listed(g.waiting, o)
  BY <1>1 DEF ListExact
<1>4. /\ longer \in Seq(Requests) /\ longer # <<>> /\ Distinct(longer)
      /\ \A x : Listed(longer, x) <=> Listed(g.queue[o], x) \/ x = r
  BY <1>1, <1>2, AppendProperties, AppendKeeps
<1>5. /\ list \in Seq(Owners) /\ Distinct(list)
      /\ \A x : Listed(list, x) <=> Listed(g.waiting, x) \/ x = o
  <2>1. CASE g.queue[o] = <<>>
    BY <1>1, <1>3, <2>1, AppendProperties, AppendKeeps
  <2>2. CASE g.queue[o] # <<>>
    BY <1>1, <1>3, <2>2
  <2> QED BY <2>1, <2>2
<1> HIDE DEF list, longer
<1>6. /\ DOMAIN d = Fields
      /\ d.active = g.active /\ d.byOwner = g.byOwner
      /\ d.queue = [g.queue EXCEPT ![o] = longer]
      /\ d.waiting = list /\ d.last = g.last /\ d.closed = g.closed
      /\ d.status = [g.status EXCEPT ![r] = "pending"]
  BY DEF enqueue, list, longer, IsGate, Fields
<1> HIDE DEF d, o
<1>7. IsGate(d)
  <2>1. d.queue \in [Owners -> Seq(Requests)]
    BY <1>1, <1>4, <1>6 DEF IsGate
  <2>2. d.status \in [Requests -> Status]
    BY <1>6 DEF IsGate, Status
  <2> QED BY <1>5, <1>6, <2>1, <2>2 DEF IsGate
<1>8. CountersExact(d)
  <2>1. \A q \in Requests : d.status[q] = "granted" <=> g.status[q] = "granted"
    BY <1>6 DEF IsGate
  <2> QED BY <1>6, <2>1, CountersUnchanged
<1>9. Bounded(d) /\ ClosedIsEmpty(d)
  BY <1>6 DEF Bounded, ClosedIsEmpty
<1>10. ListExact(d)
  <2>1. ASSUME NEW p \in Owners PROVE d.queue[p] # <<>> <=> Listed(d.waiting, p)
    <3>1. CASE p = o
      BY <1>1, <1>4, <1>5, <1>6, <3>1 DEF IsGate
    <3>2. CASE p # o
      <4>1. d.queue[p] = g.queue[p]
        BY <1>6, <3>2 DEF IsGate
      <4> QED BY <1>5, <1>6, <3>2, <4>1 DEF ListExact
    <3> QED BY <3>1, <3>2
  <2> QED BY <1>5, <1>6, <2>1 DEF ListExact
<1>11. QueuesExact(d)
  <2>1. ASSUME NEW p \in Owners
        PROVE  /\ Distinct(d.queue[p])
               /\ \A k \in DOMAIN d.queue[p] : OwnerOf[d.queue[p][k]] = p
    <3>1. CASE p = o
      <4>1. \A k \in DOMAIN longer : Listed(g.queue[o], longer[k]) \/ longer[k] = r
        BY <1>4 DEF Listed, At
      <4>2. \A x : Listed(g.queue[o], x) => OwnerOf[x] = o
        BY <1>1 DEF QueuesExact, Listed, At
      <4> QED BY <1>1, <1>4, <1>6, <3>1, <4>1, <4>2 DEF IsGate, o
    <3>2. CASE p # o
      BY <1>6, <3>2 DEF IsGate, QueuesExact
    <3> QED BY <3>1, <3>2
  <2>2. ASSUME NEW q \in Requests
        PROVE  d.status[q] = "pending" <=> Listed(d.queue[OwnerOf[q]], q)
    <3>1. OwnerOf[q] \in Owners
      BY GateConfig DEF GateConfig
    <3>2. g.status[q] = "pending" <=> Listed(g.queue[OwnerOf[q]], q)
      BY DEF QueuesExact
    <3>3. CASE q = r
      BY <1>1, <1>4, <1>6, <3>1, <3>3 DEF IsGate, o
    <3>4. CASE q # r /\ OwnerOf[q] = o
      BY <1>1, <1>4, <1>6, <3>1, <3>2, <3>4 DEF IsGate
    <3>5. CASE q # r /\ OwnerOf[q] # o
      BY <1>6, <3>1, <3>2, <3>5 DEF IsGate
    <3> QED BY <3>3, <3>4, <3>5
  <2> QED BY <2>1, <2>2 DEF QueuesExact
<1> QED BY <1>6, <1>7, <1>8, <1>9, <1>10, <1>11 DEF d, o, longer

\* A waiting request leaves its queue and is refused.
LEMMA AbandonSound ==
    ASSUME NEW g, Sound(g), NEW r \in Requests, g.status[r] = "pending"
    PROVE  LET d == reject(removePending(g, r), r)
           IN  /\ Sound(d)
               /\ d.active = g.active /\ d.byOwner = g.byOwner /\ d.closed = g.closed
               /\ \A o \in Owners : Len(d.queue[o]) <= Len(g.queue[o])
               /\ \A o \in Owners : d.queue[o] # <<>> => g.queue[o] # <<>>
<1> DEFINE o == OwnerOf[r]
           others == Without(g.queue[o], r)
           list == IF others = <<>> THEN Without(g.waiting, o) ELSE g.waiting
           d == reject(removePending(g, r), r)
<1> USE DEF Sound
<1>1. /\ o \in Owners /\ g.queue[o] \in Seq(Requests) /\ Distinct(g.queue[o])
      /\ g.waiting \in Seq(Owners) /\ Distinct(g.waiting)
  BY GateConfig DEF GateConfig, IsGate, QueuesExact, ListExact
<1>2. Listed(g.queue[o], r)
  BY DEF QueuesExact
<1>3. g.queue[o] # <<>> /\ Listed(g.waiting, o)
  BY <1>1, <1>2, ListedNonEmpty DEF ListExact
<1>4. /\ others \in Seq(Requests) /\ Distinct(others)
      /\ Len(others) <= Len(g.queue[o])
      /\ \A x : Listed(others, x) <=> Listed(g.queue[o], x) /\ x # r
  BY <1>1, WithoutKeeps
<1>5. /\ list \in Seq(Owners) /\ Distinct(list)
      /\ \A x : Listed(list, x) <=> Listed(g.waiting, x) /\ (others = <<>> => x # o)
  <2>1. CASE others = <<>>
    BY <1>1, <2>1, WithoutKeeps
  <2>2. CASE others # <<>>
    BY <1>1, <2>2
  <2> QED BY <2>1, <2>2
<1> HIDE DEF list, others
<1>6. /\ DOMAIN d = Fields
      /\ d.active = g.active /\ d.byOwner = g.byOwner
      /\ d.queue = [g.queue EXCEPT ![o] = others]
      /\ d.waiting = list /\ d.last = g.last /\ d.closed = g.closed
      /\ d.status = [g.status EXCEPT ![r] = "rejected"]
  BY DEF removePending, reject, list, others, IsGate, Fields
<1> HIDE DEF d, o
<1>7. IsGate(d)
  <2>1. d.queue \in [Owners -> Seq(Requests)]
    BY <1>1, <1>4, <1>6 DEF IsGate
  <2>2. d.status \in [Requests -> Status]
    BY <1>6 DEF IsGate, Status
  <2> QED BY <1>5, <1>6, <2>1, <2>2 DEF IsGate
<1>8. CountersExact(d)
  <2>1. \A q \in Requests : d.status[q] = "granted" <=> g.status[q] = "granted"
    BY <1>6 DEF IsGate
  <2> QED BY <1>6, <2>1, CountersUnchanged
<1>9. Bounded(d) /\ ClosedIsEmpty(d)
  <2>1. ~g.closed
    BY <1>1, <1>3, ListedNonEmpty DEF ClosedIsEmpty
  <2> QED BY <1>6, <2>1 DEF Bounded, ClosedIsEmpty
<1>10. ListExact(d)
  <2>1. ASSUME NEW p \in Owners PROVE d.queue[p] # <<>> <=> Listed(d.waiting, p)
    <3>1. CASE p = o
      BY <1>1, <1>3, <1>5, <1>6, <3>1 DEF IsGate
    <3>2. CASE p # o
      <4>1. d.queue[p] = g.queue[p]
        BY <1>6, <3>2 DEF IsGate
      <4> QED BY <1>5, <1>6, <3>2, <4>1 DEF ListExact
    <3> QED BY <3>1, <3>2
  <2> QED BY <1>5, <1>6, <2>1 DEF ListExact
<1>11. QueuesExact(d)
  <2>1. ASSUME NEW p \in Owners
        PROVE  /\ Distinct(d.queue[p])
               /\ \A k \in DOMAIN d.queue[p] : OwnerOf[d.queue[p][k]] = p
    <3>1. CASE p = o
      <4>1. \A k \in DOMAIN others : Listed(g.queue[o], others[k])
        BY <1>4 DEF Listed, At
      <4>2. \A x : Listed(g.queue[o], x) => OwnerOf[x] = o
        BY <1>1 DEF QueuesExact, Listed, At
      <4> QED BY <1>1, <1>4, <1>6, <3>1, <4>1, <4>2 DEF IsGate
    <3>2. CASE p # o
      BY <1>6, <3>2 DEF IsGate, QueuesExact
    <3> QED BY <3>1, <3>2
  <2>2. ASSUME NEW q \in Requests
        PROVE  d.status[q] = "pending" <=> Listed(d.queue[OwnerOf[q]], q)
    <3>1. OwnerOf[q] \in Owners
      BY GateConfig DEF GateConfig
    <3>2. g.status[q] = "pending" <=> Listed(g.queue[OwnerOf[q]], q)
      BY DEF QueuesExact
    <3>3. CASE q = r
      BY <1>1, <1>4, <1>6, <3>1, <3>3 DEF IsGate, o
    <3>4. CASE q # r /\ OwnerOf[q] = o
      BY <1>1, <1>4, <1>6, <3>1, <3>2, <3>4 DEF IsGate
    <3>5. CASE q # r /\ OwnerOf[q] # o
      BY <1>6, <3>1, <3>2, <3>5 DEF IsGate
    <3> QED BY <3>3, <3>4, <3>5
  <2> QED BY <2>1, <2>2 DEF QueuesExact
<1>12. ASSUME NEW p \in Owners
       PROVE  /\ Len(d.queue[p]) <= Len(g.queue[p])
              /\ d.queue[p] # <<>> => g.queue[p] # <<>>
  <2>1. Len(g.queue[p]) \in Nat
    BY LenProperties DEF IsGate
  <2>2. CASE p = o
    BY <1>1, <1>3, <1>4, <1>6, <2>2 DEF IsGate
  <2>3. CASE p # o
    <3>1. d.queue[p] = g.queue[p]
      BY <1>6, <2>3 DEF IsGate
    <3> QED BY <2>1, <3>1
  <2> QED BY <2>2, <2>3
<1> QED BY <1>6, <1>7, <1>8, <1>9, <1>10, <1>11, <1>12 DEF d

\* A call that is not waiting is settled without touching the waiting lists.
LEMMA RejectSound ==
    ASSUME NEW g, Sound(g), NEW r \in Requests,
           g.status[r] # "pending", g.status[r] # "granted"
    PROVE  /\ Sound(reject(g, r))
           /\ reject(g, r).active = g.active /\ reject(g, r).byOwner = g.byOwner
           /\ reject(g, r).queue = g.queue /\ reject(g, r).closed = g.closed
<1> DEFINE d == reject(g, r)
<1> USE DEF Sound
<1>1. /\ DOMAIN d = Fields
      /\ d.active = g.active /\ d.byOwner = g.byOwner /\ d.queue = g.queue
      /\ d.waiting = g.waiting /\ d.last = g.last /\ d.closed = g.closed
      /\ d.status = [g.status EXCEPT ![r] = "rejected"]
  BY DEF reject, IsGate, Fields
<1> HIDE DEF d
<1>2. IsGate(d)
  BY <1>1 DEF IsGate, Status
<1>3. /\ \A q \in Requests : d.status[q] = "granted" <=> g.status[q] = "granted"
      /\ \A q \in Requests : d.status[q] = "pending" <=> g.status[q] = "pending"
  BY <1>1 DEF IsGate
<1>4. CountersExact(d)
  BY <1>1, <1>3, CountersUnchanged
<1>5. Bounded(d) /\ ClosedIsEmpty(d) /\ ListExact(d)
  BY <1>1 DEF Bounded, ClosedIsEmpty, ListExact
<1>6. QueuesExact(d)
  BY <1>1, <1>3 DEF QueuesExact
<1> QED BY <1>1, <1>2, <1>4, <1>5, <1>6 DEF d

\* A permit that is granted is counted.
LEMMA GrantSound ==
    ASSUME NEW g, Sound(g), NEW r \in Requests,
           g.status[r] # "pending", g.status[r] # "granted", canStart(g, OwnerOf[r])
    PROVE  /\ Sound(grant(g, r))
           /\ grant(g, r).active = g.active + 1
           /\ grant(g, r).byOwner = [g.byOwner EXCEPT ![OwnerOf[r]] = @ + 1]
           /\ grant(g, r).queue = g.queue /\ grant(g, r).closed = g.closed
<1> DEFINE d == grant(g, r)
           o == OwnerOf[r]
<1> USE DEF Sound
<1>0. o \in Owners
  BY GateConfig DEF GateConfig
<1>1. /\ DOMAIN d = Fields
      /\ d.active = g.active + 1
      /\ d.byOwner = [g.byOwner EXCEPT ![o] = @ + 1] /\ d.queue = g.queue
      /\ d.waiting = g.waiting /\ d.last = o /\ d.closed = g.closed
      /\ d.status = [g.status EXCEPT ![r] = "granted"]
  BY DEF grant, IsGate, Fields
<1> HIDE DEF d
<1>2. IsGate(d)
  BY <1>0, <1>1 DEF IsGate, Status
<1>3. \A q \in Requests : d.status[q] = "pending" <=> g.status[q] = "pending"
  BY <1>1 DEF IsGate
<1>4. CountersExact(d)
  BY <1>1, CountersAfterGrant
<1>5. Bounded(d)
  <2>1. g.active < MaxActive /\ g.byOwner[o] < MaxActivePerOwner
    BY DEF canStart
  <2>2. d.active <= MaxActive
    BY <1>1, <2>1, GateConfig DEF IsGate, GateConfig
  <2>3. \A p \in Owners : d.byOwner[p] <= MaxActivePerOwner
    <3>1. g.byOwner \in [Owners -> Nat] /\ MaxActivePerOwner \in Nat
      BY GateConfig DEF IsGate, GateConfig
    <3>2. g.byOwner[o] + 1 <= MaxActivePerOwner
      BY <1>0, <2>1, <3>1
    <3> QED BY <1>1, <3>1, <3>2 DEF Bounded
  <2> QED BY <2>2, <2>3 DEF Bounded
<1>6. ClosedIsEmpty(d) /\ ListExact(d) /\ QueuesExact(d)
  BY <1>1, <1>3 DEF ClosedIsEmpty, ListExact, QueuesExact
<1> QED BY <1>1, <1>2, <1>4, <1>5, <1>6 DEF d

\* What Release does before it drains.
freed(g, r) == [g EXCEPT !.active = @ - 1,
                         !.byOwner[OwnerOf[r]] = @ - 1,
                         !.status[r] = "released"]

\* A permit that is released is counted no more.
LEMMA FreedSound ==
    ASSUME NEW g, Sound(g), NEW r \in Requests, g.status[r] = "granted"
    PROVE  /\ Sound(freed(g, r))
           /\ freed(g, r).active = g.active - 1
           /\ freed(g, r).byOwner = [g.byOwner EXCEPT ![OwnerOf[r]] = @ - 1]
           /\ freed(g, r).queue = g.queue /\ freed(g, r).closed = g.closed
<1> DEFINE d == freed(g, r)
           o == OwnerOf[r]
<1> USE DEF Sound
<1>0. o \in Owners
  BY GateConfig DEF GateConfig
<1>1. /\ DOMAIN d = Fields
      /\ d.active = g.active - 1
      /\ d.byOwner = [g.byOwner EXCEPT ![o] = @ - 1] /\ d.queue = g.queue
      /\ d.waiting = g.waiting /\ d.last = g.last /\ d.closed = g.closed
      /\ d.status = [g.status EXCEPT ![r] = "released"]
  BY DEF freed, IsGate, Fields
<1> HIDE DEF d
<1>2. CountersExact(d) /\ 0 < g.active /\ 0 < g.byOwner[o]
  BY <1>1, CountersAfterRelease
<1>3. IsGate(d)
  <2>1. d.active \in Nat
    BY <1>1, <1>2 DEF IsGate
  <2>2. d.byOwner \in [Owners -> Nat]
    <3>1. g.byOwner \in [Owners -> Nat] /\ g.byOwner[o] - 1 \in Nat
      BY <1>0, <1>2 DEF IsGate
    <3> QED BY <1>1, <3>1
  <2>3. d.status \in [Requests -> Status]
    BY <1>1 DEF IsGate, Status
  <2> QED BY <1>1, <2>1, <2>2, <2>3 DEF IsGate
<1>4. \A q \in Requests : d.status[q] = "pending" <=> g.status[q] = "pending"
  BY <1>1 DEF IsGate
<1>5. Bounded(d)
  <2>1. d.active <= MaxActive
    BY <1>1, GateConfig DEF IsGate, GateConfig, Bounded
  <2>2. \A p \in Owners : d.byOwner[p] <= MaxActivePerOwner
    <3>1. g.byOwner \in [Owners -> Nat] /\ MaxActivePerOwner \in Nat
      BY GateConfig DEF IsGate, GateConfig
    <3>2. g.byOwner[o] - 1 <= MaxActivePerOwner
      BY <1>0, <3>1 DEF Bounded
    <3> QED BY <1>1, <3>1, <3>2 DEF Bounded
  <2> QED BY <2>1, <2>2 DEF Bounded
<1>6. ClosedIsEmpty(d) /\ ListExact(d) /\ QueuesExact(d)
  BY <1>1, <1>4 DEF ClosedIsEmpty, ListExact, QueuesExact
<1> QED BY <1>1, <1>2, <1>3, <1>5, <1>6 DEF d

-----------------------------------------------------------------------------
(* The waiting room.                                                       *)

\* A queue has finitely many positions.
LEMMA PositionsFinite ==
    ASSUME NEW g, IsGate(g), RoomRespected(g)
    PROVE  IsFiniteSet(Positions(g))
<1>1. \A o \in Owners : DOMAIN g.queue[o] = 1..Len(g.queue[o]) /\ Len(g.queue[o]) \in Nat
  BY LenProperties DEF IsGate
<1>2. Positions(g) \subseteq Owners \X (1..MaxQueuedPerOwner)
  BY <1>1, GateConfig DEF Positions, RoomRespected, GateConfig
<1>3. IsFiniteSet(1..MaxQueuedPerOwner)
  <2>1. MaxQueuedPerOwner \in Int /\ 1 \in Int
    BY GateConfig DEF GateConfig
  <2> QED BY <2>1, FS_Interval
<1>4. IsFiniteSet(Owners)
  BY GateConfig DEF GateConfig
<1>5. IsFiniteSet(Owners \X (1..MaxQueuedPerOwner))
  BY <1>3, <1>4, FS_Product
<1> QED BY <1>2, <1>5, FS_Subset

\* Shorter queues need no more room.
LEMMA RoomShrinks ==
    ASSUME NEW g, NEW h, IsGate(g), IsGate(h), RoomRespected(g),
           \A o \in Owners : Len(h.queue[o]) <= Len(g.queue[o])
    PROVE  RoomRespected(h)
<1>1. \A o \in Owners : /\ DOMAIN g.queue[o] = 1..Len(g.queue[o]) /\ Len(g.queue[o]) \in Nat
                       /\ DOMAIN h.queue[o] = 1..Len(h.queue[o]) /\ Len(h.queue[o]) \in Nat
  BY LenProperties DEF IsGate
<1>2. Positions(h) \subseteq Positions(g)
  <2>1. \A o \in Owners : DOMAIN h.queue[o] \subseteq DOMAIN g.queue[o]
    BY <1>1
  <2> QED BY <2>1 DEF Positions
<1>3. IsFiniteSet(Positions(g))
  BY PositionsFinite
<1>4. Cardinality(Positions(h)) <= Cardinality(Positions(g))
  BY <1>2, <1>3, FS_Subset
<1>5. Cardinality(Positions(h)) \in Nat /\ Cardinality(Positions(g)) \in Nat
  BY <1>2, <1>3, FS_Subset, FS_CardinalityType
<1>6. queuedCount(h) <= MaxQueued
  BY <1>4, <1>5, GateConfig DEF RoomRespected, queuedCount, GateConfig
<1>7. \A o \in Owners : Len(h.queue[o]) <= MaxQueuedPerOwner
  BY <1>1, GateConfig DEF RoomRespected, GateConfig
<1> QED BY <1>6, <1>7 DEF RoomRespected

\* enqueue takes one seat, and only while both limits leave one.
LEMMA RoomAfterEnqueue ==
    ASSUME NEW g, NEW h, IsGate(g), IsGate(h), RoomRespected(g), NEW r \in Requests,
           h.queue = [g.queue EXCEPT ![OwnerOf[r]] = Append(@, r)],
           queuedCount(g) < MaxQueued,
           Len(g.queue[OwnerOf[r]]) < MaxQueuedPerOwner
    PROVE  RoomRespected(h)
<1> DEFINE o == OwnerOf[r]
           n == Len(g.queue[o]) + 1
<1>1. o \in Owners /\ g.queue[o] \in Seq(Requests)
  BY GateConfig DEF GateConfig, IsGate
<1>2. \A p \in Owners : DOMAIN g.queue[p] = 1..Len(g.queue[p]) /\ Len(g.queue[p]) \in Nat
  BY LenProperties DEF IsGate
<1>3. h.queue[o] = Append(g.queue[o], r) /\ \A p \in Owners : p # o => h.queue[p] = g.queue[p]
  BY <1>1 DEF IsGate
<1>4. Len(h.queue[o]) = n /\ DOMAIN h.queue[o] = 1..n
  BY <1>1, <1>3, AppendProperties, LenProperties
<1>5. 1..n = (1..Len(g.queue[o])) \cup {n}
  BY <1>1, <1>2
<1> HIDE DEF n, o
<1>6. Positions(h) = Positions(g) \cup {<<o, n>>}
  <2>1. ASSUME NEW x \in Positions(h) PROVE x \in Positions(g) \cup {<<o, n>>}
    <3>1. PICK p \in Owners : x \in {<<p, i>> : i \in DOMAIN h.queue[p]}
      BY DEF Positions
    <3>2. CASE p = o
      BY <1>1, <1>2, <1>4, <1>5, <3>1, <3>2 DEF Positions
    <3>3. CASE p # o
      BY <1>3, <3>1, <3>3 DEF Positions
    <3> QED BY <3>2, <3>3
  <2>2. ASSUME NEW x \in Positions(g) PROVE x \in Positions(h)
    <3>1. PICK p \in Owners : x \in {<<p, i>> : i \in DOMAIN g.queue[p]}
      BY DEF Positions
    <3>2. DOMAIN g.queue[p] \subseteq DOMAIN h.queue[p]
      BY <1>2, <1>3, <1>4, <1>5
    <3> QED BY <3>1, <3>2 DEF Positions
  <2>3. <<o, n>> \in Positions(h)
    BY <1>1, <1>4, <1>5 DEF Positions
  <2> QED BY <2>1, <2>2, <2>3
<1>7. IsFiniteSet(Positions(g))
  BY PositionsFinite
<1>8. queuedCount(h) <= queuedCount(g) + 1 /\ queuedCount(h) \in Nat /\ queuedCount(g) \in Nat
  <2>1. /\ IsFiniteSet(Positions(h))
        /\ Cardinality(Positions(h)) = IF <<o, n>> \in Positions(g) THEN Cardinality(Positions(g))
                                        ELSE Cardinality(Positions(g)) + 1
    BY <1>6, <1>7, FS_AddElement
  <2>2. Cardinality(Positions(g)) \in Nat
    BY <1>7, FS_CardinalityType
  <2> QED BY <2>1, <2>2 DEF queuedCount
<1>9. queuedCount(h) <= MaxQueued
  BY <1>8, GateConfig DEF GateConfig
<1>10. ASSUME NEW p \in Owners PROVE Len(h.queue[p]) <= MaxQueuedPerOwner
  <2>1. CASE p = o
    BY <1>1, <1>2, <1>4, <2>1, GateConfig DEF GateConfig, n, o
  <2>2. CASE p # o
    BY <1>3, <2>2 DEF RoomRespected
  <2> QED BY <2>1, <2>2
<1> QED BY <1>9, <1>10 DEF RoomRespected

\* Neither outcome of a drain lengthens a queue.
LEMMA RoomAfterDrain ==
    ASSUME NEW g, Sound(g), RoomRespected(g)
    PROVE  RoomRespected(drain(g))
<1>1. IsGate(g) /\ IsGate(drain(g))
  BY DrainOutcome DEF Sound
<1>2. \A o \in Owners : g.queue[o] \in Seq(Requests) /\ Len(g.queue[o]) \in Nat
  BY <1>1, LenProperties DEF IsGate
<1>3. CASE AdmitsNobody(g, drain(g))
  BY <1>1, <1>2, <1>3, RoomShrinks DEF AdmitsNobody
<1>4. ASSUME NEW o \in Owners, Admits(g, drain(g), o) PROVE RoomRespected(drain(g))
  <2>1. Len(Tail(g.queue[o])) = Len(g.queue[o]) - 1
    BY <1>2, <1>4, HeadTailProperties DEF Admits
  <2>2. \A p \in Owners : Len(drain(g).queue[p]) <= Len(g.queue[p])
    BY <1>1, <1>2, <1>4, <2>1 DEF Admits, IsGate
  <2> QED BY <1>1, <2>2, RoomShrinks
<1> QED BY <1>3, <1>4, DrainOutcome

-----------------------------------------------------------------------------
(* Nobody is left waiting who could start.                                 *)

\* Admitting the oldest request of o leaves nobody who could start.
Settles(g, o) ==
    \/ g.active + 1 >= MaxActive
    \/ /\ \A p \in Owners : p # o /\ g.queue[p] # <<>> => ~canStart(g, p)
       /\ \/ g.byOwner[o] + 1 >= MaxActivePerOwner
          \/ Tail(g.queue[o]) = <<>>

\* After a drain nobody waits who could be granted a permit.
LEMMA RestAfterDrain ==
    ASSUME NEW g, Sound(g),
           \A o \in Owners : g.queue[o] # <<>> /\ canStart(g, o) => Settles(g, o)
    PROVE  NobodyRunnable(drain(g))
<1> DEFINE d == drain(g)
<1>1. IsGate(g) /\ IsGate(d)
  BY DrainOutcome DEF Sound
<1>2. CASE NobodyRunnable(g) /\ AdmitsNobody(g, d)
  BY <1>2 DEF NobodyRunnable, AdmitsNobody, canStart
<1>3. ASSUME NEW o \in Owners, Admits(g, d, o) PROVE NobodyRunnable(d)
  <2> HIDE DEF d
  <2> SUFFICES ASSUME NEW p \in Owners, d.queue[p] # <<>>, canStart(d, p)
               PROVE  FALSE
    BY DEF NobodyRunnable
  <2>1. Settles(g, o)
    BY <1>3 DEF Admits
  <2>2. ~(g.active + 1 >= MaxActive)
    BY <1>1, <1>3, GateConfig DEF canStart, Admits, IsGate, GateConfig
  <2>3. CASE p = o
    <3>1. d.byOwner[o] = g.byOwner[o] + 1 /\ d.queue[o] = Tail(g.queue[o])
      BY <1>1, <1>3 DEF Admits, IsGate
    <3>2. g.byOwner[o] \in Nat
      BY <1>1 DEF IsGate
    <3> QED BY <2>1, <2>2, <2>3, <3>1, <3>2, GateConfig DEF Settles, canStart, GateConfig
  <2>4. CASE p # o
    <3>1. d.byOwner[p] = g.byOwner[p] /\ d.queue[p] = g.queue[p]
      BY <1>1, <1>3, <2>4 DEF Admits, IsGate
    <3>2. g.active \in Nat /\ d.active = g.active + 1 /\ d.closed = g.closed
      BY <1>1, <1>3 DEF Admits, IsGate
    <3>3. canStart(g, p)
      BY <3>1, <3>2, GateConfig DEF canStart, GateConfig
    <3> QED BY <2>1, <2>2, <2>4, <3>1, <3>3 DEF Settles
  <2> QED BY <2>3, <2>4
<1> QED BY <1>2, <1>3, DrainOutcome DEF d

\* From rest, a freed slot can be used once.
LEMMA RestAfterRelease ==
    ASSUME NEW g, Sound(g), NobodyRunnable(g), NEW r \in Requests, g.status[r] = "granted"
    PROVE  NobodyRunnable(drain(freed(g, r)))
<1> DEFINE f == freed(g, r)
           q == OwnerOf[r]
<1>1. /\ Sound(f) /\ f.active = g.active - 1
      /\ f.byOwner = [g.byOwner EXCEPT ![q] = @ - 1]
      /\ f.queue = g.queue /\ f.closed = g.closed
  BY FreedSound
<1> HIDE DEF f
<1>2. ASSUME NEW o \in Owners, f.queue[o] # <<>>, canStart(f, o) PROVE Settles(f, o)
  <2>1. ~canStart(g, o) /\ ~g.closed
    BY <1>1, <1>2 DEF NobodyRunnable, canStart
  <2>2. g.active \in Nat /\ g.byOwner \in [Owners -> Nat] /\ q \in Owners
    BY GateConfig DEF Sound, IsGate, GateConfig
  <2>3. CASE ~(g.active < MaxActive)
    BY <1>1, <2>2, <2>3, GateConfig DEF Settles, GateConfig
  <2>4. CASE g.active < MaxActive
    <3>1. \A p \in Owners : g.queue[p] # <<>> => ~(g.byOwner[p] < MaxActivePerOwner)
      BY <2>1, <2>4 DEF NobodyRunnable, canStart
    <3>2. \A p \in Owners : p # q => f.byOwner[p] = g.byOwner[p]
      BY <1>1, <2>2
    <3>3. o = q
      BY <1>1, <1>2, <3>1, <3>2 DEF canStart
    <3>4. \A p \in Owners : p # o /\ f.queue[p] # <<>> => ~canStart(f, p)
      BY <1>1, <3>1, <3>2, <3>3 DEF canStart
    <3>5. f.byOwner[o] + 1 >= MaxActivePerOwner
      <4>1. f.byOwner[o] = g.byOwner[o] - 1 /\ g.byOwner[o] \in Nat
        BY <1>1, <2>2, <3>3
      <4>2. ~(g.byOwner[o] < MaxActivePerOwner)
        BY <1>1, <1>2, <3>1
      <4> QED BY <4>1, <4>2, GateConfig DEF GateConfig
    <3> QED BY <3>4, <3>5 DEF Settles
  <2> QED BY <2>3, <2>4
<1> QED BY <1>1, <1>2, RestAfterDrain DEF f

\* From rest, only the owner of a newly queued request can start, and only
\* with that request.
LEMMA RestAfterEnqueue ==
    ASSUME NEW g, Sound(g), NobodyRunnable(g), NEW r \in Requests,
           g.status[r] # "pending", g.status[r] # "granted", ~g.closed
    PROVE  NobodyRunnable(drain(enqueue(g, r)))
<1> DEFINE f == enqueue(g, r)
           q == OwnerOf[r]
<1>1. /\ Sound(f) /\ f.active = g.active /\ f.byOwner = g.byOwner /\ f.closed = g.closed
      /\ f.queue = [g.queue EXCEPT ![q] = Append(@, r)]
  BY EnqueueSound
<1> HIDE DEF f
<1>2. q \in Owners /\ g.queue \in [Owners -> Seq(Requests)]
  BY GateConfig DEF Sound, IsGate, GateConfig
<1>3. \A p \in Owners : canStart(f, p) <=> canStart(g, p)
  BY <1>1 DEF canStart
<1>4. \A p \in Owners : p # q => f.queue[p] = g.queue[p]
  BY <1>1, <1>2
<1>5. ASSUME NEW o \in Owners, f.queue[o] # <<>>, canStart(f, o) PROVE Settles(f, o)
  <2>1. o = q /\ g.queue[q] = <<>>
    BY <1>2, <1>3, <1>4, <1>5 DEF NobodyRunnable
  <2>2. f.queue[o] = Append(<<>>, r)
    BY <1>1, <1>2, <2>1
  <2>3. Tail(f.queue[o]) = <<>>
    BY <2>2, HeadTailAppend, EmptySeq
  <2> QED BY <1>3, <1>4, <2>1, <2>3 DEF Settles, NobodyRunnable
<1> QED BY <1>1, <1>5, RestAfterDrain DEF f

-----------------------------------------------------------------------------
(* The theorems.                                                           *)

\* The invariant holds at the start.
LEMMA GateInvInit == Init => GateInv
<1> SUFFICES ASSUME Init PROVE GateInv
  OBVIOUS
<1>1. IsGate(gate)
  BY GateConfig DEF Init, IsGate, Fields, Status, GateConfig
<1>2. CountersExact(gate)
  <2>1. Granted(gate) = {} /\ \A o : Holders(gate, o) = {}
    BY DEF Init, Granted, Holders
  <2> QED BY <2>1, FS_EmptySet DEF Init, CountersExact
<1>3. Bounded(gate)
  BY GateConfig DEF Init, Bounded, GateConfig
<1>4. \A x : ~Listed(<<>>, x)
  BY DEF Listed, At
<1>5. Distinct(<<>>)
  BY DEF Distinct
<1>6. ListExact(gate) /\ ClosedIsEmpty(gate)
  BY <1>4, <1>5 DEF Init, ListExact, ClosedIsEmpty
<1>7. QueuesExact(gate)
  <2>1. \A r \in Requests : OwnerOf[r] \in Owners
    BY GateConfig DEF GateConfig
  <2> QED BY <1>4, <1>5, <2>1 DEF Init, QueuesExact
<1>8. NobodyRunnable(gate)
  BY DEF Init, NobodyRunnable
<1>9. RoomRespected(gate)
  <2>1. Positions(gate) = {}
    BY DEF Init, Positions
  <2>2. queuedCount(gate) <= MaxQueued
    BY <2>1, FS_EmptySet, GateConfig DEF queuedCount, GateConfig
  <2>3. \A o \in Owners : Len(gate.queue[o]) <= MaxQueuedPerOwner
    BY EmptySeq, GateConfig DEF Init, GateConfig
  <2> QED BY <2>2, <2>3 DEF RoomRespected
<1> QED BY <1>1, <1>2, <1>3, <1>6, <1>7, <1>8, <1>9 DEF GateInv, Sound

\* Every step keeps the invariant.
LEMMA GateInvNext == GateInv /\ [Next]_vars => GateInv'
<1> SUFFICES ASSUME GateInv, [Next]_vars PROVE GateInv'
  OBVIOUS
<1>0. /\ Sound(gate) /\ NobodyRunnable(gate) /\ RoomRespected(gate)
      /\ IsGate(gate)
      /\ \A o \in Owners : gate.queue[o] \in Seq(Requests)
      /\ \A r \in Requests : OwnerOf[r] \in Owners
  BY GateConfig DEF GateInv, Sound, IsGate, GateConfig
\* A drain between two calls admits nobody.
<1>1. Sound(drain(gate)) /\ AdmitsNobody(gate, drain(gate))
  BY <1>0, DrainOutcome DEF Admits, NobodyRunnable
<1>2. ASSUME NEW r \in Requests, AcquireRefused(r) PROVE GateInv'
  <2>1. gate.status[r] # "pending" /\ gate.status[r] # "granted"
    BY <1>2 DEF AcquireRefused, CanAcquire
  <2>2. /\ Sound(gate') /\ gate'.active = gate.active /\ gate'.byOwner = gate.byOwner
        /\ gate'.queue = gate.queue /\ gate'.closed = gate.closed
    BY <1>0, <1>2, <2>1, RejectSound DEF AcquireRefused
  <2>3. NobodyRunnable(gate')
    BY <1>0, <2>2 DEF NobodyRunnable, canStart
  <2>4. RoomRespected(gate')
    BY <1>0, <2>2 DEF RoomRespected, queuedCount, Positions
  <2> QED BY <2>2, <2>3, <2>4 DEF GateInv
<1>3. ASSUME NEW r \in Requests, AcquireImmediately(r) PROVE GateInv'
  <2>1. gate.status[r] # "pending" /\ gate.status[r] # "granted" /\ canStart(gate, OwnerOf[r])
    BY <1>3 DEF AcquireImmediately, CanAcquire, Immediate
  <2>2. Sound(gate') /\ gate'.queue = gate.queue
    BY <1>0, <1>3, <2>1, GrantSound DEF AcquireImmediately
  <2>3. \A o \in Owners : gate.queue[o] = <<>>
    <3>1. \A o \in Owners : ~Listed(gate.waiting, o)
      BY <1>0, <1>3, ListedNonEmpty DEF AcquireImmediately, Immediate, IsGate
    <3> QED BY <1>0, <3>1 DEF Sound, ListExact
  <2>4. NobodyRunnable(gate')
    BY <2>2, <2>3 DEF NobodyRunnable
  <2>5. RoomRespected(gate')
    BY <1>0, <2>2 DEF RoomRespected, queuedCount, Positions
  <2> QED BY <2>2, <2>4, <2>5 DEF GateInv
<1>4. ASSUME NEW r \in Requests, AcquireWithoutWaiting(r) PROVE GateInv'
  <2>1. gate.status[r] # "pending" /\ gate.status[r] # "granted"
    BY <1>4 DEF AcquireWithoutWaiting, CanAcquire
  <2>2. /\ Sound(gate') /\ gate'.active = gate.active /\ gate'.byOwner = gate.byOwner
        /\ gate'.queue = gate.queue /\ gate'.closed = gate.closed
    BY <1>0, <1>4, <2>1, RejectSound DEF AcquireWithoutWaiting
  <2>3. NobodyRunnable(gate')
    BY <1>0, <2>2 DEF NobodyRunnable, canStart
  <2>4. RoomRespected(gate')
    BY <1>0, <2>2 DEF RoomRespected, queuedCount, Positions
  <2> QED BY <2>2, <2>3, <2>4 DEF GateInv
<1>5. ASSUME NEW r \in Requests, AcquireAtFullQueue(r) PROVE GateInv'
  <2> DEFINE d == drain(gate)
  <2>1. d.status[r] # "pending" /\ d.status[r] # "granted"
    BY <1>1, <1>5 DEF AcquireAtFullQueue, CanAcquire, AdmitsNobody
  <2>2. Sound(d) /\ NobodyRunnable(d) /\ RoomRespected(d)
    BY <1>0, <1>1 DEF AdmitsNobody, NobodyRunnable, canStart, RoomRespected,
                      queuedCount, Positions
  <2>3. CASE gate' = grant(d, r) /\ canStart(d, OwnerOf[r])
    <3>1. /\ Sound(gate') /\ gate'.active = d.active + 1
          /\ gate'.byOwner = [d.byOwner EXCEPT ![OwnerOf[r]] = @ + 1]
          /\ gate'.queue = d.queue /\ gate'.closed = d.closed
      BY <2>1, <2>2, <2>3, GrantSound
    <3>2. d.active \in Nat /\ d.byOwner \in [Owners -> Nat]
      BY <2>2 DEF Sound, IsGate
    <3>3. \A o \in Owners : canStart(gate', o) => canStart(d, o)
      BY <1>0, <3>1, <3>2, GateConfig DEF canStart, GateConfig
    <3>4. NobodyRunnable(gate')
      BY <2>2, <3>1, <3>3 DEF NobodyRunnable
    <3>5. RoomRespected(gate')
      BY <2>2, <3>1 DEF RoomRespected, queuedCount, Positions
    <3> QED BY <3>1, <3>4, <3>5 DEF GateInv
  <2>4. CASE gate' = reject(d, r)
    <3>1. /\ Sound(gate') /\ gate'.active = d.active /\ gate'.byOwner = d.byOwner
          /\ gate'.queue = d.queue /\ gate'.closed = d.closed
      BY <2>1, <2>2, <2>4, RejectSound
    <3>2. NobodyRunnable(gate')
      BY <2>2, <3>1 DEF NobodyRunnable, canStart
    <3>3. RoomRespected(gate')
      BY <2>2, <3>1 DEF RoomRespected, queuedCount, Positions
    <3> QED BY <3>1, <3>2, <3>3 DEF GateInv
  <2> QED BY <1>5, <2>3, <2>4 DEF AcquireAtFullQueue
<1>6. ASSUME NEW r \in Requests, AcquireQueued(r) PROVE GateInv'
  <2> DEFINE f == enqueue(gate, r)
  <2>1. gate.status[r] # "pending" /\ gate.status[r] # "granted" /\ ~gate.closed
    BY <1>6 DEF AcquireQueued, CanAcquire
  <2>2. /\ queuedCount(gate) < MaxQueued
        /\ Len(gate.queue[OwnerOf[r]]) < MaxQueuedPerOwner
    <3>1. Len(gate.queue[OwnerOf[r]]) \in Nat
      BY <1>0, LenProperties
    <3>2. queuedCount(gate) \in Nat
      BY <1>0, PositionsFinite, FS_CardinalityType DEF queuedCount
    <3> QED BY <1>6, <3>1, <3>2, GateConfig DEF AcquireQueued, QueueFull, GateConfig
  <2>3. Sound(f) /\ f.queue = [gate.queue EXCEPT ![OwnerOf[r]] = Append(@, r)]
    BY <1>0, <2>1, EnqueueSound
  <2>4. RoomRespected(f)
    BY <1>0, <2>2, <2>3, RoomAfterEnqueue DEF Sound
  <2>5. gate' = drain(f)
    BY <1>6 DEF AcquireQueued
  <2>6. NobodyRunnable(drain(f))
    BY <1>0, <2>1, RestAfterEnqueue
  <2> HIDE DEF f
  <2> QED BY <2>3, <2>4, <2>5, <2>6, DrainOutcome, RoomAfterDrain DEF GateInv
<1>7. ASSUME NEW r \in Requests, RejectAndRemove(r) PROVE GateInv'
  <2> DEFINE f == reject(removePending(gate, r), r)
  <2>1. /\ Sound(f)
        /\ f.active = gate.active /\ f.byOwner = gate.byOwner /\ f.closed = gate.closed
        /\ \A o \in Owners : Len(f.queue[o]) <= Len(gate.queue[o])
        /\ \A o \in Owners : f.queue[o] # <<>> => gate.queue[o] # <<>>
    BY <1>0, <1>7, AbandonSound DEF RejectAndRemove
  <2>2. gate' = drain(f)
    BY <1>7 DEF RejectAndRemove
  <2> HIDE DEF f
  <2>3. RoomRespected(f)
    BY <1>0, <2>1, RoomShrinks DEF Sound
  <2>4. NobodyRunnable(f)
    BY <1>0, <2>1 DEF NobodyRunnable, canStart
  <2>5. NobodyRunnable(drain(f))
    BY <2>1, <2>4, RestAfterDrain DEF NobodyRunnable
  <2> QED BY <2>1, <2>2, <2>3, <2>5, DrainOutcome, RoomAfterDrain DEF GateInv
<1>8. ASSUME NEW r \in Requests, Release(r) PROVE GateInv'
  <2> DEFINE f == freed(gate, r)
  <2>1. gate.status[r] = "granted" /\ gate' = drain(f)
    BY <1>8 DEF Release, freed
  <2>2. Sound(f) /\ f.queue = gate.queue
    BY <1>0, <2>1, FreedSound
  <2>3. RoomRespected(f)
    BY <1>0, <2>2 DEF RoomRespected, queuedCount, Positions
  <2>4. NobodyRunnable(drain(f))
    BY <1>0, <2>1, RestAfterRelease
  <2> HIDE DEF f
  <2> QED BY <2>1, <2>2, <2>3, <2>4, DrainOutcome, RoomAfterDrain DEF GateInv
<1>9. ASSUME Close PROVE GateInv'
  <2> DEFINE after == [r \in Requests |-> IF gate.status[r] = "pending" THEN "rejected"
                                          ELSE gate.status[r]]
  <2>1. /\ DOMAIN gate' = Fields
        /\ gate'.active = gate.active /\ gate'.byOwner = gate.byOwner
        /\ gate'.queue = [o \in Owners |-> <<>>] /\ gate'.waiting = <<>>
        /\ gate'.last = gate.last /\ gate'.closed = TRUE
        /\ gate'.status = after
    BY <1>0, <1>9 DEF Close, IsGate, Fields
  <2>2. after \in [Requests -> Status]
    BY <1>0 DEF IsGate, Status
  <2>3. \A r \in Requests : /\ after[r] = "granted" <=> gate.status[r] = "granted"
                           /\ after[r] # "pending"
    BY <1>0 DEF IsGate
  <2> HIDE DEF after
  <2>4. IsGate(gate')
    <3>1. gate'.queue \in [Owners -> Seq(Requests)] /\ gate'.waiting \in Seq(Owners)
      BY <2>1, EmptySeq
    <3> QED BY <1>0, <2>1, <2>2, <3>1 DEF IsGate
  <2>5. CountersExact(gate')
    BY <1>0, <2>1, <2>3, CountersUnchanged DEF Sound
  <2>6. \A x : ~Listed(<<>>, x)
    BY DEF Listed, At
  <2>7. Distinct(<<>>)
    BY DEF Distinct
  <2>8. Bounded(gate') /\ ListExact(gate') /\ ClosedIsEmpty(gate')
    BY <1>0, <2>1, <2>6, <2>7 DEF Sound, Bounded, ListExact, ClosedIsEmpty
  <2>9. QueuesExact(gate')
    BY <1>0, <2>1, <2>3, <2>6, <2>7 DEF QueuesExact
  <2>10. NobodyRunnable(gate')
    BY <2>1 DEF NobodyRunnable
  <2>11. RoomRespected(gate')
    <3>1. \A o \in Owners : Len(gate'.queue[o]) <= Len(gate.queue[o])
      BY <1>0, <2>1, EmptySeq, LenProperties
    <3> QED BY <1>0, <2>4, <3>1, RoomShrinks
  <2> QED BY <2>4, <2>5, <2>8, <2>9, <2>10, <2>11 DEF GateInv, Sound
<1>10. ASSUME gate' = gate PROVE GateInv'
  BY <1>0, <1>10 DEF GateInv
<1> QED
  BY <1>2, <1>3, <1>4, <1>5, <1>6, <1>7, <1>8, <1>9, <1>10
     DEF Next, ReleaseAgain, vars

\* Every reachable state satisfies the invariant.
LEMMA GateInvAlways == Spec => []GateInv
BY GateInvInit, GateInvNext, PTL DEF Spec

\* Every reachable object has fields of their types.
THEOREM TypeCorrect == Spec => []TypeOK
<1>1. GateInv => TypeOK
  BY DEF GateInv, Sound, TypeOK
<1> QED BY <1>1, GateInvAlways, PTL

\* active and activeByOwner always count the permits that are out.
THEOREM CountersCorrect == Spec => []CountersMatchPermits
<1>1. GateInv => CountersMatchPermits
  BY DEF GateInv, Sound, CountersMatchPermits
<1> QED BY <1>1, GateInvAlways, PTL

\* The provider account, every owner and the waiting room stay within their
\* configured limits.
THEOREM LimitsCorrect == Spec => []LimitsRespected
<1>1. GateInv => LimitsRespected
  BY DEF GateInv, Sound, LimitsRespected, WithinLimits, CountersExact, Bounded
<1> QED BY <1>1, GateInvAlways, PTL

\* The waiting list, the queues and the promises agree.
THEOREM WaitingCorrect == Spec => []WaitingListExact
<1>1. GateInv => WaitingListExact
  BY DEF GateInv, Sound, WaitingListExact
<1> QED BY <1>1, GateInvAlways, PTL

\* For any callers, owners and limits the gate's books are right after any
\* interleaving of acquire, release, timers, aborts and close.
THEOREM BookkeepingCorrect == Spec => []Bookkeeping
<1>1. TypeOK /\ CountersMatchPermits /\ LimitsRespected /\ WaitingListExact
      => Bookkeeping
  BY DEF Bookkeeping
<1> QED
  BY <1>1, TypeCorrect, CountersCorrect, LimitsCorrect, WaitingCorrect, PTL

\* No call ends with a waiting owner that could start: no wake-up is lost.
THEOREM NoLostWakeUp == Spec => []NoRunnableWaiter
<1>1. GateInv => NoRunnableWaiter
  BY DEF GateInv, NoRunnableWaiter
<1> QED BY <1>1, GateInvAlways, PTL

-----------------------------------------------------------------------------
(* The turns: an owner's calls in their order, and nobody after close().   *)

\* The owner's older call waits, and the later one, if it waits, is behind it.
WaitsFor(g, r, s) ==
    /\ g.status[r] = "pending"
    /\ g.status[s] = "pending" => Ahead(g, r, s)

\* Who waits is in the queue, and is not the request that is admitted next
\* unless it is the head.
LEMMA AdmitsKeepsOrder ==
    ASSUME NEW g, NEW d, Sound(g), NEW o \in Owners, Admits(g, d, o),
           NEW r \in Requests, NEW s \in Requests, r # s, OwnerOf[r] = OwnerOf[s],
           WaitsFor(g, r, s), d.status[r] = "pending"
    PROVE  /\ d.status[s] = "granted" => g.status[s] = "granted"
           /\ d.status[s] = "pending" => Ahead(d, r, s)
<1> DEFINE q == g.queue[o]
           h == Head(q)
<1>1. /\ q \in Seq(Requests) /\ Distinct(q) /\ h \in Requests /\ OwnerOf[h] = o
      /\ Listed(q, h) /\ g.status[h] = "pending"
  BY HeadFacts DEF Admits, Sound
<1>2. /\ d.status = [g.status EXCEPT ![h] = "granted"]
      /\ d.queue = [g.queue EXCEPT ![o] = Tail(q)]
      /\ q # <<>>
  BY DEF Admits
<1>3. g.status \in [Requests -> Status] /\ g.queue \in [Owners -> Seq(Requests)]
  BY DEF Sound, IsGate
<1>4. r # h
  BY <1>1, <1>2, <1>3
<1>5. OwnerOf[r] \in Owners
  BY GateConfig DEF GateConfig
<1> HIDE DEF h, q
<1>6. CASE OwnerOf[r] # o
  <2>1. s # h /\ d.queue[OwnerOf[r]] = g.queue[OwnerOf[r]]
    BY <1>1, <1>2, <1>3, <1>5, <1>6
  <2> QED BY <1>2, <1>3, <2>1 DEF WaitsFor, Ahead
<1>7. CASE OwnerOf[r] = o
  <2>1. /\ Len(q) \in Nat /\ DOMAIN q = 1..Len(q) /\ h = q[1]
        /\ DOMAIN Tail(q) = 1..(Len(q) - 1)
        /\ \A k \in 1..(Len(q) - 1) : Tail(q)[k] = q[k + 1]
    BY <1>1, <1>2, HeadTailProperties, LenProperties, EmptySeq DEF h
  <2>2. d.queue[o] = Tail(q) /\ g.queue[o] = q
    BY <1>2, <1>3 DEF q
  <2>3. ASSUME g.status[s] = "pending"
        PROVE  \E i, j \in DOMAIN q : i < j /\ q[i] = r /\ q[j] = s
    BY <1>7, <2>2, <2>3 DEF WaitsFor, Ahead
  <2>4. s # h
    <3>1. CASE g.status[s] = "pending"
      <4>1. PICK i, j \in DOMAIN q : i < j /\ q[i] = r /\ q[j] = s
        BY <2>3, <3>1
      <4>2. j # 1
        BY <2>1, <4>1
      <4> QED BY <1>1, <2>1, <4>1, <4>2 DEF Distinct
    <3>2. CASE g.status[s] # "pending"
      BY <1>1, <3>2
    <3> QED BY <3>1, <3>2
  <2>5. d.status[s] = g.status[s]
    BY <1>2, <1>3, <2>4
  <2>6. ASSUME d.status[s] = "pending" PROVE Ahead(d, r, s)
    <3>1. PICK i, j \in DOMAIN q : i < j /\ q[i] = r /\ q[j] = s
      BY <2>3, <2>5, <2>6
    <3>2. i # 1
      BY <1>4, <2>1, <3>1
    <3>3. /\ i - 1 \in DOMAIN Tail(q) /\ j - 1 \in DOMAIN Tail(q) /\ i - 1 < j - 1
          /\ (i - 1) + 1 = i /\ (j - 1) + 1 = j
      BY <2>1, <3>1, <3>2
    <3>4. Tail(q)[i - 1] = r /\ Tail(q)[j - 1] = s
      BY <2>1, <3>1, <3>3
    <3> QED BY <1>7, <2>2, <3>3, <3>4 DEF Ahead
  <2> QED BY <2>5, <2>6
<1> QED BY <1>6, <1>7

\* A drain keeps the order of an owner's calls.
LEMMA DrainKeepsOrder ==
    ASSUME NEW g, Sound(g),
           NEW r \in Requests, NEW s \in Requests, r # s, OwnerOf[r] = OwnerOf[s],
           WaitsFor(g, r, s), drain(g).status[r] = "pending"
    PROVE  /\ drain(g).status[s] = "granted" => g.status[s] = "granted"
           /\ drain(g).status[s] = "pending" => Ahead(drain(g), r, s)
<1> DEFINE d == drain(g)
<1>1. AdmitsNobody(g, d) \/ \E o \in Owners : Admits(g, d, o)
  BY DrainOutcome
<1> HIDE DEF d
<1>2. CASE AdmitsNobody(g, d)
  BY <1>2 DEF d, AdmitsNobody, WaitsFor, Ahead
<1>3. CASE \E o \in Owners : Admits(g, d, o)
  BY <1>3, AdmitsKeepsOrder DEF d
<1> QED BY <1>1, <1>2, <1>3 DEF d

\* One element comes before another.
Before(s, a, b) == \E i, j \in DOMAIN s : i < j /\ s[i] = a /\ s[j] = b

\* Taking an element out keeps the others in their order.
LEMMA WithoutKeepsOrder ==
    ASSUME NEW T, NEW s \in Seq(T), NEW x, NEW a, NEW b, Before(s, a, b), a # x, b # x
    PROVE  Before(Without(s, x), a, b)
<1>0. Len(s) \in Nat /\ DOMAIN s = 1..Len(s)
  BY LenProperties
<1>3. PICK i, j \in DOMAIN s : i < j /\ s[i] = a /\ s[j] = b
  BY DEF Before
<1> SUFFICES \E k, l \in DOMAIN Without(s, x) :
              k < l /\ Without(s, x)[k] = s[i] /\ Without(s, x)[l] = s[j]
  BY <1>3 DEF Before
<1>1. CASE ~Listed(s, x)
  BY <1>1, <1>3 DEF Without
<1>2. CASE Listed(s, x)
  <2> DEFINE m == First(At(s, x))
  <2>1. At(s, x) \subseteq Nat /\ At(s, x) # {}
    BY <1>0, <1>2 DEF Listed, At
  <2>2. m \in At(s, x)
    BY <2>1, FirstIn
  <2>3. m \in 1..Len(s) /\ s[m] = x
    BY <1>0, <2>2 DEF At
  <2>4. Without(s, x) = Splice(s, m)
    BY <1>2 DEF Without
  <2> HIDE DEF m
  <2> DEFINE t == Splice(s, m)
  <2>5. /\ DOMAIN t = 1..(Len(s) - 1)
        /\ \A k \in 1..(Len(s) - 1) : t[k] = IF k < m THEN s[k] ELSE s[k + 1]
    BY DEF Splice
  <2> HIDE DEF t
  <2>6. i # m /\ j # m /\ i < j
    BY <1>3, <2>3
  <2>7. CASE j < m
    BY <1>0, <2>3, <2>4, <2>5, <2>6, <2>7 DEF t
  <2>8. CASE i < m /\ m < j
    <3>2. i < j - 1 /\ i \in 1..(Len(s) - 1) /\ j - 1 \in 1..(Len(s) - 1) /\ (j - 1) + 1 = j
      BY <1>0, <2>3, <2>8
    <3>3. t[i] = s[i] /\ t[j - 1] = s[j]
      BY <1>0, <2>3, <2>5, <2>8, <3>2
    <3> QED BY <2>4, <2>5, <3>2, <3>3 DEF t
  <2>9. CASE m < i
    <3>1. i - 1 \in 1..(Len(s) - 1) /\ j - 1 \in 1..(Len(s) - 1) /\ i - 1 < j - 1
          /\ (i - 1) + 1 = i /\ (j - 1) + 1 = j
      BY <1>0, <2>3, <2>6, <2>9
    <3>2. t[i - 1] = s[i] /\ t[j - 1] = s[j]
      BY <1>0, <2>3, <2>5, <2>9, <3>1
    <3> QED BY <2>4, <2>5, <3>1, <3>2 DEF t
  <2> QED BY <1>0, <2>3, <2>6, <2>7, <2>8, <2>9
<1> QED BY <1>1, <1>2

\* A new call waits behind its owner's older ones.
LEMMA EnqueueKeepsOrder ==
    ASSUME NEW g, Sound(g), NEW x \in Requests, g.status[x] # "pending",
           g.status[x] # "granted", ~g.closed,
           NEW r \in Requests, NEW s \in Requests, r # s, OwnerOf[r] = OwnerOf[s],
           WaitsFor(g, r, s)
    PROVE  /\ WaitsFor(enqueue(g, x), r, s)
           /\ enqueue(g, x).status[s] = "granted" => g.status[s] = "granted"
<1> DEFINE f == enqueue(g, x)
           o == OwnerOf[r]
           q == g.queue[o]
<1>1. f.status = [g.status EXCEPT ![x] = "pending"]
  BY DEF enqueue, Sound, IsGate, Fields
<1>2. f.queue = [g.queue EXCEPT ![OwnerOf[x]] = Append(@, x)]
  BY EnqueueSound
<1> HIDE DEF f
<1>3. o \in Owners /\ q \in Seq(Requests) /\ g.status \in [Requests -> Status]
      /\ g.queue \in [Owners -> Seq(Requests)]
  BY GateConfig DEF Sound, IsGate, GateConfig
<1>4. r # x
  BY DEF WaitsFor
<1>5. Listed(q, r) /\ g.status[r] = "pending"
  BY DEF Sound, QueuesExact, WaitsFor
<1>6. f.status[r] = "pending"
  BY <1>1, <1>3, <1>4, <1>5
<1>7. f.queue[o] = q \/ (OwnerOf[x] = o /\ f.queue[o] = Append(q, x))
  BY <1>2, <1>3
<1> HIDE DEF q, o
<1>8. /\ Len(q) \in Nat /\ DOMAIN q = 1..Len(q)
      /\ DOMAIN Append(q, x) = 1..(Len(q) + 1)
      /\ \A k \in 1..Len(q) : Append(q, x)[k] = q[k]
      /\ Append(q, x)[Len(q) + 1] = x
  BY <1>3, AppendProperties, LenProperties
<1>9. ASSUME f.status[s] = "pending" PROVE Ahead(f, r, s)
  <2>1. CASE s = x
    <3>1. f.queue[o] = Append(q, x)
      BY <1>2, <1>3, <2>1 DEF o, q
    <3>2. PICK k \in DOMAIN q : q[k] = r
      BY <1>5 DEF Listed, At
    <3> QED BY <1>8, <2>1, <3>1, <3>2 DEF Ahead, o
  <2>2. CASE s # x
    <3>1. PICK i, j \in DOMAIN q : i < j /\ q[i] = r /\ q[j] = s
      BY <1>1, <1>3, <1>9, <2>2 DEF WaitsFor, Ahead, q, o
    <3> QED BY <1>7, <1>8, <3>1 DEF Ahead, o
  <2> QED BY <2>1, <2>2
<1>10. f.status[s] = "granted" => g.status[s] = "granted"
  BY <1>1, <1>3
<1> QED BY <1>6, <1>9, <1>10 DEF WaitsFor, f

\* A call that gives up leaves the others in their order.
LEMMA AbandonKeepsOrder ==
    ASSUME NEW g, Sound(g), NEW x \in Requests, g.status[x] = "pending",
           NEW r \in Requests, NEW s \in Requests, r # s, r # x, OwnerOf[r] = OwnerOf[s],
           WaitsFor(g, r, s)
    PROVE  LET f == reject(removePending(g, x), x)
           IN  /\ WaitsFor(f, r, s)
               /\ f.status[s] = "granted" => g.status[s] = "granted"
               /\ f.status[x] = "rejected"
<1> DEFINE f == reject(removePending(g, x), x)
           o == OwnerOf[r]
           q == g.queue[o]
<1>1. /\ f.status = [g.status EXCEPT ![x] = "rejected"]
      /\ f.queue = [g.queue EXCEPT ![OwnerOf[x]] = Without(@, x)]
  BY DEF reject, removePending, Sound, IsGate, Fields
<1> HIDE DEF f
<1>3. o \in Owners /\ q \in Seq(Requests) /\ g.status \in [Requests -> Status]
      /\ g.queue \in [Owners -> Seq(Requests)]
  BY GateConfig DEF Sound, IsGate, GateConfig
<1>6. f.status[r] = "pending"
  BY <1>1, <1>3 DEF WaitsFor
<1>7. f.queue[o] = q \/ f.queue[o] = Without(q, x)
  BY <1>1, <1>3
<1> HIDE DEF q, o
<1>9. ASSUME f.status[s] = "pending" PROVE Ahead(f, r, s)
  <2>1. s # x /\ g.status[s] = "pending"
    BY <1>1, <1>3, <1>9
  <2>2. Before(q, r, s)
    BY <2>1 DEF WaitsFor, Ahead, Before, q, o
  <2>3. Before(Without(q, x), r, s)
    BY <1>3, <2>1, <2>2, WithoutKeepsOrder
  <2> QED BY <1>7, <2>2, <2>3 DEF Ahead, Before, o
<1>10. (f.status[s] = "granted" => g.status[s] = "granted") /\ f.status[x] = "rejected"
  BY <1>1, <1>3
<1> QED BY <1>6, <1>9, <1>10 DEF WaitsFor, f

\* A drain makes nobody wait who did not.
LEMMA DrainWaitsLess ==
    ASSUME NEW g, Sound(g), NEW r \in Requests, drain(g).status[r] = "pending"
    PROVE  g.status[r] = "pending"
<1>1. \A o \in Owners : Admits(g, drain(g), o) =>
         Head(g.queue[o]) \in Requests
  BY HeadFacts DEF Sound, Admits
<1>2. g.status \in [Requests -> Status]
  BY DEF Sound, IsGate
<1> QED BY <1>1, <1>2, DrainOutcome DEF AdmitsNobody, Admits

\* One step of the gate keeps the order of an owner's calls.
LEMMA OrderKept ==
    ASSUME GateInv, Next, NEW r \in Requests, NEW s \in Requests,
           r # s, OwnerOf[r] = OwnerOf[s], WaitsFor(gate, r, s), gate'.status[r] = "pending"
    PROVE  /\ gate'.status[s] = "granted" => gate.status[s] = "granted"
           /\ gate'.status[s] = "pending" => Ahead(gate', r, s)
<1> DEFINE Kept == /\ gate'.status[s] = "granted" => gate.status[s] = "granted"
                   /\ gate'.status[s] = "pending" => Ahead(gate', r, s)
<1>0. /\ Sound(gate) /\ NobodyRunnable(gate) /\ IsGate(gate)
      /\ gate.status \in [Requests -> Status] /\ gate.waiting \in Seq(Owners)
      /\ OwnerOf[r] \in Owners
  BY GateConfig DEF GateInv, Sound, IsGate, GateConfig
<1>1. gate.queue[OwnerOf[r]] # <<>> /\ gate.waiting # <<>>
  <2>1. Listed(gate.queue[OwnerOf[r]], r)
    BY <1>0 DEF WaitsFor, Sound, QueuesExact
  <2>2. gate.queue[OwnerOf[r]] # <<>>
    BY <2>1 DEF Listed, At
  <2> QED BY <1>0, <2>2, ListedNonEmpty DEF Sound, ListExact
<1>2. ASSUME NEW x \in Requests, CanAcquire(x), gate' = reject(gate, x) PROVE Kept
  <2>1. gate'.status = [gate.status EXCEPT ![x] = "rejected"] /\ gate'.queue = gate.queue
    BY <1>0, <1>2 DEF reject, IsGate, Fields
  <2> QED BY <1>0, <2>1 DEF WaitsFor, Ahead
<1>3. ASSUME NEW x \in Requests, AcquireImmediately(x) PROVE Kept
  BY <1>1, <1>3 DEF AcquireImmediately, Immediate
<1>4. ASSUME NEW x \in Requests, AcquireAtFullQueue(x) PROVE Kept
  <2> DEFINE d == drain(gate)
  <2>1. Sound(d) /\ AdmitsNobody(gate, d)
    BY <1>0, DrainOutcome DEF Admits, NobodyRunnable
  <2>2. \/ gate' = grant(d, x) /\ canStart(d, OwnerOf[x])
        \/ gate' = reject(d, x)
    BY <1>4 DEF AcquireAtFullQueue
  <2> HIDE DEF d
  <2>3. CASE gate' = reject(d, x)
    <3>1. gate'.status = [d.status EXCEPT ![x] = "rejected"] /\ gate'.queue = d.queue
      BY <2>1, <2>3 DEF reject, Sound, IsGate, Fields
    <3> QED BY <1>0, <2>1, <3>1 DEF WaitsFor, Ahead, AdmitsNobody
  <2>4. CASE gate' = grant(d, x) /\ canStart(d, OwnerOf[x])
    <3>1. gate'.status = [d.status EXCEPT ![x] = "granted"] /\ gate'.queue = d.queue
      BY <2>1, <2>4 DEF grant, Sound, IsGate, Fields
    <3>2. canStart(gate, OwnerOf[x])
      BY <2>1, <2>4 DEF canStart, AdmitsNobody
    <3>3. OwnerOf[x] # OwnerOf[r]
      BY <1>0, <1>1, <3>2 DEF NobodyRunnable
    <3> QED BY <1>0, <2>1, <3>1, <3>3 DEF WaitsFor, Ahead, AdmitsNobody
  <2> QED BY <2>2, <2>3, <2>4
<1>5. ASSUME NEW x \in Requests, AcquireQueued(x) PROVE Kept
  <2>1. /\ gate.status[x] # "pending" /\ gate.status[x] # "granted" /\ ~gate.closed
        /\ gate' = drain(enqueue(gate, x))
    BY <1>5 DEF AcquireQueued, CanAcquire
  <2>2. /\ WaitsFor(enqueue(gate, x), r, s)
        /\ enqueue(gate, x).status[s] = "granted" => gate.status[s] = "granted"
    BY <1>0, <2>1, EnqueueKeepsOrder
  <2>3. Sound(enqueue(gate, x))
    BY <1>0, <2>1, EnqueueSound
  <2> QED BY <2>1, <2>2, <2>3, DrainKeepsOrder
<1>6. ASSUME NEW x \in Requests, RejectAndRemove(x) PROVE Kept
  <2> DEFINE f == reject(removePending(gate, x), x)
  <2>1. gate.status[x] = "pending" /\ gate' = drain(f)
    BY <1>6 DEF RejectAndRemove
  <2>2. Sound(f)
    BY <1>0, <2>1, AbandonSound
  <2>3. f.status[x] = "rejected"
    BY <1>0 DEF reject, removePending, IsGate, Fields
  <2>4. r # x
    <3> HIDE DEF f
    <3> QED BY <2>1, <2>2, <2>3, DrainWaitsLess
  <2>5. WaitsFor(f, r, s) /\ (f.status[s] = "granted" => gate.status[s] = "granted")
    BY <1>0, <2>1, <2>4, AbandonKeepsOrder
  <2> HIDE DEF f
  <2> QED BY <2>1, <2>2, <2>5, DrainKeepsOrder
<1>7. ASSUME NEW x \in Requests, Release(x) PROVE Kept
  <2>1. gate.status[x] = "granted" /\ gate' = drain(freed(gate, x))
    BY <1>7 DEF Release, freed
  <2>2. /\ freed(gate, x).status = [gate.status EXCEPT ![x] = "released"]
        /\ freed(gate, x).queue = gate.queue
    BY <1>0 DEF freed, IsGate, Fields
  <2>3. /\ WaitsFor(freed(gate, x), r, s)
        /\ freed(gate, x).status[s] = "granted" => gate.status[s] = "granted"
    BY <1>0, <2>1, <2>2 DEF WaitsFor, Ahead
  <2>4. Sound(freed(gate, x))
    BY <1>0, <2>1, FreedSound
  <2> QED BY <2>1, <2>3, <2>4, DrainKeepsOrder
<1>8. ASSUME Close PROVE Kept
  <2>1. gate'.status = [q \in Requests |-> IF gate.status[q] = "pending" THEN "rejected"
                                           ELSE gate.status[q]]
    BY <1>0, <1>8 DEF Close, IsGate, Fields
  <2> QED BY <2>1
<1>9. ASSUME gate' = gate PROVE Kept
  BY <1>9 DEF WaitsFor
<1> HIDE DEF Kept
<1>10. Kept
  BY <1>2, <1>3, <1>4, <1>5, <1>6, <1>7, <1>8, <1>9
     DEF Next, ReleaseAgain, AcquireRefused, AcquireWithoutWaiting
<1> QED BY <1>10 DEF Kept

\* A closed gate stays closed, and admits and queues nobody.
LEMMA ClosedKept ==
    ASSUME GateInv, GateInv', Next, gate.closed
    PROVE  /\ gate'.closed
           /\ \A r \in Requests : gate'.status[r] # "pending"
           /\ \A r \in Requests : gate'.status[r] = "granted" => gate.status[r] = "granted"
<1>0. /\ Sound(gate) /\ IsGate(gate) /\ gate.status \in [Requests -> Status]
      /\ Sound(gate') /\ IsGate(gate')
  BY DEF GateInv, Sound, IsGate
<1>1. \A r \in Requests : gate.status[r] # "pending"
  <2>1. gate.waiting = <<>>
    BY <1>0 DEF Sound, ClosedIsEmpty
  <2>2. \A o \in Owners : ~Listed(gate.waiting, o)
    BY <1>0, <2>1, ListedNonEmpty DEF IsGate
  <2>3. \A o \in Owners : gate.queue[o] = <<>>
    BY <1>0, <2>2 DEF Sound, ListExact
  <2>4. \A x : ~Listed(<<>>, x)
    BY DEF Listed, At
  <2>5. \A r \in Requests : OwnerOf[r] \in Owners
    BY GateConfig DEF GateConfig
  <2> QED BY <1>0, <2>3, <2>4, <2>5 DEF Sound, QueuesExact
<1>2. ASSUME NEW x \in Requests, AcquireRefused(x)
      PROVE  gate'.closed /\ gate'.status = [gate.status EXCEPT ![x] = "rejected"]
  BY <1>0, <1>2 DEF AcquireRefused, reject, IsGate, Fields
<1>3. ASSUME NEW x \in Requests, Release(x)
      PROVE  gate'.closed /\ gate'.status = [gate.status EXCEPT ![x] = "released"]
  <2>1. freed(gate, x).closed /\ freed(gate, x).status = [gate.status EXCEPT ![x] = "released"]
    BY <1>0 DEF freed, IsGate, Fields
  <2>2. gate' = drain(freed(gate, x))
    BY <1>3 DEF Release, freed
  <2> QED BY <2>1, <2>2 DEF drain
<1>4. gate' = gate \/ \E x \in Requests : AcquireRefused(x) \/ Release(x)
  BY <1>1 DEF Next, AcquireImmediately, AcquireWithoutWaiting, AcquireAtFullQueue, AcquireQueued,
              RejectAndRemove, ReleaseAgain, Close
<1> QED BY <1>0, <1>1, <1>2, <1>3, <1>4

\* Nobody is admitted before an older call of its owner, and nobody once the
\* gate is closed.
THEOREM InOrder == Spec => AdmittedInOrder
<1>1. GateInv /\ GateInv' /\ [Next]_vars =>
        [\A r, s \in Requests :
          /\ r # s /\ OwnerOf[r] = OwnerOf[s]
          /\ gate.status[r] = "pending" /\ gate'.status[r] = "pending"
          /\ gate.status[s] = "pending" => Ahead(gate, r, s)
          => /\ gate'.status[s] = "granted" => gate.status[s] = "granted"
             /\ gate'.status[s] = "pending" => Ahead(gate', r, s)]_vars
  BY OrderKept DEF WaitsFor
<1>2. GateInv /\ GateInv' /\ [Next]_vars =>
        [gate.closed =>
         /\ gate'.closed
         /\ \A r \in Requests : gate'.status[r] \notin {"pending"}
         /\ \A r \in Requests : gate'.status[r] = "granted"
                                   => gate.status[r] = "granted"]_vars
  BY ClosedKept
<1> QED BY <1>1, <1>2, GateInvAlways, PTL DEF Spec, AdmittedInOrder, OwnerFifo, ClosedForGood

-----------------------------------------------------------------------------
(* The turns of the owners. While an owner waits that could be served, the *)
(* gate is full, and only three kinds of steps are left: one that changes   *)
(* no list, one that queues a further owner, and a release that admits an   *)
(* owner further ahead in the rotated list, who goes behind.               *)

Order(g) == rotateAfterLastGrantedOwner(g)

\* The owners that come after this one.
Behind(g, o) == {p \in Owners : Before(Order(g), o, p)}

\* t becomes t2 when x is inserted at m.
Inserted(t, t2, m, x) ==
    /\ DOMAIN t2 = 1..(Len(t) + 1)
    /\ \A k \in 1..Len(t) : k < m => t2[k] = t[k]
    /\ t2[m] = x
    /\ \A k \in 1..Len(t) : m <= k => t2[k + 1] = t[k]

\* An element at this place or behind it.
From(t, m, b) == \E k \in 1..Len(t) : m <= k /\ t[k] = b

\* The others keep their order, and those after the new one were after its place.
LEMMA InsertedOrder ==
    ASSUME NEW t, Len(t) \in Nat, DOMAIN t = 1..Len(t), NEW t2,
           NEW m, m \in 1..(Len(t) + 1), NEW x, Inserted(t, t2, m, x)
    PROVE  /\ \A a, b : Before(t, a, b) => Before(t2, a, b)
           /\ \A a, b : Before(t2, a, b) /\ a # x /\ b # x => Before(t, a, b)
           /\ \A b : Before(t2, x, b) /\ b # x /\ ~Listed(t, x) => From(t, m, b)
<1>0. Len(t) \in Nat /\ DOMAIN t = 1..Len(t) /\ m \in Nat
  OBVIOUS
<1>1. \A k \in 1..Len(t) : IF k < m THEN k \in DOMAIN t2 /\ t2[k] = t[k]
                           ELSE k + 1 \in DOMAIN t2 /\ t2[k + 1] = t[k]
  BY <1>0 DEF Inserted
<1>2. \A k \in DOMAIN t2 : \/ k < m /\ k \in 1..Len(t) /\ t2[k] = t[k]
                           \/ k = m /\ t2[k] = x
                           \/ m < k /\ k - 1 \in 1..Len(t) /\ m <= k - 1 /\ t2[k] = t[k - 1]
  <2> TAKE k \in DOMAIN t2
  <2>1. k \in 1..(Len(t) + 1)
    BY DEF Inserted
  <2>2. CASE k < m
    BY <1>0, <2>1, <2>2 DEF Inserted
  <2>3. CASE k = m
    BY <2>3 DEF Inserted
  <2>4. CASE m < k
    <3>1. k - 1 \in 1..Len(t) /\ m <= k - 1 /\ (k - 1) + 1 = k
      BY <1>0, <2>1, <2>4
    <3> QED BY <2>4, <3>1 DEF Inserted
  <2> QED BY <1>0, <2>1, <2>2, <2>3, <2>4
<1>3. ASSUME NEW a, NEW b, Before(t, a, b) PROVE Before(t2, a, b)
  <2>1. PICK i, j \in 1..Len(t) : i < j /\ t[i] = a /\ t[j] = b
    BY <1>0, <1>3 DEF Before
  <2>2. CASE j < m
    BY <1>0, <1>1, <2>1, <2>2 DEF Before
  <2>3. CASE i < m /\ ~(j < m)
    <3>1. i \in DOMAIN t2 /\ t2[i] = a /\ j + 1 \in DOMAIN t2 /\ t2[j + 1] = b /\ i < j + 1
      BY <1>0, <1>1, <2>1, <2>3
    <3> QED BY <3>1 DEF Before
  <2>4. CASE ~(i < m)
    <3>1. /\ i + 1 \in DOMAIN t2 /\ t2[i + 1] = a
          /\ j + 1 \in DOMAIN t2 /\ t2[j + 1] = b /\ i + 1 < j + 1
      BY <1>0, <1>1, <2>1, <2>4
    <3> QED BY <3>1 DEF Before
  <2> QED BY <1>0, <2>1, <2>2, <2>3, <2>4
<1>4. ASSUME NEW a, NEW b, Before(t2, a, b), a # x, b # x PROVE Before(t, a, b)
  <2>1. PICK i, j \in DOMAIN t2 : i < j /\ t2[i] = a /\ t2[j] = b
    BY <1>4 DEF Before
  <2>2. /\ \/ i < m /\ i \in 1..Len(t) /\ a = t[i]
           \/ m < i /\ i - 1 \in 1..Len(t) /\ a = t[i - 1]
        /\ \/ j < m /\ j \in 1..Len(t) /\ b = t[j]
           \/ m < j /\ j - 1 \in 1..Len(t) /\ b = t[j - 1]
    <3>1. i # m /\ j # m
      BY <1>4, <2>1 DEF Inserted
    <3>2. \/ i < m /\ i \in 1..Len(t) /\ t2[i] = t[i]
          \/ m < i /\ i - 1 \in 1..Len(t) /\ t2[i] = t[i - 1]
      BY <1>2, <2>1, <3>1
    <3>3. \/ j < m /\ j \in 1..Len(t) /\ t2[j] = t[j]
          \/ m < j /\ j - 1 \in 1..Len(t) /\ t2[j] = t[j - 1]
      BY <1>2, <2>1, <3>1
    <3> QED BY <2>1, <3>2, <3>3
  <2>3. i \in Nat /\ j \in Nat
    BY <1>0, <2>1 DEF Inserted
  <2> QED BY <1>0, <2>1, <2>2, <2>3 DEF Before
<1>5. ASSUME NEW b, Before(t2, x, b), b # x, ~Listed(t, x)
      PROVE  From(t, m, b)
  <2>1. PICK i, j \in DOMAIN t2 : i < j /\ t2[i] = x /\ t2[j] = b
    BY <1>5 DEF Before
  <2>2. i = m
    BY <1>0, <1>2, <1>5, <2>1 DEF Listed, At
  <2> QED BY <1>0, <1>2, <1>5, <2>1, <2>2 DEF From
<1> QED BY <1>3, <1>4, <1>5

\* Where the one element of a list without duplicates is.
LEMMA PlaceOf ==
    ASSUME NEW T, NEW s \in Seq(T), Distinct(s), NEW x, Listed(s, x)
    PROVE  /\ First(At(s, x)) \in 1..Len(s)
           /\ s[First(At(s, x))] = x
           /\ \A k \in 1..Len(s) : s[k] = x => k = First(At(s, x))
<1>0. Len(s) \in Nat /\ DOMAIN s = 1..Len(s)
  BY LenProperties
<1>1. At(s, x) \subseteq Nat /\ At(s, x) # {}
  BY <1>0 DEF Listed, At
<1>2. First(At(s, x)) \in At(s, x)
  BY <1>1, FirstIn
<1> QED BY <1>0, <1>2 DEF At, Distinct

\* Turning a list by its whole length changes nothing.
LEMMA RotateWhole ==
    ASSUME NEW T, NEW s \in Seq(T)
    PROVE  Rotate(s, Len(s)) = s
<1>0. Len(s) \in Nat /\ DOMAIN s = 1..Len(s) /\ s = [k \in 1..Len(s) |-> s[k]]
  BY LenProperties
<1>1. Rotate(s, Len(s)) = [k \in 1..Len(s) |-> s[k]]
  BY <1>0 DEF Rotate
<1> QED BY <1>0, <1>1

\* A further owner is inserted in the rotated list, behind all that the
\* rotation leaves in front of the last granted owner's place.
LEMMA EnqueueOrder ==
    ASSUME NEW g, NEW h, Sound(g), NEW q \in Owners, ~Listed(g.waiting, q),
           h.waiting = Append(g.waiting, q), h.last = g.last
    PROVE  /\ \A a, b : Before(Order(g), a, b) => Before(Order(h), a, b)
           /\ \A a, b : Before(Order(h), a, b) /\ a # q /\ b # q => Before(Order(g), a, b)
           /\ \A b : Before(Order(h), q, b) /\ b # q =>
                        b = g.last \/ Before(Order(g), b, g.last)
<1> DEFINE s == g.waiting
           l == g.last
           n == Len(s)
           S == Append(s, q)
           t == Order(g)
           t2 == Order(h)
<1>0. s \in Seq(Owners) /\ Distinct(s) /\ n \in Nat /\ DOMAIN s = 1..n
  BY LenProperties DEF Sound, IsGate, ListExact
<1>1. /\ S \in Seq(Owners) /\ Len(S) = n + 1 /\ DOMAIN S = 1..(n + 1)
      /\ \A k \in 1..n : S[k] = s[k]
      /\ S[n + 1] = q
  BY <1>0, AppendProperties, LenProperties
<1>2. Distinct(S) /\ \A y : Listed(S, y) <=> Listed(s, y) \/ y = q
  BY <1>0, AppendKeeps
<1>3. ~Listed(s, q)
  OBVIOUS
<1>4. /\ t = IF Listed(s, l) THEN Rotate(s, First(At(s, l))) ELSE s
      /\ t2 = IF Listed(S, l) THEN Rotate(S, First(At(S, l))) ELSE S
  BY DEF Order, rotateAfterLastGrantedOwner
<1>5. /\ t \in Seq(Owners) /\ Len(t) = n /\ DOMAIN t = 1..Len(t)
      /\ \A x : Listed(t, x) <=> Listed(s, x)
  BY RotatedList, LenProperties DEF Order
<1> HIDE DEF s, l, n, S, t, t2
<1>6. CASE ~Listed(s, l)
  <2>1. t = s
    BY <1>4, <1>6
  <2>2. t2 = S
    <3>1. CASE l = q
      <4>1. First(At(S, l)) = n + 1
        <5>1. \A k \in 1..Len(S) : S[k] = l => k = First(At(S, l))
          BY <1>1, <1>2, <3>1, PlaceOf
        <5> QED BY <1>0, <1>1, <3>1, <5>1
      <4>2. t2 = Rotate(S, Len(S))
        BY <1>1, <1>2, <1>4, <3>1, <4>1
      <4> QED BY <1>1, <4>2, RotateWhole
    <3>2. CASE l # q
      BY <1>2, <1>4, <1>6, <3>2
    <3> QED BY <3>1, <3>2
  <2>3. Inserted(t, t2, n + 1, q)
    BY <1>0, <1>1, <1>5, <2>1, <2>2 DEF Inserted
  <2>4. n + 1 \in 1..(Len(t) + 1) /\ ~\E k \in 1..Len(t) : n + 1 <= k
    BY <1>0, <1>5
  <2>5. ~Listed(t, q)
    BY <1>3, <1>5
  <2>6. /\ \A a, b : Before(t, a, b) => Before(t2, a, b)
        /\ \A a, b : Before(t2, a, b) /\ a # q /\ b # q => Before(t, a, b)
        /\ \A b : ~(Before(t2, q, b) /\ b # q)
    <3>1. Len(t) \in Nat
      BY <1>0, <1>5
    <3>2. DOMAIN t = 1..Len(t)
      BY <1>5
    <3>3. n + 1 \in 1..(Len(t) + 1)
      BY <2>4
    <3> DEFINE m == n + 1
    <3> HIDE DEF m
    <3>4. /\ \A a, b : Before(t, a, b) => Before(t2, a, b)
          /\ \A a, b : Before(t2, a, b) /\ a # q /\ b # q => Before(t, a, b)
          /\ \A b : Before(t2, q, b) /\ b # q /\ ~Listed(t, q) => From(t, m, b)
      <4>1. m \in 1..(Len(t) + 1) /\ Inserted(t, t2, m, q)
        BY <2>3, <3>3 DEF m
      <4> QED BY ONLY <3>1, <3>2, <4>1, InsertedOrder
    <3> QED BY <2>4, <2>5, <3>4 DEF m, From
  <2> QED BY <2>6 DEF t, t2
<1>7. CASE Listed(s, l)
  <2> DEFINE c == First(At(s, l))
             m == n - c + 1
  <2>1. c \in 1..n /\ s[c] = l
    BY <1>0, <1>7, PlaceOf DEF n
  <2>2. First(At(S, l)) = c
    <3>1. \A i \in 1..Len(S) : S[i] = l => i = First(At(S, l))
      BY <1>1, <1>2, <1>7, PlaceOf
    <3>2. c \in 1..Len(S) /\ S[c] = l
      BY <1>0, <1>1, <2>1
    <3> HIDE DEF c
    <3> QED BY <3>1, <3>2
  <2>3. t = Rotate(s, c) /\ t2 = Rotate(S, c)
    BY <1>2, <1>4, <1>7, <2>2
  <2> HIDE DEF c
  <2>4. /\ \A i \in 1..n : t[i] = IF i <= n - c THEN s[c + i] ELSE s[i - (n - c)]
        /\ DOMAIN t2 = 1..(n + 1)
        /\ \A i \in 1..(n + 1) : t2[i] = IF i <= n + 1 - c THEN S[c + i] ELSE S[i - (n + 1 - c)]
    <3>1. \A i \in 1..n : t[i] = IF i <= n - c THEN s[c + i] ELSE s[i - (n - c)]
      BY <2>3 DEF Rotate, n
    <3>2. t2 = [i \in 1..Len(S) |-> IF i <= Len(S) - c THEN S[c + i] ELSE S[i - (Len(S) - c)]]
      BY <2>3 DEF Rotate
    <3>3. Len(S) = n + 1
      BY <1>1
    <3>4. /\ DOMAIN t2 = 1..Len(S)
          /\ \A i \in 1..Len(S) : t2[i] = IF i <= Len(S) - c THEN S[c + i] ELSE S[i - (Len(S) - c)]
      BY ONLY <3>2
    <3> QED BY ONLY <1>0, <2>1, <3>1, <3>3, <3>4
  <2>5. Inserted(t, t2, m, q)
    <3>1. DOMAIN t2 = 1..(Len(t) + 1)
      BY <1>5, <2>4
    <3>2. ASSUME NEW i \in 1..Len(t), i < m PROVE t2[i] = t[i]
      <4>1. i \in 1..n /\ i \in 1..(n + 1) /\ i <= n - c /\ i <= n + 1 - c /\ c + i \in 1..n
        BY <1>0, <1>5, <2>1, <3>2
      <4> QED BY <1>1, <2>4, <4>1
    <3>3. t2[m] = q
      <4>1. m \in 1..(n + 1) /\ m <= n + 1 - c /\ c + m = n + 1
        BY <1>0, <2>1
      <4> HIDE DEF m
      <4> QED BY <1>1, <2>4, <4>1
    <3>4. ASSUME NEW i \in 1..Len(t), m <= i PROVE t2[i + 1] = t[i]
      <4>1. /\ i \in 1..n /\ i + 1 \in 1..(n + 1) /\ ~(i <= n - c) /\ ~(i + 1 <= n + 1 - c)
            /\ i - (n - c) \in 1..n /\ (i + 1) - (n + 1 - c) = i - (n - c)
        <5>1. n \in Nat /\ Len(t) = n /\ c \in 1..n /\ m <= i
          BY <1>0, <1>5, <2>1, <3>4
        <5>2. i \in 1..n /\ n - c + 1 <= i
          BY <5>1
        <5> QED BY ONLY <5>1, <5>2
      <4>2. t[i] = s[i - (n - c)] /\ t2[i + 1] = S[(i + 1) - (n + 1 - c)]
        BY ONLY <2>4, <4>1
      <4> QED BY <1>1, <4>1, <4>2
    <3> QED BY <3>1, <3>2, <3>3, <3>4 DEF Inserted
  <2>6. m \in 1..(Len(t) + 1) /\ ~Listed(t, q)
    BY <1>0, <1>3, <1>5, <2>1
  <2>7. /\ \A a, b : Before(t, a, b) => Before(t2, a, b)
        /\ \A a, b : Before(t2, a, b) /\ a # q /\ b # q => Before(t, a, b)
        /\ \A b : Before(t2, q, b) /\ b # q => \E i \in 1..Len(t) : m <= i /\ t[i] = b
    <3>1. Len(t) \in Nat
      BY <1>0, <1>5
    <3>2. DOMAIN t = 1..Len(t)
      BY <1>5
    <3> HIDE DEF m
    <3>4. /\ \A a, b : Before(t, a, b) => Before(t2, a, b)
          /\ \A a, b : Before(t2, a, b) /\ a # q /\ b # q => Before(t, a, b)
          /\ \A b : Before(t2, q, b) /\ b # q /\ ~Listed(t, q) => From(t, m, b)
      <4>1. m \in 1..(Len(t) + 1) /\ Inserted(t, t2, m, q)
        BY <2>5, <2>6
      <4> QED BY ONLY <3>1, <3>2, <4>1, InsertedOrder
    <3> QED BY ONLY <2>6, <3>4 DEF From
  <2>8. t[n] = l /\ n \in DOMAIN t /\ DOMAIN t = 1..n
    <3>1. n \in 1..n /\ ~(n <= n - c) /\ n - (n - c) = c
      BY <1>0, <2>1
    <3>2. t[n] = s[n - (n - c)]
      BY ONLY <2>4, <3>1
    <3> QED BY <1>5, <2>1, <3>1, <3>2, LenProperties
  <2>9. ASSUME NEW b, Before(t2, q, b), b # q PROVE b = l \/ Before(t, b, l)
    <3>1. PICK i \in 1..Len(t) : t[i] = b
      BY <2>7, <2>9
    <3>2. i = n \/ i < n
      BY <1>0, <1>5, <3>1
    <3> QED BY <1>5, <2>8, <3>1, <3>2 DEF Before
  <2> QED BY <2>7, <2>9 DEF t, t2, l
<1> QED BY <1>6, <1>7

\* Element i is taken out behind those passed over and perhaps put at the end:
\* an element further on keeps what was behind it, and what is before it now
\* was before it then.
LEMMA PassOver ==
    ASSUME NEW T, NEW w \in Seq(T), Distinct(w), NEW i \in 1..Len(w), NEW j \in 1..Len(w),
           i < j, NEW t, t = TakeOut(w, i) \/ t = Append(TakeOut(w, i), w[i])
    PROVE  /\ \A b : Before(w, w[j], b) => Before(t, w[j], b)
           /\ \A a : Before(t, a, w[j]) => Before(w, a, w[j]) /\ a # w[i]
<1> DEFINE s == TakeOut(w, i)
           n == Len(w)
           u == w[j]
           p == w[i]
<1>0. n \in Nat /\ DOMAIN w = 1..n /\ i \in Nat /\ j \in Nat /\ p \in T /\ u # p
  BY LenProperties, ElementOfSeq DEF Distinct
<1>1. /\ s \in Seq(T) /\ Distinct(s) /\ ~Listed(s, p)
  BY TakeOutKeeps
<1>2. /\ s = [k \in 1..(n - 1) |-> IF k <= n - i THEN w[i + k] ELSE w[k - (n - i)]]
  BY DEF TakeOut
<1>3. Len(s) = n - 1 /\ DOMAIN s = 1..(n - 1)
  <2>1. DOMAIN s = 1..(n - 1)
    BY <1>2
  <2>2. Len(s) \in Nat /\ DOMAIN s = 1..Len(s)
    BY <1>1, LenProperties
  <2>3. n - 1 \in Nat
    BY <1>0
  <2> HIDE DEF s, n
  <2> QED BY <2>1, <2>2, <2>3
<1>4. \A k \in 1..n : i < k => k - i \in DOMAIN s /\ s[k - i] = w[k]
  <2> TAKE k \in 1..n
  <2> HAVE i < k
  <2>1. k - i \in 1..(n - 1) /\ k - i <= n - i /\ i + (k - i) = k
    BY <1>0
  <2> HIDE DEF s, n
  <2> QED BY <1>2, <1>3, <2>1
<1>5. \A k \in 1..(n - 1) : k <= n - i => s[k] = w[i + k]
  BY <1>2
<1>6. \A k \in DOMAIN s : k \in DOMAIN t /\ t[k] = s[k]
  BY <1>0, <1>1, <1>3, AppendProperties
<1>7. \A k \in DOMAIN t : \/ k \in DOMAIN s /\ t[k] = s[k]
                          \/ k = n /\ t[k] = p
  <2> HIDE DEF s
  <2>1. CASE t = s
    BY <2>1
  <2>2. CASE t = Append(s, p)
    <3>1. DOMAIN t = 1..(Len(s) + 1) /\ t[Len(s) + 1] = p
      BY <1>0, <1>1, <2>2, AppendProperties, LenProperties
    <3>3. Len(s) + 1 = n
      BY <1>0, <1>3
    <3>4. DOMAIN t = 1..n /\ t[n] = p
      BY ONLY <3>1, <3>3
    <3> HIDE DEF n
    <3>2. \A k \in 1..n : k \in 1..(n - 1) \/ k = n
      <4>1. n \in Nat
        BY <1>0
      <4> QED BY ONLY <4>1
    <3> QED BY <1>3, <1>6, <3>2, <3>4
  <2> QED BY <2>1, <2>2 DEF s
<1>8. j - i \in DOMAIN s /\ s[j - i] = u
  BY <1>0, <1>4
<1> HIDE DEF s, n, u, p
<1>9. ASSUME NEW b, Before(w, u, b) PROVE Before(t, u, b)
  <2>1. PICK k, l \in 1..n : k < l /\ w[k] = u /\ w[l] = b
    BY <1>0, <1>9 DEF Before
  <2>2. k = j
    BY <1>0, <2>1 DEF Distinct, u, n
  <2>3. i < l /\ l - i \in DOMAIN s /\ s[l - i] = b /\ j - i < l - i
    BY <1>0, <1>4, <2>1, <2>2
  <2> QED BY <1>6, <1>8, <2>3 DEF Before
<1>10. ASSUME NEW a, Before(t, a, u) PROVE Before(w, a, u) /\ a # p
  <2>1. PICK k, l \in DOMAIN t : k < l /\ t[k] = a /\ t[l] = u
    BY <1>10 DEF Before
  <2>2. l \in DOMAIN s /\ s[l] = u
    BY <1>0, <1>7, <2>1
  <2>3. l = j - i
    BY <1>1, <1>8, <2>2 DEF Distinct
  <2>4. k \in 1..(n - 1) /\ s[k] = a
    BY <1>0, <1>3, <1>7, <2>1, <2>2
  <2>5. k <= n - i /\ i + k \in 1..n /\ i + k < j
    BY <1>0, <2>1, <2>3, <2>4 DEF n
  <2>6. w[i + k] = a
    BY <1>5, <2>4, <2>5
  <2>7. a # p
    BY <1>1, <1>3, <2>4 DEF Listed, At
  <2> QED BY <1>0, <2>5, <2>6, <2>7 DEF Before, u, n
<1> QED BY <1>9, <1>10 DEF u, p

\* As long as an owner waits that could be served, the gate is full.
LEMMA FullWhileEligible ==
    ASSUME GateInv, NEW u \in Owners, Eligible(gate, u)
    PROVE  ~gate.closed /\ gate.active >= MaxActive /\ gate.waiting # <<>>
<1>0. /\ Sound(gate) /\ NobodyRunnable(gate) /\ IsGate(gate)
      /\ gate.waiting \in Seq(Owners) /\ gate.active \in Nat /\ MaxActive \in Nat
  BY GateConfig DEF GateInv, Sound, IsGate, GateConfig
<1>1. Listed(gate.waiting, u)
  BY <1>0 DEF Eligible, Sound, ListExact
<1>2. gate.waiting # <<>>
  BY <1>0, <1>1, ListedNonEmpty
<1>3. ~gate.closed
  BY <1>0, <1>2 DEF Sound, ClosedIsEmpty
<1> QED BY <1>0, <1>2, <1>3 DEF NobodyRunnable, canStart, Eligible

\* Nobody new has a permit.
NobodyNew == \A r \in Requests : gate'.status[r] = "granted" => gate.status[r] = "granted"

\* The lists and the last granted owner stay, or one owner is queued more.
ListsStay == gate'.waiting = gate.waiting /\ gate'.last = gate.last
OneMore == \E q \in Owners : /\ ~Listed(gate.waiting, q)
                             /\ gate'.waiting = Append(gate.waiting, q)
                             /\ gate'.last = gate.last

\* What a step may be while an owner waits that could be served, and nobody
\* gives up.
LEMMA StepsWhileEligible ==
    ASSUME GateInv, Next, NEW u \in Owners, Eligible(gate, u), gate'.queue[u] # <<>>, ~GaveUp
    PROVE  \/ NobodyNew /\ (ListsStay \/ OneMore)
           \/ \E r \in Requests : Release(r)
<1> DEFINE Stays == NobodyNew /\ (ListsStay \/ OneMore)
<1>0. /\ Sound(gate) /\ IsGate(gate) /\ gate.status \in [Requests -> Status]
      /\ gate.active \in Nat /\ MaxActive \in Nat
      /\ ~gate.closed /\ gate.active >= MaxActive /\ gate.waiting # <<>>
      /\ \A r \in Requests : OwnerOf[r] \in Owners
  BY FullWhileEligible, GateConfig DEF GateInv, Sound, IsGate, GateConfig
<1>1. ASSUME NEW r \in Requests, CanAcquire(r), gate' = reject(gate, r) PROVE Stays
  <2>1. /\ gate'.status = [gate.status EXCEPT ![r] = "rejected"]
        /\ gate'.waiting = gate.waiting /\ gate'.last = gate.last
    BY <1>0, <1>1 DEF reject, IsGate, Fields
  <2> QED BY <1>0, <2>1 DEF NobodyNew, ListsStay
<1>2. ASSUME NEW r \in Requests, AcquireImmediately(r) PROVE FALSE
  BY <1>0, <1>2 DEF AcquireImmediately, Immediate
<1>3. ASSUME NEW r \in Requests, AcquireAtFullQueue(r) PROVE CanAcquire(r) /\ gate' = reject(gate, r)
  <2>1. drain(gate) = gate
    BY <1>0 DEF drain
  <2>2. ~canStart(gate, OwnerOf[r])
    BY <1>0 DEF canStart
  <2> QED BY <1>3, <2>1, <2>2 DEF AcquireAtFullQueue
<1>4. ASSUME NEW r \in Requests, AcquireQueued(r) PROVE Stays
  <2>1. /\ gate.status[r] # "granted" /\ gate.status[r] # "pending" /\ gate' = drain(enqueue(gate, r))
    BY <1>4 DEF AcquireQueued, CanAcquire
  <2>2. /\ enqueue(gate, r).active = gate.active
        /\ enqueue(gate, r).status = [gate.status EXCEPT ![r] = "pending"]
        /\ enqueue(gate, r).last = gate.last
        /\ enqueue(gate, r).waiting = IF gate.queue[OwnerOf[r]] = <<>>
                                      THEN Append(gate.waiting, OwnerOf[r]) ELSE gate.waiting
    BY <1>0 DEF enqueue, IsGate, Fields
  <2>3. gate' = enqueue(gate, r)
    BY <1>0, <2>1, <2>2 DEF drain
  <2>4. NobodyNew
    BY <1>0, <2>2, <2>3 DEF NobodyNew
  <2>5. CASE gate.queue[OwnerOf[r]] = <<>>
    <3>1. ~Listed(gate.waiting, OwnerOf[r]) /\ OwnerOf[r] \in Owners
      BY <1>0, <2>5 DEF Sound, ListExact
    <3> QED BY <2>2, <2>3, <2>4, <2>5, <3>1 DEF OneMore
  <2>6. CASE gate.queue[OwnerOf[r]] # <<>>
    BY <2>2, <2>3, <2>4, <2>6 DEF ListsStay
  <2> QED BY <2>5, <2>6
<1>5. ASSUME NEW r \in Requests, RejectAndRemove(r) PROVE FALSE
  <2> DEFINE f == reject(removePending(gate, r), r)
  <2>1. gate.status[r] = "pending" /\ gate' = drain(f)
    BY <1>5 DEF RejectAndRemove
  <2>2. Sound(f)
    BY <1>0, <2>1, AbandonSound
  <2>3. f.status[r] = "rejected" /\ f.status \in [Requests -> Status]
    BY <1>0, <2>2 DEF reject, removePending, Sound, IsGate, Fields
  <2> HIDE DEF f
  <2>4. \A o \in Owners : Admits(f, drain(f), o) =>
           Head(f.queue[o]) \in Requests /\ f.status[Head(f.queue[o])] = "pending"
    BY <2>2, HeadFacts DEF Sound, Admits
  <2>5. gate'.status[r] = "rejected"
    BY <2>1, <2>2, <2>3, <2>4, DrainOutcome DEF AdmitsNobody, Admits
  <2> QED BY <2>1, <2>5 DEF GaveUp
<1>6. ASSUME Close PROVE FALSE
  <2>1. gate'.queue = [o \in Owners |-> <<>>]
    BY <1>0, <1>6 DEF Close, IsGate, Fields
  <2> QED BY <2>1
<1>7. ASSUME gate' = gate PROVE Stays
  BY <1>7 DEF NobodyNew, ListsStay
<1> HIDE DEF Stays
<1>8. Stays \/ \E r \in Requests : Release(r)
  BY <1>1, <1>2, <1>3, <1>4, <1>5, <1>6, <1>7
     DEF Next, ReleaseAgain, AcquireRefused, AcquireWithoutWaiting
<1> QED BY <1>8 DEF Stays

\* A release admits the first owner of the rotated list that could start: not
\* one behind the owner that waits and could be served.
LEMMA ReleaseWhileEligible ==
    ASSUME GateInv, NEW r \in Requests, Release(r), NEW u \in Owners, Eligible(gate, u),
           u \notin AdmittedNow
    PROVE  \E i, j \in 1..Len(Order(gate)) :
              LET w == Order(gate)
              IN  /\ i < j /\ w[j] = u
                  /\ AdmittedNow = {w[i]} /\ gate'.last = w[i]
                  /\ \/ gate'.waiting = TakeOut(w, i)
                     \/ gate'.waiting = Append(TakeOut(w, i), w[i])
<1> DEFINE f == freed(gate, r)
           w == Order(gate)
<1>0. /\ Sound(gate) /\ IsGate(gate) /\ gate.status \in [Requests -> Status]
      /\ gate.active \in Nat /\ MaxActive \in Nat /\ gate.byOwner \in [Owners -> Nat]
      /\ ~gate.closed /\ gate.waiting # <<>> /\ gate.active <= MaxActive
      /\ OwnerOf[r] \in Owners /\ gate.status[r] = "granted" /\ gate' = drain(f)
  BY FullWhileEligible, GateConfig DEF GateInv, Sound, Bounded, IsGate, GateConfig, Release, freed
<1>1. /\ Sound(f) /\ f.active = gate.active - 1 /\ f.queue = gate.queue /\ f.closed = gate.closed
      /\ f.byOwner = [gate.byOwner EXCEPT ![OwnerOf[r]] = @ - 1]
      /\ f.waiting = gate.waiting /\ f.last = gate.last
      /\ f.status = [gate.status EXCEPT ![r] = "released"]
  <2>1. /\ f.waiting = gate.waiting /\ f.last = gate.last
        /\ f.status = [gate.status EXCEPT ![r] = "released"]
    BY <1>0 DEF freed, IsGate, Fields
  <2> QED BY <1>0, <2>1, FreedSound
<1>2. w = rotateAfterLastGrantedOwner(f)
  BY <1>1 DEF Order, rotateAfterLastGrantedOwner
<1>3. /\ w \in Seq(Owners) /\ Distinct(w) /\ DOMAIN w = 1..Len(w) /\ Len(w) \in Nat
      /\ \A x : Listed(w, x) <=> Listed(gate.waiting, x)
  BY <1>0, RotatedList, LenProperties DEF Order
<1> HIDE DEF f, w
<1>4. canStart(f, u)
  <2>1. gate.byOwner[u] < MaxActivePerOwner
    BY DEF Eligible
  <2>2. f.byOwner[u] <= gate.byOwner[u] /\ f.byOwner[u] \in Int
    BY <1>0, <1>1
  <2> QED BY <1>0, <1>1, <2>1, <2>2, GateConfig DEF canStart, GateConfig
<1>5. PICK j \in 1..Len(w) : w[j] = u
  <2>1. Listed(gate.waiting, u)
    BY <1>0 DEF Eligible, Sound, ListExact
  <2> QED BY <1>3, <2>1 DEF Listed, At
<1>6. j \in Startable(f, w)
  BY <1>3, <1>4, <1>5 DEF Startable
<1> DEFINE i == First(Startable(f, w))
<1>7. i \in Startable(f, w) /\ i <= j
  <2>1. Startable(f, w) \subseteq Nat /\ Startable(f, w) # {}
    BY <1>3, <1>6 DEF Startable
  <2> QED BY <1>6, <2>1, FirstIn
<1>8. gate' = grantAt(f, w, i)
  <2>1. ~(f.closed \/ f.active >= MaxActive \/ f.waiting = <<>>)
    BY <1>0, <1>1
  <2> QED BY <1>0, <1>2, <1>6, <2>1 DEF drain
<1> HIDE DEF i
<1>9. i \in 1..Len(w) /\ canStart(f, w[i])
  BY <1>3, <1>7 DEF Startable
<1>10. \A o \in Owners : f.queue[o] # <<>> <=> Listed(w, o)
  BY <1>1, <1>3, <1>0 DEF Sound, ListExact
<1>11. Admits(f, gate', w[i])
  BY <1>1, <1>3, <1>8, <1>9, <1>10, GrantAtSound
<1>12. w[i] \in Owners
  BY <1>3, <1>9, ElementOfSeq
<1> DEFINE h == Head(f.queue[w[i]])
<1>13. h \in Requests /\ OwnerOf[h] = w[i] /\ f.status[h] = "pending"
  BY <1>1, <1>11, <1>12, HeadFacts DEF Admits, Sound
<1>14. gate'.status = [f.status EXCEPT ![h] = "granted"]
  BY <1>11 DEF Admits
<1>15. gate'.last = w[i] /\ gate'.waiting = IF Tail(f.queue[w[i]]) = <<>> THEN TakeOut(w, i)
                                            ELSE Append(TakeOut(w, i), w[i])
  BY <1>1, <1>8, <1>13 DEF grantAt, grant, Sound, IsGate, Fields
<1> HIDE DEF h
<1>16. AdmittedNow = {w[i]}
  <2>1. {q \in Requests : gate.status[q] # "granted" /\ gate'.status[q] = "granted"} = {h}
    BY <1>0, <1>1, <1>13, <1>14
  <2> QED BY <1>13, <2>1 DEF AdmittedNow
<1>17. i < j
  BY <1>5, <1>7, <1>9, <1>16
<1> QED BY <1>5, <1>9, <1>15, <1>16, <1>17 DEF w

\* How often v was admitted while u waited, at most: once for every owner behind
\* u; and once more when v has had its turn and is itself no longer before u,
\* but then neither v nor the last granted owner counts.
TurnOf(g, b, u, v) ==
    b[u][v] # 0 =>
        /\ Eligible(g, u) /\ v # u /\ g.last # u
        /\ Before(Order(g), v, u) => b[u][v] <= Cardinality(Behind(g, u))
        /\ b[u][v] <= 1 + Cardinality(Behind(g, u) \ {v, g.last})
           \/ Before(Order(g), v, u)

Turns ==
    /\ bypass \in [Owners -> [Owners -> Nat]]
    /\ \A u, v \in Owners : TurnOf(gate, bypass, u, v)

\* The owners behind one are finitely many.
LEMMA BehindFinite ==
    ASSUME NEW g, NEW u
    PROVE  /\ IsFiniteSet(Owners) /\ Cardinality(Owners) \in Nat
           /\ IsFiniteSet(Behind(g, u)) /\ Cardinality(Behind(g, u)) \in Nat
           /\ \A S : /\ IsFiniteSet(Behind(g, u) \ S)
                     /\ Cardinality(Behind(g, u) \ S) \in Nat
                     /\ Cardinality(Behind(g, u) \ S) <= Cardinality(Behind(g, u))
<1>1. IsFiniteSet(Owners)
  BY GateConfig DEF GateConfig
<1>2. IsFiniteSet(Behind(g, u))
  BY <1>1, FS_Subset DEF Behind
<1>3. ASSUME NEW S PROVE /\ IsFiniteSet(Behind(g, u) \ S)
                         /\ Cardinality(Behind(g, u) \ S) <= Cardinality(Behind(g, u))
  <2>1. Behind(g, u) \ S \subseteq Behind(g, u)
    OBVIOUS
  <2> QED BY <1>2, <2>1, FS_Subset
<1> QED BY <1>1, <1>2, <1>3, FS_CardinalityType

\* Nobody is behind itself.
LEMMA NotBehindItself ==
    ASSUME NEW g, Sound(g), NEW u
    PROVE  /\ u \notin Behind(g, u)
           /\ \A v : Before(Order(g), v, u) => v \notin Behind(g, u)
<1>1. /\ Distinct(Order(g)) /\ DOMAIN Order(g) = 1..Len(Order(g)) /\ Len(Order(g)) \in Nat
  BY RotatedList, LenProperties DEF Order
<1>2. \A a, b : Before(Order(g), a, b) => ~Before(Order(g), b, a)
  BY <1>1 DEF Before, Distinct
<1> QED BY <1>2 DEF Behind

\* The bound: always fewer than there are owners.
LEMMA TurnsBound ==
    ASSUME Sound(gate), Turns, NEW u \in Owners, NEW v \in Owners
    PROVE  bypass[u][v] < Cardinality(Owners)
<1> DEFINE B == Behind(gate, u)
<1>0. bypass[u][v] \in Nat
  BY DEF Turns
<1>1. /\ IsFiniteSet(Owners) /\ Cardinality(Owners) \in Nat
      /\ IsFiniteSet(B) /\ Cardinality(B) \in Nat
      /\ IsFiniteSet(B \ {v, gate.last}) /\ Cardinality(B \ {v, gate.last}) \in Nat
  BY BehindFinite
<1>2. u \notin B /\ (Before(Order(gate), v, u) => v \notin B) /\ B \subseteq Owners
  BY NotBehindItself DEF Behind
<1> HIDE DEF B
<1>3. CASE bypass[u][v] = 0
  <2>1. Cardinality(Owners) # 0
    BY <1>1, FS_EmptySet
  <2> QED BY <1>1, <1>3, <2>1
<1>4. CASE bypass[u][v] # 0 /\ Before(Order(gate), v, u)
  <2>1. bypass[u][v] <= Cardinality(B)
    BY <1>4 DEF Turns, TurnOf, B
  <2>2. Cardinality(B) < Cardinality(Owners)
    <3>1. B \subseteq Owners /\ B # Owners
      BY <1>2
    <3> QED BY <1>1, <3>1, FS_Subset
  <2> QED BY <1>0, <1>1, <2>1, <2>2
<1>5. CASE bypass[u][v] # 0 /\ ~Before(Order(gate), v, u)
  <2> DEFINE C == B \ {v, gate.last}
  <2>1. bypass[u][v] <= 1 + Cardinality(C) /\ v # u
    BY <1>5 DEF Turns, TurnOf, B
  <2>2. IsFiniteSet(C) /\ Cardinality(C) \in Nat
    BY <1>1
  <2>3. /\ C \cup {v} \subseteq Owners /\ C \cup {v} # Owners /\ v \notin C
    BY <1>2, <2>1
  <2> HIDE DEF C
  <2>4. Cardinality(C \cup {v}) = Cardinality(C) + 1
    BY <2>2, <2>3, FS_AddElement
  <2>5. Cardinality(C \cup {v}) < Cardinality(Owners)
    <3> DEFINE D == C \cup {v}
    <3>1. D \subseteq Owners /\ D # Owners
      BY <2>3
    <3> HIDE DEF D
    <3>2. IsFiniteSet(D) /\ Cardinality(D) <= Cardinality(Owners) /\ Cardinality(D) # Cardinality(Owners)
      BY <1>1, <3>1, FS_Subset
    <3>3. Cardinality(D) \in Nat
      BY <3>2, FS_CardinalityType
    <3> QED BY <1>1, <3>2, <3>3 DEF D
  <2> QED BY <1>0, <1>1, <2>1, <2>2, <2>4, <2>5
<1> QED BY <1>3, <1>4, <1>5

\* More owners behind u, and the same counts.
LEMMA MoreBehind ==
    ASSUME NEW g, NEW h, NEW b, b \in [Owners -> [Owners -> Nat]], NEW c,
           NEW u \in Owners, NEW v \in Owners, TurnOf(g, b, u, v), c[u][v] = b[u][v],
           b[u][v] # 0 => Eligible(h, u) /\ h.last # u,
           Behind(g, u) \subseteq Behind(h, u),
           Before(Order(h), v, u) =>
               Before(Order(g), v, u) \/ b[u][v] <= Cardinality(Behind(g, u)),
           Before(Order(g), v, u) =>
               Before(Order(h), v, u) \/ (v \notin Behind(g, u) /\ h.last \notin Behind(g, u)),
           h.last = g.last \/ h.last \notin Behind(g, u)
    PROVE  TurnOf(h, c, u, v)
<1> SUFFICES ASSUME c[u][v] # 0 PROVE TurnOf(h, c, u, v)
  BY DEF TurnOf
<1> DEFINE G == Behind(g, u)
           H == Behind(h, u)
           n == b[u][v]
<1>0. n \in Nat /\ n # 0 /\ c[u][v] = n
  OBVIOUS
<1>1. /\ IsFiniteSet(G) /\ Cardinality(G) \in Nat /\ IsFiniteSet(H) /\ Cardinality(H) \in Nat
      /\ Cardinality(G \ {v, g.last}) \in Nat
      /\ IsFiniteSet(H \ {v, h.last}) /\ Cardinality(H \ {v, h.last}) \in Nat
  BY BehindFinite
<1>2. Cardinality(G) <= Cardinality(H)
  BY <1>1, FS_Subset
<1>3. /\ v # u
      /\ Before(Order(g), v, u) => n <= Cardinality(G)
      /\ Before(Order(g), v, u) \/ n <= 1 + Cardinality(G \ {v, g.last})
  BY <1>0 DEF TurnOf
<1> HIDE DEF G, H, n
<1>4. Before(Order(h), v, u) => n <= Cardinality(H)
  BY <1>0, <1>1, <1>2, <1>3 DEF G, n
<1>5. CASE Before(Order(h), v, u)
  BY <1>0, <1>3, <1>4, <1>5 DEF TurnOf, H, n
<1>6. CASE ~Before(Order(h), v, u)
  <2>1. n <= 1 + Cardinality(H \ {v, h.last})
    <3>1. CASE Before(Order(g), v, u)
      <4>1. G \subseteq H \ {v, h.last}
        BY <1>6, <3>1 DEF G, H
      <4>2. Cardinality(G) <= Cardinality(H \ {v, h.last})
        BY <1>1, <4>1, FS_Subset
      <4> QED BY <1>0, <1>1, <1>3, <3>1, <4>2
    <3>2. CASE ~Before(Order(g), v, u)
      <4>1. G \ {v, g.last} \subseteq H \ {v, h.last}
        BY DEF G, H
      <4>2. Cardinality(G \ {v, g.last}) <= Cardinality(H \ {v, h.last})
        BY <1>1, <4>1, FS_Subset
      <4> QED BY <1>0, <1>1, <1>3, <3>2, <4>2
    <3> QED BY <3>1, <3>2
  <2> QED BY <1>0, <1>3, <1>6, <2>1 DEF TurnOf, H, n
<1> QED BY <1>5, <1>6

\* A step that admits nobody keeps the counts within the bound.
LEMMA TurnsWithoutGrant ==
    ASSUME GateInv, GateInv', Turns, NEW u \in Owners, NEW v \in Owners,
           Eligible(gate, u), Eligible(gate', u), ListsStay \/ OneMore,
           NEW c, c[u][v] = bypass[u][v]
    PROVE  TurnOf(gate', c, u, v)
<1>0. /\ Sound(gate) /\ TurnOf(gate, bypass, u, v)
      /\ bypass \in [Owners -> [Owners -> Nat]]
      /\ gate'.last = gate.last
      /\ bypass[u][v] # 0 => gate.last # u
  BY DEF GateInv, Turns, TurnOf, ListsStay, OneMore
<1>1. CASE ListsStay
  <2>1. Order(gate') = Order(gate)
    BY <1>1 DEF ListsStay, Order, rotateAfterLastGrantedOwner
  <2>2. Behind(gate', u) = Behind(gate, u)
    BY <2>1 DEF Behind
  <2> QED BY <1>0, <2>1, <2>2, MoreBehind
<1>2. CASE OneMore
  <2>1. PICK q \in Owners : ~Listed(gate.waiting, q) /\ gate'.waiting = Append(gate.waiting, q)
    BY <1>2 DEF OneMore
  <2>2. /\ \A a, b : Before(Order(gate), a, b) => Before(Order(gate'), a, b)
        /\ \A a, b : Before(Order(gate'), a, b) /\ a # q /\ b # q => Before(Order(gate), a, b)
        /\ \A b : Before(Order(gate'), q, b) /\ b # q =>
                     b = gate.last \/ Before(Order(gate), b, gate.last)
    BY <1>0, <2>1, EnqueueOrder
  <2>3. Behind(gate, u) \subseteq Behind(gate', u)
    BY <2>2 DEF Behind
  <2>4. u # q
    BY <1>0, <2>1 DEF Eligible, Sound, ListExact
  <2>5. ASSUME bypass[u][v] # 0, Before(Order(gate'), v, u), ~Before(Order(gate), v, u)
        PROVE  bypass[u][v] <= Cardinality(Behind(gate, u))
    <3>1. v = q
      BY <2>2, <2>4, <2>5
    <3>2. Before(Order(gate), u, gate.last)
      BY <1>0, <2>2, <2>4, <2>5, <3>1
    <3>3. gate.last \in Behind(gate, u)
      <4>1. gate.last \in Owners
        <5>1. Listed(Order(gate), gate.last) /\ Order(gate) \in Seq(Owners)
          BY <1>0, <3>2, RotatedList DEF Before, Listed, At, Order
        <5> QED BY <5>1, ElementOfSeq, LenProperties DEF Listed, At
      <4> QED BY <3>2, <4>1 DEF Behind
    <3>4. Cardinality(Behind(gate, u) \ {v, gate.last}) < Cardinality(Behind(gate, u))
      <4> DEFINE D == Behind(gate, u) \ {v, gate.last}
      <4>1. D \subseteq Behind(gate, u) /\ D # Behind(gate, u)
        BY <3>3
      <4>2. IsFiniteSet(Behind(gate, u)) /\ Cardinality(Behind(gate, u)) \in Nat /\ Cardinality(D) \in Nat
        BY BehindFinite
      <4> HIDE DEF D
      <4>3. Cardinality(D) <= Cardinality(Behind(gate, u)) /\ Cardinality(D) # Cardinality(Behind(gate, u))
        BY <4>1, <4>2, FS_Subset
      <4> QED BY <4>2, <4>3 DEF D
    <3>5. bypass[u][v] <= 1 + Cardinality(Behind(gate, u) \ {v, gate.last})
      BY <1>0, <2>5 DEF TurnOf
    <3>6. /\ Cardinality(Behind(gate, u) \ {v, gate.last}) \in Nat
          /\ Cardinality(Behind(gate, u)) \in Nat /\ bypass[u][v] \in Nat
      BY <1>0, BehindFinite
    <3> QED BY <3>4, <3>5, <3>6
  <2>6. CASE bypass[u][v] = 0
    BY <2>6 DEF TurnOf
  <2>7. CASE bypass[u][v] # 0
    BY <1>0, <2>2, <2>3, <2>5, <2>7, MoreBehind
  <2> QED BY <2>6, <2>7
<1> QED BY <1>1, <1>2

\* The list in which the last granted owner is at the end, or is not, is in order.
LEMMA OrderAtEnd ==
    ASSUME NEW g, NEW s \in Seq(Owners), NEW p \in Owners, ~Listed(s, p), Distinct(s),
           g.last = p, g.waiting = s \/ g.waiting = Append(s, p)
    PROVE  Order(g) = g.waiting
<1>1. CASE g.waiting = s
  BY <1>1 DEF Order, rotateAfterLastGrantedOwner
<1>2. CASE g.waiting = Append(s, p)
  <2> DEFINE S == Append(s, p)
  <2>1. /\ S \in Seq(Owners) /\ Len(S) = Len(s) + 1 /\ S[Len(s) + 1] = p /\ Len(s) \in Nat
    BY AppendProperties, LenProperties
  <2>2. Distinct(S) /\ Listed(S, p)
    BY AppendKeeps
  <2> HIDE DEF S
  <2>3. Len(S) \in 1..Len(S) /\ S[Len(S)] = p
    BY <2>1
  <2>4. First(At(S, p)) = Len(S)
    BY <2>1, <2>2, <2>3, PlaceOf
  <2>5. Order(g) = Rotate(S, Len(S))
    BY <1>2, <2>2, <2>4 DEF Order, rotateAfterLastGrantedOwner, S
  <2> QED BY <1>2, <2>1, <2>5, RotateWhole DEF S
<1> QED BY <1>1, <1>2

\* A release keeps the counts within the bound.
LEMMA TurnsWithGrant ==
    ASSUME GateInv, GateInv', Turns, NEW r \in Requests, Release(r),
           NEW u \in Owners, NEW v \in Owners,
           Eligible(gate, u), Eligible(gate', u), u \notin AdmittedNow,
           NEW c, c[u][v] \in Nat,
           IF v \in AdmittedNow THEN c[u][v] <= bypass[u][v] + 1 ELSE c[u][v] = bypass[u][v]
    PROVE  TurnOf(gate', c, u, v)
<1> DEFINE w == Order(gate)
<1>0. /\ Sound(gate) /\ Sound(gate') /\ TurnOf(gate, bypass, u, v)
      /\ bypass \in [Owners -> [Owners -> Nat]]
  BY DEF GateInv, Turns
<1>1. PICK i, j \in 1..Len(w) :
         /\ i < j /\ w[j] = u
         /\ AdmittedNow = {w[i]} /\ gate'.last = w[i]
         /\ \/ gate'.waiting = TakeOut(w, i)
            \/ gate'.waiting = Append(TakeOut(w, i), w[i])
  BY ReleaseWhileEligible
<1>2. w \in Seq(Owners) /\ Distinct(w) /\ DOMAIN w = 1..Len(w) /\ Len(w) \in Nat
  BY <1>0, RotatedList, LenProperties DEF Order
<1> DEFINE p == w[i]
<1>3. p \in Owners /\ Before(w, p, u)
  BY <1>1, <1>2, ElementOfSeq DEF Before
<1>4. Order(gate') = gate'.waiting
  <2>1. TakeOut(w, i) \in Seq(Owners) /\ Distinct(TakeOut(w, i)) /\ ~Listed(TakeOut(w, i), p)
    BY <1>2, TakeOutKeeps
  <2> QED BY <1>1, <1>3, <2>1, OrderAtEnd
<1>5. /\ \A b : Before(w, u, b) => Before(Order(gate'), u, b)
      /\ \A a : Before(Order(gate'), a, u) => Before(w, a, u) /\ a # p
  <2> DEFINE t == gate'.waiting
  <2>1. i < j /\ (t = TakeOut(w, i) \/ t = Append(TakeOut(w, i), w[i]))
    BY <1>1
  <2> HIDE DEF t, w
  <2>2. /\ \A b : Before(w, w[j], b) => Before(t, w[j], b)
        /\ \A a : Before(t, a, w[j]) => Before(w, a, w[j]) /\ a # w[i]
    BY ONLY <1>2, <2>1, i \in 1..Len(w), j \in 1..Len(w), PassOver
  <2> QED BY <1>1, <1>4, <2>2 DEF t
<1>6. Behind(gate, u) \subseteq Behind(gate', u)
  BY <1>5 DEF Behind
<1>7. /\ p \notin Behind(gate, u) /\ (Before(w, v, u) => v \notin Behind(gate, u))
      /\ gate'.last = p /\ p # u
  BY <1>0, <1>1, <1>3, NotBehindItself
<1> HIDE DEF w, p
<1>8. CASE v # p
  <2>1. c[u][v] = bypass[u][v]
    BY <1>1, <1>8 DEF p
  <2> QED BY <1>0, <1>5, <1>6, <1>7, <2>1, MoreBehind DEF w
<1>9. CASE v = p
  <2> DEFINE D == Behind(gate', u) \ {v, gate'.last}
  <2>1. c[u][v] <= bypass[u][v] + 1 /\ bypass[u][v] \in Nat
    BY <1>0, <1>1, <1>9 DEF p
  <2>2. bypass[u][v] <= Cardinality(Behind(gate, u))
    <3>1. CASE bypass[u][v] = 0
      BY <3>1, BehindFinite
    <3>2. CASE bypass[u][v] # 0
      BY <1>0, <1>3, <1>9, <3>2 DEF TurnOf, w
    <3> QED BY <3>1, <3>2
  <2>3. /\ IsFiniteSet(D) /\ Cardinality(D) \in Nat
        /\ Cardinality(Behind(gate, u)) \in Nat
    BY BehindFinite
  <2>4. Behind(gate, u) \subseteq D
    BY <1>6, <1>7, <1>9
  <2> HIDE DEF D
  <2>5. Cardinality(Behind(gate, u)) <= Cardinality(D)
    BY <2>3, <2>4, FS_Subset
  <2>6. c[u][v] <= 1 + Cardinality(D)
    BY <2>1, <2>2, <2>3, <2>5
  <2>7. ~Before(Order(gate'), v, u)
    BY <1>5, <1>9
  <2> QED BY <1>7, <1>9, <2>6, <2>7 DEF TurnOf, D
<1> QED BY <1>8, <1>9

\* Every step keeps the counts within the bound.
LEMMA TurnsNext ==
    ASSUME GateInv, GateInv', Turns, [HistNext]_histVars
    PROVE  Turns'
<1>1. CASE UNCHANGED histVars
  BY <1>1 DEF histVars, Turns, TurnOf, Eligible, Behind, Order, rotateAfterLastGrantedOwner
<1>2. CASE HistNext
  <2>0. bypass \in [Owners -> [Owners -> Nat]] /\ Next /\ Observe
    BY <1>2 DEF Turns, HistNext
  <2> DEFINE kept(o) == ~GaveUp /\ Eligible(gate, o) /\ Eligible(gate', o) /\ o \notin AdmittedNow
             row(o) == [p \in Owners |-> IF p \in AdmittedNow /\ bypass[o][p] < MaxBypass
                                         THEN bypass[o][p] + 1 ELSE bypass[o][p]]
  <2>1. bypass' = [o \in Owners |-> IF kept(o) THEN row(o) ELSE Never[o]]
    BY <2>0 DEF Observe
  <2>2. \A o \in Owners : row(o) \in [Owners -> Nat]
    BY <2>0
  <2>3. \A o \in Owners : Never[o] \in [Owners -> Nat] /\ \A p \in Owners : Never[o][p] = 0
    BY DEF Never
  <2>4. \A u, v \in Owners : row(u)[v] = IF v \in AdmittedNow /\ bypass[u][v] < MaxBypass
                                         THEN bypass[u][v] + 1 ELSE bypass[u][v]
    OBVIOUS
  <2> HIDE DEF kept, row
  <2>5. bypass' \in [Owners -> [Owners -> Nat]]
    BY <2>1, <2>2, <2>3
  <2>6. ASSUME NEW u \in Owners, NEW v \in Owners PROVE TurnOf(gate', bypass', u, v)
    <3>1. CASE ~kept(u)
      <4>1. bypass'[u][v] = 0
        BY <2>1, <2>3, <3>1
      <4> QED BY <4>1 DEF TurnOf
    <3>2. CASE kept(u)
      <4>1. ~GaveUp /\ Eligible(gate, u) /\ Eligible(gate', u) /\ u \notin AdmittedNow
        BY <3>2 DEF kept
      <4>2. /\ bypass'[u][v] = IF v \in AdmittedNow /\ bypass[u][v] < MaxBypass
                               THEN bypass[u][v] + 1 ELSE bypass[u][v]
            /\ bypass'[u][v] \in Nat /\ bypass[u][v] \in Nat
        BY <2>0, <2>1, <2>4, <2>5, <3>2
      <4>3. \/ NobodyNew /\ (ListsStay \/ OneMore)
            \/ \E r \in Requests : Release(r)
        BY <2>0, <4>1, StepsWhileEligible DEF Eligible
      <4> DEFINE c == bypass'
      <4>4. CASE NobodyNew /\ (ListsStay \/ OneMore)
        <5>1. AdmittedNow = {}
          BY <4>4 DEF NobodyNew, AdmittedNow
        <5>2. c[u][v] = bypass[u][v]
          BY <4>2, <5>1
        <5> HIDE DEF c
        <5> QED BY <4>1, <4>4, <5>2, TurnsWithoutGrant DEF c
      <4>5. CASE \E r \in Requests : Release(r)
        <5>1. /\ c[u][v] \in Nat
              /\ IF v \in AdmittedNow THEN c[u][v] <= bypass[u][v] + 1 ELSE c[u][v] = bypass[u][v]
          BY <4>2
        <5> HIDE DEF c
        <5> QED BY <4>1, <4>5, <5>1, TurnsWithGrant DEF c
      <4> QED BY <4>3, <4>4, <4>5
    <3> QED BY <3>1, <3>2
  <2> QED BY <2>5, <2>6 DEF Turns
<1> QED BY <1>1, <1>2

\* In every behaviour the counts stay below the number of owners.
Below == \A o, p \in Owners : bypass[o][p] < Cardinality(Owners)

\* The gate's turns, for any owners, calls and limits: an owner's calls are
\* admitted in their order, nobody is once the gate is closed, and while an
\* owner waits and could be served no other is admitted as often as there are
\* owners: drain, rotateAfterLastGrantedOwner, enqueue and close.
THEOREM TurnsHonoured == HistSpec => ServedInTurn
<1>1. HistInit => Init /\ Turns
  BY DEF HistInit, Turns, TurnOf, Never
<1>2. [HistNext]_histVars => [Next]_vars
  BY DEF HistNext, histVars, vars
<1>3. HistSpec => Spec
  BY <1>1, <1>2, PTL DEF HistSpec, Spec
<1>4. GateInv /\ GateInv' /\ Turns /\ [HistNext]_histVars => Turns'
  BY TurnsNext
<1>5. HistSpec => [](GateInv /\ Turns)
  BY <1>1, <1>3, <1>4, GateInvAlways, PTL DEF HistSpec
<1>6. GateInv /\ Turns => Below
  BY TurnsBound DEF GateInv, Below
<1>7. Below' => [\A o, p \in Owners : bypass'[o][p] < Cardinality(Owners)]_histVars
  BY DEF Below
<1>8. HistSpec => OwnersRotate
  BY <1>5, <1>6, <1>7, PTL DEF OwnersRotate
<1> QED BY <1>3, <1>8, InOrder, PTL DEF ServedInTurn

-----------------------------------------------------------------------------
(* The desktop's runtime of the local server: its inductive invariant.     *)

Child == Children \cup {NoChild}

Start == [pc : {"none", "env", "health", "pushing", "killing"},
          child : Child, token : 0..MaxToken, stale : BOOLEAN]
Restart == [pc : {"none", "stopping", "starting"}, child : Child]
Call == [pc : {"none", "put", "restart"}, child : Child, token : 0..MaxToken]

RuntimeTypes ==
    /\ Runtime!TypeOK
    /\ start \in Start /\ restart \in Restart
    /\ call \in [Runtime!Callers -> Call]
    /\ \A f \in Runtime!Callers : call[f].pc = "put" => call[f].child \in Children
    /\ quit \in BOOLEAN

\* As long as a start may still make its child the server, there is none.
Serving == start.pc \in {"env", "health", "killing"} => server = NoChild

\* What is on the way to a child is the last token.
Fresh ==
    /\ token # 0 => token = issued
    /\ \A f \in Runtime!Callers : call[f].pc = "put" => call[f].token = issued

\* A child that is being started has the token it was started with, no PUT goes
\* to it, and its token is the last one unless the start will be told another.
StartedWith ==
    start.pc = "health" =>
        /\ has[start.child] = start.token
        /\ token = 0 => start.token = issued
        /\ \A f \in Runtime!Callers : call[f].pc = "put" => call[f].child # start.child

\* The PUT of this caller is on its way to the server.
PutTo(f) == call[f].pc = "put" /\ call[f].child = server

\* A replacement that will not end: it waits for an exit that is never seen, or
\* for a start that waits for it.
Stuck == \/ restart.pc = "stopping" /\ process[restart.child] = "signalled"
         \/ restart.pc = "starting" /\ start.pc = "pushing" /\ call["start"].pc = "restart"

\* A server that has not the last token is about to be told it, unless a
\* replacement is stuck.
Told ==
    (server # NoChild /\ process[server] = "alive" /\ has[server] # issued) =>
        \/ Stuck
        \/ restart.pc = "none" /\ \E f \in Runtime!Callers : PutTo(f)
        \/ restart.pc = "starting" /\ PutTo("start")

\* A new token finds a start that was given the one before only while no child
\* is being stopped.
StartUpToDate ==
    start.pc = "health" => \/ start.token = issued
                           \/ restart.pc # "stopping"
                           \/ process[restart.child] = "signalled"

\* Whoever lives is the server or is being started, and nobody is the server
\* once the runtime is closing.
Accounted ==
    /\ closing => server = NoChild
    /\ quit \/ \A c \in Children : process[c] = "alive" =>
                  c = server \/ (start.pc = "health" /\ c = start.child)

\* The inductive invariant of the runtime.
RuntimeSound ==
    /\ RuntimeTypes /\ Serving /\ Accounted
    /\ Fresh /\ StartedWith /\ StartUpToDate /\ Told

\* Who calls setInstallationAccessToken.
LEMMA CallersAre == Runtime!Callers = {"rotation", "asked", "start"}
BY DEF Runtime!Callers

\* The records of what is not pending.
LEMMA Resting ==
    /\ Runtime!NoStart \in Start /\ Runtime!Starting \in Start
    /\ Runtime!NoRestart \in Restart /\ Runtime!NoCall \in Call
    /\ Runtime!NoStart.pc = "none" /\ Runtime!NoStart.child = NoChild
    /\ Runtime!Starting.pc = "env" /\ Runtime!Starting.child = NoChild
    /\ Runtime!NoRestart.pc = "none" /\ Runtime!NoRestart.child = NoChild
    /\ Runtime!NoCall.pc = "none" /\ Runtime!NoCall.child = NoChild
    /\ NoChild \notin Children /\ MaxToken \in Nat \ {0}
<1>1. NoChild \notin Children /\ MaxToken \in Nat \ {0} /\ 0 \in 0..MaxToken
  BY PartsConfig DEF Runtime!RuntimeConfig
<1>2. Runtime!NoStart \in Start /\ Runtime!Starting \in Start
  BY <1>1 DEF Start, Child, Runtime!NoStart, Runtime!Starting
<1>3. Runtime!NoRestart \in Restart /\ Runtime!NoCall \in Call
  BY <1>1 DEF Restart, Call, Child, Runtime!NoRestart, Runtime!NoCall
<1> QED BY <1>1, <1>2, <1>3 DEF Runtime!NoStart, Runtime!Starting, Runtime!NoRestart, Runtime!NoCall

\* The types once more, each of a kind the provers take apart by itself.
LEMMA Typed ==
    ASSUME RuntimeTypes
    PROVE  /\ server \in Child /\ token \in 0..issued /\ issued \in 0..MaxToken
           /\ start \in Start /\ restart \in Restart /\ call \in [Runtime!Callers -> Call]
           /\ process \in [Children -> {"free", "alive", "dying", "exited", "signalled"}]
           /\ has \in [Children -> 0..MaxToken]
           /\ token \in 0..MaxToken
BY Resting DEF RuntimeTypes, Runtime!TypeOK, Child

\* The child that is started, and the token it is given.
LEMMA Spawned ==
    ASSUME RuntimeTypes, Runtime!Spawn
    PROVE  \E c \in Children, t \in 0..MaxToken :
              /\ c \notin Runtime!InUse /\ process[c] # "alive"
              /\ IF token # 0 THEN t = token ELSE t = issued
              /\ process' = [process EXCEPT ![c] = "alive"] /\ has' = [has EXCEPT ![c] = t]
              /\ start' = [start EXCEPT !.pc = "health", !.child = c, !.token = t]
<1> DEFINE T == IF token # 0 THEN token ELSE issued
<1>1. T \in 0..MaxToken
  BY Typed
<1>2. \E c \in Children : /\ c \notin Runtime!InUse /\ process[c] # "alive"
                          /\ process' = [process EXCEPT ![c] = "alive"]
                          /\ has' = [has EXCEPT ![c] = T]
                          /\ start' = [start EXCEPT !.pc = "health", !.child = c, !.token = T]
  BY Zenon DEF Runtime!Spawn
<1>3. IF token # 0 THEN T = token ELSE T = issued
  OBVIOUS
<1> HIDE DEF T
<1> QED BY <1>1, <1>2, <1>3

\* The types, action by action.
LEMMA TypesKept ==
    ASSUME RuntimeTypes, Serving, Runtime!Next
    PROVE  RuntimeTypes'
<1>1. /\ NoChild \notin Children
      /\ MaxToken \in Nat \ {0}
  BY PartsConfig DEF Runtime!RuntimeConfig
<1> USE <1>1, CallersAre, Resting
<1> USE DEF RuntimeTypes, Runtime!TypeOK, Child, Start, Restart, Call,
            Runtime!own
<1>2. CASE Runtime!StartReturns BY <1>2 DEF Runtime!StartReturns, Runtime!ReturnDue
<1>3. CASE Runtime!RestartEnds BY <1>3 DEF Runtime!RestartEnds, Runtime!EndDue, Runtime!restartOver
<1>4. CASE Runtime!Spawn
  <2>1. PICK c \in Children, t \in 0..MaxToken :
           /\ process' = [process EXCEPT ![c] = "alive"] /\ has' = [has EXCEPT ![c] = t]
           /\ start' = [start EXCEPT !.pc = "health", !.child = c, !.token = t]
    BY ONLY RuntimeTypes, Runtime!Spawn, Spawned
  <2>2. start' \in Start /\ start'.pc = "health" /\ start'.child = c
    BY <2>1
  <2>3. asked' \in BOOLEAN
    BY <1>4 DEF Runtime!Spawn
  <2>4. UNCHANGED <<server, closing, startupError, token, restart, call, issued, quit>>
    BY <1>4 DEF Runtime!Spawn
  <2>5. start.pc = "env"
    BY <1>4 DEF Runtime!Spawn
  <2> QED BY <2>1, <2>2, <2>3, <2>4, <2>5
<1>5. CASE Runtime!StartFails BY <1>5 DEF Runtime!StartFails
<1>6. CASE Runtime!NotReady BY <1>6 DEF Runtime!NotReady, Runtime!killed
<1>7. CASE Runtime!Ready
  <2>1. start' \in Start BY <1>7, Resting, Typed DEF Runtime!Ready, Start
  <2>2. call' \in [Runtime!Callers -> Call] BY <1>7, Resting, Typed DEF Runtime!Ready, Call, Start, Child
  <2>3. UNCHANGED <<closing, token, restart, process, has, issued, asked, quit>>
    BY <1>7 DEF Runtime!Ready
  <2>4. server' \in Children /\ startupError' = FALSE
    BY <1>7, Typed DEF Runtime!Ready
  <2>5. \/ start' = Runtime!NoStart /\ call' = call /\ call["start"].pc = "none"
        \/ start'.pc = "pushing" /\ start'.child = start.child
    BY <1>7 DEF Runtime!Ready
  <2>6. /\ start'.child \in Children <=> start'.pc \in {"health", "pushing", "killing"}
        /\ call["start"]'.pc # "none" => start'.pc = "pushing"
    BY <2>5, <1>7 DEF Runtime!Ready
  <2>7. \A f \in Runtime!Callers : call'[f].pc = "put" => call'[f].child \in Children
    BY <1>7, Typed DEF Runtime!Ready
  <2> QED BY <2>1, <2>2, <2>3, <2>4, <2>6, <2>7
<1>8. CASE Runtime!RestartContinues BY <1>8 DEF Runtime!RestartContinues, Runtime!restartOver
<1>9. ASSUME NEW f \in Runtime!Callers, Runtime!PutAccepted(f) PROVE RuntimeTypes'
  BY <1>9 DEF Runtime!PutAccepted
<1>10. ASSUME NEW f \in Runtime!Callers, Runtime!PutFails(f) PROVE RuntimeTypes'
  <2>1. start' \in Start /\ start'.pc = start.pc /\ start'.child = start.child
    <3>1. start' = start \/ start' = [start EXCEPT !.stale = TRUE]
      BY ONLY <1>10 DEF Runtime!PutFails, Runtime!stopServer
    <3> QED BY ONLY <3>1, start \in Start DEF Start
  <2>2. /\ call' \in [Runtime!Callers -> Call]
        /\ \A g \in Runtime!Callers : call'[g].pc = "put" => call'[g] = call[g]
        /\ call'["start"].pc # "none" => call["start"].pc # "none"
    BY <1>10 DEF Runtime!PutFails
  <2>3. process' \in [Children -> {"free", "alive", "dying", "exited", "signalled"}]
    BY <1>10 DEF Runtime!PutFails, Runtime!stopServer, Runtime!killed
  <2>4. has' \in [Children -> 0..MaxToken]
    BY <1>10 DEF Runtime!PutFails
  <2>5. server' \in Child
    BY <1>10 DEF Runtime!PutFails, Runtime!stopServer
  <2>6. restart' \in Restart /\ (restart'.child \in Children <=> restart'.pc = "stopping")
    BY <1>10 DEF Runtime!PutFails
  <2>7. UNCHANGED <<closing, startupError, token, issued, asked, quit>>
    BY <1>10 DEF Runtime!PutFails
  <2> QED BY <2>1, <2>2, <2>3, <2>4, <2>5, <2>6, <2>7
<1>11. CASE Runtime!StartServer BY <1>11 DEF Runtime!StartServer
<1>12. CASE Runtime!Rotate
  BY <1>12 DEF Runtime!Rotate, Runtime!setInstallationAccessToken
<1>13. CASE Runtime!AskedTokenArrives
  <2>1. token' = issued /\ token' \in 0..issued /\ asked' = FALSE
    BY <1>13 DEF Runtime!AskedTokenArrives, Runtime!setInstallationAccessToken
  <2>2. UNCHANGED <<server, closing, startupError, start, restart, process, has, issued, quit>>
    BY <1>13 DEF Runtime!AskedTokenArrives, Runtime!setInstallationAccessToken
  <2>3. /\ call' \in [Runtime!Callers -> Call]
        /\ \A g \in Runtime!Callers : call'[g].pc = "put" => call'[g].child \in Children
        /\ (call["start"].pc)' = call["start"].pc
    BY <1>13 DEF Runtime!AskedTokenArrives, Runtime!setInstallationAccessToken
  <2> QED BY <2>1, <2>2, <2>3
<1>14. CASE Runtime!StopAll BY <1>14 DEF Runtime!StopAll, Runtime!stopServer, Runtime!killed
<1>15. CASE Runtime!Quit BY <1>15 DEF Runtime!Quit, Runtime!killed
<1>16. ASSUME NEW c \in Children, Runtime!ChildExits(c) PROVE RuntimeTypes'
  BY <1>16 DEF Runtime!ChildExits
<1> QED BY <1>2, <1>3, <1>4, <1>5, <1>6, <1>7, <1>8, <1>9, <1>10, <1>11, <1>12, <1>13,
           <1>14, <1>15, <1>16
        DEF Runtime!Next, Runtime!Continues, Runtime!StartGoesOn, Runtime!RestartGoesOn,
            Runtime!PutEnds

\* While a start may still make its child the server there is none.
LEMMA ServingKept ==
    ASSUME RuntimeTypes, Serving, Runtime!Next
    PROVE  Serving'
<1> USE CallersAre, Resting, Typed
<1> USE DEF Serving, Runtime!own, Start
<1>2. CASE Runtime!StartReturns BY <1>2 DEF Runtime!StartReturns, Runtime!ReturnDue
<1>3. CASE Runtime!RestartEnds BY <1>3 DEF Runtime!RestartEnds, Runtime!EndDue, Runtime!restartOver
<1>4. CASE Runtime!Spawn BY <1>4 DEF Runtime!Spawn
<1>5. CASE Runtime!StartFails BY <1>5 DEF Runtime!StartFails
<1>6. CASE Runtime!NotReady BY <1>6 DEF Runtime!NotReady, Runtime!killed
<1>7. CASE Runtime!Ready BY <1>7 DEF Runtime!Ready
<1>8. CASE Runtime!RestartContinues BY <1>8 DEF Runtime!RestartContinues, Runtime!restartOver
<1>9. ASSUME NEW f \in Runtime!Callers, Runtime!PutAccepted(f) PROVE Serving'
  BY <1>9 DEF Runtime!PutAccepted
<1>10. ASSUME NEW f \in Runtime!Callers, Runtime!PutFails(f) PROVE Serving'
  BY <1>10 DEF Runtime!PutFails, Runtime!stopServer, Runtime!killed
<1>11. CASE Runtime!StartServer BY <1>11 DEF Runtime!StartServer
<1>12. CASE Runtime!Rotate
  BY <1>12 DEF Runtime!Rotate, Runtime!setInstallationAccessToken
<1>13. CASE Runtime!AskedTokenArrives
  BY <1>13 DEF Runtime!AskedTokenArrives, Runtime!setInstallationAccessToken
<1>14. CASE Runtime!StopAll BY <1>14 DEF Runtime!StopAll, Runtime!stopServer, Runtime!killed
<1>15. CASE Runtime!Quit BY <1>15 DEF Runtime!Quit, Runtime!killed
<1>16. ASSUME NEW c \in Children, Runtime!ChildExits(c) PROVE Serving'
  BY <1>16 DEF Runtime!ChildExits
<1> QED BY <1>2, <1>3, <1>4, <1>5, <1>6, <1>7, <1>8, <1>9, <1>10, <1>11, <1>12, <1>13,
           <1>14, <1>15, <1>16
        DEF Runtime!Next, Runtime!Continues, Runtime!StartGoesOn, Runtime!RestartGoesOn,
            Runtime!PutEnds

\* No step loses a child, nor makes one the server of a closing runtime.
LEMMA AccountedKept ==
    ASSUME RuntimeTypes, Serving, Accounted, Runtime!Next
    PROVE  Accounted'
<1> USE CallersAre, Resting, Typed
<1> USE DEF Serving, Accounted, Runtime!own, Start, Child
<1>2. CASE Runtime!StartReturns BY <1>2 DEF Runtime!StartReturns, Runtime!ReturnDue
<1>3. CASE Runtime!RestartEnds BY <1>3 DEF Runtime!RestartEnds, Runtime!EndDue, Runtime!restartOver
<1>4. CASE Runtime!Spawn
  <2>1. start.pc = "env" /\ UNCHANGED <<server, closing, quit>>
    BY <1>4 DEF Runtime!Spawn
  <2>2. PICK c \in Children, t \in 0..MaxToken :
           /\ process' = [process EXCEPT ![c] = "alive"]
           /\ start' = [start EXCEPT !.pc = "health", !.child = c, !.token = t]
    BY ONLY RuntimeTypes, Runtime!Spawn, Spawned
  <2>3. start'.pc = "health" /\ start'.child = c
    BY <2>2
  <2> QED BY <2>1, <2>2, <2>3
<1>5. CASE Runtime!StartFails BY <1>5 DEF Runtime!StartFails
<1>6. CASE Runtime!NotReady BY <1>6 DEF Runtime!NotReady, Runtime!killed
<1>7. CASE Runtime!Ready BY <1>7 DEF Runtime!Ready
<1>8. CASE Runtime!RestartContinues BY <1>8 DEF Runtime!RestartContinues, Runtime!restartOver
<1>9. ASSUME NEW f \in Runtime!Callers, Runtime!PutAccepted(f) PROVE Accounted'
  BY <1>9 DEF Runtime!PutAccepted
<1>10. ASSUME NEW f \in Runtime!Callers, Runtime!PutFails(f) PROVE Accounted'
  BY <1>10 DEF Runtime!PutFails, Runtime!stopServer, Runtime!killed
<1>11. CASE Runtime!StartServer BY <1>11 DEF Runtime!StartServer
<1>12. CASE Runtime!Rotate
  BY <1>12 DEF Runtime!Rotate, Runtime!setInstallationAccessToken
<1>13. CASE Runtime!AskedTokenArrives
  BY <1>13 DEF Runtime!AskedTokenArrives, Runtime!setInstallationAccessToken
<1>14. CASE Runtime!StopAll BY <1>14 DEF Runtime!StopAll, Runtime!stopServer, Runtime!killed
<1>15. CASE Runtime!Quit BY <1>15 DEF Runtime!Quit, Runtime!killed
<1>16. ASSUME NEW c \in Children, Runtime!ChildExits(c) PROVE Accounted'
  BY <1>16 DEF Runtime!ChildExits
<1> QED BY <1>2, <1>3, <1>4, <1>5, <1>6, <1>7, <1>8, <1>9, <1>10, <1>11, <1>12, <1>13,
           <1>14, <1>15, <1>16
        DEF Runtime!Next, Runtime!Continues, Runtime!StartGoesOn, Runtime!RestartGoesOn,
            Runtime!PutEnds

\* What is under way carries the last token, and a child that is being started
\* is told of a later one.
LEMMA FreshKept ==
    ASSUME RuntimeTypes, Serving, Fresh, Runtime!Next
    PROVE  Fresh'
<1> USE CallersAre, Resting, Typed
<1> USE DEF Fresh, Serving, Runtime!own, Start, Call
<1>2. CASE Runtime!StartReturns BY <1>2 DEF Runtime!StartReturns, Runtime!ReturnDue
<1>3. CASE Runtime!RestartEnds BY <1>3 DEF Runtime!RestartEnds, Runtime!EndDue, Runtime!restartOver
<1>4. CASE Runtime!Spawn BY <1>4 DEF Runtime!Spawn
<1>5. CASE Runtime!StartFails BY <1>5 DEF Runtime!StartFails
<1>6. CASE Runtime!NotReady BY <1>6 DEF Runtime!NotReady, Runtime!killed
<1>7. CASE Runtime!Ready BY <1>7 DEF Runtime!Ready
<1>8. CASE Runtime!RestartContinues BY <1>8 DEF Runtime!RestartContinues, Runtime!restartOver
<1>9. ASSUME NEW f \in Runtime!Callers, Runtime!PutAccepted(f) PROVE Fresh'
  BY <1>9 DEF Runtime!PutAccepted
<1>10. ASSUME NEW f \in Runtime!Callers, Runtime!PutFails(f) PROVE Fresh'
  BY <1>10 DEF Runtime!PutFails, Runtime!stopServer, Runtime!killed
<1>11. CASE Runtime!StartServer BY <1>11 DEF Runtime!StartServer
<1>12. CASE Runtime!Rotate
  BY <1>12 DEF Runtime!Rotate, Runtime!setInstallationAccessToken, Runtime!Settled
<1>13. CASE Runtime!AskedTokenArrives
  BY <1>13 DEF Runtime!AskedTokenArrives, Runtime!setInstallationAccessToken
<1>14. CASE Runtime!StopAll BY <1>14 DEF Runtime!StopAll, Runtime!stopServer, Runtime!killed
<1>15. CASE Runtime!Quit BY <1>15 DEF Runtime!Quit, Runtime!killed
<1>16. ASSUME NEW c \in Children, Runtime!ChildExits(c) PROVE Fresh'
  BY <1>16 DEF Runtime!ChildExits
<1> QED BY <1>2, <1>3, <1>4, <1>5, <1>6, <1>7, <1>8, <1>9, <1>10, <1>11, <1>12, <1>13,
           <1>14, <1>15, <1>16
        DEF Runtime!Next, Runtime!Continues, Runtime!StartGoesOn, Runtime!RestartGoesOn,
            Runtime!PutEnds

\* No PUT and no token changes what a child that is being started was given.
LEMMA StartedWithKept ==
    ASSUME RuntimeTypes, Serving, Fresh, StartedWith, Runtime!Next
    PROVE  StartedWith'
<1> USE CallersAre, Resting, Typed
<1> USE DEF StartedWith, Serving, Runtime!own, Start, Call
<1>2. CASE Runtime!StartReturns BY <1>2 DEF Runtime!StartReturns, Runtime!ReturnDue
<1>3. CASE Runtime!RestartEnds BY <1>3 DEF Runtime!RestartEnds, Runtime!EndDue, Runtime!restartOver
<1>4. CASE Runtime!Spawn
  <2>1. UNCHANGED <<token, call, issued>>
    BY <1>4 DEF Runtime!Spawn
  <2>2. PICK c \in Children, t \in 0..MaxToken :
           /\ c \notin Runtime!InUse
           /\ IF token # 0 THEN t = token ELSE t = issued
           /\ has' = [has EXCEPT ![c] = t]
           /\ start' = [start EXCEPT !.pc = "health", !.child = c, !.token = t]
    BY ONLY RuntimeTypes, Runtime!Spawn, Spawned
  <2>3. start'.pc = "health" /\ start'.child = c /\ start'.token = t /\ has'[c] = t
    BY <2>2
  <2>4. \A f \in Runtime!Callers : call[f].child # c
    BY <2>2 DEF Runtime!InUse
  <2> QED BY <2>1, <2>2, <2>3, <2>4
<1>5. CASE Runtime!StartFails BY <1>5 DEF Runtime!StartFails
<1>6. CASE Runtime!NotReady BY <1>6 DEF Runtime!NotReady, Runtime!killed
<1>7. CASE Runtime!Ready BY <1>7 DEF Runtime!Ready
<1>8. CASE Runtime!RestartContinues BY <1>8 DEF Runtime!RestartContinues, Runtime!restartOver
<1>9. ASSUME NEW f \in Runtime!Callers, Runtime!PutAccepted(f) PROVE StartedWith'
  BY <1>9 DEF Runtime!PutAccepted
<1>10. ASSUME NEW f \in Runtime!Callers, Runtime!PutFails(f) PROVE StartedWith'
  <2>1. start'.pc = start.pc /\ start'.child = start.child /\ start'.token = start.token
    BY <1>10 DEF Runtime!PutFails, Runtime!stopServer
  <2>2. \A g \in Runtime!Callers : call'[g].pc = "put" => call[g].pc = "put" /\ call'[g] = call[g]
    BY <1>10 DEF Runtime!PutFails
  <2>3. start.pc = "health" => has'[start.child] = has[start.child]
    <3>1. \/ has' = has
          \/ has' = [has EXCEPT ![call[f].child] = call[f].token]
      BY <1>10 DEF Runtime!PutFails
    <3>2. start.pc = "health" => call[f].child # start.child
      BY <1>10 DEF Runtime!PutFails
    <3>3. start.pc = "health" => start.child \in Children
      BY DEF RuntimeTypes, Runtime!TypeOK
    <3> QED BY <3>1, <3>2, <3>3
  <2>4. UNCHANGED <<token, issued>>
    BY <1>10 DEF Runtime!PutFails
  <2> QED BY <2>1, <2>2, <2>3, <2>4
<1>11. CASE Runtime!StartServer BY <1>11 DEF Runtime!StartServer
<1>12. CASE Runtime!Rotate
  BY <1>12 DEF Runtime!Rotate, Runtime!setInstallationAccessToken, Runtime!Settled
<1>13. CASE Runtime!AskedTokenArrives
  BY <1>13 DEF Runtime!AskedTokenArrives, Runtime!setInstallationAccessToken
<1>14. CASE Runtime!StopAll BY <1>14 DEF Runtime!StopAll, Runtime!stopServer, Runtime!killed
<1>15. CASE Runtime!Quit BY <1>15 DEF Runtime!Quit, Runtime!killed
<1>16. ASSUME NEW c \in Children, Runtime!ChildExits(c) PROVE StartedWith'
  BY <1>16 DEF Runtime!ChildExits
<1> QED BY <1>2, <1>3, <1>4, <1>5, <1>6, <1>7, <1>8, <1>9, <1>10, <1>11, <1>12, <1>13,
           <1>14, <1>15, <1>16
        DEF Runtime!Next, Runtime!Continues, Runtime!StartGoesOn, Runtime!RestartGoesOn,
            Runtime!PutEnds

\* A token comes during a start only while nothing waits for an exit it will see.
LEMMA StartUpToDateKept ==
    ASSUME RuntimeTypes, Serving, Fresh, StartUpToDate, Runtime!Next
    PROVE  StartUpToDate'
<1>1. restart.pc = "stopping" => restart.child \in Children
  BY DEF RuntimeTypes, Runtime!TypeOK
<1> USE CallersAre, Resting, Typed, <1>1
<1> USE DEF StartUpToDate, Serving, Runtime!own, Start, Restart
<1>2. CASE Runtime!StartReturns BY <1>2 DEF Runtime!StartReturns, Runtime!ReturnDue
<1>3. CASE Runtime!RestartEnds BY <1>3 DEF Runtime!RestartEnds, Runtime!EndDue, Runtime!restartOver
<1>4. CASE Runtime!Spawn
  <2>1. UNCHANGED <<token, call, issued>>
    BY <1>4 DEF Runtime!Spawn
  <2>2. PICK c \in Children, t \in 0..MaxToken :
           /\ IF token # 0 THEN t = token ELSE t = issued
           /\ start' = [start EXCEPT !.pc = "health", !.child = c, !.token = t]
    BY ONLY RuntimeTypes, Runtime!Spawn, Spawned
  <2>3. start'.token = t
    BY <2>2
  <2> QED BY <2>1, <2>2, <2>3 DEF Fresh
<1>5. CASE Runtime!StartFails BY <1>5 DEF Runtime!StartFails
<1>6. CASE Runtime!NotReady BY <1>6 DEF Runtime!NotReady, Runtime!killed
<1>7. CASE Runtime!Ready BY <1>7 DEF Runtime!Ready
<1>8. CASE Runtime!RestartContinues BY <1>8 DEF Runtime!RestartContinues, Runtime!restartOver
<1>9. ASSUME NEW f \in Runtime!Callers, Runtime!PutAccepted(f) PROVE StartUpToDate'
  BY <1>9 DEF Runtime!PutAccepted
<1>10. ASSUME NEW f \in Runtime!Callers, Runtime!PutFails(f) PROVE StartUpToDate'
  BY <1>10 DEF Runtime!PutFails, Runtime!stopServer, Runtime!killed
<1>11. CASE Runtime!StartServer BY <1>11 DEF Runtime!StartServer
<1>12. CASE Runtime!Rotate
  BY <1>12 DEF Runtime!Rotate, Runtime!setInstallationAccessToken, Runtime!Settled
<1>13. CASE Runtime!AskedTokenArrives
  BY <1>13 DEF Runtime!AskedTokenArrives, Runtime!setInstallationAccessToken
<1>14. CASE Runtime!StopAll BY <1>14 DEF Runtime!StopAll, Runtime!stopServer, Runtime!killed
<1>15. CASE Runtime!Quit BY <1>15 DEF Runtime!Quit, Runtime!killed
<1>16. ASSUME NEW c \in Children, Runtime!ChildExits(c) PROVE StartUpToDate'
  BY <1>16 DEF Runtime!ChildExits
<1> QED BY <1>2, <1>3, <1>4, <1>5, <1>6, <1>7, <1>8, <1>9, <1>10, <1>11, <1>12, <1>13,
           <1>14, <1>15, <1>16
        DEF Runtime!Next, Runtime!Continues, Runtime!StartGoesOn, Runtime!RestartGoesOn,
            Runtime!PutEnds

\* Whichever step leaves the server with an old token leaves somebody to tell it.
LEMMA ToldKept ==
    ASSUME RuntimeTypes, Serving, Fresh, StartedWith, StartUpToDate, Told, Accounted,
           Runtime!Next
    PROVE  Told'
<1>1. /\ restart.pc = "stopping" => restart.child \in Children
      /\ call["start"].pc # "none" => start.pc = "pushing"
      /\ \A f \in Runtime!Callers : call[f].pc = "put" => call[f].child \in Children
  BY DEF RuntimeTypes, Runtime!TypeOK
<1> USE CallersAre, Resting, Typed, <1>1
<1> USE DEF Told, Stuck, PutTo, Serving, Runtime!own, Start, Restart, Call, Child
<1>2. CASE Runtime!StartReturns BY <1>2 DEF Runtime!StartReturns, Runtime!ReturnDue
<1>3. CASE Runtime!RestartEnds BY <1>3 DEF Runtime!RestartEnds, Runtime!EndDue, Runtime!restartOver
<1>4. CASE Runtime!Spawn BY <1>4 DEF Runtime!Spawn
<1>5. CASE Runtime!StartFails BY <1>5 DEF Runtime!StartFails
<1>6. CASE Runtime!NotReady BY <1>6 DEF Runtime!NotReady, Runtime!killed
<1>7. CASE Runtime!Ready
  BY <1>7 DEF Runtime!Ready, Fresh, StartedWith, StartUpToDate
<1>8. CASE Runtime!RestartContinues
  BY <1>8 DEF Runtime!RestartContinues, Runtime!ExitSeen, Runtime!restartOver
<1>9. ASSUME NEW f \in Runtime!Callers, Runtime!PutAccepted(f) PROVE Told'
  BY <1>9 DEF Runtime!PutAccepted, Fresh
<1>10. ASSUME NEW f \in Runtime!Callers, Runtime!PutFails(f) PROVE Told'
  BY <1>10 DEF Runtime!PutFails, Runtime!stopServer, Fresh, Accounted
<1>11. CASE Runtime!StartServer BY <1>11 DEF Runtime!StartServer
<1>12. CASE Runtime!Calm /\ Runtime!Rotate
  BY <1>12 DEF Runtime!Rotate, Runtime!setInstallationAccessToken, Runtime!Settled,
               Runtime!Calm, Runtime!EndDue, Runtime!ReturnDue
<1>13. CASE Runtime!AskedTokenArrives
  BY <1>13 DEF Runtime!AskedTokenArrives, Runtime!setInstallationAccessToken
<1>14. CASE Runtime!StopAll BY <1>14 DEF Runtime!StopAll, Runtime!stopServer
<1>15. CASE Runtime!Quit BY <1>15 DEF Runtime!Quit
<1>16. ASSUME NEW c \in Children, Runtime!ChildExits(c) PROVE Told'
  BY <1>16 DEF Runtime!ChildExits
<1> QED BY <1>2, <1>3, <1>4, <1>5, <1>6, <1>7, <1>8, <1>9, <1>10, <1>11, <1>12, <1>13,
           <1>14, <1>15, <1>16
        DEF Runtime!Next, Runtime!Continues, Runtime!StartGoesOn, Runtime!RestartGoesOn,
            Runtime!PutEnds

\* The invariant holds at the start, and every step keeps it.
LEMMA RuntimeSoundInit == Runtime!Init => RuntimeSound
<1> SUFFICES ASSUME Runtime!Init PROVE RuntimeSound
  OBVIOUS
<1> USE CallersAre, Resting DEF Runtime!Init
<1>1. RuntimeTypes
  <2>1. issued \in 0..MaxToken /\ token \in 0..issued /\ 0 \in 0..MaxToken
    OBVIOUS
  <2>2. has \in [Children -> 0..MaxToken]
    BY <2>1
  <2>3. call \in [Runtime!Callers -> Call] /\ \A f \in Runtime!Callers : call[f].pc = "none"
    OBVIOUS
  <2> QED BY <2>1, <2>2, <2>3 DEF RuntimeTypes, Runtime!TypeOK, Child
<1>2. Serving /\ Accounted /\ Fresh /\ StartedWith /\ StartUpToDate /\ Told
  BY DEF Serving, Accounted, Fresh, StartedWith, StartUpToDate, Told
<1> QED BY <1>1, <1>2 DEF RuntimeSound

\* Every step of the runtime keeps the invariant.
LEMMA RuntimeSoundNext == RuntimeSound /\ [Runtime!Next]_runtimeVars => RuntimeSound'
<1>1. RuntimeSound /\ Runtime!Next => RuntimeSound'
  BY TypesKept, ServingKept, AccountedKept, FreshKept, StartedWithKept, StartUpToDateKept, ToldKept
     DEF RuntimeSound
<1>2. RuntimeSound /\ UNCHANGED runtimeVars => RuntimeSound'
  BY DEF RuntimeSound, runtimeVars, RuntimeTypes, Runtime!TypeOK, Serving, Accounted, Fresh,
         StartedWith, StartUpToDate, Told, Stuck, PutTo
<1> QED BY <1>1, <1>2

\* In the composition the runtime's steps are the steps of its own.
LEMMA RuntimeSteps ==
    /\ PartsInit => Runtime!Init
    /\ [PartsNext]_partsVars => [Runtime!Next]_runtimeVars
BY DEF PartsInit, PartsNext, partsVars, runtimeVars

\* Whatever starts, replacements and tokens overtake each other, no child
\* process is lost, and none outlives stopAll: ElectronServerRuntime.
THEOREM NoChildLost == PartsSpec => []NoStrayChild
<1>1. RuntimeSound => NoStrayChild
  BY DEF RuntimeSound, NoStrayChild, Runtime!NoStrayChild, Runtime!ClosedForGood,
         Runtime!NoChildForgotten, RuntimeTypes, Accounted
<1> QED BY <1>1, RuntimeSoundInit, RuntimeSoundNext, RuntimeSteps, PTL DEF PartsSpec

\* At rest the server has the last token it was to be given, whichever start,
\* PUT or replacement was to bring it: setInstallationAccessToken, startServerOnce.
THEOREM TokenReachesServer == PartsSpec => []ServerHasToken
<1>1. RuntimeSound => ServerHasToken
  BY CallersAre DEF RuntimeSound, ServerHasToken, Runtime!ServerHasToken, Fresh, Told, Stuck, PutTo
<1> QED BY <1>1, RuntimeSoundInit, RuntimeSoundNext, RuntimeSteps, PTL DEF PartsSpec
=============================================================================
