-------------------------- MODULE ListAndSumLemmas --------------------------
(***************************************************************************)
(* What the list operations of WaitingLists return: the elements, without   *)
(* repetition if there was none.  And what a sum over a finite set is worth *)
(* when an element is added to it or weighs less: the community modules'    *)
(* MapThenSumSet picks the elements one by one in a recursive function, of  *)
(* which SumsUp is the equation.                                            *)
(***************************************************************************)
EXTENDS WaitingLists, TLAPS, SequenceTheorems, WellFoundedInduction, FiniteSetTheorems

\* A non-empty set of positions has a first one.
LEMMA FirstIn ==
    ASSUME NEW S, S \subseteq Nat, S # {}
    PROVE  First(S) \in S /\ \A j \in S : First(S) <= j
<1>1. \E i \in S : \A j \in S : ~(<<j, i>> \in OpToRel(<, Nat))
  BY NatLessThanWellFounded, WFMin
<1>2. \A i, j \in Nat : j < i => <<j, i>> \in OpToRel(<, Nat)
  BY Zenon DEF OpToRel
<1>3. PICK i \in S : \A j \in S : ~(<<j, i>> \in OpToRel(<, Nat))
  BY <1>1
<1>4. \A j \in S : ~(j < i)
  BY <1>2, <1>3
<1>5. \E k \in S : \A j \in S : k <= j
  BY <1>4
<1> QED BY <1>5 DEF First

\* Two lists with the same elements; and a list that takes every position of
\* another one at most once.
LEMMA SameElements ==
    ASSUME NEW s, NEW t,
           \A k \in DOMAIN t : \E j \in DOMAIN s : t[k] = s[j],
           \A j \in DOMAIN s : \E k \in DOMAIN t : t[k] = s[j]
    PROVE  \A x : Listed(t, x) <=> Listed(s, x)
<1> TAKE x
<1>1. ASSUME Listed(t, x) PROVE Listed(s, x)
  BY <1>1 DEF Listed, At
<1>2. ASSUME Listed(s, x) PROVE Listed(t, x)
  BY <1>2 DEF Listed, At
<1> QED BY <1>1, <1>2

\* A list that an injection maps into a list without duplicates has none.
LEMMA DistinctThrough ==
    ASSUME NEW s, NEW t, NEW f, Distinct(s),
           \A k \in DOMAIN t : f[k] \in DOMAIN s /\ t[k] = s[f[k]],
           \A k, l \in DOMAIN t : f[k] = f[l] => k = l
    PROVE  Distinct(t)
BY DEF Distinct

\* Rotating a list keeps its elements, each as often as before.
LEMMA RotateKeeps ==
    ASSUME NEW T, NEW s \in Seq(T), NEW i \in 1..Len(s)
    PROVE  /\ Rotate(s, i) \in Seq(T)
           /\ Len(Rotate(s, i)) = Len(s)
           /\ \A x : Listed(Rotate(s, i), x) <=> Listed(s, x)
           /\ Distinct(s) => Distinct(Rotate(s, i))
<1> DEFINE t == Rotate(s, i)
           n == Len(s) - i
<1>0. Len(s) \in Nat /\ DOMAIN s = 1..Len(s) /\ i \in Nat /\ i <= Len(s) /\ 0 < i
  BY LenProperties
<1>1. \A k \in 1..Len(s) : s[k] \in T
  BY ElementOfSeq
<1>2. t \in Seq(T) /\ Len(t) = Len(s) /\ DOMAIN t = 1..Len(s)
  BY <1>0, <1>1 DEF Rotate
<1>3. \A k \in 1..Len(s) : t[k] = IF k <= n THEN s[i + k] ELSE s[k - n]
  BY DEF Rotate
<1> HIDE DEF t
<1>4. \A k \in 1..Len(s) : \E j \in 1..Len(s) : t[k] = s[j]
  <2> TAKE k \in 1..Len(s)
  <2>1. CASE k <= n
    <3>1. i + k \in 1..Len(s) BY <1>0, <2>1
    <3> QED BY <1>3, <2>1, <3>1
  <2>2. CASE ~(k <= n)
    <3>1. k - n \in 1..Len(s) BY <1>0, <2>2
    <3> QED BY <1>3, <2>2, <3>1
  <2> QED BY <2>1, <2>2
<1>5. \A j \in 1..Len(s) : \E k \in 1..Len(s) : t[k] = s[j]
  <2> TAKE j \in 1..Len(s)
  <2>1. CASE j <= i
    <3>1. n + j \in 1..Len(s) /\ ~(n + j <= n) /\ (n + j) - n = j
      BY <1>0, <2>1
    <3> QED BY <1>3, <3>1
  <2>2. CASE ~(j <= i)
    <3>1. j - i \in 1..Len(s) /\ j - i <= n /\ i + (j - i) = j
      BY <1>0, <2>2
    <3> QED BY <1>3, <3>1
  <2> QED BY <2>1, <2>2
<1>6. \A x : Listed(t, x) <=> Listed(s, x)
  <2>1. \A k \in DOMAIN t : \E j \in DOMAIN s : t[k] = s[j]
    BY <1>0, <1>2, <1>4
  <2>2. \A j \in DOMAIN s : \E k \in DOMAIN t : t[k] = s[j]
    BY <1>0, <1>2, <1>5
  <2> QED BY <2>1, <2>2, SameElements
<1>7. ASSUME Distinct(s) PROVE Distinct(t)
  <2> DEFINE f == [k \in 1..Len(s) |-> IF k <= n THEN i + k ELSE k - n]
  <2>1. \A k \in 1..Len(s) : f[k] \in 1..Len(s)
    BY <1>0
  <2>2. \A k, l \in 1..Len(s) : f[k] = f[l] => k = l
    BY <1>0
  <2>3. \A k \in 1..Len(s) : t[k] = s[f[k]]
    BY <1>3
  <2> HIDE DEF f
  <2>4. /\ \A k \in DOMAIN t : f[k] \in DOMAIN s /\ t[k] = s[f[k]]
        /\ \A k, l \in DOMAIN t : f[k] = f[l] => k = l
    BY <1>0, <1>2, <2>1, <2>2, <2>3
  <2> QED BY <1>7, <2>4, DistinctThrough
<1> QED BY <1>2, <1>6, <1>7 DEF t

\* Taking out one element of a list without repetitions leaves the others.
LEMMA TakeOutKeeps ==
    ASSUME NEW T, NEW s \in Seq(T), NEW i \in 1..Len(s), Distinct(s)
    PROVE  /\ TakeOut(s, i) \in Seq(T)
           /\ \A x : Listed(TakeOut(s, i), x) <=> Listed(s, x) /\ x # s[i]
           /\ Distinct(TakeOut(s, i))
<1> DEFINE t == TakeOut(s, i)
           n == Len(s) - i
<1>0. Len(s) \in Nat /\ DOMAIN s = 1..Len(s) /\ i \in Nat /\ i <= Len(s) /\ 0 < i
  BY LenProperties
<1>1. \A k \in 1..Len(s) : s[k] \in T
  BY ElementOfSeq
<1>2. t \in Seq(T) /\ DOMAIN t = 1..(Len(s) - 1)
  BY <1>0, <1>1 DEF TakeOut
<1>3. \A k \in 1..(Len(s) - 1) : t[k] = IF k <= n THEN s[i + k] ELSE s[k - n]
  BY DEF TakeOut
<1> HIDE DEF t
<1>4. \A k \in 1..(Len(s) - 1) : \E j \in 1..Len(s) : j # i /\ t[k] = s[j]
  <2> TAKE k \in 1..(Len(s) - 1)
  <2>1. CASE k <= n
    <3>1. i + k \in 1..Len(s) /\ i + k # i BY <1>0, <2>1
    <3> QED BY <1>3, <2>1, <3>1
  <2>2. CASE ~(k <= n)
    <3>1. k - n \in 1..Len(s) /\ k - n # i BY <1>0, <2>2
    <3> QED BY <1>3, <2>2, <3>1
  <2> QED BY <2>1, <2>2
<1>5. \A j \in 1..Len(s) : j # i => \E k \in 1..(Len(s) - 1) : t[k] = s[j]
  <2> TAKE j \in 1..Len(s)
  <2>1. CASE j < i
    <3>1. n + j \in 1..(Len(s) - 1) /\ ~(n + j <= n) /\ (n + j) - n = j
      BY <1>0, <2>1
    <3> QED BY <1>3, <3>1
  <2>2. CASE i < j
    <3>1. j - i \in 1..(Len(s) - 1) /\ j - i <= n /\ i + (j - i) = j
      BY <1>0, <2>2
    <3> QED BY <1>3, <3>1
  <2> QED BY <1>0, <2>1, <2>2
<1>6. \A x : Listed(t, x) <=> Listed(s, x) /\ x # s[i]
  <2>1. \A k \in DOMAIN t : t[k] # s[i] /\ \E j \in DOMAIN s : t[k] = s[j]
    BY <1>0, <1>2, <1>4 DEF Distinct
  <2>2. \A j \in DOMAIN s : s[j] # s[i] => \E k \in DOMAIN t : t[k] = s[j]
    BY <1>0, <1>2, <1>5
  <2> TAKE x
  <2>3. ASSUME Listed(t, x) PROVE Listed(s, x) /\ x # s[i]
    BY <2>1, <2>3 DEF Listed, At
  <2>4. ASSUME Listed(s, x), x # s[i] PROVE Listed(t, x)
    BY <2>2, <2>4 DEF Listed, At
  <2> QED BY <2>3, <2>4
<1>7. Distinct(t)
  <2> DEFINE f == [k \in 1..(Len(s) - 1) |-> IF k <= n THEN i + k ELSE k - n]
  <2>1. \A k \in 1..(Len(s) - 1) : f[k] \in 1..Len(s)
    BY <1>0
  <2>2. \A k, l \in 1..(Len(s) - 1) : f[k] = f[l] => k = l
    BY <1>0
  <2>3. \A k \in 1..(Len(s) - 1) : t[k] = s[f[k]]
    BY <1>3
  <2> HIDE DEF f
  <2>4. /\ \A k \in DOMAIN t : f[k] \in DOMAIN s /\ t[k] = s[f[k]]
        /\ \A k, l \in DOMAIN t : f[k] = f[l] => k = l
    BY <1>0, <1>2, <2>1, <2>2, <2>3
  <2> QED BY <2>4, DistinctThrough
<1> QED BY <1>2, <1>6, <1>7 DEF t

\* So does splicing it out, and the list gets shorter.
LEMMA SpliceKeeps ==
    ASSUME NEW T, NEW s \in Seq(T), NEW i \in 1..Len(s), Distinct(s)
    PROVE  /\ Splice(s, i) \in Seq(T)
           /\ Len(Splice(s, i)) = Len(s) - 1
           /\ \A x : Listed(Splice(s, i), x) <=> Listed(s, x) /\ x # s[i]
           /\ Distinct(Splice(s, i))
<1> DEFINE t == Splice(s, i)
<1>0. Len(s) \in Nat /\ DOMAIN s = 1..Len(s) /\ i \in Nat /\ i <= Len(s) /\ 0 < i
  BY LenProperties
<1>1. \A k \in 1..Len(s) : s[k] \in T
  BY ElementOfSeq
<1>2. t \in Seq(T) /\ Len(t) = Len(s) - 1 /\ DOMAIN t = 1..(Len(s) - 1)
  BY <1>0, <1>1 DEF Splice
<1>3. \A k \in 1..(Len(s) - 1) : t[k] = IF k < i THEN s[k] ELSE s[k + 1]
  BY DEF Splice
<1> HIDE DEF t
<1>4. \A k \in 1..(Len(s) - 1) : \E j \in 1..Len(s) : j # i /\ t[k] = s[j]
  <2> TAKE k \in 1..(Len(s) - 1)
  <2>1. k \in 1..Len(s) /\ k + 1 \in 1..Len(s) /\ (k < i => k # i) /\ (~(k < i) => k + 1 # i)
    BY <1>0
  <2> QED BY <1>3, <2>1
<1>5. \A j \in 1..Len(s) : j # i => \E k \in 1..(Len(s) - 1) : t[k] = s[j]
  <2> TAKE j \in 1..Len(s)
  <2>1. CASE j < i
    <3>1. j \in 1..(Len(s) - 1) BY <1>0, <2>1
    <3> QED BY <1>3, <2>1, <3>1
  <2>2. CASE i < j
    <3>1. j - 1 \in 1..(Len(s) - 1) /\ ~(j - 1 < i) /\ (j - 1) + 1 = j
      BY <1>0, <2>2
    <3> QED BY <1>3, <3>1
  <2> QED BY <1>0, <2>1, <2>2
<1>6. \A x : Listed(t, x) <=> Listed(s, x) /\ x # s[i]
  <2>1. \A k \in DOMAIN t : t[k] # s[i] /\ \E j \in DOMAIN s : t[k] = s[j]
    BY <1>0, <1>2, <1>4 DEF Distinct
  <2>2. \A j \in DOMAIN s : s[j] # s[i] => \E k \in DOMAIN t : t[k] = s[j]
    BY <1>0, <1>2, <1>5
  <2> TAKE x
  <2>3. ASSUME Listed(t, x) PROVE Listed(s, x) /\ x # s[i]
    BY <2>1, <2>3 DEF Listed, At
  <2>4. ASSUME Listed(s, x), x # s[i] PROVE Listed(t, x)
    BY <2>2, <2>4 DEF Listed, At
  <2> QED BY <2>3, <2>4
<1>7. Distinct(t)
  <2> DEFINE f == [k \in 1..(Len(s) - 1) |-> IF k < i THEN k ELSE k + 1]
  <2>1. \A k \in 1..(Len(s) - 1) : f[k] \in 1..Len(s)
    BY <1>0
  <2>2. \A k, l \in 1..(Len(s) - 1) : f[k] = f[l] => k = l
    BY <1>0
  <2>3. \A k \in 1..(Len(s) - 1) : t[k] = s[f[k]]
    BY <1>3
  <2> HIDE DEF f
  <2>4. /\ \A k \in DOMAIN t : f[k] \in DOMAIN s /\ t[k] = s[f[k]]
        /\ \A k, l \in DOMAIN t : f[k] = f[l] => k = l
    BY <1>0, <1>2, <2>1, <2>2, <2>3
  <2> QED BY <2>4, DistinctThrough
<1> QED BY <1>2, <1>6, <1>7 DEF t

\* removePending on a list: x is gone, the others stay.
LEMMA WithoutKeeps ==
    ASSUME NEW T, NEW s \in Seq(T), NEW x, Distinct(s)
    PROVE  /\ Without(s, x) \in Seq(T)
           /\ Len(Without(s, x)) <= Len(s)
           /\ \A y : Listed(Without(s, x), y) <=> Listed(s, y) /\ y # x
           /\ Distinct(Without(s, x))
<1>0. Len(s) \in Nat /\ DOMAIN s = 1..Len(s)
  BY LenProperties
<1>1. CASE ~Listed(s, x)
  BY <1>0, <1>1 DEF Without
<1>2. CASE Listed(s, x)
  <2> DEFINE i == First(At(s, x))
  <2>1. At(s, x) \subseteq Nat /\ At(s, x) # {}
    BY <1>0, <1>2 DEF Listed, At
  <2>2. i \in At(s, x)
    BY <2>1, FirstIn
  <2>3. i \in 1..Len(s) /\ s[i] = x
    BY <1>0, <2>2 DEF At
  <2>4. Without(s, x) = Splice(s, i)
    BY <1>2 DEF Without
  <2> HIDE DEF i
  <2> QED BY <1>0, <2>3, <2>4, SpliceKeeps
<1> QED BY <1>1, <1>2

\* Appending one element.
LEMMA AppendKeeps ==
    ASSUME NEW T, NEW s \in Seq(T), NEW x \in T
    PROVE  /\ \A y : Listed(Append(s, x), y) <=> Listed(s, y) \/ y = x
           /\ Distinct(s) /\ ~Listed(s, x) => Distinct(Append(s, x))
<1>0. Len(s) \in Nat /\ DOMAIN s = 1..Len(s)
  BY LenProperties
<1>1. /\ DOMAIN Append(s, x) = 1..(Len(s) + 1)
      /\ \A k \in 1..Len(s) : Append(s, x)[k] = s[k]
      /\ Append(s, x)[Len(s) + 1] = x
  BY <1>0, AppendProperties, LenProperties
<1>2. \A k \in 1..(Len(s) + 1) : k \in 1..Len(s) \/ k = Len(s) + 1
  BY <1>0
<1> QED BY <1>0, <1>1, <1>2 DEF Listed, At, Distinct

\* Taking the head off a queue without repetitions.
LEMMA TailKeeps ==
    ASSUME NEW T, NEW s \in Seq(T), s # <<>>, Distinct(s)
    PROVE  /\ Listed(s, Head(s))
           /\ \A y : Listed(Tail(s), y) <=> Listed(s, y) /\ y # Head(s)
           /\ Distinct(Tail(s))
<1>0. Len(s) \in Nat \ {0} /\ DOMAIN s = 1..Len(s) /\ Head(s) = s[1]
  BY LenProperties, EmptySeq
<1>1. /\ DOMAIN Tail(s) = 1..(Len(s) - 1)
      /\ \A k \in 1..(Len(s) - 1) : Tail(s)[k] = s[k + 1]
  BY <1>0, HeadTailProperties, LenProperties
<1>2. \A k \in 1..Len(s) : k = 1 \/ (k - 1 \in 1..(Len(s) - 1) /\ (k - 1) + 1 = k)
  BY <1>0
<1>3. \A k \in 1..(Len(s) - 1) : k + 1 \in 1..Len(s) /\ k + 1 # 1
  BY <1>0
<1>4. \A y : Listed(Tail(s), y) <=> Listed(s, y) /\ y # Head(s)
  <2>1. \A k \in DOMAIN Tail(s) :
           Tail(s)[k] # Head(s) /\ \E j \in DOMAIN s : Tail(s)[k] = s[j]
    BY <1>0, <1>1, <1>3 DEF Distinct
  <2>2. \A j \in DOMAIN s : s[j] # Head(s) => \E k \in DOMAIN Tail(s) : Tail(s)[k] = s[j]
    BY <1>0, <1>1, <1>2
  <2> TAKE y
  <2>3. ASSUME Listed(Tail(s), y) PROVE Listed(s, y) /\ y # Head(s)
    BY <2>1, <2>3 DEF Listed, At
  <2>4. ASSUME Listed(s, y), y # Head(s) PROVE Listed(Tail(s), y)
    BY <2>2, <2>4 DEF Listed, At
  <2> QED BY <2>3, <2>4
<1>5. Distinct(Tail(s))
  BY <1>0, <1>1, <1>3 DEF Distinct
<1>6. Listed(s, Head(s))
  BY <1>0 DEF Listed, At
<1> QED BY <1>4, <1>5, <1>6

\* A list is empty exactly when nothing is listed.
LEMMA ListedNonEmpty ==
    ASSUME NEW T, NEW s \in Seq(T)
    PROVE  s # <<>> <=> \E x \in T : Listed(s, x)
<1>1. Len(s) \in Nat /\ DOMAIN s = 1..Len(s) /\ \A k \in 1..Len(s) : s[k] \in T
  BY LenProperties, ElementOfSeq
<1>2. s # <<>> <=> Len(s) # 0
  BY EmptySeq
<1>3. Len(s) # 0 <=> 1 \in 1..Len(s)
  BY <1>1
<1> QED BY <1>1, <1>2, <1>3 DEF Listed, At

-----------------------------------------------------------------------------
(* Sums over finite sets.                                                  *)

Pick(s) == CHOOSE x \in s : TRUE

\* The function with which MapThenSumSet adds the weights w up.
SumsUp(f, w, S) ==
    f = [s \in SUBSET S |-> IF s = {} THEN 0 ELSE w[Pick(s)] + f[s \ {Pick(s)}]]

Total(w, S) == (CHOOSE f : SumsUp(f, w, S))[S]

Weighs(w, S) == IsFiniteSet(S) /\ \A x \in S : w[x] \in Nat

\* A family of subsets of a finite set has a least member.
LEMMA LeastSet ==
    ASSUME NEW S, IsFiniteSet(S), NEW F, F \subseteq SUBSET S, F # {}
    PROVE  \E T \in F : \A U \in F : ~(U \subseteq T /\ U # T)
<1>1. IsWellFoundedOn(StrictSubsetOrdering(S), SUBSET S)
  BY FS_StrictSubsetOrderingWellFounded, FS_FiniteSubsetsOfFinite
<1>2. PICK T \in F : \A U \in F : ~ (<<U, T>> \in StrictSubsetOrdering(S))
  BY <1>1, WFMin
<1>3. \A U \in F : U \subseteq T /\ U # T => <<U, T>> \in StrictSubsetOrdering(S)
  BY DEF StrictSubsetOrdering
<1>4. \A U \in F : ~(U \subseteq T /\ U # T)
  BY ONLY <1>2, <1>3
<1> QED BY <1>4

\* A nonempty set holds what Pick takes from it.
LEMMA PickIn == ASSUME NEW s, s # {} PROVE Pick(s) \in s
BY DEF Pick

\* A function that sums up does so one element at a time.
LEMMA SumStep ==
    ASSUME NEW f, NEW w, NEW S, SumsUp(f, w, S), NEW s \in SUBSET S
    PROVE  f[s] = IF s = {} THEN 0 ELSE w[Pick(s)] + f[s \ {Pick(s)}]
BY DEF SumsUp

\* Two sums of one set with the same weights are equal, whatever sets they
\* were made for.
LEMMA SumUnique ==
    ASSUME NEW S, IsFiniteSet(S), NEW T, NEW U, S \subseteq T, S \subseteq U,
           NEW v, NEW w, \A x \in S : v[x] = w[x],
           NEW f, SumsUp(f, v, T), NEW g, SumsUp(g, w, U)
    PROVE  f[S] = g[S]
<1> DEFINE Bad == {s \in SUBSET S : f[s] # g[s]}
<1> SUFFICES ASSUME Bad # {} PROVE FALSE
  OBVIOUS
<1>0. Bad \subseteq SUBSET S
  OBVIOUS
<1>1. PICK s \in Bad : \A u \in Bad : ~(u \subseteq s /\ u # s)
  <2> HIDE DEF Bad
  <2> QED BY <1>0, LeastSet
<1>2. s \subseteq S /\ f[s] # g[s] /\ s \in SUBSET T /\ s \in SUBSET U
  BY <1>1
<1>3. /\ f[s] = IF s = {} THEN 0 ELSE v[Pick(s)] + f[s \ {Pick(s)}]
      /\ g[s] = IF s = {} THEN 0 ELSE w[Pick(s)] + g[s \ {Pick(s)}]
  BY <1>2 DEF SumsUp
<1>4. s # {}
  BY <1>2, <1>3
<1>5. Pick(s) \in s /\ v[Pick(s)] = w[Pick(s)]
  BY <1>2, <1>4, PickIn
<1>6. f[s \ {Pick(s)}] = g[s \ {Pick(s)}]
  BY <1>1, <1>2, <1>5
<1> QED BY <1>2, <1>3, <1>4, <1>5, <1>6

\* The sum of a finite set exists, and is a number.
LEMMA SumExists ==
    ASSUME NEW S, NEW w, Weighs(w, S)
    PROVE  \E f : SumsUp(f, w, S) /\ f \in [SUBSET S -> Nat]
<1> DEFINE Has(T) == \E f : SumsUp(f, w, T) /\ f \in [SUBSET T -> Nat]
           Bad == {T \in SUBSET S : ~Has(T)}
<1> SUFFICES ASSUME Bad # {} PROVE FALSE
  OBVIOUS
<1>0. Bad \subseteq SUBSET S /\ IsFiniteSet(S)
  BY DEF Weighs
<1>1. PICK T \in Bad : \A u \in Bad : ~(u \subseteq T /\ u # T)
  <2> HIDE DEF Bad
  <2> QED BY <1>0, LeastSet
<1>2. T \subseteq S /\ ~Has(T) /\ \A s \in SUBSET T : s # T => Has(s)
  BY <1>1
<1> DEFINE of == [s \in SUBSET T |-> CHOOSE f : SumsUp(f, w, s) /\ f \in [SUBSET s -> Nat]]
           value == [s \in SUBSET T |-> of[s][s]]
           next == [s \in SUBSET T |-> IF s = {} THEN 0 ELSE w[Pick(s)] + value[s \ {Pick(s)}]]
           F == [s \in SUBSET T |-> IF s = T THEN next[s] ELSE value[s]]
<1>3. ASSUME NEW s \in SUBSET T, s # T
      PROVE  SumsUp(of[s], w, s) /\ of[s] \in [SUBSET s -> Nat] /\ value[s] \in Nat
  <2>1. SumsUp(of[s], w, s) /\ of[s] \in [SUBSET s -> Nat]
    <3>1. Has(s)
      BY <1>2, <1>3
    <3> QED BY <3>1
  <2> QED BY <2>1
<1> HIDE DEF of
<1>4. ASSUME NEW s \in SUBSET T, s # T PROVE value[s] = next[s]
  <2>1. of[s][s] = IF s = {} THEN 0 ELSE w[Pick(s)] + of[s][s \ {Pick(s)}]
    <3> DEFINE h == of[s]
    <3>1. SumsUp(h, w, s)
      BY <1>3, <1>4
    <3> HIDE DEF h
    <3>2. h[s] = IF s = {} THEN 0 ELSE w[Pick(s)] + h[s \ {Pick(s)}]
      BY <3>1, SumStep
    <3> QED BY <3>2 DEF h
  <2>2. ASSUME s # {} PROVE of[s][s \ {Pick(s)}] = value[s \ {Pick(s)}]
    <3> DEFINE u == s \ {Pick(s)}
    <3>1. u \in SUBSET T /\ u # T /\ u \subseteq s
      BY <1>4
    <3>2. IsFiniteSet(u)
      BY <1>2, FS_Subset DEF Weighs
    <3>3. SumsUp(of[s], w, s) /\ SumsUp(of[u], w, u)
      BY <1>3, <1>4, <3>1
    <3>4. value[u] = of[u][u]
      BY <3>1
    <3> HIDE DEF u, value
    <3>5. of[s][u] = of[u][u]
      BY <3>1, <3>2, <3>3, SumUnique
    <3> QED BY <3>4, <3>5 DEF u
  <2> QED BY <2>1, <2>2
<1>5. \A s \in SUBSET T : next[s] \in Nat
  <2> SUFFICES ASSUME NEW s \in SUBSET T, s # {} PROVE next[s] \in Nat
    OBVIOUS
  <2>1. Pick(s) \in s
    BY PickIn
  <2>2. s \ {Pick(s)} \in SUBSET T /\ s \ {Pick(s)} # T
    BY <2>1
  <2>3. value[s \ {Pick(s)}] \in Nat /\ w[Pick(s)] \in Nat
    BY <1>2, <1>3, <2>1, <2>2 DEF Weighs
  <2> HIDE DEF value
  <2> QED BY <2>3
<1>6. F \in [SUBSET T -> Nat]
  <2>1. \A s \in SUBSET T : s # T => value[s] \in Nat
    BY <1>3
  <2> HIDE DEF value, next
  <2> QED BY <1>5, <2>1
<1>7. SumsUp(F, w, T)
  <2> SUFFICES ASSUME NEW s \in SUBSET T
               PROVE  F[s] = IF s = {} THEN 0 ELSE w[Pick(s)] + F[s \ {Pick(s)}]
    BY DEF SumsUp
  <2>1. F[s] = next[s]
    <3> HIDE DEF value, next
    <3> QED BY <1>4
  <2>2. s # {} => /\ s \ {Pick(s)} \in SUBSET T /\ s \ {Pick(s)} # T
                  /\ F[s \ {Pick(s)}] = value[s \ {Pick(s)}]
    <3>1. s # {} => Pick(s) \in s
      BY PickIn
    <3> HIDE DEF value
    <3> QED BY <3>1
  <2> HIDE DEF F, value
  <2> QED BY <2>1, <2>2
<1> QED BY <1>2, <1>6, <1>7

\* The sum that MapThenSumSet returns.
LEMMA TotalIs ==
    ASSUME NEW S, NEW w, Weighs(w, S)
    PROVE  /\ Total(w, S) \in Nat
           /\ \A f, T : SumsUp(f, w, T) /\ S \subseteq T => f[S] = Total(w, S)
<1> DEFINE g == CHOOSE f : SumsUp(f, w, S)
<1>1. PICK f : SumsUp(f, w, S) /\ f \in [SUBSET S -> Nat]
  BY SumExists
<1>2. SumsUp(g, w, S)
  BY <1>1
<1>3. Total(w, S) = g[S]
  BY DEF Total
<1> HIDE DEF g
<1>4. g[S] = f[S]
  BY <1>1, <1>2, SumUnique DEF Weighs
<1>5. ASSUME NEW h, NEW T, SumsUp(h, w, T), S \subseteq T PROVE h[S] = g[S]
  BY <1>2, <1>5, SumUnique DEF Weighs
<1> QED BY <1>1, <1>3, <1>4, <1>5

\* Nothing sums up to nothing.
LEMMA TotalEmpty == \A w : Total(w, {}) = 0
<1> TAKE w
<1>1. Weighs(w, {})
  BY FS_EmptySet DEF Weighs
<1>2. PICK f : SumsUp(f, w, {})
  BY <1>1, SumExists
<1>3. f[{}] = 0
  BY <1>2, SumStep
<1> QED BY <1>1, <1>2, <1>3, TotalIs

\* Weights that agree on the set give the same sum.
LEMMA TotalSame ==
    ASSUME NEW S, NEW w, NEW v, Weighs(w, S), \A x \in S : v[x] = w[x]
    PROVE  Total(v, S) = Total(w, S)
<1>1. Weighs(v, S)
  BY DEF Weighs
<1>2. PICK f : SumsUp(f, v, S)
  BY <1>1, SumExists
<1>3. PICK g : SumsUp(g, w, S)
  BY SumExists
<1>4. f[S] = g[S]
  BY <1>2, <1>3, SumUnique DEF Weighs
<1> QED BY <1>1, <1>2, <1>3, <1>4, TotalIs

\* The weights of a set are weights of its subsets.
LEMMA WeighsSubset ==
    ASSUME NEW S, NEW w, Weighs(w, S), NEW T, T \subseteq S
    PROVE  Weighs(w, T)
BY FS_Subset DEF Weighs

\* Any element may be taken out first.
LEMMA TotalWith ==
    ASSUME NEW S, NEW w, Weighs(w, S), NEW x \in S
    PROVE  Total(w, S) = w[x] + Total(w, S \ {x})
<1>1. PICK f : SumsUp(f, w, S) /\ f \in [SUBSET S -> Nat]
  BY SumExists
<1> DEFINE Bad == {T \in SUBSET S : \E y \in T : f[T] # w[y] + f[T \ {y}]}
<1>2. Bad = {}
  <2> SUFFICES ASSUME Bad # {} PROVE FALSE
    OBVIOUS
  <2>1. Bad \subseteq SUBSET S /\ IsFiniteSet(S)
    BY DEF Weighs
  <2>2. PICK T \in Bad : \A u \in Bad : ~(u \subseteq T /\ u # T)
    <3> HIDE DEF Bad
    <3> QED BY <2>1, LeastSet
  <2>3. PICK y \in T : f[T] # w[y] + f[T \ {y}]
    BY <2>2
  <2> DEFINE p == Pick(T)
  <2>4. T \subseteq S /\ p \in T
    BY <2>2, <2>3, PickIn
  <2>5. f[T] = w[p] + f[T \ {p}]
    BY <1>1, <2>3, <2>4, SumStep
  <2> HIDE DEF p
  <2>6. p # y
    BY <2>3, <2>5
  <2>7. \A u \in SUBSET T : \A z \in u : u # T => f[u] = w[z] + f[u \ {z}]
    BY <2>2, <2>4
  <2>8. f[T \ {p}] = w[y] + f[(T \ {p}) \ {y}]
    BY <2>4, <2>6, <2>7
  <2>9. f[T \ {y}] = w[p] + f[(T \ {y}) \ {p}]
    BY <2>3, <2>4, <2>6, <2>7
  <2>10. f[T \ {p}] = w[y] + f[(T \ {y}) \ {p}]
    <3>1. (T \ {p}) \ {y} = (T \ {y}) \ {p}
      OBVIOUS
    <3> QED BY <2>8, <3>1
  <2>11. w[p] \in Nat /\ w[y] \in Nat /\ f[(T \ {y}) \ {p}] \in Nat
    BY <1>1, <2>3, <2>4 DEF Weighs
  <2> QED BY <2>3, <2>5, <2>9, <2>10, <2>11
<1>3. f[S] = w[x] + f[S \ {x}]
  BY <1>2
<1> QED BY <1>1, <1>3, TotalIs, WeighsSubset

\* A subset with smaller weights sums up to less.
LEMMA TotalMonotone ==
    ASSUME NEW T, NEW v, Weighs(v, T), NEW S, S \subseteq T,
           NEW w, Weighs(w, S), \A x \in S : w[x] <= v[x]
    PROVE  Total(w, S) <= Total(v, T)
<1> DEFINE Bad == {U \in SUBSET T : Total(w, S \cap U) > Total(v, U)}
<1>1. Bad = {}
  <2> SUFFICES ASSUME Bad # {} PROVE FALSE
    OBVIOUS
  <2>1. Bad \subseteq SUBSET T /\ IsFiniteSet(T)
    BY DEF Weighs
  <2>2. PICK U \in Bad : \A u \in Bad : ~(u \subseteq U /\ u # U)
    <3> HIDE DEF Bad
    <3> QED BY <2>1, LeastSet
  <2>3. U \subseteq T /\ Total(w, S \cap U) > Total(v, U)
    BY <2>2
  <2>4. U # {}
    <3>1. S \cap {} = {}
      OBVIOUS
    <3> QED BY <2>3, <3>1, TotalEmpty
  <2> DEFINE x == Pick(U)
             U1 == U \ {x}
  <2>5. x \in U
    BY <2>4, PickIn
  <2> HIDE DEF x
  <2>6. Total(w, S \cap U1) <= Total(v, U1)
    <3>1. /\ Total(w, S \cap U1) \in Nat /\ Total(v, U1) \in Nat
      BY <2>3, TotalIs, WeighsSubset
    <3> QED BY <2>2, <2>3, <2>5, <3>1
  <2>7. Weighs(v, U) /\ Weighs(v, U1) /\ Weighs(w, S \cap U) /\ Weighs(w, S \cap U1)
    BY <2>3, WeighsSubset
  <2>8. Total(v, U) = v[x] + Total(v, U1) /\ v[x] \in Nat
    BY <2>5, <2>7, TotalWith DEF Weighs
  <2>9. CASE x \in S
    <3>1. (S \cap U) \ {x} = S \cap U1 /\ x \in S \cap U
      BY <2>5, <2>9
    <3>2. Total(w, S \cap U) = w[x] + Total(w, S \cap U1) /\ w[x] \in Nat
      BY <2>7, <3>1, TotalWith DEF Weighs
    <3>3. w[x] <= v[x] /\ Total(w, S \cap U1) \in Nat /\ Total(v, U1) \in Nat
      BY <2>7, <2>9, TotalIs
    <3> HIDE DEF U1
    <3> QED BY <2>3, <2>6, <2>8, <3>2, <3>3
  <2>10. CASE x \notin S
    <3>1. S \cap U = S \cap U1
      BY <2>10
    <3>2. Total(w, S \cap U1) \in Nat /\ Total(v, U1) \in Nat
      BY <2>7, TotalIs
    <3>3. Total(w, S \cap U) = Total(w, S \cap U1)
      BY <3>1
    <3> HIDE DEF U1
    <3> QED BY <2>3, <2>6, <2>8, <3>2, <3>3
  <2> QED BY <2>9, <2>10
<1>2. ~(Total(w, S) > Total(v, T))
  <2>1. S \cap T = S
    OBVIOUS
  <2> QED BY <1>1, <2>1
<1>3. Total(w, S) \in Nat /\ Total(v, T) \in Nat
  BY TotalIs
<1> QED BY <1>2, <1>3
=============================================================================
