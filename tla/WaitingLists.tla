----------------------------- MODULE WaitingLists -----------------------------
(***************************************************************************)
(* What the schedulers do with a list of waiting owners and with one       *)
(* owner's queue: the array operations indexOf, splice and shift/push, and *)
(* the two facts about such a list that their invariants are about.        *)
(***************************************************************************)
EXTENDS Integers, Sequences

\* The first of a non-empty set of positions.
First(S) == CHOOSE i \in S : \A j \in S : i <= j

At(s, x) == {i \in DOMAIN s : s[i] = x}
Listed(s, x) == At(s, x) # {}
Distinct(s) == \A i, j \in DOMAIN s : s[i] = s[j] => i = j

\* push(...splice(0, i)): the first i elements go to the back, in order.
Rotate(s, i) ==
    LET n == Len(s) - i
    IN  [k \in 1..Len(s) |-> IF k <= n THEN s[i + k] ELSE s[k - n]]

\* Element i is taken out by a loop that shifts the elements before it off
\* the front and pushes them to the back.
TakeOut(s, i) ==
    LET n == Len(s) - i
    IN  [k \in 1..(Len(s) - 1) |-> IF k <= n THEN s[i + k] ELSE s[k - n]]

\* splice(i, 1): the others close ranks.
Splice(s, i) == [k \in 1..(Len(s) - 1) |-> IF k < i THEN s[k] ELSE s[k + 1]]

\* splice(indexOf(x), 1) where x occurs.
Without(s, x) == IF Listed(s, x) THEN Splice(s, First(At(s, x))) ELSE s
=============================================================================
