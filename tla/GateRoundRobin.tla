---------------------------- MODULE GateRoundRobin ----------------------------
(***************************************************************************)
(* ProviderAdmissionGate with a history variable: for every owner that has  *)
(* been waiting, below its own active limit, how often each other owner was *)
(* admitted meanwhile.  A waiter that gives up starts the count anew:       *)
(* rotateAfterLastGrantedOwner turns the list behind the last granted owner *)
(* only while that owner is in it.  The history only observes the gate.     *)
(***************************************************************************)
EXTENDS ProviderAdmissionGate

VARIABLE bypass     \* bypass[o][p]: admissions of p while o waited, up to MaxBypass

histVars == <<gate, bypass>>

MaxBypass == Cardinality(Owners)

Never == [o \in Owners |-> [p \in Owners |-> 0]]

\* The owner has a waiting request and its own limit does not hold it back.
Eligible(g, o) == g.queue[o] # <<>> /\ g.byOwner[o] < MaxActivePerOwner

AdmittedNow == {OwnerOf[r] : r \in {q \in Requests :
                    gate.status[q] # "granted" /\ gate'.status[q] = "granted"}}

Observe ==
    bypass' = [o \in Owners |->
        IF ~GaveUp /\ Eligible(gate, o) /\ Eligible(gate', o) /\ o \notin AdmittedNow
        THEN [p \in Owners |-> IF p \in AdmittedNow /\ bypass[o][p] < MaxBypass
                               THEN bypass[o][p] + 1 ELSE bypass[o][p]]
        ELSE Never[o]]

HistInit == Init /\ bypass = Never
HistNext == Next /\ Observe
HistSpec == HistInit /\ [][HistNext]_histVars

\* The relays release their permits in a finally, so nobody holds one for ever:
\* what weak fairness of each Release comes to, as Release leaves "granted".
FairHistSpec ==
    HistSpec /\ \A r \in Requests : []<>(gate.status[r] # "granted")

\* "A bounded, round-robin gate" (providerAdmission.ts:228): while an owner
\* waits and could be served, and no waiter gives up, another owner is served
\* again and again only as far as further owners join in behind the first: each
\* at most once for every owner there is, itself left out.
OwnersRotate == [][\A o, p \in Owners : bypass'[o][p] < Cardinality(Owners)]_histVars

\* What one would expect of a round robin, and does not hold: no other owner is
\* served twice. Owners that were queued after the last granted one was queued
\* again come before all that waited before it, see the README.
RoundRobin == \A o, p \in Owners : bypass[o][p] <= 1

\* The gate's turns: owners in rotation, an owner's calls in their order, and
\* nobody any more once close() was called (drain, rotateAfterLastGrantedOwner).
ServedInTurn == AdmittedInOrder /\ OwnersRotate
=============================================================================
