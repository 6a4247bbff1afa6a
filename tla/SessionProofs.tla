---------------------------- MODULE SessionProofs ----------------------------
(***************************************************************************)
(* What holds of the gateway's sessions (AuthAuthority) and of the desktop  *)
(* that holds one of them (InstallationSession), for every set of           *)
(* installations and any number of sessions.                               *)
(*                                                                         *)
(* RefreshBuysOnce is not inductive: nothing in it keeps a session that     *)
(* was exchanged from being presented again.  The invariant adds that such  *)
(* a session is revoked, and that it was issued before the one it bought.   *)
(***************************************************************************)
EXTENDS InstallationSession, TLAPS

Exchanged == \A s \in Sids : boughtWith[s] # NoSid =>
                /\ boughtWith[s] \in 1..issued
                /\ ~Live(boughtWith[s])

Inv == AuthTypeOK /\ OneLiveSession /\ RefreshBuysOnce /\ Exchanged

\* What is left of a row: nothing, or the row itself, perhaps revoked.
LeftOf(row, old) ==
    \/ row = NoRow
    \/ /\ old # NoRow /\ row \in Rows
       /\ row.installation = old.installation
       /\ ~row.revoked => ~old.revoked

\* The row that stands for none counts as revoked.
LEMMA NoRowRevoked == NoRow.revoked = TRUE
BY DEF NoRow

\* A row is revoked or in force, and never neither.
LEMMA RevokedOrNot == ASSUME NEW row \in Rows \cup {NoRow} PROVE row.revoked \in BOOLEAN
<1>1. CASE row = NoRow
  BY <1>1, NoRowRevoked
<1>2. CASE row \in Rows
  BY <1>2 DEF Rows
<1> QED BY <1>1, <1>2

\* A revocation leaves the other fields of a row as they are.
LEMMA RevokedRow ==
    ASSUME NEW row \in Rows \cup {NoRow}
    PROVE  Revoke(row) \in Rows \cup {NoRow} /\ Revoke(row).revoked /\ LeftOf(Revoke(row), row)
<1>1. CASE row = NoRow
  <2>1. Revoke(row) = NoRow
    BY <1>1 DEF Revoke, NoRow
  <2> QED BY <2>1, NoRowRevoked DEF LeftOf
<1>2. CASE row \in Rows /\ row # NoRow
  <2>1. Revoke(row) \in Rows /\ Revoke(row).revoked = TRUE /\ Revoke(row).installation = row.installation
    BY <1>2 DEF Revoke, Rows
  <2> QED BY <1>2, <2>1 DEF LeftOf
<1> QED BY <1>1, <1>2

\* Pruning the jtis keeps the invariant.
LEMMA Pruned ==
    ASSUME AuthTypeOK
    PROVE  /\ pruned \in [Sids -> Rows \cup {NoRow}]
           /\ \A s \in Sids : LeftOf(pruned[s], sessions[s])
BY DEF AuthTypeOK, pruned, LeftOf, Rows, NoRow

\* A revoked row is still what is left of the row it came from.
LEMMA LeftOfLeft ==
    ASSUME NEW r, NEW q, NEW p, LeftOf(r, q), LeftOf(q, p)
    PROVE  LeftOf(r, p)
BY DEF LeftOf

\* Issuing one session keeps the invariant if no other one of the installation
\* stays in force, and the one it was bought with, which was, does not either.
LEMMA IssueKeeps ==
    ASSUME Inv, NEW i \in Installations, NEW kept \in [Sids -> Rows \cup {NoRow}],
           \A s \in Sids : LeftOf(kept[s], sessions[s]),
           \A s \in Sids : ~kept[s].revoked => kept[s].installation # i,
           NEW with \in 0..MaxSessions,
           with # NoSid => with \in 1..issued /\ Live(with) /\ kept[with].revoked,
           registration' \in [Installations -> {"none", "active", "revoked"}],
           registration'[i] # "none",
           \A j \in Installations : registration[j] # "none" => registration'[j] # "none",
           issue(i, kept, with)
    PROVE  Inv'
<1>1. /\ issued \in 0..MaxSessions /\ issued' = issued + 1 /\ issued + 1 \in Sids
      /\ \A s \in 1..issued : s \in Sids /\ s # issued + 1
      /\ MaxSessions \in Nat
  BY SessionBound DEF Inv, AuthTypeOK, issue, Sids
<1>2. /\ sessions' \in [Sids -> Rows \cup {NoRow}]
      /\ sessions'[issued + 1] = Row(i)
      /\ \A s \in Sids : s # issued + 1 => sessions'[s] = kept[s]
      /\ Row(i).installation = i /\ Row(i).revoked = FALSE /\ Row(i) \in Rows
  BY <1>1 DEF issue, Row, Rows
<1>3. /\ boughtWith' \in [Sids -> 0..MaxSessions]
      /\ boughtWith'[issued + 1] = with
      /\ \A s \in Sids : s # issued + 1 => boughtWith'[s] = boughtWith[s]
  BY <1>1 DEF Inv, AuthTypeOK, issue
<1>4. AuthTypeOK'
  <2>1. \A s \in Sids : s > issued' => sessions'[s] = NoRow
    <3> TAKE s \in Sids
    <3>1. ASSUME s > issued' PROVE sessions'[s] = NoRow
      <4>1. s > issued /\ s # issued + 1
        BY <1>1, <3>1 DEF Sids
      <4>2. sessions[s] = NoRow
        BY <4>1 DEF Inv, AuthTypeOK
      <4> QED BY <1>2, <4>1, <4>2 DEF LeftOf
    <3> QED BY <3>1
  <2>2. \A s \in Sids : sessions'[s] # NoRow =>
           registration'[sessions'[s].installation] # "none"
    <3> TAKE s \in Sids
    <3>1. CASE s = issued + 1
      BY <1>2, <3>1
    <3>2. CASE s # issued + 1 /\ sessions'[s] # NoRow
      <4>1. /\ sessions[s] # NoRow /\ sessions'[s].installation = sessions[s].installation
            /\ sessions'[s] \in Rows
        BY <1>2, <3>2 DEF LeftOf
      <4>2. s \in 1..issued
        BY <1>1, <4>1 DEF Inv, AuthTypeOK, Sids
      <4>3. registration[sessions[s].installation] # "none"
        BY <4>1, <4>2 DEF Inv, AuthTypeOK
      <4>4. sessions'[s].installation \in Installations
        BY <4>1 DEF Rows
      <4> QED BY <4>1, <4>3, <4>4
    <3> QED BY <3>1, <3>2
  <2>3. age' \in [Sids -> Fresh..Expired] /\ issued' \in 0..MaxSessions
    BY <1>1 DEF Inv, AuthTypeOK, issue, Sids
  <2> QED BY <1>1, <1>2, <1>3, <2>1, <2>2, <2>3 DEF AuthTypeOK, Sids
<1>5. \A s \in Sids : s # issued + 1 /\ ~sessions'[s].revoked =>
         /\ Live(s) /\ sessions'[s].installation = sessions[s].installation
         /\ sessions'[s].installation # i
  <2> SUFFICES ASSUME NEW s \in Sids, s # issued + 1, ~sessions'[s].revoked
               PROVE  /\ Live(s) /\ sessions'[s].installation = sessions[s].installation
                      /\ sessions'[s].installation # i
    OBVIOUS
  <2>1. sessions'[s] = kept[s] /\ kept[s] # NoRow
    BY <1>2, NoRowRevoked
  <2>2. kept[s].installation = sessions[s].installation /\ ~sessions[s].revoked
    BY <2>1 DEF LeftOf
  <2> QED BY <2>1, <2>2 DEF Live
<1>6. OneLiveSession'
  <2> SUFFICES ASSUME NEW s \in Sids, NEW t \in Sids,
                      ~sessions'[s].revoked, ~sessions'[t].revoked,
                      sessions'[s].installation = sessions'[t].installation
               PROVE  s = t
    BY DEF OneLiveSession, Live
  <2>1. CASE s = issued + 1
    BY <1>2, <1>5, <2>1
  <2>2. CASE t = issued + 1
    BY <1>2, <1>5, <2>2
  <2>3. CASE s # issued + 1 /\ t # issued + 1
    BY <1>5, <2>3 DEF Inv, OneLiveSession
  <2> QED BY <2>1, <2>2, <2>3
<1>7. RefreshBuysOnce'
  <2>1. \A t \in Sids : boughtWith[t] # NoSid => boughtWith[t] # with
    BY DEF Inv, Exchanged
  <2> SUFFICES ASSUME NEW s \in Sids, NEW t \in Sids,
                      boughtWith'[s] # NoSid, boughtWith'[s] = boughtWith'[t]
               PROVE  s = t
    BY DEF RefreshBuysOnce
  <2> QED BY <1>3, <2>1 DEF Inv, RefreshBuysOnce
<1>8. Exchanged'
  <2> SUFFICES ASSUME NEW s \in Sids, boughtWith'[s] # NoSid
               PROVE  boughtWith'[s] \in 1..issued' /\ sessions'[boughtWith'[s]].revoked
    BY DEF Exchanged, Live
  <2> DEFINE b == boughtWith'[s]
  <2>1. CASE s = issued + 1
    <3>1. b \in 1..issued /\ kept[b].revoked
      BY <1>3, <2>1
    <3> QED BY <1>1, <1>2, <3>1
  <2>2. CASE s # issued + 1
    <3>1. b \in 1..issued /\ ~Live(b)
      BY <1>3, <2>2 DEF Inv, Exchanged
    <3>2. b \in Sids /\ b # issued + 1
      BY <1>1, <3>1
    <3>3. sessions'[b].revoked
      <4>1. sessions'[b].revoked \in BOOLEAN
        BY <1>2, <3>2, RevokedOrNot
      <4> QED BY <1>5, <3>1, <3>2, <4>1
    <3> QED BY <1>1, <3>1, <3>3
  <2> QED BY <2>1, <2>2
<1> QED BY <1>4, <1>6, <1>7, <1>8 DEF Inv

\* The invariant holds at the start.
LEMMA InitInv == AuthInit => Inv
<1> SUFFICES ASSUME AuthInit PROVE Inv
  OBVIOUS
<1>1. \A s \in Sids : sessions[s] = NoRow /\ sessions[s].revoked
  BY DEF AuthInit, NoRow
<1>2. AuthTypeOK
  BY <1>1, SessionBound DEF AuthInit, AuthTypeOK, Fresh, Expired, NoSid
<1> QED BY <1>1, <1>2 DEF AuthInit, Inv, OneLiveSession, RefreshBuysOnce, Exchanged, Live, NoSid

\* Revoking one row by its refresh token.
LEMMA LogoutKeeps ==
    ASSUME Inv, NEW s \in Sids, logout(s)
    PROVE  Inv'
<1>1. /\ sessions' = [sessions EXCEPT ![s] = Revoke(sessions[s])]
      /\ UNCHANGED <<registration, age, issued, boughtWith>>
      /\ sessions \in [Sids -> Rows \cup {NoRow}] /\ sessions[s] # NoRow /\ s \in 1..issued
  BY DEF logout, logoutAccepted, Inv, AuthTypeOK
<1>2. Revoke(sessions[s]) \in Rows \cup {NoRow} /\ Revoke(sessions[s]).revoked
      /\ Revoke(sessions[s]).installation = sessions[s].installation
  BY <1>1, RevokedRow DEF Revoke
<1>3. /\ sessions' \in [Sids -> Rows \cup {NoRow}]
      /\ sessions'[s].revoked
      /\ \A t \in Sids : t # s => sessions'[t] = sessions[t]
      /\ \A t \in Sids : sessions'[t].installation = sessions[t].installation
  BY <1>1, <1>2
<1>4. AuthTypeOK'
  <2>1. \A t \in Sids : t > issued' => sessions'[t] = NoRow
    BY <1>1, <1>3 DEF Inv, AuthTypeOK, Sids
  <2>2. \A t \in 1..issued' : sessions'[t] # NoRow =>
           registration'[sessions'[t].installation] # "none"
    <3>1. \A t \in 1..issued : t \in Sids
      BY SessionBound DEF Inv, AuthTypeOK, Sids
    <3> QED BY <1>1, <1>3, <3>1 DEF Inv, AuthTypeOK
  <2> QED BY <1>1, <1>3, <2>1, <2>2 DEF Inv, AuthTypeOK
<1>5. \A t \in Sids : ~sessions'[t].revoked => Live(t)
  BY <1>3 DEF Live
<1>6. OneLiveSession'
  BY <1>3, <1>5 DEF Inv, OneLiveSession, Live
<1>7. RefreshBuysOnce'
  BY <1>1 DEF Inv, RefreshBuysOnce
<1>8. Exchanged'
  <2> SUFFICES ASSUME NEW t \in Sids, boughtWith[t] # NoSid
               PROVE  boughtWith[t] \in 1..issued /\ sessions'[boughtWith[t]].revoked
    BY <1>1 DEF Exchanged, Live
  <2>1. boughtWith[t] \in 1..issued /\ sessions[boughtWith[t]].revoked
    BY DEF Inv, Exchanged, Live
  <2>2. boughtWith[t] \in Sids
    BY <2>1, SessionBound DEF Inv, AuthTypeOK, Sids
  <2> QED BY <1>3, <2>1, <2>2
<1> QED BY <1>4, <1>6, <1>7, <1>8 DEF Inv

\* Every step keeps the invariant.
LEMMA NextInv == Inv /\ [AuthNext]_authVars => Inv'
<1> SUFFICES ASSUME Inv, [AuthNext]_authVars PROVE Inv'
  OBVIOUS
<1>0. AuthTypeOK /\ issued \in 0..MaxSessions
  BY DEF Inv, AuthTypeOK
<1>1. ASSUME NEW i \in Installations, bootstrap(i) PROVE Inv'
  <2> DEFINE kept == allRevoked(i)
  <2>1. \A s \in Sids : kept[s] = IF pruned[s].installation = i THEN Revoke(pruned[s]) ELSE pruned[s]
    BY DEF allRevoked
  <2>2. \A s \in Sids : /\ kept[s] \in Rows \cup {NoRow}
                        /\ LeftOf(kept[s], sessions[s])
                        /\ ~kept[s].revoked => kept[s].installation # i
    <3> TAKE s \in Sids
    <3>1. pruned[s] \in Rows \cup {NoRow} /\ LeftOf(pruned[s], sessions[s])
      BY <1>0, Pruned
    <3>2. /\ Revoke(pruned[s]) \in Rows \cup {NoRow} /\ Revoke(pruned[s]).revoked
          /\ LeftOf(Revoke(pruned[s]), sessions[s])
      BY <3>1, RevokedRow, LeftOfLeft
    <3> QED BY <2>1, <3>1, <3>2
  <2>3. kept \in [Sids -> Rows \cup {NoRow}]
    BY <2>2 DEF allRevoked
  <2>4. /\ registration' = [registration EXCEPT ![i] = "active"]
        /\ issue(i, kept, NoSid)
    BY <1>1 DEF bootstrap
  <2>5. /\ registration' \in [Installations -> {"none", "active", "revoked"}]
        /\ registration'[i] # "none"
        /\ \A j \in Installations : registration[j] # "none" => registration'[j] # "none"
    BY <1>0, <2>4 DEF AuthTypeOK
  <2>6. NoSid \in 0..MaxSessions
    BY SessionBound DEF NoSid
  <2> HIDE DEF kept
  <2> QED BY <2>2, <2>3, <2>4, <2>5, <2>6, IssueKeeps
<1>2. ASSUME NEW s \in Sids, refresh(s) PROVE Inv'
  <2> DEFINE i == sessions[s].installation
             kept == [pruned EXCEPT ![s] = Revoke(pruned[s])]
  <2>1. /\ s \in 1..issued /\ pruned[s] # NoRow /\ Live(s)
        /\ registration[i] = "active"
        /\ issue(i, kept, s) /\ registration' = registration
    BY <1>2 DEF refresh, Current, Live
  <2>2. /\ pruned \in [Sids -> Rows \cup {NoRow}]
        /\ \A t \in Sids : LeftOf(pruned[t], sessions[t])
    BY <1>0, Pruned
  <2>3. /\ Revoke(pruned[s]) \in Rows \cup {NoRow} /\ Revoke(pruned[s]).revoked
        /\ LeftOf(Revoke(pruned[s]), sessions[s])
    BY <2>2, RevokedRow, LeftOfLeft
  <2>4. /\ kept \in [Sids -> Rows \cup {NoRow}] /\ kept[s] = Revoke(pruned[s])
        /\ \A t \in Sids : t # s => kept[t] = pruned[t]
    BY <2>2, <2>3
  <2>5. i \in Installations
    BY <1>0, <2>1, <2>2 DEF AuthTypeOK, LeftOf, Rows
  <2> HIDE DEF kept
  <2>6. \A t \in Sids : LeftOf(kept[t], sessions[t])
    BY <2>2, <2>3, <2>4
  <2>7. \A t \in Sids : ~kept[t].revoked => kept[t].installation # i
    <3> SUFFICES ASSUME NEW t \in Sids, ~kept[t].revoked PROVE kept[t].installation # i
      OBVIOUS
    <3>1. t # s
      BY <2>3, <2>4
    <3>2. Live(t) /\ kept[t].installation = sessions[t].installation
      <4>1. kept[t] # NoRow
        BY NoRowRevoked
      <4> QED BY <2>6, <4>1 DEF LeftOf, Live
    <3> QED BY <2>1, <3>1, <3>2 DEF Inv, OneLiveSession
  <2>8. s \in 0..MaxSessions
    BY DEF Sids
  <2>9. /\ registration' \in [Installations -> {"none", "active", "revoked"}]
        /\ registration'[i] # "none"
        /\ \A j \in Installations : registration[j] # "none" => registration'[j] # "none"
    BY <1>0, <2>1 DEF AuthTypeOK
  <2>10. kept[s].revoked
    BY <2>3, <2>4
  <2> HIDE DEF i
  <2> QED BY <2>1, <2>4, <2>5, <2>6, <2>7, <2>8, <2>9, <2>10, IssueKeeps
<1>3. ASSUME NEW s \in Sids, logout(s) PROVE Inv'
  BY <1>3, LogoutKeeps
<1>4. ASSUME NEW i \in Installations, Ban(i) PROVE Inv'
  <2>1. /\ registration' \in [Installations -> {"none", "active", "revoked"}]
        /\ \A j \in Installations : registration[j] # "none" => registration'[j] # "none"
        /\ UNCHANGED <<sessions, age, issued, boughtWith>>
    BY <1>0, <1>4 DEF Ban, AuthTypeOK
  <2>2. \A t \in 1..issued : t \in Sids /\ (sessions[t] # NoRow => sessions[t].installation \in Installations)
    BY <1>0, SessionBound DEF AuthTypeOK, Sids, Rows
  <2>3. \A t \in 1..issued : sessions[t] # NoRow =>
           registration'[sessions[t].installation] # "none"
    BY <1>0, <2>1, <2>2 DEF AuthTypeOK
  <2>4. AuthTypeOK'
    BY <1>0, <2>1, <2>3 DEF AuthTypeOK
  <2> QED BY <2>1, <2>4 DEF Inv, OneLiveSession, RefreshBuysOnce, Exchanged, Live
<1>5. ASSUME NEW s \in Sids, GrowOlder(s) PROVE Inv'
  <2>1. UNCHANGED <<registration, sessions, issued, boughtWith>>
    BY <1>5 DEF GrowOlder
  <2>2. age' \in [Sids -> Fresh..Expired]
    BY <1>0, <1>5 DEF GrowOlder, AuthTypeOK, Fresh, Expired
  <2>3. AuthTypeOK'
    BY <1>0, <2>1, <2>2 DEF AuthTypeOK
  <2> QED BY <2>1, <2>3 DEF Inv, OneLiveSession, RefreshBuysOnce, Exchanged, Live
<1>6. CASE UNCHANGED authVars
  BY <1>6 DEF authVars, Inv, AuthTypeOK, OneLiveSession, RefreshBuysOnce, Exchanged, Live
<1> QED BY <1>1, <1>2, <1>3, <1>4, <1>5, <1>6 DEF AuthNext, logoutByAccess

-----------------------------------------------------------------------------
\* Types, and that every session row belongs to a registered installation.
THEOREM TypeCorrect == AuthSpec => []AuthTypeOK
<1>1. Inv => AuthTypeOK  BY DEF Inv
<1> QED BY InitInv, NextInv, <1>1, PTL DEF AuthSpec

\* An installation never has two sessions in force.
THEOREM SessionsCorrect == AuthSpec => []OneLiveSession
<1>1. Inv => OneLiveSession  BY DEF Inv
<1> QED BY InitInv, NextInv, <1>1, PTL DEF AuthSpec

\* A refresh token is good for one new session only.
THEOREM RefreshCorrect == AuthSpec => []RefreshBuysOnce
<1>1. Inv => RefreshBuysOnce  BY DEF Inv
<1> QED BY InitInv, NextInv, <1>1, PTL DEF AuthSpec

-----------------------------------------------------------------------------
(* The desktop.  A session is good as long as it is fresh because nothing   *)
(* that can still be executed ends it: a refresh on its way presents a      *)
(* session that is no longer fresh, and a logout one that is not shown. A   *)
(* bootstrap ends them all, and overtakes them if nobody waits for it.      *)

Own(s) ==
    /\ s \in 1..issued
    /\ sessions[s] # NoRow => sessions[s].installation = Me

Mine(s) == Own(s) /\ Live(s) /\ registration[Me] = "active"

Answers == [status : {"none", "tokens", "refused", "done"}, sid : 0..issued]

Queue ==
    /\ \A i \in DOMAIN operations : operations[i] = "logout" => logoutIntent
    /\ \A i, j \in DOMAIN operations : operations[i] = "logout" /\ operations[j] = "logout" => i = j
    /\ phase = "logout" => Head(operations) = "logout"
    /\ phase = "bootstrap" => held = NoSid

\* What is on its way cannot end what is shown.
Harmless(r) ==
    /\ r.op = "refresh" => Own(r.sid) /\ age[r.sid] # Fresh
    /\ r.op = "logout" =>
          /\ r.sid \in 1..issued
          /\ r.sid = held => logoutIntent
          /\ answer.status = "tokens" => r.sid # answer.sid

OnTheirWay ==
    /\ Harmless(request)
    /\ \A r \in late : Harmless(r)

Back ==
    /\ answer \in Answers
    /\ phase = "ready" => answer = NoAnswer
    /\ answer.status = "tokens" =>
          /\ phase \in {"refresh", "bootstrap"} /\ Own(answer.sid)
          /\ age[answer.sid] = Fresh => Mine(answer.sid) \/ answer.sid <= overtaken

Shown ==
    held # NoSid =>
        /\ Own(held)
        /\ age[held] = Fresh /\ ~logoutIntent =>
              /\ refreshTimer = held
              /\ Mine(held) \/ held <= overtaken

ClientInv == SessionCaredFor /\ Queue /\ OnTheirWay /\ Back /\ Shown

SessionInv == Inv /\ ClientInv

-----------------------------------------------------------------------------
(* What a step of the gateway leaves of this desktop's sessions.           *)

Spares(ended) ==
    /\ issued' \in issued..MaxSessions
    /\ \A s \in 1..issued :
          /\ Own(s) => Own(s)'
          /\ age[s] # Fresh => age'[s] # Fresh
          /\ s \notin ended /\ Mine(s) /\ age'[s] = Fresh => Mine(s)'

\* A session in force has a row.
LEMMA LiveHasRow == ASSUME NEW s, Live(s) PROVE sessions[s] # NoRow
BY NoRowRevoked DEF Live

\* Issuing a session spares those whose rows it keeps, and the one issued is the
\* desktop's if it was issued to it.
LEMMA IssueSpares ==
    ASSUME AuthTypeOK, NEW i \in Installations, NEW with, NEW ended,
           NEW kept \in [Sids -> Rows \cup {NoRow}],
           \A s \in Sids : LeftOf(kept[s], sessions[s]),
           \A s \in 1..issued :
              s \notin ended /\ Mine(s) /\ age[s] = Fresh => kept[s] = sessions[s],
           registration[Me] = "active" => registration'[Me] = "active",
           issue(i, kept, with)
    PROVE  /\ Spares(ended)
           /\ issued' = issued + 1
           /\ i = Me /\ registration'[i] = "active" => Mine(issued)'
<1>1. /\ issued \in 0..MaxSessions /\ issued' = issued + 1 /\ issued + 1 \in Sids
      /\ \A s \in 1..issued : s \in Sids /\ s # issued + 1 /\ s \in 1..issued'
      /\ issued + 1 \in 1..issued'
      /\ MaxSessions \in Nat /\ age' = age
  BY SessionBound DEF AuthTypeOK, issue, Sids
<1>2. /\ sessions'[issued + 1] = Row(i)
      /\ \A s \in Sids : s # issued + 1 => sessions'[s] = kept[s]
      /\ Row(i).installation = i /\ Row(i).revoked = FALSE
  BY <1>1 DEF issue, Row
<1>3. \A s \in 1..issued : Own(s) => Own(s)'
  BY <1>1, <1>2 DEF Own, LeftOf
<1>4. ASSUME NEW s \in 1..issued, s \notin ended, Mine(s), age'[s] = Fresh PROVE Mine(s)'
  <2>1. sessions'[s] = sessions[s]
    BY <1>1, <1>2, <1>4
  <2>2. Own(s)'
    BY <1>3, <1>4 DEF Mine
  <2> QED BY <1>4, <2>1, <2>2 DEF Mine, Live
<1>5. i = Me /\ registration'[i] = "active" => Mine(issued)'
  BY <1>1, <1>2 DEF Mine, Own, Live
<1> QED BY <1>1, <1>3, <1>4, <1>5 DEF Spares, Sids

\* A row of a fresh session is not pruned.
LEMMA FreshKept ==
    ASSUME NEW s \in Sids, age[s] = Fresh PROVE pruned[s] = sessions[s]
BY DEF pruned, Fresh, Expired

\* A bootstrap of this desktop ends all its sessions but the one it issues.
LEMMA BootstrapSpares ==
    ASSUME AuthTypeOK, NEW i \in Installations, bootstrap(i)
    PROVE  /\ Spares(IF i = Me THEN 1..issued ELSE {})
           /\ issued' = issued + 1
           /\ i = Me => Mine(issued)'
<1> DEFINE kept == allRevoked(i)
<1>1. \A s \in Sids : kept[s] = IF pruned[s].installation = i THEN Revoke(pruned[s]) ELSE pruned[s]
  BY DEF allRevoked
<1>2. \A s \in Sids : kept[s] \in Rows \cup {NoRow} /\ LeftOf(kept[s], sessions[s])
  <2> TAKE s \in Sids
  <2>1. pruned[s] \in Rows \cup {NoRow} /\ LeftOf(pruned[s], sessions[s])
    BY Pruned
  <2>2. Revoke(pruned[s]) \in Rows \cup {NoRow} /\ LeftOf(Revoke(pruned[s]), sessions[s])
    BY <2>1, RevokedRow, LeftOfLeft
  <2> QED BY <1>1, <2>1, <2>2
<1>3. kept \in [Sids -> Rows \cup {NoRow}]
  BY <1>2 DEF allRevoked
<1>4. issue(i, kept, NoSid) /\ registration' = [registration EXCEPT ![i] = "active"]
  BY DEF bootstrap
<1>5. registration'[i] = "active" /\ (registration[Me] = "active" => registration'[Me] = "active")
  BY <1>4, MeInstalled DEF AuthTypeOK
<1>6. \A s \in 1..issued :
         s \notin (IF i = Me THEN 1..issued ELSE {}) /\ Mine(s) /\ age[s] = Fresh
            => kept[s] = sessions[s]
  <2> SUFFICES ASSUME NEW s \in 1..issued, i # Me, Mine(s), age[s] = Fresh
               PROVE  kept[s] = sessions[s]
    OBVIOUS
  <2>1. s \in Sids
    BY SessionBound DEF AuthTypeOK, Sids
  <2>2. pruned[s] = sessions[s] /\ sessions[s].installation = Me
    BY <2>1, FreshKept, LiveHasRow DEF Mine, Own
  <2> QED BY <1>1, <2>1, <2>2
<1> DEFINE ended == IF i = Me THEN 1..issued ELSE {}
<1> HIDE DEF kept
<1> QED BY <1>2, <1>3, <1>4, <1>5, <1>6, IssueSpares

\* A refresh ends the session it presents.
LEMMA RefreshSpares ==
    ASSUME Inv, NEW r, refresh(r), Own(r)
    PROVE  Spares({r}) /\ issued' = issued + 1 /\ Mine(issued)'
<1> DEFINE kept == [pruned EXCEPT ![r] = Revoke(pruned[r])]
<1>1. /\ AuthTypeOK /\ r \in 1..issued /\ pruned[r] # NoRow
      /\ registration[sessions[r].installation] = "active"
      /\ issue(sessions[r].installation, kept, r) /\ registration' = registration
  BY DEF refresh, Current, Inv
<1>2. r \in Sids
  BY <1>1, SessionBound DEF AuthTypeOK, Sids
<1>3. pruned \in [Sids -> Rows \cup {NoRow}] /\ \A t \in Sids : LeftOf(pruned[t], sessions[t])
  BY <1>1, Pruned
<1>4. sessions[r].installation = Me
  BY <1>1, <1>2, <1>3 DEF Own, LeftOf
<1>5. /\ Revoke(pruned[r]) \in Rows \cup {NoRow}
      /\ LeftOf(Revoke(pruned[r]), sessions[r])
  BY <1>2, <1>3, RevokedRow, LeftOfLeft
<1>6. /\ kept \in [Sids -> Rows \cup {NoRow}] /\ kept[r] = Revoke(pruned[r])
      /\ \A t \in Sids : t # r => kept[t] = pruned[t]
  BY <1>2, <1>3, <1>5
<1> HIDE DEF kept
<1>7. \A t \in Sids : LeftOf(kept[t], sessions[t])
  BY <1>3, <1>5, <1>6
<1>8. \A s \in 1..issued : s \notin {r} /\ Mine(s) /\ age[s] = Fresh => kept[s] = sessions[s]
  <2> SUFFICES ASSUME NEW s \in 1..issued, s # r, age[s] = Fresh PROVE kept[s] = sessions[s]
    OBVIOUS
  <2>1. s \in Sids
    BY <1>1, SessionBound DEF AuthTypeOK, Sids
  <2> QED BY <1>6, <2>1, FreshKept
<1>9. issue(Me, kept, r) /\ registration'[Me] = "active"
  BY <1>1, <1>4
<1> QED BY <1>1, <1>6, <1>7, <1>8, <1>9, MeInstalled, IssueSpares

\* A logout ends the session it names.
LEMMA LogoutSpares ==
    ASSUME AuthTypeOK, NEW r, logout(r)
    PROVE  Spares({r}) /\ issued' = issued
<1>1. /\ r \in 1..issued /\ sessions' = [sessions EXCEPT ![r] = Revoke(sessions[r])]
      /\ registration' = registration /\ age' = age /\ issued' = issued
      /\ sessions \in [Sids -> Rows \cup {NoRow}] /\ issued \in 0..MaxSessions
      /\ sessions[r] # NoRow
  BY DEF logout, logoutAccepted, AuthTypeOK
<1>2. \A s \in 1..issued : s \in Sids
  BY <1>1, SessionBound DEF Sids
<1>3. /\ \A s \in 1..issued : s # r => sessions'[s] = sessions[s]
      /\ sessions'[r].installation = sessions[r].installation
  BY <1>1, <1>2 DEF Revoke
<1>4. \A s \in 1..issued : Own(s) => Own(s)'
  BY <1>1, <1>3 DEF Own
<1>5. \A s \in 1..issued : s # r /\ Mine(s) => Mine(s)'
  BY <1>1, <1>3, <1>4 DEF Mine, Live
<1> QED BY <1>1, <1>4, <1>5, SessionBound DEF Spares

\* A session grows older, and none is lost.
LEMMA AgeSpares ==
    ASSUME AuthTypeOK, NEW r \in Sids, GrowOlder(r)
    PROVE  Spares({}) /\ issued' = issued
<1>1. /\ age \in [Sids -> Fresh..Expired] /\ age' = [age EXCEPT ![r] = age[r] + 1]
      /\ UNCHANGED <<registration, sessions, issued>> /\ issued \in 0..MaxSessions
  BY DEF GrowOlder, AuthTypeOK
<1>2. \A s \in 1..issued : s \in Sids
  BY <1>1, SessionBound DEF Sids
<1>3. \A s \in 1..issued : age[s] # Fresh => age'[s] # Fresh
  BY <1>1, <1>2 DEF Fresh, Expired
<1>4. \A s : (Own(s) => Own(s)') /\ (Mine(s) => Mine(s)')
  BY <1>1 DEF Own, Mine, Live
<1> QED BY <1>1, <1>3, <1>4, SessionBound DEF Spares

\* Nor by a step the gateway takes no part in.
LEMMA StillSpares ==
    ASSUME AuthTypeOK, UNCHANGED authVars
    PROVE  Spares({}) /\ issued' = issued
BY SessionBound DEF authVars, AuthTypeOK, Spares, Own, Mine, Live

-----------------------------------------------------------------------------
(* A step of the gateway, or of another desktop, seen from this one.       *)

\* It keeps the desktop's part of the invariant if it does not end a session
\* that is shown or about to be, and answers no more than was asked.
LEMMA GatewayKeeps ==
    ASSUME ClientInv, AuthTypeOK', NEW ended, Spares(ended),
           UNCHANGED <<held, logoutIntent, operations, phase, refreshTimer, recoveryTimer, wanted>>,
           request' = request \/ request' = NoRequest, late' \subseteq late,
           overtaken' \in 0..issued', overtaken' >= overtaken,
           held \in ended =>
              logoutIntent \/ age[held] # Fresh \/ held = NoSid \/ held <= overtaken',
           answer.status = "tokens" /\ answer.sid \in ended =>
              age[answer.sid] # Fresh \/ answer.sid <= overtaken',
           \/ answer' = answer
           \/ /\ phase # "ready"
              /\ request' = NoRequest /\ answer' \in Answers' /\ answer'.status # "none"
              /\ answer'.status = "tokens" =>
                    /\ phase \in {"refresh", "bootstrap"}
                    /\ Mine(answer.sid)' /\ answer'.sid \notin 1..issued
    PROVE  ClientInv'
<1>0. overtaken \in Nat /\ overtaken' \in Nat
      /\ \A s \in Nat : s <= overtaken => s <= overtaken'
  BY SessionBound DEF ClientInv, SessionCaredFor, TypeOK, AuthTypeOK
<1>1. /\ TypeOK /\ issued \in Nat /\ issued' \in Nat /\ issued' >= issued
      /\ \A s \in 1..issued : s \in 1..issued' /\ s # NoSid
  BY SessionBound DEF ClientInv, SessionCaredFor, TypeOK, AuthTypeOK, Spares, NoSid
<1>2. SessionCaredFor'
  <2>1. request' \in Requests \cup {NoRequest} /\ late' \subseteq Requests
    BY <1>1 DEF TypeOK
  <2>2. answer' = NoAnswer \/ answer'.status \in {"tokens", "refused", "done"}
    BY <1>1 DEF TypeOK, Answers
  <2>3. request' # NoRequest => request'.op = phase' /\ answer' = NoAnswer
    BY <1>1 DEF TypeOK
  <2>4. TypeOK'
    BY <1>1, <2>1, <2>2, <2>3 DEF TypeOK
  <2> QED BY <2>4 DEF ClientInv, SessionCaredFor
<1>3. Queue'
  BY DEF ClientInv, Queue
<1>4. answer' = answer \/ answer'.status # "tokens" \/ answer'.sid \notin 1..issued
  OBVIOUS
<1>5. ASSUME NEW r, Harmless(r) PROVE Harmless(r)'
  <2>1. r.op = "refresh" => Own(r.sid)' /\ age'[r.sid] # Fresh
    BY <1>5 DEF Harmless, Spares, Own
  <2>2. r.op = "logout" =>
          /\ r.sid \in 1..issued'
          /\ r.sid = held' => logoutIntent'
          /\ answer'.status = "tokens" => r.sid # answer'.sid
    BY <1>1, <1>4, <1>5 DEF Harmless
  <2> QED BY <2>1, <2>2 DEF Harmless
<1>6. Harmless(NoRequest)'
  BY DEF Harmless, NoRequest
<1>7. OnTheirWay'
  <2>1. Harmless(request)'
    <3>1. CASE request' = request
      <4>1. Harmless(request)
        BY DEF ClientInv, OnTheirWay
      <4> QED BY <1>5, <3>1, <4>1 DEF Harmless
    <3>2. CASE request' = NoRequest
      BY <1>6, <3>2 DEF Harmless
    <3> QED BY <3>1, <3>2
  <2>2. \A r \in late' : Harmless(r)'
    BY <1>5 DEF ClientInv, OnTheirWay
  <2> QED BY <2>1, <2>2 DEF OnTheirWay
<1>8. Back'
  <2>1. /\ answer \in Answers /\ (phase = "ready" => answer = NoAnswer)
        /\ answer.status = "tokens" =>
              /\ phase \in {"refresh", "bootstrap"} /\ Own(answer.sid)
              /\ age[answer.sid] = Fresh => Mine(answer.sid) \/ answer.sid <= overtaken
    BY DEF ClientInv, Back
  <2>2. CASE answer' = answer
    <3>1. answer' \in Answers'
      BY <1>1, <2>1, <2>2 DEF Answers
    <3>2. ASSUME answer.status = "tokens"
          PROVE  /\ Own(answer.sid)'
                 /\ age'[answer.sid] = Fresh => Mine(answer.sid)' \/ answer.sid <= overtaken'
      <4> DEFINE s == answer.sid
      <4>1. /\ s \in 1..issued /\ Own(s)
            /\ age[s] = Fresh => Mine(s) \/ s <= overtaken'
        BY <1>0, <2>1, <3>2 DEF Own
      <4>2. /\ Own(s) => Own(answer.sid)'
            /\ age[s] # Fresh => age'[s] # Fresh
            /\ s \notin ended /\ Mine(s) /\ age'[s] = Fresh => Mine(answer.sid)'
        BY <2>2, <4>1 DEF Spares, Own, Mine, Live
      <4> QED BY <2>1, <3>2, <4>1, <4>2
    <3> QED BY <2>1, <2>2, <3>1, <3>2 DEF Back
  <2>3. CASE answer' # answer
    BY <2>3 DEF Back, Mine
  <2> QED BY <2>2, <2>3
<1>9. Shown'
  <2> SUFFICES ASSUME held # NoSid
               PROVE  /\ Own(held)'
                      /\ age'[held] = Fresh /\ ~logoutIntent =>
                            refreshTimer = held /\ (Mine(held)' \/ held <= overtaken')
    BY DEF Shown
  <2>1. /\ held \in 1..issued /\ Own(held)
        /\ age[held] = Fresh /\ ~logoutIntent =>
              refreshTimer = held /\ (Mine(held) \/ held <= overtaken')
    BY <1>0 DEF ClientInv, Shown, Own
  <2>2. /\ Own(held) => Own(held)'
        /\ age[held] # Fresh => age'[held] # Fresh
        /\ held \notin ended /\ Mine(held) /\ age'[held] = Fresh => Mine(held)'
    BY <2>1 DEF Spares, Own, Mine, Live
  <2> QED BY <2>1, <2>2
<1> QED BY <1>2, <1>3, <1>7, <1>8, <1>9 DEF ClientInv

\* Unless a late bootstrap is executed, no more sessions are overtaken.
LEMMA StillOvertaken ==
    ASSUME ClientInv, NEW ended, Spares(ended), overtaken' = overtaken
    PROVE  overtaken' \in 0..issued' /\ overtaken' >= overtaken
BY SessionBound DEF ClientInv, SessionCaredFor, TypeOK, AuthTypeOK, Spares

\* What the gateway makes of a request: a bootstrap may end any session of the
\* desktop, the others no other than the one they name.
LEMMA Executed ==
    ASSUME Inv, NEW r, Harmless(r), NEW status, NEW sid, Executes(r, status, sid)
    PROVE  /\ [AuthNext]_authVars
           /\ \E ended : /\ Spares(ended)
                         /\ \A s \in ended : \/ r.op = "bootstrap"
                                             \/ r.op \in {"refresh", "logout"} /\ s = r.sid
           /\ r.op \in {"refresh", "bootstrap", "logout"}
           /\ r.op = "bootstrap" => issued' = issued + 1
           /\ status \in {"tokens", "refused", "done"} /\ sid \in 0..issued'
           /\ status = "tokens" => /\ r.op \in {"refresh", "bootstrap"}
                                   /\ Mine(issued)'
                                   /\ sid = issued' /\ sid \notin 1..issued
<1>0. /\ AuthTypeOK /\ issued \in Nat
      /\ \A s \in 1..issued : s \in Sids
  BY SessionBound DEF Inv, AuthTypeOK, Sids
<1>1. CASE r.op = "bootstrap" /\ bootstrap(Me) /\ status = "tokens" /\ sid = issued + 1
  <2>1. Spares(1..issued) /\ issued' = issued + 1 /\ Mine(issued)'
    BY <1>0, <1>1, MeInstalled, BootstrapSpares
  <2>2. AuthNext
    BY <1>1, MeInstalled DEF AuthNext
  <2>3. \E ended : Spares(ended) /\ \A s \in ended : \/ r.op = "bootstrap"
                                                     \/ r.op \in {"refresh", "logout"} /\ s = r.sid
    BY <1>1, <2>1
  <2> QED BY <1>0, <1>1, <2>1, <2>2, <2>3
<1>2. CASE r.op = "refresh" /\ refresh(r.sid) /\ status = "tokens" /\ sid = issued + 1
  <2>1. Own(r.sid) /\ r.sid \in Sids
    BY <1>0, <1>2 DEF Harmless, Own
  <2>2. Spares({r.sid}) /\ issued' = issued + 1 /\ Mine(issued)'
    BY <1>2, <2>1, RefreshSpares
  <2>3. AuthNext
    BY <1>2, <2>1 DEF AuthNext
  <2>4. \E ended : Spares(ended) /\ \A s \in ended : \/ r.op = "bootstrap"
                                                     \/ r.op \in {"refresh", "logout"} /\ s = r.sid
    BY <1>2, <2>2
  <2> QED BY <1>0, <1>2, <2>2, <2>3, <2>4
<1>3. CASE r.op = "logout" /\ logout(r.sid) /\ status = "done" /\ sid = NoSid
  <2>1. r.sid \in Sids
    BY <1>0, <1>3 DEF logout, logoutAccepted
  <2>2. Spares({r.sid}) /\ issued' = issued
    BY <1>0, <1>3, LogoutSpares
  <2>3. AuthNext
    BY <1>3, <2>1 DEF AuthNext
  <2>4. \E ended : Spares(ended) /\ \A s \in ended : \/ r.op = "bootstrap"
                                                     \/ r.op \in {"refresh", "logout"} /\ s = r.sid
    BY <1>3, <2>2
  <2> QED BY <1>0, <1>3, <2>2, <2>3, <2>4 DEF NoSid
<1>4. CASE r.op \in {"refresh", "logout"} /\ status = "refused" /\ sid = NoSid /\ UNCHANGED authVars
  <2>1. Spares({}) /\ issued' = issued
    BY <1>0, <1>4, StillSpares
  <2>2. \E ended : Spares(ended) /\ \A s \in ended : \/ r.op = "bootstrap"
                                                     \/ r.op \in {"refresh", "logout"} /\ s = r.sid
    BY <2>1
  <2> QED BY <1>0, <1>4, <2>1, <2>2 DEF NoSid
<1> QED BY <1>1, <1>2, <1>3, <1>4 DEF Executes

\* The gateway answers the request that is waited for.
LEMMA AnsweredKeeps ==
    ASSUME SessionInv, GatewayAnswers
    PROVE  [AuthNext]_authVars /\ ClientInv'
<1> DEFINE r == request
<1>1. PICK status \in {"tokens", "refused", "done"}, sid \in 0..MaxSessions :
         Executes(r, status, sid) /\ answer' = [status |-> status, sid |-> sid]
  BY DEF GatewayAnswers, Gives
<1>2. /\ request # NoRequest /\ request' = NoRequest
      /\ UNCHANGED <<held, logoutIntent, operations, phase, late, overtaken, refreshTimer,
                     recoveryTimer, wanted>>
  BY DEF GatewayAnswers
<1>3. /\ Inv /\ ClientInv /\ Harmless(r) /\ TypeOK /\ Queue /\ Shown
      /\ r.op = phase /\ phase # "ready" /\ answer.status # "tokens"
  BY <1>2 DEF SessionInv, ClientInv, OnTheirWay, SessionCaredFor, TypeOK, NoAnswer, Requests
<1>4. /\ [AuthNext]_authVars
      /\ \E ended : /\ Spares(ended)
                    /\ \A s \in ended : \/ r.op = "bootstrap"
                                        \/ r.op \in {"refresh", "logout"} /\ s = r.sid
      /\ status \in {"tokens", "refused", "done"} /\ sid \in 0..issued'
      /\ status = "tokens" => /\ r.op \in {"refresh", "bootstrap"}
                              /\ Mine(issued)'
                              /\ sid = issued' /\ sid \notin 1..issued
  BY <1>1, <1>3, Executed
<1>5. PICK ended : /\ Spares(ended)
                   /\ \A s \in ended : \/ r.op = "bootstrap"
                                       \/ r.op \in {"refresh", "logout"} /\ s = r.sid
  BY <1>4
<1>6. AuthTypeOK' /\ overtaken' \in 0..issued' /\ overtaken' >= overtaken
  <2>1. AuthTypeOK'
    BY <1>3, <1>4, NextInv DEF Inv
  <2> QED BY <1>2, <1>3, <1>5, <2>1, StillOvertaken
<1>7. held \in ended => logoutIntent \/ age[held] # Fresh \/ held = NoSid
  BY <1>3, <1>5 DEF Queue, Harmless
<1>8. /\ answer' \in Answers' /\ answer'.status # "none"
      /\ answer'.status = "tokens" =>
            /\ phase \in {"refresh", "bootstrap"}
            /\ Mine(answer.sid)' /\ answer'.sid \notin 1..issued
  <2>1. answer'.status = status /\ answer'.sid = sid
    BY <1>1
  <2>2. answer' \in Answers'
    BY <1>1, <1>4 DEF Answers
  <2>3. status = "tokens" => Mine(answer.sid)'
    BY <1>4, <2>1 DEF Mine, Own, Live
  <2> QED BY <1>3, <1>4, <2>1, <2>2, <2>3
<1> QED BY <1>2, <1>3, <1>4, <1>5, <1>6, <1>7, <1>8, GatewayKeeps

\* It executes one that is not waited for any more.
LEMMA AnsweredLateKeeps ==
    ASSUME SessionInv, NEW r \in late, GatewayAnswersLate(r)
    PROVE  [AuthNext]_authVars /\ ClientInv'
<1>1. PICK status \in {"tokens", "refused", "done"}, sid \in 0..MaxSessions :
         Executes(r, status, sid)
  BY DEF GatewayAnswersLate
<1>2. /\ late' \subseteq late
      /\ overtaken' = IF r.op = "bootstrap" THEN issued + 1 ELSE overtaken
      /\ UNCHANGED <<held, logoutIntent, operations, phase, request, answer, refreshTimer,
                     recoveryTimer, wanted>>
  BY DEF GatewayAnswersLate
<1>3. Inv /\ ClientInv /\ Harmless(r) /\ Shown /\ Back /\ TypeOK
  BY DEF SessionInv, ClientInv, OnTheirWay, SessionCaredFor
<1>4. /\ [AuthNext]_authVars
      /\ \E ended : /\ Spares(ended)
                    /\ \A s \in ended : \/ r.op = "bootstrap"
                                        \/ r.op \in {"refresh", "logout"} /\ s = r.sid
      /\ r.op = "bootstrap" => issued' = issued + 1
  BY <1>1, <1>3, Executed
<1>5. PICK ended : /\ Spares(ended)
                   /\ \A s \in ended : \/ r.op = "bootstrap"
                                       \/ r.op \in {"refresh", "logout"} /\ s = r.sid
  BY <1>4
<1>6. AuthTypeOK'
  BY <1>3, <1>4, NextInv DEF Inv
<1>7. /\ issued \in Nat /\ issued' \in issued..MaxSessions
      /\ overtaken \in 0..issued /\ held \in 0..issued
      /\ answer.sid \in 0..issued
  BY <1>3, <1>5, SessionBound DEF TypeOK, AuthTypeOK, Spares, Back, Answers
<1>8. /\ overtaken' \in 0..issued' /\ overtaken' >= overtaken
      /\ r.op = "bootstrap" => held <= overtaken' /\ answer.sid <= overtaken'
  BY <1>2, <1>4, <1>7
<1>9. held \in ended => logoutIntent \/ age[held] # Fresh \/ held = NoSid \/ held <= overtaken'
  BY <1>3, <1>5, <1>8 DEF Harmless
<1>10. answer.status = "tokens" /\ answer.sid \in ended =>
          age[answer.sid] # Fresh \/ answer.sid <= overtaken'
  BY <1>3, <1>5, <1>8 DEF Harmless
<1> QED BY <1>2, <1>3, <1>4, <1>5, <1>6, <1>8, <1>9, <1>10, GatewayKeeps

\* Time passes.
LEMMA AgesKeeps ==
    ASSUME SessionInv, NEW s \in Sids, Ages(s)
    PROVE  [AuthNext]_authVars /\ ClientInv'
<1>1. AuthNext /\ Inv /\ ClientInv /\ AuthTypeOK /\ GrowOlder(s) /\ UNCHANGED clientVars
  BY DEF Ages, AuthNext, SessionInv, Inv
<1>2. Spares({}) /\ AuthTypeOK'
  BY <1>1, AgeSpares, NextInv DEF Inv
<1> QED BY <1>1, <1>2, StillOvertaken, GatewayKeeps DEF clientVars

\* Another desktop starts.
LEMMA OthersKeep ==
    ASSUME SessionInv, NEW i \in Installations \ {Me}, OthersBootstrap(i)
    PROVE  [AuthNext]_authVars /\ ClientInv'
<1>1. AuthNext /\ Inv /\ ClientInv /\ AuthTypeOK /\ bootstrap(i) /\ UNCHANGED clientVars
  BY DEF OthersBootstrap, AuthNext, SessionInv, Inv
<1>2. Spares({}) /\ AuthTypeOK'
  BY <1>1, BootstrapSpares, NextInv DEF Inv
<1> QED BY <1>1, <1>2, StillOvertaken, GatewayKeeps DEF clientVars

-----------------------------------------------------------------------------
(* The steps of the desktop.                                               *)

Operations == Seq({"token", "logout"})

\* What an operation that queues leaves before it.
LEMMA Queued ==
    ASSUME NEW q \in Operations, NEW op \in {"token", "logout"}
    PROVE  /\ Append(q, op) \in Operations /\ Append(q, op) # <<>>
           /\ q # <<>> => Head(Append(q, op)) = Head(q)
           /\ DOMAIN q = 1..Len(q) /\ DOMAIN Append(q, op) = 1..(Len(q) + 1)
           /\ \A i \in 1..Len(q) : Append(q, op)[i] = q[i]
           /\ Append(q, op)[Len(q) + 1] = op
BY DEF Operations

\* What the operation that ends leaves behind it.
LEMMA Dequeued ==
    ASSUME NEW q \in Operations, q # <<>>
    PROVE  /\ Tail(q) \in Operations
           /\ 1 \in DOMAIN q /\ Head(q) = q[1]
           /\ \A i \in DOMAIN Tail(q) :
                 /\ i + 1 \in DOMAIN q /\ i + 1 # 1 /\ Tail(q)[i] = q[i + 1]
                 /\ i \in Nat
BY DEF Operations

\* While the gateway does nothing, sessions are the desktop's as before.
LEMMA SameSessions ==
    ASSUME UNCHANGED authVars
    PROVE  /\ \A s : Own(s)' = Own(s) /\ Mine(s)' = Mine(s)
           /\ age' = age /\ issued' = issued /\ Answers' = Answers
           /\ AuthTypeOK' = AuthTypeOK
BY DEF authVars, Own, Mine, Live, Answers, AuthTypeOK

\* A caller or a timer asks for a token.
LEMMA AskedKeeps ==
    ASSUME ClientInv, UNCHANGED authVars, accessToken,
           \/ UNCHANGED <<refreshTimer, recoveryTimer>>
           \/ refreshTimer # NoSid /\ age[refreshTimer] > Fresh
              /\ refreshTimer' = NoSid /\ UNCHANGED recoveryTimer
           \/ recoveryTimer' = FALSE /\ UNCHANGED refreshTimer
    PROVE  ClientInv'
<1>1. /\ ~logoutIntent /\ operations' = Append(operations, "token") /\ wanted' = TRUE
      /\ UNCHANGED <<held, logoutIntent, phase, request, answer, late, overtaken>>
  BY DEF accessToken, enqueue
<1>2. /\ TypeOK /\ Queue /\ OnTheirWay /\ Back /\ Shown /\ operations \in Operations
  BY DEF ClientInv, SessionCaredFor, TypeOK, Operations
<1>3. /\ operations' \in Operations /\ operations' # <<>>
      /\ operations # <<>> => Head(operations') = Head(operations)
      /\ DOMAIN operations = 1..Len(operations)
      /\ DOMAIN operations' = 1..(Len(operations) + 1)
      /\ \A i \in 1..Len(operations) : operations'[i] = operations[i]
      /\ operations'[Len(operations) + 1] = "token"
  BY <1>1, <1>2, Queued
<1>4. /\ \A s : Own(s)' = Own(s) /\ Mine(s)' = Mine(s)
      /\ age' = age /\ issued' = issued /\ Answers' = Answers
      /\ AuthTypeOK' = AuthTypeOK
  BY SameSessions
<1>5. SessionCaredFor'
  <2>1. refreshTimer \in 0..issued /\ recoveryTimer \in BOOLEAN /\ NoSid \in 0..issued
    BY <1>2, SessionBound DEF TypeOK, AuthTypeOK, NoSid
  <2>2. refreshTimer' \in 0..issued
    BY <2>1
  <2>3. recoveryTimer' \in BOOLEAN
    BY <2>1
  <2> QED BY <1>1, <1>2, <1>3, <1>4, <2>2, <2>3 DEF SessionCaredFor, TypeOK, Operations
<1>6. Queue'
  <2>1. \A i \in DOMAIN operations' : operations'[i] = "logout" =>
           i \in DOMAIN operations /\ operations[i] = "logout"
    BY <1>2, <1>3 DEF Operations
  <2>2. phase = "logout" => operations # <<>>
    BY <1>2 DEF TypeOK
  <2> QED BY <1>1, <1>2, <1>3, <2>1, <2>2 DEF Queue
<1>7. \A r : Harmless(r)' = Harmless(r)
  BY <1>1, <1>4 DEF Harmless, Own
<1>8. OnTheirWay' /\ Back'
  BY <1>1, <1>2, <1>4, <1>7 DEF OnTheirWay, Back, Harmless, Own, Mine, Live
<1>9. Shown'
  <2>1. held' # NoSid /\ age[held] = Fresh => refreshTimer' = refreshTimer
    BY <1>1, <1>2 DEF Shown, Fresh
  <2> QED BY <1>1, <1>2, <1>4, <2>1 DEF Shown, Own, Mine, Live
<1> QED BY <1>5, <1>6, <1>8, <1>9 DEF ClientInv

\* The desktop is told to log out.
LEMMA CallLogoutKeeps == ASSUME ClientInv, CallLogout PROVE ClientInv'
<1>1. /\ logoutIntent' = TRUE /\ refreshTimer' = NoSid /\ recoveryTimer' = FALSE
      /\ UNCHANGED <<authVars, held, phase, request, answer, late, overtaken, wanted>>
  BY DEF CallLogout
<1>2. /\ TypeOK /\ Queue /\ OnTheirWay /\ Back /\ Shown /\ operations \in Operations
  BY DEF ClientInv, SessionCaredFor, TypeOK, Operations
<1>3. /\ \A s : Own(s)' = Own(s) /\ Mine(s)' = Mine(s)
      /\ age' = age /\ issued' = issued /\ Answers' = Answers
      /\ AuthTypeOK' = AuthTypeOK
  BY <1>1, SameSessions
<1>4. /\ operations' \in Operations
      /\ operations # <<>> => operations' # <<>> /\ Head(operations') = Head(operations)
      /\ \A i, j \in DOMAIN operations' :
            operations'[i] = "logout" /\ operations'[j] = "logout" => i = j
  <2>1. CASE \E i \in DOMAIN operations : operations[i] = "logout"
    <3>1. operations' = operations
      BY <2>1 DEF CallLogout
    <3> QED BY <1>2, <3>1 DEF Queue
  <2>2. CASE ~\E i \in DOMAIN operations : operations[i] = "logout"
    <3>1. operations' = Append(operations, "logout")
      BY <2>2 DEF CallLogout, enqueue
    <3>2. /\ operations' \in Operations /\ operations' # <<>>
          /\ operations # <<>> => Head(operations') = Head(operations)
          /\ DOMAIN operations = 1..Len(operations)
          /\ DOMAIN operations' = 1..(Len(operations) + 1)
          /\ \A i \in 1..Len(operations) : operations'[i] = operations[i]
      BY <1>2, <3>1, Queued
    <3>3. \A i \in DOMAIN operations' : operations'[i] = "logout" => i = Len(operations) + 1
      BY <1>2, <2>2, <3>2 DEF Operations
    <3> QED BY <3>2, <3>3
  <2> QED BY <2>1, <2>2
<1>5. SessionCaredFor'
  <2>1. refreshTimer' \in 0..issued
    BY <1>1, <1>2, SessionBound DEF TypeOK, AuthTypeOK, NoSid
  <2> QED BY <1>1, <1>2, <1>3, <1>4, <2>1 DEF SessionCaredFor, TypeOK, Operations
<1>6. Queue'
  <2>1. phase = "logout" => operations # <<>>
    BY <1>2 DEF TypeOK
  <2> QED BY <1>1, <1>2, <1>4, <2>1 DEF Queue
<1>7. \A r : Harmless(r) => Harmless(r)'
  BY <1>1, <1>3 DEF Harmless, Own
<1>8. OnTheirWay' /\ Back'
  BY <1>1, <1>2, <1>3, <1>7 DEF OnTheirWay, Back, Harmless, Own, Mine, Live
<1>9. Shown'
  BY <1>1, <1>2, <1>3 DEF Shown, Own
<1> QED BY <1>5, <1>6, <1>8, <1>9 DEF ClientInv

\* An operation sends its request.
LEMMA SendKeeps ==
    ASSUME ClientInv, NEW op \in {"refresh", "bootstrap", "logout"}, NEW sid,
           UNCHANGED <<authVars, logoutIntent, operations, late, overtaken, refreshTimer,
                       recoveryTimer, wanted>>,
           operations # <<>>, phase = "ready" \/ answer.status = "refused",
           request = NoRequest,
           request' = [op |-> op, sid |-> sid], phase' = op, answer' = NoAnswer,
           held' = held \/ held' = NoSid,
           op = "bootstrap" => held' = NoSid /\ sid = NoSid,
           op = "refresh" => Own(sid) /\ age[sid] # Fresh,
           op = "logout" => Own(sid) /\ Head(operations) = "logout"
    PROVE  ClientInv'
<1>1. /\ TypeOK /\ Queue /\ OnTheirWay /\ Back /\ Shown /\ operations \in Operations
  BY DEF ClientInv, SessionCaredFor, TypeOK, Operations
<1>2. /\ \A s : Own(s)' = Own(s) /\ Mine(s)' = Mine(s)
      /\ age' = age /\ issued' = issued /\ Answers' = Answers
      /\ AuthTypeOK' = AuthTypeOK
  BY SameSessions
<1>3. /\ request'.op = op /\ request'.sid = sid
      /\ answer'.status = "none" /\ answer'.sid = NoSid
  BY DEF NoAnswer
<1>4. request' \in Requests
  <2>1. sid \in 0..MaxSessions
    BY <1>1, SessionBound DEF Own, TypeOK, AuthTypeOK, NoSid
  <2> QED BY <2>1 DEF Requests
<1>5. held' \in 0..issued
  BY <1>1, SessionBound DEF TypeOK, AuthTypeOK, NoSid
<1>6. SessionCaredFor'
  BY <1>1, <1>2, <1>3, <1>4, <1>5 DEF SessionCaredFor, TypeOK
<1>7. Queue'
  BY <1>1 DEF Queue
<1>8. op = "logout" => logoutIntent
  <2>1. operations # <<>> /\ Head(operations) = "logout" => logoutIntent
    BY <1>1, Dequeued DEF Queue
  <2> QED BY <2>1
<1>9. \A r : Harmless(r) /\ r.sid # NoSid => Harmless(r)'
  BY <1>2, <1>3 DEF Harmless, Own
<1>10. OnTheirWay'
  <2>1. Harmless(request)'
    BY <1>2, <1>3, <1>8 DEF Harmless, Own
  <2>2. \A r \in late : Harmless(r)'
    <3> TAKE r \in late
    <3>1. Harmless(r)
      BY <1>1 DEF OnTheirWay
    <3>2. r.op \in {"refresh", "logout"} => r.sid # NoSid
      BY <1>1, <3>1, SessionBound DEF Harmless, Own, NoSid, TypeOK, AuthTypeOK
    <3>3. r.op \notin {"refresh", "logout"} => Harmless(r)'
      BY DEF Harmless
    <3> QED BY <1>9, <3>1, <3>2, <3>3
  <2> QED BY <2>1, <2>2 DEF OnTheirWay
<1>11. Back'
  <2>1. answer' \in Answers
    BY <1>1, SessionBound DEF Answers, NoAnswer, NoSid, TypeOK, AuthTypeOK
  <2> QED BY <1>2, <1>3, <2>1 DEF Back
<1>12. Shown'
  BY <1>1, <1>2 DEF Shown, Own, Mine, Live
<1> QED BY <1>6, <1>7, <1>10, <1>11, <1>12 DEF ClientInv

\* An operation ends: a session it brings is the desktop's, no logout but the
\* one that ends takes the intent back, and only when no session is held.
LEMMA OverKeeps ==
    ASSUME ClientInv, UNCHANGED authVars, OperationOver, operations # <<>>,
           request' = NoRequest, answer' = NoAnswer,
           \A r \in late' : r \in late \/ (r = request /\ r # NoRequest),
           overtaken' = overtaken,
           \/ held' = held
           \/ held' = NoSid
           \/ answer.status = "tokens" /\ held' = answer.sid,
           \/ logoutIntent' = logoutIntent
           \/ logoutIntent' = FALSE /\ held' = NoSid /\ Head(operations) = "logout",
           refreshTimer' \in 0..issued, recoveryTimer' \in BOOLEAN, wanted' \in BOOLEAN,
           wanted' /\ ~logoutIntent' => refreshTimer' # NoSid \/ recoveryTimer',
           held' # NoSid /\ age[held'] = Fresh /\ ~logoutIntent' => refreshTimer' = held'
    PROVE  ClientInv'
<1>1. /\ TypeOK /\ Queue /\ OnTheirWay /\ Back /\ Shown /\ operations \in Operations
      /\ issued \in Nat
  BY SessionBound DEF ClientInv, SessionCaredFor, TypeOK, Operations, AuthTypeOK
<1>2. operations' = Tail(operations) /\ phase' = "ready"
  BY DEF OperationOver
<1>3. /\ \A s : Own(s)' = Own(s) /\ Mine(s)' = Mine(s)
      /\ age' = age /\ issued' = issued /\ Answers' = Answers
      /\ AuthTypeOK' = AuthTypeOK
  BY SameSessions
<1>4. /\ operations' \in Operations /\ 1 \in DOMAIN operations /\ Head(operations) = operations[1]
      /\ \A i \in DOMAIN operations' :
            /\ i + 1 \in DOMAIN operations /\ i + 1 # 1 /\ operations'[i] = operations[i + 1]
            /\ i \in Nat
  BY <1>1, <1>2, Dequeued
<1>5. held' \in 0..issued
  BY <1>1 DEF TypeOK, Back, Answers, NoSid
<1>6. SessionCaredFor'
  <2>1. late' \subseteq Requests
    <3> SUFFICES ASSUME NEW r \in late' PROVE r \in Requests
      OBVIOUS
    <3>1. r = request /\ r # NoRequest => r \in Requests
      BY <1>1 DEF TypeOK
    <3> QED BY <1>1, <3>1 DEF TypeOK
  <2>2. answer' = NoAnswer \/ answer'.status \in {"tokens", "refused", "done"}
    BY <1>1 DEF TypeOK
  <2>3. logoutIntent' \in BOOLEAN
    BY <1>1 DEF TypeOK
  <2>4. TypeOK'
    BY <1>1, <1>2, <1>3, <1>4, <1>5, <2>1, <2>2, <2>3 DEF TypeOK, Operations
  <2> QED BY <2>4 DEF SessionCaredFor
<1>7. Queue'
  <2>1. ASSUME NEW i \in DOMAIN operations', operations'[i] = "logout"
        PROVE  logoutIntent'
    <3>1. logoutIntent /\ Head(operations) # "logout"
      BY <1>1, <1>4, <2>1 DEF Queue
    <3> QED BY <3>1
  <2>2. ASSUME NEW i \in DOMAIN operations', NEW j \in DOMAIN operations',
               operations'[i] = "logout", operations'[j] = "logout"
        PROVE  i = j
    <3>1. i + 1 = j + 1
      BY <1>1, <1>4, <2>2 DEF Queue
    <3> QED BY <1>4, <3>1
  <2> QED BY <1>2, <2>1, <2>2 DEF Queue
<1>8. ASSUME NEW r, Harmless(r) PROVE Harmless(r)'
  <2>1. r.op = "logout" => (r.sid = held' => logoutIntent')
    <3> SUFFICES ASSUME r.op = "logout", r.sid = held' PROVE logoutIntent'
      OBVIOUS
    <3>1. held' # NoSid
      BY <1>1, <1>8 DEF Harmless, NoSid
    <3> QED BY <1>8, <3>1 DEF Harmless
  <2>2. answer'.status # "tokens"
    BY DEF NoAnswer
  <2> QED BY <1>3, <1>8, <2>1, <2>2 DEF Harmless, Own
<1>9. OnTheirWay'
  <2>1. Harmless(request)'
    BY DEF Harmless, NoRequest
  <2>2. \A r \in late' : Harmless(r)'
    BY <1>1, <1>8 DEF OnTheirWay
  <2> QED BY <2>1, <2>2 DEF OnTheirWay
<1>10. Back'
  <2>1. answer' \in Answers
    BY <1>1 DEF Back, Answers, NoAnswer, NoSid
  <2> QED BY <1>3, <2>1 DEF Back, NoAnswer
<1>11. Shown'
  <2> SUFFICES ASSUME held' # NoSid
               PROVE  /\ Own(held')
                      /\ age[held'] = Fresh /\ ~logoutIntent' =>
                            refreshTimer' = held' /\ (Mine(held') \/ held' <= overtaken)
    BY <1>3 DEF Shown, Own, Mine, Live, authVars
  <2>1. logoutIntent' = logoutIntent
    OBVIOUS
  <2>2. CASE held' = held
    BY <1>1, <2>1, <2>2 DEF Shown
  <2>3. CASE answer.status = "tokens" /\ held' = answer.sid
    BY <1>1, <2>1, <2>3 DEF Back
  <2> QED BY <2>2, <2>3
<1> QED BY <1>6, <1>7, <1>9, <1>10, <1>11 DEF ClientInv

-----------------------------------------------------------------------------
\* What an operation finds: it waits for a request or for its answer, never for
\* both, and a logout that runs is intended.
Waiting ==
    /\ issued \in Nat /\ NoSid \in 0..issued
    /\ phase = "ready" => request = NoRequest /\ answer = NoAnswer
    /\ phase # "ready" => operations # <<>>
    /\ answer.status # "none" => request = NoRequest
    /\ held \in 0..issued /\ refreshTimer \in 0..issued
    /\ recoveryTimer \in BOOLEAN /\ logoutIntent \in BOOLEAN /\ wanted \in BOOLEAN
    /\ held # NoSid => Own(held)
    /\ phase = "logout" => Head(operations) = "logout"
    /\ operations # <<>> /\ Head(operations) = "logout" => logoutIntent

\* The invariant says so.
LEMMA WaitsRight == ASSUME ClientInv PROVE Waiting
<1>1. TypeOK /\ issued \in Nat /\ operations \in Operations
  BY SessionBound DEF ClientInv, SessionCaredFor, TypeOK, AuthTypeOK, Operations
<1>2. operations # <<>> /\ Head(operations) = "logout" => logoutIntent
  BY <1>1, Dequeued DEF ClientInv, Queue
<1>3. phase = "ready" => request = NoRequest
  BY <1>1 DEF TypeOK, NoRequest, Requests
<1> QED BY <1>1, <1>2, <1>3 DEF ClientInv, TypeOK, Queue, Back, Shown, NoSid, NoAnswer, Waiting

\* A token operation that is done at once, or sends its request.
LEMMA TokenKeeps ==
    ASSUME ClientInv, TokenAtOnce \/ TokenRequested
    PROVE  UNCHANGED authVars /\ ClientInv'
<1>0. Waiting
  BY WaitsRight
<1>1. CASE TokenAtOnce
  <2>1. /\ operations # <<>> /\ phase = "ready" /\ OperationOver
        /\ logoutIntent \/ (held # NoSid /\ age[held] = Fresh)
        /\ UNCHANGED <<authVars, held, logoutIntent, request, answer, late, overtaken,
                       refreshTimer, recoveryTimer, wanted>>
    BY <1>1 DEF TokenAtOnce, Runs
  <2>2. held # NoSid /\ age[held] = Fresh /\ ~logoutIntent => refreshTimer = held
    BY DEF ClientInv, Shown
  <2> QED BY <1>0, <2>1, <2>2, OverKeeps DEF Waiting
<1>2. CASE TokenRequested
  <2>1. /\ operations # <<>> /\ phase = "ready"
        /\ UNCHANGED <<authVars, held, logoutIntent, operations, answer, late, overtaken,
                       refreshTimer,
                       recoveryTimer, wanted>>
    BY <1>2 DEF TokenRequested, Runs, send
  <2>2. CASE held # NoSid /\ age[held] > Fresh /\ send("refresh", held)
    <3>1. age[held] # Fresh
      BY <2>2 DEF Fresh
    <3> QED BY <1>0, <2>1, <2>2, <3>1, SendKeeps DEF Waiting, send
  <2>3. CASE held = NoSid /\ send("bootstrap", NoSid)
    BY <1>0, <2>1, <2>3, SendKeeps DEF Waiting, send
  <2> QED BY <1>2, <2>1, <2>2, <2>3 DEF TokenRequested
<1> QED BY <1>1, <1>2

\* A session arrives.
LEMMA CommittedKeeps == ASSUME ClientInv, Committed PROVE UNCHANGED authVars /\ ClientInv'
<1>1. Waiting
  BY WaitsRight
<1>2. /\ phase # "ready" /\ answer.status = "tokens" /\ held' = answer.sid /\ OperationOver
      /\ recoveryTimer' \in (IF logoutIntent THEN {FALSE} ELSE BOOLEAN)
      /\ refreshTimer' = IF logoutIntent THEN refreshTimer ELSE answer.sid
      /\ answer' = NoAnswer
      /\ UNCHANGED <<authVars, logoutIntent, request, late, overtaken, wanted>>
  BY DEF Committed
<1>3. answer.sid \in 0..issued /\ answer.sid # NoSid
  BY <1>1, <1>2 DEF ClientInv, Back, Own, Answers, NoSid
<1>4. recoveryTimer' \in BOOLEAN /\ refreshTimer' \in 0..issued
  BY <1>1, <1>2, <1>3 DEF Waiting
<1>5. ~logoutIntent' => refreshTimer' = held' /\ refreshTimer' # NoSid
  BY <1>2, <1>3
<1>6. request' = NoRequest /\ operations # <<>> /\ wanted' \in BOOLEAN
  BY <1>1, <1>2 DEF Waiting
<1> QED BY <1>2, <1>4, <1>5, <1>6, OverKeeps

\* A refresh is refused and a bootstrap follows.
LEMMA RefusedKeeps == ASSUME ClientInv, Refused PROVE UNCHANGED authVars /\ ClientInv'
<1>1. Waiting
  BY WaitsRight
<1>2. /\ phase # "ready" /\ answer.status = "refused" /\ held' = NoSid
      /\ request' = [op |-> "bootstrap", sid |-> NoSid] /\ phase' = "bootstrap"
      /\ answer' = NoAnswer
      /\ UNCHANGED <<authVars, logoutIntent, operations, late, overtaken, refreshTimer,
                     recoveryTimer, wanted>>
  BY DEF Refused, send
<1>3. operations # <<>> /\ request = NoRequest
  BY <1>1, <1>2 DEF Waiting
<1> QED BY <1>2, <1>3, SendKeeps

\* A logout that is done at once, sends its request, is confirmed or refused.
LEMMA LogoutKeepsSession ==
    ASSUME ClientInv, LogoutAtOnce \/ LogoutRequested \/ LoggedOut \/ LogoutRefused
    PROVE  UNCHANGED authVars /\ ClientInv'
<1>0. Waiting
  BY WaitsRight
<1>1. CASE LogoutAtOnce
  <2>1. /\ operations # <<>> /\ Head(operations) = "logout" /\ phase = "ready"
        /\ held = NoSid /\ logoutIntent' = FALSE /\ OperationOver /\ wanted' = FALSE
        /\ UNCHANGED <<authVars, held, request, answer, late, overtaken, refreshTimer,
                       recoveryTimer>>
    BY <1>1 DEF LogoutAtOnce, Runs
  <2> QED BY <1>0, <2>1, OverKeeps DEF Waiting
<1>2. CASE LogoutRequested
  <2>1. /\ operations # <<>> /\ Head(operations) = "logout" /\ phase = "ready"
        /\ held # NoSid
        /\ request' = [op |-> "logout", sid |-> held] /\ phase' = "logout"
        /\ UNCHANGED <<authVars, held, logoutIntent, operations, answer, late, overtaken,
                       refreshTimer,
                       recoveryTimer, wanted>>
    BY <1>2 DEF LogoutRequested, Runs, send
  <2> QED BY <1>0, <2>1, SendKeeps DEF Waiting
<1>3. CASE LoggedOut
  <2>1. /\ phase = "logout" /\ answer.status = "done" /\ held' = NoSid
        /\ refreshTimer' = NoSid /\ recoveryTimer' = FALSE /\ logoutIntent' = FALSE
        /\ wanted' = FALSE /\ OperationOver /\ answer' = NoAnswer
        /\ UNCHANGED <<authVars, request, late, overtaken>>
    BY <1>3 DEF LoggedOut
  <2>2. /\ request' = NoRequest /\ operations # <<>> /\ Head(operations) = "logout"
        /\ refreshTimer' \in 0..issued
    BY <1>0, <2>1 DEF Waiting
  <2> QED BY <2>1, <2>2, OverKeeps
<1>4. CASE LogoutRefused
  <2>1. /\ phase = "logout" /\ answer.status = "refused" /\ OperationOver
        /\ UNCHANGED <<held, logoutIntent, refreshTimer, recoveryTimer, wanted>>
        /\ answer' = NoAnswer /\ UNCHANGED <<authVars, request, late, overtaken>>
    BY <1>4 DEF LogoutRefused, LogoutFails
  <2>2. request' = NoRequest /\ operations # <<>> /\ logoutIntent'
    BY <1>0, <2>1 DEF Waiting
  <2> QED BY <1>0, <2>1, <2>2, OverKeeps DEF Waiting
<1> QED BY <1>1, <1>2, <1>3, <1>4

\* An operation is given up, whether a logout or not.
LEMMA GivenUpKeeps ==
    ASSUME ClientInv, GivenUp
    PROVE  UNCHANGED authVars /\ ClientInv'
<1>0. Waiting
  BY WaitsRight
<1>1. /\ phase # "ready" /\ OperationOver
      /\ request' = NoRequest /\ answer' = NoAnswer /\ UNCHANGED <<authVars, overtaken>>
      /\ UNCHANGED <<held, logoutIntent, refreshTimer, wanted>>
  BY DEF GivenUp, Fails, LogoutFails, TokenFails
<1>2. \A r \in late' : r \in late \/ (r = request /\ r # NoRequest)
  BY DEF GivenUp, leftBehind
<1>3. recoveryTimer' \in BOOLEAN /\ (wanted' /\ ~logoutIntent' => recoveryTimer')
  <2>1. CASE phase = "logout"
    <3>1. recoveryTimer' = recoveryTimer /\ logoutIntent'
      BY <1>0, <1>1, <2>1 DEF GivenUp, Fails, LogoutFails, Waiting
    <3> QED BY <1>0, <3>1 DEF Waiting
  <2>2. CASE phase # "logout"
    <3>1. recoveryTimer' = IF logoutIntent THEN recoveryTimer ELSE TRUE
      BY <2>2 DEF GivenUp, Fails, TokenFails
    <3> QED BY <1>0, <1>1, <3>1 DEF Waiting
  <2> QED BY <2>1, <2>2
<1>4. held' # NoSid /\ age[held'] = Fresh /\ ~logoutIntent' => refreshTimer' = held'
  BY <1>1 DEF ClientInv, Shown
<1>5. operations # <<>>
  BY <1>0, <1>1 DEF Waiting
<1>6. refreshTimer' \in 0..issued /\ wanted' \in BOOLEAN
  BY <1>0, <1>1 DEF Waiting
<1> QED BY <1>1, <1>2, <1>3, <1>4, <1>5, <1>6, OverKeeps

\* Nothing is there before the desktop has run, and nothing of it is left when
\* it starts again but the requests it had sent.
LEMMA ForgottenKeeps ==
    ASSUME AuthTypeOK', held' = NoSid, logoutIntent' = FALSE, operations' = <<>>, phase' = "ready",
           request' = NoRequest, answer' = NoAnswer, refreshTimer' = NoSid,
           recoveryTimer' = FALSE, wanted' = FALSE, late' \subseteq Requests,
           overtaken' \in 0..issued',
           \A r \in late' : /\ r.op = "logout" => r.sid \in 1..issued'
                            /\ r.op = "refresh" => Own(r.sid)' /\ age'[r.sid] # Fresh
    PROVE  ClientInv'
<1>1. issued' \in Nat /\ NoSid \in 0..issued'
  BY SessionBound DEF AuthTypeOK, NoSid
<1>2. SessionCaredFor'
  <2>1. operations' \in Seq({"token", "logout"})
    OBVIOUS
  <2> QED BY <1>1, <2>1 DEF SessionCaredFor, TypeOK
<1>3. Queue' /\ Shown'
  BY DEF Queue, Shown
<1>4. OnTheirWay'
  BY <1>1 DEF OnTheirWay, Harmless, NoRequest, NoAnswer, NoSid
<1>5. Back'
  BY <1>1 DEF Back, Answers, NoAnswer
<1> QED BY <1>2, <1>3, <1>4, <1>5 DEF ClientInv

\* The desktop starts again.
LEMMA RestartKeeps ==
    ASSUME ClientInv, Restart
    PROVE  UNCHANGED authVars /\ ClientInv'
<1>1. TypeOK /\ OnTheirWay
  BY DEF ClientInv, SessionCaredFor
<1>2. UNCHANGED authVars /\ AuthTypeOK'
  BY <1>1, SameSessions DEF Restart, TypeOK
<1>3. /\ \A s : Own(s)' = Own(s)
      /\ age' = age /\ issued' = issued
  BY <1>2, SameSessions
<1>4. \A r \in late' : (r \in late \/ (r = request /\ r # NoRequest)) /\ Harmless(r)
  BY <1>1 DEF Restart, leftBehind, OnTheirWay
<1>5. late' \subseteq Requests /\ overtaken' \in 0..issued'
  BY <1>1, <1>3, <1>4 DEF TypeOK, Restart
<1>6. \A r \in late' : /\ r.op = "logout" => r.sid \in 1..issued'
                       /\ r.op = "refresh" => Own(r.sid)' /\ age'[r.sid] # Fresh
  BY <1>3, <1>4 DEF Harmless, Own
<1> QED BY <1>2, <1>5, <1>6, ForgottenKeeps DEF Restart

\* Every step of the whole is one of the gateway's authority or none of it, and
\* keeps the invariant.
LEMMA NextSession ==
    ASSUME SessionInv, [Next]_vars
    PROVE  [AuthNext]_authVars /\ SessionInv'
<1>0. Inv /\ ClientInv
  BY DEF SessionInv
<1>1. [AuthNext]_authVars /\ ClientInv'
  <2>1. CASE CallAccessToken \/ RefreshTimerFires \/ RecoveryTimerFires
    BY <1>0, <2>1, AskedKeeps DEF CallAccessToken, RefreshTimerFires, RecoveryTimerFires
  <2>2. CASE CallLogout
    BY <1>0, <2>2, CallLogoutKeeps DEF CallLogout
  <2>3. CASE Proceeds
    BY <1>0, <2>3, TokenKeeps, CommittedKeeps, RefusedKeeps, LogoutKeepsSession DEF Proceeds
  <2>4. CASE GivenUp
    BY <1>0, <2>4, GivenUpKeeps
  <2>5. CASE GatewayAnswers
    BY <2>5, AnsweredKeeps
  <2>6. CASE \E r \in late : GatewayAnswersLate(r)
    BY <2>6, AnsweredLateKeeps
  <2>7. CASE \E s \in Sids : Ages(s)
    BY <2>7, AgesKeeps
  <2>8. CASE \E i \in Installations \ {Me} : OthersBootstrap(i)
    BY <2>8, OthersKeep
  <2>9. CASE Restart
    BY <1>0, <2>9, RestartKeeps
  <2>10. CASE UNCHANGED vars
    <3>1. UNCHANGED authVars /\ UNCHANGED clientVars
      BY <2>10 DEF vars
    <3>2. Spares({}) /\ AuthTypeOK'
      BY <1>0, <3>1, StillSpares, SameSessions DEF Inv
    <3> QED BY <1>0, <3>1, <3>2, StillOvertaken, GatewayKeeps DEF clientVars
  <2> QED BY <2>1, <2>2, <2>3, <2>4, <2>5, <2>6, <2>7, <2>8, <2>9, <2>10 DEF Next
<1> QED BY <1>0, <1>1, NextInv DEF SessionInv

\* It holds at the start.
LEMMA InitSession == Init => SessionInv
<1> SUFFICES ASSUME Init PROVE SessionInv
  OBVIOUS
<1>1. Inv
  BY InitInv DEF Init
<1>2. issued \in Nat /\ NoSid \in 0..issued /\ AuthTypeOK
  BY <1>1, SessionBound DEF Inv, AuthTypeOK, NoSid
<1>3. SessionCaredFor
  <2>1. operations \in Seq({"token", "logout"})
    BY DEF Init
  <2> QED BY <1>2, <2>1 DEF Init, SessionCaredFor, TypeOK
<1>4. Queue /\ Shown
  BY DEF Init, Queue, Shown
<1>5. OnTheirWay
  BY DEF Init, OnTheirWay, Harmless, NoRequest
<1>6. Back
  BY <1>2 DEF Init, Back, Answers, NoAnswer
<1> QED BY <1>1, <1>3, <1>4, <1>5, <1>6 DEF SessionInv, ClientInv

-----------------------------------------------------------------------------
\* The session the desktop shows is one the gateway accepts, unless a bootstrap
\* the desktop had given up was executed after it was issued, and somebody
\* renews it, however requests and answers are lost or late.
THEOREM SessionHeld == Spec => []SessionKept
<1>1. SessionInv => SessionKept
  <2> SUFFICES ASSUME SessionInv PROVE SessionKept
    OBVIOUS
  <2>1. Inv /\ AuthTypeOK /\ SessionCaredFor /\ Shown
    BY DEF SessionInv, ClientInv, Inv
  <2>2. ASSUME held > overtaken, age[held] = Fresh, ~logoutIntent PROVE verifies(held)
    <3>0. held \in Nat /\ overtaken \in Nat /\ held # NoSid
      BY <2>1, <2>2, SessionBound DEF SessionCaredFor, TypeOK, AuthTypeOK, NoSid
    <3>1. Mine(held) /\ held \in 1..issued
      BY <2>1, <2>2, <3>0 DEF Shown, Own
    <3>2. held \in Sids
      BY <2>1, <3>1, SessionBound DEF AuthTypeOK, Sids
    <3>3. sessions[held] # NoRow
      BY <3>1, LiveHasRow DEF Mine
    <3>4. pruned[held] = sessions[held]
      BY <2>2, <3>2, FreshKept
    <3> QED BY <2>2, <3>1, <3>2, <3>3, <3>4
            DEF verifies, Current, Mine, Own, Live, Fresh, AccessExpired
  <2> QED BY <2>1, <2>2 DEF SessionKept, CachedProofAccepted
<1>2. SessionInv /\ [Next]_vars => SessionInv'
  BY NextSession
<1> QED BY InitSession, <1>1, <1>2, PTL DEF Spec

\* A step of the desktop, the network or time is one of the authority or leaves
\* it as it is, whatever is late.
LEMMA AuthorityStep == Inv /\ [Next]_vars => [AuthNext]_authVars
<1> SUFFICES ASSUME Inv, [Next]_vars PROVE [AuthNext]_authVars
  OBVIOUS
<1>1. \A s \in 1..issued : s \in Sids
  BY SessionBound DEF Inv, AuthTypeOK, Sids
<1>2. ASSUME NEW r, NEW status, NEW sid, Executes(r, status, sid) PROVE [AuthNext]_authVars
  <2>1. CASE bootstrap(Me)
    BY <2>1, MeInstalled DEF AuthNext
  <2>2. CASE refresh(r.sid)
    BY <1>1, <2>2 DEF AuthNext, refresh, Current
  <2>3. CASE logout(r.sid)
    BY <1>1, <2>3 DEF AuthNext, logout, logoutAccepted
  <2> QED BY <1>2, <2>1, <2>2, <2>3 DEF Executes
<1>3. CASE GatewayAnswers \/ \E r \in late : GatewayAnswersLate(r)
  BY <1>2, <1>3 DEF GatewayAnswers, GatewayAnswersLate
<1>4. CASE \E s \in Sids : Ages(s)
  BY <1>4 DEF Ages, AuthNext
<1>5. CASE \E i \in Installations \ {Me} : OthersBootstrap(i)
  BY <1>5 DEF OthersBootstrap, AuthNext
<1>6. CASE CallAccessToken \/ RefreshTimerFires \/ RecoveryTimerFires \/ CallLogout
  BY <1>6 DEF CallAccessToken, RefreshTimerFires, RecoveryTimerFires, CallLogout
<1>7. CASE Proceeds
  BY <1>7 DEF Proceeds, TokenAtOnce, TokenRequested, Committed, Refused,
              LogoutAtOnce, LogoutRequested, LoggedOut, LogoutRefused
<1>8. CASE GivenUp \/ Restart
  BY <1>8 DEF GivenUp, Restart
<1>9. CASE UNCHANGED vars
  BY <1>9 DEF vars
<1> QED BY <1>3, <1>4, <1>5, <1>6, <1>7, <1>8, <1>9 DEF Next

\* Behind the network, the gateway's authority is what AuthAuthority specifies:
\* the desktop's specification implements the authority's.
THEOREM AuthorityBehind == Spec => AuthSpec
<1>1. Init => AuthInit
  BY DEF Init
<1>2. Inv /\ [Next]_vars => Inv' /\ [AuthNext]_authVars
  BY AuthorityStep, NextInv
<1> QED BY InitInv, <1>1, <1>2, PTL DEF Spec, AuthSpec

\* So a desktop never has two sessions in force, and no refresh token it has
\* used buys another.
THEOREM DesktopsSessions == Spec => [](OneLiveSession /\ RefreshBuysOnce)
BY AuthorityBehind, SessionsCorrect, RefreshCorrect, PTL
=============================================================================
