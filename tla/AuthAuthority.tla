---------------------------- MODULE AuthAuthority ----------------------------
(***************************************************************************)
(* The gateway's authority for anonymous installations: class AuthAuthority *)
(* of gateway/installationAuth.ts.  Each operation is one immediate SQLite  *)
(* transaction; one that throws is rolled back, its pruning included.      *)
(*                                                                         *)
(* A session id stands for the refresh token and the access token issued    *)
(* with it.  Time is seen through the age of a session: Fresh, then Stale   *)
(* (the client wants a new one), then only its refresh token is good, then  *)
(* neither is.  Ids are numbered in the order of issue, so an earlier       *)
(* session is never younger.                                               *)
(***************************************************************************)
EXTENDS Naturals

CONSTANTS
    Installations,
    MaxSessions     \* bound: ids that can be issued

ASSUME SessionBound == MaxSessions \in Nat
ASSUME NoSuchInstallation == "no row" \notin Installations

Sids == 1..MaxSessions
NoSid == 0

Fresh == 0
Stale == 1
AccessExpired == 2
Expired == 3

VARIABLES
    registration,   \* installation_registrations_v1: none, active or revoked
    sessions,       \* installation_sessions_v1
    age,
    issued,         \* the last id issued
    boughtWith      \* history: the session whose refresh token bought this one

authVars == <<registration, sessions, age, issued, boughtWith>>

NoRow == [installation |-> "no row", revoked |-> TRUE]
Row(i) == [installation |-> i, revoked |-> FALSE]
Revoke(row) == [installation |-> row.installation, revoked |-> TRUE]

AuthInit ==
    /\ registration = [i \in Installations |-> "none"]
    /\ sessions = [s \in Sids |-> NoRow]
    /\ age = [s \in Sids |-> Fresh]
    /\ issued = 0
    /\ boughtWith = [s \in Sids |-> NoSid]

\* pruneExpiredSessions
pruned == [s \in Sids |-> IF age[s] = Expired THEN NoRow ELSE sessions[s]]

\* What refresh and verifyAccess ask of a session.
Current(s) ==
    /\ s \in 1..issued
    /\ pruned[s] # NoRow
    /\ ~sessions[s].revoked
    /\ registration[sessions[s].installation] = "active"

verifies(s) == Current(s) /\ age[s] < AccessExpired

\* issue: a new session beside what is left of the old ones.
issue(i, kept, with) ==
    /\ issued < MaxSessions
    /\ issued' = issued + 1
    /\ sessions' = [kept EXCEPT ![issued + 1] = Row(i)]
    /\ boughtWith' = [boughtWith EXCEPT ![issued + 1] = with]
    /\ UNCHANGED age

-----------------------------------------------------------------------------
bootstrapRefused(i) == registration[i] = "revoked"

\* Mutant: the sessions of the installation are left as they are.
bootstrapBeside(i) ==
    /\ ~bootstrapRefused(i)
    /\ registration' = [registration EXCEPT ![i] = "active"]
    /\ issue(i, pruned, NoSid)

\* UPDATE ... SET revoked=1 WHERE installation_id=?
allRevoked(i) ==
    [s \in Sids |-> IF pruned[s].installation = i THEN Revoke(pruned[s]) ELSE pruned[s]]

bootstrap(i) ==
    /\ ~bootstrapRefused(i)
    /\ registration' = [registration EXCEPT ![i] = "active"]
    /\ issue(i, allRevoked(i), NoSid)

\* Mutant: the session is not revoked when its refresh token has been used.
refreshKeepsOld(s) ==
    /\ Current(s)
    /\ issue(sessions[s].installation, pruned, s)
    /\ UNCHANGED registration

\* A session whose registration was revoked is refused; the statement that
\* revokes it is rolled back with the refusal.
refresh(s) ==
    /\ Current(s)
    /\ issue(sessions[s].installation, [pruned EXCEPT ![s] = Revoke(@)], s)
    /\ UNCHANGED registration

\* logout by refresh token takes any session that has a row, ...
logoutAccepted(s) == s \in 1..issued /\ sessions[s] # NoRow

logout(s) ==
    /\ logoutAccepted(s)
    /\ sessions' = [sessions EXCEPT ![s] = Revoke(@)]
    /\ UNCHANGED <<registration, age, issued, boughtWith>>

\* ... by access token only one that is in force.
logoutByAccess(s) == verifies(s) /\ logout(s)

\* An operator bans an installation: no code of the repository does it, but
\* the column is there for it.
Ban(i) ==
    /\ registration[i] = "active"
    /\ registration' = [registration EXCEPT ![i] = "revoked"]
    /\ UNCHANGED <<sessions, age, issued, boughtWith>>

GrowOlder(s) ==
    /\ s \in 1..issued /\ age[s] < Expired
    /\ \A t \in 1..issued : t < s => age[t] > age[s]
    /\ age' = [age EXCEPT ![s] = @ + 1]
    /\ UNCHANGED <<registration, sessions, issued, boughtWith>>

AuthNext ==
    \/ \E i \in Installations : bootstrap(i) \/ Ban(i)
    \/ \E s \in Sids : refresh(s) \/ logout(s) \/ logoutByAccess(s) \/ GrowOlder(s)

AuthSpec == AuthInit /\ [][AuthNext]_authVars

-----------------------------------------------------------------------------
Rows == [installation : Installations, revoked : BOOLEAN]

AuthTypeOK ==
    /\ registration \in [Installations -> {"none", "active", "revoked"}]
    /\ sessions \in [Sids -> Rows \cup {NoRow}]
    /\ age \in [Sids -> Fresh..Expired]
    /\ issued \in 0..MaxSessions
    /\ boughtWith \in [Sids -> 0..MaxSessions]
    /\ \A s \in Sids : s > issued => sessions[s] = NoRow
    /\ \A s \in 1..issued :
          sessions[s] # NoRow => registration[sessions[s].installation] # "none"

Live(s) == ~sessions[s].revoked

\* An installation has at most one session in force: a bootstrap ends the one
\* before it, and a refresh ends the one it was bought with.
OneLiveSession ==
    \A s, t \in Sids :
        Live(s) /\ Live(t) /\ sessions[s].installation = sessions[t].installation => s = t

\* A refresh token buys one session, however often and by whomever it is
\* presented, so a chain of refreshes never forks.
RefreshBuysOnce ==
    \A s, t \in Sids : boughtWith[s] # NoSid /\ boughtWith[s] = boughtWith[t] => s = t
=============================================================================
