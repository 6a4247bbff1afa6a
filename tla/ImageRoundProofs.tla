--------------------------- MODULE ImageRoundProofs ---------------------------
(***************************************************************************)
(* What holds of one paid generation for all callers, polls, cancels and   *)
(* restarts: it is posted once, nothing is released before it is           *)
(* committed, and what is recorded as failed was never paid for.           *)
(*                                                                         *)
(* Calls write back what they read long ago, so a record says little of    *)
(* the moment it is written.  What it says is of a kind that stays true:   *)
(* the relay knows the task, the group is committed, the generation will   *)
(* never be paid.  The invariant says of every record, stored or in a      *)
(* call's hands, that it fits (Fits) these three facts.                    *)
(***************************************************************************)
EXTENDS ImageRound, TLAPS

-----------------------------------------------------------------------------
(* The inductive invariant.                                                *)

Tasks ==
  [status : {"queued", "running", "committing", "succeeded", "failed", "cancelled"},
   unknown : BOOLEAN, remote : BOOLEAN, started : BOOLEAN, receipt : BOOLEAN, acked : BOOLEAN]

Formals ==
  [status : {"queued", "running", "committing", "succeeded", "failed", "cancelled", "outcome_unknown"},
   result : BOOLEAN, late : BOOLEAN]

\* Where a call only reads on, and where it holds a record of a remote task.
Passing  == {"idle", "claim", "submitted", "lookup", "sync", "syncWrite", "ack",
             "cancelLocally", "cancelRemotely", "served"}
Remotely == {"refresh", "awaiting", "read", "answer", "committing", "commit", "acking", "acked"}
Labels   == Passing \cup Remotely \cup
            {"begin", "post", "fence", "syncCancel", "cancelled", "cancelSave"}

Places ==
  [call : {"none", "create", "resume", "recover", "poll", "cancel", "refresh"},
   at : Labels,
   next : {"none", "reconcile", "absent", "handoff", "refused"} \cup ActiveStates \cup TerminalStates,
   t : Tasks, g : Formals]

\* A record fits the facts that last: the group is committed, the relay knows
\* the task, the generation is free of charge for good.
TaskFits(t, committed, known, free) ==
  /\ t \in Tasks
  /\ t.remote => known
  /\ t.status = "committing" => t.remote /\ t.receipt
  /\ t.status = "succeeded" => committed
  /\ t.status = "cancelled" \/ DefinitivelyNotSubmitted(t) => free

FormalFits(g, committed, free) ==
  /\ g \in Formals
  /\ g.result \/ g.status = "succeeded" => committed
  /\ g.status = "cancelled" => free

\* So does a call, with its two records and by where it is.
Fits(q, committed, known, free) ==
  /\ q \in Places
  /\ TaskFits(q.t, committed, known, free)
  /\ FormalFits(q.g, committed, free)
  /\ q.at \in {"begin", "post", "fence"} => q.t.started
  /\ q.at \in Remotely => q.t.remote
  /\ q.at \in {"committing", "commit"} => q.t.status = "committing"
  /\ q.at \in {"acking", "acked"} => committed
  /\ q.at \in {"cancelled", "cancelSave", "syncCancel"} => free
  /\ q.at = "answer" /\ q.next \in {"absent", "failed", "cancelled"} => free

Beginning(p) == proc[p].at = "begin"
Claimable(t) == t.status = "queued" /\ ~t.remote /\ ~t.started

\* Nothing was paid for this generation, and nothing can be any more.
Free ==
  /\ ~paid[Key]
  /\ \/ remote[Key] \in {"failed", "cancelled"}
     \/ /\ remote[Key] = "absent" /\ post \notin {"flying", "late"}
        /\ ~Claimable(T)
        /\ \A p \in Procs : ~Beginning(p)

\* A refused status read is recorded as a failure whatever was paid; from then
\* on any record may be one that a call had read then.
Harmless == Free \/ denied
Known    == remote[Key] # "absent"

RelaySide ==
  /\ remote \in [Keys -> {"absent"} \cup ActiveStates \cup TerminalStates]
  /\ paid \in [Keys -> BOOLEAN]
  /\ acknowledged \subseteq Keys
  /\ acknowledged # {} => group
  /\ remote[Key] \in {"absent", "queued", "failed", "cancelled"} => ~paid[Key]

\* One POST: it is claimed once, begun by the one that claimed it, and until it
\* arrives the relay knows nothing.
Posting ==
  /\ posts <= 1
  /\ posts = 0 => post = "none"
  /\ post \in {"none", "flying", "late", "refused"} => ~Known
  /\ post = "accepted" => Known
  /\ \A p \in Procs : Beginning(p) => posts = 0 /\ ~Claimable(T)
  /\ \A p \in Procs : proc[p].at = "post" => posts = 1
  /\ \A p, q \in Procs : Beginning(p) /\ Beginning(q) => p = q
  /\ posts > 0 => ~Claimable(T)

Records ==
  /\ TaskFits(T, group, Known, Harmless)
  /\ FormalFits(G, group, Harmless)
  /\ proc \in [Procs -> Places]
  /\ \A p \in Procs : Fits(proc[p], group, Known, Harmless)

RoundInv == TypeOK /\ RelaySide /\ Posting /\ Records
-----------------------------------------------------------------------------
(* Records and calls.                                                      *)

\* There is one key.
LEMMA KeyIs == Key \in Keys /\ Keys = {Key}
<1>1. PICK k \in Keys : Keys = {k} BY RoundAssumption
<1>2. Key \in Keys BY <1>1 DEF Key
<1> QED BY <1>1, <1>2

\* A call that begins nothing and has two records that fit.
Onward(q, committed, known, free) ==
  /\ Fits(q, committed, known, free)
  /\ q.at \notin {"begin", "post"}

\* A call that was idle fits.
LEMMA IdleFits ==
  ASSUME NEW c \in BOOLEAN, NEW k \in BOOLEAN, NEW f \in BOOLEAN
  PROVE  /\ Onward(Idle, c, k, f)
         /\ Idle.t = NewT /\ Idle.g = NewG
         /\ Onward([Idle EXCEPT !.at = "served"], c, k, f)
<1>1. NewT \in Tasks /\ TaskFits(NewT, c, k, f) BY DEF NewT, Tasks, TaskFits, DefinitivelyNotSubmitted
<1>2. NewG \in Formals /\ FormalFits(NewG, c, f) BY DEF NewG, Formals, FormalFits
<1>3. /\ Idle \in Places /\ Idle.t = NewT /\ Idle.g = NewG /\ Idle.at = "idle"
  BY <1>1, <1>2 DEF Idle, Places, Labels, Passing
<1>4. [Idle EXCEPT !.at = "served"] = [call |-> "none", at |-> "served", next |-> "none", t |-> NewT, g |-> NewG]
  BY DEF Idle
<1>5. Onward([Idle EXCEPT !.at = "served"], c, k, f)
  BY <1>1, <1>2, <1>4 DEF Onward, Fits, Places, Labels, Passing, Remotely
<1> QED BY <1>1, <1>2, <1>3, <1>5 DEF Onward, Fits, Remotely

\* The place a call waits at, and the record it takes there.
LEMMA GoingIs ==
  ASSUME NEW q \in Places, NEW t \in Tasks, NEW place \in Labels
  PROVE  LET r == Going(q, place, t) IN
         r \in Places /\ r.at = place /\ r.t = t /\ r.g = q.g /\ r.call = q.call /\ r.next = q.next
BY DEF Going, Places

\* A call that takes a fitting record to another place fits.
LEMMA GoingFits ==
  ASSUME NEW c \in BOOLEAN, NEW k \in BOOLEAN, NEW f \in BOOLEAN,
         NEW q \in Places, FormalFits(q.g, c, f), NEW t, TaskFits(t, c, k, f),
         NEW place \in Passing \cup {"refresh", "fence"},
         place = "refresh" => t.remote, place = "fence" => t.started
  PROVE  Onward(Going(q, place, t), c, k, f)
<1>1. t \in Tasks BY DEF TaskFits
<1>2. place \in Labels BY DEF Labels, Remotely
<1> DEFINE r == Going(q, place, t)
<1>3. r \in Places /\ r.at = place /\ r.t = t /\ r.g = q.g BY <1>1, <1>2, GoingIs
<1> HIDE DEF r
<1>4. Onward(r, c, k, f) BY <1>3 DEF Onward, Fits, Passing, Remotely
<1> QED BY <1>4 DEF r

\* Where calls go between two waits.
LEMMA ReconciledFits ==
  ASSUME NEW c \in BOOLEAN, NEW k \in BOOLEAN, NEW f \in BOOLEAN,
         NEW q \in Places, FormalFits(q.g, c, f), NEW t, TaskFits(t, c, k, f)
  PROVE  Onward(Reconciled(q, t), c, k, f) /\ Onward(Checked(q, t), c, k, f)
<1>1. t.status = "committing" => t.remote BY DEF TaskFits
<1>2. Onward(Decided(q, t), c, k, f) BY GoingFits DEF Decided, Passing
<1>3. Onward(Reconciled(q, t), c, k, f) BY <1>1, <1>2, GoingFits DEF Reconciled, Passing
<1>4. Onward(Checked(q, t), c, k, f) BY <1>3, GoingFits DEF Checked, Passing
<1> QED BY <1>3, <1>4

\* Where a call goes when nothing is interrupted any more.
LEMMA FencedFits ==
  ASSUME NEW c \in BOOLEAN, NEW k \in BOOLEAN, NEW f \in BOOLEAN,
         NEW q \in Places, FormalFits(q.g, c, f), TaskFits(q.t, c, k, f), NEW t, TaskFits(t, c, k, f), NEW g
  PROVE  Onward(Fenced(q, t, g), c, k, f)
<1>1. CASE q.call = "recover" /\ Resumable(t, g)
  <2> DEFINE r == [q EXCEPT !.call = "resume", !.at = "claim"]
  <2>1. r \in Places /\ r.at = "claim" /\ r.t = q.t /\ r.g = q.g BY DEF Places, Labels, Passing
  <2> HIDE DEF r
  <2>2. Onward(r, c, k, f) BY <2>1 DEF Onward, Fits, Remotely
  <2> QED BY <1>1, <2>2 DEF Fenced, r
<1>2. CASE ~(q.call = "recover" /\ Resumable(t, g)) BY <1>2, ReconciledFits DEF Fenced
<1> QED BY <1>1, <1>2

\* Where a call goes with the formal record it was given.
LEMMA ReturnedFits ==
  ASSUME NEW c \in BOOLEAN, NEW k \in BOOLEAN, NEW f \in BOOLEAN,
         NEW q \in Places, FormalFits(q.g, c, f), TaskFits(q.t, c, k, f),
         NEW g, FormalFits(g, c, f), NEW t, TaskFits(t, c, k, f)
  PROVE  Onward(Returned(q, g, t), c, k, f)
<1> DEFINE cancels == q.call = "cancel" /\ g.status = "queued"
<1>1. CASE q.call = "resume"
  <2> DEFINE r == [q EXCEPT !.call = "recover"]
  <2>1. r \in Places /\ r.g = q.g BY DEF Places
  <2> HIDE DEF r
  <2>2. Onward(Checked(r, t), c, k, f) BY <2>1, ReconciledFits
  <2> QED BY <1>1, <2>2 DEF Returned, r
<1>2. CASE q.call = "recover" BY <1>2, IdleFits DEF Returned
<1>3. CASE q.call \notin {"resume", "recover"} /\ cancels /\ ~t.remote /\ ~t.started
  <2> DEFINE r == [q EXCEPT !.at = "cancelLocally"]
  <2>1. r \in Places /\ r.at = "cancelLocally" /\ r.t = q.t /\ r.g = q.g BY DEF Places, Labels, Passing
  <2> HIDE DEF r
  <2>2. Onward(r, c, k, f) BY <2>1 DEF Onward, Fits, Remotely
  <2>3. Returned(q, g, t) = r BY <1>3 DEF Returned, r
  <2> QED BY <2>2, <2>3
<1>4. CASE q.call \notin {"resume", "recover"} /\ cancels /\ ~(~t.remote /\ ~t.started) /\ t.remote /\ t.status = "queued"
  <2> DEFINE r == [q EXCEPT !.at = "cancelRemotely", !.t = t, !.g = g]
  <2>1. t \in Tasks /\ g \in Formals BY DEF TaskFits, FormalFits
  <2>2. r \in Places /\ r.at = "cancelRemotely" /\ r.t = t /\ r.g = g BY <2>1 DEF Places, Labels, Passing
  <2> HIDE DEF r
  <2>3. Onward(r, c, k, f) BY <2>2 DEF Onward, Fits, Remotely
  <2>4. Returned(q, g, t) = r BY <1>4 DEF Returned, r
  <2> QED BY <2>3, <2>4
<1>5. CASE q.call \notin {"resume", "recover"} /\ ~(cancels /\ ~t.remote /\ ~t.started) /\ ~(cancels /\ t.remote /\ t.status = "queued")
  <2>1. Returned(q, g, t) = Idle BY <1>5 DEF Returned
  <2> QED BY <2>1, IdleFits
<1> QED BY <1>1, <1>2, <1>3, <1>4, <1>5

\* What a call does without waiting leaves it fit, and begins nothing.
Follows(r, q, committed, known, free) ==
  /\ Fits(r, committed, known, free)
  /\ r.at \in {"begin", "post"} => r.at = q.at

\* What one call does without waiting, on the records as they are then.
LEMMA SettleFits ==
  ASSUME NEW c \in BOOLEAN, NEW k \in BOOLEAN, NEW f \in BOOLEAN,
         TaskFits(T', c, k, f), FormalFits(G', c, f), NEW q, Fits(q, c, k, f)
  PROVE  Follows(SettleSync(SettleAck(q)), q, c, k, f)
<1> DEFINE a == SettleAck(q)
           ack == [q EXCEPT !.at = "acking"]
           sync == [q EXCEPT !.at = "sync"]
<1>0. q \in Places /\ TaskFits(q.t, c, k, f) /\ FormalFits(q.g, c, f) BY DEF Fits
<1>1. Follows(a, q, c, k, f)
  <2>1. CASE q.at # "ack" BY <2>1 DEF SettleAck, Follows
  <2>2. CASE q.at = "ack" /\ Acknowledgeable(q.t, G')
    <3>1. ack \in Places /\ ack.at = "acking" /\ ack.t = q.t /\ ack.g = q.g BY <1>0 DEF Places, Labels, Remotely
    <3>2. q.t.remote /\ c BY <2>2 DEF Acknowledgeable, FormalFits
    <3> HIDE DEF ack
    <3>3. Follows(ack, q, c, k, f) BY <1>0, <3>1, <3>2 DEF Follows, Fits, Remotely
    <3> QED BY <2>2, <3>3 DEF SettleAck, ack
  <2>3. CASE q.at = "ack" /\ ~Acknowledgeable(q.t, G')
    <3>1. sync \in Places /\ sync.at = "sync" /\ sync.t = q.t /\ sync.g = q.g BY <1>0 DEF Places, Labels, Passing
    <3> HIDE DEF sync
    <3>2. Follows(sync, q, c, k, f) BY <1>0, <3>1 DEF Follows, Fits, Remotely
    <3> QED BY <2>3, <3>2 DEF SettleAck, sync
  <2> QED BY <2>1, <2>2, <2>3
<1> HIDE DEF a
<1>2. a \in Places /\ TaskFits(a.t, c, k, f) /\ FormalFits(a.g, c, f) BY <1>1 DEF Follows, Fits
<1>3. Follows(SettleSync(a), a, c, k, f)
  <2>1. CASE a.at # "sync" BY <1>1, <2>1 DEF SettleSync, Follows
  <2>2. CASE a.at = "sync" /\ ~LocallyCancelled(a.t, G')
    <3> DEFINE r == [a EXCEPT !.at = "syncWrite", !.g = G']
    <3>1. r \in Places /\ r.at = "syncWrite" /\ r.t = a.t /\ r.g = G' BY <1>2 DEF Places, Labels, Passing, FormalFits
    <3> HIDE DEF r
    <3>2. Follows(r, a, c, k, f) BY <1>2, <3>1 DEF Follows, Fits, Remotely
    <3> QED BY <2>2, <3>2 DEF SettleSync, r
  <2>3. CASE a.at = "sync" /\ LocallyCancelled(a.t, G') /\ a.t.status # "cancelled"
    <3> DEFINE r == [a EXCEPT !.at = "syncCancel", !.g = G']
    <3>1. r \in Places /\ r.at = "syncCancel" /\ r.t = a.t /\ r.g = G' BY <1>2 DEF Places, Labels, FormalFits
    <3>2. f BY <2>3 DEF LocallyCancelled, FormalFits
    <3> HIDE DEF r
    <3>3. Follows(r, a, c, k, f) BY <1>2, <3>1, <3>2 DEF Follows, Fits, Remotely
    <3> QED BY <2>3, <3>3 DEF SettleSync, r
  <2>4. CASE a.at = "sync" /\ LocallyCancelled(a.t, G') /\ a.t.status = "cancelled"
    <3>1. Onward(Returned(a, G', T'), c, k, f) BY <1>2, ReturnedFits
    <3> QED BY <2>4, <3>1 DEF SettleSync, Follows, Onward
  <2> QED BY <2>1, <2>2, <2>3, <2>4
<1> QED BY <1>1, <1>3 DEF Follows, a

\* The same for all of them, and for those that start or join the shared refresh.
LEMMA SettledFits ==
  ASSUME NEW c \in BOOLEAN, NEW k \in BOOLEAN, NEW f \in BOOLEAN,
         TaskFits(T', c, k, f), FormalFits(G', c, f),
         NEW h, \A p \in Procs : Fits(h[p], c, k, f)
  PROVE  /\ Settled(h) \in [Procs -> Places]
         /\ \A p \in Procs : Follows(Settled(h)[p], h[p], c, k, f)
<1> DEFINE s == [p \in Procs |-> SettleSync(SettleAck(h[p]))]
           joining == {p \in Callers : s[p].at = "refresh"}
           first == CHOOSE j \in joining : TRUE
           starts(p) == p = Refresher /\ joining # {} /\ s[p].at = "idle"
           join(p) == [s[p] EXCEPT !.at = "awaiting"]
           start == [Idle EXCEPT !.call = "refresh", !.at = "read", !.t = s[first].t]
           r(p) == IF p \in joining THEN join(p) ELSE IF starts(p) THEN start ELSE s[p]
<1>1. \A p \in Procs : s[p] = SettleSync(SettleAck(h[p])) OBVIOUS
<1>2. \A p \in Procs : Follows(s[p], h[p], c, k, f) BY <1>1, SettleFits
<1>3. Settled(h) = [p \in Procs |-> r(p)] BY DEF Settled, SettleRefresh
<1> HIDE DEF s
<1>4. ASSUME NEW p \in Procs PROVE Follows(r(p), h[p], c, k, f)
  <2>0. Fits(s[p], c, k, f) /\ s[p] \in Places /\ TaskFits(s[p].t, c, k, f) /\ FormalFits(s[p].g, c, f)
    BY <1>2 DEF Follows, Fits
  <2>1. CASE p \in joining
    <3>1. join(p) \in Places /\ join(p).at = "awaiting" /\ join(p).t = s[p].t /\ join(p).g = s[p].g
      BY <2>0 DEF Places, Labels, Remotely
    <3>2. s[p].t.remote BY <2>0, <2>1 DEF Fits, Remotely
    <3> HIDE DEF join
    <3>3. Follows(join(p), h[p], c, k, f) BY <2>0, <3>1, <3>2 DEF Follows, Fits, Remotely
    <3> QED BY <2>1, <3>3
  <2>2. CASE p \notin joining /\ starts(p)
    <3>1. first \in joining /\ first \in Procs BY <2>2 DEF Procs
    <3>2. Fits(s[first], c, k, f) BY <1>2, <3>1 DEF Follows
    <3>3. s[first].at = "refresh" BY <3>1
    <3>4. s[first].t.remote /\ s[first].t \in Tasks /\ TaskFits(s[first].t, c, k, f)
      BY <3>2, <3>3 DEF Fits, Remotely, TaskFits
    <3>5. Idle \in Places /\ FormalFits(Idle.g, c, f) BY IdleFits DEF Onward, Fits
    <3> HIDE DEF first
    <3>6. start \in Places /\ start.at = "read" /\ start.t = s[first].t /\ start.g = Idle.g
      BY <3>4, <3>5 DEF Places, Labels, Remotely
    <3> HIDE DEF start
    <3>7. Follows(start, h[p], c, k, f) BY <3>4, <3>5, <3>6 DEF Follows, Fits, Remotely
    <3> QED BY <2>2, <3>7
  <2>3. CASE p \notin joining /\ ~starts(p) BY <1>2, <2>3
  <2> QED BY <2>1, <2>2, <2>3
<1> HIDE DEF r
<1>5. \A p \in Procs : Settled(h)[p] = r(p) BY <1>3
<1>6. \A p \in Procs : r(p) \in Places BY <1>4 DEF Follows, Fits
<1> QED BY <1>3, <1>4, <1>5, <1>6

-----------------------------------------------------------------------------
(* Steps.                                                                  *)

\* What the invariant says of types.
LEMMA Typed ==
  ASSUME RoundInv
  PROVE  /\ Key \in Keys /\ remote[Key] \in {"absent"} \cup ActiveStates \cup TerminalStates
         /\ paid[Key] \in BOOLEAN
         /\ group \in BOOLEAN /\ Known \in BOOLEAN /\ Harmless \in BOOLEAN
         /\ T \in Tasks /\ G \in Formals /\ denied \in BOOLEAN
         /\ TaskFits(T, group, Known, Harmless) /\ FormalFits(G, group, Harmless)
         /\ proc \in [Procs -> Places]
         /\ \A p \in Procs : /\ Fits(proc[p], group, Known, Harmless)
                             /\ proc[p] \in Places
                             /\ TaskFits(proc[p].t, group, Known, Harmless)
                             /\ FormalFits(proc[p].g, group, Harmless)
<1>1. Key \in Keys BY KeyIs
<1>2. group \in BOOLEAN /\ denied \in BOOLEAN BY DEF RoundInv, TypeOK
<1>3. Known \in BOOLEAN /\ Harmless \in BOOLEAN BY <1>2 DEF Known, Harmless, Free
<1>4. /\ remote[Key] \in {"absent"} \cup ActiveStates \cup TerminalStates
      /\ paid[Key] \in BOOLEAN
  BY <1>1 DEF RoundInv, RelaySide
<1> QED BY <1>1, <1>2, <1>3, <1>4 DEF RoundInv, Records, Fits, TaskFits, FormalFits

\* The calls after a step fit the facts before it, and none has come to begin
\* a POST or to wait for one.
CallsFit ==
  /\ proc' \in [Procs -> Places]
  /\ \A p \in Procs : Fits(proc'[p], group', Known, Harmless)

NobodyBegins == \A p \in Procs : proc'[p].at \in {"begin", "post"} => proc'[p].at = proc[p].at

\* The two records after a step fit, and the generation is no more to be claimed.
RecordsFit ==
  /\ group' \in BOOLEAN /\ (group => group')
  /\ TaskFits(T', group', Known, Harmless)
  /\ FormalFits(G', group', Harmless)
  /\ T' = T \/ ~Claimable(T')

\* A call that does not move fits the records a step wrote.
LEMMA StillFits ==
  ASSUME RoundInv, RecordsFit
  PROVE  \A p \in Procs : Fits(proc[p], group', Known, Harmless)
<1>1. group \in BOOLEAN /\ Known \in BOOLEAN /\ Harmless \in BOOLEAN BY Typed
<1>2. group' \in BOOLEAN /\ (group => group') BY DEF RecordsFit
<1>3. \A q : Fits(q, group, Known, Harmless) => Fits(q, group', Known, Harmless)
  <2> DEFINE c1 == group c2 == group' k == Known free == Harmless
  <2>1. c1 \in BOOLEAN /\ c2 \in BOOLEAN /\ k \in BOOLEAN /\ free \in BOOLEAN /\ (c1 => c2) BY <1>1, <1>2
  <2> HIDE DEF c1, c2, k, free
  <2>2. /\ \A u : TaskFits(u, c1, k, free) => TaskFits(u, c2, k, free)
        /\ \A g : FormalFits(g, c1, free) => FormalFits(g, c2, free)
    BY <2>1 DEF TaskFits, FormalFits
  <2>3. \A q : Fits(q, c1, k, free) => Fits(q, c2, k, free) BY <2>1, <2>2 DEF Fits
  <2> QED BY <2>3 DEF c1, c2, k, free
<1> QED BY <1>3, Typed

\* All calls fit after one has moved and the others have settled.
LEMMA MoveFits ==
  ASSUME RoundInv, RecordsFit, NEW p \in Procs, NEW q, Fits(q, group', Known, Harmless), Move(p, q)
  PROVE  /\ CallsFit
         /\ \A r \in Procs : proc'[r].at \in {"begin", "post"} =>
              proc'[r].at = (IF r = p THEN q.at ELSE proc[r].at)
<1> DEFINE h == [proc EXCEPT ![p] = q]
<1>1. \A r \in Procs : h[r] = IF r = p THEN q ELSE proc[r] BY Typed
<1>2. \A r \in Procs : Fits(proc[r], group', Known, Harmless) BY StillFits
<1>3. proc' = Settled(h) BY DEF Move
<1> HIDE DEF h
<1>4. \A r \in Procs : Fits(h[r], group', Known, Harmless) BY <1>1, <1>2
<1>5. /\ Settled(h) \in [Procs -> Places]
      /\ \A r \in Procs : Follows(Settled(h)[r], h[r], group', Known, Harmless)
  BY <1>4, SettledFits, Typed DEF RecordsFit
<1> QED BY <1>1, <1>3, <1>5 DEF CallsFit, Follows

\* A call that goes on, without a POST.
LEMMA MovesOn ==
  ASSUME RoundInv, RecordsFit, NEW p \in Procs, NEW q, Onward(q, group', Known, Harmless), Move(p, q)
  PROVE  CallsFit /\ NobodyBegins
<1>1. Fits(q, group', Known, Harmless) /\ q.at \notin {"begin", "post"} BY DEF Onward
<1>2. /\ CallsFit
      /\ \A r \in Procs : proc'[r].at \in {"begin", "post"} => proc'[r].at = (IF r = p THEN q.at ELSE proc[r].at)
  BY <1>1, MoveFits
<1> QED BY <1>1, <1>2 DEF NobodyBegins

\* The shared refresh ends, for all who await it.
LEMMA ResolvedFits ==
  ASSUME RoundInv, group' \in BOOLEAN, group => group', NEW f \in BOOLEAN, Harmless => f,
         TaskFits(T', group', Known, f), FormalFits(G', group', f),
         NEW t, TaskFits(t, group', Known, f), Resolve(t)
  PROVE  /\ proc' \in [Procs -> Places] /\ NobodyBegins
         /\ \A p \in Procs : Fits(proc'[p], group', Known, f)
<1> DEFINE h == [p \in Procs |-> IF p = Refresher THEN Idle
                   ELSE IF proc[p].at = "awaiting" THEN Resumed(proc[p], t) ELSE proc[p]]
<1>1. proc' = Settled(h) BY DEF Resolve
<1>2. \A q : Fits(q, group, Known, Harmless) => Fits(q, group', Known, f)
  <2> DEFINE c1 == group c2 == group' k == Known free == Harmless
  <2>1. c1 \in BOOLEAN /\ c2 \in BOOLEAN /\ k \in BOOLEAN /\ free \in BOOLEAN /\ f \in BOOLEAN BY Typed
  <2>2. (c1 => c2) /\ (k => k) /\ (free => f) OBVIOUS
  <2> HIDE DEF c1, c2, k, free
  <2>3. /\ \A u : TaskFits(u, c1, k, free) => TaskFits(u, c2, k, f)
        /\ \A g : FormalFits(g, c1, free) => FormalFits(g, c2, f)
    BY <2>1, <2>2 DEF TaskFits, FormalFits
  <2>4. \A q : Fits(q, c1, k, free) => Fits(q, c2, k, f) BY <2>2, <2>3 DEF Fits
  <2> QED BY <2>4 DEF c1, c2, k, free
<1>3. ASSUME NEW p \in Procs
      PROVE  Follows(h[p], proc[p], group', Known, f)
  <2>0. Fits(proc[p], group', Known, f) BY <1>2, Typed
  <2>1. CASE p = Refresher BY <2>1, IdleFits, Typed DEF Onward, Follows
  <2>2. CASE p # Refresher /\ proc[p].at = "awaiting"
    <3>1. Onward(Resumed(proc[p], t), group', Known, f)
      <4>0. proc[p] \in Places /\ FormalFits(proc[p].g, group', f) BY <2>0 DEF Fits
      <4>1. CASE proc[p].next = "reconcile"
        <5> DEFINE r == [proc[p] EXCEPT !.next = "none"]
        <5>1. r \in Places /\ r.g = proc[p].g BY <4>0 DEF Places
        <5> HIDE DEF r
        <5>2. Onward(Reconciled(r, t), group', Known, f)
          BY <4>0, <5>1, ReconciledFits, Typed
        <5> QED BY <4>1, <5>2 DEF Resumed, r
      <4>2. CASE proc[p].next # "reconcile"
        BY <4>0, <4>2, GoingFits, Typed DEF Resumed, Passing
      <4> QED BY <4>1, <4>2
    <3> QED BY <2>2, <3>1 DEF Onward, Follows
  <2>3. CASE p # Refresher /\ proc[p].at # "awaiting" BY <2>0, <2>3 DEF Follows
  <2> QED BY <2>1, <2>2, <2>3
<1> HIDE DEF h
<1>4. /\ Settled(h) \in [Procs -> Places]
      /\ \A p \in Procs : Follows(Settled(h)[p], h[p], group', Known, f)
  BY <1>3, SettledFits, Typed DEF Follows
<1> QED BY <1>1, <1>3, <1>4 DEF NobodyBegins, Follows

\* Where the facts themselves do not change.
LEMMA ResolveFits ==
  ASSUME RoundInv, RecordsFit, NEW t, TaskFits(t, group', Known, Harmless), Resolve(t)
  PROVE  CallsFit /\ NobodyBegins
BY ResolvedFits, Typed DEF RecordsFit, CallsFit

\* The shared refresh is rejected.
LEMMA RejectFits ==
  ASSUME RoundInv, RecordsFit, Reject
  PROVE  CallsFit /\ NobodyBegins
<1> DEFINE h == [p \in Procs |-> IF p = Refresher THEN Idle
                   ELSE IF proc[p].at = "awaiting" THEN Rejected(proc[p]) ELSE proc[p]]
<1>1. proc' = Settled(h) BY DEF Reject
<1>2. ASSUME NEW p \in Procs
      PROVE  Follows(h[p], proc[p], group', Known, Harmless)
  <2>0. Fits(proc[p], group', Known, Harmless) BY StillFits
  <2>1. CASE p = Refresher BY <2>1, IdleFits, Typed DEF Onward, Follows, RecordsFit
  <2>2. CASE p # Refresher /\ proc[p].at = "awaiting"
    <3>1. Onward(Rejected(proc[p]), group', Known, Harmless)
      <4>0. /\ proc[p] \in Places /\ FormalFits(proc[p].g, group', Harmless)
            /\ proc[p].t \in Tasks
        BY <2>0 DEF Fits, TaskFits
      <4>1. CASE proc[p].next = "reconcile"
        <5> DEFINE r == [proc[p] EXCEPT !.next = "none"]
                   u == Unresolved(proc[p].t)
        <5>1. r \in Places /\ r.g = proc[p].g BY <4>0 DEF Places
        <5>2. u \in Tasks /\ u.status = "failed" /\ u.unknown /\ ~u.remote BY <4>0 DEF Unresolved, Tasks
        <5> HIDE DEF r, u
        <5>3. TaskFits(u, group', Known, Harmless) BY <5>2 DEF TaskFits, DefinitivelyNotSubmitted
        <5>4. Onward(Reconciled(r, u), group', Known, Harmless)
          BY <4>0, <5>1, <5>3, ReconciledFits, Typed DEF RecordsFit
        <5> QED BY <4>1, <5>4 DEF Rejected, r, u
      <4>2. CASE proc[p].next # "reconcile" BY <4>2, IdleFits, Typed DEF Rejected, RecordsFit
      <4> QED BY <4>1, <4>2
    <3> QED BY <2>2, <3>1 DEF Onward, Follows
  <2>3. CASE p # Refresher /\ proc[p].at # "awaiting" BY <2>0, <2>3 DEF Follows
  <2> QED BY <2>1, <2>2, <2>3
<1> HIDE DEF h
<1>3. /\ Settled(h) \in [Procs -> Places]
      /\ \A p \in Procs : Follows(Settled(h)[p], h[p], group', Known, Harmless)
  BY <1>2, SettledFits, Typed DEF RecordsFit, Follows
<1> QED BY <1>1, <1>2, <1>3 DEF CallsFit, NobodyBegins, Follows

\* Facts that last carry all records over a step.
LEMMA FactsLast ==
  ASSUME RoundInv, RecordsFit, CallsFit, Known' \in BOOLEAN, Harmless' \in BOOLEAN,
         Known => Known', Harmless => Harmless'
  PROVE  Records'
<1>1. group' \in BOOLEAN /\ Known \in BOOLEAN /\ Harmless \in BOOLEAN BY Typed DEF RecordsFit
<1>2. /\ \A t : TaskFits(t, group', Known, Harmless) => TaskFits(t, group', Known', Harmless')
      /\ \A g : FormalFits(g, group', Harmless) => FormalFits(g, group', Harmless')
      /\ \A q : Fits(q, group', Known, Harmless) => Fits(q, group', Known', Harmless')
  <2> DEFINE c == group' k1 == Known free1 == Harmless k2 == Known' free2 == Harmless'
  <2>1. /\ c \in BOOLEAN /\ k1 \in BOOLEAN /\ free1 \in BOOLEAN /\ k2 \in BOOLEAN /\ free2 \in BOOLEAN
        /\ (k1 => k2) /\ (free1 => free2)
    BY <1>1
  <2> HIDE DEF c, k1, free1, k2, free2
  <2>2. /\ \A t : TaskFits(t, c, k1, free1) => TaskFits(t, c, k2, free2)
        /\ \A g : FormalFits(g, c, free1) => FormalFits(g, c, free2)
    BY <2>1 DEF TaskFits, FormalFits
  <2>3. \A q : Fits(q, c, k1, free1) => Fits(q, c, k2, free2) BY <2>1, <2>2 DEF Fits
  <2> QED BY <2>2, <2>3 DEF c, k1, free1, k2, free2
<1> QED BY <1>2 DEF Records, CallsFit, RecordsFit

\* A step that neither posts nor meets the relay.
LEMMA QuietStep ==
  ASSUME RoundInv, RecordsFit, CallsFit, NobodyBegins, UNCHANGED <<contractVars, post, posts, crashes, denied>>,
         submitting' \in BOOLEAN, mode' \in {"up", "down", "recovering"}
  PROVE  RoundInv'
<1>0. UNCHANGED <<remote, acknowledged, paid, post, posts, crashes, denied>> BY DEF contractVars
<1>1. RelaySide' BY <1>0 DEF RelaySide, RoundInv, RecordsFit
<1>2. \A p \in Procs : Beginning(p)' => Beginning(p) BY DEF Beginning, NobodyBegins
<1>3. \A p \in Procs : proc'[p].at = "post" => proc[p].at = "post" BY DEF NobodyBegins
<1>4. ~Claimable(T) => ~Claimable(T') BY DEF RecordsFit
<1>5. Known' = Known BY <1>0 DEF Known
<1>6. Posting' BY <1>0, <1>2, <1>3, <1>4, <1>5 DEF Posting, RoundInv
<1>7. Free => Free' BY <1>0, <1>2, <1>4 DEF Free
<1>8. Harmless => Harmless' BY <1>0, <1>7 DEF Harmless
<1>9. Harmless' \in BOOLEAN BY <1>0, Typed DEF Harmless, Free
<1>10. Records' BY <1>5, <1>8, <1>9, FactsLast, Typed
<1>11. TypeOK' BY <1>0, SMT DEF TypeOK, RoundInv, RecordsFit, TaskFits, FormalFits, Tasks, Formals
<1> QED BY <1>1, <1>6, <1>10, <1>11 DEF RoundInv

\* The records stay as they are.
LEMMA SameRecords ==
  ASSUME RoundInv, UNCHANGED <<T, G, group>>
  PROVE  RecordsFit
BY Typed DEF RecordsFit

\* The calls read on, and no record changes.
ReadingOn ==
  /\ UNCHANGED <<contractVars, T, G, group, post, posts, crashes, denied>>
  /\ submitting' \in BOOLEAN /\ mode' \in {"up", "down", "recovering"}

\* A call reads on and keeps the invariant.
LEMMA ReadingStep ==
  ASSUME RoundInv, ReadingOn, NEW p \in Procs, NEW q, Onward(q, group, Known, Harmless), Move(p, q)
  PROVE  RoundInv'
<1>1. RecordsFit BY SameRecords DEF ReadingOn
<1>2. Onward(q, group', Known, Harmless) BY DEF ReadingOn
<1>3. CallsFit /\ NobodyBegins BY <1>1, <1>2, MovesOn
<1> QED BY <1>1, <1>3, QuietStep DEF ReadingOn

\* The first state: nothing was sent, and the creating call is to claim.
LEMMA Init ==
  RoundInit => RoundInv
<1> SUFFICES ASSUME RoundInit PROVE RoundInv OBVIOUS
<1>1. Key \in Keys BY KeyIs
<1>2. remote[Key] = "absent" /\ paid[Key] = FALSE BY <1>1 DEF RoundInit, ContractInit
<1>3. T = NewT /\ G = NewG /\ group = FALSE /\ mode = "up" /\ submitting = FALSE
      /\ post = "none" /\ posts = 0 /\ crashes = 0 /\ denied = FALSE
  BY DEF RoundInit
<1>4. TypeOK
  <2>1. T \in Tasks /\ G \in Formals BY <1>3 DEF NewT, NewG, Tasks, Formals
  <2>2. 0 \in 0 .. MaxCrashes BY RoundAssumption
  <2> QED BY <1>3, <2>1, <2>2 DEF TypeOK, Tasks, Formals
<1>5. RelaySide BY <1>2 DEF RelaySide, RoundInit, ContractInit
<1> DEFINE create == [Idle EXCEPT !.call = "create", !.at = "claim"]
<1>7. Harmless \in BOOLEAN /\ Known \in BOOLEAN BY <1>2, <1>3 DEF Harmless, Known, Free
<1>8. /\ Fits(Idle, group, Known, Harmless) /\ Idle.at = "idle" /\ Idle \in Places
      /\ Idle.t = NewT /\ Idle.g = NewG
  BY <1>3, <1>7, IdleFits DEF Onward, Fits, Idle
<1>9. NewT \in Tasks /\ TaskFits(NewT, group, Known, Harmless)
  BY DEF NewT, Tasks, TaskFits, DefinitivelyNotSubmitted
<1>10. NewG \in Formals /\ FormalFits(NewG, group, Harmless) BY DEF NewG, Formals, FormalFits
<1>11. create \in Places /\ create.at = "claim" /\ create.t = NewT /\ create.g = NewG
  BY <1>8 DEF Places, Labels, Passing
<1>12. proc = [p \in Procs |-> IF p = Creator THEN create ELSE Idle] BY DEF RoundInit
<1> HIDE DEF create
<1>13. Fits(create, group, Known, Harmless) BY <1>9, <1>10, <1>11 DEF Fits, Remotely
<1>14. \A p \in Procs : proc[p] \in Places /\ Fits(proc[p], group, Known, Harmless)
                        /\ proc[p].at \in {"idle", "claim"}
  BY <1>8, <1>11, <1>12, <1>13
<1>15. Records BY <1>3, <1>9, <1>10, <1>12, <1>14 DEF Records
<1>16. Posting BY <1>2, <1>3, <1>14 DEF Posting, Known, Beginning
<1> QED BY <1>4, <1>5, <1>15, <1>16 DEF RoundInv

-----------------------------------------------------------------------------
(* Calls that read on.                                                     *)

\* A call that comes to another place with what it has.
LEMMA PlaceFits ==
  ASSUME RoundInv, NEW p \in Procs, NEW place \in Passing
  PROVE  Onward([proc[p] EXCEPT !.at = place], group, Known, Harmless)
<1> DEFINE r == [proc[p] EXCEPT !.at = place]
<1>1. proc[p] \in Places BY Typed
<1>2. r \in Places /\ r.at = place /\ r.t = proc[p].t /\ r.g = proc[p].g BY <1>1 DEF Places, Labels
<1> HIDE DEF r
<1>3. Onward(r, group, Known, Harmless) BY <1>2, Typed DEF Onward, Fits, Passing, Remotely
<1> QED BY <1>3 DEF r

\* activeSubmissions is cleared.
LEMMA SubmissionEndsKeeps ==
  ASSUME RoundInv, NEW p \in Procs, SubmissionEnds(p) PROVE RoundInv'
<1>1. Onward([proc[p] EXCEPT !.at = "sync"], group, Known, Harmless) BY PlaceFits DEF Passing
<1>2. ReadingOn BY DEF SubmissionEnds, ReadingOn, RoundInv, TypeOK
<1> QED BY <1>1, <1>2, ReadingStep DEF SubmissionEnds

\* A lookup that finds nothing.
LEMMA LookupFailsKeeps ==
  ASSUME RoundInv, NEW p \in Procs, LookupFails(p) PROVE RoundInv'
<1>1. Onward(Reconciled(proc[p], proc[p].t), group, Known, Harmless) BY Typed, ReconciledFits
<1>2. ReadingOn BY DEF LookupFails, ReadingOn, RoundInv, TypeOK
<1> QED BY <1>1, <1>2, ReadingStep DEF LookupFails

\* The relay refuses a cancel, or its answer is lost.
LEMMA CancelFailsKeeps ==
  ASSUME RoundInv, NEW p \in Procs, CancelFails(p) PROVE RoundInv'
<1>1. Onward(Idle, group, Known, Harmless) BY Typed, IdleFits
<1>2. ReadingOn BY DEF CancelFails, ReadingOn, RoundInv, TypeOK
<1> QED BY <1>1, <1>2, ReadingStep DEF CancelFails

\* What an answer resolves to when nothing was written.
LEMMA ResolveKeeps ==
  ASSUME RoundInv, ReadingOn, NEW t, TaskFits(t, group, Known, Harmless), Resolve(t)
  PROVE  RoundInv'
<1>1. RecordsFit BY SameRecords DEF ReadingOn
<1>2. TaskFits(t, group', Known, Harmless) BY DEF ReadingOn
<1>3. CallsFit /\ NobodyBegins BY <1>1, <1>2, ResolveFits
<1> QED BY <1>1, <1>3, QuietStep DEF ReadingOn

\* The shared refresh and the creating call are calls.
LEMMA RefresherIs == Refresher \in Procs /\ Creator \in Procs
BY RoundAssumption DEF Procs

\* A status read without an answer.
LEMMA ReadFailsKeeps ==
  ASSUME RoundInv, ReadFails PROVE RoundInv'
<1>1. TaskFits(me.t, group, Known, Harmless) BY RefresherIs, Typed DEF me
<1>2. ReadingOn BY DEF ReadFails, ReadingOn, RoundInv, TypeOK
<1> QED BY <1>1, <1>2, ResolveKeeps DEF ReadFails

\* A commit that is refused, and all who await it.
LEMMA CommitRefusedKeeps ==
  ASSUME RoundInv, CommitRefused PROVE RoundInv'
<1>1. ReadingOn BY DEF CommitRefused, ReadingOn, RoundInv, TypeOK
<1>2. RecordsFit BY <1>1, SameRecords DEF ReadingOn
<1>3. CallsFit /\ NobodyBegins BY <1>2, RejectFits DEF CommitRefused
<1> QED BY <1>1, <1>2, <1>3, QuietStep DEF ReadingOn

\* An acknowledgement without an answer.
LEMMA AckUnansweredKeeps ==
  ASSUME RoundInv, NEW p \in Procs, AckUnanswered(p) PROVE RoundInv'
<1>1. ReadingOn BY DEF AckUnanswered, ReadingOn, RoundInv, TypeOK
<1>2. CASE p = Refresher BY <1>1, <1>2, ResolveKeeps, Typed DEF AckUnanswered, Acknowledged
<1>3. CASE p # Refresher
  <2>1. Onward(Going(proc[p], "sync", proc[p].t), group, Known, Harmless) BY Typed, GoingFits DEF Passing
  <2> QED BY <1>1, <1>3, <2>1, ReadingStep DEF AckUnanswered, Acknowledged
<1> QED BY <1>2, <1>3

\* A call that begins with the record as it is.
LEMMA BegunFits ==
  ASSUME RoundInv, NEW q \in Places, FormalFits(q.g, group, Harmless), TaskFits(q.t, group, Known, Harmless)
  PROVE  Onward(Begun(q), group, Known, Harmless)
<1>1. CASE Interrupted(T)
  <2>1. Onward(Going(q, "fence", T), group, Known, Harmless)
    BY <1>1, Typed, GoingFits DEF Interrupted
  <2> QED BY <1>1, <2>1 DEF Begun
<1>2. CASE ~Interrupted(T)
  <2>1. Onward(Fenced(q, T, G), group, Known, Harmless) BY Typed, FencedFits
  <2> QED BY <1>2, <2>1 DEF Begun
<1> QED BY <1>1, <1>2

\* A poll or a cancel comes.
LEMMA CallKeeps ==
  ASSUME RoundInv, NEW p \in Procs, NEW call \in {"poll", "cancel"}, Call(p, call) PROVE RoundInv'
<1> DEFINE q == [Idle EXCEPT !.call = call]
<1>1. /\ Idle \in Places /\ FormalFits(Idle.g, group, Harmless)
      /\ TaskFits(Idle.t, group, Known, Harmless)
  BY Typed, IdleFits DEF Onward, Fits
<1>2. q \in Places /\ q.t = Idle.t /\ q.g = Idle.g BY <1>1 DEF Places
<1>3. ReadingOn BY DEF Call, ReadingOn, RoundInv, TypeOK
<1>4. Move(p, IF LateResult THEN Going(q, "refresh", T) ELSE Begun(q)) BY DEF Call
<1> HIDE DEF q
<1>5. CASE LateResult
  <2>1. Onward(Going(q, "refresh", T), group, Known, Harmless)
    BY <1>1, <1>2, <1>5, Typed, GoingFits DEF LateResult
  <2> QED BY <1>3, <1>4, <1>5, <2>1, ReadingStep
<1>6. CASE ~LateResult
  <2>1. Onward(Begun(q), group, Known, Harmless) BY <1>1, <1>2, BegunFits
  <2> QED BY <1>3, <1>4, <1>6, <2>1, ReadingStep
<1> QED BY <1>5, <1>6

\* The server starts again, and its recovery begins.
LEMMA RestartKeeps ==
  ASSUME RoundInv, Restart PROVE RoundInv'
<1> DEFINE q == [Idle EXCEPT !.call = "recover"]
<1>1. /\ Idle \in Places /\ FormalFits(Idle.g, group, Harmless)
      /\ TaskFits(Idle.t, group, Known, Harmless)
  BY Typed, IdleFits DEF Onward, Fits
<1>2. q \in Places /\ q.t = Idle.t /\ q.g = Idle.g BY <1>1 DEF Places
<1>3. ReadingOn BY DEF Restart, ReadingOn, RoundInv, TypeOK
<1>4. Move(Creator, Begun(q)) BY DEF Restart
<1> HIDE DEF q
<1>5. Onward(Begun(q), group, Known, Harmless) BY <1>1, <1>2, BegunFits
<1> QED BY <1>3, <1>4, <1>5, ReadingStep, RefresherIs

-----------------------------------------------------------------------------
(* Steps that write a record.                                              *)

\* A record is written, and its writer goes on.
Writing == UNCHANGED <<contractVars, mode, submitting, post, posts, crashes, denied>>

\* A call writes a record, goes on, and keeps the invariant.
LEMMA WritingStep ==
  ASSUME RoundInv, Writing, RecordsFit, NEW p \in Procs, NEW q, Onward(q, group', Known, Harmless), Move(p, q)
  PROVE  RoundInv'
<1>1. CallsFit /\ NobodyBegins BY MovesOn
<1> QED BY <1>1, QuietStep DEF Writing, RoundInv, TypeOK

\* The shared refresh writes a record and ends.
LEMMA WritingResolves ==
  ASSUME RoundInv, Writing, RecordsFit, NEW t, TaskFits(t, group', Known, Harmless), Resolve(t)
  PROVE  RoundInv'
<1>1. CallsFit /\ NobodyBegins BY ResolveFits
<1> QED BY <1>1, QuietStep DEF Writing, RoundInv, TypeOK

\* One call moves, and nobody takes a step with it.
LEMMA OneMoves ==
  ASSUME RoundInv, RecordsFit, NEW p \in Procs, NEW q, Onward(q, group', Known, Harmless),
         proc' = [proc EXCEPT ![p] = q]
  PROVE  CallsFit /\ NobodyBegins
<1>1. \A r \in Procs : proc'[r] = IF r = p THEN q ELSE proc[r] BY Typed
<1>2. q \in Places /\ proc' \in [Procs -> Places] BY Typed DEF Onward, Fits
<1>3. \A r \in Procs : Fits(proc[r], group', Known, Harmless) BY StillFits
<1> QED BY <1>1, <1>2, <1>3 DEF CallsFit, NobodyBegins, Onward

\* A call writes a record and only it moves.
LEMMA WritingAlone ==
  ASSUME RoundInv, Writing, RecordsFit, NEW p \in Procs, NEW q, Onward(q, group', Known, Harmless),
         proc' = [proc EXCEPT ![p] = q]
  PROVE  RoundInv'
<1>1. CallsFit /\ NobodyBegins BY OneMoves
<1> QED BY <1>1, QuietStep DEF Writing, RoundInv, TypeOK

\* A task that is written to be unknown, or to go on, or to be cancelled.
LEMMA TaskWritten ==
  ASSUME RoundInv, T' \in Tasks, UNCHANGED <<G, group>>, ~Claimable(T'),
         TaskFits(T', group, Known, Harmless)
  PROVE  RecordsFit
BY Typed DEF RecordsFit

\* The fence of an interrupted submission: its outcome is unknown.
LEMMA FenceKeeps ==
  ASSUME RoundInv, NEW p \in Procs, Fence(p) PROVE RoundInv'
<1> DEFINE t == proc[p].t
<1>1. /\ proc[p] \in Places /\ t \in Tasks
      /\ TaskFits(t, group, Known, Harmless) /\ FormalFits(proc[p].g, group, Harmless)
  BY Typed DEF TaskFits
<1>2. T' = [t EXCEPT !.status = "failed", !.unknown = TRUE, !.receipt = FALSE] BY DEF Fence
<1>3. T' \in Tasks /\ T'.status = "failed" /\ T'.unknown /\ T'.remote = t.remote
  BY <1>1, <1>2 DEF Tasks
<1>4. Move(p, Fenced(proc[p], T', G)) /\ Writing /\ UNCHANGED <<G, group>> BY DEF Fence, Writing
<1> HIDE DEF t
<1>5. TaskFits(T', group, Known, Harmless) /\ ~Claimable(T')
  BY <1>1, <1>3 DEF TaskFits, Claimable, DefinitivelyNotSubmitted
<1>6. RecordsFit BY <1>3, <1>4, <1>5, TaskWritten
<1>7. Onward(Fenced(proc[p], T', G), group', Known, Harmless) BY <1>1, <1>4, <1>5, FencedFits, Typed DEF t
<1> QED BY <1>4, <1>6, <1>7, WritingStep

\* A lookup finds the task at the relay.
LEMMA LookupFindsKeeps ==
  ASSUME RoundInv, NEW p \in Procs, LookupFinds(p) PROVE RoundInv'
<1> DEFINE t == proc[p].t
           q == [proc[p] EXCEPT !.next = "reconcile"]
<1>1. /\ proc[p] \in Places /\ t \in Tasks
      /\ TaskFits(t, group, Known, Harmless) /\ FormalFits(proc[p].g, group, Harmless)
  BY Typed DEF TaskFits
<1>2. PICK r \in BOOLEAN :
        T' = [t EXCEPT !.remote = TRUE, !.unknown = FALSE, !.receipt = @ \/ r,
                       !.status = IF remote[Key] = "running" THEN "running" ELSE "queued"]
  BY DEF LookupFinds, Receipts
<1>3. T' \in Tasks /\ T'.status \in ActiveStates /\ T'.remote
  BY <1>1, <1>2 DEF Tasks, ActiveStates
<1>4. Move(p, Going(q, "refresh", T')) /\ Writing /\ UNCHANGED <<G, group>> /\ Known
  BY DEF LookupFinds, Writing, Known
<1>5. q \in Places /\ q.g = proc[p].g BY <1>1 DEF Places
<1> HIDE DEF t, q
<1>6. TaskFits(T', group, Known, Harmless) /\ ~Claimable(T')
  BY <1>3, <1>4 DEF TaskFits, Claimable, DefinitivelyNotSubmitted, ActiveStates
<1>7. RecordsFit BY <1>3, <1>4, <1>6, TaskWritten
<1>8. Onward(Going(q, "refresh", T'), group', Known, Harmless) BY <1>1, <1>3, <1>4, <1>5, <1>6, GoingFits, Typed
<1> QED BY <1>4, <1>7, <1>8, WritingStep

\* What is layered onto a formal record fits as the task does.
LEMMA LayeredFits ==
  ASSUME NEW c \in BOOLEAN, NEW k \in BOOLEAN, NEW f \in BOOLEAN,
         NEW g, FormalFits(g, c, f), NEW t, TaskFits(t, c, k, f)
  PROVE  FormalFits(Layered(g, t), c, f)
<1> DEFINE status == IF t.unknown THEN "outcome_unknown" ELSE t.status
           r == [g EXCEPT !.status = status]
<1>1. g \in Formals /\ t \in Tasks BY DEF FormalFits, TaskFits
<1>2. status \in {"queued", "running", "committing", "succeeded", "failed", "cancelled", "outcome_unknown"}
  BY <1>1 DEF Tasks
<1>3. Layered(g, t) = r BY DEF Layered
<1>4. (status = "succeeded" => c) /\ (status = "cancelled" => f) BY DEF TaskFits
<1> HIDE DEF status
<1>5. r \in Formals /\ r.status = status /\ r.result = g.result BY <1>1, <1>2 DEF Formals
<1> HIDE DEF r
<1>6. FormalFits(r, c, f) BY <1>4, <1>5 DEF FormalFits
<1> QED BY <1>3, <1>6

\* The formal record follows the task, from a reading that may be stale.
LEMMA SyncWriteKeeps ==
  ASSUME RoundInv, NEW p \in Procs, SyncWrite(p) PROVE RoundInv'
<1>1. /\ proc[p] \in Places /\ TaskFits(proc[p].t, group, Known, Harmless)
      /\ FormalFits(proc[p].g, group, Harmless)
  BY Typed
<1>2. G' = Layered(proc[p].g, proc[p].t) /\ UNCHANGED <<T, group>> /\ Writing BY DEF SyncWrite, Writing
<1>3. FormalFits(G', group, Harmless) BY <1>1, <1>2, LayeredFits, Typed
<1>4. RecordsFit BY <1>2, <1>3, Typed DEF RecordsFit
<1>5. CASE p = Refresher
  <2>1. Resolve(proc[p].t) BY <1>5 DEF SyncWrite
  <2> QED BY <1>1, <1>2, <1>4, <2>1, WritingResolves
<1>6. CASE p # Refresher
  <2>1. Move(p, Returned(proc[p], G', T')) BY <1>6 DEF SyncWrite
  <2>2. Onward(Returned(proc[p], G', T'), group', Known, Harmless)
    BY <1>1, <1>2, <1>3, ReturnedFits, Typed
  <2> QED BY <1>2, <1>4, <2>1, <2>2, WritingStep
<1> QED BY <1>5, <1>6

\* The task follows a formal record that was cancelled.
LEMMA SyncCancelKeeps ==
  ASSUME RoundInv, NEW p \in Procs, SyncCancel(p) PROVE RoundInv'
<1> DEFINE t == proc[p].t
<1>1. /\ proc[p] \in Places /\ t \in Tasks
      /\ TaskFits(t, group, Known, Harmless) /\ FormalFits(proc[p].g, group, Harmless)
  BY Typed DEF TaskFits
<1>2. T' = [t EXCEPT !.status = "cancelled", !.unknown = FALSE] BY DEF SyncCancel
<1>3. T' \in Tasks /\ T'.status = "cancelled" /\ T'.remote = t.remote BY <1>1, <1>2 DEF Tasks
<1>4. Move(p, Returned(proc[p], proc[p].g, T')) /\ Writing /\ UNCHANGED <<G, group>> BY DEF SyncCancel, Writing
<1>5. Harmless BY Typed DEF SyncCancel, At, Fits
<1> HIDE DEF t
<1>6. TaskFits(T', group, Known, Harmless) /\ ~Claimable(T') BY <1>1, <1>3, <1>5 DEF TaskFits, Claimable
<1>7. RecordsFit BY <1>3, <1>4, <1>6, TaskWritten
<1>8. Onward(Returned(proc[p], proc[p].g, T'), group', Known, Harmless)
  BY <1>1, <1>4, <1>6, ReturnedFits, Typed DEF t
<1> QED BY <1>4, <1>7, <1>8, WritingStep

\* The acknowledgement is recorded.
LEMMA AckSavedKeeps ==
  ASSUME RoundInv, NEW p \in Procs, AckSaved(p) PROVE RoundInv'
<1> DEFINE t == proc[p].t
<1>1. /\ proc[p] \in Places /\ t \in Tasks
      /\ TaskFits(t, group, Known, Harmless) /\ FormalFits(proc[p].g, group, Harmless)
  BY Typed DEF TaskFits
<1>2. T' = [t EXCEPT !.acked = TRUE] BY DEF AckSaved
<1>3. /\ T' \in Tasks /\ T'.status = t.status /\ T'.remote = t.remote
      /\ T'.receipt = t.receipt /\ T'.unknown = t.unknown
  BY <1>1, <1>2 DEF Tasks
<1>4. Acknowledged(p, T') /\ Writing /\ UNCHANGED <<G, group>> BY DEF AckSaved, Writing
<1>5. t.remote BY Typed DEF AckSaved, At, Fits, Remotely
<1> HIDE DEF t
<1>6. TaskFits(T', group, Known, Harmless) /\ ~Claimable(T')
  BY <1>1, <1>3, <1>5 DEF TaskFits, Claimable, DefinitivelyNotSubmitted
<1>7. RecordsFit BY <1>3, <1>4, <1>6, TaskWritten
<1>8. TaskFits(T', group', Known, Harmless) BY <1>4, <1>6
<1>9. CASE p = Refresher BY <1>4, <1>7, <1>8, <1>9, WritingResolves DEF Acknowledged
<1>10. CASE p # Refresher
  <2>1. Onward(Going(proc[p], "sync", T'), group', Known, Harmless)
    BY <1>1, <1>4, <1>8, GoingFits, Typed DEF Passing
  <2> QED BY <1>4, <1>7, <1>10, <2>1, WritingStep DEF Acknowledged
<1> QED BY <1>9, <1>10

\* Nothing happened yet to a generation that can still be claimed.
LEMMA Unclaimed ==
  ASSUME RoundInv, Claimable(T)
  PROVE  /\ posts = 0 /\ post = "none" /\ remote[Key] = "absent" /\ ~paid[Key] /\ ~Free
         /\ \A p \in Procs : proc[p].at \notin {"begin", "post"}
<1>1. posts = 0 BY DEF RoundInv, Posting, TypeOK
<1>2. post = "none" BY <1>1 DEF RoundInv, Posting
<1>3. remote[Key] = "absent" BY <1>2 DEF RoundInv, Posting, Known
<1>4. ~paid[Key] BY <1>3 DEF RoundInv, RelaySide
<1>5. ~Free BY <1>3 DEF Free
<1>6. \A p \in Procs : proc[p].at \notin {"begin", "post"}
  BY <1>1 DEF RoundInv, Posting, Beginning
<1> QED BY <1>1, <1>2, <1>3, <1>4, <1>5, <1>6

\* The claim: the one step after which somebody may begin the POST.
LEMMA ClaimKeeps ==
  ASSUME RoundInv, NEW p \in Procs, ClaimGenerationSubmission(p) PROVE RoundInv'
<1>1. /\ proc[p] \in Places /\ TaskFits(proc[p].t, group, Known, Harmless)
      /\ FormalFits(proc[p].g, group, Harmless)
  BY Typed
<1>2. CASE ~CanClaim
  <2>1. ReadingOn BY <1>2 DEF ClaimGenerationSubmission, ReadingOn, RoundInv, TypeOK
  <2>2. Move(p, Returned(proc[p], G, T)) BY <1>2 DEF ClaimGenerationSubmission
  <2>3. Onward(Returned(proc[p], G, T), group, Known, Harmless) BY <1>1, ReturnedFits, Typed
  <2> QED BY <2>1, <2>2, <2>3, ReadingStep
<1>3. CASE CanClaim
  <2>1. Claimable(T) BY <1>3 DEF CanClaim, Claimable
  <2>2. /\ T' = [T EXCEPT !.started = TRUE, !.unknown = FALSE]
        /\ G' = G
        /\ Move(p, Going(proc[p], "begin", T'))
        /\ UNCHANGED <<contractVars, group, mode, submitting, post, posts, crashes, denied>>
    BY <1>3 DEF ClaimGenerationSubmission
  <2>3. /\ T' \in Tasks /\ T'.status = "queued" /\ ~T'.remote /\ T'.started
    BY <2>1, <2>2, Typed DEF Claimable, Tasks
  <2>4. G' \in Formals /\ G'.status = G.status /\ G'.result = G.result BY <2>2, Typed DEF Formals
  <2> DEFINE q == Going(proc[p], "begin", T')
  <2>5. q \in Places /\ q.at = "begin" /\ q.t = T' /\ q.g = proc[p].g BY <1>1, <2>3, GoingIs DEF Labels
  <2>6. TaskFits(T', group, Known, Harmless) /\ ~Claimable(T')
    BY <2>3 DEF TaskFits, Claimable, DefinitivelyNotSubmitted
  <2>7. FormalFits(G', group, Harmless) BY <2>4, Typed DEF FormalFits
  <2>8. RecordsFit BY <2>2, <2>6, <2>7, Typed DEF RecordsFit
  <2> HIDE DEF q
  <2>9. Fits(q, group', Known, Harmless) BY <1>1, <2>2, <2>3, <2>5, <2>6 DEF Fits, Remotely
  <2>10. Move(p, q) BY <2>2 DEF q
  <2>11. /\ CallsFit
         /\ \A r \in Procs : proc'[r].at \in {"begin", "post"} =>
              proc'[r].at = (IF r = p THEN q.at ELSE proc[r].at)
    BY <2>8, <2>9, <2>10, MoveFits
  <2>12. /\ posts = 0 /\ post = "none" /\ remote[Key] = "absent" /\ ~paid[Key] /\ ~Free
         /\ \A r \in Procs : proc[r].at \notin {"begin", "post"}
    BY <2>1, Unclaimed
  <2>13. \A r \in Procs : proc'[r].at \in {"begin", "post"} => r = p /\ proc'[r].at = "begin"
    BY <2>5, <2>11, <2>12
  <2>14. UNCHANGED <<remote, paid, acknowledged>> BY <2>2 DEF contractVars
  <2>15. RelaySide' BY <2>2, <2>14 DEF RelaySide, RoundInv
  <2>16. Posting' BY <2>2, <2>6, <2>12, <2>13, <2>14 DEF Posting, Beginning, Known
  <2>17. Known' = Known /\ (Harmless => Harmless') BY <2>2, <2>12, <2>14 DEF Known, Harmless
  <2>18. Harmless' \in BOOLEAN BY <2>2, Typed DEF Harmless, Free
  <2>19. Records' BY <2>8, <2>11, <2>17, <2>18, FactsLast, Typed
  <2>20. TypeOK' BY <2>2, <2>3, <2>4 DEF TypeOK, RoundInv, Tasks, Formals
  <2> QED BY <2>15, <2>16, <2>19, <2>20 DEF RoundInv
<1> QED BY <1>2, <1>3

\* A cancel before the claim: from here on nothing can be paid.
LEMMA CancelLocallyKeeps ==
  ASSUME RoundInv, NEW p \in Procs, CancelLocally(p) PROVE RoundInv'
<1>1. CASE ~CanClaim
  <2>1. ReadingOn BY <1>1 DEF CancelLocally, ReadingOn, RoundInv, TypeOK
  <2>2. Onward(Idle, group, Known, Harmless) BY IdleFits, Typed
  <2> QED BY <2>1, <2>2, ReadingStep DEF CancelLocally
<1>2. CASE CanClaim
  <2>1. Claimable(T) BY <1>2 DEF CanClaim, Claimable
  <2>2. /\ T' = [T EXCEPT !.status = "cancelled", !.unknown = FALSE]
        /\ G' = [G EXCEPT !.status = "cancelled", !.late = TRUE]
        /\ Move(p, Idle)
        /\ UNCHANGED <<contractVars, group, mode, submitting, post, posts, crashes, denied>>
    BY <1>2 DEF CancelLocally
  <2>3. T' \in Tasks /\ T'.status = "cancelled" /\ ~T'.remote
    BY <2>1, <2>2, Typed DEF Claimable, Tasks
  <2>4. G' \in Formals /\ G'.status = "cancelled" /\ G'.result = G.result BY <2>2, Typed DEF Formals
  <2>5. TaskFits(T', group', Known, TRUE) /\ ~Claimable(T') BY <2>3 DEF TaskFits, Claimable
  <2>6. FormalFits(G', group', TRUE) BY <2>2, <2>4, Typed DEF FormalFits
  <2>7. /\ posts = 0 /\ post = "none" /\ remote[Key] = "absent" /\ ~paid[Key]
        /\ \A r \in Procs : proc[r].at \notin {"begin", "post"}
    BY <2>1, Unclaimed
  <2> DEFINE h == [proc EXCEPT ![p] = Idle]
  <2>8. \A r \in Procs : h[r] = IF r = p THEN Idle ELSE proc[r] BY Typed
  <2>9. \A q : Fits(q, group, Known, Harmless) => Fits(q, group', Known, TRUE)
    <3> DEFINE c == group k == Known free == Harmless
    <3>1. c \in BOOLEAN /\ k \in BOOLEAN /\ free \in BOOLEAN /\ group' = c BY <2>2, Typed
    <3> HIDE DEF c, k, free
    <3>2. /\ \A u : TaskFits(u, c, k, free) => TaskFits(u, c, k, TRUE)
          /\ \A g : FormalFits(g, c, free) => FormalFits(g, c, TRUE)
      BY <3>1 DEF TaskFits, FormalFits
    <3>3. \A q : Fits(q, c, k, free) => Fits(q, c, k, TRUE) BY <3>1, <3>2 DEF Fits
    <3> QED BY <3>1, <3>3 DEF c, k, free
  <2>10. Fits(Idle, group', Known, TRUE) /\ Idle.at = "idle" BY <2>2, IdleFits, Typed DEF Onward, Idle
  <2>11. proc' = Settled(h) BY <2>2 DEF Move
  <2> HIDE DEF h
  <2>12. \A r \in Procs : Fits(h[r], group', Known, TRUE) BY <2>8, <2>9, <2>10, Typed
  <2>13. /\ proc' \in [Procs -> Places]
         /\ \A r \in Procs : Follows(proc'[r], h[r], group', Known, TRUE)
    <3>1. group' \in BOOLEAN /\ Known \in BOOLEAN BY <2>2, Typed
    <3> QED BY <2>5, <2>6, <2>11, <2>12, <3>1, SettledFits
  <2>14. \A r \in Procs : proc'[r].at \notin {"begin", "post"}
    BY <2>7, <2>8, <2>10, <2>13 DEF Follows
  <2>15. UNCHANGED <<remote, paid, acknowledged>> BY <2>2 DEF contractVars
  <2>16. RelaySide' BY <2>2, <2>15 DEF RelaySide, RoundInv
  <2>17. Posting' BY <2>2, <2>5, <2>7, <2>14, <2>15 DEF Posting, Beginning, Known
  <2>18. Free' BY <2>2, <2>5, <2>7, <2>14, <2>15 DEF Free, Beginning
  <2>19. Harmless' = TRUE /\ Known' = Known BY <2>2, <2>15, <2>18, Typed DEF Known, Harmless
  <2>20. Records' BY <2>5, <2>6, <2>13, <2>19 DEF Records, Follows
  <2>21. TypeOK' BY <2>2, <2>3, <2>4 DEF TypeOK, RoundInv, Tasks, Formals
  <2> QED BY <2>16, <2>17, <2>20, <2>21 DEF RoundInv
<1> QED BY <1>1, <1>2

\* The task is recorded as the relay cancelled it.
LEMMA MarkCancelledKeeps ==
  ASSUME RoundInv, NEW p \in Procs, MarkOperationCancelled(p) PROVE RoundInv'
<1> DEFINE t == proc[p].t
           q == [proc[p] EXCEPT !.at = "cancelSave"]
<1>1. proc[p] \in Places /\ t \in Tasks /\ TaskFits(t, group, Known, Harmless) BY Typed DEF TaskFits
<1>2. T' = [t EXCEPT !.status = "cancelled", !.unknown = FALSE] BY DEF MarkOperationCancelled
<1>3. T' \in Tasks /\ T'.status = "cancelled" /\ T'.remote = t.remote BY <1>1, <1>2 DEF Tasks
<1>4. proc' = [proc EXCEPT ![p] = q] /\ Writing /\ UNCHANGED <<G, group>>
  BY DEF MarkOperationCancelled, Writing
<1>5. Harmless BY Typed DEF MarkOperationCancelled, At, Fits
<1>6. q \in Places /\ q.at = "cancelSave" /\ q.t = proc[p].t /\ q.g = proc[p].g BY <1>1 DEF Places, Labels
<1> HIDE DEF t, q
<1>7. TaskFits(T', group, Known, Harmless) /\ ~Claimable(T') BY <1>1, <1>3, <1>5 DEF TaskFits, Claimable
<1>8. RecordsFit BY <1>3, <1>4, <1>7, TaskWritten
<1>9. Onward(q, group', Known, Harmless) BY <1>4, <1>5, <1>6, Typed DEF Onward, Fits, Remotely
<1> QED BY <1>4, <1>8, <1>9, WritingAlone

\* The formal record is recorded as the relay cancelled it.
LEMMA SaveCancelledKeeps ==
  ASSUME RoundInv, NEW p \in Procs, SaveCancelled(p) PROVE RoundInv'
<1> DEFINE g == proc[p].g
<1>1. g \in Formals /\ FormalFits(g, group, Harmless) BY Typed DEF FormalFits
<1>2. G' = [g EXCEPT !.status = "cancelled", !.late = TRUE] BY DEF SaveCancelled
<1>3. G' \in Formals /\ G'.status = "cancelled" /\ G'.result = g.result BY <1>1, <1>2 DEF Formals
<1>4. Move(p, Idle) /\ Writing /\ UNCHANGED <<T, group>> BY DEF SaveCancelled, Writing
<1>5. Harmless BY Typed DEF SaveCancelled, At, Fits
<1> HIDE DEF g
<1>6. FormalFits(G', group, Harmless) BY <1>1, <1>3, <1>5 DEF FormalFits
<1>7. RecordsFit BY <1>4, <1>6, Typed DEF RecordsFit
<1>8. Onward(Idle, group', Known, Harmless) BY <1>4, IdleFits, Typed
<1> QED BY <1>4, <1>7, <1>8, WritingStep

-----------------------------------------------------------------------------
(* The shared refresh.                                                     *)

\* The relay answers a status read: a known failure is final and free.
LEMMA StatusReadKeeps ==
  ASSUME RoundInv, StatusRead PROVE RoundInv'
<1>1. ReadingOn BY DEF StatusRead, ReadingOn, RoundInv, TypeOK
<1>2. RecordsFit BY <1>1, SameRecords DEF ReadingOn
<1>3. PICK a \in Answers : proc' = [proc EXCEPT ![Refresher] = [@ EXCEPT !.at = "answer", !.next = a]]
  BY DEF StatusRead
<1>4. /\ me \in Places /\ Fits(me, group, Known, Harmless)
      /\ TaskFits(me.t, group, Known, Harmless) /\ FormalFits(me.g, group, Harmless)
  BY RefresherIs, Typed DEF me
<1>5. me.t.remote /\ Known BY <1>4 DEF StatusRead, AtRefresh, At, me, Fits, Remotely, TaskFits
<1> DEFINE q == [me EXCEPT !.at = "answer", !.next = a]
<1>6. proc' = [proc EXCEPT ![Refresher] = q] BY <1>3 DEF me
<1>7. /\ a \in {"absent", "handoff", "refused"} \cup ActiveStates \cup TerminalStates
      /\ a \in {"absent", "failed", "cancelled"} => Harmless
  <2>1. CASE a = "refused" BY <2>1
  <2>2. CASE a # "refused"
    <3>1. a = IF remote[Key] = "succeeded" /\ Key \notin acknowledged THEN "handoff" ELSE remote[Key]
      BY <2>2 DEF Answers
    <3>2. remote[Key] \in {"failed", "cancelled"} => Free
      BY DEF Free, RoundInv, RelaySide
    <3>3. remote[Key] # "absent" BY <1>5 DEF Known
    <3>4. remote[Key] \in ActiveStates \cup TerminalStates BY <3>3, Typed
    <3> QED BY <3>1, <3>2, <3>4 DEF Harmless, ActiveStates, TerminalStates
  <2> QED BY <2>1, <2>2
<1>8. q \in Places /\ q.at = "answer" /\ q.next = a /\ q.t = me.t /\ q.g = me.g
  BY <1>4, <1>7 DEF Places, Labels, Remotely
<1> HIDE DEF q
<1>9. Onward(q, group', Known, Harmless) BY <1>1, <1>4, <1>5, <1>7, <1>8 DEF Onward, Fits, Remotely, ReadingOn
<1>10. CallsFit /\ NobodyBegins BY <1>2, <1>6, <1>9, OneMoves, RefresherIs
<1> QED BY <1>1, <1>2, <1>10, QuietStep DEF ReadingOn

\* What the refresh has in hand.
LEMMA MeIs ==
  ASSUME RoundInv
  PROVE  /\ me \in Places /\ me.t \in Tasks /\ me.g \in Formals
         /\ Fits(me, group, Known, Harmless)
         /\ TaskFits(me.t, group, Known, Harmless) /\ FormalFits(me.g, group, Harmless)
BY RefresherIs, Typed DEF me, TaskFits, FormalFits

\* The task is still at work.
LEMMA StatusActiveKeeps ==
  ASSUME RoundInv, StatusActive PROVE RoundInv'
<1> DEFINE t == me.t
<1>1. t \in Tasks /\ TaskFits(t, group, Known, Harmless) BY MeIs
<1>2. T' = [t EXCEPT !.status = me.next] /\ me.next \in ActiveStates BY DEF StatusActive
<1>3. T' \in Tasks /\ T'.status \in ActiveStates /\ T'.remote = t.remote
  BY <1>1, <1>2 DEF Tasks, ActiveStates
<1>4. Resolve(T') /\ Writing /\ UNCHANGED <<G, group>> BY DEF StatusActive, Writing
<1>5. t.remote BY MeIs DEF StatusActive, AtRefresh, At, me, Fits, Remotely
<1> HIDE DEF t
<1>6. TaskFits(T', group, Known, Harmless) /\ ~Claimable(T')
  BY <1>1, <1>3, <1>5 DEF TaskFits, Claimable, DefinitivelyNotSubmitted, ActiveStates
<1>7. RecordsFit BY <1>3, <1>4, <1>6, TaskWritten
<1>8. TaskFits(T', group', Known, Harmless) BY <1>4, <1>6
<1> QED BY <1>4, <1>7, <1>8, WritingResolves

\* The task has ended without a result, or the read was refused.
LEMMA StatusEndedKeeps ==
  ASSUME RoundInv, StatusEnded PROVE RoundInv'
<1> DEFINE t == me.t
           u == me.next = "failed_unknown"
<1>1. t \in Tasks /\ TaskFits(t, group, Known, Harmless) BY MeIs
<1>2. PICK r \in BOOLEAN : T' = [t EXCEPT !.status = "failed", !.unknown = u, !.receipt = r]
  BY DEF StatusEnded, Receipts
<1>3. T' \in Tasks /\ T'.status = "failed" /\ (T'.unknown <=> u) /\ T'.remote = t.remote
  BY <1>1, <1>2 DEF Tasks
<1>4. /\ Resolve(T') /\ denied' = (denied \/ me.next = "refused")
      /\ UNCHANGED <<contractVars, G, group, mode, submitting, post, posts, crashes>>
  BY DEF StatusEnded
<1>5. ~u => Harmless \/ me.next = "refused" BY MeIs DEF StatusEnded, AtRefresh, At, me, Fits
<1> HIDE DEF t, u
<1>6. CASE me.next # "refused"
  <2>1. Writing /\ UNCHANGED <<G, group>> BY <1>4, <1>6, Typed DEF Writing
  <2>2. TaskFits(T', group, Known, Harmless) /\ ~Claimable(T')
    BY <1>1, <1>3, <1>5, <1>6 DEF TaskFits, Claimable, DefinitivelyNotSubmitted
  <2>3. RecordsFit BY <1>3, <2>1, <2>2, TaskWritten
  <2>4. TaskFits(T', group', Known, Harmless) BY <2>1, <2>2
  <2> QED BY <1>4, <2>1, <2>3, <2>4, WritingResolves
<1>7. CASE me.next = "refused"
  <2>1. /\ denied' = TRUE
        /\ UNCHANGED <<remote, acknowledged, paid, G, group, mode, submitting, post, posts, crashes>>
    BY <1>4, <1>7 DEF contractVars
  <2>2. TaskFits(T', group', Known, TRUE) /\ ~Claimable(T')
    BY <1>1, <1>3, <2>1 DEF TaskFits, Claimable
  <2>3. FormalFits(G', group', TRUE) BY <2>1, Typed DEF FormalFits
  <2>4. group' \in BOOLEAN /\ (group => group') /\ TRUE \in BOOLEAN BY <2>1, Typed
  <2>5. /\ proc' \in [Procs -> Places] /\ NobodyBegins
        /\ \A p \in Procs : Fits(proc'[p], group', Known, TRUE)
    BY <1>4, <2>2, <2>3, <2>4, ResolvedFits
  <2>6. Harmless' = TRUE /\ Known' = Known BY <2>1 DEF Harmless, Known
  <2>7. Records' BY <2>2, <2>3, <2>5, <2>6 DEF Records
  <2>8. RelaySide' BY <2>1 DEF RelaySide, RoundInv
  <2>9. Posting' BY <2>1, <2>2, <2>5, <2>6 DEF Posting, RoundInv, Beginning, NobodyBegins
  <2>10. TypeOK' BY <1>3, <2>1, Typed DEF TypeOK, RoundInv, Tasks
  <2> QED BY <2>7, <2>8, <2>9, <2>10 DEF RoundInv
<1> QED BY <1>6, <1>7

\* The task is marked committing, with its receipt.
LEMMA BeginCommitKeeps ==
  ASSUME RoundInv, BeginCommit PROVE RoundInv'
<1> DEFINE t == me.t
           q == [me EXCEPT !.at = "committing", !.t = T', !.g = G]
<1>1. t \in Tasks /\ me \in Places /\ TaskFits(t, group, Known, Harmless) BY MeIs
<1>2. T' = [t EXCEPT !.status = "committing", !.receipt = TRUE] BY DEF BeginCommit
<1>3. T' \in Tasks /\ T'.status = "committing" /\ T'.remote = t.remote /\ T'.receipt
  BY <1>1, <1>2 DEF Tasks
<1>4. proc' = [proc EXCEPT ![Refresher] = q] /\ Writing /\ UNCHANGED <<G, group>>
  BY DEF BeginCommit, Writing, me
<1>5. t.remote BY MeIs DEF BeginCommit, AtRefresh, At, me, Fits, Remotely
<1>6. q \in Places /\ q.at = "committing" /\ q.t = T' /\ q.g = G
  BY <1>1, <1>3, Typed DEF Places, Labels, Remotely
<1> HIDE DEF t, q
<1>7. TaskFits(T', group, Known, Harmless) /\ ~Claimable(T')
  BY <1>1, <1>3, <1>5 DEF TaskFits, Claimable, DefinitivelyNotSubmitted
<1>8. RecordsFit BY <1>3, <1>4, <1>7, TaskWritten
<1>9. Onward(q, group', Known, Harmless)
  BY <1>3, <1>4, <1>5, <1>6, <1>7, Typed DEF Onward, Fits, Remotely
<1> QED BY <1>4, <1>8, <1>9, WritingAlone, RefresherIs

\* The formal record is marked committing.
LEMMA MarkCommittingKeeps ==
  ASSUME RoundInv, MarkCommitting PROVE RoundInv'
<1> DEFINE g == me.g
           q == [me EXCEPT !.at = "commit", !.g = G']
<1>1. g \in Formals /\ me \in Places /\ FormalFits(g, group, Harmless) BY MeIs
<1>2. G' = [g EXCEPT !.status = "committing"] BY DEF MarkCommitting
<1>3. G' \in Formals /\ G'.status = "committing" /\ G'.result = g.result BY <1>1, <1>2 DEF Formals
<1>4. proc' = [proc EXCEPT ![Refresher] = q] /\ Writing /\ UNCHANGED <<T, group>>
  BY DEF MarkCommitting, Writing, me
<1>5. me.at = "committing" BY DEF MarkCommitting, AtRefresh, At, me
<1>6. q \in Places /\ q.at = "commit" /\ q.t = me.t /\ q.g = G' BY <1>1, <1>3 DEF Places, Labels, Remotely
<1> HIDE DEF g, q
<1>7. FormalFits(G', group, Harmless) BY <1>1, <1>3 DEF FormalFits
<1>8. RecordsFit BY <1>4, <1>7, Typed DEF RecordsFit
<1>9. Onward(q, group', Known, Harmless) BY <1>4, <1>5, <1>6, <1>7, MeIs DEF Onward, Fits, Remotely
<1> QED BY <1>4, <1>8, <1>9, WritingAlone, RefresherIs

\* There was no valid image: the receipt stays.
LEMMA NothingToCommitKeeps ==
  ASSUME RoundInv, NothingToCommit PROVE RoundInv'
<1> DEFINE t == me.t
<1>1. /\ t \in Tasks /\ me \in Places
      /\ TaskFits(t, group, Known, Harmless) /\ FormalFits(me.g, group, Harmless)
  BY MeIs
<1>2. T' = [t EXCEPT !.status = "failed", !.unknown = FALSE] BY DEF NothingToCommit
<1>3. T' \in Tasks /\ T'.status = "failed" /\ T'.remote = t.remote /\ T'.receipt = t.receipt
  BY <1>1, <1>2 DEF Tasks
<1>4. Move(Refresher, Going(me, "sync", T')) /\ Writing /\ UNCHANGED <<G, group>>
  BY DEF NothingToCommit, Writing
<1>5. t.receipt BY MeIs DEF NothingToCommit, AtRefresh, At, me, Fits, TaskFits
<1> HIDE DEF t
<1>6. TaskFits(T', group, Known, Harmless) /\ ~Claimable(T')
  BY <1>1, <1>3, <1>5 DEF TaskFits, Claimable, DefinitivelyNotSubmitted
<1>7. RecordsFit BY <1>3, <1>4, <1>6, TaskWritten
<1>8. Onward(Going(me, "sync", T'), group', Known, Harmless)
  BY <1>1, <1>4, <1>6, GoingFits, Typed DEF Passing
<1> QED BY <1>4, <1>7, <1>8, WritingStep, RefresherIs

\* The candidate group is committed, or was.
LEMMA CommitKeeps ==
  ASSUME RoundInv, CommitCandidateGroup PROVE RoundInv'
<1> DEFINE t == me.t
           g == me.g
<1>1. /\ t \in Tasks /\ g \in Formals /\ me \in Places
      /\ TaskFits(t, group, Known, Harmless) /\ FormalFits(g, group, Harmless)
  BY MeIs
<1>2. group' = TRUE /\ Writing BY DEF CommitCandidateGroup, Writing
<1>3. t.remote BY MeIs DEF CommitCandidateGroup, AtRefresh, At, me, Fits, Remotely
<1>4. /\ TaskFits(T', group', Known, Harmless) /\ FormalFits(G', group', Harmless)
      /\ T' = T \/ ~Claimable(T')
  <2>1. CASE group
    <3>1. T' = T /\ G' = G /\ group' = group BY <1>2, <2>1 DEF CommitCandidateGroup
    <3> QED BY <3>1, Typed
  <2>2. CASE ~group
    <3>1. /\ T' = [t EXCEPT !.status = "succeeded"]
          /\ G' = [g EXCEPT !.status = "succeeded", !.result = TRUE]
      BY <2>2 DEF CommitCandidateGroup
    <3>2. T' \in Tasks /\ T'.status = "succeeded" /\ T'.remote = t.remote BY <1>1, <3>1 DEF Tasks
    <3>3. G' \in Formals /\ G'.status = "succeeded" BY <1>1, <3>1 DEF Formals
    <3> HIDE DEF t, g
    <3>4. TaskFits(T', group', Known, Harmless) /\ ~Claimable(T')
      BY <1>1, <1>2, <3>2 DEF TaskFits, Claimable, DefinitivelyNotSubmitted
    <3>5. FormalFits(G', group', Harmless) BY <1>2, <3>3 DEF FormalFits
    <3> QED BY <3>4, <3>5
  <2> QED BY <2>1, <2>2
<1>5. RecordsFit BY <1>2, <1>4 DEF RecordsFit
<1>6. CASE Acknowledgeable(T', G')
  <2>1. Move(Refresher, Going(me, "acking", T')) BY <1>6 DEF CommitCandidateGroup
  <2> DEFINE q == Going(me, "acking", T')
  <2>2. T' \in Tasks BY <1>4 DEF TaskFits
  <2>3. q \in Places /\ q.at = "acking" /\ q.t = T' /\ q.g = me.g
    BY <1>1, <2>2, GoingIs DEF Labels, Remotely
  <2>4. T'.remote BY <1>6 DEF Acknowledgeable
  <2>5. FormalFits(me.g, group', Harmless) BY <1>1, <1>2 DEF FormalFits
  <2> HIDE DEF q
  <2>6. Onward(q, group', Known, Harmless) BY <1>2, <1>4, <2>3, <2>4, <2>5 DEF Onward, Fits, Remotely
  <2>7. Move(Refresher, q) BY <2>1 DEF q
  <2> QED BY <1>2, <1>5, <2>6, <2>7, WritingStep, RefresherIs
<1>7. CASE ~Acknowledgeable(T', G')
  <2>1. Resolve(T') BY <1>7 DEF CommitCandidateGroup
  <2> QED BY <1>2, <1>4, <1>5, <2>1, WritingResolves
<1> QED BY <1>6, <1>7

\* Recovery has ended, and the server serves.
LEMMA ServeKeeps ==
  ASSUME RoundInv, Serve PROVE RoundInv'
<1>1. ReadingOn BY DEF Serve, ReadingOn, RoundInv, TypeOK
<1>2. RecordsFit BY <1>1, SameRecords DEF ReadingOn
<1>3. Onward(Idle, group', Known, Harmless) BY <1>1, IdleFits, Typed DEF ReadingOn
<1>4. proc' = [proc EXCEPT ![Creator] = Idle] BY DEF Serve
<1>5. CallsFit /\ NobodyBegins BY <1>2, <1>3, <1>4, OneMoves, RefresherIs
<1> QED BY <1>1, <1>2, <1>5, QuietStep DEF ReadingOn

-----------------------------------------------------------------------------
(* The POST.                                                               *)

\* While a POST is on its way the relay knows nothing, and it may be paid.
LEMMA OnItsWay ==
  ASSUME RoundInv, post \in {"flying", "late"}
  PROVE  posts = 1 /\ remote[Key] = "absent" /\ ~paid[Key] /\ ~Free /\ ~Claimable(T)
<1>1. remote[Key] = "absent" BY DEF RoundInv, Posting, Known
<1>2. ~paid[Key] BY <1>1 DEF RoundInv, RelaySide
<1>3. posts = 1 BY DEF RoundInv, Posting, TypeOK
<1>4. ~Claimable(T) BY <1>3 DEF RoundInv, Posting
<1> QED BY <1>1, <1>2, <1>3, <1>4 DEF Free

\* The POST begins: nobody else was to begin one.
LEMMA BeginKeeps ==
  ASSUME RoundInv, NEW p \in Procs, BeginSubmission(p) PROVE RoundInv'
<1> DEFINE t == proc[p].t
           q == Going(proc[p], "post", T')
<1>1. /\ proc[p] \in Places /\ t \in Tasks
      /\ TaskFits(t, group, Known, Harmless) /\ FormalFits(proc[p].g, group, Harmless)
  BY Typed DEF TaskFits
<1>2. T' = [t EXCEPT !.status = "queued", !.unknown = FALSE] BY DEF BeginSubmission
<1>3. /\ T' \in Tasks /\ T'.status = "queued" /\ T'.remote = t.remote /\ T'.started = t.started
  BY <1>1, <1>2 DEF Tasks
<1>4. /\ Move(p, q) /\ submitting' = TRUE /\ post' = "flying" /\ posts' = posts + 1
      /\ UNCHANGED <<contractVars, G, group, mode, crashes, denied>>
  BY DEF BeginSubmission
<1>5. Beginning(p) BY DEF BeginSubmission, At, Beginning
<1>6. t.started BY <1>5, Typed DEF Fits, Beginning
<1>7. q \in Places /\ q.at = "post" /\ q.t = T' /\ q.g = proc[p].g BY <1>1, <1>3, GoingIs DEF Labels
<1> HIDE DEF t, q
<1>8. TaskFits(T', group, Known, Harmless) /\ ~Claimable(T')
  BY <1>1, <1>3, <1>6 DEF TaskFits, Claimable, DefinitivelyNotSubmitted
<1>9. RecordsFit BY <1>3, <1>4, <1>8, TaskWritten
<1>10. Fits(q, group', Known, Harmless) BY <1>1, <1>3, <1>4, <1>6, <1>7, <1>8 DEF Fits, Remotely
<1>11. /\ CallsFit
       /\ \A r \in Procs : proc'[r].at \in {"begin", "post"} =>
            proc'[r].at = (IF r = p THEN q.at ELSE proc[r].at)
  BY <1>4, <1>9, <1>10, MoveFits
<1>12. posts = 0 /\ \A r \in Procs : Beginning(r) => r = p BY <1>5 DEF RoundInv, Posting
<1>13. post = "none" /\ remote[Key] = "absent" BY <1>12 DEF RoundInv, Posting, Known
<1>14. \A r \in Procs : proc'[r].at # "begin" BY <1>7, <1>11, <1>12 DEF Beginning
<1>15. UNCHANGED <<remote, paid, acknowledged>> BY <1>4 DEF contractVars
<1>16. RelaySide' BY <1>4, <1>15 DEF RelaySide, RoundInv
<1>17. Posting' BY <1>4, <1>8, <1>12, <1>13, <1>14, <1>15 DEF Posting, Beginning, Known
<1>18. ~Free BY <1>5, <1>13 DEF Free
<1>19. Known' = Known /\ (Harmless => Harmless') BY <1>4, <1>15, <1>18 DEF Known, Harmless
<1>20. Harmless' \in BOOLEAN BY <1>4, Typed DEF Harmless, Free
<1>21. Records' BY <1>9, <1>11, <1>19, <1>20, FactsLast, Typed
<1>22. TypeOK' BY <1>3, <1>4, <1>12, Typed DEF TypeOK, RoundInv, Tasks, Formals
<1> QED BY <1>16, <1>17, <1>21, <1>22 DEF RoundInv

\* A POST that was begun gets its answer, or is given up.
LEMMA PostGoes ==
  ASSUME RoundInv, RecordsFit, CallsFit, NobodyBegins, posts # 0,
         UNCHANGED <<contractVars, mode, submitting, posts, crashes, denied>>,
         post' \in {"late", "gone"}, post' = "late" => post = "flying"
  PROVE  RoundInv'
<1>0. UNCHANGED <<remote, acknowledged, paid, denied>> BY DEF contractVars
<1>1. RelaySide' BY <1>0 DEF RelaySide, RoundInv, RecordsFit
<1>2. \A p \in Procs : Beginning(p)' => Beginning(p) BY DEF Beginning, NobodyBegins
<1>3. \A p \in Procs : proc'[p].at = "post" => proc[p].at = "post" BY DEF NobodyBegins
<1>4. ~Claimable(T) => ~Claimable(T') BY DEF RecordsFit
<1>5. Known' = Known BY <1>0 DEF Known
<1>6. Posting' BY <1>0, <1>2, <1>3, <1>4, <1>5 DEF Posting, RoundInv
<1>7. Free => Free' BY <1>0, <1>2, <1>4, OnItsWay DEF Free
<1>8. Harmless => Harmless' BY <1>0, <1>7 DEF Harmless
<1>9. Harmless' \in BOOLEAN BY <1>0, Typed DEF Harmless, Free
<1>10. Records' BY <1>5, <1>8, <1>9, FactsLast, Typed
<1>11. TypeOK' BY <1>0, SMT DEF TypeOK, RoundInv, RecordsFit, TaskFits, FormalFits, Tasks, Formals
<1> QED BY <1>1, <1>6, <1>10, <1>11 DEF RoundInv

\* The POST gets no answer, and may still arrive.
LEMMA PostUnansweredKeeps ==
  ASSUME RoundInv, NEW p \in Procs, PostUnanswered(p) PROVE RoundInv'
<1> DEFINE t == proc[p].t
<1>1. /\ proc[p] \in Places /\ t \in Tasks
      /\ TaskFits(t, group, Known, Harmless) /\ FormalFits(proc[p].g, group, Harmless)
  BY Typed DEF TaskFits
<1>2. T' = [t EXCEPT !.status = "failed", !.unknown = TRUE, !.receipt = FALSE] BY DEF PostUnanswered
<1>3. T' \in Tasks /\ T'.status = "failed" /\ T'.unknown /\ T'.remote = t.remote
  BY <1>1, <1>2 DEF Tasks
<1>4. /\ Move(p, Checked(proc[p], T')) /\ post' = (IF post = "flying" THEN "late" ELSE "gone")
      /\ UNCHANGED <<contractVars, G, group, mode, submitting, posts, crashes, denied>>
  BY DEF PostUnanswered
<1>5. posts # 0 BY DEF PostUnanswered, At, RoundInv, Posting
<1> HIDE DEF t
<1>6. TaskFits(T', group, Known, Harmless) /\ ~Claimable(T')
  BY <1>1, <1>3 DEF TaskFits, Claimable, DefinitivelyNotSubmitted
<1>7. RecordsFit BY <1>3, <1>4, <1>6, TaskWritten
<1>8. Onward(Checked(proc[p], T'), group', Known, Harmless) BY <1>1, <1>4, <1>6, ReconciledFits, Typed
<1>9. CallsFit /\ NobodyBegins BY <1>4, <1>7, <1>8, MovesOn
<1> QED BY <1>4, <1>5, <1>7, <1>9, PostGoes

\* The POST is answered: accepted, or refused and free.
LEMMA PostAnsweredKeeps ==
  ASSUME RoundInv, NEW p \in Procs, PostAnswered(p) PROVE RoundInv'
<1> DEFINE t == proc[p].t
<1>1. /\ proc[p] \in Places /\ t \in Tasks
      /\ TaskFits(t, group, Known, Harmless) /\ FormalFits(proc[p].g, group, Harmless)
  BY Typed DEF TaskFits
<1>2. posts # 0 BY DEF PostAnswered, At, RoundInv, Posting
<1>3. /\ Move(p, Reconciled(proc[p], T')) /\ post' = "gone" /\ post \in {"accepted", "refused"}
      /\ UNCHANGED <<contractVars, G, group, mode, submitting, posts, crashes, denied>>
  BY DEF PostAnswered
<1>4. T' \in Tasks /\ TaskFits(T', group, Known, Harmless) /\ ~Claimable(T')
  <2>1. CASE post = "accepted"
    <3>1. T' = [t EXCEPT !.status = "queued", !.remote = TRUE, !.receipt = FALSE]
      BY <2>1 DEF PostAnswered
    <3>2. T' \in Tasks /\ T'.status = "queued" /\ T'.remote BY <1>1, <3>1 DEF Tasks
    <3>3. Known BY <2>1 DEF RoundInv, Posting
    <3> HIDE DEF t
    <3> QED BY <3>2, <3>3 DEF TaskFits, Claimable, DefinitivelyNotSubmitted
  <2>2. CASE post = "refused"
    <3>1. T' = [t EXCEPT !.status = "failed", !.unknown = FALSE, !.receipt = FALSE]
      BY <2>2 DEF PostAnswered
    <3>2. T' \in Tasks /\ T'.status = "failed" /\ T'.remote = t.remote BY <1>1, <3>1 DEF Tasks
    <3>3. remote[Key] = "absent" BY <2>2 DEF RoundInv, Posting, Known
    <3>4. ~paid[Key] BY <3>3 DEF RoundInv, RelaySide
    <3>5. ~Claimable(T) BY <1>2 DEF RoundInv, Posting, TypeOK
    <3>6. \A r \in Procs : ~Beginning(r) BY <1>2 DEF RoundInv, Posting
    <3>7. Harmless BY <2>2, <3>3, <3>4, <3>5, <3>6 DEF Harmless, Free
    <3> HIDE DEF t
    <3> QED BY <1>1, <3>2, <3>7 DEF TaskFits, Claimable
  <2> QED BY <1>3, <2>1, <2>2
<1> HIDE DEF t
<1>5. RecordsFit BY <1>3, <1>4, TaskWritten
<1>6. Onward(Reconciled(proc[p], T'), group', Known, Harmless) BY <1>1, <1>3, <1>4, ReconciledFits, Typed
<1>7. CallsFit /\ NobodyBegins BY <1>3, <1>5, <1>6, MovesOn
<1> QED BY <1>2, <1>3, <1>5, <1>7, PostGoes

\* Nothing on the desktop moves.
LEMMA Standing ==
  ASSUME RoundInv, UNCHANGED <<T, G, group, proc>>
  PROVE  RecordsFit /\ CallsFit /\ NobodyBegins
BY SameRecords, Typed DEF CallsFit, NobodyBegins

\* A POST that was given up never arrives.
LEMMA PostVanishesKeeps ==
  ASSUME RoundInv, PostVanishes PROVE RoundInv'
<1>1. RecordsFit /\ CallsFit /\ NobodyBegins BY Standing DEF PostVanishes
<1>2. posts # 0 BY OnItsWay DEF PostVanishes
<1> QED BY <1>1, <1>2, PostGoes DEF PostVanishes

-----------------------------------------------------------------------------
(* The relay.                                                              *)

\* A step of the relay alone.
LEMMA RelayAlone ==
  ASSUME RoundInv, UNCHANGED <<T, G, group, mode, submitting, proc, posts, crashes, denied>>,
         Known => Known', Harmless => Harmless', RelaySide',
         post' \in {"none", "flying", "accepted", "refused", "late", "gone"},
         posts = 0 => post' = "none",
         post' \in {"none", "flying", "late", "refused"} => ~Known',
         post' = "accepted" => Known'
  PROVE  RoundInv'
<1>1. RecordsFit /\ CallsFit BY Standing
<1>2. Known' \in BOOLEAN /\ Harmless' \in BOOLEAN BY Typed DEF Known, Harmless, Free
<1>3. Records' BY <1>1, <1>2, FactsLast
<1>4. Posting' BY DEF Posting, RoundInv, Beginning
<1>5. TypeOK' BY SMT DEF TypeOK, RoundInv
<1> QED BY <1>3, <1>4, <1>5 DEF RoundInv

\* The relay gets the POST, in time or late.
LEMMA RelayTakesPostKeeps ==
  ASSUME RoundInv, RelayTakesPost PROVE RoundInv'
<1>1. /\ posts = 1 /\ remote[Key] = "absent" /\ ~paid[Key] /\ ~Free /\ ~Known
      /\ Key \in Keys /\ remote \in [Keys -> {"absent"} \cup ActiveStates \cup TerminalStates]
  BY OnItsWay, KeyIs DEF RelayTakesPost, RoundInv, RelaySide, Known
<1>2. PICK taken \in BOOLEAN :
        /\ post' = IF post = "late" THEN "gone" ELSE IF taken THEN "accepted" ELSE "refused"
        /\ IF taken /\ remote[Key] = "absent" THEN AcceptTask(Key) ELSE UNCHANGED contractVars
  BY DEF RelayTakesPost
<1>3. Harmless => Harmless' BY <1>1 DEF Harmless, RelayTakesPost
<1>4. UNCHANGED <<T, G, group, mode, submitting, proc, posts, crashes, denied>> BY DEF RelayTakesPost
<1>5. CASE taken
  <2>1. /\ remote' = [remote EXCEPT ![Key] = "queued"] /\ UNCHANGED <<acknowledged, paid>>
    BY <1>1, <1>2, <1>5 DEF AcceptTask, Become
  <2>2. remote'[Key] = "queued" BY <1>1, <2>1
  <2>3. RelaySide' BY <1>1, <1>4, <2>1, <2>2 DEF RelaySide, RoundInv, ActiveStates
  <2>4. Known' BY <2>2 DEF Known
  <2>5. post' \in {"gone", "accepted"} BY <1>2, <1>5
  <2> QED BY <1>1, <1>3, <1>4, <2>3, <2>4, <2>5, RelayAlone
<1>6. CASE ~taken
  <2>1. UNCHANGED <<remote, acknowledged, paid>> BY <1>2, <1>6 DEF contractVars
  <2>2. RelaySide' /\ ~Known' BY <1>1, <1>4, <2>1 DEF RelaySide, RoundInv, Known
  <2>3. post' \in {"gone", "refused"} BY <1>2, <1>6
  <2> QED BY <1>1, <1>3, <1>4, <2>2, <2>3, RelayAlone
<1> QED BY <1>5, <1>6

\* The relay moves its row: only of a task it knows, and that is not over.
LEMMA RelayStepKeeps ==
  ASSUME RoundInv, RelayStep PROVE RoundInv'
<1>0. /\ Key \in Keys /\ Keys = {Key}
      /\ remote \in [Keys -> {"absent"} \cup ActiveStates \cup TerminalStates] /\ paid \in [Keys -> BOOLEAN]
  BY KeyIs DEF RoundInv, RelaySide
<1>1. UNCHANGED <<T, G, group, mode, submitting, proc, post, posts, crashes, denied>> BY DEF RelayStep
<1>2. /\ remote[Key] \in {"queued", "running", "failed_unknown"} /\ acknowledged' = acknowledged
      /\ \/ /\ \E s \in {"queued", "running", "failed", "failed_unknown", "succeeded"} :
                 /\ remote' = [remote EXCEPT ![Key] = s]
                 /\ s \in {"queued", "failed"} => ~paid[Key]
            /\ paid' = paid
         \/ remote' = remote /\ remote[Key] = "running" /\ paid' = [paid EXCEPT ![Key] = TRUE]
  <2>1. CASE StartTask(Key) BY <2>1 DEF StartTask, Become
  <2>2. CASE RequeueTask(Key) BY <2>2 DEF RequeueTask, Become
  <2>3. CASE ProviderAccepts(Key) BY <2>3 DEF ProviderAccepts
  <2>4. CASE FailTask(Key) BY <2>4 DEF FailTask, Become, ActiveStates
  <2>5. CASE LoseTrack({Key})
    <3>1. remote' = [remote EXCEPT ![Key] = "failed_unknown"] BY <1>0, <2>5 DEF LoseTrack
    <3> QED BY <2>5, <3>1 DEF LoseTrack
  <2>6. CASE SucceedTask(Key) BY <2>6 DEF SucceedTask, Become
  <2> QED BY <2>1, <2>2, <2>3, <2>4, <2>5, <2>6 DEF RelayStep
<1>3. Known /\ ~Free BY <1>2 DEF Known, Free
<1>4. /\ RelaySide' /\ remote'[Key] # "absent"
  <2>1. CASE paid' = paid
    <3>1. PICK s \in {"queued", "running", "failed", "failed_unknown", "succeeded"} :
            remote' = [remote EXCEPT ![Key] = s] /\ (s \in {"queued", "failed"} => ~paid[Key])
      <4>1. CASE remote' = remote /\ remote[Key] = "running"
        <5>1. remote' = [remote EXCEPT ![Key] = "running"] BY <1>0, <4>1
        <5> QED BY <5>1
      <4> QED BY <1>2, <4>1
    <3>2. remote'[Key] = s /\ remote' \in [Keys -> {"absent"} \cup ActiveStates \cup TerminalStates]
      BY <1>0, <3>1 DEF ActiveStates, TerminalStates
    <3> QED BY <1>1, <1>2, <2>1, <3>1, <3>2 DEF RelaySide, RoundInv
  <2>2. CASE paid' # paid
    <3>1. remote' = remote /\ remote[Key] = "running" /\ paid' = [paid EXCEPT ![Key] = TRUE] BY <1>2, <2>2
    <3>2. paid' \in [Keys -> BOOLEAN] BY <1>0, <3>1
    <3> QED BY <1>1, <1>2, <3>1, <3>2 DEF RelaySide, RoundInv
  <2> QED BY <2>1, <2>2
<1>5. Known' BY <1>4 DEF Known
<1>6. Harmless => Harmless' BY <1>1, <1>3 DEF Harmless
<1>7. post \in {"accepted", "gone"} /\ posts # 0 BY <1>3 DEF RoundInv, Posting, TypeOK
<1> QED BY <1>1, <1>4, <1>5, <1>6, <1>7, RelayAlone

\* The relay forgets its outputs: the group is committed.
LEMMA AckExecutedKeeps ==
  ASSUME RoundInv, NEW p \in Procs, AckExecuted(p) PROVE RoundInv'
<1> DEFINE q == [proc[p] EXCEPT !.at = "acked"]
<1>1. proc[p] \in Places /\ Fits(proc[p], group, Known, Harmless) BY Typed
<1>2. group /\ proc[p].t.remote BY <1>1, Typed DEF AckExecuted, At, Fits, Remotely
<1>3. /\ proc' = [proc EXCEPT ![p] = q]
      /\ UNCHANGED <<T, G, group, mode, submitting, post, posts, crashes, denied, remote, paid>>
      /\ acknowledged' = acknowledged \cup {Key}
  BY DEF AckExecuted, AcknowledgeTask
<1>4. q \in Places /\ q.at = "acked" /\ q.t = proc[p].t /\ q.g = proc[p].g BY <1>1 DEF Places, Labels, Remotely
<1> HIDE DEF q
<1>5. RecordsFit BY <1>3, SameRecords
<1>6. Onward(q, group', Known, Harmless) BY <1>1, <1>2, <1>3, <1>4, Typed DEF Onward, Fits, Remotely
<1>7. CallsFit /\ NobodyBegins BY <1>3, <1>5, <1>6, OneMoves
<1>8. \A r \in Procs : Beginning(r)' => Beginning(r) BY <1>7 DEF Beginning, NobodyBegins
<1>9. \A r \in Procs : proc'[r].at = "post" => proc[r].at = "post" BY <1>7 DEF NobodyBegins
<1>10. Known' = Known /\ (Free => Free') BY <1>3, <1>8 DEF Known, Free
<1>11. RelaySide' BY <1>2, <1>3, KeyIs DEF RelaySide, RoundInv
<1>12. Posting' BY <1>3, <1>8, <1>9, <1>10 DEF Posting, RoundInv
<1>13. Harmless' \in BOOLEAN /\ (Harmless => Harmless') BY <1>3, <1>10, Typed DEF Harmless, Free
<1>14. Records' BY <1>5, <1>7, <1>10, <1>13, FactsLast, Typed
<1>15. TypeOK' BY <1>3 DEF TypeOK, RoundInv
<1> QED BY <1>11, <1>12, <1>14, <1>15 DEF RoundInv

\* The relay cancels: from here on nothing can be paid.
LEMMA CancelExecutedKeeps ==
  ASSUME RoundInv, NEW p \in Procs, CancelExecuted(p) PROVE RoundInv'
<1> DEFINE q == [proc[p] EXCEPT !.at = "cancelled"]
<1>1. proc[p] \in Places /\ Fits(proc[p], group, Known, Harmless) BY Typed
<1>2. /\ remote[Key] = "queued" /\ ~paid[Key] /\ remote' = [remote EXCEPT ![Key] = "cancelled"]
      /\ proc' = [proc EXCEPT ![p] = q]
      /\ UNCHANGED <<T, G, group, mode, submitting, post, posts, crashes, denied, acknowledged, paid>>
  BY DEF CancelExecuted, CancelTask, Become
<1>3. q \in Places /\ q.at = "cancelled" /\ q.t = proc[p].t /\ q.g = proc[p].g BY <1>1 DEF Places, Labels
<1> HIDE DEF q
<1>4. remote'[Key] = "cancelled" BY <1>2, KeyIs DEF RoundInv, RelaySide
<1>5. Known /\ Known' /\ Free' BY <1>2, <1>4 DEF Known, Free
<1>6. Harmless' = TRUE BY <1>2, <1>5, Typed DEF Harmless
<1>7. /\ \A t : TaskFits(t, group, Known, Harmless) => TaskFits(t, group, Known, TRUE)
      /\ \A g : FormalFits(g, group, Harmless) => FormalFits(g, group, TRUE)
      /\ \A r : Fits(r, group, Known, Harmless) => Fits(r, group, Known, TRUE)
  <2>1. \A t : TaskFits(t, group, Known, Harmless) => TaskFits(t, group, Known, TRUE) BY DEF TaskFits
  <2>2. \A g : FormalFits(g, group, Harmless) => FormalFits(g, group, TRUE) BY DEF FormalFits
  <2>3. \A r : Fits(r, group, Known, Harmless) => Fits(r, group, Known, TRUE) BY <2>1, <2>2 DEF Fits
  <2> QED BY <2>1, <2>2, <2>3
<1>8. Fits(q, group, Known, TRUE) BY <1>1, <1>3, <1>7, Typed DEF Fits, Remotely
<1>9. \A r \in Procs : proc'[r] = IF r = p THEN q ELSE proc[r] BY <1>2, Typed
<1>10. proc' \in [Procs -> Places] BY <1>2, <1>3, Typed
<1>11. Known' = Known BY <1>2, <1>5 DEF Known
<1>12. Records' BY <1>2, <1>6, <1>7, <1>8, <1>9, <1>10, <1>11, Typed DEF Records
<1>13. RelaySide' BY <1>2, <1>4 DEF RelaySide, RoundInv, TerminalStates
<1>14. \A r \in Procs : proc'[r].at \in {"begin", "post"} => proc[r].at = proc'[r].at BY <1>3, <1>9
<1>15. Posting' BY <1>2, <1>5, <1>14 DEF Posting, RoundInv, Beginning
<1>16. TypeOK' BY <1>2 DEF TypeOK, RoundInv
<1> QED BY <1>12, <1>13, <1>15, <1>16 DEF RoundInv

\* The local server dies.
LEMMA CrashKeeps ==
  ASSUME RoundInv, Crash PROVE RoundInv'
<1>1. /\ mode' = "down" /\ crashes' = crashes + 1 /\ crashes < MaxCrashes
      /\ proc' = [p \in Procs |-> Idle] /\ submitting' = FALSE
      /\ post' = (IF post = "flying" THEN "late" ELSE IF post \in {"accepted", "refused"} THEN "gone" ELSE post)
      /\ UNCHANGED <<remote, acknowledged, paid, T, G, group, posts, denied>>
  BY DEF Crash, contractVars
<1>2. RecordsFit BY <1>1, SameRecords
<1>3. Onward(Idle, group', Known, Harmless) /\ Idle.at = "idle" BY <1>1, IdleFits, Typed DEF Idle
<1>4. CallsFit BY <1>1, <1>3 DEF CallsFit, Onward, Fits
<1>5. \A p \in Procs : proc'[p].at = "idle" BY <1>1, <1>3
<1>6. Known' = Known BY <1>1 DEF Known
<1>7. Free => Free'
  <2>1. CASE post \in {"flying", "late"} BY <2>1, OnItsWay
  <2>2. CASE post \notin {"flying", "late"} BY <1>1, <1>5, <2>2 DEF Free, Beginning
  <2> QED BY <2>1, <2>2
<1>8. Harmless' \in BOOLEAN /\ (Harmless => Harmless') BY <1>1, <1>7, Typed DEF Harmless, Free
<1>9. Records' BY <1>2, <1>4, <1>6, <1>8, FactsLast, Typed
<1>10. RelaySide' BY <1>1 DEF RelaySide, RoundInv
<1>11. Posting' BY <1>1, <1>5, <1>6 DEF Posting, RoundInv, Beginning
<1>12. crashes' \in 0 .. MaxCrashes BY <1>1, RoundAssumption DEF RoundInv, TypeOK
<1>13. TypeOK'
  <2>1. post' \in {"none", "flying", "accepted", "refused", "late", "gone"} BY <1>1 DEF TypeOK, RoundInv
  <2>2. /\ mode' \in {"up", "down", "recovering"} /\ submitting' \in BOOLEAN
        /\ group' \in BOOLEAN /\ posts' \in Nat /\ denied' \in BOOLEAN /\ T' = T /\ G' = G
    BY <1>1 DEF TypeOK, RoundInv
  <2>3. T' \in Tasks /\ G' \in Formals BY <2>2, Typed
  <2> QED BY <2>1, <2>2, <2>3, <1>12 DEF TypeOK, Tasks, Formals
<1> QED BY <1>9, <1>10, <1>11, <1>13 DEF RoundInv

-----------------------------------------------------------------------------
(* Theorems.                                                               *)

\* Every step of a call.
LEMMA CallStepKeeps ==
  ASSUME RoundInv, NEW p \in Procs, CallStep(p) PROVE RoundInv'
<1>1. CASE ClaimGenerationSubmission(p) BY <1>1, ClaimKeeps
<1>2. CASE BeginSubmission(p) BY <1>2, BeginKeeps
<1>3. CASE PostAnswered(p) BY <1>3, PostAnsweredKeeps
<1>4. CASE PostUnanswered(p) BY <1>4, PostUnansweredKeeps
<1>5. CASE SubmissionEnds(p) BY <1>5, SubmissionEndsKeeps
<1>6. CASE Fence(p) BY <1>6, FenceKeeps
<1>7. CASE LookupFinds(p) BY <1>7, LookupFindsKeeps
<1>8. CASE LookupFails(p) BY <1>8, LookupFailsKeeps
<1>9. CASE SyncWrite(p) BY <1>9, SyncWriteKeeps
<1>10. CASE SyncCancel(p) BY <1>10, SyncCancelKeeps
<1>11. CASE AckExecuted(p) BY <1>11, AckExecutedKeeps
<1>12. CASE AckSaved(p) BY <1>12, AckSavedKeeps
<1>13. CASE AckUnanswered(p) BY <1>13, AckUnansweredKeeps
<1>14. CASE CancelLocally(p) BY <1>14, CancelLocallyKeeps
<1>15. CASE CancelExecuted(p) BY <1>15, CancelExecutedKeeps
<1>16. CASE CancelFails(p) BY <1>16, CancelFailsKeeps
<1>17. CASE MarkOperationCancelled(p) BY <1>17, MarkCancelledKeeps
<1>18. CASE SaveCancelled(p) BY <1>18, SaveCancelledKeeps
<1> QED BY <1>1, <1>2, <1>3, <1>4, <1>5, <1>6, <1>7, <1>8, <1>9, <1>10, <1>11, <1>12, <1>13,
           <1>14, <1>15, <1>16, <1>17, <1>18 DEF CallStep

\* Every step of the shared refresh.
LEMMA RefreshStepKeeps ==
  ASSUME RoundInv, RefreshStep PROVE RoundInv'
<1>1. CASE StatusRead BY <1>1, StatusReadKeeps
<1>2. CASE ReadFails BY <1>2, ReadFailsKeeps
<1>3. CASE StatusActive BY <1>3, StatusActiveKeeps
<1>4. CASE StatusEnded BY <1>4, StatusEndedKeeps
<1>5. CASE BeginCommit BY <1>5, BeginCommitKeeps
<1>6. CASE MarkCommitting BY <1>6, MarkCommittingKeeps
<1>7. CASE CommitCandidateGroup BY <1>7, CommitKeeps
<1>8. CASE CommitRefused BY <1>8, CommitRefusedKeeps
<1>9. CASE NothingToCommit BY <1>9, NothingToCommitKeeps
<1> QED BY <1>1, <1>2, <1>3, <1>4, <1>5, <1>6, <1>7, <1>8, <1>9 DEF RefreshStep

\* A step that changes nothing.
LEMMA StutterKeeps ==
  ASSUME RoundInv, UNCHANGED vars PROVE RoundInv'
<1>1. UNCHANGED <<remote, acknowledged, paid, T, G, group, mode, submitting, proc, post, posts, crashes, denied>>
  BY DEF vars, contractVars
<1>2. ReadingOn BY <1>1 DEF ReadingOn, contractVars, RoundInv, TypeOK
<1>3. RecordsFit /\ CallsFit /\ NobodyBegins BY <1>1, Standing
<1> QED BY <1>2, <1>3, QuietStep DEF ReadingOn

\* The invariant holds in every reachable state.
THEOREM Invariance == RoundSpec => []RoundInv
<1>1. RoundInit => RoundInv BY Init
<1>2. RoundInv /\ [RoundNext]_vars => RoundInv'
  <2> SUFFICES ASSUME RoundInv, [RoundNext]_vars PROVE RoundInv' OBVIOUS
  <2>1. ASSUME NEW p \in Procs, CallStep(p) PROVE RoundInv' BY <2>1, CallStepKeeps
  <2>2. ASSUME NEW p \in Pollers, Call(p, "poll") PROVE RoundInv'
    BY <2>2, CallKeeps, RoundAssumption DEF Procs
  <2>3. ASSUME NEW p \in Cancellers, Call(p, "cancel") PROVE RoundInv'
    BY <2>3, CallKeeps, RoundAssumption DEF Procs
  <2>4. CASE RefreshStep BY <2>4, RefreshStepKeeps
  <2>5. CASE RelayTakesPost BY <2>5, RelayTakesPostKeeps
  <2>6. CASE PostVanishes BY <2>6, PostVanishesKeeps
  <2>7. CASE RelayStep BY <2>7, RelayStepKeeps
  <2>8. CASE Crash BY <2>8, CrashKeeps
  <2>9. CASE Restart BY <2>9, RestartKeeps
  <2>10. CASE Serve BY <2>10, ServeKeeps
  <2>11. CASE UNCHANGED vars BY <2>11, StutterKeeps
  <2> QED BY <2>1, <2>2, <2>3, <2>4, <2>5, <2>6, <2>7, <2>8, <2>9, <2>10, <2>11 DEF RoundNext
<1> QED BY <1>1, <1>2, PTL DEF RoundSpec

\* A generation is posted once in its life.
THEOREM PostedOnceOnly == RoundSpec => []PostedOnce
<1>1. RoundInv => PostedOnce BY DEF RoundInv, Posting, PostedOnce
<1> QED BY <1>1, Invariance, PTL

\* Neither relay nor user is told of a result before it is committed.
THEOREM CommittedFirst == RoundSpec => []CommittedBeforeReleased
<1>1. RoundInv => CommittedBeforeReleased
  BY DEF RoundInv, RelaySide, Records, TaskFits, FormalFits, CommittedBeforeReleased
<1> QED BY <1>1, Invariance, PTL

\* What is recorded as failed or cancelled was never paid for, unless a status
\* read of it was refused, whatever calls, refreshes and restarts write back.
THEOREM FailuresAreFree == RoundSpec => []KnownFailureIsFree
<1>1. RoundInv => KnownFailureIsFree
  BY DEF RoundInv, Records, TaskFits, KnownFailureIsFree, Harmless, Free
<1> QED BY <1>1, Invariance, PTL
=============================================================================
