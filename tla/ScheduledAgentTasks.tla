------------------------- MODULE ScheduledAgentTasks -------------------------
(***************************************************************************)
(* The desktop's scheduled agent tasks: ts/desktop/electron/services/       *)
(* scheduledAgentTasks.ts, class ScheduledAgentTaskService.  Tasks live in  *)
(* memory and in one JSON file.  One timer is armed for the earliest        *)
(* enabled task; when it fires, runDue runs what is due, one after another. *)
(*                                                                         *)
(* runDue, create, setEnabled and remove await the agent's Turn and the     *)
(* file system, and nothing keeps two of them from overlapping: each call   *)
(* is a flow, and a step is what a flow does between two awaits.            *)
(***************************************************************************)
EXTENDS Naturals, FiniteSets, FiniteSetsExt, Functions

CONSTANTS
    Tasks, Schedule,        \* ids are never used twice; a schedule each
    Calls, Timers,          \* slots for concurrent calls, and runs of runDue
    MayReenable,            \* tasks whose user may enable them again
    PersistFails,           \* whether writing the file may fail
    MaxTime, MaxCrashes

\* What the constants must be; the module that gives them values assumes it.
ServiceConfig ==
    /\ Schedule \in [Tasks -> [kind : {"once", "interval"}, at : Nat \ {0}]]
    /\ Calls \cap Timers = {} /\ MayReenable \subseteq Tasks
    /\ PersistFails \in BOOLEAN
    /\ MaxTime \in Nat \ {0} /\ MaxCrashes \in Nat

VARIABLES
    tasks, file,    \* the map in memory, and in the last renamed file
    timer,          \* when the armed timer is due, or NoTimer
    flow,           \* the calls that are under way
    clock, crashes, \* Date.now(); restarts so far
    created,        \* tasks that exist or have existed
    ran,            \* history: the occurrences that were run since the start
    refused,        \* history: tasks enabled by a call that threw EXPIRED
    thrown          \* history: a call has thrown since the timer was last armed

vars == <<tasks, file, timer, flow, clock, crashes, created, ran, refused, thrown>>

NoTimer == 0
Flows == Calls \cup Timers
None == [t \in {} |-> 0]
Idle == [pc |-> "idle", running |-> {}, todo |-> {}, now |-> 0, snapshot |-> None]

Init == /\ tasks = None /\ file = None
        /\ timer = NoTimer /\ flow = [f \in Flows |-> Idle]
        /\ clock = 1 /\ crashes = 0 /\ created = {}
        /\ ran = {} /\ refused = {} /\ thrown = FALSE

-----------------------------------------------------------------------------
\* nextScheduledAgentTaskRun, 0 where it is undefined. A daily or weekly
\* schedule is like an interval: there always is a next time, after now.
next(t, after) ==
    IF Schedule[t].kind = "interval" THEN after + Schedule[t].at
    ELSE IF Schedule[t].at > after THEN Schedule[t].at ELSE 0

Enabled(ts) == {t \in DOMAIN ts : ts[t].enabled}

\* arm: the time the timer is set to.
arm(ts) == IF Enabled(ts) = {} THEN NoTimer
           ELSE Min({ts[t].next : t \in Enabled(ts)})

armed == timer' = arm(tasks) /\ thrown' = FALSE

put(ts, t, task) == [s \in DOMAIN ts \cup {t} |-> IF s = t THEN task ELSE ts[s]]

set(f, flowOf) == flow' = [flow EXCEPT ![f] = flowOf]

-----------------------------------------------------------------------------
(* persist, shared by all flows: mkdir, then a snapshot, then its rename.   *)

Snapshot(f) ==
    /\ flow[f].pc = "mkdir"
    /\ set(f, [flow[f] EXCEPT !.pc = "write", !.snapshot = tasks])
    /\ UNCHANGED <<tasks, file, timer, clock, crashes, created, ran, refused, thrown>>

-----------------------------------------------------------------------------
(* runDue.                                                                 *)

Due(ts, now) == {t \in Enabled(ts) : ts[t].next <= now}

\* A due task is moved to its next time, and only then its Turn is awaited.
Run(f, t, rest, now) ==
    LET after == next(t, now)
    IN  /\ tasks' = [tasks EXCEPT ![t].enabled = after # 0,
                                  ![t].next = IF after = 0 THEN @ ELSE after]
        /\ set(f, [Idle EXCEPT !.pc = "running", !.running = {t},
                               !.todo = rest, !.now = now])
        /\ ran' = ran \cup {<<t, tasks[t].next>>} /\ refused' = refused \ {t}

\* Mutant: a task is not looked at again before it is run.
advanceUnchecked(f, todo, now, pending) ==
    LET ready == todo \cap DOMAIN tasks
    IN  \/ /\ ready = {} /\ set(f, Idle) /\ armed
           /\ UNCHANGED <<tasks, ran, refused>>
        \/ \E t \in ready : Run(f, t, todo \ {t}, now)
                           /\ timer' = pending /\ thrown' = thrown

\* Mutant: the timer is armed only by create, setEnabled and remove.
advanceUnarmed(f, todo, now, pending) ==
    LET ready == todo \cap Due(tasks, now)
    IN  \/ /\ ready = {} /\ set(f, Idle)
           /\ timer' = pending /\ thrown' = thrown
           /\ UNCHANGED <<tasks, ran, refused>>
        \/ \E t \in ready : Run(f, t, todo \ {t}, now)
                           /\ timer' = pending /\ thrown' = thrown

\* The loop of runDue, up to the await of run, or to its end, which arms the
\* timer again. The order among the due tasks is not told apart.
advance(f, todo, now, pending) ==
    LET ready == todo \cap Due(tasks, now)
    IN  \/ /\ ready = {} /\ set(f, Idle) /\ armed
           /\ UNCHANGED <<tasks, ran, refused>>
        \/ \E t \in ready : Run(f, t, todo \ {t}, now)
                           /\ timer' = pending /\ thrown' = thrown

\* The timer fires. Two runs of runDue overlap when a call has armed it again.
TimerFires(f) ==
    /\ f \in Timers /\ flow[f].pc = "idle"
    /\ timer # NoTimer /\ timer <= clock
    /\ advance(f, Due(tasks, clock), clock, NoTimer)
    /\ UNCHANGED <<file, clock, crashes, created>>

\* The Turn was started, or it failed: the file is written either way.
RunEnds(f) ==
    /\ flow[f].pc = "running"
    /\ set(f, [flow[f] EXCEPT !.pc = "mkdir", !.running = {}])
    /\ UNCHANGED <<tasks, file, timer, clock, crashes, created, ran, refused, thrown>>

\* The rename: a call ends with arm, a run of runDue goes on with its loop.
Rename(f) ==
    /\ flow[f].pc = "write"
    /\ file' = flow[f].snapshot
    /\ \/ /\ f \in Timers
          /\ advance(f, flow[f].todo, flow[f].now, timer)
       \/ /\ f \in Calls
          /\ set(f, Idle) /\ armed
          /\ UNCHANGED <<tasks, ran, refused>>
    /\ UNCHANGED <<clock, crashes, created>>

\* mkdir, write or rename fails: a call throws and does not arm; runDue leaves
\* its loop, and its finally arms.
PersistThrows(f) ==
    /\ PersistFails /\ flow[f].pc \in {"mkdir", "write"}
    /\ set(f, Idle)
    /\ IF f \in Timers THEN armed ELSE timer' = timer /\ thrown' = TRUE
    /\ UNCHANGED <<tasks, file, clock, crashes, created, ran, refused>>

-----------------------------------------------------------------------------
(* The calls of the desktop's windows.                                     *)

Begins(f) == /\ f \in Calls /\ flow[f].pc = "idle"
             /\ set(f, [Idle EXCEPT !.pc = "mkdir"])

Create(f, t, e) ==
    /\ Begins(f)
    /\ t \notin created /\ next(t, clock) # 0
    /\ created' = created \cup {t}
    /\ tasks' = put(tasks, t, [enabled |-> e, next |-> next(t, clock)])
    /\ UNCHANGED <<file, timer, clock, crashes, ran, refused, thrown>>

Disable(f, t) ==
    /\ Begins(f)
    /\ t \in DOMAIN tasks
    /\ tasks' = [tasks EXCEPT ![t].enabled = FALSE]
    /\ refused' = refused \ {t}
    /\ UNCHANGED <<file, timer, clock, crashes, created, ran, thrown>>

Late(t) == tasks[t].next <= clock

Enable(f, t) ==
    /\ Begins(f)
    /\ t \in DOMAIN tasks /\ t \in MayReenable
    /\ Late(t) => next(t, clock) # 0
    /\ tasks' = [tasks EXCEPT ![t].enabled = TRUE,
                              ![t].next = IF Late(t) THEN next(t, clock) ELSE @]
    /\ UNCHANGED <<file, timer, clock, crashes, created, ran, refused, thrown>>

\* EXPIRED is thrown: the task was enabled before, and nothing takes it back.
EnableExpired(t) ==
    /\ t \in DOMAIN tasks /\ t \in MayReenable
    /\ Late(t) /\ next(t, clock) = 0
    /\ tasks' = [tasks EXCEPT ![t].enabled = TRUE]
    /\ refused' = refused \cup {t} /\ thrown' = TRUE
    /\ UNCHANGED <<file, timer, flow, clock, crashes, created, ran>>

Remove(f, t) ==
    /\ Begins(f)
    /\ t \in DOMAIN tasks
    /\ tasks' = Restrict(tasks, DOMAIN tasks \ {t})
    /\ refused' = refused \ {t}
    /\ UNCHANGED <<file, timer, clock, crashes, created, ran, thrown>>

-----------------------------------------------------------------------------
Tick == /\ clock < MaxTime /\ clock' = clock + 1
        /\ UNCHANGED <<tasks, file, timer, flow, crashes, created, ran, refused, thrown>>

\* The desktop stops or dies, and starts from the file.
Restart ==
    /\ crashes < MaxCrashes /\ crashes' = crashes + 1
    /\ tasks' = file /\ timer' = arm(file)
    /\ flow' = [f \in Flows |-> Idle]
    /\ ran' = {} /\ refused' = {} /\ thrown' = FALSE
    /\ UNCHANGED <<file, clock, created>>

Next == \/ \E f \in Flows : RunEnds(f) \/ Snapshot(f) \/ Rename(f) \/ PersistThrows(f)
        \/ \E f \in Timers : TimerFires(f)
        \/ \E f \in Calls, t \in Tasks :
              \/ \E e \in BOOLEAN : Create(f, t, e)
              \/ Disable(f, t) \/ Enable(f, t) \/ Remove(f, t)
        \/ \E t \in Tasks : EnableExpired(t)
        \/ Tick \/ Restart

Spec == Init /\ [][Next]_vars

-----------------------------------------------------------------------------
TaskMap(ts) == /\ DOMAIN ts \subseteq created
               /\ \A t \in DOMAIN ts : ts[t] \in [enabled : BOOLEAN, next : Nat \ {0}]

\* The shape of the variables; a task in memory, in the file or on its way to
\* the file has a next time (validTask, nextRunAt), and a running or saving
\* call has a snapshot exactly while it writes.
TypeOK ==
    /\ created \subseteq Tasks /\ refused \subseteq DOMAIN tasks
    /\ thrown \in BOOLEAN
    /\ TaskMap(tasks) /\ TaskMap(file)
    /\ timer \in Nat /\ clock \in 1..MaxTime /\ crashes \in 0..MaxCrashes
    /\ \A f \in Flows :
          /\ flow[f].pc \in {"idle", "mkdir", "write"}
                             \cup (IF f \in Timers THEN {"running"} ELSE {})
          /\ flow[f].todo \cup flow[f].running \subseteq Tasks /\ flow[f].now \in 0..clock
          /\ TaskMap(flow[f].snapshot)
          /\ flow[f].pc # "write" => flow[f].snapshot = None
          /\ (flow[f].pc = "running") = (flow[f].running # {})

Starts(f, t) == flow'[f].pc = "running" /\ flow'[f] # flow[f] /\ t \in flow'[f].running

\* However the runs of runDue overlap each other and the calls, one occurrence
\* of a task is run at most once per start of the desktop (runDue looks at the
\* task again and moves nextRunAt before it awaits). Left out: a task whose
\* enabling was refused with EXPIRED after it had been enabled.
OccurrenceRunsOnce ==
    [][\A f \in Timers, t \in Tasks :
          Starts(f, t) /\ t \notin refused => <<t, tasks[t].next>> \notin ran]_vars

\* No wake-up is lost: when no call is under way, the timer is set for the
\* earliest enabled task, because arm follows every await. Left out: after a
\* call that threw (a save that failed, EXPIRED) until the next arm.
TimerArmed ==
    TypeOK /\
    ((\A f \in Flows : flow[f].pc = "idle") /\ ~thrown => timer = arm(tasks))
=============================================================================
