---------------------------- MODULE MCLocalStores ----------------------------
(***************************************************************************)
(* Two stores of the desktop that share nothing, each on its own: a         *)
(* behaviour picks one of them and takes only its steps.                    *)
(*                                                                         *)
(* projects  a project that is saved twice and an operation that is saved   *)
(*           twice; pages of one event                                     *)
(* operations  a project that is saved once and an operation that is saved  *)
(*           three times, so that two saves may follow one that is stranded *)
(* agenda    a task that is planned once and one that repeats, two runs of  *)
(*           runDue and a call beside them                                 *)
(***************************************************************************)
EXTENDS VideoWorkbenchRepository

CONSTANTS p, o, p1, p2, o1, o2, o3              \* aggregates and their saves
CONSTANTS once, every                           \* tasks
CONSTANTS Tasks, Schedule, Calls, Timers, MayReenable, PersistFails, MaxTime

VARIABLES part, tasks, file, timer, flow, clock, restarts, created, ran, refused, thrown

MCTargetOf(s) == IF s \in {p1, p2} THEN p ELSE o
MCSchedule == [t \in Tasks |-> IF t = once THEN [kind |-> "once", at |-> 2]
                               ELSE [kind |-> "interval", at |-> 1]]

Agenda == INSTANCE ScheduledAgentTasks WITH crashes <- restarts

ASSUME StoresConfig == Agenda!ServiceConfig

agenda == <<tasks, file, timer, flow, clock, restarts, created, ran, refused, thrown>>

StoresInit == part \in {"projects", "operations", "agenda"} /\ Init /\ Agenda!Init

NotCalled(s) == save[s].at = "new"

StoresNext ==
    /\ UNCHANGED part
    /\ \/ part = "projects" /\ Next /\ NotCalled(o3)' /\ UNCHANGED agenda
       \/ part = "operations" /\ Next /\ NotCalled(p2)' /\ UNCHANGED agenda
       \/ part = "agenda" /\ Agenda!Next /\ UNCHANGED vars

StoresSpec == StoresInit /\ [][StoresNext]_<<part, vars, agenda>>

-----------------------------------------------------------------------------
\* No wake-up is lost: ScheduledAgentTasks, arm after every await of runDue.
TimerArmed == part = "agenda" => Agenda!TimerArmed

\* An occurrence is run once per start of the desktop: ScheduledAgentTasks, runDue.
OccurrenceRunsOnce == Agenda!OccurrenceRunsOnce
=============================================================================
