SPECIFICATION StoresSpec
CONSTANTS
    p = p
    o = o
    p1 = p1
    p2 = p2
    o1 = o1
    o2 = o2
    o3 = o3
    Project = p
    Operations = {o}
    Saves = {p1, p2, o1, o2, o3}
    TargetOf <- MCTargetOf
    PageLimit = 1
    MaxCrashes = 1
    NoSave = NoSave
    once = once
    every = every
    Tasks = {once, every}
    Schedule <- MCSchedule
    Calls = {call1}
    Timers = {due1, due2}
    MayReenable = {once}
    PersistFails = TRUE
    MaxTime = 2
CHECK_DEADLOCK FALSE
INVARIANTS
    NoEventMissed
