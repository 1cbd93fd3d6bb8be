CONSTANTS
    Event = ev
    Butexes = {ev}
    Waiters = {w1, w2}
    Fibers = {w1, w2}
    Timed = {w2}
    Signalers = {s1, s2}
    s1 = s1
    s2 = s2
    Sig <- MCSig
    InitCount = 2
    MaxAdd = 1
    ResetTo = 1
    MaxReset = 1
    StopTargets = {w1}
    Slots = {t1, t2}
    MaxGen = 3
    TimerUsers = {u1}
    Owners = {w2, u1}
    MaxTimerAdd = 1
    MaxTimerDel = 1

SPECIFICATION Spec

INVARIANTS
    TypeOK
    CancelXorFire
    StopCutsWait
    NoReadAfterDestroy

PROPERTIES
    WaitersReturn
    TimedWaitReturns

\* Every caller makes one call: the scenario ends when all have returned.
CHECK_DEADLOCK FALSE
