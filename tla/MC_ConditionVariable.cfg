CONSTANTS
    CondSeq = seq
    Mtx = mtx
    Butexes = {seq, mtx}
    NoFiber = nofiber
    Waiters = {w1, w2}
    Timed = {w2}
    Notifier = n
    Pingers = {p}
    Fibers = {w1, w2, n, p}
    MaxInterrupts = 1

SPECIFICATION Spec

INVARIANTS
    TypeOK
    MutualExclusion

PROPERTIES
    WaitersReturn
    LockCallsReturn

\* Every fiber makes a bounded number of calls: the scenario ends when all have returned.
CHECK_DEADLOCK FALSE
