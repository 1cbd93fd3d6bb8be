CONSTANTS
    t1 = t1
    t2 = t2
    s1 = s1
    s2 = s2
    s3 = s3
    Threads = {t1, t2}
    Samplers = {s1, s2, s3}
    Creator <- MCCreator
    SamplingFlags = {TRUE, FALSE}
    NoSampler = none

SPECIFICATION Spec

INVARIANTS
    TypeOK
    OnOneList
    SamplingExcludesFree

PROPERTIES
    Reclaimed

\* Without a scheduled sampler no collector thread is ever created, and the
\* StatusVars and threads have finite lives: the program may stop.
CHECK_DEADLOCK FALSE
