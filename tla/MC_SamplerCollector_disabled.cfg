CONSTANTS
    t1 = t1
    t2 = t2
    s1 = s1
    s2 = s2
    s3 = s3
    Threads = {t1, t2}
    Samplers = {s1, s2, s3}
    Creator <- MCCreator
    SamplingFlags = {FALSE}
    NoSampler = none

SPECIFICATION Spec

PROPERTIES
    DestroyedAreDeleted

\* With sampling off no collector thread is ever created: the program may stop.
CHECK_DEADLOCK FALSE
