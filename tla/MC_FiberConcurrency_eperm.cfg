CONSTANTS
    Threads = {t1, t2}
    Programs <- MCPrograms
    NTags = 2
    InitFlag = 2
    MinConc = 1
    MaxConc = 3

SPECIFICATION Spec

PROPERTIES

    SetBelowCountRefused


\* Each thread makes two calls and then has nothing left to do.
CHECK_DEADLOCK FALSE
