CONSTANTS
    p1 = p1
    p2 = p2
    Producers = {p1, p2}
    Groups = {g1, g2}
    Programs <- MCPrograms
    MaxCalls = 3
    Cap = 1
    NoGroup = nogroup

SPECIFICATION Spec

PROPERTIES
    SignalledRun

\* The producers' programs end; the workers then park for good.
CHECK_DEADLOCK FALSE
