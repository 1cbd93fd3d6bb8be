CONSTANTS
    Owner = o
    Thieves = {s1, s2}
    Capacity <- MCCapacity
    MaxPush <- MCMaxPush

SPECIFICATION Spec

INVARIANTS
    TypeOK
    ExactlyOnce

PROPERTIES
    CallsReturn
    AbsSpec
