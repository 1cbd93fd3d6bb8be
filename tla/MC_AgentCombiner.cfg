CONSTANTS
    Writers = {w1, w2}
    Combiners = {rc}
    Resetters = {rr}
    MaxModify <- MCMaxModify
    MaxRead = 1
    MaxCalls = 1
    Atomicals = {TRUE, FALSE}
    MaxGen = 2
    NoThread = none

SPECIFICATION Spec

INVARIANTS
    TypeOK
    Conservation
    CombineWithinUpdates

PROPERTIES
    ModifyReturns

\* Writers exit and readers stop after their bounded calls.
CHECK_DEADLOCK FALSE
