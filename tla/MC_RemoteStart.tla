--------------------------- MODULE MC_RemoteStart ---------------------------
(* Two non-worker producers, remote queues of capacity 1 so that pushes  *)
(* find them full, and programs mixing signalled and NOSIGNAL starts     *)
(* with and without fiber_flush.                                          *)
EXTENDS RemoteStart, TLC

CONSTANTS p1, p2

MCPrograms ==
    {(p1 :> a) @@ (p2 :> b) :
        a \in {<<"startns", "startns", "flush">>, <<"startns", "start">>, <<"start", "flush">>},
        b \in {<<"start">>, <<"startns", "flush">>}}

=============================================================================
