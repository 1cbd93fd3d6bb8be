------------------------ MODULE MC_SamplerCollector ------------------------
(* Two threads scheduling three samplers (two on t1, so t1's second      *)
(* schedule finds its agent), the collector thread running for ever.     *)
EXTENDS SamplerCollector, TLC

CONSTANTS t1, t2, s1, s2, s3

MCCreator == (s1 :> t1) @@ (s2 :> t1) @@ (s3 :> t2)

=============================================================================
