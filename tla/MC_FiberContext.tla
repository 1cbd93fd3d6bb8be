--------------------------- MODULE MC_FiberContext ---------------------------
(***************************************************************************)
(* One worker with its MAIN stack and two pooled stacks, on every         *)
(* non-Windows platform of context.cc.  Stack tops are page aligned, as   *)
(* allocate_stack_storage returns them; MAIN's sp at its first jump is    *)
(* the aligned sp of a call site.                                         *)
(***************************************************************************)
EXTENDS FiberContext

CONSTANTS s1, s2, main

MCStacks == {s1, s2}

MCVps == {<<"vp", 7>>}

MCTop == [f \in {s1, s2, main} |-> CASE f = main -> 4096
                                     [] f = s1   -> 8192
                                     [] f = s2   -> 12288]

MCPlatforms == {"linux_x86_64", "apple_x86_64", "linux_i386", "apple_i386",
                "linux_arm32", "linux_arm64", "apple_arm64", "linux_loongarch64"}

\* the platforms whose jump skips d8-d15 when preserve_fpu is 0
MCArmPlatforms == {"linux_arm32", "apple_arm64"}
=============================================================================
