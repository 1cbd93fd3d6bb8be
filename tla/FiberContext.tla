---------------------------- MODULE FiberContext ----------------------------
(***************************************************************************)
(* Stack switching of one worker: fiber_make_fcontext and                 *)
(* fiber_jump_fcontext of context.cc, for every non-Windows platform, and *)
(* the stack factory of stack_inl.h that formats and hands out stacks.    *)
(*                                                                         *)
(* The CPU is a register file `regs`, a stack pointer `sp` and the code   *)
(* it runs, `pc`.  Memory is a function from byte addresses to the words  *)
(* written there; a slot never written reads Undef.    Each platform's    *)
(* assembly is given by the layout of the frame it saves (which register  *)
(* goes to which offset, in the order the code stores and loads them) and *)
(* by the arithmetic make_fcontext does on the stack top.  One generic    *)
(* JumpFcontext/MakeFcontext then runs any of those layouts.              *)
(*                                                                         *)
(* Values in registers are <<fiber, register>>: what that fiber's code    *)
(* last put there.  A call's return point is <<"ret", fiber>>.            *)
(***************************************************************************)
EXTENDS Integers, Sequences, SequencesExt, Functions, TLC

CONSTANTS
    Platforms,  \* the context.cc platforms explored
    Stacks,     \* pooled stacks (model values)
    Main,       \* the worker's MAIN stack: its own OS stack
    Top,        \* Top[f]: storage.bottom of f, the stack's highest address
    StackSize,  \* bytes below Top[f] that belong to f
    MainSp,     \* sp of the scheduler when it first calls jump_stack
    Vps,        \* values passed through a jump
    NULL

Fibers == Stacks \cup {Main}

VARIABLES
    plat,       \* the platform this worker was built for
    regs,       \* register file
    sp,         \* stack pointer
    pc,         \* Fn: entering the entry function; Running; Ret(f): just returned into f
    cur,        \* the fiber whose stack the CPU is on
    mem,        \* address -> word
    ctx,        \* ContextualStack::context of each fiber
    stage,      \* pooled Wrapper: "none" (not constructed), "inuse", "pooled"
    callRegs,   \* history: registers of each fiber when it last called jump
    callSp,     \* history: its sp at that call
    vpIn        \* history: the vp of the last jump

vars == <<plat, regs, sp, pc, cur, mem, ctx, stage, callRegs, callSp, vpIn>>

Ret(f) == <<"ret", f>>

\* code addresses and the contents of a slot never written
Fn == <<"fn">>
Finish == <<"finish">>
Running == <<"run">>
Undef == <<"undef">>

-----------------------------------------------------------------------------
(* Frame layouts of fiber_jump_fcontext.  gpSave lists the general         *)
(* registers at rising offsets from gpBase as the code stores them, gpLoad *)
(* as it loads them; fpu lists the FPU state at rising offsets from 0,     *)
(* saved only when fpuAlways or preserve_fpu # 0.  pc is the offset of the *)
(* return address, size the bytes released on return, lr the register a   *)
(* call writes its return address into, args the registers that receive   *)
(* vp, argSlots the offsets from the new sp that receive vp on the stack. *)

Linux_x86_64JumpSwappedPops ==
    [size |-> 64, pc |-> 56, word |-> 8, gpBase |-> 8,
     gpSave |-> Reverse(<<"rbp", "rbx", "r15", "r14", "r13", "r12">>),
     gpLoad |-> <<"r13", "r12", "r14", "r15", "rbx", "rbp">>,
     fpu |-> <<"mxcsr", "fcw">>, fpuStride |-> 4, fpuAlways |-> FALSE,
     lr |-> "none", args |-> {"rax", "rdi"}, argSlots |-> {}]

Linux_x86_64Jump ==
    [size |-> 64, pc |-> 56, word |-> 8, gpBase |-> 8,
     gpSave |-> Reverse(<<"rbp", "rbx", "r15", "r14", "r13", "r12">>),
     gpLoad |-> <<"r12", "r13", "r14", "r15", "rbx", "rbp">>,
     fpu |-> <<"mxcsr", "fcw">>, fpuStride |-> 4, fpuAlways |-> FALSE,
     lr |-> "none", args |-> {"rax", "rdi"}, argSlots |-> {}]

Linux_i386Jump ==
    [size |-> 28, pc |-> 24, word |-> 4, gpBase |-> 8,
     gpSave |-> Reverse(<<"ebp", "ebx", "esi", "edi">>),
     gpLoad |-> <<"edi", "esi", "ebx", "ebp">>,
     fpu |-> <<"mxcsr", "fcw">>, fpuStride |-> 4, fpuAlways |-> FALSE,
     lr |-> "none", args |-> {"eax"}, argSlots |-> {4}]

Apple_x86_64Jump == Linux_x86_64Jump

Apple_i386Jump == Linux_i386Jump

Linux_arm32Jump ==
    [size |-> 104, pc |-> 100, word |-> 4, gpBase |-> 64,
     gpSave |-> <<"v1", "v2", "v3", "v4", "v5", "v6", "v7", "v8", "lr">>,
     gpLoad |-> <<"v1", "v2", "v3", "v4", "v5", "v6", "v7", "v8", "lr">>,
     fpu |-> <<"d8", "d9", "d10", "d11", "d12", "d13", "d14", "d15">>,
     fpuStride |-> 8, fpuAlways |-> FALSE,
     lr |-> "lr", args |-> {"a1"}, argSlots |-> {}]

Arm64Regs == <<"x19", "x20", "x21", "x22", "x23", "x24", "x25", "x26",
               "x27", "x28", "x29", "x30">>

Linux_arm64Jump ==
    [size |-> 176, pc |-> 160, word |-> 8, gpBase |-> 64,
     gpSave |-> Arm64Regs, gpLoad |-> Arm64Regs,
     fpu |-> <<"d8", "d9", "d10", "d11", "d12", "d13", "d14", "d15">>,
     fpuStride |-> 8, fpuAlways |-> TRUE,
     lr |-> "x30", args |-> {"x0"}, argSlots |-> {}]

Apple_arm64Jump == [Linux_arm64Jump EXCEPT !.fpuAlways = FALSE]

Linux_loongarch64Jump ==
    [size |-> 160, pc |-> 152, word |-> 8, gpBase |-> 64,
     gpSave |-> <<"s0", "s1", "s2", "s3", "s4", "s5", "s6", "s7", "s8", "fp", "ra">>,
     gpLoad |-> <<"s0", "s1", "s2", "s3", "s4", "s5", "s6", "s7", "s8", "fp", "ra">>,
     fpu |-> <<"fs0", "fs1", "fs2", "fs3", "fs4", "fs5", "fs6", "fs7">>,
     fpuStride |-> 8, fpuAlways |-> TRUE,
     lr |-> "ra", args |-> {"a0"}, argSlots |-> {}]

(* make_fcontext: ctx = ((top - pre) rounded down to align) - size; the    *)
(* entry function goes to offset fn, the finish trampoline to finish;      *)
(* fpuInit: the current FPU control words are stored into the fpu area.   *)

Linux_x86_64MakeFrame80 ==
    [pre |-> 0, align |-> 16, size |-> 80, fn |-> 56, finish |-> 64, fpuInit |-> TRUE]

Linux_x86_64MakeFnAt48 ==
    [pre |-> 0, align |-> 16, size |-> 72, fn |-> 48, finish |-> 64, fpuInit |-> TRUE]

Linux_x86_64Make ==
    [pre |-> 0, align |-> 16, size |-> 72, fn |-> 56, finish |-> 64, fpuInit |-> TRUE]

Linux_i386MakeNoArgRoom ==
    [pre |-> 0, align |-> 16, size |-> 32, fn |-> 24, finish |-> 28, fpuInit |-> TRUE]

Linux_i386Make ==
    [pre |-> 8, align |-> 16, size |-> 32, fn |-> 24, finish |-> 28, fpuInit |-> TRUE]

Apple_x86_64Make == Linux_x86_64Make

Apple_i386Make == Linux_i386Make

Linux_arm32Make ==
    [pre |-> 0, align |-> 16, size |-> 104, fn |-> 100, finish |-> 96, fpuInit |-> FALSE]

Linux_arm64Make ==
    [pre |-> 0, align |-> 16, size |-> 176, fn |-> 160, finish |-> 152, fpuInit |-> FALSE]

Apple_arm64Make == Linux_arm64Make

Linux_loongarch64Make ==
    [pre |-> 0, align |-> 1, size |-> 160, fn |-> 152, finish |-> 144, fpuInit |-> FALSE]

JumpOf(p) ==
    CASE p = "linux_x86_64"      -> Linux_x86_64Jump
      [] p = "apple_x86_64"      -> Apple_x86_64Jump
      [] p = "linux_i386"        -> Linux_i386Jump
      [] p = "apple_i386"        -> Apple_i386Jump
      [] p = "linux_arm32"       -> Linux_arm32Jump
      [] p = "linux_arm64"       -> Linux_arm64Jump
      [] p = "apple_arm64"       -> Apple_arm64Jump
      [] p = "linux_loongarch64" -> Linux_loongarch64Jump

MakeOf(p) ==
    CASE p = "linux_x86_64"      -> Linux_x86_64Make
      [] p = "apple_x86_64"      -> Apple_x86_64Make
      [] p = "linux_i386"        -> Linux_i386Make
      [] p = "apple_i386"        -> Apple_i386Make
      [] p = "linux_arm32"       -> Linux_arm32Make
      [] p = "linux_arm64"       -> Linux_arm64Make
      [] p = "apple_arm64"       -> Apple_arm64Make
      [] p = "linux_loongarch64" -> Linux_loongarch64Make

-----------------------------------------------------------------------------
(* Layout helpers *)

\* offset -> register for registers laid out at base, base+stride, ...
Slots(base, stride, seq) ==
    [o \in {base + (i - 1) * stride : i \in 1..Len(seq)} |->
        seq[(o - base) \div stride + 1]]

FpuSlots(J) == Slots(0, J.fpuStride, J.fpu)

Offset(L, r) == CHOOSE o \in DOMAIN L : L[o] = r

Regs(p) ==
    LET J == JumpOf(p) IN
    Range(J.gpSave) \cup Range(J.fpu) \cup J.args \cup ({J.lr} \ {"none"})

ReadIn(m, a) == IF a \in DOMAIN m THEN m[a] ELSE Undef

\* the words a layout L at address c takes from register file r
Store(L, c, r) == [a \in {c + o : o \in DOMAIN L} |-> r[L[a - c]]]

-----------------------------------------------------------------------------
(* fiber_make_fcontext(top, size, fn): returns ctx and the words written. *)
MakeFcontext(top) ==
    LET M == MakeOf(plat)
        a == top - M.pre
        c == a - (a % M.align) - M.size
        fpuW == IF M.fpuInit THEN Store(FpuSlots(JumpOf(plat)), c, regs) ELSE <<>>
    IN  [ctx |-> c,
         writes |-> (c + M.fn :> Fn) @@ (c + M.finish :> Finish) @@ fpuW]

(* fiber_jump_fcontext(&ctx[cur], ctx[dest], vp, preserve): the caller's   *)
(* return address is pushed (x86) or put in lr; the frame is stored below *)
(* sp; sp goes to *from; the frame at `to` is loaded; vp is handed over.   *)
JumpFcontext(dest, vp, preserve) ==
    LET J == JumpOf(plat)
        fpuOn == J.fpuAlways \/ preserve # 0
        atCall == IF J.lr = "none" THEN regs ELSE [regs EXCEPT ![J.lr] = Ret(cur)]
        c == sp - J.size
        saveL == Slots(J.gpBase, J.word, J.gpSave) @@ (IF fpuOn THEN FpuSlots(J) ELSE <<>>)
        loadL == Slots(J.gpBase, J.word, J.gpLoad) @@ (IF fpuOn THEN FpuSlots(J) ELSE <<>>)
        m1 == (c + J.pc :> Ret(cur)) @@ Store(saveL, c, atCall) @@ mem
        to == ctx[dest]
        sp1 == to + J.size
    IN  /\ ctx' = [ctx EXCEPT ![cur] = c]
        /\ regs' = [r \in DOMAIN regs |->
                      IF r \in J.args THEN vp
                      ELSE IF r \in Range(loadL) THEN ReadIn(m1, to + Offset(loadL, r))
                      ELSE atCall[r]]
        /\ mem' = [a \in {sp1 + o : o \in J.argSlots} |-> vp] @@ m1
        /\ sp' = sp1
        /\ pc' = ReadIn(m1, to + J.pc)
        /\ cur' = dest
        /\ callRegs' = [callRegs EXCEPT ![cur] = atCall]
        /\ callSp' = [callSp EXCEPT ![cur] = sp]
        /\ vpIn' = vp

-----------------------------------------------------------------------------
(* stack_inl.h *)

ValidateWrapperAcceptAll(c) == TRUE

\* ObjectPoolValidator<Wrapper>::validate, for the three pooled classes

ValidateWrapper(c) == c # NULL

\* StackFactory<Main>::get_stack: the worker's MAIN stack has no context yet
Init ==
    /\ plat \in Platforms
    /\ regs = [r \in Regs(plat) |-> <<Main, r>>]
    /\ sp = MainSp
    /\ pc = Running
    /\ cur = Main
    /\ mem = <<>>
    /\ ctx = [f \in Fibers |-> NULL]
    /\ stage = [s \in Stacks |-> "none"]
    /\ callRegs = [f \in Fibers |-> <<>>]
    /\ callSp = [f \in Fibers |-> 0]
    /\ vpIn = NULL

\* Wrapper(entry): allocate_stack_storage succeeds (ok) and make_fcontext
\* formats it, or fails and the context stays NULL
WrapperCtor(s, ok) ==
    IF ok THEN MakeFcontext(Top[s]) ELSE [ctx |-> NULL, writes |-> <<>>]

\* StackFactory<Class>::get_stack: get_object<Wrapper>(entry), which reuses
\* a pooled Wrapper as it is or constructs one and keeps it only if valid
GetObject(s) ==
    \/ /\ stage[s] = "pooled"
       /\ stage' = [stage EXCEPT ![s] = "inuse"]
       /\ UNCHANGED <<ctx, mem>>
    \/ /\ stage[s] = "none"
       /\ \E ok \in BOOLEAN :
             LET w == WrapperCtor(s, ok) IN
             /\ ctx' = [ctx EXCEPT ![s] = w.ctx]
             /\ mem' = w.writes @@ mem
             /\ stage' = [stage EXCEPT ![s] = IF ValidateWrapper(w.ctx)
                                              THEN "inuse" ELSE "none"]

\* get_stack(SMALL/NORMAL/LARGE) dispatches to its class's StackFactory
GetStack(s) ==
    /\ stage[s] # "inuse"
    /\ GetObject(s)
    /\ UNCHANGED <<plat, regs, sp, pc, cur, callRegs, callSp, vpIn>>

\* StackFactory<Class>::return_stack: return_object puts the Wrapper back
\* on the free list
ReturnObject(s) == stage' = [stage EXCEPT ![s] = "pooled"]

\* return_stack dispatches on the stack's type; the scheduler never
\* returns the stack it is running on
ReturnStack(s) ==
    /\ stage[s] = "inuse"
    /\ s # cur
    /\ ReturnObject(s)
    /\ UNCHANGED <<plat, regs, sp, pc, cur, mem, ctx, callRegs, callSp, vpIn>>

\* jump_stack(from, to): fiber_jump_fcontext(&from->context, to->context, 0)
\* The scheduler jumps to a stack it holds or back to MAIN.
JumpStack(dest, vp) ==
    /\ dest # cur
    /\ dest \in {Main} \cup {s \in Stacks : stage[s] = "inuse"}
    /\ ctx[dest] # NULL
    /\ JumpFcontext(dest, vp, 0)
    /\ UNCHANGED <<plat, stage>>

-----------------------------------------------------------------------------
(* What each platform's ABI promises (processor supplements).             *)

Abi(p) ==
    CASE p \in {"linux_x86_64", "apple_x86_64"} ->
            [int |-> {"rbx", "rbp", "r12", "r13", "r14", "r15"},
             fpu |-> {"mxcsr", "fcw"}, ret |-> "rax", arg |-> "rdi",
             align |-> 16, entryMod |-> 8]
      [] p \in {"linux_i386", "apple_i386"} ->
            [int |-> {"ebx", "esi", "edi", "ebp"},
             fpu |-> {"mxcsr", "fcw"}, ret |-> "eax", arg |-> "stack",
             align |-> 16, entryMod |-> 12]
      [] p = "linux_arm32" ->
            [int |-> {"v1", "v2", "v3", "v4", "v5", "v6", "v7", "v8"},
             fpu |-> {"d8", "d9", "d10", "d11", "d12", "d13", "d14", "d15"},
             ret |-> "a1", arg |-> "a1", align |-> 8, entryMod |-> 0]
      [] p \in {"linux_arm64", "apple_arm64"} ->
            [int |-> Range(SubSeq(Arm64Regs, 1, 11)),
             fpu |-> {"d8", "d9", "d10", "d11", "d12", "d13", "d14", "d15"},
             ret |-> "x0", arg |-> "x0", align |-> 16, entryMod |-> 0]
      [] p = "linux_loongarch64" ->
            [int |-> {"s0", "s1", "s2", "s3", "s4", "s5", "s6", "s7", "s8", "fp"},
             fpu |-> {"fs0", "fs1", "fs2", "fs3", "fs4", "fs5", "fs6", "fs7"},
             ret |-> "a0", arg |-> "a0", align |-> 16, entryMod |-> 0]

CalleeSaved == Abi(plat).int \cup Abi(plat).fpu

(* The code of the running fiber (outside this repository): it puts its   *)
(* own values into the registers the ABI says a call preserves.           *)
FiberCode ==
    /\ \E r \in CalleeSaved : regs[r] # <<cur, r>>
    /\ regs' = [r \in DOMAIN regs |-> IF r \in CalleeSaved THEN <<cur, r>> ELSE regs[r]]
    /\ pc' = Running
    /\ UNCHANGED <<plat, sp, cur, mem, ctx, stage, callRegs, callSp, vpIn>>

Next ==
    \/ \E s \in Stacks : GetStack(s) \/ ReturnStack(s)
    \/ \E d \in Fibers, v \in Vps : JumpStack(d, v)
    \/ FiberCode

Spec == Init /\ [][Next]_vars

-----------------------------------------------------------------------------
(* Properties *)

Read(a) == ReadIn(mem, a)

TypeOK ==
    /\ plat \in Platforms
    /\ cur \in Fibers
    /\ pc \in {Fn, Running} \cup {Ret(f) : f \in Fibers}
    /\ DOMAIN regs = Regs(plat)
    /\ sp \in Nat
    /\ ctx \in [Fibers -> Nat \cup {NULL}]
    /\ stage \in [Stacks -> {"none", "inuse", "pooled"}]
    /\ vpIn \in Vps \cup {NULL}

(* make_fcontext/jump_fcontext entry contract: when a fresh stack is      *)
(* entered, its function runs with the stack pointer aligned as the ABI   *)
(* requires at a function entry, with the vp of the jump as its first     *)
(* argument, and with the finish trampoline as its return address.        *)
EntryContract ==
    pc = Fn =>
        /\ sp % Abi(plat).align = Abi(plat).entryMod
        /\ IF Abi(plat).arg = "stack" THEN Read(sp + 4) = vpIn
                                      ELSE regs[Abi(plat).arg] = vpIn
        /\ IF JumpOf(plat).lr = "none" THEN Read(sp) = Finish
                                       ELSE regs[JumpOf(plat).lr] = Finish

(* fiber_jump_fcontext round trip: a jump only ever returns into the      *)
(* fiber that made the call, on its own stack pointer, with vp as the     *)
(* result and every callee-saved integer register as it was at the call,  *)
(* whatever the fibers run in between did to the registers.              *)
IntRegsRestored ==
    pc \in {Ret(f) : f \in Fibers} =>
        /\ pc = Ret(cur)
        /\ sp = callSp[cur]
        /\ regs[Abi(plat).ret] = vpIn
        /\ \A r \in Abi(plat).int : regs[r] = callRegs[cur][r]

(* The same round trip for the callee-saved FPU state (d8-d15 on ARM,     *)
(* the MXCSR/x87 control words on x86), which spec 4.1 says a jump saves. *)
FpuRegsRestored ==
    pc \in {Ret(f) : f \in Fibers} =>
        \A r \in Abi(plat).fpu : regs[r] = callRegs[cur][r]

(* make_fcontext and jump_fcontext only write inside the stack they work  *)
(* on: every word written lies below the top of some fiber's stack and    *)
(* within StackSize of it.                                                *)
FramesInsideStacks ==
    \A a \in DOMAIN mem :
        \E f \in Fibers : Top[f] - StackSize <= a /\ a + JumpOf(plat).word <= Top[f]

(* get_stack never hands out a stack whose context jump_stack cannot      *)
(* jump to: the validator drops Wrappers whose allocation failed.         *)
InUseHasContext ==
    \A s \in Stacks : stage[s] = "inuse" => ctx[s] # NULL

=============================================================================
