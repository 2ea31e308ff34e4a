---------------------------- MODULE MCKernelEntry ----------------------------
(***************************************************************************)
(* The two ways into the kernel that share the interrupt flag, each over   *)
(* its own state: the scheduler's critical section (KernelLocks) and the   *)
(* syscall trampoline (SyscallPath).                                       *)
(***************************************************************************)
EXTENDS KernelLocks

CONSTANTS Part, Thread, WORD, USER_VA_MAX, I32_MAX, KERNEL_RSP

ASSUME WordAssumption == I32_MAX < USER_VA_MAX /\ USER_VA_MAX < WORD
ASSUME StackAssumption == KERNEL_RSP % 2 = 0

VARIABLES part, up, build, running, ctx, scratch, stack, asked

sysvars == <<up, build, running, ctx, scratch, stack, asked>>

\* Two threads: the first tries the boundaries, the second traps in between.
First == CHOOSE t \in Thread : TRUE
Pointer == {0, 1, USER_VA_MAX - 8, USER_VA_MAX, WORD - 8}
Boundary ==
  {<<0, I32_MAX, p, n, 4, 5, 6>> : p \in Pointer, n \in {0, 8, 9, WORD - 1}}
  \cup {<<59, p, q, e, 4, 5, 6>> : p \in {1, USER_VA_MAX}, q \in {0, USER_VA_MAX - 8}, e \in {0, USER_VA_MAX - 7}}
  \cup {<<2, USER_VA_MAX - 1, q, 3, 4, 5, 6>> : q \in {I32_MAX, I32_MAX + 1}}
  \cup {<<nr, I32_MAX + 1, 0, 3, 4, 5, 6>> : nr \in {0, 1, 3, 57, 59, 60, 61, 511, 512, WORD - 1}}
Request == [t \in Thread |-> IF t = First THEN Boundary ELSE {<<1, 1, 64, 8, 14, 15, 16>>, <<60, 0, 2, 3, 4, 5, 6>>}]

Order == <<"rax", "rbx", "rcx", "rdx", "rsi", "rdi", "rbp", "rsp", "r8", "r9", "r10", "r11", "r12", "r13", "r14", "r15", "rip", "rflags">>
Mark == [t \in Thread |-> [r \in ToSet(Order) |-> WORD + (IF t = First THEN 100 ELSE 200) + SelectInSeq(Order, LAMBDA s : s = r)]]

Syscall == INSTANCE SyscallPath WITH current <- running

MCInit ==
  /\ part \in Part
  /\ Init
  /\ Syscall!Init

MCNext ==
  \/ part = "locks" /\ Next /\ UNCHANGED <<part, sysvars>>
  \/ part = "syscall" /\ Syscall!Next
     /\ UNCHANGED <<part, current, ready, fresh, defunct, iflag, frames, sys, heap>>

MCSpec == MCInit /\ [][MCNext]_<<part, vars, sysvars>>

-----------------------------------------------------------------------------
\* A syscall gives the thread back every register but the result, its stack,
\* flags and GS base (SyscallPath).
UserContextPreserved == Syscall!UserContextPreserved

\* syscall_dispatch is called with the arguments of the thread that trapped, in
\* the C ABI's places (SyscallPath).
ArgumentsArrive == Syscall!ArgumentsArrive

\* EFAULT exactly for null and for ranges that leave user memory (SyscallPath).
OnlyUserRangesAccepted == Syscall!OnlyUserRangesAccepted
=============================================================================
