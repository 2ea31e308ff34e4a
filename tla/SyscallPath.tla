----------------------------- MODULE SyscallPath -----------------------------
(***************************************************************************)
(* The syscall path of one CPU: the trampoline syscall_entry from SYSCALL  *)
(* to SYSRET, the dispatch table, and the handlers' argument checks.       *)
(*                                                                         *)
(* Registers are words and the kernel stack is memory of words, so that    *)
(* the order of pushes, moves and pops decides what the user gets back.    *)
(* All threads of a CPU enter on one kernel stack (gs:0) with one scratch  *)
(* word (gs:8).  The hardware's SYSCALL and SYSRET, the timer's switch,    *)
(* which saves a whole context, and the subsystems behind the feature      *)
(* flags are external; a subsystem answers without blocking.               *)
(***************************************************************************)
EXTENDS Integers, Sequences, SequencesExt

CONSTANTS
  Thread,        \* user threads
  Request,       \* per thread: the register loads <<rax, rdi, rsi, rdx, r10, r8, r9>> it may trap with
  Mark,          \* per thread and register: what user code keeps in it
  WORD,          \* 2^64, scaled down like the two bounds below it: I32_MAX < USER_VA_MAX < WORD
  USER_VA_MAX,
  I32_MAX,
  KERNEL_RSP     \* words of the kernel stack; its top is 16-byte aligned

VARIABLES
  up,        \* syscall::init ran: the table is wired and the MSRs are set
  build,     \* features of the build
  current,   \* the thread on the CPU
  ctx,       \* per thread: registers, active GS base and place
  scratch,   \* gs:8
  stack,     \* the CPU's kernel stack
  asked      \* per thread: its registers when it executed SYSCALL

vars == <<up, build, current, ctx, scratch, stack, asked>>

Arg == <<"rax", "rdi", "rsi", "rdx", "r10", "r8", "r9">>
Reg == ToSet(Arg) \cup {"rbx", "rbp", "r12", "r13", "r14", "r15", "rsp", "rcx", "r11", "rip", "rflags"}
Place == {"user", "entry", "stacked", "framed", "marshalled", "returned", "restored", "gone"}
JUNK == WORD + WORD \* no register of the user's holds it

\* rflags stands for IF alone: 1 is set.
UserRegs(t) == [Mark[t] EXCEPT !["rflags"] = 1]

TypeOK ==
  /\ up \in BOOLEAN
  /\ build \subseteq {"vfs", "process"}
  /\ current \in Thread
  /\ \A t \in Thread : DOMAIN ctx[t].regs = Reg /\ ctx[t].gs \in {"user", "kernel"} /\ ctx[t].pc \in Place
  /\ DOMAIN stack = 0 .. KERNEL_RSP - 1
  /\ DOMAIN asked = Thread

Init ==
  /\ up = FALSE
  /\ build \in SUBSET {"vfs", "process"}
  /\ current \in Thread
  /\ ctx = [t \in Thread |-> [regs |-> UserRegs(t), gs |-> "user", pc |-> "user"]]
  /\ scratch = JUNK
  /\ stack = [a \in 0 .. KERNEL_RSP - 1 |-> JUNK]
  /\ asked = [t \in Thread |-> UserRegs(t)]

-----------------------------------------------------------------------------
(* Dispatch and handlers. *)

EIO == 5
EBADF == 9
ENOMEM == 12
EFAULT == 14
EINVAL == 22
ENOSYS == 38

SYSCALL_TABLE_SIZE == 512

\* Handlers by number, as dispatch::init wires them; the other slots hold enosys.
Wired == {<<0, "read">>, <<1, "write">>, <<2, "open">>, <<3, "close">>, <<57, "fork">>, <<59, "execve">>, <<60, "exit">>}
SYSCALL_TABLE == [nr \in {w[1] : w \in Wired} |-> (CHOOSE w \in Wired : w[1] = nr)[2]]

\* Bug: the end of the range wraps.
validate_user_ptr_wraps(ptr, len) == ptr # 0 /\ (ptr + len) % WORD <= USER_VA_MAX

validate_user_ptr(ptr, len) ==
  /\ ptr # 0
  /\ ptr + len < WORD  \* checked_add
  /\ ptr + len <= USER_VA_MAX

validate_fd(raw) == raw <= I32_MAX

\* What a handler checks, in order, each check with its errno.
checks(name, a) ==
  CASE name \in {"read", "write"} -> << <<validate_fd(a[1]), EBADF>>, <<validate_user_ptr(a[2], a[3]), EFAULT>> >>
    [] name = "open"   -> << <<validate_user_ptr(a[1], 1), EFAULT>>, <<a[2] <= I32_MAX, EINVAL>> >>
    [] name = "close"  -> << <<validate_fd(a[1]), EBADF>> >>
    [] name = "execve" -> << <<validate_user_ptr(a[1], 1), EFAULT>>,
                             <<a[2] = 0 \/ validate_user_ptr(a[2], 8), EFAULT>>,
                             <<a[3] = 0 \/ validate_user_ptr(a[3], 8), EFAULT>> >>
    [] OTHER -> <<>>

feature(name) == IF name \in {"fork", "execve", "exit"} THEN "process" ELSE "vfs"

\* The answers of vfs_* and proc_*; exit, and execve that succeeds, give none.
subsystem(name) ==
  CASE name = "exit"   -> {}
    [] name = "execve" -> {-ENOMEM}
    [] name = "fork"   -> {7, -ENOMEM}
    [] name = "close"  -> {0, -EIO}
    [] OTHER           -> {1, -EIO}
NeverReturns == {"exit", "execve"}

first_failure(cs) == SelectInSeq(cs, LAMBDA c : ~c[1])

\* The handler's Result flattened to rax: the possible values.
result(name, a) ==
  LET cs == checks(name, a)
      i == first_failure(cs)
  IN  IF i # 0 THEN {-cs[i][2]}
      ELSE IF name # "enosys" /\ feature(name) \in build THEN subsystem(name) ELSE {-ENOSYS}

handler(nr) == IF nr < SYSCALL_TABLE_SIZE /\ nr \in DOMAIN SYSCALL_TABLE THEN SYSCALL_TABLE[nr] ELSE "enosys"

-----------------------------------------------------------------------------
(* The trampoline, on the registers and the stack of the running thread. *)

regs == ctx[current].regs
At(pc) == ctx[current].pc = pc

\* Pushing the words ws, first one first: the stack grows down.
Pushed(mem, sp, ws) == [a \in DOMAIN mem |-> IF sp - Len(ws) <= a /\ a < sp THEN ws[sp - a] ELSE mem[a]]

\* Popping into the registers rs, in order.
Popped(rg, mem, sp, rs) ==
  [r \in Reg |-> IF r \in ToSet(rs) THEN mem[sp + SelectInSeq(rs, LAMBDA q : q = r) - 1] ELSE rg[r]]

\* Moves to <- from, one after the other.
Moved(rg, ms) == FoldLeft(LAMBDA f, m : [f EXCEPT ![m[1]] = f[m[2]]], rg, ms)

Become(c) == ctx' = [ctx EXCEPT ![current] = c]

\* Bug: IF is not among the bits FMASK clears.
fmask_if(flags) == flags

\* FMASK_VALUE: the trampoline starts with IF clear.
fmask(flags) == 0

\* dispatch::init, then the MSRs; before the first user thread runs.
init ==
  /\ ~up /\ up' = TRUE
  /\ UNCHANGED <<build, current, ctx, scratch, stack, asked>>

\* User code loads its arguments and executes SYSCALL: RIP to rcx, RFLAGS to r11.
SYSCALL ==
  /\ up /\ At("user")
  /\ \E q \in Request[current] :
       LET own == [r \in Reg |-> IF r \in ToSet(Arg) THEN q[SelectInSeq(Arg, LAMBDA s : s = r)] ELSE UserRegs(current)[r]]
       IN  /\ asked' = [asked EXCEPT ![current] = own]
           /\ Become([regs |-> [own EXCEPT !["rcx"] = own["rip"], !["r11"] = own["rflags"], !["rip"] = JUNK,
                                           !["rflags"] = fmask(own["rflags"])],
                      gs |-> "user", pc |-> "entry"])
  /\ UNCHANGED <<up, build, current, scratch, stack>>

\* swapgs, and onto the kernel stack.
switch_stack ==
  /\ At("entry")
  /\ scratch' = regs["rsp"]
  /\ Become([regs |-> [regs EXCEPT !["rsp"] = KERNEL_RSP], gs |-> "kernel", pc |-> "stacked"])
  /\ UNCHANGED <<up, build, current, stack, asked>>

Frame == <<"r11", "rcx", "rax", "rdi", "rsi", "rdx", "r10", "r8", "r9", "rbx", "rbp", "r12", "r13", "r14", "r15">>

push_frame ==
  /\ At("stacked")
  /\ stack' = Pushed(stack, regs["rsp"], <<scratch>> \o [i \in DOMAIN Frame |-> regs[Frame[i]]])
  /\ Become([regs |-> [regs EXCEPT !["rsp"] = @ - Len(Frame) - 1], gs |-> "kernel", pc |-> "framed"])
  /\ UNCHANGED <<up, build, current, scratch, asked>>

\* Bug: the first argument's register is overwritten before it is read.
Shuffle_early ==
  << <<"r9", "r8">>, <<"r8", "r10">>, <<"rcx", "rdx">>, <<"rdx", "rsi">>, <<"rdi", "rax">>, <<"rsi", "rdi">> >>

Shuffle ==
  << <<"r9", "r8">>, <<"r8", "r10">>, <<"rcx", "rdx">>, <<"rdx", "rsi">>, <<"rsi", "rdi">>, <<"rdi", "rax">> >>

\* The alignment pad, the seventh argument on the stack, the others in registers.
marshal ==
  /\ At("framed")
  /\ stack' = [stack EXCEPT ![regs["rsp"] - 2] = regs["r9"]]
  /\ Become([regs |-> [Moved(regs, Shuffle) EXCEPT !["rsp"] = @ - 2], gs |-> "kernel", pc |-> "marshalled"])
  /\ UNCHANGED <<up, build, current, scratch, asked>>

CallArgs == <<regs["rdi"], regs["rsi"], regs["rdx"], regs["rcx"], regs["r8"], regs["r9"], stack[regs["rsp"]]>>

\* The compiled call may change what the C ABI lets it: these registers, its
\* argument on the stack and everything below.
CallerSaved == {"rcx", "rdx", "rsi", "rdi", "r8", "r9", "r10", "r11"}

syscall_dispatch ==
  /\ At("marshalled")
  /\ \E v \in result(handler(CallArgs[1]), Tail(CallArgs)) :
       Become([regs |-> [r \in Reg |-> IF r = "rax" THEN v ELSE IF r \in CallerSaved THEN JUNK ELSE regs[r]],
               gs |-> "kernel", pc |-> "returned"])
  /\ stack' = [a \in DOMAIN stack |-> IF a <= regs["rsp"] THEN JUNK ELSE stack[a]]
  /\ UNCHANGED <<up, build, current, scratch, asked>>

\* proc_exit and a successful proc_execve leave for another thread for good.
syscall_diverges ==
  /\ At("marshalled")
  /\ handler(CallArgs[1]) \in NeverReturns /\ "process" \in build
  /\ first_failure(checks(handler(CallArgs[1]), Tail(CallArgs))) = 0
  /\ Become([ctx[current] EXCEPT !.pc = "gone"])
  /\ current' \in {t \in Thread : ctx'[t].pc # "gone"}
  /\ stack' = [a \in DOMAIN stack |-> IF a <= regs["rsp"] THEN JUNK ELSE stack[a]]
  /\ UNCHANGED <<up, build, scratch, asked>>

Restore == <<"r15", "r14", "r13", "r12", "rbp", "rbx", "r9", "r8", "r10", "rdx", "rsi", "rdi">>

pop_frame ==
  /\ At("returned")
  /\ LET sp == regs["rsp"] + 2                    \* a5 and the pad
         up3 == sp + Len(Restore) + 1             \* and the slot of the number
         rg == Popped(regs, stack, sp, Restore)
     IN  Become([regs |-> [rg EXCEPT !["rcx"] = stack[up3], !["r11"] = stack[up3 + 1], !["rsp"] = stack[up3 + 2]],
                 gs |-> "kernel", pc |-> "restored"])
  /\ UNCHANGED <<up, build, current, scratch, stack, asked>>

\* swapgs; sysretq: RIP from rcx, RFLAGS from r11.
SYSRET ==
  /\ At("restored")
  /\ Become([regs |-> [regs EXCEPT !["rip"] = regs["rcx"], !["rflags"] = regs["r11"]], gs |-> "user", pc |-> "user"])
  /\ UNCHANGED <<up, build, current, scratch, stack, asked>>

\* The timer interrupts where IF is set and may give the CPU to another thread.
Timer ==
  /\ up /\ regs["rflags"] = 1
  /\ current' \in {t \in Thread \ {current} : ctx[t].pc # "gone"}
  /\ UNCHANGED <<up, build, ctx, scratch, stack, asked>>

Next ==
  \/ init \/ SYSCALL \/ switch_stack \/ push_frame \/ marshal
  \/ syscall_dispatch \/ syscall_diverges \/ pop_frame \/ SYSRET \/ Timer

Spec == Init /\ [][Next]_vars

-----------------------------------------------------------------------------
\* The user's state survives a syscall: back in user mode a thread has its
\* stack, flags, return address, GS base and every register except rax (the
\* result) and the two SYSCALL itself takes, although all threads share the
\* kernel stack and the scratch word.
UserContextPreserved ==
  \A t \in Thread :
    ctx[t].pc = "user" =>
      /\ ctx[t].gs = "user"
      /\ \A r \in Reg \ {"rax", "rcx", "r11"} : ctx[t].regs[r] = asked[t][r]

\* syscall_dispatch receives number and arguments of the thread that trapped,
\* each in the place the C ABI has for it, with the stack aligned.
ArgumentsArrive ==
  At("marshalled") =>
    /\ CallArgs = [i \in DOMAIN Arg |-> asked[current][Arg[i]]]
    /\ regs["rsp"] % 2 = 0

\* The ranges a request names, as <<first, length>>.
Ranges(name, a) ==
  CASE name \in {"read", "write"} -> {<<a[2], a[3]>>}
    [] name = "open"   -> {<<a[1], 1>>}
    [] name = "execve" -> {<<a[1], 1>>} \cup {<<p, 8>> : p \in {a[2], a[3]} \ {0}}
    [] OTHER -> {}
UserRange(r) == r[1] # 0 /\ \A b \in 0 .. r[2] - 1 : r[1] + b < USER_VA_MAX

\* A request is refused with EFAULT exactly when it names the null pointer or
\* a byte outside user memory, whatever the sums do at the end of the address
\* space (an empty range is refused only from above the user half on), unless
\* another argument is refused first; a number without handler is ENOSYS.
OnlyUserRangesAccepted ==
  At("returned") =>
    LET a == [i \in 1 .. 6 |-> asked[current][Arg[i + 1]]]
        name == handler(asked[current]["rax"])
        legal == \A r \in Ranges(name, a) : UserRange(r) /\ r[1] <= USER_VA_MAX
        refusedFirst == name \in {"read", "write"} /\ a[1] > I32_MAX
    IN  /\ (regs["rax"] = -EFAULT) = (~legal /\ ~refusedFirst)
        /\ name = "enosys" => regs["rax"] = -ENOSYS
=============================================================================
