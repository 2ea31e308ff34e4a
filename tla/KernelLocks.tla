----------------------------- MODULE KernelLocks -----------------------------
(***************************************************************************)
(* The scheduler's critical section (IrqGuard, GlobalScheduler::with and   *)
(* the interrupt flag across a context switch) together with the one       *)
(* SpinMutex it takes on its way: the heap's, which schedule needs to drop *)
(* the PCBs of exited tasks.  One CPU; the timer interrupts wherever       *)
(* RFLAGS.IF is set.  Scheduler abstracts each operation to one step; this *)
(* module shows what that rests on.                                        *)
(*                                                                         *)
(* A frame is a call into the scheduler on a task's stack: who called      *)
(* ("call" from the task, "tick" from the interrupt entry), how far it is  *)
(* and the flags its IrqGuard saved.  A syscall runs with IF cleared       *)
(* (FMASK) until it returns.                                               *)
(***************************************************************************)
EXTENDS Naturals, Sequences, FiniteSets, SequencesExt

CONSTANTS Task, IdleTask

ASSUME IdleAssumption == IdleTask \in Task
ASSUME TaskAssumption == IsFiniteSet(Task)

VARIABLES
  current,   \* the task on the CPU
  ready,     \* the queue; the idle task waits outside it
  fresh,     \* tasks that never ran: they start in the trampoline
  defunct,   \* exited tasks not yet dropped
  iflag,     \* RFLAGS.IF
  frames,    \* per task: its stack of scheduler calls, innermost last
  sys,       \* tasks in a syscall
  heap       \* {} or {the task holding ALLOCATOR's lock}

vars == <<current, ready, fresh, defunct, iflag, frames, sys, heap>>

Frame == [by : {"tick", "call", "exit"}, at : {"out", "in", "reaped", "parked", "leaving", "left"},
          saved : BOOLEAN]

TypeOK ==
  /\ current \in Task
  /\ ready \in Seq(Task \ {IdleTask})
  /\ fresh \subseteq Task /\ defunct \subseteq Task /\ sys \subseteq Task
  /\ iflag \in BOOLEAN
  /\ \A t \in Task : frames[t] \in Seq(Frame) /\ Len(frames[t]) <= 2
  /\ heap \subseteq Task /\ Cardinality(heap) <= 1

\* The idle task on the CPU, the others spawned.
Init ==
  /\ current = IdleTask
  /\ ready \in SetToSeqs(Task \ {IdleTask})
  /\ fresh = Task \ {IdleTask}
  /\ defunct = {}
  /\ iflag = TRUE
  /\ frames = [t \in Task |-> <<>>]
  /\ sys = {}
  /\ heap = {}

Top == Last(frames[current])
InScheduler == frames[current] # <<>>
At(by, at) == InScheduler /\ Top.by \in by /\ Top.at = at
Goto(at) == frames' = [frames EXCEPT ![current] = [@ EXCEPT ![Len(@)].at = at]]
Push(by) == frames' = [frames EXCEPT ![current] = Append(@, [by |-> by, at |-> "out", saved |-> FALSE])]

-----------------------------------------------------------------------------
(* What tasks do between scheduler calls. *)

\* alloc or dealloc from task code; a task that finds the lock taken spins.
heap_lock ==
  /\ ~InScheduler /\ heap = {}
  /\ heap' = {current}
  /\ UNCHANGED <<current, ready, fresh, defunct, iflag, frames, sys>>

heap_unlock ==
  /\ ~InScheduler /\ heap = {current}
  /\ heap' = {}
  /\ UNCHANGED <<current, ready, fresh, defunct, iflag, frames, sys>>

syscall ==
  /\ ~InScheduler /\ current \notin sys /\ heap # {current}
  /\ sys' = sys \cup {current} /\ iflag' = FALSE
  /\ UNCHANGED <<current, ready, fresh, defunct, frames, heap>>

sysret ==
  /\ ~InScheduler /\ current \in sys /\ heap # {current}
  /\ sys' = sys \ {current} /\ iflag' = TRUE
  /\ UNCHANGED <<current, ready, fresh, defunct, frames, heap>>

\* yield_now, spawn or unblock ("call"), or exit_current; never with the heap
\* locked: no allocator code calls the scheduler.  block_current is a yield
\* whose task is queued later.
Call ==
  /\ ~InScheduler /\ heap # {current}
  /\ \E by \in {"call", "exit"} : (by = "exit" => current # IdleTask) /\ Push(by)
  /\ UNCHANGED <<current, ready, fresh, defunct, iflag, sys, heap>>

\* The timer interrupt enters through an interrupt gate, which clears IF.
Timer ==
  /\ iflag
  /\ Push("tick") /\ iflag' = FALSE
  /\ UNCHANGED <<current, ready, fresh, defunct, sys, heap>>

-----------------------------------------------------------------------------
(* The scheduler. *)

\* Bug: interrupts stay enabled in the critical section.
with_unmasked ==
  /\ At({"tick", "call", "exit"}, "out")
  /\ frames' = [frames EXCEPT ![current] = [@ EXCEPT ![Len(@)] = [Top EXCEPT !.at = "in", !.saved = iflag]]]
  /\ UNCHANGED <<current, ready, fresh, defunct, iflag, sys, heap>>

\* IrqGuard::new: the flags are saved, then cli.
with ==
  /\ At({"tick", "call", "exit"}, "out")
  /\ frames' = [frames EXCEPT ![current] = [@ EXCEPT ![Len(@)] = [Top EXCEPT !.at = "in", !.saved = iflag]]]
  /\ iflag' = FALSE
  /\ UNCHANGED <<current, ready, fresh, defunct, sys, heap>>

\* A tick that leaves the running task some of its slice; spawn and unblock.
no_schedule ==
  /\ At({"tick", "call"}, "in")
  /\ Goto("leaving")
  /\ UNCHANGED <<current, ready, fresh, defunct, iflag, sys, heap>>

\* schedule drops what exited: dealloc takes the heap's lock, or spins for it
\* with interrupts masked.
reap ==
  /\ At({"tick", "call", "exit"}, "in")
  /\ defunct = {} \/ heap = {}
  /\ defunct' = {}
  /\ Goto("reaped")
  /\ UNCHANGED <<current, ready, fresh, iflag, sys, heap>>

keep ==
  /\ At({"tick", "call"}, "reaped") /\ ready = <<>>
  /\ Goto("leaving")
  /\ UNCHANGED <<current, ready, fresh, defunct, iflag, sys, heap>>

\* context_switch: the outgoing task stays inside its call; a task that ran
\* before continues in its own, a new one in the trampoline, which does sti.
switch ==
  /\ At({"tick", "call", "exit"}, "reaped") /\ (ready # <<>> \/ Top.by = "exit")
  /\ LET next == IF ready = <<>> THEN IdleTask ELSE Head(ready)
         rest == IF ready = <<>> THEN <<>> ELSE Tail(ready)
         leaving == IF next \in fresh THEN frames ELSE [frames EXCEPT ![next] = [@ EXCEPT ![Len(@)].at = "leaving"]]
     IN  /\ current' = next
         /\ ready' = IF current = IdleTask \/ Top.by = "exit" THEN rest ELSE Append(rest, current)
         /\ defunct' = IF Top.by = "exit" THEN defunct \cup {current} ELSE defunct
         /\ frames' = [leaving EXCEPT ![current] = [@ EXCEPT ![Len(@)].at = "parked"]]
         /\ iflag' = (next \in fresh)
         /\ fresh' = fresh \ {next}
  /\ UNCHANGED <<sys, heap>>

\* Bug: the guard enables interrupts instead of restoring the flags.
drop_sti ==
  /\ At({"tick", "call"}, "leaving")
  /\ iflag' = TRUE
  /\ frames' = [frames EXCEPT ![current] = IF Top.by = "tick" THEN [@ EXCEPT ![Len(@)].at = "left"] ELSE Front(@)]
  /\ UNCHANGED <<current, ready, fresh, defunct, sys, heap>>

\* IrqGuard::drop: the flags the guard saved on this stack.
drop ==
  /\ At({"tick", "call"}, "leaving")
  /\ iflag' = Top.saved
  /\ frames' = [frames EXCEPT ![current] = IF Top.by = "tick" THEN [@ EXCEPT ![Len(@)].at = "left"] ELSE Front(@)]
  /\ UNCHANGED <<current, ready, fresh, defunct, sys, heap>>

iret ==
  /\ At({"tick"}, "left")
  /\ iflag' = TRUE
  /\ frames' = [frames EXCEPT ![current] = Front(@)]
  /\ UNCHANGED <<current, ready, fresh, defunct, sys, heap>>

Next ==
  \/ heap_lock \/ heap_unlock \/ syscall \/ sysret \/ Call \/ Timer
  \/ with \/ no_schedule \/ reap \/ keep \/ switch \/ drop \/ iret

Spec == Init /\ [][Next]_vars

-----------------------------------------------------------------------------
\* The scheduler is not entered while another call is changing it: of all the
\* calls on all stacks, only those parked in context_switch coexist with one
\* that runs.  This is what lets Scheduler take an operation as one step.
NotReentered ==
  LET Active(t) == {i \in DOMAIN frames[t] : frames[t][i].at \in {"in", "reaped", "leaving"}}
  IN  \A t, u \in Task : \A i \in Active(t), j \in Active(u) : t = u /\ i = j

\* Whatever switched it out and back in, a task finds the interrupt flag as it
\* left it: set in ordinary code, clear in a syscall.
FlagsTransparent == ~InScheduler => iflag = (current \notin sys)

\* "IRQ handlers must not deadlock on a lock the interrupted code already
\* holds": the tick handler never waits for a lock its own task holds.
TickDoesNotSelfDeadlock ==
  ~(At({"tick"}, "in") /\ defunct # {} /\ heap = {current})
=============================================================================
