------------------------------ MODULE Scheduler ------------------------------
(***************************************************************************)
(* The single-CPU round-robin scheduler of src/scheduler: the state of     *)
(* `struct Scheduler`, the PCB fields its decisions depend on, and one     *)
(* action per public operation.  Every operation but the PID allocation    *)
(* runs inside `GlobalScheduler::with`, that is with interrupts masked on  *)
(* the only CPU, so it is one atomic step here (KernelLocks justifies      *)
(* that).  `schedule` is part of the action that calls it.                 *)
(*                                                                         *)
(* A task is its PID.  `Vec<Box<Process>>` lists whose order nothing reads *)
(* (blocked, defunct) are sets.  Kernel stacks and saved registers are     *)
(* abstracted to whether the saved stack pointer can be resumed from.      *)
(***************************************************************************)
EXTENDS Naturals, Sequences

CONSTANTS
  MaxPid,    \* bound: the largest PID alloc_pid hands out in a run
  Quantum,   \* DEFAULT_TIME_SLICE
  NoPid      \* Option::None

PID_BOOTSTRAP == 0
PID_IDLE == 1

ASSUME MaxPidAssumption == MaxPid \in Nat /\ MaxPid > PID_IDLE
ASSUME QuantumAssumption == Quantum \in Nat \ {0}
ASSUME NoPidAssumption == NoPid \notin 0..MaxPid

Pid == 0..MaxPid
ProcessState == {"Ready", "Running", "Blocked", "Zombie"}

VARIABLES
  initialized,  \* Scheduler.initialized
  ready,        \* Scheduler.ready, front first
  current,      \* Scheduler.current
  idle,         \* Scheduler.idle: the slot holds the idle task or nothing
  blocked,      \* Scheduler.blocked
  defunct,      \* Scheduler.defunct
  state,        \* Process.state of every PCB
  slice,        \* Process.time_slice_remaining
  frame,        \* what Process.kernel_rsp is worth
  nextPid,      \* NEXT_PID
  making,       \* the PCB a task is holding between Process::new and spawn
  reaped,       \* history: PCBs dropped, stacks returned to the heap
  panicked      \* a panic or unreachable! was executed

queues == <<ready, current, idle, blocked, defunct, reaped>>
pcbs == <<state, slice, frame>>
vars == <<initialized, queues, pcbs, nextPid, making, panicked>>

Queued == {ready[i] : i \in 1..Len(ready)}

(***************************************************************************)
(* Process.default_time_slice: 0 in the bootstrap PCB, the default for     *)
(* every task the kernel makes.                                            *)
(***************************************************************************)
default_time_slice(p) == IF p = PID_BOOTSTRAP THEN 0 ELSE Quantum

(***************************************************************************)
(* kernel_rsp is "unset" in the bootstrap PCB, "launch" once               *)
(* init_kernel_stack has built the first frame, "saved" when               *)
(* context_switch stored the suspended stack pointer, and "stale" while    *)
(* the task runs and its stack moves on.                                   *)
(***************************************************************************)
Frame == {"unset", "launch", "saved", "stale"}
Resumable == {"launch", "saved"}

Init ==
  /\ initialized = FALSE
  /\ ready = <<>> /\ current = NoPid /\ idle = NoPid
  /\ blocked = {} /\ defunct = {} /\ reaped = {}
  /\ state = [p \in Pid |-> IF p = PID_BOOTSTRAP THEN "Running" ELSE "Ready"]
  /\ slice = [p \in Pid |-> default_time_slice(p)]
  /\ frame = [p \in Pid |-> IF p = PID_BOOTSTRAP THEN "unset" ELSE "launch"]
  /\ nextPid = 2
  /\ making = [p \in Pid |-> NoPid]
  /\ panicked = FALSE

(***************************************************************************)
(* Scheduler::init, called once by kernel_main before any other operation: *)
(* the second call returns AlreadyInitialized and changes nothing.         *)
(***************************************************************************)
init ==
  /\ ~initialized
  /\ initialized' = TRUE
  /\ idle' = PID_IDLE
  /\ current' = PID_BOOTSTRAP
  /\ UNCHANGED <<ready, blocked, defunct, reaped, pcbs, nextPid, making, panicked>>

-----------------------------------------------------------------------------
(***************************************************************************)
(* Where schedule puts the outgoing task, by the state `out` it is in: the *)
(* ready queue, of which `rest` is left, the idle slot, which holds        *)
(* `slot`, or the list of blocked tasks.                                   *)
(***************************************************************************)
(* Bug: round robin turned into last-come first-served. *)
requeue_front(rest, out) ==
  IF out = "Ready" \/ (out = "Running" /\ current # PID_IDLE)
    THEN <<current>> \o rest ELSE rest

requeue(rest, out) ==
  IF out = "Ready" \/ (out = "Running" /\ current # PID_IDLE)
    THEN Append(rest, current) ELSE rest

(* Bug: the preempted idle task is not given its slot back. *)
return_idle_missing(slot, out) == slot

return_idle(slot, out) ==
  IF out = "Running" /\ current = PID_IDLE THEN PID_IDLE ELSE slot

(* Bug: the PCB of a blocking task is dropped. *)
park_dropped(out) == blocked

park(out) == IF out = "Blocked" THEN blocked \cup {current} ELSE blocked

(***************************************************************************)
(* context_switch: the outgoing stack pointer is saved through             *)
(* prev_rsp_ptr, the incoming one is consumed.                             *)
(***************************************************************************)
(* Bug: the outgoing pointer is written to a throwaway slot. *)
context_switch_unsaved(next) == [frame EXCEPT ![next] = "stale"]

context_switch(next) == [frame EXCEPT ![current] = "saved", ![next] = "stale"]

(***************************************************************************)
(* The tail of Scheduler::schedule, once `next` has been taken from the    *)
(* queue or from the idle slot: put the outgoing task where its state says,*)
(* install `next` with a full slice and switch stacks.                     *)
(***************************************************************************)
SwitchTo(next, rest, slot, st, sl) ==
  LET out == st[current] IN
  /\ ready' = requeue(rest, out)
  /\ idle' = return_idle(slot, out)
  /\ blocked' = park(out)
  /\ defunct' = IF out = "Zombie" THEN {current} ELSE {}
  /\ current' = next
  /\ state' = [st EXCEPT ![current] = IF out = "Running" THEN "Ready" ELSE out,
                         ![next] = "Running"]
  /\ slice' = [sl EXCEPT ![current] = IF out = "Running"
                                        THEN default_time_slice(current) ELSE @,
                         ![next] = default_time_slice(next)]
  /\ frame' = context_switch(next)

(* Bug: exit_current frees the stack it is still running on. *)
reap_self(st) ==
  reaped' = reaped \cup defunct \cup (IF st[current] = "Zombie" THEN {current} ELSE {})

(* defunct.clear() at the top of schedule drops the PCBs and their stacks. *)
reap(st) == reaped' = reaped \cup defunct

(***************************************************************************)
(* Scheduler::schedule, entered with the PCB fields st and sl its caller   *)
(* has just written: reap, then run the front of the queue; with an empty  *)
(* queue keep a task that is still Running, otherwise run the idle task,   *)
(* or return without switching when the idle slot is empty.                *)
(***************************************************************************)
schedule(st, sl) ==
  /\ reap(st)
  /\ IF ready # <<>>
       THEN SwitchTo(Head(ready), Tail(ready), idle, st, sl)
     ELSE IF st[current] # "Running" /\ idle # NoPid
       THEN SwitchTo(idle, <<>>, NoPid, st, sl)
     ELSE /\ defunct' = {} /\ state' = st /\ slice' = sl
          /\ UNCHANGED <<ready, current, idle, blocked, frame>>

Live == initialized /\ ~panicked

(***************************************************************************)
(* The running task may call into the scheduler unless it is inside        *)
(* scheduler::spawn, holding a PCB it has not queued yet.                  *)
(***************************************************************************)
TaskMayCall == Live /\ making[current] = NoPid

(***************************************************************************)
(* scheduler::spawn, first half: Process::new takes a PID from NEXT_PID    *)
(* and builds the launch frame outside the critical section, so a tick     *)
(* may preempt the spawning task before the PCB reaches the queue.         *)
(***************************************************************************)
alloc_pid ==
  /\ TaskMayCall
  /\ current # PID_IDLE
  /\ nextPid <= MaxPid
  /\ nextPid' = nextPid + 1
  /\ making' = [making EXCEPT ![current] = nextPid]
  /\ UNCHANGED <<initialized, queues, pcbs, panicked>>

(* scheduler::spawn, second half: Scheduler::spawn. *)
spawn ==
  /\ Live
  /\ making[current] # NoPid
  /\ LET p == making[current] IN
     /\ ready' = Append(ready, p)
     /\ state' = [state EXCEPT ![p] = "Ready"]
     /\ slice' = [slice EXCEPT ![p] = default_time_slice(p)]
  /\ making' = [making EXCEPT ![current] = NoPid]
  /\ UNCHANGED <<initialized, current, idle, blocked, defunct, reaped, frame,
                 nextPid, panicked>>

(* The running task pays one tick; the slice never goes below 0. *)
charge(n) == IF n > 0 THEN n - 1 ELSE 0

(* Bug: the slice is tested before it is charged. *)
exhausted_before(n) == n = 0

exhausted(n) == charge(n) = 0

(***************************************************************************)
(* Scheduler::tick, from the timer interrupt: it may interrupt any task,   *)
(* also one inside spawn.                                                  *)
(***************************************************************************)
tick ==
  /\ Live
  /\ IF state[current] = "Running"
       THEN LET sl == [slice EXCEPT ![current] = charge(@)] IN
            IF exhausted(slice[current])
                        THEN schedule(state, sl)
                        ELSE slice' = sl /\ UNCHANGED <<queues, state, frame>>
       ELSE UNCHANGED <<queues, pcbs>>
  /\ UNCHANGED <<initialized, nextPid, making, panicked>>

yield_now ==
  /\ TaskMayCall
  /\ schedule(state, slice)
  /\ UNCHANGED <<initialized, nextPid, making, panicked>>

(***************************************************************************)
(* exit_current and block_current are never called by the idle task, whose *)
(* entry is `loop { hlt }`.  Were schedule to return into exit_current,    *)
(* the unreachable! after it would panic.                                  *)
(***************************************************************************)
exit_current ==
  /\ TaskMayCall
  /\ current # PID_IDLE
  /\ schedule([state EXCEPT ![current] = "Zombie"], [slice EXCEPT ![current] = 0])
  /\ panicked' = (current' = current)
  /\ UNCHANGED <<initialized, nextPid, making>>

block_current ==
  /\ TaskMayCall
  /\ current # PID_IDLE
  /\ schedule([state EXCEPT ![current] = "Blocked"], slice)
  /\ UNCHANGED <<initialized, nextPid, making, panicked>>

(* Bug: the search for the PID also covers the tasks that exited. *)
unblock_any_parked(p) ==
  /\ Live
  /\ p \in blocked \cup defunct
  /\ blocked' = blocked \ {p}
  /\ defunct' = defunct \ {p}
  /\ ready' = Append(ready, p)
  /\ state' = [state EXCEPT ![p] = "Ready"]
  /\ slice' = [slice EXCEPT ![p] = default_time_slice(p)]
  /\ UNCHANGED <<initialized, current, idle, reaped, frame, nextPid, making,
                 panicked>>

(***************************************************************************)
(* Scheduler::unblock, from another task or an interrupt handler.  For a   *)
(* PID that is not blocked it returns NoSuchBlockedPid, changing nothing.  *)
(***************************************************************************)
unblock(p) ==
  /\ Live
  /\ p \in blocked
  /\ blocked' = blocked \ {p}
  /\ ready' = Append(ready, p)
  /\ state' = [state EXCEPT ![p] = "Ready"]
  /\ slice' = [slice EXCEPT ![p] = default_time_slice(p)]
  /\ UNCHANGED <<initialized, current, idle, defunct, reaped, frame, nextPid,
                 making, panicked>>

Next ==
  \/ init
  \/ alloc_pid \/ spawn
  \/ tick \/ yield_now
  \/ exit_current \/ block_current
  \/ \E p \in Pid : unblock(p)

Spec == Init /\ [][Next]_vars

(* The timer keeps firing: the code's preemption rests on nothing else. *)
FairSpec == Spec /\ WF_vars(tick)
-----------------------------------------------------------------------------
(* PCBs that a task inside scheduler::spawn holds. *)
Held == {making[p] : p \in Pid} \ {NoPid}
IdleSlot == {idle} \ {NoPid}

TypeOK ==
  /\ initialized \in BOOLEAN /\ panicked \in BOOLEAN
  /\ ready \in Seq(Pid)
  /\ current \in Pid \cup {NoPid} /\ idle \in {PID_IDLE, NoPid}
  /\ blocked \in SUBSET Pid /\ defunct \in SUBSET Pid /\ reaped \in SUBSET Pid
  /\ state \in [Pid -> ProcessState] /\ slice \in [Pid -> 0..Quantum]
  /\ frame \in [Pid -> Frame]
  /\ nextPid \in 2..(MaxPid + 1)
  /\ making \in [Pid -> Pid \cup {NoPid}]

(***************************************************************************)
(* schedule moves PCBs by value between five containers and a task inside  *)
(* spawn holds one more.  No PCB is ever dropped but by the reaping at the *)
(* top of schedule, and none is in two places: the places of the PIDs      *)
(* handed out are pairwise disjoint and cover them, and neither the queue  *)
(* nor the spawning tasks hold one PCB twice.                              *)
(***************************************************************************)
Conservation ==
  LET place == <<Queued, {current}, IdleSlot, blocked, defunct, reaped, Held>> IN
  initialized =>
    /\ UNION {place[i] : i \in 1..7} = 0..(nextPid - 1)
    /\ \A i, j \in 1..7 : i # j => place[i] \cap place[j] = {}
    /\ \A i, j \in 1..Len(ready) : ready[i] = ready[j] => i = j
    /\ \A p, q \in Pid : making[p] = making[q] /\ making[p] # NoPid => p = q

(***************************************************************************)
(* The state field of a PCB always says where schedule has put it: the     *)
(* two are written at different places of schedule and its callers, and    *)
(* schedule, tick and unblock each trust one of them.                      *)
(***************************************************************************)
StateAgrees ==
  initialized =>
    /\ state[current] = "Running"
    /\ \A p \in Queued \cup IdleSlot : state[p] = "Ready"
    /\ \A p \in blocked : state[p] = "Blocked"
    /\ \A p \in defunct : state[p] = "Zombie"

(***************************************************************************)
(* schedule always finds a task to switch to, and can resume it.  The idle *)
(* task is in its slot exactly when it is not on the CPU, so a task that   *)
(* exits or blocks on an empty queue never returns into a zombie, and the  *)
(* unreachable! of exit_current is that.  Every task a later schedule may  *)
(* pick has a stack pointer that context_switch can resume from: the       *)
(* launch frame, or the pointer saved when it was last switched off, never *)
(* the one it was last resumed with.                                       *)
(***************************************************************************)
NextTaskResumable ==
  /\ ~panicked
  /\ initialized =>
       /\ idle = NoPid <=> current = PID_IDLE
       /\ \A p \in Queued \cup IdleSlot \cup blocked \cup Held : frame[p] \in Resumable

(***************************************************************************)
(* A stack is given back to the heap only by a schedule entered on another *)
(* task's stack, and never the stack switched to: the deferred reaping of  *)
(* exit_current.                                                           *)
(***************************************************************************)
ReapedFromOtherStack ==
  [][\A p \in reaped' \ reaped : p # current /\ p # current' /\ state[p] = "Zombie"]_vars

(***************************************************************************)
(* The scheduler implements ProcessLifecycle.                              *)
(***************************************************************************)
lifeOf(p) ==
  IF ~initialized \/ p >= nextPid THEN "unborn"
  ELSE IF p \in reaped THEN "gone"
  ELSE IF p \in Held THEN "made"
  ELSE state[p]

Lifecycle == INSTANCE ProcessLifecycle WITH
  Proc <- Pid, Bootstrap <- PID_BOOTSTRAP, Idle <- PID_IDLE,
  life <- [p \in Pid |-> lifeOf(p)]

(* Every step of the scheduler is a step of a process's documented life    *)
(* or changes nothing in it: one task Running at any time, zombies are     *)
(* reaped by the next scheduling event and never run again.                *)
ImplementsLifecycle == Lifecycle!Spec

(***************************************************************************)
(* Round-robin progress: a task in the ready queue gets the CPU, whatever  *)
(* the others do, as long as the timer ticks.                              *)
(***************************************************************************)
ReadyRuns == \A p \in Pid : (p \in Queued) ~> (current = p)
=============================================================================
