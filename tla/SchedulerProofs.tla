-------------------------- MODULE SchedulerProofs --------------------------
(***************************************************************************)
(* Proofs about Scheduler for every number of tasks and every quantum.     *)
(***************************************************************************)
EXTENDS Scheduler, TLAPS

RangeOf(s) == {s[i] : i \in 1..Len(s)}
Distinct(s) == \A i, j \in 1..Len(s) : s[i] = s[j] => i = j

(* What a push at the back of the queue does to its contents. *)
LEMMA PushBack ==
  ASSUME NEW S, NEW s \in Seq(S), NEW x \in S
  PROVE  /\ Append(s, x) \in Seq(S)
         /\ RangeOf(Append(s, x)) = RangeOf(s) \cup {x}
         /\ Distinct(s) /\ x \notin RangeOf(s) => Distinct(Append(s, x))
<1> DEFINE t == Append(s, x)
<1>1. /\ t \in Seq(S) /\ Len(t) = Len(s) + 1 /\ Len(s) \in Nat
      /\ \A i \in 1..Len(s) : t[i] = s[i]
      /\ t[Len(s) + 1] = x
  OBVIOUS
<1>2. RangeOf(t) = RangeOf(s) \cup {x}
  <2>1. ASSUME NEW y \in RangeOf(t) PROVE y \in RangeOf(s) \cup {x}
    <3>1. PICK i \in 1..Len(t) : y = t[i]
      BY DEF RangeOf
    <3>2. i \in 1..Len(s) \/ i = Len(s) + 1
      BY <1>1
    <3> QED BY <1>1, <3>1, <3>2 DEF RangeOf
  <2>2. ASSUME NEW y \in RangeOf(s) \cup {x} PROVE y \in RangeOf(t)
    <3>1. CASE y = x
      <4>1. Len(s) + 1 \in 1..Len(t)
        BY <1>1
      <4> QED BY <1>1, <3>1, <4>1 DEF RangeOf
    <3>2. CASE y \in RangeOf(s)
      <4>1. PICK i \in 1..Len(s) : y = s[i]
        BY <3>2 DEF RangeOf
      <4>2. i \in 1..Len(t) /\ y = t[i]
        BY <1>1, <4>1
      <4> QED BY <4>2 DEF RangeOf
    <3> QED BY <3>1, <3>2
  <2> QED BY <2>1, <2>2
<1>3. ASSUME Distinct(s), x \notin RangeOf(s) PROVE Distinct(t)
  <2> SUFFICES ASSUME NEW i \in 1..Len(t), NEW j \in 1..Len(t), t[i] = t[j]
               PROVE  i = j
    BY DEF Distinct
  <2>1. \A k \in 1..Len(s) : s[k] # x
    BY <1>3 DEF RangeOf
  <2> QED BY <1>1, <1>3, <2>1 DEF Distinct
<1> QED BY <1>1, <1>2, <1>3

(* What a pop at the front does. *)
LEMMA PopFront ==
  ASSUME NEW S, NEW s \in Seq(S), s # <<>>, Distinct(s)
  PROVE  /\ Head(s) \in S /\ Head(s) \in RangeOf(s)
         /\ Tail(s) \in Seq(S)
         /\ RangeOf(Tail(s)) = RangeOf(s) \ {Head(s)}
         /\ Distinct(Tail(s))
<1> DEFINE t == Tail(s)
<1>1. /\ Len(s) \in Nat \ {0} /\ t \in Seq(S) /\ Len(t) = Len(s) - 1
      /\ \A i \in 1..Len(t) : t[i] = s[i + 1]
      /\ Head(s) = s[1] /\ s[1] \in S
  OBVIOUS
<1>2. Head(s) \in RangeOf(s)
  BY <1>1 DEF RangeOf
<1>3. ASSUME NEW y \in RangeOf(t) PROVE y \in RangeOf(s) /\ y # Head(s)
  <2>1. PICK i \in 1..Len(t) : y = t[i]
    BY DEF RangeOf
  <2>2. i + 1 \in 1..Len(s) /\ 1 \in 1..Len(s) /\ y = s[i + 1] /\ i + 1 # 1
    BY <1>1, <2>1
  <2>3. y # s[1]
    BY <2>2 DEF Distinct
  <2> QED BY <1>1, <2>2, <2>3 DEF RangeOf
<1>4. ASSUME NEW y \in RangeOf(s), y # Head(s) PROVE y \in RangeOf(t)
  <2>1. PICK i \in 1..Len(s) : y = s[i]
    BY DEF RangeOf
  <2>2. i - 1 \in 1..Len(t) /\ y = t[i - 1]
    BY <1>1, <1>4, <2>1
  <2> QED BY <2>2 DEF RangeOf
<1>5. Distinct(t)
  <2> SUFFICES ASSUME NEW i \in 1..Len(t), NEW j \in 1..Len(t), t[i] = t[j]
               PROVE  i = j
    BY DEF Distinct
  <2>1. i + 1 \in 1..Len(s) /\ j + 1 \in 1..Len(s) /\ s[i + 1] = s[j + 1]
    BY <1>1
  <2>2. i + 1 = j + 1
    BY <2>1 DEF Distinct
  <2> QED BY <2>2
<1> QED BY <1>1, <1>2, <1>3, <1>4, <1>5
-----------------------------------------------------------------------------
(***************************************************************************)
(* The inductive invariant.  Before init everything is as Init left it.    *)
(* After it the places of Conservation are disjoint (Apart) and cover the  *)
(* PIDs handed out (Covered), states and frames agree with the places, and *)
(* the idle task is in its slot or on the CPU.                             *)
(***************************************************************************)
NotStarted ==
  /\ ready = <<>> /\ idle = NoPid /\ blocked = {} /\ defunct = {} /\ reaped = {}
  /\ nextPid = 2 /\ making = [p \in Pid |-> NoPid]
  /\ state[PID_BOOTSTRAP] = "Running" /\ state[PID_IDLE] = "Ready"
  /\ \A p \in Pid : p # PID_BOOTSTRAP => frame[p] = "launch"

Apart ==
  /\ Distinct(ready)
  /\ \A p, q \in Pid : making[p] = making[q] /\ making[p] # NoPid => p = q
  /\ Queued \cap (IdleSlot \cup blocked \cup defunct \cup reaped \cup Held) = {}
  /\ IdleSlot \cap (blocked \cup defunct \cup reaped \cup Held) = {}
  /\ blocked \cap (defunct \cup reaped \cup Held) = {}
  /\ defunct \cap (reaped \cup Held) = {}
  /\ reaped \cap Held = {}
  /\ current \notin Queued \cup IdleSlot \cup blocked \cup defunct \cup reaped \cup Held

Covered ==
  Queued \cup {current} \cup IdleSlot \cup blocked \cup defunct \cup reaped \cup Held
    = 0..(nextPid - 1)

Started ==
  /\ current \in Pid
  /\ Apart /\ Covered /\ StateAgrees
  /\ idle = NoPid <=> current = PID_IDLE
  /\ \A p \in Pid : p # current => frame[p] \in Resumable

IInv ==
  /\ TypeOK
  /\ ~initialized => NotStarted
  /\ initialized => Started
  /\ ~panicked

USE MaxPidAssumption, QuantumAssumption, NoPidAssumption

(* Before init there is no PCB.                                             *)
LEMMA InitIInv == Init => IInv
<1> SUFFICES ASSUME Init PROVE IInv
  OBVIOUS
<1>1. TypeOK
  BY DEF Init, TypeOK, Pid, PID_BOOTSTRAP, PID_IDLE, ProcessState, Frame, default_time_slice
<1>2. ~initialized /\ ~panicked /\ NotStarted
  BY DEF Init, NotStarted, Pid, PID_BOOTSTRAP, PID_IDLE
<1> QED BY <1>1, <1>2 DEF IInv

(***************************************************************************)
(* The switch at the end of schedule, from the running task in state out   *)
(* to `next`, which was taken from the queue or from the idle slot.        *)
(***************************************************************************)
LEMMA SwitchStep ==
  ASSUME NEW out \in {"Running", "Blocked", "Zombie"},
         NEW sl \in [Pid -> 0..Quantum],
         NEW next \in Pid, NEW rest \in Seq(Pid), NEW slot \in {PID_IDLE, NoPid},
         IInv, initialized,
         out # "Running" => current # PID_IDLE,
         Distinct(rest),
         next \in Queued \cup IdleSlot,
         RangeOf(rest) = Queued \ {next},
         {slot} \ {NoPid} = IdleSlot \ {next},
         reap([state EXCEPT ![current] = out]),
         SwitchTo(next, rest, slot, [state EXCEPT ![current] = out], sl),
         UNCHANGED <<initialized, nextPid, making>>,
         panicked' \in BOOLEAN
  PROVE  TypeOK' /\ Started' /\ current' # current
<1> DEFINE st == [state EXCEPT ![current] = out]
<1>0. TypeOK /\ Started /\ Apart /\ Covered /\ StateAgrees /\ current \in Pid
  BY DEF IInv, Started
<1>1. /\ st \in [Pid -> ProcessState] /\ st[current] = out
      /\ \A p \in Pid : p # current => st[p] = state[p]
      /\ Held' = Held
  BY <1>0 DEF TypeOK, ProcessState, Held
<1>2. /\ PID_IDLE \in Pid /\ PID_BOOTSTRAP \in Pid /\ NoPid \notin Pid
      /\ \A p \in Pid : default_time_slice(p) \in 0..Quantum
  BY DEF PID_IDLE, PID_BOOTSTRAP, Pid, default_time_slice
<1>3. next # current /\ current' = next /\ state[next] = "Ready"
  BY <1>0, initialized DEF SwitchTo, Apart, StateAgrees
<1>4. /\ state' \in [Pid -> ProcessState]
      /\ state'[next] = "Running"
      /\ state'[current] = IF out = "Running" THEN "Ready" ELSE out
      /\ \A p \in Pid : p # current /\ p # next => state'[p] = state[p]
  BY <1>0, <1>1, <1>3 DEF SwitchTo, ProcessState
<1>5. slice' \in [Pid -> 0..Quantum]
  BY <1>0, <1>2 DEF SwitchTo
<1>6. /\ frame' \in [Pid -> Frame]
      /\ \A p \in Pid : p # current' => frame'[p] \in Resumable
  BY <1>0, <1>3 DEF SwitchTo, context_switch, TypeOK, Started, Frame, Resumable
<1>7. current \notin RangeOf(rest) /\ next \notin RangeOf(rest)
  BY <1>0 DEF Apart
<1>8. /\ ready' \in Seq(Pid) /\ Distinct(ready')
      /\ Queued' = IF out = "Running" /\ current # PID_IDLE
                     THEN RangeOf(rest) \cup {current} ELSE RangeOf(rest)
  <2>1. Queued' = RangeOf(ready')
    BY DEF Queued, RangeOf
  <2>2. CASE out = "Running" /\ current # PID_IDLE
    <3>1. ready' = Append(rest, current)
      BY <1>1, <2>2 DEF SwitchTo, requeue
    <3> QED BY <1>0, <1>7, <2>1, <2>2, <3>1, PushBack
  <2>3. CASE ~(out = "Running" /\ current # PID_IDLE)
    <3>1. ready' = rest
      BY <1>1, <2>3 DEF SwitchTo, requeue
    <3> QED BY <2>1, <2>3, <3>1
  <2> QED BY <2>2, <2>3
<1>9. /\ idle' = IF out = "Running" /\ current = PID_IDLE THEN PID_IDLE ELSE slot
      /\ blocked' = IF out = "Blocked" THEN blocked \cup {current} ELSE blocked
      /\ defunct' = IF out = "Zombie" THEN {current} ELSE {}
      /\ reaped' = reaped \cup defunct
  BY <1>1 DEF SwitchTo, return_idle, park, reap
<1>10. IdleSlot' = IF out = "Running" /\ current = PID_IDLE
                     THEN {PID_IDLE} ELSE IdleSlot \ {next}
  BY <1>2, <1>9 DEF IdleSlot
<1>11. TypeOK'
  <2>1. initialized' \in BOOLEAN /\ panicked' \in BOOLEAN
    BY <1>0 DEF TypeOK
  <2>2. /\ ready' \in Seq(Pid) /\ current' \in Pid \cup {NoPid}
        /\ idle' \in {PID_IDLE, NoPid}
        /\ blocked' \in SUBSET Pid /\ defunct' \in SUBSET Pid /\ reaped' \in SUBSET Pid
    BY <1>0, <1>3, <1>8, <1>9 DEF TypeOK
  <2>3. nextPid' \in 2..(MaxPid + 1) /\ making' \in [Pid -> Pid \cup {NoPid}]
    BY <1>0 DEF TypeOK
  <2> QED BY <1>4, <1>5, <1>6, <2>1, <2>2, <2>3 DEF TypeOK
<1>12. Apart'
  BY <1>0, <1>1, <1>3, <1>7, <1>8, <1>9, <1>10 DEF Apart
<1>13. Covered'
  BY <1>0, <1>1, <1>3, <1>7, <1>8, <1>9, <1>10 DEF Covered
<1>14. StateAgrees'
  <2>1. state'[current'] = "Running"
    BY <1>3, <1>4
  <2>2. ASSUME NEW p \in Queued' \cup IdleSlot' PROVE state'[p] = "Ready"
    <3>0. Queued \cup IdleSlot \subseteq Pid
      <4>1. 0..(nextPid - 1) \subseteq Pid
        BY <1>0 DEF TypeOK, Pid
      <4> QED BY <1>0, <4>1 DEF Covered
    <3>1. p \in Pid /\ p # next
      BY <1>0, <1>2, <1>3, <1>7, <1>8, <1>10, <3>0
    <3>2. CASE p = current
      BY <1>0, <1>4, <1>7, <1>8, <1>10, <3>2 DEF Apart
    <3>3. CASE p # current
      <4>1. p \in Queued \cup IdleSlot
        BY <1>8, <1>10, <3>3
      <4> QED BY <1>0, <1>4, <3>1, <3>3, <4>1, initialized DEF StateAgrees
    <3> QED BY <3>2, <3>3
  <2>3. ASSUME NEW p \in blocked' PROVE state'[p] = "Blocked"
    BY <1>0, <1>4, <1>9, initialized DEF StateAgrees, TypeOK, Apart
  <2>4. ASSUME NEW p \in defunct' PROVE state'[p] = "Zombie"
    BY <1>0, <1>4, <1>9
  <2> QED BY <2>1, <2>2, <2>3, <2>4 DEF StateAgrees
<1>15. (idle = NoPid <=> current = PID_IDLE)'
  <2>1. (idle = NoPid <=> current = PID_IDLE) /\ idle \in {PID_IDLE, NoPid} /\ PID_IDLE # NoPid
    BY <1>0, <1>2 DEF Started, TypeOK
  <2>2. current' = next /\ (idle' = NoPid <=> ~(out = "Running" /\ current = PID_IDLE) /\ slot = NoPid)
    BY <1>3, <1>9, <2>1
  <2>3. CASE idle = NoPid
    <3>1. IdleSlot = {} /\ slot = NoPid /\ current = PID_IDLE /\ next # PID_IDLE
      BY <1>3, <2>1, <2>3 DEF IdleSlot
    <3> QED BY <2>2, <3>1
  <2>4. CASE idle = PID_IDLE
    <3>1. IdleSlot = {PID_IDLE} /\ current # PID_IDLE
      BY <2>1, <2>4 DEF IdleSlot
    <3>2. slot = NoPid <=> next = PID_IDLE
      BY <2>1, <3>1
    <3> QED BY <2>2, <3>1, <3>2
  <2> QED BY <2>1, <2>3, <2>4
<1> QED BY <1>3, <1>6, <1>11, <1>12, <1>13, <1>14, <1>15 DEF Started
(***************************************************************************)
(* schedule, entered by the running task in state out: it keeps the        *)
(* invariant, and a task that stopped running is off the CPU when schedule *)
(* is done.                                                                *)
(***************************************************************************)
LEMMA ScheduleStep ==
  ASSUME NEW out \in {"Running", "Blocked", "Zombie"},
         NEW sl \in [Pid -> 0..Quantum],
         IInv, initialized,
         out # "Running" => current # PID_IDLE,
         schedule([state EXCEPT ![current] = out], sl),
         UNCHANGED <<initialized, nextPid, making>>,
         panicked' \in BOOLEAN
  PROVE  TypeOK' /\ Started' /\ (out # "Running" => current' # current)
<1> DEFINE st == [state EXCEPT ![current] = out]
<1>0. TypeOK /\ Started /\ Apart /\ Covered /\ StateAgrees /\ current \in Pid
  BY DEF IInv, Started
<1>1. st[current] = out /\ Queued = RangeOf(ready) /\ Held' = Held
  BY <1>0 DEF TypeOK, Held, Queued, RangeOf
<1>2. PID_IDLE \in Pid /\ NoPid \notin Pid
  BY DEF PID_IDLE, Pid
<1>3. CASE ready # <<>>
  <2>1. reap(st) /\ SwitchTo(Head(ready), Tail(ready), idle, st, sl)
    BY <1>3 DEF schedule
  <2>2. /\ Head(ready) \in Pid /\ Head(ready) \in Queued
        /\ Tail(ready) \in Seq(Pid) /\ Distinct(Tail(ready))
        /\ RangeOf(Tail(ready)) = Queued \ {Head(ready)}
    BY <1>0, <1>1, <1>3, PopFront DEF TypeOK, Apart
  <2>3. idle \in {PID_IDLE, NoPid} /\ {idle} \ {NoPid} = IdleSlot \ {Head(ready)}
    BY <1>0, <2>2 DEF TypeOK, IdleSlot, Apart
  <2> HIDE DEF st
  <2>4. Head(ready) \in Queued \cup IdleSlot
    BY <2>2
  <2> QED BY <2>1, <2>2, <2>3, <2>4, SwitchStep DEF st
<1>4. CASE ready = <<>> /\ out # "Running"
  <2>1. idle = PID_IDLE /\ IdleSlot = {PID_IDLE} /\ idle # NoPid
    BY <1>0, <1>2, <1>4 DEF Started, TypeOK, IdleSlot
  <2>2. reap(st) /\ SwitchTo(PID_IDLE, <<>>, NoPid, st, sl)
    BY <1>1, <1>4, <2>1 DEF schedule
  <2>3. Queued = {} /\ RangeOf(<<>>) = {} /\ Distinct(<<>>) /\ <<>> \in Seq(Pid)
    BY <1>1, <1>4 DEF RangeOf, Distinct
  <2>4. {NoPid} \ {NoPid} = IdleSlot \ {PID_IDLE} /\ PID_IDLE \in Queued \cup IdleSlot
    BY <2>1
  <2>5. RangeOf(<<>>) = Queued \ {PID_IDLE}
    BY <2>3
  <2> QED BY <1>2, <1>4, <2>2, <2>3, <2>4, <2>5, SwitchStep
<1>5. CASE ready = <<>> /\ out = "Running"
  <2>1. /\ reaped' = reaped \cup defunct /\ defunct' = {}
        /\ state' = st /\ slice' = sl
        /\ UNCHANGED <<ready, current, idle, blocked, frame>>
    BY <1>1, <1>5 DEF schedule, reap
  <2>2. st = state
    BY <1>0, <1>5, initialized DEF TypeOK, StateAgrees
  <2>3. Queued' = Queued /\ IdleSlot' = IdleSlot
    BY <2>1 DEF Queued, IdleSlot
  <2>4. TypeOK'
    <3>1. initialized' \in BOOLEAN /\ panicked' \in BOOLEAN
      BY <1>0 DEF TypeOK
    <3> QED BY <1>0, <2>1, <2>2, <3>1 DEF TypeOK
  <2>5. Apart' /\ Covered'
    BY <1>0, <1>1, <2>1, <2>3 DEF Apart, Covered, Distinct
  <2>6. StateAgrees'
    BY <1>0, <2>1, <2>2, <2>3 DEF StateAgrees
  <2> QED BY <1>0, <1>5, <2>1, <2>4, <2>5, <2>6 DEF Started
<1> QED BY <1>3, <1>4, <1>5
(* init makes the bootstrap and the idle task.                              *)
LEMMA BootStep == IInv /\ init => IInv'
<1> SUFFICES ASSUME IInv, init PROVE IInv'
  OBVIOUS
<1> USE DEF PID_BOOTSTRAP, PID_IDLE
<1>1. TypeOK /\ NotStarted /\ ~initialized /\ ~panicked /\ PID_IDLE \in Pid /\ 0 \in Pid
  BY DEF IInv, init, Pid
<1>2. TypeOK'
  <2>1. initialized' \in BOOLEAN /\ panicked' \in BOOLEAN
    BY <1>1 DEF init, TypeOK
  <2> QED BY <1>1, <2>1 DEF init, TypeOK, pcbs
<1>3. /\ Queued' = {} /\ IdleSlot' = {1} /\ Held' = {} /\ current' = 0
      /\ blocked' = {} /\ defunct' = {} /\ reaped' = {} /\ nextPid' = 2 /\ Distinct(ready')
      /\ making' = [p \in Pid |-> NoPid]
  BY <1>1 DEF init, NotStarted, Queued, IdleSlot, Held, Distinct, Pid
<1>4. Apart' /\ Covered'
  BY <1>3 DEF Apart, Covered
<1>5. StateAgrees'
  BY <1>1, <1>3 DEF StateAgrees, NotStarted, init, pcbs
<1>6. Started'
  BY <1>1, <1>3, <1>4, <1>5 DEF Started, NotStarted, init, pcbs, Resumable, Pid
<1>7. initialized' /\ ~panicked'
  BY <1>1 DEF init
<1> QED BY <1>2, <1>6, <1>7 DEF IInv

(* The first half of spawn takes a pid.                                     *)
LEMMA AllocStep == IInv /\ alloc_pid => IInv'
<1> SUFFICES ASSUME IInv, alloc_pid PROVE IInv'
  OBVIOUS
<1>1. /\ TypeOK /\ Started /\ initialized /\ ~panicked /\ current \in Pid
      /\ Apart /\ Covered /\ StateAgrees /\ making[current] = NoPid
  BY DEF IInv, alloc_pid, TaskMayCall, Live, Started
<1>2. nextPid \in Pid /\ nextPid # NoPid /\ nextPid \notin 0..(nextPid - 1)
  BY <1>1 DEF alloc_pid, TypeOK, Pid
<1>3. UNCHANGED <<initialized, panicked, ready, current, idle, blocked, defunct, reaped,
                  state, slice, frame>>
  BY DEF alloc_pid, queues, pcbs
<1>4. Held' = Held \cup {nextPid}
  BY <1>1, <1>2 DEF alloc_pid, Held, TypeOK
<1>5. Queued' = Queued /\ IdleSlot' = IdleSlot
  BY <1>3 DEF Queued, IdleSlot
<1>6. TypeOK'
  <2>1. initialized' \in BOOLEAN /\ panicked' \in BOOLEAN
    BY <1>1, <1>3 DEF TypeOK
  <2>2. nextPid' \in 2..(MaxPid + 1) /\ making' \in [Pid -> Pid \cup {NoPid}]
    BY <1>1, <1>2 DEF alloc_pid, TypeOK
  <2> QED BY <1>1, <1>3, <2>1, <2>2 DEF TypeOK
<1>7. nextPid \notin Queued \cup {current} \cup IdleSlot \cup blocked \cup defunct \cup reaped \cup Held
  BY <1>1, <1>2 DEF Covered
<1>8. \A p, q \in Pid : making'[p] = making'[q] /\ making'[p] # NoPid => p = q
  <2>1. \A p \in Pid : making[p] # nextPid
    BY <1>2, <1>7 DEF Held
  <2> QED BY <1>1, <1>2, <2>1 DEF alloc_pid, Apart, TypeOK
<1>9. Distinct(ready')
  BY <1>1, <1>3 DEF Apart
<1>10. Apart'
  BY <1>1, <1>3, <1>4, <1>5, <1>7, <1>8, <1>9 DEF Apart
<1>11. Covered'
  <2>1. 0..(nextPid' - 1) = (0..(nextPid - 1)) \cup {nextPid}
    BY <1>1 DEF alloc_pid, TypeOK
  <2> QED BY <1>1, <1>3, <1>4, <1>5, <2>1 DEF Covered
<1>12. StateAgrees'
  BY <1>1, <1>3, <1>5 DEF StateAgrees
<1>13. Started'
  BY <1>1, <1>3, <1>10, <1>11, <1>12 DEF Started
<1> QED BY <1>1, <1>3, <1>6, <1>13 DEF IInv

(* The second half of spawn queues the PCB.                                 *)
LEMMA SpawnStep == IInv /\ spawn => IInv'
<1> SUFFICES ASSUME IInv, spawn PROVE IInv'
  OBVIOUS
<1> DEFINE p == making[current]
<1>1. /\ TypeOK /\ Started /\ initialized /\ ~panicked /\ current \in Pid
      /\ Apart /\ Covered /\ StateAgrees /\ p # NoPid
  BY DEF IInv, spawn, Live, Started
<1>2. p \in Pid /\ p \in Held
  BY <1>1 DEF TypeOK, Held
<1>3. /\ UNCHANGED <<initialized, panicked, current, idle, blocked, defunct, reaped,
                     frame, nextPid>>
      /\ ready' = Append(ready, p)
      /\ state' = [state EXCEPT ![p] = "Ready"]
      /\ slice' = [slice EXCEPT ![p] = default_time_slice(p)]
      /\ making' = [making EXCEPT ![current] = NoPid]
  BY DEF spawn
<1>4. Held' = Held \ {p}
  BY <1>1, <1>3 DEF Held, TypeOK, Apart
<1>5. p \notin Queued \cup {current} \cup IdleSlot \cup blocked \cup defunct \cup reaped
  BY <1>1, <1>2 DEF Apart
<1>6. ready' \in Seq(Pid) /\ Queued' = Queued \cup {p} /\ Distinct(ready') /\ IdleSlot' = IdleSlot
  <2>1. Queued = RangeOf(ready) /\ Queued' = RangeOf(ready') /\ IdleSlot' = IdleSlot
    BY <1>3 DEF Queued, RangeOf, IdleSlot
  <2>2. ready \in Seq(Pid) /\ Distinct(ready) /\ p \notin RangeOf(ready)
    BY <1>1, <1>5, <2>1 DEF TypeOK, Apart
  <2> HIDE DEF p
  <2> QED BY <1>2, <1>3, <2>1, <2>2, PushBack
<1>7. TypeOK'
  <2>1. initialized' \in BOOLEAN /\ panicked' \in BOOLEAN
    BY <1>1, <1>3 DEF TypeOK
  <2>2. slice' \in [Pid -> 0..Quantum] /\ state' \in [Pid -> ProcessState]
    BY <1>1, <1>2, <1>3 DEF TypeOK, default_time_slice, ProcessState
  <2> QED BY <1>1, <1>3, <1>6, <2>1, <2>2 DEF TypeOK
<1>8. \A q, r \in Pid : making'[q] = making'[r] /\ making'[q] # NoPid => q = r
  BY <1>1, <1>3 DEF Apart, TypeOK
<1> HIDE DEF p
<1>9. Apart' /\ Covered'
  BY <1>1, <1>2, <1>3, <1>4, <1>5, <1>6, <1>8 DEF Apart, Covered
<1>10. StateAgrees'
  BY <1>1, <1>2, <1>3, <1>5, <1>6 DEF StateAgrees, TypeOK
<1>11. Started'
  BY <1>1, <1>3, <1>9, <1>10 DEF Started
<1> QED BY <1>1, <1>3, <1>7, <1>11 DEF IInv

(* unblock moves a blocked PCB to the ready queue, or does nothing.         *)
LEMMA UnblockStep == ASSUME NEW p \in Pid PROVE IInv /\ unblock(p) => IInv'
<1> SUFFICES ASSUME IInv, unblock(p) PROVE IInv'
  OBVIOUS
<1>1. /\ TypeOK /\ Started /\ initialized /\ ~panicked /\ current \in Pid
      /\ Apart /\ Covered /\ StateAgrees
  BY DEF IInv, unblock, Live, Started
<1>2. /\ UNCHANGED <<initialized, panicked, current, idle, defunct, reaped,
                     frame, nextPid, making>>
      /\ p \in blocked /\ blocked' = blocked \ {p}
      /\ ready' = Append(ready, p)
      /\ state' = [state EXCEPT ![p] = "Ready"]
      /\ slice' = [slice EXCEPT ![p] = default_time_slice(p)]
  BY DEF unblock
<1>3. Held' = Held /\ IdleSlot' = IdleSlot
  BY <1>2 DEF Held, IdleSlot
<1>4. p \notin Queued \cup {current} \cup IdleSlot \cup defunct \cup reaped \cup Held
  BY <1>1, <1>2 DEF Apart
<1>5. ready' \in Seq(Pid) /\ Queued' = Queued \cup {p} /\ Distinct(ready')
  <2>1. Queued = RangeOf(ready) /\ Queued' = RangeOf(ready')
    BY DEF Queued, RangeOf
  <2>2. ready \in Seq(Pid) /\ Distinct(ready) /\ p \notin RangeOf(ready)
    BY <1>1, <1>4, <2>1 DEF TypeOK, Apart
  <2> QED BY <1>2, <2>1, <2>2, PushBack
<1>6. TypeOK'
  <2>1. initialized' \in BOOLEAN /\ panicked' \in BOOLEAN
    BY <1>1, <1>2 DEF TypeOK
  <2>2. slice' \in [Pid -> 0..Quantum] /\ state' \in [Pid -> ProcessState]
    BY <1>1, <1>2 DEF TypeOK, default_time_slice, ProcessState
  <2> QED BY <1>1, <1>2, <1>5, <2>1, <2>2 DEF TypeOK
<1>7. Apart' /\ Covered'
  BY <1>1, <1>2, <1>3, <1>4, <1>5 DEF Apart, Covered
<1>8. StateAgrees'
  BY <1>1, <1>2, <1>3, <1>4, <1>5 DEF StateAgrees, TypeOK
<1>9. Started'
  BY <1>1, <1>2, <1>7, <1>8 DEF Started
<1> QED BY <1>1, <1>2, <1>6, <1>9 DEF IInv
(* The four operations that end in schedule. *)
LEMMA TickStep == IInv /\ tick => IInv'
<1> SUFFICES ASSUME IInv, tick PROVE IInv'
  OBVIOUS
<1>1. /\ TypeOK /\ Started /\ initialized /\ ~panicked /\ current \in Pid
      /\ state[current] = "Running"
  BY DEF IInv, tick, Live, Started, StateAgrees
<1> DEFINE sl == [slice EXCEPT ![current] = charge(@)]
<1>2. UNCHANGED <<initialized, nextPid, making, panicked>>
  BY DEF tick
<1>3. sl \in [Pid -> 0..Quantum] /\ state = [state EXCEPT ![current] = "Running"]
  BY <1>1 DEF TypeOK, charge
<1>4. panicked' \in BOOLEAN /\ initialized' /\ ~panicked'
  <2>1. panicked' = panicked /\ initialized' = initialized
    BY <1>1, <1>2
  <2>2. panicked \in BOOLEAN
    BY <1>1 DEF TypeOK
  <2> QED BY <1>1, <2>1, <2>2
<1>5. CASE exhausted(slice[current])
  <2>1. schedule(state, sl)
    BY <1>1, <1>5 DEF tick
  <2> HIDE DEF sl
  <2>2. schedule([state EXCEPT ![current] = "Running"], sl)
    BY <1>3, <2>1
  <2> QED BY <1>1, <1>2, <1>3, <1>4, <2>2, ScheduleStep DEF IInv
<1>6. CASE ~exhausted(slice[current])
  <2>1. slice' = sl /\ UNCHANGED <<queues, state, frame>>
    BY <1>1, <1>6 DEF tick
  <2>2. TypeOK'
    <3>1. initialized' \in BOOLEAN /\ panicked' \in BOOLEAN
      BY <1>4
    <3> HIDE DEF sl
    <3> QED BY <1>1, <1>2, <1>3, <2>1, <3>1 DEF TypeOK, queues
  <2>3. Queued' = Queued /\ IdleSlot' = IdleSlot /\ Held' = Held
    BY <1>2, <2>1 DEF queues, Queued, IdleSlot, Held
  <2>4. Apart' /\ Covered' /\ StateAgrees'
    BY <1>1, <1>2, <2>1, <2>3 DEF Started, Apart, Covered, StateAgrees, Distinct, queues
  <2>5. Started'
    BY <1>1, <2>1, <2>4 DEF Started, queues
  <2> QED BY <1>4, <2>2, <2>5 DEF IInv
<1> QED BY <1>5, <1>6

(* yield_now gives up the rest of the quantum.                              *)
LEMMA YieldStep == IInv /\ yield_now => IInv'
<1> SUFFICES ASSUME IInv, yield_now PROVE IInv'
  OBVIOUS
<1>1. /\ TypeOK /\ initialized /\ ~panicked /\ current \in Pid
      /\ state[current] = "Running"
  BY DEF IInv, yield_now, TaskMayCall, Live, Started, StateAgrees
<1>2. /\ UNCHANGED <<initialized, nextPid, making, panicked>>
      /\ slice \in [Pid -> 0..Quantum] /\ state = [state EXCEPT ![current] = "Running"]
  BY <1>1 DEF yield_now, TypeOK
<1>3. panicked' \in BOOLEAN /\ initialized' /\ ~panicked'
  <2>1. panicked' = panicked /\ initialized' = initialized
    BY <1>1, <1>2
  <2>2. panicked \in BOOLEAN
    BY <1>1 DEF TypeOK
  <2> QED BY <1>1, <2>1, <2>2
<1>4. schedule([state EXCEPT ![current] = "Running"], slice)
  BY <1>2 DEF yield_now
<1> QED BY <1>1, <1>2, <1>3, <1>4, ScheduleStep DEF IInv

(* exit_current leaves a zombie.                                            *)
LEMMA ExitStep == IInv /\ exit_current => IInv'
<1> SUFFICES ASSUME IInv, exit_current PROVE IInv'
  OBVIOUS
<1> DEFINE sl == [slice EXCEPT ![current] = 0]
<1>1. /\ TypeOK /\ initialized /\ ~panicked /\ current # PID_IDLE
      /\ schedule([state EXCEPT ![current] = "Zombie"], sl)
      /\ UNCHANGED <<initialized, nextPid, making>>
      /\ panicked' = (current' = current)
  BY DEF IInv, exit_current, TaskMayCall, Live
<1>2. sl \in [Pid -> 0..Quantum]
  <2>1. slice \in [Pid -> 0..Quantum] /\ 0 \in 0..Quantum
    BY DEF IInv, TypeOK
  <2> QED BY <2>1
<1>3. panicked' \in BOOLEAN
  <2>1. (current' = current) \in BOOLEAN
    OBVIOUS
  <2> QED BY <1>1, <2>1, Zenon
<1> HIDE DEF sl
<1>4. TypeOK' /\ Started' /\ current' # current
  BY <1>1, <1>2, <1>3, ScheduleStep
<1> QED BY <1>1, <1>4 DEF IInv

(* block_current leaves a blocked task.                                     *)
LEMMA BlockStep == IInv /\ block_current => IInv'
<1> SUFFICES ASSUME IInv, block_current PROVE IInv'
  OBVIOUS
<1>1. /\ TypeOK /\ initialized /\ ~panicked /\ current # PID_IDLE
      /\ schedule([state EXCEPT ![current] = "Blocked"], slice)
      /\ UNCHANGED <<initialized, nextPid, making, panicked>>
      /\ slice \in [Pid -> 0..Quantum]
  BY DEF IInv, block_current, TaskMayCall, Live, TypeOK
<1>2. panicked' \in BOOLEAN /\ initialized' /\ ~panicked'
  <2>1. panicked' = panicked /\ initialized' = initialized
    BY <1>1
  <2>2. panicked \in BOOLEAN
    BY <1>1 DEF TypeOK
  <2> QED BY <1>1, <2>1, <2>2
<1> QED BY <1>1, <1>2, ScheduleStep DEF IInv

(* Every step keeps the invariant.                                          *)
LEMMA NextIInv == IInv /\ [Next]_vars => IInv'
<1> SUFFICES ASSUME IInv, [Next]_vars PROVE IInv'
  OBVIOUS
<1>1. CASE UNCHANGED vars
  <2>1. Queued' = Queued /\ IdleSlot' = IdleSlot /\ Held' = Held
    BY <1>1 DEF vars, queues, Queued, IdleSlot, Held
  <2>2. TypeOK'
    BY <1>1 DEF IInv, TypeOK, vars, queues, pcbs
  <2>3. initialized => Started'
    BY <1>1, <2>1 DEF IInv, Started, Apart, Covered, StateAgrees, Distinct, vars, queues, pcbs
  <2>4. ~initialized => NotStarted'
    BY <1>1 DEF IInv, NotStarted, vars, queues, pcbs
  <2> QED BY <1>1, <2>2, <2>3, <2>4 DEF IInv, vars
<1> QED BY <1>1, BootStep, AllocStep, SpawnStep, TickStep, YieldStep, ExitStep, BlockStep,
           UnblockStep DEF Next

(* The inductive invariant gives the invariants the model checker is run on. *)
LEMMA IInvImplies == IInv => Conservation /\ StateAgrees /\ NextTaskResumable
<1> SUFFICES ASSUME IInv PROVE Conservation /\ StateAgrees /\ NextTaskResumable
  OBVIOUS
<1>1. CASE ~initialized
  BY <1>1 DEF IInv, Conservation, StateAgrees, NextTaskResumable
<1>2. CASE initialized
  <2>1. Started /\ Apart /\ Covered /\ StateAgrees /\ TypeOK /\ ~panicked
    BY <1>2 DEF IInv, Started
  <2>2. NextTaskResumable
    <3>1. idle = NoPid <=> current = PID_IDLE
      BY <2>1 DEF Started
    <3>2. 0..(nextPid - 1) \subseteq Pid
      BY <2>1 DEF TypeOK, Pid
    <3>3. \A p \in Queued \cup IdleSlot \cup blocked \cup Held : frame[p] \in Resumable
      BY <2>1, <3>2 DEF Started, Apart, Covered
    <3> QED BY <2>1, <3>1, <3>3 DEF NextTaskResumable
  <2>3. Conservation
    <3> DEFINE place == <<Queued, {current}, IdleSlot, blocked, defunct, reaped, Held>>
    <3>1. UNION {place[i] : i \in 1..7} = 0..(nextPid - 1)
      <4>1. {place[i] : i \in 1..7}
              = {Queued, {current}, IdleSlot, blocked, defunct, reaped, Held}
        OBVIOUS
      <4>2. UNION {place[i] : i \in 1..7}
              = Queued \cup {current} \cup IdleSlot \cup blocked \cup defunct \cup reaped \cup Held
        BY <4>1
      <4> QED BY <2>1, <4>2 DEF Covered
    <3>2. \A i, j \in 1..7 : i # j => place[i] \cap place[j] = {}
      BY <2>1 DEF Apart
    <3> QED BY <2>1, <3>1, <3>2 DEF Conservation, Apart, Distinct
  <2> QED BY <2>1, <2>2, <2>3
<1> QED BY <1>1, <1>2

(***************************************************************************)
(* For every number of tasks and every quantum: no PCB is lost or          *)
(* duplicated, states agree with places, an exiting or blocking task       *)
(* always finds a task to switch to, and every task that may be resumed    *)
(* has a valid saved frame.                                                *)
(***************************************************************************)
THEOREM SchedulerSafe ==
  Spec => [](TypeOK /\ Conservation /\ StateAgrees /\ NextTaskResumable)
<1>1. IInv => TypeOK
  BY DEF IInv
<1> QED BY <1>1, InitIInv, NextIInv, IInvImplies, PTL DEF Spec
(***************************************************************************)
(* For every number of tasks: schedule frees a stack only while another    *)
(* task's stack is in use, before and after the switch.                    *)
(***************************************************************************)
THEOREM ReapingSafe == Spec => ReapedFromOtherStack
<1> DEFINE A == \A p \in reaped' \ reaped : p # current /\ p # current' /\ state[p] = "Zombie"
<1>1. ASSUME IInv, IInv', Next PROVE A
  <2>1. CASE reaped' = reaped
    BY <2>1
  <2>2. CASE reaped' = reaped \cup defunct /\ initialized /\ initialized'
    <3>1. /\ \A p \in defunct : p # current /\ state[p] = "Zombie"
          /\ current' \notin reaped'
      BY <1>1, <2>2 DEF IInv, Started, Apart, StateAgrees
    <3> QED BY <2>2, <3>1
  <2>3. ASSUME NEW st, NEW sl, schedule(st, sl) PROVE reaped' = reaped \cup defunct
    BY <2>3 DEF schedule, reap
  <2>4. CASE init \/ alloc_pid \/ spawn \/ \E p \in Pid : unblock(p)
    BY <2>1, <2>4 DEF init, alloc_pid, spawn, unblock, queues
  <2>5. CASE yield_now \/ exit_current \/ block_current
    BY <2>2, <2>3, <2>5 DEF yield_now, exit_current, block_current, TaskMayCall, Live
  <2>6. CASE tick
    <3>1. initialized /\ initialized'
      BY <2>6 DEF tick, Live
    <3>2. reaped' = reaped \/ reaped' = reaped \cup defunct
      BY <2>3, <2>6 DEF tick, queues
    <3> QED BY <2>1, <2>2, <3>1, <3>2
  <2> QED BY <1>1, <2>4, <2>5, <2>6 DEF Next
<1>2. IInv /\ IInv' /\ [Next]_vars => [A]_vars
  BY <1>1
<1> QED BY <1>2, InitIInv, NextIInv, PTL DEF Spec, ReapedFromOtherStack
(***************************************************************************)
(* The task that schedule switches to can be resumed, and exit_current     *)
(* never returns: its unreachable! is that, for every number of tasks.     *)
(***************************************************************************)
THEOREM NextIsResumable == Spec => []NextTaskResumable
<1> QED BY InitIInv, NextIInv, IInvImplies, PTL DEF Spec
-----------------------------------------------------------------------------
(* Refinement: the phase of every process in ProcessLifecycle. *)
Life == [p \in Pid |-> lifeOf(p)]

(* A process's phase follows from the place its PCB is in. *)
LEMMA PhaseOfPlace ==
  ASSUME IInv, initialized
  PROVE  /\ Life[current] = "Running"
         /\ \A p \in Queued \cup IdleSlot : Life[p] = "Ready"
         /\ \A p \in blocked : Life[p] = "Blocked"
         /\ \A p \in defunct : Life[p] = "Zombie"
         /\ \A p \in reaped : Life[p] = "gone"
         /\ \A p \in Held : Life[p] = "made"
         /\ \A p \in Pid : p >= nextPid => Life[p] = "unborn"
         /\ \A p \in Pid : Life[p] = "Zombie" <=> p \in defunct
<1>1. TypeOK /\ Apart /\ Covered /\ StateAgrees /\ current \in Pid
  BY DEF IInv, Started
<1>2. ASSUME NEW p \in Queued \cup {current} \cup IdleSlot \cup blocked \cup defunct \cup reaped \cup Held
      PROVE  p \in Pid /\ ~(p >= nextPid)
  BY <1>1 DEF Covered, TypeOK, Pid
<1>3. \A p \in Pid : Life[p] = IF p >= nextPid THEN "unborn" ELSE IF p \in reaped THEN "gone"
                               ELSE IF p \in Held THEN "made" ELSE state[p]
  BY DEF Life, lifeOf
<1>4. ASSUME NEW p \in Queued \cup {current} \cup IdleSlot \cup blocked \cup defunct
      PROVE  p \notin reaped /\ p \notin Held
  BY <1>1 DEF Apart
<1>5. \A p \in Queued \cup {current} \cup IdleSlot \cup blocked \cup defunct : Life[p] = state[p]
  BY <1>2, <1>3, <1>4
<1>6. /\ Life[current] = "Running"
      /\ \A p \in Queued \cup IdleSlot : Life[p] = "Ready"
      /\ \A p \in blocked : Life[p] = "Blocked"
      /\ \A p \in defunct : Life[p] = "Zombie"
  BY <1>1, <1>5 DEF StateAgrees
<1>7. /\ \A p \in reaped : Life[p] = "gone"
      /\ \A p \in Held : Life[p] = "made"
      /\ \A p \in Pid : p >= nextPid => Life[p] = "unborn"
  BY <1>1, <1>2, <1>3 DEF Apart
<1>8. ASSUME NEW p \in Pid, Life[p] = "Zombie" PROVE p \in defunct
  <2>1. p \in 0..(nextPid - 1)
    BY <1>1, <1>7, <1>8 DEF TypeOK, Pid
  <2> QED BY <1>1, <1>6, <1>7, <1>8, <2>1 DEF Covered
<1> QED BY <1>2, <1>6, <1>7, <1>8

(* The abstract steps, in terms of Life. *)
LEMMA LifeMake ==
  ASSUME NEW p \in Pid, Life[p] = "unborn", \E q \in Pid : Life[q] = "Running",
         Life' = [Life EXCEPT ![p] = "made"]
  PROVE  Lifecycle!Next
BY DEF Life, Lifecycle!Next, Lifecycle!Make, Lifecycle!Running

(* A task that becomes ready does what the lifecycle allows.                *)
LEMMA LifeReady ==
  ASSUME NEW p \in Pid, Life[p] = "made" \/ Life[p] = "Blocked",
         Life' = [Life EXCEPT ![p] = "Ready"]
  PROVE  Lifecycle!Next
BY DEF Life, Lifecycle!Next, Lifecycle!Enqueue, Lifecycle!Wake

ReapedLife == [p \in Pid |-> IF Life[p] = "Zombie" THEN "gone" ELSE Life[p]]

(* So does a step that only reaps.                                          *)
LEMMA LifeKeep == Life' = ReapedLife => Lifecycle!Next
BY DEF Life, ReapedLife, Lifecycle!Next, Lifecycle!Keep, Lifecycle!Reaped

(* So does a switch from one task to another.                               *)
LEMMA LifeSwitch ==
  ASSUME NEW p \in Pid, NEW q \in Pid, NEW s \in {"Ready", "Blocked", "Zombie"},
         Life[p] = "Running", Life[q] = "Ready", p = PID_IDLE => s = "Ready",
         Life' = [ReapedLife EXCEPT ![p] = s, ![q] = "Running"]
  PROVE  Lifecycle!Next
<1>1. Lifecycle!Switch(p, q, s)
  BY DEF Life, ReapedLife, Lifecycle!Switch, Lifecycle!Reaped
<1>2. s \in Lifecycle!Phase
  BY DEF Lifecycle!Phase
<1> QED BY <1>1, <1>2 DEF Lifecycle!Next

(* So does init.                                                            *)
LEMMA LifeBoot ==
  ASSUME Life = [p \in Pid |-> "unborn"],
         Life' = [Life EXCEPT ![PID_BOOTSTRAP] = "Running", ![PID_IDLE] = "Ready"]
  PROVE  Lifecycle!Next
BY DEF Life, Lifecycle!Next, Lifecycle!Boot

(* schedule, as a step of the running task's life and of the zombies'. *)
LEMMA ScheduleLife ==
  ASSUME NEW out \in {"Running", "Blocked", "Zombie"}, NEW sl,
         IInv, IInv', initialized,
         out # "Running" => current # PID_IDLE,
         schedule([state EXCEPT ![current] = out], sl),
         UNCHANGED <<initialized, nextPid, making>>
  PROVE  Lifecycle!Next
<1> DEFINE st == [state EXCEPT ![current] = out]
           s == IF out = "Running" THEN "Ready" ELSE out
<1>1. /\ TypeOK /\ Apart /\ Covered /\ StateAgrees /\ current \in Pid /\ initialized' /\ Held' = Held
      /\ Apart' /\ Covered' /\ current' \in Pid
      /\ idle = NoPid <=> current = PID_IDLE
  BY DEF IInv, Started, Held
<1>2. reaped' = reaped \cup defunct /\ st[current] = out /\ nextPid' = nextPid
  BY <1>1 DEF schedule, reap, TypeOK
<1>3. /\ Life \in [Pid -> {Life[p] : p \in Pid}]
      /\ \A p \in Pid : Life[p] = IF p >= nextPid THEN "unborn" ELSE IF p \in reaped THEN "gone"
                                  ELSE IF p \in Held THEN "made" ELSE state[p]
  BY initialized DEF Life, lifeOf
<1>4. /\ Life' = [p \in Pid |-> Life'[p]]
      /\ \A p \in Pid : Life'[p] = IF p >= nextPid THEN "unborn" ELSE IF p \in reaped \cup defunct THEN "gone"
                                   ELSE IF p \in Held THEN "made" ELSE state'[p]
  BY <1>1, <1>2 DEF Life, lifeOf
<1>5. /\ Life[current] = "Running"
      /\ \A p \in Queued \cup IdleSlot : Life[p] = "Ready"
      /\ \A p \in Pid : Life[p] = "Zombie" <=> p \in defunct
  BY PhaseOfPlace, initialized
<1>6. ASSUME NEW p \in Pid, state'[p] = state[p] PROVE Life'[p] = ReapedLife[p]
  <2>1. p \in defunct => ~(p >= nextPid)
    BY <1>1 DEF Covered, TypeOK, Pid
  <2> QED BY <1>3, <1>4, <1>5, <1>6, <2>1 DEF ReapedLife
<1>7. ASSUME NEW next \in Queued \cup IdleSlot, NEW rest, NEW slot, SwitchTo(next, rest, slot, st, sl)
      PROVE  Lifecycle!Next
  <2>1. next \in Pid /\ next # current /\ Life[next] = "Ready"
    <3>1. 0..(nextPid - 1) \subseteq Pid
      BY <1>1 DEF TypeOK, Pid
    <3> QED BY <1>1, <1>5, <3>1 DEF Apart, Covered
  <2>2. /\ state'[next] = "Running" /\ state'[current] = s
        /\ \A p \in Pid : p # current /\ p # next => state'[p] = state[p]
    BY <1>1, <1>2, <1>7, <2>1 DEF SwitchTo, TypeOK
  <2>3. Life'[next] = "Running" /\ Life'[current] = s
    <3>1. ASSUME NEW p \in {current, next} PROVE ~(p >= nextPid) /\ p \notin reaped \cup defunct \cup Held
      BY <1>1 DEF Apart, Covered, TypeOK, Pid
    <3> QED BY <1>1, <1>4, <2>1, <2>2, <3>1
  <2>4. Life' = [ReapedLife EXCEPT ![current] = s, ![next] = "Running"]
    <3>1. \A p \in Pid : p # current /\ p # next => Life'[p] = ReapedLife[p]
      BY <1>6, <2>2
    <3> QED BY <1>1, <1>4, <2>1, <2>3, <3>1 DEF ReapedLife
  <2>5. s \in {"Ready", "Blocked", "Zombie"} /\ (current = PID_IDLE => s = "Ready")
    OBVIOUS
  <2> HIDE DEF s
  <2> QED BY <1>1, <1>5, <2>1, <2>4, <2>5, LifeSwitch
<1>8. CASE ready # <<>>
  <2>1. SwitchTo(Head(ready), Tail(ready), idle, st, sl)
    BY <1>8 DEF schedule
  <2>2. Head(ready) \in Queued
    BY <1>1, <1>8 DEF TypeOK, Queued
  <2> HIDE DEF st
  <2> QED BY <1>7, <2>1, <2>2
<1>9. CASE ready = <<>> /\ out # "Running"
  <2>1. idle # NoPid /\ SwitchTo(idle, <<>>, NoPid, st, sl)
    BY <1>1, <1>2, <1>9 DEF schedule
  <2>2. idle \in IdleSlot
    BY <2>1 DEF IdleSlot
  <2> HIDE DEF st
  <2> QED BY <1>7, <2>1, <2>2
<1>10. CASE ready = <<>> /\ out = "Running"
  <2>1. state' = st
    BY <1>2, <1>10 DEF schedule
  <2>2. st = state
    BY <1>1, <1>10, initialized DEF TypeOK, StateAgrees
  <2>3. \A p \in Pid : Life'[p] = ReapedLife[p]
    BY <1>6, <2>1, <2>2
  <2>4. Life' = ReapedLife
    BY <1>4, <2>3 DEF ReapedLife
  <2> QED BY <2>4, LifeKeep
<1> QED BY <1>8, <1>9, <1>10
(* spawn takes hold of the PCB it is about to build. *)
LEMMA HoldOne ==
  ASSUME NEW m \in [Pid -> Pid \cup {NoPid}], NEW c \in Pid, m[c] = NoPid, NEW x \in Pid,
         NEW n, n = [m EXCEPT ![c] = x]
  PROVE  {n[p] : p \in Pid} \ {NoPid} = ({m[p] : p \in Pid} \ {NoPid}) \cup {x}
<1>1. n[c] = x /\ x # NoPid /\ \A p \in Pid : p # c => n[p] = m[p]
  BY DEF Pid
<1> QED BY <1>1

(* spawn lets go of it when the PCB is in the queue. *)
LEMMA ReleaseOne ==
  ASSUME NEW m \in [Pid -> Pid \cup {NoPid}], NEW c \in Pid, m[c] # NoPid,
         \A p, q \in Pid : m[p] = m[q] /\ m[p] # NoPid => p = q,
         NEW n, n = [m EXCEPT ![c] = NoPid]
  PROVE  {n[p] : p \in Pid} \ {NoPid} = ({m[p] : p \in Pid} \ {NoPid}) \ {m[c]}
<1>1. n[c] = NoPid /\ \A p \in Pid : p # c => n[p] = m[p] /\ (m[p] = m[c] => m[p] = NoPid)
  OBVIOUS
<1> QED BY <1>1

(* The steps outside schedule change the life of one process. *)
LEMMA OtherLife ==
  ASSUME IInv, IInv', init \/ alloc_pid \/ spawn \/ \E p \in Pid : unblock(p)
  PROVE  Lifecycle!Next
<1>0. initialized'
  BY DEF init, alloc_pid, spawn, unblock, TaskMayCall, Live
<1>1. TypeOK /\ TypeOK' /\ initialized' /\ Apart' /\ Covered'
  BY <1>0 DEF IInv, Started
<1>2. /\ Life = [p \in Pid |-> Life[p]] /\ Life' = [p \in Pid |-> Life'[p]]
      /\ \A p \in Pid : Life[p] = IF ~initialized \/ p >= nextPid THEN "unborn" ELSE IF p \in reaped THEN "gone"
                                  ELSE IF p \in Held THEN "made" ELSE state[p]
      /\ \A p \in Pid : Life'[p] = IF p >= nextPid' THEN "unborn" ELSE IF p \in reaped' THEN "gone"
                                   ELSE IF p \in Held' THEN "made" ELSE state'[p]
  BY <1>1 DEF Life, lifeOf
<1>3. CASE init
  <2> USE DEF PID_BOOTSTRAP, PID_IDLE
  <2>1. ~initialized /\ NotStarted /\ UNCHANGED <<state, nextPid, making, reaped>>
    BY <1>3 DEF init, IInv, pcbs
  <2>2. Held' = {} /\ reaped' = {} /\ nextPid' = 2 /\ state'[0] = "Running" /\ state'[1] = "Ready"
    BY <2>1 DEF NotStarted, Held
  <2>3. Life = [p \in Pid |-> "unborn"]
    BY <1>2, <2>1
  <2>4. Life'[0] = "Running" /\ Life'[1] = "Ready" /\ \A p \in Pid : p # 0 /\ p # 1 => Life'[p] = "unborn"
    BY <1>2, <2>2 DEF Pid
  <2>5. Life' = [Life EXCEPT ![PID_BOOTSTRAP] = "Running", ![PID_IDLE] = "Ready"]
    BY <1>2, <2>3, <2>4 DEF Pid
  <2> QED BY <2>3, <2>5, LifeBoot
<1>4. CASE alloc_pid
  <2>1. /\ initialized /\ current \in Pid /\ nextPid \in Pid /\ nextPid' = nextPid + 1
        /\ UNCHANGED <<state, reaped>> /\ Covered /\ making[current] = NoPid
        /\ making' = [making EXCEPT ![current] = nextPid]
    <3>1. /\ initialized /\ making[current] = NoPid /\ nextPid <= MaxPid /\ nextPid' = nextPid + 1
          /\ UNCHANGED <<state, reaped>> /\ making' = [making EXCEPT ![current] = nextPid]
      BY <1>4 DEF alloc_pid, TaskMayCall, Live, queues, pcbs
    <3>2. current \in Pid /\ Covered
      BY <3>1 DEF IInv, Started
    <3>3. nextPid \in Pid
      BY <1>1, <3>1 DEF TypeOK, Pid
    <3> QED BY <3>1, <3>2, <3>3
  <2>2. Held' = Held \cup {nextPid}
    <3>1. making \in [Pid -> Pid \cup {NoPid}]
      BY <1>1 DEF TypeOK
    <3> QED BY <2>1, <3>1, HoldOne DEF Held
  <2>3. nextPid \notin reaped
    <3>1. nextPid \in Nat /\ reaped \subseteq 0..(nextPid - 1)
      <4>1. nextPid \in Nat
        BY <1>1 DEF TypeOK
      <4>2. reaped \subseteq 0..(nextPid - 1)
        BY <2>1 DEF Covered
      <4> QED BY <4>1, <4>2
    <3> QED BY <3>1
  <2>4. Life[nextPid] = "unborn" /\ Life'[nextPid] = "made" /\ \A p \in Pid : p # nextPid => Life'[p] = Life[p]
    <3>1. nextPid >= nextPid /\ ~(nextPid >= nextPid') /\ \A p \in Pid : p # nextPid => (p >= nextPid' <=> p >= nextPid)
      <4>1. nextPid \in Nat /\ nextPid' = nextPid + 1 /\ Pid \subseteq Nat
        BY <1>1, <2>1 DEF TypeOK, Pid
      <4> QED BY <4>1
    <3> QED BY <1>2, <2>1, <2>2, <2>3, <3>1
  <2>5. Life' = [Life EXCEPT ![nextPid] = "made"]
    BY <1>2, <2>1, <2>4
  <2>6. \E q \in Pid : Life[q] = "Running"
    BY <2>1, PhaseOfPlace
  <2> QED BY <2>1, <2>4, <2>5, <2>6, LifeMake
<1>5. CASE spawn
  <2> DEFINE p == making[current]
  <2>1. /\ initialized /\ Apart /\ Covered /\ p # NoPid /\ current \in Pid /\ nextPid' = nextPid
        /\ reaped' = reaped /\ state' = [state EXCEPT ![p] = "Ready"]
        /\ making' = [making EXCEPT ![current] = NoPid]
    BY <1>5 DEF spawn, Live, IInv, Started
  <2>2. p \in Pid /\ p \in Held /\ p \notin reaped /\ ~(p >= nextPid)
    <3>1. p \in Pid /\ p \in Held
      BY <1>1, <2>1 DEF TypeOK, Held
    <3>2. p \notin reaped /\ p \in 0..(nextPid - 1)
      BY <2>1, <3>1 DEF Apart, Covered
    <3>3. ~(p >= nextPid)
      <4>1. nextPid \in Nat
        BY <1>1 DEF TypeOK
      <4> HIDE DEF p
      <4> QED BY <3>2, <4>1
    <3> QED BY <3>1, <3>2, <3>3
  <2>3. Held' = Held \ {p}
    <3>1. making \in [Pid -> Pid \cup {NoPid}]
      BY <1>1 DEF TypeOK
    <3>2. \A q, r \in Pid : making[q] = making[r] /\ making[q] # NoPid => q = r
      BY <2>1 DEF Apart
    <3> QED BY <2>1, <3>1, <3>2, ReleaseOne DEF Held
  <2> HIDE DEF p
  <2>4. Life[p] = "made" /\ Life'[p] = "Ready" /\ \A q \in Pid : q # p => Life'[q] = Life[q]
    <3>1. state'[p] = "Ready" /\ \A q \in Pid : q # p => state'[q] = state[q]
      BY <1>1, <2>1, <2>2 DEF TypeOK
    <3> QED BY <1>2, <2>1, <2>2, <2>3, <3>1
  <2>5. Life' = [Life EXCEPT ![p] = "Ready"]
    BY <1>2, <2>2, <2>4
  <2> QED BY <2>2, <2>4, <2>5, LifeReady
<1>6. ASSUME NEW p \in Pid, unblock(p) PROVE Lifecycle!Next
  <2>1. /\ initialized /\ Apart /\ Covered /\ p \in blocked /\ nextPid' = nextPid
        /\ reaped' = reaped /\ state' = [state EXCEPT ![p] = "Ready"] /\ Held' = Held
    BY <1>6 DEF unblock, Live, IInv, Started, Held
  <2>2. p \notin reaped /\ p \notin Held /\ ~(p >= nextPid) /\ Life[p] = "Blocked"
    <3>1. p \notin reaped /\ p \notin Held
      BY <2>1 DEF Apart
    <3>2. ~(p >= nextPid)
      <4>1. p \in 0..(nextPid - 1)
        BY <2>1 DEF Covered
      <4>2. nextPid \in Nat
        BY <1>1 DEF TypeOK
      <4> QED BY <4>1, <4>2
    <3>3. Life[p] = "Blocked"
      BY <1>1, <2>1, PhaseOfPlace
    <3> QED BY <3>1, <3>2, <3>3
  <2>3. Life'[p] = "Ready" /\ \A q \in Pid : q # p => Life'[q] = Life[q]
    <3>1. state'[p] = "Ready" /\ \A q \in Pid : q # p => state'[q] = state[q]
      BY <1>1, <2>1 DEF TypeOK
    <3> QED BY <1>2, <2>1, <2>2, <3>1
  <2>4. Life' = [Life EXCEPT ![p] = "Ready"]
    BY <1>2, <2>3
  <2> QED BY <2>2, <2>4, LifeReady
<1> QED BY <1>3, <1>4, <1>5, <1>6

(* Every step of the scheduler is a step of the lifecycle, or none.         *)
LEMMA NextLife == IInv /\ IInv' /\ [Next]_vars => Lifecycle!Next \/ UNCHANGED Life
<1> SUFFICES ASSUME IInv, IInv', [Next]_vars PROVE Lifecycle!Next \/ UNCHANGED Life
  OBVIOUS
<1>1. ASSUME initialized
      PROVE  TypeOK /\ current \in Pid /\ state[current] = "Running"
  BY <1>1 DEF IInv, Started, StateAgrees
<1>2. initialized => state = [state EXCEPT ![current] = "Running"]
  BY <1>1 DEF TypeOK
<1>3. ASSUME UNCHANGED <<initialized, nextPid, making, reaped, state>> PROVE UNCHANGED Life
  BY <1>3 DEF Life, lifeOf, Held
<1>4. CASE tick
  <2>1. initialized /\ UNCHANGED <<initialized, nextPid, making>>
    BY <1>4 DEF tick, Live
  <2> DEFINE sl == [slice EXCEPT ![current] = charge(@)]
  <2>2. CASE exhausted(slice[current])
    <3>1. schedule(state, sl)
      BY <1>1, <1>4, <2>1, <2>2 DEF tick
    <3> HIDE DEF sl
    <3>2. schedule([state EXCEPT ![current] = "Running"], sl)
      BY <1>2, <2>1, <3>1
    <3> QED BY <2>1, <3>2, ScheduleLife
  <2>3. CASE ~exhausted(slice[current])
    BY <1>1, <1>3, <1>4, <2>1, <2>3 DEF tick, queues
  <2> QED BY <2>2, <2>3
<1>5. CASE yield_now
  <2>1. initialized /\ UNCHANGED <<initialized, nextPid, making>> /\ schedule(state, slice)
    BY <1>5 DEF yield_now, TaskMayCall, Live
  <2>2. schedule([state EXCEPT ![current] = "Running"], slice)
    BY <1>2, <2>1
  <2> QED BY <2>1, <2>2, ScheduleLife
<1>6. CASE exit_current
  <2> DEFINE sl == [slice EXCEPT ![current] = 0]
  <2>1. /\ initialized /\ current # PID_IDLE /\ UNCHANGED <<initialized, nextPid, making>>
        /\ schedule([state EXCEPT ![current] = "Zombie"], sl)
    BY <1>6 DEF exit_current, TaskMayCall, Live
  <2> HIDE DEF sl
  <2> QED BY <2>1, ScheduleLife
<1>7. CASE block_current
  <2>1. /\ initialized /\ current # PID_IDLE /\ UNCHANGED <<initialized, nextPid, making>>
        /\ schedule([state EXCEPT ![current] = "Blocked"], slice)
    BY <1>7 DEF block_current, TaskMayCall, Live
  <2> QED BY <2>1, ScheduleLife
<1>8. CASE UNCHANGED vars
  BY <1>3, <1>8 DEF vars, queues, pcbs
<1> QED BY <1>4, <1>5, <1>6, <1>7, <1>8, OtherLife DEF Next

(***************************************************************************)
(* Every step of the scheduler is a step of ProcessLifecycle or leaves the *)
(* phases alone, for every number of tasks: the arrows of                  *)
(* `enum ProcessState`, one Running process, every zombie reaped by the    *)
(* next scheduling event.                                                  *)
(***************************************************************************)
THEOREM LifecycleImplemented == Spec => ImplementsLifecycle
<1>1. Init => Lifecycle!Init
  BY DEF Init, Lifecycle!Init, lifeOf
<1>2. IInv /\ IInv' /\ [Next]_vars => [Lifecycle!Next]_[p \in Pid |-> lifeOf(p)]
  BY NextLife DEF Life
<1> QED BY <1>1, <1>2, InitIInv, NextIInv, PTL DEF Spec, ImplementsLifecycle, Lifecycle!Spec
=============================================================================
