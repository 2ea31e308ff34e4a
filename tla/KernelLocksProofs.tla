-------------------------- MODULE KernelLocksProofs --------------------------
(***************************************************************************)
(* The scheduler's critical section for every number of tasks: it is never *)
(* entered twice, and a task gets the interrupt flag back as it left it.   *)
(***************************************************************************)
EXTENDS KernelLocks, FiniteSetTheorems, TLAPS

Distinct(s) == \A i, j \in 1 .. Len(s) : s[i] = s[j] => i = j

(***************************************************************************)
(* The calls on a task's stack.  At most one is interrupted by a tick, and *)
(* that one is still outside the guard; ticks interrupt nothing but task   *)
(* code, and whatever IrqGuard saved is what the caller ran with.          *)
(***************************************************************************)
Shape(s) ==
  /\ Len(s) \in {0, 1, 2}
  /\ Len(s) = 2 => s[1].at = "out" /\ s[1].by # "tick" /\ s[2].by = "tick"

CallOK(t, f) ==
  /\ f.by = "tick" => t \notin sys
  /\ f.by = "exit" => t # IdleTask
  /\ f.at # "out" => (f.saved <=> f.by # "tick" /\ t \notin sys)

StackOK(t) == Shape(frames[t]) /\ \A i \in 1 .. Len(frames[t]) : CallOK(t, frames[t][i])

(* On the CPU the flag is clear from the interrupt gate or the guard on.   *)
RunningOK ==
  IF frames[current] = <<>> THEN iflag <=> current \notin sys
  ELSE /\ Top.at # "parked"
       /\ IF Top.at = "out" /\ Top.by # "tick" THEN iflag <=> current \notin sys ELSE ~iflag

(* Off the CPU a task has not started, or is parked in context_switch.     *)
WaitingOK(t) ==
  IF t \in fresh THEN frames[t] = <<>> /\ t \notin sys /\ t # IdleTask
  ELSE frames[t] # <<>> /\ frames[t][Len(frames[t])].at = "parked"

QueueOK ==
  /\ ready \in Seq(Task \ {IdleTask}) /\ Distinct(ready)
  /\ \A i \in 1 .. Len(ready) :
       /\ ready[i] # current
       /\ frames[ready[i]] # <<>> => frames[ready[i]][Len(frames[ready[i]])].by # "exit"

Typed ==
  /\ current \in Task /\ current \notin fresh
  /\ fresh \subseteq Task /\ defunct \subseteq Task /\ sys \subseteq Task
  /\ iflag \in BOOLEAN
  /\ frames \in [Task -> Seq(Frame)]
  /\ heap \in {{}} \cup {{t} : t \in Task}

IInv ==
  /\ Typed
  /\ QueueOK
  /\ RunningOK
  /\ \A t \in Task : StackOK(t)
  /\ \A t \in Task \ {current} : WaitingOK(t)

USE IdleAssumption, TaskAssumption

(* The kernel starts with one task and no critical section.                 *)
LEMMA InitIInv == Init => IInv
<1> SUFFICES ASSUME Init PROVE IInv
  OBVIOUS
<1>1. ready \in Seq(Task \ {IdleTask}) /\ Distinct(ready)
  <2> DEFINE n == Cardinality(Task \ {IdleTask})
  <2>1. n \in Nat
    BY FS_Subset, FS_CardinalityType
  <2>2. ready \in [1 .. n -> Task \ {IdleTask}] /\ \A i, j \in 1 .. n : i # j => ready[i] # ready[j]
    BY DEF Init, SetToSeqs
  <2> HIDE DEF n
  <2> QED BY <2>1, <2>2 DEF Distinct
<1>2. <<>> \in Seq(Frame) /\ Len(<<>>) = 0
  OBVIOUS
<1>3. frames \in [Task -> Seq(Frame)] /\ \A t \in Task : frames[t] = <<>>
  BY <1>2 DEF Init
<1>4. Typed /\ RunningOK
  BY <1>3 DEF Init, Typed, RunningOK
<1>5. QueueOK
  BY <1>1, <1>3 DEF Init, QueueOK
<1>6. \A t \in Task : StackOK(t)
  BY <1>2, <1>3 DEF StackOK, Shape
<1>7. \A t \in Task \ {current} : WaitingOK(t)
  BY <1>3 DEF Init, WaitingOK
<1> QED BY <1>4, <1>5, <1>6, <1>7 DEF IInv
-----------------------------------------------------------------------------
(* What a push, a change of the top and a pop do to a stack of calls.      *)
LEMMA PushTop ==
  ASSUME NEW s \in Seq(Frame), NEW f \in Frame, Shape(s),
         s # <<>> => s[Len(s)].at = "out" /\ s[Len(s)].by # "tick" /\ f.by = "tick"
  PROVE  LET r == Append(s, f) IN
         /\ r \in Seq(Frame) /\ r # <<>> /\ Shape(r)
         /\ r[Len(r)] = f
         /\ \A i \in 1 .. Len(r) : r[i] = f \/ (i \in 1 .. Len(s) /\ r[i] = s[i])
<1> DEFINE r == Append(s, f)
<1>1. /\ r \in Seq(Frame) /\ Len(r) = Len(s) + 1 /\ r[Len(s) + 1] = f /\ Len(s) \in Nat
      /\ \A i \in 1 .. Len(s) : r[i] = s[i]
  OBVIOUS
<1>0. r # <<>>
  BY <1>1
<1>2. Shape(r)
  <2>1. CASE s = <<>>
    <3>1. Len(r) = 1
      BY <2>1
    <3> QED BY <3>1 DEF Shape
  <2>2. CASE s # <<>>
    <3>1. Len(s) = 1
      BY <2>2 DEF Shape
    <3>2. Len(r) = 2 /\ r[1] = s[1] /\ r[2] = f
      BY <1>1, <3>1
    <3> QED BY <2>2, <3>1, <3>2 DEF Shape
  <2> QED BY <2>1, <2>2
<1>3. \A i \in 1 .. Len(r) : r[i] = f \/ (i \in 1 .. Len(s) /\ r[i] = s[i])
  <2> HIDE DEF r
  <2> QED BY <1>1
<1> QED BY <1>0, <1>1, <1>2, <1>3

(* A change of the innermost frame keeps the shape of a stack.              *)
LEMMA ChangeTop ==
  ASSUME NEW s \in Seq(Frame), s # <<>>, NEW f \in Frame, Shape(s), f.by = s[Len(s)].by
  PROVE  LET r == [s EXCEPT ![Len(s)] = f] IN
         /\ r \in Seq(Frame) /\ r # <<>> /\ Shape(r) /\ Len(r) = Len(s)
         /\ r[Len(r)] = f
         /\ \A i \in 1 .. Len(r) : r[i] = f \/ (i \in 1 .. Len(s) /\ r[i] = s[i])
<1> DEFINE r == [s EXCEPT ![Len(s)] = f]
<1>1. Len(s) \in Nat /\ Len(s) >= 1 /\ s \in [1 .. Len(s) -> Frame]
  OBVIOUS
<1>2. r \in [1 .. Len(s) -> Frame] /\ r[Len(s)] = f
  BY <1>1
<1>3. \A i \in 1 .. Len(s) : i # Len(s) => r[i] = s[i]
  BY <1>1
<1>4. r \in Seq(Frame) /\ Len(r) = Len(s)
  <2> HIDE DEF r
  <2> QED BY <1>1, <1>2
<1>5. r # <<>>
  BY <1>1, <1>4
<1> HIDE DEF r
<1>6. Shape(r)
  <2>1. CASE Len(s) = 2
    <3>1. r[1] = s[1] /\ r[2] = f /\ Len(r) = 2
      BY <1>2, <1>3, <1>4, <2>1
    <3> QED BY <2>1, <3>1 DEF Shape
  <2>2. CASE Len(s) # 2
    BY <1>4, <2>2 DEF Shape
  <2> QED BY <2>1, <2>2
<1> QED BY <1>2, <1>3, <1>4, <1>5, <1>6 DEF r

(* Leaving the innermost frame keeps the shape of a stack.                  *)
LEMMA PopTop ==
  ASSUME NEW s \in Seq(Frame), s # <<>>, Shape(s)
  PROVE  LET r == Front(s) IN
         /\ r \in Seq(Frame) /\ Shape(r)
         /\ r # <<>> => Len(r) = 1 /\ r[1] = s[1] /\ s[1].at = "out" /\ s[1].by # "tick" /\ s[Len(s)].by = "tick"
         /\ \A i \in 1 .. Len(r) : i \in 1 .. Len(s) /\ r[i] = s[i]
<1>1. PICK n \in Nat : n = Len(s) - 1
  OBVIOUS
<1> DEFINE r == SubSeq(s, 1, n)
<1>2. Len(r) = n
  BY <1>1
<1>3. r \in Seq(Frame) /\ \A i \in 1 .. n : r[i] = s[i]
  BY <1>1
<1>4. Len(s) = 1 \/ Len(s) = 2
  BY DEF Shape
<1> HIDE DEF r
<1>5. CASE Len(s) = 1
  <2>1. n = 0 /\ Len(r) = 0
    BY <1>1, <1>2, <1>5
  <2>2. r = <<>>
    BY <1>3, <2>1
  <2>3. Shape(r)
    BY <2>1 DEF Shape
  <2> QED BY <1>1, <1>3, <2>1, <2>2, <2>3 DEF Front, r
<1>6. CASE Len(s) = 2
  <2>1. n = 1 /\ Len(r) = 1 /\ r[1] = s[1]
    BY <1>1, <1>2, <1>3, <1>6
  <2>2. Shape(r) /\ s[1].at = "out" /\ s[1].by # "tick" /\ s[Len(s)].by = "tick"
    BY <1>6, <2>1 DEF Shape
  <2> QED BY <1>1, <1>3, <1>6, <2>1, <2>2 DEF Front, r
<1> QED BY <1>4, <1>5, <1>6

(***************************************************************************)
(* A step of the task on the CPU that stays on it disturbs only what the   *)
(* invariant says of that task.                                            *)
(***************************************************************************)
LEMMA LocalStep ==
  ASSUME IInv, Typed', RunningOK', StackOK(current)',
         UNCHANGED <<current, ready, fresh>>,
         \A t \in Task \ {current} : frames'[t] = frames[t] /\ (t \in sys' <=> t \in sys)
  PROVE  IInv'
<1>1. QueueOK'
  <2>1. QueueOK /\ current \in Task
    BY DEF IInv, Typed
  <2>2. \A i \in 1 .. Len(ready) : ready[i] \in Task /\ ready[i] # current
    BY <2>1 DEF QueueOK
  <2> QED BY <2>1, <2>2 DEF QueueOK, Distinct
<1>2. ASSUME NEW t \in Task PROVE StackOK(t)'
  <2>1. CASE t = current
    BY <2>1
  <2>2. CASE t # current
    BY <2>2 DEF IInv, StackOK, CallOK, Shape
  <2> QED BY <2>1, <2>2
<1>3. ASSUME NEW t \in Task \ {current}' PROVE WaitingOK(t)'
  <2>1. t # current /\ WaitingOK(t)
    BY DEF IInv
  <2> QED BY <2>1 DEF WaitingOK
<1> QED BY <1>1, <1>2, <1>3 DEF IInv
(* heap_lock, heap_unlock, syscall and sysret: outside the scheduler.      *)
LEMMA TaskStep == IInv /\ (heap_lock \/ heap_unlock \/ syscall \/ sysret) => IInv'
<1> SUFFICES ASSUME IInv, heap_lock \/ heap_unlock \/ syscall \/ sysret PROVE IInv'
  OBVIOUS
<1>1. /\ UNCHANGED <<current, ready, fresh, defunct, frames>> /\ frames[current] = <<>>
      /\ current \in Task /\ frames[current] \in Seq(Frame)
  BY DEF IInv, Typed, heap_lock, heap_unlock, syscall, sysret, InScheduler
<1>2. Typed'
  BY <1>1 DEF IInv, Typed, heap_lock, heap_unlock, syscall, sysret
<1>3. RunningOK'
  BY <1>1 DEF IInv, RunningOK, Typed, heap_lock, heap_unlock, syscall, sysret
<1>4. StackOK(current)'
  BY <1>1 DEF StackOK, CallOK, Shape
<1>5. \A t \in Task \ {current} : frames'[t] = frames[t] /\ (t \in sys' <=> t \in sys)
  BY <1>1 DEF heap_lock, heap_unlock, syscall, sysret
<1> QED BY <1>1, <1>2, <1>3, <1>4, <1>5, LocalStep

(* A call of the running task, or the timer interrupt, is pushed.          *)
LEMMA PushStep ==
  ASSUME IInv, NEW f \in Frame, f.at = "out",
         frames' = [frames EXCEPT ![current] = Append(@, f)],
         IF f.by = "tick" THEN iflag /\ iflag' = FALSE ELSE ~InScheduler /\ iflag' = iflag,
         f.by = "exit" => current # IdleTask,
         UNCHANGED <<current, ready, fresh, defunct, sys, heap>>
  PROVE  IInv'
<1> DEFINE s == frames[current]
           r == Append(s, f)
<1>1. /\ Typed /\ current \in Task /\ s \in Seq(Frame) /\ RunningOK
      /\ Shape(s) /\ \A i \in 1 .. Len(s) : CallOK(current, s[i])
  BY DEF IInv, Typed, StackOK
<1>2. s # <<>> => s[Len(s)].at = "out" /\ s[Len(s)].by # "tick" /\ f.by = "tick"
  BY <1>1 DEF RunningOK, Top, Last, InScheduler
<1>3. CallOK(current, f)
  BY <1>1 DEF RunningOK, CallOK
<1>4. frames'[current] = r /\ \A t \in Task \ {current} : frames'[t] = frames[t]
  BY <1>1 DEF Typed
<1>5. /\ r \in Seq(Frame) /\ r # <<>> /\ Shape(r) /\ r[Len(r)] = f
      /\ \A i \in 1 .. Len(r) : r[i] = f \/ (i \in 1 .. Len(s) /\ r[i] = s[i])
  <2> HIDE DEF s
  <2> QED BY <1>1, <1>2, PushTop
<1>6. Typed'
  <2>1. frames' \in [Task -> Seq(Frame)]
    BY <1>1, <1>5 DEF Typed
  <2>2. iflag' \in BOOLEAN
    BY <1>1 DEF Typed
  <2> QED BY <1>1, <2>1, <2>2 DEF Typed
<1> HIDE DEF r
<1>7. RunningOK'
  BY <1>1, <1>2, <1>4, <1>5 DEF RunningOK, InScheduler, Top, Last
<1>8. StackOK(current)'
  BY <1>1, <1>3, <1>4, <1>5 DEF StackOK, CallOK, Shape
<1> QED BY <1>4, <1>6, <1>7, <1>8, LocalStep

(* The innermost call moves on, past the guard that masked interrupts.     *)
LEMMA ChangeStep ==
  ASSUME IInv, InScheduler, NEW f \in Frame,
         frames' = [frames EXCEPT ![current] = [@ EXCEPT ![Len(@)] = f]],
         f.by = Top.by, f.at \notin {"out", "parked"}, CallOK(current, f),
         iflag' = FALSE, defunct' \subseteq Task,
         UNCHANGED <<current, ready, fresh, sys, heap>>
  PROVE  IInv'
<1> DEFINE s == frames[current]
           r == [s EXCEPT ![Len(s)] = f]
<1>1. /\ Typed /\ current \in Task /\ s \in Seq(Frame) /\ s # <<>> /\ f.by = s[Len(s)].by
      /\ Shape(s) /\ \A i \in 1 .. Len(s) : CallOK(current, s[i])
  BY DEF IInv, Typed, StackOK, InScheduler, Top, Last
<1>2. frames'[current] = r /\ \A t \in Task \ {current} : frames'[t] = frames[t]
  BY <1>1 DEF Typed
<1>3. /\ r \in Seq(Frame) /\ r # <<>> /\ Shape(r) /\ r[Len(r)] = f
      /\ \A i \in 1 .. Len(r) : r[i] = f \/ (i \in 1 .. Len(s) /\ r[i] = s[i])
  <2> HIDE DEF s
  <2> QED BY <1>1, ChangeTop
<1> HIDE DEF r
<1>4. Typed'
  <2>1. frames' \in [Task -> Seq(Frame)]
    BY <1>1, <1>3 DEF Typed, r
  <2> QED BY <1>1, <2>1 DEF Typed
<1>5. RunningOK'
  BY <1>2, <1>3 DEF RunningOK, Top, Last
<1>6. StackOK(current)'
  BY <1>1, <1>2, <1>3 DEF StackOK, CallOK, Shape
<1> QED BY <1>2, <1>4, <1>5, <1>6, LocalStep
(* A call returns, or the interrupt does, with the flag its caller had.    *)
LEMMA PopStep ==
  ASSUME IInv, InScheduler,
         frames' = [frames EXCEPT ![current] = Front(@)],
         iflag' \in BOOLEAN, iflag' <=> current \notin sys,
         UNCHANGED <<current, ready, fresh, defunct, sys, heap>>
  PROVE  IInv'
<1> DEFINE s == frames[current]
           r == Front(s)
<1>1. /\ Typed /\ current \in Task /\ s \in Seq(Frame) /\ s # <<>>
      /\ Shape(s) /\ \A i \in 1 .. Len(s) : CallOK(current, s[i])
  BY DEF IInv, Typed, StackOK, InScheduler
<1>2. frames'[current] = r /\ \A t \in Task \ {current} : frames'[t] = frames[t]
  BY <1>1 DEF Typed
<1>3. /\ r \in Seq(Frame) /\ Shape(r)
      /\ r # <<>> => Len(r) = 1 /\ r[1].at = "out" /\ r[1].by # "tick"
      /\ \A i \in 1 .. Len(r) : i \in 1 .. Len(s) /\ r[i] = s[i]
  <2> HIDE DEF s
  <2> QED BY <1>1, PopTop
<1> HIDE DEF r
<1>4. Typed'
  <2>1. frames' \in [Task -> Seq(Frame)]
    BY <1>1, <1>3 DEF Typed, r
  <2> QED BY <1>1, <2>1 DEF Typed
<1>5. RunningOK'
  BY <1>2, <1>3 DEF RunningOK, Top, Last
<1>6. StackOK(current)'
  BY <1>1, <1>2, <1>3 DEF StackOK, CallOK, Shape
<1> QED BY <1>2, <1>4, <1>5, <1>6, LocalStep

(***************************************************************************)
(* The queue when schedule takes `next` from its front, or the idle task   *)
(* when it is empty, and puts the running task at the back or not.         *)
(***************************************************************************)
Takes(q, c, next, rest, back) ==
  /\ q \in Seq(Task \ {IdleTask}) /\ Distinct(q)
  /\ c \in Task /\ \A i \in 1 .. Len(q) : q[i] # c
  /\ q = <<>> => c # IdleTask
  /\ next = IF q = <<>> THEN IdleTask ELSE Head(q)
  /\ rest = IF q = <<>> THEN <<>> ELSE Tail(q)
  /\ back = rest \/ (back = Append(rest, c) /\ c # IdleTask)

(* The task that pop_front takes is another task of the queue.              *)
LEMMA TakeNext ==
  ASSUME NEW q, NEW c, NEW next, NEW rest, NEW back, Takes(q, c, next, rest, back)
  PROVE  /\ next \in Task /\ next # c
         /\ back \in Seq(Task \ {IdleTask})
         /\ next # IdleTask => \E i \in 1 .. Len(q) : next = q[i]
         /\ Distinct(back)
         /\ \A i \in 1 .. Len(back) :
              /\ back[i] # next
              /\ \/ back[i] = c /\ back = Append(rest, c)
                 \/ back[i] # c /\ \E j \in 1 .. Len(q) : back[i] = q[j]
<1> USE DEF Takes
<1> DEFINE T == Task \ {IdleTask}
<1>1. rest \in Seq(T)
  OBVIOUS
<1>2. /\ next \in Task /\ next # c
      /\ next # IdleTask => \E i \in 1 .. Len(q) : next = q[i]
  <2>1. CASE q = <<>>
    BY <2>1
  <2>2. CASE q # <<>>
    <3>1. next = q[1] /\ 1 \in 1 .. Len(q)
      BY <2>2
    <3> QED BY <3>1
  <2> QED BY <2>1, <2>2
<1>3. \A i \in 1 .. Len(rest) : i + 1 \in 1 .. Len(q) /\ rest[i] = q[i + 1]
  <2>1. CASE q = <<>>
    BY <2>1
  <2>2. CASE q # <<>>
    BY <2>2
  <2> QED BY <2>1, <2>2
<1>4. \A i \in 1 .. Len(rest) : rest[i] # next /\ rest[i] # c
  <2> TAKE i \in 1 .. Len(rest)
  <2>1. CASE q = <<>>
    BY <1>3, <2>1
  <2>2. CASE q # <<>>
    <3>1. next = q[1] /\ 1 \in 1 .. Len(q) /\ i + 1 # 1 /\ i + 1 \in 1 .. Len(q) /\ rest[i] = q[i + 1]
      BY <1>1, <1>3, <2>2
    <3> QED BY <3>1 DEF Distinct
  <2> QED BY <2>1, <2>2
<1>5. Distinct(rest)
  <2> SUFFICES ASSUME NEW i \in 1 .. Len(rest), NEW j \in 1 .. Len(rest), rest[i] = rest[j] PROVE i = j
    BY DEF Distinct
  <2>1. i + 1 = j + 1
    BY <1>3 DEF Distinct
  <2> QED BY <1>1, <2>1
<1>6. CASE back = rest
  BY <1>1, <1>2, <1>3, <1>4, <1>5, <1>6
<1>7. CASE back = Append(rest, c) /\ c # IdleTask
  <2> HIDE DEF T
  <2>0. c \in T
    BY <1>7 DEF T
  <2>1. /\ back \in Seq(T) /\ Len(back) = Len(rest) + 1 /\ Len(rest) \in Nat
        /\ back[Len(rest) + 1] = c
        /\ \A i \in 1 .. Len(rest) : back[i] = rest[i]
    BY <1>1, <1>7, <2>0
  <2>2. ASSUME NEW i \in 1 .. Len(back) PROVE i \in 1 .. Len(rest) \/ i = Len(rest) + 1
    BY <2>1
  <2>3. Distinct(back)
    <3> SUFFICES ASSUME NEW i \in 1 .. Len(back), NEW j \in 1 .. Len(back), back[i] = back[j] PROVE i = j
      BY DEF Distinct
    <3>1. CASE i \in 1 .. Len(rest) /\ j \in 1 .. Len(rest)
      BY <1>5, <2>1, <3>1 DEF Distinct
    <3>2. CASE i = Len(rest) + 1 \/ j = Len(rest) + 1
      BY <1>4, <2>1, <2>2, <3>2
    <3> QED BY <2>2, <3>1, <3>2
  <2>4. ASSUME NEW i \in 1 .. Len(back)
        PROVE  back[i] # next /\ (back[i] = c \/ (back[i] # c /\ \E j \in 1 .. Len(q) : back[i] = q[j]))
    <3>1. CASE i = Len(rest) + 1
      BY <1>2, <2>1, <3>1
    <3>2. CASE i \in 1 .. Len(rest)
      BY <1>3, <1>4, <2>1, <3>2
    <3> QED BY <2>2, <3>1, <3>2
  <2> QED BY <1>2, <1>7, <2>1, <2>3, <2>4 DEF T
<1> QED BY <1>6, <1>7
(* context_switch: two stacks change, the flag goes with the incoming one. *)
LEMMA SwitchStep == IInv /\ switch => IInv'
<1> SUFFICES ASSUME IInv, switch PROVE IInv'
  OBVIOUS
<1> DEFINE next == IF ready = <<>> THEN IdleTask ELSE Head(ready)
           rest == IF ready = <<>> THEN <<>> ELSE Tail(ready)
           s == frames[current]
           n == frames[next]
           out == [s[Len(s)] EXCEPT !.at = "parked"]
           back == [n[Len(n)] EXCEPT !.at = "leaving"]
           sPut == [s EXCEPT ![Len(s)] = out]
           nPut == [n EXCEPT ![Len(n)] = back]
<1>1. /\ Typed /\ current \in Task /\ s \in Seq(Frame) /\ s # <<>> /\ QueueOK
      /\ s[Len(s)].at = "reaped" /\ StackOK(current) /\ Shape(s)
      /\ \A i \in 1 .. Len(s) : CallOK(current, s[i])
  BY DEF IInv, Typed, switch, At, InScheduler, Top, Last, StackOK
<1>2. s[Len(s)].by = "exit" => current # IdleTask
  <2>1. Len(s) \in 1 .. Len(s)
    BY <1>1
  <2> QED BY <1>1, <2>1 DEF CallOK
<1>3. ready # <<>> \/ s[Len(s)].by = "exit"
  BY DEF switch, Top, Last
<1>4. /\ next \in Task /\ next # current
      /\ next # IdleTask => \E i \in 1 .. Len(ready) : next = ready[i]
      /\ ready' \in Seq(Task \ {IdleTask}) /\ Distinct(ready')
      /\ \A i \in 1 .. Len(ready') :
           /\ ready'[i] # next
           /\ \/ ready'[i] = current /\ ready' = Append(rest, current)
              \/ ready'[i] # current /\ \E j \in 1 .. Len(ready) : ready'[i] = ready[j]
  <2>1. ready \in Seq(Task \ {IdleTask}) /\ Distinct(ready) /\ \A i \in 1 .. Len(ready) : ready[i] # current
    BY <1>1 DEF QueueOK
  <2>2. ready = <<>> => current # IdleTask
    BY <1>2, <1>3
  <2>3. ready' = rest \/ (ready' = Append(rest, current) /\ current # IdleTask)
    BY DEF switch
  <2> HIDE DEF next, rest, s, n, out, back, sPut, nPut
  <2>4. next = IF ready = <<>> THEN IdleTask ELSE Head(ready)
    BY DEF next
  <2>5. rest = IF ready = <<>> THEN <<>> ELSE Tail(ready)
    BY DEF rest
  <2>6. Takes(ready, current, next, rest, ready')
    BY <1>1, <2>1, <2>2, <2>3, <2>4, <2>5 DEF Takes
  <2>7. /\ next \in Task /\ next # current
        /\ ready' \in Seq(Task \ {IdleTask})
        /\ next # IdleTask => \E i \in 1 .. Len(ready) : next = ready[i]
        /\ Distinct(ready')
        /\ \A i \in 1 .. Len(ready') :
             /\ ready'[i] # next
             /\ \/ ready'[i] = current /\ ready' = Append(rest, current)
                \/ ready'[i] # current /\ \E j \in 1 .. Len(ready) : ready'[i] = ready[j]
    BY <2>6, TakeNext, SMT
  <2> QED BY <2>7
<1>5. /\ current' = next /\ fresh' = fresh \ {next} /\ iflag' = (next \in fresh)
      /\ defunct' \subseteq Task /\ UNCHANGED <<sys, heap>>
      /\ s[Len(s)].by = "exit" => ready' = rest
  BY <1>1 DEF switch, Typed, Top, Last
<1> HIDE DEF next, rest
<1>6. WaitingOK(next) /\ StackOK(next) /\ n \in Seq(Frame)
  BY <1>1, <1>4 DEF IInv, Typed
<1>7. /\ frames'[current] = sPut
      /\ frames'[next] = IF next \in fresh THEN n ELSE nPut
      /\ \A t \in Task \ {current, next} : frames'[t] = frames[t]
      /\ frames' = [[t \in Task |-> frames'[t]] EXCEPT ![current] = sPut]
  BY <1>1, <1>4 DEF switch, Typed, next
<1>8. /\ sPut \in Seq(Frame) /\ sPut # <<>> /\ Shape(sPut) /\ Len(sPut) = Len(s) /\ sPut[Len(sPut)] = out
      /\ \A i \in 1 .. Len(sPut) : sPut[i] = out \/ (i \in 1 .. Len(s) /\ sPut[i] = s[i])
      /\ out.by = s[Len(s)].by /\ out.at = "parked" /\ out.saved = s[Len(s)].saved
  <2>1. s[Len(s)] \in Frame
    BY <1>1
  <2>2. out \in Frame /\ out.by = s[Len(s)].by /\ out.at = "parked" /\ out.saved = s[Len(s)].saved
    BY <2>1 DEF Frame
  <2> HIDE DEF s, out
  <2> QED BY <1>1, <2>2, ChangeTop
<1>9. CallOK(current, out)
  <2>1. Len(s) \in 1 .. Len(s)
    BY <1>1
  <2>2. CallOK(current, s[Len(s)])
    BY <1>1, <2>1
  <2> QED BY <1>1, <1>8, <2>2 DEF CallOK
<1>10. ASSUME next \notin fresh
       PROVE  /\ nPut \in Seq(Frame) /\ nPut # <<>> /\ Shape(nPut) /\ nPut[Len(nPut)].at = "leaving"
              /\ \A i \in 1 .. Len(nPut) : CallOK(next, nPut[i])
  <2>1. /\ n # <<>> /\ n[Len(n)].at = "parked" /\ Shape(n) /\ Len(n) \in 1 .. Len(n)
        /\ \A i \in 1 .. Len(n) : CallOK(next, n[i])
    BY <1>6, <1>10 DEF WaitingOK, StackOK
  <2>2. n[Len(n)] \in Frame
    BY <1>6, <2>1
  <2>3. back \in Frame /\ back.by = n[Len(n)].by /\ back.at = "leaving" /\ back.saved = n[Len(n)].saved
    BY <2>2 DEF Frame
  <2>4. CallOK(next, back)
    <3>1. CallOK(next, n[Len(n)])
      BY <2>1
    <3> QED BY <2>1, <2>3, <3>1 DEF CallOK
  <2>5. /\ nPut \in Seq(Frame) /\ nPut # <<>> /\ Shape(nPut) /\ nPut[Len(nPut)] = back
        /\ \A i \in 1 .. Len(nPut) : nPut[i] = back \/ (i \in 1 .. Len(n) /\ nPut[i] = n[i])
    <3> HIDE DEF n, back
    <3> QED BY <1>6, <2>1, <2>3, ChangeTop
  <2> HIDE DEF back, nPut
  <2> QED BY <2>1, <2>3, <2>4, <2>5
<1> HIDE DEF sPut, nPut, out, back
<1>11. Typed'
  <2>1. ASSUME NEW t \in Task PROVE frames'[t] \in Seq(Frame)
    <3>1. CASE t = current
      BY <1>7, <1>8, <3>1
    <3>2. CASE t = next
      BY <1>6, <1>7, <1>10, <3>2
    <3>3. CASE t \notin {current, next}
      <4>1. frames'[t] = frames[t]
        BY <1>7, <3>3
      <4>2. frames[t] \in Seq(Frame)
        BY <1>1 DEF Typed
      <4> QED BY <4>1, <4>2
    <3> QED BY <3>1, <3>2, <3>3
  <2>2. frames' \in [Task -> Seq(Frame)]
    BY <1>1, <1>7, <1>8, <2>1
  <2>3. iflag' \in BOOLEAN
    BY <1>5
  <2> QED BY <1>1, <1>4, <1>5, <2>2, <2>3 DEF Typed
<1>12. RunningOK'
  <2>1. CASE next \in fresh
    BY <1>5, <1>6, <1>7, <2>1 DEF RunningOK, WaitingOK
  <2>2. CASE next \notin fresh
    BY <1>5, <1>7, <1>10, <2>2 DEF RunningOK, Top, Last
  <2> QED BY <2>1, <2>2
<1>13. ASSUME NEW t \in Task PROVE StackOK(t)'
  <2>1. CASE t = current
    BY <1>1, <1>5, <1>7, <1>8, <1>9, <2>1 DEF StackOK, CallOK, Shape
  <2>2. CASE t = next /\ next \notin fresh
    BY <1>5, <1>7, <1>10, <2>2 DEF StackOK, CallOK, Shape
  <2>3. CASE t # current /\ (t = next => next \in fresh)
    BY <1>5, <1>7, <2>3 DEF IInv, StackOK, CallOK, Shape
  <2> QED BY <2>1, <2>2, <2>3
<1>14. ASSUME NEW t \in Task \ {current}' PROVE WaitingOK(t)'
  <2>1. CASE t = current
    <3>1. t \notin fresh
      BY <1>1, <2>1 DEF Typed
    <3> QED BY <1>5, <1>7, <1>8, <2>1, <3>1 DEF WaitingOK
  <2>2. CASE t # current
    <3>1. WaitingOK(t) /\ t # next
      BY <1>5, <2>2 DEF IInv
    <3> QED BY <1>5, <1>7, <2>2, <3>1 DEF WaitingOK
  <2> QED BY <2>1, <2>2
<1>15. QueueOK'
  <2>1. ASSUME NEW i \in 1 .. Len(ready')
        PROVE  /\ ready'[i] # current'
               /\ frames'[ready'[i]] # <<>> => frames'[ready'[i]][Len(frames'[ready'[i]])].by # "exit"
    <3>1. ready'[i] # next
      BY <1>4
    <3>2. CASE ready'[i] = current /\ ready' = Append(rest, current)
      <4>1. ready' # rest
        <5>1. rest \in Seq(Task)
          BY <1>1 DEF QueueOK, rest
        <5>2. Len(ready') = Len(rest) + 1 /\ Len(rest) \in Nat
          BY <1>1, <3>2, <5>1
        <5>3. Len(ready') # Len(rest)
          BY <5>2
        <5> QED BY <5>3
      <4> QED BY <1>5, <1>7, <1>8, <3>1, <3>2, <4>1
    <3>3. CASE ready'[i] # current /\ \E j \in 1 .. Len(ready) : ready'[i] = ready[j]
      <4>1. PICK j \in 1 .. Len(ready) : ready'[i] = ready[j]
        BY <3>3
      <4>2. ready[j] \in Task /\ (frames[ready[j]] # <<>> => frames[ready[j]][Len(frames[ready[j]])].by # "exit")
        BY <1>1 DEF QueueOK
      <4>3. frames'[ready'[i]] = frames[ready[j]]
        BY <1>7, <3>1, <3>3, <4>1, <4>2
      <4> QED BY <1>5, <3>1, <4>1, <4>2, <4>3
    <3> QED BY <1>4, <3>2, <3>3
  <2> QED BY <1>4, <2>1 DEF QueueOK
<1> QED BY <1>11, <1>12, <1>13, <1>14, <1>15 DEF IInv
(* with, no_schedule, reap, keep, and drop on the way to iret.             *)
LEMMA AdvanceStep ==
  ASSUME IInv, NEW a \in {"in", "reaped", "leaving", "left"}, InScheduler, Top.at \notin {"out", "parked"},
         Goto(a), iflag' = FALSE, defunct' \subseteq Task, UNCHANGED <<current, ready, fresh, sys, heap>>
  PROVE  IInv'
<1> DEFINE s == frames[current]
           f == [s[Len(s)] EXCEPT !.at = a]
<1>1. /\ current \in Task /\ s \in Seq(Frame) /\ s # <<>> /\ Len(s) \in 1 .. Len(s)
      /\ \A i \in 1 .. Len(s) : CallOK(current, s[i])
  BY DEF IInv, Typed, StackOK, InScheduler
<1>2. s[Len(s)] \in Frame /\ CallOK(current, s[Len(s)]) /\ s[Len(s)].at # "out" /\ Top = s[Len(s)]
  BY <1>1 DEF Top, Last
<1>3. f \in Frame /\ f.by = s[Len(s)].by /\ f.at = a /\ f.saved = s[Len(s)].saved
  BY <1>2 DEF Frame
<1>4. CallOK(current, f)
  BY <1>2, <1>3 DEF CallOK
<1>5. frames' = [frames EXCEPT ![current] = [@ EXCEPT ![Len(@)] = f]]
  BY DEF Goto
<1> HIDE DEF f
<1> QED BY <1>2, <1>3, <1>4, <1>5, ChangeStep

(* GlobalScheduler::with turns interrupts off and opens a section.          *)
LEMMA WithStep == IInv /\ with => IInv'
<1> SUFFICES ASSUME IInv, with PROVE IInv'
  OBVIOUS
<1> DEFINE s == frames[current]
           f == [s[Len(s)] EXCEPT !.at = "in", !.saved = iflag]
<1>1. /\ current \in Task /\ s \in Seq(Frame) /\ s # <<>> /\ Len(s) \in 1 .. Len(s) /\ iflag \in BOOLEAN
      /\ \A i \in 1 .. Len(s) : CallOK(current, s[i])
  BY DEF IInv, Typed, StackOK, InScheduler, with, At
<1>2. s[Len(s)] \in Frame /\ CallOK(current, s[Len(s)]) /\ s[Len(s)].at = "out" /\ Top = s[Len(s)]
  BY <1>1 DEF Top, Last, with, At
<1>3. f \in Frame /\ f.by = s[Len(s)].by /\ f.at = "in" /\ f.saved = iflag
  BY <1>1, <1>2 DEF Frame
<1>4. IF s[Len(s)].by # "tick" THEN iflag <=> current \notin sys ELSE ~iflag
  BY <1>1, <1>2 DEF IInv, RunningOK
<1>5. CallOK(current, f)
  BY <1>2, <1>3, <1>4 DEF CallOK
<1>6. frames' = [frames EXCEPT ![current] = [@ EXCEPT ![Len(@)] = f]]
  BY DEF with, Top, Last
<1>7. iflag' = FALSE /\ defunct' \subseteq Task /\ UNCHANGED <<current, ready, fresh, sys, heap>> /\ InScheduler
  BY DEF with, IInv, Typed, At
<1> HIDE DEF f
<1> QED BY <1>2, <1>3, <1>5, <1>6, <1>7, ChangeStep

(* The steps of schedule that switch to nobody.                             *)
LEMMA SchedulerStep == IInv /\ (no_schedule \/ reap \/ keep) => IInv'
<1> SUFFICES ASSUME IInv, no_schedule \/ reap \/ keep PROVE IInv'
  OBVIOUS
<1>1. /\ InScheduler /\ Top.at \in {"in", "reaped"} /\ defunct' \subseteq Task
      /\ UNCHANGED <<current, ready, fresh, iflag, sys, heap>>
      /\ \E a \in {"in", "reaped", "leaving", "left"} : Goto(a)
  BY DEF no_schedule, reap, keep, At, IInv, Typed
<1>2. iflag' = FALSE
  BY <1>1 DEF IInv, RunningOK, InScheduler, Typed
<1> QED BY <1>1, <1>2, AdvanceStep

(* A kernel call and a timer interrupt each push a frame, the latter only   *)
(* with interrupts on.                                                      *)
LEMMA EntryStep == IInv /\ (Call \/ Timer) => IInv'
<1> SUFFICES ASSUME IInv, Call \/ Timer PROVE IInv'
  OBVIOUS
<1> DEFINE f(by) == [by |-> by, at |-> "out", saved |-> FALSE]
<1>1. CASE Call
  <2>1. PICK by \in {"call", "exit"} : (by = "exit" => current # IdleTask) /\ Push(by)
    BY <1>1 DEF Call
  <2>2. f(by) \in Frame /\ f(by).at = "out" /\ f(by).by = by
    BY DEF Frame
  <2>3. frames' = [frames EXCEPT ![current] = Append(@, f(by))]
    BY <2>1 DEF Push
  <2>4. ~InScheduler /\ UNCHANGED <<current, ready, fresh, defunct, iflag, sys, heap>>
    BY <1>1 DEF Call
  <2> HIDE DEF f
  <2> QED BY <2>1, <2>2, <2>3, <2>4, PushStep
<1>2. CASE Timer
  <2>1. f("tick") \in Frame /\ f("tick").at = "out" /\ f("tick").by = "tick"
    BY DEF Frame
  <2>2. frames' = [frames EXCEPT ![current] = Append(@, f("tick"))]
    BY <1>2 DEF Timer, Push
  <2>3. iflag /\ iflag' = FALSE /\ UNCHANGED <<current, ready, fresh, defunct, sys, heap>>
    BY <1>2 DEF Timer
  <2> HIDE DEF f
  <2> QED BY <2>1, <2>2, <2>3, PushStep
<1> QED BY <1>1, <1>2

(* IrqGuard::drop restores what the guard saved, iret what the gate pushed. *)
LEMMA LeaveStep == IInv /\ (drop \/ iret) => IInv'
<1> SUFFICES ASSUME IInv, drop \/ iret PROVE IInv'
  OBVIOUS
<1>1. /\ InScheduler /\ Top.at \in {"leaving", "left"} /\ current \in Task
      /\ UNCHANGED <<current, ready, fresh, defunct, sys, heap>>
  BY DEF drop, iret, At, IInv, Typed
<1>2. CallOK(current, Top) /\ Top.saved \in BOOLEAN
  <2>1. /\ frames[current] \in Seq(Frame) /\ Len(frames[current]) \in 1 .. Len(frames[current])
        /\ \A i \in 1 .. Len(frames[current]) : CallOK(current, frames[current][i])
    BY <1>1 DEF IInv, Typed, StackOK, InScheduler
  <2>2. Top = frames[current][Len(frames[current])]
    BY DEF Top, Last
  <2>3. Top \in Frame
    BY <2>1, <2>2
  <2> QED BY <2>1, <2>2, <2>3 DEF Frame
<1>3. CASE drop /\ Top.by = "tick"
  <2>1. Goto("left") /\ iflag' = Top.saved
    BY <1>3 DEF drop, Goto
  <2>2. iflag' = FALSE
    BY <1>1, <1>2, <1>3, <2>1 DEF CallOK
  <2>3. defunct' \subseteq Task
    BY <1>1 DEF IInv, Typed
  <2> QED BY <1>1, <2>1, <2>2, <2>3, AdvanceStep
<1>4. CASE drop /\ Top.by # "tick"
  <2>1. frames' = [frames EXCEPT ![current] = Front(@)]
    BY <1>4 DEF drop
  <2>2. iflag' \in BOOLEAN /\ (iflag' <=> current \notin sys)
    BY <1>1, <1>2, <1>4 DEF drop, CallOK
  <2> QED BY <1>1, <2>1, <2>2, PopStep
<1>5. CASE iret
  <2>1. frames' = [frames EXCEPT ![current] = Front(@)] /\ iflag' = TRUE /\ Top.by = "tick"
    BY <1>5 DEF iret, At
  <2>2. current \notin sys
    BY <1>2, <2>1 DEF CallOK
  <2> QED BY <1>1, <2>1, <2>2, PopStep
<1> QED BY <1>3, <1>4, <1>5

(* Every step keeps the invariant.                                          *)
LEMMA NextIInv == IInv /\ [Next]_vars => IInv'
<1>1. IInv /\ UNCHANGED vars => IInv'
  BY DEF vars, IInv, Typed, QueueOK, RunningOK, StackOK, WaitingOK, CallOK, Shape, Distinct, Top
<1> QED BY <1>1, TaskStep, EntryStep, WithStep, SchedulerStep, SwitchStep, LeaveStep DEF Next
-----------------------------------------------------------------------------
(***************************************************************************)
(* A call past the guard and not parked is the running task's innermost.   *)
(***************************************************************************)
LEMMA IInvImplies == IInv => TypeOK /\ NotReentered /\ FlagsTransparent
<1> SUFFICES ASSUME IInv PROVE TypeOK /\ NotReentered /\ FlagsTransparent
  OBVIOUS
<1>1. TypeOK
  <2>1. \A t \in Task : frames[t] \in Seq(Frame) /\ Len(frames[t]) <= 2
    <3> TAKE t \in Task
    <3>1. frames[t] \in Seq(Frame) /\ Len(frames[t]) \in {0, 1, 2}
      BY DEF IInv, Typed, StackOK, Shape
    <3>2. PICK n \in {0, 1, 2} : n = Len(frames[t])
      BY <3>1
    <3>3. n <= 2
      OBVIOUS
    <3> QED BY <3>1, <3>2, <3>3, Zenon
  <2>2. heap \subseteq Task /\ Cardinality(heap) <= 1
    <3>1. CASE heap = {}
      BY <3>1, FS_EmptySet
    <3>2. ASSUME NEW t \in Task, heap = {t} PROVE Cardinality(heap) <= 1 /\ heap \subseteq Task
      <4>1. Cardinality({t}) = 1
        BY FS_Singleton
      <4> QED BY <3>2, <4>1
    <3> QED BY <3>1, <3>2 DEF IInv, Typed
  <2> QED BY <2>1, <2>2 DEF IInv, Typed, QueueOK, TypeOK
<1>2. ASSUME NEW t \in Task, NEW i \in DOMAIN frames[t], frames[t][i].at \in {"in", "reaped", "leaving"}
      PROVE  t = current /\ i = Len(frames[current])
  <2>1. frames[t] \in Seq(Frame) /\ Shape(frames[t]) /\ i \in 1 .. Len(frames[t])
    BY DEF IInv, Typed, StackOK
  <2>2. i = Len(frames[t])
    <3>1. CASE Len(frames[t]) = 2
      BY <1>2, <2>1, <3>1 DEF Shape
    <3>2. CASE Len(frames[t]) = 1
      BY <2>1, <3>2
    <3>3. CASE Len(frames[t]) = 0
      BY <2>1, <3>3
    <3> QED BY <2>1, <3>1, <3>2, <3>3 DEF Shape
  <2>3. t = current
    <3> SUFFICES ASSUME t # current PROVE FALSE
      OBVIOUS
    <3>1. WaitingOK(t)
      BY DEF IInv
    <3>2. frames[t] # <<>>
      BY <2>1
    <3> QED BY <1>2, <2>2, <3>1, <3>2 DEF WaitingOK
  <2> QED BY <2>2, <2>3
<1>3. NotReentered
  BY <1>2 DEF NotReentered
<1>4. FlagsTransparent
  BY DEF IInv, RunningOK, Typed, FlagsTransparent, InScheduler
<1> QED BY <1>1, <1>3, <1>4

(***************************************************************************)
(* However many tasks are interrupted, preempted, parked and resumed, in   *)
(* whatever order, GlobalScheduler::with is never inside itself: the       *)
(* `&mut Scheduler` it hands out is the only one.                          *)
(***************************************************************************)
THEOREM CriticalSectionExclusive == Spec => [](TypeOK /\ NotReentered)
<1>1. Init => IInv
  BY InitIInv
<1>2. IInv /\ [Next]_vars => IInv'
  BY NextIInv
<1>3. IInv => TypeOK /\ NotReentered
  BY IInvImplies
<1> QED BY <1>1, <1>2, <1>3, PTL DEF Spec

(***************************************************************************)
(* IrqGuard's saved flags, kept on the stack that is switched away, bring  *)
(* every task back to the interrupt flag it called or was interrupted with.*)
(***************************************************************************)
THEOREM FlagsRestored == Spec => []FlagsTransparent
<1>1. Init => IInv
  BY InitIInv
<1>2. IInv /\ [Next]_vars => IInv'
  BY NextIInv
<1>3. IInv => FlagsTransparent
  BY IInvImplies
<1> QED BY <1>1, <1>2, <1>3, PTL DEF Spec
=============================================================================
