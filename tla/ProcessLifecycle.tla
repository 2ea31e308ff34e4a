-------------------------- MODULE ProcessLifecycle --------------------------
(***************************************************************************)
(* What the scheduler promises about a process, whatever the policy: the   *)
(* arrows of `enum ProcessState` (src/scheduler/process.rs), that the CPU  *)
(* has exactly one Running process from init on, and that a process which  *)
(* exited never comes back.  "unborn", "made" and "gone" are the ends of a *)
(* PCB's life the enum has no name for: no PCB yet, a PCB not queued yet,  *)
(* a PCB dropped.                                                          *)
(***************************************************************************)
CONSTANT Proc,       \* process identifiers
         Bootstrap,  \* the process that is running when the scheduler starts
         Idle        \* the process that is always there to run

VARIABLE life

Phase == {"unborn", "made", "Ready", "Running", "Blocked", "Zombie", "gone"}

Init == life = [p \in Proc |-> "unborn"]

Running == {p \in Proc : life[p] = "Running"}

Boot ==
  /\ life = [p \in Proc |-> "unborn"]
  /\ life' = [life EXCEPT ![Bootstrap] = "Running", ![Idle] = "Ready"]

Make(p) ==
  /\ life[p] = "unborn" /\ Running # {}
  /\ life' = [life EXCEPT ![p] = "made"]

Enqueue(p) == life[p] = "made" /\ life' = [life EXCEPT ![p] = "Ready"]

Wake(p) == life[p] = "Blocked" /\ life' = [life EXCEPT ![p] = "Ready"]

(* Every scheduling event reaps the zombies that were there before it. *)
Reaped == [p \in Proc |-> IF life[p] = "Zombie" THEN "gone" ELSE life[p]]

Keep == life' = Reaped

(* p leaves the CPU in phase s and q takes it in the same step. *)
Switch(p, q, s) ==
  /\ life[p] = "Running" /\ life[q] = "Ready"
  /\ s \in IF p = Idle THEN {"Ready"} ELSE {"Ready", "Blocked", "Zombie"}
  /\ life' = [Reaped EXCEPT ![p] = s, ![q] = "Running"]

Next ==
  \/ Boot \/ Keep
  \/ \E p \in Proc : Make(p) \/ Enqueue(p) \/ Wake(p)
  \/ \E p, q \in Proc, s \in Phase : Switch(p, q, s)

Spec == Init /\ [][Next]_life
=============================================================================
