----------------------------- MODULE MCScheduler -----------------------------
(***************************************************************************)
(* Instances of Scheduler for TLC, with a history variable that counts     *)
(* timer ticks.                                                            *)
(***************************************************************************)
EXTENDS Scheduler, FiniteSetsExt

VARIABLE waited   \* ticks each task has spent in the ready queue, up to MaxWait

(***************************************************************************)
(* A turn is the quantum, or one tick for the bootstrap task, whose slice  *)
(* is 0.                                                                   *)
(***************************************************************************)
turn(p) == IF p = PID_BOOTSTRAP THEN 1 ELSE Quantum
MaxWait == MapThenSumSet(turn, Pid)

Count(n) ==
  waited' = [p \in Pid |-> IF p \in Queued' /\ p \in Queued /\ p # current
                             THEN Min({waited[p] + n, MaxWait}) ELSE 0]

TimedInit == Init /\ waited = [p \in Pid |-> 0]

TimedNext ==
  \/ tick /\ Count(1)
  \/ /\ \/ init \/ alloc_pid \/ spawn \/ yield_now \/ exit_current \/ block_current
        \/ \E p \in Pid : unblock(p)
     /\ Count(0)

(* FairSpec with the history variable. *)
TimedSpec ==
  TimedInit /\ [][TimedNext]_<<vars, waited>> /\ WF_<<vars, waited>>(tick /\ Count(1))

(***************************************************************************)
(* The quantitative side of "everyone gets the same slice": a ready task   *)
(* waits for at most one whole turn of every other task, the idle task's   *)
(* included, since unblock does not preempt it.                            *)
(***************************************************************************)
BoundedWait ==
  \A p \in Queued : waited[p] < MapThenSumSet(turn, Pid \ {p})
=============================================================================
