----------------------------- MODULE MCSentinel -----------------------------
(***************************************************************************)
(* The Sentinel's tables in the kernel: the audit trail behind its gate,   *)
(* the agent registry and the degradation monitor.  They share no state,   *)
(* and each is behind its own lock, so a behaviour works on one of them:   *)
(* the runs of their product are the shuffles of these.                    *)
(*                                                                         *)
(* The monitor has the default thresholds with a window of two, and a      *)
(* stricter set with a window of one; observations that are unremarkable,  *)
(* that repeat, that announce without acting, that stall, and that retry a *)
(* tool call.                                                              *)
(***************************************************************************)
EXTENDS AuditTrail, TLC

CONSTANTS
  Part,                              \* which tables the behaviours work on
  Agent, BadAgent, MaxNow, Interval, \* AgentRegistry
  Watched, Thread, Configs, Observations, Injected   \* Monitor

\* An agent id without and one with a '|'.
MCActor == {<<"a1">>, <<"a", "b">>}

VARIABLES part, records, now, cfg, state, call, clean

MCConfigs ==
  {[repetition |-> 6, self_referential |-> 5, token_velocity |-> 5, tool_retry |-> 4,
    soft |-> 4, medium |-> 7, hard |-> 9, window |-> 2],
   [repetition |-> 3, self_referential |-> 10, token_velocity |-> 5, tool_retry |-> 4,
    soft |-> 2, medium |-> 3, hard |-> 4, window |-> 1]}

Plain == [hash |-> 1, tokens |-> 1, announced |-> FALSE, tool |-> 0, advanced |-> TRUE]

MCObservations ==
  {[Plain EXCEPT !.hash = h] : h \in 1 .. 3}
    \cup {[Plain EXCEPT !.announced = TRUE], [Plain EXCEPT !.tool = 7],
          [Plain EXCEPT !.advanced = FALSE, !.tokens = 2]}

MCInjected == {[kind |-> "repetition", score |-> <<1, 4>>], [kind |-> "tool_retry", score |-> <<2, 1>>]}

Registry == INSTANCE AgentRegistry
Degradation == INSTANCE Monitor WITH Agent <- Watched

ASSUME RegistryParameters == Registry!AgentAssumption
ASSUME MonitorParameters == Degradation!ConfigAssumption

registryVars == <<records, now>>
monitorVars == <<cfg, state, call, clean>>

SentinelInit ==
  /\ part \in Part
  /\ Init /\ Registry!Init /\ Degradation!Init
  /\ part = "monitor" \/ cfg.window = 2

SentinelNext ==
  /\ UNCHANGED part
  /\ \/ part = "audit" /\ Next /\ UNCHANGED <<registryVars, monitorVars>>
     \/ part = "registry" /\ Registry!Next /\ UNCHANGED <<vars, monitorVars>>
     \/ part = "monitor" /\ Degradation!Next /\ UNCHANGED <<vars, registryVars>>

SentinelSpec == SentinelInit /\ [][SentinelNext]_<<part, vars, registryVars, monitorVars>>

ThreadSymmetry == Permutations(Thread)

-----------------------------------------------------------------------------
\* AgentRegistry: no call on the registry resets the record of an agent that
\* stays registered.
NoReset == Registry!NoReset

\* Monitor: a window of unremarkable observations ends every response, and
\* signals that all stay under their gates trip none.
NoResponseWithoutCause == Degradation!NoResponseWithoutCause
=============================================================================
