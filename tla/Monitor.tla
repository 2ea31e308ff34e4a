------------------------------- MODULE Monitor -------------------------------
(***************************************************************************)
(* The degradation monitor of sentinel/monitor.rs: per agent a window of   *)
(* observations, the last score of each signal, and the response tier.     *)
(* observe and record_signal copy the thresholds under one lock and update *)
(* the agent's buffer under another, so a configuration change may come    *)
(* between the two.                                                        *)
(*                                                                         *)
(* Scores are exact fractions <<n, d>> where the code has f32; thresholds  *)
(* are tenths.  Token counts are multiples of 256, the unit of the         *)
(* token-velocity score.                                                   *)
(***************************************************************************)
EXTENDS Naturals, Sequences, FiniteSets

CONSTANTS
  Agent, Thread,
  Configs,       \* configurations Safe Mode may have installed
  Observations,  \* what the output hook may report
  Injected       \* signals an external detector may inject: [kind, score]

SignalKind == {"repetition", "self_referential", "token_velocity", "tool_retry"}

\* What validate_config accepts of a configuration, and the width of its window.
ConfigAssumption ==
  /\ \A c \in Configs :
       /\ c.window \in Nat \ {0} /\ \A k \in SignalKind : c[k] \in 0 .. 10
       /\ c.soft \in 0 .. 10 /\ c.medium \in c.soft .. 10 /\ c.hard \in c.medium .. 10
  /\ \E c \in Configs : \A d \in Configs : d.window <= c.window
  /\ \A o \in Observations : o.tokens \in Nat

ResponseTier == {"None", "Soft", "Medium", "Hard"}
Zero == <<0, 1>>
One == <<1, 1>>

VARIABLES
  cfg,       \* Monitor.cfg
  state,     \* Monitor.state: [id -> AgentBuffer]
  call,      \* per thread: the call that has copied cfg, or none
  clean      \* history: how many observations in a row were unremarkable

vars == <<cfg, state, call, clean>>

WindowMax == CHOOSE w \in {c.window : c \in Configs} : \A c \in Configs : c.window <= w
NoCall == [op |-> "none"]
AgentBuffer_new == [observations |-> <<>>, last |-> [k \in SignalKind |-> Zero], tier |-> "None"]

-----------------------------------------------------------------------------
(* The scores of a window. *)

ToolCalls(obs) == {i \in DOMAIN obs : obs[i].tool # 0}

repetition_score(obs) ==
  LET dups == {i \in DOMAIN obs : \E j \in DOMAIN obs : j < i /\ obs[j].hash = obs[i].hash}
  IN  IF Len(obs) < 2 THEN Zero ELSE <<Cardinality(dups), Len(obs)>>

self_referential_score(obs) ==
  IF obs = <<>> THEN Zero ELSE <<Cardinality({i \in DOMAIN obs : obs[i].announced}), Len(obs)>>

total_tokens(obs) ==
  LET sum[i \in 0 .. Len(obs)] == IF i = 0 THEN 0 ELSE sum[i - 1] + obs[i].tokens
  IN  sum[Len(obs)]

\* min(tokens per observation / 256, 1) * (1 - progress rate)
token_velocity_score(obs) ==
  LET tokens == total_tokens(obs)
      stalled == Cardinality({i \in DOMAIN obs : ~obs[i].advanced})
  IN  IF obs = <<>> \/ tokens = 0 THEN Zero
      ELSE <<(IF tokens < Len(obs) THEN tokens ELSE Len(obs)) * stalled, Len(obs) * Len(obs)>>

tool_retry_score(obs) ==
  LET calls == ToolCalls(obs)
      dups == {i \in calls : \E j \in calls : j < i /\ obs[j].tool = obs[i].tool}
  IN  IF Len(obs) < 2 \/ Cardinality(calls) < 2 THEN Zero ELSE <<Cardinality(dups), Cardinality(calls)>>

scores(obs) ==
  [repetition |-> repetition_score(obs), self_referential |-> self_referential_score(obs),
   token_velocity |-> token_velocity_score(obs), tool_retry |-> tool_retry_score(obs)]

\* Bug: a signal under its gate contributes its whole score.
contrib_ungated(s, gate) == s

\* Nothing below the gate; above it the excess, rescaled to [0, 1].
contrib(s, gate) ==
  IF 10 * s[1] < gate * s[2] THEN Zero
  ELSE IF gate >= 10 THEN One
  ELSE <<10 * s[1] - gate * s[2], s[2] * (10 - gate)>>

Plus(x, y) == <<x[1] * y[2] + y[1] * x[2], x[2] * y[2]>>

combine(last, c) ==
  LET total == Plus(Plus(contrib(last["repetition"], c.repetition),
                         contrib(last["self_referential"], c.self_referential)),
                    Plus(contrib(last["token_velocity"], c.token_velocity),
                         contrib(last["tool_retry"], c.tool_retry)))
  IN  IF total[1] > total[2] THEN One ELSE total

tier_for(cumulative, c) ==
  LET Reaches(t) == 10 * cumulative[1] >= t * cumulative[2]
  IN  IF Reaches(c.hard) THEN "Hard" ELSE IF Reaches(c.medium) THEN "Medium"
      ELSE IF Reaches(c.soft) THEN "Soft" ELSE "None"

-----------------------------------------------------------------------------
Init ==
  /\ cfg \in Configs
  /\ state = [a \in {} |-> AgentBuffer_new]
  /\ call = [t \in Thread |-> NoCall]
  /\ clean = [a \in Agent |-> 0]

TypeOK ==
  /\ cfg \in Configs
  /\ DOMAIN state \subseteq Agent
  /\ \A a \in DOMAIN state :
       /\ state[a].observations \in Seq(Observations)
       /\ \E c \in Configs : Len(state[a].observations) <= c.window
       /\ state[a].tier \in ResponseTier
       /\ \A k \in SignalKind : state[a].last[k][1] <= state[a].last[k][2]

set_thresholds(c) ==
  /\ cfg' = c
  /\ UNCHANGED <<state, call, clean>>

\* observe and record_signal up to the release of the first lock.
read_cfg(t, op, a, arg) ==
  /\ call[t] = NoCall
  /\ call' = [call EXCEPT ![t] = [op |-> op, agent |-> a, arg |-> arg, cfg |-> cfg]]
  /\ UNCHANGED <<cfg, state, clean>>

\* or_insert_with(AgentBuffer::new)
buffer(a) == IF a \in DOMAIN state THEN state[a] ELSE AgentBuffer_new
Update(a, buf) == state' = [b \in DOMAIN state \cup {a} |-> IF b = a THEN buf ELSE state[b]]

window(obs, width) == IF Len(obs) > width THEN SubSeq(obs, Len(obs) - width + 1, Len(obs)) ELSE obs

Unremarkable(o, obs) ==
  o.advanced /\ ~o.announced /\ o.tool = 0 /\ \A i \in DOMAIN obs : obs[i].hash # o.hash

\* Bug: the scores of earlier observations are kept when they were higher.
observe_sticky(t) ==
  /\ call[t].op = "observe"
  /\ LET a == call[t].agent
         obs == window(Append(buffer(a).observations, call[t].arg), call[t].cfg.window)
         last == [k \in SignalKind |->
                    IF scores(obs)[k][1] * buffer(a).last[k][2] >= buffer(a).last[k][1] * scores(obs)[k][2]
                    THEN scores(obs)[k] ELSE buffer(a).last[k]]
     IN  /\ Update(a, [observations |-> obs, last |-> last,
                       tier |-> tier_for(combine(last, call[t].cfg), call[t].cfg)])
         /\ clean' = [clean EXCEPT ![a] = IF ~Unremarkable(call[t].arg, buffer(a).observations) THEN 0
                                          ELSE IF @ < WindowMax THEN @ + 1 ELSE @]
  /\ call' = [call EXCEPT ![t] = NoCall]
  /\ UNCHANGED cfg

observe(t) ==
  /\ call[t].op = "observe"
  /\ LET a == call[t].agent
         obs == window(Append(buffer(a).observations, call[t].arg), call[t].cfg.window)
     IN  /\ Update(a, [observations |-> obs, last |-> scores(obs),
                       tier |-> tier_for(combine(scores(obs), call[t].cfg), call[t].cfg)])
         /\ clean' = [clean EXCEPT ![a] = IF ~Unremarkable(call[t].arg, buffer(a).observations) THEN 0
                                          ELSE IF @ < WindowMax THEN @ + 1 ELSE @]
  /\ call' = [call EXCEPT ![t] = NoCall]
  /\ UNCHANGED cfg

\* The score is clamped to [0, 1].
record_signal(t) ==
  /\ call[t].op = "record_signal"
  /\ LET a == call[t].agent
         score == call[t].arg.score
         last == [buffer(a).last EXCEPT ![call[t].arg.kind] = IF score[1] > score[2] THEN One ELSE score]
     IN  /\ Update(a, [observations |-> buffer(a).observations, last |-> last,
                       tier |-> tier_for(combine(last, call[t].cfg), call[t].cfg)])
         /\ clean' = [clean EXCEPT ![a] = 0]
  /\ call' = [call EXCEPT ![t] = NoCall]
  /\ UNCHANGED cfg

forget(a) ==
  /\ state' = [b \in DOMAIN state \ {a} |-> state[b]]
  /\ clean' = [clean EXCEPT ![a] = 0]
  /\ UNCHANGED <<cfg, call>>

Next ==
  \/ \E c \in Configs : set_thresholds(c)
  \/ \E t \in Thread, a \in Agent :
       \/ \E o \in Observations : read_cfg(t, "observe", a, o)
       \/ \E s \in Injected : read_cfg(t, "record_signal", a, s)
  \/ \E t \in Thread : observe(t) \/ record_signal(t)
  \/ \E a \in Agent : forget(a)

Spec == Init /\ [][Next]_vars

-----------------------------------------------------------------------------
\* "a single bad observation does not pin the cumulative score forever": after
\* as many unremarkable observations as the window holds the tier is that of a
\* score of zero, whatever was observed or injected before and however calls
\* overlapped with a change of the configuration.  And "we want a signal below
\* its gate to contribute nothing": the same while every signal is under its
\* gate in every configuration.  That tier is None unless Safe Mode has set soft
\* to zero, which tier_for reaches with any score.
NoResponseWithoutCause ==
  \A a \in DOMAIN state :
    \/ clean[a] >= WindowMax
    \/ \A k \in SignalKind, c \in Configs : 10 * state[a].last[k][1] < c[k] * state[a].last[k][2]
    => \E c \in Configs : state[a].tier = tier_for(Zero, c)
=============================================================================
