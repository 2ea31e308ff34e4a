---------------------------- MODULE AgentRegistry ----------------------------
(***************************************************************************)
(* The registry of sentinel/handshake.rs: one record per registered agent, *)
(* behind a SpinLock, so every method is one step.  The registry has no    *)
(* caller in the tree; any of its methods may be called at any time, by    *)
(* any number of callers.                                                  *)
(***************************************************************************)
EXTENDS Naturals

CONSTANTS
  Agent,     \* well-formed agent ids
  BadAgent,  \* an id that validate refuses: empty, or longer than 128 bytes
  MaxNow,    \* bound on the clock callers pass
  Interval   \* heartbeat intervals requested; 0 stands for one out of range

AgentAssumption == BadAgent \notin Agent /\ MaxNow \in Nat /\ Interval \subseteq Nat

PermissionTier == {"ReadOnly", "Write", "Execute"}
Now == 0 .. MaxNow

VARIABLES
  records,      \* Registry.inner: [id -> AgentRecord], ids registered only
  now           \* the clock

vars == <<records, now>>

Registered == DOMAIN records
AgentRecord == [tier : PermissionTier, original_tier : PermissionTier, heartbeat_interval_secs : Nat,
                registered_at : Now, last_heartbeat : Now, locked : BOOLEAN]

\* Only well-formed ids with an interval in range are registered, and a record
\* was not heard from before it was made.
TypeOK ==
  /\ Registered \subseteq Agent
  /\ \A a \in Registered :
       /\ records[a] \in AgentRecord
       /\ records[a].heartbeat_interval_secs # 0
       /\ records[a].registered_at <= records[a].last_heartbeat
       /\ records[a].last_heartbeat <= now
  /\ now \in Now

Init == records = [a \in {} |-> 0] /\ now = 0

Put(a, rec) == records' = [b \in Registered \cup {a} |-> IF b = a THEN rec ELSE records[b]]

validate(id, interval) == id \in Agent /\ interval # 0

\* Bug: a known id is registered again.
register_again(id, tier, interval) ==
  /\ validate(id, interval)
  /\ Put(id, [tier |-> tier, original_tier |-> tier, heartbeat_interval_secs |-> interval,
              registered_at |-> now, last_heartbeat |-> now, locked |-> FALSE])
  /\ UNCHANGED now

\* The interval validate let through is in range, so the clamp keeps it.
register(id, tier, interval) ==
  /\ validate(id, interval) /\ id \notin Registered
  /\ Put(id, [tier |-> tier, original_tier |-> tier, heartbeat_interval_secs |-> interval,
              registered_at |-> now, last_heartbeat |-> now, locked |-> FALSE])
  /\ UNCHANGED now

heartbeat(a) ==
  /\ Put(a, [records[a] EXCEPT !.last_heartbeat = now])
  /\ UNCHANGED now

set_tier(a, tier) ==
  /\ Put(a, [records[a] EXCEPT !.tier = tier])
  /\ UNCHANGED now

lock(a) ==
  /\ Put(a, [records[a] EXCEPT !.locked = TRUE, !.tier = "ReadOnly"])
  /\ UNCHANGED now

deregister(a) ==
  /\ records' = [b \in Registered \ {a} |-> records[b]]
  /\ UNCHANGED now

Clock == now < MaxNow /\ now' = now + 1 /\ UNCHANGED records

Next ==
  \/ \E id \in Agent \cup {BadAgent}, tier \in PermissionTier, interval \in Interval :
       register(id, tier, interval)
  \/ \E a \in Registered : heartbeat(a) \/ lock(a) \/ deregister(a)
  \/ \E a \in Registered, tier \in PermissionTier : set_tier(a, tier)
  \/ Clock

Spec == Init /\ [][Next]_vars

-----------------------------------------------------------------------------
\* "Agents do not get to reset their record": as long as an agent stays
\* registered, what it registered with is kept and its lock is not lifted.
NoReset ==
  [][\A a \in Registered \cap Registered' :
       /\ records'[a].original_tier = records[a].original_tier
       /\ records'[a].registered_at = records[a].registered_at
       /\ records[a].locked => records'[a].locked]_vars
=============================================================================
