---------------------------- MODULE MigrationPage ----------------------------
(***************************************************************************)
(* The data of the Safe Mode hand-off and the pure functions on it: the    *)
(* operator's edits of a threshold set and their validation                *)
(* (safemode/sentinel_config.rs), the sealed MigrationBuffer, and the      *)
(* classification of the buffer found at boot (sentinel/migration.rs).     *)
(*                                                                         *)
(* A threshold set keeps the three response tiers, the only fields a       *)
(* cross-field rule relates; the four signal gates and the window width    *)
(* take the same path through every function here and are left out.  Level *)
(* stands for the values a tier may take, OutOfRange for one that apply_set*)
(* refuses.  SHA-256 is taken as injective: the checksum of a payload is   *)
(* the payload.                                                            *)
(***************************************************************************)
EXTENDS Naturals

CONSTANTS MaxLevel,   \* tier thresholds are 0 .. MaxLevel
          MaxStamp    \* bound on MONOTONIC within one boot

ASSUME MaxLevelAssumption == MaxLevel \in Nat \ {0}
ASSUME MaxStampAssumption == MaxStamp \in Nat \ {0}

Key == {"soft", "medium", "hard"}
Level == 0 .. MaxLevel
OutOfRange == MaxLevel + 1
Thresholds == [Key -> Level]

\* A default that validates, with room to move every tier both ways.
default_config == [k \in Key |-> IF k = "hard" THEN MaxLevel ELSE 0]

MIGRATION_VERSION == 1
Stamp == 0 .. MaxStamp

-----------------------------------------------------------------------------
(* Editing and validation. *)

\* The operator's edit, or the unchanged set when the value is refused.
apply_set(base, key, v) ==
    IF v \in Level THEN [base EXCEPT ![key] = v] ELSE base

validate_config(t) ==
    /\ t["soft"] <= t["medium"]
    /\ t["medium"] <= t["hard"]

thresholds_differ(a, b) == a # b

-----------------------------------------------------------------------------
(* The page at MIGRATION_BUFFER_ADDR. *)

Payload == [magic : BOOLEAN, version : {MIGRATION_VERSION, MIGRATION_VERSION + 1},
            dirty : BOOLEAN, config : Thresholds, timestamp : Stamp]

\* magic says whether the word is MIGRATION_MAGIC.  The checksum is the set of
\* payloads it is the digest of: one, or none for bytes that are no digest.
payload(b) == [magic |-> b.magic, version |-> b.version, dirty |-> b.dirty,
               config |-> b.config, timestamp |-> b.timestamp]

seal(p) == [magic |-> p.magic, version |-> p.version, dirty |-> p.dirty,
            config |-> p.config, timestamp |-> p.timestamp, checksum |-> {payload(p)}]

\* Bug: dirtiness is taken after the save became the baseline.
sealed_as_clean(t, dirty, stamp) ==
    seal([magic |-> TRUE, version |-> MIGRATION_VERSION, dirty |-> FALSE,
          config |-> t, timestamp |-> stamp])

sealed_from_thresholds(t, dirty, stamp) ==
    seal([magic |-> TRUE, version |-> MIGRATION_VERSION, dirty |-> dirty,
          config |-> t, timestamp |-> stamp])

\* Uninitialised DRAM after a cold boot: no magic.
ColdPage == [magic |-> FALSE, version |-> MIGRATION_VERSION, dirty |-> FALSE,
             config |-> default_config, timestamp |-> 0, checksum |-> {}]

\* A page that an incompatible Safe Mode build sealed.
ForeignPage == seal([magic |-> TRUE, version |-> MIGRATION_VERSION + 1, dirty |-> TRUE,
                     config |-> default_config, timestamp |-> 1])

Page == [magic : BOOLEAN, version : {MIGRATION_VERSION, MIGRATION_VERSION + 1},
         dirty : BOOLEAN, config : Thresholds, timestamp : Stamp,
         checksum : {{}} \cup {{p} : p \in Payload}]

\* The words a volatile store of new over old writes; done are those that a
\* reset in the middle of the store has let through.
Word == {"magic", "flags", "soft", "medium", "hard", "timestamp", "sum_lo", "sum_hi"}

torn(old, new, done) ==
    [magic     |-> IF "magic" \in done THEN new.magic ELSE old.magic,
     version   |-> IF "flags" \in done THEN new.version ELSE old.version,
     dirty     |-> IF "flags" \in done THEN new.dirty ELSE old.dirty,
     config    |-> [k \in Key |-> IF k \in done THEN new.config[k] ELSE old.config[k]],
     timestamp |-> IF "timestamp" \in done THEN new.timestamp ELSE old.timestamp,
     checksum  |-> IF {"sum_lo", "sum_hi"} \subseteq done THEN new.checksum
                   ELSE IF {"sum_lo", "sum_hi"} \cap done = {} THEN old.checksum
                   ELSE old.checksum \cap new.checksum]

-----------------------------------------------------------------------------
(* What the boot-time migration makes of the page it finds. *)

\* Bug: the checksum is not compared.
decide_unchecked(b) ==
    IF ~b.magic THEN "NoBuffer"
    ELSE IF b.version # MIGRATION_VERSION THEN "version"
    ELSE IF ~b.dirty THEN "NoChange"
    ELSE "Apply"

decide(b) ==
    IF ~b.magic THEN "NoBuffer"
    ELSE IF b.version # MIGRATION_VERSION THEN "version"
    ELSE IF b.checksum # {payload(b)} THEN "checksum"
    ELSE IF ~b.dirty THEN "NoChange"
    ELSE "Apply"

Rejects(b) == decide(b) \in {"version", "checksum"}
=============================================================================
