---------------------------- MODULE SafeModeShell ----------------------------
(***************************************************************************)
(* The terminal the gkern-safemode binary really enters                    *)
(* (safemode/main.rs, safemode/mod.rs): it edits a working SentinelConfig  *)
(* and `commit` publishes it to SENTINEL_MIGRATION_BLOCK, a static of the  *)
(* Safe Mode image.  The main OS then boots as in SafeModeHandoff: its     *)
(* migration::run reads the page at MIGRATION_BUFFER_ADDR, which this      *)
(* terminal never writes.                                                  *)
(***************************************************************************)
EXTENDS MigrationPage

CONSTANT MaxCommits   \* bound on MigrationBlock.sequence

VARIABLES
    phase,      \* "off", "terminal", "booting", "running", "halted"
    config,     \* the working copy
    block,      \* SENTINEL_MIGRATION_BLOCK
    page,       \* MIGRATION_BUFFER_ADDR
    monitor,    \* MONITOR.thresholds() of the main OS
    published   \* history: what the operator committed since the main OS ran

vars == <<phase, config, block, page, monitor, published>>

\* The additive checksum is kept as the function it is of the config: the sum
\* of its fields.
checksum(c) == c["soft"] + c["medium"] + c["hard"]

EMPTY == [magic |-> FALSE, sequence |-> 0, config |-> default_config,
          checksum |-> 0, committed |-> FALSE]

Init ==
    /\ phase = "off"
    /\ config = default_config /\ monitor = default_config
    /\ block = EMPTY
    /\ page = ColdPage
    /\ published = {}

-----------------------------------------------------------------------------
\* kernel_main of gkern-safemode: memory::init may fail; else run.
run ==
    /\ phase = "off"
    /\ phase' \in {"terminal", "halted"}
    /\ config' = default_config
    /\ UNCHANGED <<block, page, monitor, published>>

\* Range checks only: an unordered ladder is warned about and kept.
cmd_set ==
    /\ phase = "terminal"
    /\ \E k \in Key, v \in Level \cup {OutOfRange} : config' = apply_set(config, k, v)
    /\ UNCHANGED <<phase, block, page, monitor, published>>

cmd_reset ==
    /\ phase = "terminal"
    /\ config' = default_config
    /\ UNCHANGED <<phase, block, page, monitor, published>>

next_sequence(prev) == IF prev.magic THEN prev.sequence + 1 ELSE 1

commit(c) ==
    block' = [magic |-> TRUE, sequence |-> next_sequence(block), config |-> c,
              checksum |-> checksum(c), committed |-> TRUE]

cmd_commit ==
    /\ phase = "terminal"
    /\ block.sequence < MaxCommits
    /\ commit(config)
    /\ published' = {config}
    /\ UNCHANGED <<phase, config, page, monitor>>

\* The operator resets the machine; the loader loads a fresh image.
Reboot ==
    /\ phase # "off"
    /\ phase' = "off"
    /\ block' = EMPTY
    /\ monitor' = default_config
    /\ published' = IF phase = "running" THEN {} ELSE published
    /\ UNCHANGED <<config, page>>

StartMain ==
    /\ phase = "off"
    /\ phase' = "booting"
    /\ UNCHANGED <<config, block, page, monitor, published>>

\* kernel_main of gkern around migration::run.
BootMain ==
    /\ phase = "booting"
    /\ \/ phase' = "halted" /\ UNCHANGED monitor
       \/ ~Rejects(page) /\ phase' = "running"
          /\ monitor' = IF decide(page) = "Apply" THEN page.config ELSE monitor
    /\ UNCHANGED <<config, block, page, published>>

Next == run \/ cmd_set \/ cmd_reset \/ cmd_commit \/ Reboot \/ StartMain \/ BootMain

Spec == Init /\ [][Next]_vars

-----------------------------------------------------------------------------
\* What cmd_commit tells the operator: "The standard OS will detect and
\* migrate this on next boot."
CommitIsMigrated ==
    phase = "running" => \A c \in published : monitor = c
=============================================================================
