--------------------------- MODULE SafeModeHandoff ---------------------------
(***************************************************************************)
(* From the operator's keystrokes in Safe Mode to the thresholds the main  *)
(* OS runs with: ConfigSession and run_safe_mode_console                   *)
(* (safemode/sentinel_config.rs), the migration page that survives a warm  *)
(* reset, migration::run (sentinel/migration.rs) and its place in          *)
(* kernel_main (main.rs).  The machine may be reset at any step, also in   *)
(* the middle of the multi-word store of the page, and a cold boot loses   *)
(* the page.  MONITOR, AUDIT and MONOTONIC are statics: every boot, of     *)
(* Safe Mode as of the main OS, starts with their initial values.          *)
(***************************************************************************)
EXTENDS MigrationPage, Sequences

VARIABLES
    phase,      \* "off"; Safe Mode: "console", "saving", "exited";
                \* main OS: "booting", "applied", "clearing", "migrated",
                \* "running", "halted"
    page,       \* MIGRATION_BUFFER_ADDR
    storing,    \* the buffer write_to_fixed_address is storing
    original, working, pending, committed,   \* ConfigSession
    monotonic,  \* MONOTONIC
    monitor,    \* MONITOR.thresholds()
    audit,      \* AUDIT of this boot: <<action, checksum>>
    confirmed   \* history: the sets the operator confirmed a save of

session == <<original, working, pending, committed>>
vars == <<phase, page, storing, session, monotonic, monitor, audit, confirmed>>

Phase == {"off", "console", "saving", "exited", "booting", "applied", "clearing",
          "migrated", "running", "halted"}

TypeOK ==
    /\ phase \in Phase
    /\ page \in Page /\ storing \in Page
    /\ {original, working, monitor} \subseteq Thresholds
    /\ pending \in {"None", "SaveConfirm", "ExitConfirm"}
    /\ committed \in BOOLEAN
    /\ monotonic \in Stamp
    /\ Len(audit) <= 1
    /\ confirmed \subseteq Thresholds

Init ==
    /\ phase = "off"
    /\ page \in {ColdPage, ForeignPage}
    /\ storing = page
    /\ original = default_config /\ working = default_config
    /\ pending = "None" /\ committed = FALSE
    /\ monotonic = 1
    /\ monitor = default_config
    /\ audit = <<>>
    /\ confirmed = {}

-----------------------------------------------------------------------------
(* Power.  Whatever ends a boot, only the page outlives it. *)

Statics ==
    /\ monotonic' = 1
    /\ monitor' = default_config
    /\ audit' = <<>>
    /\ original' = default_config /\ working' = default_config
    /\ pending' = "None" /\ committed' = FALSE
    /\ UNCHANGED confirmed

\* ConfigSession::new over the live thresholds of the Safe Mode image.
StartSafeMode ==
    /\ phase = "off"
    /\ phase' = "console"
    /\ original' = monitor /\ working' = monitor
    /\ UNCHANGED <<page, storing, pending, committed, monotonic, monitor, audit, confirmed>>

StartMain ==
    /\ phase = "off"
    /\ phase' = "booting"
    /\ UNCHANGED <<page, storing, session, monotonic, monitor, audit, confirmed>>

\* A warm reset: RAM keeps the page, or what of it the store got to.
Reset ==
    /\ phase # "off"
    /\ phase' = "off"
    /\ IF phase \in {"saving", "clearing"}
       THEN \E done \in SUBSET Word : page' = torn(page, storing, done)
       ELSE UNCHANGED page
    /\ storing' = page'
    /\ Statics

PowerCycle ==
    /\ phase' = "off"
    /\ page' = ColdPage /\ storing' = ColdPage
    /\ Statics

-----------------------------------------------------------------------------
(* The Safe Mode console.  Every line entered samples monotonic_now. *)

monotonic_now == monotonic' = monotonic + 1

is_dirty == thresholds_differ(working, original)

Line ==
    /\ phase = "console"
    /\ monotonic < MaxStamp
    /\ monotonic_now
    /\ UNCHANGED <<page, monitor, audit>>

cmd_set ==
    /\ Line /\ pending = "None"
    /\ \E k \in Key, v \in Level \cup {OutOfRange} : working' = apply_set(working, k, v)
    /\ UNCHANGED <<phase, storing, original, pending, committed, confirmed>>

cmd_save ==
    /\ Line /\ pending = "None"
    /\ pending' = IF is_dirty /\ validate_config(working) THEN "SaveConfirm" ELSE "None"
    /\ UNCHANGED <<phase, storing, original, working, committed, confirmed>>

\* show, help, a blank or an unknown line.
other_line ==
    /\ Line /\ pending = "None"
    /\ UNCHANGED <<phase, storing, session, confirmed>>

resolve_save_confirm ==
    /\ Line /\ pending = "SaveConfirm"
    /\ pending' = "None"
    /\ \E line \in {"yes", "other"} :
         IF line = "yes" /\ validate_config(working)
         THEN /\ storing' = sealed_from_thresholds(working, is_dirty, monotonic)
              /\ original' = working
              /\ committed' = TRUE
              /\ phase' = "saving"
              /\ confirmed' = confirmed \cup {working}
         ELSE UNCHANGED <<phase, storing, original, committed, confirmed>>
    /\ UNCHANGED working

\* The console stores the sealed buffer and prompts for the next line.
SaveStored ==
    /\ phase = "saving"
    /\ page' = storing
    /\ phase' = "console"
    /\ UNCHANGED <<storing, session, monotonic, monitor, audit, confirmed>>

cmd_exit ==
    /\ Line /\ pending = "None"
    /\ IF is_dirty
       THEN pending' = "ExitConfirm" /\ UNCHANGED phase
       ELSE phase' = "exited" /\ UNCHANGED pending
    /\ UNCHANGED <<storing, original, working, committed, confirmed>>

resolve_exit_confirm ==
    /\ Line /\ pending = "ExitConfirm"
    /\ pending' = "None"
    /\ phase' \in {"console", "exited"}
    /\ UNCHANGED <<storing, original, working, committed, confirmed>>

-----------------------------------------------------------------------------
(* Booting the main OS. *)

record(action) == audit' = Append(audit, <<action, page.checksum>>)

\* Bug: the dirty flag is cleared in the page without sealing it again.
cleared_unsealed(b) == [b EXCEPT !.dirty = FALSE]

cleared(b) == seal([b EXCEPT !.dirty = FALSE])

memory_init_fails ==
    /\ phase = "booting"
    /\ phase' = "halted"
    /\ UNCHANGED <<page, storing, session, monotonic, monitor, audit, confirmed>>

\* Bug: the buffer is cleared first and applied after.
set_thresholds_late ==
    /\ phase' = "clearing"
    /\ UNCHANGED monitor

\* Bug: the apply is neither read back nor audited.
set_thresholds_unaudited ==
    /\ phase' = "clearing"
    /\ monitor' = page.config

set_thresholds ==
    /\ phase' = "applied"
    /\ monitor' = page.config

run ==
    /\ phase = "booting"
    /\ \/ decide(page) = "NoBuffer" /\ phase' = "migrated" /\ UNCHANGED <<audit, monitor>>
       \/ decide(page) = "NoChange" /\ phase' = "migrated" /\ record("noop") /\ UNCHANGED monitor
       \/ decide(page) = "Apply" /\ set_thresholds /\ UNCHANGED audit
       \/ Rejects(page) /\ phase' = "halted" /\ record("reject") /\ UNCHANGED monitor
    /\ storing' = IF decide(page) = "Apply" THEN cleared(page) ELSE storing
    /\ UNCHANGED <<page, session, monotonic, confirmed>>

\* The read-back must agree; then the apply is audited and the store begins.
run_audit ==
    /\ phase = "applied"
    /\ IF thresholds_differ(monitor, page.config)
       THEN record("reject") /\ phase' = "halted"
       ELSE record("apply") /\ phase' = "clearing"
    /\ UNCHANGED <<page, storing, session, monotonic, monitor, confirmed>>

run_clear ==
    /\ phase = "clearing"
    /\ page' = storing
    /\ phase' = "migrated"
    /\ UNCHANGED <<storing, session, monotonic, monitor, audit, confirmed>>

\* fs, drivers, scheduler and syscall; scheduler::init may fail.
init_rest ==
    /\ phase = "migrated"
    /\ phase' \in {"running", "halted"}
    /\ UNCHANGED <<page, storing, session, monotonic, monitor, audit, confirmed>>

BootStep == run \/ run_audit \/ run_clear \/ init_rest

Next ==
    \/ StartSafeMode \/ StartMain \/ Reset \/ PowerCycle
    \/ cmd_set \/ cmd_save \/ other_line \/ resolve_save_confirm \/ SaveStored
    \/ cmd_exit \/ resolve_exit_confirm
    \/ memory_init_fails \/ BootStep

Spec == Init /\ [][Next]_vars

\* Boot code runs to its end unless the machine is reset.
FairSpec == Spec /\ WF_vars(BootStep) /\ WF_vars(SaveStored)

-----------------------------------------------------------------------------
(* Correctness. *)

\* No partial apply (SAFE_MODE.md, 5.3): the OS only ever runs under the
\* compiled-in thresholds or under exactly one set that the operator
\* confirmed and that validates, whatever a reset left of the page; and
\* kernel_main gets past migration::run only when the page holds neither a
\* change still to apply nor bytes to reject.
OnlyConfirmedConfigsRun ==
    /\ phase = "running" =>
         monitor = default_config \/ (monitor \in confirmed /\ validate_config(monitor))
    /\ phase \in {"migrated", "running"} => decide(page) \in {"NoBuffer", "NoChange"}

\* Thresholds other than the defaults are in force only under an audit entry
\* of this boot that carries the checksum of exactly that set.
AppliedIsAudited ==
    phase \in {"migrated", "running"} /\ monitor # default_config =>
        \E i \in DOMAIN audit :
            /\ audit[i][1] = "apply"
            /\ \A p \in audit[i][2] : p.config = monitor /\ p.dirty

\* A staged change leaves the page only by being applied and audited, by a
\* later save, or with the machine's memory: a reset anywhere in
\* migration::run, its own store of the page apart, costs nothing.
StagedChangeKept ==
    [][decide(page) = "Apply" /\ page' # page =>
         \/ phase = "saving"
         \/ page' = ColdPage
         \/ monitor = page.config /\ audit # <<>> /\ audit[1][1] = "apply"]_vars

\* A save that was stored is a change the next boot will apply, also over a
\* page that boot has been rejecting: Safe Mode can always repair it.
SaveIsAccepted ==
    [][phase = "saving" /\ phase' = "console" =>
         decide(page') = "Apply" /\ page'.config = original]_vars

\* A main-OS boot that finds a staged change runs under it, unless it is reset
\* or a subsystem fails to initialise.
StagedChangeTakesEffect ==
    \A c \in Thresholds :
        (phase = "booting" /\ decide(page) = "Apply" /\ page.config = c)
            ~> (phase = "running" /\ monitor = c) \/ phase \in {"off", "halted"}

-----------------------------------------------------------------------------
(* A claim of the documentation that the code does not meet. *)

\* SAFE_MODE.md says that boot compares what Safe Mode last wrote with the
\* running configuration and reconciles any difference before login.
RunsWhatSafeModeLastWrote ==
    phase = "running" /\ decide(page) = "NoChange" => monitor = page.config
=============================================================================
